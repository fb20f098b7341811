----------------------------- MODULE MCDirectory -----------------------------
(* All operations of the directory, in every order, on topics that share trie
   nodes: a topic and its prefix, a word and "**" at the same place.  Matching
   alone is checked for every pair of patterns of up to MaxPath segments. *)
EXTENDS Directory

CONSTANT MaxPath

(* TLC evaluates a definition once, but what replaces a constant at each use. *)
TopicSet == {<<"p">>, <<"p", "a">>, <<"p", "**">>}
ConcreteSet == {t \in TopicSet : IsConcrete(t)}
WordSet == {"p", "a", "b"}
Matching == MatchRelation(TopicSet, WordsOver({"p"}, {"a", "b"}, 4))

MCTopics == TopicSet
MCWords == WordSet
MCConcrete == ConcreteSet
MCMatch == Matching

Patterns == TopicsOver({"p"}, {"a", "b"}, MaxPath)
MatchingPatterns == MatchRelation(Patterns, WordsOver({"p"}, {"a", "b"}, 2 * MaxPath))

(* A publication to any pattern finds the one subscriber of any other exactly
   when some wildcard-free topic is accepted by both (directory.rs:197-252). *)
EveryPatternMatches ==
    dir = EmptyTrie =>
        \A s \in Patterns :
            LET trie == SubscribeSegments(dir, 1, s)
            IN  \A t \in Patterns :
                    GetSubscribersOf(trie, t)
                      = IF <<s, t>> \in MatchingPatterns THEN {1} ELSE {}
=============================================================================
