---------------------------- MODULE TopicMatching ----------------------------
(***************************************************************************)
(* What topics mean (src/src/topic.rs, README "Topics and Paths"): a topic *)
(* is its sequence of segments, the protocol first.  A pattern denotes the *)
(* set of wildcard-free topics it accepts, and a published pattern matches *)
(* a subscribed one when some wildcard-free topic is accepted by both.     *)
(*                                                                         *)
(* This is the reference that module Directory's walk is checked against.  *)
(* It is one-sided (a pattern against a word), so it shares nothing with   *)
(* the two-sided walk of the code.                                         *)
(***************************************************************************)
EXTENDS Naturals, Sequences, SequencesExt

WILDCARD == "*"
DOUBLE_WILDCARD == "**"

IsWildcard(segment) == segment \in {WILDCARD, DOUBLE_WILDCARD}

(* RGX_PROTOCOL and RGX_PATH: the protocol is a word or "*"; a path segment
   is a word, "*" or "**"; the root path has no segments. *)
TopicsOver(protocols, words, maxPath) ==
    {<<p>> \o path : p \in protocols \cup {WILDCARD},
                     path \in SeqOf(words \cup {WILDCARD, DOUBLE_WILDCARD}, maxPath)}

WordsOver(protocols, words, maxPath) ==
    {<<p>> \o path : p \in protocols, path \in SeqOf(words, maxPath)}

IsConcrete(topic) == \A i \in DOMAIN topic : ~IsWildcard(topic[i])

(* The places in word from which segment takes what leads to one of places:
   "*" any one segment, "**" any number of them. *)
Takes(segment, word, places) ==
    IF segment = DOUBLE_WILDCARD THEN {k \in 0..Len(word) : \E m \in places : k <= m}
    ELSE {k \in 0..Len(word) - 1 :
             k + 1 \in places /\ segment \in {WILDCARD, word[k + 1]}}

(* The places from which the last n segments of pattern take the rest of word *)
Rest(pattern, word) ==
    LET rest[n \in 0..Len(pattern)] ==
            IF n = 0 THEN {Len(word)}
            ELSE Takes(pattern[Len(pattern) - n + 1], word, rest[n - 1])
    IN  rest

Accepts(pattern, word) == 0 \in Rest(pattern, word)[Len(pattern)]

(* Two patterns of n and m segments that accept a common word accept one of
   at most n + m segments: longer words hold a segment that both patterns
   consume with "**", and dropping it leaves an accepted word. *)
MatchRelation(topics, words) ==
    UNION {LET accepting == {t \in topics : Accepts(t, w)}
           IN  accepting \X accepting : w \in words}
=============================================================================
