------------------------------ MODULE MCClient -------------------------------
(* The topics, and what is called in each run. *)
EXTENDS ClientProperties, TopicMatching

Exact == <<"p", "a">>
Pattern == <<"p", "*">>

(* TLC evaluates a definition once, but what replaces a constant at each use. *)
TopicSet == {Exact, Pattern}
ConcreteSet == {t \in TopicSet : IsConcrete(t)}
Matching == MatchRelation(TopicSet, WordsOver({"p"}, {"a", "b"}, 2))

MCTopics == TopicSet
MCConcrete == ConcreteSet
MCMatch == Matching

On(kind, topic) == [kind |-> kind, topic |-> topic]

(* Subscriptions that overlap, a service, and publications that come back. *)
MCSubscribing == {On("Sub", Exact), On("SubBytes", Pattern), On("Srv", Exact), On("Pub", Exact)}

(* Services that are contested, asked by their own client, and answered. *)
MCServing == {On("Srv", Exact), On("Srv", Pattern), On("Req", Exact), On("Rsp", Exact),
              On("StopBus", Exact)}
=============================================================================
