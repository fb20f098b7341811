------------------------------ MODULE MCServer -------------------------------
(* The topics, and what the peers of each run send. *)
EXTENDS ServerBus, TopicMatching

Exact == <<"p", "a">>
Pattern == <<"p", "**">>
All == <<"*", "**">>
KillTopic == <<"bus", "kill">>

(* TLC evaluates a definition once, but what replaces a constant at each use. *)
TopicSet == {Exact, Pattern, All, KillTopic}
ConcreteSet == {t \in TopicSet : IsConcrete(t)}
Matching == MatchRelation(TopicSet, WordsOver({"p", "bus"}, {"a", "kill"}, 4))

MCTopics == TopicSet
MCConcrete == ConcreteSet
MCMatch == Matching

On(type, topic) == [type |-> type, topic |-> topic]
Stray(id) == [type |-> "Rsp", req_id |-> id]

(* A client that serves and asks, and one that asks, serves, and answers a
   request that it was perhaps not given. *)
ReqRsp == <<{On("Srv", Exact), On("Unsrv", Exact), On("Req", Exact)},
            {On("Req", Exact), On("Srv", Exact), Stray(1)}>>
ReqRspMsgs == <<2, 2>>

(* A client that serves, subscribes and answers, and a requester that may
   stop the bus. *)
Service == <<{On("Srv", Exact), On("Sub", Exact), On("Unsub", Exact)},
             {On("Req", Exact), [type |-> "KeepAlive"], [type |-> "Stop"]}>>
ServiceMsgs == <<2, 1>>

(* A client that serves and answers, and hears what it publishes, one that
   asks or hears that too, and one that publishes to all, the bus included, or
   stops it. *)
Company == <<{On("Srv", Exact), On("Sub", Pattern), On("Pub", Exact)},
             {On("Req", Exact), On("Sub", Pattern)},
             {On("Pub", All), [type |-> "Stop"]}>>
CompanyMsgs == <<2, 1, 1>>
=============================================================================
