---------------------------- MODULE ServerProofs -----------------------------
(* Proofs about the bus server of module ServerCore, for every number of
   clients, every number of messages, every set of topics and every matching
   relation: its types; that its tables mention only clients that are connected
   or about to be deregistered, connected clients keep their places in them and
   no pending response lacks a timer; that publications are delivered in order,
   counted right and not left out in silence, and requests answered at most
   once, after their acknowledgement and by the client that was asked. *)
EXTENDS ServerProperties, FiniteSetTheorems, TLAPS

-----------------------------------------------------------------------------
(* The types of messages and tasks *)

LEMMA IdsType == NoOwner \in Ids /\ Bus \in Ids /\ Clients \subseteq Ids /\ Bus \notin Clients
BY ServerAssumption DEF NoOwner, Bus, Ids, Clients

LEMMA HeadTask ==
    ASSUME tasks \in Seq(Task), tasks # <<>>
    PROVE  Head(tasks) \in Task /\ Tail(tasks) \in Seq(Task)
OBVIOUS

LEMMA HeadMessage ==
    ASSUME tasks \in Seq(Task), Take("Message")
    PROVE  /\ Sender \in Clients
           /\ Head(tasks).id \in Nat
           /\ Content \in ClientContent
           /\ Payload \in Payloads
<1>1. Head(tasks) \in Task /\ Head(tasks).type = "Message"
  BY HeadTask DEF Take
<1>2. Head(tasks) \in [type : {"Message"}, client : Clients, id : Nat, content : ClientContent]
  BY <1>1 DEF Task
<1>. QED  BY <1>2, IdsType DEF Sender, Content, Payload, Payloads

LEMMA ContentTopic ==
    ASSUME NEW type \in {"Sub", "Unsub", "Srv", "Unsrv", "Pub", "Req"},
           Content \in ClientContent, Content.type = type
    PROVE  Content.topic \in Topics
BY DEF ClientContent

LEMMA MessageTypes ==
    /\ \A id \in Nat, e \in Errors, n \in Nat \cup {NoCount} : AckMsg(id, e, n) \in ServerMsg
    /\ \A t \in Topics, p \in Payloads : PubMsg(t, p) \in ServerMsg
    /\ \A id \in Nat, t \in Topics, p \in Payloads : ReqMsg(id, t, p) \in ServerMsg
    /\ \A r \in Nat, st \in {"Ok", "Timeout"}, p \in Payloads : RspMsg(r, st, p) \in ServerMsg
BY DEF ServerMsg, AckMsg, PubMsg, ReqMsg, RspMsg

LEMMA ErrorTypes ==
    /\ NoError \in Errors /\ "ServiceNotFound" \in Errors /\ "InvalidRequestId" \in Errors
    /\ \A s, c : DeliverError(s, c) \in Errors
    /\ \A owner, c, t : ClaimError(owner, c, t) \in Errors
    /\ \A t : UnclaimErrors(t) \subseteq Errors
BY DEF Errors, NoError, DeliverError, ClaimError, UnclaimErrors

LEMMA NoPayloadType == NoPayload \in Payloads
BY IdsType DEF NoPayload, Payloads

-----------------------------------------------------------------------------
(* The operators on the core keep its type *)

LEMMA CoreFields ==
    ASSUME NEW s \in CoreType
    PROVE  /\ s.senders \in Senders /\ s.subs \in Subscriptions /\ s.owner \in Owners
           /\ s.pending \in Pending /\ s.chan \in Channels
           /\ s.next_msg_id \in Nat /\ s.next_client_id \in Nat
BY DEF CoreType

LEMMA CoreUpdates ==
    ASSUME NEW s \in CoreType
    PROVE  /\ \A v \in Senders : [s EXCEPT !.senders = v] \in CoreType
           /\ \A v \in Subscriptions : [s EXCEPT !.subs = v] \in CoreType
           /\ \A v \in Owners : [s EXCEPT !.owner = v] \in CoreType
           /\ \A v \in Pending : [s EXCEPT !.pending = v] \in CoreType
           /\ \A v \in Channels : [s EXCEPT !.chan = v] \in CoreType
BY DEF CoreType

LEMMA TakeMsgIdType ==
    ASSUME NEW s \in CoreType
    PROVE  TakeMsgId(s) \in CoreType
BY DEF TakeMsgId, CoreType

LEMMA SendType ==
    ASSUME NEW s \in CoreType, NEW c \in Clients, NEW m \in ServerMsg
    PROVE  Send(s, c, m) \in CoreType
<1>1. [s.chan EXCEPT ![c] = Append(@, m)] \in Channels
  BY CoreFields DEF Channels
<1>. QED  BY <1>1 DEF Send, CoreType

LEMMA DeregisterType ==
    ASSUME NEW s \in CoreType, NEW c
    PROVE  DeregisterClient(s, c) \in CoreType
<1>1. DropOwner(s.owner, c) \in Owners
  BY CoreFields, IdsType DEF DropOwner, Owners
<1>2. DropSubs(s.subs, c) \in Subscriptions
  BY CoreFields DEF DropSubs, Subscriptions
<1>3. {p \in s.pending : p.requester # c /\ p.responder # c} \in Pending
  BY CoreFields DEF Pending
<1>4. s.senders \ {c} \in Senders
  BY CoreFields DEF Senders
<1>. QED  BY <1>1, <1>2, <1>3, <1>4 DEF DeregisterClient, CoreType

LEMMA DeliverType ==
    ASSUME NEW s \in CoreType, NEW c, NEW m \in ServerMsg
    PROVE  Deliver(s, c, m) \in CoreType
<1>1. CASE DeliverError(s, c) = NoError
  <2>1. c \in Clients
    BY <1>1, CoreFields DEF DeliverError, Senders, NoError
  <2>. QED  BY <1>1, <2>1, TakeMsgIdType, SendType DEF Deliver
<1>2. CASE DeliverError(s, c) # NoError
  BY <1>2, TakeMsgIdType, DeregisterType DEF Deliver
<1>. QED  BY <1>1, <1>2

LEMMA ClientsFinite == \A D \in SUBSET Clients : Cardinality(D) \in Nat
<1>1. IsFiniteSet(Clients)
  BY FS_Interval, ServerAssumption DEF Clients
<1>. QED  BY <1>1, FS_Subset, FS_CardinalityType

LEMMA DeliverAllType ==
    ASSUME NEW s \in CoreType, NEW D \in SUBSET Clients, NEW m \in ServerMsg
    PROVE  DeliverAll(s, D, m) \in CoreType
<1>. DEFINE chan == [c \in Clients |-> IF c \in D THEN Append(s.chan[c], m) ELSE s.chan[c]]
            n == s.next_msg_id + Cardinality(D)
<1>1. chan \in Channels
  BY CoreFields DEF Channels
<1>2. n \in Nat
  BY ClientsFinite, CoreFields
<1>3. DeliverAll(s, D, m) = [s EXCEPT !.chan = chan, !.next_msg_id = n]
  BY DEF DeliverAll
<1>. HIDE DEF chan, n
<1>. QED  BY <1>1, <1>2, <1>3 DEF CoreType

LEMMA AckType ==
    ASSUME tasks \in Seq(Task), Take("Message"),
           NEW s \in CoreType, NEW e \in Errors, NEW n \in Nat \cup {NoCount}
    PROVE  Ack(s, e, n) \in CoreType
BY HeadMessage, MessageTypes, DeliverType DEF Ack

LEMMA RespondType ==
    ASSUME NEW s \in CoreType, NEW p \in s.pending,
           NEW st \in {"Ok", "Timeout"}, NEW payload \in Payloads
    PROVE  Respond(s, p, st, payload) \in CoreType
<1>1. p.request_id \in Nat
  BY CoreFields DEF Pending, PendingResponse
<1>2. [s EXCEPT !.pending = @ \ {p}] \in CoreType
  BY CoreFields, CoreUpdates DEF Pending
<1>. QED  BY <1>1, <1>2, MessageTypes, DeliverType DEF Respond

(* Channels only grow: what was sent stays sent. *)
Grows(s, t) ==
    \A c \in Clients :
        /\ Len(s.chan[c]) <= Len(t.chan[c])
        /\ \A i \in 1..Len(s.chan[c]) : t.chan[c][i] = s.chan[c][i]

LEMMA SendGrows ==
    ASSUME NEW s \in CoreType, NEW c \in Clients, NEW m \in ServerMsg
    PROVE  Grows(s, Send(s, c, m))
<1>1. s.chan \in [Clients -> Seq(ServerMsg)]
  BY CoreFields DEF Channels
<1>2. Send(s, c, m).chan = [s.chan EXCEPT ![c] = Append(s.chan[c], m)]
  BY DEF Send, CoreType
<1>. QED  BY <1>1, <1>2 DEF Grows

LEMMA SameChan ==
    ASSUME NEW s \in CoreType, NEW t, t.chan = s.chan
    PROVE  Grows(s, t)
<1>1. s.chan \in [Clients -> Seq(ServerMsg)]
  BY CoreFields DEF Channels
<1>. QED  BY <1>1 DEF Grows

LEMMA DeliverGrows ==
    ASSUME NEW s \in CoreType, NEW c, NEW m \in ServerMsg
    PROVE  Grows(s, Deliver(s, c, m))
<1>1. TakeMsgId(s) \in CoreType /\ TakeMsgId(s).chan = s.chan
  BY TakeMsgIdType DEF TakeMsgId, CoreType
<1>2. CASE DeliverError(s, c) = NoError
  <2>1. c \in Clients
    BY <1>2, CoreFields DEF DeliverError, Senders, NoError
  <2>2. Grows(TakeMsgId(s), Send(TakeMsgId(s), c, m))
    BY <1>1, <2>1, SendGrows
  <2>. QED  BY <1>1, <1>2, <2>2 DEF Deliver, Grows
<1>3. CASE DeliverError(s, c) # NoError
  <2>1. DeregisterClient(TakeMsgId(s), c).chan = s.chan
    BY <1>1 DEF DeregisterClient, CoreType
  <2>. QED  BY <1>1, <1>3, <2>1, SameChan DEF Deliver
<1>. QED  BY <1>2, <1>3

LEMMA DeliverAllGrows ==
    ASSUME NEW s \in CoreType, NEW D \in SUBSET Clients, NEW m \in ServerMsg
    PROVE  Grows(s, DeliverAll(s, D, m))
<1>1. s.chan \in [Clients -> Seq(ServerMsg)]
  BY CoreFields DEF Channels
<1>2. DeliverAll(s, D, m).chan
        = [c \in Clients |-> IF c \in D THEN Append(s.chan[c], m) ELSE s.chan[c]]
  BY DEF DeliverAll, CoreType
<1>. QED  BY <1>1, <1>2 DEF Grows

LEMMA GrowsTransitive ==
    ASSUME NEW s \in CoreType, NEW t \in CoreType, NEW u \in CoreType,
           Grows(s, t), Grows(t, u)
    PROVE  Grows(s, u)
<1>1. s.chan \in [Clients -> Seq(ServerMsg)] /\ t.chan \in [Clients -> Seq(ServerMsg)]
        /\ u.chan \in [Clients -> Seq(ServerMsg)]
  BY CoreFields DEF Channels
<1>. QED  BY <1>1 DEF Grows

LEMMA AckGrows ==
    ASSUME tasks \in Seq(Task), Take("Message"),
           NEW s \in CoreType, NEW e \in Errors, NEW n \in Nat \cup {NoCount}
    PROVE  Grows(s, Ack(s, e, n))
BY HeadMessage, MessageTypes, DeliverGrows DEF Ack

LEMMA RespondGrows ==
    ASSUME NEW s \in CoreType, NEW p \in s.pending,
           NEW st \in {"Ok", "Timeout"}, NEW payload \in Payloads
    PROVE  Grows(s, Respond(s, p, st, payload))
<1>. DEFINE t == [s EXCEPT !.pending = @ \ {p}]
<1>1. p.request_id \in Nat
  BY CoreFields DEF Pending, PendingResponse
<1>2. t \in CoreType
  BY CoreFields, CoreUpdates DEF Pending
<1>3. t.chan = s.chan
  BY DEF CoreType
<1>. HIDE DEF t
<1>4. Grows(t, Deliver(t, p.requester, RspMsg(p.request_id, st, payload)))
  BY <1>1, <1>2, MessageTypes, DeliverGrows
<1>5. Respond(s, p, st, payload) = Deliver(t, p.requester, RspMsg(p.request_id, st, payload))
  BY DEF Respond, t
<1>. QED  BY <1>3, <1>4, <1>5 DEF Grows

LEMMA OwnerType ==
    ASSUME NEW owner \in Owners, NEW c \in Clients, NEW t \in Topics
    PROVE  /\ Claim(owner, c, t) \in Owners
           /\ Unclaim(owner, c, t) \in Owners
           /\ GetOwner(owner, t) \in Ids
BY IdsType DEF Claim, Unclaim, GetOwner, Owners

-----------------------------------------------------------------------------
(* Type correctness *)

LEMMA InitType == Init => TypeOK
<1>. SUFFICES ASSUME Init PROVE TypeOK
  OBVIOUS
<1>1. core.owner \in Owners /\ core.chan \in Channels /\ core.subs \in Subscriptions
  BY IdsType, ServerAssumption DEF Init, Owners, Channels, Subscriptions
<1>2. core.senders \in Senders /\ core.pending \in Pending
  BY DEF Init, Senders, Pending
<1>3. core = [senders |-> core.senders, subs |-> core.subs, owner |-> core.owner,
              pending |-> core.pending, chan |-> core.chan,
              next_msg_id |-> 0, next_client_id |-> 1]
  BY DEF Init
<1>4. core \in CoreType
  BY <1>1, <1>2, <1>3 DEF CoreType
<1>. QED  BY <1>4 DEF TypeOK, Init

LEMMA MessageTasks ==
    ASSUME TypeOK, NEW c \in Clients, NEW m \in ClientContent
    PROVE  Append(tasks, [type |-> "Message", client |-> c, id |-> up[c] + 1, content |-> m])
             \in Seq(Task)
<1>1. [type |-> "Message", client |-> c, id |-> up[c] + 1, content |-> m] \in Task
  BY DEF TypeOK, Task
<1>. QED  BY <1>1 DEF TypeOK

LEMMA OtherTasks ==
    /\ [type |-> "Register"] \in Task
    /\ \A c \in Clients : DeregisterOf(c) \in Task
    /\ \A id \in Nat : TimeoutOf(id) \in Task
BY DEF Task, DeregisterOf, TimeoutOf

LEMMA ReceivedType ==
    ASSUME TypeOK, NEW c \in Clients, NEW m \in Answers(c)
    PROVE  m \in ClientContent
<1>1. PICK i \in 1..fwd[c] : core.chan[c][i].type = "Req"
                             /\ m = [type |-> "Rsp", req_id |-> core.chan[c][i].id]
  BY DEF Answers
<1>2. core.chan[c][i] \in ServerMsg
  BY CoreFields DEF TypeOK, Channels
<1>3. core.chan[c][i].id \in Nat
  BY <1>1, <1>2 DEF ServerMsg
<1>. QED  BY <1>1, <1>3 DEF ClientContent

LEMMA TasksOnward ==
    ASSUME TypeOK, Running, tasks # <<>>
    PROVE  /\ Continue => tasks' \in Seq(Task) /\ Running'
           /\ \A how : End(how) => tasks' \in Seq(Task)
<1>1. Tail(tasks) \in Seq(Task)
  BY HeadTask DEF TypeOK
<1>2. <<>> \in Seq(Task)
  OBVIOUS
<1>. QED  BY <1>1, <1>2 DEF Running, Continue, End

(* What the handler of a message does to the core: a well-typed change, then
   the Ack. *)
LEMMA AckedChange ==
    ASSUME TypeOK, Take("Message"),
           NEW s \in CoreType, s.chan = core.chan,
           NEW e \in Errors, NEW n \in Nat \cup {NoCount}
    PROVE  Ack(s, e, n) \in CoreType /\ Grows(core, Ack(s, e, n))
<1>1. tasks \in Seq(Task) /\ core \in CoreType
  BY DEF TypeOK
<1>2. Ack(s, e, n) \in CoreType /\ Grows(s, Ack(s, e, n))
  BY <1>1, AckType, AckGrows
<1>. QED  BY <1>2 DEF Grows

LEMMA AckedDelivery ==
    ASSUME TypeOK, Take("Message"),
           NEW s \in CoreType, Grows(core, s),
           NEW e \in Errors, NEW n \in Nat \cup {NoCount}
    PROVE  Ack(s, e, n) \in CoreType /\ Grows(core, Ack(s, e, n))
<1>1. tasks \in Seq(Task) /\ core \in CoreType
  BY DEF TypeOK
<1>2. Ack(s, e, n) \in CoreType /\ Grows(s, Ack(s, e, n))
  BY <1>1, AckType, AckGrows
<1>. QED  BY <1>1, <1>2, GrowsTransitive

LEMMA SubsTypes ==
    ASSUME TypeOK, NEW c \in Clients, NEW t \in Topics
    PROVE  /\ Subscribe(core.subs, c, t) \in Subscriptions
           /\ Unsubscribe(core.subs, c, t) \in Subscriptions
<1>1. core.subs \in SUBSET (Ids \X Topics) /\ <<c, t>> \in Ids \X Topics
  BY CoreFields, IdsType DEF TypeOK, Subscriptions
<1>. QED  BY <1>1 DEF Subscribe, Unsubscribe, Subscriptions

LEMMA RoutingSteps ==
    ASSUME TypeOK, OnSub \/ OnUnsub \/ OnSrv \/ OnUnsrv \/ OnStop \/ OnKeepAlive
    PROVE  core' \in CoreType /\ Grows(core, core')
<1>1. core \in CoreType /\ tasks \in Seq(Task)
  BY DEF TypeOK
<1>2. Take("Message")
  BY DEF OnSub, OnUnsub, OnSrv, OnUnsrv, OnStop, OnKeepAlive, TakeMessage
<1>3. Sender \in Clients /\ Content \in ClientContent
  BY <1>1, <1>2, HeadMessage
<1>4. NoError \in Errors /\ NoCount \in Nat \cup {NoCount}
  BY ErrorTypes
<1>5. CASE OnSub
  <2>. DEFINE s == [core EXCEPT !.subs = Subscribe(@, Sender, Content.topic)]
  <2>1. Content.topic \in Topics
    BY <1>3, <1>5, ContentTopic DEF OnSub, TakeMessage
  <2>2. s \in CoreType
    BY <1>1, <1>3, <2>1, SubsTypes, CoreUpdates
  <2>3. s.chan = core.chan
    BY <1>1 DEF CoreType
  <2>4. core' = Ack(s, NoError, NoCount)
    BY <1>5 DEF OnSub
  <2>. HIDE DEF s
  <2>. QED  BY <1>2, <1>4, <2>2, <2>3, <2>4, AckedChange
<1>6. CASE OnUnsub
  <2>. DEFINE s == [core EXCEPT !.subs = Unsubscribe(@, Sender, Content.topic)]
  <2>1. Content.topic \in Topics
    BY <1>3, <1>6, ContentTopic DEF OnUnsub, TakeMessage
  <2>2. s \in CoreType
    BY <1>1, <1>3, <2>1, SubsTypes, CoreUpdates
  <2>3. s.chan = core.chan
    BY <1>1 DEF CoreType
  <2>4. core' = Ack(s, NoError, NoCount)
    BY <1>6 DEF OnUnsub
  <2>. HIDE DEF s
  <2>. QED  BY <1>2, <1>4, <2>2, <2>3, <2>4, AckedChange
<1>7. CASE OnSrv
  <2>. DEFINE s == [core EXCEPT !.owner = Claim(@, Sender, Content.topic)]
  <2>1. Content.topic \in Topics
    BY <1>3, <1>7, ContentTopic DEF OnSrv, TakeMessage
  <2>2. s \in CoreType
    BY <1>1, <1>3, <2>1, CoreFields, OwnerType, CoreUpdates
  <2>3. s.chan = core.chan
    BY <1>1 DEF CoreType
  <2>4. core' = Ack(s, ClaimError(core.owner, Sender, Content.topic), NoCount)
    BY <1>7 DEF OnSrv
  <2>. HIDE DEF s
  <2>. QED  BY <1>2, <1>4, <2>2, <2>3, <2>4, ErrorTypes, AckedChange
<1>8. CASE OnUnsrv
  <2>. DEFINE s == [core EXCEPT !.owner = Unclaim(@, Sender, Content.topic)]
  <2>1. Content.topic \in Topics
    BY <1>3, <1>8, ContentTopic DEF OnUnsrv, TakeMessage
  <2>2. s \in CoreType
    BY <1>1, <1>3, <2>1, CoreFields, OwnerType, CoreUpdates
  <2>3. s.chan = core.chan
    BY <1>1 DEF CoreType
  <2>4. PICK e \in UnclaimErrors(Content.topic) : core' = Ack(s, e, NoCount)
    BY <1>8 DEF OnUnsrv
  <2>5. e \in Errors
    BY ErrorTypes
  <2>. HIDE DEF s
  <2>. QED  BY <1>2, <1>4, <2>2, <2>3, <2>4, <2>5, AckedChange
<1>9. CASE OnStop \/ OnKeepAlive
  <2>1. core' = Ack(core, NoError, NoCount)
    BY <1>9 DEF OnStop, OnKeepAlive
  <2>. QED  BY <1>1, <1>2, <1>4, <2>1, AckedChange
<1>. QED  BY <1>5, <1>6, <1>7, <1>8, <1>9

LEMMA PublishSteps ==
    ASSUME TypeOK, OnPub \/ OnPubFails \/ OnPubKill
    PROVE  core' \in CoreType /\ Grows(core, core')
<1>1. core \in CoreType /\ tasks \in Seq(Task)
  BY DEF TypeOK
<1>2. Take("Message") /\ Content.type = "Pub"
  BY DEF OnPub, OnPubFails, OnPubKill, TakeMessage
<1>3. Publication \in ServerMsg
  <2>1. Payload \in Payloads /\ Content.topic \in Topics
    BY <1>1, <1>2, HeadMessage, ContentTopic
  <2>. QED  BY <2>1, MessageTypes DEF Publication
<1>4. Reachable \subseteq Clients
  BY DEF Reachable
<1>5. \A D \in SUBSET Reachable :
        DeliverAll(core, D, Publication) \in CoreType
        /\ Grows(core, DeliverAll(core, D, Publication))
  BY <1>1, <1>3, <1>4, DeliverAllType, DeliverAllGrows
<1>6. CASE OnPub
  <2>1. Recipients \in SUBSET Reachable /\ Cardinality(Recipients) \in Nat \cup {NoCount}
    BY <1>4, <1>6, ClientsFinite DEF OnPub
  <2>2. core' = Ack(DeliverAll(core, Recipients, Publication), NoError, Cardinality(Recipients))
    BY <1>6 DEF OnPub
  <2>. QED  BY <1>2, <1>5, <2>1, <2>2, ErrorTypes, AckedDelivery
<1>7. CASE OnPubFails
  <2>1. PICK f \in (Recipients \cap Clients) \ Reachable, done \in SUBSET Reachable :
          core' = Ack(Deliver(DeliverAll(core, done, Publication), f, Publication),
                      DeliverError(core, f), NoCount)
    BY <1>7 DEF OnPubFails
  <2>. DEFINE s == DeliverAll(core, done, Publication)
  <2>2. s \in CoreType /\ Grows(core, s)
    BY <1>5
  <2>. HIDE DEF s
  <2>3. Deliver(s, f, Publication) \in CoreType /\ Grows(s, Deliver(s, f, Publication))
    BY <1>3, <2>2, DeliverType, DeliverGrows
  <2>4. Grows(core, Deliver(s, f, Publication))
    BY <1>1, <2>2, <2>3, GrowsTransitive
  <2>5. core' = Ack(Deliver(s, f, Publication), DeliverError(core, f), NoCount)
    BY <2>1 DEF s
  <2>. QED  BY <1>2, <2>3, <2>4, <2>5, ErrorTypes, AckedDelivery
<1>8. CASE OnPubKill
  BY <1>5, <1>8 DEF OnPubKill
<1>. QED  BY <1>6, <1>7, <1>8

LEMMA RequestSteps ==
    ASSUME TypeOK, OnReqNotServed \/ OnReqFails \/ OnReq
    PROVE  core' \in CoreType /\ Grows(core, core') /\ timers' \in SUBSET Nat
<1>1. core \in CoreType /\ tasks \in Seq(Task) /\ core.next_msg_id \in Nat
  BY CoreFields DEF TypeOK
<1>2. Take("Message") /\ Content.type = "Req"
  BY DEF OnReqNotServed, OnReqFails, OnReq, TakeMessage
<1>3. Sender \in Clients /\ Payload \in Payloads /\ Content.topic \in Topics
        /\ Head(tasks).id \in Nat
  BY <1>1, <1>2, HeadMessage, ContentTopic
<1>4. Request \in ServerMsg
  BY <1>1, <1>3, MessageTypes DEF Request
<1>5. Deliver(core, Server, Request) \in CoreType /\ Grows(core, Deliver(core, Server, Request))
  BY <1>1, <1>4, DeliverType, DeliverGrows
<1>6. timers' \in SUBSET Nat
  BY <1>1 DEF TypeOK, OnReqNotServed, OnReqFails, OnReq, StartTimer
<1>7. CASE OnReqNotServed
  <2>1. core' = Ack(core, "ServiceNotFound", NoCount)
    BY <1>7 DEF OnReqNotServed
  <2>. QED  BY <1>1, <1>2, <1>6, <2>1, ErrorTypes, AckedChange
<1>8. CASE OnReqFails
  <2>1. core' = Ack(Deliver(core, Server, Request), DeliverError(core, Server), NoCount)
    BY <1>8 DEF OnReqFails
  <2>. QED  BY <1>2, <1>5, <1>6, <2>1, ErrorTypes, AckedDelivery
<1>9. CASE OnReq
  <2>. DEFINE d == Deliver(core, Server, Request)
              s == [d EXCEPT !.pending = @ \cup {Awaited}]
  <2>1. Server \in Clients
    BY <1>1, <1>9, CoreFields DEF OnReq, DeliverError, Senders, NoError
  <2>2. Awaited \in PendingResponse
    BY <1>1, <1>3, <2>1 DEF Awaited, PendingResponse
  <2>3. d \in CoreType /\ Grows(core, d)
    BY <1>5
  <2>4. core' = Ack(s, NoError, NoCount)
    BY <1>9 DEF OnReq
  <2>. HIDE DEF d
  <2>5. s \in CoreType
    BY <2>2, <2>3, CoreFields, CoreUpdates DEF Pending
  <2>6. s.chan = d.chan
    BY <2>3 DEF CoreType
  <2>. HIDE DEF s
  <2>7. Grows(core, s)
    BY <2>3, <2>6 DEF Grows
  <2>. QED  BY <1>2, <1>6, <2>4, <2>5, <2>7, ErrorTypes, AckedDelivery
<1>. QED  BY <1>7, <1>8, <1>9

LEMMA ResponseSteps ==
    ASSUME TypeOK, OnRspInvalid \/ OnRsp \/ OnTimeout \/ OnTimeoutNotPending
    PROVE  core' \in CoreType /\ Grows(core, core')
<1>1. core \in CoreType /\ tasks \in Seq(Task)
  BY DEF TypeOK
<1>2. CASE OnRspInvalid
  <2>1. Take("Message") /\ core' = Ack(core, "InvalidRequestId", NoCount)
    BY <1>2 DEF OnRspInvalid, TakeMessage
  <2>. QED  BY <1>1, <2>1, ErrorTypes, AckedChange
<1>3. CASE OnRsp
  <2>1. PICK p \in core.pending :
          core' = Ack(Respond(core, p, "Ok", Payload), DeliverError(core, p.requester), NoCount)
    BY <1>3 DEF OnRsp
  <2>2. Take("Message")
    BY <1>3 DEF OnRsp, TakeMessage
  <2>3. Payload \in Payloads
    BY <1>1, <2>2, HeadMessage
  <2>4. Respond(core, p, "Ok", Payload) \in CoreType
        /\ Grows(core, Respond(core, p, "Ok", Payload))
    BY <1>1, <2>3, RespondType, RespondGrows
  <2>. QED  BY <2>1, <2>2, <2>4, ErrorTypes, AckedDelivery
<1>4. CASE OnTimeout
  <2>1. PICK p \in core.pending : core' = Respond(core, p, "Timeout", NoPayload)
    BY <1>4 DEF OnTimeout
  <2>. QED  BY <1>1, <2>1, NoPayloadType, RespondType, RespondGrows
<1>5. CASE OnTimeoutNotPending
  <2>1. core' = core
    BY <1>5 DEF OnTimeoutNotPending
  <2>. QED  BY <1>1, <2>1, SameChan
<1>. QED  BY <1>2, <1>3, <1>4, <1>5

LEMMA RegistrationSteps ==
    ASSUME TypeOK, OnRegister \/ OnDeregister
    PROVE  core' \in CoreType /\ Grows(core, core')
<1>1. core \in CoreType
  BY DEF TypeOK
<1>2. CASE OnRegister
  <2>1. core.senders \cup {core.next_client_id} \in Senders /\ core.next_client_id + 1 \in Nat
    BY <1>1, <1>2, CoreFields DEF OnRegister, Senders
  <2>2. core' = [core EXCEPT !.senders = @ \cup {core.next_client_id}, !.next_client_id = @ + 1]
    BY <1>2 DEF OnRegister
  <2>3. core' \in CoreType /\ core'.chan = core.chan
    BY <1>1, <2>1, <2>2 DEF CoreType
  <2>. QED  BY <1>1, <2>3, SameChan
<1>3. CASE OnDeregister
  <2>1. core' = DeregisterClient(core, Head(tasks).client)
    BY <1>3 DEF OnDeregister
  <2>2. core' \in CoreType
    BY <1>1, <2>1, DeregisterType
  <2>3. core'.chan = core.chan
    BY <1>1, <2>1 DEF DeregisterClient, CoreType
  <2>. QED  BY <1>1, <2>2, <2>3, SameChan
<1>. QED  BY <1>2, <1>3

LEMMA CoreStepCore ==
    ASSUME TypeOK, CoreStep
    PROVE  core' \in CoreType /\ Grows(core, core')
BY RegistrationSteps, RoutingSteps, PublishSteps, RequestSteps, ResponseSteps DEF CoreStep

(* What every step of the core leaves alone *)
LEMMA CoreStepFrame ==
    ASSUME TypeOK, CoreStep
    PROVE  /\ tasks' \in Seq(Task)
           /\ status' \in {"running", "stopped", "failed", "panicked"}
           /\ timers' \in SUBSET Nat
           /\ stub' \in [Clients -> {"none", "serving", "closing", "closed"}]
           /\ UNCHANGED <<accepted, fwd, up>>
<1>1. Running /\ tasks # <<>>
  BY DEF CoreStep, OnRegister, OnDeregister, OnSub, OnUnsub, OnSrv, OnUnsrv, OnStop,
         OnKeepAlive, OnPub, OnPubFails, OnPubKill, OnReqNotServed, OnReqFails, OnReq,
         OnRspInvalid, OnRsp, OnTimeout, OnTimeoutNotPending, TakeMessage, Take
<1>2. Continue \/ End("stopped") \/ End("failed") \/ End("panicked")
  BY DEF CoreStep, OnRegister, OnDeregister, OnSub, OnUnsub, OnSrv, OnUnsrv, OnStop,
         OnKeepAlive, OnPub, OnPubFails, OnPubKill, OnReqNotServed, OnReqFails, OnReq,
         OnRspInvalid, OnRsp, OnTimeout, OnTimeoutNotPending
<1>3. tasks' \in Seq(Task)
  BY <1>1, <1>2, TasksOnward
<1>4. status' \in {"running", "stopped", "failed", "panicked"}
  BY <1>2 DEF Continue, End, TypeOK
<1>5. timers' \in SUBSET Nat
  <2>1. CASE OnReqNotServed \/ OnReqFails \/ OnReq
    BY <2>1, RequestSteps
  <2>2. CASE ~(OnReqNotServed \/ OnReqFails \/ OnReq)
    BY <2>2 DEF TypeOK, CoreStep, OnRegister, OnDeregister, OnSub, OnUnsub, OnSrv, OnUnsrv,
         OnStop, OnKeepAlive, OnPub, OnPubFails, OnPubKill, OnRspInvalid, OnRsp, OnTimeout,
         OnTimeoutNotPending
  <2>. QED  BY <2>1, <2>2
<1>6. stub' \in [Clients -> {"none", "serving", "closing", "closed"}]
        /\ UNCHANGED <<accepted, fwd, up>>
  BY DEF TypeOK, CoreStep, OnRegister, OnDeregister, OnSub, OnUnsub, OnSrv, OnUnsrv, OnStop,
         OnKeepAlive, OnPub, OnPubFails, OnPubKill, OnReqNotServed, OnReqFails, OnReq,
         OnRspInvalid, OnRsp, OnTimeout, OnTimeoutNotPending
<1>. QED  BY <1>3, <1>4, <1>5, <1>6

LEMMA StubStepType ==
    ASSUME TypeOK, NEW c \in Clients, StubStep(c)
    PROVE  TypeOK'
<1>1. tasks \in Seq(Task) /\ DeregisterOf(c) \in Task
  BY OtherTasks DEF TypeOK
<1>2. Leave(c) => /\ tasks' \in Seq(Task)
                  /\ stub' \in [Clients -> {"none", "serving", "closing", "closed"}]
  BY <1>1 DEF Leave, DeregisterOf, TypeOK
<1>3. CASE StubReceive(c)
  <2>1. CASE ~Running
    BY <1>2, <1>3, <2>1 DEF StubReceive, TypeOK
  <2>2. CASE Running
    <3>1. Contents[c] \subseteq ClientContent
      BY ServerAssumption
    <3>2. tasks' \in Seq(Task)
      BY <1>3, <2>2, <3>1, ReceivedType, MessageTasks DEF StubReceive
    <3>. QED  BY <1>3, <2>2, <3>2 DEF StubReceive, TypeOK
  <2>. QED  BY <2>1, <2>2
<1>4. CASE StubForward(c)
  <2>1. core' = core /\ fwd' = [fwd EXCEPT ![c] = @ + 1] /\ fwd[c] < Len(core.chan[c])
    BY <1>4 DEF StubForward
  <2>2. core.chan \in [Clients -> Seq(ServerMsg)]
    BY CoreFields DEF TypeOK, Channels
  <2>3. fwd' \in [Clients -> Nat] /\ \A d \in Clients : fwd'[d] <= Len(core.chan[d])
    BY <2>1, <2>2 DEF TypeOK
  <2>. QED  BY <1>4, <2>1, <2>3 DEF StubForward, TypeOK
<1>5. CASE StubChannelClosed(c)
  BY <1>2, <1>5 DEF StubChannelClosed, TypeOK
<1>6. CASE StubPeerGone(c)
  BY <1>2, <1>6 DEF StubPeerGone, TypeOK
<1>7. CASE StubDrop(c)
  BY <1>7 DEF StubDrop, TypeOK
<1>. QED  BY <1>3, <1>4, <1>5, <1>6, <1>7 DEF StubStep

LEMMA NextType == TypeOK /\ [Next]_vars => TypeOK'
<1>. SUFFICES ASSUME TypeOK, [Next]_vars PROVE TypeOK'
  OBVIOUS
<1>1. CASE Accept
  <2>1. tasks' \in Seq(Task)
    BY <1>1, OtherTasks DEF Accept, TypeOK
  <2>. QED  BY <1>1, <2>1 DEF Accept, TypeOK
<1>2. CASE CoreStep
  <2>1. core' \in CoreType /\ Grows(core, core')
    BY <1>2, CoreStepCore
  <2>2. core.chan \in [Clients -> Seq(ServerMsg)] /\ core'.chan \in [Clients -> Seq(ServerMsg)]
    BY <2>1, CoreFields DEF TypeOK, Channels
  <2>3. fwd' = fwd /\ up' = up /\ accepted' = accepted
    BY <1>2, CoreStepFrame
  <2>4. \A c \in Clients : fwd'[c] <= Len(core'.chan[c])
    BY <2>1, <2>2, <2>3 DEF Grows, TypeOK
  <2>. QED  BY <1>2, <2>1, <2>3, <2>4, CoreStepFrame DEF TypeOK
<1>3. CASE OnStopSignal
  BY <1>3 DEF OnStopSignal, End, TypeOK
<1>4. CASE \E id \in timers : TimerFires(id)
  <2>1. PICK id \in timers : TimerFires(id)
    BY <1>4
  <2>2. TimeoutOf(id) \in Task
    BY OtherTasks DEF TypeOK
  <2>3. tasks' \in Seq(Task)
    BY <2>1, <2>2 DEF TimerFires, TimeoutOf, TypeOK
  <2>. QED  BY <2>1, <2>3 DEF TimerFires, TypeOK
<1>5. CASE \E c \in Clients : StubStep(c)
  BY <1>5, StubStepType
<1>6. CASE UNCHANGED vars
  BY <1>6 DEF vars, TypeOK
<1>. QED  BY <1>1, <1>2, <1>3, <1>4, <1>5, <1>6 DEF Next

(* The state of the server is always well typed, and no stub has forwarded
   more than the core sent it (core.rs, client_stub.rs). *)
THEOREM TypeCorrect == Spec => []TypeOK
BY InitType, NextType, PTL DEF Spec

-----------------------------------------------------------------------------
(* The deliveries of a handler only remove from the tables, and remove only
   what belongs to clients whose stub is gone. *)

Keeps(s, t) ==
    /\ Mentions(t) \subseteq Mentions(s) \cup {Bus}
    /\ \A c \in Clients \ Closed :
          /\ c \in s.senders => c \in t.senders
          /\ \A topic \in Topics :
                /\ <<c, topic>> \in s.subs => <<c, topic>> \in t.subs
                /\ s.owner[topic] = c => t.owner[topic] = c
    /\ t.pending \subseteq s.pending
    /\ s.next_msg_id <= t.next_msg_id
    /\ t.next_client_id = s.next_client_id

LEMMA SameTablesKeep ==
    ASSUME NEW s, NEW t,
           t.senders = s.senders, t.subs = s.subs, t.owner = s.owner, t.pending = s.pending,
           s.next_msg_id <= t.next_msg_id, t.next_client_id = s.next_client_id
    PROVE  Keeps(s, t)
BY DEF Keeps, Mentions

LEMMA KeepsTransitive ==
    ASSUME NEW s \in CoreType, NEW t \in CoreType, NEW u \in CoreType, Keeps(s, t), Keeps(t, u)
    PROVE  Keeps(s, u)
<1>1. s.next_msg_id \in Nat /\ t.next_msg_id \in Nat /\ u.next_msg_id \in Nat
  BY CoreFields
<1>. QED  BY <1>1 DEF Keeps

LEMMA DeregisterFields ==
    ASSUME NEW s \in CoreType, NEW c
    PROVE  LET d == DeregisterClient(s, c)
           IN  /\ d.senders = s.senders \ {c}
               /\ d.subs = {p \in s.subs : p[1] # c}
               /\ d.owner = [t \in Topics |-> IF s.owner[t] = c THEN NoOwner ELSE s.owner[t]]
               /\ d.pending = {p \in s.pending : p.requester # c /\ p.responder # c}
               /\ d.next_msg_id = s.next_msg_id
               /\ d.next_client_id = s.next_client_id
BY DEF DeregisterClient, DropSubs, DropOwner, CoreType

LEMMA DeregisterMentions ==
    ASSUME NEW s \in CoreType, NEW c \in Clients
    PROVE  Mentions(DeregisterClient(s, c)) \subseteq (Mentions(s) \ {c}) \cup {Bus}
<1>. DEFINE d == DeregisterClient(s, c)
<1>1. /\ d.senders = s.senders \ {c}
      /\ d.subs = {p \in s.subs : p[1] # c}
      /\ d.owner = [t \in Topics |-> IF s.owner[t] = c THEN NoOwner ELSE s.owner[t]]
      /\ d.pending = {p \in s.pending : p.requester # c /\ p.responder # c}
  BY DeregisterFields
<1>2. NoOwner = Bus
  BY DEF NoOwner, Bus
<1>. HIDE DEF d
<1>3. d.senders \subseteq Mentions(s) \ {c}
  BY <1>1 DEF Mentions
<1>4. {p[1] : p \in d.subs} \subseteq Mentions(s) \ {c}
  BY <1>1 DEF Mentions
<1>5. {d.owner[t] : t \in Topics} \subseteq (Mentions(s) \ {c}) \cup {Bus}
  BY <1>1, <1>2 DEF Mentions
<1>6. {p.requester : p \in d.pending} \subseteq Mentions(s) \ {c}
  BY <1>1 DEF Mentions
<1>7. {p.responder : p \in d.pending} \subseteq Mentions(s) \ {c}
  BY <1>1 DEF Mentions
<1>8. Mentions(d) \subseteq (Mentions(s) \ {c}) \cup {Bus}
  BY <1>3, <1>4, <1>5, <1>6, <1>7 DEF Mentions
<1>. QED  BY <1>8 DEF d

LEMMA DeregisterKeeps ==
    ASSUME NEW s \in CoreType, NEW c \in Closed
    PROVE  Keeps(s, DeregisterClient(s, c))
<1>1. c \in Clients
  BY DEF Closed
<1>2. Mentions(DeregisterClient(s, c)) \subseteq Mentions(s) \cup {Bus}
  BY <1>1, DeregisterMentions
<1>3. s.next_msg_id \in Nat /\ s.owner \in [Topics -> Ids]
  BY CoreFields DEF Owners
<1>. DEFINE d == DeregisterClient(s, c)
<1>4. /\ d.senders = s.senders \ {c}
      /\ d.subs = {p \in s.subs : p[1] # c}
      /\ d.owner = [t \in Topics |-> IF s.owner[t] = c THEN NoOwner ELSE s.owner[t]]
      /\ d.pending = {p \in s.pending : p.requester # c /\ p.responder # c}
      /\ d.next_msg_id = s.next_msg_id
      /\ d.next_client_id = s.next_client_id
  BY DeregisterFields
<1>. HIDE DEF d
<1>5. \A b \in Clients \ Closed :
         /\ b \in s.senders => b \in d.senders
         /\ \A topic \in Topics :
               /\ <<b, topic>> \in s.subs => <<b, topic>> \in d.subs
               /\ s.owner[topic] = b => d.owner[topic] = b
  BY <1>4
<1>6. Keeps(s, d)
  BY <1>2, <1>3, <1>4, <1>5 DEF Keeps, d
<1>. QED  BY <1>6 DEF d

LEMMA DeliverKeeps ==
    ASSUME NEW s \in CoreType, NEW c, NEW m \in ServerMsg
    PROVE  Keeps(s, Deliver(s, c, m))
<1>. DEFINE t == TakeMsgId(s)
<1>1. t \in CoreType
  BY TakeMsgIdType
<1>2. Keeps(s, t)
  <2>1. /\ t.senders = s.senders /\ t.subs = s.subs /\ t.owner = s.owner
        /\ t.pending = s.pending /\ t.next_client_id = s.next_client_id
        /\ t.next_msg_id = s.next_msg_id + 1
    BY DEF TakeMsgId, CoreType
  <2>2. s.next_msg_id \in Nat
    BY CoreFields
  <2>. HIDE DEF t
  <2>. QED  BY <2>1, <2>2, SameTablesKeep
<1>. HIDE DEF t
<1>3. CASE DeliverError(s, c) = NoError
  <2>1. Deliver(s, c, m) = Send(t, c, m)
    BY <1>3 DEF Deliver, t
  <2>2. c \in Clients
    BY <1>3, CoreFields DEF DeliverError, Senders, NoError
  <2>3. Send(t, c, m) \in CoreType
    BY <1>1, <2>2, SendType
  <2>4. /\ Send(t, c, m).senders = t.senders /\ Send(t, c, m).subs = t.subs
        /\ Send(t, c, m).owner = t.owner /\ Send(t, c, m).pending = t.pending
        /\ Send(t, c, m).next_client_id = t.next_client_id
        /\ Send(t, c, m).next_msg_id = t.next_msg_id
    BY <1>1 DEF Send, CoreType
  <2>5. t.next_msg_id \in Nat
    BY <1>1, CoreFields
  <2>6. Keeps(t, Send(t, c, m))
    BY <2>4, <2>5, SameTablesKeep
  <2>. QED  BY <1>1, <1>2, <2>1, <2>3, <2>6, KeepsTransitive
<1>4. CASE DeliverError(s, c) = "DeliveryFailed"
  <2>1. Deliver(s, c, m) = DeregisterClient(t, c)
    BY <1>4 DEF Deliver, NoError, t
  <2>2. c \in Closed
    BY <1>4 DEF DeliverError, NoError
  <2>3. Keeps(t, DeregisterClient(t, c)) /\ DeregisterClient(t, c) \in CoreType
    BY <1>1, <2>2, DeregisterKeeps, DeregisterType
  <2>. QED  BY <1>1, <1>2, <2>1, <2>3, KeepsTransitive
<1>5. CASE DeliverError(s, c) \notin {NoError, "DeliveryFailed"}
  <2>1. Deliver(s, c, m) = t
    BY <1>5 DEF Deliver, t
  <2>. QED  BY <1>2, <2>1
<1>. QED  BY <1>3, <1>4, <1>5

LEMMA DeliverAllKeeps ==
    ASSUME NEW s \in CoreType, NEW D \in SUBSET Clients, NEW m \in ServerMsg
    PROVE  Keeps(s, DeliverAll(s, D, m))
<1>. DEFINE t == DeliverAll(s, D, m)
<1>1. /\ t.senders = s.senders /\ t.subs = s.subs /\ t.owner = s.owner
      /\ t.pending = s.pending /\ t.next_client_id = s.next_client_id
      /\ t.next_msg_id = s.next_msg_id + Cardinality(D)
  BY DEF DeliverAll, CoreType
<1>2. s.next_msg_id \in Nat /\ Cardinality(D) \in Nat
  BY CoreFields, ClientsFinite
<1>. HIDE DEF t
<1>3. Keeps(s, t)
  BY <1>1, <1>2, SameTablesKeep
<1>. QED  BY <1>3 DEF t

LEMMA AckKeeps ==
    ASSUME tasks \in Seq(Task), Take("Message"),
           NEW s \in CoreType, NEW e \in Errors, NEW n \in Nat \cup {NoCount}
    PROVE  Keeps(s, Ack(s, e, n))
BY HeadMessage, MessageTypes, DeliverKeeps DEF Ack

LEMMA RespondKeeps ==
    ASSUME NEW s \in CoreType, NEW p \in s.pending,
           NEW st \in {"Ok", "Timeout"}, NEW payload \in Payloads
    PROVE  /\ Keeps(s, Respond(s, p, st, payload))
           /\ p \notin Respond(s, p, st, payload).pending
<1>. DEFINE t == [s EXCEPT !.pending = @ \ {p}]
            d == Deliver(t, p.requester, RspMsg(p.request_id, st, payload))
<1>1. p.request_id \in Nat
  BY CoreFields DEF Pending, PendingResponse
<1>2. t \in CoreType
  BY CoreFields, CoreUpdates DEF Pending
<1>3. /\ t.senders = s.senders /\ t.subs = s.subs /\ t.owner = s.owner
      /\ t.pending = s.pending \ {p} /\ t.next_client_id = s.next_client_id
      /\ t.next_msg_id = s.next_msg_id
  BY DEF CoreType
<1>. HIDE DEF t
<1>4. s.next_msg_id \in Nat
  BY CoreFields
<1>5. Keeps(s, t)
  BY <1>3, <1>4 DEF Keeps, Mentions
<1>6. d \in CoreType /\ Keeps(t, d)
  BY <1>1, <1>2, MessageTypes, DeliverType, DeliverKeeps
<1>. HIDE DEF d
<1>7. Keeps(s, d) /\ p \notin d.pending
  BY <1>2, <1>3, <1>5, <1>6, KeepsTransitive DEF Keeps
<1>8. Respond(s, p, st, payload) = d
  BY DEF Respond, t, d
<1>. QED  BY <1>7, <1>8

-----------------------------------------------------------------------------
(* What the handler of a message does to the tables: it may enter the sender,
   and takes from a connected client only what that client gives up. *)

Changes(t) ==
    /\ Mentions(t) \subseteq Mentions(core) \cup {Sender, Bus}
    /\ \A c \in Clients \ Closed :
          /\ c \in core.senders => c \in t.senders
          /\ \A topic \in Topics :
                /\ <<c, topic>> \in core.subs =>
                      \/ <<c, topic>> \in t.subs
                      \/ OnUnsub /\ Sender = c /\ Content.topic = topic
                /\ core.owner[topic] = c =>
                      \/ t.owner[topic] = c
                      \/ OnUnsrv /\ Sender = c /\ Content.topic = topic
    /\ core.next_msg_id <= t.next_msg_id
    /\ t.next_client_id = core.next_client_id

LEMMA KeepsChanges ==
    ASSUME TypeOK, NEW s \in CoreType, NEW t \in CoreType, Keeps(s, t)
    PROVE  (s = core \/ Changes(s)) => Changes(t)
<1>1. /\ core.next_msg_id \in Nat /\ s.next_msg_id \in Nat /\ t.next_msg_id \in Nat
  BY CoreFields DEF TypeOK
<1>. QED  BY <1>1 DEF Keeps, Changes

LEMMA RoutingChanges ==
    ASSUME TypeOK, OnSub \/ OnUnsub \/ OnSrv \/ OnUnsrv \/ OnStop \/ OnKeepAlive
    PROVE  Changes(core') /\ core'.pending \subseteq core.pending
<1>1. core \in CoreType /\ tasks \in Seq(Task) /\ core.next_msg_id \in Nat
  BY CoreFields DEF TypeOK
<1>2. Take("Message")
  BY DEF OnSub, OnUnsub, OnSrv, OnUnsrv, OnStop, OnKeepAlive, TakeMessage
<1>3. Sender \in Clients /\ Content \in ClientContent
  BY <1>1, <1>2, HeadMessage
<1>4. NoError \in Errors /\ NoCount \in Nat \cup {NoCount}
  BY ErrorTypes
<1>5. ASSUME NEW s \in CoreType, NEW e \in Errors, core' = Ack(s, e, NoCount),
             s = core \/ Changes(s), s.pending = core.pending
      PROVE  Changes(core') /\ core'.pending \subseteq core.pending
  <2>1. Keeps(s, core') /\ core' \in CoreType
    BY <1>1, <1>2, <1>4, <1>5, AckKeeps, AckType
  <2>. QED  BY <1>5, <2>1, KeepsChanges DEF Keeps
<1>6. CASE OnSub
  <2>. DEFINE s == [core EXCEPT !.subs = Subscribe(@, Sender, Content.topic)]
  <2>1. Content.topic \in Topics
    BY <1>3, <1>6, ContentTopic DEF OnSub, TakeMessage
  <2>2. s \in CoreType
    BY <1>1, <1>3, <2>1, SubsTypes, CoreUpdates
  <2>3. /\ s.senders = core.senders /\ s.owner = core.owner /\ s.pending = core.pending
        /\ s.subs = core.subs \cup {<<Sender, Content.topic>>}
        /\ s.next_msg_id = core.next_msg_id /\ s.next_client_id = core.next_client_id
    BY <1>1 DEF CoreType, Subscribe
  <2>4. core' = Ack(s, NoError, NoCount)
    BY <1>6 DEF OnSub
  <2>. HIDE DEF s
  <2>5. Changes(s)
    BY <1>1, <2>3 DEF Changes, Mentions
  <2>. QED  BY <1>4, <1>5, <2>2, <2>3, <2>4, <2>5
<1>7. CASE OnUnsub
  <2>. DEFINE s == [core EXCEPT !.subs = Unsubscribe(@, Sender, Content.topic)]
  <2>1. Content.topic \in Topics
    BY <1>3, <1>7, ContentTopic DEF OnUnsub, TakeMessage
  <2>2. s \in CoreType
    BY <1>1, <1>3, <2>1, SubsTypes, CoreUpdates
  <2>3. /\ s.senders = core.senders /\ s.owner = core.owner /\ s.pending = core.pending
        /\ s.subs = core.subs \ {<<Sender, Content.topic>>}
        /\ s.next_msg_id = core.next_msg_id /\ s.next_client_id = core.next_client_id
    BY <1>1 DEF CoreType, Unsubscribe
  <2>4. core' = Ack(s, NoError, NoCount)
    BY <1>7 DEF OnUnsub
  <2>. HIDE DEF s
  <2>5. Changes(s)
    BY <1>1, <1>7, <2>3 DEF Changes, Mentions
  <2>. QED  BY <1>4, <1>5, <2>2, <2>3, <2>4, <2>5
<1>8. CASE OnSrv
  <2>. DEFINE s == [core EXCEPT !.owner = Claim(@, Sender, Content.topic)]
  <2>1. Content.topic \in Topics
    BY <1>3, <1>8, ContentTopic DEF OnSrv, TakeMessage
  <2>2. s \in CoreType
    BY <1>1, <1>3, <2>1, CoreFields, OwnerType, CoreUpdates
  <2>3. /\ s.senders = core.senders /\ s.subs = core.subs /\ s.pending = core.pending
        /\ s.owner = Claim(core.owner, Sender, Content.topic)
        /\ s.next_msg_id = core.next_msg_id /\ s.next_client_id = core.next_client_id
    BY <1>1 DEF CoreType
  <2>4. core' = Ack(s, ClaimError(core.owner, Sender, Content.topic), NoCount)
    BY <1>8 DEF OnSrv
  <2>5. core.owner \in [Topics -> Ids]
    BY <1>1, CoreFields DEF Owners
  <2>6. \A t \in Topics : \/ s.owner[t] = core.owner[t]
                          \/ s.owner[t] = Sender /\ core.owner[t] = Bus
    BY <2>1, <2>3, <2>5 DEF Claim, ClaimError, NoError, NoOwner, Bus
  <2>. HIDE DEF s
  <2>7. Mentions(s) \subseteq Mentions(core) \cup {Sender, Bus}
    BY <2>3, <2>6 DEF Mentions
  <2>8. Changes(s)
    BY <1>1, <2>3, <2>6, <2>7, IdsType DEF Changes
  <2>. QED  BY <1>5, <2>2, <2>3, <2>4, <2>8, ErrorTypes
<1>9. CASE OnUnsrv
  <2>. DEFINE s == [core EXCEPT !.owner = Unclaim(@, Sender, Content.topic)]
  <2>1. Content.topic \in Topics
    BY <1>3, <1>9, ContentTopic DEF OnUnsrv, TakeMessage
  <2>2. s \in CoreType
    BY <1>1, <1>3, <2>1, CoreFields, OwnerType, CoreUpdates
  <2>3. /\ s.senders = core.senders /\ s.subs = core.subs /\ s.pending = core.pending
        /\ s.owner = Unclaim(core.owner, Sender, Content.topic)
        /\ s.next_msg_id = core.next_msg_id /\ s.next_client_id = core.next_client_id
    BY <1>1 DEF CoreType
  <2>4. PICK e \in UnclaimErrors(Content.topic) : core' = Ack(s, e, NoCount)
    BY <1>9 DEF OnUnsrv
  <2>5. core.owner \in [Topics -> Ids]
    BY <1>1, CoreFields DEF Owners
  <2>6. \A t \in Topics : \/ s.owner[t] = core.owner[t]
                          \/ /\ s.owner[t] = Bus /\ core.owner[t] = Sender
                             /\ Content.topic = t
    BY <2>1, <2>3, <2>5 DEF Unclaim, NoOwner, Bus
  <2>. HIDE DEF s
  <2>7. Mentions(s) \subseteq Mentions(core) \cup {Sender, Bus}
    BY <2>3, <2>6 DEF Mentions
  <2>8. Changes(s)
    BY <1>1, <1>9, <2>3, <2>6, <2>7 DEF Changes
  <2>. QED  BY <1>5, <2>2, <2>3, <2>4, <2>8, ErrorTypes
<1>10. CASE OnStop \/ OnKeepAlive
  <2>1. core' = Ack(core, NoError, NoCount)
    BY <1>10 DEF OnStop, OnKeepAlive
  <2>. QED  BY <1>1, <1>4, <1>5, <2>1
<1>. QED  BY <1>6, <1>7, <1>8, <1>9, <1>10

LEMMA AckChanges ==
    ASSUME TypeOK, Take("Message"),
           NEW s \in CoreType, s = core \/ Changes(s),
           NEW e \in Errors, NEW n \in Nat \cup {NoCount}
    PROVE  Changes(Ack(s, e, n)) /\ Keeps(s, Ack(s, e, n))
<1>1. tasks \in Seq(Task)
  BY DEF TypeOK
<1>2. Keeps(s, Ack(s, e, n)) /\ Ack(s, e, n) \in CoreType
  BY <1>1, AckKeeps, AckType
<1>. QED  BY <1>2, KeepsChanges

LEMMA PublishChanges ==
    ASSUME TypeOK, OnPub \/ OnPubFails \/ OnPubKill
    PROVE  Changes(core') /\ core'.pending \subseteq core.pending
<1>1. core \in CoreType /\ tasks \in Seq(Task)
  BY DEF TypeOK
<1>2. Take("Message") /\ Content.type = "Pub"
  BY DEF OnPub, OnPubFails, OnPubKill, TakeMessage
<1>3. Publication \in ServerMsg
  <2>1. Payload \in Payloads /\ Content.topic \in Topics
    BY <1>1, <1>2, HeadMessage, ContentTopic
  <2>. QED  BY <2>1, MessageTypes DEF Publication
<1>4. Reachable \subseteq Clients
  BY DEF Reachable
<1>5. ASSUME NEW D \in SUBSET Reachable
      PROVE  LET s == DeliverAll(core, D, Publication)
             IN  s \in CoreType /\ Keeps(core, s) /\ Changes(s)
                 /\ s.pending \subseteq core.pending
  <2>. DEFINE s == DeliverAll(core, D, Publication)
  <2>1. s \in CoreType /\ Keeps(core, s)
    BY <1>1, <1>3, <1>4, DeliverAllType, DeliverAllKeeps
  <2>. HIDE DEF s
  <2>2. Changes(s)
    BY <1>1, <2>1, KeepsChanges
  <2>3. s.pending \subseteq core.pending
    BY <2>1 DEF Keeps
  <2>. QED  BY <2>1, <2>2, <2>3 DEF s
<1>6. CASE OnPub
  <2>. DEFINE s == DeliverAll(core, Recipients, Publication)
              n == Cardinality(Recipients)
  <2>1. Recipients \in SUBSET Reachable /\ n \in Nat \cup {NoCount}
    BY <1>4, <1>6, ClientsFinite DEF OnPub
  <2>2. core' = Ack(s, NoError, n)
    BY <1>6 DEF OnPub
  <2>3. s \in CoreType /\ Changes(s) /\ s.pending \subseteq core.pending
    BY <1>5, <2>1
  <2>. HIDE DEF s, n
  <2>4. Changes(core') /\ Keeps(s, core')
    BY <1>2, <2>1, <2>2, <2>3, ErrorTypes, AckChanges
  <2>. QED  BY <2>3, <2>4 DEF Keeps
<1>7. CASE OnPubFails
  <2>1. PICK f \in (Recipients \cap Clients) \ Reachable, done \in SUBSET Reachable :
          core' = Ack(Deliver(DeliverAll(core, done, Publication), f, Publication),
                      DeliverError(core, f), NoCount)
    BY <1>7 DEF OnPubFails
  <2>. DEFINE s == DeliverAll(core, done, Publication)
              d == Deliver(s, f, Publication)
  <2>2. s \in CoreType /\ Changes(s) /\ s.pending \subseteq core.pending
    BY <1>5
  <2>. HIDE DEF s
  <2>3. d \in CoreType /\ Keeps(s, d)
    BY <1>3, <2>2, DeliverType, DeliverKeeps
  <2>4. core' = Ack(d, DeliverError(core, f), NoCount)
    BY <2>1 DEF s
  <2>. HIDE DEF d
  <2>5. Changes(d)
    BY <2>2, <2>3, KeepsChanges
  <2>6. Changes(core') /\ Keeps(d, core')
    BY <1>2, <2>3, <2>4, <2>5, ErrorTypes, AckChanges
  <2>. QED  BY <2>2, <2>3, <2>6 DEF Keeps
<1>8. CASE OnPubKill
  BY <1>5, <1>8 DEF OnPubKill
<1>. QED  BY <1>6, <1>7, <1>8

(* A request that is routed adds one pending response, with a fresh id. *)
LEMMA RequestChanges ==
    ASSUME TypeOK, OnReqNotServed \/ OnReqFails \/ OnReq
    PROVE  /\ Changes(core')
           /\ \/ core'.pending \subseteq core.pending
              \/ /\ core'.pending \subseteq core.pending \cup {Awaited}
                 /\ Awaited.id = core.next_msg_id
                 /\ core.next_msg_id < core'.next_msg_id
                 /\ timers' = timers \cup {core.next_msg_id}
<1>1. core \in CoreType /\ tasks \in Seq(Task) /\ core.next_msg_id \in Nat
  BY CoreFields DEF TypeOK
<1>2. Take("Message") /\ Content.type = "Req"
  BY DEF OnReqNotServed, OnReqFails, OnReq, TakeMessage
<1>3. Sender \in Clients /\ Payload \in Payloads /\ Content.topic \in Topics
        /\ Head(tasks).id \in Nat
  BY <1>1, <1>2, HeadMessage, ContentTopic
<1>4. Request \in ServerMsg
  BY <1>1, <1>3, MessageTypes DEF Request
<1>. DEFINE d == Deliver(core, Server, Request)
<1>5. d \in CoreType /\ Keeps(core, d)
  BY <1>1, <1>4, DeliverType, DeliverKeeps
<1>6. Changes(d)
  BY <1>1, <1>5, KeepsChanges
<1>7. CASE OnReqNotServed
  <2>1. core' = Ack(core, "ServiceNotFound", NoCount)
    BY <1>7 DEF OnReqNotServed
  <2>2. Changes(core') /\ Keeps(core, core')
    BY <1>1, <1>2, <2>1, ErrorTypes, AckChanges
  <2>. QED  BY <2>2 DEF Keeps
<1>8. CASE OnReqFails
  <2>1. core' = Ack(d, DeliverError(core, Server), NoCount)
    BY <1>8 DEF OnReqFails
  <2>. HIDE DEF d
  <2>2. Changes(core') /\ Keeps(d, core')
    BY <1>2, <1>5, <1>6, <2>1, ErrorTypes, AckChanges
  <2>. QED  BY <1>5, <2>2 DEF Keeps
<1>9. CASE OnReq
  <2>. DEFINE s == [d EXCEPT !.pending = @ \cup {Awaited}]
  <2>1. Server \in Clients
    BY <1>1, <1>9, CoreFields DEF OnReq, DeliverError, Senders, NoError
  <2>2. Server \in Mentions(core)
    BY <1>3, <1>9 DEF OnReq, Server, GetOwner, Mentions
  <2>3. Awaited \in PendingResponse
    BY <1>1, <1>3, <2>1 DEF Awaited, PendingResponse
  <2>4. /\ Awaited.id = core.next_msg_id
        /\ Awaited.requester = Sender /\ Awaited.responder = Server
    BY DEF Awaited
  <2>5. d.next_msg_id = core.next_msg_id + 1
    <3>1. d = Send(TakeMsgId(core), Server, Request)
      BY <1>9 DEF OnReq, Deliver
    <3>. QED  BY <1>1, <3>1 DEF Send, TakeMsgId, CoreType
  <2>6. core' = Ack(s, NoError, NoCount) /\ timers' = timers \cup {core.next_msg_id}
    BY <1>9 DEF OnReq, StartTimer
  <2>. HIDE DEF d
  <2>7. s \in CoreType
    BY <1>5, <2>3, CoreFields, CoreUpdates DEF Pending
  <2>8. /\ s.senders = d.senders /\ s.subs = d.subs /\ s.owner = d.owner
        /\ s.pending = d.pending \cup {Awaited}
        /\ s.next_msg_id = d.next_msg_id /\ s.next_client_id = d.next_client_id
    BY <1>5 DEF CoreType
  <2>. HIDE DEF s
  <2>9. Mentions(s) \subseteq Mentions(d) \cup {Sender, Server}
    BY <2>4, <2>8 DEF Mentions
  <2>10. Mentions(s) \subseteq Mentions(core) \cup {Sender, Bus}
    BY <1>5, <2>2, <2>9 DEF Keeps
  <2>11. Changes(s)
    BY <1>6, <2>8, <2>10 DEF Changes
  <2>12. Changes(core') /\ Keeps(s, core')
    BY <1>2, <2>6, <2>7, <2>11, ErrorTypes, AckChanges
  <2>13. core'.pending \subseteq core.pending \cup {Awaited}
    BY <1>5, <2>8, <2>12 DEF Keeps
  <2>14. core.next_msg_id < core'.next_msg_id
    <3>1. core' \in CoreType
      BY <1>9, RequestSteps
    <3>2. core'.next_msg_id \in Nat /\ s.next_msg_id <= core'.next_msg_id
      BY <3>1, <2>12, CoreFields DEF Keeps
    <3>. QED  BY <1>1, <2>5, <2>8, <3>2
  <2>. QED  BY <2>4, <2>6, <2>12, <2>13, <2>14
<1>. QED  BY <1>7, <1>8, <1>9

LEMMA AnswerChanges ==
    ASSUME TypeOK, OnRspInvalid \/ OnRsp
    PROVE  Changes(core') /\ core'.pending \subseteq core.pending
<1>1. core \in CoreType /\ tasks \in Seq(Task)
  BY DEF TypeOK
<1>2. CASE OnRspInvalid
  <2>1. Take("Message") /\ core' = Ack(core, "InvalidRequestId", NoCount)
    BY <1>2 DEF OnRspInvalid, TakeMessage
  <2>2. Changes(core') /\ Keeps(core, core')
    BY <1>1, <2>1, ErrorTypes, AckChanges
  <2>. QED  BY <2>2 DEF Keeps
<1>3. CASE OnRsp
  <2>1. PICK p \in core.pending :
          core' = Ack(Respond(core, p, "Ok", Payload), DeliverError(core, p.requester), NoCount)
    BY <1>3 DEF OnRsp
  <2>2. Take("Message")
    BY <1>3 DEF OnRsp, TakeMessage
  <2>. DEFINE s == Respond(core, p, "Ok", Payload)
  <2>3. Payload \in Payloads
    BY <1>1, <2>2, HeadMessage
  <2>4. s \in CoreType /\ Keeps(core, s)
    BY <1>1, <2>3, RespondType, RespondKeeps
  <2>5. core' = Ack(s, DeliverError(core, p.requester), NoCount)
    BY <2>1
  <2>. HIDE DEF s
  <2>6. Changes(s)
    BY <1>1, <2>4, KeepsChanges
  <2>7. Changes(core') /\ Keeps(s, core')
    BY <2>2, <2>4, <2>5, <2>6, ErrorTypes, AckChanges
  <2>. QED  BY <2>4, <2>7 DEF Keeps
<1>. QED  BY <1>2, <1>3

-----------------------------------------------------------------------------
(* The queue of tasks *)

LEMMA Dequeue ==
    ASSUME tasks \in Seq(Task), tasks # <<>>, tasks' = Tail(tasks)
    PROVE  /\ \A i \in DOMAIN tasks' : i + 1 \in DOMAIN tasks /\ tasks'[i] = tasks[i + 1]
           /\ \A i \in DOMAIN tasks : i # 1 => i - 1 \in DOMAIN tasks' /\ tasks'[i - 1] = tasks[i]
           /\ 1 \in DOMAIN tasks /\ tasks[1] = Head(tasks)
           /\ \A task : Queued(task)' => Queued(task)
           /\ \A task : Queued(task) => Queued(task)' \/ task = Head(tasks)
<1>1. \A i \in DOMAIN tasks' : i + 1 \in DOMAIN tasks /\ tasks'[i] = tasks[i + 1]
  OBVIOUS
<1>2. \A i \in DOMAIN tasks : i # 1 => i - 1 \in DOMAIN tasks' /\ tasks'[i - 1] = tasks[i]
  OBVIOUS
<1>3. 1 \in DOMAIN tasks /\ tasks[1] = Head(tasks)
  OBVIOUS
<1>4. \A task : Queued(task)' => Queued(task)
  BY <1>1 DEF Queued
<1>5. \A task : Queued(task) => Queued(task)' \/ task = Head(tasks)
  BY <1>2, <1>3 DEF Queued
<1>. QED  BY <1>1, <1>2, <1>3, <1>4, <1>5

LEMMA Enqueue ==
    ASSUME tasks \in Seq(Task), NEW task \in Task, tasks' = Append(tasks, task)
    PROVE  /\ \A i \in DOMAIN tasks : i \in DOMAIN tasks' /\ tasks'[i] = tasks[i]
           /\ \A i \in DOMAIN tasks' : i \in DOMAIN tasks \/ i = Len(tasks) + 1
           /\ Len(tasks) + 1 \in DOMAIN tasks' /\ tasks'[Len(tasks) + 1] = task
           /\ \A i \in DOMAIN tasks : i < Len(tasks) + 1
           /\ \A u : Queued(u) => Queued(u)'
           /\ Queued(task)'
           /\ \A u : Queued(u)' => Queued(u) \/ u = task
<1>1. \A i \in DOMAIN tasks : i \in DOMAIN tasks' /\ tasks'[i] = tasks[i]
  OBVIOUS
<1>2. \A i \in DOMAIN tasks' : i \in DOMAIN tasks \/ i = Len(tasks) + 1
  OBVIOUS
<1>3. Len(tasks) + 1 \in DOMAIN tasks' /\ tasks'[Len(tasks) + 1] = task
  OBVIOUS
<1>4. \A i \in DOMAIN tasks : i < Len(tasks) + 1
  OBVIOUS
<1>5. (\A u : Queued(u) => Queued(u)') /\ Queued(task)'
  BY <1>1, <1>3 DEF Queued
<1>6. \A u : Queued(u)' => Queued(u) \/ u = task
  BY <1>1, <1>2, <1>3 DEF Queued
<1>. QED  BY <1>1, <1>2, <1>3, <1>4, <1>5, <1>6

-----------------------------------------------------------------------------
(* The inductive invariant behind NoDanglingReference *)

RouteInv ==
    /\ TypeOK
    /\ UnusedIds
    /\ DeregisterWhenGone
    /\ DeregisterFollowsMessages
    /\ NoDanglingReference
    /\ LiveClientsRegistered

LEMMA RouteInit == Init => RouteInv
<1>. SUFFICES ASSUME Init PROVE RouteInv
  OBVIOUS
<1>1. TypeOK
  BY InitType
<1>2. tasks = <<>> /\ \A c \in Clients : stub[c] = "none"
  BY DEF Init
<1>3. UnusedIds /\ DeregisterWhenGone /\ DeregisterFollowsMessages /\ LiveClientsRegistered
  BY <1>2 DEF UnusedIds, DeregisterWhenGone, DeregisterFollowsMessages, LiveClientsRegistered,
              Queued
<1>4. Mentioned \subseteq {Bus}
  BY DEF Init, Mentioned, Mentions, NoOwner, Bus
<1>. QED  BY <1>1, <1>3, <1>4 DEF RouteInv, NoDanglingReference

(* A step that ends the core leaves nothing to keep. *)
LEMMA RouteEnds ==
    ASSUME RouteInv, TypeOK', tasks' = <<>>, ~Running', UNCHANGED stub,
           core'.next_client_id = core.next_client_id
    PROVE  RouteInv'
BY DEF RouteInv, UnusedIds, DeregisterWhenGone, DeregisterFollowsMessages, NoDanglingReference,
       LiveClientsRegistered, Queued

(* A step that takes the head of the queue, and lets the tables mention no
   new client but the sender of a message *)
LEMMA RouteDequeues ==
    ASSUME RouteInv, TypeOK', Running, tasks # <<>>, Continue, UNCHANGED stub,
           Head(tasks).type # "Deregister",
           Mentions(core') \subseteq
               Mentions(core) \cup {Bus}
                 \cup {c \in Clients : Head(tasks).type = "Message" /\ Head(tasks).client = c},
           \A c \in Clients : stub[c] = "serving" /\ c \in core.senders => c \in core'.senders,
           core'.next_client_id = core.next_client_id
    PROVE  RouteInv'
<1>1. tasks \in Seq(Task) /\ tasks' = Tail(tasks)
  BY DEF RouteInv, TypeOK, Continue
<1>2. UnusedIds'
  BY DEF RouteInv, UnusedIds
<1>3. DeregisterWhenGone'
  BY <1>1, Dequeue DEF RouteInv, DeregisterWhenGone, Gone
<1>4. DeregisterFollowsMessages'
  <2>. SUFFICES ASSUME NEW i \in DOMAIN tasks', tasks'[i].type = "Message"
                PROVE  \/ stub'[tasks'[i].client] = "serving"
                       \/ \E j \in DOMAIN tasks' :
                             i < j /\ tasks'[j] = DeregisterOf(tasks'[i].client)
    BY DEF DeregisterFollowsMessages
  <2>1. i + 1 \in DOMAIN tasks /\ tasks'[i] = tasks[i + 1]
    BY <1>1, Dequeue
  <2>2. CASE stub[tasks'[i].client] = "serving"
    BY <2>2
  <2>3. CASE stub[tasks'[i].client] # "serving"
    <3>1. PICK j \in DOMAIN tasks : i + 1 < j /\ tasks[j] = DeregisterOf(tasks'[i].client)
      BY <2>1, <2>3 DEF RouteInv, DeregisterFollowsMessages
    <3>2. j # 1 /\ i < j - 1
      BY <1>1, <3>1
    <3>. QED  BY <1>1, <3>1, <3>2, Dequeue
  <2>. QED  BY <2>2, <2>3
<1>5. NoDanglingReference'
  <2>. SUFFICES ASSUME NEW c \in Mentions(core') \ {Bus}
                PROVE  stub'[c] = "serving" \/ Queued(DeregisterOf(c))'
    BY DEF NoDanglingReference, Mentioned
  <2>1. Queued(DeregisterOf(c)) => Queued(DeregisterOf(c))'
    BY <1>1, Dequeue DEF DeregisterOf
  <2>2. CASE c \in Mentions(core)
    BY <2>1, <2>2 DEF RouteInv, NoDanglingReference, Mentioned
  <2>3. CASE Head(tasks).type = "Message" /\ Head(tasks).client = c
    <3>1. 1 \in DOMAIN tasks /\ tasks[1] = Head(tasks)
      BY <1>1, Dequeue
    <3>2. stub[c] = "serving" \/ Queued(DeregisterOf(c))
      BY <2>3, <3>1 DEF RouteInv, DeregisterFollowsMessages, Queued
    <3>. QED  BY <2>1, <3>2
  <2>. QED  BY <2>2, <2>3
<1>6. LiveClientsRegistered'
  BY DEF RouteInv, LiveClientsRegistered
<1>. QED  BY <1>2, <1>3, <1>4, <1>5, <1>6 DEF RouteInv

(* A step that puts a task at the end of the queue and leaves the tables and
   the stubs as they are *)
LEMMA RouteEnqueues ==
    ASSUME RouteInv, TypeOK', NEW task \in Task, tasks' = Append(tasks, task),
           UNCHANGED <<core, stub, status>>,
           task.type # "Deregister",
           task.type = "Message" => stub[task.client] = "serving"
    PROVE  RouteInv'
<1>1. tasks \in Seq(Task)
  BY DEF RouteInv, TypeOK
<1>2. UnusedIds' /\ LiveClientsRegistered'
  BY DEF RouteInv, UnusedIds, LiveClientsRegistered, Running
<1>3. DeregisterWhenGone'
  <2>1. \A c \in Clients : Queued(DeregisterOf(c))' => Queued(DeregisterOf(c))
    BY <1>1, Enqueue DEF DeregisterOf
  <2>. QED  BY <2>1 DEF RouteInv, DeregisterWhenGone, Gone
<1>4. NoDanglingReference'
  BY <1>1, Enqueue DEF RouteInv, NoDanglingReference, Mentioned, Running
<1>5. DeregisterFollowsMessages'
  <2>. SUFFICES ASSUME Running, NEW i \in DOMAIN tasks', tasks'[i].type = "Message"
                PROVE  \/ stub[tasks'[i].client] = "serving"
                       \/ \E j \in DOMAIN tasks' :
                             i < j /\ tasks'[j] = DeregisterOf(tasks'[i].client)
    BY DEF DeregisterFollowsMessages, Running
  <2>1. CASE i \in DOMAIN tasks
    <3>1. tasks'[i] = tasks[i]
      BY <1>1, <2>1, Enqueue
    <3>2. \/ stub[tasks[i].client] = "serving"
          \/ \E j \in DOMAIN tasks : i < j /\ tasks[j] = DeregisterOf(tasks[i].client)
      BY <2>1, <3>1 DEF RouteInv, DeregisterFollowsMessages
    <3>. QED  BY <1>1, <3>1, <3>2, Enqueue
  <2>2. CASE i \notin DOMAIN tasks
    BY <1>1, <2>2, Enqueue
  <2>. QED  BY <2>1, <2>2
<1>. QED  BY <1>2, <1>3, <1>4, <1>5 DEF RouteInv

(* A stub leaves: its Deregister goes to the end of the queue. *)
LEMMA RouteLeaves ==
    ASSUME RouteInv, TypeOK', NEW c \in Clients, stub[c] = "serving", Leave(c),
           UNCHANGED <<core, status>>
    PROVE  RouteInv'
<1>1. tasks \in Seq(Task) /\ DeregisterOf(c) \in Task
  BY OtherTasks DEF RouteInv, TypeOK
<1>2. stub \in [Clients -> {"none", "serving", "closing", "closed"}]
  BY DEF RouteInv, TypeOK
<1>3. \A d \in Clients : stub'[d] = IF d = c THEN "closing" ELSE stub[d]
  BY <1>2 DEF Leave
<1>4. UnusedIds'
  BY <1>3 DEF RouteInv, UnusedIds
<1>5. LiveClientsRegistered'
  BY <1>3 DEF RouteInv, LiveClientsRegistered, Running
<1>6. CASE ~Running
  <2>1. tasks' = tasks
    BY <1>6 DEF Leave
  <2>2. DeregisterWhenGone'
    BY <1>3, <2>1 DEF RouteInv, DeregisterWhenGone, Gone, Queued
  <2>. QED  BY <1>4, <1>5, <1>6, <2>2
            DEF RouteInv, DeregisterFollowsMessages, NoDanglingReference, Running
<1>7. CASE Running
  <2>1. tasks' = Append(tasks, DeregisterOf(c))
    BY <1>7 DEF Leave, DeregisterOf
  <2>2. DeregisterWhenGone'
    <3>. SUFFICES ASSUME NEW d \in Clients, Queued(DeregisterOf(d))'
                  PROVE  stub'[d] \in {"closing", "closed"}
      BY DEF DeregisterWhenGone, Gone
    <3>1. Queued(DeregisterOf(d)) \/ DeregisterOf(d) = DeregisterOf(c)
      BY <1>1, <2>1, Enqueue
    <3>2. d = c \/ Gone(d)
      BY <3>1 DEF DeregisterOf, RouteInv, DeregisterWhenGone
    <3>. QED  BY <1>3, <3>2 DEF Gone
  <2>3. NoDanglingReference'
    <3>. SUFFICES ASSUME NEW d \in Mentions(core) \ {Bus}
                  PROVE  stub'[d] = "serving" \/ Queued(DeregisterOf(d))'
      BY DEF NoDanglingReference, Mentioned
    <3>1. stub[d] = "serving" \/ Queued(DeregisterOf(d))
      BY <1>7 DEF RouteInv, NoDanglingReference, Mentioned
    <3>2. Queued(DeregisterOf(c))' /\ (Queued(DeregisterOf(d)) => Queued(DeregisterOf(d))')
      BY <1>1, <2>1, Enqueue
    <3>. QED  BY <1>2, <3>1, <3>2 DEF Leave
  <2>4. DeregisterFollowsMessages'
    <3>. SUFFICES ASSUME NEW i \in DOMAIN tasks', tasks'[i].type = "Message"
                  PROVE  \/ stub'[tasks'[i].client] = "serving"
                         \/ \E j \in DOMAIN tasks' :
                               i < j /\ tasks'[j] = DeregisterOf(tasks'[i].client)
      BY DEF DeregisterFollowsMessages
    <3>1. i \in DOMAIN tasks /\ tasks'[i] = tasks[i]
      BY <1>1, <2>1, Enqueue DEF DeregisterOf
    <3>2. \/ stub[tasks[i].client] = "serving"
          \/ \E j \in DOMAIN tasks : i < j /\ tasks[j] = DeregisterOf(tasks[i].client)
      BY <1>7, <3>1 DEF RouteInv, DeregisterFollowsMessages
    <3>3. CASE tasks[i].client = c
      BY <1>1, <2>1, <3>1, <3>3, Enqueue
    <3>4. CASE tasks[i].client # c
      <4>1. CASE stub[tasks[i].client] = "serving"
        BY <1>2, <3>1, <3>4, <4>1 DEF Leave
      <4>2. CASE \E j \in DOMAIN tasks : i < j /\ tasks[j] = DeregisterOf(tasks[i].client)
        BY <1>1, <2>1, <3>1, <4>2, Enqueue
      <4>. QED  BY <3>2, <4>1, <4>2
    <3>. QED  BY <3>3, <3>4
  <2>. QED  BY <1>4, <1>5, <2>2, <2>3, <2>4 DEF RouteInv
<1>. QED  BY <1>6, <1>7

-----------------------------------------------------------------------------
(* Each step keeps RouteInv *)

LEMMA RouteRegister ==
    ASSUME RouteInv, TypeOK', OnRegister
    PROVE  RouteInv'
<1>. DEFINE n == core.next_client_id
<1>1. tasks \in Seq(Task) /\ tasks # <<>> /\ tasks' = Tail(tasks)
  BY DEF RouteInv, TypeOK, OnRegister, Take, Continue
<1>2. Running /\ Running' /\ Head(tasks).type = "Register" /\ n \in Clients
  BY DEF OnRegister, Take, Continue, Running
<1>3. core \in CoreType /\ n \in Nat
  BY CoreFields DEF RouteInv, TypeOK
<1>4. /\ core'.senders = core.senders \cup {n}
      /\ core'.subs = core.subs /\ core'.owner = core.owner /\ core'.pending = core.pending
      /\ core'.next_client_id = n + 1
  BY <1>3 DEF OnRegister, CoreType
<1>. HIDE DEF n
<1>5. \A c \in Clients : stub'[c] = IF c = n THEN "serving" ELSE stub[c]
  BY DEF OnRegister, RouteInv, TypeOK, n
<1>6. stub[n] = "none"
  BY <1>2, <1>3 DEF RouteInv, UnusedIds, n
<1>7. UnusedIds'
  <2>. SUFFICES ASSUME NEW c \in Clients, c >= n + 1 PROVE stub'[c] = "none"
    BY <1>4 DEF UnusedIds
  <2>1. c \in Nat /\ c # n /\ c >= n
    BY <1>3 DEF Clients
  <2>. QED  BY <1>5, <2>1 DEF RouteInv, UnusedIds, n
<1>8. \A c \in Clients : Queued(DeregisterOf(c)) => c # n
  BY <1>6 DEF RouteInv, DeregisterWhenGone, Gone
<1>9. DeregisterWhenGone'
  BY <1>1, <1>5, <1>8, Dequeue DEF RouteInv, DeregisterWhenGone, Gone
<1>10. LiveClientsRegistered'
  BY <1>2, <1>4, <1>5 DEF RouteInv, LiveClientsRegistered
<1>11. NoDanglingReference'
  <2>. SUFFICES ASSUME NEW c \in Mentions(core') \ {Bus}
                PROVE  stub'[c] = "serving" \/ Queued(DeregisterOf(c))'
    BY DEF NoDanglingReference, Mentioned
  <2>1. CASE c = n
    BY <1>2, <1>5, <2>1
  <2>2. CASE c # n
    <3>1. c \in Mentions(core)
      BY <1>4, <2>2 DEF Mentions
    <3>2. stub[c] = "serving" \/ Queued(DeregisterOf(c))
      BY <1>2, <3>1 DEF RouteInv, NoDanglingReference, Mentioned
    <3>3. stub[c] = "serving" => stub'[c] = "serving"
      BY <2>2 DEF OnRegister, RouteInv, TypeOK, n
    <3>. QED  BY <1>1, <1>2, <3>2, <3>3, Dequeue DEF DeregisterOf
  <2>. QED  BY <2>1, <2>2
<1>12. DeregisterFollowsMessages'
  <2>. SUFFICES ASSUME NEW i \in DOMAIN tasks', tasks'[i].type = "Message"
                PROVE  \/ stub'[tasks'[i].client] = "serving"
                       \/ \E j \in DOMAIN tasks' :
                             i < j /\ tasks'[j] = DeregisterOf(tasks'[i].client)
    BY DEF DeregisterFollowsMessages
  <2>1. i + 1 \in DOMAIN tasks /\ tasks'[i] = tasks[i + 1]
    BY <1>1, Dequeue
  <2>2. \/ stub[tasks'[i].client] = "serving"
        \/ \E j \in DOMAIN tasks : i + 1 < j /\ tasks[j] = DeregisterOf(tasks'[i].client)
    BY <1>2, <2>1 DEF RouteInv, DeregisterFollowsMessages
  <2>3. CASE stub[tasks'[i].client] = "serving"
    BY <1>2, <2>3, <1>6 DEF OnRegister, RouteInv, TypeOK, n
  <2>4. CASE \E j \in DOMAIN tasks : i + 1 < j /\ tasks[j] = DeregisterOf(tasks'[i].client)
    <3>1. PICK j \in DOMAIN tasks : i + 1 < j /\ tasks[j] = DeregisterOf(tasks'[i].client)
      BY <2>4
    <3>2. j # 1 /\ i < j - 1
      BY <1>1, <3>1
    <3>. QED  BY <1>1, <3>1, <3>2, Dequeue
  <2>. QED  BY <2>2, <2>3, <2>4
<1>. QED  BY <1>7, <1>9, <1>10, <1>11, <1>12 DEF RouteInv

LEMMA RouteDeregister ==
    ASSUME RouteInv, TypeOK', OnDeregister
    PROVE  RouteInv'
<1>. DEFINE c == Head(tasks).client
<1>1. tasks \in Seq(Task) /\ tasks # <<>> /\ tasks' = Tail(tasks) /\ UNCHANGED <<stub, status>>
  BY DEF RouteInv, TypeOK, OnDeregister, Take, Continue
<1>2. Running /\ Head(tasks).type = "Deregister"
  BY DEF OnDeregister, Take
<1>3. c \in Clients /\ Head(tasks) = DeregisterOf(c)
  <2>1. Head(tasks) \in Task
    BY <1>1, HeadTask
  <2>. QED  BY <1>2, <2>1 DEF Task, DeregisterOf
<1>4. core \in CoreType /\ core' = DeregisterClient(core, c)
  BY DEF RouteInv, TypeOK, OnDeregister
<1>. HIDE DEF c
<1>5. /\ core'.senders = core.senders \ {c}
      /\ core'.next_client_id = core.next_client_id
      /\ Mentions(core') \subseteq (Mentions(core) \ {c}) \cup {Bus}
  BY <1>3, <1>4, DeregisterFields, DeregisterMentions
<1>6. stub[c] # "serving"
  <2>1. Queued(DeregisterOf(c))
    BY <1>1, <1>3, Dequeue DEF Queued
  <2>. QED  BY <1>3, <2>1 DEF RouteInv, DeregisterWhenGone, Gone
<1>7. UnusedIds'
  BY <1>1, <1>5 DEF RouteInv, UnusedIds
<1>8. DeregisterWhenGone'
  BY <1>1, Dequeue DEF RouteInv, DeregisterWhenGone, Gone
<1>9. LiveClientsRegistered'
  BY <1>1, <1>2, <1>5, <1>6 DEF RouteInv, LiveClientsRegistered
<1>10. NoDanglingReference'
  <2>. SUFFICES ASSUME NEW d \in Mentions(core') \ {Bus}
                PROVE  stub'[d] = "serving" \/ Queued(DeregisterOf(d))'
    BY DEF NoDanglingReference, Mentioned
  <2>1. d \in Mentions(core) /\ d # c
    BY <1>5
  <2>2. stub[d] = "serving" \/ Queued(DeregisterOf(d))
    BY <1>2, <2>1 DEF RouteInv, NoDanglingReference, Mentioned
  <2>3. DeregisterOf(d) # Head(tasks)
    BY <1>3, <2>1 DEF DeregisterOf
  <2>. QED  BY <1>1, <2>2, <2>3, Dequeue
<1>11. DeregisterFollowsMessages'
  <2>. SUFFICES ASSUME NEW i \in DOMAIN tasks', tasks'[i].type = "Message"
                PROVE  \/ stub'[tasks'[i].client] = "serving"
                       \/ \E j \in DOMAIN tasks' :
                             i < j /\ tasks'[j] = DeregisterOf(tasks'[i].client)
    BY DEF DeregisterFollowsMessages
  <2>1. i + 1 \in DOMAIN tasks /\ tasks'[i] = tasks[i + 1]
    BY <1>1, Dequeue
  <2>2. CASE stub[tasks'[i].client] = "serving"
    BY <1>1, <2>2
  <2>3. CASE stub[tasks'[i].client] # "serving"
    <3>1. PICK j \in DOMAIN tasks : i + 1 < j /\ tasks[j] = DeregisterOf(tasks'[i].client)
      BY <1>2, <2>1, <2>3 DEF RouteInv, DeregisterFollowsMessages
    <3>2. j # 1 /\ i < j - 1
      BY <1>1, <3>1
    <3>. QED  BY <1>1, <3>1, <3>2, Dequeue
  <2>. QED  BY <2>2, <2>3
<1>. QED  BY <1>7, <1>8, <1>9, <1>10, <1>11 DEF RouteInv

MessageStep ==
    \/ OnSub \/ OnUnsub \/ OnSrv \/ OnUnsrv \/ OnStop \/ OnKeepAlive
    \/ OnPub \/ OnPubFails \/ OnPubKill
    \/ OnReqNotServed \/ OnReqFails \/ OnReq
    \/ OnRspInvalid \/ OnRsp

LEMMA MessageChanges ==
    ASSUME TypeOK, MessageStep
    PROVE  /\ Changes(core')
           /\ Take("Message") /\ Sender \in Clients
           /\ Continue \/ (tasks' = <<>> /\ ~Running')
           /\ UNCHANGED stub
<1>1. Changes(core')
  BY RoutingChanges, PublishChanges, RequestChanges, AnswerChanges DEF MessageStep
<1>2. Take("Message")
  BY DEF MessageStep, OnSub, OnUnsub, OnSrv, OnUnsrv, OnStop, OnKeepAlive, OnPub, OnPubFails,
         OnPubKill, OnReqNotServed, OnReqFails, OnReq, OnRspInvalid, OnRsp, TakeMessage
<1>3. Sender \in Clients
  BY <1>2, HeadMessage DEF TypeOK
<1>4. Continue \/ (tasks' = <<>> /\ ~Running')
  BY DEF MessageStep, OnSub, OnUnsub, OnSrv, OnUnsrv, OnStop, OnKeepAlive, OnPub, OnPubFails,
         OnPubKill, OnReqNotServed, OnReqFails, OnReq, OnRspInvalid, OnRsp, End, Running
<1>5. UNCHANGED stub
  BY DEF MessageStep, OnSub, OnUnsub, OnSrv, OnUnsrv, OnStop, OnKeepAlive, OnPub, OnPubFails,
         OnPubKill, OnReqNotServed, OnReqFails, OnReq, OnRspInvalid, OnRsp
<1>. QED  BY <1>1, <1>2, <1>3, <1>4, <1>5

LEMMA RouteMessage ==
    ASSUME RouteInv, TypeOK', MessageStep
    PROVE  RouteInv'
<1>1. /\ Changes(core')
      /\ Take("Message") /\ Sender \in Clients
      /\ Continue \/ (tasks' = <<>> /\ ~Running')
      /\ UNCHANGED stub
  BY MessageChanges DEF RouteInv
<1>2. core'.next_client_id = core.next_client_id
  BY <1>1 DEF Changes
<1>3. CASE Continue
  <2>1. Running /\ tasks # <<>> /\ Head(tasks).type = "Message"
    BY <1>1 DEF Take
  <2>2. Mentions(core') \subseteq
            Mentions(core) \cup {Bus}
              \cup {c \in Clients : Head(tasks).type = "Message" /\ Head(tasks).client = c}
    BY <1>1, <2>1 DEF Changes, Sender
  <2>3. \A c \in Clients : stub[c] = "serving" /\ c \in core.senders => c \in core'.senders
    BY <1>1 DEF Changes, Closed
  <2>. QED  BY <1>1, <1>2, <1>3, <2>1, <2>2, <2>3, RouteDequeues
<1>4. CASE tasks' = <<>> /\ ~Running'
  BY <1>1, <1>2, <1>4, RouteEnds
<1>. QED  BY <1>1, <1>3, <1>4

LEMMA TimeoutKeeps ==
    ASSUME TypeOK, OnTimeout
    PROVE  /\ Keeps(core, core')
           /\ Take("RequestTimeout")
           /\ Continue \/ (tasks' = <<>> /\ ~Running')
           /\ UNCHANGED <<timers, stub>>
<1>1. PICK p \in core.pending :
         /\ core' = Respond(core, p, "Timeout", NoPayload)
         /\ IF DeliverError(core, p.requester) = NoError THEN Continue ELSE End("failed")
  BY DEF OnTimeout
<1>2. Keeps(core, core')
  BY <1>1, NoPayloadType, RespondKeeps DEF TypeOK
<1>3. Continue \/ (tasks' = <<>> /\ ~Running')
  BY <1>1 DEF End, Running
<1>. QED  BY <1>2, <1>3 DEF OnTimeout

LEMMA RouteTimeout ==
    ASSUME RouteInv, TypeOK', OnTimeout
    PROVE  RouteInv'
<1>1. /\ Keeps(core, core')
      /\ Take("RequestTimeout")
      /\ Continue \/ (tasks' = <<>> /\ ~Running')
      /\ UNCHANGED <<timers, stub>>
  BY TimeoutKeeps DEF RouteInv
<1>2. Running /\ tasks # <<>> /\ Head(tasks).type = "RequestTimeout"
  BY <1>1 DEF Take
<1>3. /\ core'.next_client_id = core.next_client_id
      /\ Mentions(core') \subseteq Mentions(core) \cup {Bus}
      /\ \A c \in Clients : stub[c] = "serving" /\ c \in core.senders => c \in core'.senders
  BY <1>1 DEF Keeps, Closed
<1>4. CASE Continue
  BY <1>1, <1>2, <1>3, <1>4, RouteDequeues
<1>5. CASE tasks' = <<>> /\ ~Running'
  BY <1>1, <1>3, <1>5, RouteEnds
<1>. QED  BY <1>1, <1>4, <1>5

LEMMA RouteStub ==
    ASSUME RouteInv, TypeOK', NEW c \in Clients, StubStep(c)
    PROVE  RouteInv'
<1>1. tasks \in Seq(Task)
  BY DEF RouteInv, TypeOK
<1>2. CASE StubReceive(c)
  <2>1. CASE ~Running
    BY <1>2, <2>1, RouteLeaves DEF StubReceive
  <2>2. CASE Running
    <3>1. PICK m \in Contents[c] \cup Answers(c) :
             tasks' = Append(tasks, [type |-> "Message", client |-> c,
                                     id |-> up[c] + 1, content |-> m])
      BY <1>2, <2>2 DEF StubReceive
    <3>2. Contents[c] \subseteq ClientContent /\ m \in ClientContent
      BY ServerAssumption, ReceivedType DEF RouteInv
    <3>3. [type |-> "Message", client |-> c, id |-> up[c] + 1, content |-> m] \in Task
      BY <3>2 DEF RouteInv, TypeOK, Task
    <3>4. stub[c] = "serving" /\ UNCHANGED <<core, stub, status>>
      BY <1>2, <2>2 DEF StubReceive
    <3>. QED  BY <3>1, <3>3, <3>4, RouteEnqueues
  <2>. QED  BY <2>1, <2>2
<1>3. CASE StubForward(c)
  BY <1>3 DEF StubForward, RouteInv, UnusedIds, DeregisterWhenGone, DeregisterFollowsMessages,
              NoDanglingReference, LiveClientsRegistered, Queued, Gone, Mentioned, Running
<1>4. CASE StubChannelClosed(c)
  BY <1>4, RouteLeaves DEF StubChannelClosed
<1>5. CASE StubPeerGone(c)
  BY <1>5, RouteLeaves DEF StubPeerGone
<1>6. CASE StubDrop(c)
  <2>1. \A d \in Clients :
           /\ (stub'[d] = "serving") <=> (stub[d] = "serving")
           /\ (stub'[d] = "none") <=> (stub[d] = "none")
           /\ Gone(d) => Gone(d)'
    BY <1>6 DEF StubDrop, RouteInv, TypeOK, Gone
  <2>2. UNCHANGED <<core, tasks, status>>
    BY <1>6 DEF StubDrop
  <2>3. UnusedIds' /\ DeregisterWhenGone' /\ LiveClientsRegistered'
    BY <2>1, <2>2 DEF RouteInv, UnusedIds, DeregisterWhenGone, LiveClientsRegistered, Queued,
                      Running
  <2>4. \A d : stub[d] = "serving" => stub'[d] = "serving"
    BY <1>6 DEF StubDrop, RouteInv, TypeOK
  <2>5. NoDanglingReference' /\ DeregisterFollowsMessages'
    BY <2>2, <2>4 DEF RouteInv, NoDanglingReference, DeregisterFollowsMessages, Queued,
                      Mentioned, Running
  <2>. QED  BY <2>3, <2>5 DEF RouteInv
<1>. QED  BY <1>2, <1>3, <1>4, <1>5, <1>6 DEF StubStep

LEMMA RouteNext == RouteInv /\ [Next]_vars => RouteInv'
<1>. SUFFICES ASSUME RouteInv, [Next]_vars PROVE RouteInv'
  OBVIOUS
<1>1. TypeOK'
  BY NextType DEF RouteInv
<1>2. CASE Accept
  BY <1>1, <1>2, OtherTasks, RouteEnqueues DEF Accept
<1>3. CASE CoreStep
  <2>1. CASE OnRegister
    BY <1>1, <2>1, RouteRegister
  <2>2. CASE OnDeregister
    BY <1>1, <2>2, RouteDeregister
  <2>3. CASE MessageStep
    BY <1>1, <2>3, RouteMessage
  <2>4. CASE OnTimeout
    BY <1>1, <2>4, RouteTimeout
  <2>5. CASE OnTimeoutNotPending
    BY <1>1, <2>5, RouteEnds DEF OnTimeoutNotPending, End, Running
  <2>. QED  BY <1>3, <2>1, <2>2, <2>3, <2>4, <2>5 DEF CoreStep, MessageStep
<1>4. CASE OnStopSignal
  BY <1>1, <1>4, RouteEnds DEF OnStopSignal, End, Running
<1>5. CASE \E id \in timers : TimerFires(id)
  <2>1. PICK id \in timers : TimerFires(id)
    BY <1>5
  <2>2. TimeoutOf(id) \in Task /\ id \in Nat
    BY OtherTasks DEF RouteInv, TypeOK
  <2>3. UNCHANGED <<core, stub, status>>
    BY <2>1 DEF TimerFires
  <2>4. CASE Running
    BY <1>1, <2>1, <2>2, <2>3, <2>4, RouteEnqueues DEF TimerFires, TimeoutOf
  <2>5. CASE ~Running
    <3>1. UNCHANGED tasks
      BY <2>1, <2>5 DEF TimerFires
    <3>. QED  BY <1>1, <2>3, <3>1
              DEF RouteInv, UnusedIds, DeregisterWhenGone, DeregisterFollowsMessages,
                  NoDanglingReference, LiveClientsRegistered, Queued, Gone, Mentioned, Running
  <2>. QED  BY <2>4, <2>5
<1>6. CASE \E c \in Clients : StubStep(c)
  BY <1>1, <1>6, RouteStub
<1>7. CASE UNCHANGED vars
  BY <1>1, <1>7 DEF vars, RouteInv, UnusedIds, DeregisterWhenGone, DeregisterFollowsMessages,
              NoDanglingReference, LiveClientsRegistered, Queued, Gone, Mentioned, Running
<1>. QED  BY <1>2, <1>3, <1>4, <1>5, <1>6, <1>7 DEF Next

-----------------------------------------------------------------------------
(* The theorems *)

LEMMA RouteCorrect == Spec => []RouteInv
BY RouteInit, RouteNext, PTL DEF Spec

(* A client that the tables mention is connected or about to be deregistered:
   queued messages of a client that has left put nothing back for good
   (core.rs:149-208, client_stub.rs:42-46). *)
THEOREM TablesMentionNoLostClient == Spec => []NoDanglingReference
<1>1. RouteInv => NoDanglingReference
  BY DEF RouteInv
<1>. QED  BY <1>1, RouteCorrect, PTL

(* No clean-up hits a connected client (core.rs:141-147, 319-327). *)
THEOREM ConnectedClientsAreRegistered == Spec => []LiveClientsRegistered
<1>1. RouteInv => LiveClientsRegistered
  BY DEF RouteInv
<1>. QED  BY <1>1, RouteCorrect, PTL

(* A connected client loses a subscription or a served topic only by its own
   Unsub or Unsrv (directory.rs:79-190, core.rs:141-147). *)
LEMMA RouteStepKeeps ==
    ASSUME RouteInv, [Next]_vars, Running, NEW c \in Clients, NEW t \in Topics,
           stub[c] = "serving"
    PROVE  /\ <<c, t>> \in core.subs => <<c, t>> \in core'.subs \/ Releases(c, "Unsub", t)
           /\ core.owner[t] = c => core'.owner[t] = c \/ Releases(c, "Unsrv", t)
<1>1. c \notin Closed /\ core \in CoreType
  BY DEF Closed, RouteInv, TypeOK
<1>2. CASE MessageStep
  <2>1. Changes(core')
    BY <1>2, MessageChanges DEF RouteInv
  <2>2. OnUnsub => TakeMessage("Unsub") /\ tasks' = Tail(tasks) /\ Running'
    BY DEF OnUnsub, TakeMessage, Take, Continue, Running
  <2>3. OnUnsrv => TakeMessage("Unsrv") /\ tasks' = Tail(tasks) /\ Running'
    BY DEF OnUnsrv, TakeMessage, Take, Continue, Running
  <2>. QED  BY <1>1, <2>1, <2>2, <2>3 DEF Changes, Releases, Processes
<1>3. CASE OnDeregister
  <2>1. /\ tasks \in Seq(Task) /\ tasks # <<>> /\ tasks' = Tail(tasks)
        /\ Head(tasks).type = "Deregister"
    BY <1>3 DEF RouteInv, TypeOK, OnDeregister, Take, Continue
  <2>2. Head(tasks).client \in Clients /\ Head(tasks) = DeregisterOf(Head(tasks).client)
    <3>1. Head(tasks) \in Task
      BY <2>1, HeadTask
    <3>. QED  BY <2>1, <3>1 DEF Task, DeregisterOf
  <2>3. Queued(DeregisterOf(Head(tasks).client))
    BY <2>1, <2>2, Dequeue DEF Queued
  <2>4. c # Head(tasks).client
    BY <2>2, <2>3 DEF RouteInv, DeregisterWhenGone, Gone
  <2>5. core' = DeregisterClient(core, Head(tasks).client)
    BY <1>3 DEF OnDeregister
  <2>. DEFINE d == DeregisterClient(core, Head(tasks).client)
  <2>6. /\ d.subs = {p \in core.subs : p[1] # Head(tasks).client}
        /\ d.owner = [topic \in Topics |-> IF core.owner[topic] = Head(tasks).client
                                          THEN NoOwner ELSE core.owner[topic]]
    BY <1>1, DeregisterFields
  <2>7. core' = d
    BY <2>5
  <2>. HIDE DEF d
  <2>. QED  BY <2>4, <2>6, <2>7
<1>4. CASE OnTimeout
  <2>1. Keeps(core, core')
    BY <1>4, TimeoutKeeps DEF RouteInv
  <2>. QED  BY <1>1, <2>1 DEF Keeps
<1>5. CASE OnRegister
  BY <1>1, <1>5 DEF OnRegister, CoreType
<1>6. CASE UNCHANGED core
  BY <1>6
<1>7. CoreStep => MessageStep \/ OnDeregister \/ OnTimeout \/ OnRegister \/ OnTimeoutNotPending
  BY DEF CoreStep, MessageStep
<1>8. OnTimeoutNotPending \/ Accept \/ OnStopSignal => UNCHANGED core
  BY DEF OnTimeoutNotPending, Accept, OnStopSignal
<1>9. \A id \in timers : TimerFires(id) => UNCHANGED core
  BY DEF TimerFires
<1>10. \A d \in Clients : StubStep(d) => UNCHANGED core
  BY DEF StubStep, StubReceive, StubForward, StubChannelClosed, StubPeerGone, StubDrop
<1>. QED  BY <1>2, <1>3, <1>4, <1>5, <1>6, <1>7, <1>8, <1>9, <1>10 DEF Next, vars

(* The same, of every behaviour (directory.rs:79-190, core.rs:141-147). *)
THEOREM ConnectedClientsKeepRoutes == Spec => LiveClientsKeepRoutes
<1>1. RouteInv /\ [Next]_vars =>
         [Running => \A c \in Clients, t \in Topics : stub[c] = "serving" =>
            /\ <<c, t>> \in core.subs =>
                  <<c, t>> \in core'.subs \/ Releases(c, "Unsub", t)
            /\ core.owner[t] = c =>
                  core'.owner[t] = c \/ Releases(c, "Unsrv", t)]_vars
  BY RouteStepKeeps
<1>. QED  BY <1>1, RouteCorrect, PTL DEF Spec, LiveClientsKeepRoutes

-----------------------------------------------------------------------------
(* No pending response lacks a timer: the inductive invariant behind
   PendingHasTimer *)

PendingInv ==
    /\ TypeOK
    /\ PendingIdsUnique
    /\ PendingHasTimer

(* While the core runs on and adds no pending response, each keeps its timer
   or its timeout. *)
LEMMA PendingKept ==
    ASSUME PendingInv, TypeOK', core'.pending \subseteq core.pending,
           core.next_msg_id <= core'.next_msg_id,
           Running' => Running
             /\ \A p \in core'.pending : p.id \in timers \/ Queued(TimeoutOf(p.id))
                   => p.id \in timers' \/ Queued(TimeoutOf(p.id))'
    PROVE  PendingInv'
<1>1. /\ core.next_msg_id \in Nat /\ core'.next_msg_id \in Nat
      /\ \A p \in core.pending : p.id \in Nat
  BY CoreFields DEF PendingInv, TypeOK, Pending, PendingResponse
<1>2. PendingIdsUnique'
  BY <1>1 DEF PendingInv, PendingIdsUnique
<1>3. PendingHasTimer'
  BY DEF PendingInv, PendingHasTimer
<1>. QED  BY <1>2, <1>3 DEF PendingInv

LEMMA PendingMessage ==
    ASSUME PendingInv, TypeOK', MessageStep
    PROVE  PendingInv'
<1>1. /\ Changes(core') /\ Take("Message")
      /\ Continue \/ (tasks' = <<>> /\ ~Running')
  BY MessageChanges DEF PendingInv
<1>2. Running /\ tasks \in Seq(Task) /\ tasks # <<>> /\ Head(tasks).type = "Message"
  BY <1>1 DEF PendingInv, TypeOK, Take
<1>3. core.next_msg_id <= core'.next_msg_id
  BY <1>1 DEF Changes
<1>4. \A id : Running' /\ Queued(TimeoutOf(id)) => Queued(TimeoutOf(id))'
  BY <1>1, <1>2, Dequeue DEF Continue, TimeoutOf
<1>5. CASE core'.pending \subseteq core.pending /\ UNCHANGED timers
  BY <1>2, <1>3, <1>4, <1>5, PendingKept
<1>6. CASE OnReqNotServed \/ OnReqFails \/ OnReq
  <2>1. timers \subseteq timers'
    BY <1>6 DEF OnReqNotServed, OnReqFails, OnReq, StartTimer
  <2>2. CASE core'.pending \subseteq core.pending
    BY <1>2, <1>3, <1>4, <2>1, <2>2, PendingKept
  <2>3. CASE /\ core'.pending \subseteq core.pending \cup {Awaited}
             /\ Awaited.id = core.next_msg_id
             /\ core.next_msg_id < core'.next_msg_id
             /\ timers' = timers \cup {core.next_msg_id}
    <3>1. /\ core.next_msg_id \in Nat /\ core'.next_msg_id \in Nat
          /\ \A p \in core.pending : p.id \in Nat
      BY CoreFields DEF PendingInv, TypeOK, Pending, PendingResponse
    <3>2. \A p \in core.pending : p.id < core.next_msg_id
      BY DEF PendingInv, PendingIdsUnique
    <3>3. PendingIdsUnique'
      BY <2>3, <3>1, <3>2 DEF PendingInv, PendingIdsUnique
    <3>4. PendingHasTimer'
      BY <1>2, <1>4, <2>3 DEF PendingInv, PendingHasTimer
    <3>. QED  BY <3>3, <3>4 DEF PendingInv
  <2>. QED  BY <1>6, <2>2, <2>3, RequestChanges DEF PendingInv
<1>7. CASE ~(OnReqNotServed \/ OnReqFails \/ OnReq)
  <2>1. core'.pending \subseteq core.pending
    BY <1>7, RoutingChanges, PublishChanges, AnswerChanges DEF MessageStep, PendingInv
  <2>2. UNCHANGED timers
    BY <1>7 DEF MessageStep, OnSub, OnUnsub, OnSrv, OnUnsrv, OnStop, OnKeepAlive, OnPub,
                OnPubFails, OnPubKill, OnRspInvalid, OnRsp
  <2>. QED  BY <1>5, <2>1, <2>2
<1>. QED  BY <1>6, <1>7

(* The timeout that is processed is the only one of its response. *)
LEMMA PendingTimeout ==
    ASSUME PendingInv, TypeOK', OnTimeout
    PROVE  PendingInv'
<1>1. PICK p \in core.pending :
         p.id = Head(tasks).id /\ core' = Respond(core, p, "Timeout", NoPayload)
  BY DEF OnTimeout
<1>2. /\ Keeps(core, core') /\ Take("RequestTimeout")
      /\ Continue \/ (tasks' = <<>> /\ ~Running')
      /\ UNCHANGED timers
  BY TimeoutKeeps DEF PendingInv
<1>3. p \notin core'.pending
  BY <1>1, NoPayloadType, RespondKeeps DEF PendingInv, TypeOK
<1>4. core'.pending \subseteq core.pending /\ core.next_msg_id <= core'.next_msg_id
  BY <1>2 DEF Keeps
<1>5. Running /\ tasks \in Seq(Task) /\ tasks # <<>>
  BY <1>2 DEF PendingInv, TypeOK, Take
<1>6. ASSUME Running', NEW q \in core'.pending, Queued(TimeoutOf(q.id))
      PROVE  Queued(TimeoutOf(q.id))'
  <2>1. q.id # Head(tasks).id
    BY <1>1, <1>3, <1>4 DEF PendingInv, PendingIdsUnique
  <2>2. TimeoutOf(q.id) # Head(tasks)
    BY <2>1 DEF TimeoutOf
  <2>. QED  BY <1>2, <1>5, <1>6, <2>2, Dequeue DEF Continue
<1>. QED  BY <1>2, <1>4, <1>5, <1>6, PendingKept

LEMMA PendingNext == PendingInv /\ [Next]_vars => PendingInv'
<1>. SUFFICES ASSUME PendingInv, [Next]_vars PROVE PendingInv'
  OBVIOUS
<1>1. TypeOK' /\ tasks \in Seq(Task)
  BY NextType DEF PendingInv, TypeOK
<1>2. core \in CoreType /\ core.next_msg_id \in Nat
  BY CoreFields DEF PendingInv, TypeOK
<1>3. ASSUME NEW task \in Task, tasks' = Append(tasks, task), UNCHANGED <<core, status, timers>>
      PROVE  PendingInv'
  BY <1>1, <1>2, <1>3, Enqueue, PendingKept DEF Running
<1>4. ASSUME UNCHANGED <<core, status, timers, tasks>>
      PROVE  PendingInv'
  BY <1>1, <1>2, <1>4, PendingKept DEF Running, Queued
<1>5. ASSUME ~Running', UNCHANGED core
      PROVE  PendingInv'
  BY <1>1, <1>2, <1>5, PendingKept
<1>6. CASE Accept
  BY <1>3, <1>6, OtherTasks DEF Accept
<1>7. CASE CoreStep
  <2>1. CASE OnRegister
    <3>1. /\ tasks # <<>> /\ tasks' = Tail(tasks) /\ Running /\ Head(tasks).type = "Register"
          /\ UNCHANGED <<timers>>
      BY <2>1 DEF OnRegister, Take, Continue
    <3>2. core'.pending = core.pending /\ core'.next_msg_id = core.next_msg_id
      BY <1>2, <2>1 DEF OnRegister, CoreType
    <3>. QED  BY <1>1, <1>2, <3>1, <3>2, Dequeue, PendingKept DEF TimeoutOf
  <2>2. CASE OnDeregister
    <3>1. /\ tasks # <<>> /\ tasks' = Tail(tasks) /\ Running
          /\ Head(tasks).type = "Deregister"
          /\ UNCHANGED <<timers>>
      BY <2>2 DEF OnDeregister, Take, Continue
    <3>2. core'.pending \subseteq core.pending /\ core'.next_msg_id = core.next_msg_id
      <4>. DEFINE d == DeregisterClient(core, Head(tasks).client)
      <4>1. /\ d.pending = {p \in core.pending : p.requester # Head(tasks).client
                                             /\ p.responder # Head(tasks).client}
            /\ d.next_msg_id = core.next_msg_id
        BY <1>2, DeregisterFields
      <4>2. core' = d
        BY <2>2 DEF OnDeregister
      <4>. HIDE DEF d
      <4>. QED  BY <4>1, <4>2
    <3>. QED  BY <1>1, <1>2, <3>1, <3>2, Dequeue, PendingKept DEF TimeoutOf
  <2>3. CASE MessageStep
    BY <1>1, <2>3, PendingMessage
  <2>4. CASE OnTimeout
    BY <1>1, <2>4, PendingTimeout
  <2>5. CASE OnTimeoutNotPending
    BY <1>5, <2>5 DEF OnTimeoutNotPending, End, Running
  <2>. QED  BY <1>7, <2>1, <2>2, <2>3, <2>4, <2>5 DEF CoreStep, MessageStep
<1>8. CASE OnStopSignal
  BY <1>5, <1>8 DEF OnStopSignal, End, Running
<1>9. CASE \E id \in timers : TimerFires(id)
  <2>1. PICK id \in timers : TimerFires(id)
    BY <1>9
  <2>2. TimeoutOf(id) \in Task
    BY OtherTasks DEF PendingInv, TypeOK
  <2>3. UNCHANGED <<core, status>> /\ timers' = timers \ {id}
    BY <2>1 DEF TimerFires
  <2>4. CASE Running
    <3>1. tasks' = Append(tasks, TimeoutOf(id))
      BY <2>1, <2>4 DEF TimerFires, TimeoutOf
    <3>2. Queued(TimeoutOf(id))' /\ \A u : Queued(u) => Queued(u)'
      BY <1>1, <2>2, <3>1, Enqueue
    <3>. QED  BY <1>1, <1>2, <2>3, <3>2, PendingKept DEF Running
  <2>5. CASE ~Running
    BY <1>5, <2>3, <2>5 DEF Running
  <2>. QED  BY <2>4, <2>5
<1>10. CASE \E c \in Clients : StubStep(c)
  <2>1. PICK c \in Clients : StubStep(c)
    BY <1>10
  <2>2. Leave(c) => \/ UNCHANGED tasks
                    \/ DeregisterOf(c) \in Task /\ tasks' = Append(tasks, DeregisterOf(c))
    BY OtherTasks DEF Leave, DeregisterOf
  <2>3. UNCHANGED <<core, status, timers>>
    BY <2>1 DEF StubStep, StubReceive, StubForward, StubChannelClosed, StubPeerGone, StubDrop
  <2>4. CASE UNCHANGED tasks \/ Leave(c)
    BY <1>3, <1>4, <2>2, <2>3, <2>4
  <2>5. CASE Running /\ StubReceive(c)
    <3>1. PICK m \in Contents[c] \cup Answers(c) :
             tasks' = Append(tasks, [type |-> "Message", client |-> c,
                                     id |-> up[c] + 1, content |-> m])
      BY <2>5 DEF StubReceive
    <3>2. Contents[c] \subseteq ClientContent /\ m \in ClientContent
      BY ServerAssumption, ReceivedType DEF PendingInv
    <3>3. [type |-> "Message", client |-> c, id |-> up[c] + 1, content |-> m] \in Task
      BY <3>2 DEF PendingInv, TypeOK, Task
    <3>. QED  BY <1>3, <2>3, <3>1, <3>3
  <2>. QED  BY <2>1, <2>4, <2>5
            DEF StubStep, StubReceive, StubForward, StubChannelClosed, StubPeerGone, StubDrop
<1>11. CASE UNCHANGED vars
  BY <1>4, <1>11 DEF vars
<1>. QED  BY <1>6, <1>7, <1>8, <1>9, <1>10, <1>11 DEF Next

LEMMA PendingInit == Init => PendingInv
<1>. SUFFICES ASSUME Init PROVE PendingInv
  OBVIOUS
<1>1. TypeOK /\ core.pending = {}
  BY InitType DEF Init
<1>. QED  BY <1>1 DEF PendingInv, PendingIdsUnique, PendingHasTimer

(* Each pending response has its timer, or its timeout is queued
   (core.rs:222-235). *)
THEOREM PendingResponsesTimeOut == Spec => []PendingHasTimer
<1>1. PendingInv => PendingHasTimer
  BY DEF PendingInv
<1>. QED  BY <1>1, PendingInit, PendingNext, PTL DEF Spec

-----------------------------------------------------------------------------
(* What a handler puts into the channels: M, pairs of a client and a message *)

Tells(s, t, M) ==
    /\ t.senders \subseteq s.senders
    /\ Grows(s, t)
    /\ \A c \in Clients : \A i \in 1..Len(t.chan[c]) :
          Len(s.chan[c]) < i => <<c, t.chan[c][i]>> \in M

LEMMA TellsNothing ==
    ASSUME NEW s \in CoreType, NEW t, t.chan = s.chan, t.senders \subseteq s.senders, NEW M
    PROVE  Tells(s, t, M)
<1>1. s.chan \in [Clients -> Seq(ServerMsg)]
  BY CoreFields DEF Channels
<1>. QED  BY <1>1, SameChan DEF Tells

LEMMA TellsMore ==
    ASSUME NEW s, NEW t, NEW M, NEW N, Tells(s, t, M), M \subseteq N
    PROVE  Tells(s, t, N)
BY DEF Tells

LEMMA TellsTransitive ==
    ASSUME NEW s \in CoreType, NEW t \in CoreType, NEW u \in CoreType, NEW M,
           Tells(s, t, M), Tells(t, u, M)
    PROVE  Tells(s, u, M)
<1>1. s.chan \in [Clients -> Seq(ServerMsg)] /\ t.chan \in [Clients -> Seq(ServerMsg)]
        /\ u.chan \in [Clients -> Seq(ServerMsg)]
  BY CoreFields DEF Channels
<1>2. Grows(s, u)
  BY GrowsTransitive DEF Tells
<1>3. ASSUME NEW c \in Clients, NEW i \in 1..Len(u.chan[c]), Len(s.chan[c]) < i
      PROVE  <<c, u.chan[c][i]>> \in M
  <2>1. CASE Len(t.chan[c]) < i
    BY <1>3, <2>1 DEF Tells
  <2>2. CASE i <= Len(t.chan[c])
    <3>1. i \in 1..Len(t.chan[c]) /\ u.chan[c][i] = t.chan[c][i]
      BY <1>1, <2>2 DEF Tells, Grows
    <3>. QED  BY <1>3, <3>1 DEF Tells
  <2>. QED  BY <1>1, <2>1, <2>2
<1>. QED  BY <1>2, <1>3 DEF Tells

(* What a delivery does: one message more, or one client less, or nothing *)
Delivered(s, c, m, d) ==
    \/ /\ DeliverError(s, c) = NoError
       /\ c \in Clients /\ c \in s.senders
       /\ d.senders = s.senders /\ d.pending = s.pending
       /\ d.chan = [s.chan EXCEPT ![c] = Append(s.chan[c], m)]
    \/ /\ DeliverError(s, c) = "DeliveryFailed"
       /\ c \in Closed
       /\ d.senders = s.senders \ {c} /\ d.chan = s.chan
       /\ d.pending = {p \in s.pending : p.requester # c /\ p.responder # c}
    \/ /\ DeliverError(s, c) = "UnknownClient"
       /\ c \notin s.senders
       /\ d.senders = s.senders /\ d.chan = s.chan /\ d.pending = s.pending

LEMMA DeliverResult ==
    ASSUME NEW s \in CoreType, NEW c, NEW m \in ServerMsg
    PROVE  Delivered(s, c, m, Deliver(s, c, m))
<1>. DEFINE t == TakeMsgId(s)
            d == Deliver(s, c, m)
<1>1. /\ t \in CoreType /\ t.senders = s.senders /\ t.chan = s.chan /\ t.pending = s.pending
  BY TakeMsgIdType DEF TakeMsgId, CoreType
<1>2. CASE DeliverError(s, c) = NoError
  <2>1. c \in Clients /\ c \in s.senders
    BY <1>2, CoreFields DEF DeliverError, Senders, NoError
  <2>2. d = Send(t, c, m)
    BY <1>2 DEF Deliver
  <2>. HIDE DEF t, d
  <2>3. /\ d.senders = s.senders /\ d.pending = s.pending
        /\ d.chan = [s.chan EXCEPT ![c] = Append(s.chan[c], m)]
    BY <1>1, <2>2 DEF Send, CoreType
  <2>. QED  BY <1>2, <2>1, <2>3 DEF d, Delivered
<1>3. CASE DeliverError(s, c) = "DeliveryFailed"
  <2>1. c \in Closed
    BY <1>3 DEF DeliverError, NoError
  <2>2. d = DeregisterClient(t, c)
    BY <1>3 DEF Deliver, NoError
  <2>. HIDE DEF t, d
  <2>3. /\ d.senders = s.senders \ {c} /\ d.chan = s.chan
        /\ d.pending = {p \in s.pending : p.requester # c /\ p.responder # c}
    BY <1>1, <2>2 DEF DeregisterClient, CoreType
  <2>. QED  BY <1>3, <2>1, <2>3 DEF d, Delivered
<1>4. CASE DeliverError(s, c) \notin {NoError, "DeliveryFailed"}
  <2>1. c \notin s.senders /\ DeliverError(s, c) = "UnknownClient"
    BY <1>4 DEF DeliverError
  <2>2. d = t
    BY <1>4 DEF Deliver
  <2>. QED  BY <1>1, <2>1, <2>2 DEF Delivered
<1>. QED  BY <1>2, <1>3, <1>4

LEMMA DeliverTells ==
    ASSUME NEW s \in CoreType, NEW c, NEW m \in ServerMsg, NEW M, <<c, m>> \in M
    PROVE  Tells(s, Deliver(s, c, m), M)
<1>. DEFINE d == Deliver(s, c, m)
<1>1. d \in CoreType
  BY DeliverType
<1>2. Delivered(s, c, m, d)
  BY DeliverResult
<1>3. Grows(s, d)
  BY DeliverGrows
<1>4. s.chan \in [Clients -> Seq(ServerMsg)]
  BY CoreFields DEF Channels
<1>. HIDE DEF d
<1>5. CASE d.senders \subseteq s.senders /\ d.chan = s.chan
  BY <1>5, TellsNothing DEF d
<1>6. CASE /\ c \in Clients /\ d.senders = s.senders
           /\ d.chan = [s.chan EXCEPT ![c] = Append(s.chan[c], m)]
  <2>1. ASSUME NEW b \in Clients, NEW i \in 1..Len(d.chan[b]), Len(s.chan[b]) < i
        PROVE  b = c /\ d.chan[b][i] = m
    BY <1>4, <1>6, <2>1
  <2>2. Tells(s, d, M)
    BY <1>3, <1>6, <2>1 DEF Tells
  <2>. QED  BY <2>2 DEF d
<1>. QED  BY <1>2, <1>5, <1>6 DEF Delivered, d

LEMMA DeliverAllTells ==
    ASSUME NEW s \in CoreType, NEW D \in SUBSET Clients, NEW m \in ServerMsg,
           NEW M, \A c \in D : <<c, m>> \in M
    PROVE  Tells(s, DeliverAll(s, D, m), M)
<1>. DEFINE d == DeliverAll(s, D, m)
<1>1. s.chan \in [Clients -> Seq(ServerMsg)]
  BY CoreFields DEF Channels
<1>2. /\ d.chan = [c \in Clients |-> IF c \in D THEN Append(s.chan[c], m) ELSE s.chan[c]]
      /\ d.senders = s.senders
  BY DEF DeliverAll, CoreType
<1>3. Grows(s, d)
  BY DeliverAllGrows
<1>. HIDE DEF d
<1>4. ASSUME NEW b \in Clients, NEW i \in 1..Len(d.chan[b]), Len(s.chan[b]) < i
      PROVE  b \in D /\ d.chan[b][i] = m
  BY <1>1, <1>2, <1>4
<1>5. Tells(s, d, M)
  BY <1>2, <1>3, <1>4 DEF Tells
<1>. QED  BY <1>5 DEF d

LEMMA AckTells ==
    ASSUME TypeOK, Take("Message"),
           NEW s \in CoreType, NEW e \in Errors, NEW n \in Nat \cup {NoCount},
           NEW M, <<Sender, AckMsg(Head(tasks).id, e, n)>> \in M
    PROVE  Ack(s, e, n) \in CoreType /\ Tells(s, Ack(s, e, n), M)
<1>1. tasks \in Seq(Task)
  BY DEF TypeOK
<1>2. AckMsg(Head(tasks).id, e, n) \in ServerMsg
  BY <1>1, HeadMessage, MessageTypes
<1>. QED  BY <1>1, <1>2, AckType, DeliverTells DEF Ack

LEMMA RespondTells ==
    ASSUME NEW s \in CoreType, NEW p \in s.pending,
           NEW st \in {"Ok", "Timeout"}, NEW payload \in Payloads,
           NEW M, <<p.requester, RspMsg(p.request_id, st, payload)>> \in M
    PROVE  Tells(s, Respond(s, p, st, payload), M)
<1>. DEFINE t == [s EXCEPT !.pending = @ \ {p}]
            m == RspMsg(p.request_id, st, payload)
<1>1. m \in ServerMsg
  BY CoreFields, MessageTypes DEF Pending, PendingResponse
<1>2. t \in CoreType
  BY CoreFields, CoreUpdates DEF Pending
<1>3. t.chan = s.chan /\ t.senders = s.senders
  BY DEF CoreType
<1>4. Respond(s, p, st, payload) = Deliver(t, p.requester, m)
  BY DEF Respond
<1>. HIDE DEF t, m
<1>5. Deliver(t, p.requester, m) \in CoreType /\ Tells(t, Deliver(t, p.requester, m), M)
  BY <1>1, <1>2, DeliverType, DeliverTells DEF m
<1>6. Tells(s, t, M)
  BY <1>3, TellsNothing
<1>. QED  BY <1>2, <1>4, <1>5, <1>6, TellsTransitive

-----------------------------------------------------------------------------
(* What each handler tells *)

PlainAcks == {<<Sender, AckMsg(Head(tasks).id, e, NoCount)>> : e \in Errors}
Published(D) == {<<c, Publication>> : c \in D}
Response(p, st, payload) == <<p.requester, RspMsg(p.request_id, st, payload)>>

(* An Ack without a count, after a change of the tables *)
LEMMA PlainAckTells ==
    ASSUME TypeOK, Take("Message"), NEW s \in CoreType, NEW e \in Errors, NEW M
    PROVE  /\ Tells(core, s, M) => Tells(core, Ack(s, e, NoCount), M \cup PlainAcks)
           /\ s.chan = core.chan /\ s.senders = core.senders
                => Tells(core, Ack(s, e, NoCount), PlainAcks)
<1>1. core \in CoreType /\ NoCount \in Nat \cup {NoCount}
  BY DEF TypeOK
<1>2. ASSUME NEW N, PlainAcks \subseteq N, Tells(core, s, N)
      PROVE  Tells(core, Ack(s, e, NoCount), N)
  <2>1. <<Sender, AckMsg(Head(tasks).id, e, NoCount)>> \in N
    BY <1>2 DEF PlainAcks
  <2>2. Ack(s, e, NoCount) \in CoreType /\ Tells(s, Ack(s, e, NoCount), N)
    BY <1>1, <2>1, AckTells
  <2>. QED  BY <1>1, <1>2, <2>2, TellsTransitive
<1>3. Tells(core, s, M) => Tells(core, s, M \cup PlainAcks)
  BY TellsMore
<1>4. s.chan = core.chan /\ s.senders = core.senders => Tells(core, s, PlainAcks)
  BY <1>1, TellsNothing
<1>. QED  BY <1>2, <1>3, <1>4

LEMMA RoutingTells ==
    ASSUME TypeOK,
           OnSub \/ OnUnsub \/ OnSrv \/ OnUnsrv \/ OnStop \/ OnKeepAlive
             \/ OnReqNotServed \/ OnRspInvalid
    PROVE  Tells(core, core', PlainAcks)
<1>1. core \in CoreType /\ tasks \in Seq(Task)
  BY DEF TypeOK
<1>2. Take("Message")
  BY DEF OnSub, OnUnsub, OnSrv, OnUnsrv, OnStop, OnKeepAlive, OnReqNotServed, OnRspInvalid,
         TakeMessage
<1>3. Sender \in Clients /\ Content \in ClientContent
  BY <1>1, <1>2, HeadMessage
<1>4. CASE OnSub \/ OnUnsub
  <2>. DEFINE S(subs) == [core EXCEPT !.subs = subs]
  <2>1. Content.topic \in Topics
    BY <1>3, <1>4, ContentTopic DEF OnSub, OnUnsub, TakeMessage
  <2>2. PICK subs \in Subscriptions : core' = Ack(S(subs), NoError, NoCount)
    BY <1>3, <1>4, <2>1, SubsTypes DEF OnSub, OnUnsub
  <2>3. S(subs) \in CoreType /\ S(subs).chan = core.chan /\ S(subs).senders = core.senders
    BY <1>1, CoreUpdates DEF CoreType
  <2>. HIDE DEF S
  <2>. QED  BY <1>2, <2>2, <2>3, ErrorTypes, PlainAckTells
<1>5. CASE OnSrv \/ OnUnsrv
  <2>. DEFINE S(owner) == [core EXCEPT !.owner = owner]
  <2>1. Content.topic \in Topics
    BY <1>3, <1>5, ContentTopic DEF OnSrv, OnUnsrv, TakeMessage
  <2>2. PICK owner \in Owners, e \in Errors : core' = Ack(S(owner), e, NoCount)
    BY <1>1, <1>3, <1>5, <2>1, CoreFields, OwnerType, ErrorTypes DEF OnSrv, OnUnsrv
  <2>3. S(owner) \in CoreType /\ S(owner).chan = core.chan /\ S(owner).senders = core.senders
    BY <1>1, CoreUpdates DEF CoreType
  <2>. HIDE DEF S
  <2>. QED  BY <1>2, <2>2, <2>3, PlainAckTells
<1>6. CASE OnStop \/ OnKeepAlive \/ OnReqNotServed \/ OnRspInvalid
  <2>1. PICK e \in Errors : core' = Ack(core, e, NoCount)
    BY <1>6, ErrorTypes DEF OnStop, OnKeepAlive, OnReqNotServed, OnRspInvalid
  <2>. QED  BY <1>1, <1>2, <2>1, PlainAckTells
<1>. QED  BY <1>4, <1>5, <1>6

LEMMA PublicationType ==
    ASSUME TypeOK, TakeMessage("Pub")
    PROVE  Publication \in ServerMsg
<1>1. Payload \in Payloads /\ Content.topic \in Topics
  BY HeadMessage, ContentTopic DEF TypeOK, TakeMessage
<1>. QED  BY <1>1, MessageTypes DEF Publication

(* A publication that reaches everybody: what the core is before the Ack *)
LEMMA PubTells ==
    ASSUME TypeOK, OnPub
    PROVE  LET s == DeliverAll(core, Recipients, Publication)
               n == Cardinality(Recipients)
           IN  /\ Recipients \subseteq Clients /\ n \in Nat
               /\ s \in CoreType /\ Tells(core, s, Published(Recipients))
               /\ core' = Ack(s, NoError, n)
               /\ Tells(s, core', {<<Sender, AckMsg(Head(tasks).id, NoError, n)>>})
<1>. DEFINE s == DeliverAll(core, Recipients, Publication)
            n == Cardinality(Recipients)
            N == {<<Sender, AckMsg(Head(tasks).id, NoError, n)>>}
<1>1. core \in CoreType /\ Publication \in ServerMsg /\ Take("Message")
  BY PublicationType DEF TypeOK, OnPub, TakeMessage
<1>2. Recipients \subseteq Clients
  BY DEF OnPub, Reachable
<1>3. n \in Nat
  BY <1>2, ClientsFinite
<1>4. s \in CoreType
  BY <1>1, <1>2, DeliverAllType
<1>5. Tells(core, s, Published(Recipients))
  BY <1>1, <1>2, DeliverAllTells DEF Published
<1>6. core' = Ack(s, NoError, n)
  BY DEF OnPub
<1>. HIDE DEF s, n
<1>7. Tells(s, core', N)
  BY <1>1, <1>3, <1>4, <1>6, AckTells, ErrorTypes
<1>. QED  BY <1>2, <1>3, <1>4, <1>5, <1>6, <1>7 DEF s, n

(* One that fails for f, and reaches those of done.  Nothing is delivered
   to f. *)
LEMMA PubFailsTells ==
    ASSUME TypeOK, OnPubFails
    PROVE  \E f \in (Recipients \cap Clients) \ Reachable, done \in SUBSET Reachable :
              LET s == DeliverAll(core, done, Publication)
                  d == Deliver(s, f, Publication)
              IN  /\ s \in CoreType /\ Tells(core, s, Published(done))
                  /\ d \in CoreType /\ d.chan = s.chan /\ d.senders \subseteq s.senders
                  /\ DeliverError(core, f) \in {"DeliveryFailed", "UnknownClient"}
                  /\ core' = Ack(d, DeliverError(core, f), NoCount)
                  /\ Tells(d, core', {<<Sender, AckMsg(Head(tasks).id, DeliverError(core, f),
                                                       NoCount)>>})
<1>1. PICK f \in (Recipients \cap Clients) \ Reachable, done \in SUBSET Reachable :
        core' = Ack(Deliver(DeliverAll(core, done, Publication), f, Publication),
                    DeliverError(core, f), NoCount)
  BY DEF OnPubFails
<1>. DEFINE s == DeliverAll(core, done, Publication)
            d == Deliver(s, f, Publication)
            e == DeliverError(core, f)
<1>2. core \in CoreType /\ Publication \in ServerMsg /\ Take("Message") /\ done \subseteq Clients
  BY PublicationType DEF TypeOK, OnPubFails, TakeMessage, Reachable
<1>3. s \in CoreType /\ Tells(core, s, Published(done))
  BY <1>2, DeliverAllType, DeliverAllTells DEF Published
<1>4. s.senders = core.senders
  BY <1>2 DEF DeliverAll, CoreType
<1>5. e # NoError /\ DeliverError(s, f) = e
  BY <1>4 DEF Reachable, DeliverError
<1>6. core' = Ack(d, e, NoCount) /\ e \in Errors /\ e \in {"DeliveryFailed", "UnknownClient"}
  BY <1>1, <1>5, ErrorTypes DEF DeliverError
<1>. HIDE DEF s
<1>7. d \in CoreType /\ Delivered(s, f, Publication, d)
  BY <1>2, <1>3, DeliverType, DeliverResult
<1>. HIDE DEF d, e
<1>8. d.chan = s.chan /\ d.senders \subseteq s.senders
  BY <1>5, <1>7 DEF Delivered
<1>9. Tells(d, core', {<<Sender, AckMsg(Head(tasks).id, e, NoCount)>>})
  BY <1>2, <1>6, <1>7, AckTells
<1>. QED  BY <1>3, <1>6, <1>7, <1>8, <1>9 DEF s, d, e

LEMMA PubKillTells ==
    ASSUME TypeOK, OnPubKill
    PROVE  \E done \in SUBSET Clients :
              /\ core' = DeliverAll(core, done, Publication)
              /\ core' \in CoreType /\ Tells(core, core', Published(done))
<1>1. PICK done \in SUBSET Reachable : core' = DeliverAll(core, done, Publication)
  BY DEF OnPubKill
<1>2. core \in CoreType /\ Publication \in ServerMsg /\ done \subseteq Clients
  BY PublicationType DEF TypeOK, OnPubKill, Reachable
<1>3. core' \in CoreType /\ Tells(core, core', Published(done))
  BY <1>1, <1>2, DeliverAllType, DeliverAllTells DEF Published
<1>. QED  BY <1>1, <1>2, <1>3

LEMMA RequestTells ==
    ASSUME TypeOK, OnReqFails \/ OnReq
    PROVE  /\ Server \in Clients
           /\ Tells(core, core', {<<Server, Request>>} \cup PlainAcks)
<1>1. core \in CoreType /\ Take("Message") /\ Content.type = "Req"
  BY DEF TypeOK, OnReqFails, OnReq, TakeMessage
<1>2. Sender \in Clients /\ Payload \in Payloads /\ Content.topic \in Topics
        /\ Head(tasks).id \in Nat
  BY <1>1, HeadMessage, ContentTopic DEF TypeOK
<1>3. Server \in Clients
  <2>1. Server \in Ids /\ Server # NoOwner
    BY <1>1, <1>2, CoreFields, OwnerType DEF OnReqFails, OnReq, Server
  <2>. QED  BY <2>1 DEF Ids, NoOwner, Bus
<1>4. Request \in ServerMsg
  BY <1>1, <1>2, CoreFields, MessageTypes DEF Request
<1>. DEFINE d == Deliver(core, Server, Request)
<1>5. d \in CoreType /\ Tells(core, d, {<<Server, Request>>})
  BY <1>1, <1>4, DeliverType, DeliverTells
<1>6. CASE OnReqFails
  <2>1. core' = Ack(d, DeliverError(core, Server), NoCount)
    BY <1>6 DEF OnReqFails
  <2>. HIDE DEF d
  <2>. QED  BY <1>1, <1>3, <1>5, <2>1, ErrorTypes, PlainAckTells
<1>7. CASE OnReq
  <2>. DEFINE s == [d EXCEPT !.pending = @ \cup {Awaited}]
  <2>1. Awaited \in PendingResponse
    BY <1>1, <1>2, <1>3, CoreFields DEF Awaited, PendingResponse
  <2>2. core' = Ack(s, NoError, NoCount)
    BY <1>7 DEF OnReq
  <2>. HIDE DEF d
  <2>3. s \in CoreType
    BY <1>5, <2>1, CoreFields, CoreUpdates DEF Pending
  <2>4. s.chan = d.chan /\ s.senders = d.senders
    BY <1>5 DEF CoreType
  <2>. HIDE DEF s
  <2>5. Tells(core, s, {<<Server, Request>>})
    BY <1>1, <1>5, <2>3, <2>4 DEF Tells, Grows
  <2>. QED  BY <1>1, <1>3, <2>2, <2>3, <2>5, ErrorTypes, PlainAckTells
<1>. QED  BY <1>6, <1>7

(* The pending responses after a request was routed *)
LEMMA RequestPending ==
    ASSUME TypeOK, OnReq
    PROVE  \E s \in CoreType :
              /\ core' = Ack(s, NoError, NoCount)
              /\ s.pending = core.pending \cup {Awaited}
              /\ s.senders = core.senders
              /\ s.chan = [core.chan EXCEPT ![Server] = Append(core.chan[Server], Request)]
              /\ Awaited \in PendingResponse
<1>1. core \in CoreType /\ Take("Message") /\ Content.type = "Req"
  BY DEF TypeOK, OnReq, TakeMessage
<1>2. Sender \in Clients /\ Payload \in Payloads /\ Content.topic \in Topics
        /\ Head(tasks).id \in Nat
  BY <1>1, HeadMessage, ContentTopic DEF TypeOK
<1>3. Request \in ServerMsg
  BY <1>1, <1>2, CoreFields, MessageTypes DEF Request
<1>. DEFINE d == Deliver(core, Server, Request)
            s == [d EXCEPT !.pending = @ \cup {Awaited}]
<1>4. d \in CoreType /\ Delivered(core, Server, Request, d)
  BY <1>1, <1>3, DeliverType, DeliverResult
<1>5. DeliverError(core, Server) = NoError /\ core' = Ack(s, NoError, NoCount)
  BY DEF OnReq
<1>. HIDE DEF d
<1>6. /\ Server \in Clients
      /\ d.senders = core.senders /\ d.pending = core.pending
      /\ d.chan = [core.chan EXCEPT ![Server] = Append(core.chan[Server], Request)]
  BY <1>4, <1>5 DEF Delivered, NoError
<1>7. Awaited \in PendingResponse
  BY <1>1, <1>2, <1>6, CoreFields DEF Awaited, PendingResponse
<1>8. s \in CoreType
  BY <1>4, <1>7, CoreFields, CoreUpdates DEF Pending
<1>9. s.chan = d.chan /\ s.senders = d.senders /\ s.pending = d.pending \cup {Awaited}
  BY <1>4 DEF CoreType
<1>. HIDE DEF s
<1>. QED  BY <1>5, <1>6, <1>7, <1>8, <1>9

LEMMA AnswerTells ==
    ASSUME TypeOK, OnRsp
    PROVE  \E p \in core.pending :
              LET s == Respond(core, p, "Ok", Payload)
              IN  /\ MayAnswer(p)
                  /\ s \in CoreType
                  /\ core' = Ack(s, DeliverError(core, p.requester), NoCount)
                  /\ Tells(core, core', {Response(p, "Ok", Payload)} \cup PlainAcks)
<1>1. PICK p \in core.pending :
        /\ MayAnswer(p)
        /\ core' = Ack(Respond(core, p, "Ok", Payload), DeliverError(core, p.requester), NoCount)
  BY DEF OnRsp
<1>2. core \in CoreType /\ Take("Message") /\ Payload \in Payloads
  BY HeadMessage DEF TypeOK, OnRsp, TakeMessage
<1>. DEFINE s == Respond(core, p, "Ok", Payload)
<1>3. s \in CoreType /\ Tells(core, s, {Response(p, "Ok", Payload)})
  BY <1>2, RespondType, RespondTells DEF Response
<1>4. core' = Ack(s, DeliverError(core, p.requester), NoCount)
  BY <1>1
<1>. HIDE DEF s
<1>5. Tells(core, core', {Response(p, "Ok", Payload)} \cup PlainAcks)
  BY <1>2, <1>3, <1>4, ErrorTypes, PlainAckTells
<1>. QED  BY <1>1, <1>3, <1>4, <1>5 DEF s

LEMMA TimeoutTells ==
    ASSUME TypeOK, OnTimeout
    PROVE  \E p \in core.pending :
              /\ core' = Respond(core, p, "Timeout", NoPayload)
              /\ core' \in CoreType
              /\ Tells(core, core', {Response(p, "Timeout", NoPayload)})
<1>1. PICK p \in core.pending : core' = Respond(core, p, "Timeout", NoPayload)
  BY DEF OnTimeout
<1>2. core' \in CoreType /\ Tells(core, core', {Response(p, "Timeout", NoPayload)})
  BY <1>1, NoPayloadType, RespondType, RespondTells DEF TypeOK, Response
<1>. QED  BY <1>1, <1>2

-----------------------------------------------------------------------------
(* The names of messages: a handler names no other than the one it handles. *)

LEMMA NamesIn ==
    ASSUME NEW s \in CoreType, NEW n
    PROVE  n \in NamesOf(s) <=>
              \/ \E d \in Clients : \E i \in 1..Len(s.chan[d]) : n = Named(d, s.chan[d][i])
              \/ \E p \in s.pending : n = [client |-> p.requester, id |-> p.request_id]
<1>1. \A d \in Clients : DOMAIN s.chan[d] = 1..Len(s.chan[d])
  BY CoreFields DEF Channels
<1>. DEFINE said == UNION {{Named(d, s.chan[d][i]) : i \in DOMAIN s.chan[d]} : d \in Clients}
            asked == {[client |-> p.requester, id |-> p.request_id] : p \in s.pending}
<1>2. n \in said <=> \E d \in Clients : n \in {Named(d, s.chan[d][i]) : i \in DOMAIN s.chan[d]}
  BY Zenon
<1>3. n \in said <=> \E d \in Clients : \E i \in 1..Len(s.chan[d]) : n = Named(d, s.chan[d][i])
  BY <1>1, <1>2
<1>4. n \in asked <=> \E p \in s.pending : n = [client |-> p.requester, id |-> p.request_id]
  OBVIOUS
<1>5. NamesOf(s) = said \cup asked
  BY DEF NamesOf
<1>. HIDE DEF said, asked
<1>. QED  BY <1>3, <1>4, <1>5

LEMMA TellsNames ==
    ASSUME NEW s \in CoreType, NEW t \in CoreType, NEW M, Tells(s, t, M), NEW N,
           \A x \in M : Named(x[1], x[2]) \in N \cup NamesOf(s),
           \A p \in t.pending :
              p \in s.pending \/ [client |-> p.requester, id |-> p.request_id] \in N
    PROVE  NamesOf(t) \subseteq NamesOf(s) \cup N
<1>. SUFFICES ASSUME NEW n \in NamesOf(t), n \notin N
              PROVE  n \in NamesOf(s)
  OBVIOUS
<1>1. CASE \E p \in t.pending : n = [client |-> p.requester, id |-> p.request_id]
  BY <1>1, NamesIn
<1>2. ASSUME NEW d \in Clients, NEW i \in 1..Len(t.chan[d]), n = Named(d, t.chan[d][i])
      PROVE  n \in NamesOf(s)
  <2>1. s.chan \in [Clients -> Seq(ServerMsg)] /\ t.chan \in [Clients -> Seq(ServerMsg)]
    BY CoreFields DEF Channels
  <2>2. CASE Len(s.chan[d]) < i
    <3>. DEFINE x == <<d, t.chan[d][i]>>
    <3>1. x \in M
      BY <2>2 DEF Tells
    <3>2. x[1] = d /\ x[2] = t.chan[d][i]
      OBVIOUS
    <3>. HIDE DEF x
    <3>. QED  BY <1>2, <3>1, <3>2
  <2>3. CASE i <= Len(s.chan[d])
    <3>1. i \in 1..Len(s.chan[d]) /\ t.chan[d][i] = s.chan[d][i]
      BY <2>1, <2>3 DEF Tells, Grows
    <3>. QED  BY <1>2, <3>1, NamesIn
  <2>. QED  BY <2>1, <2>2, <2>3
<1>. QED  BY <1>1, <1>2, NamesIn

(* What the messages are about *)
LEMMA NamesTold ==
    ASSUME TypeOK
    PROVE  /\ \A id, e, n, d : Named(d, AckMsg(id, e, n)) = [client |-> d, id |-> id]
           /\ \A d : Named(d, Publication) = Payload
           /\ \A d : Named(d, Request) = Payload
           /\ \A p \in core.pending : \A st, payload :
                 Named(p.requester, RspMsg(p.request_id, st, payload)) \in NamesOf(core)
<1>1. \A id, e, n, d : Named(d, AckMsg(id, e, n)) = [client |-> d, id |-> id]
  BY DEF Named, AckMsg
<1>2. \A d : Named(d, Publication) = Payload /\ Named(d, Request) = Payload
  BY DEF Named, Publication, PubMsg, Request, ReqMsg
<1>3. ASSUME NEW p \in core.pending, NEW st, NEW payload
      PROVE  Named(p.requester, RspMsg(p.request_id, st, payload)) \in NamesOf(core)
  <2>1. Named(p.requester, RspMsg(p.request_id, st, payload))
          = [client |-> p.requester, id |-> p.request_id]
    BY DEF Named, RspMsg
  <2>. QED  BY <1>3, <2>1, NamesIn DEF TypeOK
<1>. QED  BY <1>1, <1>2, <1>3

LEMMA MessageNames ==
    ASSUME TypeOK, MessageStep
    PROVE  NamesOf(core') \subseteq NamesOf(core) \cup {Payload}
<1>1. core \in CoreType /\ core' \in CoreType
  BY CoreStepCore DEF TypeOK, MessageStep, CoreStep
<1>2. \A x \in PlainAcks : Named(x[1], x[2]) = Payload
  BY NamesTold DEF PlainAcks, Payload
<1>3. \A D : \A x \in Published(D) : Named(x[1], x[2]) = Payload
  BY NamesTold DEF Published
<1>4. ASSUME NEW M, Tells(core, core', M),
             \A x \in M : Named(x[1], x[2]) \in {Payload} \cup NamesOf(core),
             \A p \in core'.pending :
                p \in core.pending \/ [client |-> p.requester, id |-> p.request_id] = Payload
      PROVE  NamesOf(core') \subseteq NamesOf(core) \cup {Payload}
  BY <1>1, <1>4, TellsNames
<1>5. CASE OnSub \/ OnUnsub \/ OnSrv \/ OnUnsrv \/ OnStop \/ OnKeepAlive \/ OnReqNotServed
             \/ OnRspInvalid
  <2>1. core'.pending \subseteq core.pending
    <3>1. CASE OnReqNotServed
      <4>1. core' = Ack(core, "ServiceNotFound", NoCount) /\ Take("Message")
        BY <3>1 DEF OnReqNotServed, TakeMessage
      <4>. QED  BY <1>1, <4>1, AckKeeps, ErrorTypes DEF Keeps, TypeOK
    <3>. QED  BY <1>5, <3>1, RoutingChanges, AnswerChanges
  <2>. QED  BY <1>2, <1>4, <1>5, <2>1, RoutingTells
<1>6. CASE OnPub
  <2>. DEFINE s == DeliverAll(core, Recipients, Publication)
              n == Cardinality(Recipients)
              N == {<<Sender, AckMsg(Head(tasks).id, NoError, n)>>}
  <2>1. s \in CoreType /\ Tells(core, s, Published(Recipients)) /\ Tells(s, core', N)
    BY <1>6, PubTells
  <2>2. \A x \in N : Named(x[1], x[2]) = Payload
    BY NamesTold DEF Payload
  <2>. HIDE DEF s, N
  <2>3. Tells(core, core', Published(Recipients) \cup N)
    BY <1>1, <2>1, TellsMore, TellsTransitive
  <2>. QED  BY <1>3, <1>4, <1>6, <2>2, <2>3, PublishChanges
<1>7. CASE OnPubFails
  <2>1. PICK f \in (Recipients \cap Clients) \ Reachable, done \in SUBSET Reachable :
              LET s == DeliverAll(core, done, Publication)
                  d == Deliver(s, f, Publication)
              IN  /\ s \in CoreType /\ Tells(core, s, Published(done))
                  /\ d \in CoreType /\ d.chan = s.chan /\ d.senders \subseteq s.senders
                  /\ Tells(d, core', {<<Sender, AckMsg(Head(tasks).id, DeliverError(core, f),
                                                       NoCount)>>})
    BY <1>7, PubFailsTells
  <2>. DEFINE s == DeliverAll(core, done, Publication)
              d == Deliver(s, f, Publication)
              M == Published(done) \cup PlainAcks
  <2>2. Tells(core, s, M) /\ Tells(s, d, M) /\ Tells(d, core', M)
    BY <2>1, ErrorTypes, TellsMore, TellsNothing DEF PlainAcks
  <2>3. s \in CoreType /\ d \in CoreType
    BY <2>1
  <2>. HIDE DEF s, d
  <2>4. Tells(core, core', M)
    BY <1>1, <2>2, <2>3, TellsTransitive
  <2>. QED  BY <1>2, <1>3, <1>4, <1>7, <2>4, PublishChanges
<1>8. CASE OnPubKill
  BY <1>3, <1>4, <1>8, PubKillTells, PublishChanges
<1>9. CASE OnReqFails \/ OnReq
  <2>1. \A x \in {<<Server, Request>>} \cup PlainAcks : Named(x[1], x[2]) = Payload
    BY <1>2, NamesTold
  <2>2. [client |-> Awaited.requester, id |-> Awaited.request_id] = Payload
    BY DEF Awaited, Payload
  <2>. QED  BY <1>4, <1>9, <2>1, <2>2, RequestTells, RequestChanges
<1>10. CASE OnRsp
  <2>1. PICK p \in core.pending : Tells(core, core', {Response(p, "Ok", Payload)} \cup PlainAcks)
    BY <1>10, AnswerTells
  <2>2. \A x \in {Response(p, "Ok", Payload)} \cup PlainAcks :
           Named(x[1], x[2]) \in {Payload} \cup NamesOf(core)
    BY <1>2, NamesTold DEF Response
  <2>. QED  BY <1>4, <1>10, <2>1, <2>2, AnswerChanges
<1>. QED  BY <1>5, <1>6, <1>7, <1>8, <1>9, <1>10 DEF MessageStep

-----------------------------------------------------------------------------
(* Messages are taken in their order: the inductive invariant *)

TurnInv ==
    /\ TypeOK
    /\ MessagesInOrder
    /\ NamesWereSent

LEMMA TurnInit == Init => TurnInv
<1>. SUFFICES ASSUME Init PROVE TurnInv
  OBVIOUS
<1>1. TypeOK /\ core \in CoreType
  BY InitType DEF TypeOK
<1>2. tasks = <<>> /\ core.pending = {} /\ core.chan = [c \in Clients |-> <<>>]
  BY DEF Init
<1>3. \A n : n \notin NamesOf(core)
  BY <1>1, <1>2, NamesIn
<1>. QED  BY <1>1, <1>2, <1>3 DEF TurnInv, MessagesInOrder, NamesWereSent

(* The task at the head is taken; if it is a message, it is named now. *)
LEMMA TurnDequeue ==
    ASSUME TurnInv, TypeOK', tasks # <<>>, tasks' = Tail(tasks), UNCHANGED up,
           NEW N, NamesOf(core') \subseteq NamesOf(core) \cup N,
           N = {} \/ (N = {Payload} /\ Head(tasks).type = "Message")
    PROVE  TurnInv'
<1>1. tasks \in Seq(Task)
  BY DEF TurnInv, TypeOK
<1>2. /\ \A i \in DOMAIN tasks' :
            i + 1 \in DOMAIN tasks /\ tasks'[i] = tasks[i + 1] /\ i \in Nat /\ 1 < i + 1
      /\ 1 \in DOMAIN tasks /\ tasks[1] = Head(tasks)
  BY <1>1
<1>3. \A n \in N : /\ Head(tasks).type = "Message"
                   /\ n.client = Head(tasks).client /\ n.id = Head(tasks).id
  BY DEF Payload, Sender
<1>4. NamesWereSent'
  <2>. SUFFICES ASSUME NEW n \in NamesOf(core'), n.client \in Clients
                PROVE  n.id <= up[n.client]
    BY DEF NamesWereSent
  <2>. QED  BY <1>2, <1>3 DEF TurnInv, NamesWereSent, MessagesInOrder
<1>5. ASSUME NEW i \in DOMAIN tasks', tasks'[i].type = "Message"
      PROVE  /\ tasks'[i].id <= up'[tasks'[i].client]
             /\ \A n \in NamesOf(core') : n.client = tasks'[i].client => n.id < tasks'[i].id
             /\ \A j \in DOMAIN tasks' :
                   i < j /\ tasks'[j].type = "Message" /\ tasks'[j].client = tasks'[i].client
                     => tasks'[i].id < tasks'[j].id
  <2>1. i + 1 \in DOMAIN tasks /\ tasks[i + 1] = tasks'[i] /\ 1 < i + 1
    BY <1>2, <1>5
  <2>2. tasks'[i].id <= up'[tasks'[i].client]
    BY <1>5, <2>1 DEF TurnInv, MessagesInOrder
  <2>3. ASSUME NEW n \in NamesOf(core'), n.client = tasks'[i].client
        PROVE  n.id < tasks'[i].id
    <3>1. CASE n \in NamesOf(core)
      BY <1>5, <2>1, <2>3, <3>1 DEF TurnInv, MessagesInOrder
    <3>2. CASE n \in N
      BY <1>2, <1>3, <1>5, <2>1, <2>3, <3>2 DEF TurnInv, MessagesInOrder
    <3>. QED  BY <3>1, <3>2
  <2>4. ASSUME NEW j \in DOMAIN tasks', i < j, tasks'[j].type = "Message",
               tasks'[j].client = tasks'[i].client
        PROVE  tasks'[i].id < tasks'[j].id
    <3>1. j + 1 \in DOMAIN tasks /\ tasks[j + 1] = tasks'[j] /\ i + 1 < j + 1
      BY <1>2, <2>4
    <3>. QED  BY <1>5, <2>1, <2>4, <3>1 DEF TurnInv, MessagesInOrder
  <2>. QED  BY <2>2, <2>3, <2>4
<1>. QED  BY <1>4, <1>5 DEF TurnInv, MessagesInOrder

(* A task comes in; if it is a message, it has the next number of its client. *)
LEMMA TurnEnqueue ==
    ASSUME TurnInv, TypeOK', NEW task \in Task, tasks' = Append(tasks, task), UNCHANGED core,
           \/ task.type # "Message" /\ UNCHANGED up
           \/ /\ task.type = "Message" /\ task.client \in Clients
              /\ task.id = up[task.client] + 1
              /\ up' = [up EXCEPT ![task.client] = @ + 1]
    PROVE  TurnInv'
<1>1. tasks \in Seq(Task) /\ up \in [Clients -> Nat] /\ core \in CoreType
  BY DEF TurnInv, TypeOK
<1>2. /\ \A i \in DOMAIN tasks : i \in DOMAIN tasks' /\ tasks'[i] = tasks[i]
      /\ \A i \in DOMAIN tasks' : i \in DOMAIN tasks \/ i = Len(tasks) + 1
      /\ tasks'[Len(tasks) + 1] = task
      /\ \A i, j \in DOMAIN tasks' : i < j => i \in DOMAIN tasks
  <2>1. \A i, j \in DOMAIN tasks' : i < j => i \in DOMAIN tasks
    BY <1>1
  <2>. QED  BY <1>1, <2>1, Enqueue
<1>3. \A c \in Clients : up'[c] \in Nat /\ up[c] \in Nat /\ up[c] <= up'[c]
  <2>1. up' \in [Clients -> Nat]
    BY DEF TypeOK
  <2>2. CASE task.type = "Message"
    BY <1>1, <2>1, <2>2
  <2>3. CASE task.type # "Message"
    BY <1>1, <2>1, <2>3
  <2>. QED  BY <2>2, <2>3
<1>4. \A i \in DOMAIN tasks : tasks[i].type = "Message" =>
          tasks[i].client \in Clients /\ tasks[i].id \in Nat
  BY <1>1 DEF Task
<1>5. \A n \in NamesOf(core) : n.id \in Nat
  <2>1. \A d \in Clients : \A i \in 1..Len(core.chan[d]) :
           core.chan[d][i] \in ServerMsg
    BY <1>1, CoreFields DEF Channels
  <2>2. \A m \in ServerMsg : \A d : Named(d, m).id \in Nat
    BY DEF Named, ServerMsg, Payloads
  <2>3. \A p \in core.pending : p.request_id \in Nat
    BY <1>1, CoreFields DEF Pending, PendingResponse
  <2>. QED  BY <1>1, <2>1, <2>2, <2>3, NamesIn
<1>6. NamesWereSent'
  <2>. SUFFICES ASSUME NEW n \in NamesOf(core), n.client \in Clients
                PROVE  n.id <= up'[n.client]
    BY DEF NamesWereSent
  <2>. QED  BY <1>3, <1>5 DEF TurnInv, NamesWereSent
<1>7. ASSUME task.type = "Message"
      PROVE  /\ task.id <= up'[task.client]
             /\ \A n \in NamesOf(core) : n.client = task.client => n.id < task.id
             /\ \A i \in DOMAIN tasks :
                   tasks[i].type = "Message" /\ tasks[i].client = task.client
                     => tasks[i].id < task.id
  <2>1. task.client \in Clients /\ task.id = up[task.client] + 1 /\ up'[task.client] = task.id
    BY <1>1, <1>7
  <2>2. \A n \in NamesOf(core) : n.client = task.client => n.id <= up[task.client]
    BY <2>1 DEF TurnInv, NamesWereSent
  <2>3. \A i \in DOMAIN tasks : tasks[i].type = "Message" /\ tasks[i].client = task.client
                                  => tasks[i].id <= up[task.client]
    BY DEF TurnInv, MessagesInOrder
  <2>. QED  BY <1>3, <1>4, <1>5, <2>1, <2>2, <2>3
<1>8. ASSUME NEW i \in DOMAIN tasks', tasks'[i].type = "Message"
      PROVE  /\ tasks'[i].id <= up'[tasks'[i].client]
             /\ \A n \in NamesOf(core) : n.client = tasks'[i].client => n.id < tasks'[i].id
             /\ \A j \in DOMAIN tasks' :
                   i < j /\ tasks'[j].type = "Message" /\ tasks'[j].client = tasks'[i].client
                     => tasks'[i].id < tasks'[j].id
  <2>1. CASE i \in DOMAIN tasks
    <3>1. /\ tasks[i].type = "Message" /\ tasks'[i] = tasks[i]
          /\ tasks[i].client \in Clients /\ tasks[i].id \in Nat
      BY <1>2, <1>4, <1>8, <2>1
    <3>2. tasks[i].id <= up'[tasks[i].client]
      BY <1>3, <2>1, <3>1 DEF TurnInv, MessagesInOrder
    <3>3. ASSUME NEW j \in DOMAIN tasks', i < j, tasks'[j].type = "Message",
                 tasks'[j].client = tasks[i].client
          PROVE  tasks[i].id < tasks'[j].id
      BY <1>2, <1>7, <2>1, <3>1, <3>3 DEF TurnInv, MessagesInOrder
    <3>. QED  BY <2>1, <3>1, <3>2, <3>3 DEF TurnInv, MessagesInOrder
  <2>2. CASE i \notin DOMAIN tasks
    <3>1. tasks'[i] = task /\ \A j \in DOMAIN tasks' : ~(i < j)
      BY <1>2, <2>2
    <3>. QED  BY <1>7, <1>8, <3>1
  <2>. QED  BY <2>1, <2>2
<1>. QED  BY <1>6, <1>8 DEF TurnInv, MessagesInOrder

LEMMA TurnEnds ==
    ASSUME TurnInv, TypeOK', tasks' = <<>>, UNCHANGED up,
           NamesOf(core') \subseteq NamesOf(core)
             \/ /\ NamesOf(core') \subseteq NamesOf(core) \cup {Payload}
                /\ tasks # <<>> /\ Head(tasks).type = "Message"
    PROVE  TurnInv'
<1>1. ASSUME tasks # <<>>, Head(tasks).type = "Message"
      PROVE  Payload.id <= up[Payload.client]
  <2>1. 1 \in DOMAIN tasks /\ tasks[1] = Head(tasks)
    BY <1>1 DEF TurnInv, TypeOK
  <2>. QED  BY <1>1, <2>1 DEF TurnInv, MessagesInOrder, Payload, Sender
<1>2. NamesWereSent'
  BY <1>1 DEF TurnInv, NamesWereSent
<1>3. MessagesInOrder'
  BY DEF MessagesInOrder
<1>. QED  BY <1>2, <1>3 DEF TurnInv

(* The steps of the core that take no message name nothing new. *)
LEMMA OtherNames ==
    ASSUME TypeOK, OnRegister \/ OnDeregister \/ OnTimeout \/ OnTimeoutNotPending
    PROVE  NamesOf(core') \subseteq NamesOf(core)
<1>1. core \in CoreType /\ core' \in CoreType
  BY CoreStepCore DEF TypeOK, CoreStep
<1>2. CASE OnTimeout
  <2>1. PICK p \in core.pending : Tells(core, core', {Response(p, "Timeout", NoPayload)})
    BY <1>2, TimeoutTells
  <2>2. \A x \in {Response(p, "Timeout", NoPayload)} :
           Named(x[1], x[2]) \in {} \cup NamesOf(core)
    BY NamesTold DEF Response
  <2>3. core'.pending \subseteq core.pending
    BY <1>2, TimeoutKeeps DEF Keeps
  <2>4. NamesOf(core') \subseteq NamesOf(core) \cup {}
    BY <1>1, <2>1, <2>2, <2>3, TellsNames
  <2>. QED  BY <2>4
<1>3. CASE OnRegister \/ OnDeregister \/ OnTimeoutNotPending
  <2>1. core'.chan = core.chan /\ core'.pending \subseteq core.pending
    <3>1. CASE OnRegister
      BY <1>1, <3>1 DEF OnRegister, CoreType
    <3>2. CASE OnDeregister
      BY <1>1, <3>2 DEF OnDeregister, DeregisterClient, CoreType
    <3>3. CASE OnTimeoutNotPending
      BY <3>3 DEF OnTimeoutNotPending
    <3>. QED  BY <1>3, <3>1, <3>2, <3>3
  <2>. QED  BY <1>1, <2>1, NamesIn
<1>. QED  BY <1>2, <1>3

LEMMA TurnNext == TurnInv /\ [Next]_vars => TurnInv'
<1>. SUFFICES ASSUME TurnInv, [Next]_vars PROVE TurnInv'
  OBVIOUS
<1>1. TypeOK /\ TypeOK'
  BY NextType DEF TurnInv
<1>2. ASSUME UNCHANGED <<tasks, up, core>> PROVE TurnInv'
  BY <1>1, <1>2 DEF TurnInv, MessagesInOrder, NamesWereSent
<1>3. CASE Accept
  BY <1>1, <1>3, OtherTasks, TurnEnqueue DEF Accept
<1>4. CASE CoreStep
  <2>1. UNCHANGED up
    BY <1>1, <1>4, CoreStepFrame
  <2>2. CASE MessageStep
    <3>1. /\ NamesOf(core') \subseteq NamesOf(core) \cup {Payload}
          /\ tasks # <<>> /\ Head(tasks).type = "Message"
          /\ tasks' = Tail(tasks) \/ tasks' = <<>>
      BY <1>1, <2>2, MessageNames, MessageChanges DEF Take, Continue
    <3>2. CASE tasks' = Tail(tasks)
      BY <1>1, <2>1, <3>1, <3>2, TurnDequeue
    <3>. QED  BY <1>1, <2>1, <3>1, <3>2, TurnEnds
  <2>3. CASE OnRegister \/ OnDeregister \/ OnTimeout \/ OnTimeoutNotPending
    <3>1. /\ NamesOf(core') \subseteq NamesOf(core)
          /\ tasks # <<>>
          /\ tasks' = Tail(tasks) \/ tasks' = <<>>
      BY <1>1, <2>3, OtherNames
         DEF OnRegister, OnDeregister, OnTimeout, OnTimeoutNotPending, Take, Continue, End
    <3>2. CASE tasks' = Tail(tasks)
      <4>1. NamesOf(core') \subseteq NamesOf(core) \cup {}
        BY <3>1
      <4>. QED  BY <1>1, <2>1, <3>1, <3>2, <4>1, TurnDequeue
    <3>. QED  BY <1>1, <2>1, <3>1, <3>2, TurnEnds
  <2>. QED  BY <1>4, <2>2, <2>3 DEF CoreStep, MessageStep
<1>5. CASE OnStopSignal
  BY <1>1, <1>5, TurnEnds DEF OnStopSignal, End
<1>6. CASE \E id \in timers : TimerFires(id)
  <2>1. PICK id \in timers : TimerFires(id)
    BY <1>6
  <2>2. TimeoutOf(id) \in Task /\ TimeoutOf(id).type # "Message"
    BY <1>1, OtherTasks DEF TypeOK, TimeoutOf
  <2>. QED  BY <1>1, <1>2, <2>1, <2>2, TurnEnqueue DEF TimerFires, TimeoutOf
<1>7. CASE \E c \in Clients : StubStep(c)
  <2>1. PICK c \in Clients : StubStep(c)
    BY <1>7
  <2>2. ASSUME Leave(c), UNCHANGED <<up, core>> PROVE TurnInv'
    <3>1. DeregisterOf(c) \in Task /\ DeregisterOf(c).type # "Message"
      BY OtherTasks DEF DeregisterOf
    <3>. QED  BY <1>1, <1>2, <2>2, <3>1, TurnEnqueue DEF Leave, DeregisterOf
  <2>3. CASE Running /\ StubReceive(c)
    <3>1. PICK m \in Contents[c] \cup Answers(c) :
             tasks' = Append(tasks, [type |-> "Message", client |-> c,
                                     id |-> up[c] + 1, content |-> m])
      BY <2>3 DEF StubReceive
    <3>2. m \in ClientContent
      BY <1>1, ServerAssumption, ReceivedType
    <3>3. [type |-> "Message", client |-> c, id |-> up[c] + 1, content |-> m] \in Task
      BY <1>1, <3>2 DEF TypeOK, Task
    <3>4. up' = [up EXCEPT ![c] = @ + 1] /\ UNCHANGED core
      BY <2>3 DEF StubReceive
    <3>. QED  BY <1>1, <3>1, <3>3, <3>4, TurnEnqueue
  <2>. QED  BY <1>2, <2>1, <2>2, <2>3
            DEF StubStep, StubReceive, StubForward, StubChannelClosed, StubPeerGone, StubDrop
<1>8. CASE UNCHANGED vars
  BY <1>2, <1>8 DEF vars
<1>. QED  BY <1>3, <1>4, <1>5, <1>6, <1>7, <1>8 DEF Next

(* A message at the head of the queue is new to the core. *)
LEMMA HeadIsNew ==
    ASSUME TurnInv, Take("Message")
    PROVE  \A n \in NamesOf(core) : n.client = Sender => n.id < Head(tasks).id
<1>1. 1 \in DOMAIN tasks /\ tasks[1] = Head(tasks)
  BY DEF TurnInv, TypeOK, Take
<1>. QED  BY <1>1 DEF TurnInv, MessagesInOrder, Sender, Take

-----------------------------------------------------------------------------
(* PublisherOrder, of the core s *)
OrderIn(s) ==
    \A c \in Clients : \A i, j \in 1..Len(s.chan[c]) :
        LET m == s.chan[c][i]
            n == s.chan[c][j]
        IN  /\ i < j
            /\ m.type = "Pub" /\ n.type = "Pub"
            /\ m.payload.client = n.payload.client
            => m.payload.id < n.payload.id

(* The clients that were sent the publication named n *)
Got(s, n) ==
    {d \in Clients : \E k \in 1..Len(s.chan[d]) :
        s.chan[d][k].type = "Pub" /\ s.chan[d][k].payload = n}

(* AckCountsDeliveries, of the core s *)
CountsIn(s) ==
    \A c \in Clients : \A i \in 1..Len(s.chan[c]) :
        LET m == s.chan[c][i]
        IN  m.type = "Ack" /\ m.num_recipients # NoCount =>
                m.num_recipients = Cardinality(Got(s, [client |-> c, id |-> m.msg_id]))

(* Where nothing is published, both stay. *)
LEMMA NothingPublished ==
    ASSUME NEW s \in CoreType, NEW t \in CoreType, NEW M, Tells(s, t, M),
           \A x \in M : x[2].type # "Pub"
    PROVE  /\ OrderIn(s) => OrderIn(t)
           /\ \A n : Got(t, n) = Got(s, n)
<1>1. s.chan \in [Clients -> Seq(ServerMsg)] /\ t.chan \in [Clients -> Seq(ServerMsg)]
  BY CoreFields DEF Channels
<1>2. ASSUME NEW c \in Clients, NEW i \in 1..Len(t.chan[c]), t.chan[c][i].type = "Pub"
      PROVE  i \in 1..Len(s.chan[c]) /\ t.chan[c][i] = s.chan[c][i]
  <2>1. CASE Len(s.chan[c]) < i
    <3>. DEFINE x == <<c, t.chan[c][i]>>
    <3>1. x \in M /\ x[2] = t.chan[c][i]
      BY <2>1 DEF Tells
    <3>. HIDE DEF x
    <3>. QED  BY <1>2, <3>1
  <2>. QED  BY <1>1, <2>1 DEF Tells, Grows
<1>3. OrderIn(s) => OrderIn(t)
  BY <1>2 DEF OrderIn
<1>4. \A c \in Clients : \A i \in 1..Len(s.chan[c]) :
         i \in 1..Len(t.chan[c]) /\ t.chan[c][i] = s.chan[c][i]
  BY <1>1 DEF Tells, Grows
<1>5. \A n : Got(t, n) = Got(s, n)
  BY <1>2, <1>4 DEF Got
<1>. QED  BY <1>3, <1>5

LEMMA CountsKept ==
    ASSUME NEW s \in CoreType, NEW t \in CoreType, NEW M, Tells(s, t, M),
           \A x \in M : /\ x[2].type # "Pub"
                        /\ x[2].type = "Ack" /\ x[2].num_recipients # NoCount =>
                              x[2].num_recipients
                                = Cardinality(Got(s, [client |-> x[1], id |-> x[2].msg_id])),
           CountsIn(s)
    PROVE  CountsIn(t)
<1>. SUFFICES ASSUME NEW c \in Clients, NEW i \in 1..Len(t.chan[c]),
                     t.chan[c][i].type = "Ack", t.chan[c][i].num_recipients # NoCount
              PROVE  t.chan[c][i].num_recipients
                       = Cardinality(Got(t, [client |-> c, id |-> t.chan[c][i].msg_id]))
  BY DEF CountsIn
<1>1. s.chan \in [Clients -> Seq(ServerMsg)] /\ t.chan \in [Clients -> Seq(ServerMsg)]
  BY CoreFields DEF Channels
<1>2. \A n : Got(t, n) = Got(s, n)
  BY NothingPublished
<1>3. CASE Len(s.chan[c]) < i
  <2>. DEFINE x == <<c, t.chan[c][i]>>
  <2>1. x \in M /\ x[1] = c /\ x[2] = t.chan[c][i]
    BY <1>3 DEF Tells
  <2>. HIDE DEF x
  <2>. QED  BY <1>2, <2>1
<1>4. CASE i <= Len(s.chan[c])
  <2>1. i \in 1..Len(s.chan[c]) /\ t.chan[c][i] = s.chan[c][i]
    BY <1>1, <1>4 DEF Tells, Grows
  <2>. QED  BY <1>2, <2>1 DEF CountsIn
<1>. QED  BY <1>1, <1>3, <1>4

(* Where a new message is published to D, each has it last, and once. *)
LEMMA PublishedTo ==
    ASSUME TurnInv, TakeMessage("Pub"), NEW D \in SUBSET Clients
    PROVE  LET s == DeliverAll(core, D, Publication)
           IN  /\ OrderIn(core) => OrderIn(s)
               /\ CountsIn(core) => CountsIn(s)
               /\ Got(s, Payload) = D
<1>. DEFINE s == DeliverAll(core, D, Publication)
<1>1. core.chan \in [Clients -> Seq(ServerMsg)] /\ core \in CoreType
  BY CoreFields DEF TurnInv, TypeOK, Channels
<1>2. s.chan = [c \in Clients |-> IF c \in D THEN Append(core.chan[c], Publication)
                                           ELSE core.chan[c]]
  BY <1>1 DEF DeliverAll, CoreType
<1>3. Publication.type = "Pub" /\ Publication.payload = Payload
        /\ Payload.client = Sender /\ Payload.id = Head(tasks).id
  BY DEF Publication, PubMsg, Payload
<1>4. ASSUME NEW c \in Clients, NEW i \in 1..Len(core.chan[c]),
             Named(c, core.chan[c][i]).client = Sender
      PROVE  Named(c, core.chan[c][i]).id < Head(tasks).id
  <2>1. Named(c, core.chan[c][i]) \in NamesOf(core)
    BY <1>1, NamesIn
  <2>. QED  BY <1>4, <2>1, HeadIsNew DEF TakeMessage
<1>. HIDE DEF s
<1>5. Head(tasks).id \in Nat
  BY HeadMessage DEF TurnInv, TypeOK, TakeMessage
<1>6. \A c \in Clients : \A i \in 1..Len(s.chan[c]) :
         \/ i \in 1..Len(core.chan[c]) /\ s.chan[c][i] = core.chan[c][i]
         \/ c \in D /\ i = Len(core.chan[c]) + 1 /\ s.chan[c][i] = Publication
  BY <1>1, <1>2
<1>7. \A c \in Clients : \A i \in 1..Len(core.chan[c]) :
         i \in 1..Len(s.chan[c]) /\ s.chan[c][i] = core.chan[c][i]
  BY <1>1, <1>2
<1>8. \A c \in D : LET i == Len(core.chan[c]) + 1
                   IN  i \in 1..Len(s.chan[c]) /\ s.chan[c][i] = Publication
  BY <1>1, <1>2
<1>9. OrderIn(core) => OrderIn(s)
  <2>. SUFFICES ASSUME OrderIn(core), NEW c \in Clients,
                       NEW i \in 1..Len(s.chan[c]), NEW j \in 1..Len(s.chan[c]), i < j,
                       s.chan[c][i].type = "Pub", s.chan[c][j].type = "Pub",
                       s.chan[c][i].payload.client = s.chan[c][j].payload.client
                PROVE  s.chan[c][i].payload.id < s.chan[c][j].payload.id
    BY DEF OrderIn
  <2>1. i \in 1..Len(core.chan[c]) /\ s.chan[c][i] = core.chan[c][i]
    BY <1>1, <1>6
  <2>2. CASE j \in 1..Len(core.chan[c]) /\ s.chan[c][j] = core.chan[c][j]
    BY <2>1, <2>2 DEF OrderIn
  <2>3. CASE s.chan[c][j] = Publication
    BY <1>3, <1>4, <2>1, <2>3 DEF Named
  <2>. QED  BY <1>6, <2>2, <2>3
<1>10. ASSUME NEW n, n # Payload PROVE Got(s, n) = Got(core, n)
  BY <1>3, <1>6, <1>7, <1>10 DEF Got
<1>11. CountsIn(core) => CountsIn(s)
  <2>. SUFFICES ASSUME CountsIn(core), NEW c \in Clients, NEW i \in 1..Len(s.chan[c]),
                       s.chan[c][i].type = "Ack", s.chan[c][i].num_recipients # NoCount
                PROVE  s.chan[c][i].num_recipients
                         = Cardinality(Got(s, [client |-> c, id |-> s.chan[c][i].msg_id]))
    BY DEF CountsIn
  <2>1. i \in 1..Len(core.chan[c]) /\ s.chan[c][i] = core.chan[c][i]
    BY <1>3, <1>6
  <2>2. [client |-> c, id |-> s.chan[c][i].msg_id] # Payload
    BY <1>3, <1>4, <1>5, <2>1 DEF Named
  <2>. QED  BY <1>10, <2>1, <2>2 DEF CountsIn
<1>12. Got(s, Payload) = D
  <2>1. ASSUME NEW c \in Clients, NEW i \in 1..Len(core.chan[c]),
               core.chan[c][i].type = "Pub"
        PROVE  core.chan[c][i].payload # Payload
    BY <1>3, <1>4, <1>5, <2>1 DEF Named
  <2>2. \A d \in Clients : d \in Got(s, Payload) => d \in D
    BY <1>6, <2>1 DEF Got
  <2>3. \A d \in D : d \in Got(s, Payload)
    BY <1>3, <1>8 DEF Got
  <2>. QED  BY <2>2, <2>3 DEF Got
<1>. QED  BY <1>9, <1>11, <1>12 DEF s

-----------------------------------------------------------------------------
(* The inductive invariant behind PublisherOrder and AckCountsDeliveries *)

PubInv ==
    /\ TurnInv
    /\ OrderIn(core)
    /\ CountsIn(core)

LEMMA PubInit == Init => PubInv
<1>. SUFFICES ASSUME Init PROVE PubInv
  OBVIOUS
<1>1. TurnInv /\ core.chan = [c \in Clients |-> <<>>]
  BY TurnInit DEF Init
<1>. QED  BY <1>1 DEF PubInv, OrderIn, CountsIn

(* A message that is no publication leaves both as they are. *)
LEMMA PubOtherMessage ==
    ASSUME PubInv, MessageStep, ~OnPub, ~OnPubFails, ~OnPubKill
    PROVE  OrderIn(core') /\ CountsIn(core')
<1>1. TypeOK /\ core \in CoreType /\ core' \in CoreType
  BY CoreStepCore DEF PubInv, TurnInv, TypeOK, MessageStep, CoreStep
<1>2. \A x \in PlainAcks : x[2].type = "Ack" /\ x[2].num_recipients = NoCount
  BY DEF PlainAcks, AckMsg
<1>3. ASSUME NEW M, Tells(core, core', M \cup PlainAcks),
             \A x \in M : x[2].type \in {"Req", "Rsp"}
      PROVE  OrderIn(core') /\ CountsIn(core')
  <2>1. \A x \in M \cup PlainAcks : x[2].type # "Pub"
                                     /\ (x[2].type = "Ack" => x[2].num_recipients = NoCount)
    BY <1>2, <1>3
  <2>2. OrderIn(core')
    BY <1>1, <1>3, <2>1, NothingPublished DEF PubInv
  <2>3. CountsIn(core')
    BY <1>1, <1>3, <2>1, CountsKept DEF PubInv
  <2>. QED  BY <2>2, <2>3
<1>4. CASE OnReqFails \/ OnReq
  <2>. DEFINE M == {<<Server, Request>>}
  <2>1. \A x \in M : x[2].type \in {"Req", "Rsp"}
    BY DEF Request, ReqMsg
  <2>2. Tells(core, core', M \cup PlainAcks)
    BY <1>1, <1>4, RequestTells
  <2>. HIDE DEF M
  <2>. QED  BY <1>3, <2>1, <2>2
<1>5. CASE OnRsp
  <2>1. PICK p \in core.pending : Tells(core, core', {Response(p, "Ok", Payload)} \cup PlainAcks)
    BY <1>1, <1>5, AnswerTells
  <2>. DEFINE M == {Response(p, "Ok", Payload)}
  <2>2. \A x \in M : x[2].type \in {"Req", "Rsp"}
    BY DEF Response, RspMsg
  <2>3. Tells(core, core', M \cup PlainAcks)
    BY <2>1
  <2>. HIDE DEF M
  <2>. QED  BY <1>3, <2>2, <2>3
<1>6. CASE ~(OnReqFails \/ OnReq \/ OnRsp)
  <2>. DEFINE M == {}
  <2>1. PlainAcks = M \cup PlainAcks /\ \A x \in M : x[2].type \in {"Req", "Rsp"}
    OBVIOUS
  <2>2. Tells(core, core', M \cup PlainAcks)
    BY <1>1, <1>6, <2>1, RoutingTells DEF MessageStep
  <2>. HIDE DEF M
  <2>. QED  BY <1>3, <2>1, <2>2
<1>. QED  BY <1>4, <1>5, <1>6

LEMMA PubMessage ==
    ASSUME PubInv, OnPub \/ OnPubFails \/ OnPubKill
    PROVE  OrderIn(core') /\ CountsIn(core')
<1>1. TypeOK /\ core \in CoreType /\ core' \in CoreType /\ TakeMessage("Pub")
  BY PublishSteps DEF PubInv, TurnInv, TypeOK, OnPub, OnPubFails, OnPubKill
<1>2. CASE OnPub
  <2>. DEFINE s == DeliverAll(core, Recipients, Publication)
              n == Cardinality(Recipients)
              N == {<<Sender, AckMsg(Head(tasks).id, NoError, n)>>}
  <2>1. s \in CoreType /\ Recipients \in SUBSET Clients /\ Tells(s, core', N)
    BY <1>1, <1>2, PubTells
  <2>2. OrderIn(s) /\ CountsIn(s) /\ Got(s, Payload) = Recipients
    BY <1>1, <2>1, PublishedTo DEF PubInv
  <2>. HIDE DEF s
  <2>3. \A x \in N : /\ x[2].type # "Pub"
                     /\ x[2].num_recipients = n
                     /\ [client |-> x[1], id |-> x[2].msg_id] = Payload
    BY DEF AckMsg, Payload
  <2>. HIDE DEF N
  <2>4. OrderIn(core')
    BY <1>1, <2>1, <2>2, <2>3, NothingPublished
  <2>5. CountsIn(core')
    BY <1>1, <2>1, <2>2, <2>3, CountsKept
  <2>. QED  BY <2>4, <2>5
<1>3. CASE OnPubFails
  <2>1. PICK f \in (Recipients \cap Clients) \ Reachable, done \in SUBSET Reachable :
              LET s == DeliverAll(core, done, Publication)
                  d == Deliver(s, f, Publication)
              IN  /\ s \in CoreType
                  /\ d \in CoreType /\ d.chan = s.chan
                  /\ Tells(d, core', {<<Sender, AckMsg(Head(tasks).id, DeliverError(core, f),
                                                       NoCount)>>})
    BY <1>1, <1>3, PubFailsTells
  <2>. DEFINE s == DeliverAll(core, done, Publication)
              d == Deliver(s, f, Publication)
              N == {<<Sender, AckMsg(Head(tasks).id, DeliverError(core, f), NoCount)>>}
  <2>2. s \in CoreType /\ d \in CoreType /\ d.chan = s.chan /\ Tells(d, core', N)
    BY <2>1
  <2>3. OrderIn(s) /\ CountsIn(s)
    BY <1>1, PublishedTo DEF PubInv, Reachable
  <2>. HIDE DEF s, d
  <2>4. OrderIn(d) /\ CountsIn(d)
    BY <2>2, <2>3 DEF OrderIn, CountsIn, Got
  <2>5. \A x \in N : x[2].type # "Pub" /\ x[2].num_recipients = NoCount
    BY DEF AckMsg
  <2>. HIDE DEF N
  <2>6. OrderIn(core')
    BY <1>1, <2>2, <2>4, <2>5, NothingPublished
  <2>7. CountsIn(core')
    BY <1>1, <2>2, <2>4, <2>5, CountsKept
  <2>. QED  BY <2>6, <2>7
<1>4. CASE OnPubKill
  <2>1. PICK done \in SUBSET Clients : core' = DeliverAll(core, done, Publication)
    BY <1>1, <1>4, PubKillTells
  <2>. QED  BY <1>1, <2>1, PublishedTo DEF PubInv
<1>. QED  BY <1>2, <1>3, <1>4

LEMMA PubNext == PubInv /\ [Next]_vars => PubInv'
<1>. SUFFICES ASSUME PubInv, [Next]_vars PROVE PubInv'
  OBVIOUS
<1>1. TurnInv' /\ TypeOK
  BY TurnNext DEF PubInv, TurnInv
<1>2. ASSUME core'.chan = core.chan PROVE PubInv'
  <2>1. \A n : Got(core', n) = Got(core, n)
    BY <1>2 DEF Got
  <2>2. OrderIn(core')
    BY <1>2 DEF PubInv, OrderIn
  <2>3. CountsIn(core')
    BY <1>2, <2>1 DEF PubInv, CountsIn
  <2>. QED  BY <1>1, <2>2, <2>3 DEF PubInv
<1>3. CASE CoreStep
  <2>1. CASE MessageStep
    BY <1>1, <2>1, PubMessage, PubOtherMessage DEF PubInv
  <2>2. CASE OnTimeout
    <3>1. core \in CoreType
      BY <1>1 DEF TypeOK
    <3>2. PICK p \in core.pending : /\ core' \in CoreType
                                    /\ Tells(core, core', {Response(p, "Timeout", NoPayload)})
      BY <1>1, <2>2, TimeoutTells
    <3>3. \A x \in {Response(p, "Timeout", NoPayload)} : x[2].type = "Rsp"
      BY DEF Response, RspMsg
    <3>4. OrderIn(core')
      BY <3>1, <3>2, <3>3, NothingPublished DEF PubInv
    <3>5. CountsIn(core')
      BY <3>1, <3>2, <3>3, CountsKept DEF PubInv
    <3>. QED  BY <1>1, <3>4, <3>5 DEF PubInv
  <2>3. CASE OnRegister \/ OnDeregister \/ OnTimeoutNotPending
    <3>1. core \in CoreType
      BY <1>1 DEF TypeOK
    <3>2. core'.chan = core.chan
      BY <2>3, <3>1 DEF OnRegister, OnDeregister, OnTimeoutNotPending, DeregisterClient, CoreType
    <3>. QED  BY <1>2, <3>2
  <2>. QED  BY <1>3, <2>1, <2>2, <2>3 DEF CoreStep, MessageStep
<1>4. CASE ~CoreStep
  <2>1. UNCHANGED core
    BY <1>4 DEF Next, vars, Accept, OnStopSignal, TimerFires, StubStep, StubReceive, StubForward,
                StubChannelClosed, StubPeerGone, StubDrop
  <2>. QED  BY <1>2, <2>1
<1>. QED  BY <1>3, <1>4

LEMMA PubMeans == PubInv => PublisherOrder /\ AckCountsDeliveries
<1>. SUFFICES ASSUME PubInv PROVE PublisherOrder /\ AckCountsDeliveries
  OBVIOUS
<1>1. \A c \in Clients : DOMAIN core.chan[c] = 1..Len(core.chan[c])
  BY CoreFields DEF PubInv, TurnInv, TypeOK, Channels
<1>2. PublisherOrder
  BY <1>1 DEF PubInv, OrderIn, PublisherOrder
<1>3. \A n : Got(core, n) = {d \in Clients : \E m \in Received(d) : m.type = "Pub" /\ m.payload = n}
  BY <1>1 DEF Got, Received
<1>4. AckCountsDeliveries
  <2>. SUFFICES ASSUME NEW c \in Clients, NEW m \in Received(c),
                       m.type = "Ack", m.num_recipients # NoCount
                PROVE  m.num_recipients = Cardinality(Got(core, [client |-> c, id |-> m.msg_id]))
    BY <1>3 DEF AckCountsDeliveries
  <2>1. PICK i \in 1..Len(core.chan[c]) : m = core.chan[c][i]
    BY <1>1 DEF Received
  <2>. QED  BY <2>1 DEF PubInv, CountsIn
<1>. QED  BY <1>2, <1>4

(* Publications of one client reach each subscriber in the order in which
   they were sent, and none reaches it twice (core.rs:285-302). *)
THEOREM PublicationsInOrder == Spec => []PublisherOrder
<1>1. PubInv => PublisherOrder
  BY PubMeans
<1>. QED  BY <1>1, PubInit, PubNext, PTL DEF Spec

(* What publish returns is the number of clients that were sent the message
   (core.rs:285-302, 177-190). *)
THEOREM PublicationsCounted == Spec => []AckCountsDeliveries
<1>1. PubInv => AckCountsDeliveries
  BY PubMeans
<1>. QED  BY <1>1, PubInit, PubNext, PTL DEF Spec

-----------------------------------------------------------------------------
(* Publications that leave somebody out *)

(* A publication is taken only by the handler of publications. *)
LEMMA PubStep ==
    ASSUME TypeOK, [Next]_vars, Processes("Pub")
    PROVE  OnPub \/ OnPubFails
<1>1. /\ tasks \in Seq(Task) /\ tasks # <<>> /\ tasks' = Tail(tasks)
      /\ Head(tasks).type = "Message" /\ Content.type = "Pub" /\ Running'
  BY DEF TypeOK, Processes, TakeMessage, Take
<1>2. Len(tasks') < Len(tasks)
  BY <1>1
<1>3. \A task : tasks' # Append(tasks, task)
  BY <1>1, <1>2
<1>4. tasks' # tasks
  BY <1>2
<1>5. ~Accept /\ ~UNCHANGED vars /\ \A id : ~TimerFires(id)
  BY <1>3, <1>4 DEF Accept, vars, TimerFires
<1>6. \A c : ~StubStep(c)
  BY <1>3, <1>4 DEF StubStep, StubReceive, StubForward, StubChannelClosed, StubPeerGone, StubDrop,
                    Leave
<1>7. ~OnStopSignal /\ ~OnPubKill
  BY <1>1 DEF OnStopSignal, OnPubKill, End, Running
<1>8. CoreStep
  BY <1>5, <1>6, <1>7 DEF Next
<1>. QED  BY <1>1, <1>7, <1>8
          DEF CoreStep, OnRegister, OnDeregister, OnSub, OnUnsub, OnSrv, OnUnsrv, OnStop,
              OnKeepAlive, OnReqNotServed, OnReqFails, OnReq, OnRspInvalid, OnRsp, OnTimeout,
              OnTimeoutNotPending, TakeMessage, Take

(* Everybody who was to get a publication that did not fail has got it. *)
LEMMA PubReaches ==
    ASSUME TypeOK, OnPub, NEW c \in Recipients \cap Clients
    PROVE  Publication \in Received(c)'
<1>. DEFINE s == DeliverAll(core, Recipients, Publication)
            N == {<<Sender, AckMsg(Head(tasks).id, NoError, Cardinality(Recipients))>>}
<1>1. core \in CoreType /\ s \in CoreType /\ core' \in CoreType /\ Tells(s, core', N)
  BY PubTells, PublishSteps DEF TypeOK
<1>2. s.chan[c] = Append(core.chan[c], Publication)
  BY <1>1 DEF DeliverAll, CoreType
<1>. HIDE DEF s, N
<1>3. core.chan[c] \in Seq(ServerMsg) /\ s.chan[c] \in Seq(ServerMsg)
        /\ core'.chan[c] \in Seq(ServerMsg)
  BY <1>1, CoreFields DEF Channels
<1>4. LET i == Len(core.chan[c]) + 1 IN i \in 1..Len(s.chan[c]) /\ s.chan[c][i] = Publication
  BY <1>2, <1>3
<1>5. \E i \in 1..Len(core'.chan[c]) : core'.chan[c][i] = Publication
  <2>1. PICK i \in 1..Len(s.chan[c]) : s.chan[c][i] = Publication
    BY <1>4
  <2>2. c \in Clients /\ Grows(s, core')
    BY <1>1 DEF Tells
  <2>3. i \in 1..Len(core'.chan[c]) /\ core'.chan[c][i] = s.chan[c][i]
    BY <1>3, <2>2 DEF Grows
  <2>. QED  BY <2>1, <2>3
<1>. QED  BY <1>3, <1>5 DEF Received

(* A publisher that is there gets the Ack of a publication that failed. *)
LEMMA PubFailureTold ==
    ASSUME RouteInv, OnPubFails, stub[Sender] = "serving"
    PROVE  LET told == core'.chan[Sender]
               ack == told[Len(told)]
           IN  /\ ack.type = "Ack"
               /\ ack.msg_id = Head(tasks).id
               /\ ack.error \in {"DeliveryFailed", "UnknownClient"}
<1>1. TypeOK /\ core \in CoreType /\ Take("Message") /\ Publication \in ServerMsg
  BY PublicationType DEF RouteInv, TypeOK, OnPubFails, TakeMessage
<1>2. Sender \in Clients \ Closed /\ Head(tasks).id \in Nat
  BY <1>1, HeadMessage DEF TypeOK, Closed
<1>3. Sender \in core.senders
  BY <1>1, <1>2 DEF RouteInv, LiveClientsRegistered, Take
<1>4. PICK f \in (Recipients \cap Clients) \ Reachable, done \in SUBSET Reachable :
              LET s == DeliverAll(core, done, Publication)
                  d == Deliver(s, f, Publication)
              IN  /\ s \in CoreType
                  /\ d \in CoreType
                  /\ DeliverError(core, f) \in {"DeliveryFailed", "UnknownClient"}
                  /\ core' = Ack(d, DeliverError(core, f), NoCount)
  BY <1>1, PubFailsTells
<1>. DEFINE s == DeliverAll(core, done, Publication)
            d == Deliver(s, f, Publication)
            e == DeliverError(core, f)
            m == AckMsg(Head(tasks).id, e, NoCount)
<1>5. /\ s \in CoreType /\ d \in CoreType /\ e \in {"DeliveryFailed", "UnknownClient"}
      /\ core' = Deliver(d, Sender, m)
  BY <1>4 DEF Ack
<1>6. Keeps(core, s) /\ Keeps(s, d)
  BY <1>1, <1>5, DeliverAllKeeps, DeliverKeeps DEF Reachable
<1>7. m \in ServerMsg
  BY <1>2, ErrorTypes, MessageTypes
<1>8. m.type = "Ack" /\ m.msg_id = Head(tasks).id /\ m.error = e
  BY DEF AckMsg
<1>. HIDE DEF s, d, e, m
<1>9. Sender \in d.senders
  BY <1>2, <1>3, <1>6 DEF Keeps
<1>10. DeliverError(d, Sender) = NoError
  BY <1>2, <1>9 DEF DeliverError
<1>11. core'.chan = [d.chan EXCEPT ![Sender] = Append(d.chan[Sender], m)]
  BY <1>5, <1>7, <1>10, DeliverResult DEF Delivered, NoError
<1>12. d.chan \in [Clients -> Seq(ServerMsg)]
  BY <1>5, CoreFields DEF Channels
<1>13. core'.chan[Sender] = Append(d.chan[Sender], m)
  BY <1>2, <1>11, <1>12
<1>14. LET told == core'.chan[Sender] IN told[Len(told)] = m
  BY <1>2, <1>7, <1>12, <1>13
<1>. QED  BY <1>5, <1>8, <1>14

(* A publication that leaves out a connected subscriber is reported to its
   publisher (core.rs:285-302, 193). *)
THEOREM IncompletePublicationsReported == Spec => IncompleteIsReported
<1>. DEFINE Reported ==
         Processes("Pub") =>
            \/ \A c \in Recipients \cap Clients :
                  stub[c] = "serving" => Publication \in Received(c)'
            \/ stub[Sender] # "serving"
            \/ LET told == core'.chan[Sender]
                   ack == told[Len(told)]
               IN  /\ ack.type = "Ack"
                   /\ ack.msg_id = Head(tasks).id
                   /\ ack.error \in {"DeliveryFailed", "UnknownClient"}
<1>1. RouteInv /\ [Next]_vars => Reported
  BY PubStep, PubReaches, PubFailureTold DEF RouteInv
<1>2. RouteInv /\ [Next]_vars => [Reported]_vars
  BY <1>1
<1>. QED  BY <1>2, RouteCorrect, PTL DEF Spec, IncompleteIsReported

-----------------------------------------------------------------------------
(* ResponseOnce, AckBeforeResponse and ResponseFromResponder, of the core s *)

HasRsp(s, c, r) ==
    \E i \in 1..Len(s.chan[c]) : s.chan[c][i].type = "Rsp" /\ s.chan[c][i].req_id = r

IsAck(m, r) == m.type = "Ack" /\ m.msg_id = r /\ m.error = NoError

HasReq(s, d, n) ==
    \E i \in 1..Len(s.chan[d]) : s.chan[d][i].type = "Req" /\ s.chan[d][i].payload = n

OnceIn(s) ==
    \A c \in Clients : \A i, j \in 1..Len(s.chan[c]) :
        /\ s.chan[c][i].type = "Rsp" /\ s.chan[c][j].type = "Rsp"
        /\ s.chan[c][i].req_id = s.chan[c][j].req_id
        => i = j

AckedIn(s) ==
    \A c \in Clients : \A j \in 1..Len(s.chan[c]) : s.chan[c][j].type = "Rsp" =>
        \E i \in 1..(j - 1) : IsAck(s.chan[c][i], s.chan[c][j].req_id)

AskedIn(s) ==
    \A c \in Clients : \A j \in 1..Len(s.chan[c]) :
        s.chan[c][j].type = "Rsp" /\ s.chan[c][j].status = "Ok" =>
            /\ s.chan[c][j].payload.client \in Clients
            /\ HasReq(s, s.chan[c][j].payload.client,
                      [client |-> c, id |-> s.chan[c][j].req_id])

(* What makes an answer to a pending response right: it is pending once, it
   was not answered, it was accepted, if the requester is still there to be
   told, and its responder was asked. *)

PendsOnce(s) ==
    \A p, q \in s.pending :
        p.requester = q.requester /\ p.request_id = q.request_id => p = q

Unanswered(s) == \A p \in s.pending : ~HasRsp(s, p.requester, p.request_id)

AcceptedIn(s) ==
    \A p \in s.pending : p.requester \in s.senders =>
        \E i \in 1..Len(s.chan[p.requester]) : IsAck(s.chan[p.requester][i], p.request_id)

ResponderAsked(s) ==
    \A p \in s.pending : HasReq(s, p.responder, [client |-> p.requester, id |-> p.request_id])

AnswersRight(s) == OnceIn(s) /\ AckedIn(s) /\ AskedIn(s)
PendingRight(s) == PendsOnce(s) /\ Unanswered(s) /\ ResponderAsked(s)

-----------------------------------------------------------------------------
(* Handlers that tell no response *)

LEMMA PendingClients ==
    ASSUME NEW s \in CoreType, NEW p \in s.pending
    PROVE  /\ p.requester \in Clients /\ p.responder \in Clients
           /\ p.request_id \in Nat /\ p.id \in Nat
BY CoreFields DEF Pending, PendingResponse

LEMMA Channel ==
    ASSUME NEW s \in CoreType, NEW c \in Clients
    PROVE  s.chan[c] \in Seq(ServerMsg) /\ DOMAIN s.chan[c] = 1..Len(s.chan[c])
BY CoreFields DEF Channels

LEMMA StillThere ==
    ASSUME NEW s \in CoreType, NEW t \in CoreType, Grows(s, t)
    PROVE  /\ \A c \in Clients : \A i \in 1..Len(s.chan[c]) :
                 i \in 1..Len(t.chan[c]) /\ t.chan[c][i] = s.chan[c][i]
           /\ \A d \in Clients : \A n : HasReq(s, d, n) => HasReq(t, d, n)
<1>1. \A c \in Clients : \A i \in 1..Len(s.chan[c]) :
         i \in 1..Len(t.chan[c]) /\ t.chan[c][i] = s.chan[c][i]
  BY Channel DEF Grows
<1>. QED  BY <1>1 DEF HasReq

LEMMA NoResponse ==
    ASSUME NEW s \in CoreType, NEW t \in CoreType, NEW M, Tells(s, t, M),
           \A x \in M : x[2].type # "Rsp"
    PROVE  /\ \A c \in Clients : \A i \in 1..Len(t.chan[c]) : t.chan[c][i].type = "Rsp" =>
                 i \in 1..Len(s.chan[c]) /\ t.chan[c][i] = s.chan[c][i]
           /\ \A c \in Clients : \A r : HasRsp(t, c, r) => HasRsp(s, c, r)
<1>1. ASSUME NEW c \in Clients, NEW i \in 1..Len(t.chan[c]), t.chan[c][i].type = "Rsp"
      PROVE  i \in 1..Len(s.chan[c]) /\ t.chan[c][i] = s.chan[c][i]
  <2>1. CASE Len(s.chan[c]) < i
    <3>. DEFINE x == <<c, t.chan[c][i]>>
    <3>1. x \in M /\ x[2] = t.chan[c][i]
      BY <2>1 DEF Tells
    <3>. HIDE DEF x
    <3>. QED  BY <1>1, <3>1
  <2>. QED  BY <2>1, Channel DEF Tells, Grows
<1>. QED  BY <1>1 DEF HasRsp

LEMMA AnswersKept ==
    ASSUME NEW s \in CoreType, NEW t \in CoreType, NEW M, Tells(s, t, M),
           \A x \in M : x[2].type # "Rsp", AnswersRight(s)
    PROVE  AnswersRight(t)
<1>1. OnceIn(t)
  <2>. SUFFICES ASSUME NEW c \in Clients,
                       NEW i \in 1..Len(t.chan[c]), NEW j \in 1..Len(t.chan[c]),
                       t.chan[c][i].type = "Rsp", t.chan[c][j].type = "Rsp",
                       t.chan[c][i].req_id = t.chan[c][j].req_id
                PROVE  i = j
    BY DEF OnceIn
  <2>1. /\ i \in 1..Len(s.chan[c]) /\ t.chan[c][i] = s.chan[c][i]
        /\ j \in 1..Len(s.chan[c]) /\ t.chan[c][j] = s.chan[c][j]
    BY NoResponse
  <2>2. /\ s.chan[c][i].type = "Rsp" /\ s.chan[c][j].type = "Rsp"
        /\ s.chan[c][i].req_id = s.chan[c][j].req_id
    BY <2>1
  <2>3. OnceIn(s)
    BY DEF AnswersRight
  <2>. QED  BY ONLY <2>1, <2>2, <2>3, c \in Clients DEF OnceIn
<1>2. Grows(s, t)
  BY DEF Tells
<1>3. AckedIn(t)
  <2>. SUFFICES ASSUME NEW c \in Clients, NEW j \in 1..Len(t.chan[c]),
                       t.chan[c][j].type = "Rsp"
                PROVE  \E i \in 1..(j - 1) : IsAck(t.chan[c][i], t.chan[c][j].req_id)
    BY DEF AckedIn
  <2>1. j \in 1..Len(s.chan[c]) /\ t.chan[c][j] = s.chan[c][j]
    BY NoResponse
  <2>2. PICK i \in 1..(j - 1) : IsAck(s.chan[c][i], s.chan[c][j].req_id)
    BY <2>1 DEF AnswersRight, AckedIn
  <2>3. i \in 1..Len(s.chan[c])
    BY <2>1, Channel
  <2>. QED  BY <1>2, <2>1, <2>2, <2>3, StillThere
<1>4. AskedIn(t)
  <2>. SUFFICES ASSUME NEW c \in Clients, NEW j \in 1..Len(t.chan[c]),
                       t.chan[c][j].type = "Rsp", t.chan[c][j].status = "Ok"
                PROVE  /\ t.chan[c][j].payload.client \in Clients
                       /\ HasReq(t, t.chan[c][j].payload.client,
                                 [client |-> c, id |-> t.chan[c][j].req_id])
    BY DEF AskedIn
  <2>1. j \in 1..Len(s.chan[c]) /\ t.chan[c][j] = s.chan[c][j]
    BY NoResponse
  <2>2. /\ s.chan[c][j].payload.client \in Clients
        /\ HasReq(s, s.chan[c][j].payload.client, [client |-> c, id |-> s.chan[c][j].req_id])
    BY <2>1 DEF AnswersRight, AskedIn
  <2>. QED  BY <1>2, <2>1, <2>2, StillThere
<1>. QED  BY <1>1, <1>3, <1>4 DEF AnswersRight

LEMMA PendingStays ==
    ASSUME NEW s \in CoreType, NEW t \in CoreType, NEW M, Tells(s, t, M),
           \A x \in M : x[2].type # "Rsp", t.pending \subseteq s.pending
    PROVE  /\ PendingRight(s) => PendingRight(t)
           /\ AcceptedIn(s) => AcceptedIn(t)
<1>1. Grows(s, t) /\ t.senders \subseteq s.senders
  BY DEF Tells
<1>2. ASSUME PendingRight(s) PROVE PendingRight(t)
  <2>1. PendsOnce(t)
    BY <1>2 DEF PendingRight, PendsOnce
  <2>2. Unanswered(t)
    <3>. SUFFICES ASSUME NEW p \in t.pending PROVE ~HasRsp(t, p.requester, p.request_id)
      BY DEF Unanswered
    <3>1. p.requester \in Clients /\ ~HasRsp(s, p.requester, p.request_id)
      BY <1>2, PendingClients DEF PendingRight, Unanswered
    <3>. QED  BY <3>1, NoResponse
  <2>3. ResponderAsked(t)
    BY <1>1, <1>2, StillThere, PendingClients DEF PendingRight, ResponderAsked
  <2>. QED  BY <2>1, <2>2, <2>3 DEF PendingRight
<1>3. ASSUME AcceptedIn(s) PROVE AcceptedIn(t)
  <2>. SUFFICES ASSUME NEW p \in t.pending, p.requester \in t.senders
                PROVE  \E i \in 1..Len(t.chan[p.requester]) :
                          IsAck(t.chan[p.requester][i], p.request_id)
    BY DEF AcceptedIn
  <2>1. PICK i \in 1..Len(s.chan[p.requester]) : IsAck(s.chan[p.requester][i], p.request_id)
    BY <1>1, <1>3 DEF AcceptedIn
  <2>2. p.requester \in Clients
    BY PendingClients
  <2>3. i \in 1..Len(t.chan[p.requester]) /\ t.chan[p.requester][i] = s.chan[p.requester][i]
    BY <1>1, <2>2, StillThere
  <2>. QED  BY <2>1, <2>3
<1>. QED  BY <1>2, <1>3

-----------------------------------------------------------------------------
(* The response itself: only if it is delivered is there one more, and then
   nothing pending is answered by it any longer. *)
LEMMA RespondRight ==
    ASSUME NEW s \in CoreType, AnswersRight(s), PendingRight(s), AcceptedIn(s),
           NEW p \in s.pending, NEW st \in {"Ok", "Timeout"}, NEW payload \in Payloads,
           st = "Ok" => payload.client = p.responder
    PROVE  LET d == Respond(s, p, st, payload)
           IN  AnswersRight(d) /\ PendingRight(d) /\ AcceptedIn(d)
<1>. DEFINE t == [s EXCEPT !.pending = @ \ {p}]
            m == RspMsg(p.request_id, st, payload)
            c == p.requester
            d == Deliver(t, c, m)
<1>1. /\ c \in Clients /\ p.responder \in Clients /\ p.request_id \in Nat
      /\ m \in ServerMsg
  BY PendingClients, MessageTypes
<1>2. /\ m.type = "Rsp" /\ m.req_id = p.request_id /\ m.status = st
      /\ m.payload = payload
  BY DEF RspMsg
<1>3. t \in CoreType /\ t.chan = s.chan /\ t.senders = s.senders /\ t.pending = s.pending \ {p}
  <2>1. t \in CoreType
    BY CoreFields, CoreUpdates DEF Pending
  <2>. QED  BY <2>1 DEF CoreType
<1>4. Respond(s, p, st, payload) = d
  BY DEF Respond
<1>. HIDE DEF t, m
<1>5. d \in CoreType /\ Delivered(t, c, m, d)
  BY <1>1, <1>3, DeliverType, DeliverResult
<1>. HIDE DEF d
<1>6. CASE d.chan = s.chan /\ d.senders \subseteq s.senders /\ d.pending \subseteq s.pending
  <2>1. Tells(s, d, {})
    BY <1>6, TellsNothing
  <2>2. AnswersRight(d)
    BY <1>5, <2>1, AnswersKept
  <2>3. PendingRight(d) /\ AcceptedIn(d)
    BY <1>5, <1>6, <2>1, PendingStays
  <2>. QED  BY <1>4, <2>2, <2>3
<1>7. CASE /\ c \in s.senders /\ d.senders = s.senders /\ d.pending = s.pending \ {p}
           /\ d.chan = [s.chan EXCEPT ![c] = Append(s.chan[c], m)]
  <2>. DEFINE last == Len(s.chan[c]) + 1
  <2>1. s.chan \in [Clients -> Seq(ServerMsg)]
    BY CoreFields DEF Channels
  <2>2. /\ last \in 1..Len(d.chan[c]) /\ d.chan[c][last] = m
        /\ \A b \in Clients : \A i \in 1..Len(s.chan[b]) :
              i \in 1..Len(d.chan[b]) /\ d.chan[b][i] = s.chan[b][i]
        /\ \A b \in Clients : \A i \in 1..Len(d.chan[b]) :
              \/ i \in 1..Len(s.chan[b]) /\ d.chan[b][i] = s.chan[b][i]
              \/ b = c /\ i = last
    BY <1>1, <1>7, <2>1
  <2>3. \A b \in Clients : \A n : HasReq(s, b, n) => HasReq(d, b, n)
    BY <2>2 DEF HasReq
  <2>4. ~HasRsp(s, c, p.request_id)
    BY DEF PendingRight, Unanswered
  <2>5. OnceIn(d)
    <3>. SUFFICES ASSUME NEW b \in Clients,
                         NEW i \in 1..Len(d.chan[b]), NEW j \in 1..Len(d.chan[b]),
                         d.chan[b][i].type = "Rsp", d.chan[b][j].type = "Rsp",
                         d.chan[b][i].req_id = d.chan[b][j].req_id
                  PROVE  i = j
      BY DEF OnceIn
    <3>1. CASE /\ i \in 1..Len(s.chan[b]) /\ d.chan[b][i] = s.chan[b][i]
               /\ j \in 1..Len(s.chan[b]) /\ d.chan[b][j] = s.chan[b][j]
      BY <3>1 DEF AnswersRight, OnceIn
    <3>2. CASE /\ i \in 1..Len(s.chan[b]) /\ d.chan[b][i] = s.chan[b][i]
               /\ b = c /\ j = last
      <4>1. d.chan[b][j] = m
        BY <2>2, <3>2
      <4>2. s.chan[c][i].type = "Rsp" /\ s.chan[c][i].req_id = p.request_id
        BY <1>2, <3>2, <4>1
      <4>. QED  BY <2>4, <3>2, <4>2 DEF HasRsp
    <3>3. CASE /\ j \in 1..Len(s.chan[b]) /\ d.chan[b][j] = s.chan[b][j]
               /\ b = c /\ i = last
      <4>1. d.chan[b][i] = m
        BY <2>2, <3>3
      <4>2. s.chan[c][j].type = "Rsp" /\ s.chan[c][j].req_id = p.request_id
        BY <1>2, <3>3, <4>1
      <4>. QED  BY <2>4, <3>3, <4>2 DEF HasRsp
    <3>. QED  BY <2>2, <3>1, <3>2, <3>3
  <2>6. AckedIn(d)
    <3>. SUFFICES ASSUME NEW b \in Clients, NEW j \in 1..Len(d.chan[b]),
                         d.chan[b][j].type = "Rsp"
                  PROVE  \E i \in 1..(j - 1) : IsAck(d.chan[b][i], d.chan[b][j].req_id)
      BY DEF AckedIn
    <3>1. CASE j \in 1..Len(s.chan[b]) /\ d.chan[b][j] = s.chan[b][j]
      <4>1. PICK i \in 1..(j - 1) : IsAck(s.chan[b][i], s.chan[b][j].req_id)
        BY <3>1 DEF AnswersRight, AckedIn
      <4>2. i \in 1..Len(s.chan[b])
        BY <2>1, <3>1
      <4>. QED  BY <2>2, <3>1, <4>1, <4>2
    <3>2. CASE b = c /\ j = last
      <4>1. PICK i \in 1..Len(s.chan[c]) : IsAck(s.chan[c][i], p.request_id)
        BY <1>7 DEF AcceptedIn
      <4>2. i \in 1..(j - 1)
        BY <1>1, <2>1, <3>2
      <4>. QED  BY <1>1, <1>2, <2>2, <3>2, <4>1, <4>2
    <3>. QED  BY <2>2, <3>1, <3>2
  <2>7. AskedIn(d)
    <3>. SUFFICES ASSUME NEW b \in Clients, NEW j \in 1..Len(d.chan[b]),
                         d.chan[b][j].type = "Rsp", d.chan[b][j].status = "Ok"
                  PROVE  /\ d.chan[b][j].payload.client \in Clients
                         /\ HasReq(d, d.chan[b][j].payload.client,
                                   [client |-> b, id |-> d.chan[b][j].req_id])
      BY DEF AskedIn
    <3>1. CASE j \in 1..Len(s.chan[b]) /\ d.chan[b][j] = s.chan[b][j]
      BY <2>3, <3>1 DEF AnswersRight, AskedIn
    <3>2. CASE b = c /\ j = last
      <4>1. HasReq(s, p.responder, [client |-> c, id |-> p.request_id])
        BY DEF PendingRight, ResponderAsked
      <4>2. d.chan[b][j] = m /\ payload.client = p.responder
        BY <1>2, <2>2, <3>2
      <4>. QED  BY <1>1, <1>2, <2>3, <3>2, <4>1, <4>2
    <3>. QED  BY <2>2, <3>1, <3>2
  <2>8. Unanswered(d)
    <3>. SUFFICES ASSUME NEW q \in d.pending, NEW i \in 1..Len(d.chan[q.requester]),
                         d.chan[q.requester][i].type = "Rsp",
                         d.chan[q.requester][i].req_id = q.request_id
                  PROVE  FALSE
      BY DEF Unanswered, HasRsp
    <3>1. q \in s.pending /\ q # p /\ q.requester \in Clients
      BY <1>7, PendingClients
    <3>2. CASE i \in 1..Len(s.chan[q.requester])
               /\ d.chan[q.requester][i] = s.chan[q.requester][i]
      BY <3>1, <3>2 DEF PendingRight, Unanswered, HasRsp
    <3>3. CASE q.requester = c /\ i = last
      BY <1>2, <2>2, <3>1, <3>3 DEF PendingRight, PendsOnce
    <3>. QED  BY <2>2, <3>1, <3>2, <3>3
  <2>9. PendsOnce(d)
    BY <1>7 DEF PendingRight, PendsOnce
  <2>10. ResponderAsked(d)
    BY <1>7, <2>3, PendingClients DEF PendingRight, ResponderAsked
  <2>11. AcceptedIn(d)
    <3>. SUFFICES ASSUME NEW q \in d.pending, q.requester \in d.senders
                  PROVE  \E i \in 1..Len(d.chan[q.requester]) :
                            IsAck(d.chan[q.requester][i], q.request_id)
      BY DEF AcceptedIn
    <3>1. q \in s.pending /\ q.requester \in Clients /\ q.requester \in s.senders
      BY <1>7, PendingClients
    <3>2. PICK i \in 1..Len(s.chan[q.requester]) : IsAck(s.chan[q.requester][i], q.request_id)
      BY <3>1 DEF AcceptedIn
    <3>. QED  BY <2>2, <3>1, <3>2
  <2>. QED  BY <1>4, <2>5, <2>6, <2>7, <2>8, <2>9, <2>10, <2>11
            DEF AnswersRight, PendingRight
<1>8. \/ /\ d.chan = s.chan /\ d.senders \subseteq s.senders /\ d.pending \subseteq s.pending
      \/ /\ c \in s.senders /\ d.senders = s.senders /\ d.pending = s.pending \ {p}
         /\ d.chan = [s.chan EXCEPT ![c] = Append(s.chan[c], m)]
  BY <1>3, <1>5 DEF Delivered
<1>. QED  BY <1>6, <1>7, <1>8

-----------------------------------------------------------------------------
(* The handlers *)

AllRight(s) == AnswersRight(s) /\ PendingRight(s) /\ AcceptedIn(s)

LEMMA RightStays ==
    ASSUME NEW s \in CoreType, NEW t \in CoreType, NEW M, Tells(s, t, M),
           \A x \in M : x[2].type # "Rsp", t.pending \subseteq s.pending, AllRight(s)
    PROVE  AllRight(t)
BY AnswersKept, PendingStays DEF AllRight

LEMMA AckRight ==
    ASSUME TypeOK, Take("Message"),
           NEW s \in CoreType, NEW e \in Errors, NEW n \in Nat \cup {NoCount}, AllRight(s)
    PROVE  AllRight(Ack(s, e, n))
<1>. DEFINE M == {<<Sender, AckMsg(Head(tasks).id, e, n)>>}
<1>1. Ack(s, e, n) \in CoreType /\ Tells(s, Ack(s, e, n), M)
  BY AckTells
<1>2. Ack(s, e, n).pending \subseteq s.pending
  BY AckKeeps DEF TypeOK, Keeps
<1>3. \A x \in M : x[2].type # "Rsp"
  BY DEF AckMsg
<1>. QED  BY <1>1, <1>2, <1>3, RightStays

(* A request that is sent on: no earlier request of its sender has its id,
   and if its sender is still there, it is told that it was accepted. *)
LEMMA RequestRight ==
    ASSUME TurnInv, AllRight(core), OnReq
    PROVE  AllRight(core')
<1>1. TypeOK /\ core \in CoreType /\ Take("Message") /\ Server \in Clients
  BY RequestTells DEF TurnInv, TypeOK, OnReq, TakeMessage
<1>2. Sender \in Clients /\ Head(tasks).id \in Nat
  BY <1>1, HeadMessage DEF TypeOK
<1>3. PICK s \in CoreType :
         /\ core' = Ack(s, NoError, NoCount)
         /\ s.pending = core.pending \cup {Awaited}
         /\ s.senders = core.senders
         /\ s.chan = [core.chan EXCEPT ![Server] = Append(core.chan[Server], Request)]
         /\ Awaited \in PendingResponse
  BY <1>1, RequestPending
<1>. DEFINE last == Len(core.chan[Server]) + 1
            M == {<<Server, Request>>}
<1>4. core.chan \in [Clients -> Seq(ServerMsg)]
  BY <1>1, CoreFields DEF Channels
<1>5. /\ last \in 1..Len(s.chan[Server]) /\ s.chan[Server][last] = Request
      /\ Grows(core, s) /\ Tells(core, s, M)
  BY <1>1, <1>3, <1>4 DEF Grows, Tells
<1>6. \A x \in M : x[2].type # "Rsp"
  BY DEF Request, ReqMsg
<1>. HIDE DEF M, last
<1>7. Awaited.requester = Sender /\ Awaited.request_id = Head(tasks).id
        /\ Awaited.responder = Server
  BY DEF Awaited
<1>8. AnswersRight(s)
  BY <1>1, <1>5, <1>6, AnswersKept DEF AllRight
<1>9. PendsOnce(s)
  <2>1. ASSUME NEW q \in core.pending, q.requester = Sender, q.request_id = Head(tasks).id
        PROVE  FALSE
    <3>. DEFINE n == [client |-> q.requester, id |-> q.request_id]
    <3>1. n \in NamesOf(core)
      BY <1>1, NamesIn
    <3>2. n.client = Sender /\ n.id = Head(tasks).id
      BY <2>1
    <3>. HIDE DEF n
    <3>. QED  BY <1>1, <1>2, <3>1, <3>2, HeadIsNew
  <2>. QED  BY <1>3, <1>7, <2>1 DEF AllRight, PendingRight, PendsOnce
<1>10. Unanswered(s)
  <2>1. ASSUME HasRsp(core, Sender, Head(tasks).id) PROVE FALSE
    <3>1. PICK i \in 1..Len(core.chan[Sender]) :
             /\ core.chan[Sender][i].type = "Rsp"
             /\ core.chan[Sender][i].req_id = Head(tasks).id
      BY <2>1 DEF HasRsp
    <3>. DEFINE n == Named(Sender, core.chan[Sender][i])
    <3>2. n \in NamesOf(core)
      BY <1>1, <1>2, NamesIn
    <3>3. n.client = Sender /\ n.id = Head(tasks).id
      BY <3>1 DEF Named
    <3>. HIDE DEF n
    <3>. QED  BY <1>1, <1>2, <3>2, <3>3, HeadIsNew
  <2>2. \A c \in Clients : \A r : HasRsp(s, c, r) => HasRsp(core, c, r)
    BY <1>1, <1>5, <1>6, NoResponse
  <2>. QED  BY <1>1, <1>2, <1>3, <1>7, <2>1, <2>2, PendingClients
            DEF AllRight, PendingRight, Unanswered
<1>11. ResponderAsked(s)
  <2>1. HasReq(s, Server, [client |-> Sender, id |-> Head(tasks).id])
    BY <1>5 DEF HasReq, Request, ReqMsg, Payload
  <2>2. \A d \in Clients : \A n : HasReq(core, d, n) => HasReq(s, d, n)
    BY <1>1, <1>5, StillThere
  <2>. QED  BY <1>1, <1>3, <1>7, <2>1, <2>2, PendingClients
            DEF AllRight, PendingRight, ResponderAsked
<1>. DEFINE ack == AckMsg(Head(tasks).id, NoError, NoCount)
            N == {<<Sender, ack>>}
<1>12. /\ ack \in ServerMsg
       /\ IsAck(ack, Head(tasks).id) /\ ack.type = "Ack"
  BY <1>2, ErrorTypes, MessageTypes DEF IsAck, AckMsg
<1>13. core' = Deliver(s, Sender, ack)
  BY <1>3 DEF Ack
<1>. HIDE DEF ack
<1>14. core' \in CoreType /\ Delivered(s, Sender, ack, core') /\ Tells(s, core', N)
  BY <1>12, <1>13, DeliverType, DeliverResult, DeliverTells
<1>15. core'.pending \subseteq s.pending /\ \A x \in N : x[2].type # "Rsp"
  BY <1>12, <1>14 DEF Delivered
<1>16. AnswersRight(core') /\ PendingRight(core')
  BY <1>8, <1>9, <1>10, <1>11, <1>14, <1>15, AnswersKept, PendingStays DEF PendingRight
<1>17. AcceptedIn(core')
  <2>. SUFFICES ASSUME NEW p \in core'.pending, p.requester \in core'.senders
                PROVE  \E i \in 1..Len(core'.chan[p.requester]) :
                          IsAck(core'.chan[p.requester][i], p.request_id)
    BY DEF AcceptedIn
  <2>1. CASE p = Awaited
    <3>1. s.chan \in [Clients -> Seq(ServerMsg)]
      BY CoreFields DEF Channels
    <3>2. core'.chan = [s.chan EXCEPT ![Sender] = Append(s.chan[Sender], ack)]
      BY <1>7, <1>14, <2>1 DEF Delivered
    <3>3. /\ Len(s.chan[Sender]) + 1 \in 1..Len(core'.chan[Sender])
          /\ core'.chan[Sender][Len(s.chan[Sender]) + 1] = ack
      BY <1>2, <3>1, <3>2
    <3>. QED  BY <1>7, <1>12, <2>1, <3>3
  <2>2. CASE p # Awaited
    <3>1. p \in core.pending /\ p.requester \in core.senders /\ p.requester \in Clients
      BY <1>1, <1>3, <1>14, <1>15, <2>2, PendingClients DEF Tells
    <3>2. PICK i \in 1..Len(core.chan[p.requester]) :
             IsAck(core.chan[p.requester][i], p.request_id)
      BY <3>1 DEF AllRight, AcceptedIn
    <3>3. Grows(core, core')
      BY <1>1, <1>5, <1>14, GrowsTransitive DEF Tells
    <3>4. i \in 1..Len(core'.chan[p.requester])
            /\ core'.chan[p.requester][i] = core.chan[p.requester][i]
      BY <1>1, <1>14, <3>1, <3>3, StillThere
    <3>. QED  BY <3>2, <3>4
  <2>. QED  BY <2>1, <2>2
<1>. QED  BY <1>16, <1>17 DEF AllRight

LEMMA AnswerRight ==
    ASSUME TypeOK, AllRight(core), OnRsp \/ OnTimeout
    PROVE  AllRight(core')
<1>1. core \in CoreType /\ tasks \in Seq(Task)
  BY DEF TypeOK
<1>2. CASE OnRsp
  <2>1. PICK p \in core.pending :
           /\ MayAnswer(p)
           /\ Respond(core, p, "Ok", Payload) \in CoreType
           /\ core' = Ack(Respond(core, p, "Ok", Payload), DeliverError(core, p.requester), NoCount)
    BY <1>2, AnswerTells
  <2>2. Take("Message") /\ Payload \in Payloads /\ Payload.client = p.responder
    BY <1>1, <1>2, <2>1, HeadMessage DEF OnRsp, TakeMessage, MayAnswer, Payload
  <2>3. AllRight(Respond(core, p, "Ok", Payload))
    BY <1>1, <2>2, RespondRight DEF AllRight
  <2>. QED  BY <2>1, <2>2, <2>3, ErrorTypes, AckRight
<1>3. CASE OnTimeout
  <2>1. PICK p \in core.pending : core' = Respond(core, p, "Timeout", NoPayload)
    BY <1>3, TimeoutTells
  <2>. QED  BY <1>1, <2>1, NoPayloadType, RespondRight DEF AllRight
<1>. QED  BY <1>2, <1>3

(* Every other message tells no response, and adds no pending one. *)
LEMMA OtherMessageRight ==
    ASSUME TypeOK, AllRight(core), MessageStep, ~OnReq, ~OnRsp
    PROVE  AllRight(core')
<1>1. core \in CoreType /\ core' \in CoreType /\ tasks \in Seq(Task)
  BY CoreStepCore DEF TypeOK, MessageStep, CoreStep
<1>2. \A x \in PlainAcks : x[2].type # "Rsp"
  BY DEF PlainAcks, AckMsg
<1>3. \A D : \A x \in Published(D) : x[2].type # "Rsp"
  BY DEF Published, Publication, PubMsg
<1>4. CASE OnSub \/ OnUnsub \/ OnSrv \/ OnUnsrv \/ OnStop \/ OnKeepAlive
  <2>1. Tells(core, core', PlainAcks) /\ core'.pending \subseteq core.pending
    BY <1>4, RoutingTells, RoutingChanges
  <2>. QED  BY <1>1, <1>2, <2>1, RightStays
<1>5. CASE OnReqNotServed \/ OnRspInvalid
  <2>1. Tells(core, core', PlainAcks)
    BY <1>5, RoutingTells
  <2>2. PICK e \in Errors : core' = Ack(core, e, NoCount)
    BY <1>5, ErrorTypes DEF OnReqNotServed, OnRspInvalid
  <2>3. Take("Message")
    BY <1>5 DEF OnReqNotServed, OnRspInvalid, TakeMessage
  <2>4. core'.pending \subseteq core.pending
    BY <1>1, <2>2, <2>3, AckKeeps DEF Keeps
  <2>. QED  BY <1>1, <1>2, <2>1, <2>4, RightStays
<1>6. CASE OnReqFails
  <2>. DEFINE d == Deliver(core, Server, Request)
              M == {<<Server, Request>>}
  <2>1. Take("Message") /\ Content.type = "Req"
    BY <1>6 DEF OnReqFails, TakeMessage
  <2>2. Request \in ServerMsg
    BY <1>1, <2>1, HeadMessage, ContentTopic, CoreFields, MessageTypes DEF Request
  <2>3. d \in CoreType /\ Tells(core, d, M) /\ Keeps(core, d)
    BY <1>1, <2>2, DeliverType, DeliverTells, DeliverKeeps
  <2>4. \A x \in M : x[2].type # "Rsp"
    BY DEF Request, ReqMsg
  <2>5. core' = Ack(d, DeliverError(core, Server), NoCount)
    BY <1>6 DEF OnReqFails
  <2>. HIDE DEF d, M
  <2>6. AllRight(d)
    BY <1>1, <2>3, <2>4, RightStays DEF Keeps
  <2>. QED  BY <2>1, <2>3, <2>5, <2>6, ErrorTypes, AckRight
<1>7. CASE OnPub
  <2>. DEFINE s == DeliverAll(core, Recipients, Publication)
              n == Cardinality(Recipients)
              N == {<<Sender, AckMsg(Head(tasks).id, NoError, n)>>}
  <2>1. /\ s \in CoreType /\ Tells(core, s, Published(Recipients))
        /\ core' = Ack(s, NoError, n) /\ n \in Nat
    BY <1>7, PubTells
  <2>2. s.pending = core.pending
    BY <1>1 DEF DeliverAll, CoreType
  <2>. HIDE DEF s, n
  <2>3. AllRight(s)
    BY <1>1, <1>3, <2>1, <2>2, RightStays
  <2>4. Take("Message")
    BY <1>7 DEF OnPub, TakeMessage
  <2>. QED  BY <2>1, <2>3, <2>4, ErrorTypes, AckRight
<1>8. CASE OnPubFails
  <2>1. PICK f \in (Recipients \cap Clients) \ Reachable, done \in SUBSET Reachable :
           LET s == DeliverAll(core, done, Publication)
               d == Deliver(s, f, Publication)
           IN  /\ s \in CoreType /\ Tells(core, s, Published(done))
               /\ d \in CoreType /\ d.chan = s.chan /\ d.senders \subseteq s.senders
               /\ core' = Ack(d, DeliverError(core, f), NoCount)
    BY <1>8, PubFailsTells
  <2>. DEFINE s == DeliverAll(core, done, Publication)
              d == Deliver(s, f, Publication)
  <2>2. s.pending = core.pending
    BY <1>1 DEF DeliverAll, CoreType
  <2>3. Publication \in ServerMsg /\ Take("Message")
    BY <1>8, PublicationType DEF OnPubFails, TakeMessage
  <2>4. Keeps(s, d)
    BY <2>1, <2>3, DeliverKeeps
  <2>5. /\ s \in CoreType /\ Tells(core, s, Published(done))
        /\ d \in CoreType /\ d.chan = s.chan /\ d.senders \subseteq s.senders
        /\ core' = Ack(d, DeliverError(core, f), NoCount)
    BY <2>1
  <2>. HIDE DEF d, s
  <2>6. Tells(s, d, {})
    BY <2>5, TellsNothing
  <2>7. AllRight(s)
    BY <1>1, <1>3, <2>2, <2>5, RightStays
  <2>8. AllRight(d)
    BY <2>4, <2>5, <2>6, <2>7, RightStays DEF Keeps
  <2>. QED  BY <2>3, <2>5, <2>8, ErrorTypes, AckRight
<1>9. CASE OnPubKill
  <2>1. PICK done \in SUBSET Clients :
           /\ core' = DeliverAll(core, done, Publication)
           /\ Tells(core, core', Published(done))
    BY <1>9, PubKillTells
  <2>2. core'.pending = core.pending
    BY <1>1, <2>1 DEF DeliverAll, CoreType
  <2>. QED  BY <1>1, <1>3, <2>1, <2>2, RightStays
<1>. QED  BY <1>4, <1>5, <1>6, <1>7, <1>8, <1>9 DEF MessageStep

-----------------------------------------------------------------------------
(* The inductive invariant: with it go the invariants on the tables, because
   a requester that comes back into the senders would have to be told of its
   accepted requests, and the order of the messages, because a new request
   must not have the id of one already asked. *)
AnswerInv ==
    /\ RouteInv
    /\ TurnInv
    /\ AllRight(core)

LEMMA AnswerInit == Init => AnswerInv
<1>. SUFFICES ASSUME Init PROVE AnswerInv
  OBVIOUS
<1>1. RouteInv /\ TurnInv
  BY RouteInit, TurnInit
<1>2. core.pending = {} /\ core.chan = [c \in Clients |-> <<>>]
  BY DEF Init
<1>3. AnswersRight(core)
  BY <1>2 DEF AnswersRight, OnceIn, AckedIn, AskedIn
<1>4. PendingRight(core) /\ AcceptedIn(core)
  BY <1>2 DEF PendingRight, PendsOnce, Unanswered, ResponderAsked, AcceptedIn
<1>. QED  BY <1>1, <1>3, <1>4 DEF AnswerInv, AllRight

(* A connection is registered under an id that nothing is pending for. *)
LEMMA RegisterRight ==
    ASSUME RouteInv, AllRight(core), OnRegister
    PROVE  AllRight(core')
<1>. DEFINE n == core.next_client_id
<1>1. core \in CoreType /\ n \in Clients /\ n \in Nat /\ Running
  BY CoreFields DEF RouteInv, TypeOK, OnRegister, Take
<1>2. core'.senders = core.senders \cup {n} /\ core'.chan = core.chan
        /\ core'.pending = core.pending
  BY <1>1 DEF OnRegister, CoreType
<1>3. stub[n] = "none"
  BY <1>1 DEF RouteInv, UnusedIds
<1>4. n \notin Mentioned
  BY <1>1, <1>3, IdsType
     DEF RouteInv, NoDanglingReference, DeregisterWhenGone, Gone
<1>. HIDE DEF n
<1>5. \A p \in core.pending : p.requester # n
  BY <1>4 DEF Mentioned, Mentions
<1>6. AcceptedIn(core')
  BY <1>2, <1>5 DEF AllRight, AcceptedIn
<1>7. \A d, r : /\ HasReq(core', d, r) <=> HasReq(core, d, r)
                /\ HasRsp(core', d, r) <=> HasRsp(core, d, r)
  BY <1>2 DEF HasReq, HasRsp
<1>8. OnceIn(core') /\ AckedIn(core')
  BY <1>2 DEF AllRight, AnswersRight, OnceIn, AckedIn
<1>9. AskedIn(core')
  BY <1>2, <1>7 DEF AllRight, AnswersRight, AskedIn
<1>10. PendingRight(core')
  BY <1>2, <1>7 DEF AllRight, PendingRight, PendsOnce, Unanswered, ResponderAsked
<1>. QED  BY <1>6, <1>8, <1>9, <1>10 DEF AllRight, AnswersRight

LEMMA DeregisterRight ==
    ASSUME TypeOK, AllRight(core), OnDeregister
    PROVE  AllRight(core')
<1>. DEFINE c == Head(tasks).client
            d == DeregisterClient(core, c)
<1>1. core \in CoreType /\ core' = d
  BY DEF TypeOK, OnDeregister
<1>2. core' \in CoreType
  BY <1>1, DeregisterType
<1>3. d.senders = core.senders \ {c}
        /\ d.pending = {p \in core.pending : p.requester # c /\ p.responder # c}
  BY <1>1, DeregisterFields
<1>4. d.chan = core.chan
  BY <1>1 DEF DeregisterClient, CoreType
<1>. HIDE DEF c, d
<1>5. Tells(core, core', {})
  BY <1>1, <1>3, <1>4, TellsNothing
<1>. QED  BY <1>1, <1>2, <1>3, <1>5, RightStays

LEMMA AnswerNext == AnswerInv /\ [Next]_vars => AnswerInv'
<1>. SUFFICES ASSUME AnswerInv, [Next]_vars PROVE AnswerInv'
  OBVIOUS
<1>1. RouteInv' /\ TurnInv' /\ TypeOK
  BY RouteNext, TurnNext DEF AnswerInv, RouteInv
<1>2. ASSUME AllRight(core') PROVE AnswerInv'
  BY <1>1, <1>2 DEF AnswerInv
<1>3. ASSUME UNCHANGED core PROVE AnswerInv'
  BY <1>2, <1>3 DEF AnswerInv
<1>4. CASE CoreStep
  <2>1. CASE OnRegister
    BY <1>2, <2>1, RegisterRight DEF AnswerInv
  <2>2. CASE OnDeregister
    BY <1>1, <1>2, <2>2, DeregisterRight DEF AnswerInv
  <2>3. CASE OnReq
    BY <1>2, <2>3, RequestRight DEF AnswerInv
  <2>4. CASE OnRsp \/ OnTimeout
    BY <1>1, <1>2, <2>4, AnswerRight DEF AnswerInv
  <2>5. CASE MessageStep /\ ~OnReq /\ ~OnRsp
    BY <1>1, <1>2, <2>5, OtherMessageRight DEF AnswerInv
  <2>6. CASE OnTimeoutNotPending
    BY <1>3, <2>6 DEF OnTimeoutNotPending
  <2>. QED  BY <1>4, <2>1, <2>2, <2>3, <2>4, <2>5, <2>6 DEF CoreStep, MessageStep
<1>5. CASE Accept \/ OnStopSignal \/ (\E id \in timers : TimerFires(id))
             \/ (\E c \in Clients : StubStep(c)) \/ UNCHANGED vars
  <2>1. UNCHANGED core
    BY <1>5 DEF Accept, OnStopSignal, TimerFires, StubStep, StubReceive, StubForward,
                StubChannelClosed, StubPeerGone, StubDrop, vars
  <2>. QED  BY <1>3, <2>1
<1>. QED  BY <1>4, <1>5 DEF Next

LEMMA AnswerMeans ==
    AnswerInv => ResponseOnce /\ AckBeforeResponse /\ ResponseFromResponder
<1>. SUFFICES ASSUME AnswerInv
              PROVE  ResponseOnce /\ AckBeforeResponse /\ ResponseFromResponder
  OBVIOUS
<1>1. \A c \in Clients : DOMAIN core.chan[c] = 1..Len(core.chan[c])
  BY CoreFields DEF AnswerInv, RouteInv, TypeOK, Channels
<1>2. ResponseOnce
  BY <1>1 DEF AnswerInv, AllRight, AnswersRight, OnceIn, ResponseOnce
<1>3. AckBeforeResponse
  BY <1>1 DEF AnswerInv, AllRight, AnswersRight, AckedIn, IsAck, AckBeforeResponse
<1>4. ResponseFromResponder
  <2>. SUFFICES ASSUME NEW c \in Clients, NEW j \in 1..Len(core.chan[c]),
                       core.chan[c][j].type = "Rsp", core.chan[c][j].status = "Ok"
                PROVE  \E n \in Received(core.chan[c][j].payload.client) :
                          n.type = "Req"
                          /\ n.payload = [client |-> c, id |-> core.chan[c][j].req_id]
    <3>1. \A c \in Clients : \A m \in Received(c) :
             \E j \in 1..Len(core.chan[c]) : m = core.chan[c][j]
      BY <1>1 DEF Received
    <3>. QED  BY <3>1 DEF ResponseFromResponder
  <2>. DEFINE d == core.chan[c][j].payload.client
              name == [client |-> c, id |-> core.chan[c][j].req_id]
  <2>1. d \in Clients /\ HasReq(core, d, name)
    BY DEF AnswerInv, AllRight, AnswersRight, AskedIn
  <2>. HIDE DEF d, name
  <2>2. \E n \in Received(d) : n.type = "Req" /\ n.payload = name
    BY <1>1, <2>1 DEF HasReq, Received
  <2>. QED  BY <2>2 DEF d, name
<1>. QED  BY <1>2, <1>3, <1>4

(* A requester is answered at most once: a pending response is removed when it
   is answered, by the responder or by the timeout (core.rs:243-272). *)
THEOREM AnsweredOnce == Spec => []ResponseOnce
<1>1. AnswerInv => ResponseOnce
  BY AnswerMeans
<1>. QED  BY <1>1, AnswerInit, AnswerNext, PTL DEF Spec

(* The acknowledgement of a request comes before its answer: both are put in
   the requester's channel, and request is one task (core.rs:149-241). *)
THEOREM AcknowledgedFirst == Spec => []AckBeforeResponse
<1>1. AnswerInv => AckBeforeResponse
  BY AnswerMeans
<1>. QED  BY <1>1, AnswerInit, AnswerNext, PTL DEF Spec

(* An answer is the message of the client that the request was delivered to
   (core.rs:252-255). *)
THEOREM AnsweredByTheResponder == Spec => []ResponseFromResponder
<1>1. AnswerInv => ResponseFromResponder
  BY AnswerMeans
<1>. QED  BY <1>1, AnswerInit, AnswerNext, PTL DEF Spec
==============================================================================
