----------------------------- MODULE ClientProofs ----------------------------
(* The client core never panics, serves what it says it serves and gives up no
   live subscription, with any number of calls, topics and messages, and with
   any bus that does what module ClientCore says. *)
EXTENDS ClientProperties, FiniteSetTheorems, SequenceTheorems, TLAPS

-----------------------------------------------------------------------------
(* The types of all the state *)

Kinds == {"Pub", "Sub", "SubBytes", "Srv", "Req", "Rsp", "StopBus"}
AnyTopic == CHOOSE t \in Topics : TRUE
Errors == {NoError, "ClaimWildcardNotSupported", "TopicAlreadyClaimed", "ServiceNotFound",
           "InvalidRequestId", "DeliveryFailed"}

Tasks ==
    [type : {TaskType(k) : k \in Kinds}, id : Calls, topic : Topics, req_id : Nat]
      \cup [type : {"Unsub", "Unsrv"}, id : {NoCall}, topic : Topics, req_id : {0}]
      \cup [type : {"Stop", "KeepAlive"}, id : {NoCall}, topic : {AnyTopic}, req_id : {0}]

Messages ==
    [type : {"Ack"}, id : Calls \cup {NoCall}, error : Errors]
      \cup [type : {"Rsp"}, id : Calls, status : {"Ok", "Timeout"}]
      \cup [type : {"Pub"}, topic : Topics]
      \cup [type : {"Req"}, id : Nat, topic : Topics]

CallRecords ==
    [kind : Kinds \cup {"none"}, topic : Topics \cup {AnyTopic}, req_id : Nat, stage : Stages,
     ack : Errors \cup {"empty"}, rsp : {"empty", "Ok", "Timeout"},
     held : BOOLEAN, open : BOOLEAN, feed : Seq(Nat), got : SUBSET Nat, before : SUBSET Calls]

(* what a call is at its stage *)
CallStage(r) ==
    /\ r.stage = "none" => r.kind = "none"
    /\ r.stage # "none" => r.kind \in Kinds /\ r.topic \in Topics
    /\ r.held => r.kind \in Subscribing \cup {"Srv"}
    /\ r.stage = "acking" /\ r.kind \in Subscribing \cup {"Srv"} => r.held
    /\ r.stage = "awaiting" => r.kind = "Req"

CoreRecords ==
    [ack : SUBSET Calls, rsp : SUBSET Calls, pub : SUBSET Calls, req : SUBSET Calls,
     subs : SUBSET (Calls \X Topics), owner : [Topics -> Calls \cup {NoOwner}]]

Pending == [id : Nat, requester : Calls \cup {NoCall}, responder : {NoOwner, Me, Others}]

BusRecords ==
    [subs : SUBSET ({Me} \X Topics), owner : [Topics -> {NoOwner, Me, Others}],
     pending : SUBSET Pending, next : Nat]

Types ==
    /\ core \in CoreRecords
    /\ status \in {"running", "stopped", "ChannelClosed", "CallbackClosed", "ClaimRejected",
                   "panicked"}
    /\ tasks \in Seq(Tasks)
    /\ calls \in [Calls -> CallRecords]
    /\ \A c \in Calls : CallStage(calls[c])
    /\ up \in Seq(Tasks)
    /\ down \in Seq(Messages)
    /\ conn \in {"open", "closed"}
    /\ bus \in BusRecords

-----------------------------------------------------------------------------
(* A call makes one message, which is in one place. *)

Carries(q, c) == \E i \in 1..Len(q) : q[i].id = c

Unsent(c) == calls[c].stage = "none" \/ Carries(tasks, c)
Unasked(c) == Unsent(c) \/ Carries(up, c)

Once(q, cs) ==
    \A i \in 1..Len(q) : q[i].id # NoCall =>
        /\ cs[q[i].id].stage # "none"
        /\ q[i].type = TaskType(cs[q[i].id].kind)
        /\ q[i].topic = cs[q[i].id].topic
        /\ \A j \in 1..Len(q) : q[j].id = q[i].id => i = j

MessagesOnce ==
    /\ Once(tasks, calls) /\ Once(up, calls)
    /\ \A c \in Calls : Unsent(c) =>
          /\ ~Carries(up, c)
          /\ c \notin core.rsp
          /\ \A t \in Topics : core.owner[t] # c
          /\ \A t \in Topics : <<c, t>> \notin core.subs
    /\ \A c \in Calls : Unasked(c) =>
          /\ calls[c].ack = "empty"
          /\ \A i \in 1..Len(down) : down[i].type \in {"Ack", "Rsp"} => down[i].id # c
          /\ \A p \in bus.pending : p.requester # c

(* The callbacks are there: for a response until it has come... *)
ResponsesExpected ==
    /\ \A i \in 1..Len(up) : up[i].type = "Req" => up[i].id \in core.rsp
    /\ \A i \in 1..Len(down) : down[i].type = "Rsp" =>
          /\ down[i].id \in core.rsp
          /\ \A j \in 1..Len(down) : down[j].type = "Rsp" /\ down[j].id = down[i].id => i = j
    /\ \A p \in bus.pending : p.requester # NoCall =>
          /\ p.requester \in core.rsp
          /\ \A i \in 1..Len(down) : down[i].type = "Rsp" => down[i].id # p.requester
          /\ \A q \in bus.pending : q.requester = p.requester => p = q

(* ... and for what the local directory names. *)
CallbacksThere ==
    /\ \A p \in core.subs : p[1] \in core.pub /\ p[2] = calls[p[1]].topic
    /\ \A t \in Topics : core.owner[t] # NoOwner =>
          /\ t \in Concrete
          /\ core.owner[t] \in core.req
          /\ calls[core.owner[t]].kind = "Srv"
          /\ calls[core.owner[t]].topic = t

-----------------------------------------------------------------------------
(* Srv and Unsrv.  In the queue q, whose start is the local owner o, position
   0: a topic is served at a position, and given up at a later one.  An Unsrv
   does not say whose it is, but each comes after the Srv that it undoes, and
   no other one comes between them, unless the core ends before: at a Srv that
   clashes with an earlier one, or of a pattern. *)
Serves(q, o, t, i) ==
    \/ i = 0 /\ o[t] # NoOwner
    \/ i \in 1..Len(q) /\ q[i].type = "Srv" /\ q[i].topic = t

GivesUp(q, t, i) == q[i].type = "Unsrv" /\ q[i].topic = t

ServedUntil(q, o, t, a, b) ==
    /\ a < b
    /\ Serves(q, o, t, a)
    /\ \A k \in 1..Len(q) : a < k /\ k < b => ~GivesUp(q, t, k)

Clash(q, o, t, j) ==
    \E b \in 1..Len(q) :
        /\ b < j
        /\ Serves(q, o, t, b)
        /\ t \notin Concrete \/ \E a \in 0..Len(q) : ServedUntil(q, o, t, a, b)

Paired(q, o) ==
    \A t \in Topics : \A j \in 1..Len(q) : GivesUp(q, t, j) =>
        Clash(q, o, t, j) \/ \E a \in 0..Len(q) : ServedUntil(q, o, t, a, j)

(* Where c serves t *)
ServesAs(q, o, t, c, p) ==
    \/ p = 0 /\ o[t] = c
    \/ p \in 1..Len(q) /\ q[p].type = "Srv" /\ q[p].topic = t /\ q[p].id = c

HeldServe(q, o, t, c) ==
    \E p \in 0..Len(q) :
        /\ ServesAs(q, o, t, c, p)
        /\ \A j \in 1..Len(q) : p < j /\ GivesUp(q, t, j) => Clash(q, o, t, j)

Serving(c) == calls[c].kind = "Srv" /\ calls[c].held

ServesPaired ==
    /\ Paired(tasks, core.owner)
    /\ \A c \in Calls : Serving(c) => HeldServe(tasks, core.owner, calls[c].topic, c)

(* What is served is held, or its Unsrv is in the queue. *)
ServesWanted ==
    /\ \A t \in Topics : core.owner[t] # NoOwner =>
          \/ calls[core.owner[t]].held
          \/ \E j \in 1..Len(tasks) : GivesUp(tasks, t, j)
    /\ \A i \in 1..Len(tasks) : tasks[i].type = "Srv" =>
          \/ calls[tasks[i].id].held
          \/ \E j \in 1..Len(tasks) : i < j /\ GivesUp(tasks, tasks[i].topic, j)

(* The bus learns of it in the same order. *)
Acked(c) ==
    \/ calls[c].ack = NoError
    \/ \E i \in 1..Len(down) :
          down[i].type = "Ack" /\ down[i].id = c /\ down[i].error = NoError

AckedWhenOk ==
    \A c \in Calls :
        calls[c].stage = "Ok" => calls[c].ack = NoError \/ calls[c].kind = "Req"

OwnerAtBus ==
    Open => \A t \in Topics : \A c \in Calls : core.owner[t] = c =>
        /\ \A j \in 1..Len(up) : GivesUp(up, t, j) =>
              \E i \in 1..Len(up) : j < i /\ up[i].id = c
        /\ Acked(c) => bus.owner[t] = Me

-----------------------------------------------------------------------------
(* Sub and Unsub *)

AnotherDropped(c) ==
    \E d \in Calls \ calls[c].before : Dropped(d) /\ calls[d].topic = calls[c].topic

Unsubs(q, t, i) == q[i].type = "Unsub" /\ q[i].topic = t

KeptSubscription(c) ==
    LET t == calls[c].topic
    IN  /\ \A j \in 1..Len(tasks) : Unsubs(tasks, t, j) =>
              \E i \in 1..Len(tasks) : j < i /\ tasks[i].id = c
        /\ Carries(tasks, c) \/ <<c, t>> \in core.subs
        /\ Open => /\ \A j \in 1..Len(up) : Unsubs(up, t, j) =>
                         \/ Carries(tasks, c)
                         \/ \E i \in 1..Len(up) : j < i /\ up[i].id = c
                   /\ Acked(c) => <<Me, t>> \in bus.subs

SubscriptionsKept ==
    /\ \A c \in Calls : \A d \in calls[c].before : Dropped(d)
    /\ \A c \in Calls :
          calls[c].kind \in Subscribing /\ calls[c].held /\ calls[c].open =>
              KeptSubscription(c) \/ AnotherDropped(c)

-----------------------------------------------------------------------------
ClientInv ==
    /\ Types
    /\ status # "panicked"
    /\ Running => /\ MessagesOnce
                  /\ ResponsesExpected
                  /\ CallbacksThere
                  /\ ServesPaired
                  /\ ServesWanted
                  /\ AckedWhenOk
                  /\ OwnerAtBus
                  /\ SubscriptionsKept

-----------------------------------------------------------------------------
(* Types *)

LEMMA Queues ==
    ASSUME NEW S, NEW q \in Seq(S)
    PROVE  /\ \A x \in S : /\ Append(q, x) \in Seq(S)
                           /\ Len(Append(q, x)) = Len(q) + 1
                           /\ Append(q, x)[Len(q) + 1] = x
                           /\ \A i \in 1..Len(q) : Append(q, x)[i] = q[i]
           /\ \A i \in 1..Len(q) : q[i] \in S
           /\ Len(q) \in Nat
           /\ q # <<>> => /\ Head(q) = q[1] /\ Head(q) \in S
                          /\ 1 \in 1..Len(q)
                          /\ Tail(q) \in Seq(S)
                          /\ Len(Tail(q)) = Len(q) - 1
                          /\ \A i \in 1..Len(Tail(q)) : Tail(q)[i] = q[i + 1]
OBVIOUS

LEMMA EmptyQueue == \A S : <<>> \in Seq(S)
OBVIOUS

LEMMA CoreFields ==
    ASSUME Types
    PROVE  /\ core.ack \subseteq Calls /\ core.rsp \subseteq Calls
           /\ core.pub \subseteq Calls /\ core.req \subseteq Calls
           /\ core.subs \subseteq Calls \X Topics
           /\ core.owner \in [Topics -> Calls \cup {NoOwner}]
BY DEF Types, CoreRecords

LEMMA CallFields ==
    ASSUME Types, NEW c \in Calls
    PROVE  /\ calls[c] \in CallRecords
           /\ calls[c].kind \in Kinds \cup {"none"} /\ calls[c].stage \in Stages
           /\ calls[c].topic \in Topics \cup {AnyTopic} /\ calls[c].req_id \in Nat
           /\ calls[c].ack \in Errors \cup {"empty"} /\ calls[c].rsp \in {"empty", "Ok", "Timeout"}
           /\ calls[c].held \in BOOLEAN /\ calls[c].open \in BOOLEAN
           /\ calls[c].feed \in Seq(Nat) /\ calls[c].got \subseteq Nat
           /\ calls[c].before \subseteq Calls
BY DEF Types, CallRecords

LEMMA TaskTypes ==
    /\ \A k \in Kinds, c \in Calls, t \in Topics, r \in Nat :
          TaskOf(TaskType(k), c, t, r) \in Tasks
    /\ \A t \in Topics : /\ TaskOf("Unsub", NoCall, t, 0) \in Tasks
                         /\ TaskOf("Unsrv", NoCall, t, 0) \in Tasks
    /\ TaskOf("Stop", NoCall, AnyTopic, 0) \in Tasks
    /\ TaskOf("KeepAlive", NoCall, AnyTopic, 0) \in Tasks
BY DEF TaskOf, Tasks

LEMMA TaskFields ==
    ASSUME NEW x \in Tasks
    PROVE  /\ x.id \in Calls \cup {NoCall}
           /\ x.type \in {"Pub", "Rsp", "StopBus", "Req", "Sub", "Srv"} =>
                 x.id \in Calls /\ x.topic \in Topics
           /\ x.type \in {"Unsub", "Unsrv"} => x.id = NoCall /\ x.topic \in Topics
           /\ x.type \in {"Stop", "KeepAlive"} => x.id = NoCall
           /\ x.type \in {"Pub", "Rsp", "StopBus", "Req", "Sub", "Srv", "Unsub", "Unsrv",
                          "Stop", "KeepAlive"}
           /\ x.req_id \in Nat
<1>1. {TaskType(k) : k \in Kinds} = {"Pub", "Rsp", "StopBus", "Req", "Sub", "Srv"}
  BY DEF TaskType, Kinds, Subscribing
<1>. QED  BY <1>1 DEF Tasks

LEMMA NoCallIsNone == NoCall \notin Calls /\ Calls \subseteq Nat /\ NoCall \in Nat
BY DEF NoCall, Calls

LEMMA MessageFields ==
    ASSUME NEW m \in Messages
    PROVE  /\ m.type \in {"Ack", "Rsp", "Pub", "Req"}
           /\ m.type = "Ack" => m.id \in Calls \cup {NoCall} /\ m.error \in Errors
           /\ m.type = "Rsp" => m.id \in Calls /\ m.status \in {"Ok", "Timeout"}
           /\ m.type = "Pub" => m.topic \in Topics
           /\ m.type = "Req" => m.id \in Nat /\ m.topic \in Topics
BY DEF Messages

LEMMA MessageTypes ==
    /\ \A c \in Calls \cup {NoCall}, e \in Errors : Ack(c, e) \in Messages
    /\ \A c \in Calls, st \in {"Ok", "Timeout"} : Rsp(c, st) \in Messages
    /\ \A t \in Topics : Pub(t) \in Messages
    /\ \A id \in Nat, t \in Topics : Req(id, t) \in Messages
BY DEF Messages, Ack, Rsp, Pub, Req

LEMMA NoBusType == NoBus \in BusRecords
BY DEF NoBus, BusRecords, NoOwner

LEMMA CallType ==
    ASSUME NEW kind \in Kinds \cup {"none"}, NEW topic \in Topics \cup {AnyTopic},
           NEW r \in Nat, NEW before \in SUBSET Calls
    PROVE  Call(kind, topic, r, before) \in CallRecords
<1>. DEFINE h == kind \in Subscribing \cup {"Srv"}
<1>1. h \in BOOLEAN
  OBVIOUS
<1>2. Call(kind, topic, r, before) =
        [kind |-> kind, topic |-> topic, req_id |-> r,
         stage |-> "acking", ack |-> "empty", rsp |-> "empty",
         held |-> h, open |-> h, feed |-> <<>>, got |-> {}, before |-> before]
  BY Zenon DEF Call
<1>. HIDE DEF h
<1>. QED  BY <1>1, <1>2 DEF CallRecords, Stages

LEMMA TypesInit == Init => Types
<1>. SUFFICES ASSUME Init PROVE Types
  OBVIOUS
<1>1. core \in CoreRecords
  BY DEF Init, CoreRecords
<1>2. NotCalled \in CallRecords
  <2>. DEFINE x == Call("none", AnyTopic, 0, {})
  <2>1. x \in CallRecords
    BY CallType
  <2>2. NotCalled = [x EXCEPT !.stage = "none"]
    BY DEF NotCalled, AnyTopic
  <2>. HIDE DEF x
  <2>. QED  BY <2>1, <2>2 DEF CallRecords, Stages
<1>3. CallStage(NotCalled)
  BY DEF NotCalled, Call, CallStage
<1>. QED  BY <1>1, <1>2, <1>3, NoBusType DEF Init, Types

-----------------------------------------------------------------------------
(* What every step but an Invoke leaves of the calls *)

CallMoves(r, s) ==
    /\ s.kind = r.kind /\ s.topic = r.topic /\ s.before = r.before
    /\ s.stage = "none" <=> r.stage = "none"
    /\ r.stage = "Ok" => s.stage = "Ok"
    /\ s.stage = "acking" => r.stage = "acking" /\ s.held = r.held
    /\ s.stage = "awaiting" => r.stage = "awaiting" \/ r.kind = "Req"
    /\ s.held => r.held
    /\ s.open => r.open

CallsMove == \A d \in Calls : CallMoves(calls[d], calls'[d])

LEMMA CallsStay == UNCHANGED calls => CallsMove
BY DEF CallsMove, CallMoves

LEMMA OneCall ==
    ASSUME Types, NEW c \in Calls, NEW r \in CallRecords, CallMoves(calls[c], r),
           calls' = [calls EXCEPT ![c] = r]
    PROVE  /\ calls' \in [Calls -> CallRecords] /\ CallsMove
           /\ calls'[c] = r
           /\ \A d \in Calls : d # c => calls'[d] = calls[d]
<1>1. calls \in [Calls -> CallRecords]
  BY DEF Types
<1>. QED  BY <1>1 DEF CallsMove, CallMoves

LEMMA CallStagesMove ==
    ASSUME Types, CallsMove
    PROVE  \A c \in Calls : CallStage(calls'[c])
<1>. SUFFICES ASSUME NEW c \in Calls PROVE CallStage(calls'[c])
  OBVIOUS
<1>. DEFINE r == calls[c]
            s == calls'[c]
<1>1. CallStage(r) /\ CallMoves(r, s)
  BY DEF Types, CallsMove
<1>. HIDE DEF r, s
<1>2. CallStage(s)
  BY <1>1 DEF CallStage, CallMoves
<1>. QED  BY <1>2 DEF s

LEMMA CallUpdates ==
    ASSUME NEW r \in CallRecords
    PROVE  /\ \A st \in Stages : [r EXCEPT !.stage = st] \in CallRecords
           /\ \A a \in Errors : [r EXCEPT !.ack = a] \in CallRecords
           /\ \A a \in {"Ok", "Timeout"} : [r EXCEPT !.rsp = a] \in CallRecords
           /\ \A q \in Seq(Nat) : [r EXCEPT !.feed = q] \in CallRecords
           /\ \A g \in SUBSET Nat : [r EXCEPT !.got = g] \in CallRecords
           /\ \A b \in BOOLEAN : [r EXCEPT !.held = b] \in CallRecords
           /\ \A b \in BOOLEAN : [r EXCEPT !.open = b] \in CallRecords
<1>1. \A st \in Stages : [r EXCEPT !.stage = st] \in CallRecords
  BY DEF CallRecords
<1>2. \A a \in Errors : [r EXCEPT !.ack = a] \in CallRecords
  BY DEF CallRecords
<1>3. \A a \in {"Ok", "Timeout"} : [r EXCEPT !.rsp = a] \in CallRecords
  BY DEF CallRecords
<1>4. \A q \in Seq(Nat) : [r EXCEPT !.feed = q] \in CallRecords
  BY DEF CallRecords
<1>5. \A g \in SUBSET Nat : [r EXCEPT !.got = g] \in CallRecords
  BY DEF CallRecords
<1>6. \A b \in BOOLEAN : [r EXCEPT !.held = b] \in CallRecords
  BY DEF CallRecords
<1>7. \A b \in BOOLEAN : [r EXCEPT !.open = b] \in CallRecords
  BY DEF CallRecords
<1>. QED  BY <1>1, <1>2, <1>3, <1>4, <1>5, <1>6, <1>7

(* What the callers and the forwarders do: at most one call's Unsrv or Unsub is
   queued, as its user's end goes. *)
ServesHeld == \A d \in Calls : calls[d].kind = "Srv" => calls'[d].held = calls[d].held

UnsrvOf(c) ==
    /\ Running
    /\ calls[c].kind = "Srv" /\ calls[c].held /\ ~calls'[c].held
    /\ calls[c].topic \in Topics
    /\ tasks' = Append(tasks, TaskOf("Unsrv", NoCall, calls[c].topic, 0))
    /\ \A d \in Calls : d # c => calls'[d].held = calls[d].held

UnsubOf(c) ==
    /\ Running
    /\ calls[c].kind \in Subscribing /\ calls[c].stage = "Ok"
    /\ calls[c].held /\ ~calls'[c].held
    /\ calls[c].topic \in Topics
    /\ tasks' = Append(tasks, TaskOf("Unsub", NoCall, calls[c].topic, 0))
    /\ ServesHeld

UserMoves ==
    /\ calls' \in [Calls -> CallRecords]
    /\ CallsMove
    /\ \A d \in Calls :
          /\ calls'[d].ack = calls[d].ack
          /\ calls'[d].stage = "Ok" => \/ calls[d].stage = "Ok" \/ calls[d].ack = NoError
                                      \/ calls[d].kind = "Req"
    /\ UNCHANGED <<core, status, up, down, conn, bus>>
    /\ \/ UNCHANGED tasks /\ (Running => ServesHeld)
       \/ \E c \in Calls : UnsrvOf(c)
       \/ \E c \in Calls : UnsubOf(c)

LEMMA FailResult ==
    ASSUME Types, NEW c \in Calls, NEW how \in Stages \ {"none", "acking", "awaiting", "Ok"},
           Fail(c, how), calls[c].stage \in {"acking", "awaiting"},
           UNCHANGED <<core, status, up, down, conn, bus>>
    PROVE  UserMoves
<1>. DEFINE b == calls[c].open /\ Forwarded(c)
            r1 == [calls[c] EXCEPT !.stage = how]
            r2 == [r1 EXCEPT !.held = FALSE]
            r == [r2 EXCEPT !.open = b]
<1>1. calls \in [Calls -> CallRecords] /\ calls[c] \in CallRecords
  BY DEF Types
<1>2. b \in BOOLEAN /\ (b => calls[c].open)
  OBVIOUS
<1>3. calls' = [calls EXCEPT ![c] = r]
  BY <1>1 DEF Fail
<1>. HIDE DEF b
<1>4. r1 \in CallRecords
  BY <1>1, CallUpdates
<1>5. r2 \in CallRecords
  <2>. HIDE DEF r1
  <2>. QED  BY <1>4, CallUpdates
<1>6. r \in CallRecords
  <2>. HIDE DEF r2
  <2>. QED  BY <1>2, <1>5, CallUpdates
<1>7. /\ r.kind = calls[c].kind /\ r.topic = calls[c].topic /\ r.before = calls[c].before
      /\ r.stage = how /\ r.held = FALSE /\ r.open = b /\ r.ack = calls[c].ack
  BY <1>1 DEF CallRecords
<1>. HIDE DEF r
<1>8. CallMoves(calls[c], r)
  BY <1>2, <1>7 DEF CallMoves
<1>9. /\ calls' \in [Calls -> CallRecords] /\ CallsMove
      /\ calls'[c] = r /\ \A d \in Calls : d # c => calls'[d] = calls[d]
  BY <1>1, <1>3, <1>6, <1>8, OneCall
<1>10. /\ calls[c].kind \in Kinds /\ calls[c].topic \in Topics
       /\ calls[c].kind = "Srv" => calls[c].held
  BY DEF Types, CallStage
<1>11. \A d \in Calls :
          /\ calls'[d].ack = calls[d].ack
          /\ calls'[d].stage = "Ok" => calls[d].stage = "Ok"
  BY <1>7, <1>9
<1>12. CASE calls[c].kind = "Srv" /\ Running
  <2>1. UnsrvOf(c)
    BY <1>7, <1>9, <1>10, <1>12 DEF UnsrvOf, Fail, Enqueue
  <2>. QED  BY <1>9, <1>11, <2>1 DEF UserMoves
<1>13. CASE ~(calls[c].kind = "Srv" /\ Running)
  <2>1. tasks' = tasks
    BY <1>13 DEF Fail, Enqueue
  <2>2. Running => ServesHeld
    BY <1>9, <1>13 DEF ServesHeld
  <2>. QED  BY <1>9, <1>11, <2>1, <2>2 DEF UserMoves
<1>. QED  BY <1>12, <1>13

LEMMA TakeAckResult == ASSUME Types, NEW c \in Calls, TakeAck(c) PROVE UserMoves
<1>. DEFINE st == IF calls[c].kind = "Req" THEN "awaiting" ELSE "Ok"
            r == [calls[c] EXCEPT !.stage = st]
<1>1. calls \in [Calls -> CallRecords] /\ calls[c] \in CallRecords
  BY DEF Types
<1>2. CASE calls[c].ack = NoError
  <2>1. calls' = [calls EXCEPT ![c] = r] /\ UNCHANGED <<core, status, tasks, up, down, conn, bus>>
    BY <1>1, <1>2 DEF TakeAck
  <2>2. st \in Stages \ {"none"} /\ (st = "awaiting" => calls[c].kind = "Req") /\ st # "acking"
    BY DEF Stages
  <2>. HIDE DEF st
  <2>3. r \in CallRecords
    BY <1>1, <2>2, CallUpdates
  <2>4. /\ r.kind = calls[c].kind /\ r.topic = calls[c].topic /\ r.before = calls[c].before
        /\ r.stage = st /\ r.held = calls[c].held /\ r.open = calls[c].open
        /\ r.ack = calls[c].ack
    BY <1>1 DEF CallRecords
  <2>. HIDE DEF r
  <2>5. CallMoves(calls[c], r)
    BY <2>2, <2>4 DEF CallMoves, TakeAck
  <2>6. /\ calls' \in [Calls -> CallRecords] /\ CallsMove
        /\ calls'[c] = r /\ \A d \in Calls : d # c => calls'[d] = calls[d]
    BY <2>1, <2>3, <2>5, OneCall
  <2>7. ServesHeld
    BY <2>4, <2>6 DEF ServesHeld
  <2>. QED  BY <1>2, <2>1, <2>4, <2>6, <2>7 DEF UserMoves
<1>3. CASE calls[c].ack # NoError
  BY <1>3, FailResult DEF TakeAck, Stages
<1>. QED  BY <1>2, <1>3

(* A step that changes one call only, and nothing of what serve keeps *)
LEMMA OneCallOnly ==
    ASSUME Types, NEW c \in Calls, NEW r \in CallRecords,
           CallMoves(calls[c], r), r.ack = calls[c].ack,
           r.stage = "Ok" => calls[c].stage = "Ok" \/ calls[c].kind = "Req",
           calls[c].kind = "Srv" => r.held = calls[c].held,
           calls' = [calls EXCEPT ![c] = r],
           UNCHANGED <<core, status, tasks, up, down, conn, bus>>
    PROVE  UserMoves
<1>1. /\ calls' \in [Calls -> CallRecords] /\ CallsMove
      /\ calls'[c] = r /\ \A d \in Calls : d # c => calls'[d] = calls[d]
  BY OneCall
<1>2. ServesHeld
  BY <1>1 DEF ServesHeld
<1>. QED  BY <1>1, <1>2 DEF UserMoves

LEMMA ResponseTaken ==
    ASSUME Types, NEW c \in Calls, TakeRsp(c) \/ RspClosed(c)
    PROVE  UserMoves
<1>1. calls \in [Calls -> CallRecords] /\ calls[c] \in CallRecords
      /\ calls[c].stage = "awaiting" /\ calls[c].kind = "Req"
  BY DEF Types, TakeRsp, RspClosed, CallStage
<1>2. PICK st \in {"Ok", "IOError", "RequestFailedTimeout", "InternalError"} :
         calls' = [calls EXCEPT ![c].stage = st]
  BY DEF TakeRsp, RspClosed, Returned
<1>. DEFINE r == [calls[c] EXCEPT !.stage = st]
<1>3. r \in CallRecords
  BY <1>1, <1>2, CallUpdates DEF Stages
<1>4. /\ r.kind = calls[c].kind /\ r.topic = calls[c].topic /\ r.before = calls[c].before
      /\ r.stage = st /\ r.held = calls[c].held /\ r.open = calls[c].open
      /\ r.ack = calls[c].ack
  BY <1>1 DEF CallRecords
<1>5. calls' = [calls EXCEPT ![c] = r]
  BY <1>1, <1>2
<1>. HIDE DEF r
<1>6. CallMoves(calls[c], r)
  BY <1>1, <1>2, <1>4 DEF CallMoves
<1>7. UNCHANGED <<core, status, tasks, up, down, conn, bus>>
  BY DEF TakeRsp, RspClosed
<1>. QED  BY <1>1, <1>3, <1>4, <1>5, <1>6, <1>7, OneCallOnly

LEMMA ForwardedResult ==
    ASSUME Types, NEW c \in Calls, Forward(c) \/ ForwarderPanics(c)
    PROVE  UserMoves
<1>1. calls \in [Calls -> CallRecords] /\ calls[c] \in CallRecords
      /\ calls[c].feed \in Seq(Nat) /\ calls[c].got \subseteq Nat
  BY CallFields DEF Types
<1>2. UNCHANGED <<core, status, tasks, up, down, conn, bus>>
  BY DEF Forward, ForwarderPanics
<1>3. CASE Forward(c) /\ calls[c].held
  <2>. DEFINE q == Tail(calls[c].feed)
              g == calls[c].got \cup ({Head(calls[c].feed)} \ {0})
              r1 == [calls[c] EXCEPT !.feed = q]
              r == [r1 EXCEPT !.got = g]
  <2>1. q \in Seq(Nat) /\ g \in SUBSET Nat
    BY <1>1, <1>3, Queues DEF Forward
  <2>2. calls' = [calls EXCEPT ![c] = r]
    BY <1>1, <1>3 DEF Forward
  <2>. HIDE DEF q, g
  <2>3. r1 \in CallRecords
    BY <1>1, <2>1, CallUpdates
  <2>4. r \in CallRecords
    <3>. HIDE DEF r1
    <3>. QED  BY <2>1, <2>3, CallUpdates
  <2>5. /\ r.kind = calls[c].kind /\ r.topic = calls[c].topic /\ r.before = calls[c].before
        /\ r.stage = calls[c].stage /\ r.held = calls[c].held /\ r.open = calls[c].open
        /\ r.ack = calls[c].ack
    BY <1>1 DEF CallRecords
  <2>. HIDE DEF r
  <2>6. CallMoves(calls[c], r)
    BY <2>5 DEF CallMoves
  <2>. QED  BY <1>2, <2>2, <2>4, <2>5, <2>6, OneCallOnly
<1>4. CASE ~(Forward(c) /\ calls[c].held)
  <2>. DEFINE r1 == [calls[c] EXCEPT !.feed = <<>>]
              r == [r1 EXCEPT !.open = FALSE]
  <2>1. calls' = [calls EXCEPT ![c] = r]
    BY <1>1, <1>4 DEF Forward, ForwarderPanics, ForwarderEnds
  <2>2. r1 \in CallRecords
    BY <1>1, CallUpdates, EmptyQueue
  <2>3. r \in CallRecords
    <3>. HIDE DEF r1
    <3>. QED  BY <2>2, CallUpdates
  <2>4. /\ r.kind = calls[c].kind /\ r.topic = calls[c].topic /\ r.before = calls[c].before
        /\ r.stage = calls[c].stage /\ r.held = calls[c].held /\ r.open = FALSE
        /\ r.ack = calls[c].ack
    BY <1>1 DEF CallRecords
  <2>. HIDE DEF r
  <2>5. CallMoves(calls[c], r)
    BY <2>4 DEF CallMoves
  <2>. QED  BY <1>2, <2>1, <2>3, <2>4, <2>5, OneCallOnly
<1>. QED  BY <1>3, <1>4

LEMMA Released == ASSUME Types, NEW c \in Calls, Release(c) PROVE UserMoves
<1>. DEFINE b == calls[c].open /\ calls[c].kind # "SubBytes"
            r1 == [calls[c] EXCEPT !.held = FALSE]
            r == [r1 EXCEPT !.open = b]
<1>1. calls \in [Calls -> CallRecords] /\ calls[c] \in CallRecords /\ CallStage(calls[c])
  BY DEF Types
<1>2. b \in BOOLEAN /\ (b => calls[c].open)
  OBVIOUS
<1>3. calls' = [calls EXCEPT ![c] = r] /\ UNCHANGED <<core, status, up, down, conn, bus>>
  BY <1>1 DEF Release, DropSubscription
<1>. HIDE DEF b
<1>4. r1 \in CallRecords
  BY <1>1, CallUpdates
<1>5. r \in CallRecords
  <2>. HIDE DEF r1
  <2>. QED  BY <1>2, <1>4, CallUpdates
<1>6. /\ r.kind = calls[c].kind /\ r.topic = calls[c].topic /\ r.before = calls[c].before
      /\ r.stage = calls[c].stage /\ r.held = FALSE /\ r.open = b /\ r.ack = calls[c].ack
  BY <1>1 DEF CallRecords
<1>. HIDE DEF r
<1>7. CallMoves(calls[c], r)
  BY <1>2, <1>6 DEF CallMoves, Release
<1>8. /\ calls' \in [Calls -> CallRecords] /\ CallsMove
      /\ calls'[c] = r /\ \A d \in Calls : d # c => calls'[d] = calls[d]
  BY <1>3, <1>5, <1>7, OneCall
<1>9. calls[c].topic \in Topics
  BY <1>1 DEF CallStage, Release
<1>10. CASE calls[c].kind = "Srv"
  <2>1. UnsrvOf(c)
    BY <1>6, <1>8, <1>9, <1>10 DEF UnsrvOf, Release, DropSubscription, Enqueue
  <2>. QED  BY <1>3, <1>6, <1>8, <2>1 DEF UserMoves
<1>11. CASE calls[c].kind # "Srv"
  <2>1. calls[c].kind \in Subscribing
    BY <1>1, <1>11 DEF CallStage, Release, Subscribing
  <2>2. UnsubOf(c)
    BY <1>6, <1>8, <1>9, <1>11, <2>1 DEF UnsubOf, Release, DropSubscription, Enqueue, ServesHeld
  <2>. QED  BY <1>3, <1>6, <1>8, <2>2 DEF UserMoves
<1>. QED  BY <1>10, <1>11

LEMMA CallerMoves ==
    ASSUME Types, NEW c \in Calls, CallStep(c), ~Invoke(c)
    PROVE  UserMoves
<1>1. CASE AckClosed(c)
  BY <1>1, FailResult DEF AckClosed, Stages
<1>2. CASE GiveUp(c)
  BY <1>2, FailResult DEF GiveUp, Stages, InProgress
<1>. QED
  BY <1>1, <1>2, TakeAckResult, ResponseTaken, Released, ForwardedResult DEF CallStep

LEMMA TypesUser == ASSUME Types, UserMoves PROVE Types'
<1>1. tasks' \in Seq(Tasks)
  <2>1. CASE UNCHANGED tasks
    BY <2>1 DEF Types
  <2>2. ASSUME NEW c \in Calls, UnsrvOf(c) \/ UnsubOf(c) PROVE tasks' \in Seq(Tasks)
    <3>1. PICK x \in Tasks : tasks' = Append(tasks, x)
      BY <2>2, TaskTypes DEF UnsrvOf, UnsubOf
    <3>. QED  BY <3>1, Queues DEF Types
  <2>. QED  BY <2>1, <2>2 DEF UserMoves
<1>2. \A c \in Calls : CallStage(calls'[c])
  BY CallStagesMove DEF UserMoves
<1>. QED  BY <1>1, <1>2 DEF Types, UserMoves

InvokedAs(c, k, t, r, before) ==
    /\ calls[c].stage = "none"
    /\ calls' = [calls EXCEPT ![c] = Call(k, t, r, before)]
    /\ tasks' = Append(tasks, TaskOf(TaskType(k), c, t, r))
    /\ before = {d \in Calls : Dropped(d) /\ calls[d].topic = t}
    /\ UNCHANGED <<core, status, up, down, conn, bus>>

LEMMA Invoked ==
    ASSUME Types, NEW c \in Calls, Invoke(c)
    PROVE  \E k \in Kinds, t \in Topics, r \in Nat, before \in SUBSET Calls :
              InvokedAs(c, k, t, r, before)
<1>1. PICK i \in Inputs, r \in GotRequests \cup {0} :
         /\ calls' = [calls EXCEPT ![c] =
                         Call(i.kind, i.topic, r,
                              {d \in Calls : Dropped(d) /\ calls[d].topic = i.topic})]
         /\ Enqueue(TaskOf(TaskType(i.kind), c, i.topic, r))
  BY DEF Invoke
<1>2. i.kind \in Kinds /\ i.topic \in Topics
  BY ClientAssumption DEF Kinds
<1>3. r \in Nat
  BY CallFields DEF GotRequests
<1>. DEFINE before == {d \in Calls : Dropped(d) /\ calls[d].topic = i.topic}
<1>4. before \in SUBSET Calls
  OBVIOUS
<1>5. InvokedAs(c, i.kind, i.topic, r, before)
  BY <1>1 DEF Invoke, InvokedAs, Enqueue
<1>. HIDE DEF before
<1>. QED  BY <1>2, <1>3, <1>4, <1>5

LEMMA CallFieldsOf ==
    ASSUME NEW k, NEW t, NEW r, NEW before
    PROVE  LET x == Call(k, t, r, before)
           IN  /\ x.kind = k /\ x.topic = t /\ x.before = before /\ x.req_id = r
               /\ x.stage = "acking" /\ x.ack = "empty"
               /\ x.held <=> k \in Subscribing \cup {"Srv"}
               /\ x.open <=> k \in Subscribing \cup {"Srv"}
BY DEF Call

LEMMA TypesInvoked ==
    ASSUME Types, NEW c \in Calls, NEW k \in Kinds, NEW t \in Topics, NEW r \in Nat,
           NEW before \in SUBSET Calls, InvokedAs(c, k, t, r, before)
    PROVE  Types'
<1>. DEFINE x == Call(k, t, r, before)
<1>1. x \in CallRecords
  BY CallType
<1>2. CallStage(x)
  BY CallFieldsOf DEF CallStage
<1>3. calls' = [calls EXCEPT ![c] = x]
  BY DEF InvokedAs
<1>. HIDE DEF x
<1>4. tasks' \in Seq(Tasks)
  BY TaskTypes, Queues DEF Types, InvokedAs
<1>. QED  BY <1>1, <1>2, <1>3, <1>4 DEF Types, InvokedAs

LEMMA TypesEnd ==
    ASSUME Types, NEW how \in {"stopped", "ChannelClosed", "CallbackClosed", "ClaimRejected",
                               "panicked"}, End(how)
    PROVE  Types' /\ ~Running'
BY NoBusType, EmptyQueue DEF Types, End, Running

LEMMA TypesSend ==
    ASSUME Types, tasks # <<>>, NEW changed \in CoreRecords, SendIt(changed)
    PROVE  Types'
<1>1. tasks' \in Seq(Tasks) /\ up' \in Seq(Tasks)
  BY Queues DEF Types, SendIt
<1>. QED  BY <1>1 DEF Types, SendIt

LEMMA CoreUpdates ==
    ASSUME NEW r \in CoreRecords
    PROVE  /\ \A s \in SUBSET Calls : /\ [r EXCEPT !.ack = s] \in CoreRecords
                                      /\ [r EXCEPT !.rsp = s] \in CoreRecords
                                      /\ [r EXCEPT !.pub = s] \in CoreRecords
                                      /\ [r EXCEPT !.req = s] \in CoreRecords
           /\ \A s \in SUBSET (Calls \X Topics) : [r EXCEPT !.subs = s] \in CoreRecords
           /\ \A o \in [Topics -> Calls \cup {NoOwner}] : [r EXCEPT !.owner = o] \in CoreRecords
<1>1. \A s \in SUBSET Calls : [r EXCEPT !.ack = s] \in CoreRecords
  BY DEF CoreRecords
<1>2. \A s \in SUBSET Calls : [r EXCEPT !.rsp = s] \in CoreRecords
  BY DEF CoreRecords
<1>3. \A s \in SUBSET Calls : [r EXCEPT !.pub = s] \in CoreRecords
  BY DEF CoreRecords
<1>4. \A s \in SUBSET Calls : [r EXCEPT !.req = s] \in CoreRecords
  BY DEF CoreRecords
<1>5. \A s \in SUBSET (Calls \X Topics) : [r EXCEPT !.subs = s] \in CoreRecords
  BY DEF CoreRecords
<1>6. \A o \in [Topics -> Calls \cup {NoOwner}] : [r EXCEPT !.owner = o] \in CoreRecords
  BY DEF CoreRecords
<1>. QED  BY <1>1, <1>2, <1>3, <1>4, <1>5, <1>6

(* What the core sends, and what that leaves in it *)
SentAs(x) ==
    /\ Running /\ Running'
    /\ tasks # <<>> /\ x \in Tasks /\ x = tasks[1]
    /\ x.type \notin {"Stop", "KeepAlive"}
    /\ tasks' = Tail(tasks)
    /\ up' = IF Open THEN Append(up, x) ELSE up
    /\ UNCHANGED <<status, calls, down, conn, bus>>
    /\ core'.rsp = core.rsp \cup IF x.type = "Req" THEN {x.id} ELSE {}
    /\ core'.pub = core.pub \cup IF x.type = "Sub" THEN {x.id} ELSE {}
    /\ core'.req = core.req \cup IF x.type = "Srv" THEN {x.id} ELSE {}
    /\ core'.subs = core.subs \cup IF x.type = "Sub" THEN {<<x.id, x.topic>>} ELSE {}
    /\ x.type \in {"Srv", "Unsrv"} => x.topic \in Concrete
    /\ x.type = "Srv" => /\ core.owner[x.topic] \in {NoOwner, x.id}
                         /\ core'.owner = [core.owner EXCEPT ![x.topic] = x.id]
    /\ x.type = "Unsrv" => /\ core.owner[x.topic] # NoOwner
                           /\ core'.owner = [core.owner EXCEPT ![x.topic] = NoOwner]
    /\ x.type \notin {"Srv", "Unsrv"} => core'.owner = core.owner

Sends(x, r) ==
    /\ Running
    /\ tasks # <<>> /\ x \in Tasks /\ x = tasks[1]
    /\ r \in CoreRecords
    /\ SendIt(r)

LEMMA SentTypes ==
    ASSUME Types, NEW x, NEW r, Sends(x, r)
    PROVE  /\ Types' /\ Running' /\ core' = r
           /\ tasks' = Tail(tasks)
           /\ up' = IF Open THEN Append(up, x) ELSE up
           /\ UNCHANGED <<status, calls, down, conn, bus>>
<1>1. x = Head(tasks)
  BY Queues DEF Sends, Types
<1>. QED  BY <1>1, TypesSend DEF Sends, SendIt, Running

LEMMA FirstTask ==
    ASSUME Types, NEW types, NextTask(types)
    PROVE  Running /\ tasks # <<>> /\ Task \in Tasks /\ Task = tasks[1] /\ Task.type \in types
BY Queues DEF Types, NextTask, Task

LEMMA SentPlain ==
    ASSUME Types, SendPlain
    PROVE  Types' /\ SentAs(Task)
<1>. DEFINE x == Task
            s == core.ack \cup {x.id}
            r == [core EXCEPT !.ack = s]
<1>1. /\ Running /\ tasks # <<>> /\ x \in Tasks /\ x = tasks[1]
      /\ x.type \in {"Pub", "Rsp", "StopBus"}
  BY FirstTask DEF SendPlain
<1>2. SendIt(r)
  BY DEF SendPlain
<1>. HIDE DEF x
<1>3. s \in SUBSET Calls
  BY <1>1, CoreFields, TaskFields
<1>. HIDE DEF s
<1>4. r \in CoreRecords
  BY <1>3, CoreUpdates DEF Types
<1>5. /\ r.rsp = core.rsp /\ r.pub = core.pub /\ r.req = core.req
      /\ r.subs = core.subs /\ r.owner = core.owner
  BY DEF Types, CoreRecords
<1>. HIDE DEF r
<1>6. Sends(x, r)
  BY <1>1, <1>2, <1>4 DEF Sends
<1>7. Types' /\ SentAs(x)
  BY <1>1, <1>5, <1>6, SentTypes DEF SentAs
<1>. QED  BY <1>7 DEF x

LEMMA SentReq ==
    ASSUME Types, SendReq
    PROVE  Types' /\ SentAs(Task)
<1>. DEFINE x == Task
            s == core.ack \cup {x.id}
            s1 == core.rsp \cup {x.id}
            r1 == [core EXCEPT !.ack = s]
            r == [r1 EXCEPT !.rsp = s1]
<1>1. /\ Running /\ tasks # <<>> /\ x \in Tasks /\ x = tasks[1] /\ x.type = "Req"
  BY FirstTask DEF SendReq
<1>2. SendIt(r)
  BY DEF SendReq, Types, CoreRecords
<1>. HIDE DEF x
<1>3. s \in SUBSET Calls /\ s1 \in SUBSET Calls
  BY <1>1, CoreFields, TaskFields
<1>. HIDE DEF s
<1>4. r1 \in CoreRecords
  BY <1>3, CoreUpdates DEF Types
<1>5. r \in CoreRecords
  <2>. HIDE DEF s1, r1
  <2>. QED  BY <1>3, <1>4, CoreUpdates
<1>6. /\ r.rsp = core.rsp \cup {x.id} /\ r.pub = core.pub /\ r.req = core.req
      /\ r.subs = core.subs /\ r.owner = core.owner
  BY DEF Types, CoreRecords
<1>. HIDE DEF r
<1>7. Sends(x, r)
  BY <1>1, <1>2, <1>5 DEF Sends
<1>8. Types' /\ SentAs(x)
  BY <1>1, <1>6, <1>7, SentTypes DEF SentAs
<1>. QED  BY <1>8 DEF x

LEMMA SentSub ==
    ASSUME Types, SendSub
    PROVE  Types' /\ SentAs(Task)
<1>. DEFINE x == Task
            s == core.ack \cup {x.id}
            s1 == core.pub \cup {x.id}
            s2 == core.subs \cup {<<x.id, x.topic>>}
            r1 == [core EXCEPT !.ack = s]
            r2 == [r1 EXCEPT !.pub = s1]
            r == [r2 EXCEPT !.subs = s2]
<1>1. /\ Running /\ tasks # <<>> /\ x \in Tasks /\ x = tasks[1] /\ x.type = "Sub"
  BY FirstTask DEF SendSub
<1>2. SendIt(r)
  BY DEF SendSub, Types, CoreRecords, Subscribe
<1>. HIDE DEF x
<1>3. s \in SUBSET Calls /\ s1 \in SUBSET Calls /\ s2 \in SUBSET (Calls \X Topics)
  BY <1>1, CoreFields, TaskFields
<1>. HIDE DEF s
<1>4. r1 \in CoreRecords
  BY <1>3, CoreUpdates DEF Types
<1>5. r2 \in CoreRecords
  <2>. HIDE DEF s1, r1
  <2>. QED  BY <1>3, <1>4, CoreUpdates
<1>6. r \in CoreRecords
  <2>. HIDE DEF s2, r2
  <2>. QED  BY <1>3, <1>5, CoreUpdates
<1>7. /\ r.rsp = core.rsp /\ r.pub = core.pub \cup {x.id} /\ r.req = core.req
      /\ r.subs = core.subs \cup {<<x.id, x.topic>>} /\ r.owner = core.owner
  BY DEF Types, CoreRecords
<1>. HIDE DEF r
<1>8. Sends(x, r)
  BY <1>1, <1>2, <1>6 DEF Sends
<1>9. Types' /\ SentAs(x)
  BY <1>1, <1>7, <1>8, SentTypes DEF SentAs
<1>. QED  BY <1>9 DEF x

LEMMA SentUnsub ==
    ASSUME Types, SendUnsub
    PROVE  Types' /\ SentAs(Task)
<1>. DEFINE x == Task
<1>1. /\ Running /\ tasks # <<>> /\ x \in Tasks /\ x = tasks[1] /\ x.type = "Unsub"
  BY FirstTask DEF SendUnsub
<1>2. SendIt(core) /\ core \in CoreRecords
  BY DEF SendUnsub, Types
<1>. HIDE DEF x
<1>3. Sends(x, core)
  BY <1>1, <1>2 DEF Sends
<1>4. Types' /\ SentAs(x)
  BY <1>1, <1>3, SentTypes DEF SentAs
<1>. QED  BY <1>4 DEF x

LEMMA SentSrv ==
    ASSUME Types, SendSrv, ~ClaimFails
    PROVE  Types' /\ SentAs(Task)
<1>. DEFINE x == Task
            s == core.ack \cup {x.id}
            s1 == core.req \cup {x.id}
            o == [core.owner EXCEPT ![x.topic] = x.id]
            r1 == [core EXCEPT !.ack = s]
            r2 == [r1 EXCEPT !.req = s1]
            r == [r2 EXCEPT !.owner = o]
<1>1. /\ Running /\ tasks # <<>> /\ x \in Tasks /\ x = tasks[1] /\ x.type = "Srv"
  BY FirstTask DEF SendSrv
<1>2. x.topic \in Concrete /\ core.owner[x.topic] \in {NoOwner, x.id}
  BY DEF ClaimFails, ClaimError, NoError
<1>3. Claim(core.owner, x.id, x.topic) = o
  BY DEF ClaimFails, Claim
<1>4. SendIt(r)
  BY <1>3 DEF SendSrv, Types, CoreRecords
<1>. HIDE DEF x
<1>5. s \in SUBSET Calls /\ s1 \in SUBSET Calls /\ o \in [Topics -> Calls \cup {NoOwner}]
  BY <1>1, CoreFields, TaskFields
<1>. HIDE DEF s
<1>6. r1 \in CoreRecords
  BY <1>5, CoreUpdates DEF Types
<1>7. r2 \in CoreRecords
  <2>. HIDE DEF s1, r1
  <2>. QED  BY <1>5, <1>6, CoreUpdates
<1>8. r \in CoreRecords
  <2>. HIDE DEF o, r2
  <2>. QED  BY <1>5, <1>7, CoreUpdates
<1>9. /\ r.rsp = core.rsp /\ r.pub = core.pub /\ r.req = core.req \cup {x.id}
      /\ r.subs = core.subs /\ r.owner = o
  BY DEF Types, CoreRecords
<1>. HIDE DEF r
<1>10. Sends(x, r)
  BY <1>1, <1>4, <1>8 DEF Sends
<1>11. Types' /\ SentAs(x)
  BY <1>1, <1>2, <1>9, <1>10, SentTypes DEF SentAs
<1>. QED  BY <1>11 DEF x

(* an Unsrv of what is not served *)
UnservesNothing ==
    tasks # <<>> /\ Task.type = "Unsrv" /\ GetOwner(core.owner, Task.topic) = NoOwner

LEMMA SentUnsrv ==
    ASSUME Types, SendUnsrv, ~UnservesNothing
    PROVE  Types' /\ SentAs(Task)
<1>. DEFINE x == Task
            o == [core.owner EXCEPT ![x.topic] = NoOwner]
            r == [core EXCEPT !.owner = o]
<1>1. /\ Running /\ tasks # <<>> /\ x \in Tasks /\ x = tasks[1] /\ x.type = "Unsrv"
  BY FirstTask DEF SendUnsrv
<1>2. GetOwner(core.owner, x.topic) # NoOwner
  BY <1>1 DEF UnservesNothing
<1>3. x.topic \in Concrete /\ core.owner[x.topic] # NoOwner
  BY <1>2 DEF GetOwner
<1>4. SendIt(r)
  BY <1>2, <1>3 DEF SendUnsrv, Unclaim, GetOwner
<1>. HIDE DEF x
<1>5. o \in [Topics -> Calls \cup {NoOwner}]
  BY CoreFields
<1>. HIDE DEF o
<1>6. r \in CoreRecords
  BY <1>5, CoreUpdates DEF Types
<1>7. /\ r.rsp = core.rsp /\ r.pub = core.pub /\ r.req = core.req
      /\ r.subs = core.subs /\ r.owner = o
  BY DEF Types, CoreRecords
<1>. HIDE DEF r
<1>8. Sends(x, r)
  BY <1>1, <1>4, <1>6 DEF Sends
<1>9. Types' /\ SentAs(x)
  BY <1>1, <1>3, <1>7, <1>8, SentTypes DEF SentAs, o
<1>. QED  BY <1>9 DEF x

Ends == Types' /\ ~Running'

LEMMA CoreSends ==
    ASSUME Types, CoreSend
    PROVE  \/ Types' /\ SentAs(Task)
           \/ /\ Ends
              /\ status' = "panicked" => UnservesNothing
              /\ status' = "ClaimRejected" => NextTask({"Srv"}) /\ ClaimFails
<1>1. CASE SendSrv /\ ClaimFails
  BY <1>1, TypesEnd DEF SendSrv, Ends, End
<1>2. CASE SendUnsrv /\ UnservesNothing
  BY <1>2, TypesEnd DEF SendUnsrv, Ends, UnservesNothing, End
<1>3. CASE TakeStop
  BY <1>3, TypesEnd DEF TakeStop, Ends, End
<1>. QED
  BY <1>1, <1>2, <1>3, SentPlain, SentReq, SentSub, SentUnsub, SentSrv, SentUnsrv DEF CoreSend

-----------------------------------------------------------------------------
(* What the core receives *)

CallKept(r, s) ==
    /\ s.kind = r.kind /\ s.topic = r.topic /\ s.before = r.before
    /\ s.stage = r.stage /\ s.held = r.held /\ s.open = r.open

CallsKept == \A d \in Calls : CallKept(calls[d], calls'[d])

AcksKept == \A d \in Calls : calls'[d].ack = calls[d].ack

LEMMA KeptMoves == CallsKept => CallsMove
BY DEF CallsKept, CallKept, CallsMove, CallMoves

LEMMA NothingKept == UNCHANGED calls => CallsKept /\ AcksKept
BY DEF CallsKept, CallKept, AcksKept

LEMMA OneCallKept ==
    ASSUME Types, NEW c \in Calls, NEW r \in CallRecords, CallKept(calls[c], r),
           calls' = [calls EXCEPT ![c] = r]
    PROVE  /\ calls' \in [Calls -> CallRecords] /\ CallsKept
           /\ calls'[c] = r
           /\ \A d \in Calls : d # c => calls'[d] = calls[d]
<1>1. calls \in [Calls -> CallRecords]
  BY DEF Types
<1>. QED  BY <1>1 DEF CallsKept, CallKept

Receives(m, type) ==
    /\ Running /\ Running'
    /\ down # <<>> /\ m \in Messages /\ m = down[1] /\ m.type = type
    /\ down' = Tail(down)
    /\ CallsKept
    /\ UNCHANGED <<status, tasks, conn, bus>>
    /\ core'.req = core.req /\ core'.owner = core.owner

LEMMA FirstMessage ==
    ASSUME Types, NEW type, Received(type)
    PROVE  Running /\ down # <<>> /\ Message \in Messages /\ Message = down[1]
           /\ Message.type = type
BY Queues DEF Types, Received, Message

LEMMA TypesReceived ==
    ASSUME Types, Consumed, down # <<>>, core' \in CoreRecords,
           calls' \in [Calls -> CallRecords], CallsKept, up' \in Seq(Tasks)
    PROVE  Types'
<1>1. \A c \in Calls : CallStage(calls'[c])
  BY CallStagesMove, KeptMoves
<1>2. down' \in Seq(Messages)
  BY Queues DEF Types, Consumed
<1>. QED  BY <1>1, <1>2 DEF Types, Consumed

AckTaken(m) ==
    /\ Receives(m, "Ack")
    /\ UNCHANGED up
    /\ core'.rsp = core.rsp /\ core'.pub = core.pub /\ core'.subs = core.subs
    /\ \A d \in Calls : \/ calls'[d].ack = calls[d].ack
                        \/ d = m.id /\ calls[d].stage = "acking" /\ calls'[d].ack = m.error

LEMMA AckReceived == ASSUME Types, ReceiveAck PROVE Types' /\ AckTaken(Message)
<1>. DEFINE m == Message
            s == core.ack \ {m.id}
            e == m.error
            r == [core EXCEPT !.ack = s]
<1>1. Running /\ down # <<>> /\ m \in Messages /\ m = down[1] /\ m.type = "Ack"
  BY FirstMessage DEF ReceiveAck
<1>2. /\ core' = r
      /\ calls' = IF m.id \in core.ack /\ calls[m.id].stage = "acking"
                  THEN [calls EXCEPT ![m.id].ack = e] ELSE calls
      /\ Consumed /\ UNCHANGED up
  BY DEF ReceiveAck
<1>. HIDE DEF m
<1>3. s \in SUBSET Calls /\ e \in Errors /\ m.id \in Calls \cup {NoCall}
  BY <1>1, CoreFields, MessageFields
<1>. HIDE DEF s, e
<1>4. r \in CoreRecords
  BY <1>3, CoreUpdates DEF Types
<1>5. /\ r.rsp = core.rsp /\ r.pub = core.pub /\ r.req = core.req
      /\ r.subs = core.subs /\ r.owner = core.owner
  BY DEF Types, CoreRecords
<1>. HIDE DEF r
<1>6. /\ calls' \in [Calls -> CallRecords] /\ CallsKept
      /\ \A d \in Calls : \/ calls'[d].ack = calls[d].ack
                          \/ d = m.id /\ calls[d].stage = "acking" /\ calls'[d].ack = e
  <2>1. CASE m.id \in core.ack /\ calls[m.id].stage = "acking"
    <3>. DEFINE c == m.id
                x == [calls[c] EXCEPT !.ack = e]
    <3>1. c \in Calls /\ calls \in [Calls -> CallRecords] /\ calls[c] \in CallRecords
      BY <2>1, CoreFields DEF Types
    <3>2. calls' = [calls EXCEPT ![c] = x]
      BY <1>2, <2>1, <3>1
    <3>. HIDE DEF c
    <3>3. x \in CallRecords
      BY <1>3, <3>1, CallUpdates
    <3>4. CallKept(calls[c], x) /\ x.ack = e
      BY <3>1 DEF CallKept, CallRecords
    <3>. HIDE DEF x
    <3>5. /\ calls' \in [Calls -> CallRecords] /\ CallsKept
          /\ calls'[c] = x /\ \A d \in Calls : d # c => calls'[d] = calls[d]
      BY <3>1, <3>2, <3>3, <3>4, OneCallKept
    <3>. QED  BY <2>1, <3>4, <3>5 DEF c
  <2>2. CASE ~(m.id \in core.ack /\ calls[m.id].stage = "acking")
    BY <1>2, <2>2, NothingKept DEF Types, AcksKept
  <2>. QED  BY <2>1, <2>2
<1>7. Types'
  BY <1>1, <1>2, <1>4, <1>6, TypesReceived DEF Types
<1>8. AckTaken(m)
  BY <1>1, <1>2, <1>5, <1>6 DEF AckTaken, Receives, Consumed, Running, e
<1>. QED  BY <1>7, <1>8 DEF m

RspTaken(m) ==
    /\ Receives(m, "Rsp")
    /\ UNCHANGED up
    /\ AcksKept
    /\ m.id \in core.rsp
    /\ core'.rsp = core.rsp \ {m.id} /\ core'.pub = core.pub /\ core'.subs = core.subs

LEMMA RspReceived ==
    ASSUME Types, ReceiveRsp, Message.id \in core.rsp
    PROVE  Types' /\ RspTaken(Message)
<1>. DEFINE m == Message
            s == core.rsp \ {m.id}
            r == [core EXCEPT !.rsp = s]
<1>1. Running /\ down # <<>> /\ m \in Messages /\ m = down[1] /\ m.type = "Rsp"
  BY FirstMessage DEF ReceiveRsp
<1>2. /\ core' = r
      /\ calls' = IF calls[m.id].stage \in {"acking", "awaiting"}
                  THEN [calls EXCEPT ![m.id].rsp = m.status] ELSE calls
      /\ Consumed /\ UNCHANGED up
      /\ m.id \in core.rsp
  BY DEF ReceiveRsp
<1>. HIDE DEF m
<1>3. s \in SUBSET Calls /\ m.id \in Calls /\ m.status \in {"Ok", "Timeout"}
  BY <1>1, CoreFields, MessageFields
<1>. HIDE DEF s
<1>4. r \in CoreRecords
  BY <1>3, CoreUpdates DEF Types
<1>5. /\ r.rsp = s /\ r.pub = core.pub /\ r.req = core.req
      /\ r.subs = core.subs /\ r.owner = core.owner
  BY DEF Types, CoreRecords
<1>. HIDE DEF r
<1>6. calls' \in [Calls -> CallRecords] /\ CallsKept /\ AcksKept
  <2>1. CASE calls[m.id].stage \in {"acking", "awaiting"}
    <3>. DEFINE c == m.id
                st == m.status
                x == [calls[c] EXCEPT !.rsp = st]
    <3>1. c \in Calls /\ calls \in [Calls -> CallRecords] /\ calls[c] \in CallRecords
      BY <1>3 DEF Types
    <3>2. calls' = [calls EXCEPT ![c] = x]
      BY <1>2, <2>1, <3>1
    <3>. HIDE DEF c
    <3>3. x \in CallRecords
      BY <1>3, <3>1, CallUpdates
    <3>4. CallKept(calls[c], x) /\ x.ack = calls[c].ack
      BY <3>1 DEF CallKept, CallRecords
    <3>. HIDE DEF x
    <3>5. /\ calls' \in [Calls -> CallRecords] /\ CallsKept
          /\ calls'[c] = x /\ \A d \in Calls : d # c => calls'[d] = calls[d]
      BY <3>1, <3>2, <3>3, <3>4, OneCallKept
    <3>. QED  BY <3>4, <3>5 DEF AcksKept
  <2>2. CASE ~(calls[m.id].stage \in {"acking", "awaiting"})
    BY <1>2, <2>2, NothingKept DEF Types
  <2>. QED  BY <2>1, <2>2
<1>7. Types'
  BY <1>1, <1>2, <1>4, <1>6, TypesReceived DEF Types
<1>8. RspTaken(m)
  BY <1>1, <1>2, <1>5, <1>6 DEF RspTaken, Receives, Consumed, Running, s
<1>. QED  BY <1>7, <1>8 DEF m

ReqTaken(m) ==
    /\ Receives(m, "Req")
    /\ UNCHANGED up
    /\ AcksKept
    /\ core' = core

LEMMA ReqReceived ==
    ASSUME Types, CallbacksThere, ReceiveReq
    PROVE  (Types' /\ ReqTaken(Message)) \/ (Ends /\ status' = "CallbackClosed")
<1>. DEFINE m == Message
            owner == GetOwner(core.owner, m.topic)
<1>1. Running /\ down # <<>> /\ m \in Messages /\ m = down[1] /\ m.type = "Req"
  BY FirstMessage DEF ReceiveReq
<1>2. IF owner = NoOwner THEN Consumed /\ UNCHANGED <<core, calls, up>>
      ELSE IF owner \notin core.req THEN End("panicked")
      ELSE IF ~calls[owner].open THEN End("CallbackClosed")
      ELSE /\ calls' = [calls EXCEPT ![owner].feed = Append(@, m.id)]
           /\ Consumed
           /\ UNCHANGED <<core, up>>
  BY DEF ReceiveReq
<1>. HIDE DEF m
<1>3. m.id \in Nat /\ m.topic \in Topics
  BY <1>1, MessageFields
<1>4. owner # NoOwner => owner \in core.req /\ owner \in Calls
  BY <1>3, CoreFields DEF CallbacksThere, GetOwner
<1>. HIDE DEF owner
<1>5. CASE owner # NoOwner /\ ~calls[owner].open
  BY <1>2, <1>4, <1>5, TypesEnd DEF Ends, End
<1>6. CASE owner = NoOwner
  <2>1. Consumed /\ UNCHANGED <<core, calls, up>> /\ CallsKept /\ AcksKept
    BY <1>2, <1>6, NothingKept
  <2>2. Types'
    BY <1>1, <2>1, TypesReceived DEF Types
  <2>3. ReqTaken(m)
    BY <1>1, <2>1 DEF ReqTaken, Receives, Consumed, Running
  <2>. QED  BY <2>2, <2>3 DEF m
<1>7. CASE owner # NoOwner /\ calls[owner].open
  <2>. DEFINE q == Append(calls[owner].feed, m.id)
              x == [calls[owner] EXCEPT !.feed = q]
  <2>1. owner \in Calls /\ calls \in [Calls -> CallRecords] /\ calls[owner] \in CallRecords
    BY <1>4, <1>7 DEF Types
  <2>2. q \in Seq(Nat)
    BY <1>3, <2>1, CallFields, Queues
  <2>3. /\ calls' = [calls EXCEPT ![owner] = x]
        /\ Consumed /\ UNCHANGED <<core, up>>
    BY <1>2, <1>4, <1>7, <2>1
  <2>. HIDE DEF q
  <2>4. x \in CallRecords
    BY <2>1, <2>2, CallUpdates
  <2>5. CallKept(calls[owner], x) /\ x.ack = calls[owner].ack
    BY <2>1 DEF CallKept, CallRecords
  <2>. HIDE DEF x
  <2>6. /\ calls' \in [Calls -> CallRecords] /\ CallsKept
        /\ calls'[owner] = x /\ \A d \in Calls : d # owner => calls'[d] = calls[d]
    BY <2>1, <2>3, <2>4, <2>5, OneCallKept
  <2>7. AcksKept
    BY <2>5, <2>6 DEF AcksKept
  <2>8. Types'
    BY <1>1, <2>3, <2>6, TypesReceived DEF Types
  <2>9. ReqTaken(m)
    BY <1>1, <2>3, <2>6, <2>7 DEF ReqTaken, Receives, Consumed, Running
  <2>. QED  BY <2>8, <2>9 DEF m
<1>. QED  BY <1>5, <1>6, <1>7

LEMMA Concatenations ==
    ASSUME NEW S, NEW q \in Seq(S), NEW r \in Seq(S)
    PROVE  /\ q \o r \in Seq(S)
           /\ Len(q \o r) = Len(q) + Len(r)
           /\ \A i \in 1..Len(q) : (q \o r)[i] = q[i]
           /\ \A i \in (Len(q) + 1)..(Len(q) + Len(r)) :
                 i - Len(q) \in 1..Len(r) /\ (q \o r)[i] = r[i - Len(q)]
OBVIOUS

LEMMA GivenUpIsFinite ==
    ASSUME Types, CallbacksThere
    PROVE  GivenUp \subseteq Topics /\ IsFiniteSet(GivenUp)
<1>. DEFINE T == {calls[c].topic : c \in Calls}
            f == [c \in Calls |-> calls[c].topic]
<1>1. IsFiniteSet(Calls)
  BY FS_Interval, ClientAssumption DEF Calls
<1>2. f \in Surjection(Calls, T)
  BY DEF Surjection
<1>3. IsFiniteSet(T)
  BY <1>1, <1>2, FS_Surjection
<1>4. GivenUp \in SUBSET T
  <2>1. \A p \in core.subs : p[1] \in Calls /\ p[2] = calls[p[1]].topic
    BY CoreFields DEF CallbacksThere
  <2>. QED  BY <2>1 DEF GivenUp, GivenUpAlways
<1>5. GivenUp \subseteq Topics
  BY CoreFields DEF GivenUp, GivenUpAlways
<1>. QED  BY <1>3, <1>4, <1>5, FS_Subset

LEMMA Unsubscriptions ==
    ASSUME Types, CallbacksThere, NEW order \in Bijection(1..Cardinality(GivenUp), GivenUp)
    PROVE  LET q == [i \in DOMAIN order |-> TaskOf("Unsub", NoCall, order[i], 0)]
           IN  /\ q \in Seq(Tasks)
               /\ \A i \in 1..Len(q) : q[i].type = "Unsub" /\ q[i].id = NoCall
                                       /\ q[i].topic \in GivenUp
<1>. DEFINE n == Cardinality(GivenUp)
            q == [i \in DOMAIN order |-> TaskOf("Unsub", NoCall, order[i], 0)]
<1>1. n \in Nat
  BY GivenUpIsFinite, FS_CardinalityType
<1>2. order \in [1..n -> GivenUp]
  BY DEF Bijection, Injection
<1>3. GivenUp \subseteq Topics
  BY GivenUpIsFinite
<1>. HIDE DEF n
<1>4. \A t \in Topics : TaskOf("Unsub", NoCall, t, 0) \in Tasks
  BY TaskTypes
<1>5. q \in [1..n -> Tasks]
  BY <1>2, <1>3, <1>4
<1>6. q \in Seq(Tasks) /\ Len(q) = n
  <2>. HIDE DEF q
  <2>. QED  BY <1>1, <1>5
<1>7. \A i \in 1..n : q[i] = TaskOf("Unsub", NoCall, order[i], 0) /\ order[i] \in GivenUp
  BY <1>2
<1>. QED  BY <1>6, <1>7 DEF TaskOf

PubTaken(m, q) ==
    /\ Receives(m, "Pub")
    /\ AcksKept
    /\ core'.rsp = core.rsp
    /\ core'.pub = core.pub \ Dead /\ core'.subs = {p \in core.subs : p[1] \notin Dead}
    /\ q \in Seq(Tasks)
    /\ \A i \in 1..Len(q) : q[i].type = "Unsub" /\ q[i].id = NoCall /\ q[i].topic \in GivenUp
    /\ up' = IF Open THEN up \o q ELSE up

LEMMA PubReceived ==
    ASSUME Types, CallbacksThere, ReceivePub
    PROVE  Types' /\ \E q : PubTaken(Message, q)
<1>. DEFINE m == Message
            s == core.pub \ Dead
            s1 == {p \in core.subs : p[1] \notin Dead}
            r1 == [core EXCEPT !.pub = s]
            r == [r1 EXCEPT !.subs = s1]
<1>1. Running /\ down # <<>> /\ m \in Messages /\ m = down[1] /\ m.type = "Pub"
  BY FirstMessage DEF ReceivePub
<1>2. Recipients \subseteq core.pub
  BY CoreFields DEF Recipients, GetSubscribers, CallbacksThere
<1>3. /\ core' = ForgetDead /\ Consumed
      /\ calls' = [c \in Calls |-> IF c \in Recipients \ Dead
                                   THEN [calls[c] EXCEPT !.feed = Append(@, 0)]
                                   ELSE calls[c]]
  BY <1>2 DEF ReceivePub
<1>4. PICK order \in Bijection(1..Cardinality(GivenUp), GivenUp) :
         up' = IF Open THEN up \o [i \in DOMAIN order |-> TaskOf("Unsub", NoCall, order[i], 0)]
               ELSE up
  BY <1>2 DEF ReceivePub
<1>. DEFINE q == [i \in DOMAIN order |-> TaskOf("Unsub", NoCall, order[i], 0)]
<1>5. /\ q \in Seq(Tasks) /\ up' = IF Open THEN up \o q ELSE up
      /\ \A i \in 1..Len(q) : q[i].type = "Unsub" /\ q[i].id = NoCall /\ q[i].topic \in GivenUp
  BY <1>4, Unsubscriptions
<1>. HIDE DEF q, m
<1>6. core' = r
  BY <1>3 DEF ForgetDead, Types, CoreRecords
<1>7. s \in SUBSET Calls /\ s1 \in SUBSET (Calls \X Topics)
  BY CoreFields
<1>8. r1 \in CoreRecords
  <2>. HIDE DEF s
  <2>. QED  BY <1>7, CoreUpdates DEF Types
<1>9. r \in CoreRecords
  <2>. HIDE DEF s1, r1
  <2>. QED  BY <1>7, <1>8, CoreUpdates
<1>10. /\ r.rsp = core.rsp /\ r.pub = s /\ r.req = core.req
       /\ r.subs = s1 /\ r.owner = core.owner
  <2>. HIDE DEF s, s1
  <2>. QED  BY DEF Types, CoreRecords
<1>. HIDE DEF r
<1>11. \A c \in Calls : /\ calls'[c] \in CallRecords /\ CallKept(calls[c], calls'[c])
                        /\ calls'[c].ack = calls[c].ack
  <2>. SUFFICES ASSUME NEW c \in Calls
                PROVE  /\ calls'[c] \in CallRecords /\ CallKept(calls[c], calls'[c])
                       /\ calls'[c].ack = calls[c].ack
    OBVIOUS
  <2>1. calls[c] \in CallRecords /\ calls[c].feed \in Seq(Nat)
    BY CallFields
  <2>2. CASE c \in Recipients \ Dead
    <3>. DEFINE f == Append(calls[c].feed, 0)
                x == [calls[c] EXCEPT !.feed = f]
    <3>1. f \in Seq(Nat)
      BY <2>1, Queues
    <3>2. calls'[c] = x
      BY <1>3, <2>1, <2>2
    <3>. HIDE DEF f
    <3>3. x \in CallRecords
      BY <2>1, <3>1, CallUpdates
    <3>4. CallKept(calls[c], x) /\ x.ack = calls[c].ack
      BY <2>1 DEF CallKept, CallRecords
    <3>. QED  BY <3>2, <3>3, <3>4
  <2>3. CASE c \notin Recipients \ Dead
    BY <1>3, <2>1, <2>3 DEF CallKept
  <2>. QED  BY <2>2, <2>3
<1>12. calls' \in [Calls -> CallRecords] /\ CallsKept /\ AcksKept
  <2>1. calls' \in [Calls -> CallRecords]
    <3>1. calls' = [c \in Calls |-> calls'[c]]
      BY <1>3
    <3>. QED  BY <1>11, <3>1
  <2>. QED  BY <1>11, <2>1 DEF CallsKept, AcksKept
<1>13. up' \in Seq(Tasks)
  BY <1>5, Concatenations DEF Types
<1>14. Types'
  BY <1>1, <1>3, <1>6, <1>9, <1>12, <1>13, TypesReceived
<1>15. PubTaken(m, q)
  BY <1>1, <1>3, <1>5, <1>6, <1>10, <1>12 DEF PubTaken, Receives, Consumed, Running
<1>. QED  BY <1>14, <1>15 DEF m

-----------------------------------------------------------------------------
(* What the bus does: q goes down.  Of the requests, at most the one that asked
   is new. *)

BusMoves(q) ==
    /\ Open
    /\ q \in Seq(Messages) /\ down' = down \o q
    /\ bus' \in BusRecords
    /\ \A i \in 1..Len(q) : q[i].type = "Rsp" =>
          /\ \E p \in bus.pending : p \notin bus'.pending /\ p.requester = q[i].id
          /\ \A j \in 1..Len(q) : q[j].type = "Rsp" => i = j
    /\ UNCHANGED <<core, status, tasks, calls>>

(* ... at the message x of this client *)
BusTook(x, q) ==
    /\ BusMoves(q)
    /\ up # <<>> /\ x \in Tasks /\ x = up[1]
    /\ up' = Tail(up) /\ conn' = conn
    /\ \A i \in 1..Len(q) : q[i].type = "Ack" =>
          /\ q[i].id = x.id
          /\ q[i].error = NoError /\ x.type = "Srv" => bus'.owner[x.topic] = Me
          /\ q[i].error = NoError /\ x.type = "Sub" => <<Me, x.topic>> \in bus'.subs
    /\ \A i \in 1..Len(q) : q[i].type = "Rsp" => x.type = "Rsp"
    /\ bus'.pending \subseteq bus.pending
          \/ /\ x.type = "Req"
             /\ \E new : new.requester = x.id /\ bus'.pending \subseteq bus.pending \cup {new}
    /\ \A t \in Topics : bus.owner[t] = Me =>
          bus'.owner[t] = Me \/ (x.type = "Unsrv" /\ x.topic = t)
    /\ \A t \in Topics : <<Me, t>> \in bus.subs =>
          <<Me, t>> \in bus'.subs \/ (x.type = "Unsub" /\ x.topic = t)

(* ... and elsewhere *)
BusElsewhere(q) ==
    /\ BusMoves(q)
    /\ UNCHANGED <<up, conn>>
    /\ \A i \in 1..Len(q) : q[i].type # "Ack"
    /\ \A p \in bus'.pending : p \in bus.pending \/ p.requester = NoCall
    /\ \A t \in Topics : bus.owner[t] = Me => bus'.owner[t] = Me
    /\ bus'.subs = bus.subs

LEMMA BusFields ==
    ASSUME NEW b \in BusRecords
    PROVE  /\ b.subs \subseteq {Me} \X Topics
           /\ b.owner \in [Topics -> {NoOwner, Me, Others}]
           /\ b.pending \subseteq Pending /\ b.next \in Nat
BY DEF BusRecords

LEMMA PendingFields ==
    ASSUME NEW p \in Pending
    PROVE  p.id \in Nat /\ p.requester \in Calls \cup {NoCall}
           /\ p.responder \in {NoOwner, Me, Others}
BY DEF Pending

LEMMA BusUpdates ==
    ASSUME NEW r \in BusRecords
    PROVE  /\ \A s \in SUBSET ({Me} \X Topics) : [r EXCEPT !.subs = s] \in BusRecords
           /\ \A o \in [Topics -> {NoOwner, Me, Others}] : [r EXCEPT !.owner = o] \in BusRecords
           /\ \A p \in SUBSET Pending : [r EXCEPT !.pending = p] \in BusRecords
           /\ \A n \in Nat : [r EXCEPT !.next = n] \in BusRecords
<1>1. \A s \in SUBSET ({Me} \X Topics) : [r EXCEPT !.subs = s] \in BusRecords
  BY DEF BusRecords
<1>2. \A o \in [Topics -> {NoOwner, Me, Others}] : [r EXCEPT !.owner = o] \in BusRecords
  BY DEF BusRecords
<1>3. \A p \in SUBSET Pending : [r EXCEPT !.pending = p] \in BusRecords
  BY DEF BusRecords
<1>4. \A n \in Nat : [r EXCEPT !.next = n] \in BusRecords
  BY DEF BusRecords
<1>. QED  BY <1>1, <1>2, <1>3, <1>4

LEMMA LeavingsKeep ==
    ASSUME NEW b \in BusRecords, NEW r \in Leavings(b)
    PROVE  /\ r \in BusRecords
           /\ r.subs = b.subs /\ r.pending \subseteq b.pending
           /\ \A t \in Topics : b.owner[t] = Me => r.owner[t] = Me
<1>1. PICK freed \in SUBSET {t \in Topics : b.owner[t] = Others},
           dropped \in SUBSET WithOthers(b) : r = Left(b, freed, dropped)
  BY DEF Leavings
<1>. DEFINE o == [t \in Topics |-> IF t \in freed THEN NoOwner ELSE b.owner[t]]
            p == b.pending \ dropped
            r1 == [b EXCEPT !.owner = o]
            r2 == [r1 EXCEPT !.pending = p]
<1>2. r = r2
  BY <1>1 DEF BusRecords, Left
<1>3. o \in [Topics -> {NoOwner, Me, Others}] /\ p \in SUBSET Pending
  BY BusFields
<1>4. r1 \in BusRecords
  <2>. HIDE DEF o
  <2>. QED  BY <1>3, BusUpdates
<1>5. r2 \in BusRecords
  <2>. HIDE DEF p, r1
  <2>. QED  BY <1>3, <1>4, BusUpdates
<1>6. r2.subs = b.subs /\ r2.owner = o /\ r2.pending = p
  <2>. HIDE DEF o, p
  <2>. QED  BY DEF BusRecords
<1>7. \A t \in Topics : b.owner[t] = Me => o[t] = Me
  BY DEF Me, Others
<1>. QED  BY <1>2, <1>5, <1>6, <1>7

LEMMA NobodyLeaves ==
    ASSUME NEW b \in BusRecords
    PROVE  b.subs = b.subs /\ b.pending \subseteq b.pending
           /\ \A t \in Topics : b.owner[t] = Me => b.owner[t] = Me
OBVIOUS

LEMMA RouteKeeps ==
    ASSUME Types, NEW c \in Calls \cup {NoCall}, NEW t \in Topics
    PROVE  /\ Route(c, t) \in BusRecords
           /\ Route(c, t).subs = bus.subs /\ Route(c, t).owner = bus.owner
           /\ \E new : /\ new.requester = c
                       /\ Route(c, t).pending = bus.pending \cup {new}
<1>. DEFINE new == [id |-> bus.next, requester |-> c, responder |-> bus.owner[t]]
            n == bus.next + 1
            p == bus.pending \cup {new}
            r1 == [bus EXCEPT !.next = n]
            r == [r1 EXCEPT !.pending = p]
<1>1. bus \in BusRecords
  BY DEF Types
<1>2. Route(c, t) = r
  BY <1>1 DEF Route, BusRecords
<1>3. n \in Nat /\ p \in SUBSET Pending
  BY <1>1, BusFields DEF Pending
<1>4. r1 \in BusRecords
  <2>. HIDE DEF n
  <2>. QED  BY <1>1, <1>3, BusUpdates
<1>5. r \in BusRecords
  <2>. HIDE DEF p, r1
  <2>. QED  BY <1>3, <1>4, BusUpdates
<1>6. r.subs = bus.subs /\ r.owner = bus.owner /\ r.pending = p
  <2>. HIDE DEF n, p
  <2>. QED  BY <1>1 DEF BusRecords
<1>7. new.requester = c /\ p = bus.pending \cup {new}
  OBVIOUS
<1>. HIDE DEF new, r
<1>. QED  BY <1>2, <1>5, <1>6, <1>7

LEMMA Answered ==
    ASSUME Types, up # <<>>, NEW q \in Seq(Messages), NEW error \in Errors, Answer(q, error)
    PROVE  LET a == Append(q, Ack(Asked.id, error))
           IN  /\ Asked \in Tasks /\ Asked = up[1]
               /\ a \in Seq(Messages) /\ down' = down \o a
               /\ Len(a) = Len(q) + 1
               /\ a[Len(q) + 1] = Ack(Asked.id, error)
               /\ \A i \in 1..Len(q) : a[i] = q[i]
               /\ \A i \in 1..Len(a) : i \in 1..Len(q) \/ i = Len(q) + 1
<1>. DEFINE m == Ack(Asked.id, error)
            a == Append(q, m)
<1>1. Asked \in Tasks /\ Asked = up[1]
  BY Queues DEF Types, Asked
<1>2. m \in Messages
  BY <1>1, TaskFields, MessageTypes
<1>3. /\ a \in Seq(Messages) /\ Len(a) = Len(q) + 1 /\ a[Len(q) + 1] = m
      /\ \A i \in 1..Len(q) : a[i] = q[i]
  BY <1>2, Queues
<1>4. down' = (down \o q) \o <<m>>
  BY DEF Answer
<1>5. down' = down \o a
  <2>. HIDE DEF m
  <2>1. a = q \o <<m>> /\ <<m>> \in Seq(Messages)
    BY <1>2, AppendIsConcat
  <2>. QED  BY <1>4, <2>1, ConcatAssociative DEF Types
<1>6. \A i \in 1..Len(a) : i \in 1..Len(q) \/ i = Len(q) + 1
  <2>. HIDE DEF a
  <2>. QED  BY <1>3
<1>. QED  BY <1>1, <1>3, <1>5, <1>6

(* what an answer without a response is *)
Plain(q) == Len(q) \in {0, 1} /\ \A i \in 1..Len(q) : q[i].type \in {"Pub", "Req"}

LEMMA AnsweredPlainly ==
    ASSUME Types, NEW type, BusTakes(type), NEW q \in Seq(Messages), NEW error \in Errors,
           Plain(q), Answer(q, error), bus' \in BusRecords, conn' = conn,
           error = NoError /\ type = "Srv" => bus'.owner[Asked.topic] = Me,
           error = NoError /\ type = "Sub" => <<Me, Asked.topic>> \in bus'.subs,
           \/ bus'.pending \subseteq bus.pending
           \/ /\ type = "Req"
              /\ \E new : new.requester = Asked.id
                          /\ bus'.pending \subseteq bus.pending \cup {new},
           \A t \in Topics : bus.owner[t] = Me =>
              bus'.owner[t] = Me \/ (type = "Unsrv" /\ Asked.topic = t),
           \A t \in Topics : <<Me, t>> \in bus.subs =>
              <<Me, t>> \in bus'.subs \/ (type = "Unsub" /\ Asked.topic = t)
    PROVE  \E a : BusTook(Asked, a)
<1>. DEFINE x == Asked
            a == Append(q, Ack(x.id, error))
<1>1. /\ Open /\ up # <<>> /\ x.type = type /\ up' = Tail(up)
      /\ UNCHANGED <<core, status, tasks, calls>>
  BY DEF BusTakes, Asks
<1>2. /\ x \in Tasks /\ x = up[1]
      /\ a \in Seq(Messages) /\ down' = down \o a
      /\ Len(a) = Len(q) + 1
      /\ a[Len(q) + 1] = Ack(x.id, error)
      /\ \A i \in 1..Len(q) : a[i] = q[i]
      /\ \A i \in 1..Len(a) : i \in 1..Len(q) \/ i = Len(q) + 1
  BY <1>1, Answered
<1>. HIDE DEF x, a
<1>3. Ack(x.id, error).type = "Ack" /\ Ack(x.id, error).id = x.id
      /\ Ack(x.id, error).error = error
  BY DEF Ack
<1>4. \A i \in 1..Len(a) : a[i].type # "Rsp"
  BY <1>2, <1>3 DEF Plain
<1>5. \A i \in 1..Len(a) : a[i].type = "Ack" => a[i].id = x.id /\ a[i].error = error
  BY <1>2, <1>3 DEF Plain
<1>6. BusMoves(a)
  BY <1>1, <1>2, <1>4 DEF BusMoves
<1>7. BusTook(x, a)
  BY <1>1, <1>2, <1>4, <1>5, <1>6 DEF BusTook, x
<1>. QED  BY <1>7 DEF x

LEMMA PlainAnswers ==
    /\ <<>> \in Seq(Messages) /\ Plain(<<>>)
    /\ \A t \in Topics : <<Pub(t)>> \in Seq(Messages) /\ Plain(<<Pub(t)>>)
    /\ \A n \in Nat, t \in Topics : <<Req(n, t)>> \in Seq(Messages) /\ Plain(<<Req(n, t)>>)
<1>1. <<>> \in Seq(Messages) /\ Plain(<<>>)
  BY DEF Plain
<1>2. ASSUME NEW m \in Messages, m.type \in {"Pub", "Req"}
      PROVE  <<m>> \in Seq(Messages) /\ Plain(<<m>>)
  BY <1>2 DEF Plain
<1>3. \A t \in Topics : Pub(t).type = "Pub"
  BY DEF Pub
<1>4. \A n \in Nat, t \in Topics : Req(n, t).type = "Req"
  BY DEF Req
<1>. QED  BY <1>1, <1>2, <1>3, <1>4, MessageTypes

LEMMA AskedFields ==
    ASSUME Types, NEW type, Asks(type)
    PROVE  /\ Asked \in Tasks /\ Asked = up[1] /\ up # <<>> /\ Asked.type = type
           /\ bus \in BusRecords
BY Queues DEF Types, Asked, Asks

LEMMA BusSubTook == ASSUME Types, BusSub PROVE \E q : BusTook(Asked, q)
<1>. DEFINE x == Asked
            none == <<>>
            s == bus.subs \cup {<<Me, x.topic>>}
            b == [bus EXCEPT !.subs = s]
<1>1. BusTakes("Sub") /\ bus' = b /\ Answer(none, NoError) /\ conn' = conn
  BY DEF BusSub, Subscribe
<1>2. x \in Tasks /\ x.type = "Sub" /\ bus \in BusRecords /\ x.topic \in Topics
  BY <1>1, AskedFields, TaskFields DEF BusTakes
<1>. HIDE DEF x
<1>3. s \in SUBSET ({Me} \X Topics) /\ bus.subs \subseteq s /\ <<Me, x.topic>> \in s
  BY <1>2, BusFields
<1>. HIDE DEF s
<1>4. b \in BusRecords /\ b.subs = s /\ b.pending = bus.pending /\ b.owner = bus.owner
  BY <1>2, <1>3, BusUpdates DEF BusRecords
<1>. HIDE DEF b
<1>5. /\ bus'.pending \subseteq bus.pending
      /\ <<Me, Asked.topic>> \in bus'.subs
      /\ \A t \in Topics : bus.owner[t] = Me => bus'.owner[t] = Me
      /\ \A t \in Topics : <<Me, t>> \in bus.subs => <<Me, t>> \in bus'.subs
  BY <1>1, <1>3, <1>4 DEF x
<1>6. NoError \in Errors
  BY DEF Errors
<1>9. none \in Seq(Messages) /\ Plain(none)
  BY PlainAnswers
<1>. HIDE DEF none
<1>. QED
  BY <1>1, <1>4, <1>5, <1>6, <1>9, AnsweredPlainly

LEMMA BusUnsubTook == ASSUME Types, BusUnsub PROVE \E q : BusTook(Asked, q)
<1>. DEFINE x == Asked
            s == bus.subs \ {<<Me, x.topic>>}
            b == [bus EXCEPT !.subs = s]
<1>1. BusTakes("Unsub") /\ bus' = b /\ Answer(<<>>, NoError) /\ conn' = conn
  BY DEF BusUnsub, Unsubscribe
<1>2. x \in Tasks /\ x.type = "Unsub" /\ bus \in BusRecords /\ x.topic \in Topics
  BY <1>1, AskedFields, TaskFields DEF BusTakes
<1>. HIDE DEF x
<1>3. s \in SUBSET ({Me} \X Topics)
      /\ \A t \in Topics : <<Me, t>> \in bus.subs => <<Me, t>> \in s \/ x.topic = t
  BY <1>2, BusFields
<1>. HIDE DEF s
<1>4. b \in BusRecords /\ b.subs = s /\ b.pending = bus.pending /\ b.owner = bus.owner
  BY <1>2, <1>3, BusUpdates DEF BusRecords
<1>. HIDE DEF b
<1>. QED
  BY <1>1, <1>3, <1>4, AnsweredPlainly, PlainAnswers DEF x, Errors

LEMMA BusSrvTook == ASSUME Types, BusSrv PROVE \E q : BusTook(Asked, q)
<1>. DEFINE x == Asked
            none == <<>>
            o == Claim(bus.owner, Me, x.topic)
            e == ClaimError(bus.owner, Me, x.topic)
            b == [bus EXCEPT !.owner = o]
<1>1. BusTakes("Srv") /\ bus' = b /\ Answer(none, e) /\ conn' = conn
  BY DEF BusSrv
<1>2. x \in Tasks /\ x.type = "Srv" /\ bus \in BusRecords /\ x.topic \in Topics
  BY <1>1, AskedFields, TaskFields DEF BusTakes
<1>. HIDE DEF x
<1>3. /\ o \in [Topics -> {NoOwner, Me, Others}]
      /\ \A t \in Topics : bus.owner[t] = Me => o[t] = Me
      /\ e = NoError => o[x.topic] = Me
      /\ e \in Errors
  BY <1>2, BusFields DEF Claim, ClaimError, Errors
<1>. HIDE DEF o, e
<1>4. b \in BusRecords /\ b.owner = o /\ b.pending = bus.pending /\ b.subs = bus.subs
  BY <1>2, <1>3, BusUpdates DEF BusRecords
<1>. HIDE DEF b
<1>5. /\ bus'.pending \subseteq bus.pending
      /\ e = NoError => bus'.owner[Asked.topic] = Me
      /\ \A t \in Topics : bus.owner[t] = Me => bus'.owner[t] = Me
      /\ \A t \in Topics : <<Me, t>> \in bus.subs => <<Me, t>> \in bus'.subs
  BY <1>1, <1>3, <1>4 DEF x
<1>9. none \in Seq(Messages) /\ Plain(none)
  BY PlainAnswers
<1>. HIDE DEF none
<1>. QED
  BY <1>1, <1>3, <1>4, <1>5, <1>9, AnsweredPlainly

LEMMA BusUnsrvTook == ASSUME Types, BusUnsrv PROVE \E q : BusTook(Asked, q)
<1>. DEFINE x == Asked
            o == Unclaim(bus.owner, Me, x.topic)
            b == [bus EXCEPT !.owner = o]
<1>1. /\ BusTakes("Unsrv") /\ bus' = b /\ conn' = conn
      /\ \E error \in UnclaimErrors(x.topic) : Answer(<<>>, error)
  BY DEF BusUnsrv
<1>2. x \in Tasks /\ x.type = "Unsrv" /\ bus \in BusRecords /\ x.topic \in Topics
  BY <1>1, AskedFields, TaskFields DEF BusTakes
<1>3. PICK e \in Errors : Answer(<<>>, e)
  BY <1>1 DEF UnclaimErrors, Errors
<1>. HIDE DEF x
<1>4. /\ o \in [Topics -> {NoOwner, Me, Others}]
      /\ \A t \in Topics : bus.owner[t] = Me => o[t] = Me \/ x.topic = t
  BY <1>2, BusFields DEF Unclaim
<1>. HIDE DEF o
<1>5. b \in BusRecords /\ b.owner = o /\ b.pending = bus.pending /\ b.subs = bus.subs
  BY <1>2, <1>4, BusUpdates DEF BusRecords
<1>. HIDE DEF b
<1>. QED
  BY <1>1, <1>3, <1>4, <1>5, AnsweredPlainly, PlainAnswers DEF x

LEMMA BusPubTook == ASSUME Types, BusPub PROVE \E q : BusTook(Asked, q)
<1>1. BusTakes("Pub") /\ conn' = conn
  BY DEF BusPub
<1>2. Asked \in Tasks /\ Asked.type = "Pub" /\ bus \in BusRecords /\ Asked.topic \in Topics
  BY <1>1, AskedFields, TaskFields DEF BusTakes
<1>3. PICK q \in {<<>>, <<Pub(Asked.topic)>>}, e \in {NoError, "DeliveryFailed"} :
         Answer(q, e) /\ (bus' = bus \/ bus' \in Leavings(bus))
  BY DEF BusPub
<1>4. q \in Seq(Messages) /\ Plain(q) /\ e \in Errors
  BY <1>2, PlainAnswers DEF Errors
<1>5. /\ bus' \in BusRecords /\ bus'.subs = bus.subs /\ bus'.pending \subseteq bus.pending
      /\ \A t \in Topics : bus.owner[t] = Me => bus'.owner[t] = Me
  BY <1>2, <1>3, LeavingsKeep
<1>. QED
  BY <1>1, <1>3, <1>4, <1>5, AnsweredPlainly

LEMMA BusReqTook == ASSUME Types, BusReq PROVE \E q : BusTook(Asked, q)
<1>1. BusTakes("Req") /\ conn' = conn
  BY DEF BusReq
<1>2. Asked \in Tasks /\ Asked.type = "Req" /\ bus \in BusRecords /\ Asked.topic \in Topics
      /\ Asked.id \in Calls
  BY <1>1, AskedFields, TaskFields DEF BusTakes
<1>3. PICK q \in {<<>>, <<Req(bus.next, Asked.topic)>>},
           e \in {NoError, "DeliveryFailed", "ServiceNotFound"} :
         /\ Answer(q, e)
         /\ bus' = bus \/ bus' \in Leavings(bus) \/ bus' = Route(Asked.id, Asked.topic)
  BY DEF BusReq
<1>4. q \in Seq(Messages) /\ Plain(q) /\ e \in Errors
  BY <1>2, PlainAnswers, BusFields DEF Errors
<1>5. /\ bus' \in BusRecords /\ bus'.subs = bus.subs
      /\ \A t \in Topics : bus.owner[t] = Me => bus'.owner[t] = Me
      /\ \/ bus'.pending \subseteq bus.pending
         \/ \E new : new.requester = Asked.id /\ bus'.pending \subseteq bus.pending \cup {new}
  <2>1. CASE bus' = bus \/ bus' \in Leavings(bus)
    BY <1>2, <2>1, LeavingsKeep
  <2>2. CASE bus' = Route(Asked.id, Asked.topic)
    BY <1>2, <2>2, RouteKeeps
  <2>. QED  BY <1>3, <2>1, <2>2
<1>. QED
  BY <1>1, <1>3, <1>4, <1>5, AnsweredPlainly

LEMMA BusKeepAliveTook == ASSUME Types, BusKeepAlive PROVE \E q : BusTook(Asked, q)
<1>. DEFINE none == <<>>
<1>1. BusTakes("KeepAlive") /\ bus' = bus /\ Answer(none, NoError) /\ conn' = conn
  BY DEF BusKeepAlive
<1>2. bus \in BusRecords
  BY DEF Types
<1>3. /\ bus' \in BusRecords /\ bus'.pending \subseteq bus.pending
      /\ \A t \in Topics : bus.owner[t] = Me => bus'.owner[t] = Me
      /\ \A t \in Topics : <<Me, t>> \in bus.subs => <<Me, t>> \in bus'.subs
  BY <1>1, <1>2
<1>4. NoError \in Errors
  BY DEF Errors
<1>9. none \in Seq(Messages) /\ Plain(none)
  BY PlainAnswers
<1>. HIDE DEF none
<1>. QED
  BY <1>1, <1>3, <1>4, <1>9, AnsweredPlainly

LEMMA BusRspTook == ASSUME Types, BusRsp PROVE \E q : BusTook(Asked, q)
<1>. DEFINE mine == {p \in bus.pending : p.id = Asked.req_id /\ p.responder = Me}
            Without(p) == [bus EXCEPT !.pending = @ \ {p}]
<1>1. /\ BusTakes("Rsp") /\ conn' = conn
      /\ \/ mine = {} /\ Answer(<<>>, "InvalidRequestId") /\ UNCHANGED bus
         \/ \E p \in mine :
               \/ Answer(Resolve(p, "Ok"), NoError) /\ bus' = Without(p)
               \/ /\ p.requester = NoCall
                  /\ Answer(<<>>, "DeliveryFailed")
                  /\ bus' \in Leavings(Without(p))
  BY DEF BusRsp
<1>2. Asked \in Tasks /\ Asked.type = "Rsp" /\ bus \in BusRecords
  BY <1>1, AskedFields DEF BusTakes
<1>3. \A p \in mine :
         /\ Without(p) \in BusRecords
         /\ Without(p).pending = bus.pending \ {p}
         /\ Without(p).owner = bus.owner /\ Without(p).subs = bus.subs
  <2>. SUFFICES ASSUME NEW p \in mine
                PROVE  /\ Without(p) \in BusRecords
                       /\ Without(p).pending = bus.pending \ {p}
                       /\ Without(p).owner = bus.owner /\ Without(p).subs = bus.subs
    OBVIOUS
  <2>. DEFINE s == bus.pending \ {p}
  <2>1. s \in SUBSET Pending
    BY <1>2, BusFields
  <2>2. Without(p) = [bus EXCEPT !.pending = s]
    BY <1>2
  <2>. HIDE DEF s
  <2>3. [bus EXCEPT !.pending = s] \in BusRecords
    BY <1>2, <2>1, BusUpdates
  <2>4. /\ [bus EXCEPT !.pending = s].pending = s
        /\ [bus EXCEPT !.pending = s].owner = bus.owner
        /\ [bus EXCEPT !.pending = s].subs = bus.subs
    BY <1>2 DEF BusRecords
  <2>. QED  BY <2>2, <2>3, <2>4 DEF s
<1>4. mine \subseteq bus.pending
  OBVIOUS
<1>. HIDE DEF mine, Without
<1>. DEFINE none == <<>>
<1>5. none \in Seq(Messages) /\ Plain(none)
  BY PlainAnswers
<1>6. ASSUME NEW e \in Errors, Answer(none, e),
             \/ bus' = bus
             \/ \E p \in mine : bus' = Without(p) \/ bus' \in Leavings(Without(p))
      PROVE  \E q : BusTook(Asked, q)
  <2>1. /\ bus' \in BusRecords /\ bus'.subs = bus.subs /\ bus'.pending \subseteq bus.pending
        /\ \A t \in Topics : bus.owner[t] = Me => bus'.owner[t] = Me
    <3>1. CASE bus' = bus
      BY <1>2, <3>1
    <3>2. ASSUME NEW p \in mine, bus' = Without(p) \/ bus' \in Leavings(Without(p))
          PROVE  /\ bus' \in BusRecords /\ bus'.subs = bus.subs
                 /\ bus'.pending \subseteq bus.pending
                 /\ \A t \in Topics : bus.owner[t] = Me => bus'.owner[t] = Me
      BY <1>3, <3>2, LeavingsKeep
    <3>. QED  BY <1>6, <3>1, <3>2
  <2>. HIDE DEF none
  <2>. QED  BY <1>1, <1>5, <1>6, <2>1, AnsweredPlainly
<1>7. ASSUME NEW p \in mine, Answer(Resolve(p, "Ok"), NoError), bus' = Without(p),
             p.requester # NoCall
      PROVE  \E q : BusTook(Asked, q)
  <2>. DEFINE x == Asked
              m == Rsp(p.requester, "Ok")
              q == <<m>>
              a == Append(q, Ack(x.id, NoError))
  <2>1. p \in bus.pending /\ p.requester \in Calls
    BY <1>2, <1>4, <1>7, BusFields, PendingFields
  <2>2. m \in Messages /\ m.type = "Rsp" /\ m.id = p.requester
    BY <2>1, MessageTypes DEF Rsp
  <2>3. Answer(q, NoError)
    BY <1>7 DEF Resolve
  <2>. HIDE DEF m
  <2>4. q \in Seq(Messages) /\ Len(q) = 1 /\ q[1] = m
    BY <2>2
  <2>5. /\ Open /\ up # <<>> /\ x.type = "Rsp" /\ up' = Tail(up)
        /\ UNCHANGED <<core, status, tasks, calls>>
    BY <1>1 DEF BusTakes, Asks
  <2>. HIDE DEF q
  <2>6. /\ x \in Tasks /\ x = up[1]
        /\ a \in Seq(Messages) /\ down' = down \o a
        /\ Len(a) = 2
        /\ a[2] = Ack(x.id, NoError)
        /\ a[1] = q[1]
        /\ \A i \in 1..Len(a) : i = 1 \/ i = 2
    <3>1. NoError \in Errors
      BY DEF Errors
    <3>2. /\ x \in Tasks /\ x = up[1]
          /\ a \in Seq(Messages) /\ down' = down \o a
          /\ Len(a) = Len(q) + 1
          /\ a[Len(q) + 1] = Ack(x.id, NoError)
          /\ \A i \in 1..Len(q) : a[i] = q[i]
          /\ \A i \in 1..Len(a) : i \in 1..Len(q) \/ i = Len(q) + 1
      BY <2>3, <2>4, <2>5, <3>1, Answered
    <3>. HIDE DEF x, a
    <3>. QED  BY <2>4, <3>2
  <2>7. Ack(x.id, NoError).type = "Ack" /\ Ack(x.id, NoError).id = x.id
    BY DEF Ack
  <2>. HIDE DEF x, a
  <2>8. /\ bus' \in BusRecords /\ bus'.pending = bus.pending \ {p}
        /\ bus'.owner = bus.owner /\ bus'.subs = bus.subs
    BY <1>3, <1>7
  <2>9. BusMoves(a)
    BY <2>1, <2>2, <2>4, <2>5, <2>6, <2>7, <2>8 DEF BusMoves
  <2>10. BusTook(x, a)
    BY <1>1, <2>2, <2>4, <2>5, <2>6, <2>7, <2>8, <2>9 DEF BusTook
  <2>. QED  BY <2>10 DEF x
<1>8. "InvalidRequestId" \in Errors /\ "DeliveryFailed" \in Errors /\ NoError \in Errors
  BY DEF Errors
<1>9. \A p \in mine : p.requester = NoCall => Resolve(p, "Ok") = none
  BY DEF Resolve
<1>. QED
  BY <1>1, <1>6, <1>7, <1>8, <1>9

Loses ==
    /\ conn' = "closed" /\ up' = <<>> /\ bus' = NoBus
    /\ \/ down' \in {<<>>, down}
       \/ \E m \in Messages :
             m.type = "Ack" /\ up # <<>> /\ m.id = up[1].id /\ down' = Append(down, m)
    /\ UNCHANGED <<core, status, tasks, calls>>

LEMMA BusStopLoses == ASSUME Types, BusStop PROVE Loses
<1>. DEFINE m == Ack(Asked.id, NoError)
<1>1. Asked \in Tasks /\ Asked = up[1] /\ up # <<>>
  BY AskedFields DEF BusStop
<1>2. m \in Messages /\ m.type = "Ack" /\ m.id = up[1].id
  BY <1>1, TaskFields, MessageTypes DEF Ack, Errors
<1>3. down' = (down \o <<>>) \o <<m>>
  BY DEF BusStop, Answer
<1>. HIDE DEF m
<1>4. down' = Append(down, m)
  <2>1. down \o <<>> = down
    BY ConcatEmptySeq DEF Types
  <2>. QED  BY <1>2, <1>3, <2>1, AppendIsConcat DEF Types
<1>. QED  BY <1>1, <1>2, <1>4 DEF Loses, BusStop, Asks

LEMMA ElsewherePlainly ==
    ASSUME Types, Elsewhere, NEW q \in Seq(Messages), Plain(q), down' = down \o q,
           bus' \in BusRecords, bus'.subs = bus.subs,
           \A p \in bus'.pending : p \in bus.pending \/ p.requester = NoCall,
           \A t \in Topics : bus.owner[t] = Me => bus'.owner[t] = Me
    PROVE  BusElsewhere(q)
<1>1. \A i \in 1..Len(q) : q[i].type \notin {"Ack", "Rsp"}
  BY DEF Plain
<1>2. BusMoves(q)
  BY <1>1 DEF BusMoves, Elsewhere
<1>. QED  BY <1>1, <1>2 DEF BusElsewhere, Elsewhere

LEMMA DownUnchanged == Types /\ down' = down => down' = down \o <<>>
BY ConcatEmptySeq DEF Types

LEMMA OthersPublishMoves ==
    ASSUME Types, NEW t \in Topics, OthersPublish(t)
    PROVE  \E q : BusElsewhere(q)
<1>. DEFINE q == <<Pub(t)>>
<1>1. q \in Seq(Messages) /\ Plain(q)
  BY PlainAnswers
<1>2. down' = down \o q
  BY MessageTypes, AppendIsConcat DEF OthersPublish, Types
<1>3. bus \in BusRecords /\ bus' \in Leavings(bus) /\ Elsewhere
  BY DEF Types, OthersPublish
<1>. HIDE DEF q
<1>4. BusElsewhere(q)
  BY <1>1, <1>2, <1>3, LeavingsKeep, ElsewherePlainly
<1>. QED  BY <1>4

LEMMA OthersRequestMoves ==
    ASSUME Types, NEW t \in Topics, OthersRequest(t)
    PROVE  \E q : BusElsewhere(q)
<1>. DEFINE q == <<Req(bus.next, t)>>
            b == Route(NoCall, t)
<1>1. bus \in BusRecords /\ bus.next \in Nat
  BY BusFields DEF Types
<1>2. q \in Seq(Messages) /\ Plain(q)
  BY <1>1, PlainAnswers
<1>3. down' = down \o q
  BY <1>1, MessageTypes, AppendIsConcat DEF OthersRequest, Types
<1>4. bus' \in Leavings(b) /\ Elsewhere
  BY DEF OthersRequest
<1>. HIDE DEF q
<1>5. /\ b \in BusRecords /\ b.subs = bus.subs /\ b.owner = bus.owner
      /\ \E new : new.requester = NoCall /\ b.pending = bus.pending \cup {new}
  BY RouteKeeps
<1>. HIDE DEF b
<1>6. /\ bus' \in BusRecords /\ bus'.subs = bus.subs /\ bus'.pending \subseteq b.pending
      /\ \A u \in Topics : bus.owner[u] = Me => bus'.owner[u] = Me
  BY <1>4, <1>5, LeavingsKeep
<1>7. \A p \in bus'.pending : p \in bus.pending \/ p.requester = NoCall
  BY <1>5, <1>6
<1>8. BusElsewhere(q)
  BY <1>2, <1>3, <1>4, <1>6, <1>7, ElsewherePlainly
<1>. QED  BY <1>8

LEMMA OthersAnswerMoves ==
    ASSUME Types, NEW p \in bus.pending, OthersAnswer(p)
    PROVE  \E q : BusElsewhere(q)
<1>. DEFINE s == bus.pending \ {p}
            b == [bus EXCEPT !.pending = s]
<1>1. bus \in BusRecords /\ p.requester \in Calls \cup {NoCall}
  BY BusFields, PendingFields DEF Types
<1>2. bus' \in Leavings(b) /\ Elsewhere
  BY <1>1 DEF OthersAnswer, BusRecords
<1>3. s \in SUBSET Pending
  BY <1>1, BusFields
<1>4. b \in BusRecords /\ b.pending = s /\ b.owner = bus.owner /\ b.subs = bus.subs
  <2>. HIDE DEF s
  <2>1. b \in BusRecords
    BY <1>1, <1>3, BusUpdates
  <2>. QED  BY <1>1, <2>1 DEF BusRecords
<1>. HIDE DEF b
<1>5. /\ bus' \in BusRecords /\ bus'.subs = bus.subs /\ bus'.pending \subseteq s
      /\ \A u \in Topics : bus.owner[u] = Me => bus'.owner[u] = Me
  BY <1>2, <1>4, LeavingsKeep
<1>6. PICK st \in {"Ok", "Timeout"} : down' = down \o Resolve(p, st)
  BY DEF OthersAnswer
<1>7. CASE p.requester = NoCall
  <2>. DEFINE q == <<>>
  <2>1. down' = down \o q /\ q \in Seq(Messages) /\ Plain(q)
    BY <1>6, <1>7, PlainAnswers DEF Resolve
  <2>. HIDE DEF q
  <2>2. \A r \in bus'.pending : r \in bus.pending
    BY <1>5
  <2>3. BusElsewhere(q)
    BY <1>2, <1>5, <2>1, <2>2, ElsewherePlainly
  <2>. QED  BY <2>3
<1>8. CASE p.requester # NoCall
  <2>. DEFINE m == Rsp(p.requester, st)
              q == <<m>>
  <2>1. down' = down \o q
    BY <1>6, <1>8 DEF Resolve
  <2>2. m \in Messages /\ m.type = "Rsp" /\ m.id = p.requester
    BY <1>1, <1>8, MessageTypes DEF Rsp
  <2>. HIDE DEF m
  <2>3. q \in Seq(Messages) /\ Len(q) = 1 /\ q[1] = m
    BY <2>2
  <2>. HIDE DEF q
  <2>4. BusMoves(q)
    BY <1>2, <1>5, <2>1, <2>2, <2>3 DEF BusMoves, Elsewhere
  <2>5. BusElsewhere(q)
    BY <1>2, <1>5, <2>2, <2>3, <2>4 DEF BusElsewhere, Elsewhere
  <2>. QED  BY <2>5
<1>. QED  BY <1>7, <1>8

LEMMA OthersLeaveMoves == ASSUME Types, OthersLeave PROVE \E q : BusElsewhere(q)
<1>. DEFINE q == <<>>
<1>1. bus \in BusRecords /\ bus' \in Leavings(bus) /\ Elsewhere
  BY DEF Types, OthersLeave
<1>2. down' = down \o q /\ q \in Seq(Messages) /\ Plain(q)
  BY DownUnchanged, PlainAnswers DEF OthersLeave
<1>. HIDE DEF q
<1>3. BusElsewhere(q)
  BY <1>1, <1>2, LeavingsKeep, ElsewherePlainly
<1>. QED  BY <1>3

LEMMA OthersServeMoves ==
    ASSUME Types, NEW t \in Topics, OthersServe(t)
    PROVE  \E q : BusElsewhere(q)
<1>. DEFINE q == <<>>
            o == Claim(bus.owner, Others, t)
            b == [bus EXCEPT !.owner = o]
<1>1. bus \in BusRecords /\ bus' = b /\ Elsewhere /\ ClaimError(bus.owner, Others, t) = NoError
  BY DEF Types, OthersServe
<1>2. down' = down \o q /\ q \in Seq(Messages) /\ Plain(q)
  BY DownUnchanged, PlainAnswers DEF OthersServe
<1>3. /\ o \in [Topics -> {NoOwner, Me, Others}]
      /\ \A u \in Topics : bus.owner[u] = Me => o[u] = Me
  BY <1>1, BusFields DEF Claim, ClaimError, NoError, Me, Others, NoOwner
<1>. HIDE DEF q, o
<1>4. b \in BusRecords /\ b.owner = o /\ b.pending = bus.pending /\ b.subs = bus.subs
  BY <1>1, <1>3, BusUpdates DEF BusRecords
<1>5. /\ bus' \in BusRecords /\ bus'.subs = bus.subs
      /\ \A p \in bus'.pending : p \in bus.pending
      /\ \A u \in Topics : bus.owner[u] = Me => bus'.owner[u] = Me
  BY <1>1, <1>3, <1>4
<1>6. BusElsewhere(q)
  BY <1>1, <1>2, <1>5, ElsewherePlainly
<1>. QED  BY <1>6

LEMMA TypesTook == ASSUME Types, NEW x, NEW q, BusTook(x, q) PROVE Types'
<1>1. up' \in Seq(Tasks)
  BY Queues DEF Types, BusTook
<1>2. down' \in Seq(Messages)
  BY Concatenations DEF Types, BusTook, BusMoves
<1>. QED  BY <1>1, <1>2 DEF Types, BusTook, BusMoves

LEMMA TypesElsewhere == ASSUME Types, NEW q, BusElsewhere(q) PROVE Types'
<1>1. down' \in Seq(Messages)
  BY Concatenations DEF Types, BusElsewhere, BusMoves
<1>. QED  BY <1>1 DEF Types, BusElsewhere, BusMoves

LEMMA TypesLost == ASSUME Types, Loses PROVE Types'
<1>1. down' \in Seq(Messages)
  <2>1. <<>> \in Seq(Messages) /\ down \in Seq(Messages)
    BY EmptyQueue DEF Types
  <2>2. \A m \in Messages : Append(down, m) \in Seq(Messages)
    BY <2>1, Queues
  <2>. QED  BY <2>1, <2>2 DEF Loses
<1>. QED  BY <1>1, EmptyQueue, NoBusType DEF Types, Loses

-----------------------------------------------------------------------------
(* Every step *)

StopQueued ==
    /\ tasks' = Append(tasks, TaskOf("Stop", NoCall, AnyTopic, 0))
    /\ UNCHANGED <<core, status, calls, up, down, conn, bus>>

KeptAlive ==
    /\ Open /\ up = <<>> /\ down = <<>>
    /\ up' = <<TaskOf("KeepAlive", NoCall, AnyTopic, 0)>>
    /\ UNCHANGED <<core, status, tasks, calls, down, conn, bus>>

AnsweredUnexpectedly ==
    down # <<>> /\ Message.type = "Rsp" /\ Message.id \notin core.rsp

CallIsMade ==
    \E c \in Calls, k \in Kinds, t \in Topics, r \in Nat, before \in SUBSET Calls :
        InvokedAs(c, k, t, r, before)

Moves ==
    \/ UNCHANGED vars \/ CallIsMade \/ UserMoves \/ StopQueued
    \/ SentAs(Task)
    \/ AckTaken(Message) \/ RspTaken(Message) \/ ReqTaken(Message) \/ \E q : PubTaken(Message, q)
    \/ KeptAlive
    \/ \E q : BusTook(Asked, q)
    \/ \E q : BusElsewhere(q)
    \/ Loses

StepMoves ==
    /\ Types'
    /\ Running' => Running /\ Moves
    /\ status' = "panicked" => \/ status = "panicked"
                               \/ Running /\ (UnservesNothing \/ AnsweredUnexpectedly)
    /\ status' = "ClaimRejected" => ~Running \/ (NextTask({"Srv"}) /\ ClaimFails)

LEMMA StaysRunning ==
    ASSUME Types', status' = status, Moves
    PROVE  StepMoves
BY DEF StepMoves, Running

LEMMA EndsWell ==
    ASSUME Types, NEW how \in {"stopped", "ChannelClosed", "CallbackClosed"}, End(how)
    PROVE  StepMoves
BY TypesEnd DEF StepMoves, End

LEMMA StopMoves == ASSUME Types, Stop PROVE StepMoves
<1>1. StopQueued
  BY DEF Stop, StopQueued, Enqueue, AnyTopic
<1>2. tasks' \in Seq(Tasks)
  BY <1>1, TaskTypes, Queues DEF Types, StopQueued
<1>3. Types'
  BY <1>1, <1>2 DEF Types, StopQueued
<1>. QED  BY <1>1, <1>3, StaysRunning DEF Moves, StopQueued

LEMMA KeepAliveMoves == ASSUME Types, KeepAlive PROVE StepMoves
<1>1. KeptAlive
  BY DEF KeepAlive, KeptAlive, AnyTopic
<1>2. up' \in Seq(Tasks)
  BY <1>1, TaskTypes DEF KeptAlive
<1>3. Types'
  BY <1>1, <1>2 DEF Types, KeptAlive
<1>. QED  BY <1>1, <1>3, StaysRunning DEF Moves, KeptAlive

LEMMA CallStepMoves == ASSUME Types, NEW c \in Calls, CallStep(c) PROVE StepMoves
<1>1. CASE Invoke(c)
  <2>1. PICK k \in Kinds, t \in Topics, r \in Nat, before \in SUBSET Calls :
           InvokedAs(c, k, t, r, before)
    BY <1>1, Invoked
  <2>2. Types' /\ CallIsMade /\ status' = status
    BY <2>1, TypesInvoked DEF CallIsMade, InvokedAs
  <2>. QED  BY <2>2, StaysRunning DEF Moves
<1>2. CASE ~Invoke(c)
  <2>1. UserMoves
    BY <1>2, CallerMoves
  <2>2. Types' /\ status' = status
    BY <2>1, TypesUser DEF UserMoves
  <2>. QED  BY <2>1, <2>2, StaysRunning DEF Moves
<1>. QED  BY <1>1, <1>2

LEMMA CoreSendMoves == ASSUME Types, CoreSend PROVE StepMoves
<1>1. CASE Types' /\ SentAs(Task)
  BY <1>1, StaysRunning DEF Moves, SentAs
<1>2. CASE /\ Ends
           /\ status' = "panicked" => UnservesNothing
           /\ status' = "ClaimRejected" => NextTask({"Srv"}) /\ ClaimFails
  <2>1. Running
    BY DEF CoreSend, SendPlain, SendReq, SendSub, SendUnsub, SendSrv, SendUnsrv, TakeStop, NextTask
  <2>. QED  BY <1>2, <2>1 DEF Ends, StepMoves
<1>. QED  BY <1>1, <1>2, CoreSends

LEMMA CoreReceiveMoves ==
    ASSUME Types, Running => CallbacksThere, CoreReceive
    PROVE  StepMoves
<1>1. Running /\ CallbacksThere
  BY DEF CoreReceive, ReceiveAck, ReceiveRsp, ReceivePub, ReceiveReq, Received
<1>2. CASE ReceiveAck
  <2>1. Types' /\ AckTaken(Message)
    BY <1>2, AckReceived
  <2>2. status' = status
    BY <2>1 DEF AckTaken, Receives
  <2>. QED  BY <2>1, <2>2, StaysRunning DEF Moves
<1>3. CASE ReceiveRsp
  <2>1. CASE Message.id \in core.rsp
    <3>1. Types' /\ RspTaken(Message)
      BY <1>3, <2>1, RspReceived
    <3>2. status' = status
      BY <3>1 DEF RspTaken, Receives
    <3>. QED  BY <3>1, <3>2, StaysRunning DEF Moves
  <2>2. CASE Message.id \notin core.rsp
    <3>1. End("panicked") /\ AnsweredUnexpectedly
      BY <1>3, <2>2 DEF ReceiveRsp, AnsweredUnexpectedly, Received, Message
    <3>2. Types' /\ ~Running' /\ status' = "panicked"
      BY <3>1, TypesEnd DEF End
    <3>. QED  BY <1>1, <3>1, <3>2 DEF StepMoves
  <2>. QED  BY <2>1, <2>2
<1>4. CASE ReceivePub
  <2>1. Types' /\ \E q : PubTaken(Message, q)
    BY <1>1, <1>4, PubReceived
  <2>2. status' = status
    BY <2>1 DEF PubTaken, Receives
  <2>. QED  BY <2>1, <2>2, StaysRunning DEF Moves
<1>5. CASE ReceiveReq
  <2>1. CASE Types' /\ ReqTaken(Message)
    <3>1. status' = status
      BY <2>1 DEF ReqTaken, Receives
    <3>. QED  BY <2>1, <3>1, StaysRunning DEF Moves
  <2>2. CASE Ends /\ status' = "CallbackClosed"
    BY <2>2 DEF Ends, StepMoves
  <2>. QED  BY <1>1, <1>5, <2>1, <2>2, ReqReceived
<1>. QED  BY <1>2, <1>3, <1>4, <1>5 DEF CoreReceive

LEMMA TookMoves == ASSUME Types, NEW q, BusTook(Asked, q) PROVE StepMoves
<1>1. status' = status
  BY DEF BusTook, BusMoves
<1>. QED  BY <1>1, TypesTook, StaysRunning DEF Moves

LEMMA ElsewhereMoves == ASSUME Types, NEW q, BusElsewhere(q) PROVE StepMoves
<1>1. status' = status
  BY DEF BusElsewhere, BusMoves
<1>. QED  BY <1>1, TypesElsewhere, StaysRunning DEF Moves

LEMMA LosesMoves == ASSUME Types, Loses PROVE StepMoves
<1>1. status' = status
  BY DEF Loses
<1>. QED  BY <1>1, TypesLost, StaysRunning DEF Moves

LEMMA BusStepMoves == ASSUME Types, BusStep PROVE StepMoves
<1>1. CASE BusStop
  BY <1>1, BusStopLoses, LosesMoves
<1>2. CASE ~BusStop
  <2>1. \E q : BusTook(Asked, q)
    BY <1>2, BusSubTook, BusUnsubTook, BusSrvTook, BusUnsrvTook, BusPubTook, BusReqTook,
       BusRspTook, BusKeepAliveTook DEF BusStep
  <2>. QED  BY <2>1, TookMoves
<1>. QED  BY <1>1, <1>2

LEMMA NextMoves ==
    ASSUME Types, Running => CallbacksThere, [Next]_vars
    PROVE  StepMoves
<1>1. CASE UNCHANGED vars
  <2>1. Types'
    BY <1>1 DEF vars, Types
  <2>. QED  BY <1>1, <2>1, StaysRunning DEF Moves, vars
<1>2. CASE Disconnected
  BY <1>2, EndsWell DEF Disconnected
<1>3. CASE ConnectionLost
  <2>1. Loses
    BY <1>3 DEF ConnectionLost, Loses
  <2>. QED  BY <2>1, LosesMoves
<1>4. CASE OthersStep
  <2>1. Contested \subseteq Topics
    BY ClientAssumption DEF Contested
  <2>2. CASE \E t \in Topics : OthersPublish(t) \/ OthersRequest(t) \/ OthersServe(t)
    BY <2>2, OthersPublishMoves, OthersRequestMoves, OthersServeMoves, ElsewhereMoves
  <2>3. CASE \E p \in bus.pending : OthersAnswer(p)
    BY <2>3, OthersAnswerMoves, ElsewhereMoves
  <2>4. CASE OthersLeave
    BY <2>4, OthersLeaveMoves, ElsewhereMoves
  <2>. QED  BY <1>4, <2>1, <2>2, <2>3, <2>4 DEF OthersStep
<1>. QED
  BY <1>1, <1>2, <1>3, <1>4, CallStepMoves, StopMoves, CoreSendMoves,
     CoreReceiveMoves, KeepAliveMoves, BusStepMoves DEF Next

-----------------------------------------------------------------------------
(* A call makes one message: MessagesOnce *)

LEMMA CarriesAppend ==
    ASSUME NEW q \in Seq(Tasks), NEW x \in Tasks, NEW c
    PROVE  Carries(Append(q, x), c) <=> Carries(q, c) \/ x.id = c
<1>. DEFINE r == Append(q, x)
<1>1. /\ Len(r) = Len(q) + 1 /\ Len(q) \in Nat /\ r[Len(q) + 1] = x
      /\ \A i \in 1..Len(q) : r[i] = q[i]
  BY Queues
<1>. HIDE DEF r
<1>2. ASSUME Carries(r, c) PROVE Carries(q, c) \/ x.id = c
  BY <1>1, <1>2 DEF Carries
<1>3. ASSUME Carries(q, c) PROVE Carries(r, c)
  BY <1>1, <1>3 DEF Carries
<1>4. ASSUME x.id = c PROVE Carries(r, c)
  BY <1>1, <1>4 DEF Carries
<1>. QED  BY <1>2, <1>3, <1>4 DEF r

LEMMA CarriesTail ==
    ASSUME NEW q \in Seq(Tasks), q # <<>>, NEW c
    PROVE  Carries(q, c) <=> q[1].id = c \/ Carries(Tail(q), c)
<1>. DEFINE r == Tail(q)
<1>1. /\ Len(r) = Len(q) - 1 /\ Len(q) \in Nat /\ 1 \in 1..Len(q)
      /\ \A i \in 1..Len(r) : r[i] = q[i + 1]
  BY Queues
<1>. HIDE DEF r
<1>2. ASSUME Carries(q, c) PROVE q[1].id = c \/ Carries(r, c)
  <2>1. PICK i \in 1..Len(q) : q[i].id = c
    BY <1>2 DEF Carries
  <2>2. CASE i # 1
    <3>1. i - 1 \in 1..Len(r) /\ r[i - 1] = q[i]
      BY <1>1, <2>2
    <3>. QED  BY <2>1, <3>1 DEF Carries
  <2>. QED  BY <2>1, <2>2
<1>3. ASSUME Carries(r, c) PROVE Carries(q, c)
  <2>1. PICK i \in 1..Len(r) : r[i].id = c
    BY <1>3 DEF Carries
  <2>2. i + 1 \in 1..Len(q) /\ q[i + 1].id = c
    BY <1>1, <2>1
  <2>. QED  BY <2>2 DEF Carries
<1>4. ASSUME q[1].id = c PROVE Carries(q, c)
  BY <1>1, <1>4 DEF Carries
<1>. QED  BY <1>2, <1>3, <1>4 DEF r

LEMMA OnceAppend ==
    ASSUME NEW q \in Seq(Tasks), NEW x \in Tasks, NEW cs, Once(q, cs),
           x.id # NoCall => /\ cs[x.id].stage # "none"
                            /\ x.type = TaskType(cs[x.id].kind)
                            /\ x.topic = cs[x.id].topic
                            /\ ~Carries(q, x.id)
    PROVE  Once(Append(q, x), cs)
<1>. DEFINE r == Append(q, x)
<1>1. /\ Len(r) = Len(q) + 1 /\ Len(q) \in Nat /\ r[Len(q) + 1] = x
      /\ \A i \in 1..Len(q) : r[i] = q[i]
  BY Queues
<1>. HIDE DEF r
<1>2. \A i \in 1..Len(r) : (i \in 1..Len(q) /\ r[i] = q[i]) \/ (i = Len(q) + 1 /\ r[i] = x)
  BY <1>1
<1>3. \A i \in 1..Len(q) : x.id # NoCall => q[i].id # x.id
  BY DEF Carries
<1>4. Once(r, cs)
  <2>. SUFFICES ASSUME NEW i \in 1..Len(r), r[i].id # NoCall
                PROVE  /\ cs[r[i].id].stage # "none"
                       /\ r[i].type = TaskType(cs[r[i].id].kind)
                       /\ r[i].topic = cs[r[i].id].topic
                       /\ \A j \in 1..Len(r) : r[j].id = r[i].id => i = j
    BY DEF Once
  <2>1. CASE i \in 1..Len(q) /\ r[i] = q[i]
    BY <1>2, <1>3, <2>1 DEF Once
  <2>2. CASE i = Len(q) + 1 /\ r[i] = x
    BY <1>2, <1>3, <2>2
  <2>. QED  BY <1>2, <2>1, <2>2
<1>. QED  BY <1>4 DEF r

LEMMA OnceTail ==
    ASSUME NEW q \in Seq(Tasks), q # <<>>, NEW cs, Once(q, cs)
    PROVE  /\ Once(Tail(q), cs)
           /\ q[1].id # NoCall => /\ ~Carries(Tail(q), q[1].id)
                                  /\ cs[q[1].id].stage # "none"
                                  /\ q[1].type = TaskType(cs[q[1].id].kind)
                                  /\ q[1].topic = cs[q[1].id].topic
<1>. DEFINE r == Tail(q)
<1>1. /\ Len(r) = Len(q) - 1 /\ Len(q) \in Nat /\ 1 \in 1..Len(q)
      /\ \A i \in 1..Len(r) : r[i] = q[i + 1]
  BY Queues
<1>. HIDE DEF r
<1>2. \A i \in 1..Len(r) : i + 1 \in 1..Len(q) /\ r[i] = q[i + 1]
  BY <1>1
<1>3. Once(r, cs)
  <2>. SUFFICES ASSUME NEW i \in 1..Len(r), r[i].id # NoCall
                PROVE  /\ cs[r[i].id].stage # "none"
                       /\ r[i].type = TaskType(cs[r[i].id].kind)
                       /\ r[i].topic = cs[r[i].id].topic
                       /\ \A j \in 1..Len(r) : r[j].id = r[i].id => i = j
    BY DEF Once
  <2>1. /\ cs[r[i].id].stage # "none"
        /\ r[i].type = TaskType(cs[r[i].id].kind)
        /\ r[i].topic = cs[r[i].id].topic
        /\ \A j \in 1..Len(q) : q[j].id = q[i + 1].id => i + 1 = j
    BY <1>2 DEF Once
  <2>2. \A j \in 1..Len(r) : r[j].id = r[i].id => i = j
    BY <1>2, <2>1
  <2>. QED  BY <2>1, <2>2
<1>4. q[1].id # NoCall => \A j \in 1..Len(q) : q[j].id = q[1].id => 1 = j
  BY <1>1 DEF Once
<1>5. q[1].id # NoCall => ~Carries(r, q[1].id)
  <2>. SUFFICES ASSUME q[1].id # NoCall, NEW i \in 1..Len(r), r[i].id = q[1].id PROVE FALSE
    BY DEF Carries
  <2>. QED  BY <1>2, <1>4
<1>6. q[1].id # NoCall => /\ cs[q[1].id].stage # "none"
                          /\ q[1].type = TaskType(cs[q[1].id].kind)
                          /\ q[1].topic = cs[q[1].id].topic
  BY <1>1 DEF Once
<1>. QED  BY <1>3, <1>5, <1>6 DEF r

LEMMA OnceMoves ==
    ASSUME CallsMove, NEW q \in Seq(Tasks), Once(q, calls)
    PROVE  Once(q, calls')
<1>. SUFFICES ASSUME NEW i \in 1..Len(q), q[i].id # NoCall
              PROVE  /\ calls'[q[i].id].stage # "none"
                     /\ q[i].type = TaskType(calls'[q[i].id].kind)
                     /\ q[i].topic = calls'[q[i].id].topic
                     /\ \A j \in 1..Len(q) : q[j].id = q[i].id => i = j
  BY DEF Once
<1>. DEFINE c == q[i].id
<1>1. c \in Calls
  BY Queues, TaskFields
<1>2. CallMoves(calls[c], calls'[c])
  BY <1>1 DEF CallsMove
<1>3. /\ calls[c].stage # "none" /\ q[i].type = TaskType(calls[c].kind)
      /\ q[i].topic = calls[c].topic
      /\ \A j \in 1..Len(q) : q[j].id = c => i = j
  BY DEF Once
<1>. HIDE DEF c
<1>4. /\ calls'[c].stage # "none" /\ q[i].type = TaskType(calls'[c].kind)
      /\ q[i].topic = calls'[c].topic
  BY <1>2, <1>3 DEF CallMoves
<1>. QED  BY <1>3, <1>4 DEF c

LEMMA UnsentMoves ==
    ASSUME CallsMove, NEW c \in Calls, Carries(tasks', c) => Carries(tasks, c), Unsent(c)'
    PROVE  Unsent(c)
BY DEF CallsMove, CallMoves, Unsent, Carries

LEMMA OnceStays ==
    ASSUME MessagesOnce, CallsMove, Once(tasks', calls'), Once(up', calls'),
           \A c \in Calls : Carries(tasks', c) => Carries(tasks, c),
           \A c \in Calls : Carries(up', c) => Carries(up, c),
           core'.rsp \subseteq core.rsp, core'.subs \subseteq core.subs,
           core'.owner = core.owner,
           \A c \in Calls : Unasked(c) => calls'[c].ack = calls[c].ack,
           \A c \in Calls : Unasked(c)' => 
              /\ \A i \in 1..Len(down') : down'[i].type \in {"Ack", "Rsp"} => down'[i].id # c
              /\ \A p \in bus'.pending : p.requester # c
    PROVE  MessagesOnce'
<1>1. \A c \in Calls : Unsent(c)' => Unsent(c)
  BY UnsentMoves
<1>2. \A c \in Calls : Unsent(c)' =>
         /\ ~Carries(up', c)
         /\ c \notin core'.rsp
         /\ \A t \in Topics : core'.owner[t] # c
         /\ \A t \in Topics : <<c, t>> \notin core'.subs
  BY <1>1 DEF MessagesOnce
<1>3. \A c \in Calls : Unasked(c)' => Unasked(c)
  <2>. SUFFICES ASSUME NEW c \in Calls, Unasked(c)' PROVE Unasked(c)
    OBVIOUS
  <2>1. Unsent(c)' \/ Carries(up', c)
    BY DEF Unasked, Unsent, Carries
  <2>. QED  BY <1>1, <2>1 DEF Unasked
<1>4. \A c \in Calls : Unasked(c)' =>
         /\ calls'[c].ack = "empty"
         /\ \A i \in 1..Len(down') : down'[i].type \in {"Ack", "Rsp"} => down'[i].id # c
         /\ \A p \in bus'.pending : p.requester # c
  BY <1>3 DEF MessagesOnce
<1>. HIDE DEF Unsent, Unasked
<1>. QED  BY <1>2, <1>4 DEF MessagesOnce, Carries, Once

LEMMA OnceMade ==
    ASSUME Types, MessagesOnce, CallIsMade
    PROVE  MessagesOnce'
<1>1. PICK c \in Calls, k \in Kinds, t \in Topics, r \in Nat, before \in SUBSET Calls :
         InvokedAs(c, k, t, r, before)
  BY DEF CallIsMade
<1>. DEFINE x == TaskOf(TaskType(k), c, t, r)
<1>2. /\ calls[c].stage = "none" /\ Unsent(c)
      /\ calls'[c] = Call(k, t, r, before)
      /\ \A d \in Calls : d # c => calls'[d] = calls[d]
      /\ tasks' = Append(tasks, x)
      /\ UNCHANGED <<core, status, up, down, conn, bus>>
  BY <1>1 DEF InvokedAs, Types, Unsent
<1>3. x \in Tasks /\ x.id = c /\ x.type = TaskType(k) /\ x.topic = t
  BY TaskTypes DEF TaskOf
<1>. HIDE DEF x
<1>4. /\ calls'[c].kind = k /\ calls'[c].topic = t /\ calls'[c].stage = "acking"
      /\ calls'[c].ack = "empty"
  BY <1>2, CallFieldsOf
<1>5. ASSUME NEW q \in Seq(Tasks), Once(q, calls)
      PROVE  ~Carries(q, c) /\ Once(q, calls')
  <2>1. \A i \in 1..Len(q) : q[i].id # c
    BY <1>2, <1>5, NoCallIsNone DEF Once
  <2>2. \A i \in 1..Len(q) : q[i].id # NoCall => calls'[q[i].id] = calls[q[i].id]
    BY <1>2, <2>1, Queues, TaskFields
  <2>. QED  BY <1>5, <2>1, <2>2 DEF Once, Carries
<1>6. /\ ~Carries(tasks, c) /\ ~Carries(up, c)
      /\ Once(tasks, calls') /\ Once(up, calls')
  BY <1>5 DEF MessagesOnce, Types
<1>7. Once(tasks', calls')
  BY <1>2, <1>3, <1>4, <1>6, OnceAppend DEF Types
<1>8. \A d \in Calls : Carries(tasks', d) <=> Carries(tasks, d) \/ d = c
  BY <1>2, <1>3, CarriesAppend DEF Types
<1>9. \A d \in Calls : Unsent(d)' => Unsent(d)
  BY <1>2, <1>8 DEF Unsent, Carries
<1>10. \A d \in Calls : Unasked(d)' => Unasked(d)
  BY <1>2, <1>9 DEF Unasked, Carries
<1>11. \A d \in Calls : Unasked(d)' => calls'[d].ack = "empty"
  BY <1>2, <1>4, <1>10 DEF MessagesOnce
<1>. HIDE DEF Unsent, Unasked
<1>12. \A d \in Calls : Unsent(d)' =>
          /\ ~Carries(up', d)
          /\ d \notin core'.rsp
          /\ \A u \in Topics : core'.owner[u] # d
          /\ \A u \in Topics : <<d, u>> \notin core'.subs
  BY <1>2, <1>9 DEF MessagesOnce
<1>13. \A d \in Calls : Unasked(d)' =>
          /\ \A i \in 1..Len(down') : down'[i].type \in {"Ack", "Rsp"} => down'[i].id # d
          /\ \A p \in bus'.pending : p.requester # d
  BY <1>2, <1>10 DEF MessagesOnce
<1>14. Once(up', calls')
  BY <1>2, <1>6
<1>. QED  BY <1>7, <1>11, <1>12, <1>13, <1>14 DEF MessagesOnce, Once, Carries

(* Where nothing is sent or taken, and what is new to do is of no call *)
LEMMA OnceWaits ==
    ASSUME Types, MessagesOnce, CallsMove, AcksKept,
           \/ tasks' = tasks
           \/ \E x \in Tasks : x.id = NoCall /\ tasks' = Append(tasks, x),
           UNCHANGED <<core, up, down, bus>>
    PROVE  MessagesOnce'
<1>1. Once(tasks, calls') /\ Once(up, calls')
  BY OnceMoves DEF MessagesOnce, Types
<1>2. Once(tasks', calls') /\ \A c \in Calls : Carries(tasks', c) => Carries(tasks, c)
  <2>1. CASE tasks' = tasks
    BY <1>1, <2>1
  <2>2. ASSUME NEW x \in Tasks, x.id = NoCall, tasks' = Append(tasks, x)
        PROVE  Once(tasks', calls') /\ \A c \in Calls : Carries(tasks', c) => Carries(tasks, c)
    <3>1. Once(tasks', calls')
      BY <1>1, <2>2, OnceAppend DEF Types
    <3>2. \A c \in Calls : Carries(tasks', c) => Carries(tasks, c)
      BY <2>2, CarriesAppend, NoCallIsNone DEF Types
    <3>. QED  BY <3>1, <3>2
  <2>. QED  BY <2>1, <2>2
<1>3. \A c \in Calls : Unasked(c)' => Unasked(c)
  BY <1>2, UnsentMoves DEF Unasked, Unsent, Carries
<1>4. \A c \in Calls : Unasked(c)' =>
         /\ \A i \in 1..Len(down') : down'[i].type \in {"Ack", "Rsp"} => down'[i].id # c
         /\ \A p \in bus'.pending : p.requester # c
  <2>. HIDE DEF Unasked
  <2>. QED  BY <1>3 DEF MessagesOnce
<1>5. Once(up', calls') /\ \A c \in Calls : Carries(up', c) => Carries(up, c)
  BY <1>1
<1>6. \A c \in Calls : calls'[c].ack = calls[c].ack
  BY DEF AcksKept
<1>. QED  BY <1>2, <1>4, <1>5, <1>6, OnceStays

(* Where the core sends a task *)
LEMMA OnceSent ==
    ASSUME Types, MessagesOnce, NEW x, SentAs(x)
    PROVE  MessagesOnce'
<1>1. SentAs(x)
  OBVIOUS
<1>2. /\ tasks \in Seq(Tasks) /\ up \in Seq(Tasks)
      /\ tasks # <<>> /\ x \in Tasks /\ x = tasks[1] /\ tasks' = Tail(tasks)
      /\ up' = (IF Open THEN Append(up, x) ELSE up)
      /\ UNCHANGED <<calls, down, bus>>
  BY <1>1 DEF SentAs, Types
<1>3. /\ Once(tasks', calls)
      /\ x.id # NoCall => /\ ~Carries(tasks', x.id)
                          /\ calls[x.id].stage # "none"
                          /\ x.type = TaskType(calls[x.id].kind)
                          /\ x.topic = calls[x.id].topic
  BY <1>2, OnceTail DEF MessagesOnce
<1>4. \A c \in Calls : Carries(tasks, c) <=> x.id = c \/ Carries(tasks', c)
  BY <1>2, CarriesTail
<1>5. \A c \in Calls : Carries(up', c) => Carries(up, c) \/ x.id = c
  BY <1>2, CarriesAppend
<1>6. x.id # NoCall => x.id \in Calls /\ Unsent(x.id) /\ ~Unsent(x.id)' /\ ~Carries(up, x.id)
  <2>. SUFFICES ASSUME x.id # NoCall
                PROVE  x.id \in Calls /\ Unsent(x.id) /\ ~Unsent(x.id)' /\ ~Carries(up, x.id)
    OBVIOUS
  <2>1. x.id \in Calls
    BY <1>2, TaskFields
  <2>2. Unsent(x.id)
    BY <1>4, <2>1 DEF Unsent
  <2>3. ~Unsent(x.id)'
    BY <1>2, <1>3 DEF Unsent, Carries
  <2>. QED  BY <2>1, <2>2, <2>3 DEF MessagesOnce
<1>7. Once(up', calls)
  <2>1. CASE Open
    <3>1. Once(Append(up, x), calls)
      BY <1>2, <1>3, <1>6, OnceAppend DEF MessagesOnce
    <3>. QED  BY <1>2, <2>1, <3>1
  <2>2. CASE ~Open
    BY <1>2, <2>2 DEF MessagesOnce
  <2>. QED  BY <2>1, <2>2
<1>8. \A c \in Calls : Unsent(c)' => Unsent(c) /\ c # x.id
  <2>. SUFFICES ASSUME NEW c \in Calls, Unsent(c)' PROVE Unsent(c) /\ c # x.id
    OBVIOUS
  <2>1. c # x.id
    BY <1>6, NoCallIsNone
  <2>2. calls[c].stage = "none" \/ Carries(tasks', c)
    BY <1>2 DEF Unsent, Carries
  <2>. QED  BY <1>4, <2>1, <2>2 DEF Unsent
<1>9. \A c \in Calls : Unasked(c)' => Unasked(c)
  <2>. SUFFICES ASSUME NEW c \in Calls, Unasked(c)' PROVE Unasked(c)
    OBVIOUS
  <2>1. Unsent(c)' \/ Carries(up', c)
    BY DEF Unasked, Unsent, Carries
  <2>. QED  BY <1>5, <1>6, <1>8, <2>1, NoCallIsNone DEF Unasked
<1>10. \A c \in Calls : c # x.id =>
          /\ c \in core'.rsp => c \in core.rsp
          /\ \A t \in Topics : core'.owner[t] = c => core.owner[t] = c
          /\ \A t \in Topics : <<c, t>> \in core'.subs => <<c, t>> \in core.subs
  <2>. SUFFICES ASSUME NEW c \in Calls, c # x.id
                PROVE  /\ c \in core'.rsp => c \in core.rsp
                       /\ \A t \in Topics : core'.owner[t] = c => core.owner[t] = c
                       /\ \A t \in Topics : <<c, t>> \in core'.subs => <<c, t>> \in core.subs
    OBVIOUS
  <2>1. c \in core'.rsp => c \in core.rsp
    BY <1>1 DEF SentAs
  <2>2. \A t \in Topics : <<c, t>> \in core'.subs => <<c, t>> \in core.subs
    BY <1>1 DEF SentAs
  <2>3. c # NoOwner
    BY NoCallIsNone DEF NoCall, NoOwner
  <2>4. \A t \in Topics : core'.owner[t] = c => core.owner[t] = c
    BY <1>1, <2>3, CoreFields DEF SentAs
  <2>. QED  BY <2>1, <2>2, <2>4
<1>11. \A c \in Calls : Unsent(c)' =>
          /\ ~Carries(up', c)
          /\ c \notin core'.rsp
          /\ \A t \in Topics : core'.owner[t] # c
          /\ \A t \in Topics : <<c, t>> \notin core'.subs
  <2>. HIDE DEF Unsent
  <2>. QED  BY <1>5, <1>8, <1>10 DEF MessagesOnce
<1>12. \A c \in Calls : Unasked(c)' =>
          /\ calls'[c].ack = "empty"
          /\ \A i \in 1..Len(down') : down'[i].type \in {"Ack", "Rsp"} => down'[i].id # c
          /\ \A p \in bus'.pending : p.requester # c
  <2>. HIDE DEF Unasked
  <2>. QED  BY <1>2, <1>9 DEF MessagesOnce
<1>13. Once(tasks', calls') /\ Once(up', calls')
  BY <1>2, <1>3, <1>7
<1>. QED  BY <1>11, <1>12, <1>13 DEF MessagesOnce, Once, Carries

LEMMA OnceConcat ==
    ASSUME NEW q \in Seq(Tasks), NEW r \in Seq(Tasks), NEW cs, Once(q, cs),
           \A i \in 1..Len(r) : r[i].id = NoCall
    PROVE  /\ Once(q \o r, cs)
           /\ \A c \in Calls : Carries(q \o r, c) => Carries(q, c)
<1>. DEFINE s == q \o r
<1>1. \A i \in 1..Len(s) : (i \in 1..Len(q) /\ s[i] = q[i]) \/ s[i].id = NoCall
  <2>1. /\ Len(s) = Len(q) + Len(r) /\ Len(q) \in Nat /\ Len(r) \in Nat
        /\ \A i \in 1..Len(q) : s[i] = q[i]
        /\ \A i \in (Len(q) + 1)..(Len(q) + Len(r)) :
              i - Len(q) \in 1..Len(r) /\ s[i] = r[i - Len(q)]
    BY Concatenations
  <2>. HIDE DEF s
  <2>. SUFFICES ASSUME NEW i \in 1..Len(s)
                PROVE (i \in 1..Len(q) /\ s[i] = q[i]) \/ s[i].id = NoCall
    OBVIOUS
  <2>2. i \in 1..Len(q) \/ i \in (Len(q) + 1)..(Len(q) + Len(r))
    BY <2>1
  <2>. QED  BY <2>1, <2>2
<1>. HIDE DEF s
<1>2. Once(s, cs)
  BY <1>1 DEF Once
<1>3. \A c \in Calls : Carries(s, c) => Carries(q, c)
  BY <1>1, NoCallIsNone DEF Carries
<1>. QED  BY <1>2, <1>3 DEF s

LEMMA TailMessages ==
    ASSUME Types, down # <<>>, down' = Tail(down)
    PROVE  /\ \A i \in 1..Len(down') : i + 1 \in 1..Len(down) /\ down'[i] = down[i + 1]
           /\ 1 \in 1..Len(down)
           /\ down[1] \in Messages
           /\ \A i \in 1..Len(down) : down[i] \in Messages
<1>. DEFINE q == Tail(down)
<1>1. /\ Len(q) = Len(down) - 1 /\ Len(down) \in Nat /\ 1 \in 1..Len(down)
      /\ \A i \in 1..Len(q) : q[i] = down[i + 1]
      /\ \A i \in 1..Len(down) : down[i] \in Messages
  BY Queues DEF Types
<1>. HIDE DEF q
<1>2. \A i \in 1..Len(q) : i + 1 \in 1..Len(down)
  BY <1>1
<1>. QED  BY <1>1, <1>2 DEF q

LEMMA OnceReceived ==
    ASSUME Types, MessagesOnce, NEW m, NEW type, Receives(m, type),
           core'.rsp \subseteq core.rsp, core'.subs \subseteq core.subs,
           \A c \in Calls : Unasked(c) => calls'[c].ack = calls[c].ack,
           NEW q \in Seq(Tasks), \A i \in 1..Len(q) : q[i].id = NoCall,
           up' = up \/ up' = up \o q
    PROVE  MessagesOnce'
<1>1. CallsMove
  BY KeptMoves DEF Receives
<1>2. Once(tasks', calls') /\ Once(up, calls') /\ tasks' = tasks
  BY <1>1, OnceMoves DEF MessagesOnce, Types, Receives
<1>3. Once(up', calls') /\ \A c \in Calls : Carries(up', c) => Carries(up, c)
  BY <1>2, OnceConcat DEF Types
<1>4. \A c \in Calls : Unasked(c)' => Unasked(c)
  <2>. SUFFICES ASSUME NEW c \in Calls, Unasked(c)' PROVE Unasked(c)
    OBVIOUS
  <2>1. Unsent(c)' => Unsent(c)
    BY <1>1, <1>2, UnsentMoves
  <2>2. Unsent(c)' \/ Carries(up', c)
    BY DEF Unasked, Unsent, Carries
  <2>. QED  BY <1>3, <2>1, <2>2 DEF Unasked
<1>5. \A i \in 1..Len(down') : i + 1 \in 1..Len(down) /\ down'[i] = down[i + 1]
  BY TailMessages DEF Receives
<1>6. bus' = bus /\ core'.owner = core.owner
  BY DEF Receives
<1>7. \A c \in Calls : Unasked(c)' =>
         /\ \A i \in 1..Len(down') : down'[i].type \in {"Ack", "Rsp"} => down'[i].id # c
         /\ \A p \in bus'.pending : p.requester # c
  <2>. HIDE DEF Unasked
  <2>. QED  BY <1>4, <1>5, <1>6 DEF MessagesOnce
<1>8. \A c \in Calls : Carries(tasks', c) => Carries(tasks, c)
  BY <1>2
<1>. QED  BY <1>1, <1>2, <1>3, <1>6, <1>7, <1>8, OnceStays

LEMMA OnceAckTaken == ASSUME Types, MessagesOnce, NEW m, AckTaken(m) PROVE MessagesOnce'
<1>. DEFINE q == <<>>
<1>1. q \in Seq(Tasks) /\ \A i \in 1..Len(q) : q[i].id = NoCall
  OBVIOUS
<1>. HIDE DEF q
<1>2. Receives(m, "Ack")
  BY DEF AckTaken
<1>3. 1 \in 1..Len(down) /\ m = down[1] /\ m.type = "Ack"
  BY <1>2, TailMessages DEF Receives
<1>4. \A c \in Calls : Unasked(c) => calls'[c].ack = calls[c].ack
  <2>. HIDE DEF Unasked
  <2>. QED  BY <1>3 DEF MessagesOnce, AckTaken
<1>. QED  BY <1>1, <1>2, <1>4, OnceReceived DEF AckTaken

LEMMA OnceTaken ==
    ASSUME Types, MessagesOnce, NEW m, RspTaken(m) \/ ReqTaken(m)
    PROVE  MessagesOnce'
<1>. DEFINE q == <<>>
<1>1. q \in Seq(Tasks) /\ \A i \in 1..Len(q) : q[i].id = NoCall
  OBVIOUS
<1>. HIDE DEF q
<1>2. \A c \in Calls : calls'[c].ack = calls[c].ack
  BY DEF RspTaken, ReqTaken, AcksKept
<1>3. CASE RspTaken(m)
  BY <1>1, <1>2, <1>3, OnceReceived DEF RspTaken
<1>4. CASE ReqTaken(m)
  BY <1>1, <1>2, <1>4, OnceReceived DEF ReqTaken
<1>. QED  BY <1>3, <1>4

LEMMA OncePubTaken ==
    ASSUME Types, MessagesOnce, NEW m, NEW q, PubTaken(m, q)
    PROVE  MessagesOnce'
<1>1. /\ Receives(m, "Pub") /\ q \in Seq(Tasks) /\ \A i \in 1..Len(q) : q[i].id = NoCall
      /\ up' = up \/ up' = up \o q
      /\ core'.rsp \subseteq core.rsp /\ core'.subs \subseteq core.subs
      /\ \A c \in Calls : calls'[c].ack = calls[c].ack
  BY DEF PubTaken, AcksKept
<1>. QED  BY <1>1, OnceReceived

LEMMA DownConcat ==
    ASSUME Types, NEW q \in Seq(Messages), down' = down \o q
    PROVE  /\ Len(down') = Len(down) + Len(q) /\ Len(down) \in Nat /\ Len(q) \in Nat
           /\ \A i \in 1..Len(down) : i \in 1..Len(down') /\ down'[i] = down[i]
           /\ \A i \in 1..Len(down') :
                 \/ i \in 1..Len(down) /\ down'[i] = down[i]
                 \/ /\ i - Len(down) \in 1..Len(q) /\ down'[i] = q[i - Len(down)]
                    /\ i > Len(down)
           /\ \A i \in 1..Len(q) : q[i] \in Messages
<1>. DEFINE r == down \o q
<1>1. /\ Len(r) = Len(down) + Len(q) /\ Len(down) \in Nat /\ Len(q) \in Nat
      /\ \A i \in 1..Len(down) : r[i] = down[i]
      /\ \A i \in (Len(down) + 1)..(Len(down) + Len(q)) :
            i - Len(down) \in 1..Len(q) /\ r[i] = q[i - Len(down)]
  BY Concatenations DEF Types
<1>. HIDE DEF r
<1>2. \A i \in 1..Len(r) : \/ i \in 1..Len(down) /\ r[i] = down[i]
                           \/ /\ i - Len(down) \in 1..Len(q) /\ r[i] = q[i - Len(down)]
                              /\ i > Len(down)
  <2>. SUFFICES ASSUME NEW i \in 1..Len(r), ~(i \in 1..Len(down))
                PROVE  i \in (Len(down) + 1)..(Len(down) + Len(q)) /\ i > Len(down)
    BY <1>1
  <2>. QED  BY <1>1
<1>3. \A i \in 1..Len(down) : i \in 1..Len(r) /\ r[i] = down[i]
  BY <1>1
<1>4. \A i \in 1..Len(q) : q[i] \in Messages
  OBVIOUS
<1>. QED  BY <1>1, <1>2, <1>3, <1>4 DEF r

LEMMA OnceTook ==
    ASSUME Types, MessagesOnce, NEW x, NEW q, BusTook(x, q)
    PROVE  MessagesOnce'
<1>1. /\ up \in Seq(Tasks) /\ up # <<>> /\ x \in Tasks /\ x = up[1] /\ up' = Tail(up)
      /\ UNCHANGED <<core, status, tasks, calls>>
      /\ q \in Seq(Messages) /\ down' = down \o q
  BY DEF BusTook, BusMoves, Types
<1>2. /\ Once(up', calls)
      /\ x.id # NoCall => ~Carries(up', x.id) /\ calls[x.id].stage # "none"
  BY <1>1, OnceTail DEF MessagesOnce
<1>3. \A c \in Calls : Carries(up, c) <=> x.id = c \/ Carries(up', c)
  BY <1>1, CarriesTail
<1>4. CallsMove
  BY <1>1, CallsStay
<1>5. \A c \in Calls : Unasked(c)' => Unasked(c) /\ c # x.id
  <2>. SUFFICES ASSUME NEW c \in Calls, Unasked(c)' PROVE Unasked(c) /\ c # x.id
    OBVIOUS
  <2>1. Unsent(c) \/ Carries(up', c)
    BY <1>1 DEF Unasked, Unsent, Carries
  <2>2. c # x.id
    <3>. SUFFICES ASSUME c = x.id PROVE FALSE
      OBVIOUS
    <3>1. Carries(up, c) /\ ~Carries(up', c)
      BY <1>2, <1>3, NoCallIsNone
    <3>. QED  BY <2>1, <3>1 DEF MessagesOnce
  <2>. QED  BY <1>3, <2>1, <2>2 DEF Unasked
<1>6. \A c \in Calls : Unasked(c) /\ c # x.id =>
         /\ \A i \in 1..Len(down') : down'[i].type \in {"Ack", "Rsp"} => down'[i].id # c
         /\ \A p \in bus'.pending : p.requester # c
  <2>. SUFFICES ASSUME NEW c \in Calls, Unasked(c), c # x.id
                PROVE  /\ \A i \in 1..Len(down') :
                             down'[i].type \in {"Ack", "Rsp"} => down'[i].id # c
                       /\ \A p \in bus'.pending : p.requester # c
    OBVIOUS
  <2>1. /\ \A i \in 1..Len(down) : down[i].type \in {"Ack", "Rsp"} => down[i].id # c
        /\ \A p \in bus.pending : p.requester # c
    BY DEF MessagesOnce
  <2>2. \A i \in 1..Len(q) : q[i].type \in {"Ack", "Rsp"} => q[i].id # c
    BY <2>1 DEF BusTook, BusMoves
  <2>3. \A i \in 1..Len(down') : down'[i].type \in {"Ack", "Rsp"} => down'[i].id # c
    <3>. SUFFICES ASSUME NEW i \in 1..Len(down'), down'[i].type \in {"Ack", "Rsp"}
                  PROVE  down'[i].id # c
      OBVIOUS
    <3>1. \/ i \in 1..Len(down) /\ down'[i] = down[i]
          \/ i - Len(down) \in 1..Len(q) /\ down'[i] = q[i - Len(down)]
      BY <1>1, DownConcat
    <3>. QED  BY <2>1, <2>2, <3>1
  <2>4. \A p \in bus'.pending : p.requester # c
    BY <2>1 DEF BusTook
  <2>. QED  BY <2>3, <2>4
<1>7. Once(tasks', calls') /\ Once(up', calls')
  BY <1>1, <1>2 DEF MessagesOnce
<1>8. /\ \A c \in Calls : Carries(tasks', c) => Carries(tasks, c)
      /\ \A c \in Calls : Carries(up', c) => Carries(up, c)
  BY <1>1, <1>3
<1>9. \A c \in Calls : Unasked(c)' =>
         /\ \A i \in 1..Len(down') : down'[i].type \in {"Ack", "Rsp"} => down'[i].id # c
         /\ \A p \in bus'.pending : p.requester # c
  <2>. HIDE DEF Unasked
  <2>. QED  BY <1>5, <1>6
<1>. QED  BY <1>1, <1>4, <1>7, <1>8, <1>9, OnceStays

LEMMA OnceElsewhere ==
    ASSUME Types, MessagesOnce, NEW q, BusElsewhere(q)
    PROVE  MessagesOnce'
<1>1. /\ UNCHANGED <<core, status, tasks, calls, up>>
      /\ q \in Seq(Messages) /\ down' = down \o q
  BY DEF BusElsewhere, BusMoves
<1>2. CallsMove
  BY <1>1, CallsStay
<1>3. \A c \in Calls : Unasked(c)' => Unasked(c)
  BY <1>1 DEF Unasked, Unsent, Carries
<1>4. \A c \in Calls : Unasked(c) =>
         /\ \A i \in 1..Len(down') : down'[i].type \in {"Ack", "Rsp"} => down'[i].id # c
         /\ \A p \in bus'.pending : p.requester # c
  <2>. SUFFICES ASSUME NEW c \in Calls, Unasked(c)
                PROVE  /\ \A i \in 1..Len(down') :
                             down'[i].type \in {"Ack", "Rsp"} => down'[i].id # c
                       /\ \A p \in bus'.pending : p.requester # c
    OBVIOUS
  <2>1. /\ \A i \in 1..Len(down) : down[i].type \in {"Ack", "Rsp"} => down[i].id # c
        /\ \A p \in bus.pending : p.requester # c
    BY DEF MessagesOnce
  <2>2. \A i \in 1..Len(q) : q[i].type \in {"Ack", "Rsp"} => q[i].id # c
    BY <2>1 DEF BusElsewhere, BusMoves
  <2>3. \A i \in 1..Len(down') : down'[i].type \in {"Ack", "Rsp"} => down'[i].id # c
    <3>. SUFFICES ASSUME NEW i \in 1..Len(down'), down'[i].type \in {"Ack", "Rsp"}
                  PROVE  down'[i].id # c
      OBVIOUS
    <3>1. \/ i \in 1..Len(down) /\ down'[i] = down[i]
          \/ i - Len(down) \in 1..Len(q) /\ down'[i] = q[i - Len(down)]
      BY <1>1, DownConcat
    <3>. QED  BY <2>1, <2>2, <3>1
  <2>4. \A p \in bus'.pending : p.requester # c
    BY <2>1, NoCallIsNone DEF BusElsewhere
  <2>. QED  BY <2>3, <2>4
<1>5. Once(tasks', calls') /\ Once(up', calls')
  BY <1>1 DEF MessagesOnce
<1>6. /\ \A c \in Calls : Carries(tasks', c) => Carries(tasks, c)
      /\ \A c \in Calls : Carries(up', c) => Carries(up, c)
  BY <1>1
<1>7. \A c \in Calls : Unasked(c)' =>
         /\ \A i \in 1..Len(down') : down'[i].type \in {"Ack", "Rsp"} => down'[i].id # c
         /\ \A p \in bus'.pending : p.requester # c
  <2>. HIDE DEF Unasked
  <2>. QED  BY <1>3, <1>4
<1>. QED  BY <1>1, <1>2, <1>5, <1>6, <1>7, OnceStays

LEMMA OnceKeptAlive == ASSUME Types, MessagesOnce, KeptAlive PROVE MessagesOnce'
<1>. DEFINE x == TaskOf("KeepAlive", NoCall, AnyTopic, 0)
<1>1. /\ UNCHANGED <<core, tasks, calls, down, bus>> /\ up' = <<x>>
  BY DEF KeptAlive
<1>2. x.id = NoCall
  BY DEF TaskOf
<1>. HIDE DEF x
<1>3. \A i \in 1..Len(up') : up'[i].id = NoCall
  BY <1>1, <1>2
<1>4. Once(up', calls') /\ \A c \in Calls : Carries(up', c) => Carries(up, c)
  BY <1>3, NoCallIsNone DEF Once, Carries
<1>5. \A c \in Calls : Unasked(c)' => Unasked(c)
  BY <1>1, <1>3, NoCallIsNone DEF Unasked, Unsent, Carries
<1>6. Once(tasks', calls') /\ \A c \in Calls : Carries(tasks', c) => Carries(tasks, c)
  BY <1>1 DEF MessagesOnce
<1>7. \A c \in Calls : Unasked(c)' =>
         /\ \A i \in 1..Len(down') : down'[i].type \in {"Ack", "Rsp"} => down'[i].id # c
         /\ \A p \in bus'.pending : p.requester # c
  <2>. HIDE DEF Unasked
  <2>. QED  BY <1>1, <1>5 DEF MessagesOnce
<1>8. CallsMove
  BY <1>1, CallsStay
<1>. QED  BY <1>1, <1>4, <1>6, <1>7, <1>8, OnceStays

LEMMA DownLost ==
    ASSUME Types, Loses
    PROVE  \A i \in 1..Len(down') :
              \/ i \in 1..Len(down) /\ down'[i] = down[i]
              \/ down'[i].type = "Ack" /\ up # <<>> /\ down'[i].id = up[1].id
<1>1. CASE down' \in {<<>>, down}
  BY <1>1
<1>2. ASSUME NEW m \in Messages, m.type = "Ack", up # <<>>, m.id = up[1].id,
             down' = Append(down, m)
      PROVE  \A i \in 1..Len(down') :
                \/ i \in 1..Len(down) /\ down'[i] = down[i]
                \/ down'[i].type = "Ack" /\ up # <<>> /\ down'[i].id = up[1].id
  <2>1. /\ Len(down') = Len(down) + 1 /\ Len(down) \in Nat /\ down'[Len(down) + 1] = m
        /\ \A i \in 1..Len(down) : down'[i] = down[i]
    BY <1>2, Queues DEF Types
  <2>. QED  BY <1>2, <2>1
<1>. QED  BY <1>1, <1>2 DEF Loses

LEMMA OnceLost == ASSUME Types, MessagesOnce, Loses PROVE MessagesOnce'
<1>1. UNCHANGED <<core, tasks, calls>> /\ up' = <<>> /\ bus'.pending = {}
  BY DEF Loses, NoBus
<1>2. Once(up', calls') /\ \A c \in Calls : ~Carries(up', c)
  BY <1>1 DEF Once, Carries
<1>3. \A c \in Calls : Unasked(c)' => Unsent(c)
  BY <1>1, <1>2 DEF Unasked, Unsent, Carries
<1>4. up # <<>> => \A c \in Calls : Unsent(c) => up[1].id # c
  <2>. SUFFICES ASSUME up # <<>>, NEW c \in Calls, Unsent(c) PROVE up[1].id # c
    OBVIOUS
  <2>1. ~Carries(up, c)
    BY DEF MessagesOnce
  <2>. QED  BY <2>1, CarriesTail DEF Types
<1>5. Once(tasks', calls') /\ \A c \in Calls : Carries(tasks', c) => Carries(tasks, c)
  BY <1>1 DEF MessagesOnce
<1>6. \A c \in Calls : Unsent(c) =>
         \A i \in 1..Len(down') : down'[i].type \in {"Ack", "Rsp"} => down'[i].id # c
  <2>. SUFFICES ASSUME NEW c \in Calls, Unsent(c), NEW i \in 1..Len(down'),
                       down'[i].type \in {"Ack", "Rsp"}
                PROVE  down'[i].id # c
    OBVIOUS
  <2>1. \A j \in 1..Len(down) : down[j].type \in {"Ack", "Rsp"} => down[j].id # c
    BY DEF MessagesOnce, Unasked
  <2>. QED  BY <1>4, <2>1, DownLost
<1>7. CallsMove
  BY <1>1, CallsStay
<1>8. \A c \in Calls : Unasked(c)' =>
         /\ \A i \in 1..Len(down') : down'[i].type \in {"Ack", "Rsp"} => down'[i].id # c
         /\ \A p \in bus'.pending : p.requester # c
  <2>. HIDE DEF Unasked
  <2>. QED  BY <1>1, <1>3, <1>6
<1>. QED  BY <1>1, <1>2, <1>5, <1>7, <1>8, OnceStays

LEMMA OnceMoved == ASSUME Types, MessagesOnce, Moves PROVE MessagesOnce'
<1>1. CASE UNCHANGED vars
  BY <1>1 DEF vars, MessagesOnce, Unasked, Unsent, Carries, Once
<1>2. CASE UserMoves
  <2>1. CallsMove /\ AcksKept /\ UNCHANGED <<core, up, down, bus>>
    BY <1>2 DEF UserMoves, AcksKept
  <2>2. tasks' = tasks \/ \E x \in Tasks : x.id = NoCall /\ tasks' = Append(tasks, x)
    <3>1. \A c \in Calls, type \in {"Unsub", "Unsrv"} : calls[c].topic \in Topics =>
             TaskOf(type, NoCall, calls[c].topic, 0) \in Tasks
             /\ TaskOf(type, NoCall, calls[c].topic, 0).id = NoCall
      BY TaskTypes DEF TaskOf
    <3>. QED  BY <1>2, <3>1 DEF UserMoves, UnsrvOf, UnsubOf
  <2>. QED  BY <2>1, <2>2, OnceWaits
<1>3. CASE StopQueued
  <2>1. CallsMove /\ AcksKept /\ UNCHANGED <<core, up, down, bus>>
    BY <1>3, CallsStay DEF StopQueued, AcksKept
  <2>2. \E x \in Tasks : x.id = NoCall /\ tasks' = Append(tasks, x)
    BY <1>3, TaskTypes DEF StopQueued, TaskOf
  <2>. QED  BY <2>1, <2>2, OnceWaits
<1>. QED
  BY <1>1, <1>2, <1>3, OnceMade, OnceSent, OnceAckTaken, OnceTaken, OncePubTaken,
     OnceTook, OnceElsewhere, OnceKeptAlive, OnceLost DEF Moves

-----------------------------------------------------------------------------
(* Responses find their callbacks: ResponsesExpected *)

(* Where no response, and no request, goes out, comes in or is answered *)
LEMMA ExpectedStays ==
    ASSUME ResponsesExpected, core.rsp \subseteq core'.rsp,
           \A i \in 1..Len(up') : up'[i].type = "Req" =>
              (\E j \in 1..Len(up) : up[j] = up'[i]) \/ up'[i].id \in core'.rsp,
           \/ down' = down
           \/ \A i \in 1..Len(down') : i + 1 \in 1..Len(down) /\ down'[i] = down[i + 1],
           bus' = bus
    PROVE  ResponsesExpected'
<1>1. \A i \in 1..Len(up') : up'[i].type = "Req" => up'[i].id \in core'.rsp
  BY DEF ResponsesExpected
<1>2. \A i \in 1..Len(down') : down'[i].type = "Rsp" =>
         /\ down'[i].id \in core.rsp
         /\ \A p \in bus.pending : p.requester # NoCall => down'[i].id # p.requester
         /\ \A j \in 1..Len(down') : down'[j].type = "Rsp" /\ down'[j].id = down'[i].id => i = j
  <2>1. CASE down' = down
    BY <2>1 DEF ResponsesExpected
  <2>2. CASE \A i \in 1..Len(down') : i + 1 \in 1..Len(down) /\ down'[i] = down[i + 1]
    <3>. SUFFICES ASSUME NEW i \in 1..Len(down'), down'[i].type = "Rsp"
                  PROVE  /\ down'[i].id \in core.rsp
                         /\ \A p \in bus.pending :
                               p.requester # NoCall => down'[i].id # p.requester
                         /\ \A j \in 1..Len(down') :
                               down'[j].type = "Rsp" /\ down'[j].id = down'[i].id => i = j
      OBVIOUS
    <3>1. /\ down[i + 1].id \in core.rsp
          /\ \A j \in 1..Len(down) :
                down[j].type = "Rsp" /\ down[j].id = down[i + 1].id => i + 1 = j
          /\ \A p \in bus.pending : p.requester # NoCall => down[i + 1].id # p.requester
      BY <2>2 DEF ResponsesExpected
    <3>2. \A j \in 1..Len(down') :
             down'[j].type = "Rsp" /\ down'[j].id = down'[i].id => i = j
      <4>. SUFFICES ASSUME NEW j \in 1..Len(down'), down'[j].type = "Rsp",
                           down'[j].id = down'[i].id
                    PROVE  i = j
        OBVIOUS
      <4>1. i + 1 = j + 1
        BY <2>2, <3>1
      <4>. QED  BY <4>1
    <3>. QED  BY <2>2, <3>1, <3>2
  <2>. QED  BY <2>1, <2>2
<1>3. \A p \in bus.pending : p.requester # NoCall =>
         p.requester \in core.rsp /\ \A r \in bus.pending : r.requester = p.requester => p = r
  BY DEF ResponsesExpected
<1>. QED  BY <1>1, <1>2, <1>3 DEF ResponsesExpected

LEMMA ExpectedSent ==
    ASSUME Types, ResponsesExpected, NEW x, SentAs(x)
    PROVE  ResponsesExpected'
<1>1. core.rsp \subseteq core'.rsp /\ (x.type = "Req" => x.id \in core'.rsp)
  BY DEF SentAs
<1>2. \A i \in 1..Len(up') : (\E j \in 1..Len(up) : up[j] = up'[i]) \/ up'[i] = x
  <2>1. CASE Open
    <3>1. up' = Append(up, x) /\ x \in Tasks /\ up \in Seq(Tasks)
      BY <2>1 DEF SentAs, Types
    <3>2. /\ Len(up') = Len(up) + 1 /\ Len(up) \in Nat /\ up'[Len(up) + 1] = x
          /\ \A i \in 1..Len(up) : up'[i] = up[i]
      BY <3>1, Queues
    <3>. QED  BY <3>2
  <2>2. CASE ~Open
    BY <2>2 DEF SentAs
  <2>. QED  BY <2>1, <2>2
<1>3. down' = down /\ bus' = bus
  BY DEF SentAs
<1>4. \A i \in 1..Len(up') : up'[i].type = "Req" =>
         (\E j \in 1..Len(up) : up[j] = up'[i]) \/ up'[i].id \in core'.rsp
  BY <1>1, <1>2
<1>. QED  BY <1>1, <1>3, <1>4, ExpectedStays

LEMMA UpUnsubs ==
    ASSUME Types, NEW m, NEW q, PubTaken(m, q)
    PROVE  \A i \in 1..Len(up') : \/ i \in 1..Len(up) /\ up'[i] = up[i]
                                  \/ /\ Open /\ i > Len(up)
                                     /\ i - Len(up) \in 1..Len(q) /\ up'[i] = q[i - Len(up)]
<1>1. CASE Open
  <2>1. up' = up \o q /\ q \in Seq(Tasks) /\ up \in Seq(Tasks)
    BY <1>1 DEF PubTaken, Types
  <2>2. /\ Len(up') = Len(up) + Len(q) /\ Len(up) \in Nat /\ Len(q) \in Nat
        /\ \A i \in 1..Len(up) : up'[i] = up[i]
        /\ \A i \in (Len(up) + 1)..(Len(up) + Len(q)) :
              i - Len(up) \in 1..Len(q) /\ up'[i] = q[i - Len(up)]
    BY <2>1, Concatenations
  <2>3. \A i \in 1..Len(up') : i \in 1..Len(up) \/ i \in (Len(up) + 1)..(Len(up) + Len(q))
    BY <2>2
  <2>. QED  BY <1>1, <2>2, <2>3
<1>2. CASE ~Open
  BY <1>2 DEF PubTaken
<1>. QED  BY <1>1, <1>2

LEMMA ExpectedTaken ==
    ASSUME Types, ResponsesExpected, NEW m, NEW q,
           AckTaken(m) \/ ReqTaken(m) \/ PubTaken(m, q)
    PROVE  ResponsesExpected'
<1>1. core'.rsp = core.rsp /\ bus' = bus /\ down # <<>> /\ down' = Tail(down)
  BY DEF AckTaken, ReqTaken, PubTaken, Receives
<1>2. \A i \in 1..Len(down') : i + 1 \in 1..Len(down) /\ down'[i] = down[i + 1]
  BY <1>1, TailMessages
<1>3. \A i \in 1..Len(up') : up'[i].type = "Req" => \E j \in 1..Len(up) : up[j] = up'[i]
  <2>1. CASE up' = up
    BY <2>1
  <2>2. CASE PubTaken(m, q)
    <3>. SUFFICES ASSUME NEW i \in 1..Len(up'), up'[i].type = "Req"
                  PROVE  \E j \in 1..Len(up) : up[j] = up'[i]
      OBVIOUS
    <3>1. \/ i \in 1..Len(up) /\ up'[i] = up[i]
          \/ i - Len(up) \in 1..Len(q) /\ up'[i] = q[i - Len(up)]
      BY <2>2, UpUnsubs
    <3>2. \A j \in 1..Len(q) : q[j].type = "Unsub"
      BY <2>2 DEF PubTaken
    <3>. QED  BY <3>1, <3>2
  <2>. QED  BY <2>1, <2>2 DEF AckTaken, ReqTaken
<1>. QED  BY <1>1, <1>2, <1>3, ExpectedStays

LEMMA ExpectedRspTaken ==
    ASSUME Types, MessagesOnce, ResponsesExpected, NEW m, RspTaken(m)
    PROVE  ResponsesExpected'
<1>1. /\ core'.rsp = core.rsp \ {m.id} /\ bus' = bus /\ down # <<>> /\ down' = Tail(down)
      /\ up' = up /\ m \in Messages /\ m = down[1] /\ m.type = "Rsp"
  BY DEF RspTaken, Receives
<1>2. /\ \A i \in 1..Len(down') : i + 1 \in 1..Len(down) /\ down'[i] = down[i + 1]
      /\ 1 \in 1..Len(down)
  BY <1>1, TailMessages
<1>3. m.id \in Calls
  BY <1>1, MessageFields
<1>4. \A i \in 1..Len(down') : down'[i].type = "Rsp" => down'[i].id # m.id
  <2>. SUFFICES ASSUME NEW i \in 1..Len(down'), down'[i].type = "Rsp", down'[i].id = m.id
                PROVE  FALSE
    OBVIOUS
  <2>1. 1 = i + 1
    BY <1>1, <1>2 DEF ResponsesExpected
  <2>. QED  BY <2>1
<1>5. \A i \in 1..Len(up) : up[i].id # m.id
  <2>. SUFFICES ASSUME NEW i \in 1..Len(up), up[i].id = m.id PROVE FALSE
    OBVIOUS
  <2>1. Unasked(m.id)
    BY DEF Unasked, Carries
  <2>. HIDE DEF Unasked
  <2>. QED  BY <1>1, <1>2, <1>3, <2>1 DEF MessagesOnce
<1>6. \A p \in bus.pending : p.requester # NoCall => p.requester # m.id
  BY <1>1, <1>2 DEF ResponsesExpected
<1>7. \A i \in 1..Len(up) : up[i].type = "Req" => up[i].id \in core'.rsp
  BY <1>1, <1>5 DEF ResponsesExpected
<1>8. \A i \in 1..Len(down') : down'[i].type = "Rsp" =>
         /\ down'[i].id \in core'.rsp
         /\ \A j \in 1..Len(down') : down'[j].type = "Rsp" /\ down'[j].id = down'[i].id => i = j
         /\ \A p \in bus.pending : p.requester # NoCall => down'[i].id # p.requester
  <2>. SUFFICES ASSUME NEW i \in 1..Len(down'), down'[i].type = "Rsp"
                PROVE  /\ down'[i].id \in core'.rsp
                       /\ \A j \in 1..Len(down') :
                             down'[j].type = "Rsp" /\ down'[j].id = down'[i].id => i = j
                       /\ \A p \in bus.pending :
                             p.requester # NoCall => down'[i].id # p.requester
    OBVIOUS
  <2>1. /\ down[i + 1].id \in core.rsp
        /\ \A j \in 1..Len(down) :
              down[j].type = "Rsp" /\ down[j].id = down[i + 1].id => i + 1 = j
        /\ \A p \in bus.pending : p.requester # NoCall => down[i + 1].id # p.requester
    BY <1>2 DEF ResponsesExpected
  <2>2. \A j \in 1..Len(down') :
           down'[j].type = "Rsp" /\ down'[j].id = down'[i].id => i = j
    <3>. SUFFICES ASSUME NEW j \in 1..Len(down'), down'[j].type = "Rsp",
                         down'[j].id = down'[i].id
                  PROVE  i = j
      OBVIOUS
    <3>1. i + 1 = j + 1
      BY <1>2, <2>1
    <3>. QED  BY <3>1
  <2>. QED  BY <1>1, <1>2, <1>4, <2>1, <2>2
<1>9. \A p \in bus.pending : p.requester # NoCall =>
         p.requester \in core'.rsp /\ \A r \in bus.pending : r.requester = p.requester => p = r
  BY <1>1, <1>6 DEF ResponsesExpected
<1>. QED  BY <1>1, <1>7, <1>8, <1>9 DEF ResponsesExpected

(* Of what the bus sends down, a response is of a request that was pending. *)
LEMMA ExpectedDown ==
    ASSUME Types, ResponsesExpected, NEW q, BusMoves(q),
           \A p \in bus'.pending : p.requester # NoCall =>
              \/ p \in bus.pending
              \/ /\ \A r \in bus'.pending : r.requester = p.requester => p = r
                 /\ p.requester \in core.rsp
                 /\ \A i \in 1..Len(down') : down'[i].type = "Rsp" => down'[i].id # p.requester,
           \A i \in 1..Len(up') : up'[i].type = "Req" => \E j \in 1..Len(up) : up[j] = up'[i]
    PROVE  ResponsesExpected'
<1>1. q \in Seq(Messages) /\ down' = down \o q /\ core' = core
  BY DEF BusMoves
<1>2. /\ \A i \in 1..Len(down') :
            \/ i \in 1..Len(down) /\ down'[i] = down[i]
            \/ i - Len(down) \in 1..Len(q) /\ down'[i] = q[i - Len(down)]
      /\ \A i \in 1..Len(q) : q[i] \in Messages
      /\ Len(down) \in Nat
  BY <1>1, DownConcat
<1>3. \A i \in 1..Len(q) : q[i].type = "Rsp" =>
         /\ q[i].id \in core.rsp
         /\ \A j \in 1..Len(down) : down[j].type = "Rsp" => down[j].id # q[i].id
         /\ \A j \in 1..Len(q) : q[j].type = "Rsp" => i = j
         /\ \A p \in bus'.pending \cap bus.pending : p.requester # q[i].id
  <2>. SUFFICES ASSUME NEW i \in 1..Len(q), q[i].type = "Rsp"
                PROVE  /\ q[i].id \in core.rsp
                       /\ \A j \in 1..Len(down) : down[j].type = "Rsp" => down[j].id # q[i].id
                       /\ \A j \in 1..Len(q) : q[j].type = "Rsp" => i = j
                       /\ \A p \in bus'.pending \cap bus.pending : p.requester # q[i].id
    OBVIOUS
  <2>1. q[i].id \in Calls
    BY <1>2, MessageFields
  <2>2. PICK p \in bus.pending : p \notin bus'.pending /\ p.requester = q[i].id
    BY DEF BusMoves
  <2>3. p.requester # NoCall
    BY <2>1, <2>2, NoCallIsNone
  <2>4. /\ p.requester \in core.rsp
        /\ \A j \in 1..Len(down) : down[j].type = "Rsp" => down[j].id # p.requester
        /\ \A r \in bus.pending : r.requester = p.requester => p = r
    BY <2>3 DEF ResponsesExpected
  <2>5. \A j \in 1..Len(q) : q[j].type = "Rsp" => i = j
    BY DEF BusMoves
  <2>. QED  BY <2>2, <2>4, <2>5
<1>4. \A i \in 1..Len(down') : down'[i].type = "Rsp" =>
         /\ down'[i].id \in core.rsp
         /\ \A j \in 1..Len(down') : down'[j].type = "Rsp" /\ down'[j].id = down'[i].id => i = j
  <2>. SUFFICES ASSUME NEW i \in 1..Len(down'), down'[i].type = "Rsp"
                PROVE  /\ down'[i].id \in core.rsp
                       /\ \A j \in 1..Len(down') :
                             down'[j].type = "Rsp" /\ down'[j].id = down'[i].id => i = j
    OBVIOUS
  <2>1. CASE i \in 1..Len(down) /\ down'[i] = down[i]
    <3>1. down[i].id \in core.rsp
          /\ \A j \in 1..Len(down) : down[j].type = "Rsp" /\ down[j].id = down[i].id => i = j
      BY <2>1 DEF ResponsesExpected
    <3>2. ASSUME NEW j \in 1..Len(down'), down'[j].type = "Rsp", down'[j].id = down'[i].id
          PROVE  i = j
      <4>1. CASE j \in 1..Len(down) /\ down'[j] = down[j]
        BY <2>1, <3>1, <3>2, <4>1
      <4>2. CASE j - Len(down) \in 1..Len(q) /\ down'[j] = q[j - Len(down)]
        BY <1>3, <2>1, <3>2, <4>2
      <4>. QED  BY <1>2, <4>1, <4>2
    <3>. QED  BY <2>1, <3>1, <3>2
  <2>2. CASE i - Len(down) \in 1..Len(q) /\ down'[i] = q[i - Len(down)]
    <3>1. ASSUME NEW j \in 1..Len(down'), down'[j].type = "Rsp", down'[j].id = down'[i].id
          PROVE  i = j
      <4>1. CASE j \in 1..Len(down) /\ down'[j] = down[j]
        BY <1>3, <2>2, <3>1, <4>1
      <4>2. CASE j - Len(down) \in 1..Len(q) /\ down'[j] = q[j - Len(down)]
        <5>1. i - Len(down) = j - Len(down)
          BY <1>3, <2>2, <3>1, <4>2
        <5>. QED  BY <1>2, <5>1
      <4>. QED  BY <1>2, <4>1, <4>2
    <3>. QED  BY <1>3, <2>2, <3>1
  <2>. QED  BY <1>2, <2>1, <2>2
<1>5. \A p \in bus'.pending : p.requester # NoCall =>
         /\ p.requester \in core.rsp
         /\ \A i \in 1..Len(down') : down'[i].type = "Rsp" => down'[i].id # p.requester
         /\ \A r \in bus'.pending : r.requester = p.requester => p = r
  <2>. SUFFICES ASSUME NEW p \in bus'.pending, p.requester # NoCall, p \in bus.pending
                PROVE  /\ p.requester \in core.rsp
                       /\ \A i \in 1..Len(down') :
                             down'[i].type = "Rsp" => down'[i].id # p.requester
                       /\ \A r \in bus'.pending : r.requester = p.requester => p = r
    OBVIOUS
  <2>1. /\ p.requester \in core.rsp
        /\ \A i \in 1..Len(down) : down[i].type = "Rsp" => down[i].id # p.requester
        /\ \A r \in bus.pending : r.requester = p.requester => p = r
    BY DEF ResponsesExpected
  <2>2. \A i \in 1..Len(down') : down'[i].type = "Rsp" => down'[i].id # p.requester
    <3>. SUFFICES ASSUME NEW i \in 1..Len(down'), down'[i].type = "Rsp"
                  PROVE  down'[i].id # p.requester
      OBVIOUS
    <3>. QED  BY <1>2, <1>3, <2>1
  <2>3. \A r \in bus'.pending : r.requester = p.requester => p = r
    <3>. SUFFICES ASSUME NEW r \in bus'.pending, r.requester = p.requester, r \notin bus.pending
                  PROVE  p = r
      BY <2>1
    <3>1. \A s \in bus'.pending : s.requester = r.requester => r = s
      OBVIOUS
    <3>. QED  BY <3>1
  <2>. QED  BY <2>1, <2>2, <2>3
<1>6. \A i \in 1..Len(up') : up'[i].type = "Req" => up'[i].id \in core.rsp
  BY DEF ResponsesExpected
<1>. QED  BY <1>1, <1>4, <1>5, <1>6 DEF ResponsesExpected

LEMMA ExpectedTook ==
    ASSUME Types, MessagesOnce, ResponsesExpected, NEW x, NEW q, BusTook(x, q)
    PROVE  ResponsesExpected'
<1>1. /\ up \in Seq(Tasks) /\ up # <<>> /\ x \in Tasks /\ x = up[1] /\ up' = Tail(up)
      /\ BusMoves(q) /\ q \in Seq(Messages) /\ down' = down \o q
  BY DEF BusTook, BusMoves, Types
<1>2. /\ \A i \in 1..Len(up') : i + 1 \in 1..Len(up) /\ up'[i] = up[i + 1]
      /\ 1 \in 1..Len(up)
  <2>1. /\ Len(up') = Len(up) - 1 /\ Len(up) \in Nat /\ 1 \in 1..Len(up)
        /\ \A i \in 1..Len(up') : up'[i] = up[i + 1]
    BY <1>1, Queues
  <2>. QED  BY <2>1
<1>3. \A i \in 1..Len(up') : up'[i].type = "Req" => \E j \in 1..Len(up) : up[j] = up'[i]
  BY <1>2
<1>4. ASSUME NEW p \in bus'.pending, p.requester # NoCall, p \notin bus.pending
      PROVE  /\ \A r \in bus'.pending : r.requester = p.requester => p = r
             /\ p.requester \in core.rsp
             /\ \A i \in 1..Len(down') : down'[i].type = "Rsp" => down'[i].id # p.requester
  <2>1. PICK new : /\ x.type = "Req" /\ new.requester = x.id
                   /\ bus'.pending \subseteq bus.pending \cup {new}
    BY <1>4 DEF BusTook
  <2>2. p = new /\ x.id \in Calls
    BY <1>1, <1>4, <2>1, TaskFields
  <2>3. Unasked(x.id)
    BY <1>1, <1>2 DEF Unasked, Carries
  <2>4. /\ \A i \in 1..Len(down) : down[i].type \in {"Ack", "Rsp"} => down[i].id # x.id
        /\ \A r \in bus.pending : r.requester # x.id
    <3>. HIDE DEF Unasked
    <3>. QED  BY <2>2, <2>3 DEF MessagesOnce
  <2>5. x.id \in core.rsp
    BY <1>1, <1>2, <2>1 DEF ResponsesExpected
  <2>6. \A i \in 1..Len(q) : q[i].type # "Rsp"
    BY <2>1 DEF BusTook
  <2>7. \A i \in 1..Len(down') : down'[i].type = "Rsp" => down'[i].id # x.id
    <3>. SUFFICES ASSUME NEW i \in 1..Len(down'), down'[i].type = "Rsp"
                  PROVE  down'[i].id # x.id
      OBVIOUS
    <3>1. \/ i \in 1..Len(down) /\ down'[i] = down[i]
          \/ i - Len(down) \in 1..Len(q) /\ down'[i] = q[i - Len(down)]
      BY <1>1, DownConcat
    <3>. QED  BY <2>4, <2>6, <3>1
  <2>. QED  BY <2>1, <2>2, <2>4, <2>5, <2>7
<1>. QED  BY <1>1, <1>3, <1>4, ExpectedDown

LEMMA ExpectedElsewhere ==
    ASSUME Types, ResponsesExpected, NEW q, BusElsewhere(q)
    PROVE  ResponsesExpected'
<1>1. BusMoves(q) /\ up' = up /\ \A p \in bus'.pending : p \in bus.pending \/ p.requester = NoCall
  BY DEF BusElsewhere
<1>. QED  BY <1>1, ExpectedDown

LEMMA ExpectedLost == ASSUME Types, ResponsesExpected, Loses PROVE ResponsesExpected'
<1>1. core' = core /\ up' = <<>> /\ bus'.pending = {}
  BY DEF Loses, NoBus
<1>2. \A i \in 1..Len(down') : down'[i].type = "Rsp" =>
         /\ down'[i].id \in core.rsp
         /\ \A j \in 1..Len(down') : down'[j].type = "Rsp" /\ down'[j].id = down'[i].id => i = j
  <2>1. \A i \in 1..Len(down') :
           down'[i].type = "Rsp" => i \in 1..Len(down) /\ down'[i] = down[i]
    BY DownLost
  <2>. QED  BY <2>1 DEF ResponsesExpected
<1>. QED  BY <1>1, <1>2 DEF ResponsesExpected

LEMMA ExpectedMoved ==
    ASSUME Types, MessagesOnce, ResponsesExpected, Moves
    PROVE  ResponsesExpected'
<1>1. CASE UNCHANGED vars
  BY <1>1 DEF vars, ResponsesExpected
<1>2. CASE CallIsMade \/ UserMoves \/ StopQueued
  <2>1. UNCHANGED <<core, up, down, bus>>
    BY <1>2 DEF CallIsMade, InvokedAs, UserMoves, StopQueued
  <2>. QED  BY <2>1 DEF ResponsesExpected
<1>3. CASE KeptAlive
  <2>1. UNCHANGED <<core, down, bus>> /\ \A i \in 1..Len(up') : up'[i].type # "Req"
    BY <1>3 DEF KeptAlive, TaskOf
  <2>. QED  BY <2>1 DEF ResponsesExpected
<1>. QED
  BY <1>1, <1>2, <1>3, ExpectedSent, ExpectedTaken, ExpectedRspTaken, ExpectedTook,
     ExpectedElsewhere, ExpectedLost DEF Moves

-----------------------------------------------------------------------------
(* What the local directory names has its callback: CallbacksThere *)

LEMMA ThereStays ==
    ASSUME Types, CallbacksThere, CallsMove, core'.owner = core.owner, core'.req = core.req,
           core'.subs \subseteq core.subs,
           \A p \in core'.subs : p[1] \in core.pub => p[1] \in core'.pub
    PROVE  CallbacksThere'
<1>1. \A p \in core'.subs : p[1] \in core'.pub /\ p[2] = calls'[p[1]].topic
  BY CoreFields DEF CallbacksThere, CallsMove, CallMoves
<1>2. \A t \in Topics : core'.owner[t] # NoOwner =>
         /\ t \in Concrete
         /\ core'.owner[t] \in core'.req
         /\ calls'[core'.owner[t]].kind = "Srv"
         /\ calls'[core'.owner[t]].topic = t
  BY CoreFields DEF CallbacksThere, CallsMove, CallMoves
<1>. QED  BY <1>1, <1>2 DEF CallbacksThere

LEMMA ThereMade ==
    ASSUME Types, MessagesOnce, CallbacksThere, CallIsMade
    PROVE  CallbacksThere'
<1>1. PICK c \in Calls, k \in Kinds, t \in Topics, r \in Nat, before \in SUBSET Calls :
         InvokedAs(c, k, t, r, before)
  BY DEF CallIsMade
<1>2. /\ Unsent(c) /\ core' = core
      /\ \A d \in Calls : d # c => calls'[d] = calls[d]
  BY <1>1 DEF InvokedAs, Types, Unsent
<1>3. /\ \A u \in Topics : core.owner[u] # c
      /\ \A u \in Topics : <<c, u>> \notin core.subs
  <2>. HIDE DEF Unsent
  <2>. QED  BY <1>2 DEF MessagesOnce
<1>4. \A p \in core.subs : p[1] \in Calls /\ p[1] # c
  <2>. SUFFICES ASSUME NEW p \in core.subs PROVE p[1] \in Calls /\ p[1] # c
    OBVIOUS
  <2>1. p \in Calls \X Topics
    BY CoreFields
  <2>2. p = <<p[1], p[2]>> /\ p[1] \in Calls /\ p[2] \in Topics
    BY <2>1
  <2>. QED  BY <1>3, <2>2
<1>5. \A p \in core'.subs : p[1] \in core'.pub /\ p[2] = calls'[p[1]].topic
  BY <1>2, <1>4 DEF CallbacksThere
<1>6. \A u \in Topics : core'.owner[u] # NoOwner =>
         /\ u \in Concrete
         /\ core'.owner[u] \in core'.req
         /\ calls'[core'.owner[u]].kind = "Srv"
         /\ calls'[core'.owner[u]].topic = u
  BY <1>2, <1>3, CoreFields DEF CallbacksThere
<1>. QED  BY <1>5, <1>6 DEF CallbacksThere

LEMMA TaskKinds ==
    ASSUME Types, NEW c \in Calls, calls[c].stage # "none"
    PROVE  /\ TaskType(calls[c].kind) = "Srv" => calls[c].kind = "Srv"
           /\ TaskType(calls[c].kind) = "Sub" => calls[c].kind \in Subscribing
           /\ calls[c].kind = "Srv" => TaskType(calls[c].kind) = "Srv"
           /\ calls[c].kind \in Subscribing => TaskType(calls[c].kind) = "Sub"
           /\ calls[c].topic \in Topics
BY DEF TaskType, Types, CallStage, Kinds, Subscribing

(* whose the first task is *)
LEMMA FirstIsOf ==
    ASSUME Types, MessagesOnce, NEW x, SentAs(x), x.type \in {"Sub", "Srv"}
    PROVE  /\ x.id \in Calls /\ x.topic \in Topics
           /\ calls[x.id].stage # "none" /\ x.topic = calls[x.id].topic
           /\ x.type = "Srv" => calls[x.id].kind = "Srv"
           /\ x.type = "Sub" => calls[x.id].kind \in Subscribing
<1>1. x.id \in Calls /\ x.topic \in Topics
  BY TaskFields DEF SentAs
<1>2. /\ calls[x.id].stage # "none" /\ x.topic = calls[x.id].topic
      /\ x.type = TaskType(calls[x.id].kind)
  BY <1>1, NoCallIsNone, OnceTail DEF MessagesOnce, SentAs, Types
<1>. QED  BY <1>1, <1>2, TaskKinds

LEMMA ThereSent ==
    ASSUME Types, MessagesOnce, CallbacksThere, NEW x, SentAs(x)
    PROVE  CallbacksThere'
<1>1. calls' = calls /\ x \in Tasks
  BY DEF SentAs
<1>2. \A p \in core'.subs : p[1] \in core'.pub /\ p[2] = calls'[p[1]].topic
  <2>1. CASE x.type = "Sub"
    <3>1. core'.subs = core.subs \cup {<<x.id, x.topic>>} /\ core'.pub = core.pub \cup {x.id}
      BY <2>1 DEF SentAs
    <3>. QED  BY <1>1, <2>1, <3>1, FirstIsOf DEF CallbacksThere
  <2>2. CASE x.type # "Sub"
    BY <1>1, <2>2 DEF CallbacksThere, SentAs
  <2>. QED  BY <2>1, <2>2
<1>3. \A t \in Topics : core'.owner[t] # NoOwner =>
         /\ t \in Concrete
         /\ core'.owner[t] \in core'.req
         /\ calls'[core'.owner[t]].kind = "Srv"
         /\ calls'[core'.owner[t]].topic = t
  <2>1. \A t \in Topics : core.owner[t] # NoOwner =>
           /\ t \in Concrete
           /\ core.owner[t] \in core'.req
           /\ calls[core.owner[t]].kind = "Srv"
           /\ calls[core.owner[t]].topic = t
    BY DEF CallbacksThere, SentAs
  <2>2. CASE x.type = "Srv"
    <3>1. /\ x.topic \in Concrete /\ x.id \in core'.req
          /\ core'.owner = [core.owner EXCEPT ![x.topic] = x.id]
      BY <2>2 DEF SentAs
    <3>2. calls[x.id].kind = "Srv" /\ calls[x.id].topic = x.topic
      BY <2>2, FirstIsOf
    <3>. QED  BY <1>1, <2>1, <3>1, <3>2, CoreFields
  <2>3. CASE x.type = "Unsrv"
    <3>1. core'.owner = [core.owner EXCEPT ![x.topic] = NoOwner]
      BY <2>3 DEF SentAs
    <3>. QED  BY <1>1, <2>1, <3>1, CoreFields
  <2>4. CASE x.type \notin {"Srv", "Unsrv"}
    BY <1>1, <2>1, <2>4 DEF SentAs
  <2>. QED  BY <2>2, <2>3, <2>4
<1>. QED  BY <1>2, <1>3 DEF CallbacksThere

LEMMA ThereMoved ==
    ASSUME Types, MessagesOnce, CallbacksThere, Moves
    PROVE  CallbacksThere'
<1>1. CASE UNCHANGED vars
  BY <1>1 DEF vars, CallbacksThere
<1>2. CASE UNCHANGED core /\ CallsMove
  BY <1>2, ThereStays
<1>3. CASE UNCHANGED calls /\ UNCHANGED core
  BY <1>3, CallsStay, ThereStays
<1>4. ASSUME NEW m, AckTaken(m) \/ RspTaken(m) \/ ReqTaken(m) PROVE CallbacksThere'
  <2>1. CallsMove /\ core'.owner = core.owner /\ core'.req = core.req
    BY <1>4, KeptMoves DEF AckTaken, RspTaken, ReqTaken, Receives
  <2>2. core'.subs = core.subs /\ core'.pub = core.pub
    BY <1>4 DEF AckTaken, RspTaken, ReqTaken
  <2>. QED  BY <2>1, <2>2, ThereStays
<1>5. ASSUME NEW m, NEW q, PubTaken(m, q) PROVE CallbacksThere'
  <2>1. CallsMove /\ core'.owner = core.owner /\ core'.req = core.req
    BY <1>5, KeptMoves DEF PubTaken, Receives
  <2>2. core'.subs = {p \in core.subs : p[1] \notin Dead} /\ core'.pub = core.pub \ Dead
    BY <1>5 DEF PubTaken
  <2>. HIDE DEF Dead
  <2>. QED  BY <2>1, <2>2, ThereStays
<1>6. CASE UserMoves \/ StopQueued \/ KeptAlive \/ Loses
  BY <1>2, <1>3, <1>6 DEF UserMoves, StopQueued, KeptAlive, Loses
<1>7. ASSUME NEW x, NEW q, BusTook(x, q) \/ BusElsewhere(q) PROVE CallbacksThere'
  BY <1>3, <1>7 DEF BusTook, BusElsewhere, BusMoves
<1>. QED
  BY <1>1, <1>4, <1>5, <1>6, <1>7, ThereMade, ThereSent DEF Moves

-----------------------------------------------------------------------------
(* Each Unsrv in the queue comes after a Srv that it undoes: ServesPaired *)

(* r is q and one more *)
Extends(r, q) ==
    /\ Len(q) \in Nat /\ Len(r) = Len(q) + 1
    /\ \A i \in 1..Len(q) : r[i] = q[i]

LEMMA AppendExtends ==
    ASSUME NEW q \in Seq(Tasks), NEW x \in Tasks
    PROVE  Extends(Append(q, x), q) /\ Append(q, x)[Len(q) + 1] = x
BY Queues DEF Extends

LEMMA ServesExtended ==
    ASSUME NEW q, NEW r, Extends(r, q), NEW o, NEW t
    PROVE  /\ \A i \in 0..Len(q) : Serves(q, o, t, i) <=> Serves(r, o, t, i)
           /\ \A i \in 1..Len(q) : GivesUp(q, t, i) <=> GivesUp(r, t, i)
           /\ \A a \in 0..Len(q) : \A b \in 1..Len(r) :
                 ServedUntil(q, o, t, a, b) => ServedUntil(r, o, t, a, b)
           /\ \A j \in Nat : Clash(q, o, t, j) => Clash(r, o, t, j)
<1>1. \A i \in 0..Len(q) : Serves(q, o, t, i) <=> Serves(r, o, t, i)
  BY DEF Extends, Serves
<1>2. \A i \in 1..Len(q) : GivesUp(q, t, i) <=> GivesUp(r, t, i)
  BY DEF Extends, GivesUp
<1>3. ASSUME NEW a \in 0..Len(q), NEW b \in 1..Len(r), ServedUntil(q, o, t, a, b)
      PROVE  ServedUntil(r, o, t, a, b)
  <2>1. a < b /\ Serves(r, o, t, a)
    BY <1>1, <1>3 DEF ServedUntil
  <2>2. ASSUME NEW k \in 1..Len(r), a < k, k < b PROVE ~GivesUp(r, t, k)
    <3>1. k \in 1..Len(q)
      BY <2>2 DEF Extends
    <3>. QED  BY <1>2, <1>3, <2>2, <3>1 DEF ServedUntil
  <2>. QED  BY <2>1, <2>2 DEF ServedUntil
<1>4. ASSUME NEW j \in Nat, Clash(q, o, t, j) PROVE Clash(r, o, t, j)
  <2>1. PICK b \in 1..Len(q) :
           /\ b < j
           /\ Serves(q, o, t, b)
           /\ t \notin Concrete \/ \E a \in 0..Len(q) : ServedUntil(q, o, t, a, b)
    BY <1>4 DEF Clash
  <2>2. b \in 1..Len(r) /\ b \in 0..Len(q) /\ \A a \in 0..Len(q) : a \in 0..Len(r)
    BY DEF Extends
  <2>3. t \notin Concrete \/ \E a \in 0..Len(r) : ServedUntil(r, o, t, a, b)
    BY <1>3, <2>1, <2>2
  <2>. QED  BY <1>1, <2>1, <2>2, <2>3 DEF Clash
<1>. QED  BY <1>1, <1>2, <1>3, <1>4

LEMMA ClashLater ==
    ASSUME NEW q, NEW o, NEW t, NEW j \in Nat, NEW k \in Nat, j <= k, Clash(q, o, t, j)
    PROVE  Clash(q, o, t, k)
<1>1. \A b \in 1..Len(q) : b < j => b < k
  OBVIOUS
<1>. QED  BY <1>1 DEF Clash

LEMMA HeldExtended ==
    ASSUME NEW q, NEW r, Extends(r, q), NEW o, NEW t, NEW c, HeldServe(q, o, t, c),
           GivesUp(r, t, Len(r)) => Clash(r, o, t, Len(r))
    PROVE  HeldServe(r, o, t, c)
<1>1. PICK p \in 0..Len(q) :
         /\ ServesAs(q, o, t, c, p)
         /\ \A j \in 1..Len(q) : p < j /\ GivesUp(q, t, j) => Clash(q, o, t, j)
  BY DEF HeldServe
<1>2. p \in 0..Len(r) /\ ServesAs(r, o, t, c, p)
  BY <1>1 DEF Extends, ServesAs
<1>3. ASSUME NEW j \in 1..Len(r), p < j, GivesUp(r, t, j) PROVE Clash(r, o, t, j)
  <2>1. j \in 1..Len(q) \/ j = Len(r)
    BY DEF Extends
  <2>2. CASE j \in 1..Len(q)
    <3>1. GivesUp(q, t, j)
      BY <1>3, <2>2 DEF GivesUp, Extends
    <3>2. Clash(q, o, t, j) /\ j \in Nat
      BY <1>1, <1>3, <2>2, <3>1
    <3>. QED  BY <3>2, ServesExtended
  <2>. QED  BY <1>3, <2>1, <2>2
<1>. QED  BY <1>2, <1>3 DEF HeldServe

LEMMA PairedExtended ==
    ASSUME NEW q, NEW r, Extends(r, q), NEW o, Paired(q, o),
           \A t \in Topics : GivesUp(r, t, Len(r)) =>
              Clash(r, o, t, Len(r)) \/ \E a \in 0..Len(r) : ServedUntil(r, o, t, a, Len(r))
    PROVE  Paired(r, o)
<1>. SUFFICES ASSUME NEW t \in Topics, NEW j \in 1..Len(r), GivesUp(r, t, j)
              PROVE  Clash(r, o, t, j) \/ \E a \in 0..Len(r) : ServedUntil(r, o, t, a, j)
  BY DEF Paired
<1>1. j \in 1..Len(q) \/ j = Len(r)
  BY DEF Extends
<1>2. CASE j \in 1..Len(q)
  <2>1. GivesUp(q, t, j)
    BY <1>2 DEF GivesUp, Extends
  <2>2. Clash(q, o, t, j) \/ \E a \in 0..Len(q) : ServedUntil(q, o, t, a, j)
    BY <1>2, <2>1 DEF Paired
  <2>3. \A a \in 0..Len(q) : a \in 0..Len(r)
    BY DEF Extends
  <2>4. Clash(q, o, t, j) => Clash(r, o, t, j)
    <3>1. j \in Nat
      BY <1>2
    <3>. QED  BY <3>1, ServesExtended
  <2>5. \A a \in 0..Len(q) : ServedUntil(q, o, t, a, j) => ServedUntil(r, o, t, a, j)
    BY ServesExtended
  <2>. QED  BY <2>2, <2>3, <2>4, <2>5
<1>. QED  BY <1>1, <1>2

(* Two serves of one topic clash, as long as neither is given up before. *)
LEMMA TwoServesClash ==
    ASSUME NEW q, NEW o, NEW t, Len(q) \in Nat,
           NEW a \in 0..Len(q), NEW b \in 1..Len(q), a < b,
           Serves(q, o, t, a), Serves(q, o, t, b),
           \A j \in 1..Len(q) : a < j /\ GivesUp(q, t, j) => Clash(q, o, t, j)
    PROVE  Clash(q, o, t, Len(q) + 1)
<1>1. CASE \E j \in 1..Len(q) : a < j /\ GivesUp(q, t, j)
  <2>1. PICK j \in 1..Len(q) : Clash(q, o, t, j)
    BY <1>1
  <2>. QED  BY <2>1, ClashLater
<1>2. CASE ~ \E j \in 1..Len(q) : a < j /\ GivesUp(q, t, j)
  <2>1. ServedUntil(q, o, t, a, b)
    BY <1>2 DEF ServedUntil
  <2>. QED  BY <2>1 DEF Clash
<1>. QED  BY <1>1, <1>2

LEMMA HeldServes ==
    ASSUME NEW q, NEW o, NEW t, NEW c, c # NoOwner, NEW p, ServesAs(q, o, t, c, p)
    PROVE  Serves(q, o, t, p)
BY DEF ServesAs, Serves

(* A task that is no Unsrv is queued. *)
LEMMA PairedAppend ==
    ASSUME NEW q \in Seq(Tasks), NEW x \in Tasks, NEW o, Paired(q, o), x.type # "Unsrv"
    PROVE  Paired(Append(q, x), o)
<1>. DEFINE r == Append(q, x)
<1>1. Extends(r, q) /\ r[Len(q) + 1] = x /\ Len(r) = Len(q) + 1
  BY AppendExtends DEF Extends
<1>. HIDE DEF r
<1>2. \A t \in Topics : ~GivesUp(r, t, Len(r))
  BY <1>1 DEF GivesUp
<1>3. Paired(r, o)
  BY <1>1, <1>2, PairedExtended
<1>. QED  BY <1>3 DEF r

LEMMA HeldAppend ==
    ASSUME NEW q \in Seq(Tasks), NEW x \in Tasks, NEW o, NEW t, NEW c, HeldServe(q, o, t, c),
           ~(x.type = "Unsrv" /\ x.topic = t)
    PROVE  HeldServe(Append(q, x), o, t, c)
<1>. DEFINE r == Append(q, x)
<1>1. Extends(r, q) /\ r[Len(q) + 1] = x /\ Len(r) = Len(q) + 1
  BY AppendExtends DEF Extends
<1>. HIDE DEF r
<1>2. ~GivesUp(r, t, Len(r))
  BY <1>1 DEF GivesUp
<1>3. HeldServe(r, o, t, c)
  BY <1>1, <1>2, HeldExtended
<1>. QED  BY <1>3 DEF r

(* A call to serve is queued. *)
LEMMA HeldNew ==
    ASSUME NEW q \in Seq(Tasks), NEW x \in Tasks, NEW o, x.type = "Srv"
    PROVE  HeldServe(Append(q, x), o, x.topic, x.id)
<1>. DEFINE r == Append(q, x)
<1>1. Len(q) \in Nat /\ r[Len(q) + 1] = x /\ Len(r) = Len(q) + 1
  BY AppendExtends DEF Extends
<1>. HIDE DEF r
<1>2. ServesAs(r, o, x.topic, x.id, Len(r)) /\ Len(r) \in 0..Len(r)
  BY <1>1 DEF ServesAs
<1>3. \A j \in 1..Len(r) : ~(Len(r) < j)
  BY <1>1
<1>4. HeldServe(r, o, x.topic, x.id)
  BY <1>2, <1>3 DEF HeldServe
<1>. QED  BY <1>4 DEF r

(* What is served by c is given up. *)
LEMMA PairedUnsrv ==
    ASSUME NEW q \in Seq(Tasks), NEW x \in Tasks, NEW o, Paired(q, o), x.type = "Unsrv",
           NEW c, c # NoOwner, HeldServe(q, o, x.topic, c)
    PROVE  Paired(Append(q, x), o)
<1>. DEFINE r == Append(q, x)
            n == Len(q) + 1
<1>1. Extends(r, q) /\ r[n] = x /\ Len(r) = n /\ Len(q) \in Nat
  BY AppendExtends DEF Extends
<1>. HIDE DEF r
<1>2. PICK p \in 0..Len(q) :
         /\ ServesAs(q, o, x.topic, c, p)
         /\ \A j \in 1..Len(q) : p < j /\ GivesUp(q, x.topic, j) => Clash(q, o, x.topic, j)
  BY DEF HeldServe
<1>3. ASSUME NEW t \in Topics, GivesUp(r, t, n)
      PROVE  Clash(r, o, t, n) \/ \E a \in 0..Len(r) : ServedUntil(r, o, t, a, n)
  <2>1. t = x.topic
    BY <1>1, <1>3 DEF GivesUp
  <2>2. CASE \E j \in 1..Len(q) : p < j /\ GivesUp(q, t, j)
    <3>1. PICK j \in 1..Len(q) : Clash(q, o, t, j)
      BY <1>2, <2>1, <2>2
    <3>2. Clash(q, o, t, n)
      BY <1>1, <3>1, ClashLater
    <3>. QED  BY <1>1, <3>2, ServesExtended
  <2>3. CASE ~ \E j \in 1..Len(q) : p < j /\ GivesUp(q, t, j)
    <3>1. Serves(q, o, t, p)
      BY <1>2, <2>1, HeldServes
    <3>2. ServedUntil(q, o, t, p, n)
      BY <1>1, <2>3, <3>1 DEF ServedUntil
    <3>3. ServedUntil(r, o, t, p, n)
      BY <1>1, <3>2, ServesExtended
    <3>. QED  BY <1>1, <3>3
  <2>. QED  BY <2>2, <2>3
<1>4. Paired(r, o)
  BY <1>1, <1>3, PairedExtended
<1>. QED  BY <1>4 DEF r

(* Another call that serves the same topic is left with a clash. *)
LEMMA HeldUnsrv ==
    ASSUME NEW q \in Seq(Tasks), NEW x \in Tasks, NEW o, x.type = "Unsrv",
           NEW t, NEW c, NEW d, c # NoOwner, d # NoOwner, c # d,
           HeldServe(q, o, x.topic, c), HeldServe(q, o, t, d)
    PROVE  HeldServe(Append(q, x), o, t, d)
<1>1. CASE t # x.topic
  BY <1>1, HeldAppend
<1>2. CASE t = x.topic
  <2>. DEFINE r == Append(q, x)
              n == Len(q) + 1
  <2>1. Extends(r, q) /\ r[n] = x /\ Len(r) = n /\ Len(q) \in Nat
    BY AppendExtends DEF Extends
  <2>. HIDE DEF r
  <2>2. PICK p \in 0..Len(q) :
           /\ ServesAs(q, o, t, c, p)
           /\ \A j \in 1..Len(q) : p < j /\ GivesUp(q, t, j) => Clash(q, o, t, j)
    BY <1>2 DEF HeldServe
  <2>3. PICK s \in 0..Len(q) :
           /\ ServesAs(q, o, t, d, s)
           /\ \A j \in 1..Len(q) : s < j /\ GivesUp(q, t, j) => Clash(q, o, t, j)
    BY DEF HeldServe
  <2>4. p # s
    BY <2>2, <2>3 DEF ServesAs
  <2>5. Serves(q, o, t, p) /\ Serves(q, o, t, s)
    BY <2>2, <2>3, HeldServes
  <2>6. Clash(q, o, t, n)
    <3>1. CASE p < s
      <4>1. s \in 1..Len(q)
        BY <2>1, <3>1
      <4>. QED  BY <2>1, <2>2, <2>5, <3>1, <4>1, TwoServesClash
    <3>2. CASE s < p
      <4>1. p \in 1..Len(q)
        BY <2>1, <3>2
      <4>. QED  BY <2>1, <2>3, <2>5, <3>2, <4>1, TwoServesClash
    <3>. QED  BY <2>1, <2>4, <3>1, <3>2
  <2>7. Clash(r, o, t, Len(r))
    BY <2>1, <2>6, ServesExtended
  <2>8. HeldServe(r, o, t, d)
    BY <2>1, <2>7, HeldExtended
  <2>. QED  BY <2>8 DEF r
<1>. QED  BY <1>1, <1>2

(* The core takes the first task: r, with the owner u, is what is left of q
   with the owner o. *)
Takes(q, o, r, u) ==
    /\ Len(q) \in Nat \ {0} /\ Len(r) = Len(q) - 1
    /\ \A i \in 1..Len(r) : r[i] = q[i + 1]
    /\ \A t \in Topics :
          \/ u[t] = o[t] /\ ~(q[1].type = "Srv" /\ q[1].topic = t)
          \/ q[1].type = "Unsrv" /\ q[1].topic = t
          \/ /\ q[1].type = "Srv" /\ q[1].topic = t /\ t \in Concrete
             /\ o[t] = NoOwner /\ u[t] = q[1].id /\ q[1].id # NoOwner

Before(a) == IF a = 0 THEN 0 ELSE a - 1

LEMMA ServesAsTaken ==
    ASSUME NEW q, NEW o, NEW r, NEW u, Takes(q, o, r, u), NEW t \in Topics, NEW c, c # NoOwner,
           NEW a \in 0..Len(q), ServesAs(q, o, t, c, a), a = 0 => ~GivesUp(q, t, 1)
    PROVE  ServesAs(r, u, t, c, Before(a))
<1>1. CASE a = 0
  BY <1>1 DEF ServesAs, Takes, Before, GivesUp
<1>2. CASE a = 1
  BY <1>2 DEF ServesAs, Takes, Before
<1>3. CASE a > 1
  <2>1. a - 1 \in 1..Len(r) /\ r[a - 1] = q[(a - 1) + 1] /\ (a - 1) + 1 = a
    BY <1>3 DEF Takes
  <2>2. q[a].type = "Srv" /\ q[a].topic = t /\ q[a].id = c
    BY <1>3 DEF ServesAs
  <2>. QED  BY <1>3, <2>1, <2>2 DEF ServesAs, Before
<1>. QED  BY <1>1, <1>2, <1>3

LEMMA ServesTaken ==
    ASSUME NEW q, NEW o, NEW r, NEW u, Takes(q, o, r, u), NEW t \in Topics,
           NEW a \in 0..Len(q), Serves(q, o, t, a), a = 0 => ~GivesUp(q, t, 1)
    PROVE  Serves(r, u, t, Before(a))
<1>1. CASE a = 0
  BY <1>1 DEF Serves, Takes, Before, GivesUp
<1>2. CASE a = 1
  BY <1>2 DEF Serves, Takes, Before
<1>3. CASE a > 1
  <2>1. a - 1 \in 1..Len(r) /\ r[a - 1] = q[(a - 1) + 1] /\ (a - 1) + 1 = a
    BY <1>3 DEF Takes
  <2>2. q[a].type = "Srv" /\ q[a].topic = t
    BY <1>3 DEF Serves
  <2>. QED  BY <1>3, <2>1, <2>2 DEF Serves, Before
<1>. QED  BY <1>1, <1>2, <1>3

LEMMA GivesUpTaken ==
    ASSUME NEW q, NEW o, NEW r, NEW u, Takes(q, o, r, u), NEW t, NEW k \in 1..Len(r)
    PROVE  /\ k + 1 \in 1..Len(q)
           /\ GivesUp(r, t, k) <=> GivesUp(q, t, k + 1)
BY DEF Takes, GivesUp

LEMMA UntilTaken ==
    ASSUME NEW q, NEW o, NEW r, NEW u, Takes(q, o, r, u), NEW t \in Topics,
           NEW a \in 0..Len(q), NEW b \in 1..Len(r), ServedUntil(q, o, t, a, b + 1)
    PROVE  Before(a) \in 0..Len(r) /\ ServedUntil(r, u, t, Before(a), b)
<1>1. a < b + 1 /\ Serves(q, o, t, a)
  BY DEF ServedUntil
<1>2. a = 0 => ~GivesUp(q, t, 1)
  <2>. SUFFICES ASSUME a = 0 PROVE ~GivesUp(q, t, 1)
    OBVIOUS
  <2>1. 1 \in 1..Len(q) /\ a < 1 /\ 1 < b + 1
    BY DEF Takes
  <2>. QED  BY <2>1 DEF ServedUntil
<1>3. Serves(r, u, t, Before(a))
  BY <1>1, <1>2, ServesTaken
<1>4. Before(a) \in 0..Len(r) /\ Before(a) < b
  BY <1>1 DEF Takes, Before
<1>5. ASSUME NEW k \in 1..Len(r), Before(a) < k, k < b PROVE ~GivesUp(r, t, k)
  <2>1. k + 1 \in 1..Len(q) /\ a < k + 1 /\ k + 1 < b + 1
    BY <1>5, GivesUpTaken DEF Before
  <2>. QED  BY <2>1, GivesUpTaken DEF ServedUntil
<1>. QED  BY <1>3, <1>4, <1>5 DEF ServedUntil

(* Nothing clashes with the first task, which the core takes. *)
LEMMA ClashTaken ==
    ASSUME NEW q, NEW o, NEW r, NEW u, Takes(q, o, r, u), NEW t \in Topics,
           NEW j \in 1..Len(r), Clash(q, o, t, j + 1)
    PROVE  Clash(r, u, t, j)
<1>1. PICK b \in 1..Len(q) :
         /\ b < j + 1
         /\ Serves(q, o, t, b)
         /\ t \notin Concrete \/ \E a \in 0..Len(q) : ServedUntil(q, o, t, a, b)
  BY DEF Clash
<1>2. b # 1
  <2>. SUFFICES ASSUME b = 1 PROVE FALSE
    OBVIOUS
  <2>1. q[1].type = "Srv" /\ q[1].topic = t
    BY <1>1 DEF Serves
  <2>2. t \in Concrete /\ o[t] = NoOwner
    BY <2>1 DEF Takes
  <2>3. PICK a \in 0..Len(q) : ServedUntil(q, o, t, a, 1)
    BY <1>1, <2>2
  <2>4. a = 0 /\ Serves(q, o, t, 0)
    BY <2>3 DEF ServedUntil
  <2>. QED  BY <2>2, <2>4 DEF Serves
<1>. DEFINE k == b - 1
<1>3. k \in 1..Len(r) /\ b = k + 1 /\ k < j /\ Before(b) = k
  BY <1>1, <1>2 DEF Takes, Before
<1>4. Serves(r, u, t, k)
  <2>1. b \in 0..Len(q) /\ b # 0
    OBVIOUS
  <2>. QED  BY <1>1, <1>3, <2>1, ServesTaken
<1>. HIDE DEF k
<1>5. t \notin Concrete \/ \E a \in 0..Len(r) : ServedUntil(r, u, t, a, k)
  <2>. SUFFICES ASSUME t \in Concrete PROVE \E a \in 0..Len(r) : ServedUntil(r, u, t, a, k)
    OBVIOUS
  <2>1. PICK a \in 0..Len(q) : ServedUntil(q, o, t, a, k + 1)
    BY <1>1, <1>3
  <2>2. Before(a) \in 0..Len(r) /\ ServedUntil(r, u, t, Before(a), k)
    BY <1>3, <2>1, UntilTaken
  <2>. QED  BY <2>2
<1>. QED  BY <1>3, <1>4, <1>5 DEF Clash

LEMMA PairedTaken ==
    ASSUME NEW q, NEW o, NEW r, NEW u, Takes(q, o, r, u), Paired(q, o)
    PROVE  Paired(r, u)
<1>. SUFFICES ASSUME NEW t \in Topics, NEW j \in 1..Len(r), GivesUp(r, t, j)
              PROVE  Clash(r, u, t, j) \/ \E a \in 0..Len(r) : ServedUntil(r, u, t, a, j)
  BY DEF Paired
<1>1. j + 1 \in 1..Len(q) /\ GivesUp(q, t, j + 1)
  BY GivesUpTaken
<1>2. CASE Clash(q, o, t, j + 1)
  BY <1>2, ClashTaken
<1>3. ASSUME NEW a \in 0..Len(q), ServedUntil(q, o, t, a, j + 1)
      PROVE  \E k \in 0..Len(r) : ServedUntil(r, u, t, k, j)
  <2>1. Before(a) \in 0..Len(r) /\ ServedUntil(r, u, t, Before(a), j)
    BY <1>3, UntilTaken
  <2>. QED  BY <2>1
<1>. QED  BY <1>1, <1>2, <1>3 DEF Paired

LEMMA HeldTaken ==
    ASSUME NEW q, NEW o, NEW r, NEW u, Takes(q, o, r, u), NEW t \in Topics, NEW c, c # NoOwner,
           HeldServe(q, o, t, c)
    PROVE  HeldServe(r, u, t, c)
<1>1. PICK p \in 0..Len(q) :
         /\ ServesAs(q, o, t, c, p)
         /\ \A j \in 1..Len(q) : p < j /\ GivesUp(q, t, j) => Clash(q, o, t, j)
  BY DEF HeldServe
<1>2. p = 0 => ~GivesUp(q, t, 1)
  <2>. SUFFICES ASSUME p = 0, GivesUp(q, t, 1) PROVE FALSE
    OBVIOUS
  <2>1. 1 \in 1..Len(q) /\ p < 1
    BY DEF Takes
  <2>2. Clash(q, o, t, 1)
    BY <1>1, <2>1
  <2>. QED  BY <2>2 DEF Clash
<1>3. ServesAs(r, u, t, c, Before(p)) /\ Before(p) \in 0..Len(r)
  <2>1. ServesAs(r, u, t, c, Before(p))
    BY <1>1, <1>2, ServesAsTaken
  <2>2. Before(p) \in 0..Len(r)
    BY DEF Takes, Before
  <2>. QED  BY <2>1, <2>2
<1>4. ASSUME NEW j \in 1..Len(r), Before(p) < j, GivesUp(r, t, j) PROVE Clash(r, u, t, j)
  <2>1. j + 1 \in 1..Len(q) /\ GivesUp(q, t, j + 1) /\ p < j + 1
    BY <1>4, GivesUpTaken DEF Before
  <2>. QED  BY <1>1, <2>1, ClashTaken
<1>. QED  BY <1>3, <1>4 DEF HeldServe

(* the first task, where it is sent *)
LEMMA TaskTaken ==
    ASSUME Types, MessagesOnce, NEW x, SentAs(x)
    PROVE  Takes(tasks, core.owner, tasks', core'.owner)
<1>1. tasks \in Seq(Tasks) /\ tasks # <<>> /\ x = tasks[1] /\ tasks' = Tail(tasks)
  BY DEF SentAs, Types
<1>2. /\ Len(tasks) \in Nat \ {0} /\ Len(tasks') = Len(tasks) - 1
      /\ \A i \in 1..Len(tasks') : tasks'[i] = tasks[i + 1]
  BY <1>1, Queues
<1>3. CASE x.type = "Srv"
  <2>1. /\ x.id \in Calls /\ x.topic \in Concrete
        /\ core'.owner = [core.owner EXCEPT ![x.topic] = x.id]
        /\ core.owner[x.topic] \in {NoOwner, x.id}
    BY <1>3, TaskFields DEF SentAs
  <2>2. core.owner[x.topic] # x.id
    <3>1. Unsent(x.id) /\ x.topic \in Topics
      BY <1>1, <1>3, CarriesTail, TaskFields DEF Unsent, SentAs
    <3>. HIDE DEF Unsent
    <3>. QED  BY <2>1, <3>1 DEF MessagesOnce
  <2>3. x.id # NoOwner
    BY <2>1, NoCallIsNone DEF NoCall, NoOwner
  <2>. QED  BY <1>1, <1>2, <1>3, <2>1, <2>2, <2>3, CoreFields DEF Takes
<1>4. CASE x.type = "Unsrv"
  <2>1. core'.owner = [core.owner EXCEPT ![x.topic] = NoOwner]
    BY <1>4 DEF SentAs
  <2>. QED  BY <1>1, <1>2, <1>4, <2>1, CoreFields DEF Takes
<1>5. CASE x.type \notin {"Srv", "Unsrv"}
  <2>1. core'.owner = core.owner
    BY <1>5 DEF SentAs
  <2>. QED  BY <1>1, <1>2, <1>5, <2>1 DEF Takes
<1>. QED  BY <1>3, <1>4, <1>5

LEMMA ServingFields ==
    ASSUME Types, NEW c \in Calls, Serving(c)
    PROVE  calls[c].topic \in Topics /\ c # NoOwner /\ c # NoCall
BY NoCallIsNone DEF Types, CallStage, Serving, NoCall, NoOwner

LEMMA ServingMoves ==
    ASSUME CallsMove, NEW c \in Calls, Serving(c)'
    PROVE  Serving(c) /\ calls'[c].topic = calls[c].topic
BY DEF CallsMove, CallMoves, Serving

LEMMA PairedStays ==
    ASSUME ServesPaired, CallsMove, tasks' = tasks, core'.owner = core.owner
    PROVE  ServesPaired'
<1>1. Paired(tasks', core'.owner)
  BY DEF ServesPaired
<1>2. ASSUME NEW c \in Calls, Serving(c)'
      PROVE  HeldServe(tasks', core'.owner, calls'[c].topic, c)
  <2>1. Serving(c) /\ calls'[c].topic = calls[c].topic
    BY <1>2, ServingMoves
  <2>2. HeldServe(tasks, core.owner, calls[c].topic, c)
    BY <2>1 DEF ServesPaired
  <2>. QED  BY <2>1, <2>2
<1>. QED  BY <1>1, <1>2 DEF ServesPaired

LEMMA PairedQueued ==
    ASSUME Types, ServesPaired, CallsMove, NEW x \in Tasks, tasks' = Append(tasks, x),
           x.type # "Unsrv", core'.owner = core.owner
    PROVE  ServesPaired'
<1>1. Paired(tasks', core'.owner)
  BY PairedAppend DEF ServesPaired, Types
<1>2. ASSUME NEW c \in Calls, Serving(c)'
      PROVE  HeldServe(tasks', core'.owner, calls'[c].topic, c)
  <2>1. Serving(c) /\ calls'[c].topic = calls[c].topic
    BY <1>2, ServingMoves
  <2>2. HeldServe(tasks, core.owner, calls[c].topic, c)
    BY <2>1 DEF ServesPaired
  <2>3. HeldServe(Append(tasks, x), core.owner, calls[c].topic, c)
    BY <2>2, HeldAppend DEF Types
  <2>. QED  BY <2>1, <2>3
<1>. QED  BY <1>1, <1>2 DEF ServesPaired

LEMMA PairedUnserved ==
    ASSUME Types, ServesPaired, CallsMove, NEW c \in Calls, UnsrvOf(c), core' = core
    PROVE  ServesPaired'
<1>. DEFINE x == TaskOf("Unsrv", NoCall, calls[c].topic, 0)
<1>1. Serving(c) /\ HeldServe(tasks, core.owner, calls[c].topic, c) /\ ~Serving(c)'
  BY DEF UnsrvOf, Serving, ServesPaired
<1>2. c # NoOwner /\ calls[c].topic \in Topics
  BY <1>1, ServingFields
<1>3. x \in Tasks /\ x.type = "Unsrv" /\ x.topic = calls[c].topic /\ tasks' = Append(tasks, x)
  BY <1>2, TaskTypes DEF TaskOf, UnsrvOf
<1>. HIDE DEF x
<1>4. Paired(tasks', core'.owner)
  BY <1>1, <1>2, <1>3, PairedUnsrv DEF ServesPaired, Types
<1>5. ASSUME NEW d \in Calls, Serving(d)'
      PROVE  HeldServe(tasks', core'.owner, calls'[d].topic, d)
  <2>1. d # c /\ Serving(d) /\ calls'[d].topic = calls[d].topic /\ d # NoOwner
    BY <1>1, <1>5, ServingMoves, ServingFields
  <2>2. HeldServe(tasks, core.owner, calls[d].topic, d)
    BY <2>1 DEF ServesPaired
  <2>3. HeldServe(Append(tasks, x), core.owner, calls[d].topic, d)
    BY <1>1, <1>2, <1>3, <2>1, <2>2, HeldUnsrv DEF Types
  <2>. QED  BY <1>3, <2>1, <2>3
<1>. QED  BY <1>4, <1>5 DEF ServesPaired

LEMMA PairedMade ==
    ASSUME Types, ServesPaired, CallIsMade
    PROVE  ServesPaired'
<1>1. PICK c \in Calls, k \in Kinds, t \in Topics, r \in Nat, before \in SUBSET Calls :
         InvokedAs(c, k, t, r, before)
  BY DEF CallIsMade
<1>. DEFINE x == TaskOf(TaskType(k), c, t, r)
<1>2. /\ core' = core /\ tasks' = Append(tasks, x)
      /\ calls'[c] = Call(k, t, r, before)
      /\ \A d \in Calls : d # c => calls'[d] = calls[d]
  BY <1>1 DEF InvokedAs, Types
<1>3. x \in Tasks /\ x.id = c /\ x.type = TaskType(k) /\ x.topic = t /\ x.type # "Unsrv"
  BY TaskTypes DEF TaskOf, TaskType, Kinds
<1>. HIDE DEF x
<1>4. calls'[c].kind = k /\ calls'[c].topic = t
  BY <1>2, CallFieldsOf
<1>5. Paired(tasks', core'.owner)
  BY <1>2, <1>3, PairedAppend DEF ServesPaired, Types
<1>6. ASSUME NEW d \in Calls, Serving(d)'
      PROVE  HeldServe(tasks', core'.owner, calls'[d].topic, d)
  <2>1. CASE d = c
    <3>1. k = "Srv" /\ x.type = "Srv"
      BY <1>3, <1>4, <1>6, <2>1 DEF Serving, TaskType, Subscribing
    <3>2. HeldServe(Append(tasks, x), core.owner, x.topic, x.id)
      BY <1>3, <3>1, HeldNew DEF Types
    <3>. QED  BY <1>2, <1>3, <1>4, <2>1, <3>2
  <2>2. CASE d # c
    <3>1. calls'[d] = calls[d] /\ HeldServe(tasks, core.owner, calls[d].topic, d)
      BY <1>2, <1>6, <2>2 DEF ServesPaired, Serving
    <3>2. HeldServe(Append(tasks, x), core.owner, calls[d].topic, d)
      BY <1>3, <3>1, HeldAppend DEF Types
    <3>. QED  BY <1>2, <3>1, <3>2
  <2>. QED  BY <2>1, <2>2
<1>. QED  BY <1>5, <1>6 DEF ServesPaired

LEMMA PairedSent ==
    ASSUME Types, MessagesOnce, ServesPaired, NEW x, SentAs(x)
    PROVE  ServesPaired'
<1>1. Takes(tasks, core.owner, tasks', core'.owner)
  BY TaskTaken
<1>2. calls' = calls /\ CallsMove
  BY CallsStay DEF SentAs
<1>3. Paired(tasks', core'.owner)
  BY <1>1, PairedTaken DEF ServesPaired
<1>4. ASSUME NEW c \in Calls, Serving(c)'
      PROVE  HeldServe(tasks', core'.owner, calls'[c].topic, c)
  <2>1. Serving(c) /\ calls'[c].topic = calls[c].topic
    BY <1>2, <1>4, ServingMoves
  <2>2. HeldServe(tasks, core.owner, calls[c].topic, c)
    BY <2>1 DEF ServesPaired
  <2>3. calls[c].topic \in Topics /\ c # NoOwner
    BY <2>1, ServingFields
  <2>4. HeldServe(tasks', core'.owner, calls[c].topic, c)
    BY <1>1, <2>2, <2>3, HeldTaken
  <2>. QED  BY <2>1, <2>4
<1>. QED  BY <1>3, <1>4 DEF ServesPaired

(* Nothing is asked of the core, and it does nothing about its topics. *)
Quiet ==
    /\ CallsMove
    /\ UNCHANGED tasks /\ core'.owner = core.owner
    /\ \A c \in Calls : calls'[c].held = calls[c].held

LEMMA QuietMoves ==
    ASSUME Moves
    PROVE  CallIsMade \/ UserMoves \/ StopQueued \/ SentAs(Task) \/ Quiet
<1>1. CASE CallsMove /\ UNCHANGED <<tasks, core, calls>>
  BY <1>1 DEF Quiet
<1>2. CASE UNCHANGED vars \/ KeptAlive \/ Loses
  BY <1>1, <1>2, CallsStay DEF vars, KeptAlive, Loses
<1>3. ASSUME NEW x, NEW q, BusTook(x, q) \/ BusElsewhere(q) PROVE Quiet
  <2>1. BusMoves(q)
    BY <1>3 DEF BusTook, BusElsewhere
  <2>2. UNCHANGED <<tasks, core, calls>>
    BY <2>1 DEF BusMoves
  <2>3. CallsMove
    BY <2>2, CallsStay
  <2>. QED  BY <2>2, <2>3 DEF Quiet
<1>4. ASSUME NEW m, NEW type, Receives(m, type) PROVE Quiet
  <2>1. CallsMove /\ CallsKept /\ UNCHANGED tasks /\ core'.owner = core.owner
    BY <1>4, KeptMoves DEF Receives
  <2>. QED  BY <2>1 DEF Quiet, CallsKept, CallKept
<1>5. ASSUME NEW m, NEW q, AckTaken(m) \/ RspTaken(m) \/ ReqTaken(m) \/ PubTaken(m, q)
      PROVE  Quiet
  BY <1>4, <1>5 DEF AckTaken, RspTaken, ReqTaken, PubTaken
<1>. QED  BY <1>2, <1>3, <1>5 DEF Moves

LEMMA PairedMoved ==
    ASSUME Types, MessagesOnce, ServesPaired, Moves
    PROVE  ServesPaired'
<1>1. CASE Quiet
  BY <1>1, PairedStays DEF Quiet
<1>2. CASE StopQueued
  <2>1. \E x \in Tasks : x.type # "Unsrv" /\ tasks' = Append(tasks, x)
    BY <1>2, TaskTypes DEF StopQueued, TaskOf
  <2>. QED  BY <1>2, <2>1, PairedQueued, CallsStay DEF StopQueued
<1>3. CASE UserMoves
  <2>1. CallsMove /\ core' = core
    BY <1>3 DEF UserMoves
  <2>2. CASE UNCHANGED tasks
    BY <2>1, <2>2, PairedStays
  <2>3. ASSUME NEW c \in Calls, UnsrvOf(c) PROVE ServesPaired'
    BY <2>1, <2>3, PairedUnserved
  <2>4. ASSUME NEW c \in Calls, UnsubOf(c) PROVE ServesPaired'
    <3>1. \E x \in Tasks : x.type # "Unsrv" /\ tasks' = Append(tasks, x)
      BY <2>4, TaskTypes DEF UnsubOf, TaskOf
    <3>. QED  BY <2>1, <3>1, PairedQueued
  <2>. QED  BY <1>3, <2>2, <2>3, <2>4 DEF UserMoves
<1>. QED  BY <1>1, <1>2, <1>3, QuietMoves, PairedMade, PairedSent

(* The first task is no Unsrv of what is not served. *)
LEMMA UnservesSomething ==
    ASSUME Types, CallbacksThere, ServesPaired
    PROVE  ~UnservesNothing
<1>. SUFFICES ASSUME UnservesNothing PROVE FALSE
  OBVIOUS
<1>. DEFINE t == Task.topic
<1>1. tasks \in Seq(Tasks) /\ tasks # <<>> /\ Task = tasks[1] /\ Task \in Tasks
  BY Queues DEF Types, UnservesNothing, Task
<1>2. t \in Topics /\ GivesUp(tasks, t, 1) /\ 1 \in 1..Len(tasks)
  BY <1>1, Queues, TaskFields DEF UnservesNothing, GivesUp
<1>3. ~Clash(tasks, core.owner, t, 1)
  BY DEF Clash
<1>4. PICK a \in 0..Len(tasks) : ServedUntil(tasks, core.owner, t, a, 1)
  BY <1>2, <1>3 DEF ServesPaired, Paired
<1>5. core.owner[t] # NoOwner
  BY <1>4 DEF ServedUntil, Serves
<1>6. t \in Concrete
  BY <1>2, <1>5 DEF CallbacksThere
<1>. QED  BY <1>5, <1>6 DEF UnservesNothing, GetOwner

(* The first message is no response that nobody expects. *)
LEMMA AnswersExpected ==
    ASSUME Types, ResponsesExpected
    PROVE  ~AnsweredUnexpectedly
<1>. SUFFICES ASSUME AnsweredUnexpectedly PROVE FALSE
  OBVIOUS
<1>1. 1 \in 1..Len(down) /\ Message = down[1]
  BY Queues DEF Types, AnsweredUnexpectedly, Message
<1>. QED  BY <1>1 DEF ResponsesExpected, AnsweredUnexpectedly

-----------------------------------------------------------------------------
(* What is served is held, or given up: ServesWanted *)

LEMMA TasksAreOf ==
    ASSUME Types, MessagesOnce, NEW i \in 1..Len(tasks), tasks[i].type = "Srv"
    PROVE  /\ tasks[i].id \in Calls /\ tasks[i].topic \in Topics
           /\ calls[tasks[i].id].kind = "Srv" /\ calls[tasks[i].id].topic = tasks[i].topic
<1>1. tasks[i].id \in Calls /\ tasks[i].topic \in Topics
  BY Queues, TaskFields DEF Types
<1>2. /\ calls[tasks[i].id].stage # "none" /\ TaskType(calls[tasks[i].id].kind) = "Srv"
      /\ calls[tasks[i].id].topic = tasks[i].topic
  BY <1>1, NoCallIsNone DEF MessagesOnce, Once
<1>. QED  BY <1>1, <1>2, TaskKinds

LEMMA WantedStays ==
    ASSUME Types, MessagesOnce, CallbacksThere, ServesWanted,
           tasks' = tasks, core'.owner = core.owner, ServesHeld
    PROVE  ServesWanted'
<1>1. \A t \in Topics : core.owner[t] # NoOwner =>
         calls'[core.owner[t]].held = calls[core.owner[t]].held
  BY CoreFields DEF CallbacksThere, ServesHeld
<1>2. \A i \in 1..Len(tasks) : tasks[i].type = "Srv" =>
         calls'[tasks[i].id].held = calls[tasks[i].id].held
  BY TasksAreOf DEF ServesHeld
<1>. QED  BY <1>1, <1>2 DEF ServesWanted, GivesUp

LEMMA WantedQueued ==
    ASSUME Types, MessagesOnce, CallbacksThere, ServesWanted,
           NEW x \in Tasks, tasks' = Append(tasks, x), core'.owner = core.owner,
           x.type = "Srv" => calls'[x.id].held,
           \A d \in Calls : calls[d].kind = "Srv" =>
              \/ calls'[d].held = calls[d].held
              \/ x.type = "Unsrv" /\ x.topic = calls[d].topic
    PROVE  ServesWanted'
<1>. DEFINE n == Len(tasks) + 1
<1>1. /\ Len(tasks) \in Nat /\ Len(tasks') = n /\ tasks'[n] = x
      /\ \A i \in 1..Len(tasks) : tasks'[i] = tasks[i]
  BY AppendExtends DEF Types, Extends
<1>2. ASSUME NEW d \in Calls, calls[d].kind = "Srv"
      PROVE  calls'[d].held = calls[d].held \/ GivesUp(tasks', calls[d].topic, n)
  BY <1>1, <1>2 DEF GivesUp
<1>3. \A i \in 1..Len(tasks) : \A t : GivesUp(tasks, t, i) => GivesUp(tasks', t, i)
  BY <1>1 DEF GivesUp
<1>4. n \in 1..Len(tasks') /\ \A i \in 1..Len(tasks) : i < n /\ i \in 1..Len(tasks')
  BY <1>1
<1>5. ASSUME NEW t \in Topics, core'.owner[t] # NoOwner
      PROVE  \/ calls'[core'.owner[t]].held
             \/ \E j \in 1..Len(tasks') : GivesUp(tasks', t, j)
  <2>. DEFINE d == core.owner[t]
  <2>1. d \in Calls /\ calls[d].kind = "Srv" /\ calls[d].topic = t
    BY <1>5, CoreFields DEF CallbacksThere
  <2>2. calls[d].held \/ \E j \in 1..Len(tasks) : GivesUp(tasks, t, j)
    BY <1>5 DEF ServesWanted
  <2>. HIDE DEF d
  <2>3. calls'[d].held \/ \E j \in 1..Len(tasks') : GivesUp(tasks', t, j)
    BY <1>2, <1>3, <1>4, <2>1, <2>2
  <2>. QED  BY <2>3 DEF d
<1>6. ASSUME NEW i \in 1..Len(tasks'), tasks'[i].type = "Srv"
      PROVE  \/ calls'[tasks'[i].id].held
             \/ \E j \in 1..Len(tasks') : i < j /\ GivesUp(tasks', tasks'[i].topic, j)
  <2>1. i \in 1..Len(tasks) \/ i = n
    BY <1>1
  <2>2. CASE i \in 1..Len(tasks)
    <3>. DEFINE d == tasks[i].id
                t == tasks[i].topic
    <3>1. tasks'[i] = tasks[i]
      BY <1>1, <2>2
    <3>2. d \in Calls /\ calls[d].kind = "Srv" /\ calls[d].topic = t
      BY <1>6, <2>2, <3>1, TasksAreOf
    <3>3. calls[d].held \/ \E j \in 1..Len(tasks) : i < j /\ GivesUp(tasks, t, j)
      BY <1>6, <2>2, <3>1 DEF ServesWanted
    <3>. HIDE DEF d, t
    <3>4. calls'[d].held \/ \E j \in 1..Len(tasks') : i < j /\ GivesUp(tasks', t, j)
      BY <1>2, <1>3, <1>4, <2>2, <3>2, <3>3
    <3>. QED  BY <3>1, <3>4 DEF d, t
  <2>. QED  BY <1>1, <1>6, <2>1, <2>2
<1>. QED  BY <1>5, <1>6 DEF ServesWanted

LEMMA WantedSent ==
    ASSUME Types, MessagesOnce, ServesWanted, NEW x, SentAs(x)
    PROVE  ServesWanted'
<1>1. Takes(tasks, core.owner, tasks', core'.owner) /\ calls' = calls
  BY TaskTaken DEF SentAs
<1>2. tasks \in Seq(Tasks) /\ 1 \in 1..Len(tasks) /\ Len(tasks) \in Nat
  BY <1>1 DEF Types, Takes
<1>3. /\ \A i \in 1..Len(tasks') : i + 1 \in 1..Len(tasks) /\ tasks'[i] = tasks[i + 1]
      /\ \A t : \A i \in 1..Len(tasks') : GivesUp(tasks', t, i) <=> GivesUp(tasks, t, i + 1)
  BY <1>1 DEF Takes, GivesUp
<1>4. \A j \in 1..Len(tasks) : j # 1 => j - 1 \in 1..Len(tasks') /\ (j - 1) + 1 = j
  BY <1>1 DEF Takes
<1>5. ASSUME NEW t \in Topics, core'.owner[t] # NoOwner
      PROVE  \/ calls'[core'.owner[t]].held
             \/ \E j \in 1..Len(tasks') : GivesUp(tasks', t, j)
  <2>1. x = tasks[1]
    BY DEF SentAs
  <2>2. CASE x.type = "Srv" /\ x.topic = t
    <3>1. core'.owner[t] = x.id
      BY <1>1, <2>1, <2>2 DEF Takes
    <3>2. calls[x.id].held \/ \E j \in 1..Len(tasks) : 1 < j /\ GivesUp(tasks, t, j)
      BY <1>2, <2>1, <2>2 DEF ServesWanted
    <3>3. ASSUME NEW j \in 1..Len(tasks), 1 < j, GivesUp(tasks, t, j)
          PROVE  \E k \in 1..Len(tasks') : GivesUp(tasks', t, k)
      <4>1. j - 1 \in 1..Len(tasks') /\ GivesUp(tasks', t, j - 1)
        BY <1>3, <1>4, <3>3
      <4>. QED  BY <4>1
    <3>. QED  BY <1>1, <3>1, <3>2, <3>3
  <2>3. CASE ~(x.type = "Srv" /\ x.topic = t)
    <3>1. ~(x.type = "Unsrv" /\ x.topic = t)
      <4>. SUFFICES ASSUME x.type = "Unsrv", x.topic = t PROVE FALSE
        OBVIOUS
      <4>. QED  BY <1>5, CoreFields DEF SentAs
    <3>2. core'.owner[t] = core.owner[t]
      BY <1>1, <2>1, <2>3, <3>1 DEF Takes
    <3>3. calls[core.owner[t]].held \/ \E j \in 1..Len(tasks) : GivesUp(tasks, t, j)
      BY <1>5, <3>2 DEF ServesWanted
    <3>4. ~GivesUp(tasks, t, 1)
      BY <2>1, <3>1 DEF GivesUp
    <3>5. ASSUME NEW j \in 1..Len(tasks), GivesUp(tasks, t, j)
          PROVE  \E k \in 1..Len(tasks') : GivesUp(tasks', t, k)
      <4>1. j - 1 \in 1..Len(tasks') /\ (j - 1) + 1 = j
        BY <1>4, <3>4, <3>5
      <4>2. GivesUp(tasks', t, j - 1)
        BY <1>3, <3>5, <4>1
      <4>. QED  BY <4>1, <4>2
    <3>. QED  BY <1>1, <3>2, <3>3, <3>5
  <2>. QED  BY <2>2, <2>3
<1>6. ASSUME NEW i \in 1..Len(tasks'), tasks'[i].type = "Srv"
      PROVE  \/ calls'[tasks'[i].id].held
             \/ \E j \in 1..Len(tasks') : i < j /\ GivesUp(tasks', tasks'[i].topic, j)
  <2>1. i + 1 \in 1..Len(tasks) /\ tasks'[i] = tasks[i + 1]
    BY <1>3
  <2>2. \/ calls[tasks'[i].id].held
        \/ \E j \in 1..Len(tasks) : i + 1 < j /\ GivesUp(tasks, tasks'[i].topic, j)
    BY <1>6, <2>1 DEF ServesWanted
  <2>3. ASSUME NEW j \in 1..Len(tasks), i + 1 < j, GivesUp(tasks, tasks'[i].topic, j)
        PROVE  \E k \in 1..Len(tasks') : i < k /\ GivesUp(tasks', tasks'[i].topic, k)
    <3>1. j - 1 \in 1..Len(tasks') /\ (j - 1) + 1 = j /\ i < j - 1
      BY <1>2, <1>4, <2>3
    <3>. QED  BY <1>3, <2>3, <3>1
  <2>. QED  BY <1>1, <2>2, <2>3
<1>. QED  BY <1>5, <1>6 DEF ServesWanted

LEMMA WantedMade ==
    ASSUME Types, MessagesOnce, CallbacksThere, ServesWanted, CallIsMade
    PROVE  ServesWanted'
<1>1. PICK c \in Calls, k \in Kinds, t \in Topics, r \in Nat, before \in SUBSET Calls :
         InvokedAs(c, k, t, r, before)
  BY DEF CallIsMade
<1>. DEFINE x == TaskOf(TaskType(k), c, t, r)
<1>2. /\ core' = core /\ tasks' = Append(tasks, x)
      /\ calls'[c] = Call(k, t, r, before)
      /\ \A d \in Calls : d # c => calls'[d] = calls[d]
      /\ calls[c].kind # "Srv"
  BY <1>1 DEF InvokedAs, Types, CallStage
<1>3. x \in Tasks /\ x.id = c /\ x.type = TaskType(k)
  BY TaskTypes DEF TaskOf
<1>. HIDE DEF x
<1>4. TaskType(k) = "Srv" => k = "Srv"
  BY DEF TaskType, Kinds, Subscribing
<1>5. TaskType(k) = "Srv" => calls'[c].held
  BY <1>2, <1>4, CallFieldsOf
<1>. QED  BY <1>2, <1>3, <1>5, WantedQueued

LEMMA WantedMoved ==
    ASSUME Types, MessagesOnce, CallbacksThere, ServesWanted, Running, Moves
    PROVE  ServesWanted'
<1>1. CASE Quiet
  BY <1>1, WantedStays DEF Quiet, ServesHeld
<1>2. CASE StopQueued
  <2>1. PICK x \in Tasks : x.type \notin {"Srv", "Unsrv"} /\ tasks' = Append(tasks, x)
    BY <1>2, TaskTypes DEF StopQueued, TaskOf
  <2>. QED  BY <1>2, <2>1, WantedQueued DEF StopQueued
<1>3. CASE UserMoves
  <2>1. CallsMove /\ core' = core
    BY <1>3 DEF UserMoves
  <2>2. CASE UNCHANGED tasks /\ ServesHeld
    BY <2>1, <2>2, WantedStays
  <2>3. ASSUME NEW c \in Calls, UnsrvOf(c) PROVE ServesWanted'
    <3>. DEFINE x == TaskOf("Unsrv", NoCall, calls[c].topic, 0)
    <3>1. x \in Tasks /\ x.type = "Unsrv" /\ x.topic = calls[c].topic
          /\ tasks' = Append(tasks, x)
      BY <2>3, TaskTypes DEF UnsrvOf, TaskOf
    <3>. HIDE DEF x
    <3>2. \A d \in Calls : calls'[d].held = calls[d].held \/ calls[d].topic = x.topic
      BY <2>3, <3>1 DEF UnsrvOf
    <3>. QED  BY <2>1, <3>1, <3>2, WantedQueued
  <2>4. ASSUME NEW c \in Calls, UnsubOf(c) PROVE ServesWanted'
    <3>1. PICK x \in Tasks : x.type \notin {"Srv", "Unsrv"} /\ tasks' = Append(tasks, x)
      BY <2>4, TaskTypes DEF UnsubOf, TaskOf
    <3>2. ServesHeld
      BY <2>4 DEF UnsubOf
    <3>. QED  BY <2>1, <3>1, <3>2, WantedQueued DEF ServesHeld
  <2>. QED  BY <1>3, <2>2, <2>3, <2>4 DEF UserMoves
<1>. QED  BY <1>1, <1>2, <1>3, QuietMoves, WantedMade, WantedSent

-----------------------------------------------------------------------------
(* What is acked: AckedWhenOk and OwnerAtBus *)

LEMMA UnaskedUnacked ==
    ASSUME MessagesOnce, NEW c \in Calls, Unasked(c)
    PROVE  ~Acked(c)
<1>1. calls[c].ack # NoError
  <2>1. calls[c].ack = "empty"
    <3>. HIDE DEF Unasked
    <3>. QED  BY DEF MessagesOnce
  <2>. QED  BY <2>1 DEF NoError
<1>2. \A i \in 1..Len(down) : down[i].type = "Ack" => down[i].id # c
  <2>. HIDE DEF Unasked
  <2>. QED  BY DEF MessagesOnce
<1>. QED  BY <1>1, <1>2 DEF Acked

(* the bus's ack of c is on its way *)
AckSent(x, q, c) ==
    /\ x.id = c
    /\ \E i \in 1..Len(q) : q[i].type = "Ack" /\ q[i].error = NoError

LEMMA AckedReceives ==
    ASSUME Types, NEW m, NEW type, Receives(m, type), NEW c \in Calls, Acked(c)',
           \/ calls'[c].ack = calls[c].ack
           \/ type = "Ack" /\ c = m.id /\ calls'[c].ack = m.error
    PROVE  Acked(c)
<1>1. /\ 1 \in 1..Len(down) /\ m = down[1] /\ m.type = type
      /\ \A i \in 1..Len(down') : i + 1 \in 1..Len(down) /\ down'[i] = down[i + 1]
  BY TailMessages DEF Receives
<1>2. CASE calls'[c].ack = NoError
  BY <1>1, <1>2 DEF Acked
<1>3. ASSUME NEW i \in 1..Len(down'),
             down'[i].type = "Ack", down'[i].id = c, down'[i].error = NoError
      PROVE  Acked(c)
  BY <1>1, <1>3 DEF Acked
<1>. QED  BY <1>2, <1>3 DEF Acked

LEMMA AckedMoves ==
    ASSUME Types, MessagesOnce, Moves, Open', NEW c \in Calls, Acked(c)',
           ~ \E q : BusTook(Asked, q)
    PROVE  Acked(c)
<1>1. CASE UNCHANGED <<calls, down>>
  BY <1>1 DEF Acked
<1>2. CASE UNCHANGED vars \/ StopQueued \/ KeptAlive
  BY <1>1, <1>2 DEF vars, StopQueued, KeptAlive
<1>3. CASE CallIsMade
  <2>1. PICK d \in Calls, k \in Kinds, t \in Topics, r \in Nat, before \in SUBSET Calls :
           InvokedAs(d, k, t, r, before)
    BY <1>3 DEF CallIsMade
  <2>2. /\ down' = down /\ calls'[d] = Call(k, t, r, before)
        /\ \A e \in Calls : e # d => calls'[e] = calls[e]
    BY <2>1 DEF InvokedAs, Types
  <2>3. calls'[d].ack # NoError
    BY <2>2, CallFieldsOf DEF NoError
  <2>. QED  BY <2>2, <2>3 DEF Acked
<1>4. CASE UserMoves
  BY <1>4 DEF UserMoves, Acked
<1>5. CASE SentAs(Task)
  BY <1>1, <1>5 DEF SentAs
<1>6. ASSUME NEW m, NEW q, AckTaken(m) \/ RspTaken(m) \/ ReqTaken(m) \/ PubTaken(m, q)
      PROVE  Acked(c)
  <2>1. CASE AckTaken(m)
    <3>1. Receives(m, "Ack")
      BY <2>1 DEF AckTaken
    <3>2. calls'[c].ack = calls[c].ack \/ (c = m.id /\ calls'[c].ack = m.error)
      BY <2>1 DEF AckTaken
    <3>. QED  BY <3>1, <3>2, AckedReceives
  <2>2. CASE RspTaken(m) \/ ReqTaken(m) \/ PubTaken(m, q)
    <3>1. PICK type : Receives(m, type)
      BY <2>2 DEF RspTaken, ReqTaken, PubTaken
    <3>2. calls'[c].ack = calls[c].ack
      BY <2>2 DEF RspTaken, ReqTaken, PubTaken, AcksKept
    <3>. QED  BY <3>1, <3>2, AckedReceives
  <2>. QED  BY <1>6, <2>1, <2>2
<1>7. ASSUME NEW q, BusElsewhere(q) PROVE Acked(c)
  <2>1. /\ calls' = calls /\ q \in Seq(Messages) /\ down' = down \o q
        /\ \A i \in 1..Len(q) : q[i].type # "Ack"
    BY <1>7 DEF BusElsewhere, BusMoves
  <2>2. \A i \in 1..Len(down') : down'[i].type = "Ack" =>
           i \in 1..Len(down) /\ down'[i] = down[i]
    BY <2>1, DownConcat
  <2>. QED  BY <2>1, <2>2 DEF Acked
<1>8. CASE Loses
  BY <1>8 DEF Loses, Open
<1>. QED  BY <1>2, <1>3, <1>4, <1>5, <1>6, <1>7, <1>8 DEF Moves

LEMMA AckedTook ==
    ASSUME Types, NEW x, NEW q, BusTook(x, q), NEW c \in Calls, Acked(c)'
    PROVE  Acked(c) \/ AckSent(x, q, c)
<1>1. /\ calls' = calls /\ q \in Seq(Messages) /\ down' = down \o q
      /\ \A i \in 1..Len(q) : q[i].type = "Ack" => q[i].id = x.id
  BY DEF BusTook, BusMoves
<1>2. \A i \in 1..Len(down') : \/ i \in 1..Len(down) /\ down'[i] = down[i]
                               \/ i - Len(down) \in 1..Len(q) /\ down'[i] = q[i - Len(down)]
  BY <1>1, DownConcat
<1>. QED  BY <1>1, <1>2 DEF Acked, AckSent

LEMMA OkMoved ==
    ASSUME Types, AckedWhenOk, Moves
    PROVE  AckedWhenOk'
<1>1. CASE UNCHANGED calls
  BY <1>1 DEF AckedWhenOk
<1>2. CASE CallIsMade
  <2>1. PICK d \in Calls, k \in Kinds, t \in Topics, r \in Nat, before \in SUBSET Calls :
           InvokedAs(d, k, t, r, before)
    BY <1>2 DEF CallIsMade
  <2>2. /\ calls'[d] = Call(k, t, r, before)
        /\ \A e \in Calls : e # d => calls'[e] = calls[e]
    BY <2>1 DEF InvokedAs, Types
  <2>3. calls'[d].stage # "Ok"
    BY <2>2, CallFieldsOf
  <2>. QED  BY <2>2, <2>3 DEF AckedWhenOk
<1>3. CASE UserMoves
  BY <1>3 DEF UserMoves, AckedWhenOk, CallsMove, CallMoves
<1>4. ASSUME NEW m, NEW q, AckTaken(m) \/ RspTaken(m) \/ ReqTaken(m) \/ PubTaken(m, q)
      PROVE  AckedWhenOk'
  <2>1. CallsKept
    BY <1>4 DEF AckTaken, RspTaken, ReqTaken, PubTaken, Receives
  <2>2. \A c \in Calls : calls'[c].ack = calls[c].ack \/ calls[c].stage = "acking"
    BY <1>4 DEF AckTaken, RspTaken, ReqTaken, PubTaken, AcksKept
  <2>. QED  BY <2>1, <2>2 DEF AckedWhenOk, CallsKept, CallKept
<1>5. CASE UNCHANGED vars \/ StopQueued \/ KeptAlive \/ Loses \/ SentAs(Task)
  BY <1>1, <1>5 DEF vars, StopQueued, KeptAlive, Loses, SentAs
<1>6. ASSUME NEW x, NEW q, BusTook(x, q) \/ BusElsewhere(q) PROVE AckedWhenOk'
  <2>1. BusMoves(q)
    BY <1>6 DEF BusTook, BusElsewhere
  <2>. QED  BY <1>1, <2>1 DEF BusMoves
<1>. QED  BY <1>2, <1>3, <1>4, <1>5, <1>6 DEF Moves

LEMMA AtBusStays ==
    ASSUME OwnerAtBus, Open' => Open, core'.owner = core.owner, bus' = bus,
           \A t \in Topics : \A j \in 1..Len(up') : GivesUp(up', t, j) =>
              j \in 1..Len(up) /\ GivesUp(up, t, j),
           \A i \in 1..Len(up) : i \in 1..Len(up') /\ up'[i] = up[i],
           Open' => \A c \in Calls : Acked(c)' => Acked(c)
    PROVE  OwnerAtBus'
<1>. HIDE DEF Acked
<1>. SUFFICES ASSUME Open', NEW t \in Topics, NEW c \in Calls, core'.owner[t] = c
              PROVE  /\ \A j \in 1..Len(up') : GivesUp(up', t, j) =>
                           \E i \in 1..Len(up') : j < i /\ up'[i].id = c
                     /\ Acked(c)' => bus'.owner[t] = Me
  BY DEF OwnerAtBus
<1>1. /\ \A j \in 1..Len(up) : GivesUp(up, t, j) => \E i \in 1..Len(up) : j < i /\ up[i].id = c
      /\ Acked(c) => bus.owner[t] = Me
  BY DEF OwnerAtBus
<1>. QED  BY <1>1

LEMMA AtBusSent ==
    ASSUME Types, MessagesOnce, OwnerAtBus, NEW x, SentAs(x)
    PROVE  OwnerAtBus'
<1>1. /\ tasks \in Seq(Tasks) /\ tasks # <<>> /\ x = tasks[1] /\ x \in Tasks
      /\ up' = IF Open THEN Append(up, x) ELSE up
      /\ UNCHANGED <<calls, down, conn, bus>>
  BY DEF SentAs, Types
<1>. SUFFICES ASSUME Open', NEW t \in Topics, NEW c \in Calls, core'.owner[t] = c
              PROVE  /\ \A j \in 1..Len(up') : GivesUp(up', t, j) =>
                           \E i \in 1..Len(up') : j < i /\ up'[i].id = c
                     /\ Acked(c)' => bus'.owner[t] = Me
  BY DEF OwnerAtBus
<1>. DEFINE n == Len(up) + 1
<1>2. Open
  BY <1>1 DEF Open
<1>3. /\ Len(up) \in Nat /\ Len(up') = n /\ up'[n] = x
      /\ \A i \in 1..Len(up) : up'[i] = up[i]
  BY <1>1, <1>2, AppendExtends DEF Types, Extends
<1>4. \A j \in 1..Len(up') : (j \in 1..Len(up) /\ j < n) \/ j = n
  BY <1>3
<1>5. \A j \in 1..Len(up) : j \in 1..Len(up')
  BY <1>3
<1>6. n \in 1..Len(up')
  BY <1>3
<1>. HIDE DEF n
<1>7. CASE x.type = "Srv" /\ x.topic = t
  <2>1. c = x.id
    BY <1>1, <1>7, TaskTaken DEF Takes
  <2>2. \A j \in 1..Len(up') : GivesUp(up', t, j) =>
           \E i \in 1..Len(up') : j < i /\ up'[i].id = x.id
    BY <1>3, <1>4, <1>6, <1>7 DEF GivesUp
  <2>3. Unasked(c)
    BY <1>1, <2>1, CarriesTail DEF Unasked, Unsent
  <2>4. ~Acked(c)
    BY <2>3, UnaskedUnacked
  <2>5. ~Acked(c)'
    BY <1>1, <2>4 DEF Acked
  <2>. QED  BY <2>1, <2>2, <2>5
<1>8. CASE ~(x.type = "Srv" /\ x.topic = t)
  <2>1. ~(x.type = "Unsrv" /\ x.topic = t)
    <3>. SUFFICES ASSUME x.type = "Unsrv", x.topic = t PROVE FALSE
      OBVIOUS
    <3>1. core'.owner[t] = NoOwner
      BY CoreFields DEF SentAs
    <3>. QED  BY <3>1, NoCallIsNone DEF NoOwner, NoCall
  <2>2. core.owner[t] = c
    BY <1>1, <1>8, <2>1, TaskTaken DEF Takes
  <2>3. /\ \A j \in 1..Len(up) : GivesUp(up, t, j) =>
              \E i \in 1..Len(up) : j < i /\ up[i].id = c
        /\ Acked(c) => bus.owner[t] = Me
    BY <1>2, <2>2 DEF OwnerAtBus
  <2>5. ASSUME NEW j \in 1..Len(up'), GivesUp(up', t, j)
        PROVE  \E i \in 1..Len(up') : j < i /\ up'[i].id = c
    <3>1. j \in 1..Len(up) /\ GivesUp(up, t, j)
      BY <1>3, <1>4, <2>1, <2>5 DEF GivesUp
    <3>2. PICK i \in 1..Len(up) : j < i /\ up[i].id = c
      BY <2>3, <3>1
    <3>. QED  BY <1>3, <1>5, <3>2
  <2>6. Acked(c)' => Acked(c)
    BY <1>1 DEF Acked
  <2>7. Acked(c)' => bus'.owner[t] = Me
    BY <1>1, <2>3, <2>6
  <2>. QED  BY <2>5, <2>7
<1>. QED  BY <1>7, <1>8

(* the message that the bus takes *)
LEMMA UpTail ==
    ASSUME Types, NEW x, NEW q, BusTook(x, q)
    PROVE  /\ up \in Seq(Tasks) /\ Len(up) \in Nat /\ 1 \in 1..Len(up) /\ x = up[1]
           /\ \A i \in 1..Len(up') : i + 1 \in 1..Len(up) /\ up'[i] = up[i + 1]
           /\ \A i \in 1..Len(up) : i > 1 =>
                 i - 1 \in 1..Len(up') /\ (i - 1) + 1 = i /\ up'[i - 1] = up[i]
<1>. DEFINE r == Tail(up)
<1>1. /\ up \in Seq(Tasks) /\ up # <<>> /\ up' = r /\ x = up[1]
  BY DEF BusTook, Types
<1>2. /\ Len(up) \in Nat /\ 1 \in 1..Len(up) /\ Len(r) = Len(up) - 1
      /\ \A i \in 1..Len(r) : r[i] = up[i + 1]
  BY <1>1, Queues
<1>. HIDE DEF r
<1>3. \A i \in 1..Len(r) : i + 1 \in 1..Len(up) /\ r[i] = up[i + 1]
  BY <1>2
<1>4. \A i \in 1..Len(up) : i > 1 => i - 1 \in 1..Len(r) /\ (i - 1) + 1 = i
  BY <1>2
<1>5. \A i \in 1..Len(up) : i > 1 => r[i - 1] = up[i]
  <2>. SUFFICES ASSUME NEW i \in 1..Len(up), i > 1 PROVE r[i - 1] = up[i]
    OBVIOUS
  <2>1. i - 1 \in 1..Len(r) /\ (i - 1) + 1 = i
    BY <1>4
  <2>2. r[i - 1] = up[(i - 1) + 1]
    BY <1>3, <2>1
  <2>. QED  BY <2>1, <2>2
<1>. QED  BY <1>1, <1>2, <1>3, <1>4, <1>5

LEMMA AtBusTook ==
    ASSUME Types, MessagesOnce, CallbacksThere, OwnerAtBus, NEW x, NEW q, BusTook(x, q)
    PROVE  OwnerAtBus'
<1>1. /\ UNCHANGED <<core, tasks, calls>> /\ Open
      /\ x \in Tasks
      /\ \A u \in Topics : bus.owner[u] = Me =>
            bus'.owner[u] = Me \/ (x.type = "Unsrv" /\ x.topic = u)
  BY DEF BusTook, BusMoves
<1>. SUFFICES ASSUME NEW t \in Topics, NEW c \in Calls, core'.owner[t] = c
              PROVE  /\ \A j \in 1..Len(up') : GivesUp(up', t, j) =>
                           \E i \in 1..Len(up') : j < i /\ up'[i].id = c
                     /\ Acked(c)' => bus'.owner[t] = Me
  BY DEF OwnerAtBus
<1>2. /\ \A j \in 1..Len(up) : GivesUp(up, t, j) => \E i \in 1..Len(up) : j < i /\ up[i].id = c
      /\ Acked(c) => bus.owner[t] = Me
  BY <1>1 DEF OwnerAtBus
<1>3. calls[c].kind = "Srv" /\ calls[c].topic = t
  BY <1>1, NoCallIsNone DEF CallbacksThere, NoOwner, NoCall
<1>4. ASSUME NEW j \in 1..Len(up'), GivesUp(up', t, j)
      PROVE  \E i \in 1..Len(up') : j < i /\ up'[i].id = c
  <2>1. j + 1 \in 1..Len(up) /\ GivesUp(up, t, j + 1)
    BY <1>4, UpTail DEF GivesUp
  <2>2. PICK i \in 1..Len(up) : j + 1 < i /\ up[i].id = c
    BY <1>2, <2>1
  <2>3. i > 1 /\ j < i - 1
    BY <2>1, <2>2
  <2>4. i - 1 \in 1..Len(up') /\ up'[i - 1] = up[i]
    BY <2>3, UpTail
  <2>. QED  BY <2>2, <2>3, <2>4
<1>5. Acked(c) => bus'.owner[t] = Me
  <2>. SUFFICES ASSUME Acked(c), x.type = "Unsrv", x.topic = t PROVE FALSE
    BY <1>1, <1>2
  <2>1. 1 \in 1..Len(up) /\ GivesUp(up, t, 1)
    BY UpTail DEF GivesUp
  <2>2. Carries(up, c)
    BY <1>2, <2>1 DEF Carries
  <2>3. Unasked(c)
    BY <2>2 DEF Unasked
  <2>. QED  BY <1>3, <2>3, UnaskedUnacked
<1>6. AckSent(x, q, c) => bus'.owner[t] = Me
  <2>. SUFFICES ASSUME AckSent(x, q, c) PROVE bus'.owner[t] = Me
    OBVIOUS
  <2>1. x.id = c
    BY DEF AckSent
  <2>2. calls[c].stage # "none" /\ x.type = TaskType(calls[c].kind)
    BY <1>3, <2>1, NoCallIsNone, OnceTail DEF MessagesOnce, BusTook, Types
  <2>3. x.type = "Srv" /\ x.topic = t
    <3>1. x.topic = calls[c].topic
      BY <2>1, NoCallIsNone, OnceTail DEF MessagesOnce, BusTook, Types
    <3>. QED  BY <1>3, <2>2, <3>1, TaskKinds
  <2>. QED  BY <2>3 DEF AckSent, BusTook
<1>7. Acked(c)' => Acked(c) \/ AckSent(x, q, c)
  BY AckedTook
<1>. QED  BY <1>4, <1>5, <1>6, <1>7

LEMMA AtBusMoved ==
    ASSUME Types, MessagesOnce, CallbacksThere, OwnerAtBus, Moves
    PROVE  OwnerAtBus'
<1>1. CASE ~Open'
  BY <1>1 DEF OwnerAtBus
<1>2. CASE SentAs(Task)
  BY <1>2, AtBusSent
<1>3. CASE \E q : BusTook(Asked, q)
  BY <1>3, AtBusTook
<1>4. CASE Open' /\ ~SentAs(Task) /\ ~ \E q : BusTook(Asked, q)
  <2>1. \A c \in Calls : Acked(c)' => Acked(c)
    BY <1>4, AckedMoves
  <2>2. ASSUME Open, UNCHANGED <<up, bus>>, core'.owner = core.owner PROVE OwnerAtBus'
    BY <2>1, <2>2, AtBusStays
  <2>3. CASE UNCHANGED vars \/ CallIsMade \/ UserMoves \/ StopQueued
    <3>1. UNCHANGED <<core, up, conn, bus>>
      BY <2>3 DEF vars, CallIsMade, InvokedAs, UserMoves, StopQueued
    <3>. QED  BY <1>4, <2>2, <3>1 DEF Open
  <2>4. ASSUME NEW m, AckTaken(m) \/ RspTaken(m) \/ ReqTaken(m) PROVE OwnerAtBus'
    <3>1. UNCHANGED <<up, conn, bus>> /\ core'.owner = core.owner
      BY <2>4 DEF AckTaken, RspTaken, ReqTaken, Receives
    <3>. QED  BY <1>4, <2>2, <3>1 DEF Open
  <2>5. ASSUME NEW m, NEW q, PubTaken(m, q) PROVE OwnerAtBus'
    <3>1. UNCHANGED <<conn, bus>> /\ core'.owner = core.owner
      BY <2>5 DEF PubTaken, Receives
    <3>2. \A t \in Topics : \A j \in 1..Len(up') : GivesUp(up', t, j) =>
             j \in 1..Len(up) /\ GivesUp(up, t, j)
      BY <2>5, UpUnsubs DEF GivesUp, PubTaken
    <3>3. up' = up \o q /\ q \in Seq(Tasks) /\ up \in Seq(Tasks)
      BY <1>4, <2>5, <3>1 DEF PubTaken, Types, Open
    <3>4. \A i \in 1..Len(up) : i \in 1..Len(up') /\ up'[i] = up[i]
      BY <3>3, Concatenations
    <3>. QED  BY <2>1, <3>1, <3>2, <3>4, AtBusStays DEF Open
  <2>6. CASE KeptAlive
    <3>1. /\ up = <<>> /\ UNCHANGED <<core, conn, bus>>
          /\ \A i \in 1..Len(up') : up'[i].type = "KeepAlive"
      BY <2>6 DEF KeptAlive, TaskOf
    <3>2. \A t \in Topics : \A j \in 1..Len(up') : ~GivesUp(up', t, j)
      BY <3>1 DEF GivesUp
    <3>3. \A i \in 1..Len(up) : i \in 1..Len(up') /\ up'[i] = up[i]
      BY <3>1
    <3>. QED  BY <2>1, <3>1, <3>2, <3>3, AtBusStays DEF Open
  <2>7. ASSUME NEW q, BusElsewhere(q) PROVE OwnerAtBus'
    <3>1. UNCHANGED <<core, up, conn>> /\ \A t \in Topics : bus.owner[t] = Me => bus'.owner[t] = Me
      BY <2>7 DEF BusElsewhere, BusMoves
    <3>2. Open
      BY <1>4, <3>1 DEF Open
    <3>. HIDE DEF Acked
    <3>. QED  BY <2>1, <3>1, <3>2 DEF OwnerAtBus
  <2>8. CASE Loses
    BY <1>4, <2>8 DEF Loses, Open
  <2>. QED  BY <1>4, <2>3, <2>4, <2>5, <2>6, <2>7, <2>8 DEF Moves
<1>. QED  BY <1>1, <1>2, <1>3, <1>4

-----------------------------------------------------------------------------
(* No subscription that is held is given up: SubscriptionsKept *)

LEMMA DroppedStays ==
    ASSUME CallsMove, NEW c \in Calls, Dropped(c)
    PROVE  Dropped(c)'
BY DEF CallsMove, CallMoves, Dropped

LEMMA AnotherStays ==
    ASSUME CallsMove, NEW c \in Calls, AnotherDropped(c)
    PROVE  AnotherDropped(c)'
<1>1. PICK d \in Calls \ calls[c].before : Dropped(d) /\ calls[d].topic = calls[c].topic
  BY DEF AnotherDropped
<1>2. /\ calls'[c].before = calls[c].before /\ calls'[c].topic = calls[c].topic
      /\ calls'[d].topic = calls[d].topic
  BY DEF CallsMove, CallMoves
<1>3. Dropped(d)'
  BY <1>1, DroppedStays
<1>. QED  BY <1>1, <1>2, <1>3 DEF AnotherDropped

LEMMA BeforeStays ==
    ASSUME Types, CallsMove, \A c \in Calls : \A d \in calls[c].before : Dropped(d)
    PROVE  \A c \in Calls : \A d \in calls'[c].before : Dropped(d)'
<1>. SUFFICES ASSUME NEW c \in Calls, NEW d \in calls'[c].before PROVE Dropped(d)'
  OBVIOUS
<1>1. calls'[c].before = calls[c].before
  BY DEF CallsMove, CallMoves
<1>2. d \in Calls /\ Dropped(d)
  BY <1>1, CallFields
<1>. QED  BY <1>2, DroppedStays

(* A subscription as the invariant has it, of the topic t *)
Kept(c, t, q, subs, sent, here, bsubs, acked) ==
    /\ \A j \in 1..Len(q) : Unsubs(q, t, j) => \E i \in 1..Len(q) : j < i /\ q[i].id = c
    /\ Carries(q, c) \/ <<c, t>> \in subs
    /\ here => /\ \A j \in 1..Len(sent) : Unsubs(sent, t, j) =>
                     \/ Carries(q, c)
                     \/ \E i \in 1..Len(sent) : j < i /\ sent[i].id = c
               /\ acked => <<Me, t>> \in bsubs

LEMMA KeptIs ==
    \A c \in Calls : KeptSubscription(c) <=>
        Kept(c, calls[c].topic, tasks, core.subs, up, Open, bus.subs, Acked(c))
BY DEF KeptSubscription, Kept

(* what the user still has *)
Has(c) == calls[c].kind \in Subscribing /\ calls[c].held /\ calls[c].open

LEMMA HasMoves ==
    ASSUME CallsMove, NEW c \in Calls, Has(c)'
    PROVE  /\ Has(c)
           /\ calls'[c].topic = calls[c].topic
BY DEF CallsMove, CallMoves, Has

(* A step that leaves the calls is a matter of what is kept. *)
LEMMA KeptWhere ==
    ASSUME Types, SubscriptionsKept, CallsMove,
           \A c \in Calls : Has(c) /\ Has(c)' /\ KeptSubscription(c) =>
              \/ Kept(c, calls[c].topic, tasks', core'.subs, up', Open', bus'.subs, Acked(c)')
              \/ AnotherDropped(c)'
    PROVE  SubscriptionsKept'
<1>1. \A c \in Calls : \A d \in calls'[c].before : Dropped(d)'
  BY BeforeStays DEF SubscriptionsKept
<1>2. ASSUME NEW c \in Calls, Has(c)'
      PROVE  KeptSubscription(c)' \/ AnotherDropped(c)'
  <2>1. Has(c) /\ calls'[c].topic = calls[c].topic
    BY <1>2, HasMoves
  <2>2. KeptSubscription(c) \/ AnotherDropped(c)
    BY <2>1 DEF SubscriptionsKept, Has
  <2>3. CASE AnotherDropped(c)
    BY <2>3, AnotherStays
  <2>4. CASE KeptSubscription(c)
    <3>1. KeptSubscription(c)' <=>
             Kept(c, calls'[c].topic, tasks', core'.subs, up', Open', bus'.subs, Acked(c)')
      BY DEF KeptSubscription, Kept, Carries, Acked, Unsubs
    <3>. HIDE DEF KeptSubscription, Kept
    <3>. QED  BY <1>2, <2>1, <2>4, <3>1
  <2>. QED  BY <2>2, <2>3, <2>4
<1>. QED  BY <1>1, <1>2 DEF SubscriptionsKept, Has

LEMMA KeptQueued ==
    ASSUME NEW c, NEW t, NEW q \in Seq(Tasks), NEW x \in Tasks, NEW s, NEW u, NEW h, NEW b, NEW a,
           Kept(c, t, q, s, u, h, b, a),
           (x.type = "Unsub" /\ x.topic = t) => FALSE
    PROVE  Kept(c, t, Append(q, x), s, u, h, b, a)
<1>. DEFINE r == Append(q, x)
<1>1. /\ Len(q) \in Nat /\ Len(r) = Len(q) + 1 /\ r[Len(q) + 1] = x
      /\ \A i \in 1..Len(q) : r[i] = q[i]
  BY AppendExtends DEF Extends
<1>2. Carries(q, c) => Carries(r, c)
  BY CarriesAppend
<1>. HIDE DEF r
<1>3. ASSUME NEW j \in 1..Len(r), Unsubs(r, t, j)
      PROVE  \E i \in 1..Len(r) : j < i /\ r[i].id = c
  <2>1. j \in 1..Len(q) /\ Unsubs(q, t, j)
    BY <1>1, <1>3 DEF Unsubs
  <2>2. PICK i \in 1..Len(q) : j < i /\ q[i].id = c
    BY <2>1 DEF Kept
  <2>3. i \in 1..Len(r) /\ r[i].id = c
    BY <1>1, <2>2
  <2>. QED  BY <2>2, <2>3
<1>4. Kept(c, t, r, s, u, h, b, a)
  BY <1>2, <1>3 DEF Kept
<1>. QED  BY <1>4 DEF r

(* a new subscription: its task is queued, and nothing is acked *)
LEMMA KeptNew ==
    ASSUME NEW q \in Seq(Tasks), NEW x \in Tasks, x.type = "Sub", NEW t, NEW s, NEW u, NEW h,
           NEW b, NEW a, ~a
    PROVE  Kept(x.id, t, Append(q, x), s, u, h, b, a)
<1>. DEFINE r == Append(q, x)
            n == Len(q) + 1
<1>1. /\ Len(q) \in Nat /\ Len(r) = n /\ r[n] = x
  BY AppendExtends DEF Extends
<1>2. Carries(r, x.id)
  BY CarriesAppend
<1>. HIDE DEF r
<1>3. ASSUME NEW j \in 1..Len(r), Unsubs(r, t, j)
      PROVE  \E i \in 1..Len(r) : j < i /\ r[i].id = x.id
  <2>1. j < n /\ n \in 1..Len(r)
    BY <1>1, <1>3 DEF Unsubs
  <2>. QED  BY <1>1, <2>1
<1>4. Kept(x.id, t, r, s, u, h, b, a)
  BY <1>2, <1>3 DEF Kept
<1>. QED  BY <1>4 DEF r

LEMMA KeptSent ==
    ASSUME NEW c, NEW t, NEW q \in Seq(Tasks), q # <<>>, NEW s, NEW u \in Seq(Tasks),
           NEW h \in BOOLEAN, NEW b, NEW a, Kept(c, t, q, s, u, h, b, a),
           NEW x \in Tasks, x = q[1], NEW s2, s \subseteq s2, x.id = c => <<c, t>> \in s2
    PROVE  Kept(c, t, Tail(q), s2, IF h THEN Append(u, x) ELSE u, h, b, a)
<1>. DEFINE r == Tail(q)
            w == Append(u, x)
            n == Len(u) + 1
<1>1. /\ Len(q) \in Nat /\ Len(r) = Len(q) - 1 /\ 1 \in 1..Len(q)
      /\ \A i \in 1..Len(r) : r[i] = q[i + 1]
  BY Queues
<1>2. Carries(q, c) => x.id = c \/ Carries(r, c)
  BY CarriesTail
<1>3. /\ Len(u) \in Nat /\ Len(w) = n /\ w[n] = x
      /\ \A i \in 1..Len(u) : w[i] = u[i]
  BY AppendExtends DEF Extends
<1>. HIDE DEF r, w
<1>4. ASSUME NEW i \in 1..Len(q), 1 < i
      PROVE  i - 1 \in 1..Len(r) /\ r[i - 1] = q[i]
  <2>1. i - 1 \in 1..Len(r) /\ (i - 1) + 1 = i
    BY <1>1, <1>4
  <2>. QED  BY <1>1, <2>1
<1>5. ASSUME NEW j \in 1..Len(r), Unsubs(r, t, j)
      PROVE  \E i \in 1..Len(r) : j < i /\ r[i].id = c
  <2>1. j + 1 \in 1..Len(q) /\ Unsubs(q, t, j + 1)
    BY <1>1, <1>5 DEF Unsubs
  <2>2. PICK i \in 1..Len(q) : j + 1 < i /\ q[i].id = c
    BY <2>1 DEF Kept
  <2>3. 1 < i /\ j < i - 1
    BY <2>1, <2>2
  <2>. QED  BY <1>4, <2>2, <2>3
<1>6. Carries(r, c) \/ <<c, t>> \in s2
  BY <1>2 DEF Kept
<1>7. ASSUME h, NEW j \in 1..Len(w), Unsubs(w, t, j)
      PROVE  Carries(r, c) \/ \E i \in 1..Len(w) : j < i /\ w[i].id = c
  <2>1. j \in 1..Len(u) \/ j = n
    BY <1>3
  <2>2. CASE j \in 1..Len(u)
    <3>1. Unsubs(u, t, j)
      BY <1>3, <1>7, <2>2 DEF Unsubs
    <3>2. Carries(q, c) \/ \E i \in 1..Len(u) : j < i /\ u[i].id = c
      BY <1>7, <2>2, <3>1 DEF Kept
    <3>3. CASE x.id = c
      <4>1. j < n /\ n \in 1..Len(w)
        BY <1>3, <2>2
      <4>. QED  BY <1>3, <3>3, <4>1
    <3>4. ASSUME NEW i \in 1..Len(u), j < i, u[i].id = c
          PROVE  \E k \in 1..Len(w) : j < k /\ w[k].id = c
      <4>1. i \in 1..Len(w) /\ w[i] = u[i]
        BY <1>3
      <4>. QED  BY <3>4, <4>1
    <3>. QED  BY <1>2, <3>2, <3>3, <3>4
  <2>3. CASE j = n
    <3>1. Unsubs(q, t, 1)
      BY <1>3, <1>7, <2>3 DEF Unsubs
    <3>2. PICK i \in 1..Len(q) : 1 < i /\ q[i].id = c
      BY <1>1, <3>1 DEF Kept
    <3>3. i - 1 \in 1..Len(r) /\ r[i - 1].id = c
      BY <1>4, <3>2
    <3>. QED  BY <3>3 DEF Carries
  <2>. QED  BY <2>1, <2>2, <2>3
<1>8. CASE h
  <2>1. Kept(c, t, r, s2, w, h, b, a)
    BY <1>5, <1>6, <1>7, <1>8 DEF Kept
  <2>. QED  BY <1>8, <2>1 DEF r, w
<1>9. CASE ~h
  <2>1. Kept(c, t, r, s2, u, h, b, a)
    BY <1>5, <1>6, <1>9 DEF Kept
  <2>. QED  BY <1>9, <2>1 DEF r
<1>. QED  BY <1>8, <1>9

LEMMA KeptMade ==
    ASSUME Types, MessagesOnce, SubscriptionsKept, CallIsMade
    PROVE  SubscriptionsKept'
<1>1. PICK c \in Calls, k \in Kinds, t \in Topics, r \in Nat, before \in SUBSET Calls :
         InvokedAs(c, k, t, r, before)
  BY DEF CallIsMade
<1>. DEFINE x == TaskOf(TaskType(k), c, t, r)
<1>2. /\ tasks' = Append(tasks, x) /\ calls[c].stage = "none"
      /\ calls'[c] = Call(k, t, r, before)
      /\ \A d \in Calls : d # c => calls'[d] = calls[d]
      /\ \A d \in before : Dropped(d)
      /\ UNCHANGED <<core, status, up, down, conn, bus>>
  BY <1>1 DEF InvokedAs, Types
<1>3. x \in Tasks /\ x.id = c /\ x.type = TaskType(k) /\ x.type # "Unsub"
  BY TaskTypes DEF TaskOf, TaskType, Kinds
<1>. HIDE DEF x
<1>4. /\ calls'[c].kind = k /\ calls'[c].topic = t /\ calls'[c].before = before
      /\ calls'[c].ack = "empty"
  BY <1>2, CallFieldsOf
<1>5. \A d \in Calls : Dropped(d) => d # c /\ Dropped(d)'
  BY <1>2 DEF Dropped
<1>6. \A d \in Calls : \A e \in calls'[d].before : Dropped(e)'
  <2>. SUFFICES ASSUME NEW d \in Calls, NEW e \in calls'[d].before PROVE Dropped(e)'
    OBVIOUS
  <2>1. e \in Calls /\ Dropped(e)
    BY <1>2, <1>4, CallFields DEF SubscriptionsKept
  <2>. QED  BY <1>5, <2>1
<1>7. ASSUME NEW d \in Calls, Has(d)'
      PROVE  KeptSubscription(d)' \/ AnotherDropped(d)'
  <2>. DEFINE a == Acked(d)'
  <2>1. KeptSubscription(d)' <=>
           Kept(d, calls'[d].topic, tasks', core.subs, up, Open, bus.subs, a)
    BY <1>2 DEF KeptSubscription, Kept, Carries, Acked, Unsubs, Open
  <2>2. CASE d = c
    <3>1. x.type = "Sub"
      BY <1>3, <1>4, <1>7, <2>2 DEF Has, TaskType
    <3>2. ~a
      <4>1. \A i \in 1..Len(down) : down[i].type = "Ack" => down[i].id # c
        <5>1. Unasked(c)
          BY <1>2 DEF Unasked, Unsent
        <5>. HIDE DEF Unasked
        <5>. QED  BY <5>1 DEF MessagesOnce
      <4>. QED  BY <1>2, <1>4, <2>2, <4>1 DEF Acked, NoError
    <3>. HIDE DEF a
    <3>3. Kept(x.id, calls'[d].topic, Append(tasks, x), core.subs, up, Open, bus.subs, a)
      BY <1>3, <3>1, <3>2, KeptNew DEF Types
    <3>. QED  BY <1>2, <1>3, <2>1, <2>2, <3>3
  <2>3. CASE d # c
    <3>1. calls'[d] = calls[d] /\ Has(d)
      BY <1>2, <1>7, <2>3 DEF Has
    <3>2. a <=> Acked(d)
      BY <1>2, <3>1 DEF Acked
    <3>3. CASE KeptSubscription(d)
      <4>. HIDE DEF a
      <4>1. Kept(d, calls[d].topic, tasks, core.subs, up, Open, bus.subs, a)
        BY <3>2, <3>3 DEF KeptSubscription, Kept
      <4>2. Kept(d, calls[d].topic, Append(tasks, x), core.subs, up, Open, bus.subs, a)
        BY <1>3, <4>1, KeptQueued DEF Types
      <4>. QED  BY <1>2, <2>1, <3>1, <4>2
    <3>4. CASE AnotherDropped(d)
      <4>1. PICK e \in Calls \ calls[d].before : Dropped(e) /\ calls[e].topic = calls[d].topic
        BY <3>4 DEF AnotherDropped
      <4>2. Dropped(e)' /\ calls'[e] = calls[e]
        BY <1>2, <1>5, <4>1
      <4>. QED  BY <3>1, <4>1, <4>2 DEF AnotherDropped
    <3>. QED  BY <3>1, <3>3, <3>4 DEF SubscriptionsKept, Has
  <2>. QED  BY <2>2, <2>3
<1>. QED  BY <1>6, <1>7 DEF SubscriptionsKept, Has

(* Where only tasks are queued *)
LEMMA KeptUser ==
    ASSUME Types, SubscriptionsKept, CallsMove, UNCHANGED <<core, up, down, conn, bus>>, AcksKept,
           \/ tasks' = tasks
           \/ \E x \in Tasks :
                 /\ tasks' = Append(tasks, x)
                 /\ x.type = "Unsub" => \E d \in Calls : UnsubOf(d) /\ calls[d].topic = x.topic
    PROVE  SubscriptionsKept'
<1>. SUFFICES ASSUME NEW c \in Calls, Has(c), Has(c)', KeptSubscription(c)
              PROVE  \/ Kept(c, calls[c].topic, tasks', core'.subs, up', Open', bus'.subs, Acked(c)')
                     \/ AnotherDropped(c)'
  BY KeptWhere
<1>. DEFINE t == calls[c].topic
            a == Acked(c)
<1>1. Acked(c)' <=> a
  BY DEF Acked, AcksKept
<1>2. Kept(c, t, tasks, core.subs, up, Open, bus.subs, a)
  BY KeptIs
<1>3. core'.subs = core.subs /\ up' = up /\ (Open' <=> Open) /\ bus'.subs = bus.subs
  BY DEF Open
<1>4. CASE tasks' = tasks
  BY <1>1, <1>2, <1>3, <1>4 DEF Kept
<1>5. ASSUME NEW x \in Tasks, tasks' = Append(tasks, x), ~(x.type = "Unsub" /\ x.topic = t)
      PROVE  Kept(c, t, tasks', core'.subs, up', Open', bus'.subs, Acked(c)')
  <2>. HIDE DEF a, t
  <2>1. Kept(c, t, Append(tasks, x), core.subs, up, Open, bus.subs, a)
    BY <1>2, <1>5, KeptQueued DEF Types
  <2>. QED  BY <1>1, <1>3, <1>5, <2>1 DEF Kept
<1>6. ASSUME NEW d \in Calls, UnsubOf(d), calls[d].topic = t
      PROVE  AnotherDropped(c)'
  <2>1. Dropped(d)' /\ ~Dropped(d)
    BY <1>6 DEF UnsubOf, CallsMove, CallMoves, Dropped
  <2>2. d \notin calls[c].before
    BY <2>1 DEF SubscriptionsKept
  <2>3. /\ calls'[c].before = calls[c].before /\ calls'[c].topic = t
        /\ calls'[d].topic = t
    BY <1>6 DEF CallsMove, CallMoves
  <2>. QED  BY <2>1, <2>2, <2>3 DEF AnotherDropped
<1>. QED  BY <1>4, <1>5, <1>6

LEMMA KeptSends ==
    ASSUME Types, MessagesOnce, SubscriptionsKept, NEW x, SentAs(x)
    PROVE  SubscriptionsKept'
<1>1. /\ tasks \in Seq(Tasks) /\ tasks # <<>> /\ x = tasks[1] /\ x \in Tasks
      /\ tasks' = Tail(tasks)
      /\ up' = IF Open THEN Append(up, x) ELSE up
      /\ UNCHANGED <<calls, down, conn, bus>>
      /\ core'.subs = core.subs \cup IF x.type = "Sub" THEN {<<x.id, x.topic>>} ELSE {}
  BY DEF SentAs, Types
<1>2. CallsMove
  BY <1>1, CallsStay
<1>. SUFFICES ASSUME NEW c \in Calls, Has(c), KeptSubscription(c)
              PROVE  Kept(c, calls[c].topic, tasks', core'.subs, up', Open', bus'.subs, Acked(c)')
  BY <1>2, KeptWhere
<1>. DEFINE t == calls[c].topic
            a == Acked(c)
<1>3. Kept(c, t, tasks, core.subs, up, Open, bus.subs, a)
  BY KeptIs
<1>4. x.id = c => <<c, t>> \in core'.subs
  <2>. SUFFICES ASSUME x.id = c PROVE <<c, t>> \in core'.subs
    OBVIOUS
  <2>1. calls[c].stage # "none" /\ x.type = TaskType(calls[c].kind) /\ x.topic = t
    BY <1>1, NoCallIsNone, OnceTail DEF MessagesOnce
  <2>2. x.type = "Sub"
    BY <2>1, TaskKinds DEF Has
  <2>. QED  BY <1>1, <2>1, <2>2
<1>5. (Acked(c)' <=> a) /\ (Open' <=> Open) /\ bus'.subs = bus.subs /\ Open \in BOOLEAN
  BY <1>1 DEF Acked, Open
<1>6. core.subs \subseteq core'.subs
  BY <1>1
<1>. HIDE DEF a, t
<1>7. Kept(c, t, Tail(tasks), core'.subs, IF Open THEN Append(up, x) ELSE up, Open, bus.subs, a)
  <2>. DEFINE h == Open
              b == bus.subs
              s == core.subs
              w == core'.subs
  <2>1. /\ Kept(c, t, tasks, s, up, h, b, a) /\ h \in BOOLEAN
        /\ s \subseteq w /\ (x.id = c => <<c, t>> \in w)
        /\ up \in Seq(Tasks)
    BY <1>3, <1>4, <1>5, <1>6 DEF Types
  <2>. HIDE DEF h, b, s, w
  <2>2. Kept(c, t, Tail(tasks), w, IF h THEN Append(up, x) ELSE up, h, b, a)
    BY <1>1, <2>1, KeptSent
  <2>. QED  BY <2>2 DEF h, b, w
<1>8. Kept(c, t, tasks', core'.subs, up', Open, bus.subs, a)
  BY <1>1, <1>7
<1>9. Kept(c, t, tasks', core'.subs, up', Open', bus'.subs, Acked(c)')
  BY <1>5, <1>8 DEF Kept
<1>. QED  BY <1>9 DEF t

(* Where the core takes no task and the bus no message *)
LEMMA KeptStays ==
    ASSUME Types, SubscriptionsKept, CallsMove, tasks' = tasks,
           \A c \in Calls : calls[c].open /\ <<c, calls[c].topic>> \in core.subs =>
              <<c, calls[c].topic>> \in core'.subs,
           Open' =>
              /\ Open
              /\ \A i \in 1..Len(up) : i \in 1..Len(up') /\ up'[i] = up[i]
              /\ \A c \in Calls : calls[c].open =>
                    \A j \in 1..Len(up') : Unsubs(up', calls[c].topic, j) =>
                       \/ j \in 1..Len(up) /\ Unsubs(up, calls[c].topic, j)
                       \/ <<c, calls[c].topic>> \notin core.subs
              /\ \A c \in Calls : Acked(c)' => Acked(c)
              /\ bus.subs \subseteq bus'.subs
    PROVE  SubscriptionsKept'
<1>. SUFFICES ASSUME NEW c \in Calls, Has(c), KeptSubscription(c)
              PROVE  Kept(c, calls[c].topic, tasks', core'.subs, up', Open', bus'.subs, Acked(c)')
  BY KeptWhere
<1>. DEFINE t == calls[c].topic
            a == Acked(c)
<1>1. Kept(c, t, tasks, core.subs, up, Open, bus.subs, a)
  BY KeptIs
<1>2. calls[c].open
  BY DEF Has
<1>3. Carries(tasks', c) \/ <<c, t>> \in core'.subs
  BY <1>1, <1>2 DEF Kept
<1>4. ASSUME Open', NEW j \in 1..Len(up'), Unsubs(up', t, j)
      PROVE  Carries(tasks', c) \/ \E i \in 1..Len(up') : j < i /\ up'[i].id = c
  <2>1. CASE j \in 1..Len(up) /\ Unsubs(up, t, j)
    <3>1. Carries(tasks, c) \/ \E i \in 1..Len(up) : j < i /\ up[i].id = c
      BY <1>1, <1>4, <2>1 DEF Kept
    <3>. QED  BY <1>4, <3>1
  <2>2. CASE <<c, t>> \notin core.subs
    BY <1>1, <2>2 DEF Kept
  <2>. QED  BY <1>2, <1>4, <2>1, <2>2
<1>5. Open' /\ Acked(c)' => <<Me, t>> \in bus'.subs
  <2>. HIDE DEF Acked, Open
  <2>. QED  BY <1>1 DEF Kept
<1>. HIDE DEF t
<1>6. Kept(c, t, tasks', core'.subs, up', Open', bus'.subs, Acked(c)')
  BY <1>1, <1>3, <1>4, <1>5 DEF Kept
<1>. QED  BY <1>6 DEF t

LEMMA KeptTook ==
    ASSUME Types, MessagesOnce, SubscriptionsKept, NEW x, NEW q, BusTook(x, q)
    PROVE  SubscriptionsKept'
<1>1. /\ UNCHANGED <<core, tasks, calls>> /\ Open
      /\ x \in Tasks
      /\ \A u \in Topics : <<Me, u>> \in bus.subs =>
            <<Me, u>> \in bus'.subs \/ (x.type = "Unsub" /\ x.topic = u)
  BY DEF BusTook, BusMoves
<1>2. CallsMove
  BY <1>1, CallsStay
<1>. SUFFICES ASSUME NEW c \in Calls, Has(c), KeptSubscription(c)
              PROVE  Kept(c, calls[c].topic, tasks', core'.subs, up', Open', bus'.subs, Acked(c)')
  BY <1>2, KeptWhere
<1>. DEFINE t == calls[c].topic
            a == Acked(c)
<1>3. Kept(c, t, tasks, core.subs, up, Open, bus.subs, a)
  BY KeptIs
<1>4. t \in Topics /\ calls[c].kind \in Subscribing
  BY DEF Types, CallStage, Has, Subscribing
<1>5. ASSUME NEW j \in 1..Len(up'), Unsubs(up', t, j)
      PROVE  Carries(tasks', c) \/ \E i \in 1..Len(up') : j < i /\ up'[i].id = c
  <2>1. j + 1 \in 1..Len(up) /\ Unsubs(up, t, j + 1)
    BY <1>5, UpTail DEF Unsubs
  <2>2. Carries(tasks, c) \/ \E i \in 1..Len(up) : j + 1 < i /\ up[i].id = c
    BY <1>1, <1>3, <2>1 DEF Kept
  <2>3. ASSUME NEW i \in 1..Len(up), j + 1 < i, up[i].id = c
        PROVE  \E k \in 1..Len(up') : j < k /\ up'[k].id = c
    <3>1. i > 1 /\ j < i - 1
      BY <2>3
    <3>2. i - 1 \in 1..Len(up') /\ up'[i - 1] = up[i]
      BY <3>1, UpTail
    <3>. QED  BY <2>3, <3>1, <3>2
  <2>. QED  BY <1>1, <2>2, <2>3
<1>6. a => <<Me, t>> \in bus'.subs
  <2>. SUFFICES ASSUME a, x.type = "Unsub", x.topic = t PROVE FALSE
    BY <1>1, <1>3, <1>4 DEF Kept
  <2>1. 1 \in 1..Len(up) /\ Unsubs(up, t, 1)
    BY UpTail DEF Unsubs
  <2>2. Carries(tasks, c) \/ \E i \in 1..Len(up) : 1 < i /\ up[i].id = c
    BY <1>1, <1>3, <2>1 DEF Kept
  <2>3. Unasked(c)
    BY <2>2 DEF Unasked, Unsent, Carries
  <2>. QED  BY <2>3, UnaskedUnacked
<1>7. AckSent(x, q, c) => <<Me, t>> \in bus'.subs
  <2>. SUFFICES ASSUME AckSent(x, q, c) PROVE <<Me, t>> \in bus'.subs
    OBVIOUS
  <2>1. x.id = c
    BY DEF AckSent
  <2>2. calls[c].stage # "none" /\ x.type = TaskType(calls[c].kind)
    BY <2>1, NoCallIsNone, OnceTail DEF MessagesOnce, BusTook, Types
  <2>3. x.topic = t
    BY <2>1, NoCallIsNone, OnceTail DEF MessagesOnce, BusTook, Types
  <2>4. x.type = "Sub"
    BY <1>4, <2>2, TaskKinds
  <2>. QED  BY <2>3, <2>4 DEF AckSent, BusTook
<1>8. Acked(c)' => <<Me, t>> \in bus'.subs
  BY <1>6, <1>7, AckedTook
<1>9. Kept(c, t, tasks', core'.subs, up', Open', bus'.subs, Acked(c)')
  <2>. HIDE DEF t
  <2>. QED  BY <1>1, <1>3, <1>5, <1>8 DEF Kept
<1>. QED  BY <1>9

LEMMA KeptPubTaken ==
    ASSUME Types, SubscriptionsKept, NEW m, NEW q, PubTaken(m, q),
           Open' => \A c \in Calls : Acked(c)' => Acked(c)
    PROVE  SubscriptionsKept'
<1>1. /\ tasks' = tasks /\ CallsMove /\ (Open' => Open) /\ bus' = bus
      /\ core'.subs = {p \in core.subs : p[1] \notin Dead}
      /\ up' = IF Open THEN up \o q ELSE up
      /\ q \in Seq(Tasks) /\ \A i \in 1..Len(q) : q[i].topic \in GivenUp
  BY KeptMoves DEF PubTaken, Receives, Open
<1>2. \A c \in Calls : calls[c].open => c \notin Dead
  BY DEF Dead
<1>3. \A c \in Calls : calls[c].open /\ <<c, calls[c].topic>> \in core.subs =>
         <<c, calls[c].topic>> \in core'.subs
  <2>. HIDE DEF Dead
  <2>. QED  BY <1>1, <1>2
<1>4. \A c \in Calls : calls[c].open => \A t \in GivenUp : <<c, t>> \notin core.subs
  BY <1>2 DEF GivenUp
<1>5. \A i \in 1..Len(up') : \/ i \in 1..Len(up) /\ up'[i] = up[i]
                            \/ up'[i].topic \in GivenUp
  <2>. SUFFICES ASSUME NEW i \in 1..Len(up'), ~(i \in 1..Len(up) /\ up'[i] = up[i])
                PROVE  up'[i].topic \in GivenUp
    OBVIOUS
  <2>1. i - Len(up) \in 1..Len(q) /\ up'[i] = q[i - Len(up)]
    BY UpUnsubs
  <2>. HIDE DEF GivenUp
  <2>. QED  BY <1>1, <2>1
<1>6. \A c \in Calls : calls[c].open =>
         \A j \in 1..Len(up') : Unsubs(up', calls[c].topic, j) =>
            \/ j \in 1..Len(up) /\ Unsubs(up, calls[c].topic, j)
            \/ <<c, calls[c].topic>> \notin core.subs
  <2>. HIDE DEF GivenUp
  <2>. QED  BY <1>4, <1>5 DEF Unsubs
<1>7. Open => \A i \in 1..Len(up) : i \in 1..Len(up') /\ up'[i] = up[i]
  <2>. SUFFICES ASSUME Open PROVE \A i \in 1..Len(up) : i \in 1..Len(up') /\ up'[i] = up[i]
    OBVIOUS
  <2>1. up' = up \o q /\ q \in Seq(Tasks) /\ up \in Seq(Tasks)
    BY <1>1 DEF Types
  <2>. QED  BY <2>1, Concatenations
<1>. QED  BY <1>1, <1>3, <1>6, <1>7, KeptStays

LEMMA SubscriptionsMoved ==
    ASSUME Types, MessagesOnce, SubscriptionsKept, Running, Moves
    PROVE  SubscriptionsKept'
<1>1. CASE SentAs(Task)
  BY <1>1, KeptSends
<1>2. CASE \E q : BusTook(Asked, q)
  BY <1>2, KeptTook
<1>3. CASE StopQueued
  <2>1. CallsMove /\ AcksKept
    BY <1>3, CallsStay DEF StopQueued, AcksKept
  <2>2. \E x \in Tasks : tasks' = Append(tasks, x) /\ x.type # "Unsub"
    BY <1>3, TaskTypes DEF StopQueued, TaskOf
  <2>. QED  BY <1>3, <2>1, <2>2, KeptUser DEF StopQueued
<1>4. CASE UserMoves
  <2>1. CallsMove /\ AcksKept /\ UNCHANGED <<core, up, down, conn, bus>>
    BY <1>4 DEF UserMoves, AcksKept
  <2>2. CASE UNCHANGED tasks
    BY <2>1, <2>2, KeptUser
  <2>3. ASSUME NEW c \in Calls, UnsrvOf(c) PROVE SubscriptionsKept'
    <3>1. \E x \in Tasks : tasks' = Append(tasks, x) /\ x.type # "Unsub"
      BY <2>3, TaskTypes DEF UnsrvOf, TaskOf
    <3>. QED  BY <2>1, <3>1, KeptUser
  <2>4. ASSUME NEW c \in Calls, UnsubOf(c) PROVE SubscriptionsKept'
    <3>1. \E x \in Tasks : tasks' = Append(tasks, x) /\ calls[c].topic = x.topic
      BY <2>4, TaskTypes DEF UnsubOf, TaskOf
    <3>. QED  BY <2>1, <2>4, <3>1, KeptUser
  <2>. QED  BY <1>4, <2>2, <2>3, <2>4 DEF UserMoves
<1>5. CASE ~SentAs(Task) /\ ~ \E q : BusTook(Asked, q)
  <2>1. Open' => \A c \in Calls : Acked(c)' => Acked(c)
    BY <1>5, AckedMoves
  <2>2. CASE UNCHANGED vars
    <3>1. CallsMove /\ UNCHANGED <<tasks, core, up, conn, bus>>
      BY <2>2, CallsStay DEF vars
    <3>. QED  BY <2>1, <3>1, KeptStays DEF Open
  <2>3. ASSUME NEW m, AckTaken(m) \/ RspTaken(m) \/ ReqTaken(m) PROVE SubscriptionsKept'
    <3>1. CallsKept /\ UNCHANGED <<tasks, up, conn, bus>> /\ core'.subs = core.subs
      BY <2>3 DEF AckTaken, RspTaken, ReqTaken, Receives
    <3>2. CallsMove
      BY <3>1, KeptMoves
    <3>. QED  BY <2>1, <3>1, <3>2, KeptStays DEF Open
  <2>4. CASE KeptAlive
    <3>1. /\ up = <<>> /\ UNCHANGED <<core, tasks, calls, conn, bus>>
          /\ \A i \in 1..Len(up') : up'[i].type = "KeepAlive"
      BY <2>4 DEF KeptAlive, TaskOf
    <3>2. \A t : \A j \in 1..Len(up') : ~Unsubs(up', t, j)
      BY <3>1 DEF Unsubs
    <3>3. \A i \in 1..Len(up) : i \in 1..Len(up') /\ up'[i] = up[i]
      BY <3>1
    <3>4. CallsMove
      BY <3>1, CallsStay
    <3>. QED  BY <2>1, <3>1, <3>2, <3>3, <3>4, KeptStays DEF Open
  <2>5. ASSUME NEW q, BusElsewhere(q) PROVE SubscriptionsKept'
    <3>1. UNCHANGED <<core, tasks, calls, up, conn>> /\ bus'.subs = bus.subs
      BY <2>5 DEF BusElsewhere, BusMoves
    <3>2. CallsMove
      BY <3>1, CallsStay
    <3>. QED  BY <2>1, <3>1, <3>2, KeptStays DEF Open
  <2>6. CASE Loses
    <3>1. UNCHANGED <<core, tasks, calls>> /\ ~Open'
      BY <2>6 DEF Loses, Open
    <3>2. CallsMove
      BY <3>1, CallsStay
    <3>. QED  BY <3>1, <3>2, KeptStays
  <2>7. ASSUME NEW m, NEW q, PubTaken(m, q) PROVE SubscriptionsKept'
    BY <2>1, <2>7, KeptPubTaken
  <2>. QED  BY <1>3, <1>4, <1>5, <2>2, <2>3, <2>4, <2>5, <2>6, <2>7, KeptMade DEF Moves
<1>. QED  BY <1>1, <1>2, <1>5

-----------------------------------------------------------------------------
(* The invariant *)

LEMMA ClientInvInit == ASSUME Init PROVE ClientInv
<1>1. /\ tasks = <<>> /\ up = <<>> /\ down = <<>>
      /\ core.rsp = {} /\ core.subs = {} /\ core.owner = [t \in Topics |-> NoOwner]
      /\ bus.pending = {}
      /\ \A c \in Calls : calls[c] = NotCalled
      /\ status = "running"
  BY DEF Init, NoBus
<1>2. /\ NotCalled.stage = "none" /\ NotCalled.ack = "empty" /\ NotCalled.before = {}
      /\ NotCalled.kind = "none"
  BY DEF NotCalled, Call
<1>3. Types
  BY TypesInit
<1>4. \A t \in Topics : core.owner[t] = NoOwner
  BY <1>1
<1>5. MessagesOnce
  <2>1. Once(tasks, calls) /\ Once(up, calls) /\ \A c \in Calls : ~Carries(up, c)
    BY <1>1 DEF Once, Carries
  <2>2. \A c \in Calls : NoOwner # c
    BY NoCallIsNone DEF NoOwner, NoCall
  <2>. HIDE DEF Unsent, Unasked
  <2>. QED  BY <1>1, <1>2, <1>4, <2>1, <2>2 DEF MessagesOnce
<1>6. ResponsesExpected
  BY <1>1 DEF ResponsesExpected
<1>7. CallbacksThere
  BY <1>1, <1>4 DEF CallbacksThere
<1>8. ServesPaired
  <2>1. \A c \in Calls : ~Serving(c)
    BY <1>1, <1>2 DEF Serving
  <2>2. Paired(tasks, core.owner)
    BY <1>1 DEF Paired
  <2>. QED  BY <2>1, <2>2 DEF ServesPaired
<1>9. ServesWanted
  BY <1>1, <1>4 DEF ServesWanted
<1>10. AckedWhenOk
  BY <1>1, <1>2 DEF AckedWhenOk
<1>11. OwnerAtBus
  BY <1>4, NoCallIsNone DEF OwnerAtBus, NoOwner, NoCall
<1>12. SubscriptionsKept
  BY <1>1, <1>2 DEF SubscriptionsKept, Subscribing
<1>. QED
  BY <1>1, <1>3, <1>5, <1>6, <1>7, <1>8, <1>9, <1>10, <1>11, <1>12 DEF ClientInv

LEMMA ClientInvStep == ASSUME ClientInv, [Next]_vars PROVE ClientInv' /\ StepMoves
<1>1. Types /\ status # "panicked"
  BY DEF ClientInv
<1>2. StepMoves
  BY <1>1, NextMoves DEF ClientInv
<1>3. status' # "panicked"
  BY <1>1, <1>2, UnservesSomething, AnswersExpected DEF ClientInv, StepMoves
<1>4. ASSUME Running'
      PROVE  /\ MessagesOnce'
             /\ ResponsesExpected'
             /\ CallbacksThere'
             /\ ServesPaired'
             /\ ServesWanted'
             /\ AckedWhenOk'
             /\ OwnerAtBus'
             /\ SubscriptionsKept'
  <2>1. Running /\ Moves
    BY <1>2, <1>4 DEF StepMoves
  <2>2. /\ MessagesOnce /\ ResponsesExpected /\ CallbacksThere
        /\ ServesPaired /\ ServesWanted /\ AckedWhenOk /\ OwnerAtBus /\ SubscriptionsKept
    BY <2>1 DEF ClientInv
  <2>3. MessagesOnce' /\ ResponsesExpected' /\ CallbacksThere'
    BY <1>1, <2>1, <2>2, OnceMoved, ExpectedMoved, ThereMoved
  <2>4. ServesPaired' /\ ServesWanted'
    BY <1>1, <2>1, <2>2, PairedMoved, WantedMoved
  <2>5. AckedWhenOk' /\ OwnerAtBus' /\ SubscriptionsKept'
    BY <1>1, <2>1, <2>2, OkMoved, AtBusMoved, SubscriptionsMoved
  <2>. QED  BY <2>3, <2>4, <2>5
<1>. QED  BY <1>2, <1>3, <1>4 DEF ClientInv, StepMoves

(* The invariant above holds of the client: ClientCore with its calls. *)
THEOREM ClientInvariant == Spec => []ClientInv
<1>1. Init => ClientInv
  BY ClientInvInit
<1>2. ClientInv /\ [Next]_vars => ClientInv'
  BY ClientInvStep
<1>. QED  BY <1>1, <1>2, PTL DEF Spec

-----------------------------------------------------------------------------
(* What it means *)

(* The fields of ClientCore, what the calls return and what the bus keeps of
   the client have their types (client/core.rs:25-37, client/mod.rs). *)
THEOREM ClientTypes == Spec => []TypeOK
<1>1. Types => TypeOK
  BY CoreFields, CallFields, BusFields DEF Types, TypeOK
<1>2. ClientInv => TypeOK
  BY <1>1 DEF ClientInv
<1>. QED  BY <1>2, ClientInvariant, PTL

(* No unwrap of the client core panics (client/core.rs:195, 241, 250, 279):
   each Unsrv finds a topic that is served, and each response, publication and
   request its callback. *)
THEOREM UnwrapsFind == Spec => []NeverPanics
<1>1. ClientInv => NeverPanics
  BY DEF ClientInv, NeverPanics
<1>. QED  BY <1>1, ClientInvariant, PTL

LEMMA OkIsAsked ==
    ASSUME MessagesOnce, AckedWhenOk, NEW c \in Calls,
           calls[c].stage = "Ok", calls[c].kind # "Req"
    PROVE  Acked(c) /\ ~Unasked(c)
<1>1. Acked(c)
  BY DEF AckedWhenOk, Acked
<1>. QED  BY <1>1, UnaskedUnacked

(* While a RequestSubscription that serve returned is held, the bus routes its
   topic to this client (client/mod.rs:69-110, subscription.rs:108-117): its
   Srv has been acked, and every Unsrv of the topic that is still on its way
   comes before a Srv of the same topic. *)
THEOREM HeldServesAreRouted == Spec => []ServingMeansOwner
<1>1. ClientInv => ServingMeansOwner
  <2>. SUFFICES ASSUME ClientInv, Running, Open, NEW c \in Calls,
                       calls[c].kind = "Srv", calls[c].stage = "Ok", calls[c].held
                PROVE  bus.owner[calls[c].topic] = Me
    BY DEF ServingMeansOwner
  <2>1. Types /\ MessagesOnce /\ AckedWhenOk /\ ServesPaired /\ OwnerAtBus
    BY DEF ClientInv
  <2>2. Acked(c) /\ ~Unasked(c)
    BY <2>1, OkIsAsked
  <2>3. Serving(c)
    BY DEF Serving
  <2>4. HeldServe(tasks, core.owner, calls[c].topic, c) /\ calls[c].topic \in Topics
    BY <2>1, <2>3, ServingFields DEF ServesPaired
  <2>5. PICK p \in 0..Len(tasks) : ServesAs(tasks, core.owner, calls[c].topic, c, p)
    BY <2>4 DEF HeldServe
  <2>6. core.owner[calls[c].topic] = c
    BY <2>2, <2>5 DEF ServesAs, Unasked, Unsent, Carries
  <2>. QED  BY <2>1, <2>2, <2>4, <2>6 DEF OwnerAtBus
<1>. QED  BY <1>1, ClientInvariant, PTL

(* While a Subscription that subscribe or subscribe_bytes returned is held and
   its forwarder is alive, the bus has its topic, unless another Subscription
   to the topic was dropped meanwhile: an Unsub that the core sends for those
   it finds dead (client/core.rs:253-271) never takes it away. *)
THEOREM HeldSubscriptionsAreKept == Spec => []HeldUntilAnotherIsDropped
<1>1. ClientInv => HeldUntilAnotherIsDropped
  <2>. SUFFICES ASSUME ClientInv, Running, Open, NEW c \in Calls,
                       calls[c].kind \in Subscribing, calls[c].stage = "Ok", calls[c].held,
                       calls[c].open
                PROVE  <<Me, calls[c].topic>> \in bus.subs \/ AnotherDropped(c)
    BY DEF HeldUntilAnotherIsDropped, AnotherDropped
  <2>1. MessagesOnce /\ AckedWhenOk /\ SubscriptionsKept
    BY DEF ClientInv
  <2>2. Acked(c)
    BY <2>1, OkIsAsked DEF Subscribing
  <2>3. KeptSubscription(c) \/ AnotherDropped(c)
    BY <2>1 DEF SubscriptionsKept
  <2>. QED  BY <2>2, <2>3 DEF KeptSubscription
<1>. QED  BY <1>1, ClientInvariant, PTL

(* A second claim of a topic ends the core only while the first one is wanted:
   one that failed, was given up or dropped has its Unsrv before the new Srv
   (client/mod.rs:69-110, client/core.rs:193-207). *)
THEOREM ConflictsAreOfLiveServes == Spec => OnlyLiveServesConflict
<1>. DEFINE Conflict ==
        status' = "ClaimRejected" /\ Running /\ Task.topic \in Concrete =>
          \E c, d \in Calls :
              /\ c # d
              /\ calls[c].topic = Task.topic /\ calls[d].topic = Task.topic
              /\ calls[c].kind = "Srv" /\ calls[d].kind = "Srv"
              /\ d = Task.id
              /\ \/ calls[c].held
                 \/ \E i \in DOMAIN tasks :
                       tasks[i].type = "Unsrv" /\ tasks[i].topic = Task.topic
<1>1. ClientInv /\ [Next]_vars => Conflict
  <2>. SUFFICES ASSUME ClientInv, [Next]_vars, status' = "ClaimRejected", Running,
                       Task.topic \in Concrete
                PROVE  Conflict
    OBVIOUS
  <2>1. Types /\ MessagesOnce /\ CallbacksThere /\ ServesWanted
    BY DEF ClientInv
  <2>2. NextTask({"Srv"}) /\ ClaimFails
    BY ClientInvStep DEF StepMoves
  <2>. DEFINE t == Task.topic
              c == core.owner[t]
              d == Task.id
  <2>3. tasks \in Seq(Tasks) /\ Task = tasks[1] /\ 1 \in 1..Len(tasks) /\ Task.type = "Srv"
    BY <2>1, <2>2, FirstTask, Queues DEF Types
  <2>4. d \in Calls /\ t \in Topics /\ calls[d].kind = "Srv" /\ calls[d].topic = t
    BY <2>1, <2>3, TasksAreOf
  <2>5. c # NoOwner /\ c # d
    BY <2>2 DEF ClaimFails, ClaimError
  <2>6. c \in Calls /\ calls[c].kind = "Srv" /\ calls[c].topic = t
    BY <2>1, <2>4, <2>5, CoreFields DEF CallbacksThere
  <2>7. calls[c].held \/ \E j \in 1..Len(tasks) : GivesUp(tasks, t, j)
    BY <2>1, <2>4, <2>5 DEF ServesWanted
  <2>8. DOMAIN tasks = 1..Len(tasks)
    BY <2>3
  <2>. QED  BY <2>4, <2>5, <2>6, <2>7, <2>8 DEF GivesUp
<1>. QED  BY <1>1, ClientInvariant, PTL DEF Spec, OnlyLiveServesConflict

=============================================================================
