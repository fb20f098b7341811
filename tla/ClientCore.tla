----------------------------- MODULE ClientCore ------------------------------
(***************************************************************************)
(* A client of the bus: the ClientCore task (src/src/client/core.rs), the  *)
(* calls on its Client (client/mod.rs), the subscriptions that these calls *)
(* return (client/subscription.rs), and the bus as far as this client can  *)
(* see it (server/core.rs on one connection, and what others do to it),    *)
(* which module ServerBus shows the server to implement.                   *)
(*                                                                         *)
(* Calls run concurrently with the core and talk to it over one unbounded  *)
(* queue of tasks.  A call is awaiting its ack, then perhaps a response,   *)
(* and can be given up at any time.  A call that subscribes or serves      *)
(* leaves a subscription behind, which its user drops some time later.     *)
(*                                                                         *)
(* A message id is used once and only ever compared, so a message, and the *)
(* callbacks it leaves, are named by the call that made it; 0 stands for   *)
(* the ids of messages whose ack nobody waits for.  In the bus, 1 is this  *)
(* client and 2 is all the others.  SubBytes stands for subscribe_bytes,   *)
(* which leaves payloads alone; what else gets a payload decodes it, and   *)
(* may fail to, as a payload is whatever another client has sent.          *)
(***************************************************************************)
EXTENDS Routing, Sequences, Functions

CONSTANTS
    MaxCalls,       \* bound: calls in a behaviour
    MaxRequests,    \* bound: requests that the bus routes
    MaxQueue,       \* bound: messages in a channel when others add one
    Inputs          \* what is called: a set of [kind, topic]

Calls == 1..MaxCalls
NoCall == 0
Me == 1
Others == 2

ASSUME ClientAssumption ==
    /\ MaxCalls \in Nat /\ MaxRequests \in Nat /\ MaxQueue \in Nat
    /\ Inputs \subseteq [kind : {"Pub", "Sub", "SubBytes", "Srv", "Req", "Rsp", "StopBus"},
                   topic : Topics]

VARIABLES
    core,       \* the fields of ClientCore
    status,     \* how the core task is: running, or how it ended
    tasks,      \* ClientCore.task_receiver
    calls,      \* the calls, their channels to the core, and what they returned
    up, down,   \* the messages on their way to the bus, and from it
    conn,       \* whether the connection is open
    bus         \* what the bus keeps of this client

vars == <<core, status, tasks, calls, up, down, conn, bus>>

Running == status = "running"
Open == conn = "open"

-----------------------------------------------------------------------------
(* Tasks are also the messages they become. *)
TaskOf(type, c, topic, req_id) == [type |-> type, id |-> c, topic |-> topic, req_id |-> req_id]

Ack(c, error) == [type |-> "Ack", id |-> c, error |-> error]
Rsp(c, st) == [type |-> "Rsp", id |-> c, status |-> st]
Pub(topic) == [type |-> "Pub", topic |-> topic]
Req(id, topic) == [type |-> "Req", id |-> id, topic |-> topic]

Subscribing == {"Sub", "SubBytes"}

(* the task of a call *)
TaskType(kind) == IF kind \in Subscribing THEN "Sub" ELSE kind

(* A call: its oneshot channels ack and rsp, whether the user's end of its
   subscription is there (held), whether the core's callback has a receiver
   (open), what is in that channel (feed), the requests that reached the user
   (got), and, to state a property, the subscriptions to its topic that were
   dropped before. *)
Call(kind, topic, req_id, before) ==
    [kind |-> kind, topic |-> topic, req_id |-> req_id,
     stage |-> "acking", ack |-> "empty", rsp |-> "empty",
     held |-> kind \in Subscribing \cup {"Srv"}, open |-> kind \in Subscribing \cup {"Srv"},
     feed |-> <<>>, got |-> {}, before |-> before]

(* the bus, before and after it knows the client *)
NoBus == [subs |-> {}, owner |-> [t \in Topics |-> NoOwner], pending |-> {}, next |-> 1]

NotCalled == [Call("none", CHOOSE t \in Topics : TRUE, 0, {}) EXCEPT !.stage = "none"]

Init ==
    /\ core = [ack |-> {}, rsp |-> {}, pub |-> {}, req |-> {},
               subs |-> {}, owner |-> [t \in Topics |-> NoOwner]]
    /\ status = "running"
    /\ tasks = <<>>
    /\ calls = [c \in Calls |-> NotCalled]
    /\ up = <<>> /\ down = <<>>
    /\ conn = "open"
    /\ bus = NoBus

-----------------------------------------------------------------------------
(* Calls on the Client, and what their callers do *)

(* task_sender.send: fails, unnoticed by a drop, when the core is gone *)
Enqueue(task) == tasks' = IF Running THEN Append(tasks, task) ELSE tasks

Dropped(c) == calls[c].kind \in Subscribing /\ calls[c].stage = "Ok" /\ ~calls[c].held

(* the ids that a request delivered to the user of this client had *)
GotRequests == UNION {calls[c].got : c \in Calls}

InProgress == {c \in Calls : calls[c].stage \in {"acking", "awaiting"}}

Stopped == \E i \in DOMAIN tasks : tasks[i].type = "Stop"

(* stop consumes the client; stop_bus has it for itself.  A call on a client
   whose core is gone returns ChannelClosed at once. *)
Invoke(c) ==
    /\ calls[c].stage = "none"
    /\ \A d \in 1..(c - 1) : calls[d].stage # "none"
    /\ Running /\ ~Stopped
    /\ \A d \in InProgress : calls[d].kind # "StopBus"
    /\ \E i \in Inputs, req_id \in GotRequests \cup {0} :
          /\ i.kind = "Rsp" <=> req_id # 0
          /\ i.kind = "StopBus" => InProgress = {}
          /\ calls' = [calls EXCEPT ![c] =
                           Call(i.kind, i.topic, req_id,
                                {d \in Calls : Dropped(d) /\ calls[d].topic = i.topic})]
          /\ Enqueue(TaskOf(TaskType(i.kind), c, i.topic, req_id))
    /\ UNCHANGED <<core, status, up, down, conn, bus>>

(* whether a forwarder, spawned before the ack, has the receiver *)
Forwarded(c) == calls[c].kind = "Sub"

(* slip: serve makes its RequestSubscription once the ack has come *)
FailQuietly(c, how) ==
    /\ calls' = [calls EXCEPT ![c].stage = how, ![c].held = FALSE,
                              ![c].open = @ /\ Forwarded(c)]
    /\ UNCHANGED tasks

(* The call ends early.  serve has made its RequestSubscription before, which
   is now dropped, and the receiver of the callback with it, as is that of
   subscribe_bytes; subscribe leaves the receiver to the forwarder it has
   spawned, and drops the user's end. *)
Fail(c, how) ==
    /\ calls' = [calls EXCEPT ![c].stage = how, ![c].held = FALSE,
                              ![c].open = @ /\ Forwarded(c)]
    /\ IF calls[c].kind = "Srv" THEN Enqueue(TaskOf("Unsrv", NoCall, calls[c].topic, 0))
       ELSE UNCHANGED tasks

(* expect_ack *)
TakeAck(c) ==
    /\ calls[c].stage = "acking"
    /\ calls[c].ack # "empty"
    /\ IF calls[c].ack = NoError
       THEN /\ calls' = [calls EXCEPT ![c].stage =
                            IF calls[c].kind = "Req" THEN "awaiting" ELSE "Ok"]
            /\ UNCHANGED tasks
       ELSE Fail(c, "RequestFailed")
    /\ UNCHANGED <<core, status, up, down, conn, bus>>

AckClosed(c) ==
    /\ calls[c].stage = "acking" /\ calls[c].ack = "empty"
    /\ ~Running
    /\ Fail(c, "RequestFailedChannelClosed")
    /\ UNCHANGED <<core, status, up, down, conn, bus>>

(* the ack timeout; or the future is dropped, which leaves the same behind
   and may happen at any time; when the core is gone, AckClosed or RspClosed
   does the same *)
GiveUp(c) ==
    /\ Running
    /\ c \in InProgress
    /\ Fail(c, "RequestFailedTimeout")
    /\ UNCHANGED <<core, status, up, down, conn, bus>>

(* What is returned for a response: request tells a timeout from an answer,
   and decodes that; request_bytes looks at nothing but the payload. *)
Returned(rsp) ==
    {"Ok"} \cup IF rsp = "Ok" THEN {"IOError"} ELSE {"RequestFailedTimeout"}

TakeRsp(c) ==
    /\ calls[c].stage = "awaiting"
    /\ calls[c].rsp # "empty"
    /\ \E how \in Returned(calls[c].rsp) : calls' = [calls EXCEPT ![c].stage = how]
    /\ UNCHANGED <<core, status, tasks, up, down, conn, bus>>

RspClosed(c) ==
    /\ calls[c].stage = "awaiting" /\ calls[c].rsp = "empty"
    /\ ~Running
    /\ calls' = [calls EXCEPT ![c].stage = "InternalError"]
    /\ UNCHANGED <<core, status, tasks, up, down, conn, bus>>

(* slip: the receiver is closed, and nothing sent *)
DropQuietly(c) ==
    /\ calls' = [calls EXCEPT ![c].held = FALSE]
    /\ UNCHANGED tasks

DropSubscription(c) ==
    /\ calls' = [calls EXCEPT ![c].held = FALSE,
                              ![c].open = @ /\ calls[c].kind # "SubBytes"]
    /\ Enqueue(TaskOf(IF calls[c].kind = "Srv" THEN "Unsrv" ELSE "Unsub",
                      NoCall, calls[c].topic, 0))

(* the user drops a Subscription or a RequestSubscription; nobody notices when
   the core is gone *)
Release(c) ==
    /\ Running
    /\ calls[c].stage = "Ok" /\ calls[c].held
    /\ DropSubscription(c)
    /\ UNCHANGED <<core, status, up, down, conn, bus>>

(* The task that subscribe spawns at once, and serve when it is acked: it
   passes on what the core has sent, until the user's end is gone.  What it
   does when the core is gone matters to nobody.  With subscribe_bytes there
   is none: the user has the receiver. *)
HasForwarder(c) ==
    \/ calls[c].kind = "Sub"
    \/ calls[c].kind = "Srv" /\ calls[c].stage # "acking"
    \/ calls[c].kind = "SubBytes" /\ calls[c].held

ForwarderEnds(c) == calls' = [calls EXCEPT ![c].feed = <<>>, ![c].open = FALSE]

Forward(c) ==
    /\ Running
    /\ calls[c].open /\ calls[c].feed # <<>> /\ HasForwarder(c)
    /\ IF calls[c].held
       THEN calls' = [calls EXCEPT ![c].feed = Tail(@),
                                  ![c].got = @ \cup ({Head(calls[c].feed)} \ {0})]
       ELSE ForwarderEnds(c)
    /\ UNCHANGED <<core, status, tasks, up, down, conn, bus>>

(* the payload does not decode: unwrap panics, in the forwarder's task *)
ForwarderPanics(c) ==
    /\ Running
    /\ calls[c].open /\ calls[c].feed # <<>> /\ HasForwarder(c)
    /\ calls[c].kind # "SubBytes"
    /\ ForwarderEnds(c)
    /\ UNCHANGED <<core, status, tasks, up, down, conn, bus>>

(* stop; or the client and all it returned are dropped *)
Stop ==
    /\ Running
    /\ ~Stopped /\ InProgress = {}
    /\ Enqueue(TaskOf("Stop", NoCall, CHOOSE t \in Topics : TRUE, 0))
    /\ UNCHANGED <<core, status, calls, up, down, conn, bus>>

-----------------------------------------------------------------------------
(* The core: the branches of main_loop *)

(* main_loop returns or panics, and all the core owns is dropped *)
End(how) ==
    /\ status' = how
    /\ tasks' = <<>>
    /\ conn' = "closed" /\ up' = <<>> /\ down' = <<>> /\ bus' = NoBus
    /\ UNCHANGED <<core, calls>>

NextTask(types) ==
    /\ Running
    /\ tasks # <<>>
    /\ Head(tasks).type \in types

(* send: the callbacks are entered, and the message goes out *)
SendIt(changed) ==
    /\ core' = changed
    /\ tasks' = Tail(tasks)
    /\ up' = IF Open THEN Append(up, Head(tasks)) ELSE up
    /\ UNCHANGED <<status, calls, down, conn, bus>>

Task == Head(tasks)

SendPlain ==
    /\ NextTask({"Pub", "Rsp", "StopBus"})
    /\ SendIt([core EXCEPT !.ack = @ \cup {Task.id}])

SendReq ==
    /\ NextTask({"Req"})
    /\ SendIt([core EXCEPT !.ack = @ \cup {Task.id}, !.rsp = @ \cup {Task.id}])

SendSub ==
    /\ NextTask({"Sub"})
    /\ SendIt([core EXCEPT !.ack = @ \cup {Task.id}, !.pub = @ \cup {Task.id},
                           !.subs = Subscribe(@, Task.id, Task.topic)])

(* slip: an ack is awaited, as every other message has one *)
SendUnsubAcked == NextTask({"Unsub"}) /\ SendIt([core EXCEPT !.ack = @ \cup {Task.id}])

SendUnsub == NextTask({"Unsub"}) /\ SendIt(core)

(* slip: the local claim may fail *)
ClaimFailsNever == FALSE

ClaimFails == ClaimError(core.owner, Task.id, Task.topic) # NoError

(* Only one claim of a topic can be held in the client: another one ends the
   core, as does one of a pattern. *)
SendSrv ==
    /\ NextTask({"Srv"})
    /\ IF ClaimFails THEN End("ClaimRejected")
       ELSE SendIt([core EXCEPT !.ack = @ \cup {Task.id}, !.req = @ \cup {Task.id},
                                !.owner = Claim(@, Task.id, Task.topic)])

SendUnsrv ==
    /\ NextTask({"Unsrv"})
    /\ LET owner == GetOwner(core.owner, Task.topic)
       IN  IF owner = NoOwner THEN End("panicked")
           ELSE SendIt([core EXCEPT !.owner = Unclaim(@, owner, Task.topic)])

TakeStop == NextTask({"Stop"}) /\ End("stopped")

(* bound: when nothing is on its way *)
KeepAlive ==
    /\ Running /\ Open
    /\ up = <<>> /\ down = <<>>
    /\ up' = <<TaskOf("KeepAlive", NoCall, CHOOSE t \in Topics : TRUE, 0)>>
    /\ UNCHANGED <<core, status, tasks, calls, down, conn, bus>>

(* the stream from the bus ends or fails, or a send does *)
Disconnected == Running /\ ~Open /\ End("ChannelClosed")

Received(type) ==
    /\ Running
    /\ down # <<>>
    /\ Head(down).type = type

Message == Head(down)
Consumed == down' = Tail(down) /\ UNCHANGED <<status, tasks, conn, bus>>

ReceiveAck ==
    /\ Received("Ack")
    /\ core' = [core EXCEPT !.ack = @ \ {Message.id}]
    /\ calls' = IF Message.id \in core.ack /\ calls[Message.id].stage = "acking"
                THEN [calls EXCEPT ![Message.id].ack = Message.error] ELSE calls
    /\ Consumed
    /\ UNCHANGED up

ReceiveRsp ==
    /\ Received("Rsp")
    /\ IF Message.id \notin core.rsp THEN End("panicked")
       ELSE /\ core' = [core EXCEPT !.rsp = @ \ {Message.id}]
            /\ calls' = IF calls[Message.id].stage \in {"acking", "awaiting"}
                        THEN [calls EXCEPT ![Message.id].rsp = Message.status] ELSE calls
            /\ Consumed
            /\ UNCHANGED up

Recipients == GetSubscribers(core.subs, Message.topic)
Dead == {c \in Recipients : ~calls[c].open}

(* slip: a topic is given up when one of its local subscribers is dropped *)
GivenUpAlways == {p[2] : p \in {q \in core.subs : q[1] \in Dead}}

(* the topics that drop_client reports for Dead, one after the other *)
GivenUp == {t \in GivenUpAlways : ~ \E c \in Calls \ Dead : <<c, t>> \in core.subs}

(* slip: the callback goes, its subscription stays *)
ForgetCallbacks == [core EXCEPT !.pub = @ \ Dead]

ForgetDead ==
    [core EXCEPT !.pub = @ \ Dead, !.subs = {p \in @ : p[1] \notin Dead}]

(* Each local subscriber gets a copy.  One whose receiver is gone is removed,
   and the topics that no local subscriber is left for are given up. *)
ReceivePub ==
    /\ Received("Pub")
    /\ IF Recipients \subseteq core.pub
       THEN /\ core' = ForgetDead
            /\ calls' = [c \in Calls |-> IF c \in Recipients \ Dead
                                         THEN [calls[c] EXCEPT !.feed = Append(@, 0)]
                                         ELSE calls[c]]
            /\ \E order \in Bijection(1..Cardinality(GivenUp), GivenUp) :
                  up' = IF Open THEN up \o [i \in DOMAIN order |->
                                               TaskOf("Unsub", NoCall, order[i], 0)]
                        ELSE up
            /\ Consumed
       ELSE End("panicked")

(* A request for a topic that is not served any more is dropped without an
   answer.  One whose callback has no receiver ends the core. *)
ReceiveReq ==
    /\ Received("Req")
    /\ LET owner == GetOwner(core.owner, Message.topic)
       IN  IF owner = NoOwner THEN Consumed /\ UNCHANGED <<core, calls, up>>
           ELSE IF owner \notin core.req THEN End("panicked")
           ELSE IF ~calls[owner].open THEN End("CallbackClosed")
           ELSE /\ calls' = [calls EXCEPT ![owner].feed = Append(@, Message.id)]
                /\ Consumed
                /\ UNCHANGED <<core, up>>

CoreSend ==
    \/ SendPlain \/ SendReq \/ SendSub \/ SendUnsub \/ SendSrv \/ SendUnsrv \/ TakeStop

CoreReceive == ReceiveAck \/ ReceiveRsp \/ ReceivePub \/ ReceiveReq

-----------------------------------------------------------------------------
(* The bus on this connection: process_msg on the messages of this client.
   The ack comes last. *)

Asked == Head(up)

Asks(type) ==
    /\ Open
    /\ up # <<>>
    /\ Asked.type = type
    /\ UNCHANGED <<core, status, tasks, calls>>

BusTakes(type) == Asks(type) /\ up' = Tail(up)

(* the requests that are gone when their other party is *)
WithOthers(b) == {p \in b.pending : p.requester = NoCall \/ p.responder = Others}

(* what is left of b without these *)
Left(b, freed, dropped) ==
    [b EXCEPT !.owner = [t \in Topics |-> IF t \in freed THEN NoOwner ELSE @[t]],
              !.pending = @ \ dropped]

(* What is left of b when some others have gone, of which the bus learns from
   their stubs or from a delivery that fails: nobody is told. *)
Leavings(b) ==
    {Left(b, freed, dropped) : freed \in SUBSET {t \in Topics : b.owner[t] = Others},
                               dropped \in SUBSET WithOthers(b)}

Answer(messages, error) == down' = down \o messages \o <<Ack(Asked.id, error)>>

BusSub ==
    /\ BusTakes("Sub")
    /\ bus' = [bus EXCEPT !.subs = Subscribe(@, Me, Asked.topic)]
    /\ Answer(<<>>, NoError)
    /\ UNCHANGED conn

BusUnsub ==
    /\ BusTakes("Unsub")
    /\ bus' = [bus EXCEPT !.subs = Unsubscribe(@, Me, Asked.topic)]
    /\ Answer(<<>>, NoError)
    /\ UNCHANGED conn

BusSrv ==
    /\ BusTakes("Srv")
    /\ bus' = [bus EXCEPT !.owner = Claim(@, Me, Asked.topic)]
    /\ Answer(<<>>, ClaimError(bus.owner, Me, Asked.topic))
    /\ UNCHANGED conn

BusUnsrv ==
    /\ BusTakes("Unsrv")
    /\ bus' = [bus EXCEPT !.owner = Unclaim(@, Me, Asked.topic)]
    /\ \E error \in UnclaimErrors(Asked.topic) : Answer(<<>>, error)
    /\ UNCHANGED conn

Reached(t) == Me \in GetSubscribers(bus.subs, t)

(* a failed delivery to another client may come before this one's echo *)
BusPub ==
    /\ BusTakes("Pub")
    /\ \/ /\ Answer(IF Reached(Asked.topic) THEN <<Pub(Asked.topic)>> ELSE <<>>, NoError)
          /\ UNCHANGED bus
       \/ /\ \E echo \in {<<>>} \cup IF Reached(Asked.topic) THEN {<<Pub(Asked.topic)>>} ELSE {} :
                Answer(echo, "DeliveryFailed")
          /\ bus' \in Leavings(bus)
    /\ UNCHANGED conn

(* the next request that the bus routes, asked for by call c or by others *)
Route(c, t) ==
    [bus EXCEPT !.next = @ + 1,
                !.pending = @ \cup {[id |-> bus.next, requester |-> c,
                                     responder |-> bus.owner[t]]}]

BusReq ==
    /\ BusTakes("Req")
    /\ LET owner == GetOwner(bus.owner, Asked.topic)
       IN  \/ owner = NoOwner /\ Answer(<<>>, "ServiceNotFound") /\ UNCHANGED bus
           \/ /\ owner = Others
              /\ Answer(<<>>, "DeliveryFailed")
              /\ bus' \in Leavings(bus)
           \/ owner = Others /\ Answer(<<>>, NoError) /\ bus' = Route(Asked.id, Asked.topic)
           \/ /\ owner = Me
              /\ Answer(<<Req(bus.next, Asked.topic)>>, NoError)
              /\ bus' = Route(Asked.id, Asked.topic)
    /\ UNCHANGED conn

(* slip: a request is answered twice *)
ResolveTwice(p, st) ==
    IF p.requester = NoCall THEN <<>> ELSE <<Rsp(p.requester, st), Rsp(p.requester, st)>>

(* a request of this client has its answer in down, others are not seen *)
Resolve(p, st) == IF p.requester = NoCall THEN <<>> ELSE <<Rsp(p.requester, st)>>

BusRsp ==
    /\ BusTakes("Rsp")
    /\ LET mine == {p \in bus.pending : p.id = Asked.req_id /\ p.responder = Me}
       IN  \/ mine = {} /\ Answer(<<>>, "InvalidRequestId") /\ UNCHANGED bus
           \/ \E p \in mine :
                 LET answered == [bus EXCEPT !.pending = @ \ {p}]
                 IN  \/ Answer(Resolve(p, "Ok"), NoError) /\ bus' = answered
                     \/ /\ p.requester = NoCall
                        /\ Answer(<<>>, "DeliveryFailed")
                        /\ bus' \in Leavings(answered)
    /\ UNCHANGED conn

BusKeepAlive ==
    /\ BusTakes("KeepAlive")
    /\ Answer(<<>>, NoError)
    /\ UNCHANGED <<conn, bus>>

(* the bus stops, after the ack, and what is not taken yet is lost *)
BusStop ==
    /\ Asks("StopBus")
    /\ Answer(<<>>, NoError)
    /\ conn' = "closed" /\ up' = <<>> /\ bus' = NoBus

BusStep ==
    \/ BusSub \/ BusUnsub \/ BusSrv \/ BusUnsrv \/ BusPub
    \/ BusReq \/ BusRsp \/ BusKeepAlive \/ BusStop

-----------------------------------------------------------------------------
(* What the other clients, and time, do to the bus: others may be found gone
   in the same step, as the bus acks them too. *)

Elsewhere == Open /\ UNCHANGED <<core, status, tasks, calls, up, conn>>

OthersPublish(t) ==
    /\ Elsewhere
    /\ Reached(t)
    /\ down' = Append(down, Pub(t))
    /\ bus' \in Leavings(bus)

OthersRequest(t) ==
    /\ Elsewhere
    /\ GetOwner(bus.owner, t) = Me
    /\ down' = Append(down, Req(bus.next, t))
    /\ bus' \in Leavings(Route(NoCall, t))

(* another client answers, or the timeout does *)
OthersAnswer(p) ==
    /\ Elsewhere
    /\ \E st \in {"Ok", "Timeout"} :
          /\ st = "Ok" => p.responder = Others
          /\ down' = down \o Resolve(p, st)
    /\ bus' \in Leavings([bus EXCEPT !.pending = @ \ {p}])

(* others leave, or unserve a topic *)
OthersLeave ==
    /\ Elsewhere
    /\ bus' \in Leavings(bus)
    /\ UNCHANGED down

OthersServe(t) ==
    /\ Elsewhere
    /\ ClaimError(bus.owner, Others, t) = NoError
    /\ bus' = [bus EXCEPT !.owner = Claim(@, Others, t)]
    /\ UNCHANGED down

(* bounds: others do something only while the channels to this client are
   short, ask it few requests, and serve just what it serves or asks *)
HasRoom == Len(down) < MaxQueue
FeedsHaveRoom == \A c \in Calls : Len(calls[c].feed) < MaxQueue
Contested == {i.topic : i \in {j \in Inputs : j.kind \in {"Srv", "Req"}}}

OthersStep ==
    \/ \E t \in Topics : HasRoom /\ FeedsHaveRoom /\ OthersPublish(t)
    \/ \E t \in Topics : HasRoom /\ bus.next <= MaxRequests /\ OthersRequest(t)
    \/ \E t \in Contested : HasRoom /\ OthersServe(t)
    \/ \E p \in bus.pending : HasRoom /\ OthersAnswer(p)
    \/ HasRoom /\ OthersLeave

(* The transport fails, the bus stops, or it takes the client for dead; what
   is on its way to the client may still arrive, or may not. *)
ConnectionLost ==
    /\ Open \/ down # <<>>
    /\ conn' = "closed" /\ up' = <<>> /\ bus' = NoBus
    /\ down' \in {<<>>, down}
    /\ UNCHANGED <<core, status, tasks, calls>>

-----------------------------------------------------------------------------
CallStep(c) ==
    \/ Invoke(c) \/ TakeAck(c) \/ AckClosed(c) \/ GiveUp(c)
    \/ TakeRsp(c) \/ RspClosed(c) \/ Release(c) \/ Forward(c) \/ ForwarderPanics(c)

Next ==
    \/ \E c \in Calls : CallStep(c)
    \/ Stop
    \/ CoreSend \/ CoreReceive \/ KeepAlive \/ Disconnected
    \/ BusStep
    \/ OthersStep
    \/ ConnectionLost

Spec == Init /\ [][Next]_vars

(* Each ready branch of main_loop's select! is taken some time, the bus takes
   what it is sent, and a caller takes what it is given. *)
Fairness ==
    /\ WF_vars(CoreSend)
    /\ WF_vars(CoreReceive)
    /\ WF_vars(Disconnected)
    /\ WF_vars(BusStep)
    /\ \A c \in Calls : WF_vars(TakeAck(c) \/ AckClosed(c) \/ TakeRsp(c) \/ RspClosed(c))

FairSpec == Spec /\ Fairness
=============================================================================
