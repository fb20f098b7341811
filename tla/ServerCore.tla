----------------------------- MODULE ServerCore ------------------------------
(***************************************************************************)
(* The bus server: the Core task (src/src/server/core.rs), which owns all  *)
(* routing state and processes one Task at a time, the ClientStub task of  *)
(* each connection (server/client_stub.rs), the listener's registrations   *)
(* and the request timers.  They share nothing but channels: one unbounded *)
(* queue of tasks into the core and one unbounded channel out of it per    *)
(* connection.  The directory is the relation that module Directory's trie *)
(* is checked to implement.                                                *)
(*                                                                         *)
(* Clients are the ids the server gives out, from 1.  Id 0 is the bus: it  *)
(* subscribes to the kill topic, and times requests out.                   *)
(***************************************************************************)
EXTENDS Routing, Sequences

CONSTANTS
    MaxClients,     \* bound: connections accepted in a behaviour
    MaxMsgs,        \* bound: messages each client sends
    MaxTasks,       \* bound: tasks in the queue when one more is put in by a peer
    Kill,           \* the topic "bus:kill"
    Contents        \* Contents[c]: what the peer of connection c may send

Bus == 0
Clients == 1..MaxClients
Ids == Clients \cup {Bus}

ClientContent ==
    [type : {"Sub", "Unsub", "Srv", "Unsrv", "Pub", "Req"}, topic : Topics]
      \cup [type : {"Rsp"}, req_id : Nat]
      \cup [type : {"Stop", "KeepAlive"}]

ASSUME ServerAssumption ==
    /\ MaxClients \in Nat
    /\ MaxMsgs \in [Clients -> Nat]
    /\ MaxTasks \in Nat
    /\ Kill \in Topics
    /\ Contents \in [Clients -> SUBSET ClientContent]

VARIABLES
    core,       \* the fields of Core, and the channels to the stubs
    status,     \* how the core task is: running, or how it ended
    tasks,      \* Core.task_receiver
    timers,     \* the requests whose sleeping timer task exists
    accepted,   \* connections the listener has accepted
    stub,       \* the stub task of each connection
    fwd,        \* how many messages the stub has taken off its channel
    up          \* how many messages the stub has read from the peer

vars == <<core, status, tasks, timers, accepted, stub, fwd, up>>

-----------------------------------------------------------------------------
(* Messages.  A payload is named by the message that brought it to the bus. *)

Payloads == [client : Ids, id : Nat]
NoPayload == [client |-> Bus, id |-> 0]
NoCount == -1

AckMsg(id, error, num) ==
    [type |-> "Ack", msg_id |-> id, error |-> error, num_recipients |-> num]
PubMsg(topic, payload) == [type |-> "Pub", topic |-> topic, payload |-> payload]
ReqMsg(id, topic, payload) ==
    [type |-> "Req", id |-> id, topic |-> topic, payload |-> payload]
RspMsg(req_id, st, payload) ==
    [type |-> "Rsp", req_id |-> req_id, status |-> st, payload |-> payload]

Errors == {NoError, "ClaimWildcardNotSupported", "TopicAlreadyClaimed",
           "ServiceNotFound", "InvalidRequestId", "UnknownClient", "DeliveryFailed"}

(* Every server message has an id; only that of a Req is ever read. *)
ServerMsg ==
    [type : {"Ack"}, msg_id : Nat, error : Errors, num_recipients : Nat \cup {NoCount}]
      \cup [type : {"Pub"}, topic : Topics, payload : Payloads]
      \cup [type : {"Req"}, id : Nat, topic : Topics, payload : Payloads]
      \cup [type : {"Rsp"}, req_id : Nat, status : {"Ok", "Timeout"}, payload : Payloads]

Task ==
    [type : {"Register"}]
      \cup [type : {"Deregister"}, client : Clients]
      \cup [type : {"Message"}, client : Clients, id : Nat, content : ClientContent]
      \cup [type : {"RequestTimeout"}, id : Nat]

PendingResponse == [id : Nat, request_id : Nat, requester : Clients, responder : Clients]

-----------------------------------------------------------------------------
(* Core, as operators on its fields s *)

Senders == SUBSET Clients               \* protocol_server_senders: the keys
Subscriptions == SUBSET (Ids \X Topics) \* directory: the subscribers
Owners == [Topics -> Ids]               \* directory: the owners
Pending == SUBSET PendingResponse       \* pending_responses
Channels == [Clients -> Seq(ServerMsg)] \* all that was sent to each stub

CoreType ==
    [senders : Senders, subs : Subscriptions, owner : Owners, pending : Pending,
     chan : Channels, next_msg_id : Nat, next_client_id : Nat]

(* the closed channels: those whose stub has dropped the receiver *)
Closed == {c \in Clients : stub[c] = "closed"}

(* Operators marked "slip" stand for a plausible mistake in the definition
   they precede, and are used for nothing else. *)

(* slip: only the requester's pending responses are dropped *)
DeregisterRequester(s, c) ==
    [s EXCEPT !.senders = @ \ {c},
              !.subs = DropSubs(@, c),
              !.owner = DropOwner(@, c),
              !.pending = {p \in @ : p.requester # c}]

DeregisterClient(s, c) ==
    [s EXCEPT !.senders = @ \ {c},
              !.subs = DropSubs(@, c),
              !.owner = DropOwner(@, c),
              !.pending = {p \in @ : p.requester # c /\ p.responder # c}]

DeliverError(s, c) ==
    IF c \notin s.senders THEN "UnknownClient"
    ELSE IF c \in Closed THEN "DeliveryFailed"
    ELSE NoError

Send(s, c, m) == [s EXCEPT !.chan[c] = Append(@, m)]

TakeMsgId(s) == [s EXCEPT !.next_msg_id = @ + 1]

(* Core::deliver: a client whose channel is closed is cleaned up *)
Deliver(s, c, m) ==
    IF DeliverError(s, c) = NoError THEN Send(TakeMsgId(s), c, m)
    ELSE IF DeliverError(s, c) = "DeliveryFailed" THEN DeregisterClient(TakeMsgId(s), c)
    ELSE TakeMsgId(s)

(* slip: no echo to the publisher, who is counted all the same *)
DeliverToOthers(s, D, m) ==
    [s EXCEPT !.chan = [c \in Clients |->
                           IF c \in D \ {m.payload.client} THEN Append(@[c], m) ELSE @[c]],
              !.next_msg_id = @ + Cardinality(D)]

(* slip: last in, first out *)
DeliverAllFirst(s, D, m) ==
    [s EXCEPT !.chan = [c \in Clients |-> IF c \in D THEN <<m>> \o @[c] ELSE @[c]],
              !.next_msg_id = @ + Cardinality(D)]

(* successful deliveries of one message to each of D, in any order *)
DeliverAll(s, D, m) ==
    [s EXCEPT !.chan = [c \in Clients |-> IF c \in D THEN Append(@[c], m) ELSE @[c]],
              !.next_msg_id = @ + Cardinality(D)]

(* slip: the pending response is found, not removed *)
RespondAgain(s, p, st, payload) ==
    Deliver(s, p.requester, RspMsg(p.request_id, st, payload))

(* Core::respond, once the pending response p is found to be c's to answer *)
Respond(s, p, st, payload) ==
    Deliver([s EXCEPT !.pending = @ \ {p}], p.requester, RspMsg(p.request_id, st, payload))

-----------------------------------------------------------------------------
Init ==
    /\ core = [senders |-> {},
               subs |-> {<<Bus, Kill>>},
               owner |-> [t \in Topics |-> NoOwner],
               pending |-> {},
               chan |-> [c \in Clients |-> <<>>],
               next_msg_id |-> 0,
               next_client_id |-> 1]
    /\ status = "running"
    /\ tasks = <<>>
    /\ timers = {}
    /\ accepted = 0
    /\ stub = [c \in Clients |-> "none"]
    /\ fwd = [c \in Clients |-> 0]
    /\ up = [c \in Clients |-> 0]

Running == status = "running"

(* listen.rs: a connection accepted becomes a Register task *)
Accept ==
    /\ Running
    /\ accepted < MaxClients /\ Len(tasks) < MaxTasks        \* bounds
    /\ accepted' = accepted + 1
    /\ tasks' = Append(tasks, [type |-> "Register"])
    /\ UNCHANGED <<core, status, timers, stub, fwd, up>>

-----------------------------------------------------------------------------
(* The core task: process_task on the head of the queue *)

Take(type) ==
    /\ Running
    /\ tasks # <<>>
    /\ Head(tasks).type = type

Continue == tasks' = Tail(tasks) /\ UNCHANGED status

(* run returns, or panics: the core is dropped with its end of every channel *)
End(how) == status' = how /\ tasks' = <<>>

OnRegister ==
    /\ Take("Register")
    /\ core.next_client_id \in Clients      \* bound: Accept has the same
    /\ core' = [core EXCEPT !.senders = @ \cup {core.next_client_id},
                            !.next_client_id = @ + 1]
    /\ stub' = [stub EXCEPT ![core.next_client_id] = "serving"]
    /\ Continue
    /\ UNCHANGED <<timers, accepted, fwd, up>>

OnDeregister ==
    /\ Take("Deregister")
    /\ core' = DeregisterClient(core, Head(tasks).client)
    /\ Continue
    /\ UNCHANGED <<timers, accepted, stub, fwd, up>>

(* process_msg: the message at the head of the queue, and its Ack at the end
   of the handler, whose delivery may fail *)
Sender == Head(tasks).client
Content == Head(tasks).content
Payload == [client |-> Sender, id |-> Head(tasks).id]

TakeMessage(type) == Take("Message") /\ Content.type = type

(* slip: only errors are acknowledged *)
AckErrors(s, error, num) ==
    IF error = NoError THEN s
    ELSE Deliver(s, Sender, AckMsg(Head(tasks).id, error, num))

Ack(s, error, num) == Deliver(s, Sender, AckMsg(Head(tasks).id, error, num))

OnSub ==
    /\ TakeMessage("Sub")
    /\ core' = Ack([core EXCEPT !.subs = Subscribe(@, Sender, Content.topic)], NoError, NoCount)
    /\ Continue
    /\ UNCHANGED <<timers, accepted, stub, fwd, up>>

OnUnsub ==
    /\ TakeMessage("Unsub")
    /\ core' = Ack([core EXCEPT !.subs = Unsubscribe(@, Sender, Content.topic)], NoError, NoCount)
    /\ Continue
    /\ UNCHANGED <<timers, accepted, stub, fwd, up>>

OnSrv ==
    /\ TakeMessage("Srv")
    /\ core' = Ack([core EXCEPT !.owner = Claim(@, Sender, Content.topic)],
                   ClaimError(core.owner, Sender, Content.topic), NoCount)
    /\ Continue
    /\ UNCHANGED <<timers, accepted, stub, fwd, up>>

OnUnsrv ==
    /\ TakeMessage("Unsrv")
    /\ \E e \in UnclaimErrors(Content.topic) :
          core' = Ack([core EXCEPT !.owner = Unclaim(@, Sender, Content.topic)], e, NoCount)
    /\ Continue
    /\ UNCHANGED <<timers, accepted, stub, fwd, up>>

(* Stop is acked like any message, then run returns; KeepAlive only resets
   the stub's interval *)
OnStop ==
    /\ TakeMessage("Stop")
    /\ core' = Ack(core, NoError, NoCount)
    /\ End("stopped")
    /\ UNCHANGED <<timers, accepted, stub, fwd, up>>

OnKeepAlive ==
    /\ TakeMessage("KeepAlive")
    /\ core' = Ack(core, NoError, NoCount)
    /\ Continue
    /\ UNCHANGED <<timers, accepted, stub, fwd, up>>

-----------------------------------------------------------------------------
(* publish: one delivery after another, in the arbitrary order of a hash set.
   The first that fails ends the loop, and id 0 among the subscribers panics
   when the loop reaches it. *)

Recipients == GetSubscribers(core.subs, Content.topic)
Reachable == {c \in Recipients \cap Clients : DeliverError(core, c) = NoError}
Publication == PubMsg(Content.topic, Payload)

OnPub ==
    /\ TakeMessage("Pub")
    /\ Recipients \subseteq Reachable
    /\ core' = Ack(DeliverAll(core, Recipients, Publication), NoError, Cardinality(Recipients))
    /\ Continue
    /\ UNCHANGED <<timers, accepted, stub, fwd, up>>

OnPubFails ==
    /\ TakeMessage("Pub")
    /\ \E f \in (Recipients \cap Clients) \ Reachable, done \in SUBSET Reachable :
          core' = Ack(Deliver(DeliverAll(core, done, Publication), f, Publication),
                      DeliverError(core, f), NoCount)
    /\ Continue
    /\ UNCHANGED <<timers, accepted, stub, fwd, up>>

OnPubKill ==
    /\ TakeMessage("Pub")
    /\ Bus \in Recipients
    /\ \E done \in SUBSET Reachable : core' = DeliverAll(core, done, Publication)
    /\ End("panicked")
    /\ UNCHANGED <<timers, accepted, stub, fwd, up>>

-----------------------------------------------------------------------------
(* request: to the owner of the topic, then a timer for its response *)

Server == GetOwner(core.owner, Content.topic)
Request == ReqMsg(core.next_msg_id, Content.topic, Payload)
(* slip: the bus, which answers timeouts, is put down as the responder *)
AwaitedFromBus == [id |-> core.next_msg_id, request_id |-> Head(tasks).id,
                   requester |-> Sender, responder |-> Bus]

Awaited == [id |-> core.next_msg_id, request_id |-> Head(tasks).id,
            requester |-> Sender, responder |-> Server]

(* slip: the id is read after the delivery *)
StartTimerLate == timers \cup {core.next_msg_id + 1}

(* slip: no timer *)
StartNoTimer == timers

StartTimer == timers \cup {core.next_msg_id}

OnReqNotServed ==
    /\ TakeMessage("Req")
    /\ Server = NoOwner
    /\ core' = Ack(core, "ServiceNotFound", NoCount)
    /\ Continue
    /\ UNCHANGED <<timers, accepted, stub, fwd, up>>

OnReqFails ==
    /\ TakeMessage("Req")
    /\ Server # NoOwner
    /\ DeliverError(core, Server) # NoError
    /\ core' = Ack(Deliver(core, Server, Request), DeliverError(core, Server), NoCount)
    /\ Continue
    /\ UNCHANGED <<timers, accepted, stub, fwd, up>>

OnReq ==
    /\ TakeMessage("Req")
    /\ Server # NoOwner
    /\ DeliverError(core, Server) = NoError
    /\ core' = Ack([Deliver(core, Server, Request) EXCEPT !.pending = @ \cup {Awaited}],
                   NoError, NoCount)
    /\ timers' = StartTimer
    /\ Continue
    /\ UNCHANGED <<accepted, stub, fwd, up>>

(* slip: the responder is not compared *)
AnyoneMayAnswer(p) == p.id = Content.req_id

(* respond: only the client a request was sent to may answer it, and once *)
MayAnswer(p) == p.id = Content.req_id /\ p.responder = Sender

OnRspInvalid ==
    /\ TakeMessage("Rsp")
    /\ ~ \E p \in core.pending : MayAnswer(p)
    /\ core' = Ack(core, "InvalidRequestId", NoCount)
    /\ Continue
    /\ UNCHANGED <<timers, accepted, stub, fwd, up>>

OnRsp ==
    /\ TakeMessage("Rsp")
    /\ \E p \in core.pending :
          /\ MayAnswer(p)
          /\ core' = Ack(Respond(core, p, "Ok", Payload), DeliverError(core, p.requester), NoCount)
    /\ Continue
    /\ UNCHANGED <<timers, accepted, stub, fwd, up>>

(* RequestTimeout: the core answers for the responder.  An error here is the
   core's own: it leaves run. *)
OnTimeout ==
    /\ Take("RequestTimeout")
    /\ \E p \in core.pending :
          /\ p.id = Head(tasks).id
          /\ core' = Respond(core, p, "Timeout", NoPayload)
          /\ IF DeliverError(core, p.requester) = NoError THEN Continue ELSE End("failed")
    /\ UNCHANGED <<timers, accepted, stub, fwd, up>>

OnTimeoutNotPending ==
    /\ Take("RequestTimeout")
    /\ ~ \E p \in core.pending : p.id = Head(tasks).id
    /\ End("failed")
    /\ UNCHANGED <<core, timers, accepted, stub, fwd, up>>

(* the stopper is used or dropped *)
OnStopSignal ==
    /\ Running
    /\ End("stopped")
    /\ UNCHANGED <<core, timers, accepted, stub, fwd, up>>

CoreStep ==
    \/ OnRegister \/ OnDeregister
    \/ OnSub \/ OnUnsub \/ OnSrv \/ OnUnsrv \/ OnStop \/ OnKeepAlive
    \/ OnPub \/ OnPubFails \/ OnPubKill
    \/ OnReqNotServed \/ OnReqFails \/ OnReq
    \/ OnRspInvalid \/ OnRsp
    \/ OnTimeout \/ OnTimeoutNotPending

(* the task spawned by request wakes up; when the core is gone nobody hears *)
TimerFires(id) ==
    /\ id \in timers
    /\ timers' = timers \ {id}
    /\ tasks' = IF Running THEN Append(tasks, [type |-> "RequestTimeout", id |-> id]) ELSE tasks
    /\ UNCHANGED <<core, status, accepted, stub, fwd, up>>

-----------------------------------------------------------------------------
(* The stub of connection c: the branches of _serve, and the end of serve *)

(* What the peer may send: Contents[c], and an answer, or two, to a request
   it was given. *)
Answers(c) ==
    {[type |-> "Rsp", req_id |-> core.chan[c][i].id] :
        i \in {j \in 1..fwd[c] : core.chan[c][j].type = "Req"}}

(* slip: Deregister is only sent on a clean end *)
LeaveSilently(c) ==
    /\ stub' = [stub EXCEPT ![c] = "closing"]
    /\ UNCHANGED tasks

(* slip: Deregister is sent, and the loop goes on *)
LeaveButServe(c) ==
    /\ tasks' = IF Running THEN Append(tasks, [type |-> "Deregister", client |-> c]) ELSE tasks
    /\ UNCHANGED stub

(* serve: _serve has returned, and the core is told if it still listens *)
Leave(c) ==
    /\ stub' = [stub EXCEPT ![c] = "closing"]
    /\ tasks' = IF Running THEN Append(tasks, [type |-> "Deregister", client |-> c]) ELSE tasks

(* a message from the peer, which cannot be passed on once the core is gone *)
StubReceive(c) ==
    /\ stub[c] = "serving"
    /\ up[c] < MaxMsgs[c] /\ Len(tasks) < MaxTasks          \* bounds
    /\ \/ /\ Running
          /\ \E m \in Contents[c] \cup Answers(c) :
                tasks' = Append(tasks, [type |-> "Message", client |-> c,
                                        id |-> up[c] + 1, content |-> m])
          /\ up' = [up EXCEPT ![c] = @ + 1]
          /\ UNCHANGED stub
       \/ ~Running /\ Leave(c) /\ UNCHANGED up
    /\ UNCHANGED <<core, status, timers, accepted, fwd>>

(* a message from the core goes to the peer *)
StubForward(c) ==
    /\ stub[c] = "serving"
    /\ fwd[c] < Len(core.chan[c])
    /\ fwd' = [fwd EXCEPT ![c] = @ + 1]
    /\ UNCHANGED <<core, status, tasks, timers, accepted, stub, up>>

(* the core has dropped its sender, and the channel is drained *)
StubChannelClosed(c) ==
    /\ stub[c] = "serving"
    /\ fwd[c] = Len(core.chan[c])
    /\ ~Running \/ c \notin core.senders
    /\ Leave(c)
    /\ UNCHANGED <<core, status, timers, accepted, fwd, up>>

(* the transport is closed or fails, in either direction, or the peer has
   been silent for KEEP_ALIVE_TIMEOUT: at any time *)
StubPeerGone(c) ==
    /\ stub[c] = "serving"
    /\ Leave(c)
    /\ UNCHANGED <<core, status, timers, accepted, fwd, up>>

(* serve returns: the stub is dropped, and the receiver of its channel *)
StubDrop(c) ==
    /\ stub[c] = "closing"
    /\ stub' = [stub EXCEPT ![c] = "closed"]
    /\ UNCHANGED <<core, status, tasks, timers, accepted, fwd, up>>

StubStep(c) ==
    \/ StubReceive(c) \/ StubForward(c)
    \/ StubChannelClosed(c) \/ StubPeerGone(c) \/ StubDrop(c)

Next ==
    \/ Accept
    \/ CoreStep
    \/ OnStopSignal
    \/ \E id \in timers : TimerFires(id)
    \/ \E c \in Clients : StubStep(c)

Spec == Init /\ [][Next]_vars

(* The core task is scheduled while it has tasks (every handler returns
   without awaiting anything), and a sleeping timer wakes up.  Nothing is
   assumed of the stubs: a peer that does not read blocks transport.send. *)
Fairness ==
    /\ WF_vars(CoreStep)
    /\ WF_vars(\E id \in timers : TimerFires(id))

FairSpec == Spec /\ Fairness
=============================================================================
