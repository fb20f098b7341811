-------------------------- MODULE ServerProperties ---------------------------
(* What makes the bus server of module ServerCore correct. *)
EXTENDS ServerCore

(* The type invariant; a stub has taken no more messages off its channel than
   were put in (client_stub.rs:64-71). *)
TypeOK ==
    /\ core \in CoreType
    /\ status \in {"running", "stopped", "failed", "panicked"}
    /\ tasks \in Seq(Task)
    /\ timers \in SUBSET Nat
    /\ accepted \in Nat
    /\ stub \in [Clients -> {"none", "serving", "closing", "closed"}]
    /\ fwd \in [Clients -> Nat]
    /\ \A c \in Clients : fwd[c] <= Len(core.chan[c])
    /\ up \in [Clients -> Nat]

Queued(task) == \E i \in DOMAIN tasks : tasks[i] = task
DeregisterOf(c) == [type |-> "Deregister", client |-> c]
TimeoutOf(id) == [type |-> "RequestTimeout", id |-> id]

Gone(c) == stub[c] \in {"closing", "closed"}

Received(c) == {core.chan[c][i] : i \in DOMAIN core.chan[c]}

-----------------------------------------------------------------------------
(* Invariants *)

(* The clients that the core's tables mention *)
Mentions(s) ==
    s.senders
      \cup {p[1] : p \in s.subs}
      \cup {s.owner[t] : t \in Topics}
      \cup {p.requester : p \in s.pending}
      \cup {p.responder : p \in s.pending}

Mentioned == Mentions(core)

(* Nothing is left behind for a client that is gone: while the core runs, a
   client that any table mentions is connected, or its Deregister is in the
   queue.  Messages of a client that are still queued when it leaves, or when
   a failed delivery has already cleaned it up, may put it back into the
   tables (core.rs:149-208), but its Deregister always comes after them
   (client_stub.rs:42-46). *)
NoDanglingReference ==
    Running => \A c \in Mentioned \ {Bus} : stub[c] = "serving" \/ Queued(DeregisterOf(c))

(* The core never loses a connected client: cleaning up after a failed
   delivery (core.rs:319-327) or on Deregister only hits clients that have
   left. *)
LiveClientsRegistered ==
    Running => \A c \in Clients : stub[c] = "serving" => c \in core.senders

(* No request waits for ever: each pending response has its timer, or the
   timeout is in the queue (core.rs:222-235). *)
PendingHasTimer ==
    Running => \A p \in core.pending : p.id \in timers \/ Queued(TimeoutOf(p.id))

(* A requester is answered at most once, whatever the races of responders,
   repeated answers and timeouts; a second Rsp would panic the client core,
   which unwraps the callback it removes (client/core.rs:241). *)
ResponseOnce ==
    \A c \in Clients : \A i, j \in DOMAIN core.chan[c] :
        LET m == core.chan[c][i]
            n == core.chan[c][j]
        IN  m.type = "Rsp" /\ n.type = "Rsp" /\ m.req_id = n.req_id => i = j

(* A response comes after the acknowledgement of its request, also when a
   client serves its own request: request acks in the same task
   (core.rs:149-241), and the client waits for the ack first
   (client/mod.rs:133-135). *)
AckBeforeResponse ==
    \A c \in Clients : \A j \in DOMAIN core.chan[c] :
        core.chan[c][j].type = "Rsp" =>
            \E i \in 1..(j - 1) :
                /\ core.chan[c][i].type = "Ack"
                /\ core.chan[c][i].msg_id = core.chan[c][j].req_id
                /\ core.chan[c][i].error = NoError

(* An answer comes from the client that was given the request, not from
   another one that names its id (core.rs:252-255). *)
ResponseFromResponder ==
    \A c \in Clients : \A m \in Received(c) :
        m.type = "Rsp" /\ m.status = "Ok" =>
            \E n \in Received(m.payload.client) :
                n.type = "Req" /\ n.payload = [client |-> c, id |-> m.req_id]

(* The number that publish returns is the number of clients that were sent
   the message (core.rs:285-302, client/mod.rs "Returns the number of
   receiving clients"). *)
AckCountsDeliveries ==
    \A c \in Clients : \A m \in Received(c) :
        m.type = "Ack" /\ m.num_recipients # NoCount =>
            m.num_recipients = Cardinality({d \in Clients :
                \E n \in Received(d) :
                    n.type = "Pub" /\ n.payload = [client |-> c, id |-> m.msg_id]})

(* Publications of one client reach each subscriber in the order in which
   they were sent, and none reaches it twice. *)
PublisherOrder ==
    \A c \in Clients : \A i, j \in DOMAIN core.chan[c] :
        LET m == core.chan[c][i]
            n == core.chan[c][j]
        IN  /\ i < j
            /\ m.type = "Pub" /\ n.type = "Pub"
            /\ m.payload.client = n.payload.client
            => m.payload.id < n.payload.id

-----------------------------------------------------------------------------
(* What the invariants above rest on: the parts of the inductive invariants of
   module ServerProofs. *)

(* Ids are given out in order: one not given out yet has no stub. *)
UnusedIds == \A c \in Clients : c >= core.next_client_id => stub[c] = "none"

(* The Deregister of a client is in the queue only once it has left... *)
DeregisterWhenGone == \A c \in Clients : Queued(DeregisterOf(c)) => Gone(c)

(* ... and no later than when it leaves: every queued message of a client is
   followed by its Deregister, or the client is still there to send it. *)
DeregisterFollowsMessages ==
    Running => \A i \in DOMAIN tasks : tasks[i].type = "Message" =>
        \/ stub[tasks[i].client] = "serving"
        \/ \E j \in DOMAIN tasks : i < j /\ tasks[j] = DeregisterOf(tasks[i].client)

(* The id of a pending response identifies it: ids are never reused. *)
PendingIdsUnique ==
    /\ \A p \in core.pending : p.id < core.next_msg_id
    /\ \A p, q \in core.pending : p.id = q.id => p = q

(* The message of a client that m, in the channel of d, is about *)
Named(d, m) ==
    CASE m.type = "Ack" -> [client |-> d, id |-> m.msg_id]
      [] m.type = "Rsp" -> [client |-> d, id |-> m.req_id]
      [] OTHER -> m.payload

NamesOf(s) ==
    (UNION {{Named(d, s.chan[d][i]) : i \in DOMAIN s.chan[d]} : d \in Clients})
      \cup {[client |-> p.requester, id |-> p.request_id] : p \in s.pending}

(* A stub numbers the messages of its client in their order, and the core
   takes them in that order: what it has taken, and so all that it says or
   keeps, is about messages before those in the queue. *)
MessagesInOrder ==
    \A i \in DOMAIN tasks : tasks[i].type = "Message" =>
        /\ tasks[i].id <= up[tasks[i].client]
        /\ \A n \in NamesOf(core) : n.client = tasks[i].client => n.id < tasks[i].id
        /\ \A j \in DOMAIN tasks :
              i < j /\ tasks[j].type = "Message" /\ tasks[j].client = tasks[i].client
                => tasks[i].id < tasks[j].id

NamesWereSent == \A n \in NamesOf(core) : n.client \in Clients => n.id <= up[n.client]

-----------------------------------------------------------------------------
(* Action properties *)

(* The core processes a message of this type, and goes on *)
Processes(type) == TakeMessage(type) /\ tasks' = Tail(tasks) /\ Running'

(* c's own request to give up t is processed *)
Releases(c, type, t) ==
    /\ Processes(type)
    /\ Sender = c
    /\ Content.topic = t

(* A connected client loses a subscription or a served topic only by its own
   Unsub or Unsrv, never by what another client does or by another client's
   departure (directory.rs:79-190, core.rs:141-147). *)
LiveClientsKeepRoutes ==
    [][Running => \A c \in Clients, t \in Topics : stub[c] = "serving" =>
          /\ <<c, t>> \in core.subs =>
                <<c, t>> \in core'.subs \/ Releases(c, "Unsub", t)
          /\ core.owner[t] = c =>
                core'.owner[t] = c \/ Releases(c, "Unsrv", t)]_vars

(* A publication that leaves out a connected subscriber is not taken for a
   success: a publisher that is still there is told of the delivery that
   failed, although the loop may have served some of the subscribers
   (core.rs:285-302, 193).  The client it failed for has left: its channel is
   closed, or it was deregistered before its last Sub was taken. *)
IncompleteIsReported ==
    [][Processes("Pub") =>
          \/ \A c \in Recipients \cap Clients :
                stub[c] = "serving" => Publication \in Received(c)'
          \/ stub[Sender] # "serving"
          \/ LET told == core'.chan[Sender]
                 ack == told[Len(told)]
             IN  /\ ack.type = "Ack"
                 /\ ack.msg_id = Head(tasks).id
                 /\ ack.error \in {"DeliveryFailed", "UnknownClient"}]_vars

-----------------------------------------------------------------------------
(* Liveness, under FairSpec *)

Accepted(c, r) ==
    \E m \in Received(c) : m.type = "Ack" /\ m.msg_id = r /\ m.error = NoError

Asked(c, r) ==
    \E d \in Clients : \E m \in Received(d) :
        m.type = "Req" /\ m.payload = [client |-> c, id |-> r]

ResponderGone(c, r) ==
    \E d \in Clients : Gone(d) /\ \E m \in Received(d) :
        m.type = "Req" /\ m.payload = [client |-> c, id |-> r]

Answered(c, r) == \E m \in Received(c) : m.type = "Rsp" /\ m.req_id = r

(* A request that was accepted is answered, by the responder or by the
   timeout, unless the requester or the responder leaves or the core ends. *)
AcceptedRequestIsAnswered ==
    \A c \in Clients : \A r \in 1..MaxMsgs[c] :
        Accepted(c, r) /\ Asked(c, r) ~>
            Answered(c, r) \/ Gone(c) \/ ResponderGone(c, r) \/ ~Running

(* A client that has left is forgotten by every table, for good, unless the
   core ends. *)
DepartedIsForgotten ==
    \A c \in Clients : Gone(c) ~> (~Running \/ [](c \notin Mentioned))

-----------------------------------------------------------------------------
(* What the documentation says and the code does not do *)

(* README.md:30-32 "server_stopper.stop(); // or drop ... The server has
   stopped": until then, or a Stop or kill message, it serves.  The timer of
   a request that was answered ends the core with an error (core.rs:99-106). *)
ServerOnlyStopsWhenTold == status # "failed"

(* client/mod.rs:112 "Returns the response or an error": a request that was
   accepted is pending or answered as long as the requester is connected.
   When the responder leaves the pending response is dropped and nothing is
   sent (core.rs:144-145). *)
AcceptedRequestIsResolvable ==
    Running => \A c \in Clients : \A r \in 1..MaxMsgs[c] :
        stub[c] = "serving" /\ Accepted(c, r) /\ Asked(c, r) =>
            \/ Answered(c, r)
            \/ \E p \in core.pending : p.requester = c /\ p.request_id = r
=============================================================================
