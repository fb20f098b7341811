------------------------------ MODULE ServerBus ------------------------------
(***************************************************************************)
(* The server of module ServerCore implements the bus that module          *)
(* ClientCore assumes.  To each connection the queue of tasks, the routing *)
(* state, the stub and all the other connections look like one bus that    *)
(* takes messages in order, and "others".                                  *)
(***************************************************************************)
EXTENDS ServerProperties, SequencesExt

(* The connection of c is open, for its client, while its messages reach the
   core: before it is registered (it may connect then), and while it is
   served.  What is in its channel when the core ends still reaches it. *)
IsOpen(c) == Running /\ stub[c] \in {"none", "serving"}

ConnOf(c) == IF IsOpen(c) THEN "open" ELSE "closed"

(* The client knows the ids of requests that the core routes from it or to it,
   and only compares them: they are numbered in their order. *)
Requests(s, d) == {s.chan[d][i] : i \in {j \in DOMAIN s.chan[d] : s.chan[d][j].type = "Req"}}

RoutedIds(s, c) ==
    UNION {{m.id : m \in {r \in Requests(s, d) : c \in {d, r.payload.client}}} : d \in Clients}

Rank(s, c, id) ==
    LET ids == RoutedIds(s, c)
    IN  IF id \in ids THEN Cardinality({i \in ids : i <= id}) ELSE 0

(* A message of c, as module ClientCore has it: a Stop is the task StopBus of
   its sender. *)
MessageOf(s, c, task) ==
    LET m == task.content
    IN  [type |-> IF m.type = "Stop" THEN "StopBus" ELSE m.type,
         id |-> task.id,
         topic |-> IF "topic" \in DOMAIN m THEN m.topic ELSE CHOOSE t \in Topics : TRUE,
         req_id |-> IF m.type = "Rsp" THEN Rank(s, c, m.req_id) ELSE 0]

(* The messages of c that the core has not taken: the last ones that the stub
   has numbered *)
Waiting(c) ==
    {tasks[i] : i \in {j \in DOMAIN tasks : tasks[j].type = "Message" /\ tasks[j].client = c}}

WaitingIds(c) == {task.id : task \in Waiting(c)}

Numbered(c, n) == CHOOSE task \in Waiting(c) : task.id = n

UpOf(c) ==
    LET n == Cardinality(WaitingIds(c))
    IN  IF IsOpen(c)
        THEN [k \in 1..n |-> MessageOf(core, c, Numbered(c, up[c] - n + k))]
        ELSE <<>>

(* The server messages that c has not been given, without payloads and
   counts; for a client, one delivery that fails is like another *)
Seen(s, c, m) ==
    CASE m.type = "Ack" ->
            [type |-> "Ack", id |-> m.msg_id,
             error |-> IF m.error = "UnknownClient" THEN "DeliveryFailed" ELSE m.error]
      [] m.type = "Pub" -> [type |-> "Pub", topic |-> m.topic]
      [] m.type = "Req" -> [type |-> "Req", id |-> Rank(s, c, m.id), topic |-> m.topic]
      [] m.type = "Rsp" -> [type |-> "Rsp", id |-> m.req_id, status |-> m.status]

(* all that the core s has sent to c but the first n *)
Unread(s, c, n) == [i \in 1..(Len(s.chan[c]) - n) |-> Seen(s, c, s.chan[c][n + i])]

DownOf(c) == IF stub[c] = "serving" THEN Unread(core, c, fwd[c]) ELSE <<>>

(* What the core s keeps of c, in which every other client is "others" *)
Whose(c, d) == IF d = c THEN 1 ELSE 2

PendingOf(s, c, p) ==
    [id |-> Rank(s, c, p.id),
     requester |-> IF p.requester = c THEN p.request_id ELSE 0,
     responder |-> Whose(c, p.responder)]

KeptFor(s, c) ==
    [subs |-> {<<1, p[2]>> : p \in {q \in s.subs : q[1] = c}},
     owner |-> [t \in Topics |-> IF s.owner[t] = NoOwner THEN NoOwner ELSE Whose(c, s.owner[t])],
     pending |-> {PendingOf(s, c, p) :
                     p \in {q \in s.pending : c \in {q.requester, q.responder}}},
     next |-> Cardinality(RoutedIds(s, c)) + 1]

BusOf(c) ==
    IF IsOpen(c) THEN KeptFor(core, c)
    ELSE [subs |-> {}, owner |-> [t \in Topics |-> NoOwner], pending |-> {}, next |-> 1]

-----------------------------------------------------------------------------
(* Module ClientCore with this bus.  What its client has of its own is not
   there, and what bounds it is not used. *)
View(c) ==
    INSTANCE ClientCore WITH
        MaxCalls <- 0, MaxRequests <- 0, MaxQueue <- 0, Inputs <- {},
        core <- <<>>, status <- "running", tasks <- <<>>, calls <- <<>>,
        up <- UpOf(c), down <- DownOf(c), conn <- ConnOf(c), bus <- BusOf(c)

(* what the client does: it sends a message, or takes one *)
ClientSends(c) ==
    /\ IsOpen(c)
    /\ UpOf(c)' # <<>> /\ Front(UpOf(c)') = UpOf(c)
    /\ UNCHANGED <<DownOf(c), ConnOf(c), BusOf(c)>>

ClientTakes(c) ==
    /\ DownOf(c) # <<>>
    /\ DownOf(c)' = Tail(DownOf(c))
    /\ UNCHANGED <<UpOf(c), ConnOf(c), BusOf(c)>>

(* A publication that panics the core may have been delivered before: to the
   client, an OthersPublish and a ConnectionLost. *)
LastPublication(c, t) ==
    /\ View(c)!Reached(t)
    /\ DownOf(c)' = Append(DownOf(c), [type |-> "Pub", topic |-> t])
    /\ UpOf(c)' = <<>> /\ ConnOf(c)' = "closed" /\ BusOf(c)' = View(c)!NoBus

BusMoves(c) ==
    \/ View(c)!BusStep
    \/ \E t \in Topics :
          View(c)!OthersPublish(t) \/ View(c)!OthersRequest(t) \/ View(c)!OthersServe(t)
    \/ \E p \in BusOf(c).pending : View(c)!OthersAnswer(p)
    \/ View(c)!OthersLeave
    \/ View(c)!ConnectionLost
    \/ \E t \in Topics : LastPublication(c, t)

(* The peers answer only requests that they were given, as module ClientCore
   does (client/mod.rs:172-174): nobody guesses an id that is used later. *)
NoGuesses == \A c \in Clients : \A m \in Contents[c] : m.type # "Rsp"

(* What a client can see of the server, whatever the others do, time out or
   lose, is what the bus of module ClientCore does: its acks come in order
   and last, nothing else is answered, delivered or forgotten for it
   (server/core.rs:149-330), so what is checked of the client holds with the
   server that there is. *)
ImplementsBus ==
    /\ \A c \in Clients : UpOf(c) = <<>> /\ DownOf(c) = <<>> /\ IsOpen(c)
                          /\ BusOf(c) = View(c)!NoBus
    /\ [][\A c \in Clients :
             \/ UNCHANGED <<UpOf(c), DownOf(c), ConnOf(c), BusOf(c)>>
             \/ ClientSends(c) \/ ClientTakes(c) \/ BusMoves(c)]_vars
=============================================================================
