------------------------------ MODULE Lifecycle -------------------------------
(***************************************************************************)
(* How bus servers are built, connected to and stopped: ServerBuilder      *)
(* (src/src/server/builder.rs), the listener tasks (server/listen.rs), the *)
(* stoppers (stopper.rs), and what binding, accepting and connecting do on *)
(* each transport (transport/).                                            *)
(*                                                                         *)
(* A server has parts: listeners 1, 2, ..., in the order in which they     *)
(* were asked for, and its core, part 0.  Each part is a task with a stop  *)
(* channel of its own.  All unix listeners of all servers use one path,    *)
(* all TCP listeners one port.  What the core does for its clients is in   *)
(* module ServerCore; here it registers connections, and ends.  How a stub *)
(* and its client talk is in module Link; here a stub sends at times.      *)
(***************************************************************************)
EXTENDS Naturals, Sequences

CONSTANTS
    Serves,     \* Serves[s]: the transports that the builder of server s was given
    Conns,      \* bound: the connections that clients make
    Scenarios   \* bound: which servers and connections are made in one behaviour

Servers == DOMAIN Serves

(* ServerBuilder has no TLS: a server on it has nothing else *)
ASSUME LifecycleAssumption ==
    /\ Serves \in Seq(Seq({"memory", "unix", "tcp"}) \cup {<<"tls">>})
    /\ Scenarios \subseteq [servers : SUBSET Servers, conns : SUBSET Conns]

Listeners == UNION {{s} \X DOMAIN Serves[s] : s \in Servers}
Core(s) == <<s, 0>>
Parts == Listeners \cup {Core(s) : s \in Servers}
PartsOf(s) == {p \in Parts : p[1] = s}
Kind(l) == Serves[l[1]][l[2]]
Nobody == <<0, 0>>

VARIABLES
    server,     \* how far each server is, and what its build or its stopper returned
    part,       \* each part: none, running, or what its task returned
    told,       \* the parts whose sender has sent, or is dropped
    path, port, \* the listener that is bound there
    claims,     \* the unix listeners in the order in which they cleared the path
    connector,  \* the servers whose memory connector somebody holds
    conns       \* each connection: the listener it was made to, and how far it is

vars == <<server, part, told, path, port, claims, connector, conns>>

Init ==
    /\ \E scenario \in Scenarios :
          /\ server = [s \in Servers |->
                         [phase |-> IF s \in scenario.servers THEN "none" ELSE "unused",
                          next |-> 1, gone |-> {}, result |-> "Ok"]]
          /\ conns = [c \in Conns |->
                        [at |-> Nobody,
                         stage |-> IF c \in scenario.conns THEN "none" ELSE "unused"]]
    /\ part = [p \in Parts |-> "none"]
    /\ told = {}
    /\ path = Nobody /\ port = Nobody
    /\ claims = <<>>
    /\ connector = {}

Phase(s) == server[s].phase
Runs(p) == part[p] = "running"

(* slip: the queue of the core is made when the core is spawned *)
CoreSpawned(s) == Runs(Core(s))

(* the receiver of the core's task queue is there: the builder makes the core
   before the listeners, and spawns it after them *)
CoreListens(s) == Phase(s) = "building" \/ Runs(Core(s))

(* the connections of the listeners L that are at these stages are closed *)
Close(L, stages) ==
    [c \in Conns |-> IF conns[c].at \in L /\ conns[c].stage \in stages
                     THEN [conns[c] EXCEPT !.stage = "closed"] ELSE conns[c]]

Unaccepted == {"backlog", "handshake"}

(* slip: the socket file is removed when its listener ends *)
EndAndRemove(l, how) ==
    /\ part' = [part EXCEPT ![l] = how]
    /\ port' = IF port = l THEN Nobody ELSE port
    /\ path' = IF Kind(l) = "unix" THEN Nobody ELSE path

(* The task of listener l returns, and drops its socket, or its end of the
   connectors' channel.  The file of a unix socket stays. *)
End(l, how) ==
    /\ part' = [part EXCEPT ![l] = how]
    /\ port' = IF port = l THEN Nobody ELSE port
    /\ UNCHANGED path

-----------------------------------------------------------------------------
(* build: each listener in turn, then the core *)

Build(s) ==
    /\ Phase(s) = "none"
    /\ server' = [server EXCEPT ![s].phase = "building"]
    /\ UNCHANGED <<part, told, path, port, claims, connector, conns>>

(* s is about to start listener l *)
Starts(s, l) == Phase(s) = "building" /\ l = <<s, server[s].next>> /\ l \in Listeners

Started(s, l) ==
    /\ server' = [server EXCEPT ![s].next = @ + 1]
    /\ part' = [part EXCEPT ![l] = "running"]

(* the first error is the one that build returns; the others are started all
   the same *)
NotStarted(s, l) ==
    /\ server' = [server EXCEPT ![s].next = @ + 1,
                                ![s].result = IF @ = "Ok" THEN "IOError" ELSE @]
    /\ part' = [part EXCEPT ![l] = "none"]

StartMemory(s, l) ==
    /\ Starts(s, l) /\ Kind(l) = "memory"
    /\ Started(s, l)
    /\ connector' = connector \cup {s}
    /\ UNCHANGED <<told, path, port, claims, conns>>

(* UnixListener::new removes whatever file is there... *)
ClearPath(s, l) ==
    /\ Starts(s, l) /\ Kind(l) = "unix"
    /\ part[l] = "none"
    /\ part' = [part EXCEPT ![l] = "cleared"]
    /\ path' = Nobody
    /\ claims' = Append(claims, l)
    /\ UNCHANGED <<server, told, port, connector, conns>>

(* ... then binds, which fails if there is one, or for the system's reasons *)
BindPath(s, l) ==
    /\ Starts(s, l) /\ part[l] = "cleared"
    /\ \/ path = Nobody /\ path' = l /\ Started(s, l)
       \/ NotStarted(s, l) /\ UNCHANGED path
    /\ UNCHANGED <<told, port, claims, connector, conns>>

(* TcpListener::new, TlsListener::new *)
StartTcp(s, l) ==
    /\ Starts(s, l) /\ Kind(l) \in {"tcp", "tls"}
    /\ \/ port = Nobody /\ port' = l /\ Started(s, l)
       \/ NotStarted(s, l) /\ UNCHANGED port
    /\ UNCHANGED <<told, path, claims, connector, conns>>

(* build returns.  With an error, the stoppers of the listeners that did start
   are dropped, and the core with what is in its queue. *)
Built(s) ==
    /\ Phase(s) = "building" /\ server[s].next > Len(Serves[s])
    /\ IF server[s].result = "Ok"
       THEN /\ server' = [server EXCEPT ![s].phase = "built"]
            /\ part' = [part EXCEPT ![Core(s)] = "running"]
            /\ UNCHANGED <<told, connector, conns>>
       ELSE /\ server' = [server EXCEPT ![s].phase = "failed"]
            /\ told' = told \cup PartsOf(s)
            /\ connector' = connector \ {s}
            /\ conns' = Close(PartsOf(s), {"queued"})
            /\ UNCHANGED part
    /\ UNCHANGED <<path, port, claims>>

-----------------------------------------------------------------------------
(* A listener: the branches of its select!, and the ways accept fails *)

(* slip: a sender that is dropped is no signal *)
SignalledOnly(p) == p \in told /\ Phase(p[1]) # "failed" /\ Phase(p[1]) # "dropped"

Signalled(p) == p \in told

ListenerStops(l) ==
    /\ Runs(l) /\ Signalled(l)
    /\ End(l, "Ok")
    /\ conns' = Close({l}, Unaccepted)
    /\ UNCHANGED <<server, told, claims, connector>>

(* connection c becomes a Register task, unless the core is gone *)
Admit(l, c) ==
    /\ IF CoreListens(l[1])
       THEN /\ conns' = [conns EXCEPT ![c].stage = "queued"]
            /\ UNCHANGED <<part, path, port>>
       ELSE /\ End(l, "ChannelClosed")
            /\ conns' = Close({l}, Unaccepted)
    /\ UNCHANGED <<server, told, claims, connector>>

Accept(l) ==
    /\ Runs(l) /\ Kind(l) # "tls"
    /\ \E c \in Conns : conns[c] = [at |-> l, stage |-> "backlog"] /\ Admit(l, c)

(* TLS: a handshake, for which all other connections wait *)
BeginHandshake(l) ==
    /\ Runs(l) /\ Kind(l) = "tls"
    /\ \A c \in Conns : conns[c] # [at |-> l, stage |-> "handshake"]
    /\ \E c \in Conns :
          /\ conns[c] = [at |-> l, stage |-> "backlog"]
          /\ conns' = [conns EXCEPT ![c].stage = "handshake"]
    /\ UNCHANGED <<server, part, told, path, port, claims, connector>>

EndHandshake(l) ==
    /\ Runs(l)
    /\ \E c \in Conns : conns[c] = [at |-> l, stage |-> "handshake"] /\ Admit(l, c)

(* accept returns an error: one of the system, or of the handshake *)
AcceptFails(l) ==
    /\ Runs(l) /\ Kind(l) # "memory"
    /\ End(l, "IOError")
    /\ conns' = Close({l}, Unaccepted)
    /\ UNCHANGED <<server, told, claims, connector>>

(* every connector of a memory listener is dropped *)
NoMoreConnectors(l) ==
    /\ Runs(l) /\ Kind(l) = "memory" /\ l[1] \notin connector
    /\ \A c \in Conns : conns[c] # [at |-> l, stage |-> "backlog"]
    /\ End(l, "ChannelClosed")
    /\ UNCHANGED <<server, told, claims, connector, conns>>

ListenerStep(l) ==
    \/ ListenerStops(l) \/ AcceptFails(l) \/ NoMoreConnectors(l)
    \/ Accept(l) \/ BeginHandshake(l) \/ EndHandshake(l)

-----------------------------------------------------------------------------
(* The core, and the stubs it has spawned *)

OfServer(c, s) == conns[c].at[1] = s

Register(s) ==
    /\ Runs(Core(s))
    /\ \E c \in Conns :
          /\ OfServer(c, s) /\ conns[c].stage = "queued"
          /\ conns' = [conns EXCEPT ![c].stage = "registered"]
    /\ UNCHANGED <<server, part, told, path, port, claims, connector>>

(* slip: the task queue outlives the core *)
KeepQueue(s) == UNCHANGED conns

(* what was in the task queue is dropped with it *)
DropQueue(s) == conns' = Close(PartsOf(s), {"queued"})

CoreStops(s) ==
    /\ Runs(Core(s)) /\ Signalled(Core(s))
    /\ part' = [part EXCEPT ![Core(s)] = "Ok"]
    /\ DropQueue(s)
    /\ UNCHANGED <<server, told, path, port, claims, connector>>

(* a client stops the bus, a timer's error ends it, or a publication to the
   kill topic panics it; the client may have left since *)
CoreEnds(s) ==
    /\ Runs(Core(s))
    /\ \E c \in Conns : OfServer(c, s) /\ conns[c].stage \in {"registered", "sending", "left"}
    /\ \E how \in {"Ok", "InvalidRequestId", "InternalError"} :
          part' = [part EXCEPT ![Core(s)] = how]
    /\ DropQueue(s)
    /\ UNCHANGED <<server, told, path, port, claims, connector>>

CoreStep(s) == Register(s) \/ CoreStops(s)

(* The stub has a message from the core, and is in transport.send: it looks at
   nothing else until the peer has read enough, or has gone. *)
StubSends(c) ==
    /\ conns[c].stage = "registered"
    /\ conns' = [conns EXCEPT ![c].stage = "sending"]
    /\ UNCHANGED <<server, part, told, path, port, claims, connector>>

SendEnds(c) ==
    /\ conns[c].stage = "sending"
    /\ conns' = [conns EXCEPT ![c].stage = "registered"]
    /\ UNCHANGED <<server, part, told, path, port, claims, connector>>

(* the stub finds its channel from the core closed, and drops the transport *)
StubEnds(c) ==
    /\ conns[c].stage = "registered" /\ ~Runs(Core(conns[c].at[1]))
    /\ conns' = [conns EXCEPT ![c].stage = "closed"]
    /\ UNCHANGED <<server, part, told, path, port, claims, connector>>

-----------------------------------------------------------------------------
(* What clients do: Connector::connect.  The client has its connection before
   the listener has accepted it. *)

Connect(c, l) ==
    /\ conns[c].stage = "none"
    /\ Runs(l)
    /\ CASE Kind(l) = "memory" -> l[1] \in connector
         [] Kind(l) = "unix" -> path = l
         [] OTHER -> port = l
    /\ conns' = [conns EXCEPT ![c] = [at |-> l, stage |-> "backlog"]]
    /\ UNCHANGED <<server, part, told, path, port, claims, connector>>

(* or the stub takes the client for dead *)
Disconnect(c) ==
    /\ conns[c].stage \in {"registered", "sending"}
    /\ conns' = [conns EXCEPT ![c].stage = "left"]
    /\ UNCHANGED <<server, part, told, path, port, claims, connector>>

(* the connector that build returned, and its clones, are dropped *)
DropConnector(s) ==
    /\ s \in connector /\ Phase(s) # "building"
    /\ connector' = connector \ {s}
    /\ UNCHANGED <<server, part, told, path, port, claims, conns>>

-----------------------------------------------------------------------------
(* The stopper *)

Ended(p) == part[p] \notin {"running", "cleared"}

(* stop sends to every part, and notes those that are gone, before it waits
   for any *)
Stop(s) ==
    /\ Phase(s) = "built"
    /\ server' = [server EXCEPT ![s].phase = "stopping",
                                ![s].gone = {p \in PartsOf(s) : Ended(p)}]
    /\ told' = told \cup PartsOf(s)
    /\ UNCHANGED <<part, path, port, claims, connector, conns>>

Join(s) ==
    /\ Phase(s) = "built"
    /\ server' = [server EXCEPT ![s].phase = "joining"]
    /\ UNCHANGED <<part, told, path, port, claims, connector, conns>>

(* the stopper is dropped, or a call to it that is being awaited *)
Drop(s) ==
    /\ Phase(s) \in {"built", "stopping", "joining"}
    /\ server' = [server EXCEPT ![s].phase = "dropped"]
    /\ told' = told \cup PartsOf(s)
    /\ UNCHANGED <<part, path, port, claims, connector, conns>>

(* slip: try_join_all, which returns at the first error *)
SomeEnded(s) ==
    \/ \A p \in PartsOf(s) : Ended(p)
    \/ \E p \in PartsOf(s) : Ended(p) /\ part[p] # "Ok"

(* join_all: every part has been waited for *)
AllEnded(s) == \A p \in PartsOf(s) : Ended(p)

ResultOf(p) == IF p \in server[p[1]].gone THEN "ChannelClosed" ELSE part[p]

(* the results of the listeners, and last of the core *)
Results(s) ==
    Append([i \in DOMAIN Serves[s] |-> ResultOf(<<s, i>>)], ResultOf(Core(s)))

(* where there is an error in them *)
Errors(s) == {i \in DOMAIN Results(s) : Results(s)[i] # "Ok"}

(* the first error, if there is one *)
Return(s) ==
    /\ Phase(s) \in {"stopping", "joining"}
    /\ AllEnded(s)
    /\ \/ Errors(s) = {} /\ server' = [server EXCEPT ![s].phase = "returned",
                                                   ![s].result = "Ok"]
       \/ \E i \in Errors(s) :
             /\ \A j \in Errors(s) : i <= j
             /\ server' = [server EXCEPT ![s].phase = "returned",
                                         ![s].result = Results(s)[i]]
    /\ UNCHANGED <<part, told, path, port, claims, connector, conns>>

-----------------------------------------------------------------------------
BuildStep(s) ==
    \/ \E l \in Listeners :
          StartMemory(s, l) \/ ClearPath(s, l) \/ BindPath(s, l) \/ StartTcp(s, l)
    \/ Built(s)

Next ==
    \/ \E s \in Servers :
          \/ Build(s) \/ BuildStep(s)
          \/ CoreStep(s) \/ CoreEnds(s)
          \/ Stop(s) \/ Join(s) \/ Drop(s) \/ Return(s)
          \/ DropConnector(s)
    \/ \E l \in Listeners : ListenerStep(l)
    \/ \E c \in Conns :
          \/ StubSends(c) \/ SendEnds(c) \/ StubEnds(c)
          \/ Disconnect(c) \/ \E l \in Listeners : Connect(c, l)

Spec == Init /\ [][Next]_vars

(* Every task is scheduled.  A stop signal is seen in the end because there is
   not always one more connection.  A stub whose core is gone has finitely many
   messages left to send, and then ends.  Nothing obliges a peer to complete its
   handshake, or to read. *)
Fairness ==
    /\ \A s \in Servers : WF_vars(BuildStep(s) \/ Return(s)) /\ WF_vars(CoreStep(s))
    /\ \A l \in Listeners :
          WF_vars(ListenerStops(l) \/ NoMoreConnectors(l) \/ Accept(l) \/ BeginHandshake(l))
    /\ \A c \in Conns : SF_vars(StubEnds(c))

FairSpec == Spec /\ Fairness
=============================================================================
