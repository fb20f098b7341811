------------------------- MODULE LifecycleProperties -------------------------
(* What makes the life of the servers of module Lifecycle correct. *)
EXTENDS Lifecycle

(* When stop or join has returned, with an error or without, neither the core
   nor a listener runs: the port can be served again and no client waits to be
   accepted.  And Ok means that no part had failed, or ended before it was
   told to (stopper.rs:54-79). *)
ReturnedMeansStopped ==
    \A s \in Servers : Phase(s) = "returned" =>
        /\ \A p \in PartsOf(s) : Ended(p) /\ port # p
        /\ \A c \in Conns : OfServer(c, s) =>
              conns[c].stage \in {"registered", "sending", "left", "closed"}
        /\ server[s].result = "Ok" =>
              \A p \in PartsOf(s) : part[p] = "Ok" /\ p \notin server[s].gone

(* While the core runs and the stopper is held, a listener only ends by itself,
   for an error of accept or because its connectors are dropped: not for a
   connection that came before the core was spawned, and not because another
   listener ended (builder.rs:53-75, listen.rs:30-43). *)
ListensWhileServing ==
    \A l \in Listeners :
        Phase(l[1]) \in {"built", "joining"} /\ Runs(Core(l[1])) =>
            \/ Runs(l)
            \/ part[l] = "IOError"
            \/ Kind(l) = "memory" /\ l[1] \notin connector

(* A unix listener is reachable at its path unless a listener cleared the path
   after it did: the end of another one, which had the path before, does not
   take it away (unix.rs:38-42). *)
PathIsOfTheLatest ==
    \A i \in DOMAIN claims :
        Runs(claims[i]) => path = claims[i] \/ \E j \in DOMAIN claims : i < j

-----------------------------------------------------------------------------
(* Liveness, under FairSpec *)

Over(s) ==
    /\ \A p \in PartsOf(s) : Ended(p)
    /\ \A c \in Conns : OfServer(c, s) => conns[c].stage \in {"closed", "left", "sending"}

(* A server that is stopped, or whose stopper is dropped, or whose build fails
   half-way, comes to an end for good with all its tasks and connections
   (builder.rs:53-62, stopper.rs:30-43); except that a stub which is in send to
   a client that does not read stays there, with its connection, for as long as
   the client leaves it (client_stub.rs:67). *)
NothingKeepsRunning ==
    \A s \in Servers : Phase(s) \in {"failed", "stopping", "dropped"} ~> []Over(s)

(* A connection that a client has is registered or closed in the end, in each
   race of accept with the end of the listener, of the core or of the build,
   unless a TLS handshake that is not completed is in its way
   (listen.rs:36-39, core.rs:115-139). *)
ConnectionsAreServedOrClosed ==
    \A c \in Conns :
        conns[c].stage \in {"backlog", "queued"} ~>
            \/ conns[c].stage \in {"registered", "closed"}
            \/ \E d \in Conns : conns[d] = [at |-> conns[c].at, stage |-> "handshake"]
=============================================================================
