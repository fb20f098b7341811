--------------------------- MODULE LifecycleProofs ---------------------------
(***************************************************************************)
(* Proofs of the safety properties of module LifecycleProperties, for any  *)
(* servers, transports and connections.                                    *)
(***************************************************************************)
EXTENDS LifecycleProperties, TLAPS

-----------------------------------------------------------------------------
(* Parts and their names *)

(* A server is a position in Serves, with its transports in a sequence
   (builder.rs:15-25). *)
LEMMA ServersAre ==
    /\ Servers = 1..Len(Serves)
    /\ \A s \in Servers : s \in Nat \ {0}
    /\ \A s \in Servers : Len(Serves[s]) \in Nat /\ DOMAIN Serves[s] = 1..Len(Serves[s])
BY LifecycleAssumption DEF Servers

(* A listener is named by its server and its place in it (builder.rs:55-60). *)
LEMMA ListenersAre ==
    /\ \A l \in Listeners :
          /\ l[1] \in Servers
          /\ l[2] \in 1..Len(Serves[l[1]])
          /\ l = <<l[1], l[2]>>
    /\ \A s \in Servers : \A i \in 1..Len(Serves[s]) : <<s, i>> \in Listeners
    /\ Nobody \notin Listeners
BY ServersAre DEF Listeners, Nobody

(* The core is a part of its server and no listener (builder.rs:54). *)
LEMMA PartsAre ==
    /\ Listeners \subseteq Parts
    /\ \A s \in Servers :
          /\ Core(s) \in Parts \ Listeners
          /\ Core(s)[1] = s
    /\ \A p \in Parts : p[1] \in Servers /\ (p \in Listeners \/ p = Core(p[1]))
<1>1. \A s \in Servers : Core(s) \notin Listeners /\ Core(s)[1] = s
  BY ServersAre, ListenersAre DEF Core
<1> QED
  BY <1>1, ListenersAre DEF Parts

(* Which parts are those of a server (builder.rs:53-75). *)
LEMMA PartsOfAre ==
    ASSUME NEW s \in Servers
    PROVE  /\ \A p : p \in PartsOf(s) <=> p \in Parts /\ p[1] = s
           /\ Core(s) \in PartsOf(s)
           /\ \A l \in Listeners : l[1] = s => l \in PartsOf(s)
BY PartsAre DEF PartsOf

-----------------------------------------------------------------------------
(* The invariant *)

Phases == {"unused", "none", "building", "built", "failed",
           "stopping", "joining", "dropped", "returned"}

Outcomes == {"Ok", "IOError", "ChannelClosed", "InvalidRequestId", "InternalError"}

PartStates == {"none", "cleared", "running"} \cup Outcomes

Stages == {"unused", "none", "backlog", "handshake", "queued",
           "registered", "sending", "left", "closed"}

Types ==
    /\ server \in [Servers -> [phase : Phases, next : Nat, gone : SUBSET Parts,
                               result : PartStates]]
    /\ part \in [Parts -> PartStates]
    /\ told \subseteq Parts
    /\ path \in Listeners \cup {Nobody}
    /\ port \in Listeners \cup {Nobody}
    /\ claims \in Seq(Listeners)
    /\ connector \subseteq Servers
    /\ conns \in [Conns -> [at : Listeners \cup {Nobody}, stage : Stages]]

(* Listeners start one after the other, and only once, and the build does not
   return before it has tried all of them (builder.rs:55-61). *)
StartedInOrder ==
    \A l \in Listeners :
        /\ l[2] > server[l[1]].next => part[l] = "none"
        /\ l[2] = server[l[1]].next => part[l] \in {"none", "cleared"}
        /\ l[2] < server[l[1]].next => part[l] # "cleared"
        /\ part[l] = "cleared" => Kind(l) = "unix"
        /\ Phase(l[1]) \in {"unused", "none"} => server[l[1]].next = 1
        /\ Phase(l[1]) \notin {"unused", "none", "building"} => l[2] < server[l[1]].next

(* The port is bound as long as its listener runs (tcp.rs:48-53). *)
PortIsOfARunner == port \in Listeners => Runs(port)

(* Who still holds the other end of each connection (listen.rs:36-39). *)
ConnectionsAreHeld ==
    \A c \in Conns :
        /\ conns[c].stage \notin {"unused", "none"} => conns[c].at \in Listeners
        /\ conns[c].stage \in {"unused", "none"} => conns[c].at = Nobody
        /\ conns[c].stage \in Unaccepted => Runs(conns[c].at)
        /\ conns[c].stage = "handshake" => Kind(conns[c].at) = "tls"
        /\ conns[c].stage = "queued" => CoreListens(conns[c].at[1])

(* No sender has sent or is dropped before the build has failed or its stopper
   is used or dropped (builder.rs:53-75, stopper.rs:30-43). *)
ToldInTheEnd ==
    \A s \in Servers :
        Phase(s) \in {"unused", "none", "building", "built", "joining"} =>
            \A p \in PartsOf(s) : p \notin told

(* The build holds its connector until it returns it (builder.rs:27-36). *)
ConnectorIsHeld ==
    \A l \in Listeners :
        Phase(l[1]) = "building" /\ Kind(l) = "memory" /\ l[2] < server[l[1]].next =>
            l[1] \in connector

(* What ListensWhileServing says of a server holds from the start of each of
   its listeners, as long as none has failed to start (builder.rs:55-62). *)
ListensOnceStarted ==
    \A l \in Listeners :
        \/ Phase(l[1]) = "building" /\ l[2] < server[l[1]].next /\ server[l[1]].result = "Ok"
        \/ Phase(l[1]) \in {"built", "joining"} /\ Runs(Core(l[1]))
        => \/ Runs(l)
           \/ part[l] = "IOError"
           \/ Kind(l) = "memory" /\ l[1] \notin connector

(* Only unix listeners clear the path (unix.rs:41). *)
ClaimsAreUnix == \A i \in DOMAIN claims : Kind(claims[i]) = "unix"

(* What stop and join say in the end (stopper.rs:54-79). *)
AnswersForAll ==
    \A s \in Servers : Phase(s) = "returned" =>
        /\ AllEnded(s)
        /\ server[s].result = "Ok" =>
              \A p \in PartsOf(s) : part[p] = "Ok" /\ p \notin server[s].gone

LifecycleInv ==
    /\ Types
    /\ StartedInOrder
    /\ PortIsOfARunner
    /\ ConnectionsAreHeld
    /\ ToldInTheEnd
    /\ ConnectorIsHeld
    /\ ListensOnceStarted
    /\ ClaimsAreUnix
    /\ PathIsOfTheLatest
    /\ AnswersForAll

-----------------------------------------------------------------------------
(* The initial states *)

(* Nothing has started (builder.rs:27-51). *)
LEMMA InitLifecycle == Init => LifecycleInv
<1> SUFFICES ASSUME Init PROVE LifecycleInv
  OBVIOUS
<1>1. PICK scenario \in Scenarios :
         /\ server = [s \in Servers |->
                        [phase |-> IF s \in scenario.servers THEN "none" ELSE "unused",
                         next |-> 1, gone |-> {}, result |-> "Ok"]]
         /\ conns = [c \in Conns |->
                       [at |-> Nobody,
                        stage |-> IF c \in scenario.conns THEN "none" ELSE "unused"]]
  BY DEF Init
<1>2. /\ part = [p \in Parts |-> "none"]
      /\ told = {}
      /\ path = Nobody /\ port = Nobody
      /\ claims = <<>>
      /\ connector = {}
  BY DEF Init
<1>3. \A s \in Servers : Phase(s) \in {"unused", "none"} /\ server[s].next = 1
  BY <1>1 DEF Phase
<1>4. \A c \in Conns : conns[c].at = Nobody /\ conns[c].stage \in {"unused", "none"}
  BY <1>1
<1>5. \A l \in Listeners : l[1] \in Servers /\ l[2] \in Nat /\ part[l] = "none"
  BY <1>2, ListenersAre, ServersAre, PartsAre
<1>6. Types
  <2>1. server \in [Servers -> [phase : Phases, next : Nat, gone : SUBSET Parts,
                                result : PartStates]]
    BY <1>1 DEF Phases, PartStates, Outcomes
  <2>2. conns \in [Conns -> [at : Listeners \cup {Nobody}, stage : Stages]]
    BY <1>1 DEF Stages
  <2>3. part \in [Parts -> PartStates]
    BY <1>2 DEF PartStates
  <2> QED
    BY <1>2, <2>1, <2>2, <2>3 DEF Types
<1>7. StartedInOrder
  BY <1>3, <1>5, ListenersAre DEF StartedInOrder
<1>8. PortIsOfARunner
  BY <1>2, ListenersAre DEF PortIsOfARunner
<1>9. ConnectionsAreHeld
  BY <1>4 DEF ConnectionsAreHeld, Unaccepted
<1>10. ToldInTheEnd
  BY <1>2 DEF ToldInTheEnd
<1>11. ConnectorIsHeld
  BY <1>3, <1>5 DEF ConnectorIsHeld
<1>12. ListensOnceStarted
  BY <1>3, <1>5 DEF ListensOnceStarted
<1>13. ClaimsAreUnix /\ PathIsOfTheLatest
  BY <1>2 DEF ClaimsAreUnix, PathIsOfTheLatest
<1>14. AnswersForAll
  BY <1>3 DEF AnswersForAll
<1> QED
  BY <1>6, <1>7, <1>8, <1>9, <1>10, <1>11, <1>12, <1>13, <1>14 DEF LifecycleInv

-----------------------------------------------------------------------------
(* The steps of the builder *)

(* The names of the parts that the listener of a step is among. *)
LEMMA NamesOf ==
    ASSUME NEW l \in Listeners
    PROVE  /\ l \in Parts /\ l # Nobody
           /\ l[1] \in Servers /\ l[2] \in Nat \ {0}
           /\ l = <<l[1], l[2]>>
           /\ l # Core(l[1])
           /\ Core(l[1]) \in Parts
BY ListenersAre, PartsAre, ServersAre

(* A server whose build begins has no part yet (builder.rs:53). *)
LEMMA BuildKeeps ==
    ASSUME LifecycleInv, NEW s \in Servers, Build(s)
    PROVE  LifecycleInv'
<1> USE DEF LifecycleInv
<1>1. Types'
  BY DEF Types, Build, Phases
<1>2. /\ UNCHANGED <<part, told, path, port, claims, connector, conns>>
      /\ \A t \in Servers :
            /\ server'[t].next = server[t].next
            /\ server'[t].result = server[t].result
            /\ server'[t].gone = server[t].gone
            /\ server'[t].phase = IF t = s THEN "building" ELSE server[t].phase
      /\ server[s].phase = "none"
  BY DEF Types, Build, Phase
<1>3. StartedInOrder'
  BY <1>2, NamesOf DEF StartedInOrder, Phase, Kind
<1>4. PortIsOfARunner'
  BY <1>2 DEF PortIsOfARunner, Runs
<1>5. ConnectionsAreHeld'
  BY <1>2, NamesOf DEF ConnectionsAreHeld, CoreListens, Phase, Runs, Core
<1>6. ToldInTheEnd'
  BY <1>2 DEF ToldInTheEnd, Phase
<1>7. ConnectorIsHeld'
  BY <1>2, NamesOf DEF ConnectorIsHeld, StartedInOrder, Phase
<1>8. ListensOnceStarted'
  BY <1>2, NamesOf DEF ListensOnceStarted, StartedInOrder, Phase, Runs, Core
<1>9. ClaimsAreUnix' /\ PathIsOfTheLatest'
  BY <1>2 DEF ClaimsAreUnix, PathIsOfTheLatest, Runs
<1>10. AnswersForAll'
  BY <1>2 DEF AnswersForAll, AllEnded, Ended, Phase
<1> QED
  BY <1>1, <1>3, <1>4, <1>5, <1>6, <1>7, <1>8, <1>9, <1>10

(* What is known of a listener that is about to start (builder.rs:55-60). *)
LEMMA AboutToStart ==
    ASSUME LifecycleInv, NEW s \in Servers, NEW l \in Listeners, Starts(s, l)
    PROVE  /\ l[1] = s /\ l[2] = server[s].next /\ Phase(s) = "building"
           /\ part[l] \in {"none", "cleared"} /\ port # l
           /\ server[s].next \in Nat
<1>1. l[1] = s /\ l[2] = server[s].next /\ Phase(s) = "building"
  BY DEF Starts
<1> QED
  BY <1>1, NamesOf DEF LifecycleInv, StartedInOrder, PortIsOfARunner, Runs

(* A listener that starts is the next one, and runs from then on
   (builder.rs:55-60, listen.rs:26-32). *)
LEMMA StartedMeans ==
    ASSUME LifecycleInv, NEW s \in Servers, NEW l \in Listeners, Starts(s, l), Started(s, l)
    PROVE  /\ server' \in [Servers -> [phase : Phases, next : Nat, gone : SUBSET Parts,
                                       result : PartStates]]
           /\ part' \in [Parts -> PartStates]
           /\ \A t \in Servers :
                 /\ server'[t].next = IF t = s THEN server[t].next + 1 ELSE server[t].next
                 /\ server'[t].phase = server[t].phase
                 /\ server'[t].gone = server[t].gone
                 /\ server'[t].result = server[t].result
           /\ \A p \in Parts : part'[p] = IF p = l THEN "running" ELSE part[p]
<1>1. server[s] \in [phase : Phases, next : Nat, gone : SUBSET Parts, result : PartStates]
  BY DEF LifecycleInv, Types
<1> DEFINE entry == [server[s] EXCEPT !.next = @ + 1]
<1>2. server' = [server EXCEPT ![s] = entry]
  BY DEF Started, LifecycleInv, Types
<1>3. /\ entry \in [phase : Phases, next : Nat, gone : SUBSET Parts, result : PartStates]
      /\ entry.next = server[s].next + 1
      /\ entry.phase = server[s].phase
      /\ entry.gone = server[s].gone
      /\ entry.result = server[s].result
  BY <1>1
<1>4. part' = [part EXCEPT ![l] = "running"]
  BY DEF Started
<1> HIDE DEF entry
<1> QED
  BY <1>1, <1>2, <1>3, <1>4, NamesOf DEF LifecycleInv, Types, PartStates

(* A listener that cannot start is counted all the same, and the first error is
   kept (builder.rs:60-62). *)
LEMMA NotStartedMeans ==
    ASSUME LifecycleInv, NEW s \in Servers, NEW l \in Listeners, Starts(s, l), NotStarted(s, l)
    PROVE  /\ server' \in [Servers -> [phase : Phases, next : Nat, gone : SUBSET Parts,
                                       result : PartStates]]
           /\ part' \in [Parts -> PartStates]
           /\ \A t \in Servers :
                 /\ server'[t].next = IF t = s THEN server[t].next + 1 ELSE server[t].next
                 /\ server'[t].phase = server[t].phase
                 /\ server'[t].gone = server[t].gone
                 /\ t # s => server'[t].result = server[t].result
           /\ server'[s].result # "Ok"
           /\ \A p \in Parts : part'[p] = IF p = l THEN "none" ELSE part[p]
<1>1. server[s] \in [phase : Phases, next : Nat, gone : SUBSET Parts, result : PartStates]
  BY DEF LifecycleInv, Types
<1> DEFINE counted == [server[s] EXCEPT !.next = @ + 1]
           entry == [counted EXCEPT !.result = IF @ = "Ok" THEN "IOError" ELSE @]
<1>2. server' = [server EXCEPT ![s] = entry]
  BY DEF NotStarted, LifecycleInv, Types
<1>5. /\ counted \in [phase : Phases, next : Nat, gone : SUBSET Parts, result : PartStates]
      /\ counted.next = server[s].next + 1
      /\ counted.phase = server[s].phase
      /\ counted.gone = server[s].gone
      /\ counted.result = server[s].result
  BY <1>1
<1> HIDE DEF counted
<1>3. /\ entry \in [phase : Phases, next : Nat, gone : SUBSET Parts, result : PartStates]
      /\ entry.next = server[s].next + 1
      /\ entry.phase = server[s].phase
      /\ entry.gone = server[s].gone
      /\ entry.result # "Ok"
  BY <1>5 DEF PartStates, Outcomes
<1>4. part' = [part EXCEPT ![l] = "none"]
  BY DEF NotStarted
<1> HIDE DEF entry
<1> QED
  BY <1>1, <1>2, <1>3, <1>4, NamesOf DEF LifecycleInv, Types, PartStates

(* A listener that has been tried, whether it started or not, changes nothing for
   the others (builder.rs:55-62). *)
LEMMA TriedKeeps ==
    ASSUME LifecycleInv, NEW s \in Servers, NEW l \in Listeners, Starts(s, l),
           Started(s, l) \/ (NotStarted(s, l) /\ Kind(l) # "memory"),
           UNCHANGED <<told, claims, conns>>,
           connector' = IF Kind(l) = "memory" THEN connector \cup {s} ELSE connector
    PROVE  /\ StartedInOrder' /\ ConnectionsAreHeld' /\ ToldInTheEnd'
           /\ ConnectorIsHeld' /\ ListensOnceStarted' /\ ClaimsAreUnix' /\ AnswersForAll'
<1> USE DEF LifecycleInv
<1>1. /\ l[1] = s /\ l[2] = server[s].next /\ Phase(s) = "building"
      /\ part[l] \in {"none", "cleared"} /\ server[s].next \in Nat
  BY AboutToStart
<1>2. \A t \in Servers :
         /\ server'[t].next = IF t = s THEN server[t].next + 1 ELSE server[t].next
         /\ server'[t].phase = server[t].phase
         /\ server'[t].gone = server[t].gone
         /\ t # s => server'[t].result = server[t].result
  BY StartedMeans, NotStartedMeans
<1>3. \/ /\ part'[l] = "running"
         /\ server'[s].result = server[s].result
      \/ part'[l] = "none" /\ server'[s].result # "Ok" /\ Kind(l) # "memory"
  BY StartedMeans, NotStartedMeans, NamesOf
<1>4. \A p \in Parts : p # l => part'[p] = part[p]
  BY StartedMeans, NotStartedMeans
<1>5. \A m \in Listeners :
         /\ m \in Parts /\ m[1] \in Servers /\ m[2] \in Nat
         /\ m # l /\ m[1] = s => m[2] # server[s].next
         /\ Core(m[1]) \in Parts /\ Core(m[1]) # l
  BY <1>1, NamesOf, PartsAre
<1>6. \A t \in Servers : Core(t) \in Parts /\ part'[Core(t)] = part[Core(t)]
  BY <1>4, PartsAre
<1>7. StartedInOrder'
  <2> SUFFICES ASSUME NEW m \in Listeners
               PROVE  /\ m[2] > server'[m[1]].next => part'[m] = "none"
                      /\ m[2] = server'[m[1]].next => part'[m] \in {"none", "cleared"}
                      /\ m[2] < server'[m[1]].next => part'[m] # "cleared"
                      /\ part'[m] = "cleared" => Kind(m) = "unix"
                      /\ server'[m[1]].phase \in {"unused", "none"} => server'[m[1]].next = 1
                      /\ server'[m[1]].phase \notin {"unused", "none", "building"} =>
                            m[2] < server'[m[1]].next
    BY DEF StartedInOrder, Phase, Kind
  <2>1. CASE m = l
    BY <2>1, <1>1, <1>2, <1>3 DEF Phase
  <2>2. CASE m # l
    <3>1. part'[m] = part[m]
      BY <2>2, <1>4, <1>5
    <3>2. CASE m[1] = s
      BY <2>2, <3>1, <3>2, <1>1, <1>2, <1>5 DEF StartedInOrder, Phase
    <3>3. CASE m[1] # s
      BY <3>1, <3>3, <1>2, <1>5 DEF StartedInOrder, Phase
    <3> QED
      BY <3>2, <3>3
  <2> QED
    BY <2>1, <2>2
<1>8. ConnectionsAreHeld'
  <2> SUFFICES ASSUME NEW c \in Conns, conns[c].at \in Listeners
               PROVE  /\ Runs(conns[c].at) => Runs(conns[c].at)'
                      /\ CoreListens(conns[c].at[1]) => CoreListens(conns[c].at[1])'
    BY DEF ConnectionsAreHeld, Unaccepted, Kind
  <2>1. Runs(conns[c].at) => conns[c].at # l
    BY <1>1 DEF Runs
  <2> QED
    BY <2>1, <1>2, <1>4, <1>5, <1>6 DEF Runs, CoreListens, Phase
<1>9. ToldInTheEnd'
  BY <1>2 DEF ToldInTheEnd, Phase
<1>10. ConnectorIsHeld'
  <2> SUFFICES ASSUME NEW m \in Listeners, Kind(m) = "memory",
                      server'[m[1]].phase = "building", m[2] < server'[m[1]].next
               PROVE  m[1] \in connector'
    BY DEF ConnectorIsHeld, Phase, Kind
  <2>1. CASE m = l
    BY <2>1, <1>1
  <2>2. CASE m # l
    BY <2>2, <1>1, <1>2, <1>5 DEF ConnectorIsHeld, Phase
  <2> QED
    BY <2>1, <2>2
<1>11. ListensOnceStarted'
  <2> SUFFICES ASSUME NEW m \in Listeners,
                      \/ /\ server'[m[1]].phase = "building" /\ m[2] < server'[m[1]].next
                         /\ server'[m[1]].result = "Ok"
                      \/ server'[m[1]].phase \in {"built", "joining"} /\ Runs(Core(m[1]))'
               PROVE  \/ Runs(m)'
                      \/ part'[m] = "IOError"
                      \/ Kind(m) = "memory" /\ m[1] \notin connector'
    BY DEF ListensOnceStarted, Phase, Kind, Runs, Core
  <2>1. CASE m = l
    BY <2>1, <1>1, <1>2, <1>3 DEF Runs, Phase
  <2>2. CASE m # l /\ m[1] = s
    <3>1. /\ server[s].phase = "building" /\ m[2] < server[s].next
          /\ server[s].result = "Ok"
      BY <2>2, <1>1, <1>2, <1>3, <1>5 DEF Phase
    <3>2. Runs(m) \/ part[m] = "IOError"
      BY <2>2, <3>1, <1>5 DEF ListensOnceStarted, ConnectorIsHeld, Phase
    <3> QED
      BY <2>2, <3>2, <1>4, <1>5 DEF Runs
  <2>3. CASE m[1] # s
    <3>1. part'[m] = part[m] /\ part'[Core(m[1])] = part[Core(m[1])]
      BY <2>3, <1>1, <1>4, <1>5
    <3> QED
      BY <2>3, <3>1, <1>1, <1>2, <1>5 DEF ListensOnceStarted, Runs, Phase
  <2> QED
    BY <2>1, <2>2, <2>3
<1>12. ClaimsAreUnix'
  BY DEF ClaimsAreUnix, Kind
<1>13. AnswersForAll'
  <2> SUFFICES ASSUME NEW t \in Servers, Phase(t) = "returned"
               PROVE  \A p \in PartsOf(t) : part'[p] = part[p]
    BY <1>1, <1>2 DEF AnswersForAll, AllEnded, Ended, Phase, PartsOf
  <2> QED
    BY <1>1, <1>4, PartsOfAre
<1> QED
  BY <1>7, <1>8, <1>9, <1>10, <1>11, <1>12, <1>13

(* A memory listener always starts (memory.rs:53-60). *)
LEMMA StartMemoryKeeps ==
    ASSUME LifecycleInv, NEW s \in Servers, NEW l \in Listeners, StartMemory(s, l)
    PROVE  LifecycleInv'
<1>1. /\ Starts(s, l) /\ Started(s, l) /\ Kind(l) = "memory"
      /\ connector' = connector \cup {s}
      /\ UNCHANGED <<told, path, port, claims, conns>>
  BY DEF StartMemory
<1>2. \A p \in Parts : part'[p] = IF p = l THEN "running" ELSE part[p]
  BY <1>1, StartedMeans
<1>3. Types'
  BY <1>1, StartedMeans DEF LifecycleInv, Types
<1>4. PortIsOfARunner'
  BY <1>1, <1>2, NamesOf DEF LifecycleInv, PortIsOfARunner, Runs
<1>5. PathIsOfTheLatest'
  <2>1. \A i \in DOMAIN claims : claims[i] \in Parts /\ claims[i] # l
    BY <1>1, NamesOf DEF LifecycleInv, Types, ClaimsAreUnix
  <2> QED
    BY <1>1, <1>2, <2>1 DEF LifecycleInv, PathIsOfTheLatest, Runs
<1> QED
  BY <1>1, <1>3, <1>4, <1>5, TriedKeeps DEF LifecycleInv

(* The listener that clears the path is the latest to do so (unix.rs:41-42). *)
LEMMA ClearPathKeeps ==
    ASSUME LifecycleInv, NEW s \in Servers, NEW l \in Listeners, ClearPath(s, l)
    PROVE  LifecycleInv'
<1> USE DEF LifecycleInv
<1>1. /\ Starts(s, l) /\ Kind(l) = "unix" /\ part[l] = "none"
      /\ part' = [part EXCEPT ![l] = "cleared"]
      /\ path' = Nobody
      /\ claims' = Append(claims, l)
      /\ UNCHANGED <<server, told, port, connector, conns>>
  BY DEF ClearPath
<1>2. l[1] = s /\ l[2] = server[s].next /\ Phase(s) = "building" /\ port # l
  BY <1>1, AboutToStart
<1>3. /\ \A p \in Parts : part'[p] = IF p = l THEN "cleared" ELSE part[p]
      /\ part' \in [Parts -> PartStates]
  BY <1>1, NamesOf DEF Types, PartStates
<1>4. \A m \in Listeners : m \in Parts /\ Core(m[1]) \in Parts /\ Core(m[1]) # l /\ l # Core(s)
  BY <1>2, NamesOf, PartsAre
<1>5. Types'
  BY <1>1, <1>3 DEF Types
<1>6. StartedInOrder'
  BY <1>1, <1>2, <1>3, <1>4, NamesOf DEF StartedInOrder, Phase, Kind
<1>7. PortIsOfARunner'
  BY <1>1, <1>2, <1>3, <1>4 DEF PortIsOfARunner, Runs
<1>8. ConnectionsAreHeld'
  <2>1. \A c \in Conns : conns[c].at \in Listeners =>
           /\ Runs(conns[c].at) => Runs(conns[c].at)'
           /\ CoreListens(conns[c].at[1]) => CoreListens(conns[c].at[1])'
    BY <1>1, <1>3, <1>4 DEF CoreListens, Runs, Phase, Core
  <2> QED
    BY <1>1, <2>1 DEF ConnectionsAreHeld, Kind, Unaccepted
<1>9. ToldInTheEnd' /\ ConnectorIsHeld'
  BY <1>1 DEF ToldInTheEnd, ConnectorIsHeld, Phase, Kind, PartsOf
<1>10. ListensOnceStarted'
  <2> SUFFICES ASSUME NEW m \in Listeners,
                      \/ /\ Phase(m[1]) = "building" /\ m[2] < server[m[1]].next
                         /\ server[m[1]].result = "Ok"
                      \/ Phase(m[1]) \in {"built", "joining"} /\ Runs(Core(m[1]))'
               PROVE  \/ Runs(m)'
                      \/ part'[m] = "IOError"
                      \/ Kind(m) = "memory" /\ m[1] \notin connector
    BY <1>1 DEF ListensOnceStarted, Phase, Kind, Runs, Core
  <2>1. m # l
    BY <1>2, NamesOf
  <2>2. part'[m] = part[m] /\ part'[Core(m[1])] = part[Core(m[1])]
    BY <1>3, <1>4, <2>1
  <2> QED
    BY <2>2 DEF ListensOnceStarted, Runs
<1>11. ClaimsAreUnix'
  BY <1>1 DEF ClaimsAreUnix, Types, Kind
<1>12. PathIsOfTheLatest'
  <2>1. /\ DOMAIN claims' = 1..Len(claims) + 1 /\ Len(claims) \in Nat
        /\ claims'[Len(claims) + 1] = l
    BY <1>1 DEF Types
  <2>2. part'[l] = "cleared"
    BY <1>3, NamesOf
  <2>3. \A i \in DOMAIN claims' : part'[claims'[i]] = "running" => i < Len(claims) + 1
    BY <2>1, <2>2
  <2> QED
    BY <2>1, <2>3 DEF PathIsOfTheLatest, Runs
<1>13. AnswersForAll'
  <2>1. \A t \in Servers : Phase(t) = "returned" => \A p \in PartsOf(t) : part'[p] = part[p]
    BY <1>2, <1>3, PartsOfAre
  <2> QED
    BY <1>1, <2>1 DEF AnswersForAll, AllEnded, Ended, Phase, PartsOf
<1> QED
  BY <1>5, <1>6, <1>7, <1>8, <1>9, <1>10, <1>11, <1>12, <1>13

(* A listener that cleared the path binds it only where no other one has
   (unix.rs:43-44). *)
LEMMA BindPathKeeps ==
    ASSUME LifecycleInv, NEW s \in Servers, NEW l \in Listeners, BindPath(s, l)
    PROVE  LifecycleInv'
<1>1. /\ Starts(s, l) /\ part[l] = "cleared"
      /\ \/ path = Nobody /\ path' = l /\ Started(s, l)
         \/ NotStarted(s, l) /\ UNCHANGED path
      /\ UNCHANGED <<told, port, claims, connector, conns>>
  BY DEF BindPath
<1>2. Kind(l) # "memory"
  BY <1>1, NamesOf DEF LifecycleInv, StartedInOrder
<1>3. /\ \A p \in Parts : p # l => part'[p] = part[p]
      /\ part'[l] = "running" => path = Nobody /\ path' = l
      /\ path' # path => path = Nobody /\ path' = l
  BY <1>1, StartedMeans, NotStartedMeans, NamesOf
<1>4. Types'
  BY <1>1, StartedMeans, NotStartedMeans DEF LifecycleInv, Types
<1>5. PortIsOfARunner'
  BY <1>1, <1>3, AboutToStart, NamesOf DEF LifecycleInv, PortIsOfARunner, Runs
<1>6. PathIsOfTheLatest'
  <2>1. \A i \in DOMAIN claims : claims[i] \in Parts /\ claims[i] # Nobody
    BY NamesOf DEF LifecycleInv, Types
  <2> QED
    BY <1>1, <1>3, <2>1 DEF LifecycleInv, PathIsOfTheLatest, Runs
<1> QED
  BY <1>1, <1>2, <1>4, <1>5, <1>6, TriedKeeps DEF LifecycleInv

(* TCP and TLS listeners bind the one port, only where no other has (tcp.rs:48-53,
   tls.rs:90-116). *)
LEMMA StartTcpKeeps ==
    ASSUME LifecycleInv, NEW s \in Servers, NEW l \in Listeners, StartTcp(s, l)
    PROVE  LifecycleInv'
<1>1. /\ Starts(s, l) /\ Kind(l) \in {"tcp", "tls"}
      /\ \/ port = Nobody /\ port' = l /\ Started(s, l)
         \/ NotStarted(s, l) /\ UNCHANGED port
      /\ UNCHANGED <<told, path, claims, connector, conns>>
  BY DEF StartTcp
<1>2. /\ \A p \in Parts : p # l => part'[p] = part[p]
      /\ port' # port => port' = l /\ part'[l] = "running"
  BY <1>1, StartedMeans, NotStartedMeans, NamesOf
<1>3. Types'
  BY <1>1, StartedMeans, NotStartedMeans DEF LifecycleInv, Types
<1>4. PortIsOfARunner'
  BY <1>1, <1>2, AboutToStart, NamesOf DEF LifecycleInv, PortIsOfARunner, Runs
<1>5. PathIsOfTheLatest'
  <2>1. \A i \in DOMAIN claims : claims[i] \in Parts /\ claims[i] # l
    BY <1>1, NamesOf DEF LifecycleInv, Types, ClaimsAreUnix
  <2> QED
    BY <1>1, <1>2, <2>1 DEF LifecycleInv, PathIsOfTheLatest, Runs
<1> QED
  BY <1>1, <1>3, <1>4, <1>5, TriedKeeps DEF LifecycleInv

(* A connection that is closed keeps the name of its listener, and the others
   stay as they are (listen.rs:30-43). *)
LEMMA CloseMeans ==
    ASSUME LifecycleInv, NEW L, NEW stages
    PROVE  /\ Close(L, stages) \in [Conns -> [at : Listeners \cup {Nobody}, stage : Stages]]
           /\ \A c \in Conns :
                 /\ Close(L, stages)[c].at = conns[c].at
                 /\ Close(L, stages)[c].stage =
                       IF conns[c].at \in L /\ conns[c].stage \in stages
                       THEN "closed" ELSE conns[c].stage
<1>1. \A c \in Conns : conns[c] \in [at : Listeners \cup {Nobody}, stage : Stages]
  BY DEF LifecycleInv, Types
<1>2. \A r \in [at : Listeners \cup {Nobody}, stage : Stages] :
         /\ [r EXCEPT !.stage = "closed"] \in [at : Listeners \cup {Nobody}, stage : Stages]
         /\ [r EXCEPT !.stage = "closed"].at = r.at
         /\ [r EXCEPT !.stage = "closed"].stage = "closed"
  BY DEF Stages
<1>3. Close(L, stages) = [c \in Conns |->
                             IF conns[c].at \in L /\ conns[c].stage \in stages
                             THEN [conns[c] EXCEPT !.stage = "closed"] ELSE conns[c]]
  BY DEF Close
<1> QED
  BY <1>1, <1>2, <1>3

(* The build returns its stopper when every listener has started, and otherwise
   drops what has (builder.rs:62-75). *)
LEMMA BuiltKeeps ==
    ASSUME LifecycleInv, NEW s \in Servers, Built(s)
    PROVE  LifecycleInv'
<1> USE DEF LifecycleInv
<1>1. /\ Phase(s) = "building" /\ server[s].next > Len(Serves[s])
      /\ UNCHANGED <<path, port, claims>>
  BY DEF Built
<1>2. \A l \in Listeners : /\ l[1] \in Servers /\ l[2] \in Nat /\ l \in Parts
                           /\ Core(l[1]) \in Parts /\ l # Core(s)
                           /\ l[1] = s => l[2] < server[s].next
  BY <1>1, NamesOf, ListenersAre, ServersAre, PartsAre DEF Types
<1>3. CASE server[s].result = "Ok"
  <2>1. /\ server' = [server EXCEPT ![s].phase = "built"]
        /\ part' = [part EXCEPT ![Core(s)] = "running"]
        /\ UNCHANGED <<told, connector, conns>>
    BY <1>3 DEF Built
  <2>2. \A t \in Servers :
           /\ server'[t].next = server[t].next
           /\ server'[t].gone = server[t].gone
           /\ server'[t].result = server[t].result
           /\ server'[t].phase = IF t = s THEN "built" ELSE server[t].phase
    BY <2>1 DEF Types
  <2>3. \A p \in Parts : part'[p] = IF p = Core(s) THEN "running" ELSE part[p]
    BY <2>1 DEF Types
  <2>4. Types'
    BY <1>1, <2>1 DEF Types, Phases, PartStates
  <2>5. StartedInOrder'
    BY <1>2, <2>2, <2>3 DEF StartedInOrder, Phase, Kind
  <2>6. PortIsOfARunner'
    BY <1>1, <1>2, <2>3 DEF PortIsOfARunner, Runs
  <2>7. ConnectionsAreHeld'
    <3>1. \A l \in Listeners : Runs(l) => Runs(l)'
      BY <1>2, <2>3 DEF Runs
    <3>2. \A t \in Servers : CoreListens(t) => CoreListens(t)'
      BY <1>1, <2>2, <2>3, PartsAre DEF CoreListens, Runs, Phase, Core
    <3> QED
      BY <1>2, <2>1, <3>1, <3>2 DEF ConnectionsAreHeld, Unaccepted, Kind
  <2>8. ToldInTheEnd'
    BY <1>1, <2>1, <2>2 DEF ToldInTheEnd, Phase, PartsOf
  <2>9. ConnectorIsHeld'
    BY <1>2, <2>1, <2>2 DEF ConnectorIsHeld, Phase, Kind
  <2>10. ListensOnceStarted'
    <3> SUFFICES ASSUME NEW m \in Listeners,
                        \/ /\ server'[m[1]].phase = "building" /\ m[2] < server'[m[1]].next
                           /\ server'[m[1]].result = "Ok"
                        \/ server'[m[1]].phase \in {"built", "joining"} /\ Runs(Core(m[1]))'
                 PROVE  \/ Runs(m)'
                        \/ part'[m] = "IOError"
                        \/ Kind(m) = "memory" /\ m[1] \notin connector'
      BY DEF ListensOnceStarted, Phase, Kind, Runs, Core
    <3>1. part'[m] = part[m]
      BY <1>2, <2>3
    <3>2. CASE m[1] = s
      BY <1>1, <1>2, <1>3, <2>1, <3>1, <3>2 DEF ListensOnceStarted, Phase, Runs
    <3>3. CASE m[1] # s
      <4>1. part'[Core(m[1])] = part[Core(m[1])]
        BY <1>2, <2>3, <3>3, PartsAre
      <4> QED
        BY <1>2, <2>1, <2>2, <3>1, <3>3, <4>1 DEF ListensOnceStarted, Phase, Runs
    <3> QED
      BY <3>2, <3>3
  <2>11. ClaimsAreUnix'
    BY <1>1 DEF ClaimsAreUnix, Kind
  <2>12. PathIsOfTheLatest'
    BY <1>1, <1>2, <2>3 DEF PathIsOfTheLatest, Types, Runs
  <2>13. AnswersForAll'
    <3>1. \A t \in Servers : server[t].phase = "returned" =>
             \A p \in PartsOf(t) : part'[p] = part[p]
      BY <1>1, <2>3, PartsOfAre, PartsAre DEF Phase
    <3> QED
      BY <2>2, <3>1 DEF AnswersForAll, AllEnded, Ended, Phase, PartsOf
  <2> QED
    BY <2>4, <2>5, <2>6, <2>7, <2>8, <2>9, <2>10, <2>11, <2>12, <2>13
<1>4. CASE server[s].result # "Ok"
  <2>1. /\ server' = [server EXCEPT ![s].phase = "failed"]
        /\ told' = told \cup PartsOf(s)
        /\ connector' = connector \ {s}
        /\ conns' = Close(PartsOf(s), {"queued"})
        /\ UNCHANGED part
    BY <1>4 DEF Built
  <2>2. \A t \in Servers :
           /\ server'[t].next = server[t].next
           /\ server'[t].gone = server[t].gone
           /\ server'[t].result = server[t].result
           /\ server'[t].phase = IF t = s THEN "failed" ELSE server[t].phase
    BY <2>1 DEF Types
  <2>3. /\ conns' \in [Conns -> [at : Listeners \cup {Nobody}, stage : Stages]]
        /\ \A c \in Conns :
              /\ conns'[c].at = conns[c].at
              /\ conns'[c].stage = IF conns[c].at \in PartsOf(s) /\ conns[c].stage = "queued"
                                   THEN "closed" ELSE conns[c].stage
    BY <2>1, CloseMeans
  <2>4. Types'
    BY <1>1, <2>1, <2>3 DEF Types, Phases, PartsOf
  <2>5. StartedInOrder'
    BY <1>2, <2>1, <2>2 DEF StartedInOrder, Phase, Kind
  <2>6. PortIsOfARunner'
    BY <1>1, <2>1 DEF PortIsOfARunner, Runs
  <2>7. ConnectionsAreHeld'
    <3>1. \A c \in Conns : conns'[c].stage = "queued" => conns[c].stage = "queued" /\ conns[c].at[1] # s
      BY <2>3, PartsOfAre DEF ConnectionsAreHeld
    <3>2. \A t \in Servers \ {s} : CoreListens(t) => CoreListens(t)'
      BY <2>1, <2>2 DEF CoreListens, Runs, Phase, Core
    <3>3. \A l \in Listeners : Runs(l) => Runs(l)'
      BY <2>1 DEF Runs
    <3> QED
      BY <1>2, <2>3, <3>1, <3>2, <3>3 DEF ConnectionsAreHeld, Unaccepted, Kind
  <2>8. ToldInTheEnd'
    BY <2>1, <2>2, PartsOfAre DEF ToldInTheEnd, Phase, PartsOf
  <2>9. ConnectorIsHeld'
    BY <1>2, <2>1, <2>2 DEF ConnectorIsHeld, Phase, Kind
  <2>10. ListensOnceStarted'
    BY <1>2, <2>1, <2>2 DEF ListensOnceStarted, Phase, Kind, Runs, Core
  <2>11. ClaimsAreUnix'
    BY <1>1 DEF ClaimsAreUnix, Kind
  <2>12. PathIsOfTheLatest'
    BY <1>1, <2>1 DEF PathIsOfTheLatest, Runs
  <2>13. AnswersForAll'
    BY <2>1, <2>2 DEF AnswersForAll, AllEnded, Ended, Phase, PartsOf
  <2> QED
    BY <2>4, <2>5, <2>6, <2>7, <2>8, <2>9, <2>10, <2>11, <2>12, <2>13
<1> QED
  BY <1>3, <1>4

-----------------------------------------------------------------------------
(* The steps of the listeners *)

(* A listener that ends leaves its port and closes the connections that it has not
   admitted.  One of a server that is being built or held ends with an error of
   accept, or without connectors (listen.rs:30-43). *)
LEMMA EndingKeeps ==
    ASSUME LifecycleInv, NEW l \in Listeners, NEW how \in Outcomes,
           Runs(l), End(l, how),
           UNCHANGED <<server, told, claims, connector>>,
           \/ conns' = Close({l}, Unaccepted)
           \/ UNCHANGED conns /\ \A c \in Conns : ~(conns[c].at = l /\ conns[c].stage \in Unaccepted),
           \/ how = "IOError"
           \/ l \in told
           \/ ~CoreListens(l[1])
           \/ Kind(l) = "memory" /\ l[1] \notin connector
    PROVE  LifecycleInv'
<1> USE DEF LifecycleInv
<1>1. /\ \A p \in Parts : part'[p] = IF p = l THEN how ELSE part[p]
      /\ part' \in [Parts -> PartStates]
      /\ port' = IF port = l THEN Nobody ELSE port
      /\ path' = path
      /\ UNCHANGED <<server, told, claims, connector>>
      /\ part[l] = "running"
      /\ how \notin {"none", "cleared", "running"}
  BY NamesOf DEF End, Types, PartStates, Runs, Outcomes
<1>2. \A m \in Listeners : /\ m \in Parts /\ m[1] \in Servers /\ m # Nobody
                           /\ Core(m[1]) \in Parts /\ Core(m[1]) # l
                           /\ m[2] \in Nat /\ server[m[1]].next \in Nat
  BY NamesOf, PartsAre DEF Types
<1>3. /\ conns' \in [Conns -> [at : Listeners \cup {Nobody}, stage : Stages]]
      /\ \A c \in Conns :
            /\ conns'[c].at = conns[c].at
            /\ conns'[c].stage = IF conns[c].at = l /\ conns[c].stage \in Unaccepted
                                 THEN "closed" ELSE conns[c].stage
  <2>1. CASE conns' = Close({l}, Unaccepted)
    BY <2>1, CloseMeans
  <2>2. CASE UNCHANGED conns /\ \A c \in Conns : ~(conns[c].at = l /\ conns[c].stage \in Unaccepted)
    BY <2>2 DEF Types
  <2> QED
    BY <2>1, <2>2
<1>4. Types'
  BY <1>1, <1>3 DEF Types
<1>5. StartedInOrder'
  BY <1>1, <1>2 DEF StartedInOrder, Phase, Kind
<1>6. PortIsOfARunner'
  BY <1>1, <1>2 DEF PortIsOfARunner, Runs
<1>7. ConnectionsAreHeld'
  <2>1. \A m \in Listeners : m # l => (Runs(m) => Runs(m)')
    BY <1>1, <1>2 DEF Runs
  <2>2. \A t \in Servers : CoreListens(t) => CoreListens(t)'
    BY <1>1, PartsAre DEF CoreListens, Runs, Phase, Core
  <2> QED
    BY <1>2, <1>3, <2>1, <2>2 DEF ConnectionsAreHeld, Unaccepted, Kind
<1>8. ToldInTheEnd' /\ ConnectorIsHeld'
  BY <1>1 DEF ToldInTheEnd, ConnectorIsHeld, Phase, Kind, PartsOf
<1>9. ListensOnceStarted'
  <2> SUFFICES ASSUME NEW m \in Listeners,
                      \/ /\ Phase(m[1]) = "building" /\ m[2] < server[m[1]].next
                         /\ server[m[1]].result = "Ok"
                      \/ Phase(m[1]) \in {"built", "joining"} /\ Runs(Core(m[1]))'
               PROVE  \/ Runs(m)'
                      \/ part'[m] = "IOError"
                      \/ Kind(m) = "memory" /\ m[1] \notin connector
    BY <1>1 DEF ListensOnceStarted, Phase, Kind, Runs, Core
  <2>1. part'[Core(m[1])] = part[Core(m[1])]
    BY <1>1, <1>2
  <2>2. CASE m # l
    BY <1>1, <1>2, <2>1, <2>2 DEF ListensOnceStarted, Runs
  <2>3. CASE m = l
    <3>1. CoreListens(l[1])
      BY <2>1, <2>3 DEF CoreListens, Runs
    <3>2. l \notin told
      BY <1>2, <2>3, PartsOfAre DEF ToldInTheEnd
    <3> QED
      BY <1>1, <1>2, <2>3, <3>1, <3>2
  <2> QED
    BY <2>2, <2>3
<1>10. ClaimsAreUnix'
  BY <1>1 DEF ClaimsAreUnix, Kind
<1>11. PathIsOfTheLatest'
  <2>1. \A i \in DOMAIN claims : claims[i] \in Parts
    BY <1>2 DEF Types
  <2> QED
    BY <1>1, <2>1 DEF PathIsOfTheLatest, Runs
<1>12. AnswersForAll'
  <2>1. \A t \in Servers : Phase(t) = "returned" => l \notin PartsOf(t)
    BY <1>1 DEF AnswersForAll, AllEnded, Ended
  <2>2. \A t \in Servers : Phase(t) = "returned" => \A p \in PartsOf(t) : part'[p] = part[p]
    BY <1>1, <2>1, PartsOfAre
  <2> QED
    BY <1>1, <2>2 DEF AnswersForAll, AllEnded, Ended, Phase, PartsOf
<1> QED
  BY <1>4, <1>5, <1>6, <1>7, <1>8, <1>9, <1>10, <1>11, <1>12

(* A connection moves on, and nothing else changes: the end that holds it is there
   (listen.rs:36-39, client_stub.rs:54-75). *)
LEMMA MovingKeeps ==
    ASSUME LifecycleInv, NEW c \in Conns, NEW l, NEW stage \in Stages \ {"unused", "none"},
           conns'[c].at = l, conns'[c].stage = stage, l \in Listeners,
           conns' \in [Conns -> [at : Listeners \cup {Nobody}, stage : Stages]],
           \A d \in Conns : d # c => conns'[d] = conns[d],
           UNCHANGED <<server, part, told, path, port, claims, connector>>,
           stage \in Unaccepted => Runs(l),
           stage = "handshake" => Kind(l) = "tls",
           stage = "queued" => CoreListens(l[1])
    PROVE  LifecycleInv'
<1> USE DEF LifecycleInv
<1>1. Types'
  BY DEF Types
<1>2. StartedInOrder' /\ PortIsOfARunner' /\ ToldInTheEnd' /\ ConnectorIsHeld'
  BY DEF StartedInOrder, PortIsOfARunner, ToldInTheEnd, ConnectorIsHeld, Phase, Runs, Kind, PartsOf
<1>3. ListensOnceStarted' /\ ClaimsAreUnix' /\ PathIsOfTheLatest' /\ AnswersForAll'
  BY DEF ListensOnceStarted, ClaimsAreUnix, PathIsOfTheLatest, AnswersForAll, AllEnded, Ended,
         Phase, Runs, Kind, PartsOf, Core
<1>4. ConnectionsAreHeld'
  <2>1. \A m \in Listeners : Runs(m) => Runs(m)'
    BY DEF Runs
  <2>2. \A t \in Servers : CoreListens(t) => CoreListens(t)'
    BY DEF CoreListens, Runs, Phase, Core
  <2>3. \A m \in Listeners : m[1] \in Servers
    BY NamesOf
  <2> SUFFICES ASSUME NEW d \in Conns
               PROVE  /\ conns'[d].stage \notin {"unused", "none"} => conns'[d].at \in Listeners
                      /\ conns'[d].stage \in {"unused", "none"} => conns'[d].at = Nobody
                      /\ \A m \in Listeners : m = conns'[d].at =>
                            /\ conns'[d].stage \in Unaccepted => Runs(m)'
                            /\ conns'[d].stage = "handshake" => Kind(m) = "tls"
                            /\ conns'[d].stage = "queued" => CoreListens(m[1])'
    BY DEF ConnectionsAreHeld, Unaccepted, Kind
  <2>4. CASE d = c
    BY <2>1, <2>2, <2>3, <2>4
  <2>5. CASE d # c
    BY <2>1, <2>2, <2>3, <2>5 DEF ConnectionsAreHeld, Unaccepted
  <2> QED
    BY <2>4, <2>5
<1> QED
  BY <1>1, <1>2, <1>3, <1>4

(* A listener that is told to ends, whatever waits (listen.rs:33-42). *)
LEMMA ListenerStopsKeeps ==
    ASSUME LifecycleInv, NEW l \in Listeners, ListenerStops(l)
    PROVE  LifecycleInv'
BY EndingKeeps DEF ListenerStops, Signalled, Outcomes

(* ... or when accept fails (listen.rs:36-37). *)
LEMMA AcceptFailsKeeps ==
    ASSUME LifecycleInv, NEW l \in Listeners, AcceptFails(l)
    PROVE  LifecycleInv'
BY EndingKeeps DEF AcceptFails, Outcomes

(* ... or, on memory, when nobody can connect any more (memory.rs:43-51). *)
LEMMA NoMoreConnectorsKeeps ==
    ASSUME LifecycleInv, NEW l \in Listeners, NoMoreConnectors(l)
    PROVE  LifecycleInv'
<1>1. /\ Runs(l) /\ Kind(l) = "memory" /\ l[1] \notin connector
      /\ End(l, "ChannelClosed")
      /\ UNCHANGED <<server, told, claims, connector, conns>>
  BY DEF NoMoreConnectors
<1>2. \A c \in Conns : ~(conns[c].at = l /\ conns[c].stage \in Unaccepted)
  <2> SUFFICES ASSUME NEW c \in Conns, conns[c].at = l, conns[c].stage \in Unaccepted
               PROVE  FALSE
    OBVIOUS
  <2>1. conns[c] \in [at : Listeners \cup {Nobody}, stage : Stages]
    BY DEF LifecycleInv, Types
  <2>2. conns[c].stage # "backlog"
    BY <2>1 DEF NoMoreConnectors
  <2>3. conns[c].stage # "handshake"
    BY <1>1 DEF LifecycleInv, ConnectionsAreHeld
  <2> QED
    BY <2>2, <2>3 DEF Unaccepted
<1> QED
  BY <1>1, <1>2, EndingKeeps DEF Outcomes

(* What changes when the stage of a connection does. *)
LEMMA StageMeans ==
    ASSUME LifecycleInv, NEW c \in Conns, NEW stage \in Stages,
           conns' = [conns EXCEPT ![c].stage = stage]
    PROVE  /\ conns' \in [Conns -> [at : Listeners \cup {Nobody}, stage : Stages]]
           /\ conns'[c].at = conns[c].at /\ conns'[c].stage = stage
           /\ \A d \in Conns : d # c => conns'[d] = conns[d]
BY DEF LifecycleInv, Types

(* A connection that is admitted waits for the core, which is there; with no core
   its listener ends (listen.rs:36-39). *)
LEMMA AdmitKeeps ==
    ASSUME LifecycleInv, NEW l \in Listeners, NEW c \in Conns,
           Runs(l), conns[c].at = l, Admit(l, c)
    PROVE  LifecycleInv'
<1>1. CASE CoreListens(l[1])
  <2>1. /\ conns' = [conns EXCEPT ![c].stage = "queued"]
        /\ UNCHANGED <<server, part, told, path, port, claims, connector>>
    BY <1>1 DEF Admit
  <2>2. "queued" \in Stages \ {"unused", "none"} /\ "queued" \notin Unaccepted
    BY DEF Stages, Unaccepted
  <2> QED
    BY <1>1, <2>1, <2>2, StageMeans, MovingKeeps
<1>2. CASE ~CoreListens(l[1])
  BY <1>2, EndingKeeps DEF Admit, Outcomes
<1> QED
  BY <1>1, <1>2

(* A connection is accepted at once on all transports but TLS (tcp.rs:55-61). *)
LEMMA AcceptKeeps ==
    ASSUME LifecycleInv, NEW l \in Listeners, Accept(l)
    PROVE  LifecycleInv'
BY AdmitKeeps DEF Accept

(* ... and on TLS after its handshake (tls.rs:123-127). *)
LEMMA EndHandshakeKeeps ==
    ASSUME LifecycleInv, NEW l \in Listeners, EndHandshake(l)
    PROVE  LifecycleInv'
BY AdmitKeeps DEF EndHandshake

(* Only TLS listeners let a connection wait for its handshake (tls.rs:120-127). *)
LEMMA BeginHandshakeKeeps ==
    ASSUME LifecycleInv, NEW l \in Listeners, BeginHandshake(l)
    PROVE  LifecycleInv'
<1>1. PICK c \in Conns :
         /\ conns[c] = [at |-> l, stage |-> "backlog"]
         /\ conns' = [conns EXCEPT ![c].stage = "handshake"]
  BY DEF BeginHandshake
<1>2. /\ Runs(l) /\ Kind(l) = "tls"
      /\ UNCHANGED <<server, part, told, path, port, claims, connector>>
  BY DEF BeginHandshake
<1>3. "handshake" \in Stages \ {"unused", "none"}
  BY DEF Stages
<1>4. conns[c].at = l /\ "handshake" \in Stages
  BY <1>1, <1>3
<1>5. /\ conns' \in [Conns -> [at : Listeners \cup {Nobody}, stage : Stages]]
      /\ conns'[c].at = l /\ conns'[c].stage = "handshake"
      /\ \A d \in Conns : d # c => conns'[d] = conns[d]
  BY <1>1, <1>4, StageMeans
<1> QED
  BY <1>2, <1>3, <1>5, MovingKeeps

(* A listener takes no step that breaks the invariant (listen.rs:30-43). *)
LEMMA ListenerStepKeeps ==
    ASSUME LifecycleInv, NEW l \in Listeners, ListenerStep(l)
    PROVE  LifecycleInv'
BY ListenerStopsKeeps, AcceptFailsKeeps, NoMoreConnectorsKeeps, AcceptKeeps,
   BeginHandshakeKeeps, EndHandshakeKeeps DEF ListenerStep

-----------------------------------------------------------------------------
(* The steps of the core, of its stubs and of the clients *)

(* The core takes a connection from its queue (core.rs:115-139). *)
LEMMA RegisterKeeps ==
    ASSUME LifecycleInv, NEW s \in Servers, Register(s)
    PROVE  LifecycleInv'
<1>1. PICK c \in Conns : /\ OfServer(c, s) /\ conns[c].stage = "queued"
                         /\ conns' = [conns EXCEPT ![c].stage = "registered"]
  BY DEF Register
<1>2. UNCHANGED <<server, part, told, path, port, claims, connector>>
  BY DEF Register
<1>3. PICK l \in Listeners : l = conns[c].at
  BY <1>1 DEF LifecycleInv, ConnectionsAreHeld
<1>4. "registered" \in Stages \ {"unused", "none"} /\ "registered" \notin Unaccepted
  BY DEF Stages, Unaccepted
<1> QED
  BY <1>1, <1>2, <1>3, <1>4, StageMeans, MovingKeeps

(* A stub sends, and ends, and its client leaves, without a listener or the core
   (client_stub.rs:54-75). *)
LEMMA StubKeeps ==
    ASSUME LifecycleInv, NEW c \in Conns,
           StubSends(c) \/ SendEnds(c) \/ StubEnds(c) \/ Disconnect(c)
    PROVE  LifecycleInv'
<1>1. PICK stage \in {"registered", "sending", "left", "closed"} :
         conns' = [conns EXCEPT ![c].stage = stage]
  BY DEF StubSends, SendEnds, StubEnds, Disconnect
<1>2. /\ conns[c].stage \in {"registered", "sending"}
      /\ UNCHANGED <<server, part, told, path, port, claims, connector>>
  BY DEF StubSends, SendEnds, StubEnds, Disconnect
<1>3. PICK l \in Listeners : l = conns[c].at
  BY <1>2 DEF LifecycleInv, ConnectionsAreHeld
<1>4. stage \in Stages \ {"unused", "none"} /\ stage \notin Unaccepted /\ stage # "queued"
      /\ stage # "handshake"
  BY DEF Stages, Unaccepted
<1> QED
  BY <1>1, <1>2, <1>3, <1>4, StageMeans, MovingKeeps

(* A client connects only to a listener that runs (connector.rs:12-19). *)
LEMMA ConnectKeeps ==
    ASSUME LifecycleInv, NEW c \in Conns, NEW l \in Listeners, Connect(c, l)
    PROVE  LifecycleInv'
<1>1. /\ Runs(l)
      /\ conns' = [conns EXCEPT ![c] = [at |-> l, stage |-> "backlog"]]
      /\ UNCHANGED <<server, part, told, path, port, claims, connector>>
  BY DEF Connect
<1>2. "backlog" \in Stages \ {"unused", "none"}
  BY DEF Stages
<1>3. /\ conns' \in [Conns -> [at : Listeners \cup {Nobody}, stage : Stages]]
      /\ conns'[c].at = l /\ conns'[c].stage = "backlog"
      /\ \A d \in Conns : d # c => conns'[d] = conns[d]
  BY <1>1, <1>2 DEF LifecycleInv, Types
<1> QED
  BY <1>1, <1>2, <1>3, MovingKeeps

(* A core that ends, for whatever reason, drops its queue: no connection is left in
   it (core.rs:54-86). *)
LEMMA CoreEndingKeeps ==
    ASSUME LifecycleInv, NEW s \in Servers, NEW how \in Outcomes, Runs(Core(s)),
           part' = [part EXCEPT ![Core(s)] = how], DropQueue(s),
           UNCHANGED <<server, told, path, port, claims, connector>>
    PROVE  LifecycleInv'
<1> USE DEF LifecycleInv
<1>1. /\ \A p \in Parts : part'[p] = IF p = Core(s) THEN how ELSE part[p]
      /\ part' \in [Parts -> PartStates]
      /\ part[Core(s)] = "running"
      /\ how \notin {"none", "cleared", "running"}
  BY DEF Types, PartStates, Runs, Outcomes
<1>2. \A l \in Listeners : l \in Parts /\ l # Core(s) /\ l[1] \in Servers
  BY PartsAre, NamesOf
<1>3. /\ conns' \in [Conns -> [at : Listeners \cup {Nobody}, stage : Stages]]
      /\ \A c \in Conns :
            /\ conns'[c].at = conns[c].at
            /\ conns'[c].stage = IF conns[c].at \in PartsOf(s) /\ conns[c].stage = "queued"
                                 THEN "closed" ELSE conns[c].stage
  BY CloseMeans DEF DropQueue
<1>4. Types'
  BY <1>1, <1>3 DEF Types
<1>5. \A l \in Listeners : part'[l] = part[l]
  BY <1>1, <1>2
<1>6. StartedInOrder' /\ PortIsOfARunner' /\ ToldInTheEnd' /\ ConnectorIsHeld' /\ ClaimsAreUnix'
  BY <1>5 DEF StartedInOrder, PortIsOfARunner, ToldInTheEnd, ConnectorIsHeld, ClaimsAreUnix,
              Phase, Runs, Kind, PartsOf
<1>7. ListensOnceStarted'
  <2>1. \A t \in Servers : Runs(Core(t))' => Runs(Core(t))
    BY <1>1, PartsAre DEF Runs, Core
  <2> QED
    BY <1>2, <1>5, <2>1 DEF ListensOnceStarted, Phase, Runs, Kind, Core
<1>8. ConnectionsAreHeld'
  <2>1. \A m \in Listeners : Runs(m) => Runs(m)'
    BY <1>5 DEF Runs
  <2>2. \A t \in Servers \ {s} : CoreListens(t) => CoreListens(t)'
    BY <1>1, PartsAre DEF CoreListens, Runs, Phase, Core
  <2>3. \A c \in Conns : conns'[c].stage = "queued" =>
           conns[c].stage = "queued" /\ conns[c].at[1] # s
    BY <1>3, PartsOfAre DEF ConnectionsAreHeld
  <2> QED
    BY <1>2, <1>3, <2>1, <2>2, <2>3 DEF ConnectionsAreHeld, Unaccepted, Kind
<1>9. PathIsOfTheLatest'
  BY <1>5 DEF PathIsOfTheLatest, Types, Runs
<1>10. AnswersForAll'
  <2>1. \A t \in Servers : Phase(t) = "returned" => Core(s) \notin PartsOf(t)
    BY <1>1 DEF AnswersForAll, AllEnded, Ended
  <2>2. \A t \in Servers : Phase(t) = "returned" => \A p \in PartsOf(t) : part'[p] = part[p]
    BY <1>1, <2>1, PartsOfAre
  <2> QED
    BY <2>2 DEF AnswersForAll, AllEnded, Ended, Phase, PartsOf
<1> QED
  BY <1>4, <1>6, <1>7, <1>8, <1>9, <1>10

(* The core stops when it is told to, or by itself (core.rs:68-86). *)
LEMMA CoreStopsKeeps ==
    ASSUME LifecycleInv, NEW s \in Servers, CoreStops(s) \/ CoreEnds(s)
    PROVE  LifecycleInv'
BY CoreEndingKeeps DEF CoreStops, CoreEnds, Outcomes

-----------------------------------------------------------------------------
(* The steps of the stopper *)

(* What the stopper does changes how far its server is, and tells its parts, except
   when it only joins (stopper.rs:30-79). *)
LEMMA StopperKeeps ==
    ASSUME LifecycleInv, NEW s \in Servers,
           server' \in [Servers -> [phase : Phases, next : Nat, gone : SUBSET Parts,
                                    result : PartStates]],
           \A t \in Servers : t # s => server'[t] = server[t],
           server'[s].next = server[s].next,
           Phase(s) \in {"built", "stopping", "joining"},
           \/ server'[s].phase = "joining" /\ Phase(s) = "built"
           \/ server'[s].phase \in {"stopping", "dropped", "returned"},
           told' = told \/ (told' = told \cup PartsOf(s) /\ server'[s].phase # "joining"),
           server'[s].phase = "returned" =>
               /\ AllEnded(s)
               /\ server'[s].result = "Ok" =>
                     \A p \in PartsOf(s) : part[p] = "Ok" /\ p \notin server'[s].gone,
           UNCHANGED <<part, path, port, claims, connector, conns>>
    PROVE  LifecycleInv'
<1> USE DEF LifecycleInv
<1>1. /\ server'[s].phase \notin {"unused", "none", "building", "built"}
      /\ server[s].phase \notin {"unused", "none", "building"}
      /\ server'[s].phase = "joining" => server[s].phase = "built" /\ told' = told
  BY DEF Phase
<1>2. \A l \in Listeners : l[1] \in Servers
  BY NamesOf
<1>3. Types'
  BY DEF Types, PartsOf
<1>4. StartedInOrder'
  BY <1>1, <1>2 DEF StartedInOrder, Phase, Kind
<1>5. PortIsOfARunner' /\ ClaimsAreUnix' /\ PathIsOfTheLatest'
  BY DEF PortIsOfARunner, ClaimsAreUnix, PathIsOfTheLatest, Runs, Kind
<1>6. ConnectionsAreHeld'
  <2>1. \A m \in Listeners : Runs(m) => Runs(m)'
    BY DEF Runs
  <2>2. \A t \in Servers : CoreListens(t) => CoreListens(t)'
    BY <1>1 DEF CoreListens, Runs, Phase, Core
  <2> QED
    BY <1>2, <2>1, <2>2 DEF ConnectionsAreHeld, Unaccepted, Kind
<1>7. ToldInTheEnd'
  <2> SUFFICES ASSUME NEW t \in Servers,
                      server'[t].phase \in {"unused", "none", "building", "built", "joining"},
                      NEW p \in PartsOf(t)
               PROVE  p \notin told'
    BY DEF ToldInTheEnd, Phase, PartsOf
  <2>1. CASE t = s
    BY <1>1, <2>1 DEF ToldInTheEnd, Phase
  <2>2. CASE t # s
    BY <2>2, PartsOfAre DEF ToldInTheEnd, Phase
  <2> QED
    BY <2>1, <2>2
<1>8. ConnectorIsHeld'
  BY <1>1, <1>2 DEF ConnectorIsHeld, Phase, Kind
<1>9. ListensOnceStarted'
  <2> SUFFICES ASSUME NEW m \in Listeners,
                      \/ /\ server'[m[1]].phase = "building" /\ m[2] < server'[m[1]].next
                         /\ server'[m[1]].result = "Ok"
                      \/ server'[m[1]].phase \in {"built", "joining"} /\ Runs(Core(m[1]))
               PROVE  \/ Runs(m)
                      \/ part[m] = "IOError"
                      \/ Kind(m) = "memory" /\ m[1] \notin connector
    BY DEF ListensOnceStarted, Phase, Kind, Runs, Core
  <2> QED
    BY <1>1, <1>2 DEF ListensOnceStarted, Phase
<1>10. AnswersForAll'
  <2> SUFFICES ASSUME NEW t \in Servers, server'[t].phase = "returned"
               PROVE  /\ AllEnded(t)
                      /\ server'[t].result = "Ok" =>
                            \A p \in PartsOf(t) : part[p] = "Ok" /\ p \notin server'[t].gone
    BY DEF AnswersForAll, AllEnded, Ended, Phase, PartsOf
  <2>1. CASE t # s
    BY <2>1 DEF AnswersForAll, Phase
  <2> QED
    BY <2>1
<1> QED
  BY <1>3, <1>4, <1>5, <1>6, <1>7, <1>8, <1>9, <1>10

(* stop, join, and the drop of a stopper (stopper.rs:30-79). *)
LEMMA StopKeeps ==
    ASSUME LifecycleInv, NEW s \in Servers, Stop(s) \/ Join(s) \/ Drop(s)
    PROVE  LifecycleInv'
<1> DEFINE ServerType == [phase : Phases, next : Nat, gone : SUBSET Parts, result : PartStates]
<1>1. server \in [Servers -> ServerType] /\ server[s] \in ServerType
  BY DEF LifecycleInv, Types
<1>2. CASE Stop(s)
  <2> DEFINE phased == [server[s] EXCEPT !.phase = "stopping"]
             entry == [phased EXCEPT !.gone = {p \in PartsOf(s) : Ended(p)}]
  <2>1. server' = [server EXCEPT ![s] = entry]
    BY <1>1, <1>2 DEF Stop
  <2>2. phased \in ServerType /\ phased.phase = "stopping" /\ phased.next = server[s].next
    BY <1>1 DEF Phases
  <2> HIDE DEF phased
  <2>3. entry \in ServerType /\ entry.phase = "stopping" /\ entry.next = server[s].next
    BY <2>2 DEF PartsOf
  <2> HIDE DEF entry
  <2>4. /\ server' \in [Servers -> ServerType]
        /\ \A t \in Servers : t # s => server'[t] = server[t]
        /\ server'[s].next = server[s].next /\ server'[s].phase = "stopping"
    BY <1>1, <2>1, <2>3
  <2> QED
    BY <1>2, <2>4, StopperKeeps DEF Stop
<1>3. CASE Join(s)
  <2>1. /\ server' \in [Servers -> ServerType]
        /\ \A t \in Servers : t # s => server'[t] = server[t]
        /\ server'[s].next = server[s].next /\ server'[s].phase = "joining"
    BY <1>1, <1>3 DEF Join, Phases
  <2> QED
    BY <1>3, <2>1, StopperKeeps DEF Join
<1>4. CASE Drop(s)
  <2>1. /\ server' \in [Servers -> ServerType]
        /\ \A t \in Servers : t # s => server'[t] = server[t]
        /\ server'[s].next = server[s].next /\ server'[s].phase = "dropped"
    BY <1>1, <1>4 DEF Drop, Phases
  <2> QED
    BY <1>4, <2>1, StopperKeeps DEF Drop
<1> QED
  BY <1>2, <1>3, <1>4

(* The results of the listeners in their order, and then that of the core
   (builder.rs:64-73). *)
LEMMA ResultsMean ==
    ASSUME LifecycleInv, NEW s \in Servers
    PROVE  /\ DOMAIN Results(s) = 1..Len(Serves[s]) + 1
           /\ \A i \in DOMAIN Results(s) : Results(s)[i] \in PartStates
           /\ \A p \in PartsOf(s) : \E i \in DOMAIN Results(s) : Results(s)[i] = ResultOf(p)
<1> DEFINE listeners == [i \in DOMAIN Serves[s] |-> ResultOf(<<s, i>>)]
<1>1. \A p \in PartsOf(s) : ResultOf(p) \in PartStates
  BY PartsOfAre DEF ResultOf, PartStates, Outcomes, LifecycleInv, Types
<1>2. /\ Len(Serves[s]) \in Nat /\ DOMAIN Serves[s] = 1..Len(Serves[s])
      /\ \A i \in 1..Len(Serves[s]) : <<s, i>> \in Listeners /\ <<s, i>> \in PartsOf(s)
  BY ServersAre, ListenersAre, PartsOfAre
<1>3. /\ listeners \in Seq(PartStates) /\ Len(listeners) = Len(Serves[s])
      /\ \A i \in 1..Len(Serves[s]) : listeners[i] = ResultOf(<<s, i>>)
  <2> DEFINE n == Len(Serves[s])
             f == [i \in 1..n |-> ResultOf(<<s, i>>)]
  <2>1. listeners = f
    BY <1>2
  <2>2. n \in Nat /\ \A i \in 1..n : ResultOf(<<s, i>>) \in PartStates
    BY <1>1, <1>2
  <2> HIDE DEF n, listeners
  <2>3. f \in Seq(PartStates) /\ Len(f) = n
    BY <2>2
  <2> QED
    BY <2>1, <2>3 DEF n
<1>4. Results(s) = Append(listeners, ResultOf(Core(s)))
  BY DEF Results
<1> HIDE DEF listeners
<1>5. ResultOf(Core(s)) \in PartStates
  BY <1>1, PartsOfAre
<1>6. /\ Results(s) \in Seq(PartStates)
      /\ DOMAIN Results(s) = 1..Len(Serves[s]) + 1
      /\ \A i \in 1..Len(Serves[s]) : Results(s)[i] = ResultOf(<<s, i>>)
      /\ Results(s)[Len(Serves[s]) + 1] = ResultOf(Core(s))
  BY <1>2, <1>3, <1>4, <1>5
<1>7. ASSUME NEW p \in PartsOf(s)
      PROVE  \E i \in DOMAIN Results(s) : Results(s)[i] = ResultOf(p)
  <2>1. CASE p = Core(s)
    BY <1>2, <1>6, <2>1
  <2>2. CASE p # Core(s)
    <3>1. p \in Listeners /\ p[1] = s
      BY <2>2, PartsOfAre, PartsAre
    <3>2. p = <<s, p[2]>> /\ p[2] \in 1..Len(Serves[s])
      BY <3>1, ListenersAre
    <3> QED
      BY <1>2, <1>6, <3>2
  <2> QED
    BY <2>1, <2>2
<1> QED
  BY <1>6, <1>7

(* stop or join returns when every part has ended, with the first error, or Ok if no
   part has one (stopper.rs:54-79). *)
LEMMA ReturnKeeps ==
    ASSUME LifecycleInv, NEW s \in Servers, Return(s)
    PROVE  LifecycleInv'
<1> DEFINE ServerType == [phase : Phases, next : Nat, gone : SUBSET Parts, result : PartStates]
<1>1. server \in [Servers -> ServerType] /\ server[s] \in ServerType
  BY DEF LifecycleInv, Types
<1>2. /\ Phase(s) \in {"stopping", "joining"} /\ AllEnded(s)
      /\ UNCHANGED <<part, told, path, port, claims, connector, conns>>
  BY DEF Return
<1>3. PICK answer \in PartStates :
         /\ server' = [server EXCEPT ![s].phase = "returned", ![s].result = answer]
         /\ answer = "Ok" => Errors(s) = {}
  <2>1. CASE Errors(s) = {} /\ server' = [server EXCEPT ![s].phase = "returned",
                                                        ![s].result = "Ok"]
    BY <2>1 DEF PartStates, Outcomes
  <2>2. CASE \E i \in Errors(s) :
               server' = [server EXCEPT ![s].phase = "returned", ![s].result = Results(s)[i]]
    BY <2>2, ResultsMean DEF Errors
  <2> QED
    BY <2>1, <2>2 DEF Return
<1> DEFINE phased == [server[s] EXCEPT !.phase = "returned"]
           entry == [phased EXCEPT !.result = answer]
<1>4. server' = [server EXCEPT ![s] = entry]
  BY <1>1, <1>3
<1>5. /\ phased \in ServerType /\ phased.phase = "returned"
      /\ phased.next = server[s].next /\ phased.gone = server[s].gone
  BY <1>1 DEF Phases
<1> HIDE DEF phased
<1>6. /\ entry \in ServerType /\ entry.phase = "returned" /\ entry.result = answer
      /\ entry.next = server[s].next /\ entry.gone = server[s].gone
  BY <1>5
<1> HIDE DEF entry
<1>7. /\ server' \in [Servers -> ServerType]
      /\ \A t \in Servers : t # s => server'[t] = server[t]
      /\ server'[s].phase = "returned" /\ server'[s].result = answer
      /\ server'[s].next = server[s].next /\ server'[s].gone = server[s].gone
  BY <1>1, <1>4, <1>6
<1>8. answer = "Ok" => \A p \in PartsOf(s) : part[p] = "Ok" /\ p \notin server[s].gone
  <2> SUFFICES ASSUME answer = "Ok", NEW p \in PartsOf(s)
               PROVE  part[p] = "Ok" /\ p \notin server[s].gone
    OBVIOUS
  <2>1. ResultOf(p) = "Ok"
    BY <1>3, ResultsMean DEF Errors
  <2>2. p[1] = s
    BY PartsOfAre
  <2> QED
    BY <2>1, <2>2 DEF ResultOf
<1> QED
  BY <1>2, <1>7, <1>8, StopperKeeps

(* A connector that is dropped can only let its listeners end (memory.rs:62-65). *)
LEMMA DropConnectorKeeps ==
    ASSUME LifecycleInv, NEW s \in Servers, DropConnector(s)
    PROVE  LifecycleInv'
<1> USE DEF LifecycleInv
<1>1. /\ Phase(s) # "building" /\ connector' = connector \ {s}
      /\ UNCHANGED <<server, part, told, path, port, claims, conns>>
  BY DEF DropConnector
<1>2. Types'
  BY <1>1 DEF Types
<1>3. StartedInOrder' /\ PortIsOfARunner' /\ ToldInTheEnd' /\ ClaimsAreUnix' /\ PathIsOfTheLatest'
  BY <1>1 DEF StartedInOrder, PortIsOfARunner, ToldInTheEnd, ClaimsAreUnix, PathIsOfTheLatest,
              Phase, Runs, Kind, PartsOf
<1>4. ConnectionsAreHeld' /\ AnswersForAll'
  BY <1>1 DEF ConnectionsAreHeld, AnswersForAll, AllEnded, Ended, Unaccepted, CoreListens,
              Phase, Runs, Kind, PartsOf, Core
<1>5. ConnectorIsHeld'
  BY <1>1 DEF ConnectorIsHeld, Phase, Kind
<1>6. ListensOnceStarted'
  BY <1>1 DEF ListensOnceStarted, Phase, Runs, Kind, Core
<1> QED
  BY <1>2, <1>3, <1>4, <1>5, <1>6

-----------------------------------------------------------------------------
(* The theorems *)

(* Every step keeps the invariant, and so does none. *)
LEMMA NextKeeps ==
    ASSUME LifecycleInv, [Next]_vars
    PROVE  LifecycleInv'
<1>1. CASE \E s \in Servers : Build(s) \/ BuildStep(s)
  BY <1>1, BuildKeeps, StartMemoryKeeps, ClearPathKeeps, BindPathKeeps, StartTcpKeeps, BuiltKeeps
     DEF BuildStep
<1>2. CASE \E s \in Servers : CoreStep(s) \/ CoreEnds(s) \/ DropConnector(s)
  BY <1>2, RegisterKeeps, CoreStopsKeeps, DropConnectorKeeps DEF CoreStep
<1>3. CASE \E s \in Servers : Stop(s) \/ Join(s) \/ Drop(s) \/ Return(s)
  BY <1>3, StopKeeps, ReturnKeeps
<1>4. CASE \E l \in Listeners : ListenerStep(l)
  BY <1>4, ListenerStepKeeps
<1>5. CASE \E c \in Conns :
             \/ StubSends(c) \/ SendEnds(c) \/ StubEnds(c)
             \/ Disconnect(c) \/ \E l \in Listeners : Connect(c, l)
  BY <1>5, StubKeeps, ConnectKeeps
<1>6. CASE UNCHANGED vars
  BY <1>6 DEF vars, LifecycleInv, Types, StartedInOrder, PortIsOfARunner, ConnectionsAreHeld,
              ToldInTheEnd, ConnectorIsHeld, ListensOnceStarted, ClaimsAreUnix,
              PathIsOfTheLatest, AnswersForAll, AllEnded, Ended, Unaccepted, CoreListens,
              Phase, Runs, Kind, PartsOf, Core
<1> QED
  BY <1>1, <1>2, <1>3, <1>4, <1>5, <1>6 DEF Next

(* The invariant holds in every behaviour, whatever servers are built, and whatever
   they and their clients do (builder.rs:53-75, listen.rs:26-46, stopper.rs:30-79). *)
THEOREM LifecycleInvariant == Spec => []LifecycleInv
<1>1. LifecycleInv /\ [Next]_vars => LifecycleInv'
  BY NextKeeps
<1> QED
  BY <1>1, InitLifecycle, PTL DEF Spec

(* What the invariant says of a server whose stopper has returned. *)
LEMMA InvariantOnReturn == LifecycleInv => ReturnedMeansStopped
<1> SUFFICES ASSUME LifecycleInv, NEW s \in Servers, Phase(s) = "returned"
             PROVE  /\ \A p \in PartsOf(s) : Ended(p) /\ port # p
                    /\ \A c \in Conns : OfServer(c, s) =>
                          conns[c].stage \in {"registered", "sending", "left", "closed"}
                    /\ server[s].result = "Ok" =>
                          \A p \in PartsOf(s) : part[p] = "Ok" /\ p \notin server[s].gone
  BY DEF ReturnedMeansStopped
<1> USE DEF LifecycleInv
<1>1. /\ \A p \in PartsOf(s) : ~Runs(p)
      /\ \A p \in PartsOf(s) : Ended(p)
      /\ server[s].result = "Ok" =>
            \A p \in PartsOf(s) : part[p] = "Ok" /\ p \notin server[s].gone
  BY DEF AnswersForAll, AllEnded, Ended, Runs
<1>2. \A p \in PartsOf(s) : port # p
  <2>1. \A p \in PartsOf(s) : p # Nobody
    BY PartsOfAre, ServersAre DEF Nobody
  <2> QED
    BY <1>1, <2>1 DEF PortIsOfARunner, Types
<1>3. ASSUME NEW c \in Conns, OfServer(c, s)
      PROVE  conns[c].stage \in {"registered", "sending", "left", "closed"}
  <2>1. conns[c].stage \in Stages
    BY DEF Types
  <2>2. conns[c].at \in Listeners
    BY <1>3, ServersAre DEF ConnectionsAreHeld, OfServer, Nobody
  <2>3. conns[c].at \in PartsOf(s) /\ conns[c].at # Nobody
    BY <1>3, <2>2, PartsOfAre, NamesOf DEF OfServer
  <2>4. ~CoreListens(s)
    BY <1>1, PartsOfAre DEF CoreListens
  <2> QED
    BY <1>1, <1>3, <2>1, <2>3, <2>4 DEF ConnectionsAreHeld, OfServer, Stages, Unaccepted
<1> QED
  BY <1>1, <1>2, <1>3

(* When stop or join has returned, with an error or without, no listener and no core
   of the server runs and no connection waits, and Ok is only said of parts that all ended so, after they were
   told to (stopper.rs:54-79). *)
THEOREM ReturnedServersAreStopped == Spec => []ReturnedMeansStopped
BY LifecycleInvariant, InvariantOnReturn, PTL

(* While a server is held and its core runs, its listeners listen, except after an
   error of accept or when nobody can connect (builder.rs:53-75, listen.rs:30-43). *)
THEOREM HeldServersListen == Spec => []ListensWhileServing
<1>1. LifecycleInv => ListensWhileServing
  BY DEF LifecycleInv, ListensOnceStarted, ListensWhileServing
<1> QED
  BY <1>1, LifecycleInvariant, PTL

(* The path leads to the listener that was the last to clear it, as long as that one
   runs (unix.rs:38-54). *)
THEOREM LatestClaimHasThePath == Spec => []PathIsOfTheLatest
<1>1. LifecycleInv => PathIsOfTheLatest
  BY DEF LifecycleInv
<1> QED
  BY <1>1, LifecycleInvariant, PTL

=============================================================================
