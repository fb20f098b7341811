--------------------------- MODULE ServerBusProofs ---------------------------
(* To each of its clients the bus server is the bus that module ClientCore    *)
(* assumes: for every number of clients, messages and topics.                 *)
EXTENDS ServerBus, ServerProofs, SequenceTheorems

-----------------------------------------------------------------------------
(* Ids and ranks: the clients see requests numbered in the order of their ids. *)

(* What is known of the requests that a core s has routed: their ids were
   given out, and each pending response awaits the answer to one of them. *)
Routed(s) ==
    /\ \A d \in Clients : \A m \in Requests(s, d) : m.id < s.next_msg_id
    /\ \A p \in s.pending :
          /\ p.request_id # 0
          /\ \E m \in Requests(s, p.responder) :
                m.id = p.id /\ m.payload.client = p.requester
    /\ \A p, q \in s.pending : p.id = q.id => p = q

UpTo(ids, id) == {i \in ids : i <= id}

LEMMA RequestIn ==
    ASSUME NEW s \in CoreType, NEW d \in Clients, NEW m
    PROVE  /\ m \in Requests(s, d) <=>
                 \E i \in 1..Len(s.chan[d]) : m = s.chan[d][i] /\ m.type = "Req"
           /\ m \in Requests(s, d) => m \in ServerMsg /\ m.type = "Req" /\ m.id \in Nat
<1>1. s.chan[d] \in Seq(ServerMsg) /\ DOMAIN s.chan[d] = 1..Len(s.chan[d])
  BY Channel
<1>2. m \in Requests(s, d) <=> \E i \in 1..Len(s.chan[d]) : m = s.chan[d][i] /\ m.type = "Req"
  BY <1>1 DEF Requests
<1>3. m \in Requests(s, d) => m \in ServerMsg /\ m.type = "Req"
  BY <1>1, <1>2
<1>4. m \in ServerMsg /\ m.type = "Req" => m.id \in Nat
  BY DEF ServerMsg
<1>. QED  BY <1>2, <1>3, <1>4

LEMMA RoutedIn ==
    ASSUME NEW s, NEW c, NEW id
    PROVE  id \in RoutedIds(s, c) <=>
              \E d \in Clients : \E m \in Requests(s, d) :
                 m.id = id /\ (d = c \/ m.payload.client = c)
BY DEF RoutedIds

LEMMA RoutedFinite ==
    ASSUME NEW s \in CoreType, Routed(s), NEW c
    PROVE  /\ RoutedIds(s, c) \subseteq Nat /\ IsFiniteSet(RoutedIds(s, c))
           /\ \A id \in RoutedIds(s, c) : id < s.next_msg_id
           /\ Cardinality(RoutedIds(s, c)) \in Nat
<1>1. s.next_msg_id \in Nat
  BY CoreFields
<1>2. ASSUME NEW id \in RoutedIds(s, c)  PROVE id \in Nat /\ id < s.next_msg_id
  <2>1. PICK d \in Clients : \E m \in Requests(s, d) : m.id = id
    BY <1>2, RoutedIn
  <2>2. PICK m \in Requests(s, d) : m.id = id
    BY <2>1
  <2>. QED  BY <2>2, RequestIn DEF Routed
<1>3. RoutedIds(s, c) \subseteq 0..(s.next_msg_id)
  BY <1>1, <1>2
<1>4. IsFiniteSet(RoutedIds(s, c))
  <2>1. IsFiniteSet(0..(s.next_msg_id))
    BY <1>1, FS_Interval
  <2>. QED  BY <1>3, <2>1, FS_Subset
<1>. QED  BY <1>2, <1>4, FS_CardinalityType

LEMMA RankIn ==
    ASSUME NEW s \in CoreType, Routed(s), NEW c, NEW id \in RoutedIds(s, c)
    PROVE  /\ Rank(s, c, id) = Cardinality(UpTo(RoutedIds(s, c), id))
           /\ IsFiniteSet(UpTo(RoutedIds(s, c), id))
           /\ Rank(s, c, id) \in Nat
<1>1. Rank(s, c, id) = Cardinality(UpTo(RoutedIds(s, c), id))
  BY DEF Rank, UpTo
<1>2. IsFiniteSet(UpTo(RoutedIds(s, c), id))
  BY RoutedFinite, FS_Subset DEF UpTo
<1>. QED  BY <1>1, <1>2, FS_CardinalityType

LEMMA RankInjective ==
    ASSUME NEW s \in CoreType, Routed(s), NEW c,
           NEW i \in RoutedIds(s, c), NEW j \in RoutedIds(s, c),
           Rank(s, c, i) = Rank(s, c, j)
    PROVE  i = j
<1>. DEFINE R == RoutedIds(s, c)
<1>1. R \subseteq Nat /\ i \in Nat /\ j \in Nat
  BY RoutedFinite
<1>2. ASSUME NEW k \in R, NEW l \in R, Rank(s, c, k) = Rank(s, c, l), k < l  PROVE FALSE
  <2>1. IsFiniteSet(UpTo(R, l)) /\ Cardinality(UpTo(R, k)) = Cardinality(UpTo(R, l))
    BY <1>2, RankIn
  <2>2. k \in Nat /\ l \in Nat /\ \A m \in R : m \in Nat
    BY <1>1, <1>2
  <2>3. UpTo(R, k) \subseteq UpTo(R, l)
    <3>1. ASSUME NEW m \in R, m <= k  PROVE m <= l
      BY <1>2, <2>2, <3>1
    <3>. HIDE DEF R
    <3>. QED  BY <3>1 DEF UpTo
  <2>4. UpTo(R, k) = UpTo(R, l)
    BY <2>1, <2>3, FS_Subset
  <2>5. l \in UpTo(R, l) /\ l \notin UpTo(R, k)
    BY <1>2, <2>2 DEF UpTo
  <2>. QED  BY <2>4, <2>5
<1>3. ~(i < j) /\ ~(j < i)
  BY <1>2
<1>. QED  BY <1>1, <1>3

(* c sees the ids of t as it sees those of s *)
RanksKept(s, t, c) == \A id \in RoutedIds(s, c) : Rank(t, c, id) = Rank(s, c, id)

LEMMA SameRanks ==
    ASSUME NEW s, NEW t, NEW c, RoutedIds(t, c) = RoutedIds(s, c)
    PROVE  \A id : Rank(t, c, id) = Rank(s, c, id)
BY DEF Rank

(* The rank of a new id is the next number, and the others keep theirs. *)
LEMMA NextRank ==
    ASSUME NEW s \in CoreType, NEW t \in CoreType, Routed(s), NEW c, NEW new \in Nat,
           \A id : id \in RoutedIds(t, c) <=> id \in RoutedIds(s, c) \/ id = new,
           new = s.next_msg_id
    PROVE  /\ RanksKept(s, t, c)
           /\ Rank(t, c, new) = Cardinality(RoutedIds(s, c)) + 1
           /\ Cardinality(RoutedIds(t, c)) = Cardinality(RoutedIds(s, c)) + 1
<1>. DEFINE R == RoutedIds(s, c)
<1>0. RoutedIds(t, c) = R \cup {new}
  OBVIOUS
<1>1. R \subseteq Nat /\ IsFiniteSet(R) /\ (\A id \in R : id \in Nat /\ id < new)
  BY RoutedFinite
<1>2. new \notin R
  BY <1>1
<1>3. Cardinality(R \cup {new}) = Cardinality(R) + 1
  BY <1>1, <1>2, FS_AddElement
<1>4. UpTo(R \cup {new}, new) = R \cup {new}
  BY <1>1 DEF UpTo
<1>5. Rank(t, c, new) = Cardinality(UpTo(R \cup {new}, new))
  BY <1>0 DEF Rank, UpTo
<1>6. ASSUME NEW id \in R  PROVE Rank(t, c, id) = Rank(s, c, id)
  <2>1. id \in Nat /\ id < new
    BY <1>1
  <2>2. UpTo(R \cup {new}, id) = UpTo(R, id)
    BY <2>1 DEF UpTo
  <2>3. Rank(t, c, id) = Cardinality(UpTo(R \cup {new}, id))
    BY <1>0 DEF Rank, UpTo
  <2>4. Rank(s, c, id) = Cardinality(UpTo(R, id))
    BY DEF Rank, UpTo
  <2>. QED  BY <2>2, <2>3, <2>4
<1>. QED  BY <1>0, <1>3, <1>4, <1>5, <1>6 DEF RanksKept

-----------------------------------------------------------------------------
(* The messages of a client that wait for the core: the set W of their tasks,
   which have the numbers from a + 1 to b. *)

InTurn(W, a, b) ==
    /\ a \in Nat /\ b \in Nat /\ a <= b
    /\ {task.id : task \in W} = (a + 1)..b
    /\ \A x, y \in W : x.id = y.id => x = y

(* UpOf, of the core s and the messages W of c, who has sent b *)
Ups(s, c, W, b) ==
    LET n == Cardinality({task.id : task \in W})
    IN  [k \in 1..n |-> MessageOf(s, c, CHOOSE task \in W : task.id = b - n + k)]

Nth(W, i) == CHOOSE task \in W : task.id = i

LEMMA UpIsUps ==
    ASSUME NEW c
    PROVE  /\ UpOf(c) = IF IsOpen(c) THEN Ups(core, c, Waiting(c), up[c]) ELSE <<>>
           /\ UpOf(c)' = IF IsOpen(c)' THEN Ups(core', c, Waiting(c)', up'[c]) ELSE <<>>
<1>1. UpOf(c) = IF IsOpen(c) THEN Ups(core, c, Waiting(c), up[c]) ELSE <<>>
  BY DEF UpOf, Ups, WaitingIds, Numbered
<1>2. UpOf(c)' = IF IsOpen(c)' THEN Ups(core', c, Waiting(c)', up'[c]) ELSE <<>>
  BY DEF UpOf, Ups, WaitingIds, Numbered
<1>. QED  BY <1>1, <1>2

LEMMA NthIs ==
    ASSUME NEW W, NEW a, NEW b, InTurn(W, a, b), NEW task \in W
    PROVE  task.id \in Nat /\ a + 1 <= task.id /\ task.id <= b /\ Nth(W, task.id) = task
<1>1. task.id \in (a + 1)..b
  BY DEF InTurn
<1>2. Nth(W, task.id) \in W /\ Nth(W, task.id).id = task.id
  BY DEF Nth
<1>. QED  BY <1>1, <1>2 DEF InTurn

LEMMA NthIn ==
    ASSUME NEW W, NEW a, NEW b, InTurn(W, a, b), NEW i \in (a + 1)..b
    PROVE  Nth(W, i) \in W /\ Nth(W, i).id = i
<1>1. \E task \in W : task.id = i
  BY DEF InTurn
<1>. QED  BY <1>1 DEF Nth

LEMMA UpsAre ==
    ASSUME NEW s, NEW c, NEW W, NEW a, NEW b, InTurn(W, a, b)
    PROVE  Ups(s, c, W, b) = [k \in 1..(b - a) |-> MessageOf(s, c, Nth(W, a + k))]
<1>1. a \in Nat /\ b \in Nat /\ a <= b /\ {task.id : task \in W} = (a + 1)..b
  BY DEF InTurn
<1>2. Cardinality((a + 1)..b) = b - a
  <2>1. a + 1 \in Int /\ b \in Int
    BY <1>1
  <2>2. Cardinality((a + 1)..b) = IF a + 1 > b THEN 0 ELSE b - (a + 1) + 1
    BY <2>1, FS_Interval
  <2>. QED  BY <1>1, <2>2
<1>3. Cardinality({task.id : task \in W}) = b - a
  BY <1>1, <1>2
<1>4. Ups(s, c, W, b) = [k \in 1..(b - a) |-> MessageOf(s, c, Nth(W, b - (b - a) + k))]
  <2>. DEFINE f(n) == [k \in 1..n |-> MessageOf(s, c, Nth(W, b - n + k))]
  <2>1. Ups(s, c, W, b) = f(Cardinality({task.id : task \in W}))
    BY DEF Ups, Nth
  <2>. HIDE DEF f
  <2>2. Ups(s, c, W, b) = f(b - a)
    BY <1>3, <2>1
  <2>. QED  BY <2>2 DEF f
<1>5. \A k \in 1..(b - a) : b - (b - a) + k = a + k
  BY <1>1
<1>. QED  BY <1>4, <1>5

(* c sees the messages V of the core t as it sees those of s *)
MessagesKept(s, t, c, V) == \A task \in V : MessageOf(t, c, task) = MessageOf(s, c, task)

LEMMA UpsSame ==
    ASSUME NEW s, NEW t, NEW c, NEW W, NEW a, NEW b, InTurn(W, a, b),
           MessagesKept(s, t, c, W)
    PROVE  Ups(t, c, W, b) = Ups(s, c, W, b)
<1>1. a \in Nat /\ b \in Nat
  BY DEF InTurn
<1>2. \A k \in 1..(b - a) : a + k \in (a + 1)..b
  BY <1>1
<1>3. \A k \in 1..(b - a) : Nth(W, a + k) \in W
  BY <1>2, NthIn
<1>4. \A k \in 1..(b - a) : MessageOf(t, c, Nth(W, a + k)) = MessageOf(s, c, Nth(W, a + k))
  BY <1>3 DEF MessagesKept
<1>5. Ups(t, c, W, b) = [k \in 1..(b - a) |-> MessageOf(t, c, Nth(W, a + k))]
  BY UpsAre
<1>6. Ups(s, c, W, b) = [k \in 1..(b - a) |-> MessageOf(s, c, Nth(W, a + k))]
  BY UpsAre
<1>. QED  BY <1>4, <1>5, <1>6

(* The core takes the first message. *)
LEMMA UpsFirst ==
    ASSUME NEW s, NEW c, NEW W, NEW a, NEW b, InTurn(W, a, b),
           NEW first \in W, \A task \in W : task = first \/ first.id < task.id
    PROVE  /\ first.id = a + 1 /\ a < b
           /\ Ups(s, c, W, b) # <<>> /\ Head(Ups(s, c, W, b)) = MessageOf(s, c, first)
<1>. DEFINE q == Ups(s, c, W, b)
<1>1. a \in Nat /\ b \in Nat /\ (\A task \in W : task.id \in Nat /\ a + 1 <= task.id /\ task.id <= b)
  BY NthIs DEF InTurn
<1>2. first.id = a + 1
  <2>1. a + 1 \in (a + 1)..b
    BY <1>1
  <2>2. PICK task \in W : task.id = a + 1
    BY <2>1, NthIn
  <2>. QED  BY <1>1, <2>2
<1>3. q = [k \in 1..(b - a) |-> MessageOf(s, c, Nth(W, a + k))]
  BY UpsAre
<1>4. b - a \in Nat /\ b - a >= 1 /\ 1 \in 1..(b - a) /\ a < b
  BY <1>1, <1>2
<1>5. Nth(W, a + 1) = first
  BY <1>2, NthIs
<1>. HIDE DEF q
<1>6. q # <<>> /\ Head(q) = q[1] /\ q[1] = MessageOf(s, c, Nth(W, a + 1))
  BY <1>3, <1>4
<1>. QED  BY <1>2, <1>4, <1>5, <1>6 DEF q

LEMMA TailIs ==
    ASSUME NEW n \in Nat, n >= 1, NEW q, q = [k \in 1..n |-> q[k]]
    PROVE  q # <<>> /\ Tail(q) = [k \in 1..(n - 1) |-> q[k + 1]]
<1>1. DOMAIN q = 1..n
  OBVIOUS
<1>2. q \in Seq({q[k] : k \in 1..n}) /\ Len(q) = n
  BY <1>1
<1>3. q # <<>>
  BY <1>2
<1>4. Len(Tail(q)) = Len(q) - 1 /\ Tail(q) \in Seq({q[k] : k \in 1..n})
      /\ \A k \in 1..(Len(q) - 1) : Tail(q)[k] = q[k + 1]
  BY <1>2, <1>3, HeadTailProperties
<1>5. Tail(q) = [k \in 1..Len(Tail(q)) |-> Tail(q)[k]]
  BY <1>4, LenProperties
<1>6. Len(Tail(q)) = n - 1 /\ \A k \in 1..(n - 1) : Tail(q)[k] = q[k + 1]
  BY <1>2, <1>4
<1>. QED  BY ONLY <1>3, <1>5, <1>6

LEMMA UpsTaken ==
    ASSUME NEW s, NEW t, NEW c, NEW W, NEW a, NEW b, InTurn(W, a, b),
           NEW first \in W, \A task \in W : task = first \/ first.id < task.id,
           MessagesKept(s, t, c, W)
    PROVE  /\ InTurn(W \ {first}, a + 1, b)
           /\ Ups(t, c, W \ {first}, b) = Tail(Ups(s, c, W, b))
<1>. DEFINE V == W \ {first}
            q == Ups(s, c, W, b)
            r == Ups(t, c, V, b)
<1>1. a \in Nat /\ b \in Nat /\ (\A task \in W : task.id \in Nat /\ a + 1 <= task.id /\ task.id <= b)
  BY NthIs DEF InTurn
<1>2. first.id = a + 1 /\ a < b
  BY UpsFirst
<1>3. {task.id : task \in V} = (a + 2)..b
  <2>1. ASSUME NEW task \in V  PROVE task.id \in (a + 2)..b
    <3>1. task.id # a + 1
      BY <1>2 DEF InTurn
    <3>. QED  BY <1>1, <3>1
  <2>2. ASSUME NEW i \in (a + 2)..b  PROVE \E task \in V : task.id = i
    <3>1. i \in (a + 1)..b /\ i # a + 1
      BY <1>1
    <3>2. PICK task \in W : task.id = i
      BY <3>1, NthIn
    <3>. QED  BY <1>2, <3>1, <3>2
  <2>. HIDE DEF V
  <2>. QED  BY <2>1, <2>2
<1>4. InTurn(V, a + 1, b)
  <2>1. a + 1 \in Nat /\ a + 1 <= b /\ (a + 1) + 1 = a + 2
    BY <1>1, <1>2
  <2>2. \A x, y \in V : x.id = y.id => x = y
    BY DEF InTurn
  <2>. HIDE DEF V
  <2>. QED  BY <1>1, <1>3, <2>1, <2>2 DEF InTurn
<1>5. q = [k \in 1..(b - a) |-> MessageOf(s, c, Nth(W, a + k))]
  BY UpsAre
<1>6. r = [k \in 1..(b - (a + 1)) |-> MessageOf(t, c, Nth(V, (a + 1) + k))]
  <2>. HIDE DEF V
  <2>. QED  BY <1>4, UpsAre
<1>7. ASSUME NEW k \in 1..(b - (a + 1))
      PROVE  k + 1 \in 1..(b - a) /\ r[k] = q[k + 1]
  <2>1. (a + 1) + k \in ((a + 1) + 1)..b /\ k + 1 \in 1..(b - a) /\ (a + 1) + k = a + (k + 1)
    BY <1>1
  <2>2. Nth(V, (a + 1) + k) \in V /\ Nth(V, (a + 1) + k).id = (a + 1) + k
    BY <1>4, <2>1, NthIn
  <2>3. Nth(W, (a + 1) + k) = Nth(V, (a + 1) + k)
    BY <2>2, NthIs
  <2>4. MessageOf(t, c, Nth(V, (a + 1) + k)) = MessageOf(s, c, Nth(W, a + (k + 1)))
    BY <2>1, <2>2, <2>3 DEF MessagesKept
  <2>5. r[k] = MessageOf(t, c, Nth(V, (a + 1) + k))
    <3>. HIDE DEF r
    <3>. QED  BY <1>6
  <2>6. q[k + 1] = MessageOf(s, c, Nth(W, a + (k + 1)))
    <3>. HIDE DEF q
    <3>. QED  BY <1>5, <2>1
  <2>. QED  BY <2>1, <2>4, <2>5, <2>6
<1>8. b - a \in Nat /\ b - a >= 1 /\ b - (a + 1) = (b - a) - 1 /\ b - (a + 1) \in Nat
  BY <1>1, <1>2
<1>9. r = Tail(q)
  <2>. HIDE DEF q, r
  <2>1. Tail(q) = [k \in 1..((b - a) - 1) |-> q[k + 1]]
    <3>1. DOMAIN q = 1..(b - a) /\ q = [k \in 1..(b - a) |-> q[k]]
      BY <1>5
    <3>2. DEFINE n == b - a
    <3>3. n \in Nat /\ n >= 1 /\ q = [k \in 1..n |-> q[k]]
      BY <1>8, <3>1
    <3>. HIDE DEF n
    <3>4. Tail(q) = [k \in 1..(n - 1) |-> q[k + 1]]
      BY <3>3, TailIs
    <3>. QED  BY <3>4 DEF n
  <2>2. r = [k \in 1..(b - (a + 1)) |-> r[k]]
    BY <1>6
  <2>. QED  BY <1>7, <1>8, <2>1, <2>2
<1>. QED  BY <1>4, <1>9

(* The stub adds one at the end. *)
LEMMA UpsAdded ==
    ASSUME NEW s, NEW c, NEW W, NEW a, NEW b, InTurn(W, a, b),
           NEW task, task.id = b + 1, NEW V, V = W \cup {task}
    PROVE  /\ InTurn(V, a, b + 1)
           /\ Ups(s, c, V, b + 1) # <<>>
           /\ Front(Ups(s, c, V, b + 1)) = Ups(s, c, W, b)
<1>. DEFINE q == Ups(s, c, W, b)
            r == Ups(s, c, V, b + 1)
<1>1. a \in Nat /\ b \in Nat /\ a <= b /\ (\A x \in W : x.id \in Nat /\ a + 1 <= x.id /\ x.id <= b)
  BY NthIs DEF InTurn
<1>2. {x.id : x \in V} = (a + 1)..(b + 1)
  <2>1. ASSUME NEW x \in V  PROVE x.id \in (a + 1)..(b + 1)
    BY <1>1
  <2>2. ASSUME NEW i \in (a + 1)..(b + 1)  PROVE \E x \in V : x.id = i
    <3>1. CASE i = b + 1
      BY <3>1
    <3>2. CASE i # b + 1
      <4>1. i \in (a + 1)..b
        BY <1>1, <3>2
      <4>. QED  BY <4>1, NthIn
    <3>. QED  BY <3>1, <3>2
  <2>. QED  BY <2>1, <2>2
<1>3. \A x, y \in V : x.id = y.id => x = y
  BY <1>1 DEF InTurn
<1>4. InTurn(V, a, b + 1)
  <2>. QED  BY <1>1, <1>2, <1>3 DEF InTurn
<1>5. q = [k \in 1..(b - a) |-> MessageOf(s, c, Nth(W, a + k))]
  BY UpsAre
<1>6. r = [k \in 1..((b + 1) - a) |-> MessageOf(s, c, Nth(V, a + k))]
  <2>. DEFINE e == b + 1
  <2>1. InTurn(V, a, e)
    BY <1>4
  <2>. HIDE DEF e
  <2>2. Ups(s, c, V, e) = [k \in 1..(e - a) |-> MessageOf(s, c, Nth(V, a + k))]
    BY ONLY <2>1, UpsAre
  <2>. QED  BY <2>2 DEF e
<1>7. ASSUME NEW k \in 1..(b - a)
      PROVE  k \in 1..((b + 1) - a) /\ r[k] = q[k]
  <2>1. a + k \in (a + 1)..b /\ k \in 1..((b + 1) - a)
    BY <1>1
  <2>2. Nth(W, a + k) \in W /\ Nth(W, a + k).id = a + k
    BY <2>1, NthIn
  <2>3. Nth(V, a + k) = Nth(W, a + k)
    BY <1>4, <2>2, NthIs
  <2>4. r[k] = MessageOf(s, c, Nth(V, a + k))
    <3>. HIDE DEF r
    <3>. QED  BY <1>6, <2>1
  <2>5. q[k] = MessageOf(s, c, Nth(W, a + k))
    <3>. HIDE DEF q
    <3>. QED  BY <1>5
  <2>. QED  BY <2>1, <2>3, <2>4, <2>5
<1>8. (b + 1) - a \in Nat /\ (b + 1) - a >= 1 /\ ((b + 1) - a) - 1 = b - a
  BY <1>1
<1>9. r # <<>> /\ Front(r) = q
  <2>. HIDE DEF q, r
  <2>1. DOMAIN r = 1..((b + 1) - a) /\ r # <<>>
    BY <1>6, <1>8
  <2>2. Len(r) = (b + 1) - a
    BY <1>8, <2>1
  <2>3. Front(r) = [k \in 1..(b - a) |-> r[k]]
    BY <1>8, <2>1, <2>2 DEF Front
  <2>4. q = [k \in 1..(b - a) |-> q[k]]
    BY <1>5
  <2>. QED  BY <1>7, <2>1, <2>3, <2>4
<1>. QED  BY <1>4, <1>9

-----------------------------------------------------------------------------
(* What the core keeps of c *)

Of(s, c) == {q \in s.pending : c \in {q.requester, q.responder}}

(* c is sent ms, and is kept what it had; others may have been found gone. *)
Serves(s, t, c, ms) ==
    /\ t.chan[c] = s.chan[c] \o ms
    /\ RoutedIds(t, c) = RoutedIds(s, c)
    /\ \A topic \in Topics :
          /\ <<c, topic>> \in t.subs <=> <<c, topic>> \in s.subs
          /\ \/ t.owner[topic] = s.owner[topic]
             \/ s.owner[topic] \notin {NoOwner, c} /\ t.owner[topic] = NoOwner
    /\ Of(t, c) \subseteq Of(s, c)
    /\ \A p \in Of(s, c) : p.requester = c /\ p.responder = c => p \in Of(t, c)

(* ... and none of them has. *)
Gives(s, t, c, ms) ==
    /\ Serves(s, t, c, ms)
    /\ t.owner = s.owner
    /\ Of(t, c) = Of(s, c)

LEMMA PendingRouted ==
    ASSUME NEW s \in CoreType, Routed(s), NEW c \in Clients, NEW p \in Of(s, c)
    PROVE  /\ p \in s.pending /\ p \in PendingResponse
           /\ p.id \in RoutedIds(s, c) /\ p.request_id # 0
<1>1. p \in s.pending /\ (p.requester = c \/ p.responder = c)
  BY DEF Of
<1>2. p \in PendingResponse /\ p.responder \in Clients
  BY <1>1, CoreFields DEF Pending, PendingResponse
<1>3. p.request_id # 0 /\ \E m \in Requests(s, p.responder) : m.id = p.id /\ m.payload.client = p.requester
  BY <1>1 DEF Routed
<1>4. p.id \in RoutedIds(s, c)
  BY <1>1, <1>2, <1>3, RoutedIn
<1>. QED  BY <1>1, <1>2, <1>3, <1>4

LEMMA PendingOfInjective ==
    ASSUME NEW s \in CoreType, Routed(s), NEW c \in Clients, NEW p \in Of(s, c), NEW q \in Of(s, c),
           Rank(s, c, p.id) = Rank(s, c, q.id)
    PROVE  p = q
<1>1. p.id = q.id
  BY PendingRouted, RankInjective
<1>. QED  BY <1>1, PendingRouted DEF Routed

(* the parts of KeptFor *)
SubsFor(s, c) == {<<1, topic>> : topic \in {x \in Topics : <<c, x>> \in s.subs}}
OwnersFor(s, c) ==
    [t \in Topics |-> IF s.owner[t] = NoOwner THEN NoOwner ELSE Whose(c, s.owner[t])]
PendingFor(s, c) == {PendingOf(s, c, p) : p \in Of(s, c)}
NextFor(s, c) == Cardinality(RoutedIds(s, c)) + 1

Kept(subs, owner, pending, next) ==
    [subs |-> subs, owner |-> owner, pending |-> pending, next |-> next]

LEMMA KeptIs ==
    ASSUME NEW s \in CoreType, NEW c
    PROVE  KeptFor(s, c) = Kept(SubsFor(s, c), OwnersFor(s, c), PendingFor(s, c), NextFor(s, c))
<1>1. s.subs \subseteq Ids \X Topics
  BY CoreFields DEF Subscriptions
<1>2. \A p \in s.subs : p[1] = c => p[2] \in Topics /\ <<c, p[2]>> = p
  BY <1>1
<1>3. \A x : x \in {<<1, p[2]>> : p \in {q \in s.subs : q[1] = c}} => x \in SubsFor(s, c)
  BY <1>2 DEF SubsFor
<1>4. ASSUME NEW topic \in Topics, <<c, topic>> \in s.subs
      PROVE  <<1, topic>> \in {<<1, p[2]>> : p \in {q \in s.subs : q[1] = c}}
  <2>1. <<c, topic>>[1] = c /\ <<c, topic>>[2] = topic
    OBVIOUS
  <2>. QED  BY <1>4, <2>1
<1>5. {<<1, p[2]>> : p \in {q \in s.subs : q[1] = c}} = SubsFor(s, c)
  BY <1>3, <1>4 DEF SubsFor
<1>. QED  BY <1>5 DEF KeptFor, Kept, Of, OwnersFor, PendingFor, NextFor

LEMMA KeptParts ==
    ASSUME NEW subs, NEW owner, NEW pending, NEW next
    PROVE  /\ Kept(subs, owner, pending, next).subs = subs
           /\ Kept(subs, owner, pending, next).owner = owner
           /\ Kept(subs, owner, pending, next).pending = pending
           /\ Kept(subs, owner, pending, next).next = next
BY DEF Kept

LEMMA KeptUpdates ==
    ASSUME NEW subs, NEW owner, NEW pending, NEW next, NEW b,
           b = Kept(subs, owner, pending, next), NEW v
    PROVE  /\ [b EXCEPT !.subs = v] = Kept(v, owner, pending, next)
           /\ [b EXCEPT !.owner = v] = Kept(subs, v, pending, next)
           /\ [b EXCEPT !.pending = v] = Kept(subs, owner, v, next)
           /\ [b EXCEPT !.next = v] = Kept(subs, owner, pending, v)
<1>1. [b EXCEPT !.subs = v] = Kept(v, owner, pending, next)
  BY DEF Kept
<1>2. [b EXCEPT !.owner = v] = Kept(subs, v, pending, next)
  BY DEF Kept
<1>3. [b EXCEPT !.pending = v] = Kept(subs, owner, v, next)
  BY DEF Kept
<1>4. [b EXCEPT !.next = v] = Kept(subs, owner, pending, v)
  BY DEF Kept
<1>. QED  BY <1>1, <1>2, <1>3, <1>4

LEMMA GivesKept ==
    ASSUME NEW s \in CoreType, NEW t \in CoreType, NEW c, NEW ms, Gives(s, t, c, ms)
    PROVE  KeptFor(t, c) = KeptFor(s, c)
<1>1. /\ RoutedIds(t, c) = RoutedIds(s, c) /\ t.owner = s.owner /\ Of(t, c) = Of(s, c)
      /\ \A topic \in Topics : <<c, topic>> \in t.subs <=> <<c, topic>> \in s.subs
  BY DEF Gives, Serves
<1>2. SubsFor(t, c) = SubsFor(s, c)
  BY <1>1 DEF SubsFor
<1>3. \A p : PendingOf(t, c, p) = PendingOf(s, c, p)
  BY <1>1, SameRanks DEF PendingOf
<1>4. PendingFor(t, c) = PendingFor(s, c)
  BY <1>1, <1>3 DEF PendingFor
<1>5. OwnersFor(t, c) = OwnersFor(s, c) /\ NextFor(t, c) = NextFor(s, c)
  BY <1>1 DEF OwnersFor, NextFor
<1>. QED  BY <1>2, <1>4, <1>5, KeptIs

LEMMA ViewOperators ==
    ASSUME NEW c
    PROVE  /\ View(c)!NoOwner = NoOwner /\ View(c)!NoError = NoError /\ View(c)!Me = 1
           /\ View(c)!Others = 2 /\ View(c)!NoCall = 0
           /\ \A x, y, z : View(c)!Subscribe(x, y, z) = Subscribe(x, y, z)
           /\ \A x, y, z : View(c)!Unsubscribe(x, y, z) = Unsubscribe(x, y, z)
           /\ \A x, y, z : View(c)!Claim(x, y, z) = Claim(x, y, z)
           /\ \A x, y, z : View(c)!ClaimError(x, y, z) = ClaimError(x, y, z)
           /\ \A x, y, z : View(c)!Unclaim(x, y, z) = Unclaim(x, y, z)
           /\ \A x : View(c)!UnclaimErrors(x) = UnclaimErrors(x)
           /\ \A x, y : View(c)!GetOwner(x, y) = GetOwner(x, y)
           /\ \A x, y : View(c)!GetSubscribers(x, y) = GetSubscribers(x, y)
<1>1. View(c)!NoOwner = NoOwner /\ View(c)!NoError = NoError /\ View(c)!Me = 1
      /\ View(c)!Others = 2 /\ View(c)!NoCall = 0
  BY DEF View!NoOwner, NoOwner, View!NoError, NoError, View!Me, View!Others, View!NoCall
<1>2. \A x, y, z : View(c)!Subscribe(x, y, z) = Subscribe(x, y, z)
                   /\ View(c)!Unsubscribe(x, y, z) = Unsubscribe(x, y, z)
  BY DEF View!Subscribe, Subscribe, View!Unsubscribe, Unsubscribe
<1>3. \A x, y, z : View(c)!ClaimError(x, y, z) = ClaimError(x, y, z)
  BY <1>1 DEF View!ClaimError, ClaimError
<1>4. \A x, y, z : View(c)!Claim(x, y, z) = Claim(x, y, z)
  BY <1>1, <1>3 DEF View!Claim, Claim
<1>5. \A x, y, z : View(c)!Unclaim(x, y, z) = Unclaim(x, y, z)
  BY <1>1 DEF View!Unclaim, Unclaim
<1>6. \A x : View(c)!UnclaimErrors(x) = UnclaimErrors(x)
  BY <1>1 DEF View!UnclaimErrors, UnclaimErrors
<1>7. \A x, y : View(c)!GetOwner(x, y) = GetOwner(x, y)
  BY <1>1 DEF View!GetOwner, GetOwner
<1>8. \A x, y : View(c)!GetSubscribers(x, y) = GetSubscribers(x, y)
  BY DEF View!GetSubscribers, GetSubscribers
<1>. QED  BY <1>1, <1>2, <1>3, <1>4, <1>5, <1>6, <1>7, <1>8

LEMMA LeftIs ==
    ASSUME NEW c, NEW subs, NEW owner, NEW pending, NEW next, NEW freed, NEW dropped
    PROVE  View(c)!Left(Kept(subs, owner, pending, next), freed, dropped)
             = Kept(subs, [x \in Topics |-> IF x \in freed THEN NoOwner ELSE owner[x]],
                    pending \ dropped, next)
<1>. DEFINE b == Kept(subs, owner, pending, next)
            left == [x \in Topics |-> IF x \in freed THEN NoOwner ELSE owner[x]]
            d == [b EXCEPT !.owner = left]
<1>1. b.owner = owner /\ b.pending = pending
  BY KeptParts
<1>2. d = Kept(subs, left, pending, next)
  BY DEF Kept
<1>3. left = [x \in Topics |-> IF x \in freed THEN View(c)!NoOwner ELSE b.owner[x]]
  BY <1>1, ViewOperators
<1>. HIDE DEF left
<1>4. View(c)!Left(b, freed, dropped) = [d EXCEPT !.pending = pending \ dropped]
  <2>1. View(c)!Left(b, freed, dropped)
          = [b EXCEPT !.owner = [x \in Topics |-> IF x \in freed THEN View(c)!NoOwner
                                                  ELSE b.owner[x]],
                      !.pending = b.pending \ dropped]
    BY DEF View!Left
  <2>. HIDE DEF b
  <2>. QED  BY <1>1, <1>3, <2>1
<1>. HIDE DEF d
<1>5. [d EXCEPT !.pending = pending \ dropped] = Kept(subs, left, pending \ dropped, next)
  BY <1>2 DEF Kept
<1>. QED  BY <1>4, <1>5 DEF left

(* What others have left, for the client *)
LEMMA ServesLeaves ==
    ASSUME NEW s \in CoreType, NEW t \in CoreType, Routed(s), NEW c \in Clients, NEW ms,
           Serves(s, t, c, ms)
    PROVE  KeptFor(t, c) \in View(c)!Leavings(KeptFor(s, c))
<1>. DEFINE b == KeptFor(s, c)
            freed == {topic \in Topics : s.owner[topic] # t.owner[topic]}
            dropped == {PendingOf(s, c, p) : p \in Of(s, c) \ Of(t, c)}
            left == [x \in Topics |-> IF x \in freed THEN NoOwner ELSE OwnersFor(s, c)[x]]
<1>1. /\ RoutedIds(t, c) = RoutedIds(s, c)
      /\ \A topic \in Topics :
            /\ <<c, topic>> \in t.subs <=> <<c, topic>> \in s.subs
            /\ \/ t.owner[topic] = s.owner[topic]
               \/ s.owner[topic] # NoOwner /\ s.owner[topic] # c /\ t.owner[topic] = NoOwner
      /\ Of(t, c) \subseteq Of(s, c)
      /\ \A p \in Of(s, c) : p.requester = c /\ p.responder = c => p \in Of(t, c)
  BY DEF Serves
<1>2. SubsFor(t, c) = SubsFor(s, c) /\ NextFor(t, c) = NextFor(s, c)
  BY <1>1 DEF SubsFor, NextFor
<1>3. \A p : PendingOf(t, c, p) = PendingOf(s, c, p)
  BY <1>1, SameRanks DEF PendingOf
<1>4. PendingFor(t, c) = PendingFor(s, c) \ dropped
  <2>1. \A p, q \in Of(s, c) : PendingOf(s, c, p) = PendingOf(s, c, q) => p = q
    BY PendingOfInjective DEF PendingOf
  <2>. QED  BY <1>1, <1>3, <2>1 DEF PendingFor
<1>5. dropped \subseteq {p \in PendingFor(s, c) : p.requester = 0 \/ p.responder = 2}
  <2>1. ASSUME NEW p \in Of(s, c) \ Of(t, c)
        PROVE  /\ PendingOf(s, c, p) \in PendingFor(s, c)
               /\ PendingOf(s, c, p).requester = 0 \/ PendingOf(s, c, p).responder = 2
    <3>1. p.requester # c \/ p.responder # c
      BY <1>1
    <3>2. PendingOf(s, c, p) \in PendingFor(s, c)
      BY DEF PendingFor
    <3>. QED  BY <3>1, <3>2 DEF PendingOf, Whose
  <2>. QED  BY <2>1
<1>6. freed \subseteq {x \in Topics : OwnersFor(s, c)[x] = 2}
  BY <1>1 DEF OwnersFor, Whose
<1>7. OwnersFor(t, c) = left
  <2>1. ASSUME NEW x \in Topics
        PROVE  (IF t.owner[x] = NoOwner THEN NoOwner ELSE Whose(c, t.owner[x]))
                 = IF x \in freed THEN NoOwner ELSE OwnersFor(s, c)[x]
    <3>1. x \in freed => t.owner[x] = NoOwner
      BY <1>1
    <3>2. x \notin freed => t.owner[x] = s.owner[x]
      OBVIOUS
    <3>3. OwnersFor(s, c)[x] = IF s.owner[x] = NoOwner THEN NoOwner ELSE Whose(c, s.owner[x])
      BY DEF OwnersFor
    <3>. HIDE DEF freed
    <3>. QED  BY <3>1, <3>2, <3>3
  <2>. HIDE DEF freed
  <2>. QED  BY <2>1 DEF OwnersFor
<1>8. b = Kept(SubsFor(s, c), OwnersFor(s, c), PendingFor(s, c), NextFor(s, c))
  BY KeptIs
<1>9. KeptFor(t, c) = Kept(SubsFor(s, c), left, PendingFor(s, c) \ dropped, NextFor(s, c))
  <2>. HIDE DEF left, dropped
  <2>. QED  BY <1>2, <1>4, <1>7, KeptIs
<1>. HIDE DEF b, freed, dropped
<1>10. b.owner = OwnersFor(s, c) /\ b.pending = PendingFor(s, c)
  BY <1>8, KeptParts
<1>11. KeptFor(t, c) = View(c)!Left(b, freed, dropped)
  <2>1. View(c)!Left(b, freed, dropped)
          = Kept(SubsFor(s, c),
                 [x \in Topics |-> IF x \in freed THEN NoOwner ELSE OwnersFor(s, c)[x]],
                 PendingFor(s, c) \ dropped, NextFor(s, c))
    BY <1>8, LeftIs
  <2>. QED  BY <1>9, <2>1 DEF left
<1>12. freed \in SUBSET {x \in Topics : b.owner[x] = View(c)!Others}
  BY <1>6, <1>10, ViewOperators
<1>13. dropped \in SUBSET View(c)!WithOthers(b)
  BY <1>5, <1>10, ViewOperators DEF View!WithOthers
<1>. QED  BY <1>11, <1>12, <1>13 DEF b, View!Leavings

-----------------------------------------------------------------------------
(* What deliveries are to c *)

SameTables(s, t) ==
    t.senders = s.senders /\ t.subs = s.subs /\ t.owner = s.owner /\ t.pending = s.pending

Without(s, t, d) ==
    /\ t.senders = s.senders \ {d}
    /\ t.subs = {p \in s.subs : p[1] # d}
    /\ t.owner = [x \in Topics |-> IF s.owner[x] = d THEN NoOwner ELSE s.owner[x]]
    /\ t.pending = {p \in s.pending : p.requester # d /\ p.responder # d}

LEMMA DeliverTables ==
    ASSUME NEW s \in CoreType, NEW d, NEW m \in ServerMsg
    PROVE  /\ DeliverError(s, d) \in {NoError, "DeliveryFailed", "UnknownClient"}
           /\ DeliverError(s, d) # "DeliveryFailed" => SameTables(s, Deliver(s, d, m))
           /\ DeliverError(s, d) = "DeliveryFailed" => Without(s, Deliver(s, d, m), d)
           /\ Deliver(s, d, m) \in CoreType
           /\ Deliver(s, d, m).next_msg_id = s.next_msg_id + 1
<1>. DEFINE u == TakeMsgId(s)
            t == Deliver(s, d, m)
<1>1. /\ u \in CoreType /\ u.senders = s.senders /\ u.chan = s.chan /\ u.pending = s.pending
      /\ u.subs = s.subs /\ u.owner = s.owner /\ u.next_msg_id = s.next_msg_id + 1
  BY TakeMsgIdType DEF TakeMsgId, CoreType
<1>2. t \in CoreType
  BY DeliverType
<1>3. DeliverError(s, d) \in {NoError, "DeliveryFailed", "UnknownClient"}
  BY DEF DeliverError
<1>4. NoError # "DeliveryFailed" /\ NoError # "UnknownClient"
  BY DEF NoError
<1>5. /\ DeliverError(s, d) # "DeliveryFailed" => SameTables(s, t)
      /\ DeliverError(s, d) = "DeliveryFailed" => Without(s, t, d)
      /\ t.next_msg_id = s.next_msg_id + 1
  <2>1. CASE DeliverError(s, d) = NoError
    <3>1. t = Send(u, d, m)
      BY <2>1 DEF Deliver
    <3>. HIDE DEF u, t
    <3>2. SameTables(s, t) /\ t.next_msg_id = s.next_msg_id + 1
      BY <1>1, <3>1 DEF Send, CoreType, SameTables
    <3>. QED  BY <1>4, <2>1, <3>2
  <2>2. CASE DeliverError(s, d) = "DeliveryFailed"
    <3>1. t = DeregisterClient(u, d)
      BY <1>4, <2>2 DEF Deliver
    <3>. HIDE DEF u, t
    <3>2. Without(s, t, d) /\ t.next_msg_id = s.next_msg_id + 1
      BY <1>1, <3>1, DeregisterFields DEF Without
    <3>. QED  BY <2>2, <3>2
  <2>3. CASE DeliverError(s, d) = "UnknownClient"
    <3>1. t = u
      BY <1>4, <2>3 DEF Deliver
    <3>. HIDE DEF u, t
    <3>2. SameTables(s, t) /\ t.next_msg_id = s.next_msg_id + 1
      BY <1>1, <3>1 DEF SameTables
    <3>. QED  BY <2>3, <3>2
  <2>. HIDE DEF t
  <2>. QED  BY <1>3, <2>1, <2>2, <2>3
<1>. QED  BY <1>2, <1>3, <1>5

(* what a client gets by a delivery *)
LEMMA DeliverChan ==
    ASSUME NEW s \in CoreType, NEW d, NEW m \in ServerMsg, NEW c \in Clients
    PROVE  /\ DeliverError(s, d) = NoError => d \in Clients /\ d \in s.senders
           /\ DeliverError(s, d) = "DeliveryFailed" => d \in Closed
           /\ Deliver(s, d, m).chan[c] = IF d = c /\ DeliverError(s, d) = NoError
                                         THEN Append(s.chan[c], m) ELSE s.chan[c]
<1>. DEFINE t == Deliver(s, d, m)
<1>1. Delivered(s, d, m, t)
  BY DeliverResult
<1>2. DOMAIN s.chan = Clients
  BY CoreFields DEF Channels
<1>3. NoError # "DeliveryFailed" /\ NoError # "UnknownClient"
  BY DEF NoError
<1>. HIDE DEF t
<1>4. CASE DeliverError(s, d) = NoError
  <2>1. /\ d \in Clients /\ d \in s.senders
        /\ t.chan = [s.chan EXCEPT ![d] = Append(s.chan[d], m)]
    BY <1>1, <1>3, <1>4 DEF Delivered
  <2>2. t.chan[c] = IF d = c THEN Append(s.chan[c], m) ELSE s.chan[c]
    BY ONLY <1>2, <2>1, c \in Clients
  <2>. QED  BY <1>3, <1>4, <2>1, <2>2 DEF t
<1>5. CASE DeliverError(s, d) # NoError
  <2>1. t.chan = s.chan /\ (DeliverError(s, d) = "DeliveryFailed" => d \in Closed)
    BY <1>1, <1>5 DEF Delivered
  <2>. QED  BY <1>5, <2>1 DEF t
<1>. QED  BY <1>4, <1>5

LEMMA SameRequests ==
    ASSUME NEW s \in CoreType, NEW t \in CoreType, NEW c,
           \A d \in Clients :
              \/ t.chan[d] = s.chan[d]
              \/ \E m \in ServerMsg : m.type # "Req" /\ t.chan[d] = Append(s.chan[d], m)
    PROVE  RoutedIds(t, c) = RoutedIds(s, c)
<1>1. ASSUME NEW d \in Clients  PROVE Requests(t, d) = Requests(s, d)
  <2>1. CASE t.chan[d] = s.chan[d]
    BY <2>1 DEF Requests
  <2>2. CASE \E m \in ServerMsg : m.type # "Req" /\ t.chan[d] = Append(s.chan[d], m)
    <3>1. PICK m \in ServerMsg : m.type # "Req" /\ t.chan[d] = Append(s.chan[d], m)
      BY <2>2
    <3>2. s.chan[d] \in Seq(ServerMsg)
      BY Channel
    <3>3. /\ Len(s.chan[d]) \in Nat
          /\ Len(t.chan[d]) = Len(s.chan[d]) + 1
          /\ \A i \in 1..Len(s.chan[d]) : t.chan[d][i] = s.chan[d][i]
          /\ t.chan[d][Len(s.chan[d]) + 1] = m
      BY <3>1, <3>2, AppendProperties, LenProperties
    <3>4. ASSUME NEW x, x \in Requests(t, d)  PROVE x \in Requests(s, d)
      <4>1. PICK i \in 1..Len(t.chan[d]) : x = t.chan[d][i] /\ x.type = "Req"
        BY <3>4, RequestIn
      <4>2. i \in 1..Len(s.chan[d])
        BY <3>1, <3>3, <4>1
      <4>. QED  BY <3>3, <4>1, <4>2, RequestIn
    <3>5. ASSUME NEW x, x \in Requests(s, d)  PROVE x \in Requests(t, d)
      <4>1. PICK i \in 1..Len(s.chan[d]) : x = s.chan[d][i] /\ x.type = "Req"
        BY <3>5, RequestIn
      <4>2. i \in 1..Len(t.chan[d]) /\ t.chan[d][i] = x
        BY <3>3, <4>1
      <4>. QED  BY <4>1, <4>2, RequestIn
    <3>. QED  BY <3>4, <3>5 DEF Requests
  <2>. QED  BY <1>1, <2>1, <2>2
<1>. QED  BY <1>1 DEF RoutedIds

LEMMA AppendGives ==
    ASSUME NEW s \in CoreType, NEW c \in Clients
    PROVE  /\ s.chan[c] \o <<>> = s.chan[c]
           /\ \A m \in ServerMsg : Append(s.chan[c], m) = s.chan[c] \o <<m>>
BY Channel, AppendIsConcat, ConcatEmptySeq

LEMMA SameTablesGive ==
    ASSUME NEW s, NEW t, SameTables(s, t), NEW c \in Clients, NEW ms,
           t.chan[c] = s.chan[c] \o ms, RoutedIds(t, c) = RoutedIds(s, c)
    PROVE  Gives(s, t, c, ms)
BY DEF SameTables, Gives, Serves, Of

LEMMA WithoutServes ==
    ASSUME NEW s, NEW t, NEW d, Without(s, t, d), NEW c \in Clients, c # d, c # NoOwner,
           t.chan[c] = s.chan[c] \o <<>>, RoutedIds(t, c) = RoutedIds(s, c)
    PROVE  Serves(s, t, c, <<>>)
<1>1. \A x \in Topics : t.owner[x] = IF s.owner[x] = d THEN NoOwner ELSE s.owner[x]
  BY DEF Without
<1>2. \A x \in Topics :
         /\ <<c, x>> \in t.subs <=> <<c, x>> \in s.subs
         /\ \/ t.owner[x] = s.owner[x]
            \/ s.owner[x] \notin {NoOwner, c} /\ t.owner[x] = NoOwner
  BY <1>1 DEF Without
<1>3. Of(t, c) \subseteq Of(s, c)
  BY DEF Without, Of
<1>4. \A p \in Of(s, c) : p.requester = c /\ p.responder = c => p \in Of(t, c)
  BY DEF Without, Of
<1>. QED  BY <1>2, <1>3, <1>4 DEF Serves

LEMMA DeliverServes ==
    ASSUME NEW s \in CoreType, NEW d, NEW m \in ServerMsg, NEW c \in Clients, c \notin Closed,
           m.type # "Req" \/ DeliverError(s, d) # NoError
    PROVE  /\ d # c => Serves(s, Deliver(s, d, m), c, <<>>)
           /\ d # c /\ DeliverError(s, d) # "DeliveryFailed" => Gives(s, Deliver(s, d, m), c, <<>>)
           /\ d = c /\ c \in s.senders => Gives(s, Deliver(s, d, m), c, <<m>>)
<1>. DEFINE t == Deliver(s, d, m)
<1>1. /\ DeliverError(s, d) \in {NoError, "DeliveryFailed", "UnknownClient"}
      /\ DeliverError(s, d) # "DeliveryFailed" => SameTables(s, t)
      /\ DeliverError(s, d) = "DeliveryFailed" => Without(s, t, d)
      /\ t \in CoreType
  BY DeliverTables
<1>2. \A x \in Clients : t.chan[x] = IF d = x /\ DeliverError(s, d) = NoError
                                     THEN Append(s.chan[x], m) ELSE s.chan[x]
  BY DeliverChan
<1>. HIDE DEF t
<1>3. RoutedIds(t, c) = RoutedIds(s, c)
  BY <1>1, <1>2, SameRequests
<1>4. NoOwner \notin Clients
  BY IdsType DEF NoOwner, Bus
<1>5. d # c => t.chan[c] = s.chan[c] \o <<>>
  BY <1>2, AppendGives
<1>6. d # c => Serves(s, t, c, <<>>)
  <2>1. CASE SameTables(s, t)
    BY <1>3, <1>5, <2>1, SameTablesGive DEF Gives
  <2>2. CASE Without(s, t, d)
    BY <1>3, <1>4, <1>5, <2>2, WithoutServes
  <2>. QED  BY <1>1, <2>1, <2>2
<1>7. d # c /\ DeliverError(s, d) # "DeliveryFailed" => Gives(s, t, c, <<>>)
  BY <1>1, <1>3, <1>5, SameTablesGive
<1>8. ASSUME d = c, c \in s.senders  PROVE Gives(s, t, c, <<m>>)
  <2>1. DeliverError(s, d) = NoError
    BY <1>8 DEF DeliverError
  <2>2. t.chan[c] = s.chan[c] \o <<m>>
    BY <1>2, <1>8, <2>1, AppendGives
  <2>3. SameTables(s, t)
    BY <1>1, <2>1 DEF NoError
  <2>. QED  BY <1>3, <2>2, <2>3, SameTablesGive
<1>. QED  BY <1>6, <1>7, <1>8 DEF t

LEMMA DeliverAllServes ==
    ASSUME NEW s \in CoreType, NEW D \in SUBSET Clients, NEW m \in ServerMsg, m.type # "Req",
           NEW c \in Clients
    PROVE  Gives(s, DeliverAll(s, D, m), c, IF c \in D THEN <<m>> ELSE <<>>)
<1>. DEFINE t == DeliverAll(s, D, m)
<1>1. t \in CoreType
  BY DeliverAllType
<1>2. /\ SameTables(s, t)
      /\ t.chan = [x \in Clients |-> IF x \in D THEN Append(s.chan[x], m) ELSE s.chan[x]]
  BY DEF DeliverAll, CoreType, SameTables
<1>. HIDE DEF t
<1>3. RoutedIds(t, c) = RoutedIds(s, c)
  BY <1>1, <1>2, SameRequests
<1>4. t.chan[c] = s.chan[c] \o (IF c \in D THEN <<m>> ELSE <<>>)
  BY <1>2, AppendGives
<1>. QED  BY <1>2, <1>3, <1>4, SameTablesGive DEF t

(* One delivery after another *)
LEMMA ServesThen ==
    ASSUME NEW s \in CoreType, NEW t \in CoreType, NEW u \in CoreType, NEW c \in Clients,
           NEW ms \in Seq(ServerMsg)
    PROVE  /\ Serves(s, t, c, ms) /\ Serves(t, u, c, <<>>) => Serves(s, u, c, ms)
           /\ Serves(s, t, c, <<>>) /\ Serves(t, u, c, ms) => Serves(s, u, c, ms)
           /\ Gives(s, t, c, ms) /\ Gives(t, u, c, <<>>) => Gives(s, u, c, ms)
           /\ Gives(s, t, c, <<>>) /\ Gives(t, u, c, ms) => Gives(s, u, c, ms)
<1>1. ASSUME NEW ns \in Seq(ServerMsg), NEW ns2 \in Seq(ServerMsg),
             Serves(s, t, c, ns), Serves(t, u, c, ns2), ns = <<>> \/ ns2 = <<>>
      PROVE  Serves(s, u, c, IF ns = <<>> THEN ns2 ELSE ns)
  <2>1. u.chan[c] = s.chan[c] \o (IF ns = <<>> THEN ns2 ELSE ns)
    <3>1. t.chan[c] = s.chan[c] \o ns /\ u.chan[c] = t.chan[c] \o ns2
      BY <1>1 DEF Serves
    <3>2. s.chan[c] \in Seq(ServerMsg) /\ t.chan[c] \in Seq(ServerMsg)
      BY Channel
    <3>3. s.chan[c] \o <<>> = s.chan[c] /\ t.chan[c] \o <<>> = t.chan[c]
      BY AppendGives
    <3>. QED  BY <1>1, <3>1, <3>3
  <2>2. RoutedIds(u, c) = RoutedIds(s, c)
    BY <1>1 DEF Serves
  <2>3. ASSUME NEW x \in Topics
        PROVE  /\ <<c, x>> \in u.subs <=> <<c, x>> \in s.subs
               /\ \/ u.owner[x] = s.owner[x]
                  \/ s.owner[x] \notin {NoOwner, c} /\ u.owner[x] = NoOwner
    BY <1>1 DEF Serves
  <2>4. Of(u, c) \subseteq Of(s, c)
    BY <1>1 DEF Serves
  <2>5. \A p \in Of(s, c) : p.requester = c /\ p.responder = c => p \in Of(u, c)
    BY <1>1 DEF Serves
  <2>. QED  BY <2>1, <2>2, <2>3, <2>4, <2>5 DEF Serves
<1>2. <<>> \in Seq(ServerMsg)
  OBVIOUS
<1>3. /\ Serves(s, t, c, ms) /\ Serves(t, u, c, <<>>) => Serves(s, u, c, ms)
      /\ Serves(s, t, c, <<>>) /\ Serves(t, u, c, ms) => Serves(s, u, c, ms)
  BY <1>1, <1>2
<1>. QED  BY <1>3 DEF Gives

-----------------------------------------------------------------------------
(* What the steps of the server do to the requests *)

LEMMA RequestsGrow ==
    ASSUME NEW s \in CoreType, NEW t \in CoreType, Grows(s, t), NEW d \in Clients
    PROVE  Requests(s, d) \subseteq Requests(t, d)
<1>. SUFFICES ASSUME NEW m \in Requests(s, d) PROVE m \in Requests(t, d)
  OBVIOUS
<1>1. PICK i \in 1..Len(s.chan[d]) : m = s.chan[d][i] /\ m.type = "Req"
  BY RequestIn
<1>2. i \in 1..Len(t.chan[d]) /\ t.chan[d][i] = s.chan[d][i]
  BY StillThere
<1>. QED  BY <1>1, <1>2, RequestIn

LEMMA NoRequestTold ==
    ASSUME NEW s \in CoreType, NEW t \in CoreType, NEW M, Tells(s, t, M),
           \A x \in M : x[2].type # "Req"
    PROVE  \A d \in Clients : Requests(t, d) = Requests(s, d)
<1>. SUFFICES ASSUME NEW d \in Clients PROVE Requests(t, d) = Requests(s, d)
  OBVIOUS
<1>1. Requests(s, d) \subseteq Requests(t, d)
  BY RequestsGrow DEF Tells
<1>2. ASSUME NEW m \in Requests(t, d)  PROVE m \in Requests(s, d)
  <2>1. PICK i \in 1..Len(t.chan[d]) : m = t.chan[d][i] /\ m.type = "Req"
    BY RequestIn
  <2>2. ~(Len(s.chan[d]) < i)
    <3>. SUFFICES ASSUME Len(s.chan[d]) < i PROVE FALSE
      OBVIOUS
    <3>. DEFINE x == <<d, t.chan[d][i]>>
    <3>1. x \in M /\ x[2] = t.chan[d][i]
      BY <2>1 DEF Tells
    <3>. HIDE DEF x
    <3>. QED  BY <2>1, <3>1
  <2>3. i \in 1..Len(s.chan[d]) /\ t.chan[d][i] = s.chan[d][i]
    <3>1. s.chan[d] \in Seq(ServerMsg)
      BY Channel
    <3>2. i \in 1..Len(s.chan[d])
      BY <2>1, <2>2, <3>1
    <3>. QED  BY <3>2 DEF Tells, Grows
  <2>. QED  BY <2>1, <2>3, RequestIn
<1>. QED  BY <1>1, <1>2

LEMMA SameRouted ==
    ASSUME NEW s, NEW t, \A d \in Clients : Requests(t, d) = Requests(s, d), NEW c
    PROVE  RoutedIds(t, c) = RoutedIds(s, c)
BY DEF RoutedIds

LEMMA RoutedKept ==
    ASSUME NEW s \in CoreType, NEW t \in CoreType, Routed(s),
           \A d \in Clients : Requests(t, d) = Requests(s, d),
           t.pending \subseteq s.pending, s.next_msg_id <= t.next_msg_id
    PROVE  Routed(t)
<1>1. s.next_msg_id \in Nat /\ t.next_msg_id \in Nat
  BY CoreFields
<1>2. ASSUME NEW d \in Clients, NEW m \in Requests(t, d)  PROVE m.id < t.next_msg_id
  <2>1. m \in Requests(s, d)
    BY <1>2
  <2>2. m.id \in Nat /\ m.id < s.next_msg_id
    BY <2>1, RequestIn DEF Routed
  <2>. QED  BY <1>1, <2>2
<1>3. ASSUME NEW p \in t.pending
      PROVE  /\ p.request_id # 0
             /\ \E m \in Requests(t, p.responder) : m.id = p.id /\ m.payload.client = p.requester
  <2>1. p \in s.pending /\ p.responder \in Clients
    BY <1>3, PendingClients
  <2>. QED  BY <2>1 DEF Routed
<1>4. \A p, q \in t.pending : p.id = q.id => p = q
  BY DEF Routed
<1>. QED  BY <1>2, <1>3, <1>4 DEF Routed

(* Only OnReq routes a request. *)
LEMMA NothingRouted ==
    ASSUME TypeOK, CoreStep, ~OnReq
    PROVE  /\ \A d \in Clients : Requests(core', d) = Requests(core, d)
           /\ core'.pending \subseteq core.pending
           /\ core.next_msg_id <= core'.next_msg_id
<1>1. core \in CoreType /\ core' \in CoreType /\ tasks \in Seq(Task)
  BY CoreStepCore DEF TypeOK
<1>2. core.next_msg_id \in Nat
  BY <1>1, CoreFields
<1>3. \A x \in PlainAcks : x[2].type # "Req"
  BY DEF PlainAcks, AckMsg
<1>4. \A D : \A x \in Published(D) : x[2].type # "Req"
  BY DEF Published, Publication, PubMsg
<1>5. \A id, e, n : \A x \in {<<Sender, AckMsg(id, e, n)>>} : x[2].type # "Req"
  BY DEF AckMsg
<1>6. \A p, st, payload : \A x \in {Response(p, st, payload)} : x[2].type # "Req"
  BY DEF Response, RspMsg
<1>7. CASE OnRegister
  <2>1. core'.pending = core.pending /\ core'.chan = core.chan
        /\ core'.next_msg_id = core.next_msg_id
    BY <1>1, <1>7 DEF OnRegister, CoreType
  <2>. QED  BY <1>2, <2>1 DEF Requests
<1>8. CASE OnDeregister
  <2>. DEFINE c == Head(tasks).client
              d == DeregisterClient(core, c)
  <2>1. d.pending = {p \in core.pending : p.requester # c /\ p.responder # c}
        /\ d.next_msg_id = core.next_msg_id
    BY <1>1, DeregisterFields
  <2>2. d.chan = core.chan
    BY <1>1 DEF DeregisterClient, CoreType
  <2>3. core' = d
    BY <1>8 DEF OnDeregister
  <2>. HIDE DEF c, d
  <2>. QED  BY <1>2, <2>1, <2>2, <2>3 DEF Requests
<1>9. CASE OnSub \/ OnUnsub \/ OnSrv \/ OnUnsrv \/ OnStop \/ OnKeepAlive
  <2>1. Tells(core, core', PlainAcks)
    BY <1>9, RoutingTells
  <2>2. core'.pending \subseteq core.pending /\ core.next_msg_id <= core'.next_msg_id
    BY <1>9, RoutingChanges DEF Changes
  <2>. QED  BY <1>1, <1>3, <2>1, <2>2, NoRequestTold
<1>10. CASE OnReqNotServed \/ OnRspInvalid
  <2>1. Tells(core, core', PlainAcks)
    BY <1>10, RoutingTells
  <2>2. PICK e \in Errors : core' = Ack(core, e, NoCount)
    BY <1>10, ErrorTypes DEF OnReqNotServed, OnRspInvalid
  <2>3. Take("Message")
    BY <1>10 DEF OnReqNotServed, OnRspInvalid, TakeMessage
  <2>4. core'.pending \subseteq core.pending /\ core.next_msg_id <= core'.next_msg_id
    BY <1>1, <2>2, <2>3, AckKeeps DEF Keeps
  <2>. QED  BY <1>1, <1>3, <2>1, <2>4, NoRequestTold
<1>11. CASE OnReqFails
  <2>. DEFINE d == Deliver(core, Server, Request)
  <2>1. Take("Message") /\ Content.type = "Req" /\ DeliverError(core, Server) # NoError
    BY <1>11 DEF OnReqFails, TakeMessage
  <2>2. Request \in ServerMsg
    BY <1>1, <1>2, <2>1, HeadMessage, ContentTopic, MessageTypes DEF Request
  <2>3. d \in CoreType /\ Keeps(core, d)
    BY <1>1, <2>2, DeliverType, DeliverKeeps
  <2>4. d.chan = core.chan
    BY <1>1, <2>1, <2>2, DeliverResult DEF Delivered
  <2>5. core' = Ack(d, DeliverError(core, Server), NoCount)
    BY <1>11 DEF OnReqFails
  <2>. HIDE DEF d
  <2>6. Tells(core, d, {})
    <3>1. Delivered(core, Server, Request, d)
      BY <1>1, <2>2, DeliverResult DEF d
    <3>2. d.senders \subseteq core.senders
      BY <3>1 DEF Delivered
    <3>. QED  BY <1>1, <2>4, <3>2, TellsNothing
  <2>7. Tells(core, core', {} \cup PlainAcks) /\ Keeps(d, core')
    BY <1>1, <2>1, <2>3, <2>5, <2>6, ErrorTypes, PlainAckTells, AckKeeps
  <2>8. core'.pending \subseteq core.pending /\ core.next_msg_id <= core'.next_msg_id
    <3>1. Keeps(core, core')
      BY <1>1, <2>3, <2>7, KeepsTransitive
    <3>. QED  BY <3>1 DEF Keeps
  <2>. QED  BY <1>1, <1>3, <2>7, <2>8, NoRequestTold
<1>12. CASE OnPub
  <2>. DEFINE s == DeliverAll(core, Recipients, Publication)
              n == Cardinality(Recipients)
  <2>1. /\ s \in CoreType /\ Tells(core, s, Published(Recipients))
        /\ Tells(s, core', {<<Sender, AckMsg(Head(tasks).id, NoError, n)>>})
    BY <1>12, PubTells
  <2>. HIDE DEF s, n
  <2>2. \A d \in Clients : Requests(s, d) = Requests(core, d)
    BY <1>1, <1>4, <2>1, NoRequestTold
  <2>3. \A d \in Clients : Requests(core', d) = Requests(s, d)
    BY <1>1, <1>5, <2>1, NoRequestTold
  <2>4. core'.pending \subseteq core.pending /\ core.next_msg_id <= core'.next_msg_id
    BY <1>12, PublishChanges DEF Changes
  <2>. QED  BY <2>2, <2>3, <2>4
<1>13. CASE OnPubFails
  <2>1. PICK f \in (Recipients \cap Clients) \ Reachable, done \in SUBSET Reachable :
           LET s == DeliverAll(core, done, Publication)
               d == Deliver(s, f, Publication)
           IN  /\ s \in CoreType /\ Tells(core, s, Published(done))
               /\ d \in CoreType /\ d.chan = s.chan /\ d.senders \subseteq s.senders
               /\ Tells(d, core', {<<Sender, AckMsg(Head(tasks).id, DeliverError(core, f),
                                                    NoCount)>>})
    BY <1>13, PubFailsTells
  <2>. DEFINE s == DeliverAll(core, done, Publication)
              d == Deliver(s, f, Publication)
              e == DeliverError(core, f)
  <2>2. /\ s \in CoreType /\ Tells(core, s, Published(done))
        /\ d \in CoreType /\ d.chan = s.chan
        /\ Tells(d, core', {<<Sender, AckMsg(Head(tasks).id, e, NoCount)>>})
    BY <2>1
  <2>. HIDE DEF d, s, e
  <2>3. \A x \in Clients : Requests(s, x) = Requests(core, x)
    BY <1>1, <1>4, <2>2, NoRequestTold
  <2>4. \A x \in Clients : Requests(d, x) = Requests(s, x)
    BY <2>2 DEF Requests
  <2>5. \A x \in Clients : Requests(core', x) = Requests(d, x)
    BY <1>1, <1>5, <2>2, NoRequestTold
  <2>6. core'.pending \subseteq core.pending /\ core.next_msg_id <= core'.next_msg_id
    BY <1>13, PublishChanges DEF Changes
  <2>. QED  BY <2>3, <2>4, <2>5, <2>6
<1>14. CASE OnPubKill
  <2>1. PICK done \in SUBSET Clients : Tells(core, core', Published(done))
    BY <1>14, PubKillTells
  <2>2. core'.pending \subseteq core.pending /\ core.next_msg_id <= core'.next_msg_id
    BY <1>14, PublishChanges DEF Changes
  <2>. QED  BY <1>1, <1>4, <2>1, <2>2, NoRequestTold
<1>15. CASE OnRsp
  <2>1. PICK p \in core.pending :
           Tells(core, core', {Response(p, "Ok", Payload)} \cup PlainAcks)
    BY <1>15, AnswerTells
  <2>2. core'.pending \subseteq core.pending /\ core.next_msg_id <= core'.next_msg_id
    BY <1>15, AnswerChanges DEF Changes
  <2>. QED  BY <1>1, <1>3, <1>6, <2>1, <2>2, NoRequestTold
<1>16. CASE OnTimeout
  <2>1. PICK p \in core.pending : Tells(core, core', {Response(p, "Timeout", NoPayload)})
    BY <1>16, TimeoutTells
  <2>2. core'.pending \subseteq core.pending /\ core.next_msg_id <= core'.next_msg_id
    BY <1>16, TimeoutKeeps DEF Keeps
  <2>. QED  BY <1>1, <1>6, <2>1, <2>2, NoRequestTold
<1>17. CASE OnTimeoutNotPending
  BY <1>2, <1>17 DEF OnTimeoutNotPending
<1>. QED
  BY <1>7, <1>8, <1>9, <1>10, <1>11, <1>12, <1>13, <1>14, <1>15, <1>16, <1>17 DEF CoreStep

(* ... and what OnReq does, before its ack *)
RequestMade(s) ==
    /\ core' = Ack(s, NoError, NoCount)
    /\ s.senders = core.senders /\ s.subs = core.subs /\ s.owner = core.owner
    /\ s.pending = core.pending \cup {Awaited}
    /\ s.next_msg_id = core.next_msg_id + 1
    /\ \A c \in Clients : s.chan[c] = IF c = Server THEN Append(core.chan[c], Request)
                                      ELSE core.chan[c]
    /\ Server \in Clients /\ Server \in core.senders
    /\ Awaited \in PendingResponse /\ Request \in ServerMsg

LEMMA RequestState ==
    ASSUME TypeOK, OnReq
    PROVE  \E s \in CoreType : RequestMade(s)
<1>1. core \in CoreType /\ Take("Message") /\ Content.type = "Req"
  BY DEF TypeOK, OnReq, TakeMessage
<1>2. Sender \in Clients /\ Payload \in Payloads /\ Content.topic \in Topics
        /\ Head(tasks).id \in Nat
  BY <1>1, HeadMessage, ContentTopic DEF TypeOK
<1>3. Request \in ServerMsg
  BY <1>1, <1>2, CoreFields, MessageTypes DEF Request
<1>. DEFINE d == Deliver(core, Server, Request)
            s == [d EXCEPT !.pending = @ \cup {Awaited}]
<1>4. DeliverError(core, Server) = NoError /\ core' = Ack(s, NoError, NoCount)
  BY DEF OnReq
<1>5. NoError # "DeliveryFailed"
  BY DEF NoError
<1>6. d \in CoreType /\ SameTables(core, d) /\ d.next_msg_id = core.next_msg_id + 1
  BY <1>1, <1>3, <1>4, <1>5, DeliverTables
<1>7. ASSUME NEW c \in Clients
      PROVE  /\ d.chan[c] = IF c = Server THEN Append(core.chan[c], Request) ELSE core.chan[c]
             /\ Server \in Clients /\ Server \in core.senders
  BY <1>1, <1>3, <1>4, DeliverChan
<1>8. Server \in Clients /\ Server \in core.senders
  BY <1>2, <1>7
<1>. HIDE DEF d
<1>9. Awaited \in PendingResponse
  BY <1>1, <1>2, <1>8, CoreFields DEF Awaited, PendingResponse
<1>10. s \in CoreType
  BY <1>6, <1>9, CoreFields, CoreUpdates DEF Pending
<1>11. /\ s.chan = d.chan /\ s.senders = d.senders /\ s.pending = d.pending \cup {Awaited}
       /\ s.subs = d.subs /\ s.owner = d.owner /\ s.next_msg_id = d.next_msg_id
  BY <1>6 DEF CoreType
<1>. HIDE DEF s
<1>12. RequestMade(s)
  BY <1>3, <1>4, <1>6, <1>7, <1>8, <1>9, <1>11 DEF SameTables, RequestMade
<1>. QED  BY <1>10, <1>12

-----------------------------------------------------------------------------
(* The inductive invariant.  What is queued of a client are the last messages
   that its stub has numbered; a queued answer is one to a request that the
   client was given; and nothing is sent before a connection is registered. *)

WaitingOf(q, c) == {q[i] : i \in {j \in DOMAIN q : q[j].type = "Message" /\ q[j].client = c}}

WaitInTurn == \A c \in Clients : \E a \in Nat : InTurn(Waiting(c), a, up[c])

AnswersRouted ==
    \A c \in Clients : \A task \in Waiting(c) : task.content.type = "Rsp" =>
        \E m \in Requests(core, c) : m.id = task.content.req_id

NothingSentYet == \A c \in Clients : stub[c] = "none" => core.chan[c] = <<>> /\ fwd[c] = 0

BusInv ==
    /\ RouteInv
    /\ TurnInv
    /\ Routed(core)
    /\ WaitInTurn
    /\ AnswersRouted
    /\ NothingSentYet

LEMMA WaitingIs ==
    ASSUME NEW c
    PROVE  Waiting(c) = WaitingOf(tasks, c) /\ Waiting(c)' = WaitingOf(tasks', c)
BY DEF Waiting, WaitingOf

LEMMA WaitingIn ==
    ASSUME NEW q \in Seq(Task), NEW c, NEW x
    PROVE  /\ x \in WaitingOf(q, c) <=>
                 \E i \in 1..Len(q) : x = q[i] /\ x.type = "Message" /\ x.client = c
           /\ x \in WaitingOf(q, c) => x \in Task /\ x.content \in ClientContent
<1>1. DOMAIN q = 1..Len(q)
  OBVIOUS
<1>2. x \in WaitingOf(q, c) <=>
         \E i \in 1..Len(q) : x = q[i] /\ x.type = "Message" /\ x.client = c
  BY <1>1 DEF WaitingOf
<1>3. \A y \in Task : y.type = "Message" => y.content \in ClientContent
  BY DEF Task
<1>. QED  BY <1>2, <1>3

LEMMA WaitingAdded ==
    ASSUME NEW q \in Seq(Task), NEW task \in Task, NEW c
    PROVE  WaitingOf(Append(q, task), c)
             = IF task.type = "Message" /\ task.client = c THEN WaitingOf(q, c) \cup {task}
               ELSE WaitingOf(q, c)
<1>. DEFINE r == Append(q, task)
<1>1. /\ r \in Seq(Task) /\ Len(r) = Len(q) + 1 /\ r[Len(q) + 1] = task /\ Len(q) \in Nat
      /\ \A i \in 1..Len(q) : r[i] = q[i]
  BY AppendProperties
<1>. HIDE DEF r
<1>2. ASSUME NEW x
      PROVE  x \in WaitingOf(r, c) <=> \/ x \in WaitingOf(q, c)
                                       \/ x = task /\ task.type = "Message" /\ task.client = c
  <2>1. x \in WaitingOf(r, c) <=>
           \E i \in 1..Len(r) : x = r[i] /\ x.type = "Message" /\ x.client = c
    BY <1>1, WaitingIn
  <2>2. x \in WaitingOf(q, c) <=>
           \E i \in 1..Len(q) : x = q[i] /\ x.type = "Message" /\ x.client = c
    BY WaitingIn
  <2>. QED  BY <1>1, <2>1, <2>2
<1>. QED  BY <1>2 DEF r

LEMMA WaitingTaken ==
    ASSUME NEW q \in Seq(Task), q # <<>>, NEW c,
           \A j \in 1..Len(q) :
              1 < j /\ q[1].type = "Message" /\ q[j].type = "Message" /\ q[j].client = q[1].client
                => q[1].id < q[j].id,
           \A j \in 1..Len(q) : q[j].type = "Message" => q[j].id \in Nat
    PROVE  /\ Head(q).type = "Message" /\ Head(q).client = c =>
                 /\ Head(q) \in WaitingOf(q, c)
                 /\ WaitingOf(Tail(q), c) = WaitingOf(q, c) \ {Head(q)}
                 /\ \A x \in WaitingOf(q, c) : x = Head(q) \/ Head(q).id < x.id
           /\ ~(Head(q).type = "Message" /\ Head(q).client = c) =>
                 WaitingOf(Tail(q), c) = WaitingOf(q, c)
<1>. DEFINE r == Tail(q)
            h == Head(q)
<1>1. /\ r \in Seq(Task) /\ Len(r) = Len(q) - 1 /\ Len(q) \in Nat /\ Len(q) >= 1
      /\ h = q[1] /\ (\A i \in 1..Len(r) : r[i] = q[i + 1])
  BY HeadTailProperties
<1>. HIDE DEF r, h
<1>2. ASSUME NEW x
      PROVE  x \in WaitingOf(q, c) <=> \/ x \in WaitingOf(r, c)
                                       \/ x = h /\ h.type = "Message" /\ h.client = c
  <2>1. x \in WaitingOf(r, c) <=>
           \E i \in 1..Len(r) : x = r[i] /\ x.type = "Message" /\ x.client = c
    BY <1>1, WaitingIn
  <2>2. x \in WaitingOf(q, c) <=>
           \E i \in 1..Len(q) : x = q[i] /\ x.type = "Message" /\ x.client = c
    BY WaitingIn
  <2>3. \A i \in 1..Len(q) : i = 1 \/ (i - 1 \in 1..Len(r) /\ q[i] = r[i - 1])
    BY <1>1
  <2>4. \A i \in 1..Len(r) : i + 1 \in 1..Len(q)
    BY <1>1
  <2>5. 1 \in 1..Len(q)
    BY <1>1
  <2>. QED  BY <1>1, <2>1, <2>2, <2>3, <2>4, <2>5
<1>3. ASSUME NEW x \in WaitingOf(r, c), h.type = "Message", h.client = c
      PROVE  h.id < x.id /\ x # h
  <2>1. PICK i \in 1..Len(r) : x = r[i] /\ x.type = "Message" /\ x.client = c
    BY <1>1, <1>3, WaitingIn
  <2>2. i + 1 \in 1..Len(q) /\ q[i + 1] = x /\ 1 < i + 1 /\ 1 \in 1..Len(q)
    BY <1>1, <2>1
  <2>3. h.id < x.id /\ h.id \in Nat
    BY <1>1, <1>3, <2>1, <2>2
  <2>. QED  BY <2>3
<1>4. ASSUME h.type = "Message", h.client = c
      PROVE  /\ h \in WaitingOf(q, c)
             /\ WaitingOf(r, c) = WaitingOf(q, c) \ {h}
             /\ \A x \in WaitingOf(q, c) : x = h \/ h.id < x.id
  BY <1>2, <1>3, <1>4
<1>5. ASSUME ~(h.type = "Message" /\ h.client = c)
      PROVE  WaitingOf(r, c) = WaitingOf(q, c)
  BY <1>2, <1>5
<1>. QED  BY <1>4, <1>5 DEF r, h

MessageFrom(c, n, m) == [type |-> "Message", client |-> c, id |-> n, content |-> m]

LEMMA QueueMoves ==
    ASSUME TypeOK, [Next]_vars
    PROVE  \/ UNCHANGED <<tasks, up>>
           \/ tasks # <<>> /\ tasks' = Tail(tasks) /\ UNCHANGED up
           \/ tasks' = <<>> /\ UNCHANGED up
           \/ \E task \in Task :
                 task.type # "Message" /\ tasks' = Append(tasks, task) /\ UNCHANGED <<core, up>>
           \/ \E c \in Clients : \E m \in Contents[c] \cup Answers(c) :
                 /\ MessageFrom(c, up[c] + 1, m) \in Task
                 /\ tasks' = Append(tasks, MessageFrom(c, up[c] + 1, m))
                 /\ up' = [up EXCEPT ![c] = @ + 1]
                 /\ UNCHANGED <<core, status, stub, fwd>>
<1>1. CASE Accept
  BY <1>1, OtherTasks DEF Accept
<1>2. CASE CoreStep
  <2>1. tasks # <<>> /\ (tasks' = Tail(tasks) \/ tasks' = <<>>)
    BY <1>2 DEF CoreStep, OnRegister, OnDeregister, OnSub, OnUnsub, OnSrv, OnUnsrv, OnStop,
                OnKeepAlive, OnPub, OnPubFails, OnPubKill, OnReqNotServed, OnReqFails, OnReq,
                OnRspInvalid, OnRsp, OnTimeout, OnTimeoutNotPending, TakeMessage, Take,
                Continue, End
  <2>2. UNCHANGED up
    BY <1>2, CoreStepFrame
  <2>. QED  BY <2>1, <2>2
<1>3. CASE OnStopSignal
  BY <1>3 DEF OnStopSignal, End
<1>4. CASE \E id \in timers : TimerFires(id)
  <2>1. PICK id \in timers : TimerFires(id)
    BY <1>4
  <2>2. TimeoutOf(id) \in Task /\ TimeoutOf(id).type # "Message"
    BY OtherTasks DEF TypeOK, TimeoutOf
  <2>. QED  BY <2>1, <2>2 DEF TimerFires, TimeoutOf
<1>5. CASE \E c \in Clients : StubStep(c)
  <2>1. PICK c \in Clients : StubStep(c)
    BY <1>5
  <2>2. ASSUME Leave(c), UNCHANGED <<core, up>>
        PROVE  \/ UNCHANGED <<tasks, up>>
               \/ \E task \in Task : /\ task.type # "Message" /\ tasks' = Append(tasks, task)
                                     /\ UNCHANGED <<core, up>>
    <3>1. DeregisterOf(c) \in Task /\ DeregisterOf(c).type # "Message"
      BY OtherTasks DEF DeregisterOf
    <3>. QED  BY <2>2, <3>1 DEF Leave, DeregisterOf
  <2>3. CASE Running /\ StubReceive(c)
    <3>1. PICK m \in Contents[c] \cup Answers(c) :
             tasks' = Append(tasks, [type |-> "Message", client |-> c,
                                     id |-> up[c] + 1, content |-> m])
      BY <2>3 DEF StubReceive
    <3>2. m \in ClientContent
      BY ServerAssumption, ReceivedType
    <3>3. MessageFrom(c, up[c] + 1, m) \in Task
      BY <3>2 DEF TypeOK, Task, MessageFrom
    <3>4. up' = [up EXCEPT ![c] = @ + 1] /\ UNCHANGED <<core, status, stub, fwd>>
      BY <2>3 DEF StubReceive
    <3>. QED  BY <3>1, <3>3, <3>4 DEF MessageFrom
  <2>4. CASE ~(Running /\ StubReceive(c))
    BY <2>1, <2>2, <2>4
       DEF StubStep, StubReceive, StubForward, StubChannelClosed, StubPeerGone, StubDrop
  <2>. QED  BY <2>3, <2>4
<1>6. CASE UNCHANGED vars
  BY <1>6 DEF vars
<1>. QED  BY <1>1, <1>2, <1>3, <1>4, <1>5, <1>6 DEF Next

(* The first message of c in the queue is the next of those that wait. *)
LEMMA HeadWaits ==
    ASSUME TurnInv, tasks # <<>>, NEW c
    PROVE  /\ Head(tasks).type = "Message" /\ Head(tasks).client = c =>
                 /\ Head(tasks) \in Waiting(c)
                 /\ WaitingOf(Tail(tasks), c) = Waiting(c) \ {Head(tasks)}
                 /\ \A x \in Waiting(c) : x = Head(tasks) \/ Head(tasks).id < x.id
           /\ ~(Head(tasks).type = "Message" /\ Head(tasks).client = c) =>
                 WaitingOf(Tail(tasks), c) = Waiting(c)
<1>1. tasks \in Seq(Task)
  BY DEF TurnInv, TypeOK
<1>2. \A j \in 1..Len(tasks) : tasks[j].type = "Message" => tasks[j].id \in Nat
  BY <1>1 DEF Task
<1>3. \A j \in 1..Len(tasks) :
         1 < j /\ tasks[1].type = "Message" /\ tasks[j].type = "Message"
           /\ tasks[j].client = tasks[1].client
         => tasks[1].id < tasks[j].id
  <2>1. 1 \in DOMAIN tasks /\ DOMAIN tasks = 1..Len(tasks)
    BY <1>1
  <2>. QED  BY <2>1 DEF TurnInv, MessagesInOrder
<1>4. Waiting(c) = WaitingOf(tasks, c)
  BY WaitingIs
<1>. QED  BY <1>1, <1>2, <1>3, <1>4, WaitingTaken

LEMMA WaitNext ==
    ASSUME TurnInv, WaitInTurn, [Next]_vars
    PROVE  WaitInTurn'
<1>. SUFFICES ASSUME NEW c \in Clients
              PROVE  \E a \in Nat : InTurn(WaitingOf(tasks', c), a, up'[c])
  BY WaitingIs DEF WaitInTurn
<1>1. TypeOK /\ tasks \in Seq(Task) /\ up \in [Clients -> Nat]
  BY DEF TurnInv, TypeOK
<1>2. PICK a \in Nat : InTurn(WaitingOf(tasks, c), a, up[c])
  BY WaitingIs DEF WaitInTurn
<1>3. CASE UNCHANGED <<tasks, up>>
  BY <1>2, <1>3
<1>4. CASE tasks # <<>> /\ tasks' = Tail(tasks) /\ UNCHANGED up
  <2>1. CASE Head(tasks).type = "Message" /\ Head(tasks).client = c
    <3>. DEFINE W == Waiting(c)
                h == Head(tasks)
    <3>1. /\ h \in W /\ WaitingOf(tasks', c) = W \ {h}
          /\ \A x \in W : x = h \/ h.id < x.id
      BY <1>4, <2>1, HeadWaits
    <3>2. InTurn(W, a, up[c])
      BY <1>2, WaitingIs
    <3>. HIDE DEF W, h
    <3>3. MessagesKept(core, core, c, W)
      BY DEF MessagesKept
    <3>4. InTurn(W \ {h}, a + 1, up[c])
      BY <3>1, <3>2, <3>3, UpsTaken
    <3>5. InTurn(WaitingOf(tasks', c), a + 1, up'[c])
      BY <1>4, <3>1, <3>4
    <3>6. a + 1 \in Nat
      OBVIOUS
    <3>. QED  BY <3>5, <3>6
  <2>2. CASE ~(Head(tasks).type = "Message" /\ Head(tasks).client = c)
    <3>1. WaitingOf(tasks', c) = WaitingOf(tasks, c)
      BY <1>4, <2>2, HeadWaits, WaitingIs
    <3>. QED  BY <1>2, <1>4, <3>1
  <2>. QED  BY <2>1, <2>2
<1>5. CASE tasks' = <<>> /\ UNCHANGED up
  <2>1. WaitingOf(tasks', c) = {}
    BY <1>5 DEF WaitingOf
  <2>2. up[c] \in Nat /\ (up[c] + 1)..up[c] = {}
    BY <1>1
  <2>3. InTurn({}, up[c], up[c])
    BY <2>2 DEF InTurn
  <2>. QED  BY <1>5, <2>1, <2>2, <2>3
<1>6. ASSUME NEW task \in Task, task.type # "Message", tasks' = Append(tasks, task), UNCHANGED up
      PROVE  \E n \in Nat : InTurn(WaitingOf(tasks', c), n, up'[c])
  <2>1. WaitingOf(tasks', c) = WaitingOf(tasks, c)
    BY <1>1, <1>6, WaitingAdded
  <2>. QED  BY <1>2, <1>6, <2>1
<1>7. ASSUME NEW d \in Clients, NEW m,
             MessageFrom(d, up[d] + 1, m) \in Task,
             tasks' = Append(tasks, MessageFrom(d, up[d] + 1, m)),
             up' = [up EXCEPT ![d] = @ + 1]
      PROVE  \E n \in Nat : InTurn(WaitingOf(tasks', c), n, up'[c])
  <2>. DEFINE task == MessageFrom(d, up[d] + 1, m)
  <2>1. task.type = "Message" /\ task.client = d /\ task.id = up[d] + 1
    BY DEF MessageFrom
  <2>. HIDE DEF task
  <2>2. WaitingOf(tasks', c) = IF d = c THEN WaitingOf(tasks, c) \cup {task}
                               ELSE WaitingOf(tasks, c)
    BY <1>1, <1>7, <2>1, WaitingAdded DEF task
  <2>3. CASE d = c
    <3>1. InTurn(WaitingOf(tasks, c) \cup {task}, a, up[c] + 1)
      BY <1>2, <2>1, <2>3, UpsAdded
    <3>2. up'[c] = up[c] + 1
      BY <1>1, <1>7, <2>3
    <3>. QED  BY <2>2, <2>3, <3>1, <3>2
  <2>4. CASE d # c
    <3>1. up'[c] = up[c]
      BY <1>1, <1>7, <2>4
    <3>. QED  BY <1>2, <2>2, <2>4, <3>1
  <2>. QED  BY <2>3, <2>4
<1>. QED  BY <1>1, <1>3, <1>4, <1>5, <1>6, <1>7, QueueMoves

(* A queued answer of c is to a request that it was given. *)
LEMMA AnswersNext ==
    ASSUME NoGuesses, TypeOK, TypeOK', AnswersRouted, TurnInv, [Next]_vars
    PROVE  AnswersRouted'
<1>1. core \in CoreType /\ core' \in CoreType /\ tasks \in Seq(Task)
  BY DEF TypeOK
<1>2. Grows(core, core')
  <2>1. CASE CoreStep
    BY <2>1, CoreStepCore
  <2>2. CASE ~CoreStep
    <3>1. UNCHANGED core
      BY <2>2 DEF Next, Accept, OnStopSignal, TimerFires, StubStep, StubReceive, StubForward,
                  StubChannelClosed, StubPeerGone, StubDrop, vars
    <3>. QED  BY <1>1, <3>1, SameChan
  <2>. QED  BY <2>1, <2>2
<1>. SUFFICES ASSUME NEW c \in Clients, NEW task \in WaitingOf(tasks', c),
                     task.content.type = "Rsp"
              PROVE  \E m \in Requests(core', c) : m.id = task.content.req_id
  BY WaitingIs DEF AnswersRouted
<1>3. CASE task \in WaitingOf(tasks, c)
  <2>1. PICK m \in Requests(core, c) : m.id = task.content.req_id
    BY <1>3, WaitingIs DEF AnswersRouted
  <2>. QED  BY <1>1, <1>2, <2>1, RequestsGrow
<1>4. CASE task \notin WaitingOf(tasks, c)
  <2>1. tasks' # tasks /\ tasks' # <<>>
    BY <1>4 DEF WaitingOf
  <2>2. ~(tasks # <<>> /\ tasks' = Tail(tasks))
    BY <1>4, HeadWaits, WaitingIs
  <2>3. ~(\E u \in Task : u.type # "Message" /\ tasks' = Append(tasks, u))
    <3>. SUFFICES ASSUME NEW u \in Task, u.type # "Message", tasks' = Append(tasks, u)
                  PROVE  FALSE
      OBVIOUS
    <3>1. WaitingOf(Append(tasks, u), c) = WaitingOf(tasks, c)
      BY <1>1, WaitingAdded
    <3>. QED  BY <1>4, <3>1
  <2>4. PICK d \in Clients : \E m \in Contents[d] \cup Answers(d) :
           /\ MessageFrom(d, up[d] + 1, m) \in Task
           /\ tasks' = Append(tasks, MessageFrom(d, up[d] + 1, m))
           /\ UNCHANGED core
    BY <2>1, <2>2, <2>3, QueueMoves
  <2>5. PICK m \in Contents[d] \cup Answers(d) :
           /\ MessageFrom(d, up[d] + 1, m) \in Task
           /\ tasks' = Append(tasks, MessageFrom(d, up[d] + 1, m))
           /\ UNCHANGED core
    BY <2>4
  <2>6. task = MessageFrom(d, up[d] + 1, m) /\ d = c
    <3>. DEFINE new == MessageFrom(d, up[d] + 1, m)
    <3>1. new.type = "Message" /\ new.client = d
      BY DEF MessageFrom
    <3>. HIDE DEF new
    <3>2. WaitingOf(tasks', c) = IF d = c THEN WaitingOf(tasks, c) \cup {new}
                                 ELSE WaitingOf(tasks, c)
      BY <1>1, <2>5, <3>1, WaitingAdded DEF new
    <3>. QED  BY <1>4, <3>2 DEF new
  <2>7. task.content = m
    BY <2>6 DEF MessageFrom
  <2>8. m \in Answers(c)
    BY <2>6, <2>7 DEF NoGuesses
  <2>9. PICK i \in 1..fwd[c] : core.chan[c][i].type = "Req" /\ m.req_id = core.chan[c][i].id
    BY <2>8 DEF Answers
  <2>10. i \in 1..Len(core.chan[c])
    <3>1. fwd[c] <= Len(core.chan[c]) /\ fwd[c] \in Nat /\ Len(core.chan[c]) \in Nat
      BY <1>1, Channel DEF TypeOK
    <3>. QED  BY <3>1
  <2>11. core.chan[c][i] \in Requests(core, c)
    BY <1>1, <2>9, <2>10, RequestIn
  <2>. QED  BY <2>5, <2>7, <2>9, <2>11
<1>. QED  BY <1>3, <1>4

LEMMA RequestRouted ==
    ASSUME BusInv, OnReq, NEW s \in CoreType, RequestMade(s)
    PROVE  /\ Routed(s)
           /\ \A d \in Clients : \A m :
                 m \in Requests(s, d) <=> m \in Requests(core, d) \/ (d = Server /\ m = Request)
<1>1. TypeOK /\ core \in CoreType /\ Routed(core)
  BY DEF BusInv, TurnInv, TypeOK
<1>2. /\ s.pending = core.pending \cup {Awaited}
      /\ s.next_msg_id = core.next_msg_id + 1
      /\ \A c \in Clients : s.chan[c] = IF c = Server THEN Append(core.chan[c], Request)
                                        ELSE core.chan[c]
      /\ Server \in Clients /\ Awaited \in PendingResponse /\ Request \in ServerMsg
  BY DEF RequestMade
<1>3. Take("Message") /\ core.next_msg_id \in Nat
  BY <1>1, CoreFields DEF OnReq, TakeMessage
<1>4. /\ Request.type = "Req" /\ Request.id = core.next_msg_id
      /\ Request.payload.client = Sender
      /\ Awaited.id = core.next_msg_id /\ Awaited.request_id = Head(tasks).id
      /\ Awaited.requester = Sender /\ Awaited.responder = Server
  BY DEF Request, ReqMsg, Payload, Awaited
<1>5. Head(tasks).id # 0
  <2>1. Sender \in Clients /\ Head(tasks) \in Waiting(Sender)
    <3>1. Sender \in Clients
      BY <1>1, <1>3, HeadMessage DEF TypeOK
    <3>. QED  BY <1>3, <3>1, HeadWaits DEF BusInv, Take, Sender
  <2>2. PICK a \in Nat : InTurn(Waiting(Sender), a, up[Sender])
    BY <2>1 DEF BusInv, WaitInTurn
  <2>3. a + 1 <= Head(tasks).id /\ Head(tasks).id \in Nat
    BY <2>1, <2>2, NthIs
  <2>. QED  BY <2>3
<1>. HIDE DEF Server, Request, Awaited
<1>6. ASSUME NEW d \in Clients, NEW m
      PROVE  m \in Requests(s, d) <=> m \in Requests(core, d) \/ (d = Server /\ m = Request)
  <2>1. CASE d # Server
    <3>1. s.chan[d] = core.chan[d]
      BY <1>2, <2>1
    <3>. QED  BY <2>1, <3>1 DEF Requests
  <2>2. CASE d = Server
    <3>1. s.chan[d] = Append(core.chan[d], Request)
      BY <1>2, <2>2
    <3>2. core.chan[d] \in Seq(ServerMsg)
      BY <1>1, Channel
    <3>3. /\ Len(s.chan[d]) = Len(core.chan[d]) + 1
          /\ s.chan[d][Len(core.chan[d]) + 1] = Request
          /\ \A i \in 1..Len(core.chan[d]) : s.chan[d][i] = core.chan[d][i]
          /\ Len(core.chan[d]) \in Nat
      BY <1>2, <3>1, <3>2, AppendProperties
    <3>4. m \in Requests(s, d) <=> \E i \in 1..Len(s.chan[d]) : m = s.chan[d][i] /\ m.type = "Req"
      BY RequestIn
    <3>5. m \in Requests(core, d)
            <=> \E i \in 1..Len(core.chan[d]) : m = core.chan[d][i] /\ m.type = "Req"
      BY <1>1, RequestIn
    <3>6. \A i \in 1..Len(s.chan[d]) : i \in 1..Len(core.chan[d]) \/ i = Len(core.chan[d]) + 1
      BY <3>3
    <3>7. Len(core.chan[d]) + 1 \in 1..Len(s.chan[d])
          /\ \A i \in 1..Len(core.chan[d]) : i \in 1..Len(s.chan[d])
      BY <3>3
    <3>8. m \in Requests(s, d) => m \in Requests(core, d) \/ m = Request
      <4>. SUFFICES ASSUME NEW i \in 1..Len(s.chan[d]), m = s.chan[d][i], m.type = "Req"
                    PROVE  m \in Requests(core, d) \/ m = Request
        BY <3>4
      <4>. QED  BY <3>3, <3>5, <3>6
    <3>9. m \in Requests(core, d) => m \in Requests(s, d)
      <4>. SUFFICES ASSUME NEW i \in 1..Len(core.chan[d]), m = core.chan[d][i], m.type = "Req"
                    PROVE  m \in Requests(s, d)
        BY <3>5
      <4>. QED  BY <3>3, <3>4, <3>7
    <3>10. m = Request => m \in Requests(s, d)
      BY <1>4, <3>3, <3>4, <3>7
    <3>. QED  BY <2>2, <3>8, <3>9, <3>10
  <2>. QED  BY <2>1, <2>2
<1>7. ASSUME NEW d \in Clients, NEW m \in Requests(s, d)  PROVE m.id < s.next_msg_id
  <2>1. CASE m \in Requests(core, d)
    <3>1. m.id \in Nat /\ m.id < core.next_msg_id
      BY <1>1, <2>1, RequestIn DEF Routed
    <3>. QED  BY <1>2, <1>3, <3>1
  <2>2. CASE m = Request
    BY <1>2, <1>3, <1>4, <2>2
  <2>. QED  BY <1>6, <2>1, <2>2
<1>8. ASSUME NEW p \in core.pending
      PROVE  /\ p.request_id # 0 /\ p.id # core.next_msg_id
             /\ \E m \in Requests(core, p.responder) : m.id = p.id /\ m.payload.client = p.requester
  <2>1. p.responder \in Clients
    BY <1>1, PendingClients
  <2>2. PICK m \in Requests(core, p.responder) : m.id = p.id /\ m.payload.client = p.requester
    BY <1>1 DEF Routed
  <2>3. m.id < core.next_msg_id /\ m.id \in Nat
    BY <1>1, <2>1, <2>2, RequestIn DEF Routed
  <2>. QED  BY <1>1, <1>3, <2>2, <2>3 DEF Routed
<1>9. ASSUME NEW p \in s.pending
      PROVE  /\ p.request_id # 0
             /\ \E m \in Requests(s, p.responder) : m.id = p.id /\ m.payload.client = p.requester
  <2>1. CASE p \in core.pending
    <3>1. p.responder \in Clients
      BY <1>1, <2>1, PendingClients
    <3>. QED  BY <1>6, <1>8, <2>1, <3>1
  <2>2. CASE p = Awaited
    <3>1. Request \in Requests(s, Server)
      BY <1>2, <1>6
    <3>. QED  BY <1>4, <1>5, <2>2, <3>1
  <2>. QED  BY <1>2, <2>1, <2>2
<1>10. \A p, q \in s.pending : p.id = q.id => p = q
  BY <1>1, <1>2, <1>4, <1>8 DEF Routed
<1>11. Routed(s)
  BY <1>7, <1>9, <1>10 DEF Routed
<1>. QED  BY <1>6, <1>11

LEMMA ReqRouted ==
    ASSUME BusInv, OnReq, TypeOK'
    PROVE  Routed(core')
<1>1. TypeOK /\ core \in CoreType /\ core' \in CoreType
  BY DEF BusInv, TurnInv, TypeOK
<1>2. PICK s \in CoreType : RequestMade(s)
  BY <1>1, RequestState
<1>3. Routed(s) /\ Take("Message") /\ core' = Ack(s, NoError, NoCount)
  BY <1>2, RequestRouted DEF OnReq, TakeMessage, RequestMade
<1>4. Tells(s, core', PlainAcks) /\ Keeps(s, core')
  <2>1. <<Sender, AckMsg(Head(tasks).id, NoError, NoCount)>> \in PlainAcks
    BY ErrorTypes DEF PlainAcks
  <2>. QED  BY <1>1, <1>2, <1>3, <2>1, ErrorTypes, AckTells, AckKeeps DEF TypeOK
<1>5. \A x \in PlainAcks : x[2].type # "Req"
  BY DEF PlainAcks, AckMsg
<1>6. \A d \in Clients : Requests(core', d) = Requests(s, d)
  BY <1>1, <1>4, <1>5, NoRequestTold
<1>. QED  BY <1>1, <1>3, <1>4, <1>6, RoutedKept DEF Keeps

(* Nothing is sent to one that the core does not know. *)
LEMMA NothingTold ==
    ASSUME NEW s \in CoreType, NEW t \in CoreType, NEW M, Tells(s, t, M), NEW c \in Clients,
           \A x \in M : x[1] # c
    PROVE  t.chan[c] = s.chan[c]
<1>1. s.chan[c] \in Seq(ServerMsg) /\ t.chan[c] \in Seq(ServerMsg)
  BY Channel
<1>2. \A i \in 1..Len(t.chan[c]) : ~(Len(s.chan[c]) < i)
  <2>. SUFFICES ASSUME NEW i \in 1..Len(t.chan[c]), Len(s.chan[c]) < i PROVE FALSE
    OBVIOUS
  <2>. DEFINE x == <<c, t.chan[c][i]>>
  <2>1. x \in M /\ x[1] = c
    BY DEF Tells
  <2>. HIDE DEF x
  <2>. QED  BY <2>1
<1>3. /\ Len(s.chan[c]) <= Len(t.chan[c]) /\ Len(s.chan[c]) \in Nat /\ Len(t.chan[c]) \in Nat
      /\ \A i \in 1..Len(s.chan[c]) : t.chan[c][i] = s.chan[c][i]
  BY <1>1 DEF Tells, Grows
<1>4. Len(t.chan[c]) = Len(s.chan[c])
  <2>1. Len(t.chan[c]) \in 1..Len(t.chan[c]) \/ Len(t.chan[c]) = 0
    BY <1>3
  <2>. QED  BY <1>2, <1>3, <2>1
<1>. QED  BY <1>1, <1>3, <1>4, SeqEqual

LEMMA StrangerTold ==
    ASSUME TypeOK, CoreStep, NEW c \in Clients, c \notin Mentioned,
           Head(tasks).type = "Message" => Sender # c
    PROVE  core'.chan[c] = core.chan[c]
<1>1. core \in CoreType /\ core' \in CoreType /\ tasks \in Seq(Task)
  BY CoreStepCore DEF TypeOK
<1>2. ASSUME Head(tasks).type = "Message", NEW e, NEW n
      PROVE  \A x \in PlainAcks \cup {<<Sender, AckMsg(Head(tasks).id, e, n)>>} : x[1] # c
  BY <1>2 DEF PlainAcks
<1>3. \A p \in core.pending : p.requester # c /\ p.responder # c
  BY DEF Mentioned, Mentions
<1>4. \A p \in core.pending : \A st, payload : \A x \in {Response(p, st, payload)} : x[1] # c
  BY <1>3 DEF Response
<1>5. ASSUME NEW D, c \notin D  PROVE \A x \in Published(D) : x[1] # c
  BY <1>5 DEF Published
<1>6. c \notin Reachable /\ c \notin Recipients
  <2>1. c \notin core.senders /\ \A p \in core.subs : p[1] # c
    BY DEF Mentioned, Mentions
  <2>2. c \notin Recipients
    BY <2>1 DEF Recipients, GetSubscribers
  <2>. QED  BY <2>2 DEF Reachable
<1>7. CASE OnRegister
  BY <1>1, <1>7 DEF OnRegister, CoreType
<1>8. CASE OnDeregister
  BY <1>1, <1>8 DEF OnDeregister, DeregisterClient, CoreType
<1>9. CASE OnSub \/ OnUnsub \/ OnSrv \/ OnUnsrv \/ OnStop \/ OnKeepAlive
             \/ OnReqNotServed \/ OnRspInvalid
  <2>1. Head(tasks).type = "Message"
    BY <1>9 DEF OnSub, OnUnsub, OnSrv, OnUnsrv, OnStop, OnKeepAlive, OnReqNotServed,
                OnRspInvalid, TakeMessage, Take
  <2>. QED  BY <1>1, <1>2, <1>9, <2>1, RoutingTells, NothingTold
<1>10. CASE OnReqFails \/ OnReq
  <2>1. /\ Head(tasks).type = "Message" /\ Take("Message") /\ Content.type = "Req"
        /\ Server # NoOwner
    BY <1>10 DEF OnReqFails, OnReq, TakeMessage, Take
  <2>2. Content.topic \in Topics
    BY <1>1, <2>1, HeadMessage, ContentTopic
  <2>3. Server # c
    BY <2>1, <2>2 DEF Server, GetOwner, Mentioned, Mentions
  <2>4. Tells(core, core', {<<Server, Request>>} \cup PlainAcks)
    BY <1>10, RequestTells
  <2>5. \A x \in {<<Server, Request>>} \cup PlainAcks : x[1] # c
    BY <1>2, <2>1, <2>3
  <2>. QED  BY <1>1, <2>4, <2>5, NothingTold
<1>11. CASE OnPub
  <2>. DEFINE s == DeliverAll(core, Recipients, Publication)
              n == Cardinality(Recipients)
  <2>1. /\ s \in CoreType /\ Tells(core, s, Published(Recipients))
        /\ Tells(s, core', {<<Sender, AckMsg(Head(tasks).id, NoError, n)>>})
    BY <1>11, PubTells
  <2>2. Head(tasks).type = "Message"
    BY <1>11 DEF OnPub, TakeMessage, Take
  <2>. HIDE DEF s, n
  <2>3. s.chan[c] = core.chan[c]
    BY <1>1, <1>5, <1>6, <2>1, NothingTold
  <2>4. core'.chan[c] = s.chan[c]
    BY <1>1, <1>2, <2>1, <2>2, NothingTold
  <2>. QED  BY <2>3, <2>4
<1>12. CASE OnPubFails
  <2>1. PICK f \in (Recipients \cap Clients) \ Reachable, done \in SUBSET Reachable :
           LET s == DeliverAll(core, done, Publication)
               d == Deliver(s, f, Publication)
           IN  /\ s \in CoreType /\ Tells(core, s, Published(done))
               /\ d \in CoreType /\ d.chan = s.chan /\ d.senders \subseteq s.senders
               /\ Tells(d, core', {<<Sender, AckMsg(Head(tasks).id, DeliverError(core, f),
                                                    NoCount)>>})
    BY <1>12, PubFailsTells
  <2>. DEFINE s == DeliverAll(core, done, Publication)
              d == Deliver(s, f, Publication)
              e == DeliverError(core, f)
  <2>2. /\ s \in CoreType /\ Tells(core, s, Published(done))
        /\ d \in CoreType /\ d.chan = s.chan
        /\ Tells(d, core', {<<Sender, AckMsg(Head(tasks).id, e, NoCount)>>})
    BY <2>1
  <2>3. Head(tasks).type = "Message"
    BY <1>12 DEF OnPubFails, TakeMessage, Take
  <2>. HIDE DEF d, s, e
  <2>4. s.chan[c] = core.chan[c]
    BY <1>1, <1>5, <1>6, <2>2, NothingTold
  <2>5. core'.chan[c] = d.chan[c]
    BY <1>1, <1>2, <2>2, <2>3, NothingTold
  <2>. QED  BY <2>2, <2>4, <2>5
<1>13. CASE OnPubKill
  <2>1. PICK done \in SUBSET Reachable : core' = DeliverAll(core, done, Publication)
    BY <1>13 DEF OnPubKill
  <2>. QED  BY <1>1, <1>6, <2>1 DEF DeliverAll, CoreType
<1>14. CASE OnRsp
  <2>1. PICK p \in core.pending :
           Tells(core, core', {Response(p, "Ok", Payload)} \cup PlainAcks)
    BY <1>14, AnswerTells
  <2>2. Head(tasks).type = "Message"
    BY <1>14 DEF OnRsp, TakeMessage, Take
  <2>. QED  BY <1>1, <1>2, <1>4, <2>1, <2>2, NothingTold
<1>15. CASE OnTimeout
  <2>1. PICK p \in core.pending : Tells(core, core', {Response(p, "Timeout", NoPayload)})
    BY <1>15, TimeoutTells
  <2>. QED  BY <1>1, <1>4, <2>1, NothingTold
<1>16. CASE OnTimeoutNotPending
  BY <1>16 DEF OnTimeoutNotPending
<1>. QED  BY <1>7, <1>8, <1>9, <1>10, <1>11, <1>12, <1>13, <1>14, <1>15, <1>16 DEF CoreStep

(* What the stub of a client has to do with what the core knows of it *)
LEMMA Strangers ==
    ASSUME RouteInv, Running, NEW c \in Clients
    PROVE  /\ stub[c] = "none" =>
                 c \notin Mentioned /\ (tasks # <<>> /\ Head(tasks).type = "Message" => Sender # c)
           /\ stub[c] = "serving" => c \in core.senders /\ c \notin Closed
<1>1. Bus \notin Clients /\ tasks \in Seq(Task)
  BY IdsType DEF RouteInv, TypeOK
<1>2. ASSUME stub[c] = "none", c \in Mentioned  PROVE FALSE
  <2>1. Queued(DeregisterOf(c))
    BY <1>1, <1>2 DEF RouteInv, NoDanglingReference
  <2>. QED  BY <1>2, <2>1 DEF RouteInv, DeregisterWhenGone, Gone
<1>3. ASSUME stub[c] = "none", tasks # <<>>, Head(tasks).type = "Message", Sender = c
      PROVE  FALSE
  <2>1. 1 \in DOMAIN tasks /\ tasks[1] = Head(tasks)
    BY <1>1, <1>3
  <2>2. Queued(DeregisterOf(c))
    BY <1>3, <2>1 DEF RouteInv, DeregisterFollowsMessages, Queued, Sender
  <2>. QED  BY <1>3, <2>2 DEF RouteInv, DeregisterWhenGone, Gone
<1>4. stub[c] = "serving" => c \in core.senders /\ c \notin Closed
  BY DEF RouteInv, LiveClientsRegistered, Closed
<1>. QED  BY <1>2, <1>3, <1>4

LEMMA NothingNext ==
    ASSUME RouteInv, NothingSentYet, TypeOK', [Next]_vars
    PROVE  NothingSentYet'
<1>. SUFFICES ASSUME NEW c \in Clients, stub'[c] = "none"
              PROVE  core'.chan[c] = <<>> /\ fwd'[c] = 0
  BY DEF NothingSentYet
<1>1. TypeOK /\ core \in CoreType /\ core' \in CoreType /\ Bus \notin Clients
  BY IdsType DEF RouteInv, TypeOK
<1>2. stub[c] = "none"
  BY <1>1 DEF TypeOK, Next, CoreStep, OnRegister, OnDeregister, OnSub, OnUnsub, OnSrv, OnUnsrv,
              OnStop, OnKeepAlive, OnPub, OnPubFails, OnPubKill, OnReqNotServed, OnReqFails,
              OnReq, OnRspInvalid, OnRsp, OnTimeout, OnTimeoutNotPending, Accept, OnStopSignal,
              TimerFires, StubStep, StubReceive, StubForward, StubChannelClosed, StubPeerGone,
              StubDrop, Leave, vars
<1>3. core.chan[c] = <<>> /\ fwd[c] = 0
  BY <1>2 DEF NothingSentYet
<1>4. fwd'[c] = 0
  <2>1. CASE CoreStep
    BY <1>1, <1>3, <2>1, CoreStepFrame
  <2>2. CASE ~CoreStep
    BY <1>1, <1>2, <1>3, <2>2
       DEF TypeOK, Next, Accept, OnStopSignal, TimerFires, StubStep, StubReceive, StubForward,
           StubChannelClosed, StubPeerGone, StubDrop, vars
  <2>. QED  BY <2>1, <2>2
<1>5. CASE ~CoreStep
  <2>1. UNCHANGED core
    BY <1>5 DEF Next, Accept, OnStopSignal, TimerFires, StubStep, StubReceive, StubForward,
                StubChannelClosed, StubPeerGone, StubDrop, vars
  <2>. QED  BY <1>3, <1>4, <2>1
<1>6. CASE CoreStep
  <2>1. Running /\ tasks # <<>>
    BY <1>6 DEF CoreStep, OnRegister, OnDeregister, OnSub, OnUnsub, OnSrv, OnUnsrv, OnStop,
                OnKeepAlive, OnPub, OnPubFails, OnPubKill, OnReqNotServed, OnReqFails, OnReq,
                OnRspInvalid, OnRsp, OnTimeout, OnTimeoutNotPending, TakeMessage, Take
  <2>2. c \notin Mentioned /\ (Head(tasks).type = "Message" => Sender # c)
    BY <1>2, <2>1, Strangers
  <2>. QED  BY <1>1, <1>3, <1>4, <1>6, <2>2, StrangerTold
<1>. QED  BY <1>5, <1>6

LEMMA BusInit == Init => BusInv
<1>. SUFFICES ASSUME Init PROVE BusInv
  OBVIOUS
<1>1. RouteInv /\ TurnInv
  BY RouteInit, TurnInit
<1>2. core.pending = {} /\ core.chan = [c \in Clients |-> <<>>] /\ tasks = <<>>
      /\ up = [c \in Clients |-> 0] /\ fwd = [c \in Clients |-> 0]
  BY DEF Init
<1>3. \A d \in Clients : Requests(core, d) = {}
  BY <1>2 DEF Requests
<1>4. Routed(core)
  BY <1>2, <1>3 DEF Routed
<1>5. \A c : Waiting(c) = {}
  BY <1>2 DEF Waiting
<1>6. WaitInTurn
  <2>1. InTurn({}, 0, 0)
    BY DEF InTurn
  <2>. QED  BY <1>2, <1>5, <2>1 DEF WaitInTurn
<1>7. AnswersRouted /\ NothingSentYet
  BY <1>2, <1>5 DEF AnswersRouted, NothingSentYet
<1>. QED  BY <1>1, <1>4, <1>6, <1>7 DEF BusInv

LEMMA BusNext ==
    ASSUME NoGuesses
    PROVE  BusInv /\ [Next]_vars => BusInv'
<1>. SUFFICES ASSUME BusInv, [Next]_vars PROVE BusInv'
  OBVIOUS
<1>1. RouteInv' /\ TurnInv' /\ TypeOK /\ TypeOK'
  BY RouteNext, TurnNext DEF BusInv, TurnInv
<1>2. WaitInTurn' /\ AnswersRouted' /\ NothingSentYet'
  BY <1>1, WaitNext, AnswersNext, NothingNext DEF BusInv
<1>3. Routed(core')
  <2>1. CASE OnReq
    BY <1>1, <2>1, ReqRouted
  <2>2. CASE CoreStep /\ ~OnReq
    BY <1>1, <2>2, NothingRouted, RoutedKept DEF BusInv, TypeOK
  <2>3. CASE ~CoreStep
    <3>1. UNCHANGED core
      BY <2>3 DEF Next, Accept, OnStopSignal, TimerFires, StubStep, StubReceive, StubForward,
                  StubChannelClosed, StubPeerGone, StubDrop, vars
    <3>. QED  BY <3>1 DEF BusInv
  <2>. QED  BY <2>1, <2>2, <2>3 DEF CoreStep
<1>. QED  BY <1>1, <1>2, <1>3 DEF BusInv

-----------------------------------------------------------------------------
(* What a client sees of the core: the messages on their way to it *)

SeenAll(s, c, q, n) == [i \in 1..(Len(q) - n) |-> Seen(s, c, q[n + i])]

LEMMA UnreadIs ==
    ASSUME NEW s, NEW c, NEW n
    PROVE  Unread(s, c, n) = SeenAll(s, c, s.chan[c], n)
BY DEF Unread, SeenAll

LEMMA SeenAllSeq ==
    ASSUME NEW s, NEW c, NEW q \in Seq(ServerMsg), NEW n \in Nat, n <= Len(q)
    PROVE  /\ SeenAll(s, c, q, n) \in Seq({Seen(s, c, m) : m \in ServerMsg})
           /\ Len(SeenAll(s, c, q, n)) = Len(q) - n
           /\ SeenAll(s, c, q, n) \o <<>> = SeenAll(s, c, q, n)
<1>. DEFINE S == {Seen(s, c, m) : m \in ServerMsg}
            k == Len(q) - n
            all == SeenAll(s, c, q, n)
<1>1. Len(q) \in Nat /\ k \in Nat
  BY LenProperties
<1>2. \A i \in 1..k : n + i \in 1..Len(q)
  BY <1>1
<1>3. \A i \in 1..k : q[n + i] \in ServerMsg
  BY <1>2, ElementOfSeq
<1>4. \A i \in 1..k : Seen(s, c, q[n + i]) \in S
  BY <1>3
<1>5. all = [i \in 1..k |-> Seen(s, c, q[n + i])]
  BY DEF SeenAll
<1>. HIDE DEF S, k, all
<1>6. all \in [1..k -> S]
  BY <1>4, <1>5
<1>7. all \in Seq(S) /\ Len(all) = k
  BY <1>1, <1>6, IsASeq, LenProperties
<1>8. all \o <<>> = all
  BY <1>7, ConcatEmptySeq
<1>. QED  BY <1>7, <1>8 DEF S, k, all

LEMMA SeenAllAdds ==
    ASSUME NEW s, NEW c, NEW q \in Seq(ServerMsg), NEW n \in Nat, n <= Len(q),
           NEW m \in ServerMsg, NEW r, r = q \o <<m>>
    PROVE  /\ r \in Seq(ServerMsg) /\ n <= Len(r)
           /\ SeenAll(s, c, r, n) = SeenAll(s, c, q, n) \o <<Seen(s, c, m)>>
           /\ SeenAll(s, c, r, n) = Append(SeenAll(s, c, q, n), Seen(s, c, m))
<1>. DEFINE old == SeenAll(s, c, q, n)
            all == SeenAll(s, c, r, n)
            S == {Seen(s, c, x) : x \in ServerMsg}
            e == Seen(s, c, m)
            new == Append(old, e)
<1>1. Len(q) \in Nat /\ r = Append(q, m)
  BY LenProperties, AppendIsConcat
<1>2. /\ r \in Seq(ServerMsg) /\ Len(r) = Len(q) + 1 /\ r[Len(q) + 1] = m
      /\ \A i \in 1..Len(q) : r[i] = q[i]
  BY <1>1, AppendProperties
<1>3. old \in Seq(S) /\ Len(old) = Len(q) - n
  BY SeenAllSeq
<1>4. n <= Len(r)
  BY <1>1, <1>2
<1>5. all \in Seq(S) /\ Len(all) = Len(r) - n
  BY <1>2, <1>4, SeenAllSeq
<1>6. e \in S
  OBVIOUS
<1>7. new = old \o <<e>>
  <2>. HIDE DEF S, e, old
  <2>. QED  BY <1>3, <1>6, AppendIsConcat
<1>8. all = new
  <2>1. /\ new \in Seq(S) /\ Len(new) = Len(old) + 1 /\ new[Len(old) + 1] = e
        /\ \A i \in 1..Len(old) : new[i] = old[i]
    <3>. HIDE DEF S, e, old
    <3>. QED  BY <1>3, <1>6, AppendProperties
  <2>2. ASSUME NEW i \in 1..Len(all)  PROVE all[i] = new[i]
    <3>1. i \in 1..(Len(r) - n) /\ i \in Nat /\ n + i \in 1..Len(r)
      BY <1>1, <1>2, <1>4, <1>5
    <3>2. all[i] = Seen(s, c, r[n + i])
      BY <3>1 DEF SeenAll
    <3>3. CASE i = Len(old) + 1
      <4>1. n + i = Len(q) + 1
        BY <1>1, <1>3, <3>3
      <4>. QED  BY <1>2, <2>1, <3>2, <3>3, <4>1
    <3>4. CASE i # Len(old) + 1
      <4>1. i \in 1..Len(old) /\ i \in 1..(Len(q) - n) /\ n + i \in 1..Len(q)
        <5>. HIDE DEF old, all
        <5>1. Len(r) - n = (Len(q) - n) + 1 /\ Len(q) - n \in Nat /\ i # (Len(q) - n) + 1
          BY <1>1, <1>2, <1>3, <3>4
        <5>2. i \in 1..(Len(q) - n)
          BY ONLY <3>1, <5>1
        <5>. QED  BY <1>1, <1>3, <5>2
      <4>2. old[i] = Seen(s, c, q[n + i])
        BY <4>1 DEF SeenAll
      <4>. QED  BY <1>2, <2>1, <3>2, <4>1, <4>2
    <3>. QED  BY <3>3, <3>4
  <2>3. Len(all) = Len(new)
    BY <1>1, <1>2, <1>3, <1>5, <2>1
  <2>. HIDE DEF all, new, S
  <2>. QED  BY <1>5, <2>1, <2>2, <2>3, SeqEqual
<1>. QED  BY <1>2, <1>4, <1>7, <1>8

LEMMA SeenAllKept ==
    ASSUME NEW s \in CoreType, NEW t \in CoreType, NEW c \in Clients, NEW n \in Nat,
           n <= Len(s.chan[c]), RanksKept(s, t, c)
    PROVE  SeenAll(t, c, s.chan[c], n) = SeenAll(s, c, s.chan[c], n)
<1>1. s.chan[c] \in Seq(ServerMsg) /\ Len(s.chan[c]) \in Nat
  BY Channel, LenProperties
<1>2. ASSUME NEW i \in 1..(Len(s.chan[c]) - n)
      PROVE  Seen(t, c, s.chan[c][n + i]) = Seen(s, c, s.chan[c][n + i])
  <2>. DEFINE m == s.chan[c][n + i]
  <2>1. n + i \in 1..Len(s.chan[c])
    BY <1>1
  <2>2. m \in ServerMsg
    BY <1>1, <2>1, ElementOfSeq
  <2>3. CASE m.type = "Req"
    <3>1. m \in Requests(s, c)
      BY <2>1, <2>3, RequestIn
    <3>2. m.id \in RoutedIds(s, c)
      BY <3>1, RoutedIn
    <3>. HIDE DEF m
    <3>3. Rank(t, c, m.id) = Rank(s, c, m.id)
      BY <3>2 DEF RanksKept
    <3>4. Seen(t, c, m) = Seen(s, c, m)
      BY <2>3, <3>3 DEF Seen
    <3>. QED  BY <3>4 DEF m
  <2>4. CASE m.type # "Req"
    <3>. HIDE DEF m
    <3>1. Seen(t, c, m) = Seen(s, c, m)
      BY <2>4 DEF Seen
    <3>. QED  BY <3>1 DEF m
  <2>. QED  BY <2>3, <2>4
<1>. QED  BY <1>2 DEF SeenAll

(* the channel of c has grown by m, by m and n, or not at all *)
Then(q, m) == q \o <<m>>

LEMMA UnreadGrows ==
    ASSUME NEW s \in CoreType, NEW t \in CoreType, NEW c \in Clients, NEW k \in Nat,
           k <= Len(s.chan[c]), RanksKept(s, t, c)
    PROVE  /\ Unread(s, c, k) \o <<>> = Unread(s, c, k)
           /\ t.chan[c] = s.chan[c] => Unread(t, c, k) = Unread(s, c, k)
           /\ \A m \in ServerMsg : t.chan[c] = Then(s.chan[c], m) =>
                 /\ Unread(t, c, k) = Then(Unread(s, c, k), Seen(t, c, m))
                 /\ Unread(t, c, k) = Append(Unread(s, c, k), Seen(t, c, m))
           /\ \A m, n \in ServerMsg : t.chan[c] = Then(Then(s.chan[c], m), n) =>
                 Unread(t, c, k) = Then(Then(Unread(s, c, k), Seen(t, c, m)), Seen(t, c, n))
<1>1. s.chan[c] \in Seq(ServerMsg)
  BY Channel
<1>2. Unread(s, c, k) = SeenAll(t, c, s.chan[c], k) /\ Unread(t, c, k) = SeenAll(t, c, t.chan[c], k)
  BY SeenAllKept, UnreadIs
<1>3. SeenAll(t, c, s.chan[c], k) \o <<>> = SeenAll(t, c, s.chan[c], k)
  BY <1>1, SeenAllSeq
<1>4. ASSUME NEW m \in ServerMsg, t.chan[c] = s.chan[c] \o <<m>>
      PROVE  /\ Unread(t, c, k) = Append(Unread(s, c, k), Seen(t, c, m))
             /\ Unread(t, c, k) = Unread(s, c, k) \o <<Seen(t, c, m)>>
  <2>. DEFINE r == t.chan[c]
  <2>1. r = s.chan[c] \o <<m>>
    BY <1>4
  <2>. HIDE DEF r
  <2>2. /\ SeenAll(t, c, r, k) = SeenAll(t, c, s.chan[c], k) \o <<Seen(t, c, m)>>
        /\ SeenAll(t, c, r, k) = Append(SeenAll(t, c, s.chan[c], k), Seen(t, c, m))
    BY <1>1, <2>1, SeenAllAdds
  <2>. QED  BY <1>2, <2>2 DEF r
<1>5. ASSUME NEW m \in ServerMsg, NEW n \in ServerMsg,
             t.chan[c] = (s.chan[c] \o <<m>>) \o <<n>>
      PROVE  Unread(t, c, k) = (Unread(s, c, k) \o <<Seen(t, c, m)>>) \o <<Seen(t, c, n)>>
  <2>. DEFINE q == s.chan[c] \o <<m>>
  <2>1. /\ q \in Seq(ServerMsg) /\ k <= Len(q)
        /\ SeenAll(t, c, q, k) = SeenAll(t, c, s.chan[c], k) \o <<Seen(t, c, m)>>
    BY <1>1, SeenAllAdds
  <2>. DEFINE r == t.chan[c]
  <2>2. r = q \o <<n>>
    BY <1>5
  <2>. HIDE DEF q, r
  <2>3. SeenAll(t, c, r, k) = SeenAll(t, c, q, k) \o <<Seen(t, c, n)>>
    BY <2>1, <2>2, SeenAllAdds
  <2>. QED  BY <1>2, <2>1, <2>3 DEF r
<1>6. ASSUME NEW m \in ServerMsg, t.chan[c] = Then(s.chan[c], m)
      PROVE  /\ Unread(t, c, k) = Then(Unread(s, c, k), Seen(t, c, m))
             /\ Unread(t, c, k) = Append(Unread(s, c, k), Seen(t, c, m))
  BY <1>4, <1>6 DEF Then
<1>7. ASSUME NEW m \in ServerMsg, NEW n \in ServerMsg,
             t.chan[c] = Then(Then(s.chan[c], m), n)
      PROVE  Unread(t, c, k) = Then(Then(Unread(s, c, k), Seen(t, c, m)), Seen(t, c, n))
  BY <1>5, <1>7 DEF Then
<1>. QED  BY <1>2, <1>3, <1>6, <1>7

LEMMA DownIs ==
    ASSUME NEW c \in Clients
    PROVE  /\ TypeOK /\ NothingSentYet /\ stub[c] \in {"none", "serving"} =>
                 DownOf(c) = Unread(core, c, fwd[c])
           /\ TypeOK' /\ NothingSentYet' /\ stub'[c] \in {"none", "serving"} =>
                 DownOf(c)' = Unread(core', c, fwd'[c])
           /\ stub[c] \in {"closing", "closed"} => DownOf(c) = <<>>
           /\ stub'[c] \in {"closing", "closed"} => DownOf(c)' = <<>>
<1>1. ASSUME NEW s, s.chan[c] = <<>>  PROVE Unread(s, c, 0) = <<>>
  BY <1>1 DEF Unread
<1>2. ASSUME TypeOK, NothingSentYet, stub[c] \in {"none", "serving"}
      PROVE  DownOf(c) = Unread(core, c, fwd[c])
  BY <1>1, <1>2 DEF DownOf, NothingSentYet
<1>3. ASSUME TypeOK', NothingSentYet', stub'[c] \in {"none", "serving"}
      PROVE  DownOf(c)' = Unread(core', c, fwd'[c])
  BY <1>1, <1>3 DEF DownOf, NothingSentYet
<1>4. stub[c] \in {"closing", "closed"} => DownOf(c) = <<>>
  BY DEF DownOf
<1>5. stub'[c] \in {"closing", "closed"} => DownOf(c)' = <<>>
  BY DEF DownOf
<1>. QED  BY <1>2, <1>3, <1>4, <1>5

-----------------------------------------------------------------------------
(* A step in which the connection of c stays open, and its stub passes nothing on *)
Steady(c) ==
    /\ BusInv /\ BusInv'
    /\ c \in Clients
    /\ IsOpen(c) /\ IsOpen(c)'
    /\ fwd'[c] = fwd[c] /\ up'[c] = up[c]

LEMMA SteadyBasics ==
    ASSUME NEW c, Steady(c)
    PROVE  /\ c \in Clients /\ TypeOK /\ TypeOK' /\ core \in CoreType /\ core' \in CoreType
           /\ Routed(core) /\ Routed(core')
           /\ Running /\ Running' /\ stub[c] \in {"none", "serving"} /\ c \notin Closed
           /\ fwd[c] \in Nat /\ fwd[c] <= Len(core.chan[c])
BY DEF Steady, BusInv, TurnInv, TypeOK, IsOpen, Closed

LEMMA MessagesSame ==
    ASSUME BusInv, NEW c \in Clients, NEW t, RanksKept(core, t, c)
    PROVE  MessagesKept(core, t, c, Waiting(c))
<1>. SUFFICES ASSUME NEW task \in Waiting(c)
              PROVE  MessageOf(t, c, task) = MessageOf(core, c, task)
  BY DEF MessagesKept
<1>1. CASE task.content.type = "Rsp"
  <2>1. PICK m \in Requests(core, c) : m.id = task.content.req_id
    BY <1>1 DEF BusInv, AnswersRouted
  <2>2. task.content.req_id \in RoutedIds(core, c)
    BY <2>1, RoutedIn
  <2>3. Rank(t, c, task.content.req_id) = Rank(core, c, task.content.req_id)
    BY <2>2 DEF RanksKept
  <2>. QED  BY <2>3 DEF MessageOf
<1>2. CASE task.content.type # "Rsp"
  BY <1>2 DEF MessageOf
<1>. QED  BY <1>1, <1>2

LEMMA SteadyFrame ==
    ASSUME NEW c, Steady(c), RanksKept(core, core', c)
    PROVE  /\ ConnOf(c) = "open" /\ ConnOf(c)' = "open"
           /\ BusOf(c) = KeptFor(core, c) /\ BusOf(c)' = KeptFor(core', c)
           /\ DownOf(c) = Unread(core, c, fwd[c]) /\ DownOf(c)' = Unread(core', c, fwd[c])
           /\ Waiting(c)' = Waiting(c) => UpOf(c)' = UpOf(c)
<1>1. ConnOf(c) = "open" /\ ConnOf(c)' = "open"
  BY DEF Steady, ConnOf
<1>2. BusOf(c) = KeptFor(core, c) /\ BusOf(c)' = KeptFor(core', c)
  BY DEF Steady, BusOf
<1>3. DownOf(c) = Unread(core, c, fwd[c]) /\ DownOf(c)' = Unread(core', c, fwd[c])
  <2>1. stub'[c] \in {"none", "serving"}
    BY DEF Steady, IsOpen
  <2>2. NothingSentYet /\ NothingSentYet' /\ fwd'[c] = fwd[c]
    BY DEF Steady, BusInv
  <2>. QED  BY SteadyBasics, <2>1, <2>2, DownIs
<1>4. ASSUME Waiting(c)' = Waiting(c)  PROVE UpOf(c)' = UpOf(c)
  <2>1. PICK a \in Nat : InTurn(Waiting(c), a, up[c])
    BY SteadyBasics DEF Steady, BusInv, WaitInTurn
  <2>2. MessagesKept(core, core', c, Waiting(c))
    BY MessagesSame DEF Steady
  <2>3. Ups(core', c, Waiting(c), up[c]) = Ups(core, c, Waiting(c), up[c])
    BY <2>1, <2>2, UpsSame
  <2>4. UpOf(c) = Ups(core, c, Waiting(c), up[c])
    BY UpIsUps DEF Steady
  <2>5. UpOf(c)' = Ups(core', c, Waiting(c)', up'[c])
    BY UpIsUps DEF Steady
  <2>. QED  BY <1>4, <2>3, <2>4, <2>5 DEF Steady
<1>. QED  BY <1>1, <1>2, <1>3, <1>4

(* the message of c at the head of the queue is the first of UpOf *)
LEMMA UpHead ==
    ASSUME BusInv, NEW c \in Clients, IsOpen(c), Take("Message"), Sender = c
    PROVE  UpOf(c) # <<>> /\ Head(UpOf(c)) = MessageOf(core, c, Head(tasks))
<1>. DEFINE W == Waiting(c)
            h == Head(tasks)
<1>1. h \in W /\ \A x \in W : x = h \/ h.id < x.id
  BY HeadWaits DEF BusInv, Take, Sender
<1>2. PICK a \in Nat : InTurn(W, a, up[c])
  BY DEF BusInv, WaitInTurn
<1>3. UpOf(c) = Ups(core, c, W, up[c])
  BY UpIsUps
<1>. HIDE DEF W
<1>4. MessagesKept(core, core, c, W)
  BY DEF MessagesKept
<1>. HIDE DEF h
<1>5. Ups(core, c, W, up[c]) # <<>> /\ Head(Ups(core, c, W, up[c])) = MessageOf(core, c, h)
  BY <1>1, <1>2, <1>4, UpsFirst
<1>. QED  BY <1>3, <1>5 DEF h

LEMMA SteadyTaken ==
    ASSUME NEW c, Steady(c), RanksKept(core, core', c), Take("Message"), Sender = c, Continue
    PROVE  UpOf(c)' = Tail(UpOf(c))
<1>. DEFINE W == Waiting(c)
            h == Head(tasks)
            V == W \ {h}
<1>1. h \in W /\ (\A x \in W : x = h \/ h.id < x.id) /\ Waiting(c)' = V
  <2>1. WaitingOf(tasks', c) = WaitingOf(Tail(tasks), c)
    BY DEF Continue
  <2>2. Waiting(c)' = WaitingOf(tasks', c)
    BY WaitingIs
  <2>. QED  BY <2>1, <2>2, HeadWaits DEF Steady, BusInv, Take, Sender
<1>2. PICK a \in Nat : InTurn(W, a, up[c])
  BY DEF Steady, BusInv, WaitInTurn
<1>3. UpOf(c) = Ups(core, c, W, up[c])
  BY UpIsUps DEF Steady
<1>4. UpOf(c)' = Ups(core', c, V, up[c])
  <2>1. UpOf(c)' = Ups(core', c, Waiting(c)', up'[c])
    BY UpIsUps DEF Steady
  <2>. QED  BY <1>1, <2>1 DEF Steady
<1>5. MessagesKept(core, core', c, W)
  BY MessagesSame DEF Steady
<1>. HIDE DEF W, h
<1>6. Ups(core', c, V, up[c]) = Tail(Ups(core, c, W, up[c]))
  BY <1>1, <1>2, <1>5, UpsTaken
<1>. QED  BY <1>3, <1>4, <1>6

-----------------------------------------------------------------------------
(* What the changes of the tables are to c *)

LEMMA SameChannels ==
    ASSUME NEW s, NEW t, t.chan = s.chan, NEW c
    PROVE  /\ RoutedIds(t, c) = RoutedIds(s, c)
           /\ \A id : Rank(t, c, id) = Rank(s, c, id)
           /\ RanksKept(s, t, c)
           /\ NextFor(t, c) = NextFor(s, c)
           /\ t.owner = s.owner => OwnersFor(t, c) = OwnersFor(s, c)
           /\ t.pending = s.pending => PendingFor(t, c) = PendingFor(s, c)
           /\ t.subs = s.subs => SubsFor(t, c) = SubsFor(s, c)
<1>1. \A d \in Clients : Requests(t, d) = Requests(s, d)
  BY DEF Requests
<1>2. RoutedIds(t, c) = RoutedIds(s, c)
  BY <1>1, SameRouted
<1>3. \A id : Rank(t, c, id) = Rank(s, c, id)
  BY <1>2, SameRanks
<1>4. RanksKept(s, t, c)
  BY <1>3 DEF RanksKept
<1>5. NextFor(t, c) = NextFor(s, c)
  BY <1>2 DEF NextFor
<1>6. t.owner = s.owner => OwnersFor(t, c) = OwnersFor(s, c)
  BY DEF OwnersFor
<1>7. t.subs = s.subs => SubsFor(t, c) = SubsFor(s, c)
  BY DEF SubsFor
<1>8. ASSUME t.pending = s.pending  PROVE PendingFor(t, c) = PendingFor(s, c)
  <2>1. Of(t, c) = Of(s, c)
    BY <1>8 DEF Of
  <2>2. \A p : PendingOf(t, c, p) = PendingOf(s, c, p)
    BY <1>3 DEF PendingOf
  <2>. QED  BY <2>1, <2>2 DEF PendingFor
<1>. QED  BY <1>2, <1>3, <1>4, <1>5, <1>6, <1>7, <1>8

(* c subscribes, and unsubscribes *)
LEMMA SubsChange ==
    ASSUME NEW s \in CoreType, NEW c, NEW topic \in Topics, NEW v
    PROVE  /\ v = [s EXCEPT !.subs = Subscribe(@, c, topic)] => SubsFor(v, c) = Subscribe(SubsFor(s, c), 1, topic)
           /\ v = [s EXCEPT !.subs = Unsubscribe(@, c, topic)] => SubsFor(v, c) = Unsubscribe(SubsFor(s, c), 1, topic)
<1>1. ASSUME v = [s EXCEPT !.subs = Subscribe(@, c, topic)]
      PROVE  SubsFor(v, c) = Subscribe(SubsFor(s, c), 1, topic)
  <2>1. \A x : <<c, x>> \in v.subs <=> <<c, x>> \in s.subs \/ x = topic
    BY <1>1 DEF Subscribe, CoreType
  <2>. QED  BY <2>1 DEF SubsFor, Subscribe
<1>2. ASSUME v = [s EXCEPT !.subs = Unsubscribe(@, c, topic)]
      PROVE  SubsFor(v, c) = Unsubscribe(SubsFor(s, c), 1, topic)
  <2>1. \A x : <<c, x>> \in v.subs <=> <<c, x>> \in s.subs /\ x # topic
    BY <1>2 DEF Unsubscribe, CoreType
  <2>2. \A x : <<1, x>> = <<1, topic>> <=> x = topic
    OBVIOUS
  <2>3. ASSUME NEW y
        PROVE  y \in SubsFor(v, c) <=> y \in SubsFor(s, c) /\ y # <<1, topic>>
    BY <2>1, <2>2 DEF SubsFor
  <2>. QED  BY <2>3 DEF Unsubscribe
<1>. QED  BY <1>1, <1>2

LEMMA OwnerSeen ==
    ASSUME NEW s \in CoreType, NEW c \in Clients, NEW topic \in Topics
    PROVE  /\ OwnersFor(s, c) = [t \in Topics |-> OwnersFor(s, c)[t]]
           /\ s.owner = [t \in Topics |-> s.owner[t]]
           /\ OwnersFor(s, c)[topic] = IF s.owner[topic] = NoOwner THEN NoOwner
                                       ELSE IF s.owner[topic] = c THEN 1 ELSE 2
           /\ c # NoOwner
<1>1. c # NoOwner
  BY IdsType DEF NoOwner, Bus
<1>2. s.owner = [t \in Topics |-> s.owner[t]]
  BY DEF CoreType, Owners
<1>. QED  BY <1>1, <1>2 DEF OwnersFor, Whose

(* c claims a topic, and gives it up *)
LEMMA OwnersChange ==
    ASSUME NEW s \in CoreType, NEW c \in Clients, NEW topic \in Topics, NEW v
    PROVE  /\ ClaimError(OwnersFor(s, c), 1, topic) = ClaimError(s.owner, c, topic)
           /\ v = [s EXCEPT !.owner = Claim(@, c, topic)] => OwnersFor(v, c) = Claim(OwnersFor(s, c), 1, topic)
           /\ v = [s EXCEPT !.owner = Unclaim(@, c, topic)] => OwnersFor(v, c) = Unclaim(OwnersFor(s, c), 1, topic)
<1>. DEFINE o == s.owner
            b == OwnersFor(s, c)
<1>1. /\ b = [t \in Topics |-> b[t]] /\ o = [t \in Topics |-> o[t]] /\ c # NoOwner
      /\ \A t \in Topics : b[t] = IF o[t] = NoOwner THEN NoOwner ELSE IF o[t] = c THEN 1 ELSE 2
  BY OwnerSeen
<1>2. NoOwner # 1 /\ NoOwner # 2
  BY DEF NoOwner
<1>. HIDE DEF b
<1>3. ClaimError(b, 1, topic) = ClaimError(o, c, topic)
  BY <1>1, <1>2 DEF ClaimError
<1>4. ASSUME v = [s EXCEPT !.owner = Claim(@, c, topic)]
      PROVE  OwnersFor(v, c) = Claim(b, 1, topic)
  <2>1. v.owner = Claim(o, c, topic)
    BY <1>4 DEF CoreType
  <2>2. CASE ClaimError(o, c, topic) # NoError
    <3>1. v.owner = o /\ Claim(b, 1, topic) = b
      BY <1>3, <2>1, <2>2 DEF Claim
    <3>. QED  BY <3>1 DEF OwnersFor, b
  <2>3. CASE ClaimError(o, c, topic) = NoError
    <3>1. v.owner = [o EXCEPT ![topic] = c] /\ Claim(b, 1, topic) = [b EXCEPT ![topic] = 1]
      BY <1>3, <2>1, <2>3 DEF Claim
    <3>2. ASSUME NEW t \in Topics
          PROVE  (IF v.owner[t] = NoOwner THEN NoOwner ELSE Whose(c, v.owner[t]))
                   = IF t = topic THEN 1 ELSE b[t]
      <4>. HIDE DEF o
      <4>. QED  BY <1>1, <3>1 DEF Whose
    <3>3. OwnersFor(v, c) = [t \in Topics |-> IF t = topic THEN 1 ELSE b[t]]
      BY <3>2 DEF OwnersFor
    <3>4. [b EXCEPT ![topic] = 1] = [t \in Topics |-> IF t = topic THEN 1 ELSE b[t]]
      BY <1>1
    <3>. QED  BY <3>1, <3>3, <3>4
  <2>. QED  BY <2>2, <2>3
<1>5. ASSUME v = [s EXCEPT !.owner = Unclaim(@, c, topic)]
      PROVE  OwnersFor(v, c) = Unclaim(b, 1, topic)
  <2>1. v.owner = Unclaim(o, c, topic)
    BY <1>5 DEF CoreType
  <2>2. CASE ~(topic \in Concrete /\ o[topic] = c)
    <3>1. v.owner = o /\ Unclaim(b, 1, topic) = b
      BY <1>1, <1>2, <2>1, <2>2 DEF Unclaim
    <3>. QED  BY <3>1 DEF OwnersFor, b
  <2>3. CASE topic \in Concrete /\ o[topic] = c
    <3>1. v.owner = [o EXCEPT ![topic] = NoOwner] /\ Unclaim(b, 1, topic) = [b EXCEPT ![topic] = NoOwner]
      BY <1>1, <2>1, <2>3 DEF Unclaim
    <3>2. ASSUME NEW t \in Topics
          PROVE  (IF v.owner[t] = NoOwner THEN NoOwner ELSE Whose(c, v.owner[t]))
                   = IF t = topic THEN NoOwner ELSE b[t]
      <4>. HIDE DEF o
      <4>. QED  BY <1>1, <3>1 DEF Whose
    <3>3. OwnersFor(v, c) = [t \in Topics |-> IF t = topic THEN NoOwner ELSE b[t]]
      BY <3>2 DEF OwnersFor
    <3>4. [b EXCEPT ![topic] = NoOwner] = [t \in Topics |-> IF t = topic THEN NoOwner ELSE b[t]]
      BY <1>1
    <3>. QED  BY <3>1, <3>3, <3>4
  <2>. QED  BY <2>2, <2>3
<1>. QED  BY <1>3, <1>4, <1>5 DEF b

(* another client claims a topic *)
LEMMA OtherClaims ==
    ASSUME NEW s \in CoreType, NEW c \in Clients, NEW d \in Clients, d # c, NEW topic \in Topics,
           topic \in Concrete, s.owner[topic] = NoOwner,
           NEW v, v = [s EXCEPT !.owner = Claim(@, d, topic)]
    PROVE  /\ ClaimError(OwnersFor(s, c), 2, topic) = NoError
           /\ OwnersFor(v, c) = Claim(OwnersFor(s, c), 2, topic)
<1>. DEFINE o == s.owner
            b == OwnersFor(s, c)
<1>1. /\ b = [t \in Topics |-> b[t]] /\ o = [t \in Topics |-> o[t]]
      /\ \A t \in Topics : b[t] = IF o[t] = NoOwner THEN NoOwner ELSE IF o[t] = c THEN 1 ELSE 2
  BY OwnerSeen
<1>2. d # NoOwner
  BY OwnerSeen
<1>. HIDE DEF b
<1>3. ClaimError(b, 2, topic) = NoError /\ ClaimError(o, d, topic) = NoError
  BY <1>1 DEF ClaimError
<1>4. v.owner = Claim(o, d, topic)
  BY DEF CoreType
<1>5. v.owner = [o EXCEPT ![topic] = d] /\ Claim(b, 2, topic) = [b EXCEPT ![topic] = 2]
  BY <1>3, <1>4 DEF Claim
<1>6. ASSUME NEW t \in Topics
      PROVE  (IF v.owner[t] = NoOwner THEN NoOwner ELSE Whose(c, v.owner[t]))
               = IF t = topic THEN 2 ELSE b[t]
  <2>. HIDE DEF o
  <2>1. v.owner[t] = IF t = topic THEN d ELSE o[t]
    BY ONLY <1>1, <1>5, t \in Topics
  <2>. HIDE DEF b
  <2>. QED  BY <1>1, <1>2, <2>1 DEF Whose
<1>7. OwnersFor(v, c) = [t \in Topics |-> IF t = topic THEN 2 ELSE b[t]]
  BY <1>6 DEF OwnersFor
<1>8. [b EXCEPT ![topic] = 2] = [t \in Topics |-> IF t = topic THEN 2 ELSE b[t]]
  BY <1>1
<1>. QED  BY <1>3, <1>5, <1>7, <1>8 DEF b

(* a pending response is resolved *)
LEMMA PendingRemoved ==
    ASSUME NEW s \in CoreType, Routed(s), NEW c \in Clients, NEW p \in s.pending,
           NEW v, v = [s EXCEPT !.pending = @ \ {p}]
    PROVE  /\ v \in CoreType /\ Routed(v)
           /\ v.chan = s.chan /\ v.senders = s.senders /\ v.subs = s.subs /\ v.owner = s.owner
           /\ p \in Of(s, c) =>
                 /\ PendingOf(s, c, p) \in PendingFor(s, c)
                 /\ PendingFor(v, c) = PendingFor(s, c) \ {PendingOf(s, c, p)}
           /\ p \notin Of(s, c) => Gives(s, v, c, <<>>)
<1>1. /\ v.chan = s.chan /\ v.senders = s.senders /\ v.subs = s.subs /\ v.owner = s.owner
      /\ v.pending = s.pending \ {p} /\ v.next_msg_id = s.next_msg_id
  BY DEF CoreType
<1>2. v \in CoreType
  BY CoreFields, CoreUpdates DEF Pending
<1>. HIDE DEF CoreType
<1>3. \A d \in Clients : Requests(v, d) = Requests(s, d)
  BY <1>1 DEF Requests
<1>4. Routed(v)
  <2>1. s.next_msg_id <= v.next_msg_id
    BY <1>1, CoreFields
  <2>. QED  BY <1>1, <1>2, <1>3, <2>1, RoutedKept
<1>5. Of(v, c) = Of(s, c) \ {p}
  BY <1>1 DEF Of
<1>6. \A q : PendingOf(v, c, q) = PendingOf(s, c, q)
  <2>1. RoutedIds(v, c) = RoutedIds(s, c)
    BY <1>3, SameRouted
  <2>. QED  BY <2>1, SameRanks DEF PendingOf
<1>7. ASSUME p \in Of(s, c)
      PROVE  /\ PendingOf(s, c, p) \in PendingFor(s, c)
             /\ PendingFor(v, c) = PendingFor(s, c) \ {PendingOf(s, c, p)}
  <2>1. \A q \in Of(s, c) : PendingOf(s, c, q) = PendingOf(s, c, p) => q = p
    BY <1>7, PendingOfInjective DEF PendingOf
  <2>2. ASSUME NEW y
        PROVE  y \in PendingFor(v, c) <=> y \in PendingFor(s, c) /\ y # PendingOf(s, c, p)
    <3>1. y \in PendingFor(v, c) <=> \E q \in Of(s, c) \ {p} : y = PendingOf(s, c, q)
      BY <1>5, <1>6 DEF PendingFor
    <3>2. y \in PendingFor(s, c) <=> \E q \in Of(s, c) : y = PendingOf(s, c, q)
      BY DEF PendingFor
    <3>. QED  BY <2>1, <3>1, <3>2
  <2>3. PendingOf(s, c, p) \in PendingFor(s, c)
    BY <1>7 DEF PendingFor
  <2>. QED  BY <2>2, <2>3
<1>8. ASSUME p \notin Of(s, c)  PROVE Gives(s, v, c, <<>>)
  <2>1. Of(v, c) = Of(s, c)
    BY <1>5, <1>8
  <2>2. v.chan[c] = s.chan[c] \o <<>>
    BY <1>1, AppendGives
  <2>3. RoutedIds(v, c) = RoutedIds(s, c)
    BY <1>3, SameRouted
  <2>. QED  BY <1>1, <2>1, <2>2, <2>3 DEF Gives, Serves
<1>. QED  BY <1>1, <1>2, <1>4, <1>7, <1>8

(* a request is routed *)
LEMMA RequestSeen ==
    ASSUME BusInv, OnReq, NEW s \in CoreType, RequestMade(s), NEW c \in Clients
    PROVE  /\ c \notin {Sender, Server} => Gives(core, s, c, <<>>)
           /\ c \in {Sender, Server} =>
                 /\ RanksKept(core, s, c)
                 /\ Rank(s, c, core.next_msg_id) = NextFor(core, c)
                 /\ NextFor(s, c) = NextFor(core, c) + 1
                 /\ SubsFor(s, c) = SubsFor(core, c) /\ OwnersFor(s, c) = OwnersFor(core, c)
                 /\ PendingFor(s, c) = PendingFor(core, c) \cup
                       {[id |-> NextFor(core, c),
                         requester |-> IF c = Sender THEN Head(tasks).id ELSE 0,
                         responder |-> Whose(c, Server)]}
<1>1. TypeOK /\ core \in CoreType /\ Routed(core)
  BY DEF BusInv, TurnInv, TypeOK
<1>2. /\ s.subs = core.subs /\ s.owner = core.owner
      /\ s.pending = core.pending \cup {Awaited}
      /\ \A d \in Clients : s.chan[d] = IF d = Server THEN Append(core.chan[d], Request)
                                        ELSE core.chan[d]
      /\ Server \in Clients
  BY DEF RequestMade
<1>3. \A d \in Clients : \A m :
         m \in Requests(s, d) <=> m \in Requests(core, d) \/ (d = Server /\ m = Request)
  BY RequestRouted
<1>4. /\ Request.id = core.next_msg_id /\ Request.payload.client = Sender
      /\ Awaited.id = core.next_msg_id /\ Awaited.request_id = Head(tasks).id
      /\ Awaited.requester = Sender /\ Awaited.responder = Server
  BY DEF Request, ReqMsg, Payload, Awaited
<1>. HIDE DEF Request, Awaited, Server, Sender
<1>5. ASSUME c \notin {Sender, Server}  PROVE Gives(core, s, c, <<>>)
  <2>1. RoutedIds(s, c) = RoutedIds(core, c)
    <3>1. ASSUME NEW id  PROVE id \in RoutedIds(s, c) <=> id \in RoutedIds(core, c)
      BY <1>3, <1>4, <1>5, RoutedIn
    <3>2. RoutedIds(s, c) \subseteq RoutedIds(core, c) /\ RoutedIds(core, c) \subseteq RoutedIds(s, c)
      BY <3>1
    <3>. QED  BY <3>2
  <2>2. Of(s, c) = Of(core, c)
    BY <1>2, <1>4, <1>5 DEF Of
  <2>3. s.chan[c] = core.chan[c] \o <<>>
    BY <1>1, <1>2, <1>5, AppendGives
  <2>. QED  BY <1>2, <2>1, <2>2, <2>3 DEF Gives, Serves
<1>6. ASSUME c \in {Sender, Server}
      PROVE  /\ RanksKept(core, s, c)
             /\ Rank(s, c, core.next_msg_id) = NextFor(core, c)
             /\ NextFor(s, c) = NextFor(core, c) + 1
  <2>. DEFINE new == core.next_msg_id
  <2>1. ASSUME NEW id  PROVE id \in RoutedIds(s, c) <=> id \in RoutedIds(core, c) \/ id = new
    BY <1>2, <1>3, <1>4, <1>6, RoutedIn
  <2>2. new \in Nat /\ new = core.next_msg_id
    BY <1>1, CoreFields
  <2>. HIDE DEF new
  <2>3. /\ RanksKept(core, s, c)
        /\ Rank(s, c, new) = Cardinality(RoutedIds(core, c)) + 1
        /\ Cardinality(RoutedIds(s, c)) = Cardinality(RoutedIds(core, c)) + 1
    BY <1>1, <2>1, <2>2, NextRank
  <2>. QED  BY <2>2, <2>3 DEF NextFor
<1>7. SubsFor(s, c) = SubsFor(core, c) /\ OwnersFor(s, c) = OwnersFor(core, c)
  BY <1>2 DEF SubsFor, OwnersFor
<1>8. ASSUME c \in {Sender, Server}
      PROVE  PendingFor(s, c) = PendingFor(core, c) \cup
                       {[id |-> NextFor(core, c),
                         requester |-> IF c = Sender THEN Head(tasks).id ELSE 0,
                         responder |-> Whose(c, Server)]}
  <2>1. Of(s, c) = Of(core, c) \cup {Awaited}
    BY <1>2, <1>4, <1>8 DEF Of
  <2>2. ASSUME NEW p \in Of(core, c)  PROVE PendingOf(s, c, p) = PendingOf(core, c, p)
    <3>1. p.id \in RoutedIds(core, c)
      BY <1>1, PendingRouted
    <3>. QED  BY <1>6, <1>8, <3>1 DEF RanksKept, PendingOf
  <2>3. PendingOf(s, c, Awaited) = [id |-> NextFor(core, c),
                                    requester |-> IF c = Sender THEN Head(tasks).id ELSE 0,
                                    responder |-> Whose(c, Server)]
    <3>1. (Sender = c) = (c = Sender)
      OBVIOUS
    <3>. QED  BY <1>4, <1>6, <1>8, <3>1 DEF PendingOf
  <2>4. PendingFor(s, c) = PendingFor(core, c) \cup {PendingOf(s, c, Awaited)}
    BY <2>1, <2>2 DEF PendingFor
  <2>. QED  BY <2>3, <2>4
<1>. QED  BY <1>5, <1>6, <1>7, <1>8

-----------------------------------------------------------------------------
(* The ack, to its client and to others *)

LEMMA AckServes ==
    ASSUME TypeOK, Take("Message"), NEW s \in CoreType, NEW e \in Errors,
           NEW n \in Nat \cup {NoCount}, core' = Ack(s, e, n),
           NEW c \in Clients, c \notin Closed
    PROVE  /\ c # Sender => Serves(s, core', c, <<>>)
           /\ c # Sender /\ DeliverError(s, Sender) # "DeliveryFailed" => Gives(s, core', c, <<>>)
           /\ DeliverError(s, Sender) = "DeliveryFailed" => Without(s, core', Sender)
           /\ c = Sender /\ c \in s.senders => Gives(s, core', c, <<AckMsg(Head(tasks).id, e, n)>>)
<1>. DEFINE m == AckMsg(Head(tasks).id, e, n)
<1>1. m \in ServerMsg /\ m.type # "Req"
  BY HeadMessage, MessageTypes DEF TypeOK, AckMsg
<1>2. core' = Deliver(s, Sender, m)
  BY DEF Ack
<1>. HIDE DEF m
<1>3. /\ Sender # c => Serves(s, core', c, <<>>)
      /\ Sender # c /\ DeliverError(s, Sender) # "DeliveryFailed" => Gives(s, core', c, <<>>)
      /\ Sender = c /\ c \in s.senders => Gives(s, core', c, <<m>>)
  BY <1>1, <1>2, DeliverServes
<1>4. DeliverError(s, Sender) = "DeliveryFailed" => Without(s, core', Sender)
  BY <1>1, <1>2, DeliverTables
<1>. QED  BY <1>3, <1>4 DEF m

(* an error of a delivery, as the client sees it *)
Shown(e) == IF e = "UnknownClient" THEN "DeliveryFailed" ELSE e

LEMMA AckSeen ==
    ASSUME NEW s, NEW c, NEW id, NEW e, NEW n
    PROVE  Seen(s, c, AckMsg(id, e, n)) = [type |-> "Ack", id |-> id, error |-> Shown(e)]
BY DEF Seen, AckMsg, Shown

LEMMA MessageIs ==
    ASSUME NEW s, NEW c, NEW task
    PROVE  /\ MessageOf(s, c, task).id = task.id
           /\ MessageOf(s, c, task).type = IF task.content.type = "Stop" THEN "StopBus"
                                           ELSE task.content.type
           /\ task.content.type = "Rsp" =>
                 MessageOf(s, c, task).req_id = Rank(s, c, task.content.req_id)
           /\ "topic" \in DOMAIN task.content => MessageOf(s, c, task).topic = task.content.topic
BY DEF MessageOf

(* The core acks a message of c, from the state s that the message has made. *)
LEMMA Acked ==
    ASSUME NEW c, Steady(c), Take("Message"), Sender = c, Continue,
           NEW s \in CoreType, c \in s.senders, RanksKept(core, s, c),
           NEW e \in Errors, NEW n \in Nat \cup {NoCount}, core' = Ack(s, e, n)
    PROVE  /\ \A id : Rank(core', c, id) = Rank(s, c, id)
           /\ View(c)!BusTakes(Head(UpOf(c)).type)
           /\ Head(UpOf(c)) = MessageOf(core, c, Head(tasks))
           /\ BusOf(c) = KeptFor(core, c) /\ BusOf(c)' = KeptFor(s, c) /\ ConnOf(c)' = ConnOf(c)
           /\ s.chan[c] = core.chan[c] => View(c)!Answer(<<>>, Shown(e))
           /\ \A m \in ServerMsg : s.chan[c] = core.chan[c] \o <<m>> =>
                 View(c)!Answer(<<Seen(core', c, m)>>, Shown(e))
<1>. DEFINE ack == AckMsg(Head(tasks).id, e, n)
<1>1. /\ c \in Clients /\ TypeOK /\ TypeOK' /\ core \in CoreType /\ core' \in CoreType
      /\ c \notin Closed /\ fwd[c] \in Nat /\ fwd[c] <= Len(core.chan[c])
  BY SteadyBasics
<1>2. Gives(s, core', c, <<ack>>)
  BY <1>1, AckServes
<1>3. ack \in ServerMsg
  BY <1>1, HeadMessage, MessageTypes DEF TypeOK
<1>4. Seen(core', c, ack) = [type |-> "Ack", id |-> Head(tasks).id, error |-> Shown(e)]
  BY AckSeen
<1>. HIDE DEF ack
<1>5. KeptFor(core', c) = KeptFor(s, c)
  BY <1>1, <1>2, GivesKept
<1>6. core'.chan[c] = s.chan[c] \o <<ack>> /\ RoutedIds(core', c) = RoutedIds(s, c)
  BY <1>2 DEF Gives, Serves
<1>7. \A id : Rank(core', c, id) = Rank(s, c, id)
  BY <1>6, SameRanks
<1>8. RanksKept(core, core', c)
  BY <1>7 DEF RanksKept
<1>9. /\ ConnOf(c) = "open" /\ ConnOf(c)' = "open"
      /\ BusOf(c) = KeptFor(core, c) /\ BusOf(c)' = KeptFor(core', c)
      /\ DownOf(c) = Unread(core, c, fwd[c]) /\ DownOf(c)' = Unread(core', c, fwd[c])
  BY <1>8, SteadyFrame
<1>10. UpOf(c) # <<>> /\ Head(UpOf(c)) = MessageOf(core, c, Head(tasks))
  BY <1>1, UpHead DEF Steady
<1>11. UpOf(c)' = Tail(UpOf(c))
  BY <1>8, SteadyTaken
<1>12. Head(UpOf(c)).id = Head(tasks).id
  BY <1>10, MessageIs
<1>13. View(c)!BusTakes(Head(UpOf(c)).type)
  BY <1>9, <1>10, <1>11 DEF View!BusTakes, View!Asks, View!Open, View!Asked
<1>14. ASSUME s.chan[c] = core.chan[c]  PROVE View(c)!Answer(<<>>, Shown(e))
  <2>1. core'.chan[c] = Then(core.chan[c], ack)
    BY <1>6, <1>14 DEF Then
  <2>2. DownOf(c)' = Then(DownOf(c), Seen(core', c, ack)) /\ DownOf(c) \o <<>> = DownOf(c)
    BY <1>1, <1>3, <1>8, <1>9, <2>1, UnreadGrows
  <2>3. DownOf(c)' = (DownOf(c) \o <<>>) \o <<Seen(core', c, ack)>>
    BY <2>2 DEF Then
  <2>. QED  BY <1>4, <1>12, <2>3 DEF View!Answer, View!Ack, View!Asked
<1>15. ASSUME NEW m \in ServerMsg, s.chan[c] = core.chan[c] \o <<m>>
       PROVE  View(c)!Answer(<<Seen(core', c, m)>>, Shown(e))
  <2>1. core'.chan[c] = Then(Then(core.chan[c], m), ack)
    BY <1>6, <1>15 DEF Then
  <2>2. DownOf(c)' = Then(Then(DownOf(c), Seen(core', c, m)), Seen(core', c, ack))
    BY <1>1, <1>3, <1>8, <1>9, <2>1, UnreadGrows
  <2>3. DownOf(c)' = (DownOf(c) \o <<Seen(core', c, m)>>) \o <<Seen(core', c, ack)>>
    BY <2>2 DEF Then
  <2>. QED  BY <1>4, <1>12, <2>3 DEF View!Answer, View!Ack, View!Asked
<1>. QED  BY <1>5, <1>7, <1>9, <1>10, <1>13, <1>14, <1>15

-----------------------------------------------------------------------------
(* The messages of c itself *)

SetSubs(b, x) == [b EXCEPT !.subs = x]
SetOwner(b, x) == [b EXCEPT !.owner = x]
SetPending(b, x) == [b EXCEPT !.pending = x]

LEMMA KeptFields ==
    ASSUME NEW s \in CoreType, NEW c
    PROVE  /\ KeptFor(s, c).subs = SubsFor(s, c) /\ KeptFor(s, c).owner = OwnersFor(s, c)
           /\ KeptFor(s, c).pending = PendingFor(s, c) /\ KeptFor(s, c).next = NextFor(s, c)
BY KeptIs, KeptParts

LEMMA KeptChange ==
    ASSUME NEW s \in CoreType, NEW v \in CoreType, NEW c, v.chan = s.chan
    PROVE  /\ v.owner = s.owner /\ v.pending = s.pending =>
                 KeptFor(v, c) = SetSubs(KeptFor(s, c), SubsFor(v, c))
           /\ v.subs = s.subs /\ v.pending = s.pending =>
                 KeptFor(v, c) = SetOwner(KeptFor(s, c), OwnersFor(v, c))
           /\ v.subs = s.subs /\ v.owner = s.owner =>
                 KeptFor(v, c) = SetPending(KeptFor(s, c), PendingFor(v, c))
<1>. DEFINE S == SubsFor(s, c)
            O == OwnersFor(s, c)
            P == PendingFor(s, c)
            N == NextFor(s, c)
            b == KeptFor(s, c)
            T == SubsFor(v, c)
            Q == OwnersFor(v, c)
            R == PendingFor(v, c)
<1>1. /\ NextFor(v, c) = N /\ (v.owner = s.owner => Q = O) /\ (v.pending = s.pending => R = P)
      /\ v.subs = s.subs => T = S
  BY SameChannels
<1>2. b = Kept(S, O, P, N) /\ KeptFor(v, c) = Kept(T, Q, R, N)
  BY <1>1, KeptIs
<1>. HIDE DEF S, O, P, N, b, T, Q, R
<1>3. /\ SetSubs(b, T) = Kept(T, O, P, N) /\ SetOwner(b, Q) = Kept(S, Q, P, N)
      /\ SetPending(b, R) = Kept(S, O, R, N)
  BY <1>2 DEF Kept, SetSubs, SetOwner, SetPending
<1>. QED  BY <1>1, <1>2, <1>3 DEF b, T, Q, R

LEMMA Own ==
    ASSUME NEW c, Steady(c), Take("Message"), Sender = c
    PROVE  /\ c \in core.senders /\ DeliverError(core, c) = NoError
           /\ Content \in ClientContent /\ Head(tasks).content = Content
           /\ Head(tasks).id \in Nat /\ Payload \in Payloads
<1>1. /\ c \in Clients /\ TypeOK /\ Running /\ stub[c] \in {"none", "serving"} /\ c \notin Closed
      /\ RouteInv
  BY SteadyBasics DEF Steady, BusInv
<1>2. stub[c] = "serving"
  BY <1>1, Strangers DEF Take
<1>3. c \in core.senders
  BY <1>1, <1>2, Strangers
<1>4. DeliverError(core, c) = NoError
  BY <1>1, <1>3 DEF DeliverError
<1>. QED  BY <1>1, <1>3, <1>4, HeadMessage DEF TypeOK, Content

LEMMA OwnSub ==
    ASSUME NEW c, Steady(c), OnSub, Sender = c
    PROVE  View(c)!BusSub
<1>. DEFINE t == Content.topic
            s == [core EXCEPT !.subs = Subscribe(@, c, t)]
<1>1. /\ Take("Message") /\ Continue /\ Content.type = "Sub"
      /\ core' = Ack(s, NoError, NoCount)
  BY DEF OnSub, TakeMessage
<1>2. /\ c \in core.senders /\ t \in Topics /\ core \in CoreType /\ c \in Clients
      /\ Content = Head(tasks).content /\ "topic" \in DOMAIN Content
  BY <1>1, Own, ContentTopic, SteadyBasics DEF ClientContent
<1>. HIDE DEF t
<1>3. /\ s.chan = core.chan /\ s.senders = core.senders /\ s.owner = core.owner
      /\ s.pending = core.pending
  BY <1>2 DEF CoreType
<1>4. s \in CoreType
  <2>1. Subscribe(core.subs, c, t) \in Subscriptions
    BY <1>2, CoreFields DEF Subscriptions, Subscribe, Ids
  <2>. QED  BY <1>2, <2>1, CoreUpdates
<1>5. SubsFor(s, c) = Subscribe(SubsFor(core, c), 1, t)
  BY <1>2, SubsChange
<1>. HIDE DEF s
<1>6. RanksKept(core, s, c) /\ KeptFor(s, c) = SetSubs(KeptFor(core, c), SubsFor(s, c))
  BY <1>2, <1>3, <1>4, SameChannels, KeptChange
<1>7. /\ View(c)!BusTakes(Head(UpOf(c)).type)
      /\ Head(UpOf(c)) = MessageOf(core, c, Head(tasks))
      /\ BusOf(c) = KeptFor(core, c) /\ BusOf(c)' = KeptFor(s, c) /\ ConnOf(c)' = ConnOf(c)
      /\ View(c)!Answer(<<>>, Shown(NoError))
  <2>1. NoError \in Errors /\ NoCount \in Nat \cup {NoCount}
    BY ErrorTypes
  <2>. QED  BY <1>1, <1>2, <1>3, <1>4, <1>6, <2>1, Acked
<1>8. Head(UpOf(c)).type = "Sub" /\ Head(UpOf(c)).topic = t
  BY <1>1, <1>2, <1>7, MessageIs DEF t
<1>9. Shown(NoError) = NoError
  BY DEF Shown, NoError
<1>10. BusOf(c)' = [BusOf(c) EXCEPT !.subs = Subscribe(BusOf(c).subs, 1, t)]
  BY <1>2, <1>5, <1>6, <1>7, KeptFields DEF SetSubs
<1>. QED  BY <1>7, <1>8, <1>9, <1>10, ViewOperators DEF View!BusSub, View!Asked

LEMMA OwnUnsub ==
    ASSUME NEW c, Steady(c), OnUnsub, Sender = c
    PROVE  View(c)!BusUnsub
<1>. DEFINE t == Content.topic
            s == [core EXCEPT !.subs = Unsubscribe(@, c, t)]
<1>1. /\ Take("Message") /\ Continue /\ Content.type = "Unsub"
      /\ core' = Ack(s, NoError, NoCount)
  BY DEF OnUnsub, TakeMessage
<1>2. /\ c \in core.senders /\ t \in Topics /\ core \in CoreType /\ c \in Clients
      /\ Content = Head(tasks).content /\ "topic" \in DOMAIN Content
  BY <1>1, Own, ContentTopic, SteadyBasics DEF ClientContent
<1>. HIDE DEF t
<1>3. /\ s.chan = core.chan /\ s.senders = core.senders /\ s.owner = core.owner
      /\ s.pending = core.pending
  BY <1>2 DEF CoreType
<1>4. s \in CoreType
  <2>1. Unsubscribe(core.subs, c, t) \in Subscriptions
    BY <1>2, CoreFields DEF Subscriptions, Unsubscribe
  <2>. QED  BY <1>2, <2>1, CoreUpdates
<1>5. SubsFor(s, c) = Unsubscribe(SubsFor(core, c), 1, t)
  BY <1>2, SubsChange
<1>. HIDE DEF s
<1>6. RanksKept(core, s, c) /\ KeptFor(s, c) = SetSubs(KeptFor(core, c), SubsFor(s, c))
  BY <1>2, <1>3, <1>4, SameChannels, KeptChange
<1>7. /\ View(c)!BusTakes(Head(UpOf(c)).type)
      /\ Head(UpOf(c)) = MessageOf(core, c, Head(tasks))
      /\ BusOf(c) = KeptFor(core, c) /\ BusOf(c)' = KeptFor(s, c) /\ ConnOf(c)' = ConnOf(c)
      /\ View(c)!Answer(<<>>, Shown(NoError))
  <2>1. NoError \in Errors /\ NoCount \in Nat \cup {NoCount}
    BY ErrorTypes
  <2>. QED  BY <1>1, <1>2, <1>3, <1>4, <1>6, <2>1, Acked
<1>8. Head(UpOf(c)).type = "Unsub" /\ Head(UpOf(c)).topic = t
  BY <1>1, <1>2, <1>7, MessageIs DEF t
<1>9. Shown(NoError) = NoError
  BY DEF Shown, NoError
<1>10. BusOf(c)' = [BusOf(c) EXCEPT !.subs = Unsubscribe(BusOf(c).subs, 1, t)]
  BY <1>2, <1>5, <1>6, <1>7, KeptFields DEF SetSubs
<1>. QED  BY <1>7, <1>8, <1>9, <1>10, ViewOperators DEF View!BusUnsub, View!Asked

LEMMA OwnSrv ==
    ASSUME NEW c, Steady(c), OnSrv, Sender = c
    PROVE  View(c)!BusSrv
<1>. DEFINE t == Content.topic
            s == [core EXCEPT !.owner = Claim(@, c, t)]
            e == ClaimError(core.owner, c, t)
<1>1. /\ Take("Message") /\ Continue /\ Content.type = "Srv"
      /\ core' = Ack(s, e, NoCount)
  BY DEF OnSrv, TakeMessage
<1>2. /\ c \in core.senders /\ t \in Topics /\ core \in CoreType /\ c \in Clients
      /\ Content = Head(tasks).content /\ "topic" \in DOMAIN Content
  BY <1>1, Own, ContentTopic, SteadyBasics DEF ClientContent
<1>. HIDE DEF t
<1>3. /\ s.chan = core.chan /\ s.senders = core.senders /\ s.subs = core.subs
      /\ s.pending = core.pending
  BY <1>2 DEF CoreType
<1>4. s \in CoreType
  <2>1. core.owner \in Owners
    BY <1>2, CoreFields
  <2>2. Claim(core.owner, c, t) \in Owners
    BY <1>2, <2>1 DEF Owners, Claim, Ids
  <2>. QED  BY <1>2, <2>2, CoreUpdates
<1>5. OwnersFor(s, c) = Claim(OwnersFor(core, c), 1, t) /\ e = ClaimError(OwnersFor(core, c), 1, t)
  BY <1>2, OwnersChange
<1>6. Shown(e) = e /\ e \in Errors
  BY ErrorTypes DEF Shown, ClaimError, NoError
<1>. HIDE DEF s, e
<1>7. RanksKept(core, s, c) /\ KeptFor(s, c) = SetOwner(KeptFor(core, c), OwnersFor(s, c))
  BY <1>2, <1>3, <1>4, SameChannels, KeptChange
<1>8. /\ View(c)!BusTakes(Head(UpOf(c)).type)
      /\ Head(UpOf(c)) = MessageOf(core, c, Head(tasks))
      /\ BusOf(c) = KeptFor(core, c) /\ BusOf(c)' = KeptFor(s, c) /\ ConnOf(c)' = ConnOf(c)
      /\ View(c)!Answer(<<>>, Shown(e))
  <2>1. NoCount \in Nat \cup {NoCount}
    OBVIOUS
  <2>. QED  BY <1>1, <1>2, <1>3, <1>4, <1>6, <1>7, <2>1, Acked
<1>9. Head(UpOf(c)).type = "Srv" /\ Head(UpOf(c)).topic = t
  BY <1>1, <1>2, <1>8, MessageIs DEF t
<1>10. BusOf(c)' = [BusOf(c) EXCEPT !.owner = Claim(BusOf(c).owner, 1, t)]
  BY <1>2, <1>5, <1>7, <1>8, KeptFields DEF SetOwner
<1>11. e = ClaimError(BusOf(c).owner, 1, t)
  BY <1>2, <1>5, <1>8, KeptFields
<1>. QED  BY <1>6, <1>8, <1>9, <1>10, <1>11, ViewOperators DEF View!BusSrv, View!Asked

LEMMA OwnUnsrv ==
    ASSUME NEW c, Steady(c), OnUnsrv, Sender = c
    PROVE  View(c)!BusUnsrv
<1>. DEFINE t == Content.topic
            s == [core EXCEPT !.owner = Unclaim(@, c, t)]
<1>1. PICK e \in UnclaimErrors(t) :
         /\ Take("Message") /\ Continue /\ Content.type = "Unsrv"
         /\ core' = Ack(s, e, NoCount)
  BY DEF OnUnsrv, TakeMessage
<1>2. /\ c \in core.senders /\ t \in Topics /\ core \in CoreType /\ c \in Clients
      /\ Content = Head(tasks).content /\ "topic" \in DOMAIN Content
  BY <1>1, Own, ContentTopic, SteadyBasics DEF ClientContent
<1>. HIDE DEF t
<1>3. /\ s.chan = core.chan /\ s.senders = core.senders /\ s.subs = core.subs
      /\ s.pending = core.pending
  BY <1>2 DEF CoreType
<1>4. s \in CoreType
  <2>1. core.owner \in Owners /\ NoOwner \in Ids
    BY <1>2, CoreFields DEF NoOwner, Ids, Bus
  <2>2. Unclaim(core.owner, c, t) \in Owners
    BY <1>2, <2>1 DEF Owners, Unclaim
  <2>. QED  BY <1>2, <2>2, CoreUpdates
<1>5. OwnersFor(s, c) = Unclaim(OwnersFor(core, c), 1, t)
  BY <1>2, OwnersChange
<1>6. Shown(e) = e /\ e \in Errors
  BY ErrorTypes DEF Shown, UnclaimErrors, NoError
<1>. HIDE DEF s
<1>7. RanksKept(core, s, c) /\ KeptFor(s, c) = SetOwner(KeptFor(core, c), OwnersFor(s, c))
  BY <1>2, <1>3, <1>4, SameChannels, KeptChange
<1>8. /\ View(c)!BusTakes(Head(UpOf(c)).type)
      /\ Head(UpOf(c)) = MessageOf(core, c, Head(tasks))
      /\ BusOf(c) = KeptFor(core, c) /\ BusOf(c)' = KeptFor(s, c) /\ ConnOf(c)' = ConnOf(c)
      /\ View(c)!Answer(<<>>, Shown(e))
  <2>1. NoCount \in Nat \cup {NoCount}
    OBVIOUS
  <2>. QED  BY <1>1, <1>2, <1>3, <1>4, <1>6, <1>7, <2>1, Acked
<1>9. Head(UpOf(c)).type = "Unsrv" /\ Head(UpOf(c)).topic = t
  BY <1>1, <1>2, <1>8, MessageIs DEF t
<1>10. BusOf(c)' = [BusOf(c) EXCEPT !.owner = Unclaim(BusOf(c).owner, 1, t)]
  BY <1>2, <1>5, <1>7, <1>8, KeptFields DEF SetOwner
<1>11. e \in View(c)!UnclaimErrors(Head(UpOf(c)).topic) /\ View(c)!Answer(<<>>, e)
  BY <1>1, <1>6, <1>8, <1>9, ViewOperators
<1>12. BusOf(c)' = [BusOf(c) EXCEPT !.owner = View(c)!Unclaim(BusOf(c).owner, View(c)!Me,
                                                             Head(UpOf(c)).topic)]
  BY <1>9, <1>10, ViewOperators
<1>. QED  BY <1>8, <1>9, <1>11, <1>12 DEF View!BusUnsrv, View!Asked

(* a message that changes nothing *)
LEMMA OwnNothing ==
    ASSUME NEW c, Steady(c), Take("Message"), Continue, Sender = c,
           NEW e \in Errors, core' = Ack(core, e, NoCount)
    PROVE  /\ View(c)!BusTakes(Head(UpOf(c)).type)
           /\ Head(UpOf(c)) = MessageOf(core, c, Head(tasks))
           /\ BusOf(c) = KeptFor(core, c) /\ BusOf(c)' = BusOf(c) /\ ConnOf(c)' = ConnOf(c)
           /\ View(c)!Answer(<<>>, Shown(e))
<1>1. c \in core.senders /\ core \in CoreType /\ NoCount \in Nat \cup {NoCount}
  BY Own, SteadyBasics
<1>2. RanksKept(core, core, c)
  BY DEF RanksKept
<1>3. /\ View(c)!BusTakes(Head(UpOf(c)).type)
      /\ Head(UpOf(c)) = MessageOf(core, c, Head(tasks))
      /\ BusOf(c) = KeptFor(core, c) /\ BusOf(c)' = KeptFor(core, c) /\ ConnOf(c)' = ConnOf(c)
      /\ View(c)!Answer(<<>>, Shown(e))
  BY <1>1, <1>2, Acked
<1>. QED  BY <1>3

LEMMA OwnKeepAlive ==
    ASSUME NEW c, Steady(c), OnKeepAlive, Sender = c
    PROVE  View(c)!BusKeepAlive
<1>1. /\ Take("Message") /\ Continue /\ Content.type = "KeepAlive"
      /\ core' = Ack(core, NoError, NoCount) /\ NoError \in Errors
  BY ErrorTypes DEF OnKeepAlive, TakeMessage
<1>2. /\ View(c)!BusTakes(Head(UpOf(c)).type)
      /\ Head(UpOf(c)) = MessageOf(core, c, Head(tasks))
      /\ BusOf(c)' = BusOf(c) /\ ConnOf(c)' = ConnOf(c)
      /\ View(c)!Answer(<<>>, Shown(NoError))
  BY <1>1, OwnNothing
<1>3. Content = Head(tasks).content
  BY <1>1, Own
<1>4. Head(UpOf(c)).type = "KeepAlive"
  BY <1>1, <1>2, <1>3, MessageIs
<1>5. Shown(NoError) = NoError
  BY DEF Shown, NoError
<1>. QED  BY <1>2, <1>4, <1>5, ViewOperators DEF View!BusKeepAlive

LEMMA ReachedIs ==
    ASSUME NEW c \in Clients, core \in CoreType, BusOf(c) = KeptFor(core, c), NEW t \in Topics
    PROVE  View(c)!Reached(t) <=> c \in GetSubscribers(core.subs, t)
<1>1. BusOf(c).subs = SubsFor(core, c)
  BY KeptFields
<1>2. View(c)!Reached(t) <=> 1 \in GetSubscribers(SubsFor(core, c), t)
  BY <1>1, ViewOperators DEF View!Reached
<1>3. 1 \in GetSubscribers(SubsFor(core, c), t)
        <=> \E x \in Topics : <<c, x>> \in core.subs /\ <<x, t>> \in Match
  <2>1. 1 \in GetSubscribers(SubsFor(core, c), t)
          <=> \E p \in SubsFor(core, c) : <<p[2], t>> \in Match /\ p[1] = 1
    BY DEF GetSubscribers
  <2>2. \A p : p \in SubsFor(core, c)
                <=> \E x \in Topics : <<c, x>> \in core.subs /\ p = <<1, x>>
    BY DEF SubsFor
  <2>3. ASSUME NEW p \in SubsFor(core, c), <<p[2], t>> \in Match
        PROVE  \E x \in Topics : <<c, x>> \in core.subs /\ <<x, t>> \in Match
    <3>1. PICK x \in Topics : <<c, x>> \in core.subs /\ p = <<1, x>>
      BY <2>2, <2>3
    <3>. QED  BY <2>3, <3>1
  <2>4. ASSUME NEW x \in Topics, <<c, x>> \in core.subs, <<x, t>> \in Match
        PROVE  \E p \in SubsFor(core, c) : <<p[2], t>> \in Match /\ p[1] = 1
    <3>. DEFINE p == <<1, x>>
    <3>1. p \in SubsFor(core, c) /\ p[1] = 1 /\ p[2] = x
      BY <2>2, <2>4
    <3>. QED  BY <2>4, <3>1
  <2>. QED  BY <2>1, <2>3, <2>4
<1>4. c \in GetSubscribers(core.subs, t)
        <=> \E x \in Topics : <<c, x>> \in core.subs /\ <<x, t>> \in Match
  <2>1. core.subs \subseteq Ids \X Topics
    BY CoreFields DEF Subscriptions
  <2>2. c \in GetSubscribers(core.subs, t)
          <=> \E p \in core.subs : <<p[2], t>> \in Match /\ p[1] = c
    BY DEF GetSubscribers
  <2>3. \A p \in core.subs : p[2] \in Topics /\ p = <<p[1], p[2]>>
    BY <2>1
  <2>. QED  BY <2>2, <2>3
<1>. QED  BY <1>2, <1>3, <1>4

LEMMA PubSeen ==
    ASSUME NEW s, NEW c, NEW t, NEW payload
    PROVE  Seen(s, c, PubMsg(t, payload)) = View(c)!Pub(t)
BY DEF Seen, PubMsg, View!Pub

(* What the core has done with a publication, as it acks it: c may have a copy
   among those of done. *)
LEMMA Publishes ==
    ASSUME NEW c, Steady(c), TakeMessage("Pub"), NEW done \in SUBSET (Recipients \cap Clients)
    PROVE  /\ Content.topic \in Topics /\ Publication \in ServerMsg
           /\ c \in done => View(c)!Reached(Content.topic)
           /\ \A s : Seen(s, c, Publication) = View(c)!Pub(Content.topic)
           /\ DeliverAll(core, done, Publication) \in CoreType
           /\ DeliverAll(core, done, Publication).senders = core.senders
           /\ Gives(core, DeliverAll(core, done, Publication), c,
                    IF c \in done THEN <<Publication>> ELSE <<>>)
<1>1. /\ Take("Message") /\ Content.type = "Pub" /\ c \in Clients /\ TypeOK /\ core \in CoreType
  BY SteadyBasics DEF TakeMessage
<1>2. Content \in ClientContent /\ Payload \in Payloads /\ Content.topic \in Topics
  BY <1>1, HeadMessage, ContentTopic DEF TypeOK
<1>3. Publication \in ServerMsg /\ Publication.type # "Req"
  BY <1>2, MessageTypes DEF Publication, PubMsg
<1>4. BusOf(c) = KeptFor(core, c)
  BY DEF Steady, BusOf
<1>5. c \in done => View(c)!Reached(Content.topic)
  BY <1>1, <1>2, <1>4, ReachedIs DEF Recipients
<1>6. \A s : Seen(s, c, Publication) = View(c)!Pub(Content.topic)
  BY PubSeen DEF Publication
<1>. HIDE DEF Publication
<1>7. done \in SUBSET Clients
  OBVIOUS
<1>8. Gives(core, DeliverAll(core, done, Publication), c,
            IF c \in done THEN <<Publication>> ELSE <<>>)
  BY <1>1, <1>3, <1>7, DeliverAllServes
<1>9. DeliverAll(core, done, Publication) \in CoreType
  BY <1>1, <1>3, <1>7, DeliverAllType
<1>10. DeliverAll(core, done, Publication).senders = core.senders
  BY <1>1 DEF DeliverAll, CoreType
<1>. QED  BY <1>2, <1>3, <1>5, <1>6, <1>8, <1>9, <1>10

LEMMA ServesRanks ==
    ASSUME NEW s, NEW t, NEW c, NEW ms, Serves(s, t, c, ms)
    PROVE  RanksKept(s, t, c)
<1>1. RoutedIds(t, c) = RoutedIds(s, c)
  BY DEF Serves
<1>. QED  BY <1>1, SameRanks DEF RanksKept

LEMMA OwnPublished ==
    ASSUME NEW c, Steady(c), TakeMessage("Pub"), Sender = c, Continue,
           NEW done \in SUBSET (Recipients \cap Clients),
           NEW s \in CoreType, c \in s.senders,
           Serves(core, s, c, IF c \in done THEN <<Publication>> ELSE <<>>),
           NEW e \in Errors, NEW n \in Nat \cup {NoCount}, core' = Ack(s, e, n)
    PROVE  /\ View(c)!BusTakes("Pub") /\ Head(UpOf(c)).topic = Content.topic
           /\ BusOf(c) = KeptFor(core, c) /\ BusOf(c)' = KeptFor(s, c) /\ ConnOf(c)' = ConnOf(c)
           /\ View(c)!Answer(IF c \in done THEN <<View(c)!Pub(Content.topic)>> ELSE <<>>, Shown(e))
<1>1. /\ Take("Message") /\ Content.type = "Pub" /\ c \in Clients /\ core \in CoreType
      /\ Content = Head(tasks).content /\ Content \in ClientContent
  BY Own, SteadyBasics DEF TakeMessage
<1>2. RanksKept(core, s, c) /\ s.chan[c] = core.chan[c] \o (IF c \in done THEN <<Publication>> ELSE <<>>)
  <2>1. RanksKept(core, s, c)
    BY ServesRanks
  <2>. QED  BY <2>1 DEF Serves
<1>3. Publication \in ServerMsg /\ Seen(core', c, Publication) = View(c)!Pub(Content.topic)
  BY Publishes
<1>. HIDE DEF Publication
<1>4. /\ View(c)!BusTakes(Head(UpOf(c)).type)
      /\ Head(UpOf(c)) = MessageOf(core, c, Head(tasks))
      /\ BusOf(c) = KeptFor(core, c) /\ BusOf(c)' = KeptFor(s, c) /\ ConnOf(c)' = ConnOf(c)
      /\ s.chan[c] = core.chan[c] => View(c)!Answer(<<>>, Shown(e))
      /\ \A m \in ServerMsg : s.chan[c] = core.chan[c] \o <<m>> =>
            View(c)!Answer(<<Seen(core', c, m)>>, Shown(e))
  BY <1>1, <1>2, Acked
<1>5. Head(UpOf(c)).type = "Pub" /\ Head(UpOf(c)).topic = Content.topic
  <2>1. "topic" \in DOMAIN Content
    BY <1>1 DEF ClientContent
  <2>. QED  BY <1>1, <1>4, <2>1, MessageIs
<1>6. CASE c \in done
  BY <1>2, <1>3, <1>4, <1>5, <1>6
<1>7. CASE c \notin done
  <2>1. s.chan[c] = core.chan[c]
    BY <1>1, <1>2, <1>7, AppendGives
  <2>. QED  BY <1>4, <1>5, <1>7, <2>1
<1>. QED  BY <1>6, <1>7

LEMMA OwnPub ==
    ASSUME NEW c, Steady(c), OnPub, Sender = c
    PROVE  View(c)!BusPub
<1>. DEFINE s == DeliverAll(core, Recipients, Publication)
            n == Cardinality(Recipients)
            t == Content.topic
<1>1. /\ TakeMessage("Pub") /\ Continue /\ core' = Ack(s, NoError, n)
      /\ Recipients \subseteq Reachable /\ Take("Message")
  BY DEF OnPub, TakeMessage
<1>2. Recipients \in SUBSET (Recipients \cap Clients)
  BY <1>1 DEF Reachable
<1>3. n \in Nat \cup {NoCount}
  BY <1>2, ClientsFinite
<1>4. c \in core.senders /\ NoError \in Errors /\ c \in Clients /\ core \in CoreType
  BY <1>1, Own, ErrorTypes, SteadyBasics
<1>5. /\ s \in CoreType /\ s.senders = core.senders
      /\ Gives(core, s, c, IF c \in Recipients THEN <<Publication>> ELSE <<>>)
  BY <1>1, <1>2, Publishes
<1>. HIDE DEF s, n
<1>6. /\ View(c)!BusTakes("Pub") /\ Head(UpOf(c)).topic = t
      /\ BusOf(c) = KeptFor(core, c) /\ BusOf(c)' = KeptFor(s, c) /\ ConnOf(c)' = ConnOf(c)
      /\ View(c)!Answer(IF c \in Recipients THEN <<View(c)!Pub(t)>> ELSE <<>>, Shown(NoError))
  BY <1>1, <1>2, <1>3, <1>4, <1>5, OwnPublished DEF Gives
<1>7. KeptFor(s, c) = KeptFor(core, c)
  BY <1>4, <1>5, GivesKept
<1>8. c \in Recipients <=> View(c)!Reached(t)
  <2>1. t \in Topics
    BY <1>1, <1>2, Publishes
  <2>. QED  BY <1>4, <1>6, <2>1, ReachedIs DEF Recipients
<1>9. Shown(NoError) = NoError
  BY DEF Shown, NoError
<1>. HIDE DEF t
<1>. QED  BY <1>6, <1>7, <1>8, <1>9, ViewOperators DEF View!BusPub, View!Asked

LEMMA OwnPubFails ==
    ASSUME NEW c, Steady(c), OnPubFails, Sender = c
    PROVE  View(c)!BusPub
<1>. DEFINE t == Content.topic
<1>1. PICK f \in (Recipients \cap Clients) \ Reachable, done \in SUBSET Reachable :
         core' = Ack(Deliver(DeliverAll(core, done, Publication), f, Publication),
                     DeliverError(core, f), NoCount)
  BY DEF OnPubFails
<1>. DEFINE d == DeliverAll(core, done, Publication)
            s == Deliver(d, f, Publication)
            e == DeliverError(core, f)
<1>2. /\ TakeMessage("Pub") /\ Continue /\ Take("Message")
      /\ core' = Ack(s, e, NoCount)
  BY <1>1 DEF OnPubFails, TakeMessage
<1>3. done \in SUBSET (Recipients \cap Clients)
  BY DEF Reachable
<1>4. /\ c \in core.senders /\ DeliverError(core, c) = NoError /\ e \in Errors
      /\ c \in Clients /\ core \in CoreType /\ c \notin Closed /\ Routed(core)
  BY <1>2, Own, ErrorTypes, SteadyBasics
<1>5. f # c /\ e # NoError
  BY <1>4 DEF Reachable
<1>6. /\ Publication \in ServerMsg /\ t \in Topics
      /\ d \in CoreType /\ d.senders = core.senders
      /\ Gives(core, d, c, IF c \in done THEN <<Publication>> ELSE <<>>)
      /\ c \in done => View(c)!Reached(t)
  BY <1>2, <1>3, Publishes
<1>7. DeliverError(d, f) = e
  BY <1>6 DEF DeliverError
<1>. HIDE DEF d, e
<1>8. s \in CoreType
  BY <1>6, DeliverTables
<1>9. Serves(d, s, c, <<>>) /\ c \in s.senders
  <2>1. Serves(d, s, c, <<>>)
    BY <1>4, <1>5, <1>6, <1>7, DeliverServes
  <2>2. CASE SameTables(d, s)
    BY <1>4, <1>6, <2>1, <2>2 DEF SameTables
  <2>3. CASE Without(d, s, f)
    BY <1>4, <1>5, <1>6, <2>1, <2>3 DEF Without
  <2>. QED  BY <1>6, <2>2, <2>3, DeliverTables
<1>. HIDE DEF s
<1>10. Serves(core, s, c, IF c \in done THEN <<Publication>> ELSE <<>>)
  <2>1. (IF c \in done THEN <<Publication>> ELSE <<>>) \in Seq(ServerMsg)
    BY <1>6
  <2>. QED  BY <1>4, <1>6, <1>8, <1>9, <2>1, ServesThen DEF Gives
<1>11. NoCount \in Nat \cup {NoCount}
  OBVIOUS
<1>12. /\ View(c)!BusTakes("Pub") /\ Head(UpOf(c)).topic = t
       /\ BusOf(c) = KeptFor(core, c) /\ BusOf(c)' = KeptFor(s, c) /\ ConnOf(c)' = ConnOf(c)
       /\ View(c)!Answer(IF c \in done THEN <<View(c)!Pub(t)>> ELSE <<>>, Shown(e))
  BY <1>2, <1>3, <1>4, <1>8, <1>9, <1>10, <1>11, OwnPublished
<1>13. BusOf(c)' \in View(c)!Leavings(BusOf(c))
  BY <1>4, <1>8, <1>10, <1>12, ServesLeaves
<1>14. Shown(e) = "DeliveryFailed"
  BY <1>5 DEF Shown, e, DeliverError
<1>. HIDE DEF t
<1>. QED  BY <1>6, <1>12, <1>13, <1>14 DEF View!BusPub, View!Asked

LEMMA ServerSeen ==
    ASSUME NEW s \in CoreType, NEW c \in Clients, NEW t \in Topics
    PROVE  /\ GetOwner(OwnersFor(s, c), t)
                = IF GetOwner(s.owner, t) = NoOwner THEN NoOwner
                  ELSE IF GetOwner(s.owner, t) = c THEN 1 ELSE 2
           /\ GetOwner(s.owner, t) # NoOwner =>
                 OwnersFor(s, c)[t] = Whose(c, GetOwner(s.owner, t))
<1>1. OwnersFor(s, c)[t] = IF s.owner[t] = NoOwner THEN NoOwner
                           ELSE IF s.owner[t] = c THEN 1 ELSE 2
  BY OwnerSeen
<1>. QED  BY <1>1 DEF GetOwner, Whose

(* The bus of c routes the request, from c or to it. *)
LEMMA Routes ==
    ASSUME BusInv, OnReq, NEW s \in CoreType, RequestMade(s), NEW c \in Clients,
           c \in {Sender, Server}, BusOf(c) = KeptFor(core, c)
    PROVE  /\ KeptFor(s, c) = View(c)!Route(IF c = Sender THEN Head(tasks).id ELSE 0, Content.topic)
           /\ Content.topic \in Topics
           /\ RanksKept(core, s, c)
           /\ Rank(s, c, core.next_msg_id) = BusOf(c).next
           /\ GetOwner(BusOf(c).owner, Content.topic) = Whose(c, Server)
<1>. DEFINE S == SubsFor(core, c)
            O == OwnersFor(core, c)
            P == PendingFor(core, c)
            N == NextFor(core, c)
            t == Content.topic
            from == IF c = Sender THEN Head(tasks).id ELSE 0
            x == [id |-> N, requester |-> from, responder |-> Whose(c, Server)]
            b == BusOf(c)
<1>1. core \in CoreType /\ Content \in ClientContent /\ Content.type = "Req" /\ Server # NoOwner
  BY HeadMessage DEF BusInv, TurnInv, TypeOK, OnReq, TakeMessage
<1>2. t \in Topics
  BY <1>1, ContentTopic
<1>3. /\ RanksKept(core, s, c) /\ Rank(s, c, core.next_msg_id) = N /\ NextFor(s, c) = N + 1
      /\ SubsFor(s, c) = S /\ OwnersFor(s, c) = O /\ PendingFor(s, c) = P \cup {x}
  BY RequestSeen
<1>4. O[t] = Whose(c, Server) /\ GetOwner(O, t) = Whose(c, Server)
  BY <1>1, <1>2, ServerSeen DEF Server, Whose
<1>5. b = Kept(S, O, P, N)
  BY <1>1, KeptIs
<1>6. b.owner = O /\ b.pending = P /\ b.next = N
  BY <1>5, KeptParts
<1>. DEFINE Q == P \cup {x}
<1>7. KeptFor(s, c) = Kept(S, O, Q, N + 1)
  BY <1>3, KeptIs
<1>. HIDE DEF S, O, P, N, b, Q, t, from
<1>8. [[b EXCEPT !.next = N + 1] EXCEPT !.pending = Q] = Kept(S, O, Q, N + 1)
  <2>. DEFINE d == [b EXCEPT !.next = N + 1]
  <2>1. d = Kept(S, O, P, N + 1)
    BY <1>5 DEF Kept
  <2>. HIDE DEF d
  <2>2. [d EXCEPT !.pending = Q] = Kept(S, O, Q, N + 1)
    BY <2>1 DEF Kept
  <2>. QED  BY <2>2 DEF d
<1>9. [b EXCEPT !.next = b.next + 1,
                !.pending = b.pending \cup
                   {[id |-> b.next, requester |-> from, responder |-> b.owner[t]]}]
        = [[b EXCEPT !.next = N + 1] EXCEPT !.pending = Q]
  <2>1. b.pending \cup {[id |-> b.next, requester |-> from, responder |-> b.owner[t]]} = Q
    BY <1>4, <1>6 DEF Q
  <2>. HIDE DEF Q
  <2>. QED  BY <1>6, <2>1
<1>10. View(c)!Route(from, t) = KeptFor(s, c)
  BY <1>7, <1>8, <1>9 DEF View!Route, b
<1>. QED  BY <1>2, <1>3, <1>4, <1>6, <1>10 DEF b, from, t

LEMMA OwnReqNotServed ==
    ASSUME NEW c, Steady(c), OnReqNotServed, Sender = c
    PROVE  View(c)!BusReq
<1>. DEFINE e == "ServiceNotFound"
<1>1. /\ Take("Message") /\ Continue /\ Content.type = "Req" /\ Server = NoOwner
      /\ core' = Ack(core, e, NoCount) /\ e \in Errors
  BY ErrorTypes DEF OnReqNotServed, TakeMessage
<1>2. /\ Content.topic \in Topics /\ core \in CoreType /\ c \in Clients
      /\ Content = Head(tasks).content /\ "topic" \in DOMAIN Content
  BY <1>1, Own, ContentTopic, SteadyBasics DEF ClientContent
<1>3. /\ View(c)!BusTakes(Head(UpOf(c)).type)
      /\ Head(UpOf(c)) = MessageOf(core, c, Head(tasks)) /\ BusOf(c) = KeptFor(core, c)
      /\ BusOf(c)' = BusOf(c) /\ ConnOf(c)' = ConnOf(c)
      /\ View(c)!Answer(<<>>, Shown(e))
  BY <1>1, OwnNothing
<1>4. Head(UpOf(c)).type = "Req" /\ Head(UpOf(c)).topic = Content.topic
  BY <1>1, <1>2, <1>3, MessageIs
<1>5. GetOwner(BusOf(c).owner, Head(UpOf(c)).topic) = NoOwner
  BY <1>1, <1>2, <1>3, <1>4, ServerSeen, KeptFields DEF Server
<1>6. Shown(e) = e
  BY DEF Shown
<1>. QED  BY <1>3, <1>4, <1>5, <1>6, ViewOperators DEF View!BusReq, View!Asked

LEMMA OwnReqFails ==
    ASSUME NEW c, Steady(c), OnReqFails, Sender = c
    PROVE  View(c)!BusReq
<1>. DEFINE e == DeliverError(core, Server)
            s == Deliver(core, Server, Request)
<1>1. /\ Take("Message") /\ Continue /\ Content.type = "Req" /\ Server # NoOwner
      /\ core' = Ack(s, e, NoCount) /\ e \in Errors /\ e # NoError
  BY ErrorTypes DEF OnReqFails, TakeMessage
<1>2. /\ Content.topic \in Topics /\ core \in CoreType /\ c \in Clients /\ Routed(core)
      /\ Content = Head(tasks).content /\ "topic" \in DOMAIN Content /\ c \notin Closed
      /\ c \in core.senders /\ DeliverError(core, c) = NoError /\ Payload \in Payloads
  BY <1>1, Own, ContentTopic, SteadyBasics DEF ClientContent
<1>3. Request \in ServerMsg
  BY <1>2, CoreFields, MessageTypes DEF Request
<1>4. Server # c
  BY <1>1, <1>2
<1>. HIDE DEF Request
<1>5. Serves(core, s, c, <<>>) /\ s \in CoreType
  BY <1>1, <1>2, <1>3, <1>4, DeliverServes, DeliverTables
<1>6. c \in s.senders
  <2>1. CASE SameTables(core, s)
    BY <1>2, <2>1 DEF SameTables
  <2>2. CASE Without(core, s, Server)
    BY <1>2, <1>4, <2>2 DEF Without
  <2>. QED  BY <1>2, <1>3, <2>1, <2>2, DeliverTables
<1>7. Shown(e) = "DeliveryFailed"
  BY <1>1 DEF Shown, DeliverError
<1>. HIDE DEF s, e
<1>8. RanksKept(core, s, c) /\ s.chan[c] = core.chan[c]
  <2>1. s.chan[c] = core.chan[c] \o <<>>
    BY <1>5 DEF Serves
  <2>. QED  BY <1>2, <1>5, <2>1, ServesRanks, AppendGives
<1>9. /\ View(c)!BusTakes(Head(UpOf(c)).type)
      /\ Head(UpOf(c)) = MessageOf(core, c, Head(tasks))
      /\ BusOf(c) = KeptFor(core, c) /\ BusOf(c)' = KeptFor(s, c) /\ ConnOf(c)' = ConnOf(c)
      /\ View(c)!Answer(<<>>, Shown(e))
  <2>1. NoCount \in Nat \cup {NoCount}
    OBVIOUS
  <2>. QED  BY <1>1, <1>5, <1>6, <1>8, <2>1, Acked
<1>10. Head(UpOf(c)).type = "Req" /\ Head(UpOf(c)).topic = Content.topic
  BY <1>1, <1>2, <1>9, MessageIs
<1>11. GetOwner(BusOf(c).owner, Head(UpOf(c)).topic) = 2
  BY <1>1, <1>2, <1>4, <1>9, <1>10, ServerSeen, KeptFields DEF Server
<1>12. BusOf(c)' \in View(c)!Leavings(BusOf(c))
  BY <1>2, <1>5, <1>9, ServesLeaves
<1>. QED  BY <1>7, <1>9, <1>10, <1>11, <1>12, ViewOperators DEF View!BusReq, View!Asked

LEMMA OwnReq ==
    ASSUME NEW c, Steady(c), OnReq, Sender = c
    PROVE  View(c)!BusReq
<1>1. /\ Take("Message") /\ Continue /\ Content.type = "Req" /\ TypeOK /\ BusInv
  BY SteadyBasics DEF OnReq, TakeMessage, Steady
<1>2. PICK s \in CoreType : RequestMade(s)
  BY <1>1, RequestState
<1>3. /\ core' = Ack(s, NoError, NoCount) /\ s.senders = core.senders
      /\ s.chan[c] = IF c = Server THEN Append(core.chan[c], Request) ELSE core.chan[c]
      /\ Server \in Clients /\ Request \in ServerMsg
  BY <1>2, SteadyBasics DEF RequestMade
<1>4. /\ core \in CoreType /\ c \in Clients
      /\ Content = Head(tasks).content /\ Content \in ClientContent
      /\ c \in s.senders
  BY <1>1, <1>3, Own, SteadyBasics
<1>5. BusOf(c) = KeptFor(core, c)
  BY DEF Steady, BusOf
<1>6. /\ KeptFor(s, c) = View(c)!Route(Head(tasks).id, Content.topic)
      /\ RanksKept(core, s, c)
      /\ Rank(s, c, core.next_msg_id) = BusOf(c).next
      /\ GetOwner(BusOf(c).owner, Content.topic) = Whose(c, Server)
  BY <1>1, <1>2, <1>4, <1>5, Routes
<1>7. /\ \A id : Rank(core', c, id) = Rank(s, c, id)
      /\ View(c)!BusTakes(Head(UpOf(c)).type)
      /\ Head(UpOf(c)) = MessageOf(core, c, Head(tasks))
      /\ BusOf(c)' = KeptFor(s, c) /\ ConnOf(c)' = ConnOf(c)
      /\ s.chan[c] = core.chan[c] => View(c)!Answer(<<>>, Shown(NoError))
      /\ \A m \in ServerMsg : s.chan[c] = core.chan[c] \o <<m>> =>
            View(c)!Answer(<<Seen(core', c, m)>>, Shown(NoError))
  <2>1. NoError \in Errors /\ NoCount \in Nat \cup {NoCount}
    BY ErrorTypes
  <2>. QED  BY <1>1, <1>3, <1>4, <1>6, <2>1, Acked
<1>8. /\ Head(UpOf(c)).type = "Req" /\ Head(UpOf(c)).topic = Content.topic
      /\ Head(UpOf(c)).id = Head(tasks).id
  <2>1. "topic" \in DOMAIN Content
    BY <1>1, <1>4 DEF ClientContent
  <2>. QED  BY <1>1, <1>4, <1>7, <2>1, MessageIs
<1>9. Shown(NoError) = NoError
  BY DEF Shown, NoError
<1>10. BusOf(c)' = View(c)!Route(Head(UpOf(c)).id, Head(UpOf(c)).topic)
  BY <1>6, <1>7, <1>8
<1>11. CASE Server # c
  <2>1. View(c)!Answer(<<>>, NoError)
    BY <1>3, <1>7, <1>9, <1>11
  <2>2. GetOwner(BusOf(c).owner, Head(UpOf(c)).topic) = 2
    BY <1>6, <1>8, <1>11 DEF Whose
  <2>. QED  BY <1>7, <1>8, <1>10, <2>1, <2>2, ViewOperators DEF View!BusReq, View!Asked
<1>12. CASE Server = c
  <2>1. s.chan[c] = core.chan[c] \o <<Request>>
    BY <1>3, <1>4, <1>12, AppendGives
  <2>2. Seen(core', c, Request) = View(c)!Req(BusOf(c).next, Head(UpOf(c)).topic)
    <3>1. /\ Request.type = "Req" /\ Request.id = core.next_msg_id
          /\ Request.topic = Content.topic
      BY DEF Request, ReqMsg
    <3>. HIDE DEF Request
    <3>. QED  BY <1>6, <1>7, <1>8, <3>1 DEF Seen, View!Req
  <2>3. View(c)!Answer(<<Seen(core', c, Request)>>, NoError)
    BY <1>3, <1>7, <1>9, <2>1
  <2>4. GetOwner(BusOf(c).owner, Head(UpOf(c)).topic) = 1
    BY <1>6, <1>8, <1>12 DEF Whose
  <2>. QED  BY <1>7, <1>8, <1>10, <2>2, <2>3, <2>4, ViewOperators DEF View!BusReq, View!Asked
<1>. QED  BY <1>11, <1>12

(* The core answers the request that p waits for: p is removed, which makes
   the state v, and its requester is told, which makes s. *)
Responding(p, st, payload, m, v, s) ==
    /\ m = RspMsg(p.request_id, st, payload)
    /\ v = [core EXCEPT !.pending = @ \ {p}]
    /\ s = Respond(core, p, st, payload)

(* what c sees of it *)
Responded(c, p, st, m, v, s) ==
    /\ m \in ServerMsg /\ v \in CoreType /\ Routed(v) /\ s \in CoreType
    /\ RanksKept(core, s, c)
    /\ \A t : Seen(t, c, m) = View(c)!Rsp(p.request_id, st)
    /\ p.requester = c /\ c \in core.senders =>
          Gives(v, s, c, <<m>>) /\ s.chan[c] = core.chan[c] \o <<m>>
    /\ p.requester # c => Serves(v, s, c, <<>>) /\ s.chan[c] = core.chan[c]
    /\ p.requester # c /\ DeliverError(core, p.requester) # "DeliveryFailed" =>
          Gives(v, s, c, <<>>)
    /\ c \in core.senders => c \in s.senders
    /\ p \in Of(core, c) =>
          /\ PendingOf(core, c, p) \in PendingFor(core, c)
          /\ KeptFor(v, c) = SetPending(KeptFor(core, c),
                                        PendingFor(core, c) \ {PendingOf(core, c, p)})
    /\ p \notin Of(core, c) => Gives(core, v, c, <<>>)

LEMMA Responds ==
    ASSUME TypeOK, Routed(core), NEW p \in core.pending, NEW c \in Clients, c \notin Closed,
           NEW st \in {"Ok", "Timeout"}, NEW payload \in Payloads,
           NEW m, NEW v, NEW s, Responding(p, st, payload, m, v, s)
    PROVE  Responded(c, p, st, m, v, s)
<1>. USE DEF Responding
<1>1. core \in CoreType /\ p \in PendingResponse /\ p.request_id \in Nat
  BY CoreFields DEF TypeOK, Pending, PendingResponse
<1>2. m \in ServerMsg /\ m.type = "Rsp"
  BY <1>1, MessageTypes DEF RspMsg
<1>3. /\ v \in CoreType /\ Routed(v)
      /\ v.chan = core.chan /\ v.senders = core.senders
      /\ v.subs = core.subs /\ v.owner = core.owner
      /\ p \in Of(core, c) =>
            /\ PendingOf(core, c, p) \in PendingFor(core, c)
            /\ PendingFor(v, c) = PendingFor(core, c) \ {PendingOf(core, c, p)}
      /\ p \notin Of(core, c) => Gives(core, v, c, <<>>)
  BY <1>1, PendingRemoved
<1>4. s = Deliver(v, p.requester, m)
  BY DEF Respond
<1>5. \A t : Seen(t, c, m) = View(c)!Rsp(p.request_id, st)
  BY DEF Seen, RspMsg, View!Rsp
<1>6. \A d : DeliverError(v, d) = DeliverError(core, d)
  BY <1>3 DEF DeliverError
<1>7. s \in CoreType
  BY <1>2, <1>3, <1>4, DeliverTables
<1>8. KeptFor(v, c) = SetPending(KeptFor(core, c), PendingFor(v, c))
  BY <1>1, <1>3, KeptChange
<1>9. RoutedIds(v, c) = RoutedIds(core, c)
  <2>1. \A d \in Clients : Requests(v, d) = Requests(core, d)
    BY <1>3 DEF Requests
  <2>. QED  BY <2>1, SameRouted
<1>. DEFINE d == p.requester
<1>10. /\ d # c => Serves(v, s, c, <<>>)
       /\ d # c /\ DeliverError(v, d) # "DeliveryFailed" => Gives(v, s, c, <<>>)
       /\ d = c /\ c \in v.senders => Gives(v, s, c, <<m>>)
  <2>1. m.type # "Req" /\ s = Deliver(v, d, m)
    BY <1>2, <1>4
  <2>. HIDE DEF d
  <2>2. v \in CoreType /\ m \in ServerMsg
    BY <1>2, <1>3
  <2>3. /\ d # c => Serves(v, Deliver(v, d, m), c, <<>>)
        /\ d # c /\ DeliverError(v, d) # "DeliveryFailed" => Gives(v, Deliver(v, d, m), c, <<>>)
        /\ d = c /\ c \in v.senders => Gives(v, Deliver(v, d, m), c, <<m>>)
    BY ONLY <2>1, <2>2, c \in Clients, c \notin Closed, DeliverServes
  <2>. QED  BY ONLY <2>1, <2>3
<1>11. d # c => s.chan[c] = core.chan[c]
  <2>1. core.chan[c] \o <<>> = core.chan[c]
    BY <1>1, AppendGives
  <2>. QED  BY <1>3, <1>10, <2>1 DEF Serves
<1>12. d = c /\ c \in v.senders => s.chan[c] = core.chan[c] \o <<m>>
  BY <1>3, <1>10 DEF Gives, Serves
<1>13. RanksKept(core, s, c)
  <2>1. RoutedIds(s, c) = RoutedIds(v, c)
    <3>1. CASE m.type # "Req" /\ d # c
      BY <1>10, <3>1 DEF Serves
    <3>2. CASE d = c /\ c \in v.senders
      BY <1>10, <3>2 DEF Gives, Serves
    <3>3. CASE d = c /\ c \notin v.senders
      <4>1. DeliverError(v, d) = "UnknownClient"
        BY <3>3 DEF DeliverError
      <4>2. s.chan = v.chan
        BY <1>3, <1>4, <4>1 DEF Deliver, TakeMsgId, CoreType, NoError
      <4>3. \A x \in Clients : Requests(s, x) = Requests(v, x)
        BY <4>2 DEF Requests
      <4>. QED  BY <4>3, SameRouted
    <3>. QED  BY <1>2, <3>1, <3>2, <3>3
  <2>. QED  BY <1>9, <2>1, SameRanks DEF RanksKept
<1>14. c \in core.senders => c \in s.senders
  <2>1. ASSUME c \in core.senders, d = c  PROVE DeliverError(v, d) = NoError
    BY <1>3, <2>1 DEF DeliverError
  <2>2. CASE SameTables(v, s)
    BY <1>3, <2>2 DEF SameTables
  <2>3. CASE Without(v, s, d) /\ DeliverError(v, d) = "DeliveryFailed"
    BY <1>3, <2>1, <2>3 DEF Without, NoError
  <2>. QED  BY <1>2, <1>3, <1>4, <2>2, <2>3, DeliverTables
<1>. HIDE DEF d
<1>. QED  BY <1>2, <1>3, <1>5, <1>6, <1>7, <1>8, <1>10, <1>11, <1>12, <1>13, <1>14 DEF d, Responded

(* c answers: its message names a request that it was given. *)
LEMMA AnswerOf ==
    ASSUME NEW c, Steady(c), TakeMessage("Rsp"), Sender = c
    PROVE  \A p \in Of(core, c) :
              PendingOf(core, c, p).id = Rank(core, c, Content.req_id)
                /\ PendingOf(core, c, p).responder = 1 <=> MayAnswer(p)
<1>1. /\ Take("Message") /\ Content.type = "Rsp" /\ Content = Head(tasks).content
      /\ c \in Clients /\ core \in CoreType /\ Routed(core)
  BY Own, SteadyBasics DEF TakeMessage
<1>2. Head(tasks) \in Waiting(c)
  BY <1>1, HeadWaits DEF Steady, BusInv, Take, Sender
<1>3. PICK m \in Requests(core, c) : m.id = Content.req_id
  BY <1>1, <1>2 DEF Steady, BusInv, AnswersRouted
<1>4. Content.req_id \in RoutedIds(core, c)
  BY <1>1, <1>3, RoutedIn
<1>. SUFFICES ASSUME NEW p \in Of(core, c)
              PROVE  PendingOf(core, c, p).id = Rank(core, c, Content.req_id)
                       /\ PendingOf(core, c, p).responder = 1 <=> MayAnswer(p)
  OBVIOUS
<1>5. p.id \in RoutedIds(core, c)
  BY <1>1, PendingRouted
<1>6. Rank(core, c, p.id) = Rank(core, c, Content.req_id) <=> p.id = Content.req_id
  BY <1>1, <1>4, <1>5, RankInjective
<1>7. PendingOf(core, c, p).id = Rank(core, c, p.id)
      /\ (PendingOf(core, c, p).responder = 1 <=> p.responder = c)
  BY DEF PendingOf, Whose
<1>. QED  BY <1>6, <1>7 DEF MayAnswer

LEMMA OwnRspInvalid ==
    ASSUME NEW c, Steady(c), OnRspInvalid, Sender = c
    PROVE  View(c)!BusRsp
<1>. DEFINE e == "InvalidRequestId"
<1>1. /\ Take("Message") /\ Continue /\ Content.type = "Rsp" /\ TakeMessage("Rsp")
      /\ core' = Ack(core, e, NoCount) /\ e \in Errors
      /\ \A p \in core.pending : ~MayAnswer(p)
  BY ErrorTypes DEF OnRspInvalid, TakeMessage
<1>2. Content = Head(tasks).content /\ core \in CoreType /\ c \in Clients
  BY <1>1, Own, SteadyBasics
<1>3. /\ View(c)!BusTakes(Head(UpOf(c)).type)
      /\ Head(UpOf(c)) = MessageOf(core, c, Head(tasks)) /\ BusOf(c) = KeptFor(core, c)
      /\ BusOf(c)' = BusOf(c) /\ ConnOf(c)' = ConnOf(c)
      /\ View(c)!Answer(<<>>, Shown(e))
  BY <1>1, OwnNothing
<1>4. Head(UpOf(c)).type = "Rsp" /\ Head(UpOf(c)).req_id = Rank(core, c, Content.req_id)
  BY <1>1, <1>2, <1>3, MessageIs
<1>5. ASSUME NEW x \in BusOf(c).pending  PROVE ~(x.id = Head(UpOf(c)).req_id /\ x.responder = 1)
  <2>1. x \in PendingFor(core, c)
    BY <1>2, <1>3, KeptFields
  <2>2. PICK p \in Of(core, c) : x = PendingOf(core, c, p)
    BY <2>1 DEF PendingFor
  <2>3. p \in core.pending
    BY DEF Of
  <2>. QED  BY <1>1, <1>4, <2>2, <2>3, AnswerOf
<1>6. {x \in BusOf(c).pending : x.id = Head(UpOf(c)).req_id /\ x.responder = View(c)!Me} = {}
  BY <1>5, ViewOperators
<1>7. Shown(e) = e
  BY DEF Shown
<1>. QED  BY <1>3, <1>4, <1>6, <1>7 DEF View!BusRsp, View!Asked

LEMMA OwnRsp ==
    ASSUME NEW c, Steady(c), OnRsp, Sender = c
    PROVE  View(c)!BusRsp
<1>1. /\ Take("Message") /\ Continue /\ Content.type = "Rsp" /\ TakeMessage("Rsp")
  BY DEF OnRsp, TakeMessage
<1>2. PICK p \in core.pending :
         /\ MayAnswer(p)
         /\ core' = Ack(Respond(core, p, "Ok", Payload), DeliverError(core, p.requester), NoCount)
  BY DEF OnRsp
<1>3. /\ Content = Head(tasks).content /\ core \in CoreType /\ c \in Clients /\ TypeOK
      /\ Routed(core) /\ c \notin Closed /\ c \in core.senders /\ Payload \in Payloads
      /\ DeliverError(core, c) = NoError
  BY <1>1, Own, SteadyBasics
<1>. DEFINE m == RspMsg(p.request_id, "Ok", Payload)
            v == [core EXCEPT !.pending = @ \ {p}]
            s == Respond(core, p, "Ok", Payload)
            e == DeliverError(core, p.requester)
            x == PendingOf(core, c, p)
<1>4. p \in Of(core, c) /\ p.responder = c
  BY <1>2 DEF MayAnswer, Of
<1>5. /\ x.id = Rank(core, c, Content.req_id) /\ x.responder = 1
      /\ x.requester = (IF p.requester = c THEN p.request_id ELSE 0) /\ p.request_id # 0
  BY <1>1, <1>2, <1>3, <1>4, AnswerOf, PendingRouted DEF PendingOf
<1>. HIDE DEF e, x
<1>6. /\ m \in ServerMsg /\ v \in CoreType /\ Routed(v) /\ s \in CoreType
      /\ RanksKept(core, s, c)
      /\ Seen(core', c, m) = View(c)!Rsp(p.request_id, "Ok")
      /\ p.requester = c => Gives(v, s, c, <<m>>) /\ s.chan[c] = core.chan[c] \o <<m>>
      /\ p.requester # c => Serves(v, s, c, <<>>) /\ s.chan[c] = core.chan[c]
      /\ p.requester # c /\ e # "DeliveryFailed" => Gives(v, s, c, <<>>)
      /\ c \in s.senders
      /\ x \in PendingFor(core, c)
      /\ KeptFor(v, c) = SetPending(KeptFor(core, c), PendingFor(core, c) \ {x})
  <2>1. Responding(p, "Ok", Payload, m, v, s) /\ "Ok" \in {"Ok", "Timeout"}
    BY DEF Responding
  <2>2. e = DeliverError(core, p.requester) /\ x = PendingOf(core, c, p)
    BY DEF e, x
  <2>. HIDE DEF m, v, s
  <2>3. Responded(c, p, "Ok", m, v, s)
    BY ONLY <1>3, <2>1, p \in core.pending, Responds
  <2>4. Seen(core', c, m) = View(c)!Rsp(p.request_id, "Ok")
    BY ONLY <2>3 DEF Responded
  <2>. QED  BY ONLY <1>3, <1>4, <2>2, <2>3, <2>4 DEF Responded
<1>7. core' = Ack(s, e, NoCount) /\ e \in Errors /\ NoCount \in Nat \cup {NoCount}
  BY <1>2, ErrorTypes DEF e
<1>8. e = NoError \/ (Shown(e) = "DeliveryFailed" /\ p.requester # c)
  BY <1>3 DEF Shown, DeliverError, e
<1>. HIDE DEF m, v, s
<1>9. /\ View(c)!BusTakes(Head(UpOf(c)).type)
      /\ Head(UpOf(c)) = MessageOf(core, c, Head(tasks))
      /\ BusOf(c) = KeptFor(core, c) /\ BusOf(c)' = KeptFor(s, c) /\ ConnOf(c)' = ConnOf(c)
      /\ s.chan[c] = core.chan[c] => View(c)!Answer(<<>>, Shown(e))
      /\ \A n \in ServerMsg : s.chan[c] = core.chan[c] \o <<n>> =>
            View(c)!Answer(<<Seen(core', c, n)>>, Shown(e))
  BY <1>1, <1>3, <1>6, <1>7, Acked
<1>10. Head(UpOf(c)).type = "Rsp" /\ Head(UpOf(c)).req_id = Rank(core, c, Content.req_id)
  BY <1>1, <1>3, <1>9, MessageIs
<1>. DEFINE mine == {y \in BusOf(c).pending : y.id = Head(UpOf(c)).req_id
                                                /\ y.responder = View(c)!Me}
            answered == [BusOf(c) EXCEPT !.pending = BusOf(c).pending \ {x}]
<1>11. x \in mine
  BY <1>3, <1>5, <1>6, <1>9, <1>10, KeptFields, ViewOperators
<1>12. answered = KeptFor(v, c)
  BY <1>3, <1>6, <1>9, KeptFields DEF SetPending
<1>13. Shown(NoError) = NoError
  BY DEF Shown, NoError
<1>14. \/ View(c)!Answer(View(c)!Resolve(x, "Ok"), NoError) /\ BusOf(c)' = answered
       \/ /\ x.requester = View(c)!NoCall
          /\ View(c)!Answer(<<>>, "DeliveryFailed")
          /\ BusOf(c)' \in View(c)!Leavings(answered)
  <2>. HIDE DEF answered, mine
  <2>1. CASE p.requester = c
    <3>1. View(c)!Answer(<<View(c)!Rsp(p.request_id, "Ok")>>, NoError)
      BY <1>6, <1>8, <1>9, <1>13, <2>1
    <3>2. View(c)!Resolve(x, "Ok") = <<View(c)!Rsp(p.request_id, "Ok")>>
      BY <1>5, <2>1, ViewOperators DEF View!Resolve
    <3>3. BusOf(c)' = answered
      BY <1>6, <1>9, <1>12, <2>1, GivesKept
    <3>. QED  BY <3>1, <3>2, <3>3
  <2>2. CASE p.requester # c /\ e = NoError
    <3>1. View(c)!Answer(<<>>, NoError)
      BY <1>6, <1>9, <1>13, <2>2
    <3>2. View(c)!Resolve(x, "Ok") = <<>>
      BY <1>5, <2>2, ViewOperators DEF View!Resolve
    <3>3. e # "DeliveryFailed"
      BY <2>2 DEF NoError
    <3>4. BusOf(c)' = answered
      BY <1>6, <1>9, <1>12, <2>2, <3>3, GivesKept
    <3>. QED  BY <3>1, <3>2, <3>4
  <2>3. CASE p.requester # c /\ Shown(e) = "DeliveryFailed"
    <3>1. View(c)!Answer(<<>>, "DeliveryFailed")
      BY <1>6, <1>9, <2>3
    <3>2. x.requester = View(c)!NoCall
      BY <1>5, <2>3, ViewOperators
    <3>3. BusOf(c)' \in View(c)!Leavings(answered)
      BY <1>3, <1>6, <1>9, <1>12, <2>3, ServesLeaves
    <3>. QED  BY <3>1, <3>2, <3>3
  <2>. QED  BY <1>8, <2>1, <2>2, <2>3
<1>15. View(c)!BusTakes("Rsp") /\ ConnOf(c)' = ConnOf(c)
  <2>. HIDE DEF mine, answered
  <2>. QED  BY <1>9, <1>10
<1>16. \E y \in mine :
         \/ /\ View(c)!Answer(View(c)!Resolve(y, "Ok"), View(c)!NoError)
            /\ BusOf(c)' = [BusOf(c) EXCEPT !.pending = BusOf(c).pending \ {y}]
         \/ /\ y.requester = View(c)!NoCall
            /\ View(c)!Answer(<<>>, "DeliveryFailed")
            /\ BusOf(c)' \in View(c)!Leavings(
                    [BusOf(c) EXCEPT !.pending = BusOf(c).pending \ {y}])
  <2>1. View(c)!NoError = NoError
    BY ViewOperators
  <2>. HIDE DEF mine
  <2>. QED  BY ONLY <1>11, <1>14, <2>1
<1>. QED  BY ONLY <1>15, <1>16 DEF View!BusRsp, View!Asked

-----------------------------------------------------------------------------
(* The steps that another client has asked for, or time *)

LEMMA TakenElsewhere ==
    ASSUME NEW c, Steady(c), NEW type, Take(type), Continue, type = "Message" => Sender # c
    PROVE  Waiting(c)' = Waiting(c)
<1>1. tasks # <<>> /\ Head(tasks).type = type /\ tasks' = Tail(tasks)
  BY DEF Take, Continue
<1>2. ~(Head(tasks).type = "Message" /\ Head(tasks).client = c)
  BY <1>1 DEF Sender
<1>. QED  BY <1>1, <1>2, HeadWaits, WaitingIs DEF Steady, BusInv

LEMMA OthersFrame ==
    ASSUME NEW c, Steady(c), RanksKept(core, core', c), Waiting(c)' = Waiting(c)
    PROVE  /\ View(c)!Elsewhere
           /\ BusOf(c) = KeptFor(core, c) /\ BusOf(c)' = KeptFor(core', c)
           /\ DownOf(c) = Unread(core, c, fwd[c]) /\ DownOf(c)' = Unread(core', c, fwd[c])
<1>1. /\ ConnOf(c) = "open" /\ ConnOf(c)' = "open"
      /\ BusOf(c) = KeptFor(core, c) /\ BusOf(c)' = KeptFor(core', c)
      /\ DownOf(c) = Unread(core, c, fwd[c]) /\ DownOf(c)' = Unread(core', c, fwd[c])
      /\ UpOf(c)' = UpOf(c)
  BY SteadyFrame
<1>. QED  BY <1>1 DEF View!Elsewhere, View!Open

(* c is told nothing. *)
LEMMA Leaves ==
    ASSUME NEW c, Steady(c), Waiting(c)' = Waiting(c), Serves(core, core', c, <<>>)
    PROVE  View(c)!OthersLeave
<1>1. /\ core \in CoreType /\ core' \in CoreType /\ Routed(core) /\ c \in Clients
      /\ fwd[c] \in Nat /\ fwd[c] <= Len(core.chan[c])
  BY SteadyBasics
<1>2. RanksKept(core, core', c)
  BY ServesRanks
<1>3. /\ View(c)!Elsewhere
      /\ BusOf(c) = KeptFor(core, c) /\ BusOf(c)' = KeptFor(core', c)
      /\ DownOf(c) = Unread(core, c, fwd[c]) /\ DownOf(c)' = Unread(core', c, fwd[c])
  BY <1>2, OthersFrame
<1>4. BusOf(c)' \in View(c)!Leavings(BusOf(c))
  BY <1>1, <1>3, ServesLeaves
<1>5. core'.chan[c] = core.chan[c]
  BY <1>1, AppendGives DEF Serves
<1>6. DownOf(c)' = DownOf(c)
  BY <1>1, <1>2, <1>3, <1>5, UnreadGrows
<1>. QED  BY <1>3, <1>4, <1>6 DEF View!OthersLeave

LEMMA GivesNothing ==
    ASSUME NEW s \in CoreType, NEW c \in Clients
    PROVE  Gives(s, s, c, <<>>)
<1>1. s.chan[c] \o <<>> = s.chan[c]
  BY AppendGives
<1>. QED  BY <1>1 DEF Gives, Serves

(* The core acks a message of another client, from the state s that the
   message has made. *)
LEMMA OthersAcked ==
    ASSUME NEW c, Steady(c), Take("Message"), Continue, Sender # c,
           NEW s \in CoreType, Serves(core, s, c, <<>>),
           NEW e \in Errors, NEW n \in Nat \cup {NoCount}, core' = Ack(s, e, n)
    PROVE  View(c)!OthersLeave
<1>1. TypeOK /\ c \in Clients /\ c \notin Closed /\ core \in CoreType /\ core' \in CoreType
  BY SteadyBasics
<1>2. Serves(s, core', c, <<>>)
  BY <1>1, AckServes
<1>3. Serves(core, core', c, <<>>)
  <2>1. <<>> \in Seq(ServerMsg)
    OBVIOUS
  <2>. QED  BY <1>1, <1>2, <2>1, ServesThen
<1>4. Waiting(c)' = Waiting(c)
  BY TakenElsewhere
<1>. QED  BY <1>3, <1>4, Leaves

LEMMA OthersNothing ==
    ASSUME NEW c, Steady(c), Take("Message"), Continue, Sender # c,
           NEW e \in Errors, core' = Ack(core, e, NoCount)
    PROVE  View(c)!OthersLeave
<1>1. core \in CoreType /\ c \in Clients /\ NoCount \in Nat \cup {NoCount}
  BY SteadyBasics
<1>2. Serves(core, core, c, <<>>)
  BY <1>1, GivesNothing DEF Gives
<1>. QED  BY <1>1, <1>2, OthersAcked

LEMMA OtherSender ==
    ASSUME NEW c, Steady(c), Take("Message")
    PROVE  /\ TypeOK /\ c \in Clients /\ c # Bus /\ c \notin Closed
           /\ core \in CoreType /\ Sender \in Clients /\ Sender # NoOwner
           /\ Content \in ClientContent /\ Head(tasks).content = Content
           /\ Head(tasks).id \in Nat /\ Payload \in Payloads
<1>1. TypeOK /\ core \in CoreType /\ c \in Clients /\ c \notin Closed
  BY SteadyBasics
<1>2. /\ Content \in ClientContent /\ Payload \in Payloads /\ Sender \in Clients
      /\ Head(tasks).id \in Nat
  BY <1>1, HeadMessage DEF TypeOK
<1>. QED  BY <1>1, <1>2 DEF Clients, NoOwner, Bus, Content

LEMMA OthersSub ==
    ASSUME NEW c, Steady(c), OnSub, Sender # c
    PROVE  View(c)!OthersLeave
<1>. DEFINE t == Content.topic
            s == [core EXCEPT !.subs = Subscribe(@, Sender, t)]
<1>1. Take("Message") /\ Continue /\ Content.type = "Sub" /\ core' = Ack(s, NoError, NoCount)
  BY DEF OnSub, TakeMessage
<1>2. /\ t \in Topics /\ core \in CoreType /\ c \in Clients /\ Sender \in Clients
  BY <1>1, OtherSender, ContentTopic
<1>. HIDE DEF t
<1>3. /\ s.chan = core.chan /\ s.subs = Subscribe(core.subs, Sender, t)
      /\ s.owner = core.owner /\ s.pending = core.pending
  BY <1>2 DEF CoreType
<1>4. s \in CoreType
  <2>1. Subscribe(core.subs, Sender, t) \in Subscriptions
    BY <1>2, CoreFields DEF Subscriptions, Subscribe, Ids
  <2>. QED  BY <1>2, <2>1, CoreUpdates
<1>. HIDE DEF s
<1>5. Serves(core, s, c, <<>>)
  <2>1. s.chan[c] = core.chan[c] \o <<>>
    BY <1>2, <1>3, AppendGives
  <2>2. RoutedIds(s, c) = RoutedIds(core, c)
    BY <1>3, SameChannels
  <2>3. \A x \in Topics : <<c, x>> \in s.subs <=> <<c, x>> \in core.subs
    BY <1>3 DEF Subscribe
  <2>4. Of(s, c) = Of(core, c)
    BY <1>3 DEF Of
  <2>. QED  BY <1>3, <2>1, <2>2, <2>3, <2>4 DEF Serves
<1>6. NoError \in Errors /\ NoCount \in Nat \cup {NoCount}
  BY ErrorTypes
<1>. QED  BY <1>1, <1>4, <1>5, <1>6, OthersAcked

LEMMA OthersUnsub ==
    ASSUME NEW c, Steady(c), OnUnsub, Sender # c
    PROVE  View(c)!OthersLeave
<1>. DEFINE t == Content.topic
            s == [core EXCEPT !.subs = Unsubscribe(@, Sender, t)]
<1>1. Take("Message") /\ Continue /\ Content.type = "Unsub" /\ core' = Ack(s, NoError, NoCount)
  BY DEF OnUnsub, TakeMessage
<1>2. /\ t \in Topics /\ core \in CoreType /\ c \in Clients /\ Sender \in Clients
  BY <1>1, OtherSender, ContentTopic
<1>. HIDE DEF t
<1>3. /\ s.chan = core.chan /\ s.subs = Unsubscribe(core.subs, Sender, t)
      /\ s.owner = core.owner /\ s.pending = core.pending
  BY <1>2 DEF CoreType
<1>4. s \in CoreType
  <2>1. Unsubscribe(core.subs, Sender, t) \in Subscriptions
    BY <1>2, CoreFields DEF Subscriptions, Unsubscribe, Ids
  <2>. QED  BY <1>2, <2>1, CoreUpdates
<1>. HIDE DEF s
<1>5. Serves(core, s, c, <<>>)
  <2>1. s.chan[c] = core.chan[c] \o <<>>
    BY <1>2, <1>3, AppendGives
  <2>2. RoutedIds(s, c) = RoutedIds(core, c)
    BY <1>3, SameChannels
  <2>3. \A x \in Topics : <<c, x>> \in s.subs <=> <<c, x>> \in core.subs
    BY <1>3 DEF Unsubscribe
  <2>4. Of(s, c) = Of(core, c)
    BY <1>3 DEF Of
  <2>. QED  BY <1>3, <2>1, <2>2, <2>3, <2>4 DEF Serves
<1>6. NoError \in Errors /\ NoCount \in Nat \cup {NoCount}
  BY ErrorTypes
<1>. QED  BY <1>1, <1>4, <1>5, <1>6, OthersAcked

LEMMA OthersUnsrv ==
    ASSUME NEW c, Steady(c), OnUnsrv, Sender # c
    PROVE  View(c)!OthersLeave
<1>. DEFINE t == Content.topic
            s == [core EXCEPT !.owner = Unclaim(@, Sender, t)]
<1>1. PICK e \in UnclaimErrors(t) :
         /\ Take("Message") /\ Continue /\ Content.type = "Unsrv"
         /\ core' = Ack(s, e, NoCount)
  BY DEF OnUnsrv, TakeMessage
<1>2. /\ t \in Topics /\ core \in CoreType /\ c \in Clients /\ Sender \in Clients /\ Sender # NoOwner
      /\ core.owner \in Owners
  BY <1>1, OtherSender, ContentTopic, CoreFields
<1>. HIDE DEF t
<1>3. /\ s.chan = core.chan /\ s.subs = core.subs
      /\ s.owner = Unclaim(core.owner, Sender, t) /\ s.pending = core.pending
  BY <1>2 DEF CoreType
<1>4. s \in CoreType
  <2>1. NoOwner \in Ids
    BY DEF NoOwner, Ids, Bus
  <2>2. Unclaim(core.owner, Sender, t) \in Owners
    BY <1>2, <2>1 DEF Owners, Unclaim
  <2>. QED  BY <1>2, <2>2, CoreUpdates
<1>. HIDE DEF s
<1>5. Serves(core, s, c, <<>>)
  <2>1. s.chan[c] = core.chan[c] \o <<>>
    BY <1>2, <1>3, AppendGives
  <2>2. RoutedIds(s, c) = RoutedIds(core, c)
    BY <1>3, SameChannels
  <2>3. \A x \in Topics : \/ s.owner[x] = core.owner[x]
                          \/ core.owner[x] \notin {NoOwner, c} /\ s.owner[x] = NoOwner
    BY <1>2, <1>3 DEF Unclaim, Owners
  <2>4. Of(s, c) = Of(core, c)
    BY <1>3 DEF Of
  <2>. QED  BY <1>3, <2>1, <2>2, <2>3, <2>4 DEF Serves
<1>6. e \in Errors /\ NoCount \in Nat \cup {NoCount}
  BY ErrorTypes
<1>. QED  BY <1>1, <1>4, <1>5, <1>6, OthersAcked

LEMMA OthersKeepAlive ==
    ASSUME NEW c, Steady(c), OnKeepAlive, Sender # c
    PROVE  View(c)!OthersLeave
<1>1. Take("Message") /\ Continue /\ core' = Ack(core, NoError, NoCount) /\ NoError \in Errors
  BY ErrorTypes DEF OnKeepAlive, TakeMessage
<1>. QED  BY <1>1, OthersNothing

LEMMA OthersReqNotServed ==
    ASSUME NEW c, Steady(c), OnReqNotServed, Sender # c
    PROVE  View(c)!OthersLeave
<1>1. Take("Message") /\ Continue /\ core' = Ack(core, "ServiceNotFound", NoCount) /\ "ServiceNotFound" \in Errors
  BY ErrorTypes DEF OnReqNotServed, TakeMessage
<1>. QED  BY <1>1, OthersNothing

LEMMA OthersRspInvalid ==
    ASSUME NEW c, Steady(c), OnRspInvalid, Sender # c
    PROVE  View(c)!OthersLeave
<1>1. Take("Message") /\ Continue /\ core' = Ack(core, "InvalidRequestId", NoCount) /\ "InvalidRequestId" \in Errors
  BY ErrorTypes DEF OnRspInvalid, TakeMessage
<1>. QED  BY <1>1, OthersNothing

LEMMA OthersSrv ==
    ASSUME NEW c, Steady(c), OnSrv, Sender # c
    PROVE  \/ View(c)!OthersLeave
           \/ \E t \in Topics : View(c)!OthersServe(t)
<1>. DEFINE t == Content.topic
            s == [core EXCEPT !.owner = Claim(@, Sender, t)]
            e == ClaimError(core.owner, Sender, t)
<1>1. Take("Message") /\ Continue /\ Content.type = "Srv" /\ core' = Ack(s, e, NoCount)
  BY DEF OnSrv, TakeMessage
<1>2. /\ t \in Topics /\ core \in CoreType /\ core' \in CoreType
      /\ c \in Clients /\ Sender \in Clients /\ Sender # NoOwner
      /\ core.owner \in Owners /\ TypeOK /\ c \notin Closed
  BY <1>1, OtherSender, ContentTopic, CoreFields, SteadyBasics
<1>. HIDE DEF t
<1>3. /\ s.chan = core.chan /\ s.subs = core.subs
      /\ s.owner = Claim(core.owner, Sender, t) /\ s.pending = core.pending
  BY <1>2 DEF CoreType
<1>4. s \in CoreType
  <2>1. Claim(core.owner, Sender, t) \in Owners
    BY <1>2 DEF Owners, Claim, Ids
  <2>. QED  BY <1>2, <2>1, CoreUpdates
<1>5. e \in Errors /\ NoCount \in Nat \cup {NoCount}
  BY ErrorTypes
<1>. HIDE DEF e
<1>6. /\ s.chan[c] = core.chan[c] \o <<>> /\ RoutedIds(s, c) = RoutedIds(core, c)
      /\ Of(s, c) = Of(core, c)
  <2>. HIDE DEF s
  <2>1. s.chan[c] = core.chan[c] \o <<>>
    BY <1>2, <1>3, AppendGives
  <2>2. RoutedIds(s, c) = RoutedIds(core, c)
    BY <1>3, SameChannels
  <2>. QED  BY <1>3, <2>1, <2>2 DEF Of
<1>7. Waiting(c)' = Waiting(c)
  BY <1>1, TakenElsewhere
<1>8. CASE s.owner = core.owner
  <2>. HIDE DEF s
  <2>1. Serves(core, s, c, <<>>)
    BY <1>3, <1>6, <1>8 DEF Serves
  <2>. QED  BY <1>1, <1>4, <1>5, <2>1, OthersAcked
<1>9. CASE s.owner # core.owner
  <2>1. /\ t \in Concrete /\ core.owner[t] = NoOwner
        /\ s.owner[t] = Sender /\ \A x \in Topics : x # t => s.owner[x] = core.owner[x]
    <3>1. e = NoError
      BY <1>3, <1>9 DEF Claim, e
    <3>2. t \in Concrete /\ core.owner[t] \in {NoOwner, Sender}
      BY <3>1 DEF ClaimError, e, NoError
    <3>3. Claim(core.owner, Sender, t) = [core.owner EXCEPT ![t] = Sender]
      BY <3>1 DEF Claim, e
    <3>. QED  BY <1>2, <1>3, <1>9, <3>2, <3>3 DEF Owners
  <2>2. ClaimError(OwnersFor(core, c), 2, t) = NoError
        /\ OwnersFor(s, c) = Claim(OwnersFor(core, c), 2, t)
    BY <1>2, <2>1, OtherClaims
  <2>. HIDE DEF s
  <2>3. CASE DeliverError(s, Sender) = "DeliveryFailed"
    <3>1. Without(s, core', Sender) /\ Serves(s, core', c, <<>>)
      BY <1>1, <1>2, <1>4, <1>5, <2>3, AckServes
    <3>2. \A x \in Topics : \/ core'.owner[x] = core.owner[x]
                            \/ core.owner[x] \notin {NoOwner, c} /\ core'.owner[x] = NoOwner
      BY <1>2, <2>1, <3>1 DEF Without
    <3>3. core'.chan[c] = core.chan[c] \o <<>>
      <4>1. s.chan[c] \o <<>> = s.chan[c]
        BY <1>2, <1>4, AppendGives
      <4>. QED  BY <1>6, <3>1, <4>1 DEF Serves
    <3>4. Serves(core, core', c, <<>>)
      BY <1>3, <1>6, <3>1, <3>2, <3>3 DEF Serves
    <3>. QED  BY <1>7, <3>4, Leaves
  <2>4. CASE DeliverError(s, Sender) # "DeliveryFailed"
    <3>1. Gives(s, core', c, <<>>)
      BY <1>1, <1>2, <1>4, <1>5, <2>4, AckServes
    <3>2. KeptFor(core', c) = KeptFor(s, c)
      BY <1>2, <1>4, <3>1, GivesKept
    <3>3. KeptFor(s, c) = SetOwner(KeptFor(core, c), OwnersFor(s, c))
      BY <1>2, <1>3, <1>4, KeptChange
    <3>4. RanksKept(core, core', c)
      <4>1. RoutedIds(core', c) = RoutedIds(core, c)
        BY <1>6, <3>1 DEF Gives, Serves
      <4>. QED  BY <4>1, SameRanks DEF RanksKept
    <3>5. core'.chan[c] = core.chan[c]
      <4>1. s.chan[c] \o <<>> = s.chan[c]
        BY <1>2, <1>4, AppendGives
      <4>. QED  BY <1>3, <3>1, <4>1 DEF Gives, Serves
    <3>6. /\ View(c)!Elsewhere
          /\ BusOf(c) = KeptFor(core, c) /\ BusOf(c)' = KeptFor(core', c)
          /\ DownOf(c) = Unread(core, c, fwd[c]) /\ DownOf(c)' = Unread(core', c, fwd[c])
      BY <1>7, <3>4, OthersFrame
    <3>7. DownOf(c)' = DownOf(c)
      <4>1. fwd[c] \in Nat /\ fwd[c] <= Len(core.chan[c])
        BY SteadyBasics
      <4>. QED  BY <1>2, <3>4, <3>5, <3>6, <4>1, UnreadGrows
    <3>8. /\ ClaimError(BusOf(c).owner, 2, t) = NoError
          /\ BusOf(c)' = [BusOf(c) EXCEPT !.owner = Claim(BusOf(c).owner, 2, t)]
      BY <1>2, <2>2, <3>2, <3>3, <3>6, KeptFields DEF SetOwner
    <3>9. View(c)!OthersServe(t)
      BY <3>6, <3>7, <3>8, ViewOperators DEF View!OthersServe
    <3>. QED  BY <1>2, <3>9
  <2>. QED  BY <2>3, <2>4
<1>. QED  BY <1>8, <1>9

LEMMA OthersPublished ==
    ASSUME NEW c, Steady(c), TakeMessage("Pub"), Sender # c, Continue,
           NEW done \in SUBSET (Recipients \cap Clients),
           NEW s \in CoreType,
           Serves(core, s, c, IF c \in done THEN <<Publication>> ELSE <<>>),
           NEW e \in Errors, NEW n \in Nat \cup {NoCount}, core' = Ack(s, e, n)
    PROVE  \/ View(c)!OthersLeave
           \/ \E t \in Topics : View(c)!OthersPublish(t)
<1>. DEFINE t == Content.topic
            ms == IF c \in done THEN <<Publication>> ELSE <<>>
<1>1. /\ Take("Message") /\ TypeOK /\ c \in Clients /\ c \notin Closed
      /\ core \in CoreType /\ core' \in CoreType /\ Routed(core)
      /\ fwd[c] \in Nat /\ fwd[c] <= Len(core.chan[c])
  BY SteadyBasics DEF TakeMessage
<1>2. /\ t \in Topics /\ Publication \in ServerMsg
      /\ c \in done => View(c)!Reached(t)
      /\ Seen(core', c, Publication) = View(c)!Pub(t)
  BY Publishes
<1>. HIDE DEF Publication, t
<1>3. Serves(core, core', c, ms)
  <2>1. Serves(s, core', c, <<>>)
    BY <1>1, AckServes
  <2>2. ms \in Seq(ServerMsg)
    BY <1>2
  <2>. QED  BY <1>1, <2>1, <2>2, ServesThen
<1>4. Waiting(c)' = Waiting(c)
  BY <1>1, TakenElsewhere
<1>5. CASE c \notin done
  BY <1>3, <1>4, <1>5, Leaves
<1>6. CASE c \in done
  <2>1. RanksKept(core, core', c)
    BY <1>3, ServesRanks
  <2>2. /\ View(c)!Elsewhere
        /\ BusOf(c) = KeptFor(core, c) /\ BusOf(c)' = KeptFor(core', c)
        /\ DownOf(c) = Unread(core, c, fwd[c]) /\ DownOf(c)' = Unread(core', c, fwd[c])
    BY <1>4, <2>1, OthersFrame
  <2>3. core'.chan[c] = Then(core.chan[c], Publication)
    BY <1>3, <1>6 DEF Serves, Then
  <2>4. DownOf(c)' = Append(DownOf(c), Seen(core', c, Publication))
    BY <1>1, <1>2, <2>1, <2>2, <2>3, UnreadGrows
  <2>5. BusOf(c)' \in View(c)!Leavings(BusOf(c))
    BY <1>1, <1>3, <2>2, ServesLeaves
  <2>6. View(c)!OthersPublish(t)
    BY <1>2, <1>6, <2>2, <2>4, <2>5 DEF View!OthersPublish
  <2>. QED  BY <1>2, <2>6
<1>. QED  BY <1>5, <1>6

LEMMA OthersPub ==
    ASSUME NEW c, Steady(c), OnPub, Sender # c
    PROVE  \/ View(c)!OthersLeave
           \/ \E t \in Topics : View(c)!OthersPublish(t)
<1>. DEFINE s == DeliverAll(core, Recipients, Publication)
            n == Cardinality(Recipients)
<1>1. /\ TakeMessage("Pub") /\ Continue /\ core' = Ack(s, NoError, n)
      /\ Recipients \subseteq Reachable
  BY DEF OnPub
<1>2. Recipients \in SUBSET (Recipients \cap Clients)
  BY <1>1 DEF Reachable
<1>3. n \in Nat \cup {NoCount} /\ NoError \in Errors
  BY <1>2, ClientsFinite, ErrorTypes
<1>4. /\ s \in CoreType
      /\ Serves(core, s, c, IF c \in Recipients THEN <<Publication>> ELSE <<>>)
  BY <1>1, <1>2, Publishes DEF Gives
<1>. HIDE DEF s, n
<1>. QED  BY <1>1, <1>2, <1>3, <1>4, OthersPublished

(* Whoever is mentioned, and open, is registered, and gets what it is sent. *)
LEMMA OpenDelivered ==
    ASSUME NEW c, Steady(c),
           \/ \E t : c \in GetSubscribers(core.subs, t)
           \/ \E t \in Topics : GetOwner(core.owner, t) = c
           \/ \E p \in core.pending : p.requester = c
    PROVE  c \in core.senders /\ DeliverError(core, c) = NoError
<1>1. /\ c \in Clients /\ c \notin Closed /\ stub[c] \in {"none", "serving"} /\ Running /\ RouteInv
      /\ core \in CoreType /\ c # NoOwner
  BY SteadyBasics DEF Steady, BusInv, Clients, NoOwner
<1>2. c \in Mentioned
  <2>1. CASE \E t : c \in GetSubscribers(core.subs, t)
    BY <2>1 DEF GetSubscribers, Mentioned, Mentions
  <2>2. CASE \E t \in Topics : GetOwner(core.owner, t) = c
    <3>1. PICK t \in Topics : core.owner[t] = c
      BY <1>1, <2>2 DEF GetOwner
    <3>. QED  BY <1>1, <3>1 DEF Mentioned, Mentions
  <2>3. CASE \E p \in core.pending : p.requester = c
    BY <2>3 DEF Mentioned, Mentions
  <2>. QED  BY <2>1, <2>2, <2>3
<1>3. stub[c] = "serving"
  BY <1>1, <1>2, Strangers
<1>. QED  BY <1>1, <1>3, Strangers DEF DeliverError

LEMMA OthersPubFails ==
    ASSUME NEW c, Steady(c), OnPubFails, Sender # c
    PROVE  \/ View(c)!OthersLeave
           \/ \E t \in Topics : View(c)!OthersPublish(t)
<1>1. PICK f \in (Recipients \cap Clients) \ Reachable, done \in SUBSET Reachable :
         core' = Ack(Deliver(DeliverAll(core, done, Publication), f, Publication),
                     DeliverError(core, f), NoCount)
  BY DEF OnPubFails
<1>. DEFINE d == DeliverAll(core, done, Publication)
            s == Deliver(d, f, Publication)
            e == DeliverError(core, f)
            ms == IF c \in done THEN <<Publication>> ELSE <<>>
<1>2. TakeMessage("Pub") /\ Continue /\ Take("Message") /\ core' = Ack(s, e, NoCount)
  BY <1>1 DEF OnPubFails, TakeMessage
<1>3. done \in SUBSET (Recipients \cap Clients)
  BY DEF Reachable
<1>4. /\ e \in Errors /\ NoCount \in Nat \cup {NoCount}
      /\ c \in Clients /\ core \in CoreType /\ c \notin Closed
  BY ErrorTypes, SteadyBasics
<1>5. f # c /\ e # NoError
  <2>1. e # NoError
    BY DEF Reachable
  <2>2. c \in Recipients => DeliverError(core, c) = NoError
    BY OpenDelivered DEF Recipients
  <2>. QED  BY <2>1, <2>2
<1>6. /\ Publication \in ServerMsg
      /\ d \in CoreType /\ d.senders = core.senders
      /\ Gives(core, d, c, ms)
  BY <1>2, <1>3, Publishes
<1>7. DeliverError(d, f) = e
  BY <1>6 DEF DeliverError
<1>. HIDE DEF d, e
<1>8. s \in CoreType
  BY <1>6, DeliverTables
<1>9. Serves(d, s, c, <<>>)
  BY <1>4, <1>5, <1>6, <1>7, DeliverServes
<1>. HIDE DEF s
<1>10. Serves(core, s, c, ms)
  <2>1. ms \in Seq(ServerMsg)
    BY <1>6
  <2>. QED  BY <1>4, <1>6, <1>8, <1>9, <2>1, ServesThen DEF Gives
<1>. QED  BY <1>2, <1>3, <1>4, <1>8, <1>10, OthersPublished

LEMMA OthersReqFails ==
    ASSUME NEW c, Steady(c), OnReqFails, Sender # c
    PROVE  View(c)!OthersLeave
<1>. DEFINE e == DeliverError(core, Server)
            s == Deliver(core, Server, Request)
<1>1. /\ Take("Message") /\ Continue /\ Content.type = "Req" /\ Server # NoOwner
      /\ core' = Ack(s, e, NoCount) /\ e \in Errors /\ e # NoError
  BY ErrorTypes DEF OnReqFails, TakeMessage
<1>2. /\ Content.topic \in Topics /\ core \in CoreType /\ c \in Clients /\ c \notin Closed
      /\ Payload \in Payloads /\ NoCount \in Nat \cup {NoCount}
  BY <1>1, OtherSender, ContentTopic
<1>3. Request \in ServerMsg
  BY <1>2, CoreFields, MessageTypes DEF Request
<1>4. Server # c
  BY <1>1, <1>2, OpenDelivered DEF Server
<1>. HIDE DEF Request
<1>5. Serves(core, s, c, <<>>) /\ s \in CoreType
  BY <1>1, <1>2, <1>3, <1>4, DeliverServes, DeliverTables
<1>. HIDE DEF s, e
<1>. QED  BY <1>1, <1>2, <1>5, OthersAcked

LEMMA OthersReq ==
    ASSUME NEW c, Steady(c), OnReq, Sender # c
    PROVE  \/ View(c)!OthersLeave
           \/ \E t \in Topics : View(c)!OthersRequest(t)
<1>. DEFINE t == Content.topic
<1>1. /\ Take("Message") /\ Continue /\ Content.type = "Req" /\ TypeOK /\ c \notin Closed
      /\ core \in CoreType /\ core' \in CoreType /\ c \in Clients /\ BusInv
      /\ fwd[c] \in Nat /\ fwd[c] <= Len(core.chan[c])
      /\ NoError \in Errors /\ NoCount \in Nat \cup {NoCount}
  BY SteadyBasics, ErrorTypes DEF OnReq, TakeMessage, Steady
<1>2. PICK s \in CoreType : RequestMade(s)
  BY <1>1, RequestState
<1>3. /\ core' = Ack(s, NoError, NoCount)
      /\ s.chan[c] = IF c = Server THEN Append(core.chan[c], Request) ELSE core.chan[c]
      /\ Request \in ServerMsg
  BY <1>1, <1>2 DEF RequestMade
<1>4. CASE Server # c
  <2>1. Gives(core, s, c, <<>>)
    BY <1>1, <1>2, <1>4, RequestSeen
  <2>. QED  BY <1>1, <1>3, <2>1, OthersAcked DEF Gives
<1>5. CASE Server = c
  <2>1. BusOf(c) = KeptFor(core, c)
    BY DEF Steady, BusOf
  <2>2. /\ KeptFor(s, c) = View(c)!Route(0, t) /\ t \in Topics
        /\ RanksKept(core, s, c)
        /\ Rank(s, c, core.next_msg_id) = BusOf(c).next
        /\ GetOwner(BusOf(c).owner, t) = 1
    BY <1>1, <1>2, <1>5, <2>1, Routes DEF Whose
  <2>. HIDE DEF t
  <2>3. Routed(s)
    BY <1>1, <1>2, RequestRouted
  <2>4. Serves(s, core', c, <<>>)
    BY <1>1, <1>3, AckServes
  <2>5. \A id : Rank(core', c, id) = Rank(s, c, id)
    <3>1. RoutedIds(core', c) = RoutedIds(s, c)
      BY <2>4 DEF Serves
    <3>. QED  BY <3>1, SameRanks
  <2>6. RanksKept(core, core', c) /\ Rank(core', c, core.next_msg_id) = BusOf(c).next
    BY <2>2, <2>5 DEF RanksKept
  <2>7. Waiting(c)' = Waiting(c)
    BY <1>1, TakenElsewhere
  <2>8. /\ View(c)!Elsewhere /\ BusOf(c)' = KeptFor(core', c)
        /\ DownOf(c) = Unread(core, c, fwd[c]) /\ DownOf(c)' = Unread(core', c, fwd[c])
    BY <2>6, <2>7, OthersFrame
  <2>9. BusOf(c)' \in View(c)!Leavings(View(c)!Route(0, t))
    <3>1. KeptFor(core', c) \in View(c)!Leavings(KeptFor(s, c))
      BY <1>1, <2>3, <2>4, ServesLeaves
    <3>. QED  BY <2>2, <2>8, <3>1
  <2>10. core'.chan[c] = Then(core.chan[c], Request)
    BY <1>1, <1>3, <1>5, <2>4, AppendGives DEF Serves, Then
  <2>11. Seen(core', c, Request) = View(c)!Req(BusOf(c).next, t)
    <3>1. /\ Request.type = "Req" /\ Request.id = core.next_msg_id
          /\ Request.topic = t
      BY DEF Request, ReqMsg, t
    <3>. HIDE DEF Request
    <3>. QED  BY <2>6, <3>1 DEF Seen, View!Req
  <2>. HIDE DEF Request
  <2>12. DownOf(c)' = Append(DownOf(c), View(c)!Req(BusOf(c).next, t))
    BY <1>1, <1>3, <2>6, <2>8, <2>10, <2>11, UnreadGrows
  <2>13. View(c)!OthersRequest(t)
    BY <2>2, <2>8, <2>9, <2>12, ViewOperators DEF View!OthersRequest
  <2>. QED  BY <2>2, <2>13
<1>. QED  BY <1>4, <1>5

(* A request of c, or one that c was to answer, is answered. *)
LEMMA OthersAnswered ==
    ASSUME NEW c, Steady(c), Waiting(c)' = Waiting(c),
           NEW p \in core.pending, p \in Of(core, c),
           NEW st \in {"Ok", "Timeout"}, st = "Ok" => p.responder # c,
           NEW payload, NEW m, NEW v, NEW s, Responding(p, st, payload, m, v, s),
           Responded(c, p, st, m, v, s),
           Serves(v, core', c, IF p.requester = c THEN <<m>> ELSE <<>>)
    PROVE  \E x \in BusOf(c).pending : View(c)!OthersAnswer(x)
<1>. DEFINE x == PendingOf(core, c, p)
<1>1. /\ core \in CoreType /\ core' \in CoreType /\ c \in Clients /\ Routed(core)
      /\ fwd[c] \in Nat /\ fwd[c] <= Len(core.chan[c])
  BY SteadyBasics
<1>2. /\ m \in ServerMsg /\ v \in CoreType /\ Routed(v)
      /\ Seen(core', c, m) = View(c)!Rsp(p.request_id, st)
      /\ x \in PendingFor(core, c)
      /\ KeptFor(v, c) = SetPending(KeptFor(core, c), PendingFor(core, c) \ {x})
  BY DEF Responded
<1>3. v.chan = core.chan
  BY <1>1 DEF Responding, CoreType
<1>4. RanksKept(core, core', c)
  <2>1. RoutedIds(core', c) = RoutedIds(v, c)
    BY DEF Serves
  <2>2. RoutedIds(v, c) = RoutedIds(core, c)
    BY <1>3, SameChannels
  <2>. QED  BY <2>1, <2>2, SameRanks DEF RanksKept
<1>5. /\ x.requester = (IF p.requester = c THEN p.request_id ELSE 0) /\ p.request_id # 0
      /\ st = "Ok" => x.responder = 2
  BY <1>1, PendingRouted DEF PendingOf, Whose
<1>. HIDE DEF x
<1>6. /\ View(c)!Elsewhere
      /\ BusOf(c) = KeptFor(core, c) /\ BusOf(c)' = KeptFor(core', c)
      /\ DownOf(c) = Unread(core, c, fwd[c]) /\ DownOf(c)' = Unread(core', c, fwd[c])
  BY <1>4, OthersFrame
<1>7. KeptFor(core', c) \in View(c)!Leavings(KeptFor(v, c))
  BY <1>1, <1>2, ServesLeaves
<1>8. KeptFor(v, c) = [BusOf(c) EXCEPT !.pending = BusOf(c).pending \ {x}] /\ x \in BusOf(c).pending
  BY <1>1, <1>2, <1>6, KeptFields DEF SetPending
<1>9. BusOf(c)' \in View(c)!Leavings([BusOf(c) EXCEPT !.pending = BusOf(c).pending \ {x}])
  BY <1>6, <1>7, <1>8
<1>10. DownOf(c)' = DownOf(c) \o View(c)!Resolve(x, st)
  <2>1. CASE p.requester = c
    <3>1. core'.chan[c] = Then(core.chan[c], m)
      BY <1>3, <2>1 DEF Serves, Then
    <3>2. DownOf(c)' = Then(DownOf(c), Seen(core', c, m))
      BY <1>1, <1>2, <1>4, <1>6, <3>1, UnreadGrows
    <3>3. View(c)!Resolve(x, st) = <<View(c)!Rsp(p.request_id, st)>>
      BY <1>5, <2>1, ViewOperators DEF View!Resolve
    <3>. QED  BY <1>2, <3>2, <3>3 DEF Then
  <2>2. CASE p.requester # c
    <3>1. core'.chan[c] = core.chan[c]
      <4>1. core'.chan[c] = v.chan[c] \o <<>>
        BY <2>2 DEF Serves
      <4>. QED  BY <1>1, <1>3, <4>1, AppendGives
    <3>2. DownOf(c)' = DownOf(c) /\ DownOf(c) \o <<>> = DownOf(c)
      BY <1>1, <1>4, <1>6, <3>1, UnreadGrows
    <3>3. View(c)!Resolve(x, st) = <<>>
      BY <1>5, <2>2, ViewOperators DEF View!Resolve
    <3>. QED  BY <3>2, <3>3
  <2>. QED  BY <2>1, <2>2
<1>11. View(c)!OthersAnswer(x)
  BY <1>5, <1>6, <1>9, <1>10, ViewOperators DEF View!OthersAnswer
<1>. QED  BY <1>8, <1>11

LEMMA OthersRsp ==
    ASSUME NEW c, Steady(c), OnRsp, Sender # c
    PROVE  \/ View(c)!OthersLeave
           \/ \E x \in BusOf(c).pending : View(c)!OthersAnswer(x)
<1>1. PICK p \in core.pending :
         /\ MayAnswer(p)
         /\ core' = Ack(Respond(core, p, "Ok", Payload), DeliverError(core, p.requester), NoCount)
  BY DEF OnRsp
<1>. DEFINE m == RspMsg(p.request_id, "Ok", Payload)
            v == [core EXCEPT !.pending = @ \ {p}]
            s == Respond(core, p, "Ok", Payload)
            e == DeliverError(core, p.requester)
<1>2. /\ Take("Message") /\ Continue /\ TypeOK /\ c \notin Closed /\ Routed(core)
      /\ core \in CoreType /\ core' \in CoreType /\ c \in Clients /\ Payload \in Payloads
      /\ e \in Errors /\ NoCount \in Nat \cup {NoCount}
  BY SteadyBasics, OtherSender, ErrorTypes DEF OnRsp, TakeMessage
<1>3. core' = Ack(s, e, NoCount) /\ p.responder # c
  BY <1>1 DEF MayAnswer
<1>4. Responding(p, "Ok", Payload, m, v, s) /\ "Ok" \in {"Ok", "Timeout"}
  BY DEF Responding
<1>5. <<>> \in Seq(ServerMsg)
  OBVIOUS
<1>6. p.requester = c => c \in core.senders
  BY OpenDelivered
<1>. HIDE DEF m, v, s, e
<1>7. Responded(c, p, "Ok", m, v, s)
  BY <1>2, <1>4, Responds
<1>8. s \in CoreType /\ v \in CoreType /\ <<m>> \in Seq(ServerMsg)
  BY <1>7 DEF Responded
<1>9. CASE p.requester # c
  <2>1. p \notin Of(core, c)
    BY <1>3, <1>9 DEF Of
  <2>2. Gives(core, v, c, <<>>) /\ Serves(v, s, c, <<>>)
    BY <1>7, <1>9, <2>1 DEF Responded
  <2>3. Serves(core, s, c, <<>>)
    BY <1>2, <1>5, <1>8, <2>2, ServesThen DEF Gives
  <2>. QED  BY <1>2, <1>3, <1>8, <2>3, OthersAcked
<1>10. CASE p.requester = c
  <2>1. Gives(v, s, c, <<m>>)
    BY <1>6, <1>7, <1>10 DEF Responded
  <2>2. Serves(s, core', c, <<>>)
    BY <1>2, <1>3, <1>8, AckServes
  <2>3. Serves(v, core', c, <<m>>)
    BY <1>2, <1>8, <2>1, <2>2, ServesThen DEF Gives
  <2>4. Waiting(c)' = Waiting(c)
    BY <1>2, TakenElsewhere
  <2>5. p \in Of(core, c)
    BY <1>10 DEF Of
  <2>6. Serves(v, core', c, IF p.requester = c THEN <<m>> ELSE <<>>)
    BY <1>10, <2>3
  <2>. QED  BY <1>3, <1>4, <1>7, <2>4, <2>5, <2>6, OthersAnswered
<1>. QED  BY <1>9, <1>10

LEMMA TimesOut ==
    ASSUME NEW c, Steady(c), OnTimeout, Continue
    PROVE  \/ View(c)!OthersLeave
           \/ \E x \in BusOf(c).pending : View(c)!OthersAnswer(x)
<1>1. PICK p \in core.pending : core' = Respond(core, p, "Timeout", NoPayload)
                                  /\ (DeliverError(core, p.requester) = NoError \/ End("failed"))
  BY DEF OnTimeout
<1>. DEFINE m == RspMsg(p.request_id, "Timeout", NoPayload)
            v == [core EXCEPT !.pending = @ \ {p}]
            s == Respond(core, p, "Timeout", NoPayload)
<1>2. /\ Take("RequestTimeout") /\ TypeOK /\ c \notin Closed /\ Routed(core)
      /\ core \in CoreType /\ core' \in CoreType /\ c \in Clients /\ NoPayload \in Payloads
  BY SteadyBasics DEF OnTimeout, Payloads, NoPayload, Ids, Bus
<1>3. DeliverError(core, p.requester) # "DeliveryFailed"
  <2>1. status' = status /\ status = "running"
    BY SteadyBasics DEF Continue, Running
  <2>. QED  BY <1>1, <2>1 DEF End, NoError
<1>4. Responding(p, "Timeout", NoPayload, m, v, s) /\ "Timeout" \in {"Ok", "Timeout"}
  BY DEF Responding
<1>5. core' = s
  BY <1>1
<1>6. p.requester = c => c \in core.senders
  BY OpenDelivered
<1>7. Waiting(c)' = Waiting(c)
  BY <1>2, TakenElsewhere
<1>. HIDE DEF m, v, s
<1>8. Responded(c, p, "Timeout", m, v, s)
  BY <1>2, <1>4, Responds
<1>9. Serves(v, core', c, IF p.requester = c THEN <<m>> ELSE <<>>)
  BY <1>3, <1>5, <1>6, <1>8 DEF Responded, Gives
<1>10. CASE p \in Of(core, c)
  <2>1. "Timeout" # "Ok"
    OBVIOUS
  <2>. QED  BY <1>4, <1>7, <1>8, <1>9, <1>10, <2>1, OthersAnswered
<1>11. CASE p \notin Of(core, c)
  <2>1. p.requester # c
    BY <1>11 DEF Of
  <2>2. Gives(core, v, c, <<>>) /\ v \in CoreType
    BY <1>8, <1>11 DEF Responded
  <2>3. Serves(core, core', c, <<>>)
    <3>1. <<>> \in Seq(ServerMsg)
      OBVIOUS
    <3>. QED  BY <1>2, <1>9, <2>1, <2>2, <3>1, ServesThen DEF Gives
  <2>. QED  BY <1>7, <2>3, Leaves
<1>. QED  BY <1>10, <1>11

-----------------------------------------------------------------------------
(* All steps while the connection of c stays open *)

LEMMA RegisterLeaves ==
    ASSUME NEW c, Steady(c), OnRegister
    PROVE  View(c)!OthersLeave
<1>1. Take("Register") /\ Continue
  BY DEF OnRegister
<1>2. core \in CoreType /\ c \in Clients
  BY SteadyBasics
<1>3. /\ core'.chan = core.chan /\ core'.subs = core.subs
      /\ core'.owner = core.owner /\ core'.pending = core.pending
  BY <1>2 DEF OnRegister, CoreType
<1>4. Serves(core, core', c, <<>>)
  <2>1. core'.chan[c] = core.chan[c] \o <<>>
    BY <1>2, <1>3, AppendGives
  <2>2. RoutedIds(core', c) = RoutedIds(core, c)
    BY <1>3, SameChannels
  <2>. QED  BY <1>3, <2>1, <2>2 DEF Serves, Of
<1>5. Waiting(c)' = Waiting(c)
  BY <1>1, TakenElsewhere
<1>. QED  BY <1>4, <1>5, Leaves

(* It is another client that the core is told to forget: this one is there. *)
LEMMA DeregisterLeaves ==
    ASSUME NEW c, Steady(c), OnDeregister
    PROVE  View(c)!OthersLeave
<1>. DEFINE d == Head(tasks).client
<1>1. Take("Deregister") /\ Continue /\ core' = DeregisterClient(core, d)
  BY DEF OnDeregister
<1>2. /\ TypeOK /\ core \in CoreType /\ c \in Clients /\ c # NoOwner
      /\ stub[c] \in {"none", "serving"}
  BY SteadyBasics DEF Clients, NoOwner
<1>3. d # c
  <2>1. Head(tasks) \in Task /\ Head(tasks).type = "Deregister" /\ Head(tasks) = tasks[1]
        /\ 1 \in DOMAIN tasks
    BY <1>1, <1>2 DEF Take, TypeOK
  <2>2. Head(tasks) = DeregisterOf(d)
    BY <2>1 DEF Task, DeregisterOf
  <2>3. SUFFICES ASSUME d = c  PROVE FALSE
    OBVIOUS
  <2>4. Queued(DeregisterOf(c))
    BY <2>1, <2>2, <2>3 DEF Queued
  <2>. QED  BY <1>2, <2>4 DEF Steady, BusInv, RouteInv, DeregisterWhenGone, Gone
<1>4. Without(core, core', d) /\ core'.chan = core.chan
  BY <1>1, <1>2, DeregisterFields DEF Without, DeregisterClient, CoreType
<1>. HIDE DEF d
<1>5. Serves(core, core', c, <<>>)
  <2>1. core'.chan[c] = core.chan[c] \o <<>>
    BY <1>2, <1>4, AppendGives
  <2>2. RoutedIds(core', c) = RoutedIds(core, c)
    BY <1>4, SameChannels
  <2>. QED  BY <1>2, <1>3, <1>4, <2>1, <2>2, WithoutServes
<1>6. Waiting(c)' = Waiting(c)
  BY <1>1, TakenElsewhere
<1>. QED  BY <1>5, <1>6, Leaves

LEMMA QueueGrows ==
    ASSUME TypeOK, NEW task \in Task, tasks' = Append(tasks, task), NEW c,
           ~(task.type = "Message" /\ task.client = c)
    PROVE  Waiting(c)' = Waiting(c)
BY WaitingIs, WaitingAdded DEF TypeOK

LEMMA IdleLeaves ==
    ASSUME NEW c, Steady(c), Next, ~CoreStep
    PROVE  View(c)!OthersLeave
<1>1. TypeOK /\ core \in CoreType /\ c \in Clients /\ Running /\ Running'
      /\ stub[c] \in {"none", "serving"} /\ stub'[c] \in {"none", "serving"}
  BY SteadyBasics DEF Steady, IsOpen
<1>2. core' = core /\ Waiting(c)' = Waiting(c)
  <2>1. CASE Accept
    <3>1. [type |-> "Register"] \in Task
      BY DEF Task
    <3>. QED  BY <1>1, <2>1, <3>1, QueueGrows DEF Accept
  <2>2. CASE OnStopSignal
    BY <1>1, <2>2 DEF OnStopSignal, End, Running
  <2>3. CASE \E id \in timers : TimerFires(id)
    <3>1. PICK id \in timers : TimerFires(id)
      BY <2>3
    <3>2. [type |-> "RequestTimeout", id |-> id] \in Task
      BY <1>1 DEF TypeOK, Task
    <3>. QED  BY <1>1, <3>1, <3>2, QueueGrows DEF TimerFires
  <2>4. CASE \E d \in Clients : StubStep(d)
    <3>1. PICK d \in Clients : StubStep(d)
      BY <2>4
    <3>2. core' = core
      BY <3>1 DEF StubStep, StubReceive, StubForward, StubChannelClosed, StubPeerGone, StubDrop
    <3>3. ASSUME Leave(d)  PROVE Waiting(c)' = Waiting(c)
      <4>1. [type |-> "Deregister", client |-> d] \in Task
        BY <3>1 DEF Task
      <4>. QED  BY <1>1, <3>3, <4>1, QueueGrows DEF Leave
    <3>4. ASSUME UNCHANGED tasks  PROVE Waiting(c)' = Waiting(c)
      BY <3>4, WaitingIs
    <3>5. ASSUME StubReceive(d)  PROVE Waiting(c)' = Waiting(c)
      <4>1. PICK m \in Contents[d] \cup Answers(d) :
               tasks' = Append(tasks, [type |-> "Message", client |-> d,
                                       id |-> up[d] + 1, content |-> m])
        BY <1>1, <3>5 DEF StubReceive
      <4>2. d # c
        BY <1>1, <3>5 DEF StubReceive, Steady, TypeOK
      <4>3. m \in ClientContent
        BY <1>1, <3>1, ServerAssumption, ReceivedType
      <4>4. MessageFrom(d, up[d] + 1, m) \in Task
        BY <1>1, <4>3 DEF TypeOK, Task, MessageFrom
      <4>5. ~(MessageFrom(d, up[d] + 1, m).client = c)
        BY <4>2 DEF MessageFrom
      <4>6. tasks' = Append(tasks, MessageFrom(d, up[d] + 1, m))
        BY <4>1 DEF MessageFrom
      <4>. QED  BY <1>1, <4>4, <4>5, <4>6, QueueGrows
    <3>. QED  BY <3>1, <3>2, <3>3, <3>4, <3>5
              DEF StubStep, StubForward, StubChannelClosed, StubPeerGone, StubDrop
  <2>. QED  BY <2>1, <2>2, <2>3, <2>4 DEF Next
<1>3. Serves(core, core', c, <<>>)
  BY <1>1, <1>2, GivesNothing DEF Gives
<1>. QED  BY <1>2, <1>3, Leaves

(* What ImplementsBus says of a step, to the client c *)
Moves(c) ==
    \/ UNCHANGED <<UpOf(c), DownOf(c), ConnOf(c), BusOf(c)>>
    \/ ClientSends(c) \/ ClientTakes(c) \/ BusMoves(c)

(* the parts of it that the core brings about *)
CoreMoves(c) ==
    \/ View(c)!BusStep
    \/ \E t \in Topics :
          View(c)!OthersPublish(t) \/ View(c)!OthersRequest(t) \/ View(c)!OthersServe(t)
    \/ \E p \in BusOf(c).pending : View(c)!OthersAnswer(p)
    \/ View(c)!OthersLeave

LEMMA SteadyMoves ==
    ASSUME NEW c, Steady(c), Next
    PROVE  CoreMoves(c)
<1>1. status = "running" /\ status' = "running"
  BY SteadyBasics DEF Running
<1>2. CASE ~CoreStep
  BY <1>2, IdleLeaves DEF CoreMoves
<1>3. CASE OnRegister
  BY <1>3, RegisterLeaves DEF CoreMoves
<1>4. CASE OnDeregister
  BY <1>4, DeregisterLeaves DEF CoreMoves
<1>5. CASE OnSub
  BY <1>5, OwnSub, OthersSub DEF CoreMoves, View!BusStep
<1>6. CASE OnUnsub
  BY <1>6, OwnUnsub, OthersUnsub DEF CoreMoves, View!BusStep
<1>7. CASE OnSrv
  BY <1>7, OwnSrv, OthersSrv DEF CoreMoves, View!BusStep
<1>8. CASE OnUnsrv
  BY <1>8, OwnUnsrv, OthersUnsrv DEF CoreMoves, View!BusStep
<1>9. CASE OnKeepAlive
  BY <1>9, OwnKeepAlive, OthersKeepAlive DEF CoreMoves, View!BusStep
<1>10. CASE OnPub
  BY <1>10, OwnPub, OthersPub DEF CoreMoves, View!BusStep
<1>11. CASE OnPubFails
  BY <1>11, OwnPubFails, OthersPubFails DEF CoreMoves, View!BusStep
<1>12. CASE OnReqNotServed
  BY <1>12, OwnReqNotServed, OthersReqNotServed DEF CoreMoves, View!BusStep
<1>13. CASE OnReqFails
  BY <1>13, OwnReqFails, OthersReqFails DEF CoreMoves, View!BusStep
<1>14. CASE OnReq
  BY <1>14, OwnReq, OthersReq DEF CoreMoves, View!BusStep
<1>15. CASE OnRspInvalid
  BY <1>15, OwnRspInvalid, OthersRspInvalid DEF CoreMoves, View!BusStep
<1>16. CASE OnRsp
  BY <1>16, OwnRsp, OthersRsp DEF CoreMoves, View!BusStep
<1>17. CASE OnTimeout
  <2>1. Continue
    BY <1>1, <1>17 DEF OnTimeout, End
  <2>. QED  BY <1>17, <2>1, TimesOut DEF CoreMoves
<1>18. CASE OnStop \/ OnPubKill \/ OnTimeoutNotPending
  BY <1>1, <1>18 DEF OnStop, OnPubKill, OnTimeoutNotPending, End
<1>. QED  BY <1>2, <1>3, <1>4, <1>5, <1>6, <1>7, <1>8, <1>9, <1>10, <1>11, <1>12, <1>13, <1>14,
             <1>15, <1>16, <1>17, <1>18 DEF CoreStep

-----------------------------------------------------------------------------
(* The other steps: the client sends or takes a message, the connection is
   lost, or it has been *)

LEMMA StubMoves ==
    ASSUME RouteInv, [Next]_vars, NEW c \in Clients
    PROVE  /\ stub[c] \in {"closing", "closed"} => stub'[c] \in {"closing", "closed"}
           /\ ~Running => ~Running' /\ core' = core
           /\ ~CoreStep => core' = core
           /\ fwd'[c] # fwd[c] => StubForward(c)
           /\ up'[c] # up[c] => StubReceive(c) /\ Running
<1>1. /\ TypeOK /\ core.next_client_id \in Nat
      /\ stub \in [Clients -> {"none", "serving", "closing", "closed"}]
      /\ fwd \in [Clients -> Nat] /\ up \in [Clients -> Nat]
  BY CoreFields DEF RouteInv, TypeOK
<1>2. CASE Accept \/ OnStopSignal \/ UNCHANGED vars
  BY <1>2 DEF Accept, OnStopSignal, End, vars, Running
<1>3. CASE CoreStep
  <2>1. UNCHANGED <<fwd, up>> /\ Running
    BY <1>1, <1>3, CoreStepFrame
       DEF CoreStep, OnRegister, OnDeregister, OnSub, OnUnsub, OnSrv, OnUnsrv, OnStop, OnKeepAlive,
           OnPub, OnPubFails, OnPubKill, OnReqNotServed, OnReqFails, OnReq, OnRspInvalid, OnRsp,
           OnTimeout, OnTimeoutNotPending, TakeMessage, Take
  <2>2. stub' = stub \/ (OnRegister /\ stub' = [stub EXCEPT ![core.next_client_id] = "serving"])
    BY <1>3
       DEF CoreStep, OnRegister, OnDeregister, OnSub, OnUnsub, OnSrv, OnUnsrv, OnStop, OnKeepAlive,
           OnPub, OnPubFails, OnPubKill, OnReqNotServed, OnReqFails, OnReq, OnRspInvalid, OnRsp,
           OnTimeout, OnTimeoutNotPending
  <2>3. OnRegister => core.next_client_id \in Clients /\ stub[core.next_client_id] = "none"
    BY <1>1 DEF OnRegister, RouteInv, UnusedIds, Clients
  <2>. QED  BY <1>1, <1>3, <2>1, <2>2, <2>3
<1>4. CASE \E id \in timers : TimerFires(id)
  BY <1>4 DEF TimerFires, Running
<1>5. CASE \E d \in Clients : StubStep(d)
  <2>1. PICK d \in Clients : StubStep(d)
    BY <1>5
  <2>. QED  BY <1>1, <2>1 DEF StubStep, StubReceive, StubForward, StubChannelClosed, StubPeerGone,
                              StubDrop, Leave, Running
<1>. QED  BY <1>2, <1>3, <1>4, <1>5 DEF Next

LEMMA UnreadTail ==
    ASSUME NEW s \in CoreType, NEW c \in Clients, NEW n \in Nat, n < Len(s.chan[c])
    PROVE  Unread(s, c, n) # <<>> /\ Unread(s, c, n + 1) = Tail(Unread(s, c, n))
<1>. DEFINE q == s.chan[c]
            u == Unread(s, c, n)
            r == Unread(s, c, n + 1)
            k == Len(q) - n
<1>1. k \in Nat /\ k >= 1 /\ Len(q) - (n + 1) = k - 1
  BY Channel
<1>2. /\ u = [i \in 1..k |-> Seen(s, c, q[n + i])]
      /\ r = [i \in 1..(Len(q) - (n + 1)) |-> Seen(s, c, q[(n + 1) + i])]
  BY DEF Unread
<1>. HIDE DEF q, u, r, k
<1>3. u = [i \in 1..k |-> u[i]]
  BY <1>2
<1>4. u # <<>> /\ Tail(u) = [i \in 1..(k - 1) |-> u[i + 1]]
  BY <1>1, <1>3, TailIs
<1>5. ASSUME NEW i \in 1..(k - 1)  PROVE u[i + 1] = Seen(s, c, q[(n + 1) + i])
  <2>1. i + 1 \in 1..k /\ n + (i + 1) = (n + 1) + i
    BY <1>1
  <2>. QED  BY <1>2, <2>1
<1>6. r = Tail(u)
  BY ONLY <1>1, <1>2, <1>4, <1>5
<1>. QED  BY <1>4, <1>6 DEF u, r

LEMMA ViewSame ==
    ASSUME NEW c \in Clients, UNCHANGED <<core, status>>, stub'[c] = stub[c],
           up'[c] = up[c], Waiting(c)' = Waiting(c)
    PROVE  UNCHANGED <<UpOf(c), ConnOf(c), BusOf(c)>>
<1>1. IsOpen(c)' = IsOpen(c)
  BY DEF IsOpen, Running
<1>2. UpOf(c)' = UpOf(c)
  BY <1>1, UpIsUps
<1>3. ConnOf(c)' = ConnOf(c)
  BY <1>1 DEF ConnOf
<1>4. BusOf(c)' = BusOf(c)
  BY <1>1 DEF BusOf
<1>. QED  BY <1>2, <1>3, <1>4

LEMMA ForwardTakes ==
    ASSUME TypeOK, NEW c \in Clients, StubForward(c)
    PROVE  ClientTakes(c)
<1>1. /\ core \in CoreType /\ fwd[c] \in Nat /\ fwd'[c] = fwd[c] + 1 /\ fwd[c] < Len(core.chan[c])
      /\ UNCHANGED <<core, status, tasks, stub, up>> /\ stub[c] = "serving"
  BY DEF StubForward, TypeOK
<1>2. DownOf(c) = Unread(core, c, fwd[c]) /\ DownOf(c)' = Unread(core, c, fwd[c] + 1)
  BY <1>1 DEF DownOf
<1>3. Waiting(c)' = Waiting(c)
  BY <1>1, WaitingIs
<1>4. UNCHANGED <<UpOf(c), ConnOf(c), BusOf(c)>>
  BY <1>1, <1>3, ViewSame
<1>. QED  BY <1>1, <1>2, <1>4, UnreadTail DEF ClientTakes

LEMMA ReceiveSends ==
    ASSUME BusInv, NEW c \in Clients, StubReceive(c), Running
    PROVE  ClientSends(c)
<1>1. TypeOK /\ core \in CoreType
  BY DEF BusInv, TurnInv, TypeOK
<1>2. PICK m \in Contents[c] \cup Answers(c) :
         tasks' = Append(tasks, [type |-> "Message", client |-> c, id |-> up[c] + 1, content |-> m])
  BY DEF StubReceive
<1>3. /\ up'[c] = up[c] + 1 /\ stub[c] = "serving"
      /\ UNCHANGED <<core, status, stub, fwd>>
  BY <1>1 DEF StubReceive, TypeOK
<1>. DEFINE task == MessageFrom(c, up[c] + 1, m)
<1>4. task \in Task /\ task.type = "Message" /\ task.client = c /\ task.id = up[c] + 1
      /\ tasks' = Append(tasks, task)
  <2>1. m \in ClientContent
    BY <1>1, ServerAssumption, ReceivedType
  <2>. QED  BY <1>1, <1>2, <2>1 DEF TypeOK, Task, MessageFrom
<1>. HIDE DEF task
<1>5. Waiting(c)' = Waiting(c) \cup {task}
  BY <1>1, <1>4, WaitingIs, WaitingAdded DEF TypeOK
<1>. DEFINE W == Waiting(c)
            V == Waiting(c)'
            b == up[c]
            q == Ups(core, c, W, b)
            r == Ups(core, c, V, b + 1)
<1>6. IsOpen(c) /\ IsOpen(c)'
  BY <1>3 DEF IsOpen, Running
<1>7. UpOf(c)' # <<>> /\ Front(UpOf(c)') = UpOf(c)
  <2>1. PICK a \in Nat : InTurn(W, a, b)
    BY DEF BusInv, WaitInTurn
  <2>2. UpOf(c) = q /\ UpOf(c)' = r
    BY <1>3, <1>6, UpIsUps
  <2>3. V = W \cup {task} /\ task.id = b + 1
    BY <1>4, <1>5
  <2>. HIDE DEF W, V, b
  <2>4. r # <<>> /\ Front(r) = q
    BY ONLY <2>1, <2>3, UpsAdded
  <2>. QED  BY ONLY <2>2, <2>4
<1>8. DownOf(c)' = DownOf(c)
  BY <1>3 DEF DownOf
<1>9. ConnOf(c)' = ConnOf(c)
  BY <1>6 DEF ConnOf
<1>10. BusOf(c)' = BusOf(c)
  BY <1>3, <1>6 DEF BusOf
<1>. QED  BY <1>6, <1>7, <1>8, <1>9, <1>10 DEF ClientSends

LEMMA ClosedView ==
    ASSUME NEW c
    PROVE  /\ ~IsOpen(c) => UpOf(c) = <<>> /\ ConnOf(c) = "closed" /\ BusOf(c) = View(c)!NoBus
           /\ ~IsOpen(c)' => UpOf(c)' = <<>> /\ ConnOf(c)' = "closed" /\ BusOf(c)' = View(c)!NoBus
           /\ IsOpen(c) => ConnOf(c) = "open"
<1>1. View(c)!NoBus = [subs |-> {}, owner |-> [t \in Topics |-> NoOwner], pending |-> {}, next |-> 1]
  BY ViewOperators DEF View!NoBus
<1>2. ~IsOpen(c) => UpOf(c) = <<>> /\ ConnOf(c) = "closed" /\ BusOf(c) = View(c)!NoBus
  BY <1>1 DEF UpOf, ConnOf, BusOf
<1>3. ~IsOpen(c)' => UpOf(c)' = <<>> /\ ConnOf(c)' = "closed" /\ BusOf(c)' = View(c)!NoBus
  BY <1>1 DEF UpOf, ConnOf, BusOf
<1>. QED  BY <1>2, <1>3 DEF ConnOf

LEMMA Loses ==
    ASSUME NEW c, ~IsOpen(c)', IsOpen(c) \/ DownOf(c) # <<>>, DownOf(c)' \in {<<>>, DownOf(c)}
    PROVE  View(c)!ConnectionLost
BY ClosedView DEF View!ConnectionLost, View!Open

(* The core acks the client that stops it. *)
LEMMA OwnStop ==
    ASSUME BusInv, TypeOK', NEW c \in Clients, IsOpen(c), ~IsOpen(c)', OnStop, Sender = c,
           DownOf(c) = Unread(core, c, fwd[c]), DownOf(c)' = Unread(core', c, fwd[c])
    PROVE  View(c)!BusStop
<1>. DEFINE m == AckMsg(Head(tasks).id, NoError, NoCount)
<1>1. /\ TypeOK /\ core \in CoreType /\ core' \in CoreType /\ RouteInv /\ Running
      /\ stub[c] \in {"none", "serving"} /\ fwd[c] \in Nat /\ fwd[c] <= Len(core.chan[c])
  BY DEF BusInv, TurnInv, TypeOK, IsOpen
<1>2. /\ Take("Message") /\ Content.type = "Stop" /\ core' = Ack(core, NoError, NoCount)
      /\ tasks # <<>> /\ Head(tasks).type = "Message" /\ Content = Head(tasks).content
  BY DEF OnStop, TakeMessage, Take, Content
<1>3. c \in core.senders /\ c \notin Closed
  BY <1>1, <1>2, Strangers
<1>4. NoError \in Errors /\ NoCount \in Nat \cup {NoCount}
  BY ErrorTypes
<1>5. Gives(core, core', c, <<m>>)
  BY <1>1, <1>2, <1>3, <1>4, AckServes
<1>6. m \in ServerMsg
  <2>1. Head(tasks).id \in Nat
    BY <1>1, <1>2, HeadMessage DEF TypeOK
  <2>. QED  BY <1>4, <2>1, MessageTypes
<1>7. Seen(core', c, m) = [type |-> "Ack", id |-> Head(tasks).id, error |-> NoError]
  BY AckSeen DEF Shown, NoError
<1>. HIDE DEF m
<1>8. UpOf(c) # <<>> /\ Head(UpOf(c)) = MessageOf(core, c, Head(tasks))
  BY <1>2, UpHead
<1>9. Head(UpOf(c)).type = "StopBus" /\ Head(UpOf(c)).id = Head(tasks).id
  BY <1>2, <1>8, MessageIs
<1>10. /\ DownOf(c) \o <<>> = DownOf(c)
       /\ DownOf(c)' = DownOf(c) \o <<Seen(core', c, m)>>
  <2>1. RanksKept(core, core', c) /\ core'.chan[c] = Then(core.chan[c], m)
    <3>1. Serves(core, core', c, <<m>>)
      BY <1>5 DEF Gives
    <3>. QED  BY <3>1, ServesRanks DEF Serves, Then
  <2>2. /\ Unread(core, c, fwd[c]) \o <<>> = Unread(core, c, fwd[c])
        /\ Unread(core', c, fwd[c]) = Then(Unread(core, c, fwd[c]), Seen(core', c, m))
    BY <1>1, <1>6, <2>1, UnreadGrows
  <2>. QED  BY <2>2 DEF Then
<1>11. View(c)!Answer(<<>>, View(c)!NoError)
  BY <1>7, <1>9, <1>10, ViewOperators DEF View!Answer, View!Ack, View!Asked
<1>12. View(c)!Asks("StopBus")
  BY <1>8, <1>9, ClosedView DEF View!Asks, View!Open, View!Asked
<1>. QED  BY <1>11, <1>12, ClosedView DEF View!BusStop

LEMMA Lost ==
    ASSUME BusInv, BusInv', NEW c \in Clients, IsOpen(c), ~IsOpen(c)', [Next]_vars
    PROVE  BusMoves(c)
<1>1. /\ TypeOK /\ TypeOK' /\ core \in CoreType /\ core' \in CoreType /\ RouteInv /\ Routed(core)
      /\ NothingSentYet /\ NothingSentYet'
      /\ Running /\ stub[c] \in {"none", "serving"} /\ c \notin Closed
      /\ fwd[c] \in Nat /\ fwd[c] <= Len(core.chan[c])
  BY DEF BusInv, TurnInv, TypeOK, IsOpen, Closed
<1>2. CASE stub'[c] \in {"closing", "closed"}
  BY <1>2, DownIs, Loses DEF BusMoves
<1>3. CASE stub'[c] \in {"none", "serving"}
  <2>1. ~Running'
    BY <1>3 DEF IsOpen
  <2>2. /\ OnStopSignal \/ OnTimeoutNotPending \/ OnStop \/ OnPubKill \/ OnTimeout
        /\ fwd'[c] = fwd[c] /\ stub' = stub
    <3>1. CASE CoreStep
      BY <1>1, <2>1, <3>1
         DEF Running, CoreStep, OnRegister, OnDeregister, OnSub, OnUnsub, OnSrv, OnUnsrv, OnStop,
             OnKeepAlive, OnPub, OnPubFails, OnPubKill, OnReqNotServed, OnReqFails, OnReq,
             OnRspInvalid, OnRsp, OnTimeout, OnTimeoutNotPending, Continue
    <3>2. CASE ~CoreStep
      BY <1>1, <2>1, <3>2
         DEF Running, Next, Accept, OnStopSignal, TimerFires, StubStep, StubReceive, StubForward,
             StubChannelClosed, StubPeerGone, StubDrop, vars
    <3>. QED  BY <3>1, <3>2
  <2>3. DownOf(c) = Unread(core, c, fwd[c]) /\ DownOf(c)' = Unread(core', c, fwd[c])
    BY <1>1, <1>3, <2>2, DownIs
  <2>4. ASSUME core'.chan[c] = core.chan[c], RanksKept(core, core', c)  PROVE BusMoves(c)
    <3>1. DownOf(c)' = DownOf(c)
      BY <1>1, <2>3, <2>4, UnreadGrows
    <3>. QED  BY <3>1, Loses DEF BusMoves
  <2>5. CASE OnStopSignal \/ OnTimeoutNotPending
    <3>1. core' = core
      BY <2>5 DEF OnStopSignal, OnTimeoutNotPending
    <3>. QED  BY <2>4, <3>1 DEF RanksKept
  <2>6. CASE OnStop
    <3>1. CASE Sender = c
      BY <1>1, <2>3, <2>6, <3>1, OwnStop DEF BusMoves, View!BusStep
    <3>2. CASE Sender # c
      <4>1. Take("Message") /\ core' = Ack(core, NoError, NoCount)
        BY <2>6 DEF OnStop, TakeMessage
      <4>2. NoError \in Errors /\ NoCount \in Nat \cup {NoCount}
        BY ErrorTypes
      <4>3. Serves(core, core', c, <<>>)
        BY <1>1, <3>2, <4>1, <4>2, AckServes
      <4>4. core'.chan[c] = core.chan[c]
        BY <1>1, <4>3, AppendGives DEF Serves
      <4>. QED  BY <2>4, <4>3, <4>4, ServesRanks
    <3>. QED  BY <3>1, <3>2
  <2>7. CASE OnPubKill
    <3>. DEFINE t == Content.topic
    <3>1. PICK done \in SUBSET Reachable : core' = DeliverAll(core, done, Publication)
      BY <2>7 DEF OnPubKill
    <3>2. done \in SUBSET Clients
      BY DEF Reachable
    <3>3. Publication \in ServerMsg /\ Publication.type # "Req" /\ t \in Topics
      <4>1. Take("Message") /\ Content.type = "Pub"
        BY <2>7 DEF OnPubKill, TakeMessage
      <4>2. Content \in ClientContent /\ Payload \in Payloads /\ Content.topic \in Topics
        BY <1>1, <4>1, HeadMessage, ContentTopic DEF TypeOK
      <4>. QED  BY <4>2, MessageTypes DEF Publication, PubMsg
    <3>4. Seen(core', c, Publication) = [type |-> "Pub", topic |-> t]
      BY DEF Seen, Publication, PubMsg
    <3>5. c \in done => View(c)!Reached(t)
      <4>1. c \in done => c \in GetSubscribers(core.subs, t)
        BY DEF Reachable, Recipients
      <4>2. BusOf(c) = KeptFor(core, c)
        BY DEF BusOf
      <4>. HIDE DEF t
      <4>. QED  BY <1>1, <3>3, <4>1, <4>2, ReachedIs
    <3>. HIDE DEF Publication, t
    <3>6. Gives(core, core', c, IF c \in done THEN <<Publication>> ELSE <<>>)
      BY <1>1, <3>1, <3>2, <3>3, DeliverAllServes
    <3>7. RanksKept(core, core', c)
      BY <3>6, ServesRanks DEF Gives
    <3>8. CASE c \in done
      <4>1. core'.chan[c] = Then(core.chan[c], Publication)
        BY <3>6, <3>8 DEF Gives, Serves, Then
      <4>2. DownOf(c)' = Append(DownOf(c), Seen(core', c, Publication))
        BY <1>1, <2>3, <3>3, <3>7, <4>1, UnreadGrows
      <4>3. LastPublication(c, t)
        BY <3>4, <3>5, <3>8, <4>2, ClosedView DEF LastPublication
      <4>. QED  BY <3>3, <4>3 DEF BusMoves
    <3>9. CASE c \notin done
      <4>1. core'.chan[c] = core.chan[c]
        BY <1>1, <3>6, <3>9, AppendGives DEF Gives, Serves
      <4>. QED  BY <2>4, <3>7, <4>1
    <3>. QED  BY <3>8, <3>9
  <2>8. CASE OnTimeout
    <3>1. PICK p \in core.pending : core' = Respond(core, p, "Timeout", NoPayload)
                                      /\ (DeliverError(core, p.requester) # NoError \/ Continue)
      BY <2>8 DEF OnTimeout
    <3>. DEFINE m == RspMsg(p.request_id, "Timeout", NoPayload)
                v == [core EXCEPT !.pending = @ \ {p}]
                d == p.requester
    <3>2. DeliverError(core, d) # NoError
      BY <1>1, <2>1, <3>1 DEF Continue, Running
    <3>3. Responding(p, "Timeout", NoPayload, m, v, core') /\ "Timeout" \in {"Ok", "Timeout"}
      BY <3>1 DEF Responding
    <3>4. v.chan = core.chan /\ v.senders = core.senders /\ core' = Deliver(v, d, m)
      BY <1>1, <3>1 DEF CoreType, Respond
    <3>5. NoPayload \in Payloads
      BY DEF Payloads, NoPayload, Ids, Bus
    <3>. HIDE DEF m, v, d
    <3>6. Responded(c, p, "Timeout", m, v, core')
      BY <1>1, <3>3, <3>5, Responds
    <3>7. RanksKept(core, core', c) /\ v \in CoreType /\ m \in ServerMsg
      BY <3>6 DEF Responded
    <3>8. DeliverError(v, d) # NoError
      BY <3>2, <3>4 DEF DeliverError
    <3>9. core'.chan[c] = core.chan[c]
      BY <3>4, <3>7, <3>8, DeliverChan
    <3>. QED  BY <2>4, <3>7, <3>9
  <2>. QED  BY <2>2, <2>5, <2>6, <2>7, <2>8
<1>. QED  BY <1>1, <1>2, <1>3 DEF TypeOK

LEMMA ClosedMoves ==
    ASSUME BusInv, BusInv', NEW c \in Clients, ~IsOpen(c), [Next]_vars
    PROVE  Moves(c)
<1>1. TypeOK /\ RouteInv /\ NothingSentYet /\ NothingSentYet' /\ TypeOK'
      /\ stub[c] \in {"none", "serving", "closing", "closed"}
      /\ stub'[c] \in {"none", "serving", "closing", "closed"}
  BY DEF BusInv, TurnInv, TypeOK
<1>2. ~IsOpen(c)'
  BY <1>1, StubMoves DEF IsOpen
<1>3. UNCHANGED <<UpOf(c), ConnOf(c), BusOf(c)>>
  BY <1>2, ClosedView
<1>4. CASE stub'[c] \in {"closing", "closed"}
  <2>1. DownOf(c)' = <<>>
    BY <1>4, DownIs
  <2>2. CASE DownOf(c) = <<>>
    BY <1>3, <2>1, <2>2 DEF Moves
  <2>3. CASE DownOf(c) # <<>>
    BY <1>2, <2>1, <2>3, Loses DEF Moves, BusMoves
  <2>. QED  BY <2>2, <2>3
<1>5. CASE stub'[c] \in {"none", "serving"}
  <2>1. stub[c] \in {"none", "serving"} /\ ~Running /\ core' = core
    BY <1>1, <1>5, StubMoves DEF IsOpen
  <2>2. CASE fwd'[c] # fwd[c]
    BY <1>1, <2>2, StubMoves, ForwardTakes DEF Moves
  <2>3. CASE fwd'[c] = fwd[c]
    <3>1. DownOf(c) = Unread(core, c, fwd[c]) /\ DownOf(c)' = Unread(core, c, fwd[c])
      BY <1>1, <1>5, <2>1, <2>3, DownIs
    <3>. QED  BY <1>3, <3>1 DEF Moves
  <2>. QED  BY <2>2, <2>3
<1>. QED  BY <1>1, <1>4, <1>5

LEMMA EveryStep ==
    ASSUME BusInv, BusInv', [Next]_vars, NEW c \in Clients
    PROVE  Moves(c)
<1>1. RouteInv /\ TypeOK
  BY DEF BusInv, TurnInv
<1>2. CASE ~IsOpen(c)
  BY <1>2, ClosedMoves
<1>3. CASE IsOpen(c) /\ ~IsOpen(c)'
  BY <1>3, Lost DEF Moves
<1>4. CASE IsOpen(c) /\ IsOpen(c)'
  <2>1. CASE fwd'[c] # fwd[c]
    BY <1>1, <2>1, StubMoves, ForwardTakes DEF Moves
  <2>2. CASE up'[c] # up[c]
    BY <1>1, <2>2, StubMoves, ReceiveSends DEF Moves
  <2>3. CASE fwd'[c] = fwd[c] /\ up'[c] = up[c]
    <3>1. Steady(c)
      BY <1>4, <2>3 DEF Steady
    <3>2. CASE Next
      BY <3>1, <3>2, SteadyMoves DEF Moves, BusMoves, CoreMoves
    <3>3. CASE UNCHANGED vars
      <4>1. DownOf(c)' = DownOf(c)
        BY <3>3 DEF vars, DownOf
      <4>2. Waiting(c)' = Waiting(c)
        BY <3>3, WaitingIs DEF vars
      <4>3. UNCHANGED <<UpOf(c), ConnOf(c), BusOf(c)>>
        BY <3>3, <4>2, ViewSame DEF vars
      <4>. QED  BY <4>1, <4>3 DEF Moves
    <3>. QED  BY <3>2, <3>3
  <2>. QED  BY <2>1, <2>2, <2>3
<1>. QED  BY <1>2, <1>3, <1>4

LEMMA StartsEmpty ==
    ASSUME Init, NEW c \in Clients
    PROVE  UpOf(c) = <<>> /\ DownOf(c) = <<>> /\ IsOpen(c) /\ BusOf(c) = View(c)!NoBus
<1>1. /\ stub[c] = "none" /\ Running /\ tasks = <<>> /\ core \in CoreType /\ core.subs = {<<Bus, Kill>>}
      /\ core.owner = [t \in Topics |-> NoOwner] /\ core.pending = {}
      /\ \A d \in Clients : core.chan[d] = <<>>
  BY InitType DEF Init, Running, TypeOK
<1>2. IsOpen(c) /\ DownOf(c) = <<>>
  BY <1>1 DEF IsOpen, DownOf
<1>3. UpOf(c) = <<>>
  <2>1. WaitingIds(c) = {} /\ Cardinality({}) = 0
    BY <1>1, FS_EmptySet DEF WaitingIds, Waiting
  <2>. QED  BY <1>2, <2>1 DEF UpOf
<1>4. BusOf(c) = View(c)!NoBus
  <2>1. RoutedIds(core, c) = {}
    <3>1. \A d \in Clients : Requests(core, d) = {}
      BY <1>1, RequestIn
    <3>. QED  BY <3>1 DEF RoutedIds
  <2>2. SubsFor(core, c) = {} /\ PendingFor(core, c) = {} /\ NextFor(core, c) = 1
    BY <1>1, <2>1, FS_EmptySet DEF SubsFor, PendingFor, NextFor, Of, Clients, Bus
  <2>3. OwnersFor(core, c) = [t \in Topics |-> NoOwner]
    BY <1>1 DEF OwnersFor
  <2>4. KeptFor(core, c) = [subs |-> {}, owner |-> [t \in Topics |-> NoOwner],
                            pending |-> {}, next |-> 1]
    BY <1>1, <2>2, <2>3, KeptIs DEF Kept
  <2>. QED  BY <1>2, <2>4, ViewOperators DEF BusOf, View!NoBus
<1>. QED  BY <1>2, <1>3, <1>4

(* The invariants of the server's tables, queue and channels that the
   refinement rests on: routed requests have their own ids, and pending
   responses are for requests in a channel (server/core.rs:210-247), the
   messages of each client wait in the order their stub has numbered them
   (server/client_stub.rs:59-75), and a client that is not registered has been
   sent nothing. *)
THEOREM BusInvariant == ASSUME NoGuesses PROVE Spec => []BusInv
<1>1. Init => BusInv
  BY BusInit
<1>2. BusInv /\ [Next]_vars => BusInv'
  BY BusNext
<1>. QED  BY <1>1, <1>2, PTL DEF Spec

(* To each of its clients, whatever the others do, the server
   (server/core.rs:149-330, server/client_stub.rs:31-83) is the bus that module
   ClientCore assumes. *)
THEOREM ServerIsTheBus == ASSUME NoGuesses PROVE Spec => ImplementsBus
<1>1. Init => \A c \in Clients : UpOf(c) = <<>> /\ DownOf(c) = <<>> /\ IsOpen(c)
                                   /\ BusOf(c) = View(c)!NoBus
  BY StartsEmpty
<1>2. BusInv /\ BusInv' /\ [Next]_vars =>
         [\A c \in Clients :
             \/ UNCHANGED <<UpOf(c), DownOf(c), ConnOf(c), BusOf(c)>>
             \/ ClientSends(c) \/ ClientTakes(c) \/ BusMoves(c)]_vars
  BY EveryStep DEF Moves
<1>3. Spec => []BusInv
  BY BusInvariant
<1>. QED  BY <1>1, <1>2, <1>3, PTL DEF Spec, ImplementsBus
==============================================================================
