----------------------------- MODULE LinkProofs ------------------------------
(***************************************************************************)
(* Proofs of the safety properties of module LinkProperties, for payloads  *)
(* and kernel buffers of any size.                                         *)
(***************************************************************************)
EXTENDS LinkProperties, SequenceTheorems, TLAPS

-----------------------------------------------------------------------------
(* The invariant *)

Pieces == [msg : Nat, size : Nat, piece : Nat]

Statuses == {"open", "stopped", "IOError", "ChannelClosed", "ClientTimeout"}

Types ==
    /\ status \in [Ends -> Statuses] /\ status["client"] # "ClientTimeout"
    /\ queue \in [Ends -> Seq(Sizes)]
    /\ out \in [Ends -> Seq(Pieces)]
    /\ wire \in [Ends -> Seq(Pieces)]
    /\ in \in [Ends -> Seq(Pieces)]
    /\ sent \in [Ends -> Seq(Sizes)]
    /\ got \in [Ends -> Seq(Nat)]
    /\ due \in Nat
    /\ idle \in 0..Timeout /\ slow \in 0..idle
    /\ stalled \in BOOLEAN

WireHasRoom == \A e \in Ends : Len(wire[e]) <= Room

(* The stream s holds the frames of these sizes that follow the first m, one after
   the other, or a first part of them: start says where each one begins
   (cbor_codec.rs:37-66). *)
Layout(s, sizes, m, start) ==
    /\ start \in [m+1..Len(sizes)+1 -> Nat]
    /\ start[m + 1] = 0
    /\ \A i \in m+1..Len(sizes) : start[i + 1] = start[i] + (HeaderLen + sizes[i])
    /\ \A i, j \in m+1..Len(sizes)+1 : i < j => start[i] + (HeaderLen + sizes[i]) <= start[j]
    /\ Len(s) <= start[Len(sizes) + 1]
    /\ \A i \in m+1..Len(sizes) : \A k \in 1..HeaderLen + sizes[i] :
          start[i] + k <= Len(s) =>
              s[start[i] + k] = [msg |-> i, size |-> sizes[i], piece |-> k]

(* the stream has them all *)
Whole(s, sizes, start) == Len(s) = start[Len(sizes) + 1]

(* What is on its way to e, in its order *)
Stream(e) == (in[e] \o wire[Peer(e)]) \o out[Peer(e)]

(* What is on its way to an open end is what it has not decoded yet, and as long as
   the other end is open all of it. *)
OnItsWay(e) ==
    Open(e) => \E start :
        /\ Layout(Stream(e), sent[Peer(e)], Len(got[e]), start)
        /\ Open(Peer(e)) => Whole(Stream(e), sent[Peer(e)], start)

InOrder == \A e \in Ends : OnItsWay(e)

(* Only an end that is open sends. *)
ClosedSendNothing == \A e \in Ends : ~Open(e) => out[e] = <<>>

(* Each end waits in send, and the kernel has no room for either. *)
BothBlocked == \A e \in Ends : Sending(e) /\ Len(wire[e]) = Room

(* The client's keep-alive is on its way, or still to be sent. *)
KeepAliveIsComing ==
    Open("client") => due > 0 \/ Len(got["stub"]) < Len(sent["client"])

(* While the client is well, at most one of the intervals that pass without a message
   from it ends with nothing left to be done, unless both ends wait in send for each
   other; and after that one there is a keep-alive to come (client_stub.rs:47-75,
   client/core.rs:111-135). *)
KeepAlivesCome ==
    ~stalled /\ Open("stub") =>
        \/ idle <= slow
        \/ idle = slow + 1 /\ KeepAliveIsComing
        \/ BothBlocked

LinkInv ==
    /\ Types
    /\ WireHasRoom
    /\ DecodedAsEncoded
    /\ InOrder
    /\ ClosedSendNothing
    /\ FailsForAReason
    /\ KeepAlivesCome

-----------------------------------------------------------------------------
(* Constants and sequences *)

(* LinkAssumption, one constant at a time *)
LEMMA ConstantsAre ==
    /\ HeaderLen \in Nat \ {0} /\ Short \in Nat \ {0} /\ Room \in Nat \ {0}
    /\ MaxSize \in Nat /\ Timeout \in Nat /\ Timeout > 1
    /\ \A size \in Sizes : size \in Nat \ {0}
    /\ Short \in Sizes /\ Short <= MaxSize
BY LinkAssumption

(* The k-th piece of a frame that starts behind the first b pieces of a stream and
   ends within it *)
LEMMA PieceFits ==
    ASSUME NEW b \in Nat, NEW k \in Nat \ {0}, NEW size \in Nat, NEW length \in Nat,
           NEW header \in Nat, k <= header + size, b + (header + size) <= length
    PROVE  b + k \in 1..length /\ b + k <= length
OBVIOUS

(* Cutting the middle one of three parts of a stream, or the last one, changes
   nothing of the whole. *)
LEMMA CutsJoin ==
    ASSUME NEW a \in Seq(Pieces), NEW b \in Seq(Pieces), NEW c \in Seq(Pieces)
    PROVE  /\ \A n \in 0..Len(b) :
                 ((a \o SubSeq(b, 1, n)) \o SubSeq(b, n + 1, Len(b))) \o c = (a \o b) \o c
           /\ \A n \in 0..Len(c) :
                 (a \o (b \o SubSeq(c, 1, n))) \o SubSeq(c, n + 1, Len(c)) = (a \o b) \o c
<1>1. \A t \in Seq(Pieces) : \A n \in 0..Len(t) :
         /\ SubSeq(t, 1, n) \in Seq(Pieces)
         /\ SubSeq(t, n + 1, Len(t)) \in Seq(Pieces)
         /\ SubSeq(t, 1, n) \o SubSeq(t, n + 1, Len(t)) = t
  <2> SUFFICES ASSUME NEW t \in Seq(Pieces), NEW n \in 0..Len(t)
               PROVE  /\ SubSeq(t, 1, n) \in Seq(Pieces)
                      /\ SubSeq(t, n + 1, Len(t)) \in Seq(Pieces)
                      /\ SubSeq(t, 1, n) \o SubSeq(t, n + 1, Len(t)) = t
    OBVIOUS
  <2>1. SubSeq(t, 1, n) \o SubSeq(t, n + 1, Len(t)) = SubSeq(t, 1, Len(t))
    <3>1. 1 \in 1..Len(t)+1 /\ n \in 1-1..Len(t) /\ Len(t) \in n..Len(t)
      OBVIOUS
    <3> QED
      BY <3>1, ConcatAdjacentSubSeq
  <2>2. SubSeq(t, 1, Len(t)) = t
    BY SubSeqFull
  <2>3. SubSeq(t, 1, n) \in Seq(Pieces) /\ SubSeq(t, n + 1, Len(t)) \in Seq(Pieces)
    OBVIOUS
  <2> QED
    BY <2>1, <2>2, <2>3
<1>2. ASSUME NEW n \in 0..Len(b)
      PROVE  (a \o SubSeq(b, 1, n)) \o SubSeq(b, n + 1, Len(b)) = a \o b
  <2> DEFINE x == SubSeq(b, 1, n)
             y == SubSeq(b, n + 1, Len(b))
  <2>1. x \in Seq(Pieces) /\ y \in Seq(Pieces) /\ x \o y = b
    BY <1>1
  <2> HIDE DEF x, y
  <2>2. (a \o x) \o y = a \o (x \o y)
    <3>1. x \in Seq(Pieces) /\ y \in Seq(Pieces)
      BY <2>1
    <3> QED
      BY <3>1
  <2> QED
    BY <2>1, <2>2 DEF x, y
<1>3. ASSUME NEW n \in 0..Len(c)
      PROVE  (a \o (b \o SubSeq(c, 1, n))) \o SubSeq(c, n + 1, Len(c)) = (a \o b) \o c
  <2> DEFINE x == SubSeq(c, 1, n)
             y == SubSeq(c, n + 1, Len(c))
  <2>1. x \in Seq(Pieces) /\ y \in Seq(Pieces) /\ x \o y = c
    BY <1>1
  <2> HIDE DEF x, y
  <2>2. b \o x \in Seq(Pieces) /\ a \o b \in Seq(Pieces)
    BY <2>1, ConcatProperties
  <2>3. a \o (b \o x) = (a \o b) \o x
    BY <2>1
  <2>4. ((a \o b) \o x) \o y = (a \o b) \o (x \o y)
    <3>1. x \in Seq(Pieces) /\ y \in Seq(Pieces)
      BY <2>1
    <3> QED
      BY <3>1, <2>2
  <2> QED
    BY <2>1, <2>3, <2>4 DEF x, y
<1> QED
  BY <1>2, <1>3

-----------------------------------------------------------------------------
(* Frames in a stream *)

(* A frame has the pieces of its header and its payload (cbor_codec.rs:54-66). *)
LEMMA FrameIs ==
    ASSUME NEW n \in Nat, NEW size \in Nat
    PROVE  /\ Frame(n, size) \in Seq(Pieces)
           /\ Len(Frame(n, size)) = HeaderLen + size
           /\ \A k \in 1..HeaderLen + size :
                 Frame(n, size)[k] = [msg |-> n, size |-> size, piece |-> k]
           /\ Frame(n, size) # <<>>
<1>1. HeaderLen + size \in Nat \ {0}
  BY ConstantsAre
<1> DEFINE len == HeaderLen + size
           f == [k \in 1..len |-> [msg |-> n, size |-> size, piece |-> k]]
<1>2. Frame(n, size) = f
  BY DEF Frame
<1> HIDE DEF len
<1>3. len \in Nat \ {0}
  BY <1>1 DEF len
<1>4. f \in Seq(Pieces) /\ Len(f) = len /\ f # <<>>
  BY <1>3 DEF Pieces
<1> QED
  BY <1>2, <1>3, <1>4 DEF len

(* The numbers of a layout *)
LEMMA LayoutTypes ==
    ASSUME NEW s, NEW sizes \in Seq(Sizes), NEW m \in 0..Len(sizes), NEW start,
           Layout(s, sizes, m, start)
    PROVE  /\ \A i \in m+1..Len(sizes) : i \in 1..Len(sizes) /\ sizes[i] \in Nat \ {0}
           /\ \A i \in m+1..Len(sizes)+1 : start[i] \in Nat
           /\ Len(sizes) \in Nat /\ m \in Nat
           /\ Len(sizes) + 1 \in m+1..Len(sizes)+1
<1>1. \A i \in m+1..Len(sizes) : i \in 1..Len(sizes)
  OBVIOUS
<1>2. \A i \in 1..Len(sizes) : sizes[i] \in Nat \ {0}
  <2>1. \A i \in 1..Len(sizes) : sizes[i] \in Sizes
    OBVIOUS
  <2> QED
    BY <2>1, ConstantsAre
<1>3. \A i \in m+1..Len(sizes)+1 : start[i] \in Nat
  BY DEF Layout
<1> QED
  BY <1>1, <1>2, <1>3

(* A first part of a stream is laid out as the stream is. *)
LEMMA LayoutOfPart ==
    ASSUME NEW s \in Seq(Pieces), NEW t \in Seq(Pieces), NEW sizes \in Seq(Sizes),
           NEW m \in 0..Len(sizes), NEW start,
           Layout(s, sizes, m, start),
           Len(t) <= Len(s), \A k \in 1..Len(t) : t[k] = s[k]
    PROVE  Layout(t, sizes, m, start)
<1>1. \A i \in m+1..Len(sizes) : start[i] \in Nat /\ sizes[i] \in Nat
  <2>1. \A i \in m+1..Len(sizes) : sizes[i] \in Nat \ {0}
    BY LayoutTypes
  <2>2. \A i \in m+1..Len(sizes)+1 : start[i] \in Nat
    BY LayoutTypes
  <2> QED
    BY <2>1, <2>2
<1>2. start[Len(sizes) + 1] \in Nat
  BY DEF Layout
<1>3. Len(t) <= start[Len(sizes) + 1]
  BY <1>2 DEF Layout
<1>4. ASSUME NEW i \in m+1..Len(sizes), NEW k \in 1..HeaderLen + sizes[i],
             start[i] + k <= Len(t)
      PROVE  t[start[i] + k] = [msg |-> i, size |-> sizes[i], piece |-> k]
  <2>1. start[i] + k \in 1..Len(t) /\ start[i] + k <= Len(s)
    BY <1>1, <1>4, ConstantsAre
  <2> QED
    BY <2>1 DEF Layout
<1> QED
  BY <1>3, <1>4 DEF Layout

(* What a stream that is not empty starts with *)
LEMMA LayoutFirst ==
    ASSUME NEW s \in Seq(Pieces), NEW sizes \in Seq(Sizes), NEW m \in 0..Len(sizes), NEW start,
           Layout(s, sizes, m, start), s # <<>>
    PROVE  /\ m < Len(sizes)
           /\ s[1] = [msg |-> m + 1, size |-> sizes[m + 1], piece |-> 1]
           /\ \A k \in 1..HeaderLen + sizes[m + 1] :
                 k <= Len(s) => s[k] = [msg |-> m + 1, size |-> sizes[m + 1], piece |-> k]
<1>1. Len(s) \in Nat \ {0}
  OBVIOUS
<1>2. m < Len(sizes)
  BY <1>1 DEF Layout
<1>3. m + 1 \in m+1..Len(sizes) /\ sizes[m + 1] \in Nat \ {0} /\ start[m + 1] = 0
  <2>1. m + 1 \in m+1..Len(sizes) /\ m + 1 \in 1..Len(sizes)
    BY <1>2
  <2>2. sizes[m + 1] \in Sizes
    BY <2>1
  <2> QED
    BY <2>1, <2>2, ConstantsAre DEF Layout
<1>4. 1 \in 1..HeaderLen + sizes[m + 1]
  BY <1>3, ConstantsAre
<1>5. \A k \in 1..HeaderLen + sizes[m + 1] : k <= Len(s) =>
         s[0 + k] = [msg |-> m + 1, size |-> sizes[m + 1], piece |-> k]
  <2>1. \A k \in 1..HeaderLen + sizes[m + 1] : start[m + 1] + k <= Len(s) =>
           s[start[m + 1] + k] = [msg |-> m + 1, size |-> sizes[m + 1], piece |-> k]
    BY <1>3 DEF Layout
  <2> QED
    BY <1>3, <2>1, ConstantsAre
<1>6. \A k \in 1..HeaderLen + sizes[m + 1] : 0 + k = k
  BY <1>3, ConstantsAre
<1> QED
  BY <1>1, <1>2, <1>4, <1>5, <1>6

(* A whole stream stays so when the next frame is put at its end
   (cbor_codec.rs:54-66). *)
LEMMA LayoutExtended ==
    ASSUME NEW s \in Seq(Pieces), NEW sizes \in Seq(Sizes), NEW m \in 0..Len(sizes), NEW start,
           Layout(s, sizes, m, start), Whole(s, sizes, start), NEW size \in Sizes
    PROVE  \E after :
              /\ Layout(s \o Frame(Len(sizes) + 1, size), Append(sizes, size), m, after)
              /\ Whole(s \o Frame(Len(sizes) + 1, size), Append(sizes, size), after)
<1> DEFINE n == Len(sizes)
           len == HeaderLen + size
           after == [i \in m+1..n+2 |-> IF i = n + 2 THEN start[n + 1] + len ELSE start[i]]
           t == s \o Frame(n + 1, size)
           all == Append(sizes, size)
<1>1. /\ \A i \in m+1..n : i \in 1..n /\ sizes[i] \in Nat \ {0} /\ i + 1 \in m+1..n+1
      /\ \A i \in m+1..n+1 : start[i] \in Nat
      /\ n \in Nat /\ m \in Nat /\ m <= n
      /\ n + 1 \in m+1..n+1
  <2>1. /\ \A i \in m+1..n : i \in 1..n /\ sizes[i] \in Nat \ {0}
        /\ \A i \in m+1..n+1 : start[i] \in Nat
        /\ n \in Nat /\ m \in Nat
        /\ n + 1 \in m+1..n+1
    BY LayoutTypes
  <2>2. m <= n /\ \A i \in m+1..n : i + 1 \in m+1..n+1
    OBVIOUS
  <2> QED
    BY <2>1, <2>2
<1>2. size \in Nat \ {0} /\ HeaderLen \in Nat \ {0} /\ len \in Nat
  BY ConstantsAre
<1>3. /\ start[m + 1] = 0
      /\ \A i \in m+1..n : start[i + 1] = start[i] + (HeaderLen + sizes[i])
      /\ \A i, j \in m+1..n+1 : i < j => start[i] + (HeaderLen + sizes[i]) <= start[j]
      /\ Len(s) = start[n + 1]
      /\ \A i \in m+1..n : \A k \in 1..HeaderLen + sizes[i] : start[i] + k <= Len(s) =>
            s[start[i] + k] = [msg |-> i, size |-> sizes[i], piece |-> k]
  BY DEF Layout, Whole
<1>4. /\ Len(all) = n + 1
      /\ \A i \in 1..n : all[i] = sizes[i]
      /\ all[n + 1] = size
  OBVIOUS
<1>5. /\ after \in [m+1..n+2 -> Nat]
      /\ \A i \in m+1..n+1 : after[i] = start[i]
      /\ after[n + 2] = start[n + 1] + len
  <2> HIDE DEF n, len
  <2>1. \A i \in m+1..n+2 : i = n + 2 \/ i \in m+1..n+1
    BY <1>1
  <2>2. start[n + 1] \in Nat /\ n + 2 \in m+1..n+2 /\ n + 2 \notin m+1..n+1
    BY <1>1
  <2>3. \A i \in m+1..n+1 : i \in m+1..n+2
    BY <1>1
  <2> QED
    BY <1>1, <1>2, <2>1, <2>2, <2>3
<1>6. /\ Len(t) = Len(s) + len
      /\ \A k \in 1..Len(s) : t[k] = s[k]
      /\ \A k \in 1..len : t[Len(s) + k] = [msg |-> n + 1, size |-> size, piece |-> k]
  <2>1. /\ Frame(n + 1, size) \in Seq(Pieces)
        /\ Len(Frame(n + 1, size)) = len
        /\ \A k \in 1..len :
              Frame(n + 1, size)[k] = [msg |-> n + 1, size |-> size, piece |-> k]
    <3>1. n + 1 \in Nat /\ size \in Nat
      BY <1>1, <1>2
    <3> HIDE DEF n
    <3> QED
      BY <3>1, FrameIs
  <2> DEFINE f == Frame(n + 1, size)
  <2>2. /\ f \in Seq(Pieces) /\ Len(f) = len /\ len \in Nat /\ Len(s) \in Nat
        /\ \A k \in 1..len : f[k] = [msg |-> n + 1, size |-> size, piece |-> k]
    BY <1>2, <2>1
  <2> HIDE DEF f, len, n
  <2>3. /\ Len(s \o f) = Len(s) + len
        /\ \A i \in 1..Len(s) + len : (s \o f)[i] = IF i <= Len(s) THEN s[i] ELSE f[i - Len(s)]
    BY <2>2, ConcatProperties
  <2>4. /\ \A k \in 1..Len(s) : (s \o f)[k] = s[k]
        /\ \A k \in 1..len : (s \o f)[Len(s) + k] = f[k]
    <3>1. \A k \in 1..Len(s) : k \in 1..Len(s) + len /\ k <= Len(s)
      BY <2>2
    <3>2. \A k \in 1..len : /\ Len(s) + k \in 1..Len(s) + len /\ ~(Len(s) + k <= Len(s))
                              /\ (Len(s) + k) - Len(s) = k
      BY <2>2
    <3> QED
      BY <2>3, <3>1, <3>2
  <2> QED
    BY <2>2, <2>3, <2>4 DEF f
<1> HIDE DEF n, len, after, t, all
<1>7. n + 1 + 1 = n + 2 /\ m + 1 \in m+1..n+1
  BY <1>1
<1>8. after \in [m+1..Len(all)+1 -> Nat] /\ after[m + 1] = 0
  BY <1>3, <1>4, <1>5, <1>7
<1>9. ASSUME NEW i \in m+1..Len(all)
      PROVE  after[i + 1] = after[i] + (HeaderLen + all[i])
  <2>1. CASE i = n + 1
    BY <1>1, <1>4, <1>5, <1>7, <2>1 DEF len
  <2>2. CASE i # n + 1
    <3>1. i \in m+1..n /\ i \in m+1..n+1 /\ i + 1 \in m+1..n+1 /\ i \in 1..n
      BY <1>1, <1>4, <2>2
    <3> QED
      BY <1>3, <1>4, <1>5, <3>1
  <2> QED
    BY <2>1, <2>2
<1>10. ASSUME NEW i \in m+1..Len(all)+1, NEW j \in m+1..Len(all)+1, i < j
       PROVE  after[i] + (HeaderLen + all[i]) <= after[j]
  <2>1. i \in m+1..n+1 /\ i \in 1..n+1
    BY <1>1, <1>4, <1>10
  <2>2. CASE j \in m+1..n+1
    <3>1. i \in m+1..n /\ i \in 1..n
      BY <1>1, <1>10, <2>2
    <3> QED
      BY <1>3, <1>4, <1>5, <1>10, <2>1, <2>2, <3>1
  <2>3. CASE j = n + 2 /\ i = n + 1
    BY <1>1, <1>2, <1>4, <1>5, <2>3 DEF len
  <2>4. CASE j = n + 2 /\ i \in m+1..n
    <3>1. i \in 1..n /\ i < n + 1 /\ start[n + 1] \in Nat /\ start[i] \in Nat /\ sizes[i] \in Nat
      BY <1>1, <2>1, <2>4
    <3>2. start[i] + (HeaderLen + sizes[i]) <= start[n + 1]
      BY <1>1, <1>3, <2>1, <2>4, <3>1
    <3>3. after[j] = start[n + 1] + len /\ after[i] = start[i] /\ all[i] = sizes[i]
      BY <1>4, <1>5, <2>1, <2>4, <3>1
    <3> DEFINE x == start[i]
               y == start[n + 1]
               z == sizes[i]
    <3>4. x \in Nat /\ y \in Nat /\ z \in Nat /\ len \in Nat /\ HeaderLen \in Nat
      BY <1>2, <3>1
    <3>5. x + (HeaderLen + z) <= y
      BY <3>2
    <3> HIDE DEF x, y, z, len
    <3>6. x + (HeaderLen + z) <= y + len
      BY ONLY <3>4, <3>5
    <3> QED
      BY <3>3, <3>6 DEF x, y, z
  <2> QED
    BY <1>1, <1>4, <2>1, <2>2, <2>3, <2>4
<1>11. Len(t) = after[Len(all) + 1]
  BY <1>3, <1>4, <1>5, <1>6, <1>7
<1>12. ASSUME NEW i \in m+1..Len(all), NEW k \in 1..HeaderLen + all[i]
       PROVE  t[after[i] + k] = [msg |-> i, size |-> all[i], piece |-> k]
  <2>1. CASE i = n + 1
    BY <1>1, <1>3, <1>4, <1>5, <1>6, <2>1 DEF len
  <2>2. CASE i # n + 1
    <3>1. i \in m+1..n /\ i \in m+1..n+1 /\ i \in 1..n /\ i < n + 1
      BY <1>1, <1>4, <2>2
    <3>2. after[i] = start[i] /\ all[i] = sizes[i] /\ start[i] \in Nat /\ sizes[i] \in Nat
      BY <1>1, <1>4, <1>5, <3>1
    <3>3. start[i] + (HeaderLen + sizes[i]) <= Len(s)
      BY <1>1, <1>3, <3>1
    <3>4. k \in 1..HeaderLen + sizes[i]
      BY <3>2
    <3>5. start[i] + k \in 1..Len(s) /\ start[i] + k <= Len(s)
      <4>1. /\ start[i] \in Nat /\ k \in Nat \ {0} /\ Len(s) \in Nat
            /\ sizes[i] \in Nat /\ HeaderLen \in Nat /\ k <= HeaderLen + sizes[i]
        BY <1>2, <3>2, <3>4
      <4> QED
        BY ONLY <3>3, <4>1, PieceFits
    <3>6. s[start[i] + k] = [msg |-> i, size |-> sizes[i], piece |-> k]
      BY <1>3, <3>1, <3>4, <3>5
    <3>7. t[start[i] + k] = s[start[i] + k]
      BY <1>6, <3>5
    <3> QED
      BY <3>2, <3>6, <3>7
  <2> QED
    BY <2>1, <2>2
<1>13. Len(t) <= after[Len(all) + 1]
  <2>1. Len(t) \in Nat
    BY <1>2, <1>6
  <2> QED
    BY <1>11, <2>1
<1>14. Layout(t, all, m, after) /\ Whole(t, all, after)
  BY <1>8, <1>9, <1>10, <1>11, <1>12, <1>13 DEF Layout, Whole
<1> QED
  BY <1>14 DEF t, all, n

(* What follows the first n pieces of a stream *)
LEMMA RestIs ==
    ASSUME NEW s \in Seq(Pieces), NEW n \in 0..Len(s)
    PROVE  /\ Len(SubSeq(s, n + 1, Len(s))) = Len(s) - n
           /\ \A k \in 1..Len(s) - n : SubSeq(s, n + 1, Len(s))[k] = s[n + k]
<1>1. Len(SubSeq(s, n + 1, Len(s))) = Len(s) - n
  OBVIOUS
<1>2. ASSUME NEW k \in 1..Len(s) - n
      PROVE  SubSeq(s, n + 1, Len(s))[k] = s[n + k]
  OBVIOUS
<1> QED
  BY <1>1, <1>2

(* What follows the first frame of a stream is laid out from there on
   (cbor_codec.rs:37-52). *)
LEMMA LayoutAdvanced ==
    ASSUME NEW s \in Seq(Pieces), NEW sizes \in Seq(Sizes), NEW m \in 0..Len(sizes), NEW start,
           Layout(s, sizes, m, start), m < Len(sizes), HeaderLen + sizes[m + 1] <= Len(s)
    PROVE  \E after :
              /\ Layout(SubSeq(s, HeaderLen + sizes[m + 1] + 1, Len(s)), sizes, m + 1, after)
              /\ Whole(s, sizes, start) =>
                    Whole(SubSeq(s, HeaderLen + sizes[m + 1] + 1, Len(s)), sizes, after)
<1> DEFINE n == Len(sizes)
           len == HeaderLen + sizes[m + 1]
           after == [i \in m+2..n+1 |-> start[i] - len]
           t == SubSeq(s, len + 1, Len(s))
<1>1. /\ \A i \in m+1..n : i \in 1..n /\ sizes[i] \in Nat \ {0} /\ i + 1 \in m+2..n+1
      /\ \A i \in m+1..n+1 : start[i] \in Nat
      /\ n \in Nat /\ m \in Nat /\ m < n
      /\ \A i \in m+2..n+1 : i \in m+1..n+1 /\ m + 1 < i
      /\ m + 1 \in m+1..n /\ m + 1 \in m+1..n+1 /\ m + 2 \in m+2..n+1 /\ n + 1 \in m+2..n+1
  <2>1. /\ \A i \in m+1..n : i \in 1..n /\ sizes[i] \in Nat \ {0}
        /\ \A i \in m+1..n+1 : start[i] \in Nat
        /\ n \in Nat /\ m \in Nat
    BY LayoutTypes
  <2> HIDE DEF n
  <2>2. m < n
    BY DEF n
  <2> QED
    BY <2>1, <2>2
<1>2. /\ HeaderLen \in Nat \ {0} /\ sizes[m + 1] \in Nat \ {0} /\ len \in Nat
      /\ Len(s) \in Nat /\ len <= Len(s)
  BY <1>1, ConstantsAre
<1>3. /\ start[m + 1] = 0
      /\ \A i \in m+1..n : start[i + 1] = start[i] + (HeaderLen + sizes[i])
      /\ \A i, j \in m+1..n+1 : i < j => start[i] + (HeaderLen + sizes[i]) <= start[j]
      /\ Len(s) <= start[n + 1]
      /\ \A i \in m+1..n : \A k \in 1..HeaderLen + sizes[i] : start[i] + k <= Len(s) =>
            s[start[i] + k] = [msg |-> i, size |-> sizes[i], piece |-> k]
  BY DEF Layout
<1>4. /\ Len(t) = Len(s) - len
      /\ \A k \in 1..Len(s) - len : t[k] = s[len + k]
  <2> HIDE DEF len
  <2>1. len \in 0..Len(s)
    BY <1>2
  <2> QED
    BY ONLY <2>1, s \in Seq(Pieces), RestIs DEF t
<1> HIDE DEF n, len, t
<1>5. ASSUME NEW i \in m+2..n+1
      PROVE  start[i] \in Nat /\ start[i] - len \in Nat
  <2>1. start[m + 1] + (HeaderLen + sizes[m + 1]) <= start[i] /\ start[i] \in Nat
    BY <1>1, <1>3
  <2>2. len <= start[i]
    BY <1>2, <1>3, <2>1 DEF len
  <2> QED
    BY <1>2, <2>1, <2>2
<1>6. /\ after \in [m+2..n+1 -> Nat]
      /\ \A i \in m+2..n+1 : after[i] = start[i] - len
  BY <1>5
<1> HIDE DEF after
<1>7. after[m + 2] = 0
  <2>1. start[m + 1 + 1] = 0 + len /\ m + 1 + 1 = m + 2
    BY <1>1, <1>2, <1>3 DEF len
  <2> QED
    BY <1>1, <1>2, <1>6, <2>1
<1>8. ASSUME NEW i \in m+2..n
      PROVE  after[i + 1] = after[i] + (HeaderLen + sizes[i])
  <2>1. i \in m+1..n /\ i \in m+2..n+1 /\ i + 1 \in m+2..n+1
    BY <1>1
  <2>2. /\ start[i + 1] = start[i] + (HeaderLen + sizes[i])
        /\ after[i + 1] = start[i + 1] - len /\ after[i] = start[i] - len
        /\ start[i] \in Nat /\ sizes[i] \in Nat
    BY <1>1, <1>3, <1>5, <1>6, <2>1
  <2> QED
    BY <1>2, <2>2
<1>9. ASSUME NEW i \in m+2..n+1, NEW j \in m+2..n+1, i < j
      PROVE  after[i] + (HeaderLen + sizes[i]) <= after[j]
  <2>1. i \in m+1..n /\ i \in m+1..n+1 /\ j \in m+1..n+1
    BY <1>1, <1>9
  <2>2. /\ start[i] + (HeaderLen + sizes[i]) <= start[j]
        /\ after[j] = start[j] - len /\ after[i] = start[i] - len
        /\ start[i] \in Nat /\ start[j] \in Nat /\ sizes[i] \in Nat
    BY <1>1, <1>3, <1>5, <1>6, <1>9, <2>1
  <2>3. \A a, b, d, e \in Nat : a + (e + b) <= d => \A f \in Nat : (a - f) + (e + b) <= d - f
    OBVIOUS
  <2>4. HeaderLen \in Nat /\ len \in Nat
    BY <1>2
  <2> QED
    BY <2>2, <2>3, <2>4
<1>10. /\ Len(t) <= after[n + 1]
       /\ Len(s) = start[n + 1] => Len(t) = after[n + 1]
  <2>1. after[n + 1] = start[n + 1] - len /\ start[n + 1] \in Nat
    BY <1>1, <1>5, <1>6
  <2>2. Len(t) = Len(s) - len /\ Len(s) \in Nat /\ len \in Nat /\ Len(s) <= start[n + 1]
    BY <1>2, <1>3, <1>4
  <2> QED
    BY <2>1, <2>2
<1>11. ASSUME NEW i \in m+2..n, NEW k \in 1..HeaderLen + sizes[i], after[i] + k <= Len(t)
       PROVE  t[after[i] + k] = [msg |-> i, size |-> sizes[i], piece |-> k]
  <2>1. i \in m+1..n /\ i \in m+2..n+1
    BY <1>1
  <2>2. /\ after[i] = start[i] - len /\ start[i] \in Nat /\ start[i] - len \in Nat
        /\ sizes[i] \in Nat /\ k \in Nat \ {0}
    <3>1. /\ after[i] = start[i] - len /\ start[i] \in Nat /\ start[i] - len \in Nat
          /\ sizes[i] \in Nat
      BY <1>1, <1>5, <1>6, <2>1
    <3> QED
      BY <1>2, <3>1
  <2>3. /\ start[i] + k <= Len(s)
        /\ after[i] + k \in 1..Len(s) - len
        /\ len + (after[i] + k) = start[i] + k
    <3>1. after[i] + k <= Len(s) - len
      BY <1>4, <1>11
    <3>2. Len(s) \in Nat /\ len \in Nat
      BY <1>2
    <3>3. \A a, d, f \in Nat : \A b \in Nat \ {0} :
             a - d \in Nat /\ (a - d) + b <= f - d =>
                 a + b <= f /\ (a - d) + b \in 1..f - d /\ d + ((a - d) + b) = a + b
      OBVIOUS
    <3>4. (start[i] - len) + k <= Len(s) - len
      BY <2>2, <3>1
    <3> DEFINE a == start[i]
               f == Len(s)
    <3>5. a \in Nat /\ len \in Nat /\ f \in Nat /\ k \in Nat \ {0} /\ a - len \in Nat
          /\ (a - len) + k <= f - len
      BY <2>2, <3>2, <3>4
    <3> HIDE DEF a, f
    <3>6. a + k <= f /\ (a - len) + k \in 1..f - len /\ len + ((a - len) + k) = a + k
      BY <3>3, <3>5
    <3> QED
      BY <2>2, <3>6 DEF a, f
  <2>4. t[after[i] + k] = s[start[i] + k]
    BY <1>4, <2>3
  <2> QED
    BY <1>3, <2>1, <2>3, <2>4
<1>12. /\ Layout(t, sizes, m + 1, after)
       /\ Whole(s, sizes, start) => Whole(t, sizes, after)
  <2>1. m + 1 + 1 = m + 2
    BY <1>1
  <2> QED
    BY <1>6, <1>7, <1>8, <1>9, <1>10, <1>11, <2>1 DEF Layout, Whole, n
<1> QED
  BY <1>12 DEF t, len, n

-----------------------------------------------------------------------------
(* The two ends and their streams *)

(* There are two ends, each the peer of the other. *)
LEMMA PeersAre ==
    \A e \in Ends : /\ Peer(e) \in Ends /\ Peer(e) # e /\ Peer(Peer(e)) = e
                    /\ \A f \in Ends : f = e \/ f = Peer(e)
BY DEF Ends, Peer

(* What an end has read is the first part of what is on its way to it. *)
LEMMA StreamIs ==
    ASSUME Types, NEW e \in Ends
    PROVE  /\ in[e] \in Seq(Pieces) /\ wire[Peer(e)] \in Seq(Pieces) /\ out[Peer(e)] \in Seq(Pieces)
           /\ Stream(e) \in Seq(Pieces)
           /\ Len(Stream(e)) = Len(in[e]) + Len(wire[Peer(e)]) + Len(out[Peer(e)])
           /\ Len(in[e]) \in Nat /\ Len(Stream(e)) \in Nat /\ Len(in[e]) <= Len(Stream(e))
           /\ \A k \in 1..Len(in[e]) : Stream(e)[k] = in[e][k]
<1>1. in[e] \in Seq(Pieces) /\ wire[Peer(e)] \in Seq(Pieces) /\ out[Peer(e)] \in Seq(Pieces)
  BY PeersAre DEF Types
<1> DEFINE a == in[e]
           b == wire[Peer(e)]
           c == out[Peer(e)]
<1>2. a \in Seq(Pieces) /\ b \in Seq(Pieces) /\ c \in Seq(Pieces)
  BY <1>1
<1> HIDE DEF a, b, c
<1>3. /\ (a \o b) \o c \in Seq(Pieces)
      /\ Len((a \o b) \o c) = Len(a) + Len(b) + Len(c)
      /\ Len(a) \in Nat /\ Len((a \o b) \o c) \in Nat /\ Len(a) <= Len((a \o b) \o c)
      /\ \A k \in 1..Len(a) : ((a \o b) \o c)[k] = a[k]
  BY <1>2
<1> QED
  BY <1>1, <1>3 DEF Stream, a, b, c

(* What both sides of InOrder are made of *)
LEMMA CountsAre ==
    ASSUME Types, DecodedAsEncoded, NEW e \in Ends
    PROVE  /\ sent[Peer(e)] \in Seq(Sizes) /\ got[e] \in Seq(Nat)
           /\ Len(got[e]) \in 0..Len(sent[Peer(e)])
BY PeersAre DEF Types, DecodedAsEncoded

(* A step that changes nothing of what is on its way to e *)
LEMMA SameWay ==
    ASSUME NEW e \in Ends, OnItsWay(e), Open(e)' => Open(e), Open(Peer(e))' => Open(Peer(e)),
           Stream(e)' = Stream(e), sent'[Peer(e)] = sent[Peer(e)], Len(got'[e]) = Len(got[e])
    PROVE  OnItsWay(e)'
BY DEF OnItsWay

(* What an open end finds at the start of what it has read: its next frame
   (cbor_codec.rs:37-52). *)
LEMMA FirstIs ==
    ASSUME Types, DecodedAsEncoded, NEW e \in Ends, OnItsWay(e), Open(e), in[e] # <<>>
    PROVE  LET m == Len(got[e])
               size == sent[Peer(e)][m + 1]
           IN  /\ m < Len(sent[Peer(e)]) /\ size \in Sizes
               /\ in[e][1].size = size
               /\ \A k \in 1..HeaderLen + size : k <= Len(in[e]) =>
                     in[e][k] = [msg |-> m + 1, size |-> size, piece |-> k]
<1> DEFINE s == Stream(e)
           sizes == sent[Peer(e)]
           m == Len(got[e])
<1>1. PICK start : Layout(s, sizes, m, start)
  BY DEF OnItsWay
<1>2. /\ in[e] \in Seq(Pieces) /\ Len(in[e]) \in Nat \ {0} /\ s \in Seq(Pieces)
      /\ Len(s) \in Nat /\ Len(in[e]) <= Len(s)
      /\ \A k \in 1..Len(in[e]) : s[k] = in[e][k]
  <2>1. in[e] \in Seq(Pieces)
    BY StreamIs
  <2>2. Len(in[e]) \in Nat \ {0}
    BY <2>1, EmptySeq
  <2> QED
    BY <2>1, <2>2, StreamIs
<1>3. sizes \in Seq(Sizes) /\ m \in 0..Len(sizes)
  BY CountsAre
<1>4. s # <<>>
  BY <1>2
<1> HIDE DEF s, sizes, m
<1>5. /\ m < Len(sizes)
      /\ s[1] = [msg |-> m + 1, size |-> sizes[m + 1], piece |-> 1]
      /\ \A k \in 1..HeaderLen + sizes[m + 1] :
            k <= Len(s) => s[k] = [msg |-> m + 1, size |-> sizes[m + 1], piece |-> k]
  BY <1>1, <1>2, <1>3, <1>4, LayoutFirst
<1>6. sizes[m + 1] \in Sizes /\ sizes[m + 1] \in Nat
  <2>1. m + 1 \in 1..Len(sizes)
    BY <1>3, <1>5
  <2>2. sizes[m + 1] \in Sizes
    BY <1>3, <2>1
  <2> QED
    BY <2>2, ConstantsAre
<1>7. in[e][1].size = sizes[m + 1]
  BY <1>2, <1>5
<1>8. ASSUME NEW k \in 1..HeaderLen + sizes[m + 1], k <= Len(in[e])
      PROVE  in[e][k] = [msg |-> m + 1, size |-> sizes[m + 1], piece |-> k]
  <2>1. k \in Nat \ {0}
    BY <1>6, ConstantsAre
  <2>2. k \in 1..Len(in[e]) /\ k <= Len(s)
    BY <1>2, <1>8, <2>1
  <2> QED
    BY <1>2, <1>5, <2>2
<1> QED
  BY <1>5, <1>6, <1>7, <1>8 DEF m, sizes

-----------------------------------------------------------------------------
(* The initial state *)

(* Nothing has been sent (client/core.rs:111-135, client_stub.rs:47-53). *)
LEMMA InitLink == Init => LinkInv
<1> SUFFICES ASSUME Init PROVE LinkInv
  OBVIOUS
<1>1. Types
  <2>1. /\ status \in [Ends -> Statuses] /\ status["client"] # "ClientTimeout"
        /\ due \in Nat /\ stalled \in BOOLEAN
    BY DEF Init, Statuses, Ends
  <2>2. idle \in 0..Timeout /\ slow \in 0..idle
    BY ConstantsAre DEF Init
  <2>3. /\ queue \in [Ends -> Seq(Sizes)] /\ sent \in [Ends -> Seq(Sizes)]
        /\ got \in [Ends -> Seq(Nat)]
    BY DEF Init
  <2>4. out \in [Ends -> Seq(Pieces)] /\ wire \in [Ends -> Seq(Pieces)] /\ in \in [Ends -> Seq(Pieces)]
    BY DEF Init
  <2> QED
    BY <2>1, <2>2, <2>3, <2>4 DEF Types
<1>2. WireHasRoom
  BY ConstantsAre DEF Init, WireHasRoom
<1>3. DecodedAsEncoded
  BY PeersAre DEF Init, DecodedAsEncoded
<1>4. InOrder
  <2> SUFFICES ASSUME NEW e \in Ends PROVE OnItsWay(e)
    BY DEF InOrder
  <2> DEFINE start == [i \in 1..1 |-> 0]
  <2>1. /\ in[e] = <<>> /\ wire[Peer(e)] = <<>> /\ out[Peer(e)] = <<>>
        /\ sent[Peer(e)] = <<>> /\ got[e] = <<>>
    BY PeersAre DEF Init
  <2>2. Stream(e) = <<>>
    BY <2>1 DEF Stream
  <2>3. Layout(<<>>, <<>>, 0, start) /\ Whole(<<>>, <<>>, start)
    BY DEF Layout, Whole
  <2>4. Len(got[e]) = 0
    BY <2>1
  <2> QED
    BY <2>1, <2>2, <2>3, <2>4 DEF OnItsWay
<1>5. ClosedSendNothing /\ FailsForAReason /\ KeepAlivesCome
  BY DEF Init, ClosedSendNothing, FailsForAReason, KeepAlivesCome, Open
<1> QED
  BY <1>1, <1>2, <1>3, <1>4, <1>5 DEF LinkInv

-----------------------------------------------------------------------------
(* Steps that move nothing *)

(* A count of intervals that does not go down *)
LEMMA StaysAtLeast ==
    ASSUME NEW a \in Nat, NEW b \in Nat, NEW bound \in Nat, a <= b, a + 1 >= bound
    PROVE  b + 1 >= bound
OBVIOUS

(* and one that is at most one ahead of another *)
LEMMA OneAhead ==
    ASSUME NEW a \in Nat, NEW b \in Nat, a <= b + 1
    PROVE  a <= b \/ a = b + 1
OBVIOUS

(* A step that leaves both streams alone keeps what the invariant says of them. *)
LEMMA QuietKeeps ==
    ASSUME LinkInv, UNCHANGED <<status, out, wire, in, sent, got>>,
           Types', KeepAlivesCome', stalled => stalled', slow <= slow'
    PROVE  LinkInv'
<1> USE DEF LinkInv
<1>1. InOrder'
  <2> SUFFICES ASSUME NEW e \in Ends PROVE OnItsWay(e)'
    BY DEF InOrder
  <2>1. Stream(e)' = Stream(e)
    BY DEF Stream
  <2> QED
    BY <2>1, SameWay DEF InOrder, Open
<1>2. WireHasRoom' /\ DecodedAsEncoded' /\ ClosedSendNothing'
  BY DEF WireHasRoom, DecodedAsEncoded, ClosedSendNothing, Open
<1>3. FailsForAReason'
  <2>1. slow + 1 >= Timeout => slow' + 1 >= Timeout
    <3>1. slow \in Nat /\ slow' \in Nat /\ Timeout \in Nat
      BY ConstantsAre DEF Types
    <3> QED
      BY <3>1, StaysAtLeast
  <2> QED
    BY <2>1 DEF FailsForAReason, Open
<1> QED
  BY <1>1, <1>2, <1>3

(* The user of the client and the core of the bus have something to send
   (client/core.rs:117-131, client_stub.rs:59-64). *)
LEMMA CallsKeep ==
    ASSUME LinkInv, Call \/ CorePublishes
    PROVE  LinkInv'
<1>1. PICK e \in Ends, size \in Sizes : queue' = [queue EXCEPT ![e] = Append(@, size)]
  BY DEF Call, CorePublishes, Ends
<1>2. UNCHANGED <<status, out, wire, in, sent, got, due, idle, stalled, slow>>
  BY DEF Call, CorePublishes, buffers
<1>3. queue' \in [Ends -> Seq(Sizes)]
  BY <1>1 DEF LinkInv, Types
<1>4. Types' /\ slow <= slow'
  BY <1>2, <1>3 DEF LinkInv, Types
<1>5. KeepAlivesCome'
  BY <1>2 DEF LinkInv, KeepAlivesCome, KeepAliveIsComing, BothBlocked, Sending, Open
<1> QED
  BY <1>2, <1>4, <1>5, QuietKeeps

(* A client that stalls needs no keep-alive any more. *)
LEMMA StallKeeps ==
    ASSUME LinkInv, Stall
    PROVE  LinkInv'
<1>1. /\ UNCHANGED <<status, queue, out, wire, in, sent, got, due, idle, slow>>
      /\ stalled' = TRUE
  BY DEF Stall, buffers
<1>2. Types' /\ KeepAlivesCome' /\ slow <= slow'
  BY <1>1 DEF LinkInv, Types, KeepAlivesCome
<1> QED
  BY <1>1, <1>2, QuietKeeps

(* A client that is well has sent the keep-alive of the interval before: if nothing is
   left to be done and the stub has not got it, both wait in send
   (client_stub.rs:47-75, client/core.rs:111-135). *)
LEMMA NothingToDoWhileOneIsComing ==
    ASSUME LinkInv, ~stalled, Open("stub"), ~Busy, KeepAliveIsComing
    PROVE  BothBlocked
<1> USE DEF LinkInv
<1>1. \A e \in Ends : Acts(e) => ~HasWork(e)
  BY DEF Busy
<1>2. /\ "client" \in Ends /\ "stub" \in Ends
      /\ Peer("client") = "stub" /\ Peer("stub") = "client"
  BY DEF Ends, Peer
<1>3. ~HasWork("stub")
  BY <1>1, <1>2 DEF Acts
<1>4. Open("client")
  BY <1>2, <1>3 DEF HasWork
<1>5. ~HasWork("client")
  BY <1>1, <1>2, <1>4 DEF Acts
<1>6. \A e \in Ends : Len(wire[e]) \in 0..Room
  BY DEF WireHasRoom, Types
<1>7. \A e \in Ends : Sending(e) => Len(wire[e]) = Room /\ wire[e] # <<>>
  <2> SUFFICES ASSUME NEW e \in Ends, Sending(e) PROVE Len(wire[e]) = Room /\ wire[e] # <<>>
    OBVIOUS
  <2>1. ~HasWork(e)
    BY <1>3, <1>5 DEF Ends
  <2>2. Len(wire[e]) = Room
    BY <1>6, <2>1, ConstantsAre DEF HasWork
  <2> QED
    BY <2>2, ConstantsAre
<1>8. \A e \in Ends : ~Sending(e) => wire[Peer(e)] = <<>> /\ NeedsMore(e)
  BY <1>3, <1>5 DEF HasWork, Ends
<1>9. CASE Sending("stub")
  BY <1>2, <1>7, <1>8, <1>9 DEF BothBlocked, Ends
<1>10. CASE ~Sending("stub")
  <2>1. wire["client"] = <<>> /\ NeedsMore("stub") /\ ~Sending("client") /\ ~(due > 0)
    BY <1>2, <1>5, <1>7, <1>8, <1>10 DEF HasWork
  <2>2. Len(got["stub"]) < Len(sent["client"])
    BY <1>4, <2>1 DEF KeepAliveIsComing
  <2>3. Stream("stub") = in["stub"]
    <3>1. in["stub"] \in Seq(Pieces)
      BY <1>2 DEF Types
    <3>2. wire[Peer("stub")] = <<>> /\ out[Peer("stub")] = <<>>
      BY <1>2, <2>1 DEF Sending
    <3>3. in["stub"] \o <<>> = in["stub"]
      BY <3>1, ConcatEmptySeq
    <3> QED
      BY <3>2, <3>3 DEF Stream
  <2> DEFINE sizes == sent["client"]
             m == Len(got["stub"])
             s == in["stub"]
  <2>4. PICK start : Layout(s, sizes, m, start) /\ Whole(s, sizes, start)
    BY <1>1, <1>2, <1>4, <2>3 DEF InOrder, OnItsWay
  <2>5. sizes \in Seq(Sizes) /\ m \in 0..Len(sizes) /\ m < Len(sizes)
    BY <1>2, <2>2, CountsAre
  <2>6. s \in Seq(Pieces) /\ Len(s) \in Nat
    BY <1>2 DEF Types
  <2> HIDE DEF sizes, m, s
  <2>7. /\ m + 1 \in m+1..Len(sizes) /\ m + 1 \in m+1..Len(sizes)+1
        /\ Len(sizes) + 1 \in m+1..Len(sizes)+1 /\ m + 1 < Len(sizes) + 1
    BY <2>5
  <2>8. start[m + 1] + (HeaderLen + sizes[m + 1]) <= start[Len(sizes) + 1] /\ start[m + 1] = 0
    BY <2>4, <2>7 DEF Layout
  <2>9. sizes[m + 1] \in Nat \ {0}
    BY <2>4, <2>5, <2>7, LayoutTypes
  <2>10. HeaderLen + sizes[m + 1] <= Len(s) /\ HeaderLen <= Len(s) /\ Len(s) # 0
    BY <2>4, <2>8, <2>9, <2>6, ConstantsAre DEF Whole
  <2>11. s # <<>>
    BY <2>10
  <2>12. s[1].size = sizes[m + 1]
    BY <1>1, <1>2, <2>11, FirstIs DEF InOrder, s, sizes, m
  <2>13. Complete(s)
    BY <2>6, <2>10, <2>12, ConstantsAre DEF Complete, HasHeader
  <2> QED
    BY <2>1, <2>13 DEF NeedsMore, s
<1> QED
  BY <1>9, <1>10

(* An interval at whose end something is left to be done counts as slow, and before
   any other one the stub has had the keep-alive of the interval before
   (client_stub.rs:47-75, client/core.rs:111-135). *)
LEMMA ElapseKeeps ==
    ASSUME LinkInv, Elapse
    PROVE  LinkInv'
<1> USE DEF LinkInv
<1>1. /\ UNCHANGED <<status, queue, out, wire, in, sent, got, stalled>>
      /\ idle' = IF idle < Timeout THEN idle + 1 ELSE idle
      /\ slow' = IF idle < Timeout /\ Busy THEN slow + 1 ELSE slow
      /\ due' = IF stalled THEN due ELSE due + 1
      /\ Open("stub")
  BY DEF Elapse, buffers
<1>2. idle \in Nat /\ slow \in Nat /\ due \in Nat /\ slow <= idle /\ idle <= Timeout
  BY ConstantsAre DEF Types
<1>3. Types' /\ slow <= slow'
  <2>1. /\ idle' \in 0..Timeout /\ slow' \in 0..idle' /\ slow <= slow'
        /\ due' \in Nat
    BY <1>1, <1>2, ConstantsAre
  <2> QED
    BY <1>1, <2>1 DEF Types
<1>4. KeepAlivesCome'
  <2> SUFFICES ASSUME ~stalled
               PROVE  KeepAlivesCome'
    BY <1>1 DEF KeepAlivesCome
  <2>1. KeepAliveIsComing'
    BY <1>1, <1>2 DEF KeepAliveIsComing
  <2>2. BothBlocked => BothBlocked'
    BY <1>1 DEF BothBlocked, Sending
  <2>3. \/ idle <= slow
        \/ idle = slow + 1 /\ KeepAliveIsComing
        \/ BothBlocked
    BY <1>1 DEF KeepAlivesCome
  <2>4. CASE BothBlocked
    BY <2>2, <2>4 DEF KeepAlivesCome
  <2>5. CASE idle <= slow
    <3>1. idle' <= slow' + 1
      BY <1>1, <1>2, <2>5
    <3>2. idle' \in Nat /\ slow' \in Nat
      BY <1>1, <1>2
    <3>3. idle' <= slow' \/ idle' = slow' + 1
      BY <3>1, <3>2, OneAhead
    <3> QED
      BY <2>1, <3>3 DEF KeepAlivesCome
  <2>6. CASE idle = slow + 1 /\ (Busy \/ ~(idle < Timeout))
    <3>1. idle' = slow' + 1
      BY <1>1, <1>2, <2>6
    <3> QED
      BY <2>1, <3>1 DEF KeepAlivesCome
  <2>7. CASE KeepAliveIsComing /\ ~Busy
    <3>1. BothBlocked
      BY <1>1, <2>7, NothingToDoWhileOneIsComing
    <3> QED
      BY <2>4, <3>1
  <2> QED
    BY <2>3, <2>4, <2>5, <2>6, <2>7
<1> QED
  BY <1>1, <1>3, <1>4, QuietKeeps

-----------------------------------------------------------------------------
(* Steps that send *)

(* What has been sent stays as it is when there is more. *)
LEMMA AppendGrows ==
    ASSUME NEW old \in Seq(Sizes), NEW size \in Sizes
    PROVE  LET new == Append(old, size)
           IN  /\ Len(old) \in Nat /\ Len(new) \in Nat /\ Len(old) < Len(new)
               /\ Len(old) <= Len(new)
               /\ \A i \in 1..Len(old) : new[i] = old[i]
<1>1. /\ Len(Append(old, size)) = Len(old) + 1 /\ Len(old) \in Nat
      /\ \A i \in 1..Len(old) : Append(old, size)[i] = old[i]
  BY AppendProperties
<1> QED
  BY <1>1

(* A frame that is encoded goes behind all that is on its way
   (cbor_codec.rs:54-66). *)
LEMMA EncodeKeeps ==
    ASSUME LinkInv, NEW e \in Ends, NEW size \in Sizes,
           Selects(e), Encode(e, size), KeepRead(e),
           queue' \in [Ends -> Seq(Sizes)], due' \in Nat, e = "stub" => due' = due,
           UNCHANGED <<status, wire, got, idle, stalled, slow>>
    PROVE  LinkInv'
<1> USE DEF LinkInv
<1> DEFINE n == Len(sent[e])
           f == Frame(n + 1, size)
<1>1. /\ Open(e) /\ out[e] = <<>>
      /\ sent' = [sent EXCEPT ![e] = Append(@, size)]
      /\ out' = [out EXCEPT ![e] = f]
      /\ in' = in
  BY DEF Selects, Acts, Sending, Encode, KeepRead
<1>2. sent[e] \in Seq(Sizes) /\ n \in Nat /\ size \in Nat
  BY ConstantsAre DEF Types
<1>3. f \in Seq(Pieces)
  <2>1. n + 1 \in Nat
    BY <1>2
  <2> QED
    BY <1>2, <2>1, FrameIs
<1> HIDE DEF n, f
<1>4. /\ sent' \in [Ends -> Seq(Sizes)] /\ out' \in [Ends -> Seq(Pieces)]
      /\ sent'[e] = Append(sent[e], size) /\ out'[e] = f
      /\ \A g \in Ends : g # e => sent'[g] = sent[g] /\ out'[g] = out[g]
  BY <1>1, <1>2, <1>3 DEF Types
<1>5. Types'
  BY <1>1, <1>4 DEF Types
<1>6. WireHasRoom' /\ ClosedSendNothing'
  BY <1>1, <1>4 DEF WireHasRoom, ClosedSendNothing, Open
<1>7. \A g \in Ends :
         /\ Len(sent[g]) \in Nat /\ Len(sent'[g]) \in Nat /\ Len(sent[g]) <= Len(sent'[g])
         /\ \A i \in 1..Len(sent[g]) : sent'[g][i] = sent[g][i]
         /\ g = e => Len(sent[g]) < Len(sent'[g])
  <2> SUFFICES ASSUME NEW g \in Ends
               PROVE  /\ Len(sent[g]) \in Nat /\ Len(sent'[g]) \in Nat
                      /\ Len(sent[g]) <= Len(sent'[g])
                      /\ \A i \in 1..Len(sent[g]) : sent'[g][i] = sent[g][i]
                      /\ g = e => Len(sent[g]) < Len(sent'[g])
    OBVIOUS
  <2> DEFINE old == sent[g]
             new == sent'[g]
  <2>1. old \in Seq(Sizes)
    BY DEF Types
  <2>2. IF g = e THEN new = Append(old, size) ELSE new = old
    BY <1>4
  <2> HIDE DEF old, new
  <2>3. /\ Len(old) \in Nat /\ Len(new) \in Nat /\ Len(old) <= Len(new)
        /\ \A i \in 1..Len(old) : new[i] = old[i]
        /\ g = e => Len(old) < Len(new)
    <3>1. CASE g = e
      BY <2>1, <2>2, <3>1, AppendGrows
    <3>2. CASE g # e
      BY <2>1, <2>2, <3>2
    <3> QED
      BY <3>1, <3>2
  <2> QED
    BY <2>3 DEF old, new
<1>8. DecodedAsEncoded'
  <2> SUFFICES ASSUME NEW g \in Ends
               PROVE  /\ Len(got[g]) <= Len(sent'[Peer(g)])
                      /\ got[g] = SubSeq(sent'[Peer(g)], 1, Len(got[g]))
    BY DEF DecodedAsEncoded, Peer
  <2> DEFINE k == Len(got[g])
             old == sent[Peer(g)]
             new == sent'[Peer(g)]
  <2>1. old \in Seq(Sizes) /\ new \in Seq(Sizes) /\ k \in Nat /\ k <= Len(old)
    <3>1. Peer(g) \in Ends
      BY PeersAre
    <3>2. old \in Seq(Sizes) /\ new \in Seq(Sizes)
      BY <1>4, <3>1 DEF Types
    <3>3. k \in Nat /\ k <= Len(old)
      BY CountsAre
    <3> QED
      BY <3>2, <3>3
  <2>2. Len(old) <= Len(new) /\ Len(new) \in Nat /\ \A i \in 1..Len(old) : new[i] = old[i]
    <3>1. Peer(g) \in Ends
      BY PeersAre
    <3> QED
      BY ONLY <1>7, <3>1
  <2>3. got[g] = SubSeq(old, 1, k)
    BY DEF DecodedAsEncoded
  <2> HIDE DEF k, old, new
  <2>4. SubSeq(old, 1, k) = SubSeq(new, 1, k)
    BY <2>1, <2>2
  <2> QED
    BY <2>1, <2>2, <2>3, <2>4 DEF k, old, new
<1>9. InOrder'
  <2> SUFFICES ASSUME NEW g \in Ends PROVE OnItsWay(g)'
    BY DEF InOrder
  <2>1. CASE g = e
    <3>1. Stream(g)' = Stream(g) /\ sent'[Peer(g)] = sent[Peer(g)]
      BY <1>1, <1>4, <2>1, PeersAre DEF Stream
    <3> QED
      BY <3>1, SameWay DEF InOrder, Open
  <2>2. CASE g = Peer(e) /\ Open(g)
    <3>1. Peer(g) = e
      BY <2>2, PeersAre
    <3>2. Stream(g)' = Stream(g) \o f
      <4>1. in[g] \o wire[e] \in Seq(Pieces)
        BY DEF Types
      <4>2. Stream(g) = (in[g] \o wire[e]) \o <<>>
        BY <1>1, <3>1 DEF Stream
      <4>3. Stream(g) = in[g] \o wire[e]
        BY <4>1, <4>2, ConcatEmptySeq
      <4> QED
        BY <1>1, <1>4, <3>1, <4>3 DEF Stream
    <3>3. PICK start : /\ Layout(Stream(g), sent[e], Len(got[g]), start)
                       /\ Whole(Stream(g), sent[e], start)
      BY <1>1, <2>2, <3>1 DEF InOrder, OnItsWay
    <3>4. Stream(g) \in Seq(Pieces) /\ sent[e] \in Seq(Sizes) /\ Len(got[g]) \in 0..Len(sent[e])
      BY <3>1, StreamIs, CountsAre
    <3>5. \E after : /\ Layout(Stream(g) \o f, Append(sent[e], size), Len(got[g]), after)
                     /\ Whole(Stream(g) \o f, Append(sent[e], size), after)
      BY <3>3, <3>4, LayoutExtended DEF f, n
    <3> QED
      BY <1>4, <3>1, <3>2, <3>5 DEF OnItsWay
  <2>3. CASE g = Peer(e) /\ ~Open(g)
    BY <2>3 DEF OnItsWay, Open
  <2> QED
    BY <2>1, <2>2, <2>3, PeersAre
<1>10. FailsForAReason'
  <2>1. \A g \in Ends : \A i \in DOMAIN sent[g] : i \in DOMAIN sent'[g] /\ sent'[g][i] = sent[g][i]
    <3> SUFFICES ASSUME NEW g \in Ends, NEW i \in DOMAIN sent[g]
                 PROVE  i \in DOMAIN sent'[g] /\ sent'[g][i] = sent[g][i]
      OBVIOUS
    <3>1. sent[g] \in Seq(Sizes) /\ sent'[g] \in Seq(Sizes)
      BY <1>4 DEF Types
    <3>2. i \in 1..Len(sent[g]) /\ DOMAIN sent'[g] = 1..Len(sent'[g])
      BY <3>1
    <3>3. /\ Len(sent[g]) \in Nat /\ Len(sent'[g]) \in Nat /\ Len(sent[g]) <= Len(sent'[g])
          /\ sent'[g][i] = sent[g][i]
      BY <1>7, <3>2
    <3> QED
      BY <3>2, <3>3
  <2> QED
    BY <2>1, PeersAre DEF FailsForAReason, Open
<1>11. KeepAlivesCome'
  <2> SUFFICES ASSUME ~stalled, Open("stub"), ~(idle <= slow)
               PROVE  idle = slow + 1 /\ KeepAliveIsComing'
    BY DEF KeepAlivesCome, Open
  <2>1. ~BothBlocked
    BY <1>1 DEF BothBlocked, Sending
  <2>2. idle = slow + 1 /\ KeepAliveIsComing
    BY <2>1 DEF KeepAlivesCome
  <2>3. /\ "client" \in Ends /\ "stub" \in Ends /\ Peer("stub") = "client"
        /\ e = "client" \/ e = "stub"
    BY DEF Ends, Peer
  <2>4. Len(got["stub"]) \in Nat /\ Len(got["stub"]) <= Len(sent["client"])
    BY <2>3, CountsAre
  <2>5. /\ Len(sent["client"]) \in Nat /\ Len(sent'["client"]) \in Nat
        /\ Len(sent["client"]) <= Len(sent'["client"])
        /\ e = "client" => Len(sent["client"]) < Len(sent'["client"])
    BY <1>7, <2>3
  <2>6. CASE e = "client"
    BY <2>2, <2>4, <2>5, <2>6 DEF KeepAliveIsComing, Open
  <2>7. CASE e = "stub"
    BY <2>2, <2>4, <2>5, <2>7 DEF KeepAliveIsComing, Open
  <2> QED
    BY <2>3, <2>6, <2>7
<1> QED
  BY <1>5, <1>6, <1>8, <1>9, <1>10, <1>11

(* Either loop sends what is in its queue, and the client its keep-alive
   (client_stub.rs:59-64, client/core.rs:117-137). *)
LEMMA SendsKeep ==
    ASSUME LinkInv, KeepAlive \/ \E e \in Ends : SendNext(e)
    PROVE  LinkInv'
<1>1. CASE KeepAlive
  <2>1. /\ Selects("client") /\ Encode("client", Short) /\ KeepRead("client")
        /\ due > 0 /\ due' = due - 1
        /\ UNCHANGED <<status, queue, wire, got, idle, stalled, slow>>
    BY <1>1 DEF KeepAlive
  <2>2. due' \in Nat /\ queue' \in [Ends -> Seq(Sizes)] /\ Short \in Sizes /\ "client" \in Ends
    BY <2>1, ConstantsAre DEF LinkInv, Types, Ends
  <2> QED
    BY <2>1, <2>2, EncodeKeeps
<1>2. ASSUME NEW e \in Ends, SendNext(e)
      PROVE  LinkInv'
  <2>1. /\ Selects(e) /\ queue[e] # <<>> /\ Encode(e, Head(queue[e])) /\ KeepRead(e)
        /\ queue' = [queue EXCEPT ![e] = Tail(@)]
        /\ UNCHANGED <<status, wire, got, due, idle, stalled, slow>>
    BY <1>2 DEF SendNext
  <2>2. queue[e] \in Seq(Sizes) /\ due \in Nat
    BY DEF LinkInv, Types
  <2>3. Head(queue[e]) \in Sizes /\ Tail(queue[e]) \in Seq(Sizes)
    BY <2>1, <2>2, HeadTailProperties
  <2>4. queue' \in [Ends -> Seq(Sizes)]
    BY <2>1, <2>3 DEF LinkInv, Types
  <2> QED
    BY <2>1, <2>2, <2>3, <2>4, EncodeKeeps
<1> QED
  BY <1>1, <1>2

-----------------------------------------------------------------------------
(* Steps that move what is on its way *)

(* The kernel takes the next pieces of a frame (cbor_codec.rs:54-66). *)
LEMMA WriteKeeps ==
    ASSUME LinkInv, NEW e \in Ends, Write(e)
    PROVE  LinkInv'
<1> USE DEF LinkInv
<1> DEFINE n == Taken(e)
           first == SubSeq(out[e], 1, n)
           rest == SubSeq(out[e], n + 1, Len(out[e]))
<1>1. /\ Open(e) /\ out[e] # <<>> /\ n > 0
      /\ wire' = [wire EXCEPT ![e] = @ \o first]
      /\ out' = [out EXCEPT ![e] = rest]
      /\ UNCHANGED <<status, queue, in, sent, got, due, idle, stalled, slow>>
  BY DEF Write, Acts, Sending
<1>2. /\ out[e] \in Seq(Pieces) /\ wire[e] \in Seq(Pieces)
      /\ Len(out[e]) \in Nat /\ Len(wire[e]) \in Nat /\ Len(wire[e]) <= Room
  BY DEF Types, WireHasRoom
<1>3. n \in 0..Len(out[e]) /\ n <= Room - Len(wire[e])
  <2> DEFINE o == Len(out[e])
             w == Len(wire[e])
  <2>1. n = IF Room - w < o THEN Room - w ELSE o
    BY DEF Taken
  <2>2. o \in Nat /\ w \in Nat /\ w <= Room /\ Room \in Nat
    BY <1>2, ConstantsAre
  <2> HIDE DEF n, o, w
  <2>3. n \in 0..o /\ n <= Room - w
    BY <2>1, <2>2
  <2> QED
    BY <2>3 DEF o, w
<1> HIDE DEF n
<1>4. first \in Seq(Pieces) /\ rest \in Seq(Pieces) /\ Len(first) = n
  BY <1>2, <1>3
<1> HIDE DEF first, rest
<1>5. /\ wire' \in [Ends -> Seq(Pieces)] /\ out' \in [Ends -> Seq(Pieces)]
      /\ wire'[e] = wire[e] \o first /\ out'[e] = rest
      /\ \A g \in Ends : g # e => wire'[g] = wire[g] /\ out'[g] = out[g]
  BY <1>1, <1>2, <1>4 DEF Types
<1>6. Types'
  BY <1>1, <1>5 DEF Types
<1>7. WireHasRoom'
  <2>1. Len(wire[e] \o first) = Len(wire[e]) + n
    <3>1. wire[e] \in Seq(Pieces) /\ first \in Seq(Pieces)
      BY <1>2, <1>4
    <3>2. Len(wire[e] \o first) = Len(wire[e]) + Len(first)
      BY <3>1, ConcatProperties
    <3> QED
      BY <1>4, <3>2
  <2>2. Len(wire[e]) + n <= Room
    BY <1>2, <1>3, ConstantsAre
  <2> QED
    BY <1>5, <2>1, <2>2 DEF WireHasRoom
<1>8. DecodedAsEncoded' /\ ClosedSendNothing' /\ FailsForAReason'
  BY <1>1, <1>5 DEF DecodedAsEncoded, ClosedSendNothing, FailsForAReason, Open
<1>9. InOrder'
  <2> SUFFICES ASSUME NEW g \in Ends PROVE OnItsWay(g)'
    BY DEF InOrder
  <2>1. Stream(g)' = Stream(g)
    <3>1. CASE g = e
      BY <1>1, <1>5, <3>1, PeersAre DEF Stream
    <3>2. CASE g = Peer(e)
      <4>1. Peer(g) = e
        BY <3>2, PeersAre
      <4>2. Stream(g)' = (in[g] \o (wire[e] \o first)) \o rest
        BY <1>1, <1>5, <4>1 DEF Stream
      <4>3. in[g] \in Seq(Pieces)
        BY DEF Types
      <4>4. (in[g] \o (wire[e] \o first)) \o rest = (in[g] \o wire[e]) \o out[e]
        <5> DEFINE a == in[g]
                   b == wire[e]
                   c == out[e]
        <5>1. a \in Seq(Pieces) /\ b \in Seq(Pieces) /\ c \in Seq(Pieces) /\ n \in 0..Len(c)
          BY <1>2, <1>3, <4>3
        <5> HIDE DEF a, b, c
        <5>2. \A k \in 0..Len(c) :
                 (a \o (b \o SubSeq(c, 1, k))) \o SubSeq(c, k + 1, Len(c)) = (a \o b) \o c
          <6>1. a \in Seq(Pieces) /\ b \in Seq(Pieces) /\ c \in Seq(Pieces)
            BY <5>1
          <6> QED
            BY ONLY <6>1, CutsJoin
        <5>3. (a \o (b \o SubSeq(c, 1, n))) \o SubSeq(c, n + 1, Len(c)) = (a \o b) \o c
          BY <5>1, <5>2
        <5> QED
          BY <5>3 DEF a, b, c, first, rest
      <4> QED
        BY <4>1, <4>2, <4>4 DEF Stream
    <3> QED
      BY <3>1, <3>2, PeersAre
  <2> QED
    BY <1>1, <2>1, SameWay DEF InOrder, Open
<1>10. KeepAlivesCome'
  <2>1. ~BothBlocked
    <3>1. Len(wire[e]) # Room
      BY <1>1, <1>2, <1>3, ConstantsAre
    <3> QED
      BY <3>1 DEF BothBlocked
  <2> QED
    BY <1>1, <2>1 DEF KeepAlivesCome, KeepAliveIsComing, Open
<1> QED
  BY <1>6, <1>7, <1>8, <1>9, <1>10

(* An end reads some of what the kernel holds (client/core.rs:112,
   client_stub.rs:54). *)
LEMMA ReadKeeps ==
    ASSUME LinkInv, NEW e \in Ends, Read(e)
    PROVE  LinkInv'
<1> USE DEF LinkInv
<1> DEFINE p == Peer(e)
<1>1. PICK n \in 1..Len(wire[p]) :
         /\ in' = [in EXCEPT ![e] = @ \o SubSeq(wire[p], 1, n)]
         /\ wire' = [wire EXCEPT ![p] = SubSeq(@, n + 1, Len(@))]
  BY DEF Read
<1>2. /\ Open(e) /\ out[e] = <<>>
      /\ UNCHANGED <<status, queue, out, sent, got, due, idle, stalled, slow>>
  BY DEF Read, Selects, Acts, Sending
<1> DEFINE first == SubSeq(wire[p], 1, n)
           rest == SubSeq(wire[p], n + 1, Len(wire[p]))
<1>3. /\ p \in Ends /\ p # e /\ Peer(p) = e
      /\ in[e] \in Seq(Pieces) /\ wire[p] \in Seq(Pieces) /\ out[p] \in Seq(Pieces)
  BY PeersAre DEF Types
<1>4. Len(wire[p]) \in Nat /\ Len(wire[p]) <= Room /\ n \in 0..Len(wire[p])
  BY <1>3 DEF WireHasRoom
<1> HIDE DEF p
<1>5. first \in Seq(Pieces) /\ rest \in Seq(Pieces) /\ Len(rest) <= Len(wire[p])
  <2>1. first \in Seq(Pieces) /\ rest \in Seq(Pieces) /\ Len(rest) = Len(wire[p]) - n
    BY <1>3, <1>4
  <2> QED
    BY <1>4, <2>1
<1> HIDE DEF first, rest
<1>6. /\ in' \in [Ends -> Seq(Pieces)] /\ wire' \in [Ends -> Seq(Pieces)]
      /\ in'[e] = in[e] \o first /\ wire'[p] = rest
      /\ in'[p] = in[p] /\ wire'[e] = wire[e]
  <2>1. /\ in' = [in EXCEPT ![e] = in[e] \o first]
        /\ wire' = [wire EXCEPT ![p] = rest]
    BY <1>1 DEF first, rest
  <2>2. in[e] \o first \in Seq(Pieces)
    BY <1>3, <1>5, ConcatProperties
  <2> QED
    BY <1>3, <1>5, <2>1, <2>2 DEF Types
<1>7. Types'
  BY <1>2, <1>6 DEF Types
<1>8. WireHasRoom'
  <2>1. Len(rest) <= Room
    BY <1>3, <1>4, <1>5, ConstantsAre
  <2> QED
    BY <1>3, <1>6, <2>1, PeersAre DEF WireHasRoom, p
<1>9. DecodedAsEncoded' /\ ClosedSendNothing' /\ FailsForAReason'
  BY <1>2 DEF DecodedAsEncoded, ClosedSendNothing, FailsForAReason, Open
<1>10. InOrder'
  <2> SUFFICES ASSUME NEW g \in Ends PROVE OnItsWay(g)'
    BY DEF InOrder
  <2>1. Stream(g)' = Stream(g)
    <3>1. CASE g = e
      <4>1. Stream(g)' = ((in[e] \o first) \o rest) \o out[p]
        BY <1>2, <1>6, <3>1 DEF Stream, p
      <4>2. ((in[e] \o first) \o rest) \o out[p] = (in[e] \o wire[p]) \o out[p]
        <5> DEFINE a == in[e]
                   b == wire[p]
                   c == out[p]
        <5>1. a \in Seq(Pieces) /\ b \in Seq(Pieces) /\ c \in Seq(Pieces) /\ n \in 0..Len(b)
          BY <1>3, <1>4
        <5> HIDE DEF a, b, c
        <5>2. \A k \in 0..Len(b) :
                 ((a \o SubSeq(b, 1, k)) \o SubSeq(b, k + 1, Len(b))) \o c = (a \o b) \o c
          <6>1. a \in Seq(Pieces) /\ b \in Seq(Pieces) /\ c \in Seq(Pieces)
            BY <5>1
          <6> QED
            BY ONLY <6>1, CutsJoin
        <5>3. ((a \o SubSeq(b, 1, n)) \o SubSeq(b, n + 1, Len(b))) \o c = (a \o b) \o c
          BY <5>1, <5>2
        <5> QED
          BY <5>3 DEF a, b, c, first, rest
      <4> QED
        BY <3>1, <4>1, <4>2 DEF Stream, p
    <3>2. CASE g = p
      BY <1>2, <1>3, <1>6, <3>2 DEF Stream
    <3> QED
      BY <3>1, <3>2, PeersAre DEF p
  <2> QED
    BY <1>2, <2>1, SameWay DEF InOrder, Open
<1>11. KeepAlivesCome'
  <2>1. ~BothBlocked
    BY <1>2 DEF BothBlocked, Sending
  <2> QED
    BY <1>2, <2>1 DEF KeepAlivesCome, KeepAliveIsComing, Open
<1> QED
  BY <1>7, <1>8, <1>9, <1>10, <1>11

(* Cutting the first part of a stream, and that of all of it *)
LEMMA CutsFirst ==
    ASSUME NEW a \in Seq(Pieces), NEW b \in Seq(Pieces), NEW c \in Seq(Pieces),
           NEW n \in 0..Len(a)
    PROVE  (SubSeq(a, n + 1, Len(a)) \o b) \o c
              = SubSeq((a \o b) \o c, n + 1, Len((a \o b) \o c))
<1> DEFINE x == SubSeq(a, 1, n)
           y == SubSeq(a, n + 1, Len(a))
           z == (y \o b) \o c
           s == (a \o b) \o c
<1>1. x \in Seq(Pieces) /\ y \in Seq(Pieces) /\ Len(x) = n
  OBVIOUS
<1>2. x \o y = a
  <2>1. 1 \in 1..Len(a)+1 /\ n \in 1-1..Len(a) /\ Len(a) \in n..Len(a)
    OBVIOUS
  <2>2. x \o y = SubSeq(a, 1, Len(a))
    BY <2>1, ConcatAdjacentSubSeq
  <2> QED
    BY <2>2, SubSeqFull
<1> HIDE DEF x, y
<1>3. y \o b \in Seq(Pieces) /\ z \in Seq(Pieces)
  BY <1>1, ConcatProperties
<1>4. s = x \o z
  <2>1. (x \o y) \o b = x \o (y \o b)
    BY <1>1
  <2> DEFINE d == y \o b
  <2>2. d \in Seq(Pieces)
    BY <1>3
  <2> HIDE DEF d
  <2>3. (x \o d) \o c = x \o (d \o c)
    BY <1>1, <2>2
  <2> QED
    BY <1>2, <2>1, <2>3 DEF d
<1> HIDE DEF z, s
<1>5. SubSeq(x \o z, n + 1, Len(x \o z)) = z
  BY <1>1, <1>3
<1> QED
  BY <1>4, <1>5 DEF z, s, y

(* A first part of a sequence that gets its next element *)
LEMMA PrefixGrows ==
    ASSUME NEW s \in Seq(Sizes), NEW m \in 0..Len(s), m < Len(s)
    PROVE  Append(SubSeq(s, 1, m), s[m + 1]) = SubSeq(s, 1, m + 1)
OBVIOUS

(* What an end decodes is its next frame and nothing else (cbor_codec.rs:37-52). *)
LEMMA DecodedIs ==
    ASSUME LinkInv, NEW e \in Ends, Open(e), Decodes(e)
    PROVE  LET m == Len(got[e])
               size == sent[Peer(e)][m + 1]
               len == HeaderLen + size
           IN  /\ m < Len(sent[Peer(e)]) /\ size \in Sizes
               /\ len \in 0..Len(in[e])
               /\ Payload(in[e]) = size
               /\ Advance(in[e]) = SubSeq(in[e], len + 1, Len(in[e]))
<1> DEFINE m == Len(got[e])
           size == sent[Peer(e)][m + 1]
           len == HeaderLen + size
           buf == in[e]
<1>1. buf \in Seq(Pieces) /\ Len(buf) >= HeaderLen /\ Len(buf) >= HeaderLen + buf[1].size
  BY DEF LinkInv, Types, Decodes, Complete, HasHeader
<1>2. buf # <<>>
  BY <1>1, ConstantsAre
<1>3. /\ m < Len(sent[Peer(e)]) /\ size \in Sizes
      /\ buf[1].size = size
      /\ \A k \in 1..len : k <= Len(buf) =>
            buf[k] = [msg |-> m + 1, size |-> size, piece |-> k]
  BY <1>2, FirstIs DEF LinkInv, InOrder
<1>4. m \in Nat /\ Len(sent[Peer(e)]) \in Nat
  BY CountsAre DEF LinkInv
<1>5. size \in Nat /\ len \in Nat \ {0} /\ len <= Len(buf) /\ Len(buf) \in Nat
  <2>1. size \in Nat
    BY <1>3, ConstantsAre
  <2>2. HeaderLen + size <= Len(buf)
    BY <1>1, <1>3
  <2> HIDE DEF size, buf
  <2>3. Len(buf) \in Nat
    BY <1>1
  <2> QED
    BY <2>1, <2>2, <2>3, ConstantsAre
<1>6. SubSeq(buf, 1, len) = Frame(m + 1, size)
  <2>1. m + 1 \in Nat
    BY <1>4
  <2> DEFINE f == Frame(m + 1, size)
             t == SubSeq(buf, 1, len)
  <2>2. /\ f \in Seq(Pieces) /\ Len(f) = len
        /\ \A k \in 1..len : f[k] = [msg |-> m + 1, size |-> size, piece |-> k]
    BY <1>5, <2>1, FrameIs
  <2> HIDE DEF len, buf
  <2>3. t \in Seq(Pieces) /\ Len(t) = len /\ \A k \in 1..len : t[k] = buf[k]
    BY <1>1, <1>5
  <2> HIDE DEF f, t
  <2>4. \A k \in 1..len : t[k] = f[k]
    <3> SUFFICES ASSUME NEW k \in 1..len PROVE t[k] = f[k]
      OBVIOUS
    <3>1. k <= Len(buf)
      BY <1>5
    <3> QED
      BY <1>3, <2>2, <2>3, <3>1
  <2>5. t = f
    BY <2>2, <2>3, <2>4, SeqEqual
  <2> QED
    BY <2>5 DEF t, f
<1>7. m + 1 \in 1..Len(sent["client"]) + Len(sent["stub"])
  <2>1. Len(sent["client"]) \in Nat /\ Len(sent["stub"]) \in Nat
    BY DEF LinkInv, Types, Ends
  <2> DEFINE a == Len(sent["client"])
             b == Len(sent["stub"])
             c == Len(sent[Peer(e)])
  <2>2. c = a \/ c = b
    BY DEF Peer
  <2>3. a \in Nat /\ b \in Nat /\ m \in Nat /\ m < c
    BY <1>3, <1>4, <2>1
  <2> HIDE DEF a, b, c, m
  <2>4. m + 1 \in 1..a + b
    BY <2>2, <2>3
  <2> QED
    BY <2>4 DEF a, b, m
<1>8. Payload(buf) = size
  BY <1>3, <1>6, <1>7 DEF Payload
<1>9. Advance(buf) = SubSeq(buf, len + 1, Len(buf))
  BY <1>3 DEF Advance
<1> QED
  BY <1>3, <1>5, <1>8, <1>9

(* The next frame leaves the read buffer, and the stub has something to answer
   (cbor_codec.rs:37-52, client_stub.rs:54-58, client/core.rs:112-115). *)
LEMMA DecodeKeeps ==
    ASSUME LinkInv, NEW e \in Ends, Decode(e)
    PROVE  LinkInv'
<1> USE DEF LinkInv
<1> DEFINE p == Peer(e)
           m == Len(got[e])
           size == sent[p][m + 1]
           len == HeaderLen + size
           left == SubSeq(in[e], len + 1, Len(in[e]))
<1>1. /\ Open(e) /\ out[e] = <<>> /\ Decodes(e)
      /\ got' = [got EXCEPT ![e] = Append(@, Payload(in[e]))]
      /\ in' = [in EXCEPT ![e] = Advance(@)]
      /\ queue' = IF e = "stub" THEN [queue EXCEPT ![e] = Append(@, Short)] ELSE queue
      /\ IF e = "stub" THEN idle' = 0 /\ slow' = 0 ELSE UNCHANGED <<idle, slow>>
      /\ UNCHANGED <<status, out, wire, sent, due, stalled>>
  BY DEF Decode, Selects, Acts, Sending, ResetInterval
<1>2. /\ m < Len(sent[p]) /\ size \in Sizes /\ len \in 0..Len(in[e])
      /\ Payload(in[e]) = size /\ Advance(in[e]) = left
  BY <1>1, DecodedIs
<1>3. /\ p \in Ends /\ p # e /\ Peer(p) = e /\ m \in 0..Len(sent[p])
      /\ sent[p] \in Seq(Sizes) /\ got[e] \in Seq(Nat) /\ size \in Nat
      /\ in[e] \in Seq(Pieces) /\ wire[p] \in Seq(Pieces) /\ out[p] \in Seq(Pieces)
  BY <1>2, ConstantsAre, CountsAre, PeersAre, StreamIs
<1>4. left \in Seq(Pieces)
  <2> HIDE DEF len
  <2> QED
    BY <1>2, <1>3
<1> HIDE DEF p, m, size, len, left
<1>5. /\ got' \in [Ends -> Seq(Nat)] /\ in' \in [Ends -> Seq(Pieces)]
      /\ got'[e] = Append(got[e], size) /\ in'[e] = left
      /\ got'[p] = got[p] /\ in'[p] = in[p]
  <2>1. Append(got[e], size) \in Seq(Nat)
    BY <1>3
  <2>2. /\ got' = [got EXCEPT ![e] = Append(got[e], size)]
        /\ in' = [in EXCEPT ![e] = left]
    BY <1>1, <1>2
  <2> QED
    BY <1>3, <1>4, <2>1, <2>2 DEF Types
<1>6. Types'
  <2>1. idle' \in 0..Timeout /\ slow' \in 0..idle'
    BY <1>1, ConstantsAre DEF Types
  <2>2. queue' \in [Ends -> Seq(Sizes)]
    BY <1>1, ConstantsAre DEF Types
  <2> QED
    BY <1>1, <1>5, <2>1, <2>2 DEF Types
<1>7. WireHasRoom' /\ ClosedSendNothing' /\ FailsForAReason'
  <2>1. WireHasRoom' /\ ClosedSendNothing'
    BY <1>1 DEF WireHasRoom, ClosedSendNothing, Open
  <2>2. \A g \in Ends : status[g] = "ClientTimeout" => slow' = slow
    BY <1>1 DEF Types, Open, Ends
  <2> QED
    BY <1>1, <2>1, <2>2 DEF FailsForAReason, Open
<1>8. Len(got'[e]) = m + 1
  BY <1>3, <1>5, AppendProperties DEF m
<1>9. DecodedAsEncoded'
  <2> SUFFICES ASSUME NEW g \in Ends
               PROVE  /\ Len(got'[g]) <= Len(sent[Peer(g)])
                      /\ got'[g] = SubSeq(sent[Peer(g)], 1, Len(got'[g]))
    BY <1>1 DEF DecodedAsEncoded, Peer
  <2>1. CASE g = e
    <3>1. m + 1 <= Len(sent[p])
      BY <1>2, <1>3
    <3>2. got[e] = SubSeq(sent[p], 1, m)
      BY DEF DecodedAsEncoded, m, p
    <3>3. Append(SubSeq(sent[p], 1, m), size) = SubSeq(sent[p], 1, m + 1)
      BY <1>2, <1>3, PrefixGrows DEF size
    <3> QED
      BY <1>5, <1>8, <2>1, <3>1, <3>2, <3>3 DEF p
  <2>2. CASE g = p
    BY <1>5, <2>2 DEF DecodedAsEncoded
  <2> QED
    BY <2>1, <2>2, PeersAre DEF p
<1>10. InOrder'
  <2> SUFFICES ASSUME NEW g \in Ends PROVE OnItsWay(g)'
    BY DEF InOrder
  <2>1. CASE g = e
    <3> DEFINE s == Stream(e)
               t == SubSeq(s, len + 1, Len(s))
    <3>1. Stream(e)' = t
      <4> DEFINE a == in[e]
                 b == wire[p]
                 c == out[p]
      <4>1. a \in Seq(Pieces) /\ b \in Seq(Pieces) /\ c \in Seq(Pieces) /\ len \in 0..Len(a)
        BY <1>2, <1>3
      <4>2. s = (a \o b) \o c
        BY DEF Stream, p
      <4>3. Stream(e)' = (SubSeq(a, len + 1, Len(a)) \o b) \o c
        BY <1>1, <1>5 DEF Stream, p, left
      <4> HIDE DEF a, b, c, s
      <4>4. a \in Seq(Pieces) /\ b \in Seq(Pieces) /\ c \in Seq(Pieces)
        BY <4>1
      <4>5. \A k \in 0..Len(a) :
               (SubSeq(a, k + 1, Len(a)) \o b) \o c
                  = SubSeq((a \o b) \o c, k + 1, Len((a \o b) \o c))
        BY ONLY <4>4, CutsFirst
      <4>6. (SubSeq(a, len + 1, Len(a)) \o b) \o c
               = SubSeq((a \o b) \o c, len + 1, Len((a \o b) \o c))
        BY <4>1, <4>5
      <4> QED
        BY <4>2, <4>3, <4>6
    <3>2. PICK start : /\ Layout(s, sent[p], m, start)
                       /\ Open(p) => Whole(s, sent[p], start)
      BY <1>1 DEF InOrder, OnItsWay, p, m
    <3>3. s \in Seq(Pieces) /\ Len(in[e]) \in Nat /\ Len(s) \in Nat /\ Len(in[e]) <= Len(s)
      BY StreamIs
    <3> HIDE DEF s
    <3>4. HeaderLen + sent[p][m + 1] <= Len(s)
      <4>1. len <= Len(s)
        BY <1>2, <3>3
      <4> QED
        BY <4>1 DEF len, size
    <3>5. \E after : /\ Layout(t, sent[p], m + 1, after)
                     /\ Whole(s, sent[p], start) => Whole(t, sent[p], after)
      BY <1>2, <1>3, <3>2, <3>3, <3>4, LayoutAdvanced DEF len, size
    <3>6. Open(e)' = Open(e) /\ Open(p)' = Open(p) /\ sent' = sent
      BY <1>1 DEF Open
    <3> QED
      BY <1>8, <2>1, <3>1, <3>2, <3>5, <3>6 DEF OnItsWay, p
  <2>2. CASE g = p
    <3>1. Stream(g)' = Stream(g)
      BY <1>1, <1>3, <1>5, <2>2 DEF Stream
    <3> QED
      BY <1>1, <1>5, <2>2, <3>1, SameWay DEF InOrder, Open
  <2> QED
    BY <2>1, <2>2, PeersAre DEF p
<1>11. KeepAlivesCome'
  <2>1. CASE e = "stub"
    BY <1>1, <2>1 DEF KeepAlivesCome
  <2>2. CASE e # "stub"
    <3>1. got'["stub"] = got["stub"] /\ idle' = idle /\ slow' = slow
      BY <1>1, <1>5, <2>2 DEF p, Peer, Ends
    <3>2. ~BothBlocked
      BY <1>1 DEF BothBlocked, Sending
    <3> QED
      BY <1>1, <3>1, <3>2 DEF KeepAlivesCome, KeepAliveIsComing, Open
  <2> QED
    BY <2>1, <2>2
<1> QED
  BY <1>6, <1>7, <1>9, <1>10, <1>11

-----------------------------------------------------------------------------
(* Steps that end a loop *)

(* What a loop that ends leaves behind is a first part of what was on its way; its
   status has to have a reason (client_stub.rs:54-79, client/core.rs:112-137). *)
LEMMA EndKeeps ==
    ASSUME LinkInv, NEW e \in Ends, NEW how \in Statuses, Open(e), how # "open", End(e, how),
           how = "IOError" => \/ ~Open(Peer(e))
                              \/ \E i \in DOMAIN sent[Peer(e)] : sent[Peer(e)][i] > MaxSize,
           how = "ClientTimeout" => e = "stub" /\ (stalled \/ slow + 1 >= Timeout),
           Open("stub") => ~BothBlocked
    PROVE  LinkInv'
<1> USE DEF LinkInv
<1> DEFINE p == Peer(e)
<1>1. PICK kept \in {<<>>, wire[e]} :
         wire' = [f \in Ends |-> IF f = e THEN kept ELSE <<>>]
  BY DEF End
<1>2. /\ status' = [status EXCEPT ![e] = how] /\ queue' = [queue EXCEPT ![e] = <<>>]
      /\ out' = [out EXCEPT ![e] = <<>>] /\ in' = [in EXCEPT ![e] = <<>>]
      /\ UNCHANGED <<sent, got, due, idle, stalled, slow>>
  BY DEF End
<1>3. /\ p \in Ends /\ p # e /\ Peer(p) = e
      /\ wire[e] \in Seq(Pieces) /\ in[p] \in Seq(Pieces) /\ out[e] \in Seq(Pieces)
      /\ kept \in Seq(Pieces)
      /\ kept = <<>> \/ kept = wire[e]
  <2>1. /\ p \in Ends /\ p # e /\ Peer(p) = e
        /\ wire[e] \in Seq(Pieces) /\ in[p] \in Seq(Pieces) /\ out[e] \in Seq(Pieces)
    BY PeersAre DEF Types
  <2>2. kept \in Seq(Pieces)
    <3>1. CASE kept = <<>>
      BY <3>1
    <3>2. CASE kept = wire[e]
      BY <2>1, <3>2
    <3> QED
      BY <3>1, <3>2
  <2> QED
    BY <2>1, <2>2
<1> HIDE DEF p
<1>4. /\ status'[e] = how /\ status'[p] = status[p]
      /\ out'[e] = <<>> /\ out'[p] = out[p] /\ in'[p] = in[p]
      /\ wire'[e] = kept /\ wire'[p] = <<>>
  BY <1>1, <1>2, <1>3 DEF Types
<1>5. Types'
  <2>1. /\ status' \in [Ends -> Statuses] /\ queue' \in [Ends -> Seq(Sizes)]
        /\ out' \in [Ends -> Seq(Pieces)] /\ in' \in [Ends -> Seq(Pieces)]
        /\ status'["client"] # "ClientTimeout"
    BY <1>2 DEF Types, Ends
  <2>2. wire' \in [Ends -> Seq(Pieces)]
    BY <1>1, <1>3
  <2> QED
    BY <1>2, <2>1, <2>2 DEF Types
<1>6. WireHasRoom'
  <2>1. Len(kept) <= Room
    BY <1>3, ConstantsAre DEF WireHasRoom
  <2> QED
    BY <1>4, <2>1, ConstantsAre, PeersAre DEF WireHasRoom, p
<1>7. DecodedAsEncoded'
  BY <1>2 DEF DecodedAsEncoded
<1>8. ~Open(e)' /\ Open(p)' = Open(p)
  BY <1>4 DEF Open
<1>9. ClosedSendNothing'
  BY <1>4, <1>8, PeersAre DEF ClosedSendNothing, p
<1>10. InOrder'
  <2> SUFFICES ASSUME Open(p) PROVE OnItsWay(p)'
    BY <1>8, PeersAre DEF InOrder, OnItsWay, p
  <2> DEFINE s == Stream(p)
             t == in[p] \o kept
  <2>1. PICK start : Layout(s, sent[e], Len(got[p]), start)
    BY <1>3 DEF InOrder, OnItsWay
  <2>2. Stream(p)' = t
    <3>1. Stream(p)' = t \o <<>>
      BY <1>3, <1>4 DEF Stream
    <3>2. t \in Seq(Pieces)
      BY <1>3, ConcatProperties
    <3> QED
      BY <3>1, <3>2, ConcatEmptySeq
  <2>3. /\ s \in Seq(Pieces) /\ t \in Seq(Pieces)
        /\ Len(t) <= Len(s) /\ \A k \in 1..Len(t) : t[k] = s[k]
    <3> DEFINE a == in[p]
               b == wire[e]
               c == out[e]
    <3>1. s = (a \o b) \o c
      BY <1>3 DEF Stream
    <3>2. /\ a \in Seq(Pieces) /\ b \in Seq(Pieces) /\ c \in Seq(Pieces)
          /\ kept = <<>> \/ kept = b
      BY <1>3
    <3>3. t = a \o kept
      OBVIOUS
    <3> HIDE DEF a, b, c, s, t
    <3>4. CASE kept = b
      BY <3>1, <3>2, <3>3, <3>4
    <3>5. CASE kept = <<>>
      <4>1. t = a
        BY <3>2, <3>3, <3>5, ConcatEmptySeq
      <4> QED
        BY <3>1, <3>2, <4>1
    <3> QED
      BY <3>2, <3>4, <3>5
  <2>4. sent[e] \in Seq(Sizes) /\ Len(got[p]) \in 0..Len(sent[e])
    BY <1>3, CountsAre
  <2> HIDE DEF s, t
  <2>5. Layout(t, sent[e], Len(got[p]), start)
    BY <2>1, <2>3, <2>4, LayoutOfPart
  <2> QED
    BY <1>2, <1>3, <1>8, <2>2, <2>5 DEF OnItsWay
<1>11. FailsForAReason'
  <2> SUFFICES ASSUME NEW g \in Ends
               PROVE  /\ status'[g] = "IOError" =>
                            \/ ~Open(Peer(g))'
                            \/ \E i \in DOMAIN sent[Peer(g)] : sent[Peer(g)][i] > MaxSize
                      /\ status'[g] = "ClientTimeout" => stalled \/ slow + 1 >= Timeout
    BY <1>2 DEF FailsForAReason, Open, Peer
  <2>1. CASE g = e
    BY <1>4, <1>8, <2>1 DEF p
  <2>2. CASE g = p
    BY <1>3, <1>4, <1>8, <2>2 DEF FailsForAReason
  <2> QED
    BY <2>1, <2>2, PeersAre DEF p
<1>12. KeepAlivesCome'
  <2>1. CASE e = "stub"
    BY <1>8, <2>1 DEF KeepAlivesCome
  <2>2. CASE e = "client"
    <3>1. ~Open("client")' /\ Open("stub")' = Open("stub")
      BY <1>8, <2>2 DEF p, Peer
    <3> QED
      BY <1>2, <3>1 DEF KeepAlivesCome, KeepAliveIsComing
  <2> QED
    BY <2>1, <2>2 DEF Ends
<1> QED
  BY <1>5, <1>6, <1>7, <1>9, <1>10, <1>11, <1>12

(* Each way in which a loop ends has its reason (cbor_codec.rs:46-48,
   client_stub.rs:54-79, client/core.rs:112-137). *)
LEMMA EndsKeep ==
    ASSUME LinkInv, NEW e \in Ends,
           WriteFails(e) \/ DecodeFails(e) \/ ReadEnd(e) \/ Leave(e) \/ (e = "stub" /\ TimesOut)
    PROVE  LinkInv'
<1>1. Selects(e) => Open(e) /\ ~BothBlocked
  BY DEF Selects, Acts, Sending, BothBlocked
<1>2. {"stopped", "IOError", "ChannelClosed", "ClientTimeout"} \subseteq Statuses
  BY DEF Statuses
<1>3. CASE WriteFails(e)
  <2>1. Open(e) /\ ~Open(Peer(e)) /\ End(e, "IOError")
    BY <1>3 DEF WriteFails, Acts
  <2>2. Open("stub") => ~BothBlocked
    <3>1. ASSUME Open("stub") PROVE ~Open("client")
      BY <2>1, <3>1 DEF Peer, Ends
    <3>2. ASSUME ~Open("client") PROVE out["client"] = <<>>
      BY <3>2 DEF LinkInv, ClosedSendNothing, Ends
    <3> QED
      BY <3>1, <3>2 DEF BothBlocked, Sending, Ends
  <2> QED
    BY <1>2, <2>1, <2>2, EndKeeps
<1>4. CASE DecodeFails(e)
  <2>1. Selects(e) /\ TooLong(in[e]) /\ End(e, "IOError")
    BY <1>4 DEF DecodeFails
  <2>2. in[e] # <<>> /\ in[e][1].size > MaxSize
    <3>1. Len(in[e]) >= HeaderLen /\ in[e][1].size > MaxSize
      BY <2>1 DEF TooLong, HasHeader
    <3> QED
      BY <3>1, ConstantsAre
  <2> DEFINE m == Len(got[e])
             long == sent[Peer(e)]
  <2>3. m < Len(long) /\ long[m + 1] > MaxSize
    BY <1>1, <2>1, <2>2, FirstIs DEF LinkInv, InOrder
  <2>4. long \in Seq(Sizes) /\ m \in 0..Len(long)
    BY CountsAre DEF LinkInv
  <2> HIDE DEF m, long
  <2>5. m + 1 \in DOMAIN long
    BY <2>3, <2>4
  <2>6. \E i \in DOMAIN long : long[i] > MaxSize
    BY <2>3, <2>5
  <2> QED
    BY <1>1, <1>2, <2>1, <2>6, EndKeeps DEF long
<1>5. CASE ReadEnd(e)
  <2>1. /\ Selects(e) /\ ~Open(Peer(e))
        /\ End(e, "ChannelClosed") \/ End(e, "IOError")
    BY <1>5 DEF ReadEnd
  <2> QED
    BY <1>1, <1>2, <2>1, EndKeeps
<1>6. CASE Leave(e)
  BY <1>1, <1>2, <1>6, EndKeeps DEF Leave
<1>7. CASE e = "stub" /\ TimesOut
  <2>1. Selects(e) /\ idle >= Timeout /\ End(e, "ClientTimeout") /\ Open("stub")
    BY <1>1, <1>7 DEF TimesOut
  <2>2. stalled \/ slow + 1 >= Timeout
    <3>1. stalled \/ idle <= slow \/ idle = slow + 1
      BY <1>1, <2>1 DEF LinkInv, KeepAlivesCome
    <3> QED
      BY <2>1, <3>1, ConstantsAre DEF LinkInv, Types
  <2>3. "ClientTimeout" \in Statuses /\ "ClientTimeout" # "open" /\ "ClientTimeout" # "IOError"
    BY <1>2
  <2> QED
    BY <1>1, <1>7, <2>1, <2>2, <2>3, EndKeeps
<1> QED
  BY <1>3, <1>4, <1>5, <1>6, <1>7

-----------------------------------------------------------------------------
(* The theorems *)

(* Every step keeps the invariant, one action at a time. *)
LEMMA NextKeepsLink ==
    LinkInv /\ [Next]_vars => LinkInv'
<1> SUFFICES ASSUME LinkInv, [Next]_vars PROVE LinkInv'
  OBVIOUS
<1>1. CASE Call \/ CorePublishes
  BY <1>1, CallsKeep
<1>2. CASE KeepAlive
  BY <1>2, SendsKeep
<1>3. ASSUME NEW e \in Ends, EndStep(e) \/ Leave(e)
      PROVE  LinkInv'
  <2>1. CASE SendNext(e)
    BY <2>1, SendsKeep
  <2>2. CASE Write(e)
    BY <2>2, WriteKeeps
  <2>3. CASE Read(e)
    BY <2>3, ReadKeeps
  <2>4. CASE Decode(e)
    BY <2>4, DecodeKeeps
  <2>5. CASE WriteFails(e) \/ DecodeFails(e) \/ ReadEnd(e) \/ Leave(e)
    BY <2>5, EndsKeep
  <2> QED
    BY <1>3, <2>1, <2>2, <2>3, <2>4, <2>5 DEF EndStep
<1>4. CASE TimesOut
  <2>1. "stub" \in Ends
    BY DEF Ends
  <2> QED
    BY <1>4, <2>1, EndsKeep
<1>5. CASE Elapse
  BY <1>5, ElapseKeeps
<1>6. CASE Stall
  BY <1>6, StallKeeps
<1>7. CASE UNCHANGED vars
  <2>1. UNCHANGED <<status, queue, out, wire, in, sent, got, due, idle, stalled, slow>>
    BY <1>7 DEF vars
  <2>2. Types' /\ slow <= slow'
    BY <2>1 DEF LinkInv, Types
  <2>3. KeepAlivesCome'
    BY <2>1 DEF LinkInv, KeepAlivesCome, KeepAliveIsComing, BothBlocked, Sending, Open
  <2> QED
    BY <2>1, <2>2, <2>3, QuietKeeps
<1> QED
  BY <1>1, <1>2, <1>3, <1>4, <1>5, <1>6, <1>7 DEF Next

(* The invariant holds throughout, whatever the loops, the kernel and time do
   (client_stub.rs:47-79, client/core.rs:106-144, cbor_codec.rs:37-66). *)
THEOREM LinkInvariant == Spec => []LinkInv
<1>1. Init => LinkInv
  BY InitLink
<1>2. LinkInv /\ [Next]_vars => LinkInv'
  BY NextKeepsLink
<1> QED
  BY <1>1, <1>2, PTL DEF Spec

(* The variables keep their types, and the kernel never holds more than it has room
   for (client_stub.rs:47-79, client/core.rs:106-144). *)
THEOREM LinkTypes == Spec => []TypeOK
<1>1. LinkInv => TypeOK
  BY DEF LinkInv, Types, WireHasRoom, TypeOK, Statuses
<1> QED
  BY <1>1, LinkInvariant, PTL

(* Each end decodes the payloads that the other has encoded, in their order and
   with nothing left out, for payloads and buffers of any size and however the
   frames are cut (cbor_codec.rs:37-66). *)
THEOREM DecodedInOrder == Spec => []DecodedAsEncoded
<1>1. LinkInv => DecodedAsEncoded
  BY DEF LinkInv
<1> QED
  BY <1>1, LinkInvariant, PTL

(* A connection fails only for a payload that is too long or because its other end
   has closed; and a client that has not stalled is timed out only if something was
   still being sent, read or processed at the end of all but one of the intervals
   since its last message, for any time-out of more than one interval
   (cbor_codec.rs:46-48, client_stub.rs:57-75, client/core.rs:135). *)
THEOREM ConnectionsFailForAReason == Spec => []FailsForAReason
<1>1. LinkInv => FailsForAReason
  BY DEF LinkInv
<1> QED
  BY <1>1, LinkInvariant, PTL

=============================================================================
