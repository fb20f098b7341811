-------------------------------- MODULE Link ---------------------------------
(***************************************************************************)
(* One connection over a socket: the client core's main_loop at one end    *)
(* (src/src/client/core.rs), the stub's _serve at the other                *)
(* (server/client_stub.rs), the framing of CborCodec                       *)
(* (transport/cbor_codec.rs) in between, and the kernel's bounded buffers. *)
(*                                                                         *)
(* Either loop selects between a message from the socket, a message to     *)
(* send, and a timer, and awaits transport.send inside a branch: until the *)
(* kernel has taken all of a frame it neither reads nor looks at its       *)
(* timer.  A frame is a sequence of pieces, the first HeaderLen of which   *)
(* are its length.  What the messages say is in modules ServerCore and     *)
(* ClientCore; here each message to the bus is acknowledged.               *)
(***************************************************************************)
EXTENDS Naturals, Sequences

CONSTANTS
    HeaderLen,      \* pieces of a frame's header
    Sizes,          \* the lengths of the payloads that are sent
    Short,          \* the length of an ack's or a keep-alive's payload, among them
    MaxSize,        \* the longest payload that the decoder takes
    Room,           \* pieces that the kernel holds in one direction
    Timeout,        \* KEEP_ALIVE_TIMEOUT_S in units of KEEP_ALIVE_INTERVAL_S
    Loads           \* bound: what happens in one behaviour, of [calls, pubs, time]

Ends == {"client", "stub"}
Peer(e) == IF e = "client" THEN "stub" ELSE "client"

ASSUME LinkAssumption ==
    /\ {HeaderLen, Short, Room} \subseteq Nat \ {0}
    /\ {MaxSize, Timeout} \subseteq Nat
    /\ Loads \subseteq [calls : Nat, pubs : Nat, time : Nat]
    /\ Timeout > 1              \* 90 s are 3 of 30 s: protocol.rs:10-11
    /\ Sizes \subseteq Nat \ {0} /\ Short \in Sizes /\ Short <= MaxSize

VARIABLES
    status,     \* of each end: open, or how its loop ended
    queue,      \* the payloads that wait for the loop to send them
    out,        \* the rest of the frame that the loop is sending
    wire,       \* the pieces that the kernel holds, by the end that sent them
    in,         \* the read buffer
    sent, got,  \* the payloads encoded, and decoded, by each end
    (* what is left of the load *)
    calls,      \* messages that the user of the client sends
    pubs,       \* publications of others that the client gets
    time,       \* units of time while the client is well
    due,        \* ticks of the client's keep-alive interval not yet taken
    idle,       \* time since the stub's interval was reset, up to Timeout
    stalled,    \* whether the client, or its host, does nothing any more
    (* history *)
    slow        \* units of that time at whose end something was still to be done

vars == <<status, queue, out, wire, in, sent, got, calls, pubs, time, due, idle, stalled, slow>>
buffers == <<out, wire, in>>

(* the frame of the n-th payload, and of this size, that an end has encoded *)
Frame(n, size) == [k \in 1..(HeaderLen + size) |-> [msg |-> n, size |-> size, piece |-> k]]

Init ==
    /\ status = [e \in Ends |-> "open"]
    /\ queue = [e \in Ends |-> <<>>]
    /\ out = [e \in Ends |-> <<>>] /\ wire = out /\ in = out
    /\ sent = [e \in Ends |-> <<>>] /\ got = sent
    /\ \E load \in Loads : calls = load.calls /\ pubs = load.pubs /\ time = load.time
    /\ due = 1                  \* the first tick of interval is immediate
    /\ idle = 0                 \* that of interval_at is not
    /\ stalled = FALSE
    /\ slow = 0

Open(e) == status[e] = "open"
Acts(e) == Open(e) /\ (e = "client" => ~stalled)
Sending(e) == out[e] # <<>>
Selects(e) == Acts(e) /\ ~Sending(e)

(* The loop of e returns.  Its socket is closed, with what was not read; what
   it has written, the peer may still read, or lose to a reset. *)
End(e, how) ==
    /\ status' = [status EXCEPT ![e] = how]
    /\ queue' = [queue EXCEPT ![e] = <<>>]
    /\ out' = [out EXCEPT ![e] = <<>>]
    /\ in' = [in EXCEPT ![e] = <<>>]
    /\ \E kept \in {<<>>, wire[e]} : wire' = [f \in Ends |-> IF f = e THEN kept ELSE <<>>]
    /\ UNCHANGED <<sent, got, calls, pubs, time, due, idle, stalled, slow>>

-----------------------------------------------------------------------------
(* What there is to send *)

Call ==
    /\ Open("client") /\ calls > 0                          \* bound
    /\ \E size \in Sizes : queue' = [queue EXCEPT !["client"] = Append(@, size)]
    /\ calls' = calls - 1
    /\ UNCHANGED <<status, buffers, sent, got, pubs, time, due, idle, stalled, slow>>

CorePublishes ==
    /\ Open("stub") /\ pubs > 0                             \* bound
    /\ \E size \in Sizes : queue' = [queue EXCEPT !["stub"] = Append(@, size)]
    /\ pubs' = pubs - 1
    /\ UNCHANGED <<status, buffers, sent, got, calls, time, due, idle, stalled, slow>>

(* encode: of any length that the header can hold *)
Encode(e, size) ==
    /\ sent' = [sent EXCEPT ![e] = Append(@, size)]
    /\ out' = [out EXCEPT ![e] = Frame(Len(sent[e]) + 1, size)]

(* slip: transport.next() starts with an empty buffer in each round *)
CancelRead(e) == in' = [in EXCEPT ![e] = <<>>]

(* transport.next() is dropped: what it has read stays in the transport *)
KeepRead(e) == UNCHANGED in

SendNext(e) ==
    /\ Selects(e) /\ queue[e] # <<>>
    /\ queue' = [queue EXCEPT ![e] = Tail(@)]
    /\ Encode(e, Head(queue[e]))
    /\ KeepRead(e)
    /\ UNCHANGED <<status, wire, got, calls, pubs, time, due, idle, stalled, slow>>

(* a tick; those that were missed come in a burst *)
KeepAlive ==
    /\ Selects("client") /\ due > 0
    /\ due' = due - 1
    /\ Encode("client", Short)
    /\ KeepRead("client")
    /\ UNCHANGED <<status, queue, wire, got, calls, pubs, time, idle, stalled, slow>>

(* slip: the frame goes out at once *)
WholeFrame(e) == Len(out[e])

(* slip: a frame goes out when there is room for all of it *)
AllOrNone(e) == IF Room - Len(wire[e]) < Len(out[e]) THEN 0 ELSE Len(out[e])

(* as much as the kernel has room for *)
Taken(e) ==
    LET free == Room - Len(wire[e]) IN IF free < Len(out[e]) THEN free ELSE Len(out[e])

(* flush *)
Write(e) ==
    /\ Acts(e) /\ Sending(e) /\ Open(Peer(e))
    /\ LET n == Taken(e)
       IN  /\ n > 0
           /\ wire' = [wire EXCEPT ![e] = @ \o SubSeq(out[e], 1, n)]
           /\ out' = [out EXCEPT ![e] = SubSeq(@, n + 1, Len(@))]
    /\ UNCHANGED <<status, queue, in, sent, got, calls, pubs, time, due, idle, stalled, slow>>

WriteFails(e) ==
    /\ Acts(e) /\ Sending(e) /\ ~Open(Peer(e))
    /\ End(e, "IOError")

-----------------------------------------------------------------------------
(* What is read: FramedRead decodes what it has before it reads more. *)

HasHeader(buf) == Len(buf) >= HeaderLen

TooLong(buf) == HasHeader(buf) /\ buf[1].size > MaxSize

Complete(buf) == HasHeader(buf) /\ Len(buf) >= HeaderLen + buf[1].size

Decodes(e) == ~TooLong(in[e]) /\ Complete(in[e])

Advance(buf) == SubSeq(buf, HeaderLen + buf[1].size + 1, Len(buf))

(* Of any length: the frame's own pieces make its payload, others make garbage. *)
Payload(buf) ==
    IF \E n \in 1..Len(sent["client"]) + Len(sent["stub"]) :
          SubSeq(buf, 1, HeaderLen + buf[1].size) = Frame(n, buf[1].size)
    THEN buf[1].size ELSE 0

(* slip: the stub's interval goes on *)
NeverReset(e) == UNCHANGED <<idle, slow>>

ResetInterval(e) ==
    IF e = "stub" THEN idle' = 0 /\ slow' = 0 ELSE UNCHANGED <<idle, slow>>

(* a message; the core has an ack for it before the stub reads on *)
Decode(e) ==
    /\ Selects(e) /\ Decodes(e)
    /\ got' = [got EXCEPT ![e] = Append(@, Payload(in[e]))]
    /\ in' = [in EXCEPT ![e] = Advance(@)]
    /\ queue' = IF e = "stub" THEN [queue EXCEPT ![e] = Append(@, Short)] ELSE queue
    /\ ResetInterval(e)
    /\ UNCHANGED <<status, out, wire, sent, calls, pubs, time, due, stalled>>

DecodeFails(e) == Selects(e) /\ TooLong(in[e]) /\ End(e, "IOError")

NeedsMore(e) == ~TooLong(in[e]) /\ ~Complete(in[e])

(* any part of what is there *)
Read(e) ==
    /\ Selects(e) /\ NeedsMore(e)
    /\ \E n \in 1..Len(wire[Peer(e)]) :
          /\ in' = [in EXCEPT ![e] = @ \o SubSeq(wire[Peer(e)], 1, n)]
          /\ wire' = [wire EXCEPT ![Peer(e)] = SubSeq(@, n + 1, Len(@))]
    /\ UNCHANGED <<status, queue, out, sent, got, calls, pubs, time, due, idle, stalled, slow>>

(* the end of the stream: in the middle of a frame it is an error *)
ReadEnd(e) ==
    /\ Selects(e) /\ NeedsMore(e)
    /\ ~Open(Peer(e)) /\ wire[Peer(e)] = <<>>
    /\ End(e, IF in[e] = <<>> THEN "ChannelClosed" ELSE "IOError")

-----------------------------------------------------------------------------
(* Time *)

(* slip: the loop goes on after the tick *)
TicksOnly ==
    /\ Selects("stub") /\ idle >= Timeout /\ idle' = 0 /\ slow' = 0
    /\ UNCHANGED <<status, queue, buffers, sent, got, calls, pubs, time, due, stalled>>

(* the stub's interval has ticked, and select! takes this branch, though there
   may be a message to read as well *)
TimesOut == Selects("stub") /\ idle >= Timeout /\ End("stub", "ClientTimeout")

(* history: what end e, or the network for it, can do now *)
HasWork(e) ==
    IF Sending(e) THEN Len(wire[e]) < Room \/ ~Open(Peer(e))
    ELSE \/ queue[e] # <<>> \/ ~NeedsMore(e) \/ wire[Peer(e)] # <<>> \/ ~Open(Peer(e))
         \/ e = "client" /\ due > 0

Busy == \E e \in Ends : Acts(e) /\ HasWork(e)

(* One KEEP_ALIVE_INTERVAL_S, whatever is being sent, read or waited for *)
Elapse ==
    /\ Open("stub")
    /\ stalled \/ time > 0                                  \* bound
    /\ idle' = IF idle < Timeout THEN idle + 1 ELSE idle
    /\ slow' = IF idle < Timeout /\ Busy THEN slow + 1 ELSE slow
    /\ time' = IF stalled THEN time ELSE time - 1
    /\ due' = IF stalled THEN due ELSE due + 1
    /\ UNCHANGED <<status, queue, buffers, sent, got, calls, pubs, stalled>>

Stall ==
    /\ ~stalled /\ Open("client")
    /\ stalled' = TRUE
    /\ UNCHANGED <<status, queue, buffers, sent, got, calls, pubs, time, due, idle, slow>>

(* the user stops the client, or the core of the bus is gone *)
Leave(e) == Selects(e) /\ End(e, "stopped")

EndStep(e) ==
    \/ SendNext(e) \/ Write(e) \/ WriteFails(e)
    \/ Decode(e) \/ DecodeFails(e) \/ Read(e) \/ ReadEnd(e)

Next ==
    \/ Call \/ CorePublishes
    \/ \E e \in Ends : EndStep(e) \/ Leave(e)
    \/ KeepAlive \/ TimesOut
    \/ Elapse \/ Stall

Spec == Init /\ [][Next]_vars

(* Either loop runs, and time passes; a client that has stalled does not act. *)
Fairness ==
    /\ WF_vars(EndStep("client") \/ KeepAlive)
    /\ WF_vars(EndStep("stub") \/ TimesOut)
    /\ WF_vars(Elapse)

FairSpec == Spec /\ Fairness
=============================================================================
