--------------------------- MODULE LinkProperties ----------------------------
(* What makes the connection of module Link correct. *)
EXTENDS Link

(* The type invariant, of what the properties below read *)
TypeOK ==
    /\ \A e \in Ends :
          /\ status[e] \in {"open", "stopped", "IOError", "ChannelClosed", "ClientTimeout"}
          /\ queue[e] \in Seq(Sizes) /\ sent[e] \in Seq(Sizes)
          /\ Len(wire[e]) <= Room
    /\ idle \in 0..Timeout /\ slow \in 0..idle
    /\ stalled \in BOOLEAN

(* What an end decodes is what the other one has encoded, in that order and
   with nothing left out, however the frames are cut by reads and by rounds of
   select! that drop a read half-way (cbor_codec.rs:37-66). *)
DecodedAsEncoded ==
    \A e \in Ends :
        /\ Len(got[e]) <= Len(sent[Peer(e)])
        /\ got[e] = SubSeq(sent[Peer(e)], 1, Len(got[e]))

(* A connection fails, rather than ends, only for a payload that is too long,
   or because its other end closed first (cbor_codec.rs:46-48,
   client_stub.rs:58, 67).  And a client that has not stalled is taken for dead
   only on a slow connection: a message was being sent, read or processed at
   the end of all but one of the intervals since the last that the stub took
   (client_stub.rs:57, 73, client/core.rs:135).  A pause in the traffic, a burst
   of late ticks, or two ends that wait in send for each other do not do it. *)
FailsForAReason ==
    \A e \in Ends :
        /\ status[e] = "IOError" =>
              \/ ~Open(Peer(e))
              \/ \E i \in DOMAIN sent[Peer(e)] : sent[Peer(e)][i] > MaxSize
        /\ status[e] = "ClientTimeout" => stalled \/ slow + 1 >= Timeout

-----------------------------------------------------------------------------
(* Liveness, under FairSpec *)

Blocked(e) == Open(e) /\ Sending(e) /\ Len(wire[e]) = Room

(* A client that has stalled is dropped, unless the stub is in send to it: it
   then waits for ever, and looks at no timer (client_stub.rs:65-75). *)
SilentClientIsDropped == stalled ~> ~Open("stub") \/ Blocked("stub")

(* All that is encoded is decoded in the end while both ends are open, unless
   both wait in send for each other. *)
AllSentIsReceived ==
    \A e \in Ends :
        Len(got[Peer(e)]) < Len(sent[e]) ~>
            \/ Len(got[Peer(e)]) = Len(sent[e])
            \/ \E f \in Ends : ~Open(f)
            \/ stalled
            \/ Blocked("client") /\ Blocked("stub")
=============================================================================
