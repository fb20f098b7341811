------------------------------- MODULE MCLink --------------------------------
(* Payloads that fit a buffer, do not fit it, and are too long; traffic both
   ways, or one way over a longer time. *)
EXTENDS LinkProperties

MCSizes == {1, 4, 6}

Load(c, p, t) == [calls |-> c, pubs |-> p, time |-> t]

MCLoads == {Load(1, 1, 0), Load(1, 0, 2), Load(0, 1, 2)}
=============================================================================
