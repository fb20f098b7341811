----------------------------- MODULE RoutingSpec -----------------------------
(***************************************************************************)
(* The abstract specification of a Directory: the operations of module     *)
(* Routing as a state machine, with the value each call returns.           *)
(***************************************************************************)
EXTENDS Routing

CONSTANT Clients    \* the client ids, positive

VARIABLES
    subs,       \* the subscriptions, a set of <<client, topic>>
    owner,      \* the owner of each topic, or NoOwner
    ret         \* what the last call returned: an error, or a set of topics

vars == <<subs, owner, ret>>

Init ==
    /\ subs = {}
    /\ owner = [t \in Topics |-> NoOwner]
    /\ ret = [error |-> NoError, topics |-> {}]

Returns(error, topics) == ret' = [error |-> error, topics |-> topics]

DoSubscribe(c, t) ==
    /\ subs' = Subscribe(subs, c, t)
    /\ Returns(NoError, {})
    /\ UNCHANGED owner

DoUnsubscribe(c, t) ==
    /\ subs' = Unsubscribe(subs, c, t)
    /\ Returns(NoError, {})
    /\ UNCHANGED owner

DoClaim(c, t) ==
    /\ owner' = Claim(owner, c, t)
    /\ Returns(ClaimError(owner, c, t), {})
    /\ UNCHANGED subs

DoUnclaim(c, t) ==
    /\ owner' = Unclaim(owner, c, t)
    /\ \E e \in UnclaimErrors(t) : Returns(e, {})
    /\ UNCHANGED subs

DoDropClient(c) ==
    /\ subs' = DropSubs(subs, c)
    /\ owner' = DropOwner(owner, c)
    /\ Returns(NoError, Orphaned(subs, c))

Next ==
    \E c \in Clients :
        \/ DoDropClient(c)
        \/ \E t \in Topics :
              \/ DoSubscribe(c, t)
              \/ DoUnsubscribe(c, t)
              \/ DoClaim(c, t)
              \/ DoUnclaim(c, t)

Spec == Init /\ [][Next]_vars
=============================================================================
