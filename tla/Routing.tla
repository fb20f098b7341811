------------------------------- MODULE Routing -------------------------------
(***************************************************************************)
(* What a Directory (src/src/directory.rs) promises the code that uses it: *)
(* a relation of subscriptions and an owner per topic.  The trie that the  *)
(* code keeps is module Directory; module RoutingSpec is the state machine *)
(* of these operations, and the trie is checked to implement it.           *)
(*                                                                         *)
(* Client ids are positive: the server hands out ids from 1                *)
(* (server/core.rs:38) and the client core uses its message ids, which     *)
(* start at 1 too (client/core.rs:154).  Id 0 is the bus itself, which     *)
(* subscribes and never claims, so 0 stands for "no owner".                *)
(***************************************************************************)
EXTENDS Integers, FiniteSets

CONSTANTS
    Topics,     \* the topics in use, wildcard patterns included
    Concrete,   \* those without a wildcard segment
    Match       \* the pairs <<subscribed, published>> that match

ASSUME RoutingAssumption ==
    /\ Concrete \subseteq Topics
    /\ Match \subseteq Topics \X Topics

NoOwner == 0
NoError == "none"

(* Directory::get_subscribers: the ids whose subscription matches t. *)
GetSubscribers(subs, t) ==
    {q[1] : q \in {p \in subs : <<p[2], t>> \in Match}}

Subscribe(subs, c, t) == subs \cup {<<c, t>>}

Unsubscribe(subs, c, t) == subs \ {<<c, t>>}

(* Directory::claim: the error returned, and the owners afterwards. *)
ClaimError(owner, c, t) ==
    IF t \notin Concrete THEN "ClaimWildcardNotSupported"
    ELSE IF owner[t] \notin {NoOwner, c} THEN "TopicAlreadyClaimed"
    ELSE NoError

Claim(owner, c, t) ==
    IF ClaimError(owner, c, t) = NoError THEN [owner EXCEPT ![t] = c] ELSE owner

(* Directory::unclaim.  For a wildcard topic the walk either meets the
   wildcard (an error) or leaves the trie before it does (Ok), which depends
   on the nodes that earlier operations left behind: both are allowed here. *)
UnclaimErrors(t) ==
    IF t \in Concrete THEN {NoError} ELSE {NoError, "ClaimWildcardNotSupported"}

(* a plausible slip: unclaim without comparing the owner *)
UnclaimAnyone(owner, c, t) ==
    IF t \in Concrete THEN [owner EXCEPT ![t] = NoOwner] ELSE owner

Unclaim(owner, c, t) ==
    IF t \in Concrete /\ owner[t] = c THEN [owner EXCEPT ![t] = NoOwner] ELSE owner

(* Directory::get_owner *)
GetOwner(owner, t) == IF t \in Concrete THEN owner[t] ELSE NoOwner

(* a plausible slip: drop_client clears the subscribers of c's topics *)
DropTopics(subs, c) == {p \in subs : <<c, p[2]>> \notin subs}

(* Directory::drop_client: what is left, and the topics that the call
   reports because c was their last subscriber. *)
DropSubs(subs, c) == {p \in subs : p[1] # c}

DropOwner(owner, c) == [t \in Topics |-> IF owner[t] = c THEN NoOwner ELSE owner[t]]

Orphaned(subs, c) ==
    {t \in Topics : <<c, t>> \in subs /\ \A p \in subs : p[2] = t => p[1] = c}
=============================================================================
