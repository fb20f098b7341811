------------------------------ MODULE Directory ------------------------------
(***************************************************************************)
(* src/src/directory.rs: the trie that stores, under the segments of each  *)
(* topic, the clients subscribed to it and the client serving it.          *)
(*                                                                         *)
(* A node is named by the segments that lead to it from the root: a trie   *)
(* maps the nodes that exist to [owner, subscribers], and the children of  *)
(* a node are those of one segment more.  Calls that return a Result are   *)
(* operators returning [dir, error]: an error can leave new nodes behind.  *)
(***************************************************************************)
EXTENDS TopicMatching, Routing

CONSTANTS
    Clients,
    Words       \* the segments that are no wildcard

Segments == Words \cup {WILDCARD, DOUBLE_WILDCARD}

(* A topic has at least the segment of its protocol. *)
ASSUME DirectoryAssumption ==
    /\ Clients \subseteq Nat \ {NoOwner}
    /\ Words # {} /\ \A word \in Words : ~IsWildcard(word)
    /\ Topics \subseteq Seq(Segments) \ {<<>>}
    /\ Concrete = {t \in Topics : IsConcrete(t)}

VARIABLES
    dir,        \* the trie
    ret         \* what the last call returned: an error, or a set of topics

vars == <<dir, ret>>

EmptyNode == [owner |-> NoOwner, subscribers |-> {}]
EmptyTrie == [node \in {<<>>} |-> EmptyNode]

(* ensure_child, of one node after the other *)
EnsureChildren(trie, nodes) ==
    [node \in DOMAIN trie \cup nodes |-> IF node \in DOMAIN trie THEN trie[node] ELSE EmptyNode]

(* the node n segments down the topic, and how far down no wildcard is met *)
Down(topic, n) == SubSeq(topic, 1, n)
BeforeWildcards(topic) == {n \in 0..Len(topic) : \A i \in 1..n : ~IsWildcard(topic[i])}

(* children.get finds each of the nodes that lead n segments down the topic. *)
Reaches(trie, topic, n) == \A m \in 0..n : Down(topic, m) \in DOMAIN trie

-----------------------------------------------------------------------------
(* Slips: plausible mistakes, used for nothing but to break a property. *)

(* unclaim without the owner test *)
ReleaseAnyone(node, client) == [node EXCEPT !.owner = NoOwner]

(* get_owner that answers for the nearest ancestor *)
OwnerOrAncestor(trie, topic) ==
    LET depths == {n \in 0..Len(topic) : Down(topic, n) \in DOMAIN trie}
    IN  trie[Down(topic, CHOOSE n \in depths : \A m \in depths : m <= n)].owner

-----------------------------------------------------------------------------
(* claim_segments: at the end of the topic an owner other than the caller is
   an error; a wildcard anywhere is, after the nodes before it were made. *)
TakeOwner(trie, client, topic) ==
    IF trie[topic].owner = NoOwner
    THEN [dir |-> [trie EXCEPT ![topic].owner = client], error |-> NoError]
    ELSE [dir |-> trie,
          error |-> IF trie[topic].owner = client THEN NoError ELSE "TopicAlreadyClaimed"]

ClaimSegments(trie, client, topic) ==
    LET made == EnsureChildren(trie, {Down(topic, n) : n \in BeforeWildcards(topic)})
    IN  IF IsConcrete(topic) THEN TakeOwner(made, client, topic)
        ELSE [dir |-> made, error |-> "ClaimWildcardNotSupported"]

ReleaseOwner(node, client) ==
    IF node.owner = client THEN [node EXCEPT !.owner = NoOwner] ELSE node

(* unclaim_segments: whether it meets a wildcard before it leaves the trie *)
MeetsWildcard(trie, topic) ==
    \E n \in BeforeWildcards(topic) :
        Reaches(trie, topic, n) /\ n < Len(topic) /\ IsWildcard(topic[n + 1])

UnclaimSegments(trie, client, topic) ==
    [dir |-> IF IsConcrete(topic) /\ Reaches(trie, topic, Len(topic))
             THEN [trie EXCEPT ![topic] = ReleaseOwner(@, client)] ELSE trie,
     error |-> IF MeetsWildcard(trie, topic) THEN "ClaimWildcardNotSupported" ELSE NoError]

(* the answer of get_owner_segments when a wildcard or no child comes next *)
OwnerOffTrie(trie, topic) == NoOwner

GetOwnerSegments(trie, topic) ==
    IF IsConcrete(topic) /\ Reaches(trie, topic, Len(topic)) THEN trie[topic].owner
    ELSE OwnerOffTrie(trie, topic)

-----------------------------------------------------------------------------
SubscribeSegments(trie, client, topic) ==
    LET made == EnsureChildren(trie, {Down(topic, n) : n \in 0..Len(topic)})
    IN  [made EXCEPT ![topic].subscribers = @ \cup {client}]

UnsubscribeSegments(trie, client, topic) ==
    IF Reaches(trie, topic, Len(topic))
    THEN [trie EXCEPT ![topic].subscribers = @ \ {client}] ELSE trie

(* _drop_client: the topics reported are those whose last subscriber left;
   the root is none *)
NewlyEmpty(node, client) == node.subscribers = {client}

DropClient(trie, client) ==
    [dir |-> [node \in DOMAIN trie |->
                [owner |-> ReleaseOwner(trie[node], client).owner,
                 subscribers |-> trie[node].subscribers \ {client}]],
     topics |-> {node \in DOMAIN trie \ {<<>>} : NewlyEmpty(trie[node], client)}]

-----------------------------------------------------------------------------
(* _get_subscribers.  A call is for a node and for what follows the segments
   of the topic that are taken.  Each case gives the recursive calls it makes. *)

Walk(node, taken, in_double_wildcard) ==
    [node |-> node, taken |-> taken, in_double_wildcard |-> in_double_wildcard]

Child(node, segment) == Append(node, segment)
ChildSegments(trie, node) == {s \in Segments : Child(node, s) \in DOMAIN trie}

(* this node is a subscribed "**" that may stop here or consume a segment *)
InDoubleWildcard(topic, node, taken) ==
    {Walk(node, taken, FALSE)}
      \cup (IF taken = Len(topic) THEN {} ELSE {Walk(node, taken + 1, TRUE)})

Through(trie, node, segment, taken, in_double_wildcard) ==
    {Walk(Child(node, s), taken, in_double_wildcard) :
        s \in {segment} \cap ChildSegments(trie, node)}

(* slip: a subscribed "**" cannot match the empty remainder *)
AtEndWithoutDouble(trie, node, taken) == {}

AtEnd(trie, node, taken) == Through(trie, node, DOUBLE_WILDCARD, taken, TRUE)

(* slip: a published "**" must consume a segment *)
PublishedDoubleStrict(trie, node, taken) ==
    {Walk(Child(node, s), taken, FALSE) : s \in ChildSegments(trie, node)}

PublishedDouble(trie, node, taken) ==
    {Walk(node, taken + 1, FALSE)}
      \cup {Walk(Child(node, s), taken, FALSE) : s \in ChildSegments(trie, node)}

PublishedSingle(trie, node, taken) ==
    {IF s = DOUBLE_WILDCARD THEN Walk(Child(node, s), taken, TRUE)
     ELSE Walk(Child(node, s), taken + 1, FALSE) : s \in ChildSegments(trie, node)}

PublishedWord(trie, node, word, taken) ==
    Through(trie, node, word, taken + 1, FALSE)
      \cup Through(trie, node, WILDCARD, taken + 1, FALSE)
      \cup Through(trie, node, DOUBLE_WILDCARD, taken, TRUE)

Calls(trie, topic, walk) ==
    LET node == walk.node
        taken == walk.taken
    IN  IF walk.in_double_wildcard THEN InDoubleWildcard(topic, node, taken)
        ELSE IF taken = Len(topic) THEN AtEnd(trie, node, taken)
        ELSE IF topic[taken + 1] = DOUBLE_WILDCARD THEN PublishedDouble(trie, node, taken)
        ELSE IF topic[taken + 1] = WILDCARD THEN PublishedSingle(trie, node, taken)
        ELSE PublishedWord(trie, node, topic[taken + 1], taken)

Here(trie, topic, walk) ==
    IF walk.taken = Len(topic) /\ ~walk.in_double_wildcard
    THEN trie[walk.node].subscribers ELSE {}

Walks(trie, topic) ==
    [node : DOMAIN trie, taken : 0..Len(topic), in_double_wildcard : BOOLEAN]

GetSubscribersFrom(trie, topic) ==
    LET get[walk \in Walks(trie, topic)] ==
            Here(trie, topic, walk) \cup UNION {get[w] : w \in Calls(trie, topic, walk)}
    IN  get

GetSubscribersOf(trie, topic) == GetSubscribersFrom(trie, topic)[Walk(<<>>, 0, FALSE)]

-----------------------------------------------------------------------------
(* The calls *)

Init == dir = EmptyTrie /\ ret = [error |-> NoError, topics |-> {}]

DoSubscribe(c, t) ==
    /\ dir' = SubscribeSegments(dir, c, t)
    /\ ret' = [error |-> NoError, topics |-> {}]

DoUnsubscribe(c, t) ==
    /\ dir' = UnsubscribeSegments(dir, c, t)
    /\ ret' = [error |-> NoError, topics |-> {}]

DoClaim(c, t) ==
    LET result == ClaimSegments(dir, c, t)
    IN  dir' = result.dir /\ ret' = [error |-> result.error, topics |-> {}]

DoUnclaim(c, t) ==
    LET result == UnclaimSegments(dir, c, t)
    IN  dir' = result.dir /\ ret' = [error |-> result.error, topics |-> {}]

DoDropClient(c) ==
    LET result == DropClient(dir, c)
    IN  dir' = result.dir /\ ret' = [error |-> NoError, topics |-> result.topics]

Next ==
    \E c \in Clients :
        \/ DoDropClient(c)
        \/ \E t \in Topics :
              \/ DoSubscribe(c, t)
              \/ DoUnsubscribe(c, t)
              \/ DoClaim(c, t)
              \/ DoUnclaim(c, t)

Spec == Init /\ [][Next]_vars

-----------------------------------------------------------------------------
(* What is stored, read off every node of the trie *)
Subscriptions == UNION {dir[node].subscribers \X {node} : node \in DOMAIN dir}

OwnerOf == [t \in Topics |-> IF t \in DOMAIN dir THEN dir[t].owner ELSE NoOwner]

(* get_subscribers (directory.rs:151) returns exactly the clients with a
   subscription that some wildcard-free topic has in common with the
   published one, whatever other subscriptions share the nodes of the trie
   and whatever empty nodes earlier calls left in it. *)
SubscribersAreTheMatching ==
    \A t \in Topics : GetSubscribersOf(dir, t) = GetSubscribers(Subscriptions, t)

(* get_owner (directory.rs:103) finds the claim that is stored, and only for
   the very topic that was claimed. *)
OwnerIsTheClaimant ==
    \A t \in Topics : GetOwnerSegments(dir, t) = GetOwner(OwnerOf, t)

(* The trie implements the relation of subscriptions and the owner per topic
   of RoutingSpec, with the same results: a claim never displaces an owner,
   unclaim releases only the caller's claim, drop_client forgets one client
   and no other, and reports exactly the topics it leaves without a
   subscriber (directory.rs:52-190). *)
Abstract == INSTANCE RoutingSpec WITH subs <- Subscriptions, owner <- OwnerOf

ImplementsRouting == Abstract!Spec
=============================================================================
