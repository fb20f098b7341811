-------------------------- MODULE ClientProperties ---------------------------
(* What makes the client of module ClientCore correct. *)
EXTENDS ClientCore

-----------------------------------------------------------------------------
(* Invariants *)

Stages == {"none", "acking", "awaiting", "Ok", "RequestFailed", "RequestFailedTimeout",
           "RequestFailedChannelClosed", "InternalError", "IOError"}

(* The type invariant, of what the properties below read *)
TypeOK ==
    /\ core.ack \cup core.rsp \cup core.pub \cup core.req \subseteq Calls
    /\ core.subs \subseteq Calls \X Topics
    /\ core.owner \in [Topics -> Calls \cup {NoOwner}]
    /\ status \in {"running", "stopped", "ChannelClosed", "CallbackClosed", "ClaimRejected",
                   "panicked"}
    /\ \A c \in Calls : calls[c].stage \in Stages
    /\ bus.subs \subseteq {Me} \X Topics
    /\ bus.owner \in [Topics -> {NoOwner, Me, Others}]

(* None of the unwraps of the client core panics (client/core.rs:195, 241,
   250, 279): the callback that a message from the bus, or a dropped
   subscription, asks for is there, whatever is dropped, given up or answered
   meanwhile. *)
NeverPanics == status # "panicked"

(* While a RequestSubscription that serve returned is held, the bus routes the
   requests of its topic to this client: no late Unsrv of an earlier attempt,
   failed or given up, takes the topic away (client/mod.rs:69-110,
   subscription.rs:108-117). *)
ServingMeansOwner ==
    Running /\ Open => \A c \in Calls :
        calls[c].kind = "Srv" /\ calls[c].stage = "Ok" /\ calls[c].held =>
            bus.owner[calls[c].topic] = Me

(* While a Subscription that subscribe or subscribe_bytes returned is held,
   and its forwarder is alive, the bus has its topic, unless another
   Subscription to the topic was dropped meanwhile: the Unsubs that the core
   sends for subscriptions it finds dead never hit a live one
   (client/core.rs:253-271). *)
HeldUntilAnotherIsDropped ==
    Running /\ Open => \A c \in Calls :
        calls[c].kind \in Subscribing /\ calls[c].stage = "Ok" /\ calls[c].held
              /\ calls[c].open =>
            \/ <<Me, calls[c].topic>> \in bus.subs
            \/ \E d \in Calls \ calls[c].before :
                  Dropped(d) /\ calls[d].topic = calls[c].topic

(* A second claim of a topic, which ends the core, only meets one that is
   still wanted: an attempt to serve that failed or was given up, or a
   RequestSubscription that was dropped, is out of the way of every later one
   (client/mod.rs:69-110, client/core.rs:193-207). *)
OnlyLiveServesConflict ==
    [][status' = "ClaimRejected" /\ Running /\ Task.topic \in Concrete =>
          \E c, d \in Calls :
              /\ c # d
              /\ calls[c].topic = Task.topic /\ calls[d].topic = Task.topic
              /\ calls[c].kind = "Srv" /\ calls[d].kind = "Srv"
              /\ d = Task.id
              /\ \/ calls[c].held
                 \/ \E i \in DOMAIN tasks :
                       tasks[i].type = "Unsrv" /\ tasks[i].topic = Task.topic]_vars

-----------------------------------------------------------------------------
(* Liveness, under FairSpec *)

(* A topic whose subscriptions are all dropped is given up at the bus, unless
   the client ends (subscription.rs:56-66, 108-117): a topic that is not wanted
   any more is not kept for ever. *)
Wanted(type, t) ==
    \E c \in Calls : /\ TaskType(calls[c].kind) = type /\ calls[c].topic = t
                     /\ \/ calls[c].held
                        \/ type = "Sub" /\ calls[c].stage = "RequestFailedTimeout"

DroppedTopicsAreGivenUp ==
    \A t \in Topics :
        /\ []<>(~Running \/ Wanted("Sub", t) \/ <<Me, t>> \notin bus.subs)
        /\ []<>(~Running \/ Wanted("Srv", t) \/ bus.owner[t] # Me)

-----------------------------------------------------------------------------
(* What the documentation says and the code does not do *)

(* subscription.rs:71 "Drop the `RequestSubscription` object to stop serving",
   and nothing else.  The drop is noticed when the first request fails to be
   forwarded, and a second one that is already on its way then ends the whole
   client (client/core.rs:280), though no call to serve ever failed. *)
DroppingOnlyStopsServing ==
    status = "CallbackClosed" =>
        \E c \in Calls : calls[c].kind = "Srv" /\ (calls[c].stage # "Ok" \/ calls[c].held)
=============================================================================
