# A verification project for t2_bus

TLA+ models of the bus in `src/`, their model-checking runs for TLC, and theorems with
proofs for TLAPS. Paths are relative to the repository's `src/` directory.

## The system

A *bus* is one server task that routes messages between clients by topic: publications
to all subscribers, requests to the one client that serves the topic, responses back to
the requester. Everything is a tokio task, and tasks share nothing but channels.

| Component | State | Operations | Talks to |
|---|---|---|---|
| Topics and paths (`topic.rs`) | none | parse, print, segments; wildcards `*` (one segment) and `**` (any number) | directory |
| Directory (`directory.rs`) | a trie: per node an owner, subscribers, children | `claim`, `unclaim`, `get_owner`, `subscribe`, `unsubscribe`, `get_subscribers`, `drop_client` | called by both cores |
| Server core (`server/core.rs`) | senders to the stubs, directory, pending responses, id counters | one task at a time: `Register`, `Deregister`, `Message`, `RequestTimeout` | one unbounded queue in; one unbounded channel to each stub; a timer task per request |
| Client stub (`server/client_stub.rs`), one per connection | its channel from the core, its transport | `select!` of: message from the peer, message from the core, keep-alive timeout; at the end `Deregister` | core, transport |
| Listeners, builder, stoppers (`server/listen.rs`, `builder.rs`, `stopper.rs`) | a task and a stop channel for each listener and for the core | build; accept a connection and register it; stop, join, drop | core, transports |
| Client core (`client/core.rs`) | callbacks for acks, responses, publications and requests, by message id; a directory of local subscribers | `select!` of: message from the bus, task from a call or a dropped subscription, keep-alive | transport, calls |
| Client calls (`client/mod.rs`) | oneshot and unbounded channels per call; forwarder tasks | `publish`, `subscribe`, `serve`, `request`, `respond`, `stop`, `stop_bus`, variants on bytes | client core |
| Subscriptions (`client/subscription.rs`) | the user's end of the feed | receive; dropping sends `Unsub` or `Unsrv` | client core |
| Protocol (`protocol.rs`) | none | messages, payload compression | both sides |
| Transports, codec (`transport/`) | socket buffers | framed CBOR over unix, TCP or TLS sockets; in-process channels | stub, client core |
| Command line tool (`bin/t2.rs`) | a file of named bus addresses | one client per invocation | client |

What is hard here:

* the core cleans up a client while it handles another one's message, and messages of a
  client that has left are still in its queue;
* answer, repeated answer, timeout and departure of either party race for one pending
  response;
* a client can give up any call, and drop any subscription, at any time; the core finds
  out later, some callbacks having lost their receiver;
* the client's directory and the bus's record the same subscriptions at different times;
* published and subscribed patterns are matched against each other, wildcards on both
  sides;
* `?` and `unwrap` in the two main loops turn one unexpected message into the end of a
  whole client, or of the bus;
* listeners run before the core does and may outlive it; building, accepting and stopping
  fail half-way;
* either end of a socket stops reading while it writes, its buffers are bounded, and a
  frame arrives in pieces;
* invocations of the tool rewrite one file without a lock.

What makes each component correct: the directory answers exactly the matching
subscriptions and the one claim; the server forgets who has left and nobody else, answers
each request at most once, from its responder, after its ack, and in the end; a
publication is counted, ordered and complete; a client core never lacks a callback it
needs, gives up what was dropped and only that, and survives every legal sequence of
calls; a connection delivers all that is sent, in order, and nobody is taken for dead whose
messages get through; a server that is stopped ends as a whole and leaves no connection
unanswered; a registered name leads where it was registered to, until it is changed. The `hazards` of `PROJECT.json` list the places
where these are at risk.

## The modules

| Module | What it is |
|---|---|
| `Routing` | the directory as both cores use it: a relation of subscriptions, an owner per topic, as operators. `Topics`, `Concrete` and `Match` are its constants |
| `RoutingSpec` | the same as a state machine: the abstract specification of a directory |
| `TopicMatching` | what a topic means: the reference definition of matching |
| `TopicSyntax` | the text of topics: parsing, printing, the wire form, segments |
| `Directory` | the trie, call by call and segment by segment |
| `DirectoryProofs` | theorems about it: matching, and that it implements `RoutingSpec` |
| `ServerCore` | server core, stubs, accepted connections, request timers |
| `ServerProperties` | its properties |
| `ServerBus` | the server as one connection sees it: the refinement onto the bus of `ClientCore` |
| `ServerProofs` | theorems about it: types; tables and timers; publications and answers |
| `ServerBusProofs` | the proof that it implements the bus |
| `ClientCore` | client core, calls, subscriptions, forwarders, and the bus as one connection sees it |
| `ClientProperties` | its properties |
| `ClientProofs` | theorems about it |
| `Link` | one connection over a socket: both loops, the codec's frames, the kernel's buffers, the keep-alive |
| `LinkProperties` | its properties |
| `LinkProofs` | theorems about it |
| `Lifecycle` | servers being built, listening, accepting, stopped: builder, listeners, stoppers, transports |
| `LifecycleProperties` | its properties |
| `LifecycleProofs` | theorems about it |
| `CommandLine` | invocations of the `t2` tool and the registry they share |
| `CommandLineProperties` | its properties, and those of `TopicSyntax` |
| `CommandLineProofs` | theorems about it |
| `Induction` | induction and recursive definitions up to a number, for `DirectoryProofs` and `CommandLineProofs` |
| `MCDirectory`, `MCServer`, `MCClient`, `MCLink`, `MCLifecycle`, `MCCommandLine` | instances for TLC |

`Directory` refines `RoutingSpec`; `ServerCore` and `ClientCore` use `Routing`, so what
they assume of a directory is what the trie is proved to do. `ServerBus` maps `ServerCore`
onto the bus that `ClientCore` has, once for each connection. `ServerCore` and
`ClientCore` take a link that is reliable and ordered, and breaks at any time; `Link` shows
when the real one is, and which is the case that it leaves out: a link that blocks for ever.
`ServerCore` starts with a core that runs and connections that come; `Lifecycle` is what
is around it.

### Correspondence

*Directory.* The code nests one `Directory` in another; here a node is named by the
segments that lead to it from the root, and `dir` maps the nodes that exist to
`[owner, subscribers]`. The children of a node are those of one segment more. The functions of the
code that recurse down a topic say what they do at its end, and what becomes of the nodes
on the way: `Down(topic, n)` is the node after `n` segments, `Reaches` whether
`children.get` finds all nodes up to it, `BeforeWildcards` how far `claim_segments` gets
before it meets a wildcard, having made the nodes so far. Calls that return a `Result`
return `[dir, error]`. `_get_subscribers` branches, so it is a recursive function
(`GetSubscribersFrom`) of a node, the number of segments taken and `in_double_wildcard`;
its cases are one operator each, which gives the recursive calls that the case makes. A
topic is its sequence of segments with the protocol first, as `Topic::segments` yields it.

*ServerCore.* `core` has the fields of `Core`, with the channels to the stubs kept whole
(`chan[c]` is everything ever sent to stub `c`; `fwd[c]` counts what the stub took), so
that properties can speak of the order of deliveries. One action per task type and
outcome; each ends in the `Ack` that `process_msg` sends, whose own delivery may fail and
deregister the sender. `publish` is split by its outcome: all deliveries succeed
(`OnPub`), one fails after an arbitrary subset was served (`OnPubFails`: the order is that
of a hash set), the kill topic's subscriber is reached (`OnPubKill`). An error that leaves
`run` ends the core with status `failed`. A payload is named by the client and message
that brought it to the bus. A stub is `serving`, `closing` once it has sent `Deregister`,
and `closed` when it has dropped its receiver: in between, the core can still send to it,
and after that a delivery fails. A peer leaves at any time (`StubPeerGone` stands for a
closed or failed transport and for the keep-alive timeout).

*ClientCore.* `core` has the four callback maps as sets of ids, and the local directory.
Each call has an id, which stands for the id of its message: ids are used once and only
compared. A call records how far it is, its two oneshot channels, and for subscriptions
the channel from the core (`feed`, `open` while the receiver exists) and whether the
user's end is held. `serve` makes its `RequestSubscription` before it sends `Srv`, so a
call that fails or is given up drops it, and sends `Unsrv`; `subscribe` makes its
`SubscriptionInto` after the ack, so one that fails sends nothing. The bus (`bus`, `up`,
`down`) is the server core seen from one connection: its handlers for this client's
messages, and what other clients and timeouts do to the state this client can observe.
`status` tells how `main_loop` ended: stop, the bus gone, a claim rejected (`?` of
`claim`), a closed request callback (`?` of `send`), or a panic. The calls on bytes are the
others without the typed layer: `subscribe_bytes` has no forwarder, so its receiver closes
with the user's end (kind `SubBytes`); `request_bytes` returns whatever came (`Returned`).
A payload is what another client made of it: `ForwarderPanics` is the `unwrap` of its
decoding, which ends the forwarder's task and closes the callback, and `TakeRsp` may return
an error for it.

*ServerBus.* For connection `c`, `up` is what is queued of its messages (the last ones
that its stub has numbered, by number), `down` what its stub has not forwarded, `conn` is
open until the stub or the core ends, and `bus` is what the core's tables have of `c`,
with every other client as "others" and request ids replaced by their rank among those
that `c` can know. `UpOf`, `DownOf`, `ConnOf` and `BusOf` are the refinement mapping; a
step of the server must be, to each client at once, a message that it sends or takes
(`ClientSends`, `ClientTakes`), a step of the bus (`BusMoves`), or nothing. A step of the
server that cleans up after others while it serves one (any delivery may fail, that of an
ack too) is one step of the bus, hence `Leavings` in `ClientCore`. What is in the channel
when the core ends may still arrive (`ConnectionLost`, `BusStop`), or may not. Only a
publication that reaches `c` and then panics the core is two steps of the client's bus
(`LastPublication`).

*Link.* Each end has what waits to be sent (`queue`), what is left of the frame in
`transport.send` (`out`), what the kernel holds (`wire`) and the read buffer (`in`). A
frame is a sequence of pieces that know which message they are of, so that misplaced ones
are garbage. A loop that is sending does nothing else, as the code awaits `send` inside the
branch; a read that another branch of `select!` wins against leaves what was read in the
buffer (`KeepRead`). Time passes in units of `KEEP_ALIVE_INTERVAL_S`, at any moment: during a
send, between the parts of a frame, and while a message waits to be read. `due` are the
ticks that the client's interval has not delivered yet (tokio's default is to catch up in
a burst), `idle` the time since the stub's was reset, which only a whole message does.
When its interval is over, the stub may take that branch though a message waits
(`TimesOut`). A client that stalls does nothing any more, without closing its socket. An
end that closes loses what it has not read; what it has written may reach the peer or be
lost to a reset. `slow` is history, for `FailsForAReason`: of the units of `idle`, those at
whose end somebody still had something to do (`Busy`).

*Lifecycle.* A server has one part per listener and one for the core, each a task with a
stop channel. `build` starts the listeners in turn, all of them even after an error, and
then spawns the core (`Built`) or returns the error; `path` and `port` say who is bound to
the one address of each kind that exists, `claims` in which order listeners cleared the
path. A connection exists for its client as soon as the listener's backlog has it, and
becomes `queued` (a `Register` task), `registered` (a stub), `closed`; or `left`, when the
client goes first or is taken for dead. A stub that is `sending` is in `transport.send`,
and looks at nothing else until that returns, which may be never (`SendEnds` is not fair).
The core ends by its stopper, or by what `ServerCore` says (`CoreEnds`). `stop` sends to all parts, notes
those whose receiver is gone, and waits for all; `join` waits only. A server on TLS is
built by `listen_and_serve`, which is `build` with one listener.

*CommandLine.* The registry is text: a name's characters and then an address, as one
symbol, per line, so that a torn file reads as `BUS_ADDR_CONFIG_RGX` reads it. A
`std::fs::write` is two steps: the open, which truncates or fails (`TruncateFails`), and
the write, which may fail with any part of the text written (`WriteFails`). An invocation
is parsed, resolves each address in turn, reading the registry anew each time, and connects
or rewrites the registry; it may be killed before any step, a connect or build may fail,
and a registry that cannot be read panics the tool (`Unreadable`). `mixed`, `known`, `seen`
and `over` are history, for the properties only: whether two writers have been in the file
at once, what was to be registered, and which invocations had written when each writer read
the registry and when it opened it.

*TopicSyntax.* Text is a sequence of characters, of which there is one or two of each kind
that the regular expressions tell apart; these are automata.

## The runs

| Run | Asks | Instance |
|---|---|---|
| `directory` | do lookups and `drop_client` stay right over any sequence of calls, and does the trie implement `RoutingSpec`? Is every published pattern matched with every subscribed one as the reference says? | two clients, a topic, a longer one, and a pattern that shares their nodes: all reachable tries; and all pairs of the patterns of one protocol or `*`, two words and both wildcards, up to three path segments |
| `server_reqrsp` | are requests answered once, in order, by the right client, and is nothing left behind? | two clients, two messages each plus answers |
| `server_live` | is every accepted request answered, and every departed client forgotten? | two clients, with fairness |
| `server_bus` | is the server, to each of its clients, the bus that `ClientCore` assumes? Are publications counted and ordered, is the publisher told when they are not complete, and do departures cost nobody a route? | three clients: one that serves and answers or subscribes and publishes, one that asks or subscribes, one that publishes to `*:**` or stops the bus |
| `client_serve` | do contested, failed, abandoned and dropped services harm the core or later services? | three calls, own and others' requests |
| `client_sub` | do dropped subscriptions harm others, and are their topics given up? | two calls, with fairness |
| `link` | is what one end encodes what the other decodes; who can block whom, and whom does the keep-alive drop? | one long or short call and one publication beside acks and keep-alives, over buffers smaller than a long frame, and two units of time beside one of them |
| `lifecycle` | does a server that is stopped end as a whole, does one that is not go on listening, and is every connection served or closed? | a server that takes over another's path, servers on memory and tcp, on unix, on TLS; up to two connections |
| `command_line` | what can invocations that overlap, are killed or fail make of the registry; what is taken for a topic? | three invocations of seven commands with two names, one the end of the other; all texts of up to five characters |
| `stale_timer`, `responder_gone`, `stopped_serving` | does the code do what a doc comment or the README says? (no: see below) | the smallest instance that shows it |

*Bounds.* `MaxClients`, `MaxMsgs` and `MaxTasks` bound the connections, what each peer
sends, and the queue when a peer adds to it; tasks that the system itself adds
(deregistrations, timeouts) are not bounded by them. Two clients and two messages are
enough for each race listed above: both parties of a request leaving, answering twice, and
the timer firing in any order, and a client's messages still queued as it is deregistered.
Three clients are needed for a publication whose deliveries fail for some, and for others
that meet each other (`server_bus`). `ImplementsBus` speaks of the steps of `ClientCore`'s
bus, which have no bounds. In the client, `MaxCalls` bounds calls; what others do is
bounded where they are put together (`OthersStep`): `MaxRequests` bounds the requests of
others that the bus routes, `MaxQueue` what others add to a channel, and they serve only
what the client serves or asks. A keep-alive is sent only when nothing is on its way;
three calls let a failed service, a later one and a request overlap. In `Link`, `Room`
takes one short frame and no long one, so that frames fit, fill the kernel's buffer or are
cut by it, and both ends can fill both directions. `Loads` says what happens in one
behaviour: traffic both ways, for the buffers, or one way and as many units of time as the
timeout has; they are not counted once the client has stalled. `Scenarios` of `Lifecycle`
are the servers and connections that can meet: through one path, or at one server. Five characters are enough for each pair of neighbours in a path, with a protocol
before it. The words that `MatchRelation` is given are long enough to tell all topics of
the instance apart (see its comment).

*Deadlock* is not checked: a bus that is stopped, or whose peers have used up their bound,
has nothing left to do.

*Fairness.* `ServerCore`: the core task runs while it has tasks, since none of its
handlers awaits anything, and a sleeping timer wakes up. Nothing is assumed of stubs or
peers. `ClientCore`: `select!` picks a ready branch at random, so each branch that stays
ready is taken in the end; the bus takes what it is sent; a caller that waits takes its
answer. Nothing obliges a user to drop, to answer or to call, or another client to do
anything. `Link`: each loop runs while it can do something, and time passes; nothing is
assumed of a client that has stalled. `Lifecycle`: each task is scheduled, and a stop
signal is seen in the end, because there is not always one more connection; a build goes
on. A stub whose core is gone has finitely many messages left in its channel, so if it
comes back from `send` again and again it comes to see that the channel is closed: strong
fairness of `StubEnds`, which says nothing of a stub that stays in `send`. A peer need not
complete its handshake, or read, nobody need connect, and `join` need not return.

*Slips.* An operator marked "slip" is a plausible mistake in the definition it precedes
and is used for nothing else. With each one put in place of that definition, the property
named in `mutants` of `PROJECT.json` fails.

## What the runs show

The nine passing runs find no violation. The others show behaviour that the
documentation does not lead one to expect:

1. `stale_timer`: the timer of a request is never cancelled. When it fires after the
   answer, `respond` returns `InvalidRequestId`, and `process_task` passes it on with `?`:
   the bus stops 30 seconds after the first request that was answered
   (`server/core.rs:99-109`).
2. `responder_gone`: a responder that leaves takes the pending response with it, and the
   requester, its ack received, is never answered (`server/core.rs:141-147`). Its timeout
   comes 30 seconds after the request all the same, finds nothing pending, and ends the bus
   as in 1.
3. `stopped_serving`: two requests on their way when a `RequestSubscription` is dropped
   end the whole client (`client/core.rs:275-286`).

The properties of the passing runs are stated around other limits of the code, which a
reader of them should know:

* One subscriber that has just left makes `publish` skip connected ones
  (`server/core.rs:293-299`); `IncompleteIsReported` says that the publisher gets an error.
* Of two subscriptions of a client to one topic, dropping one unsubscribes both
  (`client/subscription.rs:56-66`), which `HeldUntilAnotherIsDropped` excepts.
* `request_bytes` returns a timeout as an empty payload (`client/mod.rs:169`).
* A payload that does not decode ends the forwarder of a subscription, which is held and
  silent from then on (`client/mod.rs:98, 223`).
* When both ends of a socket wait in `send`, nobody reads again, and the keep-alive
  timeout, which only the idle loop looks at, does not end it
  (`server/client_stub.rs:67`, `client/core.rs:149`): the exception of
  `SilentClientIsDropped` and `AllSentIsReceived`.
* A client that is well can be timed out on a slow connection: the stub's timer runs while a
  frame comes in parts, and is overdue after a long `send`, when `select!` picks at random
  between it and the keep-alive that waits (`server/client_stub.rs:57, 67, 73`).
  `FailsForAReason` allows it only there: when something was being sent, read or processed
  at the end of all but one of the intervals since the last message.
* A server that was stopped keeps the task and the connection of a stub that is in `send`
  for as long as the client does not read, and its stopper does not wait for stubs
  (`server/client_stub.rs:67`): the exception of `NothingKeepsRunning`.
* One failed accept, or one failed TLS handshake, ends a listener for good while the core
  serves on (`server/listen.rs:37`), and a handshake that is never completed keeps all
  other connections waiting (`transport/tls.rs:123`).
* `join` of a server whose core has ended by itself returns after the next connection
  only (`server/listen.rs:38`), so `NothingKeepsRunning` leaves it out.
* A unix listener that starts removes the socket file of a running one, also if it then
  fails to bind (`transport/unix.rs:42`).
* Invocations of the tool that overlap lose each other's registrations, and one that is
  killed in the write, or whose write fails (a full disk), loses all or part of the
  registry, as it is truncated first (`bin/t2.rs:259-274, 281-289`): what `EffectsLast`
  excepts. Two writers at once can leave a line that is the end of another, and so a name
  that nobody registered.
* `tcp:127.0.0.1`, the example of the tool's help, has no port, and neither `serve` nor the
  other commands take it (`bin/t2.rs:66, 193, 301`); `DEFAULT_BUS_PORT` is not used.

`AcceptedRequestIsAnswered` excepts a responder that leaves, and most safety invariants
of the server speak of a running core, for the sake of the first two runs.

## What is proved

Every safety invariant of the directory, the server, the client, the link, the servers'
lives and the registry that a run checks (except two, `EveryPatternMatches` and
`TopicIsItsText`: see below), the three action properties, and both refinements: the
trie implements the directory that the cores assume, and the server the bus that the
client assumes. They are theorems about `Spec` of the module: for every number of clients,
calls, messages, topics, servers, connections and invocations, every length of a payload,
a name or a registry, and every size of a buffer. The bounds on calls, messages and time
are constants of any value, so they bound nothing here.

A step's proof has one lemma per action or per handler, and the lemmas about the
operators on a record (the core, a queue, a stream) come before them. Each inductive
invariant was first checked by TLC, on the instances of the runs.

**Directory** (`DirectoryProofs`), from `DirInv`: the trie holds every node on the way to
each of its nodes, it has a greatest depth, only topics have subscribers and only concrete
ones an owner (so the root has neither).

* `DirectoryInvariant`: `DirInv`, by the lemmas `SubscribeIs`, `UnsubscribeIs`, `ClaimIs`,
  `UnclaimIs` and `DropIs`, which say what each call does to the stored subscriptions and
  owners. The topics that the calls are given are any set of patterns.
* `WalkFindsTheMatching`: `Common(s, i, t, j)` says that some wildcard-free word is
  accepted by what follows `i` segments of `s` and by what follows `j` segments of `t`.
  `CommonDouble`, `CommonWords` and `CommonSpan` say how this depends on the segments that
  come next, by adding a word's first segment or dropping it; this is where `**` against
  `**`, and `**` against the empty remainder, are settled. `HitsStep` then has one proof
  for each case of the code: the walk from here has a match when one of the calls that the
  case makes has. The walk ends because each call has less left (`CallsEnd`: segments of
  the topic and of the deepest node, and whether it is in a subscribed `**`), which also
  makes the recursive definition one (`FoundStep`). With this `GetSubscribersOfIs` says
  what the walk returns in any trie that satisfies `DirInv`.
* `OwnerFound`: the node of a topic is in the trie exactly when the way down to it is, and
  a topic that may have an owner is one that the lookup goes to the end of.
* `TrieIsADirectory`: `ImplementsRouting`. `EveryCall` puts the effect of each call beside
  the action of `RoutingSpec`, results included: `drop_client` reports the very topics
  that lose their last subscriber, and the nodes that failed claims leave behind are no
  part of what is stored.

**ServerCore** (`ServerProofs`).

* `TypeCorrect`: the type invariant. One lemma per operator on the core's
  record says that it keeps the type; one step per action.
* `TablesMentionNoLostClient`, `ConnectedClientsAreRegistered` and
  `ConnectedClientsKeepRoutes`, from one inductive invariant,
  `RouteInv`. That every client in the tables is connected or has its `Deregister` in the
  queue is not inductive: a queued message of a client that has gone puts it back into the
  tables when it is processed. Hence `DeregisterFollowsMessages`: each queued message is
  followed by its sender's `Deregister`, unless the sender is still connected. That
  connected clients stay registered needs `DeregisterWhenGone` (no `Deregister` of a
  connected client is queued) and `UnusedIds` (a new id has no stub yet); the deliveries
  that clean up only do so when the channel is closed, that is, the stub gone. The action
  property then follows: what a handler removes from the tables is the sender's own route,
  or all routes of a client that is gone.
* `PendingResponsesTimeOut`, from `PendingInv`: it needs
  `PendingIdsUnique`, because a timeout that is processed removes the pending response of
  its id, and only one may have it.
* `PublicationsInOrder`, `PublicationsCounted` and `IncompletePublicationsReported`, from
  `TurnInv`: what the core has said or keeps is about messages before those that are
  queued (`MessagesInOrder`, `NamesWereSent`). So each message, when its turn comes, is a
  new name to all channels: what is put into them now is later than what is there, and the
  ack of a publication counts what this very turn delivered.
* `AnsweredOnce`, `AcknowledgedFirst` and `AnsweredByTheResponder`,
  from `AnswerInv`: a pending response is pending once, is not answered yet, has its
  requester's ack in the channel if the requester is still registered, and its responder
  was sent the request. An answer or a timeout takes it out of the table with the response
  it sends, and a new one cannot have its name (`TurnInv`).

**ServerBus** (`ServerBusProofs`).

* `BusInvariant`: what the refinement rests on, `BusInv`. To `RouteInv` and `TurnInv` it
  adds that request ids are given out once and each pending response belongs to a request
  in its responder's channel (`Routed`), that a client's messages wait in the order of
  their numbers and no number is missing (`WaitInTurn`), that an answer which waits is to
  a request that its sender was given (`AnswersRouted`), and that nothing was sent to a
  client that is not registered (`NothingSentYet`).
* `ServerIsTheBus`: `ImplementsBus`. A lemma for each handler of the core says what it is
  to its sender (the `Own...` lemmas) and to everybody else (the `Others...` lemmas). To
  say this of a handler that fails half-way, it says what an operator on the core's record
  does to one client's view: a delivery puts one message into `down`; a clean-up of
  somebody else takes what others had there (`Leavings`); either may come between two
  others. That request ids are replaced by ranks needs `RanksKept`: a new request has the
  highest id, so that whoever can know an older one sees the number that it had.
  `EveryStep` puts the handlers, the stubs and the ends of connections together.

`ServerIsTheBus` and `BusInvariant` assume `NoGuesses`: a peer answers requests that it
was given, as the client's doc asks (`client/mod.rs:172-174`) and as `ClientCore` does. A
peer that answers an id before the core has given it out could have it answered by the
time the core takes the message, which is no step of a bus that numbers requests for each
client. `server_bus` has such peers; the properties of `server_reqrsp`, and the theorems
about them, also hold with peers that guess.

**ClientCore** (`ClientProofs`), all from `ClientInv`.

* `ClientTypes`, and `UnwrapsFind`: no `unwrap` panics. A call makes one message, which is
  in one place (`MessagesOnce`); the callback of a response is there until the response
  has come, and the bus makes one response (`ResponsesExpected`); what the local directory
  names has its callback (`CallbacksThere`). The hard one is the `unwrap` of
  `Unsrv`: the task does not say whose it is. `Paired` says that in the task queue each
  `Unsrv` of a topic comes after something that serves it (the local owner, or a `Srv`)
  with no other `Unsrv` between, unless an earlier `Srv` ends the core before
  (`Clash`).
* `ConflictsAreOfLiveServes`, the action property: what is served is held, or has its
  `Unsrv` in the queue (`ServesWanted`), and by `Paired` a `Srv` that clashes meets one of
  these.
* `HeldServesAreRouted`: a service that is held has a position in the queue behind every
  `Unsrv` of its topic (`HeldServe`), and the bus learns of `Srv` and `Unsrv` in the same
  order (`OwnerAtBus`).
* `HeldSubscriptionsAreKept`: the same for `Sub` and `Unsub`, at the core and at the bus,
  unless another subscription to the topic was dropped (`SubscriptionsKept`).

**Link** (`LinkProofs`), from `LinkInv`.

* `DecodedInOrder`: what is in the read buffer, the kernel and the rest of the frame that
  is being sent make up one stream, and this is the frames that are not decoded yet, one
  after the other (`Layout`): all of them as long as the sender is open, a first part of
  them once it has ended (`OnItsWay`). Writing and reading cut the stream elsewhere and
  change nothing of it, a send adds a frame at its end, and what is decoded is its first
  frame.
* `ConnectionsFailForAReason`: that a decoder fails only for a payload that is too long
  follows from the layout. That a client which is well is only timed out on a slow
  connection needs `KeepAlivesCome`: of the intervals that have passed since its last
  message, all but one ended with somebody busy (`slow`), and when one has not, a keep-alive
  is still to be sent, is on its way, or waits to be read; or both ends wait in `send`,
  where no timer is looked at. A second interval that ends with nobody busy would need that
  keep-alive to have been taken, and then `idle` starts anew. This holds for any timeout of more than one interval, which `LinkAssumption` demands
  (`protocol.rs:10-11` has three); with a timeout of one interval it would say nothing.
* `LinkTypes`.

**Lifecycle** (`LifecycleProofs`), from `LifecycleInv`.

* `HeldServersListen`: listeners start in turn and before the build returns
  (`StartedInOrder`), what is said of a held server holds of each listener from its start
  (`ListensOnceStarted`), nobody is told to stop before the build fails or the stopper is
  used or dropped (`ToldInTheEnd`), and the build holds its connector (`ConnectorIsHeld`).
* `ReturnedServersAreStopped`: `stop` and `join` answer for all parts (`AnswersForAll`),
  the port is bound by a listener that runs (`PortIsOfARunner`), and whoever waits to be
  accepted waits at one that runs, or at a core that takes it (`ConnectionsAreHeld`).
* `LatestClaimHasThePath`: inductive as it is, once only unix listeners clear the path.

**CommandLine** (`CommandLineProofs`), from `LineInv` and `Lasting`.

* `ParsesAsFormatted`: reading a registry undoes writing it. It is an induction over the
  entries, and for each over the characters of its name. The installed provers cannot
  instantiate the library's induction theorems; `Upward` of module `Induction` is
  induction in terms of a set instead of a predicate, from the library's theorem that `<`
  is well-founded, and `FoldExists` says that what a recursive function in a `LET`
  describes exists. `WithoutIs` and `ChangeIs` are inductions of the same kind: a register
  or an unregister changes its own name and no other.
* `LineTypeCorrect`: whatever two writers leave in the file, it parses to entries.
* `LeadsToWhatWasRegistered`: unless two writers have been in the file at once, it holds
  what one has written, or nothing, and what is about to be written was asked for
  (`InTheFile`).
* `WhatIsDoneLasts`: `EffectsLast`, from `Lasting`. As long as what a writer has done is not
  undone for good (`Gone`), the file holds it (`InForce`), and so does what any other writer
  is about to put there in its place (`InHand`), since that one read the registry when it
  was whole and changes another name (`ChangeIs`). `CutFormat` says what a failed write
  leaves: a first part of the entries, so nothing that was not to be registered.

*Assumptions.* The proofs use the constants' assumptions (`DirectoryAssumption`,
`RoutingAssumption`, `ServerAssumption`, `ClientAssumption`, `LinkAssumption`,
`LifecycleAssumption`, `CommandLineAssumption`: the last says among others what clap has
checked of the arguments, and that earlier registries name nothing twice), `NoGuesses` for
the two theorems that name it, `MatchIsMeant` for `WalkFindsTheMatching`, and nothing
else; TLC evaluates the constants' assumptions in every run of their modules.
`MatchIsMeant` is the definition of the constant `Match` for topics of any length: two
patterns match when some word is accepted by both. The words are infinitely many, so TLC
is given `MatchRelation` instead, which looks at words that are long enough for the
instance.

*What the proofs found.* `IncompleteIsReported` did not hold as it was first stated, with
`DeliveryFailed` as the only error. A client whose channel has just been closed can
subscribe again after the failed delivery cleaned it up, as its `Sub` was queued; a
publication that reaches it then fails with `UnknownClient` (`server/core.rs:319-331`).
The proof of the step failed there, and a larger instance shows it. The property names
both errors now.

*Only model-checked, and why.* The liveness properties (`AcceptedRequestIsAnswered`,
`DepartedIsForgotten`, `SilentClientIsDropped`, `AllSentIsReceived`,
`NothingKeepsRunning`, `ConnectionsAreServedOrClosed`, `DroppedTopicsAreGivenUp`):
fairness is beyond the prover. `EveryPatternMatches`: it is about an instance, the tries
of one subscription to each pattern of it; `GetSubscribersOfIs` is its general form. `TopicIsItsText`: it speaks
of the fold of the library, which takes an operator as a parameter.

## Not modelled

* The encoding of values (CBOR), payload compression, certificates and name lookup: these
  are libraries' conversions, without state of this code. Errors and debug output.
* 32-bit ids that wrap around: the models count in the natural numbers. For the same
  reason a frame's header holds any length; the code's would hold a payload of 4 GiB and
  more modulo 2^32 (`transport/cbor_codec.rs:76`), which the receiver would not take for
  that payload.
* The two halves of a split subscription being dropped one after the other
  (`client/mod.rs:203-285`): `DropSubscription` drops both at once. The subscription to
  `bus:kill` that the core makes for client 0 (`server/core.rs:45`) is in `ServerCore`, and
  is left out of the instance of `Directory`, where it would be one more client.
* The tool's loops that print what `sub` and `ls` receive, which end at the first payload
  that does not decode.
* The trie's growth: nodes are never removed, which costs memory and changes no answer.

## Plan

1. Clients that meet at the bus: the requester's view of a service that stops. `ServerBus`
   makes it possible to compose two `ClientCore`s over one `ServerCore`.
2. That two `ClientCore`s compose in this way for any number of clients: `ServerIsTheBus`
   gives the server's half, the client's theorems about any bus the other.
