# Verification of p2p-pubsub

TLA+ models of the dTelecom p2p-pubsub library (Go, libp2p), the TLC
configurations that check them on small instances, and TLAPS proofs of what
holds for every instance. Line numbers refer to the sources in `src/`.

    tlc -config ReadinessHistory.cfg MCReadinessHistory      # model-check
    tlapm BootstrapRetryProofs.tla                            # check the proofs

Contents: [the system](#1-the-system), [the modules](#2-the-modules),
[the runs](#3-the-runs), [what the runs do not promise](#4-where-the-code-departs-from-what-is-said-of-it),
[fairness](#5-fairness), [proofs](#6-proofs),
[abstractions and what is left out](#7-abstractions-and-what-is-left-out),
[what could follow](#8-what-could-follow).

## 1. The system

A node is a `DB`: a libp2p host with a DHT and gossipsub, gated by a registry
of authorised Solana wallets that the application supplies as callbacks.

| component | state | operations | goroutines |
|---|---|---|---|
| Readiness and bootstrap retry (`pubsub/infrastructure.go`) | `isReady` under `readinessMutex`; `retryCancel` under `retryMutex`; `shutdownCtx` | `updateReadiness`, `startBootstrapRetryAfterDelay`, `startBootstrapRetry` and its loop, `stopBootstrapRetry`, `bootstrapNetworkWithRetry`, `bootstrapNetwork` | the swarm's callbacks (one goroutine per connection event), delayed starters, the retry goroutine |
| Topics and subscriptions (`pubsub/pubsub_operations.go`) | `topics`, `subscriptions` under `db.instance.mutex`; per subscription its context and channel | `Subscribe`, `Publish`, `Unsubscribe`, `messageListener` | callers, one listener per subscription |
| Registry gater (`common/gater.go`) | the `sync.Map` of authorised wallets, `cache.mutex`, `ctx` | `refreshCache`, `ClearCache`, `Stop`, the `Intercept…` checks with `checkWalletInCache` | the refresh goroutine, the swarm's dial and upgrade goroutines |
| Discovery (`pubsub/discovery.go`) | per round its list and `connectedCount`, else the swarm's | `advertiseLoop`, `findPeersLoop`, `processPeers` | two loops, one goroutine per round, one per call of `util.Advertise` |
| Connect / Disconnect (`pubsub/infrastructure.go`, `pubsub_operations.go`) | the whole `DB` | create the gater, host, DHT, gossipsub, callbacks, bootstrap, discovery; tear down, also half way | the application |
| Identity (`common/identity.go`) | none | conversions between wallets, Solana keys, libp2p keys and peer IDs | whoever needs them |
| Example (`examples/simple-node`) | `node.subscriptions` | the prompt's commands, the deferred `Disconnect` | `main`, a signal handler |
| Types, logger, accessors, `keygen` | none | reads and output | none |

How they interact:

- *Callbacks.* The swarm calls `Connected`/`Disconnected`, which run
  `updateReadiness`; the transition from ready to not ready spawns a delayed
  starter, which may spawn the retry goroutine. `Connect` starts the same
  retry when its first bootstrap finds no node.
- *Connections.* The retry and the discovery dial through the swarm, which asks
  the gater up to three times for an outbound and once for an inbound
  connection. A dial returns only after the `Connected` callbacks.
- *Shared tables.* `Subscribe`, `Publish`, `Unsubscribe` and `Disconnect` share
  two maps with each other, and through them gossipsub's joined topics and the
  listeners.
- *Shutdown.* `Disconnect` cancels `shutdownCtx`, stops the retry, ends
  subscriptions, closes topics, closes the DHT and the host, in this order and
  all but the first two under the write lock.

What is hard here: callbacks of different connections overlap; the retry is
started from three places and ended from three; `Publish` swaps its read lock
for a write lock half way; a listener has two contexts to watch; the gater
overwrites a `sync.Map` that others use without the mutex and stores registry
answers of unknown age.

What makes each component correct:

- *Readiness and retry*: `isReady` says whether there are peers, unless counts were
  stored out of order; at most one
  retry goroutine, and the stored cancel function is its own; a node without
  peers is looking for some; everything ends after `Disconnect`.
- *Topics*: the tables agree with gossipsub; a recorded subscription listens and
  an unrecorded one ends; calls return.
- *Gater*: nothing is admitted on an error or long after a revocation; a failing
  registry does not shut authorised nodes out; `Stop` returns.
- *Identity*: a peer ID stands for at most one wallet, and only the wallet's owner
  has it.
- *Discovery*: rounds end; who stays advertised and authorised gets connected
  although a round makes only five connections.
- *Connect and Disconnect*: they return, and leave nobody connected after a failure
  or a disconnect.
- *Example*: what its map says is what the `DB` does.

## 2. The modules

| module | what it is |
|---|---|
| `BootstrapRetry` | readiness flag, callbacks, delayed starters, retry goroutine, `bootstrapNetwork`, and `Disconnect` as far as it stops them |
| `RetryService` | abstract: what the retry promises; `BootstrapRetry` implements it |
| `ReadinessHistory` | `BootstrapRetry` with history variables: how far `isReady` may be trusted |
| `TopicManager` | topics, subscriptions, listeners, `Publish`, and `Disconnect` as far as it ends them, over gossipsub's promises |
| `SubscriptionService` | abstract: what a subscriber may rely on; `TopicManager` implements it |
| `SimpleNode` | the example, over `TopicManager` |
| `Identity` | wallets, keys and peer IDs |
| `RegistryGater` | cache, refresh goroutine, checks, and the data race between them, over `Identity` |
| `Admission` | abstract: what the gater promises the swarm; `RegistryGater` implements it, `Node` uses it |
| `Discovery` | the loops and the rounds, over a swarm |
| `Node` | `Connect`, `Disconnect` and what they start, over `Discovery` and `Admission` |
| `BootstrapRetryProofs`, `ReadinessProofs`, `TopicManagerProofs`, `SubscriptionProofs`, `SimpleNodeProofs`, `IdentityProofs`, `RegistryGaterProofs`, `NodeProofs` | the theorems |
| `MC…` | instances for TLC: small sets, environments, symmetry |

A definition whose comment starts with *Mutant:* is not part of a model. It is
a variation of the definition that follows it, as a plausible bug would make it;
each property is broken by one of them.

### BootstrapRetry

`Conns` are the connections, each with its `RemotePeer`; a peer may have several at a
time. `cb[c]` follows the notification goroutine of a connection: `Connected` reads
the peer count (`connectedRead`), then stores it under the mutex (`connectedWrite`);
the swarm then regards the connection as `open`, and `Disconnected` does the same when
it has closed. The swarm serialises the two callbacks of one connection and nothing
else: a peer may be connected anew while the `Disconnected` of its old connection is on
its way, or the `Connected`. `host.Connect` waits for the callbacks of the connection it
opened (`dialled`). The connections of `EarlyConns` may be there before `Notify`.
`pc` follows the application
(`first` … `connected` … `done`), the delayed starters and the retry
goroutines; `App` and the retriers share the actions of `bootstrapNetwork`
(`Boot`, `DialOpens`, `ConnectOk`, `ConnectFails`, `DialsDone`), as they share
its code. `retryCancel` holds *which* goroutine's cancel function is stored, so
the deferred clear, which sets it to nil whoever stored it, is visible as such.
The interleaving points are those the mutexes leave: between the count and the
mutex, between the shutdown check and the mutex, between the loop's decision to
end and the deferred clear.

`ReadinessHistory` adds which callback read the count last (`lastRead`) and whether the
flag holds an older count than that one's (`outdated`). No action of the code reads them.

`RetryService` sees of all this only `running` (the retriers not idle), `permitted`
(the starters past their shutdown check) and `over`. It says that launches before
the shutdown are one at a time, that those after it were permitted before, and that
all of them end. The mapping is the `INSTANCE` at the end of `BootstrapRetry`.

### TopicManager

`topics` and `subs` are the tables, `joined` is gossipsub's own view (which
handle of a topic is open), `sub[s]` a `TopicSubscription` with its context and
whether gossipsub still delivers to it, `inbox[s]` its channel. `Subscribe` is
one action: all of it runs under the write lock and no step of it can be told
apart from outside. `Unsubscribe` and `Disconnect` cancel the context and the
subscription in two steps, because a listener, which takes no lock, sees the
difference. `Publish` has a step per lock operation. Handles and subscriptions
are taken afresh from small pools and go back when nothing refers to them, which
is what lets the model run for ever in a finite state space. `ReadSection` and
`WriteSection` name the places under either lock.

`SubscriptionService` sees as `current` the table `subs`, as `live` the subscriptions
whose listener runs, and as `told` those of them whose context is done, whether by
`Unsubscribe`, `Disconnect` or the caller. It says that a listener ends only when told
to, that a subscription is forgotten only when its listener has ended or was told to,
and that who was told to ends. That a listener ends in three different places, and that
two calls forget a subscription while it runs, is what the mapping has to account for.

### SimpleNode

The one goroutine of `main` is the only client: `Prompt` is `main` waiting for a
command, `nodeSubs` the example's own map, which its commands ask before the `DB` and
change after it. The constant `User` names the goroutine; everything else is
`TopicManager`'s.

### Identity

A libp2p public key is a type and some bytes, a peer ID the key itself or its hash
when the key is long (`inline`). `PeerIDToSolanaPublicKey` is where a wallet is taken
out of an ID; `NoWallet` stands for its two errors. That any type may come with
any bytes is stronger than what libp2p permits, and so the check of the type has to
carry the weight. `ExtractSolanaPublicKey` has no caller in the repository and is left out.

### RegistryGater

`mutex` is `cache.mutex`; `refresher` the refresh goroutine; `check[c]` one
connection attempt, which goes through `peerDial`, `addrDial` and `secured` or
through `secured` alone. Overwriting the `sync.Map` takes two steps (`RefreshLocks`
and `RefreshResets`, `ClearBegins` and `ClearEnds`); while it lasts, a load sees
the old map or the new one, a store is kept or lost, and either may end the
process (`Crash`). That no entry of the old map survives is so on amd64, where the
two stores that clear the struct stay in order; on a machine that reorders them
nothing would be promised. `torn` holds the wallets whose store is undecided. The
history variables `pending`, `since1`, `since2` and `steady` record what the
registry authorised since the last fetches; no action of the code reads them.
`open` is the swarm's connections, which end with the process. `Admission` sees
`registry`, `open`, and as `recent` what the registry authorised since the last two
fetches.

### Discovery and Node

`up`, `hostOpen` and `dhtOpen` are the swarm, which all parts share. `finder` is
`findPeersLoop`, `advertisers` counts the goroutines that the calls of
`util.Advertise` in `advertiseLoop` leave behind, and `round[r]`, `todo[r]`,
`target[r]`, `count[r]` are the locals of one `processPeers`. A round's step is the
body of its loop up to the dial (`Skip`, `Dial`), and from the dial's answer to the
next iteration (`DialSucceeds`, `DialFindsOpen`, `DialFails`): peers come, go and are
dialled by other rounds in between. `Node` adds the application: `pc` has a
place between any two calls of `Connect` that may fail or that others can see, and
for `Disconnect` one between the DHT's close, the host's, and its return. It
restricts every new connection, a round's or a `PeerConnects`, by `Gater!Admit`.
`PeerConnects` is an inbound connection or one of the bootstrap, whose own
steps are in `BootstrapRetry`. `Bootstrap` is one step because `Connect` only logs an
error of `bootstrapNetworkWithRetry` and goes on.

## 3. The runs

| run | bounds | question and result |
|---|---|---|
| `retry_full` (`ReadinessHistory.cfg`) | 1 peer, the bootstrap node, with 2 connections, early or not, 2 delayed starters, 2 retriers, a list that comes and goes or fails from the start, connections drop; 3.2 million states | `HandleIsRunningRetry`, `AtMostOneRetry`: however callbacks, starters and `Connect` race, until `Disconnect` the stored cancel function is that of the one running retry; `ReadyUnlessOutdated`: whenever no callback is pending the flag is exact, unless the last callback to store held an older count than another; what an uncounted early connection or a late store spoilt, the next callback in order mends. The history variables, with which the run has all behaviours of `BootstrapRetry`, serve the last |
| `retry_shutdown` (`BootstrapRetry_shutdown.cfg`) | 1 connection, 1 starter, 2 retriers, any registry, fairness | `RetriesStopAfterShutdown`: all goroutines end, also a retry launched after `stopBootstrapRetry`; `KeepsPromises`: refinement of `RetryService`, its fairness included |
| `retry_calm` (`BootstrapRetry_calm.cfg`) | 2 bootstrap nodes, no losses, the list only becomes non-empty, fairness | `RetryWhileNotReady`, `EventuallyReady`, `RetryEndsWhenReady`: failed dials, empty lists and retries in any number never make the node give up; it becomes ready, and the retry ends |
| `topics_two_clients` (`TopicManager_two.cfg`) | 2 clients, 1 topic, 3 handles, 2 subscriptions, channel of 1, cancelled contexts, panics; 1 million states | `TypeOK`: no `Publish` goes on with a nil handle; `LockHeldInSections`: the mutex is held in the sections it guards and nowhere else; `TableHoldsJoinedTopics`, `RecordedSubscriptionsAreActive`: the tables agree with gossipsub; `CancelledListenerEnds`: no cancelled listener spins; `DisconnectLeavesTopics`: when `Disconnect` returns, only what a `Publish` has yet to store is joined |
| `topics_progress` (`_live`) | 2 clients, fairness | `CallsReturn`, `CancelledListenersEnd`: no call deadlocks on the mutex, no listener survives its cancellation; `KeepsSubscriptions`: refinement of `SubscriptionService`, its fairness included |
| `simple_node` (`SimpleNode.cfg`) | the example: 1 client, 2 topics, own and malformed messages | `NodeAgreesWithDB`: the example's map is the `DB`'s table at every prompt; `RecordedSubscriptionsListen`, `CallsSucceed`: what one goroutine that uses the `DB` may rely on |
| `gater_recent` (`RegistryGater_recent.cfg`) | 2 wallets, one with an owner, strangers whose keys of another type have its bytes, inline and hashed; 2 checkers, registry fails, the race may crash, `ClearCache`, lookups shorter than the interval; 1.3 million states | `CacheIsRecent`, `AdmitsRecentOnly`: a wallet is cached, and a connection admitted, at most two refreshes after the revocation (refinement of `Admission`); `OnlyOwnersAdmitted` |
| `gater_outage` (`_outage`) | 2 wallets and their owners, 1 checker, lookups of any length, fairness | `SteadyWalletsCached`, `RevokedWalletForgotten`, `StopReturns` |
| `node` (`Node.cfg`) | 2 peers, one of whom may lose its authorisation, 2 overlapping rounds of 1 connection each, failures at every step, `Disconnect` at any time, fairness | `FailedConnectIsOffline`, `DisconnectedIsOffline`, `CallsReturn`, `RoundsEnd`, `AdvertisedPeersConnected` |
| `retry_stale_readiness` (`BootstrapRetry_stale.cfg`) | 1 peer with 2 connections | finding: see 4.1 |
| `retry_lost_wakeup` (`BootstrapRetry_lost.cfg`) | 1 connection, fairness | finding: see 4.2 |
| `node_cleanup` (`Node_cleanup.cfg`) | as `node` | finding: see 4.3 |

Why the bounds are enough to see the interesting cases: two connections suffice for
callbacks that overlap and for one to go while another stays, and are taken again when
they have ended; whether they are of one peer or of several makes no difference to the
callbacks, which only ask whether anybody is connected, and is what the two bootstrap
nodes of `retry_calm` are for; two delayed
starters race each other and `Connect`, and need two retriers to show an
overlap; two bootstrap nodes make a partly failed bootstrap; two clients are a
reader and a writer or two writers, a third would only wait; two subscriptions
are an old listener and its successor, three handles one more than two clients
and the table can hold; a channel of one is full as soon as a message waits; two
checkers store and load while the third party, the refresh, overwrites. Two rounds
dial the same peer, and two peers with a limit of one are the smallest case in which
the limit postpones somebody, whom the next round has to reach; the code's five
would take six peers to show the same. The counters are the channel (`Buffer`), a
round's connections (`Limit`), and the goroutines of `util.Advertise`, which grow
without end in the code and stop at `MaxAdvertisers` in the model, where one is
enough to be left behind.

Pools are a restriction where they run out: a step that needs a goroutine, a
handle or a subscription from an exhausted pool waits until one is free. A
deadlock on an exhausted pool would be reported, deadlock checking being on in
every run.

## 4. Where the code departs from what is said of it

Each of these is a run that TLC refutes.

1. **`retry_stale_readiness`.** `updateReadiness` reads the peer count before it
   takes the mutex (`infrastructure.go:78`). Two callbacks that overlap may store
   their counts in the opposite order, and `isReady` stays true without peers, in
   which case no retry starts, or false with peers. One peer is enough: it drops and
   reconnects at once, and the `Disconnected` of its old connection, which counted
   before, stores after the `Connected` of the new one. `retry_full` shows that
   this order is the only way to a flag that is wrong while no callback is pending,
   but for connections from before `Notify`.
2. **`retry_lost_wakeup`.** A retry goroutine that succeeded keeps its cancel
   function stored during its one second sleep and until its deferred clear. If
   the peers are lost then, the delayed starter finds "retry already running"
   (`infrastructure.go:101`) and gives up for good.
3. **`node_cleanup`.** Discovery is started with `context.Background()`
   (`infrastructure.go:494`) and nobody calls the gater's `Stop`. After `Disconnect`
   both loops, one goroutine per call of `util.Advertise` (one more every two
   seconds) and the gater's refresh go on.

The bounds of the passing runs keep out some further behaviour of the code, on which
no document of the repository says otherwise. It can be seen by changing the
configuration of the run:

- `retry_calm` with `PeersDrop = TRUE` breaks `RetryWhileNotReady`: a bootstrap node that
  drops before `Connected` has counted it makes no transition of `isReady`, and
  the caller takes the dial for a success. With `"error"` in `FirstAnswers`:
  `bootstrapNetworkWithRetry` returns on an error of `getBootstrapNodes` without
  starting a retry (`infrastructure.go:355`). With `AnswerChanges <- Shrinks`:
  `bootstrapNetwork` fetches the list again and takes an empty one for a success.
- `retry_calm` with `EarlyConns = {k1}` breaks `EventuallyReady`: the host listens
  some time before `Notify` registers the callbacks (`infrastructure.go:178` and
  `242`). A peer that connects in between is never counted; when it is a bootstrap
  node, the dial of it succeeds at once, the bootstrap is a success and `isReady`
  stays false. `retry_full` has early connections.
- `retry_full` without the `~shutdown` of `AtMostOneRetry`: a starter past its
  shutdown check launches a second retry after `stopBootstrapRetry`. Both end.
- `topics_two_clients` with the invariant `CallsSucceed`: `Publish` joins a topic under
  the read lock and stores the handle under the write lock; a `Subscribe` in between
  (`pubsub_operations.go:214`) joins again and fails. A `Disconnect` in between does not
  see the topic, which stays joined and is stored afterwards; hence the exception in
  `DisconnectLeavesTopics`.
- `topics_two_clients` with the invariant `RecordedSubscriptionsListen`: cancelling the
  context given to `Subscribe` ends the listener, but the subscription stays
  recorded; it is delivered to by gossipsub, handled by nobody, and `Subscribe`
  answers that it exists.
- `simple_node` with `HandlerPanics = TRUE` breaks the same invariant: the `recover`
  is outside the loop. So it does `KeepsSubscriptions` in `topics_progress`: a listener
  ends that nobody told to.
- `topics_two_clients` with `NilHandlers = TRUE` breaks
  `RecordedSubscriptionsAreActive`: subscribing over a nil handler forgets the
  first subscription without cancelling it.
- A message queued before `Unsubscribe` may still reach the handler after it
  returned, because `subscription.Next` may pick it over the done context.
- `CacheIsRecent` speaks of two refreshes, not one: a lookup answered before the
  revocation stores the wallet again after the refresh that removed it.
- `Crash` is a possible outcome of the unsynchronised overwrite: it clears the
  map's inner mutex while somebody may hold it.
- `node` with `\A p \in Peers : <>[]Reachable(p) => []<>(p \in up)` for a property: when
  connections keep dropping, peers that are found again may use up the limit of every
  round, and another waits for ever. Hence the second premise of
  `AdvertisedPeersConnected`.
- A `Connect` that fails after it has created the gater leaves the gater's refresh
  behind, and one that fails at gossipsub the DHT too; only the host is closed
  (`refreshing` and `dhtOpen` in the states with `pc = "failed"`).

Outside the models: a negative `RefreshInterval` panics in `time.NewTicker`; the
example's signal handler cancels a context that `Connect` does not look at, so SIGINT
neither ends the example nor disconnects it.

## 5. Fairness

- *Goroutines* (weak fairness of each goroutine's step): the Go scheduler runs
  them, timers and tickers fire, dials and sleeps end.
- *`select`* (strong fairness of `Cancelled`, `RefreshStops`): Go chooses uniformly among the
  ready cases, so a loop that returns to its `select` again and again with a done
  context takes that case at last.
- *`RWMutex`* (strong fairness of `Proceeds`, `RefreshLocks`): a waiting writer
  blocks later readers, the readers behind a writer go first when it unlocks, and
  mutexes hand over to starved waiters.
- *Discovery* (weak fairness of `Finds`, `Advertises`, `Loops(r)`, and of `Call`): tickers
  tick, a dial ends after its 30 seconds at the latest, and `Connect` and `Disconnect`
  do not stop half way. `RoundRefused`, a refusal before the timeout, has no fairness.
- *A closed host* (weak fairness of `PeerDrops(p)` while the host is closed): closing
  the swarm closes its connections.
- *Listeners* (weak fairness of `Listens`): handlers return. A listener waits in
  `Next` as long as its channel is empty.
- *Environment*, only where a property says "in the long run": a bootstrap node dialled
  for ever answers (`DialOpens` in `ReachableSpec`), the list becomes available,
  a registry asked for ever answers (`RefreshFetches`), the DHT asked for ever answers
  (`FindPeers`), and so does an authorised peer that is dialled for ever
  (`RoundConnects`, strong: it may be connected or off the list now and then).
- No fairness of the application: nobody need call `Disconnect`, `Publish` or `Stop`;
  and none of the peers, but for connections ending once the host closes.

## 6. Proofs

`BootstrapRetryProofs` proves, for every set of peers, list of bootstrap nodes,
number of connections, behaviour of the registry and number of goroutines, from
`RetryAssumption` (the pools of goroutines are disjoint, the list is a nonempty sequence
of peers, each connection has a peer):

| theorem | statement |
|---|---|
| `TypeCorrect` | `Spec => []TypeOK` |
| `HandleCorrect` | `Spec => []HandleIsRunningRetry` |
| `OneRetryAtATime` | `Spec => []AtMostOneRetry` |
| `ServiceCorrect` | `Spec => Service!SafeSpec`: the safety part of the refinement of `RetryService` |

`HandleIsRunningRetry` is not inductive by itself: `stopBootstrapRetry` clears
the handle while the goroutine still runs, which keeps it only because
`ShutdownCancel` came before. The inductive invariant `IInv` adds
`StopsAfterShutdown` (the application is past `ShutdownCancel` only when
`shutdown` holds) and the type invariant, without which nothing is known of an
updated `pc`. With it the deferred clear is safe although it sets `retryCancel`
to nil whoever stored it: the goroutine that ends is running, hence its own
handle is the stored one. `OneRetryAtATime` follows: two running goroutines would
both be the one stored. For `ServiceCorrect` every action is shown to be a step of
`RetryService` or a stutter; `HandleAlive` (a stored handle belongs to a goroutine that
runs) is what makes a starter that gives up a legal `Decline`.

`ReadinessProofs` proves, from the same assumption:

| theorem | statement |
|---|---|
| `ReadinessCorrect` | `HistorySpec => []ReadyUnlessOutdated` |
| `NeverGivesUp` | if `Calm`: `Spec => []RetryWhileNotReady` |

The first has no condition: any peers with any connections, early ones included. The
code violates `ReadinessTracksPeers` (4.1), and the first says precisely how far it goes.
The inductive invariant `HInv` adds to the types `TableFollows` (a connection in the
swarm's table has been notified) and `CountFollows`: either some connection still has a
callback to come that will count (`Unread`), or nothing has changed since the last count,
which is then right, in the hands of its callback until that stores, in `isReady`
afterwards unless another stored later. A connection that breaks while `Connected` is
between count and mutex is the case it is for: `isReady` is then true without peers until
`Disconnected` has run.

`Calm` is: connections hold, the first fetch
of the list does not fail, and the list never changes but to become available; early connections
are allowed. TLC refutes the second property without any one of the three (4). The inductive
invariant `CalmInv` holds until `Disconnect` begins and has five parts: `Undisturbed`
(nobody has shut down or cancelled anything, and no delayed starter is under way, since
`isReady` never goes back), `AllCounted` (a connection was or will be counted),
`SuccessMeansPeers` (whoever takes a dial for a success, or sees `isReady`, is right),
`ListKnown` (whoever dials has a list, which is not empty when fetched again) and
`SomebodySearches`, which is the property itself, made to speak of the time before
`Connect` returns.

`IdentityProofs` proves from `IdentityAssumption` (Ed25519 keys fit into an ID, and
`NoWallet` is no wallet):

| theorem | statement |
|---|---|
| `OneIdentityPerWallet` | an ID that gives a wallet is the one `CreatePeerIDFromSolanaPublicKey` makes of that wallet |

`RegistryGaterProofs` proves, for every set of wallets and peers, every
assignment of wallets and any number of connection attempts, from
`GaterAssumption` (there are peers, and `NoWallet` is no wallet):

| theorem | statement |
|---|---|
| `TypeCorrect` | `Spec => []TypeOK` |
| `CacheRecent` | if `LookupsAreShort`: `Spec => []CacheIsRecent` |
| `AdmissionCorrect` | if `LookupsAreShort`: `Spec => AdmitsRecentOnly`, the refinement of `Admission` |
| `SteadyCached` | unless `CacheCleared`: `Spec => []SteadyWalletsCached` |
| `OwnersCorrect` | `Spec => []OnlyOwnersAdmitted` |

`CacheIsRecent` needs to know how old an answer in a checker's hands may be, and
what the undecided stores of an overwrite may leave behind. `RecentInv` adds:
`SpansNested` (the history sets contain each other), `ListIsPending` (the list
being installed is of the last fetch), `OverwrittenUnderMutex` (there are undecided
stores only while the map is overwritten, and the refresh's own belong to the
newer span) and `AnswersRecent` (a checker that is about to store was answered
since the last fetch, or, between a fetch and the next tick, since the one before
it). The tick is where `LookupsAreShort` is used, and the only place: it is the
step after which an answer older than the last fetch would have become an answer
older than two. For `SteadyWalletsCached` the invariant says where the wallets are
in the middle of a refresh: in the list, or in the list and the cache.
`OwnersCorrect` rests on `OneIdentityPerWallet`.

`TopicManagerProofs` proves, for every number of clients, topics, handles,
subscriptions and messages, from `TopicAssumption`:

| theorem | statement |
|---|---|
| `TypeCorrect` | `Spec => []TypeOK` |
| `TableCorrect` | unless `NilHandlers`: `Spec => []TableHoldsJoinedTopics` |
| `RecordedCorrect` | unless `NilHandlers`: `Spec => []RecordedSubscriptionsAreActive` |
| `ListenerCorrect` | unless `NilHandlers`: `Spec => []CancelledListenerEnds` |

The three invariants need each other and the lock. `IInv` adds: `Exclusive` (who is in
a section under the write lock is the one who holds it), `SubsRecorded` and
`ActiveRecorded` (a table entry is an active subscription of its topic and the other
way round), `Halfway` (the exceptions: the subscription whose context `Unsubscribe` or
`Disconnect` has cancelled and not yet ended, while its caller holds the lock),
`StoresJoined` and `StoresAlone` (the handle in the hands of a `Publish` between its
two locks is open, and no table entry or other client has it), and `TopicsJoined`.
`NilHandlers` would break `ActiveRecorded`, see 4.

`SubscriptionProofs` goes on from there, with the same generality:

| theorem | statement |
|---|---|
| `LockCorrect` | `Spec => []LockHeldInSections` |
| `LeavesCorrect` | unless `NilHandlers`: `Spec => DisconnectLeavesTopics` |
| `ServiceCorrect` | unless `NilHandlers` or `HandlerPanics`: `Spec => Service!SafeSpec`, the safety part of the refinement of `SubscriptionService` |
| `ListenCorrect` | unless `NilHandlers`, `HandlerPanics` or `CtxCancels`: `Spec => []RecordedSubscriptionsListen` |

The conditions are the ones under which the code keeps these promises; section 4 says
what it does without them. `LockHeldInSections` is inductive, and has to say of readers
what `Exclusive` leaves open, for the write lock is taken only when there are none.
For `LeavesCorrect`, `TopicsCleared` (the table is empty while `Disconnect` closes the
host) turns `TopicsJoined` into the statement. For `ServiceCorrect` each action is one
of five things to a subscriber (`SubscriptionStep`): the table and the listeners stay as
they are, a subscription opens, is told to end, ends, or is forgotten; `Halfway` makes
the forgetting legal, because the context is done before. `ListenCorrect` needs only to
know of these five that nothing but `Unsubscribe` and `Disconnect` tells a listener to end:
`AllListen` says that a recorded subscription whose context is done is in the hands of a
client that will forget it before it gives up the lock.

`SimpleNodeProofs` proves, for every set of topics and messages:

| theorem | statement |
|---|---|
| `NodeUsesDB` | `NodeSpec => Spec`: the example is a client like any other, so that all theorems about `TopicManager` hold of it |
| `AgreementCorrect` | `NodeSpec => []NodeAgreesWithDB` |
| `SucceedCorrect` | unless `NilHandlers`: `NodeSpec => []CallsSucceed` |
| `LeavesNothing` | unless `NilHandlers`: when the example's `Disconnect` returns, no topic is joined |

The example never passes a nil handler. `MapsAgree` extends the agreement of the two maps
from the prompt to the calls under way, on each outcome of which the example changes its
map exactly when the `DB` has changed its table. `OneClient` adds to
`CallsSucceed` that the handle a `Publish` is about to use is open (`SendsJoined`); with a
second client it is not inductive, since that may close the topic between the two locks.
`RecordedSubscriptionsListen` of the `simple_node` run follows from `NodeUsesDB` with
`ListenCorrect`, and `LeavesNothing` from `NodeUsesDB` with `LeavesCorrect`, there being
no second client whose `Publish` could be between its two locks.

`NodeProofs` proves, for every set of peers and rounds, every limit, every assignment of
wallets and every set of lists, from `DiscoveryAssumption` and `NodeAssumption`:

| theorem | statement |
|---|---|
| `TypeCorrect` | `Spec => []TypeOK` |
| `FailedCorrect` | `Spec => []FailedConnectIsOffline` |
| `DisconnectedCorrect` | `Spec => []DisconnectedIsOffline` |

`Offline` strengthens the two: the host is closed from `CloseHost` on, and stays so, and
the wait for the last connection comes after it; hence a round that is still dialling
finds a closed host. For the types, a round that dials has a peer to dial.

Only model-checked is liveness, fairness and `ENABLED` being out of the prover's reach:
`RetriesStopAfterShutdown`, `RetryEndsWhenReady`, `EventuallyReady`, `CallsReturn`,
`CancelledListenersEnd`, `RevokedWalletForgotten`, `StopReturns`, `RoundsEnd`,
`AdvertisedPeersConnected`, and of `KeepsPromises` and `KeepsSubscriptions` that the
retries and the listeners end. Every invariant, every action property and the safety part
of every refinement in the runs is proved, under the conditions stated with
each theorem.

## 7. Abstractions and what is left out

- *Connections*: in `BootstrapRetry` any number per peer, each with its callbacks. The
  swarm orders `Connected` before `Disconnected` for one connection and nothing across
  connections. `Node` and `Discovery` tell apart only who is connected.
- *Dials*: addresses, keys and timeouts are the nondeterministic choice of
  `ConnectFails`. A dial of a peer that is connected succeeds at once.
- *Time*: sleeps and tickers have no duration; the order of events is free. The
  one place where durations matter is `LookupsAreShort`: lookups time out after
  10 s and the default refresh interval is 30 s.
- *gossipsub*: joins, subscriptions, closes and delivery as its documentation
  and the pinned version behave: a topic can be joined once, closing is refused
  while it has subscriptions, a full channel drops, `Next` picks any ready case.
  Duplicate suppression, peers scoring and the mesh are left out. Local delivery
  of a published message is one step with `Publish`. The context of gossipsub is
  `context.Background()`, so a `DB` is usable after `Disconnect`, and the model
  lets it be used.
- *Messages*: `Valid` (parse, foreign, with an identifier) or `Ignored`.
- *One database*: topic names are prefixed with the database name; the model has
  one `DB` and its topics.
- *Gater*: `InterceptAddrDial` is asked once per dial, though a dial may have
  several addresses; `InterceptAccept` and `InterceptUpgraded` always agree.
  `ClearCache` and `Stop` are called by nobody in the repository; the models
  call them. `Stop` is called once.
- *Disconnect*: called once in `BootstrapRetry`, `Node` and `SimpleNode`, any number of
  times in `TopicManager`.
- *Discovery*: the node's own entry, which a round skips whenever it meets it, is left
  out of `todo`; the order of a list is arbitrary. Several dials of one
  peer at a time share one connection, as the swarm's dial synchronisation has it.
- *Connect*: an unusable configuration, private key or connection manager is one
  choice of `ConnectStarts`. The subscriptions and the retry that `Disconnect` ends
  before the DHT are in `TopicManager` and `BootstrapRetry`.
- *Node and gater*: `Node` uses `Admission` for the gater, and `RegistryGater` implements
  `Admission` when lookups are shorter than the refresh interval.
- *Example*: flags, prompts and the commands that only print have no steps.
- *Not modelled*: the logger (output only); the accessors `ConnectedPeers`, `GetHost`,
  `IsReady`, `GetConnectedPeers`, `GetDHTStats` (they read what the models have as
  variables); the configuration and event types (declarations; the callbacks in them
  are the environment of the models); `keygen` (sequential, prints a key pair);
  multiaddresses and what goes on inside libp2p.

## 8. What could follow

1. The composition of `BootstrapRetry` with `Node`, whose `PeerConnects` stands for the
   bootstrap's connections: `SuccessMeansPeers` would then speak of admitted peers.
2. What `ReadyUnlessOutdated` says of the flag, for the retry: that a node without peers
   searches unless one of the ways of section 4 to give up was taken, with history
   variables for these.
3. Invariants behind the liveness properties (who can take the next step while a call is
   under way, or a retry), as far as they can be stated without `ENABLED`.
