--------------------------- MODULE BootstrapRetry ---------------------------
(***************************************************************************)
(* The readiness flag and the bootstrap retry of one node                  *)
(* (pubsub/infrastructure.go), with the part of Disconnect that shuts them *)
(* down (pubsub/pubsub_operations.go).                                     *)
(*                                                                         *)
(* Goroutines:                                                             *)
(*   App       the caller of Connect and, later, of Disconnect;            *)
(*   Delayers  the goroutines running startBootstrapRetryAfterDelay;       *)
(*   Retriers  the goroutines spawned by startBootstrapRetry;              *)
(*   and one notification goroutine per connection, whose place in the     *)
(*   Connected / Disconnected callbacks is cb[c].                          *)
(*                                                                         *)
(* The swarm (external) calls Connected and then Disconnected once per     *)
(* connection, never both at the same time for one connection, but the     *)
(* callbacks of different connections run concurrently, also of two        *)
(* connections of one peer: the new one opens while the Disconnected       *)
(* callback of the old one runs, or while the old one still lives.  A dial *)
(* returns after the Connected callbacks of the connection it opened.      *)
(*                                                                         *)
(* Bounds: |Conns| connections at a time, each with its remote peer, taken *)
(* again once its callbacks have ended; |Delayers| delayed starters and    *)
(* |Retriers| retry goroutines at a time; one Disconnect call.             *)
(***************************************************************************)
EXTENDS Naturals, Sequences, FiniteSets

CONSTANTS
    Peers,           \* the remote peers
    Conns,           \* pool of connections
    RemotePeer,      \* the peer at the other end of each
    NoConn,          \* no connection
    BootstrapNodes,  \* the list getBootstrapNodes returns when it returns one
    App,             \* the application goroutine
    Delayers,        \* pool of goroutines for startBootstrapRetryAfterDelay
    Retriers,        \* pool of goroutines for the retry loop
    NoRetry,         \* the nil value of retryCancel
    FirstAnswers,    \* what getBootstrapNodes may answer at the start
    AnswerChanges,   \* the changes <<old, new>> of its answer
    EarlyConns,      \* connections that may open before Notify is called
    PeersDrop        \* TRUE when connections may close

Answers == {"error", "empty", "nodes"}

ASSUME RetryAssumption ==
    /\ BootstrapNodes \in Seq(Peers) /\ BootstrapNodes # <<>>
    /\ Delayers \cap Retriers = {}
    /\ App \notin Delayers \cup Retriers
    /\ NoRetry \notin Retriers
    /\ FirstAnswers \subseteq Answers
    /\ AnswerChanges \subseteq Answers \X Answers
    /\ RemotePeer \in [Conns -> Peers]
    /\ NoConn \notin Conns
    /\ EarlyConns \subseteq Conns
    /\ PeersDrop \in BOOLEAN

VARIABLES
    registry,     \* the current answer of getBootstrapNodes
    up,           \* the live connections, whose peers host.Network().Peers() lists
    cb,           \* where the notifications of a connection are
    seen,         \* the callback's local test peerCount > 0
    isReady,
    retryCancel,  \* the retrier whose cancel function is stored, or NoRetry
    cancelled,    \* the retriers whose own context was cancelled
    shutdown,     \* shutdownCtx is done
    hostOpen,     \* host.Close has not been called
    pc,           \* where each goroutine is
    todo,         \* bootstrap nodes a worker has still to dial
    dialled,      \* the connection whose callbacks a worker's dial waits for
    connected     \* the worker's local test connectedCount > 0

vars == <<registry, up, cb, seen, isReady, retryCancel, cancelled, shutdown,
          hostOpen, pc, todo, dialled, connected>>

conns   == <<up, cb, seen>>
flags   == <<isReady, retryCancel, cancelled, shutdown, hostOpen>>
dialing == <<todo, dialled, connected>>

Workers == {App} \cup Retriers   \* the goroutines that run bootstrapNetwork
Procs   == Workers \cup Delayers

CbStates == {"none", "connectedRead", "connectedWrite", "open",
             "disconnectedRead", "disconnectedWrite"}

DialStates == {"boot", "dial", "notify", "settle"}

AppStates == DialStates \cup {"first", "start", "lock", "connected",
                              "stop", "close", "closing", "done"}

RetrierStates == DialStates \cup {"idle", "select", "nodes", "exit"}

DelayerStates == {"idle", "check", "sleep", "start", "lock"}

TypeOK ==
    /\ registry \in Answers
    /\ up \in SUBSET Conns
    /\ cb \in [Conns -> CbStates]
    /\ seen \in [Conns -> BOOLEAN]
    /\ isReady \in BOOLEAN
    /\ retryCancel \in Retriers \cup {NoRetry}
    /\ cancelled \in SUBSET Retriers
    /\ shutdown \in BOOLEAN
    /\ hostOpen \in BOOLEAN
    /\ pc \in [Procs -> AppStates \cup RetrierStates \cup DelayerStates]
    /\ pc[App] \in AppStates
    /\ \A r \in Retriers : pc[r] \in RetrierStates
    /\ \A d \in Delayers : pc[d] \in DelayerStates
    /\ todo \in [Workers -> Seq(Peers)]
    /\ dialled \in [Workers -> Conns \cup {NoConn}]
    /\ connected \in [Workers -> BOOLEAN]

Init ==
    /\ registry \in FirstAnswers
    /\ up \in SUBSET EarlyConns   \* the host listens, nobody was notified yet
    /\ cb = [c \in Conns |-> IF c \in up THEN "open" ELSE "none"]
    /\ seen = [c \in Conns |-> FALSE]
    /\ isReady = FALSE
    /\ retryCancel = NoRetry
    /\ cancelled = {}
    /\ shutdown = FALSE
    /\ hostOpen = TRUE
    /\ pc = [q \in Procs |-> IF q = App THEN "first" ELSE "idle"]
    /\ todo = [w \in Workers |-> <<>>]
    /\ dialled = [w \in Workers |-> NoConn]
    /\ connected = [w \in Workers |-> FALSE]

Goto(q, label) == pc' = [pc EXCEPT ![q] = label]

-----------------------------------------------------------------------------
(* The environment: the bootstrap registry and the swarm. *)

RegistryChanges ==
    /\ \E change \in AnswerChanges :
          /\ registry = change[1]
          /\ registry' = change[2]
    /\ UNCHANGED <<conns, flags, pc, dialing>>

\* Free to be opened: its last callbacks have ended and no dial waits for them.
Fresh(c) == cb[c] = "none" /\ \A w \in Workers : dialled[w] # c

\* The swarm adds the connection to its table and notifies.
Opens(c) ==
    /\ hostOpen
    /\ Fresh(c)
    /\ up' = up \cup {c}
    /\ cb' = [cb EXCEPT ![c] = "connectedRead"]

\* A connection the retry did not ask for: inbound, or dialled by discovery.
PeerConnects(c) ==
    /\ Opens(c)
    /\ UNCHANGED <<registry, seen, flags, pc, dialing>>

\* The connection leaves the swarm's table; its Disconnected callback waits for
\* Connected to end.
PeerDrops(c) ==
    /\ PeersDrop \/ ~hostOpen
    /\ c \in up
    /\ up' = up \ {c}
    /\ UNCHANGED <<registry, cb, seen, flags, pc, dialing>>

\* Mutant: Disconnected does not call updateReadiness.
DisconnectedSilent == "none"

\* The callback runs updateReadiness.
DisconnectedF == "disconnectedRead"

DisconnectedStarts(c) ==
    /\ cb[c] = "open"
    /\ c \notin up
    /\ cb' = [cb EXCEPT ![c] = DisconnectedF]
    /\ UNCHANGED <<registry, up, seen, flags, pc, dialing>>

-----------------------------------------------------------------------------
(* updateReadiness, called by the Connected and Disconnected callbacks.      *)

\* The count is read before the mutex is taken.
ReadPeerCount(c) ==
    /\ \/ cb[c] = "connectedRead" /\ cb' = [cb EXCEPT ![c] = "connectedWrite"]
       \/ cb[c] = "disconnectedRead" /\ cb' = [cb EXCEPT ![c] = "disconnectedWrite"]
    /\ seen' = [seen EXCEPT ![c] = up # {}]
    /\ UNCHANGED <<registry, up, flags, pc, dialing>>

\* Under the mutex: store the count just read; spawn a delayed starter when the
\* node stops being ready.
UpdateReadiness(c) ==
    /\ \/ cb[c] = "connectedWrite" /\ cb' = [cb EXCEPT ![c] = "open"]
       \/ cb[c] = "disconnectedWrite" /\ cb' = [cb EXCEPT ![c] = "none"]
    /\ isReady' = seen[c]
    /\ seen' = [seen EXCEPT ![c] = FALSE]
    /\ IF isReady /\ ~seen[c]
       THEN \E d \in Delayers : pc[d] = "idle" /\ Goto(d, "check")
       ELSE pc' = pc
    /\ UNCHANGED <<registry, up, retryCancel, cancelled, shutdown, hostOpen,
                   dialing>>

-----------------------------------------------------------------------------
(* bootstrapNetwork, run by App inside Connect and by the retriers.          *)

\* Mutant: the retry loop watches its own context alone.
DoneOnlyIfCancelled(w) == w # App /\ w \in cancelled

\* A retrier's context is done once its cancel function or shutdownCancel was
\* called; App dials with context.Background().
Done(w) == w # App /\ (shutdown \/ w \in cancelled)

Succeeded(w) == Goto(w, "settle")

\* Mutant: a failed attempt ends the retry goroutine.
FailedOnce(w) == Goto(w, IF w = App THEN "start" ELSE "exit")

Failed(w) == Goto(w, IF w = App THEN "start" ELSE "select")

\* dht.Bootstrap and this call's own getBootstrapNodes; "error" stands for a
\* failure of either, and a done context may fail both.  An empty list counts
\* as success.
Boot(w) ==
    /\ pc[w] = "boot"
    /\ \/ /\ registry = "error" \/ Done(w)
          /\ Failed(w)
          /\ UNCHANGED todo
       \/ registry = "empty" /\ Succeeded(w) /\ UNCHANGED todo
       \/ /\ registry = "nodes"
          /\ Goto(w, "dial")
          /\ todo' = [todo EXCEPT ![w] = BootstrapNodes]
    /\ connected' = [connected EXCEPT ![w] = FALSE]
    /\ UNCHANGED <<registry, conns, flags, dialled>>

Target(w) == Head(todo[w])

\* host.Connect opens a connection, whose Connected callbacks it waits for; the
\* peer may have connected by itself since the dial began.
DialOpens(w) ==
    /\ pc[w] = "dial"
    /\ todo[w] # <<>>
    /\ ~Done(w)
    /\ \E c \in Conns :
          /\ RemotePeer[c] = Target(w)
          /\ Opens(c)
          /\ dialled' = [dialled EXCEPT ![w] = c]
    /\ Goto(w, "notify")
    /\ UNCHANGED <<registry, seen, flags, todo, connected>>

\* host.Connect returns nil: the dial is through, or the peer was connected
\* already.
ConnectOk(w) ==
    /\ todo[w] # <<>>
    /\ \/ pc[w] = "dial" /\ \E c \in up : RemotePeer[c] = Target(w)
       \/ pc[w] = "notify" /\ cb[dialled[w]] \notin {"connectedRead", "connectedWrite"}
    /\ todo' = [todo EXCEPT ![w] = Tail(@)]
    /\ dialled' = [dialled EXCEPT ![w] = NoConn]
    /\ connected' = [connected EXCEPT ![w] = TRUE]
    /\ Goto(w, "dial")
    /\ UNCHANGED <<registry, conns, flags>>

\* An unusable address or key, an unreachable or unauthorised node, the 30 s
\* timeout or a cancelled context.
ConnectFails(w) ==
    /\ pc[w] \in {"dial", "notify"}
    /\ todo[w] # <<>>
    /\ todo' = [todo EXCEPT ![w] = Tail(@)]
    /\ dialled' = [dialled EXCEPT ![w] = NoConn]
    /\ Goto(w, "dial")
    /\ UNCHANGED <<registry, conns, flags, connected>>

DialsDone(w) ==
    /\ pc[w] = "dial"
    /\ todo[w] = <<>>
    /\ IF connected[w] THEN Succeeded(w) ELSE Failed(w)
    /\ connected' = [connected EXCEPT ![w] = FALSE]
    /\ UNCHANGED <<registry, conns, flags, todo, dialled>>

\* The caller's one second sleep after a success.
Settle(w) ==
    /\ pc[w] = "settle"
    /\ Goto(w, IF w = App THEN "connected" ELSE "exit")
    /\ UNCHANGED <<registry, conns, flags, dialing>>

BootstrapNetwork(w) ==
    \/ Boot(w)
    \/ DialOpens(w)
    \/ ConnectOk(w)
    \/ ConnectFails(w)
    \/ DialsDone(w)
    \/ Settle(w)

-----------------------------------------------------------------------------
(* bootstrapNetworkWithRetry: App asks for the nodes before bootstrapping.   *)

\* Mutant: an empty list is taken for "nothing to do".
FirstEmptyReturns == "connected"

\* An empty list starts the retry.
FirstEmpty == "start"

FirstNodes ==
    /\ pc[App] = "first"
    /\ \/ registry = "error" /\ Goto(App, "connected")
       \/ registry = "empty" /\ Goto(App, FirstEmpty)
       \/ registry = "nodes" /\ Goto(App, "boot")
    /\ UNCHANGED <<registry, conns, flags, dialing>>

-----------------------------------------------------------------------------
(* startBootstrapRetry, called by App and by the delayed starters.           *)

StartReturns(q) == Goto(q, IF q = App THEN "connected" ELSE "idle")

\* Mutant: shutdownCtx is not looked at before the start.
ShutdownUnseen == FALSE

ShuttingDown == shutdown

CheckShutdown(q) ==
    /\ pc[q] = "start"
    /\ IF ShuttingDown THEN StartReturns(q) ELSE Goto(q, "lock")
    /\ UNCHANGED <<registry, conns, flags, dialing>>

\* Mutant: the stored cancel function is not looked at.
RetryNeverRuns == FALSE

\* A retry is taken to run while a cancel function is stored.
RetryRuns == retryCancel # NoRetry

\* Under retryMutex: nothing when a retry runs, otherwise store a new cancel
\* function and spawn its goroutine.
LaunchRetry(q) ==
    /\ pc[q] = "lock"
    /\ \/ /\ RetryRuns
          /\ StartReturns(q)
          /\ UNCHANGED retryCancel
       \/ /\ ~RetryRuns
          /\ \E r \in Retriers :
                /\ pc[r] = "idle"
                /\ retryCancel' = r
                /\ pc' = [pc EXCEPT ![q] = IF q = App THEN "connected" ELSE "idle",
                                    ![r] = "select"]
    /\ UNCHANGED <<registry, conns, isReady, cancelled, shutdown, hostOpen,
                   dialing>>

\* startBootstrapRetryAfterDelay: skip when a retry is running, else sleep 2 s.
CheckRunning(d) ==
    /\ pc[d] = "check"
    /\ Goto(d, IF RetryRuns THEN "idle" ELSE "sleep")
    /\ UNCHANGED <<registry, conns, flags, dialing>>

Wake(d) ==
    /\ pc[d] = "sleep"
    /\ Goto(d, IF isReady THEN "idle" ELSE "start")
    /\ UNCHANGED <<registry, conns, flags, dialing>>

-----------------------------------------------------------------------------
(* The retry goroutine.                                                      *)

Cancelled(r) ==
    /\ pc[r] = "select"
    /\ Done(r)
    /\ Goto(r, "exit")
    /\ UNCHANGED <<registry, conns, flags, dialing>>

\* Mutant: the tick does not look at the readiness.
IsReadyNever == FALSE

IsReady == isReady

\* select takes any ready case, so the tick may win over a done context.
Tick(r) ==
    /\ pc[r] = "select"
    /\ Goto(r, IF IsReady THEN "exit" ELSE "nodes")
    /\ UNCHANGED <<registry, conns, flags, dialing>>

GetNodes(r) ==
    /\ pc[r] = "nodes"
    /\ \/ registry = "nodes" /\ Goto(r, "boot")
       \/ /\ registry # "nodes" \/ Done(r)
          /\ Goto(r, "select")
    /\ UNCHANGED <<registry, conns, flags, dialing>>

\* Mutant: the goroutine ends without clearing retryCancel.
HandleKept == retryCancel

\* The deferred function clears retryCancel, whoever stored it.
HandleCleared == NoRetry

Exit(r) ==
    /\ pc[r] = "exit"
    /\ retryCancel' = HandleCleared
    /\ cancelled' = cancelled \ {r}   \* r goes back to the pool
    /\ Goto(r, "idle")
    /\ UNCHANGED <<registry, conns, isReady, shutdown, hostOpen, dialing>>

-----------------------------------------------------------------------------
(* Disconnect, the steps that concern the retry and the connections.         *)

ShutdownCancel ==
    /\ pc[App] = "connected"
    /\ shutdown' = TRUE
    /\ Goto(App, "stop")
    /\ UNCHANGED <<registry, conns, isReady, retryCancel, cancelled, hostOpen,
                   dialing>>

\* Mutant: the cancel function is called without the nil check.
StoppedUnchecked == {retryCancel}

Stopped == {retryCancel} \ {NoRetry}

StopBootstrapRetry ==
    /\ pc[App] = "stop"
    /\ cancelled' = cancelled \cup Stopped
    /\ retryCancel' = NoRetry
    /\ Goto(App, "close")
    /\ UNCHANGED <<registry, conns, isReady, shutdown, hostOpen, dialing>>

CloseHost ==
    /\ pc[App] = "close"
    /\ hostOpen' = FALSE
    /\ Goto(App, "closing")
    /\ UNCHANGED <<registry, conns, isReady, retryCancel, cancelled, shutdown,
                   dialing>>

\* host.Close returns when every connection is gone and its callbacks ended.
HostClosed ==
    /\ pc[App] = "closing"
    /\ up = {}
    /\ \A c \in Conns : cb[c] = "none"
    /\ Goto(App, "done")
    /\ UNCHANGED <<registry, conns, flags, dialing>>

-----------------------------------------------------------------------------

AllIdle ==
    /\ \A r \in Retriers : pc[r] = "idle"
    /\ \A d \in Delayers : pc[d] = "idle"

Terminated == pc[App] = "done" /\ AllIdle /\ UNCHANGED vars

Environment ==
    \/ RegistryChanges
    \/ \E c \in Conns : PeerConnects(c) \/ PeerDrops(c) \/ DisconnectedStarts(c)

Callback(c) == ReadPeerCount(c) \/ UpdateReadiness(c)

Connect == FirstNodes \/ BootstrapNetwork(App)

StartBootstrapRetry(q) == CheckShutdown(q) \/ LaunchRetry(q)

DelayedStart(d) == CheckRunning(d) \/ Wake(d) \/ StartBootstrapRetry(d)

RetryLoop(r) ==
    \/ Cancelled(r)
    \/ Tick(r)
    \/ GetNodes(r)
    \/ BootstrapNetwork(r)
    \/ Exit(r)

Disconnect == ShutdownCancel \/ StopBootstrapRetry \/ CloseHost \/ HostClosed

\* Everything but the callbacks.
Others ==
    \/ Environment
    \/ Connect
    \/ StartBootstrapRetry(App)
    \/ Disconnect
    \/ \E d \in Delayers : DelayedStart(d)
    \/ \E r \in Retriers : RetryLoop(r)
    \/ Terminated

Next == Others \/ \E c \in Conns : Callback(c)

Spec == Init /\ [][Next]_vars

(***************************************************************************)
(* Goroutines are scheduled and timers fire; the application need not call *)
(* Disconnect, nor peers or the registry do anything.  Go's select picks   *)
(* uniformly among the ready cases, so a retrier that keeps reaching its   *)
(* select with a done context takes that case at last (strong fairness).   *)
(***************************************************************************)
Fairness ==
    /\ \A c \in Conns : WF_vars(DisconnectedStarts(c)) /\ WF_vars(Callback(c))
    /\ \A c \in Conns : WF_vars(~hostOpen /\ PeerDrops(c))
    /\ WF_vars(Connect)
    /\ WF_vars(StartBootstrapRetry(App))
    /\ WF_vars(StopBootstrapRetry \/ CloseHost \/ HostClosed)
    /\ \A d \in Delayers : WF_vars(DelayedStart(d))
    /\ \A r \in Retriers : WF_vars(RetryLoop(r)) /\ SF_vars(Cancelled(r))

LiveSpec == Spec /\ Fairness

\* Besides, the registry's answer settles and a bootstrap node that is dialled
\* over and over answers in the end.
ReachableSpec ==
    /\ LiveSpec
    /\ WF_vars(RegistryChanges)
    /\ \A w \in Workers : SF_vars(DialOpens(w))

-----------------------------------------------------------------------------
(* Properties.                                                               *)

Alive(r) == pc[r] # "idle"

\* Until Disconnect begins, the stored cancel function is exactly that of the
\* running retry goroutine: none runs unknown to stopBootstrapRetry, and no
\* handle of a finished goroutine blocks a new start (startBootstrapRetry and
\* its deferred clear).
HandleIsRunningRetry ==
    ~shutdown => \A r \in Retriers : Alive(r) <=> retryCancel = r

\* Two retry goroutines never run together before Disconnect begins, whatever
\* the delayed starters do ("Check if retry is already running").
AtMostOneRetry ==
    ~shutdown => \A r, s \in Retriers : Alive(r) /\ Alive(s) => r = s

\* No notification is pending.
Quiet == \A c \in Conns : cb[c] \in {"none", "open"} /\ (cb[c] = "open" <=> c \in up)

\* When no notification is pending, isReady tells whether some peer is connected
\* ("True when node has at least 1 peer connected", infrastructure.go).
ReadinessTracksPeers == hostOpen /\ Quiet => (isReady <=> up # {})

Searching(r) == pc[r] \in RetrierStates \ {"idle", "settle", "exit"}

\* A connected, quiet node without peers always has a retry goroutine that will
\* try again: a failed or empty attempt never ends the loop for good.
RetryWhileNotReady ==
    /\ pc[App] = "connected"
    /\ Quiet
    /\ up = {}
    /\ \A d \in Delayers : pc[d] = "idle"
    => \E r \in Retriers : Searching(r)

\* Once Disconnect began, all retry goroutines and delayed starters finish.
RetriesStopAfterShutdown == shutdown ~> AllIdle

\* Once ready, the retry goroutine ends (when peers do not go away).
RetryEndsWhenReady == isReady ~> (\A r \in Retriers : pc[r] = "idle")

\* A ready node that lost its last peer gets a peer again, or a retry goroutine
\* that will look for one.
LostPeersAreSought ==
    isReady /\ up = {} ~> up # {} \/ shutdown \/ \E r \in Retriers : Searching(r)

\* The retry keeps the promises of RetryService: one goroutine at a time until
\* Disconnect begins, none for a starter that comes later, all ended in the end.
Service == INSTANCE RetryService WITH
    Starters  <- {App} \cup Delayers,
    running   <- {r \in Retriers : Alive(r)},
    permitted <- {q \in {App} \cup Delayers : pc[q] = "lock"},
    over      <- shutdown

KeepsPromises == Service!Spec

\* When a bootstrap node can be dialled in the long run, the node becomes ready.
EventuallyReady == <>(isReady \/ shutdown)

=============================================================================
