-------------------------- MODULE ReadinessProofs --------------------------
(***************************************************************************)
(* What isReady and the retry are worth to the node: isReady is exact once *)
(* the callbacks have come to rest, unless the last of them to store held  *)
(* an older count than another, and in a calm network a node without peers *)
(* is always looking for some, for any peers, connections, number of       *)
(* goroutines and list of bootstrap nodes.                                 *)
(***************************************************************************)
EXTENDS BootstrapRetryProofs, ReadinessHistory

USE DEF conns, flags, dialing

-----------------------------------------------------------------------------
(* The flag and the counts in the callbacks' hands.                          *)

Storing == {"connectedWrite", "disconnectedWrite"}

\* The swarm's table and the callbacks agree.
TableFollows == \A c \in up : cb[c] \in {"connectedRead", "connectedWrite", "open"}

\* Some connection still has a callback to come that will read the count.
Unread ==
    \E c \in Conns :
       \/ cb[c] \in {"connectedRead", "disconnectedRead"}
       \/ cb[c] \in {"connectedWrite", "open"} /\ c \notin up

\* The callback that read last has still to store.
LastStores == lastRead \in Conns /\ cb[lastRead] \in Storing

\* Nothing changed since the last read, so its count is right: in the callback's
\* hands until it stores, in isReady afterwards unless another stored later.
CountFollows ==
    \/ Unread
    \/ LastStores /\ (seen[lastRead] <=> up # {})
    \/ ~LastStores /\ (outdated \/ (isReady <=> up # {}))

HInv == TypeOK /\ TableFollows /\ CountFollows

\* Only the swarm and the dials open connections, only the callbacks touch the
\* flag.
LEMMA OthersLeaveReadiness ==
    ASSUME \/ RegistryChanges \/ FirstNodes \/ StartBootstrapRetry(App) \/ Disconnect
           \/ \E d \in Delayers : DelayedStart(d)
           \/ \E r \in Retriers : Cancelled(r) \/ Tick(r) \/ GetNodes(r) \/ Exit(r)
           \/ \E w \in Workers : \/ Boot(w) \/ ConnectOk(w) \/ ConnectFails(w)
                                 \/ DialsDone(w) \/ Settle(w)
           \/ UNCHANGED vars
    PROVE  UNCHANGED <<conns, isReady>>
BY DEF RegistryChanges, FirstNodes, StartBootstrapRetry, CheckShutdown, LaunchRetry,
       Disconnect, ShutdownCancel, StopBootstrapRetry, CloseHost, HostClosed,
       DelayedStart, CheckRunning, Wake, Cancelled, Tick, GetNodes, Exit,
       Boot, ConnectOk, ConnectFails, DialsDone, Settle, vars

\* What opens, closes or notifies a connection leaves a callback to come.
LEMMA OthersKeepCount ==
    ASSUME HInv, Others, UNCHANGED history
    PROVE  TableFollows' /\ CountFollows'
<1> USE DEF HInv, TypeOK, TableFollows, history
<1>1. ASSUME UNCHANGED <<conns, isReady>> PROVE TableFollows' /\ CountFollows'
  BY <1>1 DEF CountFollows, Unread, LastStores
<1>2. ASSUME NEW c \in Conns, Opens(c) PROVE TableFollows' /\ CountFollows'
  <2>1. TableFollows'
    BY <1>2 DEF Opens, Fresh
  <2>2. Unread'
    BY <1>2 DEF Opens, Unread
  <2> QED
    BY <2>1, <2>2 DEF CountFollows
<1>3. ASSUME NEW c \in Conns, PeerDrops(c) PROVE TableFollows' /\ CountFollows'
  <2>1. cb' = cb /\ c \in up /\ up' = up \ {c}
    BY <1>3 DEF PeerDrops
  <2>2. Unread'
    BY <2>1 DEF Unread
  <2> QED
    BY <2>1, <2>2 DEF CountFollows
<1>4. ASSUME NEW c \in Conns, DisconnectedStarts(c) PROVE TableFollows' /\ CountFollows'
  <2>1. cb' = [cb EXCEPT ![c] = "disconnectedRead"] /\ up' = up /\ c \notin up
    BY <1>4 DEF DisconnectedStarts, DisconnectedF
  <2>2. Unread'
    BY <2>1 DEF Unread
  <2> QED
    BY <2>1, <2>2 DEF CountFollows
<1>5. ASSUME NEW w \in Workers, DialOpens(w) PROVE TableFollows' /\ CountFollows'
  BY <1>2, <1>5 DEF DialOpens
<1>6. CASE Environment
  BY <1>1, <1>2, <1>3, <1>4, <1>6, OthersLeaveReadiness DEF Environment, PeerConnects
<1>7. CASE Connect
  BY <1>1, <1>5, <1>7, OthersLeaveReadiness, ProcsDistinct DEF Connect, BootstrapNetwork
<1>8. CASE \E r \in Retriers : RetryLoop(r)
  BY <1>1, <1>5, <1>8, OthersLeaveReadiness, ProcsDistinct DEF RetryLoop, BootstrapNetwork
<1> QED
  BY <1>1, <1>6, <1>7, <1>8, OthersLeaveReadiness DEF Others, Terminated

LEMMA ReadsKeepsCount ==
    ASSUME HInv, NEW c \in Conns, Reads(c)
    PROVE  TableFollows' /\ CountFollows'
<1> USE DEF HInv, TypeOK, TableFollows
<1>1. /\ \/ cb[c] = "connectedRead" /\ cb' = [cb EXCEPT ![c] = "connectedWrite"]
         \/ cb[c] = "disconnectedRead" /\ cb' = [cb EXCEPT ![c] = "disconnectedWrite"]
      /\ seen' = [seen EXCEPT ![c] = up # {}]
      /\ up' = up /\ lastRead' = c
  BY DEF Reads, ReadPeerCount
<1>2. TableFollows'
  BY <1>1
<1>3. LastStores' /\ (seen'[lastRead'] <=> up' # {})
  BY <1>1 DEF LastStores, Storing
<1> QED
  BY <1>2, <1>3 DEF CountFollows

LEMMA StoresKeepsCount ==
    ASSUME HInv, NEW c \in Conns, Stores(c)
    PROVE  TableFollows' /\ CountFollows'
<1> USE DEF HInv, TypeOK, TableFollows
<1>1. /\ \/ cb[c] = "connectedWrite" /\ cb' = [cb EXCEPT ![c] = "open"]
         \/ cb[c] = "disconnectedWrite" /\ cb' = [cb EXCEPT ![c] = "none"]
      /\ isReady' = seen[c] /\ seen' = [seen EXCEPT ![c] = FALSE]
      /\ up' = up /\ outdated' = (lastRead # c) /\ lastRead' = lastRead
  BY DEF Stores, UpdateReadiness
<1>2. TableFollows'
  BY <1>1
<1>3. CASE Unread
  <2>1. PICK k \in Conns : \/ cb[k] \in {"connectedRead", "disconnectedRead"}
                           \/ cb[k] \in {"connectedWrite", "open"} /\ k \notin up
    BY <1>3 DEF Unread
  <2>2. \/ cb'[k] \in {"connectedRead", "disconnectedRead"}
        \/ cb'[k] \in {"connectedWrite", "open"} /\ k \notin up'
    BY <1>1, <2>1
  <2> QED
    BY <1>2, <2>2 DEF CountFollows, Unread
<1>4. CASE ~Unread /\ lastRead = c
  <2>1. LastStores /\ ~LastStores' /\ ~outdated'
    BY <1>1, <1>4 DEF LastStores, Storing
  <2>2. isReady' <=> up' # {}
    BY <1>1, <1>4, <2>1 DEF CountFollows
  <2> QED
    BY <1>2, <2>1, <2>2 DEF CountFollows
<1>5. CASE ~Unread /\ lastRead # c
  <2>1. LastStores' = LastStores /\ outdated'
    BY <1>1, <1>5 DEF LastStores
  <2>2. LastStores => seen'[lastRead'] = seen[lastRead]
    BY <1>1, <1>5 DEF LastStores
  <2> QED
    BY <1>1, <1>2, <1>5, <2>1, <2>2 DEF CountFollows
<1> QED
  BY <1>3, <1>4, <1>5

LEMMA HInvStep == HInv /\ [HistoryNext]_<<vars, history>> => HInv'
<1> SUFFICES ASSUME HInv, [HistoryNext]_<<vars, history>> PROVE HInv'
  OBVIOUS
<1>1. [Next]_vars
  BY DEF HistoryNext, Next, Reads, Stores, Callback
<1>2. TypeOK'
  BY <1>1, TypeStep DEF HInv
<1>3. CASE UNCHANGED <<vars, history>>
  BY <1>2, <1>3 DEF vars, history, HInv, TableFollows, CountFollows, Unread, LastStores
<1>4. CASE HistoryNext
  BY <1>2, <1>4, OthersKeepCount, ReadsKeepsCount, StoresKeepsCount DEF HistoryNext, HInv
<1> QED
  BY <1>3, <1>4

LEMMA HInvInit == Init /\ HistoryInit => HInv
<1> SUFFICES ASSUME Init, HistoryInit PROVE HInv
  OBVIOUS
<1>1. TypeOK
  BY TypeInit
<1>2. TableFollows
  BY <1>1 DEF Init, TableFollows, TypeOK
<1>3. ~LastStores /\ (outdated \/ (isReady <=> up # {}))
  BY RetryAssumption DEF Init, HistoryInit, LastStores
<1> QED
  BY <1>1, <1>2, <1>3 DEF HInv, CountFollows

\* Connections to any peers come and go, several to one peer as well, some of them
\* from before Notify, and any callbacks of updateReadiness overlap: when they have
\* come to rest isReady is exact, unless the last to store read before another.
THEOREM ReadinessCorrect == HistorySpec => []ReadyUnlessOutdated
<1>1. HInv => ReadyUnlessOutdated
  <2> SUFFICES ASSUME HInv, Quiet, ~outdated PROVE isReady <=> up # {}
    BY DEF ReadyUnlessOutdated
  <2>1. ~Unread
    BY DEF Quiet, Unread
  <2>2. ~LastStores
    BY DEF Quiet, LastStores, Storing
  <2> QED
    BY <2>1, <2>2 DEF HInv, CountFollows
<1> QED
  BY <1>1, HInvInit, HInvStep, PTL DEF HistorySpec

-----------------------------------------------------------------------------
(* A calm network: nobody goes away, and the list of bootstrap nodes is      *)
(* there from the start or becomes available, without an error.  Without any *)
(* of the three the code does give up (README, section 4).                   *)

Calm ==
    /\ ~PeersDrop
    /\ "error" \notin FirstAnswers
    /\ \A change \in AnswerChanges : change[2] = "nodes"

\* Until the application begins to disconnect.
Serving == pc[App] \notin {"stop", "close", "closing", "done"}

Undisturbed ==
    /\ hostOpen /\ ~shutdown /\ cancelled = {}
    /\ registry \in {"empty", "nodes"}
    /\ \A d \in Delayers : pc[d] = "idle"

\* Every connection is counted or about to be, and stays.
Counted(c) ==
    /\ cb[c] \in {"none", "connectedRead", "connectedWrite", "open"}
    /\ cb[c] = "none" <=> c \notin up
    /\ cb[c] = "connectedWrite" => seen[c]

AllCounted == \A c \in Conns : Counted(c)

\* Who goes by a success has seen a peer.
SuccessMeansPeers ==
    /\ isReady => up # {}
    /\ \A w \in Workers :
          connected[w] \/ pc[w] \in {"notify", "settle", "exit"} => up # {}

\* Who dials got a list, so that bootstrapNetwork does not find it empty.
ListKnown == \A w \in Workers : pc[w] \in {"boot", "dial", "notify"} => registry = "nodes"

\* Before Connect returns nobody retries; from then on, without peers, somebody.
SomebodySearches ==
    IF pc[App] = "connected"
    THEN up # {} \/ \E r \in Retriers : Searching(r)
    ELSE retryCancel = NoRetry /\ \A r \in Retriers : pc[r] = "idle"

CalmState ==
    /\ Undisturbed
    /\ AllCounted
    /\ SuccessMeansPeers
    /\ ListKnown
    /\ SomebodySearches

CalmInv == Serving => CalmState

LEMMA CalmInit == ASSUME Calm, Init PROVE CalmInv
<1>1. Undisturbed
  BY ProcsDistinct, RetryAssumption DEF Init, Calm, Undisturbed, Answers
<1>2. AllCounted
  BY DEF Init, Calm, AllCounted, Counted
<1>3. SuccessMeansPeers /\ ListKnown /\ SomebodySearches
  BY ProcsDistinct DEF Init, SuccessMeansPeers, ListKnown, SomebodySearches
<1> QED
  BY <1>1, <1>2, <1>3 DEF CalmInv, CalmState

\* A worker goes on to another place of its program; it may have found a peer.
LEMMA WorkerMoves ==
    ASSUME TypeOK, CalmState, NEW w \in Workers, NEW label, Goto(w, label),
           pc[w] # "idle", label # "idle",
           UNCHANGED <<registry, isReady, retryCancel, cancelled, shutdown, hostOpen>>,
           up \subseteq up',
           \A v \in Workers \ {w} : connected'[v] = connected[v],
           connected'[w] \/ label \in {"notify", "settle", "exit"} => up' # {},
           label \in {"boot", "dial", "notify"} => registry = "nodes",
           w = App => pc[App] # "connected" /\ (label = "connected" => up' # {}),
           w # App => label \in RetrierStates,
           AllCounted'
    PROVE  CalmState'
<1> USE ProcsDistinct
<1>1. pc'[w] = label /\ \A q \in Procs \ {w} : pc'[q] = pc[q]
  BY DEF Goto, TypeOK
<1>2. Undisturbed'
  BY <1>1, RetryAssumption DEF CalmState, Undisturbed, Workers
<1>3. SuccessMeansPeers'
  BY <1>1 DEF CalmState, SuccessMeansPeers
<1>4. ListKnown'
  BY <1>1 DEF CalmState, ListKnown
<1>5. SomebodySearches'
  <2>1. CASE w = App
    BY <1>1, <2>1 DEF CalmState, SomebodySearches
  <2>2. CASE w # App
    <3>1. w \in Retriers /\ pc[App] = "connected" /\ pc'[App] = "connected"
      BY <1>1, <2>2 DEF CalmState, SomebodySearches, Workers
    <3>2. CASE up' # {}
      BY <3>1, <3>2 DEF SomebodySearches
    <3>3. CASE up' = {}
      <4>1. PICK r \in Retriers : Searching(r)
        BY <3>1, <3>3 DEF CalmState, SomebodySearches
      <4>2. Searching(r)'
        BY <1>1, <2>2, <3>3, <4>1 DEF Searching
      <4> QED
        BY <3>1, <4>1, <4>2 DEF SomebodySearches
    <3> QED
      BY <3>2, <3>3
  <2> QED
    BY <2>1, <2>2
<1> QED
  BY <1>2, <1>3, <1>4, <1>5 DEF CalmState

\* Nobody's context is done.
LEMMA NotDone == ASSUME CalmState, NEW w \in Workers PROVE ~Done(w)
BY DEF CalmState, Undisturbed, Done

LEMMA BootstrapCalm ==
    ASSUME TypeOK, CalmState, NEW w \in Workers, BootstrapNetwork(w)
    PROVE  CalmState'
<1> USE DEF TypeOK
<1>1. UNCHANGED <<cb, up, seen>> => AllCounted'
  BY DEF CalmState, AllCounted, Counted
<1>2. DialStates \cup {"select"} \subseteq RetrierStates /\ "exit" \in RetrierStates
  BY DEF RetrierStates
<1>3. CASE Boot(w)
  <2>1. registry = "nodes"
    BY <1>3 DEF Boot, CalmState, ListKnown
  <2>2. Goto(w, "dial") /\ connected' = [connected EXCEPT ![w] = FALSE] /\ pc[w] = "boot"
        /\ UNCHANGED <<registry, conns, flags>>
    BY <1>3, <2>1, NotDone DEF Boot
  <2> QED
    BY <1>1, <1>2, <2>1, <2>2, WorkerMoves DEF DialStates
<1>4. CASE DialOpens(w)
  <2>1. pc[w] = "dial" /\ Goto(w, "notify") /\ UNCHANGED <<registry, seen, flags, connected>>
    BY <1>4 DEF DialOpens
  <2>4. PICK c \in Conns : Opens(c)
    BY <1>4 DEF DialOpens
  <2>5. up' = up \cup {c} /\ cb' = [cb EXCEPT ![c] = "connectedRead"]
    BY <2>4 DEF Opens
  <2>2. AllCounted'
    BY <2>1, <2>5 DEF CalmState, AllCounted, Counted
  <2>3. registry = "nodes"
    BY <2>1 DEF CalmState, ListKnown
  <2> QED
    BY <1>2, <2>1, <2>2, <2>3, <2>5, WorkerMoves DEF DialStates
<1>5. CASE ConnectOk(w)
  <2>1. pc[w] \in {"dial", "notify"} /\ Goto(w, "dial")
        /\ connected' = [connected EXCEPT ![w] = TRUE] /\ UNCHANGED <<registry, conns, flags>>
    BY <1>5 DEF ConnectOk
  <2>2. up # {} /\ registry = "nodes"
    BY <1>5, <2>1 DEF ConnectOk, CalmState, SuccessMeansPeers, ListKnown
  <2> QED
    BY <1>1, <1>2, <2>1, <2>2, WorkerMoves DEF DialStates
<1>6. CASE ConnectFails(w)
  <2>1. pc[w] \in {"dial", "notify"} /\ Goto(w, "dial")
        /\ UNCHANGED <<registry, conns, flags, connected>>
    BY <1>6 DEF ConnectFails
  <2>2. registry = "nodes" /\ (connected[w] => up # {})
    BY <2>1 DEF CalmState, SuccessMeansPeers, ListKnown
  <2> QED
    BY <1>1, <1>2, <2>1, <2>2, WorkerMoves DEF DialStates
<1>7. CASE DialsDone(w)
  <2>1. pc[w] = "dial" /\ connected' = [connected EXCEPT ![w] = FALSE]
        /\ UNCHANGED <<registry, conns, flags>>
    BY <1>7 DEF DialsDone
  <2>2. CASE connected[w]
    <3>1. Goto(w, "settle") /\ up # {}
      BY <1>7, <2>2 DEF DialsDone, Succeeded, CalmState, SuccessMeansPeers
    <3> QED
      BY <1>1, <1>2, <2>1, <3>1, WorkerMoves DEF DialStates
  <2>3. CASE ~connected[w]
    <3>1. Goto(w, IF w = App THEN "start" ELSE "select")
      BY <1>7, <2>3 DEF DialsDone, Failed
    <3> QED
      BY <1>1, <1>2, <2>1, <3>1, WorkerMoves DEF DialStates
  <2> QED
    BY <2>2, <2>3
<1>8. CASE Settle(w)
  <2>1. pc[w] = "settle" /\ Goto(w, IF w = App THEN "connected" ELSE "exit")
        /\ UNCHANGED <<registry, conns, flags, dialing>>
    BY <1>8 DEF Settle
  <2>2. up # {}
    BY <2>1 DEF CalmState, SuccessMeansPeers
  <2> QED
    BY <1>1, <1>2, <2>1, <2>2, WorkerMoves
<1> QED
  BY <1>3, <1>4, <1>5, <1>6, <1>7, <1>8 DEF BootstrapNetwork

LEMMA EnvironmentCalm ==
    ASSUME Calm, TypeOK, CalmState, Environment
    PROVE  CalmState'
<1> USE DEF TypeOK, CalmState
<1>1. CASE RegistryChanges
  <2>1. registry' = "nodes" /\ UNCHANGED <<conns, flags, pc, dialing>>
    BY <1>1 DEF RegistryChanges, Calm
  <2> QED
    BY <2>1 DEF Undisturbed, AllCounted, Counted, SuccessMeansPeers, ListKnown,
                SomebodySearches, Searching
<1>2. ASSUME NEW c \in Conns, PeerConnects(c) PROVE CalmState'
  <2>1. /\ cb[c] = "none" /\ up' = up \cup {c}
        /\ cb' = [cb EXCEPT ![c] = "connectedRead"]
        /\ UNCHANGED <<registry, seen, flags, pc, dialing>>
    BY <1>2 DEF PeerConnects, Opens, Fresh
  <2>2. AllCounted'
    BY <2>1 DEF AllCounted, Counted
  <2> QED
    BY <2>1, <2>2 DEF Undisturbed, SuccessMeansPeers, ListKnown, SomebodySearches, Searching
<1>3. ASSUME NEW c \in Conns PROVE ~PeerDrops(c) /\ ~DisconnectedStarts(c)
  BY DEF Calm, PeerDrops, DisconnectedStarts, Undisturbed, AllCounted, Counted
<1> QED
  BY <1>1, <1>2, <1>3 DEF Environment

\* A callback counts its own connection: the flag only becomes true, and no delayed
\* starter is spawned.
LEMMA CallbackCalm ==
    ASSUME TypeOK, CalmState, NEW c \in Conns, Callback(c)
    PROVE  CalmState'
<1> USE DEF TypeOK, CalmState
<1>1. cb[c] \in {"connectedRead", "connectedWrite"} => c \in up
  BY DEF AllCounted, Counted
<1>2. CASE ReadPeerCount(c)
  <2>1. /\ cb[c] = "connectedRead" /\ cb' = [cb EXCEPT ![c] = "connectedWrite"]
        /\ seen' = [seen EXCEPT ![c] = up # {}]
        /\ UNCHANGED <<registry, up, flags, pc, dialing>>
    BY <1>2 DEF ReadPeerCount, AllCounted, Counted
  <2>2. AllCounted'
    BY <1>1, <2>1 DEF AllCounted, Counted
  <2> QED
    BY <2>1, <2>2 DEF Undisturbed, SuccessMeansPeers, ListKnown, SomebodySearches, Searching
<1>3. CASE UpdateReadiness(c)
  <2>1. /\ cb[c] = "connectedWrite" /\ seen[c] /\ cb' = [cb EXCEPT ![c] = "open"]
        /\ isReady' /\ seen' = [seen EXCEPT ![c] = FALSE] /\ UNCHANGED pc
        /\ UNCHANGED <<registry, up, retryCancel, cancelled, shutdown, hostOpen, dialing>>
    BY <1>3 DEF UpdateReadiness, AllCounted, Counted
  <2>2. AllCounted'
    BY <2>1 DEF AllCounted, Counted
  <2> QED
    BY <1>1, <2>1, <2>2 DEF Undisturbed, SuccessMeansPeers, ListKnown, SomebodySearches,
                            Searching
<1> QED
  BY <1>2, <1>3 DEF Callback

\* Connect without a node launches the retry: none is stored yet.
LEMMA StartCalm ==
    ASSUME TypeOK, CalmState, FirstNodes \/ StartBootstrapRetry(App)
    PROVE  CalmState'
<1> USE ProcsDistinct DEF TypeOK, CalmState
<1>1. UNCHANGED conns => AllCounted'
  BY DEF AllCounted, Counted
<1>2. ASSUME NEW label \in {"start", "boot", "lock"}, Goto(App, label),
             pc[App] \in {"first", "start"}, label = "boot" => registry = "nodes",
             UNCHANGED <<registry, conns, flags, dialing>>
      PROVE  CalmState'
  <2>1. \A v \in Workers \ {App} : connected'[v] = connected[v]
    BY <1>2
  <2>2. connected'[App] => up' # {}
    BY <1>2 DEF SuccessMeansPeers
  <2> QED
    BY <1>1, <1>2, <2>1, <2>2, WorkerMoves
<1>3. CASE FirstNodes
  <2>1. registry # "error"
    BY DEF Undisturbed
  <2> QED
    BY <1>2, <1>3, <2>1 DEF FirstNodes, FirstEmpty
<1>4. CASE CheckShutdown(App)
  BY <1>2, <1>4 DEF CheckShutdown, ShuttingDown, Undisturbed
<1>5. CASE LaunchRetry(App)
  <2>1. retryCancel = NoRetry
    BY <1>5 DEF LaunchRetry, SomebodySearches
  <2>2. PICK r \in Retriers :
           pc' = [pc EXCEPT ![App] = "connected", ![r] = "select"]
    BY <1>5, <2>1 DEF LaunchRetry, RetryRuns
  <2>3. UNCHANGED <<registry, conns, isReady, cancelled, shutdown, hostOpen, dialing>>
    BY <1>5 DEF LaunchRetry
  <2>4. /\ pc'[App] = "connected" /\ pc'[r] = "select"
        /\ \A q \in Procs \ {App, r} : pc'[q] = pc[q]
    BY <2>2
  <2>5. Undisturbed' /\ AllCounted'
    BY <2>3, <2>4 DEF Undisturbed, AllCounted, Counted
  <2>6. SuccessMeansPeers' /\ ListKnown'
    BY <2>3, <2>4 DEF SuccessMeansPeers, ListKnown, Workers
  <2>7. SomebodySearches'
    BY <2>4 DEF SomebodySearches, Searching, RetrierStates
  <2> QED
    BY <2>5, <2>6, <2>7
<1> QED
  BY <1>3, <1>4, <1>5 DEF StartBootstrapRetry

\* The retry ends only when the node has a peer.
LEMMA RetryCalm ==
    ASSUME TypeOK, CalmState, NEW r \in Retriers, RetryLoop(r)
    PROVE  CalmState'
<1> USE ProcsDistinct DEF TypeOK, CalmState
<1>1. ASSUME NEW label \in {"exit", "nodes", "boot", "select"}, Goto(r, label),
             pc[r] # "idle", label = "exit" => up # {}, label = "boot" => registry = "nodes",
             UNCHANGED <<registry, conns, flags, dialing>>
      PROVE  CalmState'
  <2>1. AllCounted'
    BY <1>1 DEF AllCounted, Counted
  <2>2. connected'[r] => up' # {}
    BY <1>1 DEF SuccessMeansPeers
  <2>3. label \in RetrierStates
    BY DEF RetrierStates, DialStates
  <2> QED
    BY <1>1, <2>1, <2>2, <2>3, WorkerMoves
<1>2. ~Cancelled(r)
  BY NotDone DEF Cancelled
<1>3. CASE Tick(r)
  BY <1>1, <1>3 DEF Tick, IsReady, SuccessMeansPeers
<1>4. CASE GetNodes(r)
  BY <1>1, <1>4, NotDone DEF GetNodes
<1>5. CASE Exit(r)
  <2>1. pc[r] = "exit" /\ Goto(r, "idle") /\ cancelled' = cancelled \ {r}
        /\ UNCHANGED <<registry, conns, isReady, shutdown, hostOpen, dialing>>
    BY <1>5 DEF Exit
  <2>2. up # {} /\ pc[App] = "connected"
    BY <2>1 DEF SuccessMeansPeers, SomebodySearches
  <2>3. pc'[r] = "idle" /\ \A q \in Procs \ {r} : pc'[q] = pc[q]
    BY <2>1 DEF Goto
  <2> QED
    BY <2>1, <2>2, <2>3 DEF Undisturbed, AllCounted, Counted, SuccessMeansPeers, ListKnown,
                            SomebodySearches
<1>6. CASE BootstrapNetwork(r)
  BY <1>6, BootstrapCalm
<1> QED
  BY <1>2, <1>3, <1>4, <1>5, <1>6 DEF RetryLoop

\* A Disconnect that began goes on to its end.
LEMMA LeavesForGood == ASSUME TypeOK, ~Serving, [Next]_vars PROVE ~Serving'
<1> USE ProcsDistinct DEF TypeOK, Serving
<1>1. ASSUME NEW q \in Procs \ {App}, NEW label, Goto(q, label) PROVE ~Serving'
  BY <1>1 DEF Goto
<1>2. ASSUME UNCHANGED pc PROVE ~Serving'
  BY <1>2
<1>3. CASE Environment
  BY <1>2, <1>3 DEF Environment, RegistryChanges, PeerConnects, PeerDrops, DisconnectedStarts
<1>4. ASSUME NEW c \in Conns, Callback(c) PROVE ~Serving'
  BY <1>1, <1>2, <1>4 DEF Callback, ReadPeerCount, UpdateReadiness
<1>5. ~Connect /\ ~StartBootstrapRetry(App)
  BY DEF Connect, FirstNodes, BootstrapNetwork, Boot, DialOpens, ConnectOk, ConnectFails,
         DialsDone, Settle, StartBootstrapRetry, CheckShutdown, LaunchRetry
<1>6. CASE Disconnect
  BY <1>6 DEF Disconnect, ShutdownCancel, StopBootstrapRetry, CloseHost, HostClosed, Goto
<1>7. ASSUME NEW d \in Delayers, DelayedStart(d) PROVE ~Serving'
  <2>1. CASE \E label : Goto(d, label)
    BY <1>1, <2>1
  <2>2. CASE LaunchRetry(d)
    BY <2>2 DEF LaunchRetry, StartReturns, Goto
  <2> QED
    BY <1>7, <2>1, <2>2 DEF DelayedStart, CheckRunning, Wake, StartBootstrapRetry,
                            CheckShutdown, StartReturns
<1>8. ASSUME NEW r \in Retriers, RetryLoop(r) PROVE ~Serving'
  <2>1. \E label : Goto(r, label)
    BY <1>8 DEF RetryLoop, Cancelled, Tick, GetNodes, Exit, BootstrapNetwork, Boot,
                DialOpens, ConnectOk, ConnectFails, DialsDone, Settle, Succeeded, Failed
  <2> QED
    BY <1>1, <2>1
<1>9. CASE UNCHANGED vars
  BY <1>2, <1>9 DEF vars
<1> QED
  BY <1>3, <1>4, <1>5, <1>6, <1>7, <1>8, <1>9 DEF Next, Others, Terminated

LEMMA CalmStep ==
    ASSUME Calm, TypeOK, CalmInv, [Next]_vars
    PROVE  CalmInv'
<1> SUFFICES ASSUME Serving' PROVE CalmState'
  BY DEF CalmInv
<1>1. Serving /\ CalmState
  BY LeavesForGood DEF CalmInv
<1>2. CASE Environment
  BY <1>1, <1>2, EnvironmentCalm
<1>3. CASE \E c \in Conns : Callback(c)
  BY <1>1, <1>3, CallbackCalm
<1>4. CASE Connect \/ StartBootstrapRetry(App)
  BY <1>1, <1>4, StartCalm, BootstrapCalm, ProcsDistinct DEF Connect
<1>5. ~Disconnect
  BY <1>1, ProcsDistinct
     DEF Serving, Disconnect, ShutdownCancel, StopBootstrapRetry, CloseHost, HostClosed,
         Goto, TypeOK
<1>6. ASSUME NEW d \in Delayers PROVE ~DelayedStart(d)
  BY <1>1 DEF CalmState, Undisturbed, DelayedStart, CheckRunning, Wake, StartBootstrapRetry,
              CheckShutdown, LaunchRetry
<1>7. CASE \E r \in Retriers : RetryLoop(r)
  BY <1>1, <1>7, RetryCalm
<1>8. CASE UNCHANGED vars
  BY <1>1, <1>8
     DEF vars, CalmState, Undisturbed, AllCounted, Counted, SuccessMeansPeers, ListKnown,
         SomebodySearches, Searching
<1> QED
  BY <1>2, <1>3, <1>4, <1>5, <1>6, <1>7, <1>8 DEF Next, Others, Terminated

LEMMA CalmInvariant == ASSUME Calm PROVE Spec => [](TypeOK /\ CalmInv)
<1>1. Init => CalmInv
  BY CalmInit
<1>2. TypeOK /\ CalmInv /\ [Next]_vars => CalmInv'
  BY CalmStep
<1> QED
  BY <1>1, <1>2, TypeCorrect, PTL DEF Spec

\* In a calm network a node without peers never gives up: neither failed dials nor
\* an empty list nor another retry ends the search, for any number of goroutines
\* and any list.
THEOREM NeverGivesUp == ASSUME Calm PROVE Spec => []RetryWhileNotReady
<1>1. CalmInv => RetryWhileNotReady
  BY DEF CalmInv, CalmState, Serving, SomebodySearches, RetryWhileNotReady
<1> QED
  BY <1>1, CalmInvariant, PTL

=============================================================================
