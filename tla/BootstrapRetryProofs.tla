----------------------- MODULE BootstrapRetryProofs -----------------------
(***************************************************************************)
(* Type correctness of BootstrapRetry, and its safety before shutdown: the *)
(* stored cancel function is that of the running retry goroutine, hence    *)
(* at most one runs, and the safety of RetryService is implemented, for    *)
(* any connections, goroutines and list.                                   *)
(***************************************************************************)
EXTENDS BootstrapRetry, TLAPS

AllStates == AppStates \cup RetrierStates \cup DelayerStates

\* What the actions rely on about the goroutine that a step of pc moves.
LEMMA ProcsDistinct ==
    /\ App \in Workers /\ App \in Procs /\ App \notin Retriers /\ App \notin Delayers
    /\ Retriers \subseteq Workers /\ Retriers \subseteq Procs
    /\ Delayers \subseteq Procs /\ Delayers \cap Retriers = {}
    /\ Workers \subseteq Procs
BY RetryAssumption DEF Workers, Procs

\* Moving one goroutine to a place of its own program keeps pc well typed.
PcTyped(f) ==
    /\ f \in [Procs -> AllStates]
    /\ f[App] \in AppStates
    /\ \A r \in Retriers : f[r] \in RetrierStates
    /\ \A d \in Delayers : f[d] \in DelayerStates

LEMMA GotoTyped ==
    ASSUME NEW f, PcTyped(f), NEW q \in Procs, NEW label,
           q = App => label \in AppStates,
           q \in Retriers => label \in RetrierStates,
           q \in Delayers => label \in DelayerStates
    PROVE  PcTyped([f EXCEPT ![q] = label])
<1>1. label \in AllStates
  BY DEF AllStates, Procs, Workers
<1>2. [f EXCEPT ![q] = label] \in [Procs -> AllStates]
  BY <1>1 DEF PcTyped
<1>3. \A x \in Procs : [f EXCEPT ![q] = label][x] = IF x = q THEN label ELSE f[x]
  BY DEF PcTyped
<1> QED
  BY <1>2, <1>3, ProcsDistinct DEF PcTyped

\* TypeOK without the part on pc.
DataTyped ==
    /\ registry \in Answers
    /\ up \in SUBSET Conns
    /\ cb \in [Conns -> CbStates]
    /\ seen \in [Conns -> BOOLEAN]
    /\ isReady \in BOOLEAN
    /\ retryCancel \in Retriers \cup {NoRetry}
    /\ cancelled \in SUBSET Retriers
    /\ shutdown \in BOOLEAN
    /\ hostOpen \in BOOLEAN
    /\ todo \in [Workers -> Seq(Peers)]
    /\ dialled \in [Workers -> Conns \cup {NoConn}]
    /\ connected \in [Workers -> BOOLEAN]

LEMMA TypeParts == TypeOK <=> DataTyped /\ PcTyped(pc)
BY DEF TypeOK, DataTyped, PcTyped, AllStates

LEMMA TypeInit == Init => TypeOK
<1> SUFFICES ASSUME Init PROVE TypeOK
  OBVIOUS
<1>1. DataTyped
  <2>1. <<>> \in Seq(Peers)
    OBVIOUS
  <2> QED
    BY <2>1, RetryAssumption DEF Init, DataTyped, Answers, CbStates
<1>2. pc \in [Procs -> AllStates]
  BY DEF Init, AllStates, AppStates, RetrierStates
<1>3. PcTyped(pc)
  BY <1>2, ProcsDistinct DEF Init, PcTyped, AppStates, RetrierStates, DelayerStates
<1> QED
  BY <1>1, <1>3, TypeParts

USE DEF conns, flags, dialing

\* The environment and the callbacks.
LEMMA EnvironmentTyped == TypeOK /\ Environment => TypeOK'
<1> SUFFICES ASSUME TypeOK, Environment PROVE TypeOK'
  OBVIOUS
<1>1. CASE RegistryChanges
  BY <1>1, RetryAssumption DEF RegistryChanges, TypeOK, Answers
<1>2. ASSUME NEW c \in Conns, PeerConnects(c) PROVE TypeOK'
  BY <1>2 DEF PeerConnects, Opens, TypeOK, CbStates
<1>3. ASSUME NEW c \in Conns, PeerDrops(c) PROVE TypeOK'
  BY <1>3 DEF PeerDrops, TypeOK
<1>4. ASSUME NEW c \in Conns, DisconnectedStarts(c) PROVE TypeOK'
  BY <1>4 DEF DisconnectedStarts, DisconnectedF, TypeOK, CbStates
<1> QED
  BY <1>1, <1>2, <1>3, <1>4 DEF Environment

LEMMA CallbackTyped ==
    ASSUME TypeOK, NEW c \in Conns, Callback(c) PROVE TypeOK'
<1>1. CASE ReadPeerCount(c)
  BY <1>1 DEF ReadPeerCount, TypeOK, CbStates
<1>2. CASE UpdateReadiness(c)
  <2>1. DataTyped'
    <3>1. seen[c] \in BOOLEAN
      BY DEF TypeOK
    <3> QED
      BY <1>2, <3>1 DEF UpdateReadiness, TypeOK, DataTyped, CbStates
  <2>2. PcTyped(pc')
    <3>1. PcTyped(pc)
      BY TypeParts
    <3>2. CASE isReady /\ ~seen[c]
      <4>1. PICK d \in Delayers : pc[d] = "idle" /\ Goto(d, "check")
        BY <1>2, <3>2 DEF UpdateReadiness
      <4> QED
        BY <3>1, <4>1, GotoTyped, ProcsDistinct DEF Goto, DelayerStates
    <3>3. CASE ~(isReady /\ ~seen[c])
      BY <1>2, <3>1, <3>3 DEF UpdateReadiness
    <3> QED
      BY <3>2, <3>3
  <2> QED
    BY <2>1, <2>2 DEF TypeOK, DataTyped, PcTyped, AllStates
<1> QED
  BY <1>1, <1>2 DEF Callback

\* Every other action moves one goroutine (LaunchRetry two) along its program.
LEMMA BootstrapTyped ==
    ASSUME TypeOK, NEW w \in Workers, BootstrapNetwork(w) PROVE TypeOK'
<1>1. PcTyped(pc) /\ w \in Procs /\ w \notin Delayers
  BY TypeParts, RetryAssumption DEF Procs, Workers
<1>2. ASSUME NEW label \in {"boot", "dial", "notify", "settle"}, Goto(w, label)
      PROVE  PcTyped(pc')
  BY <1>1, <1>2, GotoTyped DEF Goto, AppStates, RetrierStates, DialStates
<1>3. ASSUME Failed(w) PROVE PcTyped(pc')
  BY <1>1, <1>3, GotoTyped, ProcsDistinct DEF Failed, Goto, AppStates, RetrierStates
<1>4. DataTyped' /\ PcTyped(pc')
  <2>1. CASE Boot(w)
    <3>1. PcTyped(pc')
      BY <2>1, <1>2, <1>3 DEF Boot, Succeeded
    <3>2. DataTyped'
      BY <2>1, RetryAssumption DEF Boot, TypeOK, DataTyped
    <3> QED
      BY <3>1, <3>2
  <2>2. CASE DialOpens(w)
    <3>1. PICK c \in Conns : Opens(c) /\ dialled' = [dialled EXCEPT ![w] = c]
      BY <2>2 DEF DialOpens
    <3> QED
      BY <2>2, <3>1, <1>2 DEF DialOpens, Opens, TypeOK, DataTyped, CbStates
  <2>3. CASE ConnectOk(w)
    BY <2>3, <1>2 DEF ConnectOk, TypeOK, DataTyped
  <2>4. CASE ConnectFails(w)
    BY <2>4, <1>2 DEF ConnectFails, TypeOK, DataTyped
  <2>5. CASE DialsDone(w)
    BY <2>5, <1>2, <1>3 DEF DialsDone, Succeeded, TypeOK, DataTyped
  <2>6. CASE Settle(w)
    <3>1. PcTyped(pc')
      BY <2>6, <1>1, GotoTyped, ProcsDistinct DEF Settle, Goto, AppStates, RetrierStates
    <3> QED
      BY <2>6, <3>1 DEF Settle, TypeOK, DataTyped
  <2> QED
    BY <2>1, <2>2, <2>3, <2>4, <2>5, <2>6 DEF BootstrapNetwork
<1> QED
  BY <1>4 DEF TypeOK, DataTyped, PcTyped, AllStates

LEMMA StartTyped ==
    ASSUME TypeOK, NEW q \in {App} \cup Delayers, StartBootstrapRetry(q)
    PROVE  TypeOK'
<1>1. PcTyped(pc) /\ q \in Procs /\ q \notin Retriers
  BY TypeParts, ProcsDistinct
<1>2. ASSUME NEW f, PcTyped(f), NEW label \in {"start", "lock"}
      PROVE  PcTyped([f EXCEPT ![q] = label])
  BY <1>1, <1>2, GotoTyped DEF AppStates, DelayerStates
<1>3. ASSUME NEW f, PcTyped(f)
      PROVE  PcTyped([f EXCEPT ![q] = IF q = App THEN "connected" ELSE "idle"])
  BY <1>1, <1>3, GotoTyped, ProcsDistinct DEF AppStates, DelayerStates
<1>4. DataTyped' /\ PcTyped(pc')
  <2>1. CASE CheckShutdown(q)
    BY <2>1, <1>1, <1>2, <1>3 DEF CheckShutdown, StartReturns, Goto, TypeOK, DataTyped
  <2>2. CASE LaunchRetry(q)
    <3>1. DataTyped'
      BY <2>2 DEF LaunchRetry, TypeOK, DataTyped
    <3>2. CASE StartReturns(q)
      BY <3>1, <3>2, <1>1, <1>3 DEF StartReturns, Goto
    <3>3. ASSUME NEW r \in Retriers,
                 pc' = [pc EXCEPT ![q] = IF q = App THEN "connected" ELSE "idle",
                                  ![r] = "select"]
          PROVE  PcTyped(pc')
      <4> DEFINE f == [pc EXCEPT ![q] = IF q = App THEN "connected" ELSE "idle"]
      <4>1. PcTyped(f)
        BY <1>1, <1>3
      <4>2. PcTyped([f EXCEPT ![r] = "select"])
        BY <4>1, GotoTyped, ProcsDistinct DEF RetrierStates
      <4> QED
        BY <3>3, <4>2
    <3> QED
      BY <2>2, <3>1, <3>2, <3>3 DEF LaunchRetry
  <2> QED
    BY <2>1, <2>2 DEF StartBootstrapRetry
<1> QED
  BY <1>4 DEF TypeOK, DataTyped, PcTyped, AllStates

LEMMA DelayedTyped ==
    ASSUME TypeOK, NEW d \in Delayers, DelayedStart(d) PROVE TypeOK'
<1>1. CASE CheckRunning(d) \/ Wake(d)
  <2>1. PcTyped(pc')
    <3>1. PcTyped(pc)
      BY TypeParts
    <3>2. PICK label \in {"idle", "sleep", "start"} : Goto(d, label)
      BY <1>1 DEF CheckRunning, Wake
    <3> QED
      BY <3>1, <3>2, GotoTyped, ProcsDistinct DEF Goto, DelayerStates
  <2>2. DataTyped'
    BY <1>1 DEF CheckRunning, Wake, TypeOK, DataTyped
  <2> QED
    BY <2>1, <2>2 DEF TypeOK, DataTyped, PcTyped, AllStates
<1>2. CASE StartBootstrapRetry(d)
  BY <1>2, StartTyped
<1> QED
  BY <1>1, <1>2 DEF DelayedStart

LEMMA RetryTyped ==
    ASSUME TypeOK, NEW r \in Retriers, RetryLoop(r) PROVE TypeOK'
<1>1. CASE Cancelled(r) \/ Tick(r) \/ GetNodes(r) \/ Exit(r)
  <2>1. PcTyped(pc')
    <3>1. PcTyped(pc)
      BY TypeParts
    <3>2. PICK label \in {"exit", "nodes", "boot", "select", "idle"} : Goto(r, label)
      BY <1>1 DEF Cancelled, Tick, GetNodes, Exit
    <3> QED
      BY <3>1, <3>2, GotoTyped, ProcsDistinct DEF Goto, RetrierStates, DialStates
  <2>2. DataTyped'
    BY <1>1 DEF Cancelled, Tick, GetNodes, Exit, HandleCleared, TypeOK, DataTyped
  <2> QED
    BY <2>1, <2>2 DEF TypeOK, DataTyped, PcTyped, AllStates
<1>2. CASE BootstrapNetwork(r)
  BY <1>2, BootstrapTyped DEF Workers
<1> QED
  BY <1>1, <1>2 DEF RetryLoop

LEMMA AppTyped ==
    ASSUME TypeOK, Connect \/ Disconnect PROVE TypeOK'
<1>1. CASE FirstNodes \/ Disconnect
  <2>1. PcTyped(pc')
    <3>1. PcTyped(pc)
      BY TypeParts
    <3>2. PICK label \in {"connected", "start", "boot", "stop", "close",
                          "closing", "done"} : Goto(App, label)
      BY <1>1 DEF FirstNodes, FirstEmpty, Disconnect, ShutdownCancel, StopBootstrapRetry,
                  CloseHost, HostClosed
    <3> QED
      BY <3>1, <3>2, GotoTyped, ProcsDistinct DEF Goto, AppStates, DialStates
  <2>2. DataTyped'
    BY <1>1 DEF FirstNodes, Disconnect, ShutdownCancel, StopBootstrapRetry,
                CloseHost, HostClosed, Stopped, TypeOK, DataTyped
  <2> QED
    BY <2>1, <2>2 DEF TypeOK, DataTyped, PcTyped, AllStates
<1>2. CASE BootstrapNetwork(App)
  BY <1>2, BootstrapTyped DEF Workers
<1> QED
  BY <1>1, <1>2 DEF Connect

LEMMA TypeStep == TypeOK /\ [Next]_vars => TypeOK'
<1> SUFFICES ASSUME TypeOK, [Next]_vars PROVE TypeOK'
  OBVIOUS
<1>1. CASE Environment
  BY <1>1, EnvironmentTyped
<1>2. CASE \E c \in Conns : Callback(c)
  BY <1>2, CallbackTyped
<1>3. CASE Connect \/ Disconnect
  BY <1>3, AppTyped
<1>4. CASE StartBootstrapRetry(App)
  BY <1>4, StartTyped
<1>5. CASE \E d \in Delayers : DelayedStart(d)
  BY <1>5, DelayedTyped
<1>6. CASE \E r \in Retriers : RetryLoop(r)
  BY <1>6, RetryTyped
<1>7. CASE UNCHANGED vars
  BY <1>7 DEF vars, TypeOK
<1> QED
  BY <1>1, <1>2, <1>3, <1>4, <1>5, <1>6, <1>7 DEF Next, Others, Terminated

\* The variables keep their types (all of infrastructure.go's retry state), for
\* any number of connections and goroutines.
THEOREM TypeCorrect == Spec => []TypeOK
BY TypeInit, TypeStep, PTL DEF Spec

-----------------------------------------------------------------------------
(***************************************************************************)
(* HandleIsRunningRetry is inductive once it is known that Disconnect      *)
(* reaches stopBootstrapRetry only after shutdownCancel: StopBootstrapRetry*)
(* forgets the handle of a goroutine that still runs.                      *)
(***************************************************************************)
StopsAfterShutdown ==
    pc[App] \in {"stop", "close", "closing", "done"} => shutdown

IInv == TypeOK /\ StopsAfterShutdown /\ HandleIsRunningRetry

LEMMA IInvInit == Init => IInv
BY TypeInit, RetryAssumption, ProcsDistinct
   DEF IInv, Init, StopsAfterShutdown, HandleIsRunningRetry, Alive

\* A goroutine moves inside its program; no retrier starts or ends.
LEMMA QuietMove ==
    ASSUME IInv, UNCHANGED <<retryCancel, shutdown>>,
           NEW q \in Procs, NEW label, Goto(q, label),
           q = App => label \notin {"stop", "close", "closing", "done"},
           q \in Retriers => pc[q] # "idle" /\ label # "idle"
    PROVE  StopsAfterShutdown' /\ HandleIsRunningRetry'
<1>1. pc \in [Procs -> AllStates]
  BY DEF IInv, TypeOK, AllStates
<1>2. \A x \in Procs : pc'[x] = IF x = q THEN label ELSE pc[x]
  BY <1>1 DEF Goto
<1>3. StopsAfterShutdown'
  BY <1>2, ProcsDistinct DEF IInv, StopsAfterShutdown
<1>4. \A r \in Retriers : Alive(r)' <=> Alive(r)
  BY <1>2, ProcsDistinct DEF Alive
<1>5. HandleIsRunningRetry'
  BY <1>4 DEF IInv, HandleIsRunningRetry
<1> QED
  BY <1>3, <1>5

LEMMA BootstrapSafe ==
    ASSUME IInv, NEW w \in Workers, BootstrapNetwork(w)
    PROVE  StopsAfterShutdown' /\ HandleIsRunningRetry'
<1>1. PICK label \in {"dial", "notify", "settle", "start", "select",
                      "connected", "exit"} : Goto(w, label)
  BY DEF BootstrapNetwork, Boot, DialOpens, ConnectOk, ConnectFails, DialsDone,
         Settle, Succeeded, Failed
<1>2. pc[w] # "idle"
  BY DEF BootstrapNetwork, Boot, DialOpens, ConnectOk, ConnectFails, DialsDone,
         Settle
<1>3. UNCHANGED <<retryCancel, shutdown>>
  BY DEF BootstrapNetwork, Boot, DialOpens, ConnectOk, ConnectFails, DialsDone,
         Settle
<1> QED
  BY <1>1, <1>2, <1>3, QuietMove, ProcsDistinct

\* A new retrier starts only when none is stored, hence none runs.
LEMMA StartSafe ==
    ASSUME IInv, NEW q \in {App} \cup Delayers, StartBootstrapRetry(q)
    PROVE  StopsAfterShutdown' /\ HandleIsRunningRetry'
<1>1. q \in Procs /\ q \notin Retriers
  BY ProcsDistinct
<1>2. CASE UNCHANGED retryCancel
  <2>1. PICK label \in {"lock", "connected", "idle"} : Goto(q, label)
    BY <1>2, RetryAssumption
       DEF StartBootstrapRetry, CheckShutdown, LaunchRetry, RetryRuns, StartReturns
  <2>2. UNCHANGED shutdown
    BY DEF StartBootstrapRetry, CheckShutdown, LaunchRetry
  <2> QED
    BY <1>1, <1>2, <2>1, <2>2, QuietMove
<1>3. ASSUME NEW r \in Retriers, retryCancel = NoRetry, retryCancel' = r,
             pc' = [pc EXCEPT ![q] = IF q = App THEN "connected" ELSE "idle",
                              ![r] = "select"],
             UNCHANGED shutdown
      PROVE  StopsAfterShutdown' /\ HandleIsRunningRetry'
  <2>1. \A x \in Procs : pc'[x] = IF x = r THEN "select"
                                  ELSE IF x = q THEN IF q = App THEN "connected" ELSE "idle"
                                  ELSE pc[x]
    BY <1>1, <1>3, ProcsDistinct DEF IInv, TypeOK
  <2>2. StopsAfterShutdown'
    BY <1>3, <2>1, ProcsDistinct DEF IInv, StopsAfterShutdown
  <2>3. ~shutdown => \A s \in Retriers : ~Alive(s)
    BY <1>3, RetryAssumption DEF IInv, HandleIsRunningRetry
  <2>4. \A s \in Retriers : Alive(s)' <=> s = r \/ Alive(s)
    BY <1>1, <2>1, ProcsDistinct DEF Alive
  <2>5. HandleIsRunningRetry'
    BY <1>3, <2>3, <2>4 DEF HandleIsRunningRetry
  <2> QED
    BY <2>2, <2>5
<1> QED
  BY <1>2, <1>3 DEF StartBootstrapRetry, CheckShutdown, LaunchRetry, RetryRuns

LEMMA RetrySafe ==
    ASSUME IInv, NEW r \in Retriers, RetryLoop(r)
    PROVE  StopsAfterShutdown' /\ HandleIsRunningRetry'
<1>1. CASE Cancelled(r) \/ Tick(r) \/ GetNodes(r)
  <2>1. PICK label \in {"exit", "nodes", "boot", "select"} : Goto(r, label)
    BY <1>1 DEF Cancelled, Tick, GetNodes
  <2>2. pc[r] # "idle" /\ UNCHANGED <<retryCancel, shutdown>>
    BY <1>1 DEF Cancelled, Tick, GetNodes
  <2> QED
    BY <2>1, <2>2, QuietMove, ProcsDistinct
<1>2. CASE BootstrapNetwork(r)
  BY <1>2, BootstrapSafe, ProcsDistinct
<1>3. CASE Exit(r)
  <2>1. \A x \in Procs : pc'[x] = IF x = r THEN "idle" ELSE pc[x]
    BY <1>3 DEF Exit, Goto, IInv, TypeOK
  <2>2. StopsAfterShutdown'
    BY <1>3, <2>1, ProcsDistinct DEF Exit, IInv, StopsAfterShutdown
  <2>3. ~shutdown => retryCancel = r
    BY <1>3 DEF Exit, IInv, HandleIsRunningRetry, Alive
  <2>4. \A s \in Retriers : Alive(s)' <=> s # r /\ Alive(s)
    BY <2>1, ProcsDistinct DEF Alive
  <2>5. HandleIsRunningRetry'
    BY <1>3, <2>3, <2>4, RetryAssumption DEF Exit, HandleCleared, IInv, HandleIsRunningRetry
  <2> QED
    BY <2>2, <2>5
<1> QED
  BY <1>1, <1>2, <1>3 DEF RetryLoop

LEMMA DelayedSafe ==
    ASSUME IInv, NEW d \in Delayers, DelayedStart(d)
    PROVE  StopsAfterShutdown' /\ HandleIsRunningRetry'
<1>1. CASE CheckRunning(d) \/ Wake(d)
  <2>1. PICK label \in {"idle", "sleep", "start"} : Goto(d, label)
    BY <1>1 DEF CheckRunning, Wake
  <2>2. UNCHANGED <<retryCancel, shutdown>>
    BY <1>1 DEF CheckRunning, Wake
  <2> QED
    BY <2>1, <2>2, QuietMove, ProcsDistinct
<1> QED
  BY <1>1, StartSafe DEF DelayedStart

LEMMA CallbackSafe ==
    ASSUME IInv, NEW c \in Conns, Callback(c)
    PROVE  StopsAfterShutdown' /\ HandleIsRunningRetry'
<1>1. UNCHANGED <<retryCancel, shutdown>>
  BY DEF Callback, ReadPeerCount, UpdateReadiness
<1>2. CASE UNCHANGED pc
  BY <1>1, <1>2 DEF IInv, StopsAfterShutdown, HandleIsRunningRetry, Alive
<1>3. CASE \E d \in Delayers : Goto(d, "check")
  BY <1>1, <1>3, QuietMove, ProcsDistinct
<1>4. CASE ReadPeerCount(c)
  BY <1>2, <1>4 DEF ReadPeerCount
<1>5. CASE UpdateReadiness(c)
  BY <1>2, <1>3, <1>5 DEF UpdateReadiness
<1> QED
  BY <1>4, <1>5 DEF Callback

LEMMA ConnectSafe ==
    ASSUME IInv, Connect
    PROVE  StopsAfterShutdown' /\ HandleIsRunningRetry'
<1>1. CASE FirstNodes
  <2>1. PICK label \in {"connected", "start", "boot"} : Goto(App, label)
    BY <1>1 DEF FirstNodes, FirstEmpty
  <2> QED
    BY <1>1, <2>1, QuietMove, ProcsDistinct DEF FirstNodes
<1> QED
  BY <1>1, BootstrapSafe, ProcsDistinct DEF Connect

\* Disconnect sets shutdown in its first step, and keeps it.
LEMMA DisconnectSafe ==
    ASSUME IInv, Disconnect
    PROVE  StopsAfterShutdown' /\ HandleIsRunningRetry'
<1>1. shutdown'
  BY DEF Disconnect, ShutdownCancel, StopBootstrapRetry, CloseHost, HostClosed,
         IInv, StopsAfterShutdown
<1> QED
  BY <1>1 DEF StopsAfterShutdown, HandleIsRunningRetry

LEMMA IInvStep == IInv /\ [Next]_vars => IInv'
<1> SUFFICES ASSUME IInv, [Next]_vars PROVE StopsAfterShutdown' /\ HandleIsRunningRetry'
  BY TypeStep DEF IInv
<1>1. CASE Environment \/ UNCHANGED vars
  <2>1. UNCHANGED <<retryCancel, shutdown, pc>>
    BY <1>1 DEF Environment, RegistryChanges, PeerConnects, PeerDrops,
                DisconnectedStarts, vars
  <2> QED
    BY <2>1 DEF IInv, StopsAfterShutdown, HandleIsRunningRetry, Alive
<1>2. CASE \E c \in Conns : Callback(c)
  BY <1>2, CallbackSafe
<1>3. CASE Connect
  BY <1>3, ConnectSafe
<1>4. CASE StartBootstrapRetry(App)
  BY <1>4, StartSafe
<1>5. CASE Disconnect
  BY <1>5, DisconnectSafe
<1>6. CASE \E d \in Delayers : DelayedStart(d)
  BY <1>6, DelayedSafe
<1>7. CASE \E r \in Retriers : RetryLoop(r)
  BY <1>7, RetrySafe
<1> QED
  BY <1>1, <1>2, <1>3, <1>4, <1>5, <1>6, <1>7 DEF Next, Others, Terminated

\* Until Disconnect begins, retryCancel is the cancel function of the running
\* retry goroutine, and nil when none runs.
THEOREM HandleCorrect == Spec => []HandleIsRunningRetry
<1>1. IInv => HandleIsRunningRetry
  BY DEF IInv
<1> QED
  BY <1>1, IInvInit, IInvStep, PTL DEF Spec

\* Until Disconnect begins, at most one retry goroutine runs, however many
\* delayed starters race to launch one.
THEOREM OneRetryAtATime == Spec => []AtMostOneRetry
<1>1. HandleIsRunningRetry => AtMostOneRetry
  BY DEF HandleIsRunningRetry, AtMostOneRetry
<1> QED
  BY <1>1, HandleCorrect, PTL

-----------------------------------------------------------------------------
(* The refinement of RetryService.                                           *)

\* What is stored is never the handle of a goroutine that has ended.
HandleAlive == retryCancel \in Retriers => Alive(retryCancel)

LEMMA HandleAliveStep == TypeOK /\ HandleAlive /\ [Next]_vars => HandleAlive'
<1> SUFFICES ASSUME TypeOK, HandleAlive, [Next]_vars PROVE HandleAlive'
  OBVIOUS
<1> USE DEF HandleAlive, Alive
<1>0. pc \in [Procs -> AllStates]
  BY DEF TypeOK, AllStates
<1>1. ASSUME NEW q \in Procs, NEW label, Goto(q, label),
             q \in Retriers => label # "idle", UNCHANGED retryCancel
      PROVE  HandleAlive'
  BY <1>0, <1>1, ProcsDistinct DEF Goto
<1>2. CASE UNCHANGED <<pc, retryCancel>>
  BY <1>2
<1>3. ASSUME NEW w \in Workers, BootstrapNetwork(w) PROVE HandleAlive'
  <2>1. PICK label \in {"dial", "notify", "settle", "start", "select",
                        "connected", "exit"} : Goto(w, label)
    BY <1>3 DEF BootstrapNetwork, Boot, DialOpens, ConnectOk, ConnectFails, DialsDone,
                Settle, Succeeded, Failed
  <2>2. UNCHANGED retryCancel
    BY <1>3 DEF BootstrapNetwork, Boot, DialOpens, ConnectOk, ConnectFails, DialsDone,
                Settle
  <2> QED
    BY <1>1, <2>1, <2>2, ProcsDistinct
<1>4. ASSUME NEW q \in {App} \cup Delayers, StartBootstrapRetry(q) PROVE HandleAlive'
  <2>1. q \in Procs /\ q \notin Retriers
    BY ProcsDistinct
  <2>2. CASE UNCHANGED retryCancel
    <3>1. PICK label \in {"lock", "connected", "idle"} : Goto(q, label)
      BY <1>4, <2>2, RetryAssumption
         DEF StartBootstrapRetry, CheckShutdown, LaunchRetry, RetryRuns, StartReturns
    <3> QED
      BY <1>1, <2>1, <2>2, <3>1
  <2>3. ASSUME NEW r \in Retriers, retryCancel' = r,
               pc' = [pc EXCEPT ![q] = IF q = App THEN "connected" ELSE "idle",
                                ![r] = "select"]
        PROVE  HandleAlive'
    BY <1>0, <2>1, <2>3, ProcsDistinct
  <2> QED
    BY <1>4, <2>2, <2>3 DEF StartBootstrapRetry, CheckShutdown, LaunchRetry
<1>5. CASE Environment \/ UNCHANGED vars
  BY <1>2, <1>5 DEF Environment, RegistryChanges, PeerConnects, PeerDrops,
                    DisconnectedStarts, vars
<1>6. ASSUME NEW c \in Conns, Callback(c) PROVE HandleAlive'
  <2>1. UNCHANGED retryCancel
    BY <1>6 DEF Callback, ReadPeerCount, UpdateReadiness
  <2>2. UNCHANGED pc \/ \E d \in Delayers : Goto(d, "check")
    BY <1>6 DEF Callback, ReadPeerCount, UpdateReadiness
  <2> QED
    BY <1>1, <1>2, <2>1, <2>2, ProcsDistinct
<1>7. CASE FirstNodes \/ Disconnect
  <2>1. PICK label : Goto(App, label)
    BY <1>7 DEF FirstNodes, Disconnect, ShutdownCancel, StopBootstrapRetry,
                CloseHost, HostClosed
  <2>2. UNCHANGED retryCancel \/ retryCancel' = NoRetry
    BY <1>7 DEF FirstNodes, Disconnect, ShutdownCancel, StopBootstrapRetry,
                CloseHost, HostClosed
  <2> QED
    BY <1>1, <2>1, <2>2, ProcsDistinct, RetryAssumption
<1>8. ASSUME NEW d \in Delayers, CheckRunning(d) \/ Wake(d) PROVE HandleAlive'
  <2>1. \E label : Goto(d, label)
    BY <1>8 DEF CheckRunning, Wake
  <2>2. UNCHANGED retryCancel
    BY <1>8 DEF CheckRunning, Wake
  <2> QED
    BY <1>1, <2>1, <2>2, ProcsDistinct
<1>9. ASSUME NEW r \in Retriers, Cancelled(r) \/ Tick(r) \/ GetNodes(r) \/ Exit(r)
      PROVE  HandleAlive'
  <2>1. CASE Exit(r)
    BY <2>1, RetryAssumption DEF Exit, HandleCleared
  <2>2. CASE ~Exit(r)
    <3>1. PICK label \in {"exit", "nodes", "boot", "select"} : Goto(r, label)
      BY <1>9, <2>2 DEF Cancelled, Tick, GetNodes
    <3>2. UNCHANGED retryCancel
      BY <1>9, <2>2 DEF Cancelled, Tick, GetNodes
    <3> QED
      BY <1>1, <3>1, <3>2, ProcsDistinct
  <2> QED
    BY <2>1, <2>2
<1> QED
  BY <1>3, <1>4, <1>5, <1>6, <1>7, <1>8, <1>9, ProcsDistinct
     DEF Next, Others, Connect, DelayedStart, RetryLoop, Terminated, Workers

SInv == IInv /\ HandleAlive

running   == {r \in Retriers : Alive(r)}
permitted == {q \in {App} \cup Delayers : pc[q] = "lock"}

USE DEF Service!vars, Service!Permit, Service!Decline, Service!Launch, Service!End,
        Service!Shutdown

\* A move that neither starts nor ends a retrier, nor enters or leaves "lock".
LEMMA Stutters ==
    ASSUME TypeOK, UNCHANGED shutdown, NEW q \in Procs, NEW label, Goto(q, label),
           q \in Retriers => pc[q] # "idle" /\ label # "idle",
           q \notin Retriers => pc[q] # "lock" /\ label # "lock"
    PROVE  UNCHANGED Service!vars
<1>1. \A x \in Procs : pc'[x] = IF x = q THEN label ELSE pc[x]
  BY DEF Goto, TypeOK
<1>2. running' = running
  BY <1>1, ProcsDistinct DEF running, Alive
<1>3. permitted' = permitted
  BY <1>1, ProcsDistinct DEF permitted
<1> QED
  BY <1>2, <1>3 DEF running, permitted

LEMMA BootstrapStutters ==
    ASSUME TypeOK, NEW w \in Workers, BootstrapNetwork(w)
    PROVE  UNCHANGED Service!vars
<1>1. PICK label \in {"dial", "notify", "settle", "start", "select",
                      "connected", "exit"} : Goto(w, label)
  BY DEF BootstrapNetwork, Boot, DialOpens, ConnectOk, ConnectFails, DialsDone,
         Settle, Succeeded, Failed
<1>2. pc[w] \notin {"idle", "lock"} /\ UNCHANGED shutdown
  BY DEF BootstrapNetwork, Boot, DialOpens, ConnectOk, ConnectFails, DialsDone,
         Settle
<1> QED
  BY <1>1, <1>2, Stutters, ProcsDistinct

\* A starter is permitted by CheckShutdown, and declines or launches under
\* retryMutex.
LEMMA StartServes ==
    ASSUME SInv, NEW q \in {App} \cup Delayers, StartBootstrapRetry(q)
    PROVE  [Service!Next]_(Service!vars)
<1>0. q \in Procs /\ q \notin Retriers /\ TypeOK
  BY ProcsDistinct DEF SInv, IInv
<1>1. ASSUME NEW label, Goto(q, label)
      PROVE  /\ running' = running
             /\ permitted' = IF label = "lock" THEN permitted \cup {q} ELSE permitted \ {q}
  <2>1. \A x \in Procs : pc'[x] = IF x = q THEN label ELSE pc[x]
    BY <1>0, <1>1 DEF Goto, TypeOK
  <2> QED
    BY <1>0, <2>1, ProcsDistinct DEF running, permitted, Alive
<1>2. CASE CheckShutdown(q)
  <2>1. CASE shutdown
    <3>1. StartReturns(q) /\ pc[q] = "start" /\ UNCHANGED shutdown
      BY <1>2, <2>1 DEF CheckShutdown, ShuttingDown
    <3>2. q = App => Goto(q, "connected")
      BY <3>1 DEF StartReturns
    <3>3. q # App => Goto(q, "idle")
      BY <3>1 DEF StartReturns
    <3> QED
      BY <1>0, <3>1, <3>2, <3>3, Stutters
  <2>2. CASE ~shutdown
    <3>1. Goto(q, "lock") /\ UNCHANGED shutdown
      BY <1>2, <2>2 DEF CheckShutdown, ShuttingDown
    <3>2. Service!Permit(q)
      BY <1>1, <2>2, <3>1 DEF running, permitted
    <3> QED
      BY <3>2 DEF Service!Next
  <2> QED
    BY <2>1, <2>2
<1>3. ASSUME LaunchRetry(q), RetryRuns PROVE [Service!Next]_(Service!vars)
  <2>1. PICK label \in {"connected", "idle"} : Goto(q, label)
    BY <1>3 DEF LaunchRetry, StartReturns
  <2>2. q \in permitted /\ UNCHANGED shutdown
    BY <1>3 DEF LaunchRetry, permitted
  <2>3. running # {}
    <3>1. retryCancel \in Retriers
      BY <1>0, <1>3 DEF RetryRuns, TypeOK
    <3> QED
      BY <3>1 DEF running, SInv, HandleAlive
  <2>4. Service!Decline(q)
    BY <1>1, <2>1, <2>2, <2>3 DEF running, permitted
  <2> QED
    BY <2>4 DEF Service!Next
<1>4. ASSUME LaunchRetry(q), ~RetryRuns PROVE [Service!Next]_(Service!vars)
  <2>1. PICK r \in Retriers :
               /\ pc[r] = "idle"
               /\ pc' = [pc EXCEPT ![q] = IF q = App THEN "connected" ELSE "idle",
                                  ![r] = "select"]
    BY <1>4 DEF LaunchRetry
  <2>2. \A x \in Procs : pc'[x] = IF x = r THEN "select"
                                  ELSE IF x = q THEN IF q = App THEN "connected" ELSE "idle"
                                  ELSE pc[x]
    BY <1>0, <2>1, ProcsDistinct DEF TypeOK
  <2>3. q \in permitted /\ UNCHANGED shutdown
    BY <1>4 DEF LaunchRetry, permitted
  <2> DEFINE next == IF q = App THEN "connected" ELSE "idle"
  <2>8. /\ pc[r] = "idle" /\ r \in Procs /\ r # q /\ r \in Retriers /\ next # "lock"
        /\ \A x \in Procs : pc'[x] = IF x = r THEN "select"
                                     ELSE IF x = q THEN next ELSE pc[x]
    BY <1>0, <2>1, <2>2, ProcsDistinct
  <2> HIDE DEF next
  <2>4. running = {} \/ shutdown
    BY <1>4, RetryAssumption DEF RetryRuns, running, SInv, IInv, HandleIsRunningRetry
  <2>5. r \notin running /\ running' = running \cup {r}
    BY <1>0, <2>8, ProcsDistinct DEF running, Alive
  <2>6. permitted' = permitted \ {q}
    BY <1>0, <2>8, ProcsDistinct DEF permitted
  <2>7. Service!Launch(q, r)
    BY <2>3, <2>4, <2>5, <2>6 DEF running, permitted
  <2> QED
    BY <2>1, <2>7 DEF Service!Next
<1> QED
  BY <1>2, <1>3, <1>4 DEF StartBootstrapRetry

LEMMA RetryServes ==
    ASSUME SInv, NEW r \in Retriers, RetryLoop(r)
    PROVE  [Service!Next]_(Service!vars)
<1>0. TypeOK
  BY DEF SInv, IInv
<1>1. CASE Exit(r)
  <2>1. \A x \in Procs : pc'[x] = IF x = r THEN "idle" ELSE pc[x]
    BY <1>0, <1>1 DEF Exit, Goto, TypeOK
  <2>2. r \in running /\ running' = running \ {r}
    BY <1>1, <2>1, ProcsDistinct DEF Exit, running, Alive
  <2>3. permitted' = permitted
    BY <2>1, ProcsDistinct DEF permitted
  <2>4. Service!End(r)
    BY <1>1, <2>2, <2>3 DEF Exit, running, permitted
  <2> QED
    BY <2>4 DEF Service!Next
<1>2. CASE Cancelled(r) \/ Tick(r) \/ GetNodes(r)
  <2>1. PICK label \in {"exit", "nodes", "boot", "select"} : Goto(r, label)
    BY <1>2 DEF Cancelled, Tick, GetNodes
  <2>2. pc[r] # "idle" /\ UNCHANGED shutdown
    BY <1>2 DEF Cancelled, Tick, GetNodes
  <2> QED
    BY <1>0, <2>1, <2>2, Stutters, ProcsDistinct
<1>3. CASE BootstrapNetwork(r)
  BY <1>0, <1>3, BootstrapStutters, ProcsDistinct
<1> QED
  BY <1>1, <1>2, <1>3 DEF RetryLoop

LEMMA DisconnectServes ==
    ASSUME SInv, Disconnect
    PROVE  [Service!Next]_(Service!vars)
<1>0. TypeOK /\ App \in Procs /\ App \notin Retriers
  BY ProcsDistinct DEF SInv, IInv
<1>1. CASE ShutdownCancel
  <2>1. \A x \in Procs : pc'[x] = IF x = App THEN "stop" ELSE pc[x]
    BY <1>0, <1>1 DEF ShutdownCancel, Goto, TypeOK
  <2>2. running' = running /\ permitted' = permitted
    BY <1>1, <2>1, ProcsDistinct DEF ShutdownCancel, running, permitted, Alive
  <2>3. Service!Shutdown
    BY <1>1, <2>2 DEF ShutdownCancel, running, permitted
  <2> QED
    BY <2>3 DEF Service!Next
<1>2. CASE StopBootstrapRetry \/ CloseHost \/ HostClosed
  <2>1. PICK label \in {"close", "closing", "done"} : Goto(App, label)
    BY <1>2 DEF StopBootstrapRetry, CloseHost, HostClosed
  <2>2. pc[App] # "lock" /\ UNCHANGED shutdown
    BY <1>2 DEF StopBootstrapRetry, CloseHost, HostClosed
  <2> QED
    BY <1>0, <2>1, <2>2, Stutters
<1> QED
  BY <1>1, <1>2 DEF Disconnect

LEMMA ServiceStep == SInv /\ [Next]_vars => [Service!Next]_(Service!vars)
<1> SUFFICES ASSUME SInv, [Next]_vars PROVE [Service!Next]_(Service!vars)
  OBVIOUS
<1>0. TypeOK
  BY DEF SInv, IInv
<1>1. ASSUME UNCHANGED <<pc, shutdown>> PROVE UNCHANGED Service!vars
  <2>1. running' = running /\ permitted' = permitted
    BY <1>1 DEF running, permitted, Alive
  <2> QED
    BY <1>1, <2>1 DEF running, permitted
<1>2. CASE Environment \/ UNCHANGED vars
  <2>1. UNCHANGED <<pc, shutdown>>
    BY <1>2 DEF Environment, RegistryChanges, PeerConnects, PeerDrops,
                DisconnectedStarts, vars
  <2> QED
    BY <1>1, <2>1
<1>3. ASSUME NEW c \in Conns, Callback(c) PROVE [Service!Next]_(Service!vars)
  <2>1. UNCHANGED shutdown
    BY <1>3 DEF Callback, ReadPeerCount, UpdateReadiness
  <2>2. UNCHANGED pc \/ \E d \in Delayers : pc[d] = "idle" /\ Goto(d, "check")
    BY <1>3 DEF Callback, ReadPeerCount, UpdateReadiness
  <2> QED
    BY <1>0, <1>1, <2>1, <2>2, Stutters, ProcsDistinct
<1>4. CASE FirstNodes
  <2>1. PICK label \in {"connected", "start", "boot"} : Goto(App, label)
    BY <1>4 DEF FirstNodes, FirstEmpty
  <2>2. pc[App] # "lock" /\ UNCHANGED shutdown
    BY <1>4 DEF FirstNodes
  <2> QED
    BY <1>0, <2>1, <2>2, Stutters, ProcsDistinct
<1>5. ASSUME NEW d \in Delayers, CheckRunning(d) \/ Wake(d)
      PROVE  [Service!Next]_(Service!vars)
  <2>1. PICK label \in {"idle", "sleep", "start"} : Goto(d, label)
    BY <1>5 DEF CheckRunning, Wake
  <2>2. pc[d] # "lock" /\ UNCHANGED shutdown
    BY <1>5 DEF CheckRunning, Wake
  <2> QED
    BY <1>0, <2>1, <2>2, Stutters, ProcsDistinct
<1>6. CASE BootstrapNetwork(App)
  BY <1>0, <1>6, BootstrapStutters, ProcsDistinct
<1>7. CASE StartBootstrapRetry(App) \/ \E d \in Delayers : StartBootstrapRetry(d)
  BY <1>7, StartServes
<1>8. CASE Disconnect
  BY <1>8, DisconnectServes
<1>9. CASE \E r \in Retriers : RetryLoop(r)
  BY <1>9, RetryServes
<1> QED
  BY <1>2, <1>3, <1>4, <1>5, <1>6, <1>7, <1>8, <1>9
     DEF Next, Others, Connect, DelayedStart, Terminated

\* The retry implements the safety of RetryService: retry goroutines are
\* launched one at a time until the shutdown, and none afterwards but by a
\* starter that had passed the check of shutdownCtx before it.
THEOREM ServiceCorrect == Spec => Service!SafeSpec
<1>1. Init => Service!Init
  BY RetryAssumption, ProcsDistinct DEF Init, Service!Init, Alive
<1>2. Init => SInv
  BY IInvInit, RetryAssumption DEF SInv, HandleAlive, Init
<1>3. SInv /\ [Next]_vars => SInv'
  BY IInvStep, HandleAliveStep DEF SInv, IInv
<1> QED
  BY <1>1, <1>2, <1>3, ServiceStep, PTL DEF Spec, Service!SafeSpec

=============================================================================
