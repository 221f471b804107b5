----------------------------- MODULE NodeProofs -----------------------------
(***************************************************************************)
(* What holds of Node for every number of peers, rounds and connections    *)
(* per round: its types, and that a node whose Connect failed or whose     *)
(* Disconnect returned is offline for good.                                *)
(***************************************************************************)
EXTENDS Node, TLAPS

USE DEF loops, rounds, gater, services

-----------------------------------------------------------------------------
(* Type correctness.                                                         *)

\* A round that dials dials a peer, which is what makes the types inductive.
DialsPeer == \A r \in Rounds : round[r] = "dial" => target[r] \in Peers

TypeInv == TypeOK /\ DialsPeer

LEMMA TypeInit == Init => TypeInv
<1> SUFFICES ASSUME Init PROVE TypeInv
  OBVIOUS
<1>1. LoopsTyped
  BY DiscoveryAssumption DEF Init, LoopsInit, LoopsTyped
<1>2. up \subseteq Peers /\ {registry, recent} \subseteq SUBSET Wallets
  BY DEF Init, Gater!Init
<1>3. {hostOpen, dhtOpen, refreshing} \subseteq BOOLEAN /\ pc \in Connecting
  BY DEF Init, Connecting
<1>4. DialsPeer
  BY DEF Init, LoopsInit, DialsPeer
<1> QED
  BY <1>1, <1>2, <1>3, <1>4 DEF TypeInv, TypeOK

\* How a round ends or goes on keeps its types.
LEMMA RoundTyped ==
    ASSUME TypeInv, NEW r \in Rounds,
           Ends(r) \/ GoesOn(r, count[r]) \/ Counted(r)
    PROVE  /\ round' \in [Rounds -> {"idle", "next", "dial"}]
           /\ todo' \in [Rounds -> SUBSET Peers]
           /\ target' \in [Rounds -> Peers \cup {Nobody}]
           /\ count' \in [Rounds -> 0..(Limit - 1)]
           /\ DialsPeer'
<1> USE DiscoveryAssumption DEF TypeInv, TypeOK, LoopsTyped, DialsPeer
<1>1. CASE Ends(r)
  BY <1>1 DEF Ends
<1>2. CASE GoesOn(r, count[r])
  BY <1>2 DEF GoesOn
<1>3. CASE Counted(r)
  <2>1. CASE LimitReached(count[r] + 1)
    BY <1>1, <1>3, <2>1 DEF Counted, Ends
  <2>2. CASE ~LimitReached(count[r] + 1)
    <3>1. count[r] + 1 \in 0..(Limit - 1)
      BY <2>2 DEF LimitReached
    <3> QED
      BY <1>3, <2>2, <3>1 DEF Counted, GoesOn
  <2> QED
    BY <2>1, <2>2
<1> QED
  BY <1>1, <1>2, <1>3

LEMMA RoundStepTyped ==
    ASSUME TypeInv, NEW r \in Rounds, RoundConnects(r) \/ Loops(r) \/ RoundRefused(r)
    PROVE  TypeInv'
<1> USE DEF TypeInv, TypeOK, LoopsTyped, DialsPeer
<1>1. CASE RoundConnects(r)
  <2>1. up' \subseteq Peers
    BY <1>1 DEF RoundConnects, DialSucceeds
  <2> QED
    BY <1>1, <2>1, RoundTyped DEF RoundConnects, DialSucceeds, Gater!Admit
<1>2. CASE Loops(r)
  <2>1. ASSUME NEW p \in Peers, Skip(r, p) PROVE TypeInv'
    BY <1>2, <2>1 DEF Loops, Skip
  <2>2. ASSUME NEW p \in Peers, Dial(r, p) PROVE TypeInv'
    BY <1>2, <2>2 DEF Loops, Dial
  <2>3. CASE DialFindsOpen(r)
    BY <1>2, <2>3, RoundTyped DEF Loops, DialFindsOpen
  <2>4. CASE DialTimesOut(r)
    BY <1>2, <2>4, RoundTyped DEF Loops, DialTimesOut, DialFails
  <2>5. CASE RoundEnds(r)
    BY <1>2, <2>5, RoundTyped DEF Loops, RoundEnds
  <2> QED
    BY <1>2, <2>1, <2>2, <2>3, <2>4, <2>5 DEF Loops, ProcessPeers
<1>3. CASE RoundRefused(r)
  BY <1>3, RoundTyped DEF RoundRefused, DialFails
<1> QED
  BY <1>1, <1>2, <1>3

LEMMA EnvironmentTyped == TypeInv /\ Environment => TypeInv'
<1> SUFFICES ASSUME TypeInv, Environment PROVE TypeInv'
  OBVIOUS
<1> USE DEF TypeInv, TypeOK, LoopsTyped, DialsPeer
<1>1. CASE Authorised
  BY <1>1, NodeAssumption DEF Authorised, Gater!RegistryChanges, Gater!Forget
<1>2. ASSUME NEW p \in Peers, AdvertisedChanges(p) PROVE TypeInv'
  BY <1>2 DEF AdvertisedChanges
<1>3. ASSUME NEW p \in Peers, PeerConnects(p) PROVE TypeInv'
  BY <1>3 DEF PeerConnects, Gater!Admit
<1>4. ASSUME NEW p \in Peers, PeerDrops(p) PROVE TypeInv'
  BY <1>4 DEF PeerDrops, Gater!Close
<1> QED
  BY <1>1, <1>2, <1>3, <1>4 DEF Environment

LEMMA CallTyped == TypeInv /\ (Call \/ Disconnect) => TypeInv'
<1> SUFFICES ASSUME TypeInv, Call \/ Disconnect PROVE TypeInv'
  OBVIOUS
<1> USE DEF TypeInv, TypeOK, LoopsTyped, DialsPeer, Connecting, Disconnecting, Goto, FailsOver, HostClosed
<1>1. CASE ConnectStarts
  BY <1>1 DEF ConnectStarts
<1>2. CASE CreateHost
  BY <1>2 DEF CreateHost
<1>3. CASE CreateDHT
  BY <1>3 DEF CreateDHT
<1>4. CASE CreateGossipSub
  BY <1>4 DEF CreateGossipSub
<1>5. CASE Bootstrap
  BY <1>5 DEF Bootstrap
<1>6. CASE CreateDatabaseInstance
  BY <1>6 DEF CreateDatabaseInstance, StartDiscovery
<1>7. CASE CloseDHT
  BY <1>7 DEF CloseDHT
<1>8. CASE CloseHost
  BY <1>8 DEF CloseHost
<1>9. CASE CloseReturns
  BY <1>9 DEF CloseReturns
<1>10. CASE Disconnect
  BY <1>10 DEF Disconnect
<1> QED
  BY <1>1, <1>2, <1>3, <1>4, <1>5, <1>6, <1>7, <1>8, <1>9, <1>10 DEF Call

LEMMA LoopTyped == TypeInv /\ (Finds \/ Advertises) => TypeInv'
<1> SUFFICES ASSUME TypeInv, Finds \/ Advertises PROVE TypeInv'
  OBVIOUS
<1> USE DEF TypeInv, TypeOK, LoopsTyped, DialsPeer
<1>1. CASE Advertises
  BY <1>1, DiscoveryAssumption DEF Advertises, Advertise
<1>2. CASE Finds
  <2>1. ASSUME NEW r \in Rounds, FindPeers(r) PROVE TypeInv'
    BY <1>2, <2>1 DEF Finds, FindPeers
  <2>2. CASE FindPeersFails
    BY <1>2, <2>2 DEF Finds, FindPeersFails
  <2>3. CASE FindPeersTicks
    BY <1>2, <2>3 DEF Finds, FindPeersTicks
  <2> QED
    BY <1>2, <2>1, <2>2, <2>3 DEF Finds, FindPeersLoop
<1> QED
  BY <1>1, <1>2

LEMMA TypeStep == TypeInv /\ [Next]_vars => TypeInv'
<1> SUFFICES ASSUME TypeInv, [Next]_vars PROVE TypeInv'
  OBVIOUS
<1>1. CASE UNCHANGED vars
  BY <1>1 DEF vars, TypeInv, TypeOK, LoopsTyped, DialsPeer
<1> QED
  BY <1>1, RoundStepTyped, EnvironmentTyped, CallTyped, LoopTyped DEF Next

\* The values of every variable: discovery rounds stay below their limit.
THEOREM TypeCorrect == Spec => []TypeOK
<1>1. TypeInv => TypeOK
  BY DEF TypeInv
<1> QED
  BY <1>1, TypeInit, TypeStep, PTL DEF Spec

-----------------------------------------------------------------------------
(* Offline.                                                                  *)

\* The strengthening: the host is closed before Connect or Disconnect begins to
\* wait for its connections, and what is closed admits no connection.
Offline ==
    /\ pc \in {"start", "host", "closing", "aborting", "failed", "done"} => ~hostOpen
    /\ pc \in {"start", "host", "failed", "done"} => up = {}

LEMMA OfflineInit == Init => Offline
BY DEF Init, Gater!Init, Offline

\* A new connection needs an open host.
LEMMA NeedsHost ==
    ASSUME Offline, hostOpen, UNCHANGED <<hostOpen, pc>>
    PROVE  Offline'
BY DEF Offline

LEMMA OfflineStep == Offline /\ [Next]_vars => Offline'
<1> SUFFICES ASSUME Offline, [Next]_vars PROVE Offline'
  OBVIOUS
<1>1. CASE Environment
  <2>1. CASE Authorised
    BY <2>1 DEF Authorised, Gater!RegistryChanges, Gater!Forget, Offline
  <2>2. ASSUME NEW p \in Peers, AdvertisedChanges(p) PROVE Offline'
    BY <2>2 DEF AdvertisedChanges, Offline
  <2>3. ASSUME NEW p \in Peers, PeerConnects(p) PROVE Offline'
    BY <2>3, NeedsHost DEF PeerConnects
  <2>4. ASSUME NEW p \in Peers, PeerDrops(p) PROVE Offline'
    BY <2>4 DEF PeerDrops, Gater!Close, Offline
  <2> QED
    BY <1>1, <2>1, <2>2, <2>3, <2>4 DEF Environment
<1>2. CASE Call
  <2> USE DEF Offline, Goto
  <2>1. CASE ConnectStarts
    BY <2>1 DEF ConnectStarts
  <2>2. CASE CreateHost
    BY <2>2 DEF CreateHost
  <2>3. CASE CreateDHT
    BY <2>3 DEF CreateDHT, FailsOver
  <2>4. CASE CreateGossipSub
    BY <2>4 DEF CreateGossipSub, FailsOver
  <2>5. CASE Bootstrap
    BY <2>5 DEF Bootstrap
  <2>6. CASE CreateDatabaseInstance
    BY <2>6 DEF CreateDatabaseInstance
  <2>7. CASE CloseDHT
    BY <2>7 DEF CloseDHT
  <2>8. CASE CloseHost
    BY <2>8 DEF CloseHost, HostClosed
  <2>9. CASE CloseReturns
    BY <2>9 DEF CloseReturns
  <2> QED
    BY <1>2, <2>1, <2>2, <2>3, <2>4, <2>5, <2>6, <2>7, <2>8, <2>9 DEF Call
<1>3. CASE Disconnect
  BY <1>3 DEF Disconnect, Goto, Offline
<1>4. CASE Finds
  BY <1>4 DEF Finds, FindPeersLoop, FindPeers, FindPeersFails, FindPeersTicks, Offline
<1>5. CASE Advertises
  BY <1>5 DEF Advertises, Advertise, Offline
<1>6. ASSUME NEW r \in Rounds, RoundConnects(r) PROVE Offline'
  BY <1>6, NeedsHost DEF RoundConnects, DialSucceeds
<1>7. ASSUME NEW r \in Rounds, Loops(r) PROVE Offline'
  <2>1. UNCHANGED <<up, hostOpen, pc>>
    BY <1>7 DEF Loops, ProcessPeers, Skip, Dial, DialFindsOpen, DialTimesOut,
                DialFails, RoundEnds
  <2> QED
    BY <2>1 DEF Offline
<1>8. ASSUME NEW r \in Rounds, RoundRefused(r) PROVE Offline'
  BY <1>8 DEF RoundRefused, DialFails, Offline
<1>9. CASE UNCHANGED vars
  BY <1>9 DEF vars, Offline
<1> QED
  BY <1>1, <1>2, <1>3, <1>4, <1>5, <1>6, <1>7, <1>8, <1>9 DEF Next

LEMMA AlwaysOffline == Spec => []Offline
BY OfflineInit, OfflineStep, PTL DEF Spec

\* A Connect that returned an error left neither a host nor a connection, at
\* whichever step it failed.
THEOREM FailedCorrect == Spec => []FailedConnectIsOffline
<1>1. Offline => FailedConnectIsOffline
  BY DEF Offline, FailedConnectIsOffline
<1> QED
  BY <1>1, AlwaysOffline, PTL

\* After Disconnect the node has no connection, whatever its discovery loops
\* and the rounds under way still do.
THEOREM DisconnectedCorrect == Spec => []DisconnectedIsOffline
<1>1. Offline => DisconnectedIsOffline
  BY DEF Offline, DisconnectedIsOffline
<1> QED
  BY <1>1, AlwaysOffline, PTL

=============================================================================
