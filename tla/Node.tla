-------------------------------- MODULE Node --------------------------------
(***************************************************************************)
(* The life of one node: Connect (initializeP2PInfrastructure and          *)
(* createDatabaseInstance in pubsub/infrastructure.go), the discovery it   *)
(* starts, the gater every connection passes, and Disconnect               *)
(* (pubsub/pubsub_operations.go).                                          *)
(*                                                                         *)
(* The gater is taken at its word (Admission, which RegistryGater          *)
(* implements); the bootstrap and its retry (BootstrapRetry) are here one  *)
(* more source of connections.                                             *)
(***************************************************************************)
EXTENDS Discovery

CONSTANTS
    Wallets,
    WalletOf,     \* the wallet in a peer's ID
    NoWallet,
    Registries,   \* the lists getAuthorizedWallets may come to return
    PeersDrop     \* TRUE when connections close at any time

ASSUME NodeAssumption == Registries \subseteq SUBSET Wallets

VARIABLES
    registry, recent,   \* the gater's, see Admission
    refreshing,         \* the gater's refresh goroutine runs
    pc                  \* where the application is in Connect or Disconnect

Gater == INSTANCE Admission WITH open <- up

vars == <<up, hostOpen, dhtOpen, advertised, loops, rounds, registry, recent,
          refreshing, pc>>

gater    == <<registry, recent, refreshing>>
services == <<advertised, loops, rounds>>

Connecting    == {"start", "host", "dht", "gossip", "boot", "database",
                  "abort", "aborting"}
Disconnecting == {"closeDHT", "closeHost", "closing"}

TypeOK ==
    /\ LoopsTyped
    /\ up \subseteq Peers
    /\ {hostOpen, dhtOpen, refreshing} \subseteq BOOLEAN
    /\ {registry, recent} \subseteq SUBSET Wallets
    /\ pc \in Connecting \cup Disconnecting \cup {"connected", "failed", "done"}

Init ==
    /\ LoopsInit
    /\ Gater!Init /\ registry \in Registries
    /\ hostOpen = FALSE /\ dhtOpen = FALSE
    /\ refreshing = FALSE
    /\ pc = "start"

-----------------------------------------------------------------------------
(* The environment.                                                          *)

AdvertisedChanges(p) ==
    /\ \/ advertised' = advertised \cup {p}
       \/ advertised' = advertised \ {p}
    /\ UNCHANGED <<up, hostOpen, dhtOpen, loops, rounds, gater, pc>>

\* The gater sees a new list at its next refresh, and one by one before it.
Authorised ==
    /\ \E wallets \in Registries : Gater!RegistryChanges(wallets) \/ Gater!Forget(wallets)
    /\ UNCHANGED <<hostOpen, dhtOpen, services, refreshing, pc>>

\* A connection discovery did not ask for: inbound, or dialled by the bootstrap.
PeerConnects(p) ==
    /\ hostOpen
    /\ p \notin up
    /\ Gater!Admit(p)
    /\ UNCHANGED <<hostOpen, dhtOpen, services, refreshing, pc>>

PeerDrops(p) ==
    /\ PeersDrop \/ ~hostOpen
    /\ p \in up
    /\ Gater!Close({p})
    /\ UNCHANGED <<hostOpen, dhtOpen, services, refreshing, pc>>

-----------------------------------------------------------------------------
(* Connect.                                                                  *)

Goto(label) == pc' = label

\* An unusable configuration, private key or connection manager; else the gater
\* is created, whose refresh goroutine starts at once.
ConnectStarts ==
    /\ pc = "start"
    /\ \/ Goto("failed") /\ UNCHANGED refreshing
       \/ Goto("host") /\ refreshing' = TRUE
    /\ UNCHANGED <<up, hostOpen, dhtOpen, services, registry, recent>>

\* The host listens from here on.
CreateHost ==
    /\ pc = "host"
    /\ \/ Goto("failed") /\ UNCHANGED hostOpen
       \/ Goto("dht") /\ hostOpen' = TRUE
    /\ UNCHANGED <<up, dhtOpen, services, gater>>

\* Mutant: an error returns and leaves the host behind.
FailsAtOnce == "failed"

\* An error closes the host before it returns.
FailsOver == "abort"

CreateDHT ==
    /\ pc = "dht"
    /\ \/ Goto(FailsOver) /\ UNCHANGED dhtOpen
       \/ Goto("gossip") /\ dhtOpen' = TRUE
    /\ UNCHANGED <<up, hostOpen, services, gater>>

CreateGossipSub ==
    /\ pc = "gossip"
    /\ Goto(FailsOver) \/ Goto("boot")
    /\ UNCHANGED <<up, hostOpen, dhtOpen, services, gater>>

\* Mutant: the retry loop runs in Connect's own goroutine and not in a new one,
\* until there are peers.
BlocksUntilReady == up # {}

\* Retries go on in the background.
BootstrapReturns == TRUE

\* Notify is called, and bootstrapNetworkWithRetry returns whatever its outcome.
Bootstrap ==
    /\ pc = "boot"
    /\ BootstrapReturns
    /\ Goto("database")
    /\ UNCHANGED <<up, hostOpen, dhtOpen, services, gater>>

CreateDatabaseInstance ==
    /\ pc = "database"
    /\ StartDiscovery
    /\ Goto("connected")
    /\ UNCHANGED <<up, hostOpen, dhtOpen, gater>>

-----------------------------------------------------------------------------
(* Disconnect, and the end of a failed Connect.                              *)

\* shutdownCancel, stopBootstrapRetry, subscriptions and topics: BootstrapRetry
\* and TopicManager have the details.
Disconnect ==
    /\ pc = "connected"
    /\ Goto("closeDHT")
    /\ UNCHANGED <<up, hostOpen, dhtOpen, services, gater>>

CloseDHT ==
    /\ pc = "closeDHT"
    /\ dhtOpen' = FALSE
    /\ Goto("closeHost")
    /\ UNCHANGED <<up, hostOpen, services, gater>>

\* Mutant: host.Close is not called.
HostKept == hostOpen

HostClosed == FALSE

CloseHost ==
    /\ \/ pc = "closeHost" /\ Goto("closing")
       \/ pc = "abort" /\ Goto("aborting")
    /\ hostOpen' = HostClosed
    /\ UNCHANGED <<up, dhtOpen, services, gater>>

\* host.Close returns when the connections are gone.
CloseReturns ==
    /\ up = {}
    /\ \/ pc = "closing" /\ Goto("done")
       \/ pc = "aborting" /\ Goto("failed")
    /\ UNCHANGED <<up, hostOpen, dhtOpen, services, gater>>

-----------------------------------------------------------------------------

Call ==
    \/ ConnectStarts
    \/ CreateHost
    \/ CreateDHT
    \/ CreateGossipSub
    \/ Bootstrap
    \/ CreateDatabaseInstance
    \/ CloseDHT
    \/ CloseHost
    \/ CloseReturns

Environment ==
    \/ Authorised
    \/ \E p \in Peers : AdvertisedChanges(p) \/ PeerConnects(p) \/ PeerDrops(p)

\* A round opens a connection when the gater admits it.
RoundConnects(r) ==
    /\ DialSucceeds(r)
    /\ Gater!Admit(target[r])
    /\ UNCHANGED <<refreshing, pc>>

Loops(r) == ProcessPeers(r) /\ UNCHANGED <<gater, pc>>

\* An answer nobody owes the round: it may have to wait for its timeout.
RoundRefused(r) == DialFails(r) /\ UNCHANGED <<gater, pc>>

Finds == FindPeersLoop /\ UNCHANGED <<gater, pc>>

Advertises == Advertise /\ UNCHANGED <<gater, pc>>

\* A node whose Connect failed, or that was disconnected, may stay as it is.
Next ==
    \/ Environment
    \/ Call
    \/ Disconnect
    \/ Finds
    \/ Advertises
    \/ \E r \in Rounds : RoundConnects(r) \/ Loops(r) \/ RoundRefused(r)

Spec == Init /\ [][Next]_vars

(***************************************************************************)
(* Goroutines are scheduled, tickers tick, and dials time out; a closed    *)
(* host sheds its connections.  The application need not call Disconnect,  *)
(* nor peers do anything.  A DHT that is asked for ever answers at last,   *)
(* and so does a peer that is dialled for ever.                            *)
(***************************************************************************)
Fairness ==
    /\ WF_vars(Call)
    /\ WF_vars(Finds)
    /\ WF_vars(Advertises)
    /\ \A p \in Peers : WF_vars(~hostOpen /\ PeerDrops(p))
    /\ \A r \in Rounds : WF_vars(Loops(r))
    /\ SF_vars((\E r \in Rounds : FindPeers(r)) /\ UNCHANGED <<gater, pc>>)
    /\ \A p \in Peers : SF_vars(\E r \in Rounds : target[r] = p /\ RoundConnects(r))

LiveSpec == Spec /\ Fairness

-----------------------------------------------------------------------------
(* Properties.                                                               *)

\* A Connect that returns an error leaves no host behind: nobody can connect to
\* the node, and it to nobody (the cleanup of the two late error paths).
FailedConnectIsOffline == pc = "failed" => ~hostOpen /\ up = {}

\* When Disconnect has returned the node has no connection and gets none any
\* more, although its discovery loops run on and a round may be dialling.
DisconnectedIsOffline == pc = "done" => up = {}

\* Connect and Disconnect return, whoever connects meanwhile.
CallsReturn ==
    pc \in Connecting \cup Disconnecting ~> pc \in {"connected", "failed", "done"}

\* Every round ends, also when the peers it dials never answer.
RoundsEnd == \A r \in Rounds : round[r] # "idle" ~> round[r] = "idle"

Reachable(p) ==
    /\ hostOpen /\ dhtOpen /\ finder # "off"
    /\ p \in advertised /\ WalletOf[p] \in registry

\* Once connections hold, discovery connects every peer that stays advertised
\* and authorised, however many others it found first: the limit per round
\* starves nobody.
AdvertisedPeersConnected ==
    \A p \in Peers :
        <>[]Reachable(p) /\ <>[][up \subseteq up']_up => <>[](p \in up)

\* After Disconnect, no goroutine of the node is left.
DisconnectCleansUp ==
    pc = "done" ~> /\ ~refreshing
                   /\ finder = "off" /\ advertisers = 0
                   /\ \A r \in Rounds : round[r] = "idle"

=============================================================================
