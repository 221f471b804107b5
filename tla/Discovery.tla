------------------------------ MODULE Discovery ------------------------------
(***************************************************************************)
(* DiscoveryService (pubsub/discovery.go): the loop that advertises the    *)
(* node in the DHT, the loop that looks for others, and processPeers, of   *)
(* which every answer starts a goroutine of its own: rounds overlap and    *)
(* share nothing but the swarm.                                            *)
(*                                                                         *)
(* The loops run with context.Background(), so what they do on a done      *)
(* context is never reached; they end with the process.                    *)
(*                                                                         *)
(* Bounds: |Rounds| rounds at a time; goroutines that advertise are        *)
(* counted up to MaxAdvertisers.                                           *)
(***************************************************************************)
EXTENDS Naturals

CONSTANTS
    Peers,           \* the other peers
    Nobody,          \* no peer
    Rounds,          \* pool of goroutines for processPeers
    Limit,           \* connections per round (5)
    MaxAdvertisers

ASSUME DiscoveryAssumption ==
    /\ Nobody \notin Peers
    /\ Limit \in Nat \ {0}
    /\ MaxAdvertisers \in Nat \ {0}

VARIABLES
    up,            \* the peers with a live connection
    hostOpen,      \* the host exists and host.Close has not been called
    dhtOpen,       \* the DHT exists and dht.Close has not been called
    advertised,    \* the peers at this database's rendezvous
    advertisers,   \* goroutines that util.Advertise left running
    finder,        \* where findPeersLoop is
    round,         \* where each round is
    todo,          \* the peers a round has not looked at yet
    target,        \* the peer a round dials, or Nobody
    count          \* a round's connectedCount

loops  == <<advertisers, finder>>
rounds == <<round, todo, target, count>>

LoopsTyped ==
    /\ advertised \subseteq Peers
    /\ advertisers \in 0..MaxAdvertisers
    /\ finder \in {"off", "find", "wait"}
    /\ round \in [Rounds -> {"idle", "next", "dial"}]
    /\ todo \in [Rounds -> SUBSET Peers]
    /\ target \in [Rounds -> Peers \cup {Nobody}]
    /\ count \in [Rounds -> 0..(Limit - 1)]

LoopsInit ==
    /\ advertised \in SUBSET Peers
    /\ advertisers = 0
    /\ finder = "off"
    /\ round = [r \in Rounds |-> "idle"]
    /\ todo = [r \in Rounds |-> {}]
    /\ target = [r \in Rounds |-> Nobody]
    /\ count = [r \in Rounds |-> 0]

-----------------------------------------------------------------------------
(* The loops.                                                                *)

StartDiscovery ==
    /\ finder' = "find"
    /\ UNCHANGED <<advertised, advertisers, rounds>>

\* Each call of util.Advertise, one at the start and one per tick, leaves a
\* goroutine behind that advertises on.
Advertise ==
    /\ finder # "off"
    /\ advertisers < MaxAdvertisers
    /\ advertisers' = advertisers + 1
    /\ UNCHANGED <<up, hostOpen, dhtOpen, advertised, finder, rounds>>

\* FindPeers answers and a round starts; a closed DHT finds nobody.  The round
\* passes over our own entry whenever it meets it: it is left out at once.
FindPeers(r) ==
    /\ finder = "find"
    /\ round[r] = "idle"
    /\ round' = [round EXCEPT ![r] = "next"]
    /\ todo' = [todo EXCEPT ![r] = IF dhtOpen THEN advertised ELSE {}]
    /\ finder' = "wait"
    /\ UNCHANGED <<up, hostOpen, dhtOpen, advertised, advertisers, target, count>>

FindPeersFails ==
    /\ finder = "find"
    /\ finder' = "wait"
    /\ UNCHANGED <<up, hostOpen, dhtOpen, advertised, advertisers, rounds>>

FindPeersTicks ==
    /\ finder = "wait"
    /\ finder' = "find"
    /\ UNCHANGED <<up, hostOpen, dhtOpen, advertised, advertisers, rounds>>

-----------------------------------------------------------------------------
(* processPeers.  The list has no order anybody could rely on.               *)

\* Mutant: a peer that is connected is dialled again, and counted again.
SkipsNobody(p) == FALSE

Skips(p) == p \in up

Skip(r, p) ==
    /\ round[r] = "next"
    /\ p \in todo[r] /\ Skips(p)
    /\ todo' = [todo EXCEPT ![r] = @ \ {p}]
    /\ UNCHANGED <<up, hostOpen, dhtOpen, advertised, loops, round, target, count>>

Dial(r, p) ==
    /\ round[r] = "next"
    /\ p \in todo[r] /\ ~Skips(p)
    /\ todo' = [todo EXCEPT ![r] = @ \ {p}]
    /\ target' = [target EXCEPT ![r] = p]
    /\ round' = [round EXCEPT ![r] = "dial"]
    /\ UNCHANGED <<up, hostOpen, dhtOpen, advertised, loops, count>>

\* Mutant: one connection too many.
LimitExceeded(n) == n > Limit

LimitReached(n) == n >= Limit

\* The round is over; the goroutine goes back to the pool.
Ends(r) ==
    /\ round' = [round EXCEPT ![r] = "idle"]
    /\ todo' = [todo EXCEPT ![r] = {}]
    /\ target' = [target EXCEPT ![r] = Nobody]
    /\ count' = [count EXCEPT ![r] = 0]

\* On to the next peer of the list, with n connections made.
GoesOn(r, n) ==
    /\ round' = [round EXCEPT ![r] = "next"]
    /\ target' = [target EXCEPT ![r] = Nobody]
    /\ count' = [count EXCEPT ![r] = n]
    /\ UNCHANGED todo

Counted(r) ==
    IF LimitReached(count[r] + 1) THEN Ends(r) ELSE GoesOn(r, count[r] + 1)

\* host.Connect opens a connection ...
DialSucceeds(r) ==
    /\ round[r] = "dial"
    /\ hostOpen
    /\ target[r] \notin up
    /\ up' = up \cup {target[r]}
    /\ Counted(r)
    /\ UNCHANGED <<hostOpen, dhtOpen, advertised, loops>>

\* ... or finds that somebody else has opened it.
DialFindsOpen(r) ==
    /\ round[r] = "dial"
    /\ target[r] \in up
    /\ Counted(r)
    /\ UNCHANGED <<up, hostOpen, dhtOpen, advertised, loops>>

\* Refused by the gater, unreachable, or the host is closed.
DialFails(r) ==
    /\ round[r] = "dial"
    /\ GoesOn(r, count[r])
    /\ UNCHANGED <<up, hostOpen, dhtOpen, advertised, loops>>

\* Mutant: the dial has no timeout.
WaitsForever == FALSE

HasTimeout == TRUE

DialTimesOut(r) == HasTimeout /\ DialFails(r)

RoundEnds(r) ==
    /\ round[r] = "next"
    /\ todo[r] = {}
    /\ Ends(r)
    /\ UNCHANGED <<up, hostOpen, dhtOpen, advertised, loops>>

\* What a round does by itself.
ProcessPeers(r) ==
    \/ \E p \in Peers : Skip(r, p) \/ Dial(r, p)
    \/ DialFindsOpen(r)
    \/ DialTimesOut(r)
    \/ RoundEnds(r)

FindPeersLoop ==
    \/ \E r \in Rounds : FindPeers(r)
    \/ FindPeersFails
    \/ FindPeersTicks

=============================================================================
