---------------------------- MODULE RegistryGater ----------------------------
(***************************************************************************)
(* SolanaRegistryGater (common/gater.go): the authorisation cache, its     *)
(* background refresh, and the checks the swarm asks of the gater when a   *)
(* connection is dialled or secured.                                       *)
(*                                                                         *)
(* refreshCache and ClearCache overwrite the cache's sync.Map as a plain   *)
(* struct under cache.mutex; checkWalletInCache uses the same sync.Map     *)
(* without the mutex.  That is a data race: while the struct is being      *)
(* overwritten, a Load may see the old or the new map, a Store may be kept *)
(* or lost, and either may kill the process (the overwrite clears the      *)
(* map's inner mutex while it is held); when it does, at once.  No old     *)
(* entry survives: amd64 code clears mutex and read map in one store, the  *)
(* dirty map in the next.                                                  *)
(*                                                                         *)
(* since1, since2, pending and steady are history variables for the        *)
(* properties: they record what the registry has authorised.               *)
(*                                                                         *)
(* Bounds: |Checkers| connection attempts at a time.                       *)
(***************************************************************************)
EXTENDS Identity, FiniteSets

CONSTANTS
    Peers,            \* the IDs of the peers
    Checkers,         \* swarm goroutines that run the gater's checks
    RegistryFails,    \* TRUE when getAuthorizedWallets may return an error
    RaceKills,        \* TRUE when the data race may kill the process
    CacheCleared,     \* TRUE when somebody calls ClearCache
    LookupsAreShort   \* TRUE when no lookup (10 s) outlasts a refresh interval

ASSUME GaterAssumption ==
    /\ Peers # {} /\ Peers \subseteq PeerIDs
    /\ {RegistryFails, RaceKills, CacheCleared, LookupsAreShort} \subseteq BOOLEAN

VARIABLES
    registry,   \* the wallets getAuthorizedWallets would return now
    cache,      \* the keys of authorizedWallets
    torn,       \* wallets stored while the map is being overwritten
    mutex,      \* who holds cache.mutex: "free", "refresh" or "clear"
    refresher,  \* where the refresh goroutine is
    fetched,    \* the list refreshCache works on (what is left to store)
    stopping,   \* Stop was called
    check,      \* of each checker: where it is
    stage,      \* of each checker: the Intercept function it runs
    peer,       \* of each checker: the peer it checks
    spanning,   \* checkers whose answer is older than the last fetch
    open,       \* peers with an admitted connection
    pending,    \* wallets authorised at some time since the last fetch
    since1,     \* the same since the fetch of the last installed list
    since2,     \* the same since the fetch before that one
    steady      \* wallets authorised at all times since the last fetch

vars == <<registry, cache, torn, mutex, refresher, fetched, stopping, check,
          stage, peer, spanning, open, pending, since1, since2, steady>>

store    == <<cache, torn>>
refresh  == <<mutex, refresher, fetched, stopping>>
attempts == <<check, stage, peer, open>>
history  == <<pending, since1, since2, steady>>

Stages == {"peerDial", "addrDial", "secured"}

TypeOK ==
    /\ {registry, cache, torn, fetched} \subseteq SUBSET Wallets
    /\ {pending, since1, since2, steady} \subseteq SUBSET Wallets
    /\ mutex \in {"free", "refresh", "clear", "dead"}
    /\ refresher \in {"fetch", "lock", "reset", "fill", "wait", "stopped",
                      "dead"}
    /\ check \in [Checkers -> {"idle", "load", "ask", "store", "dead"}]
    /\ stage \in [Checkers -> Stages]
    /\ peer \in [Checkers -> Peers]
    /\ spanning \subseteq Checkers
    /\ open \subseteq Peers
    /\ stopping \in BOOLEAN

AnyPeer == CHOOSE p \in Peers : TRUE

Init ==
    /\ registry \in SUBSET Wallets
    /\ cache = {} /\ torn = {}
    /\ mutex = "free"
    /\ refresher = "fetch" /\ fetched = {}
    /\ stopping = FALSE
    /\ check = [c \in Checkers |-> "idle"]
    /\ stage = [c \in Checkers |-> "secured"]
    /\ peer = [c \in Checkers |-> AnyPeer]
    /\ spanning = {} /\ open = {}
    /\ pending = registry /\ since1 = registry /\ since2 = registry
    /\ steady = {}

-----------------------------------------------------------------------------
(* The environment.                                                          *)

RegistryChanges(wallets) ==
    /\ registry' = wallets
    /\ pending' = pending \cup wallets
    /\ since1' = since1 \cup wallets
    /\ since2' = since2 \cup wallets
    /\ steady' = steady \cap wallets
    /\ UNCHANGED <<store, refresh, attempts, spanning>>

ConnectionCloses(p) ==
    /\ p \in open
    /\ open' = open \ {p}
    /\ UNCHANGED <<registry, store, refresh, check, stage, peer, spanning, history>>

-----------------------------------------------------------------------------
(* The refresh goroutine: refreshAuthorizedWallets and refreshCache.         *)

Storing == {c \in Checkers : check[c] = "store"}

\* Mutant: the cache is cleared before the error is looked at.
CacheLost == {}

\* A failed fetch leaves the cache as it is ...
CacheKept == cache

\* Mutant: an error ends the refresh goroutine.
RefreshGivesUp == "stopped"

\* ... and the loop goes on.
RefreshGoesOn == "wait"

\* getAuthorizedWallets fails or times out.
RefreshFails ==
    /\ RegistryFails
    /\ refresher = "fetch"
    /\ refresher' = RefreshGoesOn
    /\ cache' = CacheKept
    /\ spanning' = Storing
    /\ UNCHANGED <<registry, torn, mutex, fetched, stopping, attempts, history>>

RefreshFetches ==
    /\ refresher = "fetch"
    /\ fetched' = registry
    /\ refresher' = "lock"
    /\ spanning' = Storing
    /\ pending' = registry
    /\ steady' = registry
    /\ UNCHANGED <<registry, store, mutex, stopping, attempts, since1,
                   since2>>

\* mutex.Lock(); the assignment of the empty map begins ...
RefreshLocks ==
    /\ refresher = "lock"
    /\ mutex = "free"
    /\ mutex' = "refresh"
    /\ refresher' = "reset"
    /\ UNCHANGED <<registry, store, fetched, stopping, attempts, spanning, history>>

\* Mutant: the new list is added to the old one.
OverwrittenKept == {cache \cup torn}

\* What is in the map once it has been overwritten: none of the old entries,
\* and of those stored meanwhile any.
Overwritten == SUBSET torn

\* ... and is done.
RefreshResets ==
    /\ refresher = "reset"
    /\ cache' \in Overwritten
    /\ torn' = {}
    /\ refresher' = "fill"
    /\ since2' = since1
    /\ since1' = pending
    /\ UNCHANGED <<registry, mutex, fetched, stopping, attempts, spanning, pending, steady>>

RefreshStores(w) ==
    /\ refresher = "fill"
    /\ w \in fetched
    /\ cache' = cache \cup {w}
    /\ fetched' = fetched \ {w}
    /\ UNCHANGED <<registry, torn, mutex, refresher, stopping, attempts, spanning, history>>

RefreshUnlocks ==
    /\ refresher = "fill"
    /\ fetched = {}
    /\ mutex' = "free"
    /\ refresher' = "wait"
    /\ UNCHANGED <<registry, store, fetched, stopping, attempts, spanning, history>>

\* The ticker.  A lookup that is older than the last fetch has ended by now
\* when lookups are short.
RefreshTicks ==
    /\ refresher = "wait"
    /\ LookupsAreShort => spanning = {}
    /\ refresher' = "fetch"
    /\ UNCHANGED <<registry, store, mutex, fetched, stopping, attempts, spanning, history>>

\* Mutant: the loop does not look at its context.
RefreshNeverStops == FALSE

RefreshStops ==
    /\ refresher = "wait"
    /\ stopping
    /\ refresher' = "stopped"
    /\ UNCHANGED <<registry, store, mutex, fetched, stopping, attempts, spanning, history>>

\* Stop; it returns once the refresh goroutine has stopped.
Stop ==
    /\ ~stopping /\ refresher # "dead"
    /\ stopping' = TRUE
    /\ UNCHANGED <<registry, store, mutex, refresher, fetched, attempts, spanning, history>>

-----------------------------------------------------------------------------
(* ClearCache, in two steps as above.                                        *)

ClearBegins ==
    /\ CacheCleared
    /\ mutex = "free"
    /\ mutex' = "clear"
    /\ UNCHANGED <<registry, store, refresher, fetched, stopping, attempts,
                   spanning, history>>

ClearEnds ==
    /\ mutex = "clear"
    /\ cache' \in Overwritten
    /\ torn' = {}
    /\ mutex' = "free"
    /\ UNCHANGED <<registry, refresher, fetched, stopping, attempts, spanning, history>>

-----------------------------------------------------------------------------
(* The checks.  An inbound connection is checked once (InterceptSecured), an *)
(* outbound one first by InterceptPeerDial and InterceptAddrDial too;        *)
(* InterceptAccept and InterceptUpgraded let everything through.             *)

Overwriting == refresher = "reset" \/ mutex = "clear"

WalletOf == [p \in Peers |-> PeerIDToSolanaPublicKey(p)]

Wallet(c) == WalletOf[peer[c]]

CheckBegins(c, p, first) ==
    /\ check[c] = "idle"
    /\ p \notin open
    /\ check' = [check EXCEPT ![c] = "load"]
    /\ stage' = [stage EXCEPT ![c] = first]
    /\ peer' = [peer EXCEPT ![c] = p]
    /\ UNCHANGED <<registry, store, refresh, open, spanning, history>>

\* The attempt ends; the checker keeps nothing.
Ends(c) ==
    /\ check' = [check EXCEPT ![c] = "idle"]
    /\ stage' = [stage EXCEPT ![c] = "secured"]
    /\ peer' = [peer EXCEPT ![c] = AnyPeer]
    /\ spanning' = spanning \ {c}

Refuses(c) == Ends(c) /\ UNCHANGED open

\* The check says yes: on to the next one, or the connection is admitted.
Passes(c) ==
    IF stage[c] = "secured"
    THEN Ends(c) /\ open' = open \cup {peer[c]}
    ELSE /\ check' = [check EXCEPT ![c] = "load"]
         /\ stage' = [stage EXCEPT ![c] = IF @ = "peerDial" THEN "addrDial"
                                                            ELSE "secured"]
         /\ spanning' = spanning \ {c}
         /\ UNCHANGED <<peer, open>>

\* PeerIDToSolanaPublicKey fails.
NotAWallet(c) ==
    /\ check[c] = "load"
    /\ Wallet(c) = NoWallet
    /\ Refuses(c)
    /\ UNCHANGED <<registry, store, refresh, history>>

LoadHits(c) ==
    /\ check[c] = "load"
    /\ Wallet(c) \in cache \cup torn
    /\ Passes(c)
    /\ UNCHANGED <<registry, store, refresh, history>>

LoadMisses(c) ==
    /\ check[c] = "load"
    /\ Wallet(c) # NoWallet
    /\ Wallet(c) \notin cache \/ Overwriting
    /\ check' = [check EXCEPT ![c] = "ask"]
    /\ UNCHANGED <<registry, store, refresh, stage, peer, open, spanning,
                   history>>

\* Mutant: an error lets the connection through.
ErrorPasses(c) == Passes(c)

\* The registry fails or times out: the error refuses the connection.
ErrorRefuses(c) == Refuses(c)

AskFails(c) ==
    /\ RegistryFails
    /\ check[c] = "ask"
    /\ ErrorRefuses(c)
    /\ UNCHANGED <<registry, store, refresh, history>>

AskAnswered(c) ==
    /\ check[c] = "ask"
    /\ \/ Wallet(c) \notin registry /\ Refuses(c)
       \/ /\ Wallet(c) \in registry
          /\ check' = [check EXCEPT ![c] = "store"]
          /\ UNCHANGED <<stage, peer, open, spanning>>
    /\ UNCHANGED <<registry, store, refresh, history>>

\* Mutant: the peer is stored instead of its wallet.
PeerKey(c) == peer[c]

StoredKey(c) == Wallet(c)

\* The answer is stored, however old it is by now.
StoreAnswer(c) ==
    /\ check[c] = "store"
    /\ IF Overwriting
       THEN torn' = torn \cup {StoredKey(c)} /\ UNCHANGED cache
       ELSE cache' = cache \cup {StoredKey(c)} /\ UNCHANGED torn
    /\ Passes(c)
    /\ UNCHANGED <<registry, refresh, history>>

\* The race kills the process: every goroutine and every connection is gone.
Crash(c) ==
    /\ RaceKills
    /\ Overwriting
    /\ check[c] \in {"load", "store"}
    /\ refresher' = "dead"
    /\ mutex' = "dead"
    /\ check' = [d \in Checkers |-> "dead"]
    /\ open' = {}
    /\ UNCHANGED <<registry, store, fetched, stopping, stage, peer, spanning, history>>

-----------------------------------------------------------------------------

Refresh ==
    \/ RefreshFails
    \/ RefreshFetches
    \/ RefreshLocks
    \/ RefreshResets
    \/ \E w \in Wallets : RefreshStores(w)
    \/ RefreshUnlocks
    \/ RefreshTicks
    \/ RefreshStops

Check(c) ==
    \/ NotAWallet(c)
    \/ LoadHits(c)
    \/ LoadMisses(c)
    \/ AskFails(c)
    \/ AskAnswered(c)
    \/ StoreAnswer(c)

Environment ==
    \/ \E wallets \in SUBSET Wallets : RegistryChanges(wallets)
    \/ \E p \in Peers : ConnectionCloses(p)
    \/ \E c \in Checkers, p \in Peers, first \in {"peerDial", "secured"} :
          CheckBegins(c, p, first)
    \/ Stop
    \/ ClearBegins

Next ==
    \/ Environment
    \/ Refresh
    \/ ClearEnds
    \/ \E c \in Checkers : Check(c) \/ Crash(c)

Spec == Init /\ [][Next]_vars

(***************************************************************************)
(* The goroutines are scheduled, the ticker ticks, and a registry that is  *)
(* asked for ever answers at last.  A stopped gater's select sees its done *)
(* context and its ticker; it picks either, uniformly.                     *)
(***************************************************************************)
Fairness ==
    /\ WF_vars(Refresh)
    /\ SF_vars(RefreshFetches)
    /\ SF_vars(RefreshLocks)
    /\ SF_vars(RefreshStops)
    /\ WF_vars(ClearEnds)
    /\ \A c \in Checkers : WF_vars(Check(c))

LiveSpec == Spec /\ Fairness

-----------------------------------------------------------------------------
(* Properties.                                                               *)

\* With short lookups, a cached wallet was authorised at some time since the
\* fetch before the last installed one: a revoked wallet outlives two refreshes
\* at most, even when a slow lookup stores it again after the first.
CacheIsRecent == cache \cup torn \subseteq since2

\* The gater keeps the promises of Admission: neither an error of the registry,
\* nor a foreign key, nor a late store, nor the data race admits a connection
\* for a wallet that was not authorised since the fetch before the last one.
Promise == INSTANCE Admission WITH recent <- since2

AdmitsRecentOnly == Promise!Spec

\* A connection is admitted only to the peer whose own key the wallet is, not to
\* one whose key of another type has the same bytes.
OnlyOwnersAdmitted ==
    open \subseteq {CreatePeerIDFromSolanaPublicKey(w) : w \in Wallets}

\* Between refreshes, the cache holds every wallet that has been authorised all
\* the time since the last successful fetch: a registry that fails takes no
\* cached wallet away.
SteadyWalletsCached ==
    refresher \in {"wait", "fetch"} => steady \subseteq cache

\* A wallet revoked for good leaves the cache for good (while not stopped).
RevokedWalletForgotten ==
    \A w \in Wallets :
        <>[](w \notin registry /\ ~stopping) => <>[](w \notin cache)

\* Stop returns: the refresh goroutine ends.
StopReturns == stopping ~> refresher = "stopped"

=============================================================================
