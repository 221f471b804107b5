------------------------ MODULE RegistryGaterProofs ------------------------
(***************************************************************************)
(* What holds of RegistryGater for every registry, peers and number of     *)
(* connection attempts: its types, how old a cached wallet or the wallet   *)
(* of an admitted connection can be when lookups are short, and that the   *)
(* cache survives a failing registry when nobody clears it.                *)
(***************************************************************************)
EXTENDS RegistryGater, IdentityProofs, TLAPS

USE DEF store, refresh, attempts, history

-----------------------------------------------------------------------------
(* The end of a check.                                                       *)

\* What Passes and Refuses do to the attempts: c leaves the place where it
\* holds an answer, nobody else moves, and only c's peer may be admitted.
Settles(c) ==
    /\ check' \in [Checkers -> {"idle", "load", "ask", "store", "dead"}]
    /\ stage' \in [Checkers -> Stages]
    /\ peer' \in [Checkers -> Peers]
    /\ check'[c] # "store"
    /\ \A d \in Checkers \ {c} : check'[d] = check[d] /\ peer'[d] = peer[d]
    /\ spanning' = spanning \ {c}
    /\ open' = open \/ open' = open \cup {peer[c]}

LEMMA AnyPeerExists == AnyPeer \in Peers
BY GaterAssumption DEF AnyPeer

LEMMA EndsSettles ==
    ASSUME TypeOK, NEW c \in Checkers, Ends(c),
           open' = open \/ open' = open \cup {peer[c]}
    PROVE  Settles(c)
BY AnyPeerExists DEF Ends, Settles, TypeOK, Stages

LEMMA RefusesSettles ==
    ASSUME TypeOK, NEW c \in Checkers, Refuses(c)
    PROVE  Settles(c) /\ open' = open
BY EndsSettles DEF Refuses

LEMMA PassesSettles ==
    ASSUME TypeOK, NEW c \in Checkers, Passes(c)
    PROVE  Settles(c)
<1>1. CASE stage[c] = "secured"
  BY <1>1, EndsSettles DEF Passes
<1>2. CASE stage[c] # "secured"
  BY <1>2 DEF Passes, Settles, TypeOK, Stages
<1> QED
  BY <1>1, <1>2

-----------------------------------------------------------------------------
(* Type correctness.                                                         *)

\* A checker that is about to store holds a wallet.
AnswersTyped == \A c \in Checkers : check[c] = "store" => Wallet(c) \in Wallets

TypeInv == TypeOK /\ AnswersTyped

LEMMA TypeInit == Init => TypeInv
BY AnyPeerExists DEF Init, TypeInv, TypeOK, AnswersTyped, Stages

\* An attempt that ends keeps the types of the attempts and the other answers.
LEMMA SettlesTyped ==
    ASSUME TypeInv, NEW c \in Checkers, Settles(c)
    PROVE  /\ AnswersTyped'
           /\ check' \in [Checkers -> {"idle", "load", "ask", "store", "dead"}]
           /\ stage' \in [Checkers -> Stages]
           /\ peer' \in [Checkers -> Peers]
           /\ spanning' \subseteq Checkers
           /\ open' \subseteq Peers
BY DEF Settles, TypeInv, TypeOK, AnswersTyped, Wallet

LEMMA CheckTyped ==
    ASSUME TypeInv, NEW c \in Checkers, Check(c)
    PROVE  TypeInv'
<1>1. CASE NotAWallet(c)
  BY <1>1, RefusesSettles, SettlesTyped DEF NotAWallet, TypeInv, TypeOK
<1>2. CASE LoadHits(c)
  BY <1>2, PassesSettles, SettlesTyped DEF LoadHits, TypeInv, TypeOK
<1>3. CASE LoadMisses(c)
  BY <1>3 DEF LoadMisses, TypeInv, TypeOK, AnswersTyped, Wallet
<1>4. CASE AskFails(c)
  BY <1>4, RefusesSettles, SettlesTyped DEF AskFails, ErrorRefuses, TypeInv, TypeOK
<1>5. CASE AskAnswered(c)
  <2>1. CASE Refuses(c)
    BY <1>5, <2>1, RefusesSettles, SettlesTyped DEF AskAnswered, TypeInv, TypeOK
  <2>2. CASE ~Refuses(c)
    BY <1>5, <2>2 DEF AskAnswered, TypeInv, TypeOK, AnswersTyped, Wallet
  <2> QED
    BY <2>1, <2>2
<1>6. CASE StoreAnswer(c)
  <2>1. Wallet(c) \in Wallets
    BY <1>6 DEF StoreAnswer, StoredKey, TypeInv, AnswersTyped
  <2> QED
    BY <1>6, <2>1, PassesSettles, SettlesTyped DEF StoreAnswer, StoredKey, TypeInv, TypeOK
<1> QED
  BY <1>1, <1>2, <1>3, <1>4, <1>5, <1>6 DEF Check

LEMMA RefreshTyped == TypeInv /\ Refresh => TypeInv'
<1> SUFFICES ASSUME TypeInv, Refresh PROVE TypeInv'
  OBVIOUS
<1> USE DEF TypeInv, TypeOK, AnswersTyped, Wallet
<1>1. CASE RefreshFails
  BY <1>1 DEF RefreshFails, RefreshGoesOn, CacheKept, Storing
<1>2. CASE RefreshFetches
  BY <1>2 DEF RefreshFetches, Storing
<1>3. CASE RefreshLocks
  BY <1>3 DEF RefreshLocks
<1>4. CASE RefreshResets
  BY <1>4 DEF RefreshResets, Overwritten
<1>5. ASSUME NEW w \in Wallets, RefreshStores(w) PROVE TypeInv'
  BY <1>5 DEF RefreshStores
<1>6. CASE RefreshUnlocks
  BY <1>6 DEF RefreshUnlocks
<1>7. CASE RefreshTicks
  BY <1>7 DEF RefreshTicks
<1>8. CASE RefreshStops
  BY <1>8 DEF RefreshStops
<1> QED
  BY <1>1, <1>2, <1>3, <1>4, <1>5, <1>6, <1>7, <1>8 DEF Refresh

LEMMA OthersTyped ==
    TypeInv /\ (Environment \/ ClearEnds \/ \E c \in Checkers : Crash(c)) => TypeInv'
<1> SUFFICES ASSUME TypeInv, Environment \/ ClearEnds \/ \E c \in Checkers : Crash(c)
             PROVE  TypeInv'
  OBVIOUS
<1> USE DEF TypeInv, TypeOK, AnswersTyped, Wallet
<1>1. ASSUME NEW wallets \in SUBSET Wallets, RegistryChanges(wallets) PROVE TypeInv'
  BY <1>1 DEF RegistryChanges
<1>2. ASSUME NEW p \in Peers, ConnectionCloses(p) PROVE TypeInv'
  BY <1>2 DEF ConnectionCloses
<1>3. ASSUME NEW c \in Checkers, NEW p \in Peers, NEW first \in {"peerDial", "secured"},
             CheckBegins(c, p, first)
      PROVE  TypeInv'
  BY <1>3 DEF CheckBegins, Stages
<1>4. CASE Stop
  BY <1>4 DEF Stop
<1>5. CASE ClearBegins
  BY <1>5 DEF ClearBegins
<1>6. CASE ClearEnds
  BY <1>6 DEF ClearEnds, Overwritten
<1>7. ASSUME NEW c \in Checkers, Crash(c) PROVE TypeInv'
  BY <1>7 DEF Crash
<1> QED
  BY <1>1, <1>2, <1>3, <1>4, <1>5, <1>6, <1>7 DEF Environment

LEMMA TypeStep == TypeInv /\ [Next]_vars => TypeInv'
<1> SUFFICES ASSUME TypeInv, [Next]_vars PROVE TypeInv'
  OBVIOUS
<1>1. CASE UNCHANGED vars
  BY <1>1 DEF vars, TypeInv, TypeOK, AnswersTyped, Wallet
<1>2. CASE Environment \/ ClearEnds \/ \E c \in Checkers : Crash(c)
  BY <1>2, OthersTyped
<1>3. CASE Refresh
  BY <1>3, RefreshTyped
<1>4. CASE \E c \in Checkers : Check(c)
  BY <1>4, CheckTyped
<1> QED
  BY <1>1, <1>2, <1>3, <1>4 DEF Next

\* The gater's state keeps its types: in particular only wallets are ever
\* stored in the cache.
THEOREM TypeCorrect == Spec => []TypeOK
<1>1. TypeInv => TypeOK
  BY DEF TypeInv
<1> QED
  BY <1>1, TypeInit, TypeStep, PTL DEF Spec

-----------------------------------------------------------------------------
(* Recency, when no lookup outlasts a refresh interval.                      *)

\* The four spans of time that end now, from the shortest to the longest.
SpansNested == registry \subseteq pending /\ pending \subseteq since1 /\ since1 \subseteq since2

\* The list that refreshCache installs is that of the last fetch.
ListIsPending == fetched \subseteq pending

\* The map is overwritten under the mutex, and has no undecided store else.
OverwrittenUnderMutex ==
    /\ refresher \in {"reset", "fill"} => mutex = "refresh"
    /\ torn = {} \/ Overwriting \/ refresher = "dead"
    /\ refresher = "reset" => torn \subseteq since1

\* A checker holds an answer from before the last fetch at most until the tick.
AnswersRecent ==
    /\ refresher = "fetch" => spanning = {}
    /\ \A c \in Checkers : check[c] = "store" =>
          /\ c \notin spanning => Wallet(c) \in pending
          /\ refresher \in {"lock", "reset"} => Wallet(c) \in since1
          /\ Wallet(c) \in since2

RecentInv ==
    /\ TypeInv
    /\ SpansNested
    /\ ListIsPending
    /\ OverwrittenUnderMutex
    /\ AnswersRecent
    /\ CacheIsRecent

LEMMA RecentInit == Init => RecentInv
<1> SUFFICES ASSUME Init PROVE RecentInv
  OBVIOUS
<1>1. SpansNested /\ ListIsPending /\ OverwrittenUnderMutex /\ AnswersRecent /\ CacheIsRecent
  BY DEF Init, SpansNested, ListIsPending, OverwrittenUnderMutex, AnswersRecent, CacheIsRecent
<1> QED
  BY <1>1, TypeInit DEF RecentInv

\* The invariant without its types, which TypeStep takes care of.
Recency == SpansNested /\ ListIsPending /\ OverwrittenUnderMutex /\ AnswersRecent /\ CacheIsRecent

\* When c's attempt ends, the other answers are as recent as they were.
LEMMA SettlesRecent ==
    ASSUME RecentInv, NEW c \in Checkers, Settles(c),
           UNCHANGED <<registry, refresher, pending, since1, since2>>
    PROVE  SpansNested' /\ AnswersRecent'
<1>1. \A d \in Checkers : check'[d] = "store" =>
         check[d] = "store" /\ Wallet(d)' = Wallet(d) /\ (d \notin spanning' => d \notin spanning)
  BY DEF Settles, Wallet
<1>2. refresher = "fetch" => spanning' = {}
  BY DEF RecentInv, AnswersRecent, Settles
<1> QED
  BY <1>1, <1>2 DEF RecentInv, AnswersRecent, SpansNested

LEMMA CheckRecent ==
    ASSUME RecentInv, NEW c \in Checkers, Check(c)
    PROVE  Recency'
<1>1. UNCHANGED <<registry, refresh, history>>
  BY DEF Check, NotAWallet, LoadHits, LoadMisses, AskFails, AskAnswered, StoreAnswer
<1>2. TypeOK
  BY DEF RecentInv, TypeInv
<1>3. CASE Settles(c) /\ UNCHANGED store
  BY <1>1, <1>3, SettlesRecent
     DEF RecentInv, Recency, ListIsPending, OverwrittenUnderMutex, CacheIsRecent, Overwriting
<1>4. CASE LoadMisses(c) \/ (AskAnswered(c) /\ ~Refuses(c))
  <2>1. UNCHANGED <<registry, store, refresh, stage, peer, open, spanning, history>>
    BY <1>4 DEF LoadMisses, AskAnswered
  <2>2. \/ check' = [check EXCEPT ![c] = "ask"]
        \/ check' = [check EXCEPT ![c] = "store"] /\ Wallet(c) \in registry
    BY <1>4 DEF LoadMisses, AskAnswered
  <2>3. AnswersRecent'
    BY <1>2, <2>1, <2>2 DEF RecentInv, SpansNested, AnswersRecent, TypeOK, Wallet
  <2> QED
    BY <2>1, <2>3
       DEF RecentInv, Recency, SpansNested, ListIsPending, OverwrittenUnderMutex,
           CacheIsRecent, Overwriting
<1>5. CASE StoreAnswer(c)
  <2>1. /\ Wallet(c) \in since2
        /\ refresher = "reset" => Wallet(c) \in since1
    BY <1>5 DEF StoreAnswer, StoredKey, RecentInv, AnswersRecent
  <2>2. Settles(c)
    BY <1>2, <1>5, PassesSettles DEF StoreAnswer
  <2>3. \/ Overwriting /\ torn' = torn \cup {Wallet(c)} /\ cache' = cache
        \/ cache' = cache \cup {Wallet(c)} /\ torn' = torn
    BY <1>5 DEF StoreAnswer, StoredKey
  <2> QED
    BY <1>1, <2>1, <2>2, <2>3, SettlesRecent
       DEF RecentInv, Recency, ListIsPending, OverwrittenUnderMutex, CacheIsRecent, Overwriting
<1>6. CASE NotAWallet(c) \/ AskFails(c) \/ (AskAnswered(c) /\ Refuses(c))
  BY <1>2, <1>3, <1>6, RefusesSettles DEF NotAWallet, AskFails, ErrorRefuses, AskAnswered
<1>7. CASE LoadHits(c)
  BY <1>2, <1>3, <1>7, PassesSettles DEF LoadHits
<1> QED
  BY <1>4, <1>5, <1>6, <1>7 DEF Check

LEMMA RefreshRecent ==
    ASSUME LookupsAreShort, RecentInv, Refresh
    PROVE  Recency'
<1> USE DEF RecentInv, Recency, SpansNested, ListIsPending, OverwrittenUnderMutex,
            AnswersRecent, CacheIsRecent, Overwriting, Wallet
<1>1. CASE RefreshFails
  BY <1>1 DEF RefreshFails, RefreshGoesOn, CacheKept, Storing
<1>2. CASE RefreshFetches
  BY <1>2 DEF RefreshFetches, Storing
<1>3. CASE RefreshLocks
  BY <1>3 DEF RefreshLocks
<1>4. CASE RefreshResets
  BY <1>4 DEF RefreshResets, Overwritten
<1>5. ASSUME NEW w \in Wallets, RefreshStores(w) PROVE Recency'
  BY <1>5 DEF RefreshStores
<1>6. CASE RefreshUnlocks
  BY <1>6 DEF RefreshUnlocks
<1>7. CASE RefreshTicks
  BY <1>7 DEF RefreshTicks
<1>8. CASE RefreshStops
  BY <1>8 DEF RefreshStops
<1> QED
  BY <1>1, <1>2, <1>3, <1>4, <1>5, <1>6, <1>7, <1>8 DEF Refresh

LEMMA OthersRecent ==
    ASSUME RecentInv, Environment \/ ClearEnds \/ \E c \in Checkers : Crash(c)
    PROVE  Recency'
<1> USE DEF RecentInv, Recency, SpansNested, ListIsPending, OverwrittenUnderMutex,
            AnswersRecent, CacheIsRecent, Overwriting, Wallet
<1>1. ASSUME NEW wallets \in SUBSET Wallets, RegistryChanges(wallets) PROVE Recency'
  BY <1>1 DEF RegistryChanges
<1>2. ASSUME NEW p \in Peers, ConnectionCloses(p) PROVE Recency'
  BY <1>2 DEF ConnectionCloses
<1>3. ASSUME NEW c \in Checkers, NEW p \in Peers, NEW first \in {"peerDial", "secured"},
             CheckBegins(c, p, first)
      PROVE  Recency'
  BY <1>3 DEF CheckBegins, TypeInv, TypeOK
<1>4. CASE Stop
  BY <1>4 DEF Stop
<1>5. CASE ClearBegins
  BY <1>5 DEF ClearBegins
<1>6. CASE ClearEnds
  BY <1>6 DEF ClearEnds, Overwritten
<1>7. ASSUME NEW c \in Checkers, Crash(c) PROVE Recency'
  BY <1>7 DEF Crash
<1> QED
  BY <1>1, <1>2, <1>3, <1>4, <1>5, <1>6, <1>7 DEF Environment

LEMMA RecentStep ==
    ASSUME LookupsAreShort
    PROVE  RecentInv /\ [Next]_vars => RecentInv'
<1> SUFFICES ASSUME RecentInv, [Next]_vars PROVE Recency'
  BY TypeStep DEF RecentInv, Recency
<1>1. CASE UNCHANGED vars
  BY <1>1 DEF vars, RecentInv, Recency, SpansNested, ListIsPending, OverwrittenUnderMutex,
              AnswersRecent, CacheIsRecent, Overwriting, Wallet
<1>2. CASE Environment \/ ClearEnds \/ \E c \in Checkers : Crash(c)
  BY <1>2, OthersRecent
<1>3. CASE Refresh
  BY <1>3, RefreshRecent
<1>4. CASE \E c \in Checkers : Check(c)
  BY <1>4, CheckRecent
<1> QED
  BY <1>1, <1>2, <1>3, <1>4 DEF Next

LEMMA RecentAlways ==
    ASSUME LookupsAreShort
    PROVE  Spec => []RecentInv
BY RecentInit, RecentStep, PTL DEF Spec

\* When a lookup (10 s) never outlasts the refresh interval (30 s unless
\* configured otherwise), every cached wallet was authorised at some time since
\* the fetch before the last installed one, however the stores of slow lookups,
\* the refreshes, ClearCache and the data race interleave.
THEOREM CacheRecent ==
    ASSUME LookupsAreShort
    PROVE  Spec => []CacheIsRecent
<1>1. RecentInv => CacheIsRecent
  BY DEF RecentInv
<1> QED
  BY <1>1, RecentAlways, PTL

\* Under the same condition the gater implements Admission: every step is one of
\* its steps or changes nothing it speaks of.
THEOREM AdmissionCorrect ==
    ASSUME LookupsAreShort
    PROVE  Spec => AdmitsRecentOnly
<1> USE DEF Promise!Admit, Promise!Close, Promise!Forget, Promise!RegistryChanges,
            Promise!vars
<1>1. Init => Promise!Init
  BY DEF Init, Promise!Init
<1>2. ASSUME RecentInv, [Next]_vars PROVE [Promise!Next]_(Promise!vars)
  <2>1. TypeOK
    BY <1>2 DEF RecentInv, TypeInv
  <2>2. ASSUME NEW c \in Checkers, Check(c) PROVE [Promise!Next]_(Promise!vars)
    <3>1. UNCHANGED <<registry, since2>>
      BY <2>2 DEF Check, NotAWallet, LoadHits, LoadMisses, AskFails, AskAnswered,
                  StoreAnswer, refresh, history
    <3>2. CASE NotAWallet(c) \/ LoadMisses(c) \/ AskFails(c) \/ AskAnswered(c)
      <4>1. UNCHANGED open
        BY <2>1, <3>2, RefusesSettles
           DEF NotAWallet, LoadMisses, AskFails, ErrorRefuses, AskAnswered
      <4> QED
        BY <3>1, <4>1
    <3>3. CASE LoadHits(c) \/ StoreAnswer(c)
      <4>1. Wallet(c) \in since2
        BY <1>2, <3>3 DEF LoadHits, StoreAnswer, RecentInv, CacheIsRecent, AnswersRecent
      <4>2. open' = open \/ open' = open \cup {peer[c]}
        BY <2>1, <3>3, PassesSettles DEF LoadHits, StoreAnswer, Settles
      <4>3. peer[c] \in Peers
        BY <2>1 DEF TypeOK
      <4>4. CASE open' = open \cup {peer[c]}
        <5>1. Promise!Admit(peer[c])
          BY <3>1, <4>1, <4>4 DEF Wallet
        <5> QED
          BY <4>3, <5>1 DEF Promise!Next
      <4> QED
        BY <3>1, <4>2, <4>4
    <3> QED
      BY <2>2, <3>2, <3>3 DEF Check
  <2>3. CASE RefreshResets
    <3>1. Promise!Forget(since1)
      BY <1>2, <2>3 DEF RefreshResets, attempts, RecentInv, SpansNested
    <3>2. since1 \in SUBSET Wallets
      BY <2>1 DEF TypeOK
    <3> QED
      BY <3>1, <3>2 DEF Promise!Next
  <2>4. ASSUME NEW wallets \in SUBSET Wallets, RegistryChanges(wallets)
        PROVE  [Promise!Next]_(Promise!vars)
    BY <2>4 DEF RegistryChanges, attempts, Promise!Next
  <2>5. ASSUME NEW p \in Peers, ConnectionCloses(p) PROVE [Promise!Next]_(Promise!vars)
    <3>1. Promise!Close({p})
      BY <2>5 DEF ConnectionCloses, history
    <3> QED
      BY <3>1 DEF Promise!Next
  <2>6. ASSUME NEW c \in Checkers, Crash(c) PROVE [Promise!Next]_(Promise!vars)
    <3>1. Promise!Close(Peers)
      BY <2>1, <2>6 DEF Crash, history, TypeOK
    <3> QED
      BY <3>1 DEF Promise!Next
  <2>7. CASE (Refresh /\ ~RefreshResets) \/ ClearEnds
    BY <2>7 DEF Refresh, RefreshFails, RefreshFetches, RefreshLocks, RefreshStores,
                RefreshUnlocks, RefreshTicks, RefreshStops, ClearEnds, attempts, history
  <2>8. CASE \/ \E c \in Checkers, p \in Peers, first \in {"peerDial", "secured"} :
                  CheckBegins(c, p, first)
             \/ Stop \/ ClearBegins
    BY <2>8 DEF CheckBegins, Stop, ClearBegins, attempts, history
  <2>9. CASE UNCHANGED vars
    BY <2>9 DEF vars
  <2> QED
    BY <1>2, <2>2, <2>3, <2>4, <2>5, <2>6, <2>7, <2>8, <2>9 DEF Next, Environment
<1> QED
  BY <1>1, <1>2, RecentAlways, PTL DEF Spec, AdmitsRecentOnly, Promise!Spec

-----------------------------------------------------------------------------
(* A failing registry, when nobody calls ClearCache.                         *)

\* Where the steadily authorised wallets are while a refresh is under way.
SteadyInv ==
    /\ mutex # "clear"
    /\ refresher \in {"lock", "reset"} => steady \subseteq fetched
    /\ refresher = "fill" => steady \subseteq cache \cup fetched
    /\ SteadyWalletsCached

LEMMA SteadyStep ==
    ASSUME ~CacheCleared
    PROVE  SteadyInv /\ [Next]_vars => SteadyInv'
<1> SUFFICES ASSUME SteadyInv, [Next]_vars PROVE SteadyInv'
  OBVIOUS
<1> USE DEF SteadyInv, SteadyWalletsCached
<1>1. CASE UNCHANGED vars
  BY <1>1 DEF vars
<1>2. CASE Environment
  BY <1>2 DEF Environment, RegistryChanges, ConnectionCloses, CheckBegins, Stop, ClearBegins
<1>3. CASE Refresh
  BY <1>3 DEF Refresh, RefreshFails, RefreshGoesOn, CacheKept, RefreshFetches, RefreshLocks, RefreshResets,
              RefreshStores, RefreshUnlocks, RefreshTicks, RefreshStops
<1>4. CASE ClearEnds
  BY <1>4 DEF ClearEnds
<1>5. ASSUME NEW c \in Checkers, Check(c) PROVE SteadyInv'
  <2>1. cache \subseteq cache' /\ UNCHANGED <<refresh, history>>
    BY <1>5 DEF Check, NotAWallet, LoadHits, LoadMisses, AskFails, AskAnswered, StoreAnswer
  <2> QED
    BY <2>1
<1>6. CASE \E c \in Checkers : Crash(c)
  BY <1>6 DEF Crash
<1> QED
  BY <1>1, <1>2, <1>3, <1>4, <1>5, <1>6 DEF Next

\* When nobody clears the cache, a wallet authorised all the time since the last
\* successful fetch stays cached between refreshes, however many refreshes and
\* lookups fail.
THEOREM SteadyCached ==
    ASSUME ~CacheCleared
    PROVE  Spec => []SteadyWalletsCached
<1>1. Init => SteadyInv
  BY DEF Init, SteadyInv, SteadyWalletsCached
<1>2. SteadyInv => SteadyWalletsCached
  BY DEF SteadyInv
<1> QED
  BY <1>1, <1>2, SteadyStep, PTL DEF Spec

-----------------------------------------------------------------------------
(* Who is admitted.                                                          *)

Owned == \A p \in open : WalletOf[p] \in Wallets

LEMMA OwnedStep ==
    ASSUME TypeInv, Owned, [Next]_vars
    PROVE  Owned'
<1> USE DEF TypeInv, TypeOK, Owned
<1>1. ASSUME NEW c \in Checkers, Check(c) PROVE Owned'
  <2>1. CASE UNCHANGED open
    BY <2>1
  <2>2. CASE LoadHits(c) \/ StoreAnswer(c)
    <3>1. Wallet(c) \in Wallets
      BY <2>2 DEF LoadHits, StoreAnswer, StoredKey, AnswersTyped
    <3>2. open' = open \/ open' = open \cup {peer[c]}
      BY <2>2, PassesSettles DEF LoadHits, StoreAnswer, Settles
    <3> QED
      BY <3>1, <3>2 DEF Wallet
  <2>3. CASE NotAWallet(c) \/ LoadMisses(c) \/ AskFails(c) \/ AskAnswered(c)
    BY <2>1, <2>3 DEF NotAWallet, LoadMisses, AskFails, ErrorRefuses, AskAnswered, Refuses
  <2> QED
    BY <1>1, <2>2, <2>3 DEF Check
<1>2. CASE Environment
  BY <1>2 DEF Environment, RegistryChanges, ConnectionCloses, CheckBegins, Stop, ClearBegins
<1>3. CASE Refresh \/ ClearEnds
  BY <1>3 DEF Refresh, RefreshFails, RefreshFetches, RefreshLocks, RefreshResets,
              RefreshStores, RefreshUnlocks, RefreshTicks, RefreshStops, ClearEnds
<1>4. ASSUME NEW c \in Checkers, Crash(c) PROVE Owned'
  BY <1>4 DEF Crash
<1>5. CASE UNCHANGED vars
  BY <1>5 DEF vars
<1> QED
  BY <1>1, <1>2, <1>3, <1>4, <1>5 DEF Next

\* Whatever the registry, the cache and the data race do, only the peer whose
\* ID is made from a wallet is ever admitted for it.
THEOREM OwnersCorrect == Spec => []OnlyOwnersAdmitted
<1>1. Init => Owned
  BY DEF Init, Owned
<1>2. TypeInv /\ Owned => OnlyOwnersAdmitted
  <2> SUFFICES ASSUME TypeInv, Owned, NEW p \in open
               PROVE  \E w \in Wallets : p = CreatePeerIDFromSolanaPublicKey(w)
    BY DEF OnlyOwnersAdmitted
  <2>1. p \in Peers /\ p \in PeerIDs
    BY GaterAssumption DEF TypeInv, TypeOK
  <2>2. PeerIDToSolanaPublicKey(p) \in Wallets
    BY <2>1 DEF Owned, WalletOf
  <2>3. PeerIDToSolanaPublicKey(p) # NoWallet
    BY <2>2, IdentityAssumption
  <2> QED
    BY <2>1, <2>2, <2>3, OneIdentityPerWallet
<1> QED
  BY <1>1, <1>2, TypeInit, TypeStep, OwnedStep, PTL DEF Spec

=============================================================================
