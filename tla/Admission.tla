------------------------------ MODULE Admission ------------------------------
(***************************************************************************)
(* What the gater promises to the swarm: a connection is admitted only to  *)
(* a peer whose wallet the registry authorised recently.  "recent" is what *)
(* the registry authorised at some time of a past that the gater may cut   *)
(* short, but never shorter than the present.  RegistryGater implements    *)
(* it, and Node uses it in the gater's place.                              *)
(***************************************************************************)
CONSTANTS
    Wallets,
    Peers,
    WalletOf,   \* the wallet in a peer's ID, or something that is no wallet
    NoWallet

VARIABLES
    registry,   \* the wallets the registry authorises now
    recent,     \* those it authorised recently
    open        \* the peers with a connection

vars == <<registry, recent, open>>

Init ==
    /\ registry \in SUBSET Wallets
    /\ recent = registry
    /\ open = {}

RegistryChanges(wallets) ==
    /\ registry' = wallets
    /\ recent' = recent \cup wallets
    /\ UNCHANGED open

\* The gater refreshes its list and forgets some of the past.
Forget(wallets) ==
    /\ registry \subseteq wallets /\ wallets \subseteq recent
    /\ recent' = wallets
    /\ UNCHANGED <<registry, open>>

Admit(p) ==
    /\ WalletOf[p] \in recent
    /\ open' = open \cup {p}
    /\ UNCHANGED <<registry, recent>>

\* Connections end one by one, or all at once with the process or the host.
Close(peers) ==
    /\ open' = open \ peers
    /\ UNCHANGED <<registry, recent>>

Next ==
    \/ \E wallets \in SUBSET Wallets : RegistryChanges(wallets) \/ Forget(wallets)
    \/ \E p \in Peers : Admit(p) \/ Close({p})
    \/ Close(Peers)

Spec == Init /\ [][Next]_vars

=============================================================================
