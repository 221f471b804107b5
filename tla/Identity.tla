------------------------------ MODULE Identity ------------------------------
(***************************************************************************)
(* Solana keys as libp2p identities (common/identity.go): a wallet is the  *)
(* bytes of an Ed25519 public key, and the ID of a peer is its public key, *)
(* or the hash of the key when that is long (external).                    *)
(***************************************************************************)
CONSTANTS
    Wallets,    \* the public keys of Solana, as bytes
    NoWallet,   \* the error of a conversion
    Types,      \* the key types of libp2p
    Short       \* those whose keys fit into an ID

ASSUME IdentityAssumption ==
    /\ NoWallet \notin Wallets
    /\ Short \subseteq Types
    /\ "Ed25519" \in Short

\* libp2p's public keys: any type may have any bytes.
PublicKeys == [type : Types, raw : Wallets]

IDFromPublicKey(key) == [inline |-> key.type \in Short, key |-> key]

PeerIDs == {IDFromPublicKey(key) : key \in PublicKeys}

\* A Solana private key: a seed, which matters to nobody here, and the public
\* key after it, where both libraries read it.
PrivateKeys == [public : Wallets]

CreatePeerIDFromSolanaPublicKey(wallet) ==
    IDFromPublicKey([type |-> "Ed25519", raw |-> wallet])

CreateIdentityFromSolanaKey(private) ==
    IDFromPublicKey([type |-> "Ed25519", raw |-> private.public])

\* Mutant: a key of any type is taken for a wallet.
AnyKey(key) == TRUE

IsEd25519(key) == key.type = "Ed25519"

PeerIDToSolanaPublicKey(id) ==
    IF id.inline /\ IsEd25519(id.key) THEN id.key.raw ELSE NoWallet

=============================================================================
