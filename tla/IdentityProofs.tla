--------------------------- MODULE IdentityProofs ---------------------------
(***************************************************************************)
(* A peer ID stands for one wallet at most, for all keys.                  *)
(***************************************************************************)
EXTENDS Identity, TLAPS

\* A wallet is read in one peer ID only, the one made from it: a peer with a
\* key of another type, long or short, cannot pass for the owner of a wallet,
\* and no wallet has two identities.
THEOREM OneIdentityPerWallet ==
    ASSUME NEW id \in PeerIDs, PeerIDToSolanaPublicKey(id) # NoWallet
    PROVE  /\ PeerIDToSolanaPublicKey(id) \in Wallets
           /\ id = CreatePeerIDFromSolanaPublicKey(PeerIDToSolanaPublicKey(id))
<1>1. PICK key \in PublicKeys : id = IDFromPublicKey(key)
  BY DEF PeerIDs
<1>2. id.inline /\ IsEd25519(id.key) /\ PeerIDToSolanaPublicKey(id) = id.key.raw
  BY DEF PeerIDToSolanaPublicKey
<1>3. id.key = key /\ key.type = "Ed25519" /\ key.raw \in Wallets
  BY <1>1, <1>2 DEF IDFromPublicKey, IsEd25519, PublicKeys
<1>4. key = [type |-> "Ed25519", raw |-> key.raw]
  BY <1>3 DEF PublicKeys
<1> QED
  BY <1>1, <1>2, <1>3, <1>4 DEF CreatePeerIDFromSolanaPublicKey

=============================================================================
