-------------------------- MODULE MCRegistryGater --------------------------
(***************************************************************************)
(* Instances of RegistryGater for TLC: peers that own the wallets w1 and   *)
(* w2, and strangers whose keys of other types have the bytes of w1.       *)
(***************************************************************************)
EXTENDS RegistryGater, TLC

CONSTANTS w1, w2, c1, c2

KeyTypes == {"Ed25519", "Secp256k1", "RSA"}
ShortKeys == {"Ed25519", "Secp256k1"}

Owners == {CreateIdentityFromSolanaKey(private) : private \in PrivateKeys}

OwnerAndStrangers == {IDFromPublicKey([type |-> type, raw |-> w1]) : type \in KeyTypes}

CheckersAlike == Permutations({c1, c2})

=============================================================================
