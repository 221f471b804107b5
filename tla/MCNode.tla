------------------------------- MODULE MCNode -------------------------------
(***************************************************************************)
(* Instances of Node for TLC: two peers, each with a wallet of its own, of *)
(* which one may be taken off the list.                                    *)
(***************************************************************************)
EXTENDS Node, TLC

CONSTANTS p1, p2, r1, r2, w1, w2

Wallet == p1 :> w1 @@ p2 :> w2

Lists == {{w1, w2}, {w1}}

=============================================================================
