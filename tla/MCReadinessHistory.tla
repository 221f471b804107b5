------------------------ MODULE MCReadinessHistory ------------------------
(***************************************************************************)
(* Instance of ReadinessHistory for TLC: two connections of one peer, the  *)
(* bootstrap node, each of which may be there before Notify, and a         *)
(* registry whose list comes and goes.                                     *)
(***************************************************************************)
EXTENDS ReadinessHistory, TLC

CONSTANTS p1, k1, k2, d1, d2, r1, r2

OneNode   == <<p1>>
RemoteEnd == [c \in Conns |-> p1]
Shrinks   == {<<"empty", "nodes">>, <<"nodes", "empty">>}

AllAlike ==
    Permutations({k1, k2}) \cup Permutations({d1, d2}) \cup Permutations({r1, r2})

=============================================================================
