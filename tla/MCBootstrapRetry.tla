------------------------- MODULE MCBootstrapRetry -------------------------
(***************************************************************************)
(* Instances of BootstrapRetry for TLC: one or two peers, of which the     *)
(* first is a bootstrap node, one or two connections to each, and the      *)
(* environments the runs distinguish.                                      *)
(***************************************************************************)
EXTENDS BootstrapRetry

CONSTANTS p1, p2, k1, k2, k3, d1, d2, r1, r2

OneNode  == <<p1>>
TwoNodes == <<p1, p2>>

\* Two connections to the first peer, one to the second.
Remote    == [c \in {k1, k2, k3} |-> IF c = k3 THEN p2 ELSE p1]
RemoteEnd == [c \in Conns |-> Remote[c]]

\* The registry's list only becomes available, comes and goes, stays as it was
\* at the start, or is anything at any time.
Grows      == {<<"empty", "nodes">>}
Shrinks    == {<<"empty", "nodes">>, <<"nodes", "empty">>}
NeverMoves == {}
Anything   == {change \in Answers \X Answers : change[1] # change[2]}

=============================================================================
