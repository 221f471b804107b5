---------------------------- MODULE MCSimpleNode ----------------------------
(***************************************************************************)
(* An instance of SimpleNode for TLC.                                      *)
(***************************************************************************)
EXTENDS SimpleNode

CONSTANTS h1, h2, h3, s1, s2, s3

=============================================================================
