-------------------------- MODULE MCTopicManager --------------------------
(***************************************************************************)
(* Instances of TopicManager for TLC.                                      *)
(***************************************************************************)
EXTENDS TopicManager, TLC

CONSTANTS c1, c2, h1, h2, h3, s1, s2, s3

Alike == Permutations({c1, c2}) \cup Permutations({h1, h2, h3})
            \cup Permutations({s1, s2, s3})

=============================================================================
