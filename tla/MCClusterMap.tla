---------------------------- MODULE MCClusterMap ----------------------------
(* Three clusters of two sectors: a file that grows while a new one is      *)
(* written beside it.                                                        *)
EXTENDS ClusterMap, TLC
=============================================================================
