----------------------------- MODULE MCStaging -----------------------------
(***************************************************************************)
(* Small instances of Staging for TLC.                                     *)
(***************************************************************************)
EXTENDS Staging, TLC

\* Two adjacent clusters and one apart, which the FAT may chain to either.
MCClusters == {2, 3, 5}
MCFatWrites == {<<2, 5>>, <<3, 5>>, <<2, 0>>}

\* Two clusters of several sectors, in a row.
MCTwoClusters == {2, 3}
MCNoFat == {<<2, 3>>}

\* Nothing compares the values a sector may hold.
MCSymmetry == Permutations(Values)
=============================================================================
