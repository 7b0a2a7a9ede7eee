---------------------------- MODULE MCLongNames -----------------------------
(* Names of two fragments, one and none in sectors of two slots: the first   *)
(* always straddles.                                                         *)
EXTENDS LongNames, TLC
CONSTANTS long, medium, short, f1, f2, root, sub
MCFragments == long :> 2 @@ medium :> 1 @@ short :> 0
MCSum == long :> 1 @@ medium :> 2 @@ short :> 3
MCSymmetry == Permutations({f1, f2}) \cup Permutations({root, sub})
=============================================================================
