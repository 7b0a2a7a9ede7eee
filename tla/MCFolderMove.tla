---------------------------- MODULE MCFolderMove ----------------------------
(* Small instances of FolderMove: two directories, two places in each; a      *)
(* folder with a file of two chunks and an empty one, perhaps another folder, *)
(* and one yet to be created.                                                *)
EXTENDS FolderMove

CONSTANTS f1, f2, f3, a1, a2, b1, b2, da, db, x1, x2

MCParent == [p \in {a1, a2, b1, b2} |-> IF p \in {a1, a2} THEN da ELSE db]
MCSlots == <<a1, a2, b1, b2>>
MCChunks == (x1 :> 2) @@ (x2 :> 0)
MCTwoFolders == (f1 :> a1) @@ (f2 :> b1)
MCOneFolder == f1 :> a1
=============================================================================
