--------------------------- MODULE MCDirEntries ---------------------------
(***************************************************************************)
(* Small instances of DirEntries for TLC.                                  *)
(***************************************************************************)
EXTENDS DirEntries

CONSTANTS root, sub, v, w

MCDirs == {root, sub}
MCContents == {<<v>>, <<v, w>>}
OneFile == <<root, <<"x", "1">>>> :> <<w, w>>

\* Two plain names, a staging file's and a dot file's.
MCNames == {<<"x", "1">>, <<"x", "2">>, <<"x", "s">>, <<".", "1">>}
MCStaging == {<<"x", "s">>}
MCDot == {<<".", "1">>}

\* Two names that differ in their first byte only.
AlikeNames == {<<"x", "1">>, <<"y", "1">>}
AlikeFiles == OneFile @@ (<<root, <<"y", "1">>>> :> <<v>>)
NoNames == {}

=============================================================================
