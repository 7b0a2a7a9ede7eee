------------------------------ MODULE MCVolume ------------------------------
(* A file system with a folder beside "documents" and one in it, and files   *)
(* whose names begin alike; too many folders for the tables, too many files  *)
(* for the entries and, in some sizes, for the clusters.                     *)
EXTENDS Volume, TLC
CONSTANTS top, documents, lib, inner, sub, f1, f2, f3, f4, g1, dot

MCParent ==
  [n \in {documents, lib, g1} |-> top] @@ [n \in {sub, f1, f2, f3} |-> documents] @@ [n \in {f4, dot} |-> sub]
  @@ inner :> lib
MCName ==
  top :> << >> @@ documents :> <<"d", "o", "c">> @@ lib :> <<"l">> @@ inner :> <<"l">> @@ sub :> <<"a", "b", "c", "-", ".", "t">>
  @@ f1 :> <<"a", "b", "c", "d", ".", "t">> @@ f2 :> <<"A", "B", "C", ".", "T">> @@ f3 :> <<"a", "-", "b", "c", ".", "t">>
  @@ f4 :> <<"x">> @@ g1 :> <<"n">> @@ dot :> <<".", "b">>
MCFold ==
  "a" :> "A" @@ "b" :> "B" @@ "c" :> "C" @@ "d" :> "D" @@ "t" :> "T"
  @@ "A" :> "A" @@ "B" :> "B" @@ "C" :> "C" @@ "T" :> "T"
  @@ "l" :> "L" @@ "o" :> "O" @@ "x" :> "X" @@ "n" :> "N"
MCSynthetic == <<<<".", "f", "s">>, <<"n", "o", "l">>, <<".", "T">>, <<".", "m", "n">>>>
=============================================================================
