------------------------- MODULE DirEntriesProofs -------------------------
(***************************************************************************)
(* Proofs about DirEntries, for every set of directories and names and     *)
(* every size of the volume.  Two inductive invariants:                    *)
(*                                                                         *)
(* IInv, whatever the host's habits: a file the host has not operated on   *)
(* keeps its content.  One slot of the host's tables and one entry of the  *)
(* device hold it, alone with its path and its cluster, of which no data   *)
(* is on its way.  Interpreting any slot leaves such a file alone.         *)
(*                                                                         *)
(* CareInv, for a host that creates, edits, deletes and renames files, in  *)
(* any order, and changes nothing whose table or data is still to be       *)
(* written: every entry is that of one live file of the host, or of one    *)
(* the host deleted, and what the disk and the staging area hold, with     *)
(* what the host has still to write, comes to the host's files.            *)
(***************************************************************************)
EXTENDS DirEntries, SequenceTheorems, FiniteSetTheorems, WellFoundedInduction, TLAPS

\* Induction on the numbers 1..n, over a set in place of a predicate.
LEMMA CountUp ==
  ASSUME NEW n \in Nat, NEW S, 1 \in S, \A k \in 1..n - 1 : k \in S => k + 1 \in S
  PROVE  1..n \subseteq S
<1> SUFFICES ASSUME NEW x \in 1..n, x \notin S PROVE FALSE
  OBVIOUS
<1> DEFINE T == {k \in 1..n : k \notin S}
<1>1. T \subseteq Nat /\ x \in T
  OBVIOUS
<1>2. PICK m \in T : \A k \in T : ~(<<k, m>> \in OpToRel(<, Nat))
  BY <1>1, NatLessThanWellFounded, WFMin
<1>3. m \in 1..n /\ m \notin S /\ m # 1
  BY <1>2
<1>4. m - 1 \in 1..n - 1 /\ (m - 1) + 1 = m /\ m - 1 < m
  BY <1>3
<1>5. m - 1 \notin T
  <2>1. m - 1 \in Nat /\ m \in Nat
    BY <1>3
  <2>2. <<m - 1, m>> \in OpToRel(<, Nat)
    BY <1>4, <2>1 DEF OpToRel
  <2> QED
    BY <1>2, <2>2
<1> QED
  BY <1>3, <1>4, <1>5

\* The same from 0.
LEMMA CountFromZero ==
  ASSUME NEW n \in Nat, NEW S, 0 \in S, \A k \in 0..n - 1 : k \in S => k + 1 \in S
  PROVE  0..n \subseteq S
<1> DEFINE T == {k \in 1..n + 1 : k - 1 \in S}
<1>1. 1 \in T
  OBVIOUS
<1>2. ASSUME NEW k \in 1..(n + 1) - 1, k \in T PROVE k + 1 \in T
  <2>1. k - 1 \in 0..n - 1 /\ (k - 1) + 1 = k /\ k + 1 \in 1..n + 1 /\ (k + 1) - 1 = k
    BY <1>2
  <2> QED
    BY <1>2, <2>1
<1>3. 1..n + 1 \subseteq T
  BY <1>1, <1>2, CountUp
<1>4. ASSUME NEW i \in 0..n PROVE i \in S
  <2>1. i + 1 \in 1..n + 1 /\ (i + 1) - 1 = i
    OBVIOUS
  <2> QED
    BY <1>3, <2>1
<1> QED
  BY <1>4

\* A function of 0..n is defined by its first value and a step.
Walk(f, n, D, base, step) ==
  f \in [0..n -> D] /\ f[0] = base /\ \A i \in 1..n : f[i] = step[<<f[i - 1], i>>]
LEMMA Steps ==
  ASSUME NEW n \in Nat, NEW D, NEW base \in D, NEW step \in [D \X (1..n) -> D]
  PROVE  \E f : Walk(f, n, D, base, step)
<1> DEFINE Good(f, k) == /\ f \in [0..k -> D] /\ f[0] = base
                         /\ \A i \in 1..k : f[i] = step[<<f[i - 1], i>>]
           S == {k \in 0..n : \E f : Good(f, k)}
<1>1. 0 \in S
  <2>1. Good([i \in 0..0 |-> base], 0)
    OBVIOUS
  <2> HIDE DEF Good
  <2> QED
    BY <2>1
<1>2. ASSUME NEW k \in 0..n - 1, k \in S PROVE k + 1 \in S
  <2>1. PICK f : Good(f, k)
    BY <1>2
  <2>2. k + 1 \in 1..n /\ f[k] \in D /\ step[<<f[k], k + 1>>] \in D
    BY <2>1
  <2> DEFINE g == [i \in 0..k + 1 |-> IF i <= k THEN f[i] ELSE step[<<f[k], k + 1>>]]
  <2>3. g \in [0..k + 1 -> D] /\ g[0] = base
    BY <2>1, <2>2
  <2>4. ASSUME NEW i \in 1..k + 1 PROVE g[i] = step[<<g[i - 1], i>>]
    <3>1. CASE i <= k
      <4>1. i \in 1..k /\ i - 1 \in 0..k + 1 /\ i - 1 <= k
        BY <3>1
      <4>2. g[i] = f[i] /\ g[i - 1] = f[i - 1]
        BY <4>1
      <4> QED
        BY <2>1, <4>1, <4>2
    <3>2. CASE i = k + 1
      <4>1. i \in 0..k + 1 /\ ~(i <= k) /\ k \in 0..k + 1 /\ k <= k /\ i - 1 = k
        BY <3>2
      <4>2. g[i] = step[<<f[k], k + 1>>] /\ g[k] = f[k]
        BY <4>1
      <4> QED
        BY <3>2, <4>1, <4>2
    <3> QED
      BY <3>1, <3>2
  <2>5. Good(g, k + 1)
    BY <2>3, <2>4
  <2>6. k + 1 \in 0..n
    OBVIOUS
  <2> HIDE DEF Good
  <2> QED
    BY <2>5, <2>6
<1>3. n \in S
  <2> HIDE DEF S
  <2>1. 0..n \subseteq S
    BY <1>1, <1>2, CountFromZero
  <2> QED
    BY <2>1
<1>4. PICK f : Good(f, n)
  BY <1>3
<1>5. Walk(f, n, D, base, step)
  BY <1>4 DEF Walk
<1> QED
  BY <1>5

-----------------------------------------------------------------------------
(* Types.                                                                   *)

File == Seq(Values \cup {Hole})
EntryRecord == [dir : Dirs, name : Names, start : {0} \cup Clusters, size : Nat, deleted : BOOLEAN]
Slot == [mark : {"free", "live", "erased"}, name : Names \cup {<<>>}, cluster : {0} \cup Clusters, size : Nat]
Device == [entries : Seq(EntryRecord), disk : [Paths -> File], staged : [Clusters -> File]]

LEMMA ContentTyped == Contents \subseteq File /\ Absent \in File /\ <<>> \in File
<1>1. Absent \in File
  BY DEF Absent, File
<1>2. Contents \subseteq File
  <2>1. Seq(Values) \subseteq Seq(Values \cup {Hole})
    <3> SUFFICES ASSUME NEW s \in Seq(Values) PROVE s \in Seq(Values \cup {Hole})
      OBVIOUS
    <3>1. Len(s) \in Nat /\ s \in [1..Len(s) -> Values]
      OBVIOUS
    <3>2. s \in [1..Len(s) -> Values \cup {Hole}]
      BY <3>1
    <3> QED
      BY <3>1, <3>2
  <2> QED
    BY <2>1, ContentsAssumption DEF File
<1>3. <<>> \in File
  BY DEF File
<1> QED
  BY <1>1, <1>2, <1>3

LEMMA UpToTyped ==
  ASSUME NEW x \in File, NEW n \in Nat
  PROVE  UpTo(x, n) \in File /\ Len(UpTo(x, n)) \in Nat
<1>1. PICK m \in 0..Len(x) : UpTo(x, n) = SubSeq(x, 1, m)
  BY DEF UpTo, File
<1>2. SubSeq(x, 1, m) \in File
  BY <1>1, SubSeqProperties DEF File
<1> QED
  BY <1>1, <1>2 DEF File

LEMMA OverTyped ==
  ASSUME NEW new \in File, NEW old \in File
  PROVE  Over(new, old) \in File
<1> DEFINE rest == SubSeq(old, Len(new) + 1, Len(old))
<1>1. rest \in File
  <2>1. Len(new) + 1 \in 1..Len(old) + 1 \/ Len(old) < Len(new) + 1
    BY DEF File
  <2>2. CASE Len(new) + 1 \in 1..Len(old) + 1
    BY <2>2, SubSeqProperties DEF File
  <2>3. CASE Len(old) < Len(new) + 1
    <3>1. rest = <<>>
      BY <2>3 DEF File
    <3> QED
      BY <3>1, ContentTyped
  <2> QED
    BY <2>1, <2>2, <2>3
<1> HIDE DEF rest
<1>2. new \o rest \in File
  BY <1>1 DEF File
<1> QED
  BY <1>2 DEF Over, rest

LEMMA FirstOf ==
  ASSUME NEW n \in Nat, NEW I, I \subseteq 1..n, I # {}
  PROVE  Min(I) \in I
<1>1. PICK m \in I : \A k \in I : ~(<<k, m>> \in OpToRel(<, Nat))
  <2>1. I \subseteq Nat
    OBVIOUS
  <2> QED
    BY <2>1, NatLessThanWellFounded, WFMin
<1>2. ASSUME NEW k \in I PROVE m =< k
  <2>1. m \in Nat /\ k \in Nat
    OBVIOUS
  <2>2. ~(k < m)
    BY <1>1, <2>1 DEF OpToRel
  <2> QED
    BY <2>1, <2>2
<1> QED
  BY <1>2 DEF Min

\* A lookup finds an entry that passes the test, or none passes it.
Finds(i, I) == IF I = {} THEN i = 0 ELSE i \in I

LEMMA FoundEntry ==
  ASSUME NEW v \in Device, NEW d, NEW nm
  PROVE  Finds(FindEntry(v, d, nm),
               {i \in 1..Len(v.entries) :
                  ~v.entries[i].deleted /\ v.entries[i].dir = d /\ v.entries[i].name = nm})
<1> DEFINE I == {i \in 1..Len(v.entries) :
                   ~v.entries[i].deleted /\ v.entries[i].dir = d /\ v.entries[i].name = nm}
<1>1. FindEntry(v, d, nm) = IF I # {} THEN Min(I) ELSE 0
  BY DEF FindEntry, SelectInSeq
<1>2. I # {} => Min(I) \in I
  <2>1. Len(v.entries) \in Nat /\ I \subseteq 1..Len(v.entries)
    BY DEF Device
  <2> HIDE DEF I
  <2> QED
    BY <2>1, FirstOf
<1> QED
  BY <1>1, <1>2 DEF Finds

LEMMA FoundForDelete ==
  ASSUME NEW v \in Device, NEW d, NEW s
  PROVE  Finds(FindForDelete(v, d, s),
               {i \in 1..Len(v.entries) :
                  /\ ~v.entries[i].deleted /\ v.entries[i].dir = d /\ v.entries[i].name[2] = s.name[2]
                  /\ v.entries[i].start \in {0, s.cluster}})
<1> DEFINE I == {i \in 1..Len(v.entries) :
                  /\ ~v.entries[i].deleted /\ v.entries[i].dir = d /\ v.entries[i].name[2] = s.name[2]
                  /\ v.entries[i].start \in {0, s.cluster}}
<1>1. FindForDelete(v, d, s) = IF I # {} THEN Min(I) ELSE 0
  BY DEF FindForDelete, SelectInSeq
<1>2. I # {} => Min(I) \in I
  <2>1. Len(v.entries) \in Nat /\ I \subseteq 1..Len(v.entries)
    BY DEF Device
  <2> HIDE DEF I
  <2> QED
    BY <2>1, FirstOf
<1> QED
  BY <1>1, <1>2 DEF Finds

LEMMA FoundByCluster ==
  ASSUME NEW v \in Device, NEW c
  PROVE  Finds(FindByCluster(v, c), {i \in 1..Len(v.entries) : v.entries[i].start = c})
<1> DEFINE I == {i \in 1..Len(v.entries) : v.entries[i].start = c}
<1>1. FindByCluster(v, c) = IF I # {} THEN Min(I) ELSE 0
  BY DEF FindByCluster, SelectInSeq
<1>2. I # {} => Min(I) \in I
  <2>1. Len(v.entries) \in Nat /\ I \subseteq 1..Len(v.entries)
    BY DEF Device
  <2> HIDE DEF I
  <2> QED
    BY <2>1, FirstOf
<1> QED
  BY <1>1, <1>2 DEF Finds

LEMMA Located ==
  ASSUME entries \in Seq(EntryRecord), NEW c
  PROVE  Finds(Locate(c), {i \in 1..Len(entries) : ~entries[i].deleted /\ entries[i].start = c})
<1> DEFINE I == {i \in 1..Len(entries) : ~entries[i].deleted /\ entries[i].start = c}
<1>1. Locate(c) = IF I # {} THEN Min(I) ELSE 0
  BY DEF Locate, SelectInSeq
<1>2. I # {} => Min(I) \in I
  <2>1. Len(entries) \in Nat /\ I \subseteq 1..Len(entries)
    OBVIOUS
  <2> HIDE DEF I
  <2> QED
    BY <2>1, FirstOf
<1> QED
  BY <1>1, <1>2 DEF Finds

-----------------------------------------------------------------------------
(* What interpreting a slot leaves alone.                                   *)

\* From v to w, nothing happens to path p: its entries and its file stay.
Spares(v, w, p) ==
  /\ DOMAIN v.entries \subseteq DOMAIN w.entries
  /\ \A j \in DOMAIN w.entries :
       \/ j \in DOMAIN v.entries /\ w.entries[j] = v.entries[j]
       \/ /\ PathOf(w.entries[j]) # p
          /\ j \in DOMAIN v.entries => PathOf(v.entries[j]) # p
  /\ w.disk[p] = v.disk[p]

\* No file appears at p.
NoneAt(v, w, p) == v.disk[p] = Absent => w.disk[p] = Absent

\* The typed result of handling a slot, which spares all paths but those of Q
\* and lets a file appear at those of R alone.
Careful(v, w, Q, R) ==
  /\ w \in Device
  /\ \A p \in Paths \ Q : Spares(v, w, p)
  /\ \A p \in Paths \ R : NoneAt(v, w, p)

LEMMA SameCareful ==
  ASSUME NEW v \in Device, NEW Q, NEW R
  PROVE  Careful(v, v, Q, R)
BY DEF Careful, Spares, NoneAt

\* One entry changes, and the files.
LEMMA OneEntry ==
  ASSUME NEW v \in Device, NEW w \in Device, NEW i \in 1..Len(v.entries), NEW e \in EntryRecord,
         NEW Q, NEW R,
         w.entries = [v.entries EXCEPT ![i] = e],
         PathOf(v.entries[i]) \in Q, PathOf(e) \in Q,
         \A p \in Paths \ Q : w.disk[p] = v.disk[p],
         \A p \in Paths \ R : NoneAt(v, w, p)
  PROVE  Careful(v, w, Q, R)
<1>1. v.entries \in Seq(EntryRecord) /\ w.entries \in Seq(EntryRecord)
  BY DEF Device
<1>2. DOMAIN v.entries = 1..Len(v.entries) /\ DOMAIN w.entries = 1..Len(v.entries)
  BY <1>1
<1>3. ASSUME NEW p \in Paths \ Q PROVE Spares(v, w, p)
  <2>1. ASSUME NEW j \in DOMAIN w.entries, w.entries[j] # v.entries[j]
        PROVE  PathOf(w.entries[j]) # p /\ PathOf(v.entries[j]) # p
    <3>1. j = i /\ w.entries[j] = e
      BY <1>1, <1>2, <2>1
    <3> QED
      BY <3>1
  <2> QED
    BY <1>2, <2>1 DEF Spares
<1> QED
  BY <1>3 DEF Careful

LEMMA EntryTyped ==
  ASSUME NEW p \in Paths, NEW c \in {0} \cup Clusters, NEW n \in Nat
  PROVE  Entry(p, c, n) \in EntryRecord /\ PathOf(Entry(p, c, n)) = p
BY DEF Entry, EntryRecord, PathOf, Paths

LEMMA PathTyped ==
  ASSUME NEW e \in EntryRecord
  PROVE  PathOf(e) \in Paths
BY DEF EntryRecord, PathOf, Paths

LEMMA DeviceTyped ==
  ASSUME NEW v \in Device
  PROVE  /\ v.entries \in Seq(EntryRecord) /\ v.disk \in [Paths -> File] /\ v.staged \in [Clusters -> File]
         /\ Len(v.entries) \in Nat /\ DOMAIN v.entries = 1..Len(v.entries)
         /\ \A i \in 1..Len(v.entries) : v.entries[i] \in EntryRecord /\ PathOf(v.entries[i]) \in Paths
<1>1. v.entries \in Seq(EntryRecord) /\ v.disk \in [Paths -> File] /\ v.staged \in [Clusters -> File]
  BY DEF Device
<1>2. \A i \in 1..Len(v.entries) : v.entries[i] \in EntryRecord
  BY <1>1
<1> QED
  BY <1>1, <1>2, PathTyped

LEMMA EraseCareful ==
  ASSUME NEW v \in Device, NEW d \in Dirs, NEW s \in Slot, NEW i \in 1..Len(v.entries)
  PROVE  Careful(v, [v EXCEPT !.entries[i].deleted = TRUE], {PathOf(v.entries[i])}, {})
<1> DEFINE w == [v EXCEPT !.entries[i].deleted = TRUE]
           e == [v.entries[i] EXCEPT !.deleted = TRUE]
<1>1. v.entries[i] \in EntryRecord
  BY DeviceTyped
<1>2. e \in EntryRecord /\ PathOf(e) = PathOf(v.entries[i])
  BY <1>1 DEF EntryRecord, PathOf
<1>3. w.entries = [v.entries EXCEPT ![i] = e] /\ w.disk = v.disk /\ w.staged = v.staged
  BY DEF Device
<1>4. w \in Device
  <2>1. [v.entries EXCEPT ![i] = e] \in Seq(EntryRecord)
    BY <1>2, DeviceTyped
  <2> QED
    BY <1>3, <2>1 DEF Device
<1> HIDE DEF e, w
<1>5. Careful(v, w, {PathOf(v.entries[i])}, {})
  BY <1>2, <1>3, <1>4, OneEntry DEF NoneAt
<1> QED
  BY <1>5 DEF w

LEMMA ResizeCareful ==
  ASSUME NEW v \in Device, NEW s \in Slot, NEW i \in 1..Len(v.entries)
  PROVE  Careful(v, Resize(v, i, s), {PathOf(v.entries[i])}, {})
<1> DEFINE w == Resize(v, i, s)
           q == PathOf(v.entries[i])
           e == [v.entries[i] EXCEPT !.size = s.size,
                                     !.start = IF s.cluster # 0 THEN s.cluster ELSE @]
           files == IF s.size # 0 /\ s.size # v.entries[i].size THEN Truncated(v.disk, q, s.size) ELSE v.disk
<1>1. v.entries[i] \in EntryRecord /\ q \in Paths /\ s.size \in Nat /\ s.cluster \in {0} \cup Clusters
  BY DeviceTyped DEF Slot
<1>2. e \in EntryRecord /\ PathOf(e) = q
  BY <1>1 DEF EntryRecord, PathOf
<1>3. w.entries = [v.entries EXCEPT ![i] = e]
  BY <1>1 DEF Device, Resize, EntryRecord
<1>4. w.disk = files /\ w.staged = v.staged
  BY DEF Device, Resize
<1>5. w = [entries |-> w.entries, disk |-> w.disk, staged |-> w.staged]
  <2>1. DOMAIN w = DOMAIN v /\ w = [f \in DOMAIN w |-> w[f]]
    BY DEF Resize
  <2>2. DOMAIN v = {"entries", "disk", "staged"}
    BY DEF Device
  <2> HIDE DEF w
  <2> QED
    BY <2>1, <2>2
<1>6. files \in [Paths -> File] /\ \A p \in Paths : p # q => files[p] = v.disk[p]
  <2>1. v.disk \in [Paths -> File] /\ v.disk[q] \in File
    BY <1>1, DeviceTyped
  <2>2. UpTo(v.disk[q], s.size) \in File
    BY <1>1, <2>1, UpToTyped
  <2>3. Truncated(v.disk, q, s.size) \in [Paths -> File]
        /\ \A p \in Paths : p # q => Truncated(v.disk, q, s.size)[p] = v.disk[p]
    BY <1>1, <2>1, <2>2 DEF Truncated
  <2> QED
    BY <2>1, <2>3
<1>7. v.disk[q] = Absent => files[q] = Absent
  BY DEF Truncated
<1>8. w \in Device
  <2>1. [v.entries EXCEPT ![i] = e] \in Seq(EntryRecord)
    BY <1>2, DeviceTyped
  <2> HIDE DEF w, e, files
  <2> QED
    BY <1>3, <1>4, <1>5, <1>6, <2>1, DeviceTyped DEF Device
<1> HIDE DEF e, w, files, q
<1>9. \A p \in Paths : NoneAt(v, w, p)
  BY <1>4, <1>6, <1>7 DEF NoneAt
<1>10. \A p \in Paths \ {q} : w.disk[p] = v.disk[p]
  BY <1>4, <1>6
<1>11. Careful(v, w, {q}, {})
  <2>1. PathOf(v.entries[i]) \in {q} /\ PathOf(e) \in {q}
    BY <1>2 DEF q
  <2> QED
    BY <1>2, <1>3, <1>8, <1>9, <1>10, <2>1, OneEntry
<1> QED
  BY <1>11 DEF w, q

LEMMA OverwrittenTyped ==
  ASSUME NEW v \in Device, NEW k, NEW p
  PROVE  /\ Overwritten(v, k, p) \in Seq(EntryRecord) /\ Len(Overwritten(v, k, p)) = Len(v.entries)
         /\ \A i \in 1..Len(v.entries) :
              \/ Overwritten(v, k, p)[i] = v.entries[i]
              \/ PathOf(Overwritten(v, k, p)[i]) = p /\ PathOf(v.entries[i]) = p
<1> DEFINE n == Len(v.entries)
           f == Overwritten(v, k, p)
<1>1. n \in Nat /\ DOMAIN v.entries = 1..n
  BY DeviceTyped
<1>2. \A i \in 1..n : v.entries[i] \in EntryRecord
  BY DeviceTyped
<1>3. ASSUME NEW i \in 1..n
      PROVE  f[i] \in EntryRecord /\ (f[i] = v.entries[i] \/ (PathOf(f[i]) = p /\ PathOf(v.entries[i]) = p))
  <2> DEFINE e == v.entries[i]
             marked == [e EXCEPT !.deleted = TRUE]
  <2>1. e \in EntryRecord
    BY <1>2
  <2>2. marked \in EntryRecord /\ PathOf(marked) = PathOf(e)
    BY <2>1 DEF EntryRecord, PathOf
  <2>3. f[i] = IF i # k /\ ~e.deleted /\ PathOf(e) = p THEN marked ELSE e
    BY <1>1 DEF Overwritten
  <2> HIDE DEF e, marked, f
  <2>4. f[i] \in EntryRecord /\ (f[i] = e \/ (PathOf(f[i]) = p /\ PathOf(e) = p))
    BY <2>1, <2>2, <2>3
  <2> QED
    BY <2>4 DEF e
<1>4. f = [i \in 1..n |-> f[i]]
  BY <1>1 DEF Overwritten
<1>5. f \in Seq(EntryRecord) /\ Len(f) = n
  <2> HIDE DEF f, n
  <2>1. f \in [1..n -> EntryRecord]
    BY <1>3, <1>4
  <2> QED
    BY <1>1, <2>1
<1> QED
  BY <1>3, <1>5

\* The entries touched have their paths in Q, before and after.
Touched(v, w, Q) ==
  /\ DOMAIN v.entries \subseteq DOMAIN w.entries
  /\ \A j \in DOMAIN w.entries :
       \/ j \in DOMAIN v.entries /\ w.entries[j] = v.entries[j]
       \/ /\ PathOf(w.entries[j]) \in Q
          /\ j \in DOMAIN v.entries => PathOf(v.entries[j]) \in Q

LEMMA TouchedCareful ==
  ASSUME NEW v \in Device, NEW w \in Device, NEW Q, NEW R, Touched(v, w, Q),
         \A p \in Paths \ Q : w.disk[p] = v.disk[p],
         \A p \in Paths \ R : NoneAt(v, w, p)
  PROVE  Careful(v, w, Q, R)
<1>1. ASSUME NEW p \in Paths \ Q PROVE Spares(v, w, p)
  BY <1>1 DEF Touched, Spares
<1> QED
  BY <1>1 DEF Careful

LEMMA ReclaimCareful ==
  ASSUME NEW v \in Device, NEW d \in Dirs, NEW s \in Slot, NEW k \in 1..Len(v.entries), s.name \in Names
  PROVE  Careful(v, Reclaim(v, k, d, s), {PathOf(v.entries[k]), <<d, s.name>>}, {<<d, s.name>>})
<1> DEFINE e == v.entries[k]
           q == PathOf(e)
           r == <<d, s.name>>
           others == Overwritten(v, k, r)
           size == IF s.size # 0 THEN s.size ELSE e.size
           n == Len(v.entries)
<1>1. e \in EntryRecord /\ q \in Paths /\ s.size \in Nat /\ e.start \in {0} \cup Clusters /\ size \in Nat
  BY DeviceTyped DEF Slot, EntryRecord
<1>2. r \in Paths
  BY DEF Paths
<1>3. /\ others \in Seq(EntryRecord) /\ Len(others) = n /\ n \in Nat
      /\ \A i \in 1..n : \/ others[i] = v.entries[i]
                         \/ PathOf(others[i]) = r /\ PathOf(v.entries[i]) = r
      /\ others[k] \in EntryRecord
  <2>1. others \in Seq(EntryRecord) /\ Len(others) = n /\ n \in Nat
    BY OverwrittenTyped, DeviceTyped
  <2> HIDE DEF others, r, n
  <2>2. others[k] \in EntryRecord
    BY <2>1 DEF n
  <2> QED
    BY <2>1, <2>2, OverwrittenTyped DEF others, n
<1> HIDE DEF others
<1>4. CASE s.name \in DotNames \cup StagingNames
  <2>1. Reclaim(v, k, d, s) = v
    BY <1>4 DEF Reclaim
  <2> QED
    BY <2>1, SameCareful
\* The entries after the reclaim, with x in place k.
<1>5. ASSUME NEW x \in EntryRecord, PathOf(x) \in {q, r},
             NEW w \in Device, w.entries = [others EXCEPT ![k] = x]
      PROVE  Touched(v, w, {q, r})
  <2>1. DOMAIN w.entries = 1..n /\ DOMAIN v.entries = 1..n
    BY <1>3, <1>5, DeviceTyped
  <2>2. ASSUME NEW j \in 1..n
        PROVE  \/ w.entries[j] = v.entries[j]
               \/ PathOf(w.entries[j]) \in {q, r} /\ PathOf(v.entries[j]) \in {q, r}
    <3>1. CASE j = k
      BY <1>3, <1>5, <3>1
    <3>2. CASE j # k
      <4>1. w.entries[j] = others[j]
        BY <1>3, <1>5, <3>2
      <4> QED
        BY <1>3, <4>1
    <3> QED
      BY <3>1, <3>2
  <2> QED
    BY <2>1, <2>2 DEF Touched
<1>6. CASE s.name \notin DotNames \cup StagingNames /\ v.disk[q] = Absent
  <2> DEFINE x == [others[k] EXCEPT !.deleted = FALSE]
             w == [v EXCEPT !.entries = [others EXCEPT ![k] = x]]
  <2>1. Reclaim(v, k, d, s) = w
    BY <1>6 DEF Reclaim, others
  <2>2. PathOf(others[k]) \in {q, r}
    BY <1>3
  <2>3. x \in EntryRecord /\ PathOf(x) \in {q, r}
    BY <1>3, <2>2 DEF EntryRecord, PathOf
  <2> HIDE DEF x
  <2>4. [others EXCEPT ![k] = x] \in Seq(EntryRecord)
    BY <1>3, <2>3
  <2>5. w \in Device /\ w.entries = [others EXCEPT ![k] = x] /\ w.disk = v.disk
    BY <2>4 DEF Device
  <2> HIDE DEF w, q, r
  <2>6. Touched(v, w, {q, r})
    BY <1>5, <2>3, <2>5
  <2>7. Careful(v, w, {q, r}, {r})
    BY <2>5, <2>6, TouchedCareful DEF NoneAt
  <2> QED
    BY <2>1, <2>7 DEF q, r
<1>7. CASE s.name \notin DotNames \cup StagingNames /\ v.disk[q] # Absent
  <2> DEFINE x == Entry(r, e.start, size)
             files == CopyAndRemove(v.disk, q, r)
             w == [v EXCEPT !.entries = [others EXCEPT ![k] = x], !.disk = files]
  <2>1. Reclaim(v, k, d, s) = w
    BY <1>7 DEF Reclaim, others
  <2>2. x \in EntryRecord /\ PathOf(x) = r
    BY <1>1, <1>2, EntryTyped
  <2> HIDE DEF x
  <2>3. [others EXCEPT ![k] = x] \in Seq(EntryRecord)
    BY <1>3, <2>2
  <2>4. files \in [Paths -> File] /\ \A p \in Paths : p # q /\ p # r => files[p] = v.disk[p]
    BY <1>1, <1>2, ContentTyped, DeviceTyped DEF CopyAndRemove
  <2>5. \A p \in Paths : p # r /\ v.disk[p] = Absent => files[p] = Absent
    BY <1>1, <1>2, ContentTyped, DeviceTyped DEF CopyAndRemove
  <2> HIDE DEF files
  <2>6. w \in Device /\ w.entries = [others EXCEPT ![k] = x] /\ w.disk = files
    BY <2>3, <2>4 DEF Device
  <2> HIDE DEF w, q, r
  <2>7. Touched(v, w, {q, r})
    BY <1>5, <2>2, <2>6
  <2>8. Careful(v, w, {q, r}, {r})
    BY <2>4, <2>5, <2>6, <2>7, TouchedCareful DEF NoneAt
  <2> QED
    BY <2>1, <2>8 DEF q, r
<1> QED
  BY <1>4, <1>6, <1>7

LEMMA PlaceTouches ==
  ASSUME NEW v \in Device, NEW e \in EntryRecord, NEW w \in Device, w.entries = Place(v.entries, e)
  PROVE  Touched(v, w, {PathOf(e)})
<1> DEFINE n == Len(v.entries)
           I == {i \in 1..n : PathOf(v.entries[i]) = PathOf(e)}
<1>0. n \in Nat /\ I \subseteq 1..n /\ v.entries \in Seq(EntryRecord) /\ DOMAIN v.entries = 1..n
  BY DeviceTyped
<1>1. CASE I = {}
  <2>1. w.entries = Append(v.entries, e)
    BY <1>1 DEF Place, SelectInSeq
  <2>2. DOMAIN w.entries = 1..n + 1
    BY <1>0, <2>1
  <2>3. \A j \in 1..n : w.entries[j] = v.entries[j]
    BY <1>0, <2>1
  <2>4. w.entries[n + 1] = e
    BY <1>0, <2>1
  <2> HIDE DEF n
  <2> QED
    BY <1>0, <2>2, <2>3, <2>4 DEF Touched
<1>2. CASE I # {}
  <2>1. Min(I) \in I
    <3> HIDE DEF I
    <3> QED
      BY <1>0, <1>2, FirstOf
  <2>2. w.entries = [v.entries EXCEPT ![Min(I)] = e]
    BY <1>2, <2>1 DEF Place, SelectInSeq
  <2> DEFINE m == Min(I)
  <2>3. m \in 1..n /\ PathOf(v.entries[m]) = PathOf(e)
    BY <2>1
  <2> HIDE DEF m
  <2>4. w.entries = [v.entries EXCEPT ![m] = e]
    BY <2>2 DEF m
  <2>5. DOMAIN w.entries = 1..n /\ w.entries[m] = e /\ \A j \in 1..n : j # m => w.entries[j] = v.entries[j]
    BY <1>0, <2>3, <2>4
  <2> HIDE DEF n
  <2> QED
    BY <1>0, <2>3, <2>5 DEF Touched
<1> QED
  BY <1>1, <1>2

LEMMA PlaceTyped ==
  ASSUME NEW v \in Device, NEW e \in EntryRecord
  PROVE  Place(v.entries, e) \in Seq(EntryRecord)
<1> DEFINE n == Len(v.entries)
           I == {i \in 1..n : PathOf(v.entries[i]) = PathOf(e)}
<1>0. n \in Nat /\ I \subseteq 1..n /\ v.entries \in Seq(EntryRecord)
  BY DeviceTyped
<1>1. CASE I = {}
  <2>1. Place(v.entries, e) = Append(v.entries, e)
    BY <1>1 DEF Place, SelectInSeq
  <2> QED
    BY <1>0, <2>1
<1>2. CASE I # {}
  <2>1. Min(I) \in I
    <3> HIDE DEF I
    <3> QED
      BY <1>0, <1>2, FirstOf
  <2>2. Place(v.entries, e) = [v.entries EXCEPT ![Min(I)] = e]
    BY <1>2, <2>1 DEF Place, SelectInSeq
  <2> DEFINE m == Min(I)
  <2>3. m \in 1..n
    BY <2>1
  <2> HIDE DEF m
  <2>4. Place(v.entries, e) = [v.entries EXCEPT ![m] = e]
    BY <2>2 DEF m
  <2> QED
    BY <1>0, <2>3, <2>4
<1> QED
  BY <1>1, <1>2

LEMMA CreateEmptyCareful ==
  ASSUME NEW v \in Device, NEW p \in Paths, NEW s \in Slot
  PROVE  Careful(v, CreateEmpty(v, p, s), {p}, {p})
<1> DEFINE w == CreateEmpty(v, p, s)
           e == Entry(p, s.cluster, 0)
<1>1. e \in EntryRecord /\ PathOf(e) = p
  BY EntryTyped DEF Slot
<1>2. w = [v EXCEPT !.entries = Place(v.entries, e), !.disk[p] = <<>>]
  BY DEF CreateEmpty
<1>3. Place(v.entries, e) \in Seq(EntryRecord)
  BY <1>1, PlaceTyped
<1> HIDE DEF w, e
<1>4. w \in Device /\ w.entries = Place(v.entries, e) /\ w.disk = [v.disk EXCEPT ![p] = <<>>]
  <2>1. [v.disk EXCEPT ![p] = <<>>] \in [Paths -> File]
    BY ContentTyped, DeviceTyped
  <2> QED
    BY <1>2, <1>3, <2>1 DEF Device
<1>5. \A q \in Paths \ {p} : w.disk[q] = v.disk[q]
  BY <1>4, DeviceTyped
<1>6. Touched(v, w, {p})
  BY <1>1, <1>4, PlaceTouches
<1>7. Careful(v, w, {p}, {p})
  BY <1>4, <1>5, <1>6, TouchedCareful DEF NoneAt
<1> QED
  BY <1>7 DEF w

LEMMA ClaimCareful ==
  ASSUME NEW v \in Device, NEW p \in Paths, NEW s \in Slot, s.cluster # 0
  PROVE  Careful(v, Claim(v, p, s), {p}, {p})
<1> DEFINE w == Claim(v, p, s)
           x == v.staged[s.cluster]
           kept == IF s.size # 0 THEN UpTo(x, s.size) ELSE x
           e == Entry(p, s.cluster, Len(kept))
<1>0. s.cluster \in Clusters /\ s.size \in Nat
  BY DEF Slot
<1>1. x \in File /\ kept \in File /\ Len(kept) \in Nat
  <2>1. x \in File
    BY <1>0, DeviceTyped
  <2>2. UpTo(x, s.size) \in File
    BY <1>0, <2>1, UpToTyped
  <2> QED
    BY <2>1, <2>2 DEF File
<1>2. w = [v EXCEPT !.entries = Place(v.entries, e), !.disk[p] = kept, !.staged[s.cluster] = Absent]
  BY DEF Claim
<1> HIDE DEF kept, w
<1>3. e \in EntryRecord /\ PathOf(e) = p
  BY <1>0, <1>1, EntryTyped
<1> HIDE DEF e
<1>4. Place(v.entries, e) \in Seq(EntryRecord)
  BY <1>3, PlaceTyped
<1>5. w \in Device /\ w.entries = Place(v.entries, e) /\ w.disk = [v.disk EXCEPT ![p] = kept]
  <2>1. [v.disk EXCEPT ![p] = kept] \in [Paths -> File] /\ [v.staged EXCEPT ![s.cluster] = Absent] \in [Clusters -> File]
    BY <1>1, ContentTyped, DeviceTyped
  <2> QED
    BY <1>2, <1>4, <2>1 DEF Device
<1>6. \A q \in Paths \ {p} : w.disk[q] = v.disk[q]
  BY <1>5, DeviceTyped
<1>7. Touched(v, w, {p})
  BY <1>3, <1>5, PlaceTouches
<1>8. Careful(v, w, {p}, {p})
  BY <1>5, <1>6, <1>7, TouchedCareful DEF NoneAt
<1> QED
  BY <1>8 DEF w

LEMMA CreateCareful ==
  ASSUME NEW v \in Device, NEW d \in Dirs, NEW s \in Slot, s.cluster # 0, s.name \in Names
  PROVE  Careful(v, Create(v, d, s), {<<d, s.name>>}, {<<d, s.name>>})
<1> DEFINE p == <<d, s.name>>
           w == [v EXCEPT !.staged[s.cluster] = Absent]
<1>0. p \in Paths
  BY DEF Paths
<1>1. Careful(v, w, {p}, {p})
  <2>1. [v.staged EXCEPT ![s.cluster] = Absent] \in [Clusters -> File]
    BY ContentTyped, DeviceTyped
  <2>2. w \in Device /\ w.entries = v.entries /\ w.disk = v.disk
    BY <2>1 DEF Device
  <2> HIDE DEF w, p
  <2> QED
    BY <2>2 DEF Careful, Spares, NoneAt
<1> HIDE DEF w
<1>2. Careful(v, v, {p}, {p})
  BY SameCareful
<1>3. Careful(v, CreateEmpty(v, p, s), {p}, {p}) /\ Careful(v, Claim(v, p, s), {p}, {p})
  BY <1>0, CreateEmptyCareful, ClaimCareful
<1>4. Create(v, d, s) \in {w, v, CreateEmpty(v, p, s), Claim(v, p, s)}
  BY DEF Create, w
<1> HIDE DEF p
<1>5. Careful(v, Create(v, d, s), {p}, {p})
  BY <1>1, <1>2, <1>3, <1>4
<1> QED
  BY <1>5 DEF p

-----------------------------------------------------------------------------
(* A file that a slot leaves alone.                                         *)

\* Entry i of the device, of cluster c and size n, is the only one of path p,
\* which holds content x.
Tracks(v, p, i, c, n, x) ==
  /\ i \in DOMAIN v.entries /\ v.entries[i] = Entry(p, c, n)
  /\ \A j \in DOMAIN v.entries : PathOf(v.entries[j]) = p => j = i
  /\ v.disk[p] = x

\* A slot of directory d that has neither the path p nor the cluster c, or the
\* slot of the file itself.
Foreign(d, s, p, c) == s.mark = "free" \/ (s.cluster # c /\ (s.mark = "live" => <<d, s.name>> # p))
Own(d, s, p, c, n) == s.mark = "live" /\ <<d, s.name>> = p /\ s.cluster = c /\ s.size = n

NamedSlot(s) == s \in Slot /\ (s.mark = "live" => s.name \in Names)

LEMMA SparedTracks ==
  ASSUME NEW v, NEW w, NEW p, NEW i, NEW c, NEW n, NEW x, Tracks(v, p, i, c, n, x), Spares(v, w, p),
         PathOf(Entry(p, c, n)) = p
  PROVE  Tracks(w, p, i, c, n, x)
<1>1. i \in DOMAIN w.entries /\ w.entries[i] = Entry(p, c, n)
  BY DEF Tracks, Spares
<1>2. ASSUME NEW j \in DOMAIN w.entries, PathOf(w.entries[j]) = p PROVE j = i
  BY <1>2 DEF Tracks, Spares
<1> QED
  BY <1>1, <1>2 DEF Tracks, Spares

\* Interpreting a slot: the paths it touches, and where a file may appear.
LEMMA HandleTouches ==
  ASSUME NEW v \in Device, NEW d \in Dirs, NEW s, NamedSlot(s)
  PROVE  \/ Handle(v, d, s) = v
         \/ s.mark = "erased" /\ \E i \in 1..Len(v.entries) :
              /\ ~v.entries[i].deleted /\ v.entries[i].start \in {0, s.cluster}
              /\ Careful(v, Handle(v, d, s), {PathOf(v.entries[i])}, {})
         \/ s.mark = "live" /\ \E i \in 1..Len(v.entries) :
              /\ PathOf(v.entries[i]) = <<d, s.name>>
              /\ Handle(v, d, s) = Resize(v, i, s)
              /\ Careful(v, Handle(v, d, s), {<<d, s.name>>}, {})
         \/ s.mark = "live" /\ \E k \in 1..Len(v.entries) :
              /\ v.entries[k].start = s.cluster
              /\ Careful(v, Handle(v, d, s), {PathOf(v.entries[k]), <<d, s.name>>}, {<<d, s.name>>})
         \/ s.mark = "live" /\ Careful(v, Handle(v, d, s), {<<d, s.name>>}, {<<d, s.name>>})
<1>0. s \in Slot /\ (s.mark = "live" => s.name \in Names) /\ s.mark \in {"free", "live", "erased"}
  BY DEF NamedSlot, Slot
<1>1. CASE s.mark = "free"
  BY <1>1 DEF Handle
<1>2. CASE s.mark = "erased"
  <2> DEFINE i == FindForDelete(v, d, s)
  <2>1. Handle(v, d, s) = IF i = 0 THEN v ELSE [v EXCEPT !.entries[i].deleted = TRUE]
    BY <1>2 DEF Handle, Erase
  <2>2. i = 0 \/ (i \in 1..Len(v.entries) /\ ~v.entries[i].deleted /\ v.entries[i].start \in {0, s.cluster})
    BY FoundForDelete DEF Finds
  <2> HIDE DEF i
  <2>3. CASE i = 0
    BY <2>1, <2>3
  <2>4. CASE i # 0
    <3>1. i \in 1..Len(v.entries) /\ Handle(v, d, s) = [v EXCEPT !.entries[i].deleted = TRUE]
      <4>1. i \in 1..Len(v.entries)
        BY <2>2, <2>4
      <4>2. Handle(v, d, s) = [v EXCEPT !.entries[i].deleted = TRUE]
        BY <2>1, <2>4
      <4> QED
        BY <4>1, <4>2
    <3>2. Careful(v, Handle(v, d, s), {PathOf(v.entries[i])}, {})
      BY <1>0, <3>1, EraseCareful
    <3> QED
      BY <1>2, <2>2, <2>4, <3>1, <3>2
  <2> QED
    BY <2>3, <2>4
<1>3. CASE s.mark = "live"
  <2> DEFINE i == FindEntry(v, d, s.name)
             k == FindByCluster(v, s.cluster)
             p == <<d, s.name>>
  <2>1. Handle(v, d, s) = IF i # 0 THEN Resize(v, i, s)
                          ELSE IF Len(v.entries) >= MaxEntries \/ s.cluster = 0 THEN v
                          ELSE IF k # 0 THEN Reclaim(v, k, d, s)
                          ELSE Create(v, d, s)
    BY <1>3 DEF Handle, HandleLive
  <2>2. i = 0 \/ (i \in 1..Len(v.entries) /\ PathOf(v.entries[i]) = p)
    BY FoundEntry DEF Finds, PathOf
  <2>3. k = 0 \/ (k \in 1..Len(v.entries) /\ v.entries[k].start = s.cluster)
    BY FoundByCluster DEF Finds
  <2> HIDE DEF i, k
  <2>4. CASE i # 0
    <3>1. Handle(v, d, s) = Resize(v, i, s) /\ i \in 1..Len(v.entries)
      BY <2>1, <2>2, <2>4
    <3>2. Careful(v, Handle(v, d, s), {p}, {})
      BY <1>0, <2>2, <2>4, <3>1, ResizeCareful
    <3> QED
      BY <1>3, <2>2, <2>4, <3>1, <3>2
  <2>5. CASE i = 0 /\ (Len(v.entries) >= MaxEntries \/ s.cluster = 0)
    BY <2>1, <2>5
  <2>6. CASE i = 0 /\ ~(Len(v.entries) >= MaxEntries \/ s.cluster = 0) /\ k # 0
    <3>1. Handle(v, d, s) = Reclaim(v, k, d, s) /\ k \in 1..Len(v.entries)
      BY <2>1, <2>3, <2>6
    <3>2. Careful(v, Handle(v, d, s), {PathOf(v.entries[k]), p}, {p})
      BY <1>0, <1>3, <3>1, ReclaimCareful
    <3> QED
      BY <1>3, <2>3, <2>6, <3>1, <3>2
  <2>7. CASE i = 0 /\ ~(Len(v.entries) >= MaxEntries \/ s.cluster = 0) /\ k = 0
    <3>1. Handle(v, d, s) = Create(v, d, s)
      BY <2>1, <2>7
    <3>2. Careful(v, Handle(v, d, s), {p}, {p})
      BY <1>0, <1>3, <2>7, <3>1, CreateCareful
    <3> QED
      BY <1>3, <3>2
  <2> QED
    BY <2>4, <2>5, <2>6, <2>7
<1> QED
  BY <1>0, <1>1, <1>2, <1>3

LEMMA HandleTyped ==
  ASSUME NEW v \in Device, NEW d \in Dirs, NEW s, NamedSlot(s)
  PROVE  Handle(v, d, s) \in Device
BY HandleTouches DEF Careful

LEMMA HandleNone ==
  ASSUME NEW v \in Device, NEW d \in Dirs, NEW s, NamedSlot(s), NEW p \in Paths,
         s.mark = "live" => <<d, s.name>> # p, v.disk[p] = Absent
  PROVE  Handle(v, d, s).disk[p] = Absent
<1>1. Handle(v, d, s) = v \/ NoneAt(v, Handle(v, d, s), p)
  BY HandleTouches DEF Careful
<1> QED
  BY <1>1 DEF NoneAt

\* The slot of a file that holds its size already changes nothing.
LEMMA OwnResize ==
  ASSUME NEW v \in Device, NEW s \in Slot, NEW i \in 1..Len(v.entries), NEW p \in Paths, NEW c \in Clusters,
         NEW n \in Nat, NEW x, Tracks(v, p, i, c, n, x), s.cluster = c, s.size = n
  PROVE  Tracks(Resize(v, i, s), p, i, c, n, x)
<1> DEFINE w == Resize(v, i, s)
           e == [v.entries[i] EXCEPT !.size = s.size,
                                     !.start = IF s.cluster # 0 THEN s.cluster ELSE @]
<1>1. v.entries[i] = Entry(p, c, n) /\ v.entries[i] \in EntryRecord /\ DOMAIN v.entries = 1..Len(v.entries)
  BY DeviceTyped DEF Tracks
<1>2. w.entries = [v.entries EXCEPT ![i] = e]
  BY <1>1 DEF Device, Resize, EntryRecord
<1>3. e = v.entries[i]
  <2> DEFINE y == v.entries[i]
  <2>1. y.size = s.size /\ y.start = s.cluster
    BY <1>1 DEF Entry
  <2>2. e = [y EXCEPT !.size = y.size, !.start = y.start]
    BY <2>1
  <2>3. DOMAIN y = {"dir", "name", "start", "size", "deleted"} /\ y = [f \in DOMAIN y |-> y[f]]
    BY <1>1 DEF EntryRecord
  <2> HIDE DEF y, e
  <2>4. e = y
    BY <2>2, <2>3
  <2> QED
    BY <2>4 DEF y
<1>4. v.entries[i].size = s.size
  BY <1>1 DEF Entry
<1>5. w.disk = v.disk
  BY <1>4 DEF Device, Resize
<1> HIDE DEF w, e
<1>6. w.entries = v.entries
  <2>1. v.entries \in Seq(EntryRecord)
    BY DeviceTyped
  <2> QED
    BY <1>1, <1>2, <1>3, <2>1
<1>7. Tracks(w, p, i, c, n, x)
  BY <1>5, <1>6 DEF Tracks
<1> QED
  BY <1>7 DEF w

LEMMA HandleKeeps ==
  ASSUME NEW v \in Device, NEW d \in Dirs, NEW s, NamedSlot(s), NEW p \in Paths, NEW i, NEW c \in Clusters,
         NEW n \in Nat, NEW x, Tracks(v, p, i, c, n, x), Foreign(d, s, p, c) \/ Own(d, s, p, c, n)
  PROVE  Tracks(Handle(v, d, s), p, i, c, n, x)
<1> DEFINE w == Handle(v, d, s)
<1>0. c # 0 /\ s \in Slot /\ i \in 1..Len(v.entries)
  BY DeviceTyped DEF Clusters, NamedSlot, Tracks
<1>1. v.entries[i] = Entry(p, c, n) /\ PathOf(Entry(p, c, n)) = p /\ v.entries[i].start = c
  BY EntryTyped DEF Tracks, Entry
<1>2. ASSUME NEW j \in 1..Len(v.entries), j # i PROVE PathOf(v.entries[j]) # p
  BY <1>2, DeviceTyped DEF Tracks
<1>3. CASE w = v
  BY <1>3
<1>4. CASE Foreign(d, s, p, c) /\ w # v
  <2>1. ASSUME NEW j \in 1..Len(v.entries), v.entries[j].start \in {0, s.cluster}
        PROVE  PathOf(v.entries[j]) # p
    <3>1. s.mark # "free"
      BY <1>4 DEF Handle
    <3>2. v.entries[j].start # c
      BY <1>0, <1>4, <2>1, <3>1 DEF Foreign
    <3> QED
      BY <1>1, <1>2, <3>2
  <2>2. s.mark = "live" => <<d, s.name>> # p
    BY <1>4 DEF Foreign
  <2>3. Spares(v, w, p)
    BY <1>4, <2>1, <2>2, HandleTouches DEF Careful
  <2> QED
    BY <1>1, <2>3, SparedTracks
<1>5. CASE Own(d, s, p, c, n) /\ w # v
  <2> DEFINE m == FindEntry(v, d, s.name)
  <2>1. Finds(m, {j \in 1..Len(v.entries) :
                    ~v.entries[j].deleted /\ v.entries[j].dir = d /\ v.entries[j].name = s.name})
    BY FoundEntry
  <2>2. ~v.entries[i].deleted /\ v.entries[i].dir = d /\ v.entries[i].name = s.name
    <3>1. p[1] = d /\ p[2] = s.name /\ Entry(p, c, n).deleted = FALSE
      BY <1>5 DEF Own, Entry
    <3> QED
      BY <1>1, <3>1 DEF Entry
  <2>3. m \in 1..Len(v.entries) /\ PathOf(v.entries[m]) = p
    BY <1>0, <1>5, <2>1, <2>2 DEF Finds, PathOf, Own
  <2>4. m = i
    BY <1>2, <2>3
  <2>5. w = Resize(v, i, s)
    <3>1. m # 0
      BY <2>3
    <3> QED
      BY <1>5, <2>4, <3>1 DEF Handle, HandleLive, Own
  <2>6. s.cluster = c /\ s.size = n
    BY <1>5 DEF Own
  <2>7. Tracks(Resize(v, i, s), p, i, c, n, x)
    BY <1>0, <2>6, OwnResize
  <2> QED
    BY <2>5, <2>7
<1> QED
  BY <1>3, <1>4, <1>5

-----------------------------------------------------------------------------
(* A whole table.                                                           *)

Table == [TableIndex -> {s \in Slot : s.mark = "live" => s.name \in Names}]
Before == [entries |-> entries, disk |-> disk, staged |-> staged]
IsPass(f, d) ==
  f = [k \in 0..TableSlots |-> IF k = 0 THEN Before ELSE Handle(f[k - 1], d, tbl[d][k])]

LEMMA PassExists ==
  ASSUME Before \in Device, NEW d \in Dirs, tbl \in [Dirs -> Table]
  PROVE  \E f : IsPass(f, d)
<1> DEFINE step == [a \in Device \X (1..TableSlots) |-> Handle(a[1], d, tbl[d][a[2]])]
<1>0. TableSlots \in Nat
  BY SizesAssumption
<1>1. ASSUME NEW v \in Device, NEW k \in 1..TableSlots PROVE Handle(v, d, tbl[d][k]) \in Device
  <2>1. NamedSlot(tbl[d][k])
    BY DEF Table, TableIndex, NamedSlot
  <2> QED
    BY <2>1, HandleTyped
<1>2. step \in [Device \X (1..TableSlots) -> Device]
  BY <1>1
<1>3. \A v \in Device, k \in 1..TableSlots : step[<<v, k>>] = Handle(v, d, tbl[d][k])
  OBVIOUS
<1> HIDE DEF step
<1>4. PICK f : Walk(f, TableSlots, Device, Before, step)
  BY <1>0, <1>2, Steps
<1>5. \A k \in 1..TableSlots : f[k] = Handle(f[k - 1], d, tbl[d][k])
  <2> SUFFICES ASSUME NEW k \in 1..TableSlots PROVE f[k] = Handle(f[k - 1], d, tbl[d][k])
    OBVIOUS
  <2>1. k - 1 \in 0..TableSlots
    BY <1>0
  <2>2. f[k - 1] \in Device /\ f[k] = step[<<f[k - 1], k>>]
    BY <1>4, <2>1 DEF Walk
  <2> QED
    BY <1>3, <2>2
<1>6. f = [k \in 0..TableSlots |-> f[k]] /\ f[0] = Before
  BY <1>4 DEF Walk
<1>7. ASSUME NEW k \in 0..TableSlots
      PROVE  f[k] = IF k = 0 THEN Before ELSE Handle(f[k - 1], d, tbl[d][k])
  <2>1. k = 0 \/ k \in 1..TableSlots
    BY <1>0
  <2> QED
    BY <1>5, <1>6, <2>1
<1>8. f = [k \in 0..TableSlots |-> IF k = 0 THEN Before ELSE Handle(f[k - 1], d, tbl[d][k])]
  BY <1>6, <1>7
<1> QED
  BY <1>8 DEF IsPass

\* The pass over a table, slot by slot.
LEMMA PassBySlots ==
  ASSUME Before \in Device, NEW d \in Dirs, tbl \in [Dirs -> Table]
  PROVE  \E f : /\ f[0] = Before /\ Interpreted(d) = f[TableSlots]
                /\ \A k \in 0..TableSlots : f[k] \in Device
                /\ \A k \in 1..TableSlots : f[k] = Handle(f[k - 1], d, tbl[d][k]) /\ NamedSlot(tbl[d][k])
<1> DEFINE f == CHOOSE g : IsPass(g, d)
<1>0. TableSlots \in Nat
  BY SizesAssumption
<1>1. IsPass(f, d)
  BY PassExists
<1>2. Interpreted(d) = f[TableSlots]
  BY DEF Interpreted, IsPass, Before
<1> HIDE DEF f
<1>3. f[0] = Before /\ \A k \in 1..TableSlots : f[k] = Handle(f[k - 1], d, tbl[d][k])
  <2>1. 0 \in 0..TableSlots /\ \A k \in 1..TableSlots : k # 0 /\ k \in 0..TableSlots
    BY <1>0
  <2> QED
    BY <1>1, <2>1 DEF IsPass
<1>4. \A k \in 1..TableSlots : NamedSlot(tbl[d][k])
  BY DEF Table, TableIndex, NamedSlot
<1> DEFINE S == {k \in 0..TableSlots : f[k] \in Device}
<1>5. 0 \in S
  BY <1>0, <1>3
<1>6. ASSUME NEW k \in 0..TableSlots - 1, k \in S PROVE k + 1 \in S
  <2>1. k + 1 \in 1..TableSlots /\ k + 1 \in 0..TableSlots /\ (k + 1) - 1 = k
    BY <1>0
  <2>2. f[k + 1] = Handle(f[k], d, tbl[d][k + 1]) /\ NamedSlot(tbl[d][k + 1])
    BY <1>3, <1>4, <2>1
  <2> QED
    BY <1>6, <2>1, <2>2, HandleTyped
<1>7. 0..TableSlots \subseteq S
  <2> HIDE DEF S
  <2> QED
    BY <1>0, <1>5, <1>6, CountFromZero
<1> QED
  BY <1>2, <1>3, <1>4, <1>7

LEMMA PassTyped ==
  ASSUME Before \in Device, NEW d \in Dirs, tbl \in [Dirs -> Table]
  PROVE  Interpreted(d) \in Device
<1>1. TableSlots \in 0..TableSlots
  BY SizesAssumption
<1> QED
  BY <1>1, PassBySlots

LEMMA PassNone ==
  ASSUME Before \in Device, NEW d \in Dirs, tbl \in [Dirs -> Table], NEW p \in Paths, disk[p] = Absent,
         \A k \in TableIndex : tbl[d][k].mark = "live" => <<d, tbl[d][k].name>> # p
  PROVE  Interpreted(d).disk[p] = Absent
<1>0. TableSlots \in Nat /\ TableSlots \in 0..TableSlots
  BY SizesAssumption
<1>1. PICK f : /\ f[0] = Before /\ Interpreted(d) = f[TableSlots]
               /\ \A k \in 0..TableSlots : f[k] \in Device
               /\ \A k \in 1..TableSlots : f[k] = Handle(f[k - 1], d, tbl[d][k]) /\ NamedSlot(tbl[d][k])
  BY PassBySlots
<1> DEFINE S == {k \in 0..TableSlots : f[k].disk[p] = Absent}
<1>2. 0 \in S
  BY <1>0, <1>1 DEF Before
<1>3. ASSUME NEW k \in 0..TableSlots - 1, k \in S PROVE k + 1 \in S
  <2>1. k + 1 \in 1..TableSlots /\ k \in 0..TableSlots /\ k + 1 \in 0..TableSlots /\ (k + 1) - 1 = k
    BY <1>0
  <2>2. f[k + 1] = Handle(f[k], d, tbl[d][k + 1]) /\ NamedSlot(tbl[d][k + 1]) /\ f[k] \in Device
    BY <1>1, <2>1
  <2>3. tbl[d][k + 1].mark = "live" => <<d, tbl[d][k + 1].name>> # p
    BY <2>1 DEF TableIndex
  <2> QED
    BY <1>3, <2>1, <2>2, <2>3, HandleNone
<1>4. 0..TableSlots \subseteq S
  <2> HIDE DEF S
  <2> QED
    BY <1>0, <1>2, <1>3, CountFromZero
<1> QED
  BY <1>0, <1>1, <1>4

LEMMA PassKeeps ==
  ASSUME Before \in Device, NEW d \in Dirs, tbl \in [Dirs -> Table], NEW p \in Paths, NEW i,
         NEW c \in Clusters, NEW n \in Nat, NEW x, Tracks(Before, p, i, c, n, x),
         \A k \in TableIndex : Foreign(d, tbl[d][k], p, c) \/ Own(d, tbl[d][k], p, c, n)
  PROVE  Tracks(Interpreted(d), p, i, c, n, x)
<1>0. TableSlots \in Nat /\ TableSlots \in 0..TableSlots
  BY SizesAssumption
<1>1. PICK f : /\ f[0] = Before /\ Interpreted(d) = f[TableSlots]
               /\ \A k \in 0..TableSlots : f[k] \in Device
               /\ \A k \in 1..TableSlots : f[k] = Handle(f[k - 1], d, tbl[d][k]) /\ NamedSlot(tbl[d][k])
  BY PassBySlots
<1> DEFINE S == {k \in 0..TableSlots : Tracks(f[k], p, i, c, n, x)}
<1>2. 0 \in S
  BY <1>0, <1>1
<1>3. ASSUME NEW k \in 0..TableSlots - 1, k \in S PROVE k + 1 \in S
  <2>1. k + 1 \in 1..TableSlots /\ k \in 0..TableSlots /\ k + 1 \in 0..TableSlots /\ (k + 1) - 1 = k
    BY <1>0
  <2>2. f[k + 1] = Handle(f[k], d, tbl[d][k + 1]) /\ NamedSlot(tbl[d][k + 1]) /\ f[k] \in Device
    BY <1>1, <2>1
  <2>3. Foreign(d, tbl[d][k + 1], p, c) \/ Own(d, tbl[d][k + 1], p, c, n)
    BY <2>1 DEF TableIndex
  <2>4. Tracks(Handle(f[k], d, tbl[d][k + 1]), p, i, c, n, x)
    BY <1>3, <2>2, <2>3, HandleKeeps
  <2> QED
    BY <2>1, <2>2, <2>4
<1>4. 0..TableSlots \subseteq S
  <2> HIDE DEF S
  <2> QED
    BY <1>0, <1>2, <1>3, CountFromZero
<1> QED
  BY <1>0, <1>1, <1>4

-----------------------------------------------------------------------------
(* A file as the host and the device hold it.                               *)

\* Slot k of the table of p's directory is p's, and no other slot of any table
\* has p's path, or its cluster.
Alone(t, p, k, c, n) ==
  /\ k \in TableIndex
  /\ t[p[1]][k].mark = "live" /\ t[p[1]][k].name = p[2]
  /\ t[p[1]][k].cluster = c /\ t[p[1]][k].size = n
  /\ \A d \in Dirs, j \in TableIndex :
       <<d, j>> # <<p[1], k>> => /\ t[d][j].cluster # c
                                 /\ t[d][j].mark = "live" => <<d, t[d][j].name>> # p

Holds(v, t, x, u, p, k, i, c, n) ==
  Alone(t, p, k, c, n) /\ c \notin u /\ Tracks(v, p, i, c, n, x[c])

Unnamed(t, p) == \A k \in TableIndex : t[p[1]][k].mark = "live" => t[p[1]][k].name # p[2]
Lacks(v, t, p) == v.disk[p] = Absent /\ Unnamed(t, p)

Safe(v, t, x, u, p) ==
  Lacks(v, t, p) \/ \E k, i \in Nat, c \in Clusters, n \in Nat : Holds(v, t, x, u, p, k, i, c, n)

Untouched(p) == \A h \in past : h[1] # p

Typed ==
  /\ Before \in Device /\ tbl \in [Dirs -> Table] /\ data \in [Clusters -> File]
  /\ unsent \subseteq Clusters
IInv == Typed /\ \A p \in Paths : Untouched(p) => Safe(Before, tbl, data, unsent, p)

-----------------------------------------------------------------------------
(* A mount.                                                                 *)

\* The table of every directory has a slot for each name.
RoomInTables == Cardinality(Names) <= TableSlots

\* The names of the files F are no more than a table has slots.
Roomy(F) == \E N \in SUBSET Names : Cardinality(N) <= TableSlots /\ F \subseteq Dirs \X N

Listing(order, F, files) ==
  /\ F \subseteq Paths /\ Cardinality(F) < MaxCluster /\ Roomy(F) /\ order \in SetToSeqs(F)
  /\ \A p \in F : files[p] \in File

LEMMA EveryNameHasRoom ==
  ASSUME RoomInTables, NEW F, F \subseteq Paths
  PROVE  Roomy(F)
BY DEF RoomInTables, Roomy, Paths

LEMMA PathsFinite == IsFiniteSet(Paths)
BY NamesAssumption, FS_Product DEF Paths

LEMMA OrderIsBijection ==
  ASSUME NEW F, NEW order, NEW files, Listing(order, F, files)
  PROVE  LET n == Cardinality(F) IN
         /\ n \in Nat /\ n < MaxCluster /\ DOMAIN order = 1..n
         /\ \A i \in 1..n : order[i] \in F /\ order[i] \in Paths
         /\ \A i, j \in 1..n : order[i] = order[j] => i = j
         /\ \A p \in F : \E i \in 1..n : order[i] = p
<1> DEFINE n == Cardinality(F)
<1>1. IsFiniteSet(F) /\ n \in Nat /\ F \subseteq Paths
  BY PathsFinite, FS_Subset, FS_CardinalityType DEF Listing
<1>2. order \in [1..n -> F] /\ \A i, j \in 1..n : i # j => order[i] # order[j]
  BY DEF Listing, SetToSeqs
<1>3. order \in Injection(1..n, F)
  BY <1>2 DEF Injection, IsInjective
<1>4. Cardinality(1..n) = n
  <2>1. Cardinality(1..n) = IF 1 > n THEN 0 ELSE n - 1 + 1
    BY <1>1, FS_Interval
  <2> QED
    BY <1>1, <2>1
<1>5. order \in Surjection(1..n, F)
  <2>1. Cardinality(1..n) = Cardinality(F) <=> order \in Surjection(1..n, F)
    <3> HIDE DEF n
    <3> QED
      BY <1>1, <1>3, FS_Injection
  <2> QED
    BY <1>4, <2>1
<1>6. \A p \in F : \E i \in 1..n : order[i] = p
  BY <1>5 DEF Surjection
<1> QED
  BY <1>1, <1>2, <1>6 DEF Listing

LEMMA ScannedTyped ==
  ASSUME NEW F, NEW order, NEW files, Listing(order, F, files)
  PROVE  LET n == Cardinality(F)
             ents == Scanned(order, files)
         IN  /\ ents \in Seq(EntryRecord) /\ Len(ents) = n /\ n \in Nat
             /\ \A i \in 1..n : /\ i + 1 \in Clusters /\ Len(files[order[i]]) \in Nat
                                /\ ents[i] = Entry(order[i], i + 1, Len(files[order[i]]))
                                /\ PathOf(ents[i]) = order[i] /\ ents[i] \in EntryRecord
<1> DEFINE n == Cardinality(F)
           ents == Scanned(order, files)
<1>1. /\ n \in Nat /\ n < MaxCluster /\ DOMAIN order = 1..n
      /\ \A i \in 1..n : order[i] \in F /\ order[i] \in Paths
  BY OrderIsBijection
<1>2. MaxCluster \in Nat
  BY SizesAssumption
<1>3. ents = [i \in 1..n |-> Entry(order[i], i + 1, Len(files[order[i]]))]
  BY <1>1 DEF Scanned
<1>4. ASSUME NEW i \in 1..n
      PROVE  /\ i + 1 \in Clusters /\ Len(files[order[i]]) \in Nat
             /\ ents[i] = Entry(order[i], i + 1, Len(files[order[i]]))
             /\ PathOf(ents[i]) = order[i] /\ ents[i] \in EntryRecord
  <2>1. i + 1 \in Clusters
    <3> HIDE DEF n
    <3> QED
      BY <1>1, <1>2 DEF Clusters
  <2>2. Len(files[order[i]]) \in Nat
    <3>1. order[i] \in F
      BY <1>1
    <3>2. files[order[i]] \in File
      BY <3>1 DEF Listing
    <3> QED
      BY <3>2 DEF File
  <2>3. ents[i] = Entry(order[i], i + 1, Len(files[order[i]]))
    BY <1>3
  <2> QED
    BY <1>1, <2>1, <2>2, <2>3, EntryTyped
<1> HIDE DEF ents, n
<1>5. ents \in [1..n -> EntryRecord]
  BY <1>3, <1>4
<1>6. ents \in Seq(EntryRecord) /\ Len(ents) = n
  BY <1>1, <1>5
<1> QED
  BY <1>1, <1>4, <1>6 DEF ents, n

\* The entries of a directory have places of their own, all within the table.
LEMMA RankedApart ==
  ASSUME NEW F, NEW order, NEW files, Listing(order, F, files)
  PROVE  LET n == Cardinality(F)
             ents == Scanned(order, files)
         IN  /\ \A i \in 1..n : Rank(ents, i) \in TableIndex
             /\ \A i, j \in 1..n : i < j /\ ents[i].dir = ents[j].dir => Rank(ents, i) # Rank(ents, j)
<1> DEFINE n == Cardinality(F)
           ents == Scanned(order, files)
           upto(i) == {j \in 1..i : ents[j].dir = ents[i].dir}
<1>1. /\ n \in Nat
      /\ \A i \in 1..n : PathOf(ents[i]) = order[i] /\ ents[i] \in EntryRecord
  BY ScannedTyped
<1>2. /\ \A i, j \in 1..n : order[i] = order[j] => i = j
      /\ \A i \in 1..n : order[i] \in F
  BY OrderIsBijection
<1>0. \A i : Rank(ents, i) = Cardinality(upto(i))
  BY DEF Rank
<1> HIDE DEF ents, n
<1>3. ASSUME NEW i \in 1..n PROVE IsFiniteSet(upto(i)) /\ Cardinality(upto(i)) \in Nat
  <2>1. IsFiniteSet(1..i)
    BY FS_Interval
  <2>2. upto(i) \subseteq 1..i
    OBVIOUS
  <2> HIDE DEF upto
  <2> QED
    BY <2>1, <2>2, FS_Subset, FS_CardinalityType
<1>8. PICK N \in SUBSET Names : Cardinality(N) <= TableSlots /\ F \subseteq Dirs \X N
  BY DEF Listing, Roomy
<1>9. IsFiniteSet(N)
  BY NamesAssumption, FS_Subset
<1>4. ASSUME NEW i \in 1..n PROVE Rank(ents, i) \in TableIndex
  <2> DEFINE f == [j \in upto(i) |-> ents[j].name]
             S == upto(i)
  <2>1. f \in [S -> N]
    <3>1. \A j \in S : j \in 1..n
      BY <1>1
    <3>2. ASSUME NEW j \in S PROVE ents[j].name \in N
      <4>1. order[j] \in F /\ PathOf(ents[j]) = order[j]
        BY <1>1, <1>2, <3>1
      <4> QED
        BY <1>8, <4>1 DEF PathOf
    <3> QED
      BY <3>2
  <2>2. ASSUME NEW j \in S, NEW m \in S, f[j] = f[m] PROVE j = m
    <3>1. j \in 1..n /\ m \in 1..n
      BY <1>1
    <3>2. ents[j].dir = ents[m].dir /\ ents[j].name = ents[m].name
      BY <2>2
    <3>3. PathOf(ents[j]) = PathOf(ents[m])
      BY <3>2 DEF PathOf
    <3> QED
      BY <1>1, <1>2, <3>1, <3>3
  <2>3. f \in Injection(S, N)
    <3> HIDE DEF f, S
    <3> QED
      BY <2>1, <2>2 DEF Injection, IsInjective
  <2>4. i \in S
    OBVIOUS
  <2> HIDE DEF f, S
  <2>5. Cardinality(S) <= Cardinality(N)
    BY <1>9, <2>3, FS_Injection
  <2>6. Cardinality(S) \in Nat /\ IsFiniteSet(S)
    BY <1>3 DEF S
  <2>7. Cardinality(S) # 0
    BY <2>4, <2>6, FS_EmptySet
  <2>8. Cardinality(N) \in Nat /\ TableSlots \in Nat
    BY <1>9, SizesAssumption, FS_CardinalityType
  <2>9. Cardinality(S) \in 1..TableSlots
    BY <1>8, <2>5, <2>6, <2>7, <2>8
  <2> QED
    BY <1>0, <2>9 DEF S, TableIndex
<1>5. ASSUME NEW i \in 1..n, NEW j \in 1..n, i < j, ents[i].dir = ents[j].dir
      PROVE  Rank(ents, i) # Rank(ents, j)
  <2> DEFINE S == upto(i)
             T == upto(j)
  <2>1. S \cup {j} \subseteq T /\ j \notin S
    BY <1>1, <1>5
  <2>2. IsFiniteSet(S) /\ Cardinality(S) \in Nat /\ IsFiniteSet(T) /\ Cardinality(T) \in Nat
    BY <1>3
  <2> HIDE DEF S, T
  <2>3. Cardinality(S \cup {j}) = Cardinality(S) + 1
    BY <2>1, <2>2, FS_AddElement
  <2>4. Cardinality(S \cup {j}) <= Cardinality(T)
    BY <2>1, <2>2, FS_Subset
  <2>5. Cardinality(S) # Cardinality(T)
    BY <2>2, <2>3, <2>4
  <2> QED
    BY <1>0, <2>5 DEF S, T
<1> QED
  BY <1>4, <1>5 DEF ents, n

ListedSlot(e) == LiveSlot(e.name, e.start, e.size)

LEMMA ServedSlots ==
  ASSUME NEW F, NEW order, NEW files, Listing(order, F, files)
  PROVE  LET n == Cardinality(F)
             ents == Scanned(order, files)
         IN  /\ \A d : \A k \in TableIndex :
                  \/ ServedTable(d, ents)[k] = FreeSlot
                  \/ \E i \in 1..n : /\ ents[i].dir = d /\ Rank(ents, i) = k
                                     /\ ServedTable(d, ents)[k] = ListedSlot(ents[i])
             /\ \A i \in 1..n : ServedTable(ents[i].dir, ents)[Rank(ents, i)] = ListedSlot(ents[i])
<1> DEFINE n == Cardinality(F)
           ents == Scanned(order, files)
           at(d, k) == {i \in DOMAIN ents : ents[i].dir = d /\ Rank(ents, i) = k}
<1>1. n \in Nat /\ DOMAIN ents = 1..n
  BY ScannedTyped
<1>2. /\ \A i \in 1..n : Rank(ents, i) \in TableIndex
      /\ \A i, j \in 1..n : i < j /\ ents[i].dir = ents[j].dir => Rank(ents, i) # Rank(ents, j)
  BY RankedApart
<1>3. ASSUME NEW d, NEW k \in TableIndex
      PROVE  /\ at(d, k) = {} => ServedTable(d, ents)[k] = FreeSlot
             /\ at(d, k) # {} => ServedTable(d, ents)[k] = ListedSlot(ents[CHOOSE i \in at(d, k) : TRUE])
  BY DEF ServedTable, ListedSlot
<1> HIDE DEF ents, n
<1>4. ASSUME NEW i \in 1..n
      PROVE  ServedTable(ents[i].dir, ents)[Rank(ents, i)] = ListedSlot(ents[i])
  <2> DEFINE d == ents[i].dir
             k == Rank(ents, i)
             m == CHOOSE j \in at(d, k) : TRUE
  <2>1. i \in at(d, k) /\ k \in TableIndex
    BY <1>1, <1>2
  <2>2. m \in at(d, k)
    BY <2>1
  <2>3. ServedTable(d, ents)[k] = ListedSlot(ents[m])
    <3> HIDE DEF at, d, k
    <3> QED
      BY <1>3, <2>1
  <2> HIDE DEF m
  <2>4. m \in 1..n /\ ents[m].dir = ents[i].dir /\ Rank(ents, m) = Rank(ents, i)
    BY <1>1, <2>2
  <2>5. m = i
    <3>1. m < i \/ i < m \/ m = i
      BY <1>1, <2>4
    <3> QED
      BY <1>2, <2>4, <3>1
  <2> QED
    BY <2>3, <2>5
<1>5. ASSUME NEW d, NEW k \in TableIndex
      PROVE  \/ ServedTable(d, ents)[k] = FreeSlot
             \/ \E i \in 1..n : /\ ents[i].dir = d /\ Rank(ents, i) = k
                                /\ ServedTable(d, ents)[k] = ListedSlot(ents[i])
  <2>1. CASE at(d, k) = {}
    BY <1>3, <2>1
  <2>2. CASE at(d, k) # {}
    <3> DEFINE m == CHOOSE j \in at(d, k) : TRUE
    <3>1. m \in at(d, k)
      BY <2>2
    <3>2. ServedTable(d, ents)[k] = ListedSlot(ents[m])
      <4> HIDE DEF at
      <4> QED
        BY <1>3, <2>2
    <3> HIDE DEF m
    <3> QED
      BY <1>1, <3>1, <3>2
  <2> QED
    BY <2>1, <2>2
<1> QED
  BY <1>4, <1>5 DEF ents, n

LEMMA ServedTyped ==
  ASSUME NEW F, NEW order, NEW files, Listing(order, F, files), NEW d
  PROVE  ServedTable(d, Scanned(order, files)) \in Table
<1> DEFINE n == Cardinality(F)
           ents == Scanned(order, files)
           t == ServedTable(d, ents)
<1>1. \A i \in 1..n : ents[i] \in EntryRecord
  BY ScannedTyped
<1>2. t = [k \in TableIndex |-> t[k]]
  BY DEF ServedTable
<1>0. \A k \in TableIndex : t[k] = FreeSlot \/ \E i \in 1..n : t[k] = ListedSlot(ents[i])
  BY ServedSlots
<1> HIDE DEF ents, n, t
<1>3. ASSUME NEW k \in TableIndex PROVE t[k] \in Slot /\ (t[k].mark = "live" => t[k].name \in Names)
  <2>1. CASE t[k] = FreeSlot
    BY <2>1 DEF FreeSlot, Slot
  <2>2. CASE t[k] # FreeSlot
    <3>1. PICK i \in 1..n : t[k] = ListedSlot(ents[i])
      BY <1>0, <2>2
    <3>2. ents[i] \in EntryRecord
      BY <1>1
    <3> QED
      BY <3>1, <3>2 DEF ListedSlot, LiveSlot, Slot, EntryRecord
  <2> QED
    BY <2>1, <2>2
<1>4. t \in Table
  BY <1>2, <1>3 DEF Table
<1> QED
  BY <1>4 DEF t, ents

\* The volume as it is mounted: v is the device, t and x the host's tables and data.
Mounting(order, F, files, v, t, x) ==
  /\ Listing(order, F, files)
  /\ v.entries = Scanned(order, files)
  /\ \A p \in Paths : v.disk[p] = IF p \in F THEN files[p] ELSE Absent
  /\ t = [d \in Dirs |-> ServedTable(d, Scanned(order, files))]
  /\ x = [c \in Clusters |-> IF c - 1 \in DOMAIN order THEN files[order[c - 1]] ELSE <<>>]

LEMMA MountedTyped ==
  ASSUME NEW F, NEW order, NEW files, NEW v, NEW t, NEW x, Mounting(order, F, files, v, t, x)
  PROVE  v.entries \in Seq(EntryRecord) /\ t \in [Dirs -> Table] /\ x \in [Clusters -> File]
<1>1. Listing(order, F, files)
  BY DEF Mounting
<1>2. v.entries \in Seq(EntryRecord)
  BY <1>1, ScannedTyped DEF Mounting
<1>3. t \in [Dirs -> Table]
  <2>1. \A d \in Dirs : ServedTable(d, Scanned(order, files)) \in Table
    BY <1>1, ServedTyped
  <2> QED
    BY <2>1 DEF Mounting
<1>4. x \in [Clusters -> File]
  <2>1. \A i \in DOMAIN order : files[order[i]] \in File
    BY <1>1, OrderIsBijection DEF Listing
  <2> QED
    BY <2>1, ContentTyped DEF Mounting
<1> QED
  BY <1>2, <1>3, <1>4

LEMMA MountedSafe ==
  ASSUME NEW F, NEW order, NEW files, NEW v, NEW t, NEW x, Mounting(order, F, files, v, t, x),
         NEW p \in Paths
  PROVE  Safe(v, t, x, {}, p)
<1> DEFINE n == Cardinality(F)
           ents == Scanned(order, files)
<1>1. Listing(order, F, files) /\ v.entries = ents
  BY DEF Mounting
<1>2. /\ ents \in Seq(EntryRecord) /\ DOMAIN ents = 1..n /\ n \in Nat
      /\ \A i \in 1..n : /\ i + 1 \in Clusters /\ Len(files[order[i]]) \in Nat
                         /\ ents[i] = Entry(order[i], i + 1, Len(files[order[i]]))
                         /\ PathOf(ents[i]) = order[i] /\ ents[i] \in EntryRecord
  BY <1>1, ScannedTyped
<1>3. /\ DOMAIN order = 1..n
      /\ \A i \in 1..n : order[i] \in F
      /\ \A i, j \in 1..n : order[i] = order[j] => i = j
      /\ \A q \in F : \E i \in 1..n : order[i] = q
  BY <1>1, OrderIsBijection
<1>4. \A d \in Dirs : t[d] = ServedTable(d, ents)
  BY DEF Mounting
<1>5. /\ \A d \in Dirs, k \in TableIndex :
           \/ t[d][k] = FreeSlot
           \/ \E i \in 1..n : ents[i].dir = d /\ Rank(ents, i) = k /\ t[d][k] = ListedSlot(ents[i])
      /\ \A i \in 1..n : ents[i].dir \in Dirs => t[ents[i].dir][Rank(ents, i)] = ListedSlot(ents[i])
  <2>1. /\ \A d : \A k \in TableIndex :
             \/ ServedTable(d, ents)[k] = FreeSlot
             \/ \E i \in 1..n : /\ ents[i].dir = d /\ Rank(ents, i) = k
                                /\ ServedTable(d, ents)[k] = ListedSlot(ents[i])
        /\ \A i \in 1..n : ServedTable(ents[i].dir, ents)[Rank(ents, i)] = ListedSlot(ents[i])
    BY <1>1, ServedSlots
  <2> HIDE DEF ents, n
  <2> QED
    BY <1>4, <2>1
<1>6. \A i \in 1..n : Rank(ents, i) \in TableIndex
  BY <1>1, RankedApart
<1> HIDE DEF ents, n
\* A slot in use is that of an entry, and says what the entry says.
<1>7. ASSUME NEW d \in Dirs, NEW k \in TableIndex, t[d][k] # FreeSlot
      PROVE  \E i \in 1..n : /\ <<d, t[d][k].name>> = order[i] /\ t[d][k].cluster = i + 1
                             /\ d = ents[i].dir /\ k = Rank(ents, i)
  <2>1. PICK i \in 1..n : ents[i].dir = d /\ Rank(ents, i) = k /\ t[d][k] = ListedSlot(ents[i])
    BY <1>5, <1>7
  <2>2. ents[i].start = i + 1 /\ <<d, ents[i].name>> = order[i]
    BY <1>2, <2>1 DEF Entry, PathOf
  <2> QED
    BY <2>1, <2>2 DEF ListedSlot, LiveSlot
<1>8. CASE p \notin F
  <2>1. Unnamed(t, p)
    <3> SUFFICES ASSUME NEW k \in TableIndex, t[p[1]][k].mark = "live", t[p[1]][k].name = p[2] PROVE FALSE
      BY DEF Unnamed
    <3>1. p[1] \in Dirs /\ p = <<p[1], p[2]>>
      BY DEF Paths
    <3>2. t[p[1]][k] # FreeSlot
      BY DEF FreeSlot
    <3>3. PICK i \in 1..n : <<p[1], t[p[1]][k].name>> = order[i]
      BY <1>7, <3>1, <3>2
    <3> QED
      BY <1>3, <1>8, <3>1, <3>3
  <2>2. v.disk[p] = Absent
    BY <1>8 DEF Mounting
  <2> QED
    BY <2>1, <2>2 DEF Safe, Lacks
<1>9. CASE p \in F
  <2>1. PICK i \in 1..n : order[i] = p
    BY <1>3, <1>9
  <2> DEFINE c == i + 1
             size == Len(files[order[i]])
             k == Rank(ents, i)
  <2>2. /\ c \in Clusters /\ size \in Nat /\ k \in TableIndex /\ k \in Nat /\ i \in Nat
        /\ ents[i] = Entry(p, c, size) /\ ents[i].dir = p[1] /\ p[1] \in Dirs
    <3>1. ents[i] = Entry(p, c, size) /\ PathOf(ents[i]) = p
      BY <1>2, <2>1
    <3> QED
      BY <1>2, <1>6, <3>1 DEF Entry, TableIndex, Paths
  <2>3. t[p[1]][k] = LiveSlot(p[2], c, size)
    <3>1. t[ents[i].dir][k] = ListedSlot(ents[i])
      BY <1>5, <2>2
    <3> QED
      BY <2>2, <3>1 DEF ListedSlot, Entry
  <2>4. ASSUME NEW d \in Dirs, NEW j \in TableIndex, <<d, j>> # <<p[1], k>>
        PROVE  t[d][j].cluster # c /\ (t[d][j].mark = "live" => <<d, t[d][j].name>> # p)
    <3>1. CASE t[d][j] = FreeSlot
      <4>1. c # 0
        BY <1>2
      <4> QED
        BY <3>1, <4>1 DEF FreeSlot
    <3>2. CASE t[d][j] # FreeSlot
      <4>1. PICK m \in 1..n : /\ <<d, t[d][j].name>> = order[m] /\ t[d][j].cluster = m + 1
                              /\ d = ents[m].dir /\ j = Rank(ents, m)
        BY <1>7, <3>2
      <4>2. m # i
        BY <2>2, <2>4, <4>1
      <4>3. order[m] # p
        BY <1>3, <2>1, <4>1, <4>2
      <4>4. m + 1 # c
        BY <1>2, <4>1, <4>2
      <4> QED
        BY <4>1, <4>3, <4>4
    <3> QED
      BY <3>1, <3>2
  <2>5. x[c] = files[p] /\ v.disk[p] = files[p]
    <3>1. c - 1 = i
      BY <1>2
    <3> QED
      BY <1>3, <1>9, <2>1, <2>2, <3>1 DEF Mounting
  <2>6. ASSUME NEW j \in DOMAIN v.entries, PathOf(v.entries[j]) = p PROVE j = i
    BY <1>1, <1>2, <1>3, <2>1, <2>6
  <2> HIDE DEF c, size, k
  <2>7. Alone(t, p, k, c, size)
    BY <2>2, <2>3, <2>4 DEF Alone, LiveSlot
  <2>8. Tracks(v, p, i, c, size, x[c])
    BY <1>1, <1>2, <2>2, <2>5, <2>6 DEF Tracks
  <2>9. Holds(v, t, x, {}, p, k, i, c, size)
    BY <2>7, <2>8 DEF Holds
  <2> QED
    BY <2>2, <2>9 DEF Safe
<1> QED
  BY <1>8, <1>9

LEMMA InitSafe ==
  ASSUME RoomInTables
  PROVE  Init => IInv
<1> SUFFICES ASSUME Init PROVE IInv
  OBVIOUS
<1> DEFINE F == DOMAIN InitialFiles
<1>1. PICK order \in SetToSeqs(F) :
        LET m == Mounted(order, InitialFiles)
        IN  entries = m.entries /\ tbl = m.tbl /\ data = m.data
  BY DEF Init
<1>2. /\ disk = [p \in Paths |-> IF p \in F THEN InitialFiles[p] ELSE Absent]
      /\ staged = [c \in Clusters |-> Absent] /\ unsent = {}
  BY DEF Init
<1>3. \A p \in F : InitialFiles[p] \in File
  <2>1. Seq(Values) \subseteq Seq(Values \cup {Hole})
    <3> SUFFICES ASSUME NEW s \in Seq(Values) PROVE s \in Seq(Values \cup {Hole})
      OBVIOUS
    <3>1. Len(s) \in Nat /\ s \in [1..Len(s) -> Values]
      OBVIOUS
    <3>2. s \in [1..Len(s) -> Values \cup {Hole}]
      BY <3>1
    <3> QED
      BY <3>1, <3>2
  <2> QED
    BY <2>1, InitialAssumption DEF File
<1>4. Mounting(order, F, InitialFiles, Before, tbl, data)
  <2>0. Roomy(F)
    BY InitialAssumption, EveryNameHasRoom
  <2>1. Listing(order, F, InitialFiles)
    BY <1>1, <1>3, <2>0, InitialAssumption DEF Listing
  <2>2. /\ entries = Scanned(order, InitialFiles)
        /\ tbl = [d \in Dirs |-> ServedTable(d, Scanned(order, InitialFiles))]
        /\ data = [c \in Clusters |-> IF c - 1 \in DOMAIN order THEN InitialFiles[order[c - 1]] ELSE <<>>]
    BY <1>1 DEF Mounted
  <2> QED
    BY <1>2, <2>1, <2>2 DEF Mounting, Before
<1>5. Typed
  <2>1. Before.entries \in Seq(EntryRecord) /\ tbl \in [Dirs -> Table] /\ data \in [Clusters -> File]
    BY <1>4, MountedTyped
  <2>2. disk \in [Paths -> File] /\ staged \in [Clusters -> File]
    BY <1>2, <1>3, ContentTyped
  <2> QED
    BY <1>2, <2>1, <2>2 DEF Typed, Before, Device
<1>6. \A p \in Paths : Safe(Before, tbl, data, unsent, p)
  BY <1>2, <1>4, MountedSafe
<1> QED
  BY <1>5, <1>6 DEF IInv

LEMMA MountSafe ==
  ASSUME RoomInTables, IInv, Mount
  PROVE  IInv'
<1> DEFINE F == Existing(disk)
<1>1. PICK order \in SetToSeqs(F) :
        LET m == Mounted(order, disk)
        IN  entries' = m.entries /\ tbl' = m.tbl /\ data' = m.data
  BY DEF Mount
<1>2. disk' = disk /\ staged' = staged /\ unsent' = {} /\ Cardinality(F) < MaxCluster
  BY DEF Mount
<1>3. disk \in [Paths -> File] /\ staged \in [Clusters -> File]
  BY DEF IInv, Typed, Before, Device
<1>4. F \subseteq Paths /\ \A p \in F : disk[p] \in File
  BY <1>3 DEF Existing
<1>5. \A p \in Paths : disk[p] = IF p \in F THEN disk[p] ELSE Absent
  BY <1>3 DEF Existing
<1> HIDE DEF F
<1>6. Mounting(order, F, disk, Before', tbl', data')
  <2>0. Roomy(F)
    BY <1>4, EveryNameHasRoom
  <2>1. Listing(order, F, disk)
    BY <1>1, <1>2, <1>4, <2>0 DEF Listing
  <2>2. /\ entries' = Scanned(order, disk)
        /\ tbl' = [d \in Dirs |-> ServedTable(d, Scanned(order, disk))]
        /\ data' = [c \in Clusters |-> IF c - 1 \in DOMAIN order THEN disk[order[c - 1]] ELSE <<>>]
    BY <1>1 DEF Mounted
  <2>3. Before'.entries = entries' /\ Before'.disk = disk
    BY <1>2 DEF Before
  <2> QED
    BY <1>5, <2>1, <2>2, <2>3 DEF Mounting
<1>7. Typed'
  <2>1. Before'.entries \in Seq(EntryRecord) /\ tbl' \in [Dirs -> Table] /\ data' \in [Clusters -> File]
    BY <1>6, MountedTyped
  <2> QED
    BY <1>2, <1>3, <2>1 DEF Typed, Before, Device
<1>8. \A p \in Paths : Safe(Before', tbl', data', {}, p)
  BY <1>6, MountedSafe
<1> QED
  BY <1>2, <1>7, <1>8 DEF IInv

-----------------------------------------------------------------------------
(* What reaches the calculator.                                             *)

LEMMA WriteTableSafe ==
  ASSUME IInv, NEW d \in Dirs, WriteTable(d)
  PROVE  IInv'
<1> DEFINE v == Interpreted(d)
<1>1. Before \in Device /\ tbl \in [Dirs -> Table]
  BY DEF IInv, Typed
<1>2. v \in Device
  BY <1>1, PassTyped
<1>3. tbl' = tbl /\ data' = data /\ unsent' = unsent /\ past' = past
  BY DEF WriteTable
<1>4. Before' = v
  <2>1. entries' = v.entries /\ disk' = v.disk /\ staged' = v.staged
    BY DEF WriteTable
  <2> HIDE DEF v
  <2>2. v = [entries |-> v.entries, disk |-> v.disk, staged |-> v.staged]
    BY <1>2 DEF Device
  <2> QED
    BY <2>1, <2>2 DEF Before
<1> HIDE DEF v
<1>5. Typed'
  BY <1>2, <1>3, <1>4 DEF IInv, Typed
<1>6. ASSUME NEW p \in Paths, Safe(Before, tbl, data, unsent, p) PROVE Safe(v, tbl, data, unsent, p)
  <2>0. p = <<p[1], p[2]>>
    BY DEF Paths
  <2>1. CASE Lacks(Before, tbl, p)
    <3>1. disk[p] = Absent
      BY <2>1 DEF Lacks, Before
    <3>2. \A k \in TableIndex : tbl[d][k].mark = "live" => <<d, tbl[d][k].name>> # p
      BY <2>0, <2>1 DEF Lacks, Unnamed
    <3>3. v.disk[p] = Absent
      BY <1>1, <3>1, <3>2, PassNone DEF v
    <3> QED
      BY <2>1, <3>3 DEF Safe, Lacks
  <2>2. CASE ~Lacks(Before, tbl, p)
    <3>1. PICK k, i \in Nat, c \in Clusters, n \in Nat : Holds(Before, tbl, data, unsent, p, k, i, c, n)
      BY <1>6, <2>2 DEF Safe
    <3>2. ASSUME NEW j \in TableIndex PROVE Foreign(d, tbl[d][j], p, c) \/ Own(d, tbl[d][j], p, c, n)
      <4>1. CASE <<d, j>> = <<p[1], k>>
        BY <2>0, <3>1, <4>1 DEF Holds, Alone, Own
      <4>2. CASE <<d, j>> # <<p[1], k>>
        BY <3>1, <4>2 DEF Holds, Alone, Foreign
      <4> QED
        BY <4>1, <4>2
    <3>3. Tracks(Before, p, i, c, n, data[c])
      BY <3>1 DEF Holds
    <3>4. Tracks(v, p, i, c, n, data[c])
      BY <1>1, <3>2, <3>3, PassKeeps DEF v
    <3>5. Holds(v, tbl, data, unsent, p, k, i, c, n)
      BY <3>1, <3>4 DEF Holds
    <3> QED
      BY <3>5 DEF Safe
  <2> QED
    BY <2>1, <2>2
<1>7. \A p \in Paths : Untouched(p) => Safe(v, tbl, data, unsent, p)
  BY <1>6 DEF IInv
<1>8. \A p : Untouched(p)' <=> Untouched(p)
  BY <1>3 DEF Untouched
<1> QED
  BY <1>3, <1>4, <1>5, <1>7, <1>8 DEF IInv

\* A step that leaves the host's tables, its data and the tracked entries
\* alone, and the files too, but for those of other entries.
LEMMA FilesSafe ==
  ASSUME IInv, Typed', tbl' = tbl, data' = data, past' = past, entries' = entries, unsent' \subseteq unsent,
         \A p \in Paths : disk[p] = Absent => disk'[p] = Absent,
         \A p \in Paths, k, i \in Nat, c \in Clusters, n \in Nat :
           Holds(Before, tbl, data, unsent, p, k, i, c, n) => disk'[p] = disk[p]
  PROVE  IInv'
<1>1. ASSUME NEW p \in Paths, Safe(Before, tbl, data, unsent, p) PROVE Safe(Before', tbl, data, unsent', p)
  <2>1. CASE Lacks(Before, tbl, p)
    BY <2>1 DEF Safe, Lacks, Before
  <2>2. CASE ~Lacks(Before, tbl, p)
    <3>1. PICK k, i \in Nat, c \in Clusters, n \in Nat : Holds(Before, tbl, data, unsent, p, k, i, c, n)
      BY <1>1, <2>2 DEF Safe
    <3>2. disk'[p] = disk[p]
      BY <3>1
    <3>3. Tracks(Before', p, i, c, n, data[c])
      BY <3>1, <3>2 DEF Holds, Tracks, Before
    <3>4. Holds(Before', tbl, data, unsent', p, k, i, c, n)
      BY <3>1, <3>3 DEF Holds
    <3> QED
      BY <3>4 DEF Safe
  <2> QED
    BY <2>1, <2>2
<1>2. \A p : Untouched(p)' <=> Untouched(p)
  BY DEF Untouched
<1> QED
  BY <1>1, <1>2 DEF IInv

LEMMA WriteDataSafe ==
  ASSUME IInv, NEW c \in Clusters, WriteData(c)
  PROVE  IInv'
<1> DEFINE m == Locate(c)
<1>1. /\ entries \in Seq(EntryRecord) /\ disk \in [Paths -> File] /\ staged \in [Clusters -> File]
      /\ tbl \in [Dirs -> Table] /\ data \in [Clusters -> File] /\ unsent \subseteq Clusters
  BY DEF IInv, Typed, Before, Device
<1>2. /\ tbl' = tbl /\ data' = data /\ past' = past /\ entries' = entries /\ unsent' = unsent \ {c}
      /\ c \in unsent
  BY DEF WriteData
<1>3. m = 0 \/ (m \in 1..Len(entries) /\ entries[m].start = c)
  BY <1>1, Located DEF Finds
<1>4. CASE m = 0
  <2>1. disk' = disk /\ staged' = [staged EXCEPT ![c] = IF @ = Absent THEN data[c] ELSE Over(data[c], @)]
    BY <1>4 DEF WriteData
  <2>2. staged' \in [Clusters -> File]
    <3>1. data[c] \in File /\ Over(data[c], staged[c]) \in File
      BY <1>1, OverTyped
    <3> QED
      BY <1>1, <2>1, <3>1
  <2>3. Typed'
    BY <1>1, <1>2, <2>1, <2>2 DEF Typed, Before, Device
  <2> QED
    BY <1>2, <2>1, <2>3, FilesSafe
<1>5. CASE m # 0
  <2> DEFINE q == PathOf(entries[m])
  <2>1. /\ disk' = IF disk[q] = Absent THEN disk ELSE [disk EXCEPT ![q] = Over(data[c], disk[q])]
        /\ staged' = staged
    BY <1>5 DEF WriteData
  <2>2. m \in 1..Len(entries) /\ entries[m].start = c /\ q \in Paths
    <3>1. m \in 1..Len(entries) /\ entries[m].start = c
      BY <1>3, <1>5
    <3>2. entries[m] \in EntryRecord
      BY <1>1, <3>1
    <3> QED
      BY <3>1, <3>2, PathTyped
  <2> HIDE DEF m, q
  <2>3. disk' \in [Paths -> File] /\ \A p \in Paths : p # q => disk'[p] = disk[p]
    <3>1. data[c] \in File /\ Over(data[c], disk[q]) \in File
      BY <1>1, <2>2, OverTyped
    <3> QED
      BY <1>1, <2>1, <2>2, <3>1
  <2>4. Typed'
    BY <1>1, <1>2, <2>1, <2>3 DEF Typed, Before, Device
  <2>5. ASSUME NEW p \in Paths, disk[p] = Absent PROVE disk'[p] = Absent
    BY <2>1, <2>3, <2>5
  <2>6. ASSUME NEW p \in Paths, NEW k, NEW i \in Nat, NEW b \in Clusters, NEW n \in Nat,
               Holds(Before, tbl, data, unsent, p, k, i, b, n)
        PROVE  disk'[p] = disk[p]
    <3>1. b # c /\ Tracks(Before, p, i, b, n, data[b])
      BY <1>2, <2>6 DEF Holds
    <3>2. entries[i].start = b /\ DOMAIN entries = 1..Len(entries)
      BY <1>1, <3>1 DEF Tracks, Before, Entry
    <3>3. q # p
      BY <2>2, <3>1, <3>2 DEF Tracks, Before, q
    <3> QED
      BY <2>3, <3>3
  <2> QED
    BY <1>2, <2>4, <2>5, <2>6, FilesSafe
<1> QED
  BY <1>4, <1>5

LEMMA EjectSafe ==
  ASSUME IInv, Eject
  PROVE  IInv'
<1>1. /\ entries \in Seq(EntryRecord) /\ disk \in [Paths -> File]
      /\ tbl \in [Dirs -> Table] /\ data \in [Clusters -> File] /\ unsent \subseteq Clusters
  BY DEF IInv, Typed, Before, Device
<1>2. /\ tbl' = tbl /\ data' = data /\ past' = past /\ entries' = entries /\ unsent' = unsent
      /\ disk' = Flushed /\ staged' = [c \in Clusters |-> Absent]
  BY DEF Eject
<1>3. disk' \in [Paths -> File] /\ \A p \in Paths : disk'[p] \in {Absent, disk[p]}
  BY <1>1, <1>2, ContentTyped DEF Flushed
<1>4. Typed'
  BY <1>1, <1>2, <1>3, ContentTyped DEF Typed, Before, Device
<1>5. ASSUME NEW p \in Paths, NEW k, NEW i \in Nat, NEW c \in Clusters, NEW n \in Nat,
             Holds(Before, tbl, data, unsent, p, k, i, c, n)
      PROVE  disk'[p] = disk[p]
  <2>1. \A j \in DOMAIN entries : PathOf(entries[j]) = p => entries[j] = Entry(p, c, n)
    BY <1>5 DEF Holds, Tracks, Before
  <2>2. Entry(p, c, n).deleted = FALSE
    BY DEF Entry
  <2>3. ~\E j \in DOMAIN entries : entries[j].deleted /\ PathOf(entries[j]) = p
    BY <2>1, <2>2
  <2> QED
    BY <1>2, <2>3 DEF Flushed
<1> QED
  BY <1>2, <1>3, <1>4, <1>5, FilesSafe

LEMMA KillSafe ==
  ASSUME IInv, Kill
  PROVE  IInv'
<1>1. /\ entries \in Seq(EntryRecord) /\ disk \in [Paths -> File]
      /\ tbl \in [Dirs -> Table] /\ data \in [Clusters -> File] /\ unsent \subseteq Clusters
  BY DEF IInv, Typed, Before, Device
<1>2. /\ tbl' = tbl /\ data' = data /\ past' = past /\ entries' = entries /\ unsent' = unsent
      /\ disk' = disk /\ staged' = [c \in Clusters |-> Absent]
  BY DEF Kill
<1>3. Typed'
  BY <1>1, <1>2, ContentTyped DEF Typed, Before, Device
<1> QED
  BY <1>2, <1>3, FilesSafe

-----------------------------------------------------------------------------
(* The host's operations.                                                   *)

\* Cluster b is not that of a live slot outside X.
Elsewhere(b, X) ==
  b = 0 \/ ~Allocated(b) \/ \E f \in Dirs, l \in TableIndex : <<f, l>> \in X /\ tbl[f][l].cluster = b

\* Only the slots X change; path p is not named in them, before or after.
Bypasses(X, p) ==
  \A e \in Dirs, j \in TableIndex :
    IF <<e, j>> \in X
    THEN /\ tbl[e][j].mark = "live" => <<e, tbl[e][j].name>> # p
         /\ tbl'[e][j].mark = "live" => <<e, tbl'[e][j].name>> # p
         /\ Elsewhere(tbl'[e][j].cluster, X)
    ELSE tbl'[e][j] = tbl[e][j]

LEMMA ElsewhereApart ==
  ASSUME NEW X, NEW p \in Paths, Bypasses(X, p), NEW k, NEW c \in Clusters, NEW n, Alone(tbl, p, k, c, n),
         NEW b, Elsewhere(b, X)
  PROVE  b # c
<1>0. p[1] \in Dirs /\ p = <<p[1], p[2]>> /\ k \in TableIndex
  BY DEF Paths, Alone
<1>1. <<p[1], k>> \notin X
  BY <1>0 DEF Bypasses, Alone
<1>2. c # 0
  BY DEF Clusters
<1>3. Allocated(c)
  BY <1>0 DEF Allocated, Live, Alone
<1>4. ASSUME NEW f \in Dirs, NEW l \in TableIndex, <<f, l>> \in X PROVE tbl[f][l].cluster # c
  BY <1>1, <1>4 DEF Alone
<1> QED
  BY <1>2, <1>3, <1>4 DEF Elsewhere

LEMMA BypassedAlone ==
  ASSUME NEW X, NEW p \in Paths, Bypasses(X, p), NEW k, NEW c \in Clusters, NEW n, Alone(tbl, p, k, c, n)
  PROVE  Alone(tbl', p, k, c, n)
<1>0. p[1] \in Dirs /\ p = <<p[1], p[2]>> /\ k \in TableIndex
  BY DEF Paths, Alone
<1>1. <<p[1], k>> \notin X
  BY <1>0 DEF Bypasses, Alone
<1>2. tbl'[p[1]][k] = tbl[p[1]][k]
  BY <1>0, <1>1 DEF Bypasses
<1>3. ASSUME NEW d \in Dirs, NEW j \in TableIndex, <<d, j>> # <<p[1], k>>
      PROVE  tbl'[d][j].cluster # c /\ (tbl'[d][j].mark = "live" => <<d, tbl'[d][j].name>> # p)
  <2>1. CASE <<d, j>> \in X
    <3>1. Elsewhere(tbl'[d][j].cluster, X) /\ (tbl'[d][j].mark = "live" => <<d, tbl'[d][j].name>> # p)
      BY <2>1 DEF Bypasses
    <3> QED
      BY <3>1, ElsewhereApart
  <2>2. CASE <<d, j>> \notin X
    <3>1. tbl'[d][j] = tbl[d][j]
      BY <2>2 DEF Bypasses
    <3> QED
      BY <1>3, <3>1 DEF Alone
  <2> QED
    BY <2>1, <2>2
<1> QED
  BY <1>2, <1>3 DEF Alone

LEMMA BypassedUnnamed ==
  ASSUME NEW X, NEW p \in Paths, Bypasses(X, p), Unnamed(tbl, p)
  PROVE  Unnamed(tbl', p)
<1> SUFFICES ASSUME NEW k \in TableIndex, tbl'[p[1]][k].mark = "live" PROVE tbl'[p[1]][k].name # p[2]
  BY DEF Unnamed
<1>0. p[1] \in Dirs /\ p = <<p[1], p[2]>>
  BY DEF Paths
<1> QED
  BY <1>0 DEF Bypasses, Unnamed

\* An operation on the slots X.
LEMMA OperationSafe ==
  ASSUME IInv, NEW X, UNCHANGED device,
         tbl' \in [Dirs -> Table], data' \in [Clusters -> File], unsent' \subseteq Clusters, past \subseteq past',
         \A p \in Paths : Untouched(p)' => Bypasses(X, p),
         \A b \in Clusters : Elsewhere(b, X) \/ (data'[b] = data[b] /\ (b \in unsent' => b \in unsent))
  PROVE  IInv'
<1>1. Before' = Before
  BY DEF device, Before
<1>2. Typed'
  BY <1>1 DEF IInv, Typed
<1>3. ASSUME NEW p \in Paths, Untouched(p)' PROVE Safe(Before, tbl', data', unsent', p)
  <2>1. Untouched(p)
    BY <1>3 DEF Untouched
  <2>2. Bypasses(X, p) /\ Safe(Before, tbl, data, unsent, p)
    BY <1>3, <2>1 DEF IInv
  <2>3. CASE Lacks(Before, tbl, p)
    BY <2>2, <2>3, BypassedUnnamed DEF Safe, Lacks
  <2>4. CASE ~Lacks(Before, tbl, p)
    <3>1. PICK k, i \in Nat, c \in Clusters, n \in Nat : Holds(Before, tbl, data, unsent, p, k, i, c, n)
      BY <2>2, <2>4 DEF Safe
    <3>2. Alone(tbl, p, k, c, n)
      BY <3>1 DEF Holds
    <3>3. Alone(tbl', p, k, c, n)
      BY <2>2, <3>2, BypassedAlone
    <3>4. ~Elsewhere(c, X)
      BY <2>2, <3>2, ElsewhereApart
    <3>5. data'[c] = data[c] /\ c \notin unsent'
      BY <3>1, <3>4 DEF Holds
    <3>6. Holds(Before, tbl', data', unsent', p, k, i, c, n)
      BY <3>1, <3>3, <3>5 DEF Holds
    <3> QED
      BY <3>6 DEF Safe
  <2> QED
    BY <2>3, <2>4
<1> QED
  BY <1>1, <1>2, <1>3 DEF IInv

WithSlot(t, d, k, s) == [t EXCEPT ![d][k] = s]
LEMMA SlotWritten ==
  ASSUME NEW t \in [Dirs -> Table], NEW d \in Dirs, NEW k \in TableIndex, NEW s, NamedSlot(s)
  PROVE  LET u == WithSlot(t, d, k, s) IN
         /\ u \in [Dirs -> Table] /\ u[d][k] = s
         /\ \A e \in Dirs, j \in TableIndex : <<e, j>> # <<d, k>> => u[e][j] = t[e][j]
<1> DEFINE r == [t[d] EXCEPT ![k] = s]
           u == [t EXCEPT ![d] = r]
<1>1. t[d] \in Table /\ s \in {x \in Slot : x.mark = "live" => x.name \in Names}
  BY DEF NamedSlot
<1>2. r \in Table /\ r[k] = s /\ \A j \in TableIndex : j # k => r[j] = t[d][j]
  BY <1>1 DEF Table
<1> HIDE DEF r
<1>3. u \in [Dirs -> Table] /\ u[d] = r /\ \A e \in Dirs : e # d => u[e] = t[e]
  BY <1>2
<1>4. WithSlot(t, d, k, s) = u
  BY DEF r, WithSlot
<1> HIDE DEF u
<1>5. \A e \in Dirs, j \in TableIndex : <<e, j>> # <<d, k>> => u[e][j] = t[e][j]
  BY <1>2, <1>3
<1> QED
  BY <1>2, <1>3, <1>4, <1>5

LEMMA SlotTyped ==
  ASSUME NEW t \in [Dirs -> Table], NEW d \in Dirs, NEW k \in TableIndex
  PROVE  NamedSlot(t[d][k])
<1>1. t[d] \in Table
  OBVIOUS
<1> QED
  BY <1>1 DEF Table, NamedSlot

LEMMA LiveTyped ==
  ASSUME NEW nm \in Names, NEW c \in {0} \cup Clusters, NEW n \in Nat
  PROVE  NamedSlot(LiveSlot(nm, c, n))
BY DEF NamedSlot, LiveSlot, Slot

LEMMA ErasedTyped ==
  ASSUME NEW s, NamedSlot(s)
  PROVE  NamedSlot(ErasedSlot(s)) /\ ErasedSlot(s).mark = "erased" /\ ErasedSlot(s).cluster = s.cluster
BY DEF NamedSlot, ErasedSlot, Slot

LEMMA RenamedTyped ==
  ASSUME NEW s, NamedSlot(s), NEW nm \in Names
  PROVE  LET r == [s EXCEPT !.name = nm] IN
         NamedSlot(r) /\ r.name = nm /\ r.mark = s.mark /\ r.cluster = s.cluster
BY DEF NamedSlot, Slot

\* What the host does to the paths ps is known of them.
LEMMA DidTouch ==
  ASSUME NEW how, NEW ps, Did(how, ps)
  PROVE  past \subseteq past' /\ \A p : Untouched(p)' => p \notin ps
<1>1. past' = past \cup {<<p, how>> : p \in ps}
  BY DEF Did
<1>2. ASSUME NEW p, p \in ps PROVE ~Untouched(p)'
  <2>1. <<p, how>> \in past' /\ <<p, how>>[1] = p
    BY <1>1, <1>2
  <2> QED
    BY <2>1 DEF Untouched
<1> QED
  BY <1>1, <1>2

LEMMA DataWritten ==
  ASSUME Typed, NEW c \in Clusters, NEW x \in Contents, HostData(c, x)
  PROVE  /\ data' \in [Clusters -> File] /\ unsent' \subseteq Clusters
         /\ \A b \in Clusters : b # c => data'[b] = data[b] /\ (b \in unsent' => b \in unsent)
         /\ Len(x) \in Nat
BY ContentTyped DEF Typed, HostData, File

LEMMA DataKept ==
  ASSUME Typed, NoData
  PROVE  /\ data' \in [Clusters -> File] /\ unsent' \subseteq Clusters
         /\ \A b \in Clusters : data'[b] = data[b] /\ (b \in unsent' => b \in unsent)
BY DEF Typed, NoData

\* One slot of path q, before and after, becomes s.
LEMMA OneSlotSafe ==
  ASSUME IInv, UNCHANGED device, NEW d \in Dirs, NEW k \in TableIndex, NEW s, NamedSlot(s),
         tbl' = [tbl EXCEPT ![d][k] = s], NEW q,
         tbl[d][k].mark = "live" => <<d, tbl[d][k].name>> = q,
         s.mark = "live" => <<d, s.name>> = q,
         Elsewhere(s.cluster, {<<d, k>>}),
         NEW how, Did(how, {q}),
         data' \in [Clusters -> File], unsent' \subseteq Clusters,
         \A b \in Clusters :
           Elsewhere(b, {<<d, k>>}) \/ (data'[b] = data[b] /\ (b \in unsent' => b \in unsent))
  PROVE  IInv'
<1> DEFINE X == {<<d, k>>}
<1>1. tbl \in [Dirs -> Table]
  BY DEF IInv, Typed
<1>2. /\ tbl' \in [Dirs -> Table] /\ tbl'[d][k] = s
      /\ \A e \in Dirs, j \in TableIndex : <<e, j>> # <<d, k>> => tbl'[e][j] = tbl[e][j]
  <2> DEFINE u == WithSlot(tbl, d, k, s)
  <2>1. /\ u \in [Dirs -> Table] /\ u[d][k] = s
        /\ \A e \in Dirs, j \in TableIndex : <<e, j>> # <<d, k>> => u[e][j] = tbl[e][j]
    BY <1>1, SlotWritten
  <2>2. tbl' = u
    BY DEF WithSlot
  <2> HIDE DEF u
  <2> QED
    <3>1. \A e \in Dirs, j \in TableIndex : <<e, j>> # <<d, k>> => tbl'[e][j] = tbl[e][j]
      BY <2>1, <2>2
    <3>2. tbl' \in [Dirs -> Table] /\ tbl'[d][k] = s
      BY <2>1, <2>2
    <3> QED
      BY <3>1, <3>2
<1>3. past \subseteq past' /\ \A p : Untouched(p)' => p # q
  BY DidTouch
<1>4. ASSUME NEW p \in Paths, Untouched(p)' PROVE Bypasses(X, p)
  <2>1. p # q
    BY <1>3, <1>4
  <2>2. ASSUME NEW e \in Dirs, NEW j \in TableIndex, <<e, j>> \in X
        PROVE  /\ tbl[e][j].mark = "live" => <<e, tbl[e][j].name>> # p
               /\ tbl'[e][j].mark = "live" => <<e, tbl'[e][j].name>> # p
               /\ Elsewhere(tbl'[e][j].cluster, X)
    <3>1. e = d /\ j = k
      BY <2>2
    <3> HIDE DEF X
    <3> QED
      BY <1>2, <2>1, <3>1 DEF X
  <2> QED
    BY <1>2, <2>2 DEF Bypasses
<1> HIDE DEF X
<1>5. \A b \in Clusters : Elsewhere(b, X) \/ (data'[b] = data[b] /\ (b \in unsent' => b \in unsent))
  BY DEF X
<1> QED
  BY <1>2, <1>3, <1>4, <1>5, OperationSafe

LEMMA CreateSafe ==
  ASSUME IInv, NEW d \in Dirs, NEW k \in TableIndex, NEW nm \in Names, NEW c \in Clusters, NEW x \in Contents,
         HostCreate(d, k, nm, c, x)
  PROVE  IInv'
<1> DEFINE s == LiveSlot(nm, c, Len(x))
<1>1. /\ Vacant(d, k) /\ ~Allocated(c) /\ HostData(c, x) /\ Did("written", {<<d, nm>>})
      /\ tbl' = [tbl EXCEPT ![d][k] = s] /\ UNCHANGED device
  BY DEF HostCreate, Allocatable, HostTables
<1>2. /\ data' \in [Clusters -> File] /\ unsent' \subseteq Clusters
      /\ \A b \in Clusters : b # c => data'[b] = data[b] /\ (b \in unsent' => b \in unsent)
      /\ Len(x) \in Nat
  BY <1>1, DataWritten DEF IInv
<1>3. NamedSlot(s) /\ s.name = nm /\ s.cluster = c
  BY <1>2, LiveTyped DEF LiveSlot
<1>4. Elsewhere(c, {<<d, k>>})
  BY <1>1 DEF Elsewhere
<1>5. tbl[d][k].mark # "live"
  BY <1>1 DEF Vacant
<1> HIDE DEF s
<1>6. \A b \in Clusters :
        Elsewhere(b, {<<d, k>>}) \/ (data'[b] = data[b] /\ (b \in unsent' => b \in unsent))
  BY <1>2, <1>4
<1> QED
  BY <1>1, <1>2, <1>3, <1>4, <1>5, <1>6, OneSlotSafe

LEMMA TouchSafe ==
  ASSUME IInv, NEW d \in Dirs, NEW k \in TableIndex, NEW nm \in Kept, HostTouch(d, k, nm)
  PROVE  IInv'
<1> DEFINE s == LiveSlot(nm, 0, 0)
<1>1. /\ Vacant(d, k) /\ NoData /\ Did("written", {<<d, nm>>})
      /\ tbl' = [tbl EXCEPT ![d][k] = s] /\ UNCHANGED device
  BY DEF HostTouch, HostTables
<1>2. /\ data' \in [Clusters -> File] /\ unsent' \subseteq Clusters
      /\ \A b \in Clusters : data'[b] = data[b] /\ (b \in unsent' => b \in unsent)
  BY <1>1, DataKept DEF IInv
<1>3. NamedSlot(s) /\ s.name = nm /\ s.cluster = 0
  BY LiveTyped DEF LiveSlot, Kept
<1>4. Elsewhere(0, {<<d, k>>})
  BY DEF Elsewhere
<1>5. tbl[d][k].mark # "live"
  BY <1>1 DEF Vacant
<1> HIDE DEF s
<1> QED
  BY <1>1, <1>2, <1>3, <1>4, <1>5, OneSlotSafe

\* The slot of a live file keeps its name.
LEMMA LiveSlotFacts ==
  ASSUME IInv, NEW d \in Dirs, NEW k \in Live(tbl, d)
  PROVE  /\ k \in TableIndex /\ tbl[d][k].mark = "live" /\ tbl[d][k].name \in Names /\ NamedSlot(tbl[d][k])
         /\ tbl[d][k] \in Slot /\ tbl[d][k].cluster \in {0} \cup Clusters
         /\ Elsewhere(tbl[d][k].cluster, {<<d, k>>})
<1>1. k \in TableIndex /\ tbl[d][k].mark = "live" /\ tbl \in [Dirs -> Table]
  BY DEF IInv, Typed, Live
<1>2. NamedSlot(tbl[d][k])
  BY <1>1, SlotTyped
<1>3. Elsewhere(tbl[d][k].cluster, {<<d, k>>})
  BY <1>1 DEF Elsewhere
<1> QED
  BY <1>1, <1>2, <1>3 DEF NamedSlot, Slot

Sized(s, n, c) == [s EXCEPT !.size = n, !.cluster = c]
LEMMA SizedTyped ==
  ASSUME NEW s, NamedSlot(s), NEW n \in Nat, NEW c \in {0} \cup Clusters
  PROVE  NamedSlot(Sized(s, n, c)) /\ Sized(s, n, c).name = s.name /\ Sized(s, n, c).cluster = c
BY DEF NamedSlot, Slot, Sized

LEMMA EditSafe ==
  ASSUME IInv, NEW d \in Dirs, NEW k \in TableIndex, NEW x \in Contents, HostEdit(d, k, x)
  PROVE  IInv'
<1> DEFINE q == <<d, tbl[d][k].name>>
           c == tbl[d][k].cluster
           s == Sized(tbl[d][k], Len(x), c)
<1>1. /\ k \in Live(tbl, d) /\ c # 0 /\ HostData(c, x) /\ Did("written", {q})
      /\ tbl' = [tbl EXCEPT ![d][k].size = Len(x)] /\ UNCHANGED device
  BY DEF HostEdit, HostTables
<1>2. tbl' = [tbl EXCEPT ![d][k] = s]
  <2>1. tbl' = [tbl EXCEPT ![d][k] = [tbl[d][k] EXCEPT !.size = Len(x)]]
    BY <1>1
  <2>2. tbl[d][k] \in Slot
    BY <1>1, LiveSlotFacts
  <2>3. s = [tbl[d][k] EXCEPT !.size = Len(x)]
    <3> DEFINE y == tbl[d][k]
    <3>1. DOMAIN y = {"mark", "name", "cluster", "size"} /\ y = [f \in DOMAIN y |-> y[f]]
      BY <2>2 DEF Slot
    <3>2. s = [y EXCEPT !.size = Len(x), !.cluster = y.cluster]
      BY DEF Sized
    <3> HIDE DEF y, s
    <3>3. s = [y EXCEPT !.size = Len(x)]
      BY <3>1, <3>2
    <3> QED
      BY <3>3 DEF y
  <2> QED
    BY <2>1, <2>3
<1>3. NamedSlot(tbl[d][k]) /\ c \in Clusters /\ Elsewhere(c, {<<d, k>>})
  BY <1>1, LiveSlotFacts
<1>4. /\ data' \in [Clusters -> File] /\ unsent' \subseteq Clusters
      /\ \A b \in Clusters : b # c => data'[b] = data[b] /\ (b \in unsent' => b \in unsent)
      /\ Len(x) \in Nat
  BY <1>1, <1>3, DataWritten DEF IInv
<1>5. NamedSlot(s) /\ <<d, s.name>> = q /\ s.cluster = c
  <2> DEFINE n == Len(x)
             y == tbl[d][k]
  <2>1. n \in Nat /\ c \in {0} \cup Clusters /\ NamedSlot(y)
    BY <1>3, <1>4
  <2>2. s = Sized(y, n, c) /\ q = <<d, y.name>>
    OBVIOUS
  <2> HIDE DEF n, y, s, q
  <2> QED
    BY <2>1, <2>2, SizedTyped
<1>7. tbl[d][k].mark = "live" => <<d, tbl[d][k].name>> = q
  OBVIOUS
<1> HIDE DEF s, q, c
<1>6. \A b \in Clusters :
        Elsewhere(b, {<<d, k>>}) \/ (data'[b] = data[b] /\ (b \in unsent' => b \in unsent))
  BY <1>3, <1>4
<1>8. UNCHANGED device /\ Did("written", {q})
  BY <1>1
<1>9. Elsewhere(s.cluster, {<<d, k>>})
  BY <1>3, <1>5
<1> QED
  BY <1>2, <1>4, <1>5, <1>6, <1>7, <1>8, <1>9, OneSlotSafe

LEMMA OverwriteSafe ==
  ASSUME IInv, NEW d \in Dirs, NEW k \in TableIndex, NEW c \in Clusters, NEW x \in Contents,
         HostOverwrite(d, k, c, x)
  PROVE  IInv'
<1> DEFINE s == Sized(tbl[d][k], Len(x), c)
           q == <<d, tbl[d][k].name>>
<1>1. /\ k \in Live(tbl, d) /\ ~Allocated(c) /\ HostData(c, x) /\ Did("written", {q})
      /\ tbl' = [tbl EXCEPT ![d][k].size = Len(x), ![d][k].cluster = c] /\ UNCHANGED device
  BY DEF HostOverwrite, HostTables, Allocatable
<1>2. tbl' = [tbl EXCEPT ![d][k] = s]
  BY <1>1 DEF Sized
<1>3. NamedSlot(tbl[d][k]) /\ Elsewhere(c, {<<d, k>>})
  BY <1>1, LiveSlotFacts DEF Elsewhere
<1>4. /\ data' \in [Clusters -> File] /\ unsent' \subseteq Clusters
      /\ \A b \in Clusters : b # c => data'[b] = data[b] /\ (b \in unsent' => b \in unsent)
      /\ Len(x) \in Nat
  BY <1>1, DataWritten DEF IInv
<1>5. NamedSlot(s) /\ <<d, s.name>> = q /\ s.cluster = c
  <2> DEFINE n == Len(x)
             y == tbl[d][k]
  <2>1. n \in Nat /\ c \in {0} \cup Clusters /\ NamedSlot(y)
    BY <1>3, <1>4
  <2>2. s = Sized(y, n, c) /\ q = <<d, y.name>>
    OBVIOUS
  <2> HIDE DEF n, y, s, q
  <2> QED
    BY <2>1, <2>2, SizedTyped
<1>7. tbl[d][k].mark = "live" => <<d, tbl[d][k].name>> = q
  OBVIOUS
<1> HIDE DEF s, q
<1>6. \A b \in Clusters :
        Elsewhere(b, {<<d, k>>}) \/ (data'[b] = data[b] /\ (b \in unsent' => b \in unsent))
  BY <1>3, <1>4
<1>8. UNCHANGED device /\ Did("written", {q})
  BY <1>1
<1>9. Elsewhere(s.cluster, {<<d, k>>})
  BY <1>3, <1>5
<1> QED
  BY <1>2, <1>4, <1>5, <1>6, <1>7, <1>8, <1>9, OneSlotSafe

LEMMA EmptySafe ==
  ASSUME IInv, NEW d \in Dirs, NEW k \in TableIndex, HostEmpty(d, k)
  PROVE  IInv'
<1> DEFINE s == Sized(tbl[d][k], 0, 0)
           q == <<d, tbl[d][k].name>>
<1>1. /\ k \in Live(tbl, d) /\ NoData /\ Did("written", {q})
      /\ tbl' = [tbl EXCEPT ![d][k].size = 0, ![d][k].cluster = 0] /\ UNCHANGED device
  BY DEF HostEmpty, HostTables
<1>2. tbl' = [tbl EXCEPT ![d][k] = s]
  BY <1>1 DEF Sized
<1>3. NamedSlot(tbl[d][k])
  BY <1>1, LiveSlotFacts
<1>4. /\ data' \in [Clusters -> File] /\ unsent' \subseteq Clusters
      /\ \A b \in Clusters : data'[b] = data[b] /\ (b \in unsent' => b \in unsent)
  BY <1>1, DataKept DEF IInv
<1>5. NamedSlot(s) /\ <<d, s.name>> = q /\ s.cluster = 0
  BY <1>3, SizedTyped
<1>7. tbl[d][k].mark = "live" => <<d, tbl[d][k].name>> = q
  OBVIOUS
<1> HIDE DEF s, q
<1>8. UNCHANGED device /\ Did("written", {q})
  BY <1>1
<1>9. Elsewhere(s.cluster, {<<d, k>>})
  BY <1>5 DEF Elsewhere
<1> QED
  BY <1>2, <1>4, <1>5, <1>7, <1>8, <1>9, OneSlotSafe

LEMMA DeleteSafe ==
  ASSUME IInv, NEW d \in Dirs, NEW k \in TableIndex, HostDelete(d, k)
  PROVE  IInv'
<1> DEFINE s == ErasedSlot(tbl[d][k])
           q == <<d, tbl[d][k].name>>
<1>1. /\ k \in Live(tbl, d) /\ Did("deleted", {q}) /\ data' = data /\ unsent' \subseteq unsent
      /\ tbl' = [tbl EXCEPT ![d][k] = s] /\ UNCHANGED device
  BY DEF HostDelete, HostTables
<1>3. NamedSlot(tbl[d][k]) /\ Elsewhere(tbl[d][k].cluster, {<<d, k>>})
  BY <1>1, LiveSlotFacts
<1>4. /\ data' \in [Clusters -> File] /\ unsent' \subseteq Clusters
      /\ \A b \in Clusters : data'[b] = data[b] /\ (b \in unsent' => b \in unsent)
  BY <1>1 DEF IInv, Typed
<1>5. NamedSlot(s) /\ s.mark = "erased" /\ s.cluster = tbl[d][k].cluster
  BY <1>3, ErasedTyped
<1>7. tbl[d][k].mark = "live" => <<d, tbl[d][k].name>> = q
  OBVIOUS
<1> HIDE DEF s, q
<1>8. UNCHANGED device /\ Did("deleted", {q}) /\ tbl' = [tbl EXCEPT ![d][k] = s]
  BY <1>1
<1>9. Elsewhere(s.cluster, {<<d, k>>})
  BY <1>3, <1>5
<1> QED
  BY <1>4, <1>5, <1>7, <1>8, <1>9, OneSlotSafe

\* The file of slot k moves, under name nm, to slot j: one that is free, or the
\* slot of a file of that name.
LEMMA MovedSafe ==
  ASSUME IInv, UNCHANGED device, NoData, NEW d \in Dirs, NEW k \in Live(tbl, d), NEW e \in Dirs,
         NEW j \in TableIndex, NEW nm \in Names,
         tbl' = [[tbl EXCEPT ![d][k] = ErasedSlot(@)] EXCEPT ![e][j] = [tbl[d][k] EXCEPT !.name = nm]],
         past' = past \cup {<<<<d, tbl[d][k].name>>, "moved">>, <<<<e, nm>>, "written">>},
         <<e, j>> = <<d, k>> \/ Vacant(e, j) \/ tbl[e][j].name = nm
  PROVE  IInv'
<1> DEFINE X == {<<d, k>>, <<e, j>>}
           gone == ErasedSlot(tbl[d][k])
           here == [tbl[d][k] EXCEPT !.name = nm]
           t == WithSlot(tbl, d, k, gone)
           u == WithSlot(t, e, j, here)
<1>0. tbl \in [Dirs -> Table] /\ k \in TableIndex
  BY LiveSlotFacts DEF IInv, Typed
<1>1. tbl[d][k].mark = "live" /\ NamedSlot(tbl[d][k])
  BY LiveSlotFacts
<1>2. NamedSlot(gone) /\ gone.mark = "erased" /\ gone.cluster = tbl[d][k].cluster
  BY <1>1, ErasedTyped
<1>3. NamedSlot(here) /\ here.name = nm /\ here.cluster = tbl[d][k].cluster
  BY <1>1, RenamedTyped
<1>4. tbl' = u
  BY DEF WithSlot
<1> HIDE DEF gone, here
<1>5. /\ t \in [Dirs -> Table] /\ t[d][k] = gone
      /\ \A f \in Dirs, l \in TableIndex : <<f, l>> # <<d, k>> => t[f][l] = tbl[f][l]
  BY <1>0, <1>2, SlotWritten
<1> HIDE DEF t
<1>6. /\ u \in [Dirs -> Table] /\ u[e][j] = here
      /\ \A f \in Dirs, l \in TableIndex : <<f, l>> # <<e, j>> => u[f][l] = t[f][l]
  BY <1>3, <1>5, SlotWritten
<1> HIDE DEF u, X
<1>7. Elsewhere(tbl[d][k].cluster, X)
  BY <1>0 DEF Elsewhere, X
<1>8. ASSUME NEW p \in Paths, Untouched(p)' PROVE Bypasses(X, p)
  <2>1. p # <<d, tbl[d][k].name>> /\ p # <<e, nm>>
    <3>1. <<<<d, tbl[d][k].name>>, "moved">> \in past' /\ <<<<e, nm>>, "written">> \in past'
      OBVIOUS
    <3> QED
      BY <1>8, <3>1 DEF Untouched
  <2>2. ASSUME NEW f \in Dirs, NEW l \in TableIndex, <<f, l>> = <<e, j>>
        PROVE  /\ tbl[f][l].mark = "live" => <<f, tbl[f][l].name>> # p
               /\ tbl'[f][l].mark = "live" => <<f, tbl'[f][l].name>> # p
               /\ Elsewhere(tbl'[f][l].cluster, X)
    <3>1. f = e /\ l = j /\ tbl'[f][l] = here
      BY <1>4, <1>6, <2>2
    <3>2. tbl[e][j].mark = "live" => <<e, tbl[e][j].name>> # p
      <4>1. CASE <<e, j>> = <<d, k>>
        BY <2>1, <4>1
      <4>2. CASE Vacant(e, j)
        BY <4>2 DEF Vacant
      <4>3. CASE tbl[e][j].name = nm
        BY <2>1, <4>3
      <4> QED
        BY <4>1, <4>2, <4>3
    <3> QED
      BY <1>3, <1>7, <2>1, <3>1, <3>2
  <2>3. ASSUME NEW f \in Dirs, NEW l \in TableIndex, <<f, l>> = <<d, k>>, <<f, l>> # <<e, j>>
        PROVE  /\ tbl[f][l].mark = "live" => <<f, tbl[f][l].name>> # p
               /\ tbl'[f][l].mark = "live" => <<f, tbl'[f][l].name>> # p
               /\ Elsewhere(tbl'[f][l].cluster, X)
    <3>1. f = d /\ l = k
      BY <2>3
    <3>2. tbl'[f][l] = t[f][l]
      <4>1. u[f][l] = t[f][l]
        BY <1>6, <2>3
      <4> QED
        BY <1>4, <4>1
    <3>3. t[f][l] = gone
      BY <1>5, <3>1
    <3> QED
      BY <1>2, <1>7, <2>1, <3>1, <3>2, <3>3
  <2>4. ASSUME NEW f \in Dirs, NEW l \in TableIndex, <<f, l>> \notin X
        PROVE  tbl'[f][l] = tbl[f][l]
    <3>1. <<f, l>> # <<d, k>>
      BY <2>4 DEF X
    <3>2. <<f, l>> # <<e, j>>
      BY <2>4 DEF X
    <3>3. u[f][l] = t[f][l]
      BY <1>6, <3>2
    <3>4. t[f][l] = tbl[f][l]
      BY <1>5, <3>1
    <3> QED
      BY <1>4, <3>3, <3>4
  <2>5. \A f, l : <<f, l>> \in X => <<f, l>> = <<d, k>> \/ <<f, l>> = <<e, j>>
    BY DEF X
  <2> QED
    BY <2>2, <2>3, <2>4, <2>5 DEF Bypasses
<1>9. /\ data' \in [Clusters -> File] /\ unsent' \subseteq Clusters
      /\ \A b \in Clusters : data'[b] = data[b] /\ (b \in unsent' => b \in unsent)
  BY DataKept DEF IInv
<1>10. past \subseteq past'
  OBVIOUS
<1> QED
  BY <1>4, <1>6, <1>8, <1>9, <1>10, OperationSafe

LEMMA RenameSafe ==
  ASSUME IInv, NEW d \in Dirs, NEW k \in TableIndex, NEW e \in Dirs, NEW j \in TableIndex, NEW nm \in Kept,
         HostRename(d, k, e, j, nm)
  PROVE  IInv'
<1>1. nm \in Names /\ k \in Live(tbl, d) /\ NoData /\ UNCHANGED device
  BY DEF HostRename, HostTables, Kept
<1>2. tbl' = [[tbl EXCEPT ![d][k] = ErasedSlot(@)] EXCEPT ![e][j] = [tbl[d][k] EXCEPT !.name = nm]]
  BY DEF HostRename, HostTables
<1>3. /\ past' = past \cup {<<<<d, tbl[d][k].name>>, "moved">>, <<<<e, nm>>, "written">>}
      /\ <<e, j>> = <<d, k>> \/ Vacant(e, j)
  BY DEF HostRename
<1> QED
  BY <1>1, <1>2, <1>3, MovedSafe

LEMMA ExchangeSafe ==
  ASSUME IInv, NEW d \in Dirs, NEW k \in TableIndex, NEW e \in Dirs, NEW j \in TableIndex,
         HostExchange(d, k, e, j)
  PROVE  IInv'
<1> DEFINE nm == tbl[e][j].name
<1>1. k \in Live(tbl, d) /\ j \in Live(tbl, e) /\ NoData /\ UNCHANGED device
  BY DEF HostExchange, HostTables
<1>2. tbl' = [[tbl EXCEPT ![d][k] = ErasedSlot(@)] EXCEPT ![e][j] = [tbl[d][k] EXCEPT !.name = nm]]
  BY DEF HostExchange, HostTables
<1>3. past' = past \cup {<<<<d, tbl[d][k].name>>, "moved">>, <<<<e, nm>>, "written">>}
  BY DEF HostExchange
<1>4. nm \in Names
  BY <1>1, LiveSlotFacts
<1>5. tbl[e][j].name = nm
  OBVIOUS
<1> HIDE DEF nm
<1> QED
  BY <1>1, <1>2, <1>3, <1>4, <1>5, MovedSafe

-----------------------------------------------------------------------------
(* The theorem.                                                             *)

LEMMA NextSafe ==
  ASSUME RoomInTables, IInv, [Next]_vars
  PROVE  IInv'
<1>1. CASE HostStep
  <2>1. PICK d \in Dirs, k \in TableIndex :
          \/ \E nm \in Names, c \in Clusters, x \in Contents : HostCreate(d, k, nm, c, x)
          \/ \E nm \in Kept : HostTouch(d, k, nm)
          \/ \E x \in Contents : HostEdit(d, k, x)
          \/ \E c \in Clusters, x \in Contents : HostOverwrite(d, k, c, x)
          \/ HostEmpty(d, k)
          \/ HostDelete(d, k)
          \/ \E e \in Dirs, j \in TableIndex, nm \in Kept : HostRename(d, k, e, j, nm)
          \/ \E e \in Dirs, j \in TableIndex : HostExchange(d, k, e, j)
    BY <1>1 DEF HostStep
  <2> QED
    BY <2>1, CreateSafe, TouchSafe, EditSafe, OverwriteSafe, EmptySafe, DeleteSafe, RenameSafe, ExchangeSafe
<1>2. CASE \E d \in Dirs : WriteTable(d)
  BY <1>2, WriteTableSafe
<1>3. CASE \E c \in Clusters : WriteData(c)
  BY <1>3, WriteDataSafe
<1>4. CASE Eject
  BY <1>4, EjectSafe
<1>5. CASE Kill
  BY <1>5, KillSafe
<1>6. CASE Mount
  BY <1>6, MountSafe
<1>7. CASE UNCHANGED vars
  <2>1. /\ Before' = Before /\ tbl' = tbl /\ data' = data /\ unsent' = unsent /\ past' = past
    BY <1>7 DEF vars, device, Before
  <2> QED
    BY <2>1 DEF IInv, Typed, Untouched
<1> QED
  BY <1>1, <1>2, <1>3, <1>4, <1>5, <1>6, <1>7 DEF Next

\* An untouched file is, for the host, what is on the disk.
LEMMA SafeSeen ==
  ASSUME IInv
  PROVE  BystandersUntouched
<1> SUFFICES ASSUME NEW p \in Dirs \X Kept, \A h \in past : h[1] # p PROVE disk[p] = HostFile(p)
  BY DEF BystandersUntouched
<1> DEFINE slots == {k \in Live(tbl, p[1]) : tbl[p[1]][k].name = p[2]}
<1>1. p \in Paths /\ p[1] \in Dirs
  BY DEF Paths, Kept
<1>2. Safe(Before, tbl, data, unsent, p)
  BY <1>1 DEF IInv, Untouched
<1>3. CASE Lacks(Before, tbl, p)
  <2>1. slots = {}
    BY <1>3 DEF Lacks, Unnamed, Live
  <2> QED
    BY <1>3, <2>1 DEF Lacks, Before, HostFile
<1>4. CASE ~Lacks(Before, tbl, p)
  <2>1. PICK k, i \in Nat, c \in Clusters, n \in Nat : Holds(Before, tbl, data, unsent, p, k, i, c, n)
    BY <1>2, <1>4 DEF Safe
  <2>2. slots = {k}
    <3>1. k \in slots
      BY <2>1 DEF Holds, Alone, Live
    <3>2. ASSUME NEW j \in slots PROVE j = k
      <4>1. j \in TableIndex /\ tbl[p[1]][j].mark = "live" /\ <<p[1], tbl[p[1]][j].name>> = p
        BY <1>1 DEF Live, Paths
      <4> QED
        BY <1>1, <2>1, <4>1 DEF Holds, Alone
    <3> QED
      BY <3>1, <3>2
  <2>3. tbl[p[1]][k].cluster = c /\ c # 0 /\ disk[p] = data[c]
    BY <2>1 DEF Holds, Alone, Tracks, Before, Clusters
  <2>4. (CHOOSE j \in slots : TRUE) = k
    BY <2>2
  <2>5. HostFile(p) = data[c]
    BY <2>2, <2>3, <2>4 DEF HostFile
  <2> QED
    BY <2>3, <2>5
<1> QED
  BY <1>3, <1>4

\* Whatever the host does to other files, in whatever order its writes reach
\* the calculator, and however the session ends, a file it has not operated on
\* since the mount is on the disk as the host has it (usb_fatfs.h, the whole of
\* fatfs_handle_short_entry_write), if the tables have a slot for each name.
THEOREM BystandersAlwaysUntouched ==
  ASSUME RoomInTables
  PROVE  Spec => []BystandersUntouched
<1>1. Init => IInv
  BY InitSafe
<1>2. IInv /\ [Next]_vars => IInv'
  BY NextSafe
<1>3. IInv => BystandersUntouched
  BY SafeSeen
<1> QED
  BY <1>1, <1>2, <1>3, PTL DEF Spec

-----------------------------------------------------------------------------
(* A session with a careful host: what its tables, its data and the device  *)
(* have to do with each other.  v is the device; t, dr, x, u, us and pa are *)
(* the host's tbl, dirty, data, unsent, used and past.                      *)

LiveAt(t, d, k) == t[d][k].mark = "live"
PathAt(t, d, k) == <<d, t[d][k].name>>
\* No live file has cluster c; no entry starts at c; no entry has path p.
Unheld(t, c) == \A d \in Dirs, k \in TableIndex : LiveAt(t, d, k) => t[d][k].cluster # c
NoStart(v, c) == \A i \in DOMAIN v.entries : v.entries[i].start # c
NoPath(v, p) == \A i \in DOMAIN v.entries : PathOf(v.entries[i]) # p
Bytes == Seq(Values)

\* The host's tables: one path and one cluster to a file, and its true size.
HostApart(t) ==
  \A d, e \in Dirs, k, j \in TableIndex :
    LiveAt(t, d, k) /\ LiveAt(t, e, j) /\ <<d, k>> # <<e, j>> =>
      t[d][k].cluster # t[e][j].cluster /\ PathAt(t, d, k) # PathAt(t, e, j)
HostUsed(t, us) == \A d \in Dirs, k \in TableIndex : t[d][k].mark # "free" => t[d][k].cluster \in us
HostSized(t, x) == \A d \in Dirs, k \in TableIndex : LiveAt(t, d, k) => t[d][k].size = Len(x[t[d][k].cluster])
Host(t, x, us) ==
  /\ t \in [Dirs -> Table] /\ x \in [Clusters -> Bytes] /\ us \subseteq Clusters
  /\ HostApart(t) /\ HostUsed(t, us) /\ HostSized(t, x) /\ ~Ambiguous(t)

\* The entries, deleted ones included, have paths and clusters of their own.
EntriesApart(v) ==
  \A i, j \in DOMAIN v.entries :
    i # j => PathOf(v.entries[i]) # PathOf(v.entries[j]) /\ v.entries[i].start # v.entries[j].start
\* Their files are on the disk, and no others.
Stored(v, us) ==
  \A i \in DOMAIN v.entries :
    v.entries[i].start \in us /\ v.entries[i].name \in Kept /\ v.disk[PathOf(v.entries[i])] \in Bytes
Listed(v) == \A p \in Paths : v.disk[p] # Absent => ~NoPath(v, p)
\* The entry of a live file's cluster has the file's path, or will: the file
\* was renamed, in a slot to be written, to a path no entry has.
Follows(v, t, dr, pa) ==
  \A i \in DOMAIN v.entries, d \in Dirs, k \in TableIndex :
    LiveAt(t, d, k) /\ t[d][k].cluster = v.entries[i].start =>
      IF PathAt(t, d, k) = PathOf(v.entries[i]) THEN ~v.entries[i].deleted
      ELSE /\ <<d, k>> \in dr /\ t[d][k].name \in Kept /\ NoPath(v, PathAt(t, d, k))
           /\ <<PathOf(v.entries[i]), "moved">> \in pa
\* Slot s of directory d is the erased one of entry e's file.
Erases(d, s, e) ==
  d = e.dir /\ s.mark = "erased" /\ s.cluster = e.start /\ s.name[2] = e.name[2]
\* An entry whose cluster no live file has was deleted by the host: it is
\* marked so, or will be.
Gone(v, t, dr, pa) ==
  \A i \in DOMAIN v.entries :
    Unheld(t, v.entries[i].start) =>
      /\ <<PathOf(v.entries[i]), "deleted">> \in pa
      /\ v.entries[i].deleted \/ \E d \in Dirs, k \in TableIndex : <<d, k>> \in dr /\ Erases(d, t[d][k], v.entries[i])
\* What a written slot erases is deleted.
ErasesDone(v, t, dr) ==
  \A i \in DOMAIN v.entries, d \in Dirs, k \in TableIndex :
    Erases(d, t[d][k], v.entries[i]) => v.entries[i].deleted \/ <<d, k>> \in dr
\* An entry at the path of a live file with another cluster is deleted, for
\* good, and the live file is not tracked yet.
Replaced(v, t) ==
  \A i \in DOMAIN v.entries, d \in Dirs, k \in TableIndex :
    LiveAt(t, d, k) /\ PathAt(t, d, k) = PathOf(v.entries[i]) /\ t[d][k].cluster # v.entries[i].start =>
      v.entries[i].deleted /\ Unheld(t, v.entries[i].start) /\ NoStart(v, t[d][k].cluster)
\* A live file without an entry is one the device has still to hear of.
Untracked(v, t, dr) ==
  \A d \in Dirs, k \in TableIndex :
    LiveAt(t, d, k) /\ t[d][k].name \in Kept /\ NoStart(v, t[d][k].cluster) => <<d, k>> \in dr

\* What a cluster will hold once the host's data has come.
Due(c, x, u, held) == IF c \in u THEN Over(x[c], held) ELSE held
DueStaged(c, x, u, held) == IF c \in u THEN IF held = Absent THEN x[c] ELSE Over(x[c], held) ELSE held
Cut(held, n, w) == n # 0 /\ UpTo(held, n) = w
\* A file of recorded size m, to hold w of n sectors, will hold z: all of w, or
\* w with a tail that the new size will cut.
InPlace(m, n, unwritten, z, w) ==
  IF unwritten THEN z = w \/ (m # n /\ Cut(z, n, w)) ELSE z = w /\ m \in {0, n}
InSync(v, t, dr, x, u) ==
  \A i \in DOMAIN v.entries, d \in Dirs, k \in TableIndex :
    LiveAt(t, d, k) /\ t[d][k].cluster = v.entries[i].start =>
      IF PathAt(t, d, k) = PathOf(v.entries[i])
      THEN InPlace(v.entries[i].size, t[d][k].size, <<d, k>> \in dr,
                   Due(t[d][k].cluster, x, u, v.disk[PathOf(v.entries[i])]), x[t[d][k].cluster])
      ELSE /\ t[d][k].cluster \notin u /\ v.disk[PathOf(v.entries[i])] = x[t[d][k].cluster]
           /\ v.entries[i].size \in {0, t[d][k].size}
\* What is staged for a live file without an entry becomes its content.
Claimable(v, t, x, u) ==
  \A d \in Dirs, k \in TableIndex :
    LiveAt(t, d, k) /\ t[d][k].name \notin DotNames /\ NoStart(v, t[d][k].cluster) =>
      /\ Cut(DueStaged(t[d][k].cluster, x, u, v.staged[t[d][k].cluster]), t[d][k].size, x[t[d][k].cluster])
      /\ t[d][k].cluster \notin u => v.staged[t[d][k].cluster] # Absent
      /\ t[d][k].cluster \in u /\ t[d][k].name \in Kept => v.staged[t[d][k].cluster] = Absent
Fresh(v, us) == \A c \in Clusters : v.staged[c] \in Bytes \cup {Absent} /\ (c \notin us => v.staged[c] = Absent)

Session(v, t, dr, x, u, us, pa) ==
  /\ v \in Device
  /\ EntriesApart(v) /\ Stored(v, us) /\ Listed(v)
  /\ Follows(v, t, dr, pa) /\ Gone(v, t, dr, pa) /\ ErasesDone(v, t, dr)
  /\ Replaced(v, t) /\ Untracked(v, t, dr)
  /\ InSync(v, t, dr, x, u) /\ Claimable(v, t, x, u) /\ Fresh(v, us)

\* Contents.
LEMMA BytesTyped == Bytes \subseteq File /\ <<>> \in Bytes /\ Absent \notin Bytes
<1>1. Bytes \subseteq File
  <2> SUFFICES ASSUME NEW s \in Seq(Values) PROVE s \in Seq(Values \cup {Hole})
    BY DEF Bytes, File
  <2>1. Len(s) \in Nat /\ s \in [1..Len(s) -> Values]
    OBVIOUS
  <2>2. s \in [1..Len(s) -> Values \cup {Hole}]
    BY <2>1
  <2> QED
    BY <2>1, <2>2
<1>2. Absent \notin Bytes
  <2>1. Absent = <<Hole>> /\ Hole \notin Values
    BY ContentsAssumption DEF Absent
  <2> QED
    BY <2>1 DEF Bytes
<1> QED
  BY <1>1, <1>2 DEF Bytes

LEMMA UpToBytes ==
  ASSUME NEW y \in Bytes, NEW n \in Nat
  PROVE  /\ UpTo(y, n) \in Bytes /\ Len(UpTo(y, n)) = (IF n < Len(y) THEN n ELSE Len(y))
         /\ Len(y) <= n => UpTo(y, n) = y
<1>0. Len(y) \in Nat
  BY DEF Bytes
<1>1. PICK m \in 0..Len(y) : m = IF n < Len(y) THEN n ELSE Len(y)
  BY <1>0
<1>2. UpTo(y, n) = SubSeq(y, 1, m)
  BY <1>1 DEF UpTo
<1>3. SubSeq(y, 1, m) \in Seq(Values) /\ Len(SubSeq(y, 1, m)) = m
  BY <1>0, SubSeqProperties DEF Bytes
<1>4. Len(y) <= n => m = Len(y)
  BY <1>0, <1>1
<1>5. SubSeq(y, 1, Len(y)) = y
  BY DEF Bytes
<1> QED
  BY <1>1, <1>2, <1>3, <1>4, <1>5 DEF Bytes

LEMMA OverBytes ==
  ASSUME NEW w \in Bytes, NEW y \in Bytes
  PROVE  /\ Over(w, y) \in Bytes /\ Len(Over(w, y)) = (IF Len(y) < Len(w) THEN Len(w) ELSE Len(y))
         /\ Len(y) <= Len(w) => Over(w, y) = w
         /\ UpTo(Over(w, y), Len(w)) = w
<1> DEFINE rest == SubSeq(y, Len(w) + 1, Len(y))
<1>0. Len(w) \in Nat /\ Len(y) \in Nat /\ w \in Seq(Values) /\ y \in Seq(Values)
  BY DEF Bytes
<1>1. rest \in Seq(Values) /\ Len(rest) = (IF Len(y) < Len(w) THEN 0 ELSE Len(y) - Len(w))
      /\ (Len(y) <= Len(w) => rest = <<>>)
  <2>1. CASE Len(y) <= Len(w)
    <3>1. rest = <<>>
      BY <1>0, <2>1
    <3> QED
      BY <1>0, <2>1, <3>1
  <2>2. CASE ~(Len(y) <= Len(w))
    <3>1. Len(w) + 1 \in 1..Len(y) + 1
      BY <1>0, <2>2
    <3>2. rest \in Seq(Values) /\ Len(rest) = Len(y) - (Len(w) + 1) + 1
      BY <1>0, <2>2, <3>1, SubSeqProperties
    <3> QED
      BY <1>0, <2>2, <3>2
  <2> QED
    BY <2>1, <2>2
<1>2. Over(w, y) = w \o rest
  BY DEF Over
<1> HIDE DEF rest
<1>3. w \o rest \in Seq(Values) /\ Len(w \o rest) = Len(w) + Len(rest)
  BY <1>0, <1>1
<1>4. Len(y) <= Len(w) => Over(w, y) = w
  BY <1>0, <1>1, <1>2
<1>5. UpTo(Over(w, y), Len(w)) = w
  <2>1. Len(Over(w, y)) >= Len(w) /\ Len(rest) \in Nat
    BY <1>0, <1>1, <1>2, <1>3
  <2>2. UpTo(Over(w, y), Len(w)) = SubSeq(w \o rest, 1, Len(w))
    BY <1>0, <1>2, <1>3, <2>1 DEF UpTo
  <2>3. SubSeq(w \o rest, 1, Len(w)) = w
    BY <1>0, <1>1, <1>3
  <2> QED
    BY <2>2, <2>3
<1> QED
  BY <1>0, <1>1, <1>2, <1>3, <1>4, <1>5 DEF Bytes

\* From v to w, entry m comes to stand for the live file of path p and cluster
\* c, from being its entry before, or that of a file deleted for good, or none.
Settles(v, w, t, m, p, c) ==
  /\ w \in Device
  /\ DOMAIN w.entries = DOMAIN v.entries \cup {m}
  /\ \A j \in DOMAIN v.entries \ {m} :
       /\ w.entries[j] = v.entries[j]
       /\ PathOf(v.entries[j]) # p /\ v.entries[j].start # c
  /\ PathOf(w.entries[m]) = p /\ w.entries[m].start = c /\ ~w.entries[m].deleted
  /\ m \in DOMAIN v.entries =>
       v.entries[m].start = c \/ (PathOf(v.entries[m]) = p /\ Unheld(t, v.entries[m].start))
  /\ w.disk[p] \in Bytes
  /\ \A q \in Paths \ {p} :
       w.disk[q] = v.disk[q] \/ (w.disk[q] = Absent /\ m \in DOMAIN v.entries /\ q = PathOf(v.entries[m]))
  /\ m \in DOMAIN v.entries /\ PathOf(v.entries[m]) # p => w.disk[PathOf(v.entries[m])] = Absent
  /\ \A b \in Clusters \ {c} : w.staged[b] = v.staged[b]
  /\ w.staged[c] \in Bytes \cup {Absent}

\* Of the other entries nothing changes, nor of their files.
LEMMA SettleSpares ==
  ASSUME NEW v \in Device, NEW w, NEW t, NEW m, NEW p \in Paths, NEW c, EntriesApart(v), Settles(v, w, t, m, p, c)
  PROVE  /\ m \in DOMAIN w.entries /\ PathOf(w.entries[m]) = p /\ w.entries[m].start = c
         /\ \A j \in DOMAIN w.entries : j # m =>
              /\ j \in DOMAIN v.entries /\ w.entries[j] = v.entries[j]
              /\ PathOf(v.entries[j]) \in Paths /\ PathOf(v.entries[j]) # p /\ v.entries[j].start # c
              /\ w.disk[PathOf(v.entries[j])] = v.disk[PathOf(v.entries[j])]
<1>1. ASSUME NEW j \in DOMAIN w.entries, j # m
      PROVE  /\ j \in DOMAIN v.entries /\ w.entries[j] = v.entries[j]
             /\ PathOf(v.entries[j]) \in Paths /\ PathOf(v.entries[j]) # p /\ v.entries[j].start # c
             /\ w.disk[PathOf(v.entries[j])] = v.disk[PathOf(v.entries[j])]
  <2>1. /\ j \in DOMAIN v.entries /\ w.entries[j] = v.entries[j]
        /\ PathOf(v.entries[j]) # p /\ v.entries[j].start # c
    BY <1>1 DEF Settles
  <2>2. PathOf(v.entries[j]) \in Paths
    BY <2>1, DeviceTyped
  <2>3. m \in DOMAIN v.entries => PathOf(v.entries[m]) # PathOf(v.entries[j])
    BY <1>1, <2>1 DEF EntriesApart
  <2>4. w.disk[PathOf(v.entries[j])] = v.disk[PathOf(v.entries[j])]
    BY <2>1, <2>2, <2>3 DEF Settles
  <2> QED
    BY <2>1, <2>2, <2>4
<1>2. m \in DOMAIN w.entries /\ PathOf(w.entries[m]) = p /\ w.entries[m].start = c
  BY DEF Settles
<1> QED
  BY <1>1, <1>2

LEMMA SettleKeepsFiles ==
  ASSUME NEW v \in Device, NEW w, NEW t, NEW m, NEW p \in Paths, NEW c, NEW us,
         EntriesApart(v), Stored(v, us), Listed(v), Fresh(v, us), Settles(v, w, t, m, p, c), p[2] \in Kept, c \in us
  PROVE  EntriesApart(w) /\ Stored(w, us) /\ Listed(w) /\ Fresh(w, us)
<1>1. /\ m \in DOMAIN w.entries /\ PathOf(w.entries[m]) = p /\ w.entries[m].start = c
      /\ \A j \in DOMAIN w.entries : j # m =>
           /\ j \in DOMAIN v.entries /\ w.entries[j] = v.entries[j]
           /\ PathOf(v.entries[j]) \in Paths /\ PathOf(v.entries[j]) # p /\ v.entries[j].start # c
           /\ w.disk[PathOf(v.entries[j])] = v.disk[PathOf(v.entries[j])]
  BY SettleSpares
<1>2. EntriesApart(w)
  <2> SUFFICES ASSUME NEW i \in DOMAIN w.entries, NEW j \in DOMAIN w.entries, i # j
               PROVE  PathOf(w.entries[i]) # PathOf(w.entries[j]) /\ w.entries[i].start # w.entries[j].start
    BY DEF EntriesApart
  <2>1. CASE i = m
    BY <1>1, <2>1
  <2>2. CASE j = m
    BY <1>1, <2>2
  <2>3. CASE i # m /\ j # m
    BY <1>1, <2>3 DEF EntriesApart
  <2> QED
    BY <2>1, <2>2, <2>3
<1>3. Stored(w, us)
  <2> SUFFICES ASSUME NEW i \in DOMAIN w.entries
               PROVE  w.entries[i].start \in us /\ w.entries[i].name \in Kept /\ w.disk[PathOf(w.entries[i])] \in Bytes
    BY DEF Stored
  <2>1. CASE i = m
    <3>1. w.entries[m].name = p[2]
      <4>1. PathOf(w.entries[m]) = <<w.entries[m].dir, w.entries[m].name>>
        BY DEF PathOf
      <4> QED
        BY <1>1, <4>1
    <3>2. w.disk[p] \in Bytes
      BY DEF Settles
    <3> QED
      BY <1>1, <2>1, <3>1, <3>2
  <2>2. CASE i # m
    BY <1>1, <2>2 DEF Stored
  <2> QED
    BY <2>1, <2>2
<1>4. Listed(w)
  <2> SUFFICES ASSUME NEW q \in Paths, w.disk[q] # Absent PROVE \E i \in DOMAIN w.entries : PathOf(w.entries[i]) = q
    BY DEF Listed, NoPath
  <2>1. CASE q = p
    BY <1>1, <2>1
  <2>2. CASE q # p
    <3>1. w.disk[q] = v.disk[q]
      BY <2>2 DEF Settles
    <3>2. PICK i \in DOMAIN v.entries : PathOf(v.entries[i]) = q
      BY <3>1 DEF Listed, NoPath
    <3>3. i # m
      BY <2>2, <3>2 DEF Settles
    <3>4. i \in DOMAIN w.entries /\ w.entries[i] = v.entries[i]
      BY <3>3 DEF Settles
    <3> QED
      BY <3>2, <3>4
  <2> QED
    BY <2>1, <2>2
<1>5. Fresh(w, us)
  <2> SUFFICES ASSUME NEW b \in Clusters
               PROVE  w.staged[b] \in Bytes \cup {Absent} /\ (b \notin us => w.staged[b] = Absent)
    BY DEF Fresh
  <2>1. CASE b = c
    BY <2>1 DEF Settles
  <2>2. CASE b # c
    BY <2>2 DEF Settles, Fresh
  <2> QED
    BY <2>1, <2>2
<1> QED
  BY <1>2, <1>3, <1>4, <1>5

\* The slot that brought it about is settled.
LEMMA SettleKeeps ==
  ASSUME NEW v, NEW t, NEW dr, NEW x, NEW u, NEW us, NEW pa, Host(t, x, us), Session(v, t, dr, x, u, us, pa),
         NEW d \in Dirs, NEW k \in TableIndex, LiveAt(t, d, k), t[d][k].name \in Kept,
         NEW w, NEW m, Settles(v, w, t, m, PathAt(t, d, k), t[d][k].cluster),
         InPlace(w.entries[m].size, t[d][k].size, FALSE,
                 Due(t[d][k].cluster, x, u, w.disk[PathAt(t, d, k)]), x[t[d][k].cluster])
  PROVE  Session(w, t, dr \ {<<d, k>>}, x, u, us, pa)
<1> DEFINE p == PathAt(t, d, k)
           c == t[d][k].cluster
           dq == dr \ {<<d, k>>}
<1>0. /\ v \in Device /\ EntriesApart(v) /\ Stored(v, us) /\ Listed(v)
      /\ Follows(v, t, dr, pa) /\ Gone(v, t, dr, pa) /\ ErasesDone(v, t, dr)
      /\ Replaced(v, t) /\ Untracked(v, t, dr)
      /\ InSync(v, t, dr, x, u) /\ Claimable(v, t, x, u) /\ Fresh(v, us)
      /\ w \in Device
  BY DEF Session, Settles
<1>1. p \in Paths /\ p[2] \in Kept /\ c \in us /\ p = <<d, t[d][k].name>>
  BY DEF PathAt, Paths, Kept, Host, HostUsed, LiveAt
<1>2. /\ m \in DOMAIN w.entries /\ PathOf(w.entries[m]) = p /\ w.entries[m].start = c /\ ~w.entries[m].deleted
      /\ \A j \in DOMAIN w.entries : j # m =>
           /\ j \in DOMAIN v.entries /\ w.entries[j] = v.entries[j]
           /\ PathOf(v.entries[j]) \in Paths /\ PathOf(v.entries[j]) # p /\ v.entries[j].start # c
           /\ w.disk[PathOf(v.entries[j])] = v.disk[PathOf(v.entries[j])]
  <2> HIDE DEF p, c
  <2>1. Settles(v, w, t, m, p, c)
    BY DEF p, c
  <2> QED
    <3>1. /\ m \in DOMAIN w.entries /\ PathOf(w.entries[m]) = p /\ w.entries[m].start = c
          /\ \A j \in DOMAIN w.entries : j # m =>
               /\ j \in DOMAIN v.entries /\ w.entries[j] = v.entries[j]
               /\ PathOf(v.entries[j]) \in Paths /\ PathOf(v.entries[j]) # p /\ v.entries[j].start # c
               /\ w.disk[PathOf(v.entries[j])] = v.disk[PathOf(v.entries[j])]
      BY <1>0, <1>1, <2>1, SettleSpares
    <3>2. ~w.entries[m].deleted
      BY <2>1 DEF Settles
    <3> QED
      BY <3>1, <3>2
<1>3. EntriesApart(w) /\ Stored(w, us) /\ Listed(w) /\ Fresh(w, us)
  BY <1>0, <1>1, SettleKeepsFiles
<1>4. \A e \in Dirs, j \in TableIndex : LiveAt(t, e, j) /\ <<e, j>> # <<d, k>> =>
        t[e][j].cluster # c /\ PathAt(t, e, j) # p /\ (<<e, j>> \in dr <=> <<e, j>> \in dq)
  BY DEF Host, HostApart
<1>5. \A e \in Dirs, j \in TableIndex : LiveAt(t, e, j) /\ (t[e][j].cluster = c \/ PathAt(t, e, j) = p) => e = d /\ j = k
  BY <1>4
<1>6. \A e \in Dirs, j \in TableIndex : \A f : Erases(e, t[e][j], f) => (<<e, j>> \in dr <=> <<e, j>> \in dq)
  <2> SUFFICES ASSUME NEW e \in Dirs, NEW j \in TableIndex, NEW f, Erases(e, t[e][j], f) PROVE <<e, j>> # <<d, k>>
    OBVIOUS
  <2> QED
    BY DEF Erases, LiveAt
\* No other slot's cluster gains or loses an entry.
<1>7. \A b : b # c /\ ~Unheld(t, b) => (NoStart(w, b) => NoStart(v, b))
  <2> SUFFICES ASSUME NEW b, b # c, ~Unheld(t, b), NoStart(w, b), NEW j \in DOMAIN v.entries PROVE v.entries[j].start # b
    BY DEF NoStart
  <2>1. CASE j = m
    BY <2>1 DEF Settles
  <2>2. CASE j # m
    <3>1. j \in DOMAIN w.entries /\ w.entries[j] = v.entries[j]
      BY <2>2 DEF Settles
    <3> QED
      BY <3>1 DEF NoStart
  <2> QED
    BY <2>1, <2>2
<1>8. \A e \in Dirs, j \in TableIndex : LiveAt(t, e, j) => ~Unheld(t, t[e][j].cluster)
  BY DEF Unheld
<1>9. InPlace(w.entries[m].size, t[d][k].size, FALSE, Due(c, x, u, w.disk[p]), x[c])
  OBVIOUS
<1> HIDE DEF p, c, dq
<1>10. Follows(w, t, dq, pa)
  <2> SUFFICES ASSUME NEW i \in DOMAIN w.entries, NEW e \in Dirs, NEW j \in TableIndex,
                      LiveAt(t, e, j), t[e][j].cluster = w.entries[i].start
               PROVE  IF PathAt(t, e, j) = PathOf(w.entries[i]) THEN ~w.entries[i].deleted
                      ELSE /\ <<e, j>> \in dq /\ t[e][j].name \in Kept /\ NoPath(w, PathAt(t, e, j))
                           /\ <<PathOf(w.entries[i]), "moved">> \in pa
    BY DEF Follows
  <2>1. CASE i = m
    <3>1. e = d /\ j = k
      BY <1>2, <1>5, <2>1
    <3>2. PathAt(t, e, j) = p
      BY <3>1 DEF p
    <3> QED
      BY <1>2, <2>1, <3>2
  <2>2. CASE i # m
    <3>1. i \in DOMAIN v.entries /\ w.entries[i] = v.entries[i] /\ v.entries[i].start # c
      BY <1>2, <2>2
    <3>2. <<e, j>> # <<d, k>>
      BY <3>1 DEF c
    <3>3. IF PathAt(t, e, j) = PathOf(v.entries[i]) THEN ~v.entries[i].deleted
          ELSE /\ <<e, j>> \in dr /\ t[e][j].name \in Kept /\ NoPath(v, PathAt(t, e, j))
               /\ <<PathOf(v.entries[i]), "moved">> \in pa
      BY <1>0, <3>1 DEF Follows
    <3>4. PathAt(t, e, j) # p /\ (<<e, j>> \in dr <=> <<e, j>> \in dq)
      BY <1>4, <3>2
    <3>5. NoPath(v, PathAt(t, e, j)) => NoPath(w, PathAt(t, e, j))
      BY <1>2, <3>4 DEF NoPath
    <3> QED
      BY <3>1, <3>3, <3>4, <3>5
  <2> QED
    BY <2>1, <2>2
<1>11. Gone(w, t, dq, pa)
  <2> SUFFICES ASSUME NEW i \in DOMAIN w.entries, Unheld(t, w.entries[i].start)
               PROVE  /\ <<PathOf(w.entries[i]), "deleted">> \in pa
                      /\ w.entries[i].deleted \/ \E e \in Dirs, j \in TableIndex : <<e, j>> \in dq /\ Erases(e, t[e][j], w.entries[i])
    BY DEF Gone
  <2>1. i # m
    BY <1>2, <1>8 DEF c
  <2>2. i \in DOMAIN v.entries /\ w.entries[i] = v.entries[i]
    BY <1>2, <2>1
  <2>3. /\ <<PathOf(v.entries[i]), "deleted">> \in pa
        /\ v.entries[i].deleted \/ \E e \in Dirs, j \in TableIndex : <<e, j>> \in dr /\ Erases(e, t[e][j], v.entries[i])
    BY <1>0, <2>2 DEF Gone
  <2> QED
    BY <1>6, <2>2, <2>3
<1>12. ErasesDone(w, t, dq)
  <2> SUFFICES ASSUME NEW i \in DOMAIN w.entries, NEW e \in Dirs, NEW j \in TableIndex, Erases(e, t[e][j], w.entries[i])
               PROVE  w.entries[i].deleted \/ <<e, j>> \in dq
    BY DEF ErasesDone
  <2>1. CASE i = m
    <3>1. PathOf(w.entries[m]) = <<w.entries[m].dir, w.entries[m].name>>
      BY DEF PathOf
    <3>2. w.entries[m].dir = d /\ w.entries[m].name = t[d][k].name
      BY <1>1, <1>2, <3>1
    <3>3. e = d /\ t[d][j].mark = "erased" /\ t[d][j].name[2] = t[d][k].name[2] /\ t[d][j].cluster = t[d][k].cluster
      BY <1>2, <2>1, <3>2 DEF Erases, c
    <3>4. k \in Live(t, d)
      BY DEF Live, LiveAt
    <3>5. Ambiguous(t)
      BY <3>3, <3>4 DEF Ambiguous
    <3> QED
      BY <3>5 DEF Host
  <2>2. CASE i # m
    <3>1. i \in DOMAIN v.entries /\ w.entries[i] = v.entries[i]
      BY <1>2, <2>2
    <3> QED
      BY <1>0, <1>6, <3>1 DEF ErasesDone
  <2> QED
    BY <2>1, <2>2
<1>13. Replaced(w, t)
  <2> SUFFICES ASSUME NEW i \in DOMAIN w.entries, NEW e \in Dirs, NEW j \in TableIndex, LiveAt(t, e, j),
                      PathAt(t, e, j) = PathOf(w.entries[i]), t[e][j].cluster # w.entries[i].start
               PROVE  w.entries[i].deleted /\ Unheld(t, w.entries[i].start) /\ NoStart(w, t[e][j].cluster)
    BY DEF Replaced
  <2>1. i # m
    <3>1. CASE i = m
      <4>1. e = d /\ j = k
        BY <1>2, <1>5, <3>1
      <4> QED
        BY <1>2, <3>1, <4>1 DEF c
    <3> QED
      BY <3>1
  <2>2. i \in DOMAIN v.entries /\ w.entries[i] = v.entries[i] /\ PathOf(v.entries[i]) # p
    BY <1>2, <2>1
  <2>3. v.entries[i].deleted /\ Unheld(t, v.entries[i].start) /\ NoStart(v, t[e][j].cluster)
    BY <1>0, <2>2 DEF Replaced
  <2>4. t[e][j].cluster # c
    <3>1. <<e, j>> # <<d, k>>
      BY <2>2 DEF p
    <3> QED
      BY <1>4, <3>1
  <2>5. NoStart(w, t[e][j].cluster)
    BY <1>2, <2>3, <2>4 DEF NoStart
  <2> QED
    BY <2>2, <2>3, <2>5
<1>14. ASSUME NEW e \in Dirs, NEW j \in TableIndex, LiveAt(t, e, j), NoStart(w, t[e][j].cluster)
       PROVE  t[e][j].cluster # c /\ <<e, j>> # <<d, k>> /\ NoStart(v, t[e][j].cluster)
  <2>1. t[e][j].cluster # c
    BY <1>2, <1>14 DEF NoStart
  <2>2. <<e, j>> # <<d, k>>
    BY <2>1 DEF c
  <2> QED
    BY <1>7, <1>8, <1>14, <2>1, <2>2
<1>15. Untracked(w, t, dq)
  BY <1>0, <1>4, <1>14 DEF Untracked
<1>16. InSync(w, t, dq, x, u)
  <2> SUFFICES ASSUME NEW i \in DOMAIN w.entries, NEW e \in Dirs, NEW j \in TableIndex,
                      LiveAt(t, e, j), t[e][j].cluster = w.entries[i].start
               PROVE  IF PathAt(t, e, j) = PathOf(w.entries[i])
                      THEN InPlace(w.entries[i].size, t[e][j].size, <<e, j>> \in dq,
                                   Due(t[e][j].cluster, x, u, w.disk[PathOf(w.entries[i])]), x[t[e][j].cluster])
                      ELSE /\ t[e][j].cluster \notin u /\ w.disk[PathOf(w.entries[i])] = x[t[e][j].cluster]
                           /\ w.entries[i].size \in {0, t[e][j].size}
    BY DEF InSync
  <2>1. CASE i = m
    <3>1. e = d /\ j = k
      BY <1>2, <1>5, <2>1
    <3>2. PathAt(t, e, j) = p /\ t[e][j].cluster = c /\ t[e][j].size = t[d][k].size /\ (<<e, j>> \in dq) = FALSE
      BY <3>1 DEF p, c, dq
    <3> QED
      BY <1>2, <1>9, <2>1, <3>2
  <2>2. CASE i # m
    <3>1. /\ i \in DOMAIN v.entries /\ w.entries[i] = v.entries[i] /\ v.entries[i].start # c
          /\ w.disk[PathOf(v.entries[i])] = v.disk[PathOf(v.entries[i])]
      BY <1>2, <2>2
    <3>2. <<e, j>> # <<d, k>>
      BY <3>1 DEF c
    <3>3. (<<e, j>> \in dr) = (<<e, j>> \in dq)
      BY <1>4, <3>2
    <3>4. IF PathAt(t, e, j) = PathOf(v.entries[i])
          THEN InPlace(v.entries[i].size, t[e][j].size, <<e, j>> \in dr,
                       Due(t[e][j].cluster, x, u, v.disk[PathOf(v.entries[i])]), x[t[e][j].cluster])
          ELSE /\ t[e][j].cluster \notin u /\ v.disk[PathOf(v.entries[i])] = x[t[e][j].cluster]
               /\ v.entries[i].size \in {0, t[e][j].size}
      <4>1. InSync(v, t, dr, x, u) /\ LiveAt(t, e, j) /\ t[e][j].cluster = v.entries[i].start
        BY <1>0, <3>1
      <4> QED
        BY <3>1, <4>1 DEF InSync
    <3> QED
      BY <3>1, <3>3, <3>4
  <2> QED
    BY <2>1, <2>2
<1>17. Claimable(w, t, x, u)
  <2> SUFFICES ASSUME NEW e \in Dirs, NEW j \in TableIndex,
                      LiveAt(t, e, j), t[e][j].name \notin DotNames, NoStart(w, t[e][j].cluster)
               PROVE  /\ Cut(DueStaged(t[e][j].cluster, x, u, w.staged[t[e][j].cluster]), t[e][j].size, x[t[e][j].cluster])
                      /\ t[e][j].cluster \notin u => w.staged[t[e][j].cluster] # Absent
                      /\ t[e][j].cluster \in u /\ t[e][j].name \in Kept => w.staged[t[e][j].cluster] = Absent
    BY DEF Claimable
  <2>1. t[e][j].cluster # c /\ NoStart(v, t[e][j].cluster)
    BY <1>14
  <2>2. t[e][j].cluster \in Clusters
    BY DEF Host, HostUsed, LiveAt
  <2>3. w.staged[t[e][j].cluster] = v.staged[t[e][j].cluster]
    BY <2>1, <2>2 DEF Settles, c
  <2> QED
    BY <1>0, <2>1, <2>3 DEF Claimable
<1> QED
  BY <1>0, <1>3, <1>10, <1>11, <1>12, <1>13, <1>15, <1>16, <1>17 DEF Session, dq

\* A slot that tells the device nothing: free, or of a name that is not kept.
LEMMA PassedOverKeeps ==
  ASSUME NEW v, NEW t, NEW dr, NEW x, NEW u, NEW us, NEW pa, Host(t, x, us), Session(v, t, dr, x, u, us, pa),
         NEW d \in Dirs, NEW k \in TableIndex,
         t[d][k].mark = "free" \/ (LiveAt(t, d, k) /\ t[d][k].name \notin Kept /\ NoStart(v, t[d][k].cluster)),
         NEW w \in Device, w.entries = v.entries, w.disk = v.disk,
         \/ w.staged = v.staged
         \/ /\ LiveAt(t, d, k) /\ t[d][k].name \in DotNames
            /\ w.staged = [v.staged EXCEPT ![t[d][k].cluster] = Absent]
  PROVE  Session(w, t, dr \ {<<d, k>>}, x, u, us, pa)
<1> DEFINE dq == dr \ {<<d, k>>}
<1>0. /\ v \in Device /\ EntriesApart(v) /\ Stored(v, us) /\ Listed(v)
      /\ Follows(v, t, dr, pa) /\ Gone(v, t, dr, pa) /\ ErasesDone(v, t, dr)
      /\ Replaced(v, t) /\ Untracked(v, t, dr)
      /\ InSync(v, t, dr, x, u) /\ Claimable(v, t, x, u) /\ Fresh(v, us)
  BY DEF Session
<1>1. EntriesApart(w) /\ Stored(w, us) /\ Listed(w) /\ Replaced(w, t)
  BY <1>0 DEF EntriesApart, Stored, Listed, Replaced, NoPath, NoStart
\* The slot is of no entry.
<1>2. \A i \in DOMAIN v.entries, e \in Dirs, j \in TableIndex :
        (LiveAt(t, e, j) /\ t[e][j].cluster = v.entries[i].start) \/ Erases(e, t[e][j], v.entries[i]) =>
          (<<e, j>> \in dr) = (<<e, j>> \in dq)
  <2> SUFFICES ASSUME NEW i \in DOMAIN v.entries, NEW e \in Dirs, NEW j \in TableIndex, <<e, j>> = <<d, k>>
               PROVE  ~(LiveAt(t, e, j) /\ t[e][j].cluster = v.entries[i].start) /\ ~Erases(e, t[e][j], v.entries[i])
    OBVIOUS
  <2>1. e = d /\ j = k
    OBVIOUS
  <2> QED
    BY <2>1 DEF LiveAt, NoStart, Erases
<1> HIDE DEF dq
<1>3. Follows(w, t, dq, pa)
  BY <1>0, <1>2 DEF Follows, NoPath
<1>4. Gone(w, t, dq, pa)
  <2> SUFFICES ASSUME NEW i \in DOMAIN v.entries, Unheld(t, v.entries[i].start)
               PROVE  /\ <<PathOf(v.entries[i]), "deleted">> \in pa
                      /\ v.entries[i].deleted \/ \E e \in Dirs, j \in TableIndex : <<e, j>> \in dq /\ Erases(e, t[e][j], v.entries[i])
    BY DEF Gone
  <2> QED
    BY <1>0, <1>2 DEF Gone
<1>5. ErasesDone(w, t, dq)
  BY <1>0, <1>2 DEF ErasesDone
<1>6. Untracked(w, t, dq)
  <2> SUFFICES ASSUME NEW e \in Dirs, NEW j \in TableIndex, LiveAt(t, e, j), t[e][j].name \in Kept,
                      NoStart(v, t[e][j].cluster)
               PROVE  <<e, j>> \in dq
    BY DEF Untracked, NoStart
  <2>1. <<e, j>> # <<d, k>>
    BY DEF LiveAt
  <2> QED
    BY <1>0, <2>1 DEF Untracked, dq
<1>7. InSync(w, t, dq, x, u)
  BY <1>0, <1>2 DEF InSync
<1>8. \A e \in Dirs, j \in TableIndex : LiveAt(t, e, j) => t[e][j].cluster \in Clusters
  BY DEF Host, HostUsed, LiveAt
<1>9. \A b \in Clusters : w.staged[b] = v.staged[b] \/ (w.staged[b] = Absent /\ LiveAt(t, d, k) /\ b = t[d][k].cluster)
  BY <1>0, <1>8 DEF Device
<1>10. Claimable(w, t, x, u)
  <2> SUFFICES ASSUME NEW e \in Dirs, NEW j \in TableIndex,
                      LiveAt(t, e, j), t[e][j].name \notin DotNames, NoStart(v, t[e][j].cluster)
               PROVE  w.staged[t[e][j].cluster] = v.staged[t[e][j].cluster]
    BY <1>0 DEF Claimable, NoStart
  <2>1. CASE w.staged = v.staged
    BY <2>1
  <2>2. CASE w.staged # v.staged
    <3>1. LiveAt(t, d, k) /\ t[d][k].name \in DotNames
      BY <2>2
    <3>2. <<e, j>> # <<d, k>>
      BY <3>1
    <3>3. t[e][j].cluster # t[d][k].cluster
      BY <3>1, <3>2 DEF Host, HostApart
    <3> QED
      BY <1>8, <1>9, <3>3
  <2> QED
    BY <2>1, <2>2
<1>11. Fresh(w, us)
  BY <1>0, <1>9 DEF Fresh
<1> QED
  BY <1>1, <1>3, <1>4, <1>5, <1>6, <1>7, <1>10, <1>11 DEF Session, dq

\* Interpreting an erased slot deletes the file it erases, and no other.
LEMMA EraseKeeps ==
  ASSUME NEW v, NEW t, NEW dr, NEW x, NEW u, NEW us, NEW pa, Host(t, x, us), Session(v, t, dr, x, u, us, pa),
         NEW d \in Dirs, NEW k \in TableIndex, t[d][k].mark = "erased"
  PROVE  Session(Erase(v, d, t[d][k]), t, dr \ {<<d, k>>}, x, u, us, pa)
<1> DEFINE w == Erase(v, d, t[d][k])
           dq == dr \ {<<d, k>>}
           m == FindForDelete(v, d, t[d][k])
<1>0. /\ v \in Device /\ EntriesApart(v) /\ Stored(v, us) /\ Listed(v)
      /\ Follows(v, t, dr, pa) /\ Gone(v, t, dr, pa) /\ ErasesDone(v, t, dr)
      /\ Replaced(v, t) /\ Untracked(v, t, dr)
      /\ InSync(v, t, dr, x, u) /\ Claimable(v, t, x, u) /\ Fresh(v, us)
  BY DEF Session
<1>1. DOMAIN v.entries = 1..Len(v.entries) /\ \A i \in DOMAIN v.entries : v.entries[i] \in EntryRecord
  BY <1>0, DeviceTyped
<1>2. \A i \in DOMAIN v.entries : v.entries[i].start # 0
  <2>1. 0 \notin us
    BY DEF Host, Clusters
  <2> QED
    BY <1>0, <2>1 DEF Stored
<1>3. /\ m # 0 => m \in DOMAIN v.entries /\ ~v.entries[m].deleted /\ Erases(d, t[d][k], v.entries[m])
      /\ m = 0 => \A i \in DOMAIN v.entries : Erases(d, t[d][k], v.entries[i]) => v.entries[i].deleted
  <2> DEFINE I == {i \in 1..Len(v.entries) :
                     /\ ~v.entries[i].deleted /\ v.entries[i].dir = d /\ v.entries[i].name[2] = t[d][k].name[2]
                     /\ v.entries[i].start \in {0, t[d][k].cluster}}
  <2>1. Finds(m, I)
    BY <1>0, FoundForDelete
  <2>2. \A i \in DOMAIN v.entries : i \in I <=> ~v.entries[i].deleted /\ Erases(d, t[d][k], v.entries[i])
    BY <1>1, <1>2 DEF Erases
  <2>3. 0 \notin I /\ \A i \in I : i \in DOMAIN v.entries
    BY <1>1
  <2> HIDE DEF I, m
  <2> QED
    BY <2>1, <2>2, <2>3 DEF Finds
<1>4. m = 0 => w = v
  BY DEF Erase
\* Only m is marked.
<1>5. /\ w \in Device /\ DOMAIN w.entries = DOMAIN v.entries /\ w.disk = v.disk /\ w.staged = v.staged
      /\ \A i \in DOMAIN v.entries :
           /\ w.entries[i].dir = v.entries[i].dir /\ w.entries[i].name = v.entries[i].name
           /\ w.entries[i].start = v.entries[i].start /\ w.entries[i].size = v.entries[i].size
           /\ w.entries[i].deleted = (v.entries[i].deleted \/ i = m)
  <2>1. CASE m = 0
    <3>1. \A i \in DOMAIN v.entries : i # m /\ v.entries[i].deleted \in BOOLEAN
      BY <1>1, <2>1 DEF EntryRecord
    <3> QED
      BY <1>0, <1>4, <2>1, <3>1
  <2>2. CASE m # 0
    <3> DEFINE e == [v.entries[m] EXCEPT !.deleted = TRUE]
               y == [v EXCEPT !.entries[m].deleted = TRUE]
    <3>1. w = y
      BY <2>2 DEF Erase
    <3>2. m \in 1..Len(v.entries)
      BY <1>1, <1>3, <2>2
    <3>3. y \in Device
      <4> HIDE DEF m
      <4>1. t[d][k] \in Slot
        BY DEF Host, Table
      <4>2. Careful(v, y, {PathOf(v.entries[m])}, {})
        <5> HIDE DEF y
        <5> QED
          BY <1>0, <3>2, <4>1, EraseCareful DEF y
      <4> QED
        BY <4>2 DEF Careful
    <3>4. y.entries = [v.entries EXCEPT ![m] = e] /\ y.disk = v.disk /\ y.staged = v.staged
      BY <1>0 DEF Device
    <3> HIDE DEF m, w, y
    <3>5. ASSUME NEW i \in DOMAIN v.entries
          PROVE  /\ y.entries[i].dir = v.entries[i].dir /\ y.entries[i].name = v.entries[i].name
                 /\ y.entries[i].start = v.entries[i].start /\ y.entries[i].size = v.entries[i].size
                 /\ y.entries[i].deleted = (v.entries[i].deleted \/ i = m)
      <4>1. v.entries[i] \in EntryRecord
        BY <1>1
      <4>2. CASE i = m
        <5>1. y.entries[i] = e
          BY <3>4, <4>2
        <5> QED
          BY <4>1, <4>2, <5>1 DEF EntryRecord
      <4>3. CASE i # m
        <5>1. y.entries[i] = v.entries[i]
          BY <3>4, <4>3
        <5> QED
          BY <4>1, <4>3, <5>1 DEF EntryRecord
      <4> QED
        BY <4>2, <4>3
    <3>6. DOMAIN y.entries = DOMAIN v.entries
      BY <3>4
    <3> QED
      BY <3>1, <3>3, <3>4, <3>5, <3>6
  <2> QED
    BY <2>1, <2>2
<1> HIDE DEF w, m, dq
<1>6. \A i \in DOMAIN v.entries : PathOf(w.entries[i]) = PathOf(v.entries[i])
  BY <1>5 DEF PathOf
<1>7. \A p : NoPath(w, p) <=> NoPath(v, p)
  BY <1>5, <1>6 DEF NoPath
<1>8. \A c : NoStart(w, c) <=> NoStart(v, c)
  BY <1>5 DEF NoStart
<1>9. \A e, s : \A i \in DOMAIN v.entries : Erases(e, s, w.entries[i]) <=> Erases(e, s, v.entries[i])
  BY <1>5 DEF Erases
\* What the slot erases is deleted.
<1>10. \A i \in DOMAIN v.entries : Erases(d, t[d][k], v.entries[i]) => w.entries[i].deleted
  <2> SUFFICES ASSUME NEW i \in DOMAIN v.entries, Erases(d, t[d][k], v.entries[i]) PROVE v.entries[i].deleted \/ i = m
    BY <1>5
  <2>1. CASE m = 0
    BY <1>3, <2>1
  <2>2. CASE m # 0
    <3>1. m \in DOMAIN v.entries /\ v.entries[m].start = v.entries[i].start
      BY <1>3, <2>2 DEF Erases
    <3> QED
      BY <1>0, <3>1 DEF EntriesApart
  <2> QED
    BY <2>1, <2>2
<1>11. \A e \in Dirs, j \in TableIndex : LiveAt(t, e, j) => (<<e, j>> \in dr) = (<<e, j>> \in dq)
  <2> SUFFICES ASSUME NEW e \in Dirs, NEW j \in TableIndex, LiveAt(t, e, j) PROVE <<e, j>> # <<d, k>>
    BY DEF dq
  <2> QED
    BY DEF LiveAt
<1>12. \A i \in DOMAIN v.entries, e \in Dirs, j \in TableIndex :
         Erases(e, t[e][j], v.entries[i]) /\ <<e, j>> \in dr => w.entries[i].deleted \/ <<e, j>> \in dq
  <2> SUFFICES ASSUME NEW i \in DOMAIN v.entries, NEW e \in Dirs, NEW j \in TableIndex,
                      Erases(e, t[e][j], v.entries[i]), <<e, j>> = <<d, k>>
               PROVE  w.entries[i].deleted
    BY DEF dq
  <2>1. e = d /\ j = k
    OBVIOUS
  <2> QED
    BY <1>10, <2>1
<1>13. EntriesApart(w) /\ Stored(w, us) /\ Listed(w)
  BY <1>0, <1>5, <1>6, <1>7 DEF EntriesApart, Stored, Listed
<1>14. Follows(w, t, dq, pa)
  <2> SUFFICES ASSUME NEW i \in DOMAIN v.entries, NEW e \in Dirs, NEW j \in TableIndex,
                      LiveAt(t, e, j), t[e][j].cluster = v.entries[i].start
               PROVE  IF PathAt(t, e, j) = PathOf(v.entries[i]) THEN ~w.entries[i].deleted
                      ELSE /\ <<e, j>> \in dq /\ t[e][j].name \in Kept /\ NoPath(v, PathAt(t, e, j))
                           /\ <<PathOf(v.entries[i]), "moved">> \in pa
    BY <1>5, <1>6, <1>7 DEF Follows
  <2>1. CASE PathAt(t, e, j) = PathOf(v.entries[i])
    <3>1. ~v.entries[i].deleted
      BY <1>0, <2>1 DEF Follows
    <3>2. i # m
      <4> SUFFICES ASSUME i = m PROVE FALSE
        OBVIOUS
      <4>0. m # 0
        BY <1>1
      <4>1. Erases(d, t[d][k], v.entries[i])
        BY <1>3, <4>0
      <4>2. e = v.entries[i].dir /\ t[e][j].name = v.entries[i].name
        BY <2>1 DEF PathAt, PathOf
      <4>3. j \in Live(t, e) /\ e = d /\ t[e][k].name[2] = t[e][j].name[2] /\ t[e][k].cluster = t[e][j].cluster
        BY <4>1, <4>2 DEF Erases, Live, LiveAt
      <4>4. Ambiguous(t)
        BY <4>3 DEF Ambiguous
      <4> QED
        BY <4>4 DEF Host
    <3> QED
      BY <1>5, <2>1, <3>1, <3>2
  <2>2. CASE PathAt(t, e, j) # PathOf(v.entries[i])
    BY <1>0, <1>11, <2>2 DEF Follows
  <2> QED
    BY <2>1, <2>2
<1>15. Gone(w, t, dq, pa)
  <2> SUFFICES ASSUME NEW i \in DOMAIN v.entries, Unheld(t, v.entries[i].start)
               PROVE  /\ <<PathOf(v.entries[i]), "deleted">> \in pa
                      /\ w.entries[i].deleted \/ \E e \in Dirs, j \in TableIndex : <<e, j>> \in dq /\ Erases(e, t[e][j], v.entries[i])
    BY <1>5, <1>6, <1>9 DEF Gone
  <2>1. /\ <<PathOf(v.entries[i]), "deleted">> \in pa
        /\ v.entries[i].deleted \/ \E e \in Dirs, j \in TableIndex : <<e, j>> \in dr /\ Erases(e, t[e][j], v.entries[i])
    BY <1>0 DEF Gone
  <2> QED
    BY <1>5, <1>12, <2>1
<1>16. ErasesDone(w, t, dq)
  <2> SUFFICES ASSUME NEW i \in DOMAIN v.entries, NEW e \in Dirs, NEW j \in TableIndex, Erases(e, t[e][j], v.entries[i])
               PROVE  w.entries[i].deleted \/ <<e, j>> \in dq
    BY <1>5, <1>9 DEF ErasesDone
  <2>1. v.entries[i].deleted \/ <<e, j>> \in dr
    BY <1>0 DEF ErasesDone
  <2> QED
    BY <1>5, <1>12, <2>1
<1>17. Replaced(w, t)
  <2>1. ASSUME NEW i \in DOMAIN w.entries, NEW e \in Dirs, NEW j \in TableIndex,
               LiveAt(t, e, j), PathAt(t, e, j) = PathOf(w.entries[i]), t[e][j].cluster # w.entries[i].start
        PROVE  w.entries[i].deleted /\ Unheld(t, w.entries[i].start) /\ NoStart(w, t[e][j].cluster)
    BY <1>0, <1>5, <1>6, <1>8, <2>1 DEF Replaced
  <2> QED
    BY <2>1 DEF Replaced
<1>18. Untracked(w, t, dq)
  BY <1>0, <1>8, <1>11 DEF Untracked
<1>19. InSync(w, t, dq, x, u)
  BY <1>0, <1>5, <1>6, <1>11 DEF InSync
<1>20. Claimable(w, t, x, u) /\ Fresh(w, us)
  BY <1>0, <1>5, <1>8 DEF Claimable, Fresh
<1> QED
  BY <1>5, <1>13, <1>14, <1>15, <1>16, <1>17, <1>18, <1>19, <1>20 DEF Session, w, dq

-----------------------------------------------------------------------------
(* What a live slot does to the entry of its file.                          *)

\* The whole of w is left of a file that is cut to its size.
LEMMA ResizedData ==
  ASSUME NEW c, NEW x, NEW u, x[c] \in Bytes, NEW held \in Bytes, NEW m \in Nat, NEW unwritten,
         InPlace(m, Len(x[c]), unwritten, Due(c, x, u, held), x[c])
  PROVE  LET n == Len(x[c])
             kept == IF n # 0 /\ n # m THEN UpTo(held, n) ELSE held
         IN  kept \in Bytes /\ Due(c, x, u, kept) = x[c] /\ (~unwritten => kept = held)
<1> DEFINE n == Len(x[c])
           z == Due(c, x, u, held)
           kept == IF n # 0 /\ n # m THEN UpTo(held, n) ELSE held
<1>1. n \in Nat /\ Len(held) \in Nat
  BY DEF Bytes
<1>2. /\ UpTo(held, n) \in Bytes /\ Len(UpTo(held, n)) = (IF n < Len(held) THEN n ELSE Len(held))
      /\ Len(held) <= n => UpTo(held, n) = held
  BY <1>1, UpToBytes
<1>3. UpTo(x[c], n) = x[c]
  BY <1>1, UpToBytes
<1>4. z = x[c] \/ (m # n /\ n # 0 /\ UpTo(z, n) = x[c])
  BY DEF InPlace, Cut
<1>5. ~unwritten => z = x[c]
  BY DEF InPlace
<1>6. kept \in Bytes
  BY <1>2
<1>7. CASE c \notin u
  <2>1. z = held /\ Due(c, x, u, kept) = kept
    BY <1>7 DEF Due
  <2> QED
    BY <1>3, <1>4, <1>5, <1>6, <2>1
<1>8. CASE c \in u
  <2>1. z = Over(x[c], held) /\ Due(c, x, u, kept) = Over(x[c], kept)
    BY <1>8 DEF Due
  <2>2. Len(Over(x[c], held)) = (IF Len(held) < n THEN n ELSE Len(held))
    BY OverBytes
  <2>3. z = x[c] => Len(held) <= n
    BY <1>1, <2>1, <2>2
  <2>4. Over(x[c], UpTo(held, n)) = x[c]
    <3>1. Len(UpTo(held, n)) <= n
      BY <1>1, <1>2
    <3> QED
      BY <1>2, <3>1, OverBytes
  <2>5. z = x[c] => kept = held
    BY <1>2, <2>3
  <2>6. n # 0 /\ n # m => Due(c, x, u, kept) = x[c]
    BY <2>1, <2>4
  <2>7. ~(n # 0 /\ n # m) => Due(c, x, u, kept) = x[c]
    BY <1>4, <2>1
  <2> QED
    BY <1>5, <1>6, <2>5, <2>6, <2>7
<1> QED
  BY <1>7, <1>8

LEMMA ResizeSettles ==
  ASSUME NEW v \in Device, NEW t, NEW s \in Slot, NEW i \in DOMAIN v.entries, EntriesApart(v),
         ~v.entries[i].deleted, v.entries[i].start = s.cluster, s.cluster \in Clusters,
         v.disk[PathOf(v.entries[i])] \in Bytes, v.staged[s.cluster] \in Bytes \cup {Absent}
  PROVE  LET w == Resize(v, i, s)
             p == PathOf(v.entries[i])
         IN  /\ Settles(v, w, t, i, p, s.cluster) /\ w.entries[i].size = s.size
             /\ w.disk[p] = IF s.size # 0 /\ s.size # v.entries[i].size THEN UpTo(v.disk[p], s.size) ELSE v.disk[p]
<1> DEFINE w == Resize(v, i, s)
           p == PathOf(v.entries[i])
           e == [v.entries[i] EXCEPT !.size = s.size,
                                     !.start = IF s.cluster # 0 THEN s.cluster ELSE @]
           files == IF s.size # 0 /\ s.size # v.entries[i].size THEN Truncated(v.disk, p, s.size) ELSE v.disk
<1>1. /\ i \in 1..Len(v.entries) /\ v.entries[i] \in EntryRecord /\ p \in Paths /\ s.size \in Nat
      /\ v.disk \in [Paths -> File]
  BY DeviceTyped DEF Slot
<1>2. /\ e.dir = v.entries[i].dir /\ e.name = v.entries[i].name /\ e.start = s.cluster
      /\ e.size = s.size /\ ~e.deleted
  BY <1>1 DEF EntryRecord, Clusters
<1>3. w.entries = [v.entries EXCEPT ![i] = e]
  BY <1>1 DEF Device, Resize, EntryRecord
<1>4. w.disk = files /\ w.staged = v.staged
  BY DEF Device, Resize
<1>5. w \in Device
  <2>1. Careful(v, w, {p}, {})
    BY <1>1, ResizeCareful
  <2> QED
    BY <2>1 DEF Careful
<1>6. v.disk[p] # Absent
  BY BytesTyped
<1>7. /\ files[p] = IF s.size # 0 /\ s.size # v.entries[i].size THEN UpTo(v.disk[p], s.size) ELSE v.disk[p]
      /\ \A q \in Paths \ {p} : files[q] = v.disk[q]
  <2> HIDE DEF p
  <2> QED
    BY <1>1, <1>6 DEF Truncated
<1>8. files[p] \in Bytes
  BY <1>1, <1>7, UpToBytes
<1>9. PathOf(e) = p
  BY <1>2 DEF PathOf
<1> HIDE DEF e, w, files, p
<1>10. \A j \in DOMAIN v.entries \ {i} :
         /\ w.entries[j] = v.entries[j] /\ PathOf(v.entries[j]) # p /\ v.entries[j].start # s.cluster
  BY <1>3 DEF EntriesApart, p
<1>11. DOMAIN w.entries = DOMAIN v.entries \cup {i} /\ w.entries[i] = e
  BY <1>3
<1>12. Settles(v, w, t, i, p, s.cluster)
  <2>1. p = PathOf(v.entries[i])
    BY DEF p
  <2> QED
    BY <1>2, <1>4, <1>5, <1>7, <1>8, <1>9, <1>10, <1>11, <2>1 DEF Settles
<1>13. w.entries[i].size = s.size
  BY <1>2, <1>11
<1>14. w.disk[p] = IF s.size # 0 /\ s.size # v.entries[i].size THEN UpTo(v.disk[p], s.size) ELSE v.disk[p]
  BY <1>4, <1>7
<1> QED
  BY <1>12, <1>13, <1>14 DEF w, p

LEMMA ReclaimSettles ==
  ASSUME NEW v \in Device, NEW t, NEW d \in Dirs, NEW s \in Slot, NEW i \in DOMAIN v.entries, EntriesApart(v),
         s.name \in Kept, v.entries[i].start = s.cluster, NoPath(v, <<d, s.name>>),
         v.disk[PathOf(v.entries[i])] \in Bytes, v.staged[s.cluster] \in Bytes \cup {Absent}
  PROVE  LET w == Reclaim(v, i, d, s)
             p == <<d, s.name>>
         IN  /\ Settles(v, w, t, i, p, s.cluster)
             /\ w.entries[i].size = IF s.size # 0 THEN s.size ELSE v.entries[i].size
             /\ w.disk[p] = v.disk[PathOf(v.entries[i])]
<1> DEFINE w == Reclaim(v, i, d, s)
           p == <<d, s.name>>
           q == PathOf(v.entries[i])
           size == IF s.size # 0 THEN s.size ELSE v.entries[i].size
           e == Entry(p, v.entries[i].start, size)
           others == Overwritten(v, i, p)
           files == CopyAndRemove(v.disk, q, p)
<1>1. /\ i \in 1..Len(v.entries) /\ v.entries[i] \in EntryRecord /\ q \in Paths
      /\ v.disk \in [Paths -> File] /\ DOMAIN v.entries = 1..Len(v.entries)
  BY DeviceTyped
<1>2. p \in Paths /\ s.name \in Names /\ s.name \notin DotNames \cup StagingNames
  BY DEF Kept, Paths
<1>3. q # p
  BY DEF NoPath
<1>4. v.disk[q] # Absent
  BY BytesTyped
<1>5. w \in Device
  <2>1. Careful(v, w, {q, p}, {p})
    BY <1>1, <1>2, ReclaimCareful
  <2> QED
    BY <2>1 DEF Careful
<1>6. w.entries = [others EXCEPT ![i] = e] /\ w.disk = files /\ w.staged = v.staged
  <2> DEFINE y == [v EXCEPT !.entries = [others EXCEPT ![i] = e], !.disk = files]
  <2>1. w = y
    BY <1>2, <1>4 DEF Reclaim
  <2>2. y.entries = [others EXCEPT ![i] = e] /\ y.disk = files /\ y.staged = v.staged
    <3> HIDE DEF e, others, files
    <3> QED
      BY DEF Device
  <2> HIDE DEF w, y
  <2> QED
    BY <2>1, <2>2
<1>7. DOMAIN others = DOMAIN v.entries /\ \A j \in DOMAIN v.entries : others[j] = v.entries[j]
  <2>1. /\ others \in Seq(EntryRecord) /\ Len(others) = Len(v.entries)
        /\ \A j \in 1..Len(v.entries) : others[j] = v.entries[j] \/ PathOf(v.entries[j]) = p
    <3> HIDE DEF p
    <3> QED
      BY OverwrittenTyped
  <2>2. \A j \in DOMAIN v.entries : PathOf(v.entries[j]) # p
    BY DEF NoPath
  <2> HIDE DEF others, p
  <2> QED
    BY <1>1, <2>1, <2>2
<1>8. PathOf(e) = p /\ e.start = s.cluster /\ e.size = size /\ ~e.deleted
  BY DEF Entry, PathOf
<1>9. /\ files[p] = v.disk[q] /\ files[q] = Absent
      /\ \A r \in Paths \ {p} : r # q => files[r] = v.disk[r]
  <2> HIDE DEF p, q
  <2> QED
    BY <1>1, <1>2, <1>3 DEF CopyAndRemove
<1> HIDE DEF w, p, q, size, e, others, files
<1>10. DOMAIN w.entries = DOMAIN v.entries \cup {i} /\ w.entries[i] = e
  BY <1>6, <1>7
<1>11. \A j \in DOMAIN v.entries \ {i} :
         /\ w.entries[j] = v.entries[j] /\ PathOf(v.entries[j]) # p /\ v.entries[j].start # s.cluster
  <2> SUFFICES ASSUME NEW j \in DOMAIN v.entries, j # i
               PROVE  w.entries[j] = v.entries[j] /\ PathOf(v.entries[j]) # p /\ v.entries[j].start # s.cluster
    OBVIOUS
  <2>1. w.entries[j] = v.entries[j]
    BY <1>6, <1>7
  <2>2. PathOf(v.entries[j]) # p
    BY DEF NoPath, p
  <2> QED
    BY <2>1, <2>2 DEF EntriesApart
<1>12. Settles(v, w, t, i, p, s.cluster)
  <2>1. q = PathOf(v.entries[i]) /\ v.disk[q] \in Bytes
    BY DEF q
  <2> QED
    BY <1>5, <1>6, <1>8, <1>9, <1>10, <1>11, <2>1 DEF Settles
<1>13. w.entries[i].size = size /\ w.disk[p] = v.disk[q]
  BY <1>6, <1>8, <1>9, <1>10
<1> QED
  BY <1>12, <1>13 DEF w, p, q, size

\* Where the entry of a new file goes.
LEMMA PlaceAt ==
  ASSUME NEW v \in Device, NEW e \in EntryRecord, EntriesApart(v)
  PROVE  \E m : /\ DOMAIN Place(v.entries, e) = DOMAIN v.entries \cup {m} /\ Place(v.entries, e)[m] = e
                /\ m \in DOMAIN v.entries => PathOf(v.entries[m]) = PathOf(e)
                /\ \A j \in DOMAIN v.entries \ {m} :
                     Place(v.entries, e)[j] = v.entries[j] /\ PathOf(v.entries[j]) # PathOf(e)
<1> DEFINE n == Len(v.entries)
           I == {i \in 1..n : PathOf(v.entries[i]) = PathOf(e)}
           placed == Place(v.entries, e)
<1>0. n \in Nat /\ I \subseteq 1..n /\ v.entries \in Seq(EntryRecord) /\ DOMAIN v.entries = 1..n
  BY DeviceTyped
<1>1. CASE I = {}
  <2>1. placed = Append(v.entries, e)
    BY <1>1 DEF Place, SelectInSeq
  <2> HIDE DEF placed
  <2>2. DOMAIN placed = 1..n + 1 /\ placed[n + 1] = e /\ \A j \in 1..n : placed[j] = v.entries[j]
    BY <1>0, <2>1
  <2>3. \A j \in 1..n : PathOf(v.entries[j]) # PathOf(e)
    BY <1>1
  <2> HIDE DEF n
  <2>4. 1..n + 1 = 1..n \cup {n + 1} /\ n + 1 \notin 1..n
    BY <1>0
  <2> QED
    BY <1>0, <2>2, <2>3, <2>4 DEF placed
<1>2. CASE I # {}
  <2>1. Min(I) \in I
    <3> HIDE DEF I
    <3> QED
      BY <1>0, <1>2, FirstOf
  <2>2. placed = [v.entries EXCEPT ![Min(I)] = e]
    BY <1>2, <2>1 DEF Place, SelectInSeq
  <2> DEFINE m == Min(I)
  <2>3. m \in 1..n /\ PathOf(v.entries[m]) = PathOf(e)
    BY <2>1
  <2>4. placed = [v.entries EXCEPT ![m] = e]
    BY <2>2
  <2> HIDE DEF m, placed
  <2>5. DOMAIN placed = 1..n /\ placed[m] = e /\ \A j \in 1..n : j # m => placed[j] = v.entries[j]
    BY <1>0, <2>3, <2>4
  <2>6. \A j \in 1..n : j # m => PathOf(v.entries[j]) # PathOf(e)
    BY <1>0, <2>3 DEF EntriesApart
  <2>7. 1..n = 1..n \cup {m}
    BY <2>3
  <2> HIDE DEF n
  <2> QED
    BY <1>0, <2>3, <2>5, <2>6, <2>7 DEF placed
<1> QED
  BY <1>1, <1>2

\* A new file, of which entries at its path are deleted for good.
LEMMA PlaceSettles ==
  ASSUME NEW v \in Device, NEW t, NEW p \in Paths, NEW c, NEW e \in EntryRecord, EntriesApart(v), NoStart(v, c),
         PathOf(e) = p, e.start = c, ~e.deleted,
         \A i \in DOMAIN v.entries : PathOf(v.entries[i]) = p => Unheld(t, v.entries[i].start),
         NEW w \in Device, w.entries = Place(v.entries, e),
         w.disk[p] \in Bytes, \A q \in Paths \ {p} : w.disk[q] = v.disk[q],
         \A b \in Clusters \ {c} : w.staged[b] = v.staged[b], w.staged[c] \in Bytes \cup {Absent}
  PROVE  \E m : Settles(v, w, t, m, p, c) /\ w.entries[m] = e
<1>1. PICK m : /\ DOMAIN w.entries = DOMAIN v.entries \cup {m} /\ w.entries[m] = e
               /\ m \in DOMAIN v.entries => PathOf(v.entries[m]) = p
               /\ \A j \in DOMAIN v.entries \ {m} : w.entries[j] = v.entries[j] /\ PathOf(v.entries[j]) # p
  <2>1. \E m : /\ DOMAIN Place(v.entries, e) = DOMAIN v.entries \cup {m} /\ Place(v.entries, e)[m] = e
               /\ m \in DOMAIN v.entries => PathOf(v.entries[m]) = PathOf(e)
               /\ \A j \in DOMAIN v.entries \ {m} :
                    Place(v.entries, e)[j] = v.entries[j] /\ PathOf(v.entries[j]) # PathOf(e)
    BY PlaceAt
  <2> QED
    BY <2>1
<1>2. \A j \in DOMAIN v.entries : v.entries[j].start # c
  BY DEF NoStart
<1>3. Settles(v, w, t, m, p, c)
  BY <1>1, <1>2 DEF Settles
<1> QED
  BY <1>1, <1>3

LEMMA CreateSettles ==
  ASSUME NEW v, NEW t, NEW dr, NEW x, NEW u, NEW us, NEW pa, Host(t, x, us), Session(v, t, dr, x, u, us, pa),
         NEW d \in Dirs, NEW k \in TableIndex, LiveAt(t, d, k), t[d][k].name \in Kept, NoStart(v, t[d][k].cluster)
  PROVE  \E m : LET w == Create(v, d, t[d][k]) IN
           /\ Settles(v, w, t, m, PathAt(t, d, k), t[d][k].cluster)
           /\ InPlace(w.entries[m].size, t[d][k].size, FALSE,
                      Due(t[d][k].cluster, x, u, w.disk[PathAt(t, d, k)]), x[t[d][k].cluster])
<1> DEFINE s == t[d][k]
           p == PathAt(t, d, k)
           c == s.cluster
           w == Create(v, d, s)
<1>0. /\ v \in Device /\ EntriesApart(v) /\ Replaced(v, t) /\ Claimable(v, t, x, u) /\ Fresh(v, us)
  BY DEF Session
<1>1. /\ s \in Slot /\ s.name \in Names /\ s.name \notin DotNames /\ s.name \notin StagingNames
      /\ c \in Clusters /\ c \in us /\ s.size \in Nat
  <2>1. NamedSlot(s)
    BY SlotTyped DEF Host
  <2>2. c \in us
    BY DEF Host, HostUsed, LiveAt
  <2> QED
    BY <2>1, <2>2 DEF NamedSlot, Slot, Kept, LiveAt, Host
<1>2. p \in Paths /\ p = <<d, s.name>>
  BY <1>1 DEF PathAt, Paths
<1>3. /\ x[c] \in Bytes /\ s.size = Len(x[c]) /\ v.staged[c] \in Bytes \cup {Absent}
  BY <1>0, <1>1 DEF Host, HostSized, Fresh
<1>4. /\ Cut(DueStaged(c, x, u, v.staged[c]), s.size, x[c])
      /\ c \notin u => v.staged[c] # Absent
      /\ c \in u => v.staged[c] = Absent
  BY <1>0, <1>1 DEF Claimable
<1>5. \A i \in DOMAIN v.entries : PathOf(v.entries[i]) = p => Unheld(t, v.entries[i].start)
  <2> SUFFICES ASSUME NEW i \in DOMAIN v.entries, PathOf(v.entries[i]) = p PROVE Unheld(t, v.entries[i].start)
    OBVIOUS
  <2>1. c # v.entries[i].start
    BY DEF NoStart
  <2> QED
    BY <1>0, <2>1 DEF Replaced
<1>6. v.disk \in [Paths -> File] /\ v.staged \in [Clusters -> File]
  BY <1>0, DeviceTyped
<1> HIDE DEF p
<1>7. CASE v.staged[c] = Absent
  <2> DEFINE e == Entry(p, c, 0)
             y == [v EXCEPT !.entries = Place(v.entries, e), !.disk[p] = <<>>]
  <2>1. w = y
    BY <1>1, <1>2, <1>7 DEF Create, CreateEmpty
  <2>2. e \in EntryRecord /\ PathOf(e) = p /\ e.start = c /\ ~e.deleted /\ e.size = 0
    BY <1>1, <1>2, EntryTyped DEF Entry
  <2>3. w \in Device
    <3>1. Careful(v, CreateEmpty(v, p, s), {p}, {p})
      BY <1>0, <1>1, <1>2, CreateEmptyCareful
    <3>2. w = CreateEmpty(v, p, s)
      BY <1>1, <1>2, <1>7 DEF Create
    <3> HIDE DEF w
    <3> QED
      BY <3>1, <3>2 DEF Careful
  <2>4. y.entries = Place(v.entries, e) /\ y.disk = [v.disk EXCEPT ![p] = <<>>] /\ y.staged = v.staged
    <3> HIDE DEF e
    <3> QED
      BY <1>0 DEF Device
  <2> HIDE DEF e, y, w
  <2>5. w.disk[p] = <<>> /\ \A q \in Paths \ {p} : w.disk[q] = v.disk[q]
    BY <1>2, <1>6, <2>1, <2>4
  <2> HIDE DEF c, s
  <2>6. PICK m : Settles(v, w, t, m, p, c) /\ w.entries[m] = e
    <3>1. NoStart(v, c)
      BY DEF c, s
    <3>2. w.entries = Place(v.entries, e) /\ w.disk[p] \in Bytes /\ w.staged = v.staged
      BY <2>1, <2>4, <2>5, BytesTyped
    <3>3. (\A b \in Clusters \ {c} : w.staged[b] = v.staged[b]) /\ w.staged[c] \in Bytes \cup {Absent}
      BY <1>3, <3>2
    <3> QED
      BY <1>0, <1>2, <1>5, <2>2, <2>3, <2>5, <3>1, <3>2, <3>3, PlaceSettles
  <2>7. Due(c, x, u, <<>>) = x[c]
    <3>1. Len(<<>>) <= Len(x[c]) /\ <<>> \in Bytes
      BY <1>3, BytesTyped DEF Bytes
    <3>2. Over(x[c], <<>>) = x[c]
      BY <1>3, <3>1, OverBytes
    <3> QED
      BY <1>4, <1>7, <3>2 DEF Due
  <2>8. InPlace(w.entries[m].size, s.size, FALSE, Due(c, x, u, w.disk[p]), x[c])
    BY <2>2, <2>5, <2>6, <2>7 DEF InPlace
  <2> QED
    BY <2>6, <2>8 DEF w, p, c, s
<1>8. CASE v.staged[c] # Absent
  <2> DEFINE kept == IF s.size # 0 THEN UpTo(v.staged[c], s.size) ELSE v.staged[c]
             e == Entry(p, c, Len(kept))
             y == [v EXCEPT !.entries = Place(v.entries, e), !.disk[p] = kept, !.staged[c] = Absent]
  <2>1. w = y
    BY <1>1, <1>2, <1>8 DEF Create, Claim
  <2>0. w = Claim(v, p, s)
    BY <1>1, <1>2, <1>8 DEF Create
  <2>2. c \notin u /\ kept = x[c] /\ s.size # 0
    <3>1. c \notin u
      BY <1>4, <1>8
    <3>2. DueStaged(c, x, u, v.staged[c]) = v.staged[c]
      BY <3>1 DEF DueStaged
    <3> QED
      BY <1>4, <3>1, <3>2 DEF Cut
  <2>3. e \in EntryRecord /\ PathOf(e) = p /\ e.start = c /\ ~e.deleted /\ e.size = s.size
    <3>1. Len(kept) = s.size /\ s.size \in Nat
      BY <1>1, <1>3, <2>2
    <3> HIDE DEF kept, s, c
    <3> QED
      BY <1>1, <1>2, <3>1, EntryTyped DEF Entry
  <2>4. y.entries = Place(v.entries, e) /\ y.disk = [v.disk EXCEPT ![p] = kept]
        /\ y.staged = [v.staged EXCEPT ![c] = Absent]
    <3> HIDE DEF e, kept, c
    <3> QED
      BY <1>0 DEF Device
  <2> HIDE DEF e, y, w, kept
  <2>5. w \in Device
    <3>1. c # 0
      BY <1>1 DEF Clusters
    <3>2. Careful(v, Claim(v, p, s), {p}, {p})
      <4> HIDE DEF s
      <4> QED
        BY <1>0, <1>1, <1>2, <3>1, ClaimCareful DEF c
    <3> QED
      BY <2>0, <3>2 DEF Careful
  <2>6. w.disk[p] = x[c] /\ \A q \in Paths \ {p} : w.disk[q] = v.disk[q]
    BY <1>2, <1>6, <2>1, <2>2, <2>4
  <2>7. w.staged[c] = Absent /\ \A b \in Clusters \ {c} : w.staged[b] = v.staged[b]
    BY <1>1, <1>6, <2>1, <2>4
  <2> HIDE DEF c, s
  <2>8. PICK m : Settles(v, w, t, m, p, c) /\ w.entries[m] = e
    <3>1. NoStart(v, c)
      BY DEF c, s
    <3>2. w.entries = Place(v.entries, e) /\ w.disk[p] \in Bytes
      BY <1>3, <2>1, <2>4, <2>6
    <3> QED
      BY <1>0, <1>2, <1>5, <2>3, <2>5, <2>6, <2>7, <3>1, <3>2, PlaceSettles
  <2>9. InPlace(w.entries[m].size, s.size, FALSE, Due(c, x, u, w.disk[p]), x[c])
    BY <2>2, <2>3, <2>6, <2>8 DEF InPlace, Due
  <2> QED
    BY <2>8, <2>9 DEF w, p, c, s
<1> QED
  BY <1>7, <1>8

\* The tracked files have clusters of their own: they are fewer than these.
EntryForEachCluster == MaxCluster <= MaxEntries

LEMMA RoomForAnEntry ==
  ASSUME EntryForEachCluster, NEW v \in Device, NEW us, us \subseteq Clusters, us # {}, EntriesApart(v), Stored(v, us)
  PROVE  Len(v.entries) < MaxEntries
<1> DEFINE n == Len(v.entries)
           f == [i \in 1..n |-> v.entries[i].start]
<1>0. n \in Nat /\ DOMAIN v.entries = 1..n
  BY DeviceTyped
<1>1. MaxCluster \in Nat /\ MaxEntries \in Nat
  BY SizesAssumption
<1>2. MaxCluster >= 2
  <2>1. PICK b \in us : b \in 2..MaxCluster
    BY DEF Clusters
  <2> QED
    BY <1>1, <2>1
<1>3. f \in [1..n -> Clusters]
  BY <1>0 DEF Stored
<1>4. \A i, j \in 1..n : f[i] = f[j] => i = j
  BY <1>0 DEF EntriesApart
<1> HIDE DEF f, n
<1>5. f \in Injection(1..n, Clusters)
  BY <1>3, <1>4 DEF Injection, IsInjective
<1>6. IsFiniteSet(Clusters) /\ Cardinality(Clusters) = MaxCluster - 1
  <2>1. IsFiniteSet(2..MaxCluster) /\ Cardinality(2..MaxCluster) = IF 2 > MaxCluster THEN 0 ELSE MaxCluster - 2 + 1
    BY <1>1, FS_Interval
  <2> QED
    BY <1>1, <1>2, <2>1 DEF Clusters
<1>7. Cardinality(1..n) <= Cardinality(Clusters)
  BY <1>5, <1>6, FS_Injection
<1>8. Cardinality(1..n) = n
  <2>1. Cardinality(1..n) = IF 1 > n THEN 0 ELSE n - 1 + 1
    BY <1>0, FS_Interval
  <2> QED
    BY <1>0, <2>1
<1>9. n < MaxEntries
  BY <1>0, <1>1, <1>6, <1>7, <1>8 DEF EntryForEachCluster
<1> QED
  BY <1>9 DEF n

-----------------------------------------------------------------------------
(* Which of them it is.                                                     *)

LEMMA LiveSlotTyped ==
  ASSUME NEW t, NEW x, NEW us, Host(t, x, us), NEW d \in Dirs, NEW k \in TableIndex, LiveAt(t, d, k)
  PROVE  /\ t[d][k] \in Slot /\ t[d][k].name \in Names /\ t[d][k].cluster \in Clusters /\ t[d][k].cluster # 0
         /\ t[d][k].cluster \in us /\ t[d][k].size = Len(x[t[d][k].cluster])
         /\ x[t[d][k].cluster] \in Bytes /\ PathAt(t, d, k) \in Paths
         /\ \A v : Handle(v, d, t[d][k]) = HandleLive(v, d, t[d][k])
<1>1. NamedSlot(t[d][k])
  BY SlotTyped DEF Host
<1>2. t[d][k].cluster \in us
  BY DEF Host, HostUsed, LiveAt
<1>3. t[d][k].cluster \in Clusters /\ t[d][k].size = Len(x[t[d][k].cluster]) /\ x[t[d][k].cluster] \in Bytes
  BY <1>2 DEF Host, HostSized
<1>4. \A v : Handle(v, d, t[d][k]) = HandleLive(v, d, t[d][k])
  BY DEF Handle, LiveAt
<1> QED
  BY <1>1, <1>2, <1>3, <1>4 DEF NamedSlot, LiveAt, PathAt, Paths, Clusters

\* The entry of the slot's cluster has the slot's path.
LEMMA TrackedHandled ==
  ASSUME NEW v, NEW t, NEW dr, NEW x, NEW u, NEW us, NEW pa, Host(t, x, us), Session(v, t, dr, x, u, us, pa),
         NEW d \in Dirs, NEW k \in TableIndex, LiveAt(t, d, k),
         NEW i \in DOMAIN v.entries, v.entries[i].start = t[d][k].cluster, PathOf(v.entries[i]) = PathAt(t, d, k)
  PROVE  Handle(v, d, t[d][k]) = Resize(v, i, t[d][k]) /\ ~v.entries[i].deleted /\ t[d][k].name \in Kept
<1> DEFINE s == t[d][k]
           m == FindEntry(v, d, s.name)
           I == {j \in 1..Len(v.entries) : ~v.entries[j].deleted /\ v.entries[j].dir = d /\ v.entries[j].name = s.name}
<1>0. v \in Device /\ EntriesApart(v) /\ Stored(v, us) /\ Follows(v, t, dr, pa) /\ DOMAIN v.entries = 1..Len(v.entries)
  BY DeviceTyped DEF Session
<1>1. ~v.entries[i].deleted
  BY <1>0 DEF Follows
<1>2. v.entries[i].dir = d /\ v.entries[i].name = s.name
  BY DEF PathOf, PathAt
<1>3. i \in I
  BY <1>0, <1>1, <1>2
<1>4. Finds(m, I)
  BY <1>0, FoundEntry
<1>5. \A j \in I : j \in DOMAIN v.entries /\ PathOf(v.entries[j]) = PathOf(v.entries[i])
  BY <1>0, <1>2 DEF PathOf
<1> HIDE DEF I, m
<1>6. m = i
  <2>1. m \in I
    BY <1>3, <1>4 DEF Finds
  <2> QED
    BY <1>0, <1>5, <2>1 DEF EntriesApart
<1>7. m # 0
  BY <1>0, <1>6
<1>8. HandleLive(v, d, s) = Resize(v, m, s)
  BY <1>7 DEF HandleLive, m
<1>9. s.name \in Kept
  BY <1>0, <1>2 DEF Stored
<1> QED
  BY <1>1, <1>6, <1>8, <1>9, LiveSlotTyped

LEMMA NotFoundByName ==
  ASSUME NEW v \in Device, NEW d \in Dirs, NEW nm,
         \A j \in DOMAIN v.entries : PathOf(v.entries[j]) = <<d, nm>> => v.entries[j].deleted
  PROVE  FindEntry(v, d, nm) = 0
<1> DEFINE I == {j \in 1..Len(v.entries) : ~v.entries[j].deleted /\ v.entries[j].dir = d /\ v.entries[j].name = nm}
<1>1. DOMAIN v.entries = 1..Len(v.entries)
  BY DeviceTyped
<1>2. I = {}
  BY <1>1 DEF PathOf
<1>3. Finds(FindEntry(v, d, nm), I)
  BY FoundEntry
<1> HIDE DEF I
<1> QED
  BY <1>2, <1>3 DEF Finds

\* It has another.
LEMMA MovedHandled ==
  ASSUME EntryForEachCluster,
         NEW v, NEW t, NEW dr, NEW x, NEW u, NEW us, NEW pa, Host(t, x, us), Session(v, t, dr, x, u, us, pa),
         NEW d \in Dirs, NEW k \in TableIndex, LiveAt(t, d, k),
         NEW i \in DOMAIN v.entries, v.entries[i].start = t[d][k].cluster, PathOf(v.entries[i]) # PathAt(t, d, k)
  PROVE  /\ Handle(v, d, t[d][k]) = Reclaim(v, i, d, t[d][k])
         /\ <<d, k>> \in dr /\ t[d][k].name \in Kept /\ NoPath(v, PathAt(t, d, k))
<1> DEFINE s == t[d][k]
           m == FindByCluster(v, s.cluster)
           I == {j \in 1..Len(v.entries) : v.entries[j].start = s.cluster}
<1>0. v \in Device /\ EntriesApart(v) /\ Stored(v, us) /\ Follows(v, t, dr, pa) /\ DOMAIN v.entries = 1..Len(v.entries)
  BY DeviceTyped DEF Session
<1>1. <<d, k>> \in dr /\ s.name \in Kept /\ NoPath(v, PathAt(t, d, k))
  BY <1>0 DEF Follows
<1>2. FindEntry(v, d, s.name) = 0
  BY <1>0, <1>1, NotFoundByName DEF NoPath, PathAt
<1>3. s.cluster # 0 /\ s.cluster \in us /\ us \subseteq Clusters
  BY LiveSlotTyped DEF Host
<1>4. Len(v.entries) < MaxEntries /\ Len(v.entries) \in Nat /\ MaxEntries \in Nat
  BY <1>0, <1>3, RoomForAnEntry, DeviceTyped, SizesAssumption
<1>5. Finds(m, I) /\ i \in I
  BY <1>0, FoundByCluster
<1>6. \A j \in I : j \in DOMAIN v.entries /\ v.entries[j].start = v.entries[i].start
  BY <1>0
<1> HIDE DEF I, m
<1>7. m = i
  <2>1. m \in I
    BY <1>5 DEF Finds
  <2> QED
    BY <1>0, <1>6, <2>1 DEF EntriesApart
<1>8. m # 0 /\ ~(Len(v.entries) >= MaxEntries)
  BY <1>0, <1>4, <1>7
<1>9. HandleLive(v, d, s) = Reclaim(v, m, d, s)
  <2> HIDE DEF s
  <2> QED
    BY <1>2, <1>3, <1>8 DEF HandleLive, m
<1> QED
  BY <1>1, <1>7, <1>9, LiveSlotTyped

\* There is none.
LEMMA NewHandled ==
  ASSUME EntryForEachCluster,
         NEW v, NEW t, NEW dr, NEW x, NEW u, NEW us, NEW pa, Host(t, x, us), Session(v, t, dr, x, u, us, pa),
         NEW d \in Dirs, NEW k \in TableIndex, LiveAt(t, d, k), NoStart(v, t[d][k].cluster)
  PROVE  Handle(v, d, t[d][k]) = Create(v, d, t[d][k])
<1> DEFINE s == t[d][k]
           m == FindByCluster(v, s.cluster)
           I == {j \in 1..Len(v.entries) : v.entries[j].start = s.cluster}
<1>0. v \in Device /\ EntriesApart(v) /\ Stored(v, us) /\ Replaced(v, t) /\ DOMAIN v.entries = 1..Len(v.entries)
  BY DeviceTyped DEF Session
<1>1. FindEntry(v, d, s.name) = 0
  <2> SUFFICES ASSUME NEW j \in DOMAIN v.entries, PathOf(v.entries[j]) = <<d, s.name>> PROVE v.entries[j].deleted
    BY <1>0, NotFoundByName
  <2>1. v.entries[j].start # s.cluster /\ PathAt(t, d, k) = PathOf(v.entries[j])
    BY DEF NoStart, PathAt
  <2> QED
    BY <1>0, <2>1 DEF Replaced
<1>2. s.cluster # 0 /\ s.cluster \in us /\ us \subseteq Clusters
  BY LiveSlotTyped DEF Host
<1>3. Len(v.entries) < MaxEntries /\ Len(v.entries) \in Nat /\ MaxEntries \in Nat
  BY <1>0, <1>2, RoomForAnEntry, DeviceTyped, SizesAssumption
<1>4. m = 0
  <2>1. Finds(m, I)
    BY <1>0, FoundByCluster
  <2>2. I = {}
    BY <1>0 DEF NoStart
  <2> HIDE DEF I, m
  <2> QED
    BY <2>1, <2>2 DEF Finds
<1>5. ~(Len(v.entries) >= MaxEntries)
  BY <1>3
<1>6. HandleLive(v, d, s) = Create(v, d, s)
  <2> HIDE DEF s
  <2> QED
    BY <1>1, <1>2, <1>4, <1>5 DEF HandleLive, m
<1> QED
  BY <1>6, LiveSlotTyped

\* The slot of a file that is to be kept settles it.
LEMMA KeptSettles ==
  ASSUME EntryForEachCluster,
         NEW v, NEW t, NEW dr, NEW x, NEW u, NEW us, NEW pa, Host(t, x, us), Session(v, t, dr, x, u, us, pa),
         NEW d \in Dirs, NEW k \in TableIndex, LiveAt(t, d, k),
         t[d][k].name \in Kept \/ ~NoStart(v, t[d][k].cluster)
  PROVE  /\ t[d][k].name \in Kept
         /\ \E m : LET w == Handle(v, d, t[d][k]) IN
              /\ Settles(v, w, t, m, PathAt(t, d, k), t[d][k].cluster)
              /\ InPlace(w.entries[m].size, t[d][k].size, FALSE,
                         Due(t[d][k].cluster, x, u, w.disk[PathAt(t, d, k)]), x[t[d][k].cluster])
<1> DEFINE s == t[d][k]
           c == s.cluster
           p == PathAt(t, d, k)
<1>0. v \in Device /\ EntriesApart(v) /\ Stored(v, us) /\ InSync(v, t, dr, x, u) /\ Fresh(v, us)
  BY DEF Session
<1>1. /\ s \in Slot /\ c \in Clusters /\ c \in us /\ s.size = Len(x[c]) /\ x[c] \in Bytes /\ s.size \in Nat
      /\ p = <<d, s.name>>
  <2>1. s \in Slot /\ c \in Clusters /\ c \in us /\ s.size = Len(x[c]) /\ x[c] \in Bytes
    BY LiveSlotTyped
  <2>2. p = <<d, s.name>>
    BY DEF PathAt
  <2> HIDE DEF s
  <2>3. s.size \in Nat
    BY <2>1 DEF Slot
  <2> QED
    BY <2>1, <2>2, <2>3
<1>2. v.staged[c] \in Bytes \cup {Absent}
  BY <1>0, <1>1 DEF Fresh
<1>3. \A i \in DOMAIN v.entries : v.entries[i].size \in Nat /\ v.disk[PathOf(v.entries[i])] \in Bytes
  BY <1>0, DeviceTyped DEF Stored, EntryRecord
<1>4. CASE NoStart(v, c)
  <2>1. Handle(v, d, s) = Create(v, d, s)
    BY <1>4, NewHandled
  <2>2. s.name \in Kept
    BY <1>4
  <2> HIDE DEF s
  <2> QED
    BY <1>4, <2>1, <2>2, CreateSettles DEF s, c
<1>5. CASE ~NoStart(v, c)
  <2>1. PICK i \in DOMAIN v.entries : v.entries[i].start = c
    BY <1>5 DEF NoStart
  <2>2. CASE PathOf(v.entries[i]) = p
    <3> DEFINE w == Resize(v, i, s)
               held == v.disk[p]
               kept == IF s.size # 0 /\ s.size # v.entries[i].size THEN UpTo(held, s.size) ELSE held
    <3>1. Handle(v, d, s) = w /\ ~v.entries[i].deleted /\ s.name \in Kept
      BY <2>1, <2>2, TrackedHandled
    <3>2. Settles(v, w, t, i, p, c) /\ w.entries[i].size = s.size /\ w.disk[p] = kept
      <4> HIDE DEF s
      <4> QED
        BY <1>0, <1>1, <1>2, <1>3, <2>1, <2>2, <3>1, ResizeSettles
    <3>3. InPlace(v.entries[i].size, s.size, <<d, k>> \in dr, Due(c, x, u, held), x[c])
      BY <1>0, <2>1, <2>2 DEF InSync
    <3>4. Due(c, x, u, kept) = x[c]
      <4> DEFINE n == v.entries[i].size
                 unwritten == <<d, k>> \in dr
      <4>1. held \in Bytes /\ n \in Nat
        BY <1>3, <2>2
      <4>2. InPlace(n, Len(x[c]), unwritten, Due(c, x, u, held), x[c]) /\ x[c] \in Bytes
        BY <1>1, <3>3
      <4>3. kept = IF Len(x[c]) # 0 /\ Len(x[c]) # n THEN UpTo(held, Len(x[c])) ELSE held
        BY <1>1
      <4> HIDE DEF c, held, n, unwritten, kept
      <4> QED
        BY <4>1, <4>2, <4>3, ResizedData
    <3> HIDE DEF w, kept, held
    <3>5. InPlace(w.entries[i].size, s.size, FALSE, Due(c, x, u, w.disk[p]), x[c])
      BY <3>2, <3>4 DEF InPlace
    <3> QED
      BY <3>1, <3>2, <3>5
  <2>3. CASE PathOf(v.entries[i]) # p
    <3> DEFINE w == Reclaim(v, i, d, s)
    <3>1. Handle(v, d, s) = w /\ s.name \in Kept /\ NoPath(v, p)
      BY <2>1, <2>3, MovedHandled
    <3>2. /\ Settles(v, w, t, i, p, c)
          /\ w.entries[i].size = IF s.size # 0 THEN s.size ELSE v.entries[i].size
          /\ w.disk[p] = v.disk[PathOf(v.entries[i])]
      <4> HIDE DEF s
      <4> QED
        BY <1>0, <1>1, <1>2, <1>3, <2>1, <3>1, ReclaimSettles
    <3>3. c \notin u /\ v.disk[PathOf(v.entries[i])] = x[c] /\ v.entries[i].size \in {0, s.size}
      BY <1>0, <2>1, <2>3 DEF InSync
    <3> HIDE DEF w
    <3>4. InPlace(w.entries[i].size, s.size, FALSE, Due(c, x, u, w.disk[p]), x[c])
      BY <3>2, <3>3 DEF InPlace, Due
    <3> QED
      BY <3>1, <3>2, <3>4
  <2> QED
    BY <2>2, <2>3
<1> QED
  BY <1>4, <1>5

\* A file that is not to be kept gets no entry.
LEMMA DiscardedHandled ==
  ASSUME EntryForEachCluster,
         NEW v, NEW t, NEW dr, NEW x, NEW u, NEW us, NEW pa, Host(t, x, us), Session(v, t, dr, x, u, us, pa),
         NEW d \in Dirs, NEW k \in TableIndex, LiveAt(t, d, k),
         t[d][k].name \notin Kept, NoStart(v, t[d][k].cluster)
  PROVE  LET w == Handle(v, d, t[d][k]) IN
         /\ w \in Device /\ w.entries = v.entries /\ w.disk = v.disk
         /\ \/ w.staged = v.staged
            \/ t[d][k].name \in DotNames /\ w.staged = [v.staged EXCEPT ![t[d][k].cluster] = Absent]
<1> DEFINE s == t[d][k]
           w == Handle(v, d, s)
<1>0. v \in Device
  BY DEF Session
<1>1. w = Create(v, d, s)
  BY NewHandled
<1>2. w \in Device
  BY <1>0, HandleTyped, SlotTyped DEF Host
<1>3. s.name \in DotNames \cup StagingNames
  BY LiveSlotTyped DEF Kept
<1>4. CASE s.name \in DotNames
  <2> DEFINE y == [v EXCEPT !.staged[s.cluster] = Absent]
  <2>1. w = y
    BY <1>1, <1>4 DEF Create
  <2>2. y.entries = v.entries /\ y.disk = v.disk /\ y.staged = [v.staged EXCEPT ![s.cluster] = Absent]
    BY <1>0 DEF Device
  <2> QED
    BY <1>2, <1>4, <2>1, <2>2
<1>5. CASE s.name \notin DotNames
  <2>1. w = v
    BY <1>1, <1>3, <1>5 DEF Create
  <2> QED
    BY <1>2, <2>1
<1> QED
  BY <1>4, <1>5

\* Interpreting a slot keeps the session, and settles the slot.
LEMMA HandleKeepsSession ==
  ASSUME EntryForEachCluster,
         NEW v, NEW t, NEW dr, NEW x, NEW u, NEW us, NEW pa, Host(t, x, us), Session(v, t, dr, x, u, us, pa),
         NEW d \in Dirs, NEW k \in TableIndex
  PROVE  Session(Handle(v, d, t[d][k]), t, dr \ {<<d, k>>}, x, u, us, pa)
<1> DEFINE w == Handle(v, d, t[d][k])
<1>0. v \in Device /\ t[d][k].mark \in {"free", "live", "erased"}
  BY SlotTyped DEF Session, Host, NamedSlot, Slot
<1>1. CASE t[d][k].mark = "free"
  <2>1. w = v
    BY <1>1 DEF Handle
  <2> HIDE DEF w
  <2> QED
    BY <1>0, <1>1, <2>1, PassedOverKeeps DEF w
<1>2. CASE t[d][k].mark = "erased"
  <2>1. w = Erase(v, d, t[d][k])
    BY <1>2 DEF Handle
  <2> HIDE DEF w
  <2> QED
    BY <1>2, <2>1, EraseKeeps DEF w
<1>3. CASE LiveAt(t, d, k) /\ (t[d][k].name \in Kept \/ ~NoStart(v, t[d][k].cluster))
  <2>1. /\ t[d][k].name \in Kept
        /\ \E m : /\ Settles(v, w, t, m, PathAt(t, d, k), t[d][k].cluster)
                  /\ InPlace(w.entries[m].size, t[d][k].size, FALSE,
                             Due(t[d][k].cluster, x, u, w.disk[PathAt(t, d, k)]), x[t[d][k].cluster])
    BY <1>3, KeptSettles
  <2> HIDE DEF w
  <2>2. PICK m : /\ Settles(v, w, t, m, PathAt(t, d, k), t[d][k].cluster)
                 /\ InPlace(w.entries[m].size, t[d][k].size, FALSE,
                            Due(t[d][k].cluster, x, u, w.disk[PathAt(t, d, k)]), x[t[d][k].cluster])
    BY <2>1
  <2>3. Session(w, t, dr \ {<<d, k>>}, x, u, us, pa)
    BY <1>3, <2>1, <2>2, SettleKeeps
  <2> QED
    BY <2>3 DEF w
<1>4. CASE LiveAt(t, d, k) /\ t[d][k].name \notin Kept /\ NoStart(v, t[d][k].cluster)
  <2>1. /\ w \in Device /\ w.entries = v.entries /\ w.disk = v.disk
        /\ \/ w.staged = v.staged
           \/ t[d][k].name \in DotNames /\ w.staged = [v.staged EXCEPT ![t[d][k].cluster] = Absent]
    BY <1>4, DiscardedHandled
  <2> HIDE DEF w
  <2>2. Session(w, t, dr \ {<<d, k>>}, x, u, us, pa)
    BY <1>4, <2>1, PassedOverKeeps
  <2> QED
    BY <2>2 DEF w
<1> QED
  BY <1>0, <1>1, <1>2, <1>3, <1>4 DEF LiveAt

-----------------------------------------------------------------------------
(* A table written: the pass over all of its slots.                         *)

\* A slot written before changes no file.
SameFiles(v, w) ==
  /\ w.disk = v.disk /\ DOMAIN w.entries = DOMAIN v.entries
  /\ \A i \in DOMAIN v.entries :
       w.entries[i].deleted = v.entries[i].deleted /\ PathOf(w.entries[i]) = PathOf(v.entries[i])

LEMMA CleanErased ==
  ASSUME NEW v, NEW t, NEW dr, NEW x, NEW u, NEW us, NEW pa, Host(t, x, us), Session(v, t, dr, x, u, us, pa),
         NEW d \in Dirs, NEW k \in TableIndex, <<d, k>> \notin dr, t[d][k].mark = "erased"
  PROVE  Handle(v, d, t[d][k]) = v
<1> DEFINE s == t[d][k]
           m == FindForDelete(v, d, s)
           I == {j \in 1..Len(v.entries) :
                   /\ ~v.entries[j].deleted /\ v.entries[j].dir = d /\ v.entries[j].name[2] = s.name[2]
                   /\ v.entries[j].start \in {0, s.cluster}}
<1>0. v \in Device /\ Stored(v, us) /\ ErasesDone(v, t, dr) /\ DOMAIN v.entries = 1..Len(v.entries) /\ us \subseteq Clusters
  BY DeviceTyped DEF Session, Host
<1>1. Finds(m, I)
  BY <1>0, FoundForDelete
<1>2. ASSUME NEW j \in I PROVE FALSE
  <2>1. v.entries[j].start # 0
    BY <1>0 DEF Stored, Clusters
  <2>2. Erases(d, t[d][k], v.entries[j])
    BY <2>1 DEF Erases
  <2> QED
    BY <1>0, <2>2 DEF ErasesDone
<1> HIDE DEF m, I
<1>3. m = 0
  BY <1>1, <1>2 DEF Finds
<1>4. Erase(v, d, s) = v
  BY <1>3 DEF Erase, m
<1> QED
  BY <1>4 DEF Handle

LEMMA CleanHandled ==
  ASSUME EntryForEachCluster,
         NEW v, NEW t, NEW dr, NEW x, NEW u, NEW us, NEW pa, Host(t, x, us), Session(v, t, dr, x, u, us, pa),
         NEW d \in Dirs, NEW k \in TableIndex, <<d, k>> \notin dr
  PROVE  SameFiles(v, Handle(v, d, t[d][k]))
<1> DEFINE s == t[d][k]
           c == s.cluster
           p == PathAt(t, d, k)
<1>0. /\ v \in Device /\ EntriesApart(v) /\ Stored(v, us) /\ InSync(v, t, dr, x, u) /\ Fresh(v, us) /\ Untracked(v, t, dr)
      /\ s.mark \in {"free", "live", "erased"}
  BY SlotTyped DEF Session, Host, NamedSlot, Slot
<1>1. SameFiles(v, v)
  BY DEF SameFiles
<1>2. CASE ~LiveAt(t, d, k)
  <2>1. s.mark = "free" => Handle(v, d, s) = v
    BY DEF Handle
  <2> QED
    BY <1>0, <1>1, <1>2, <2>1, CleanErased DEF LiveAt
<1>3. CASE LiveAt(t, d, k) /\ NoStart(v, c)
  <2>1. s.name \notin Kept
    BY <1>0, <1>3 DEF Untracked
  <2> DEFINE w == Handle(v, d, s)
  <2>2. /\ w \in Device /\ w.entries = v.entries /\ w.disk = v.disk
        /\ w.staged = v.staged \/ (s.name \in DotNames /\ w.staged = [v.staged EXCEPT ![c] = Absent])
    BY <1>3, <2>1, DiscardedHandled
  <2> HIDE DEF w
  <2>3. SameFiles(v, w)
    BY <2>2 DEF SameFiles
  <2> QED
    BY <2>3 DEF w
<1>4. CASE LiveAt(t, d, k) /\ ~NoStart(v, c)
  <2>1. PICK i \in DOMAIN v.entries : v.entries[i].start = c
    BY <1>4 DEF NoStart
  <2>2. PathOf(v.entries[i]) = p
    BY <1>4, <2>1, MovedHandled
  <2> DEFINE w == Resize(v, i, s)
             held == v.disk[p]
             kept == IF s.size # 0 /\ s.size # v.entries[i].size THEN UpTo(held, s.size) ELSE held
  <2>3. Handle(v, d, s) = w /\ ~v.entries[i].deleted
    BY <1>4, <2>1, <2>2, TrackedHandled
  <2>4. s \in Slot /\ c \in Clusters /\ s.size = Len(x[c]) /\ x[c] \in Bytes
    BY <1>4, LiveSlotTyped
  <2>5. v.staged[c] \in Bytes \cup {Absent} /\ held \in Bytes /\ v.entries[i].size \in Nat
    BY <1>0, <2>1, <2>2, <2>4, DeviceTyped DEF Fresh, Stored, EntryRecord
  <2>6. Settles(v, w, t, i, p, c) /\ w.disk[p] = kept
    <3> HIDE DEF s
    <3> QED
      <4>1. s.cluster = c /\ v.entries[i].start = s.cluster /\ EntriesApart(v) /\ v \in Device
        BY <1>0, <2>1
      <4> QED
        <5>1. /\ Settles(v, w, t, i, PathOf(v.entries[i]), s.cluster)
              /\ w.disk[PathOf(v.entries[i])] =
                   IF s.size # 0 /\ s.size # v.entries[i].size
                   THEN UpTo(v.disk[PathOf(v.entries[i])], s.size) ELSE v.disk[PathOf(v.entries[i])]
          BY <2>2, <2>3, <2>4, <2>5, <4>1, ResizeSettles
        <5> QED
          BY <2>2, <4>1, <5>1
  <2>7. kept = held
    <3> DEFINE n == v.entries[i].size
    <3>1. InPlace(n, s.size, <<d, k>> \in dr, Due(c, x, u, held), x[c])
      BY <1>0, <1>4, <2>1, <2>2 DEF InSync
    <3>2. InPlace(n, Len(x[c]), FALSE, Due(c, x, u, held), x[c])
      BY <2>4, <3>1 DEF InPlace
    <3>3. kept = IF Len(x[c]) # 0 /\ Len(x[c]) # n THEN UpTo(held, Len(x[c])) ELSE held
      BY <2>4
    <3>4. held \in Bytes /\ n \in Nat /\ x[c] \in Bytes
      BY <2>4, <2>5
    <3> HIDE DEF c, held, n, kept
    <3> QED
      BY <3>2, <3>3, <3>4, ResizedData
  <2> HIDE DEF w, kept
  <2>8. w.disk = v.disk
    <3>1. \A q \in Paths : w.disk[q] = v.disk[q]
      BY <2>1, <2>2, <2>6, <2>7 DEF Settles
    <3>2. w.disk \in [Paths -> File] /\ v.disk \in [Paths -> File]
      BY <1>0, <2>6, DeviceTyped DEF Settles
    <3> QED
      BY <3>1, <3>2
  <2>9. DOMAIN w.entries = DOMAIN v.entries
    BY <2>1, <2>6 DEF Settles
  <2>10. ASSUME NEW j \in DOMAIN v.entries
         PROVE  w.entries[j].deleted = v.entries[j].deleted /\ PathOf(w.entries[j]) = PathOf(v.entries[j])
    <3>1. CASE j = i
      <4>1. ~w.entries[i].deleted /\ ~v.entries[i].deleted /\ PathOf(w.entries[i]) = PathOf(v.entries[i])
        BY <2>2, <2>3, <2>6 DEF Settles
      <4>2. w \in Device
        BY <2>6 DEF Settles
      <4>3. w.entries[i].deleted \in BOOLEAN /\ v.entries[i].deleted \in BOOLEAN
        BY <1>0, <2>1, <2>9, <4>2, DeviceTyped DEF EntryRecord
      <4> QED
        BY <3>1, <4>1, <4>3
    <3>2. CASE j # i
      BY <2>6, <3>2 DEF Settles
    <3> QED
      BY <3>1, <3>2
  <2> QED
    BY <2>3, <2>8, <2>9, <2>10 DEF SameFiles, w
<1> QED
  BY <1>2, <1>3, <1>4

\* The written table's slots are clean afterwards, whatever they were.
LEMMA PassKeepsSession ==
  ASSUME EntryForEachCluster, NEW d \in Dirs, dirty \subseteq Dirs \X TableIndex,
         Host(tbl, data, used), Session(Before, tbl, dirty, data, unsent, used, past)
  PROVE  Session(Interpreted(d), tbl, {y \in dirty : y[1] # d}, data, unsent, used, past)
<1> DEFINE Left(k) == dirty \ ({d} \X (1..k))
<1>0. Before \in Device /\ tbl \in [Dirs -> Table] /\ TableSlots \in Nat
  BY SizesAssumption DEF Session, Host
<1>1. PICK f : /\ f[0] = Before /\ Interpreted(d) = f[TableSlots]
               /\ \A k \in 1..TableSlots : f[k] = Handle(f[k - 1], d, tbl[d][k])
  BY <1>0, PassBySlots
<1> DEFINE S == {k \in 0..TableSlots : Session(f[k], tbl, Left(k), data, unsent, used, past)}
<1>2. 0 \in S
  <2>1. Left(0) = dirty
    OBVIOUS
  <2> HIDE DEF Left
  <2> QED
    BY <1>0, <1>1, <2>1
<1>3. ASSUME NEW k \in 0..TableSlots - 1, k \in S PROVE k + 1 \in S
  <2>1. k + 1 \in 1..TableSlots /\ k + 1 \in 0..TableSlots /\ (k + 1) - 1 = k /\ k + 1 \in TableIndex
    BY <1>0 DEF TableIndex
  <2>2. f[k + 1] = Handle(f[k], d, tbl[d][k + 1])
    BY <1>1, <2>1
  <2>3. Left(k) \ {<<d, k + 1>>} = Left(k + 1)
    <3>1. 1..k + 1 = (1..k) \cup {k + 1}
      BY <1>0
    <3>2. \A y : y \in {d} \X (1..k + 1) <=> y \in {d} \X (1..k) \/ y = <<d, k + 1>>
      BY <3>1
    <3> QED
      BY <3>2
  <2>4. Session(f[k], tbl, Left(k), data, unsent, used, past)
    BY <1>3
  <2> HIDE DEF Left
  <2>5. Session(f[k + 1], tbl, Left(k) \ {<<d, k + 1>>}, data, unsent, used, past)
    BY <2>1, <2>2, <2>4, HandleKeepsSession
  <2> QED
    BY <2>1, <2>3, <2>5
<1>4. TableSlots \in S
  <2> HIDE DEF S
  <2>1. 0..TableSlots \subseteq S
    BY <1>0, <1>2, <1>3, CountFromZero
  <2> QED
    BY <1>0, <2>1
<1>5. Left(TableSlots) = {y \in dirty : y[1] # d}
  BY DEF TableIndex
<1> HIDE DEF Left
<1> QED
  BY <1>1, <1>4, <1>5

\* Written again, a table changes no file.
LEMMA CleanPass ==
  ASSUME EntryForEachCluster, NEW d \in Dirs, \A k \in TableIndex : <<d, k>> \notin dirty,
         Host(tbl, data, used), Session(Before, tbl, dirty, data, unsent, used, past)
  PROVE  SameFiles(Before, Interpreted(d))
<1>0. Before \in Device /\ tbl \in [Dirs -> Table] /\ TableSlots \in Nat
  BY SizesAssumption DEF Session, Host
<1>1. PICK f : /\ f[0] = Before /\ Interpreted(d) = f[TableSlots]
               /\ \A k \in 1..TableSlots : f[k] = Handle(f[k - 1], d, tbl[d][k])
  BY <1>0, PassBySlots
<1> DEFINE S == {k \in 0..TableSlots : Session(f[k], tbl, dirty, data, unsent, used, past) /\ SameFiles(Before, f[k])}
<1>2. 0 \in S
  BY <1>0, <1>1 DEF SameFiles
<1>3. ASSUME NEW k \in 0..TableSlots - 1, k \in S PROVE k + 1 \in S
  <2>1. k + 1 \in 1..TableSlots /\ k + 1 \in 0..TableSlots /\ (k + 1) - 1 = k /\ k + 1 \in TableIndex
    BY <1>0 DEF TableIndex
  <2>2. f[k + 1] = Handle(f[k], d, tbl[d][k + 1])
    BY <1>1, <2>1
  <2>3. dirty \ {<<d, k + 1>>} = dirty /\ <<d, k + 1>> \notin dirty
    BY <2>1
  <2>4. Session(f[k], tbl, dirty, data, unsent, used, past) /\ SameFiles(Before, f[k])
    BY <1>3
  <2>5. Session(f[k + 1], tbl, dirty \ {<<d, k + 1>>}, data, unsent, used, past)
    BY <2>1, <2>2, <2>4, HandleKeepsSession
  <2>6. SameFiles(f[k], f[k + 1])
    BY <2>1, <2>2, <2>3, <2>4, CleanHandled
  <2>7. SameFiles(Before, f[k + 1])
    BY <2>4, <2>6 DEF SameFiles
  <2> QED
    BY <2>1, <2>3, <2>5, <2>7
<1>4. TableSlots \in S
  <2> HIDE DEF S
  <2>1. 0..TableSlots \subseteq S
    BY <1>0, <1>2, <1>3, CountFromZero
  <2> QED
    BY <1>0, <2>1
<1> QED
  BY <1>1, <1>4

-----------------------------------------------------------------------------
(* Data written, and the eject.                                             *)

\* Only the entries matter to where the files are.
LEMMA SameEntries ==
  ASSUME NEW v, NEW w, NEW t, NEW dr, NEW pa, w.entries = v.entries
  PROVE  /\ EntriesApart(v) => EntriesApart(w)
         /\ Follows(v, t, dr, pa) => Follows(w, t, dr, pa)
         /\ Gone(v, t, dr, pa) => Gone(w, t, dr, pa)
         /\ ErasesDone(v, t, dr) => ErasesDone(w, t, dr)
         /\ Replaced(v, t) => Replaced(w, t)
         /\ Untracked(v, t, dr) => Untracked(w, t, dr)
BY DEF EntriesApart, Follows, Gone, ErasesDone, Replaced, Untracked, NoPath, NoStart

\* The data of a tracked file's cluster.
LEMMA TrackedDataArrives ==
  ASSUME NEW v, NEW t, NEW dr, NEW x, NEW u, NEW us, NEW pa, Host(t, x, us), Session(v, t, dr, x, u, us, pa),
         NEW c \in u, c \in us, NEW w \in Device, w.entries = v.entries, w.staged = v.staged,
         NEW i \in DOMAIN v.entries, v.entries[i].start = c,
         w.disk[PathOf(v.entries[i])] = Over(x[c], v.disk[PathOf(v.entries[i])]),
         \A q \in Paths : q # PathOf(v.entries[i]) => w.disk[q] = v.disk[q]
  PROVE  Session(w, t, dr, x, u \ {c}, us, pa)
<1> DEFINE p == PathOf(v.entries[i])
<1>0. /\ v \in Device /\ EntriesApart(v) /\ Stored(v, us) /\ Listed(v) /\ InSync(v, t, dr, x, u)
      /\ Claimable(v, t, x, u) /\ Fresh(v, us)
  BY DEF Session
<1>1. \A j \in DOMAIN v.entries : PathOf(v.entries[j]) \in Paths
  BY <1>0, DeviceTyped
<1>2. v.disk[p] \in Bytes /\ x[c] \in Bytes /\ c \in Clusters
  BY <1>0 DEF Stored, Host
<1>3. w.disk[p] \in Bytes
  BY <1>2, OverBytes
<1>4. \A j \in DOMAIN v.entries : j # i => PathOf(v.entries[j]) # p /\ v.entries[j].start # c
                                            /\ w.disk[PathOf(v.entries[j])] = v.disk[PathOf(v.entries[j])]
  BY <1>0, <1>1 DEF EntriesApart
<1>5. Stored(w, us)
  BY <1>0, <1>3, <1>4 DEF Stored
<1>6. Listed(w)
  <2>1. \A q \in Paths : w.disk[q] # Absent => v.disk[q] # Absent
    BY <1>2, BytesTyped
  <2> QED
    BY <1>0, <2>1 DEF Listed, NoPath
<1>7. InSync(w, t, dr, x, u \ {c})
  <2> SUFFICES ASSUME NEW j \in DOMAIN w.entries, NEW d \in Dirs, NEW k \in TableIndex,
                      LiveAt(t, d, k), t[d][k].cluster = w.entries[j].start
               PROVE  IF PathAt(t, d, k) = PathOf(w.entries[j])
                      THEN InPlace(w.entries[j].size, t[d][k].size, <<d, k>> \in dr,
                                   Due(t[d][k].cluster, x, u \ {c}, w.disk[PathOf(w.entries[j])]), x[t[d][k].cluster])
                      ELSE /\ t[d][k].cluster \notin u \ {c} /\ w.disk[PathOf(w.entries[j])] = x[t[d][k].cluster]
                           /\ w.entries[j].size \in {0, t[d][k].size}
    BY DEF InSync
  <2>1. IF PathAt(t, d, k) = PathOf(v.entries[j])
        THEN InPlace(v.entries[j].size, t[d][k].size, <<d, k>> \in dr,
                     Due(t[d][k].cluster, x, u, v.disk[PathOf(v.entries[j])]), x[t[d][k].cluster])
        ELSE /\ t[d][k].cluster \notin u /\ v.disk[PathOf(v.entries[j])] = x[t[d][k].cluster]
             /\ v.entries[j].size \in {0, t[d][k].size}
    BY <1>0 DEF InSync
  <2>2. CASE j # i
    <3>1. w.disk[PathOf(v.entries[j])] = v.disk[PathOf(v.entries[j])] /\ t[d][k].cluster # c
      BY <1>4, <2>2
    <3>2. Due(t[d][k].cluster, x, u \ {c}, v.disk[PathOf(v.entries[j])])
            = Due(t[d][k].cluster, x, u, v.disk[PathOf(v.entries[j])])
      BY <3>1 DEF Due
    <3> QED
      BY <2>1, <3>1, <3>2
  <2>3. CASE j = i
    <3>1. t[d][k].cluster = c /\ PathAt(t, d, k) = p
      BY <2>1, <2>3
    <3>2. Due(c, x, u \ {c}, w.disk[p]) = Due(c, x, u, v.disk[p])
      BY DEF Due
    <3> QED
      BY <2>1, <2>3, <3>1, <3>2
  <2> QED
    BY <2>2, <2>3
<1>8. Claimable(w, t, x, u \ {c})
  <2>1. \A b : b # c /\ NoStart(w, b) => NoStart(v, b) /\ DueStaged(b, x, u \ {c}, w.staged[b]) = DueStaged(b, x, u, v.staged[b])
    BY DEF NoStart, DueStaged
  <2>2. \A b : NoStart(w, b) => b # c
    BY DEF NoStart
  <2> QED
    <3>1. ASSUME NEW f \in Dirs, NEW l \in TableIndex,
                 LiveAt(t, f, l), t[f][l].name \notin DotNames, NoStart(w, t[f][l].cluster)
          PROVE  /\ t[f][l].cluster # c /\ NoStart(v, t[f][l].cluster)
                 /\ DueStaged(t[f][l].cluster, x, u \ {c}, w.staged[t[f][l].cluster])
                      = DueStaged(t[f][l].cluster, x, u, v.staged[t[f][l].cluster])
      BY <2>1, <2>2, <3>1
    <3> QED
      BY <1>0, <3>1 DEF Claimable
<1>9. Fresh(w, us)
  BY <1>0 DEF Fresh
<1> QED
  BY <1>5, <1>6, <1>7, <1>8, <1>9, SameEntries DEF Session

\* The data of another.
LEMMA StagedDataArrives ==
  ASSUME NEW v, NEW t, NEW dr, NEW x, NEW u, NEW us, NEW pa, Host(t, x, us), Session(v, t, dr, x, u, us, pa),
         NEW c \in u, c \in us, NEW w \in Device, w.entries = v.entries, w.disk = v.disk,
         \A i \in DOMAIN v.entries : v.entries[i].start = c => v.entries[i].deleted,
         w.staged[c] = IF v.staged[c] = Absent THEN x[c] ELSE Over(x[c], v.staged[c]),
         \A b \in Clusters \ {c} : w.staged[b] = v.staged[b]
  PROVE  Session(w, t, dr, x, u \ {c}, us, pa)
<1>0. /\ v \in Device /\ Stored(v, us) /\ Listed(v) /\ InSync(v, t, dr, x, u) /\ Follows(v, t, dr, pa)
      /\ Claimable(v, t, x, u) /\ Fresh(v, us) /\ us \subseteq Clusters
  BY DEF Session, Host
<1>1. x[c] \in Bytes /\ c \in Clusters /\ v.staged[c] \in Bytes \cup {Absent}
  BY <1>0 DEF Fresh, Host
<1>2. w.staged[c] \in Bytes /\ w.staged[c] # Absent
  BY <1>1, OverBytes, BytesTyped
<1>3. Stored(w, us) /\ Listed(w)
  BY <1>0 DEF Stored, Listed, NoPath
<1>4. InSync(w, t, dr, x, u \ {c})
  <2> SUFFICES ASSUME NEW j \in DOMAIN w.entries, NEW d \in Dirs, NEW k \in TableIndex,
                      LiveAt(t, d, k), t[d][k].cluster = w.entries[j].start
               PROVE  IF PathAt(t, d, k) = PathOf(w.entries[j])
                      THEN InPlace(w.entries[j].size, t[d][k].size, <<d, k>> \in dr,
                                   Due(t[d][k].cluster, x, u \ {c}, w.disk[PathOf(w.entries[j])]), x[t[d][k].cluster])
                      ELSE /\ t[d][k].cluster \notin u \ {c} /\ w.disk[PathOf(w.entries[j])] = x[t[d][k].cluster]
                           /\ w.entries[j].size \in {0, t[d][k].size}
    BY DEF InSync
  <2>1. IF PathAt(t, d, k) = PathOf(v.entries[j])
        THEN InPlace(v.entries[j].size, t[d][k].size, <<d, k>> \in dr,
                     Due(t[d][k].cluster, x, u, v.disk[PathOf(v.entries[j])]), x[t[d][k].cluster])
        ELSE /\ t[d][k].cluster \notin u /\ v.disk[PathOf(v.entries[j])] = x[t[d][k].cluster]
             /\ v.entries[j].size \in {0, t[d][k].size}
    BY <1>0 DEF InSync
  <2>2. t[d][k].cluster # c
    <3>1. PathAt(t, d, k) = PathOf(v.entries[j]) => ~v.entries[j].deleted
      BY <1>0 DEF Follows
    <3> QED
      BY <2>1, <3>1
  <2>3. Due(t[d][k].cluster, x, u \ {c}, v.disk[PathOf(v.entries[j])])
          = Due(t[d][k].cluster, x, u, v.disk[PathOf(v.entries[j])])
    BY <2>2 DEF Due
  <2> QED
    BY <2>1, <2>3
<1>5. Claimable(w, t, x, u \ {c})
  <2> SUFFICES ASSUME NEW d \in Dirs, NEW k \in TableIndex,
                      LiveAt(t, d, k), t[d][k].name \notin DotNames, NoStart(w, t[d][k].cluster)
               PROVE  LET b == t[d][k].cluster IN
                      /\ Cut(DueStaged(b, x, u \ {c}, w.staged[b]), t[d][k].size, x[b])
                      /\ b \notin u \ {c} => w.staged[b] # Absent
                      /\ b \in u \ {c} /\ t[d][k].name \in Kept => w.staged[b] = Absent
    BY DEF Claimable
  <2> DEFINE b == t[d][k].cluster
  <2>1. NoStart(v, b) /\ b \in Clusters
    BY LiveSlotTyped DEF NoStart
  <2>2. /\ Cut(DueStaged(b, x, u, v.staged[b]), t[d][k].size, x[b])
        /\ b \notin u => v.staged[b] # Absent
        /\ b \in u /\ t[d][k].name \in Kept => v.staged[b] = Absent
    BY <1>0, <2>1 DEF Claimable
  <2>3. CASE b = c
    <3>1. DueStaged(b, x, u \ {c}, w.staged[b]) = DueStaged(b, x, u, v.staged[b])
      BY <2>3 DEF DueStaged
    <3> QED
      BY <1>2, <2>2, <2>3, <3>1
  <2>4. CASE b # c
    <3>1. DueStaged(b, x, u \ {c}, w.staged[b]) = DueStaged(b, x, u, v.staged[b]) /\ w.staged[b] = v.staged[b]
      BY <2>1, <2>4 DEF DueStaged
    <3> QED
      BY <2>2, <2>4, <3>1
  <2> QED
    BY <2>3, <2>4
<1>6. Fresh(w, us)
  BY <1>0, <1>2 DEF Fresh
<1> QED
  BY <1>3, <1>4, <1>5, <1>6, SameEntries DEF Session

\* With nothing left to write, a path's file is the host's, be it none.
LEMMA SettledFile ==
  ASSUME NEW v, NEW t, NEW x, NEW us, NEW pa, Host(t, x, us), Session(v, t, {}, x, {}, us, pa),
         NEW d \in Dirs, NEW k \in TableIndex, LiveAt(t, d, k), t[d][k].name \in Kept
  PROVE  /\ v.disk[PathAt(t, d, k)] = x[t[d][k].cluster]
         /\ \A i \in DOMAIN v.entries : PathOf(v.entries[i]) = PathAt(t, d, k) => ~v.entries[i].deleted
<1>0. EntriesApart(v) /\ Follows(v, t, {}, pa) /\ Untracked(v, t, {}) /\ InSync(v, t, {}, x, {})
  BY DEF Session
<1>1. PICK i \in DOMAIN v.entries : v.entries[i].start = t[d][k].cluster
  BY <1>0 DEF Untracked, NoStart
<1>2. PathAt(t, d, k) = PathOf(v.entries[i]) /\ ~v.entries[i].deleted
  BY <1>0, <1>1 DEF Follows
<1>3. v.disk[PathAt(t, d, k)] = x[t[d][k].cluster]
  BY <1>0, <1>1, <1>2 DEF InSync, InPlace, Due
<1> QED
  BY <1>0, <1>2, <1>3 DEF EntriesApart

LEMMA SettledNone ==
  ASSUME NEW v, NEW t, NEW x, NEW us, NEW pa, Host(t, x, us), Session(v, t, {}, x, {}, us, pa),
         NEW i \in DOMAIN v.entries,
         \A d \in Dirs, k \in TableIndex : LiveAt(t, d, k) => PathAt(t, d, k) # PathOf(v.entries[i])
  PROVE  v.entries[i].deleted
<1>0. Follows(v, t, {}, pa) /\ Gone(v, t, {}, pa)
  BY DEF Session
<1>1. Unheld(t, v.entries[i].start)
  BY <1>0 DEF Unheld, Follows
<1> QED
  BY <1>0, <1>1 DEF Gone

-----------------------------------------------------------------------------
(* The invariant of a careful host's sessions.                              *)

\* The host creates, edits, deletes and renames files, in any order, but has
\* none of the habits HostOps gives a name to.
CarefulHost == HostOps \subseteq {"create", "edit", "delete", "rename"}

\* Between two sessions nothing is staged, and the files are the host's.
Rests ==
  /\ staged = [c \in Clusters |-> Absent]
  /\ \A p \in Paths : disk[p] # Absent => p[2] \in Kept /\ disk[p] \in Bytes
  /\ EjectedAsHostSawIt
CareInv ==
  /\ Before \in Device /\ dirty \subseteq Dirs \X TableIndex /\ unsent \subseteq used
  /\ EntriesApart(Before)
  /\ up => Host(tbl, data, used) /\ Session(Before, tbl, dirty, data, unsent, used, past)
  /\ ~up => Rests

LEMMA CareSeen ==
  ASSUME EntryForEachCluster, CareInv
  PROVE  TrackedApart /\ TrackedExists /\ RewriteHarmless /\ EjectedAsHostSawIt
<1>1. TrackedApart
  BY DEF CareInv, EntriesApart, Before, TrackedApart
<1>2. TrackedExists
  <2> SUFFICES ASSUME up, NEW i \in DOMAIN entries PROVE disk[PathOf(entries[i])] # Absent
    BY DEF TrackedExists
  <2>1. disk[PathOf(entries[i])] \in Bytes
    BY DEF CareInv, Session, Stored, Before
  <2> QED
    BY <2>1, BytesTyped
<1>3. RewriteHarmless
  <2> SUFFICES ASSUME up, NEW d \in Dirs, \A k \in TableIndex : <<d, k>> \notin dirty
               PROVE  LET again == Interpreted(d) IN
                      /\ again.disk = disk
                      /\ \A i \in DOMAIN entries :
                           /\ again.entries[i].deleted = entries[i].deleted
                           /\ PathOf(again.entries[i]) = PathOf(entries[i])
    BY DEF RewriteHarmless
  <2>1. SameFiles(Before, Interpreted(d))
    BY CleanPass DEF CareInv
  <2> QED
    BY <2>1 DEF SameFiles, Before
<1>4. EjectedAsHostSawIt
  BY DEF CareInv, Rests, EjectedAsHostSawIt
<1> QED
  BY <1>1, <1>2, <1>3, <1>4

LEMMA WriteTableCare ==
  ASSUME EntryForEachCluster, CareInv, NEW d \in Dirs, WriteTable(d)
  PROVE  CareInv'
<1> DEFINE v == Interpreted(d)
<1>1. /\ Before \in Device /\ dirty \subseteq Dirs \X TableIndex /\ unsent \subseteq used
      /\ Host(tbl, data, used) /\ Session(Before, tbl, dirty, data, unsent, used, past)
  BY DEF CareInv, WriteTable
<1>2. /\ up' = up /\ tbl' = tbl /\ data' = data /\ unsent' = unsent /\ past' = past /\ used' = used /\ up
      /\ dirty' = {y \in dirty : y[1] # d}
  BY DEF WriteTable
<1>3. Session(v, tbl, {y \in dirty : y[1] # d}, data, unsent, used, past)
  BY <1>1, PassKeepsSession
<1>4. entries' = v.entries /\ disk' = v.disk /\ staged' = v.staged
  BY DEF WriteTable
<1> HIDE DEF v
<1>5. v \in Device /\ EntriesApart(v)
  BY <1>3 DEF Session
<1>6. Before' = v
  <2>1. v = [entries |-> v.entries, disk |-> v.disk, staged |-> v.staged]
    BY <1>5 DEF Device
  <2> QED
    BY <1>4, <2>1 DEF Before
<1>7. Session(v, tbl', dirty', data', unsent', used', past') /\ Host(tbl', data', used')
  BY <1>1, <1>2, <1>3
<1> QED
  BY <1>1, <1>2, <1>5, <1>6, <1>7 DEF CareInv

LEMMA WriteDataCare ==
  ASSUME CareInv, NEW c \in Clusters, WriteData(c)
  PROVE  CareInv'
<1> DEFINE m == Locate(c)
<1>1. /\ Before \in Device /\ dirty \subseteq Dirs \X TableIndex /\ unsent \subseteq used
      /\ Host(tbl, data, used) /\ Session(Before, tbl, dirty, data, unsent, used, past)
      /\ entries \in Seq(EntryRecord) /\ disk \in [Paths -> File] /\ staged \in [Clusters -> File]
      /\ data \in [Clusters -> Bytes] /\ used \subseteq Clusters
  BY DEF CareInv, WriteData, Before, Device, Host
<1>2. /\ up' = up /\ tbl' = tbl /\ data' = data /\ past' = past /\ used' = used /\ up /\ dirty' = dirty
      /\ unsent' = unsent \ {c} /\ c \in unsent /\ c \in used /\ entries' = entries
  BY <1>1 DEF WriteData
<1>3. Finds(m, {i \in 1..Len(entries) : ~entries[i].deleted /\ entries[i].start = c})
  BY <1>1, Located
<1>0. \A w : w = Before => w.entries = entries /\ w.disk = disk /\ w.staged = staged
  BY DEF Before
<1>4. CASE m = 0
  <2>1. disk' = disk /\ staged' = [staged EXCEPT ![c] = IF staged[c] = Absent THEN data[c] ELSE Over(data[c], staged[c])]
    BY <1>4 DEF WriteData
  <2>2. staged' \in [Clusters -> File]
    <3>1. data[c] \in File /\ Over(data[c], staged[c]) \in File
      BY <1>1, BytesTyped, OverTyped
    <3> QED
      BY <1>1, <2>1, <3>1
  <2>3. Before' \in Device
    BY <1>1, <1>2, <2>1, <2>2 DEF Before, Device
  <2>4. /\ staged'[c] = IF staged[c] = Absent THEN data[c] ELSE Over(data[c], staged[c])
        /\ \A b \in Clusters \ {c} : staged'[b] = staged[b]
    BY <1>1, <2>1
  <2>5. \A i \in DOMAIN entries : entries[i].start = c => entries[i].deleted
    BY <1>1, <1>3, <1>4 DEF Finds
  <2>6. Session(Before', tbl, dirty, data, unsent \ {c}, used, past)
    <3> DEFINE w == Before'
    <3>1. w.entries = Before.entries /\ w.disk = Before.disk /\ w.staged = staged' /\ Before.staged = staged /\ Before.entries = entries
      BY <1>2, <2>1 DEF Before
    <3>2. w \in Device
      BY <2>3
    <3>3. w.staged[c] = IF Before.staged[c] = Absent THEN data[c] ELSE Over(data[c], Before.staged[c])
      BY <2>4, <3>1
    <3>4. \A b \in Clusters \ {c} : w.staged[b] = Before.staged[b]
      BY <2>4, <3>1
    <3>5. \A i \in DOMAIN Before.entries : Before.entries[i].start = c => Before.entries[i].deleted
      BY <2>5, <3>1
    <3> HIDE DEF w
    <3>6. Session(w, tbl, dirty, data, unsent \ {c}, used, past)
      BY <1>1, <1>2, <3>1, <3>2, <3>3, <3>4, <3>5, StagedDataArrives
    <3> QED
      BY <3>6 DEF w
  <2> QED
    BY <1>1, <1>2, <2>3, <2>6 DEF CareInv, Session
<1>5. CASE m # 0
  <2> DEFINE q == PathOf(entries[m])
  <2>1. /\ disk' = IF disk[q] = Absent THEN disk ELSE [disk EXCEPT ![q] = Over(data[c], disk[q])]
        /\ staged' = staged
    BY <1>5 DEF WriteData
  <2>2. m \in DOMAIN entries /\ entries[m].start = c /\ q \in Paths /\ disk[q] \in Bytes
    <3>1. m \in 1..Len(entries) /\ entries[m].start = c
      BY <1>3, <1>5 DEF Finds
    <3>2. m \in DOMAIN entries /\ entries[m] \in EntryRecord
      BY <1>1, <3>1
    <3>3. disk[q] \in Bytes
      BY <1>1, <3>2 DEF Session, Stored, Before
    <3> QED
      BY <3>1, <3>2, <3>3, PathTyped
  <2> HIDE DEF m
  <2>3. Over(data[c], disk[q]) \in Bytes /\ Over(data[c], disk[q]) \in File /\ disk[q] # Absent
    BY <1>1, <2>2, OverBytes, BytesTyped
  <2>4. /\ disk' \in [Paths -> File] /\ disk'[q] = Over(data[c], disk[q])
        /\ \A p \in Paths : p # q => disk'[p] = disk[p]
    <3> HIDE DEF q
    <3> QED
      BY <1>1, <2>1, <2>2, <2>3
  <2>5. Before' \in Device
    BY <1>1, <1>2, <2>1, <2>4 DEF Before, Device
  <2>6. Session(Before', tbl, dirty, data, unsent \ {c}, used, past)
    <3> DEFINE w == Before'
               v == Before
    <3>1. w.entries = v.entries /\ w.disk = disk' /\ w.staged = v.staged /\ v.disk = disk /\ v.entries = entries
      BY <1>2, <2>1 DEF Before
    <3>2. w \in Device /\ m \in DOMAIN v.entries /\ v.entries[m].start = c /\ PathOf(v.entries[m]) = q
      BY <2>2, <2>5, <3>1
    <3>3. w.disk[PathOf(v.entries[m])] = Over(data[c], v.disk[PathOf(v.entries[m])])
      BY <2>4, <3>1, <3>2
    <3>4. \A p \in Paths : p # PathOf(v.entries[m]) => w.disk[p] = v.disk[p]
      BY <2>4, <3>1, <3>2
    <3>5. Host(tbl, data, used) /\ Session(v, tbl, dirty, data, unsent, used, past)
      BY <1>1
    <3> HIDE DEF w, v
    <3>6. Session(w, tbl, dirty, data, unsent \ {c}, used, past)
      BY <1>2, <3>1, <3>2, <3>3, <3>4, <3>5, TrackedDataArrives
    <3> QED
      BY <3>6 DEF w
  <2> QED
    BY <1>1, <1>2, <2>5, <2>6 DEF CareInv, Session
<1> QED
  BY <1>4, <1>5

\* The eject executes the deletes the host meant, and no others.
LEMMA EjectCare ==
  ASSUME CareInv, Eject
  PROVE  CareInv'
<1>1. /\ Before \in Device /\ dirty \subseteq Dirs \X TableIndex /\ unsent \subseteq used /\ EntriesApart(Before)
      /\ Host(tbl, data, used) /\ Session(Before, tbl, dirty, data, unsent, used, past)
      /\ entries \in Seq(EntryRecord) /\ disk \in [Paths -> File] /\ staged \in [Clusters -> File]
  BY DEF CareInv, Eject, Before, Device
<1>2. /\ ~up' /\ tbl' = tbl /\ data' = data /\ past' = past /\ used' = used /\ dirty' = dirty
      /\ unsent' = unsent /\ entries' = entries /\ disk' = Flushed /\ staged' = [c \in Clusters |-> Absent]
  BY DEF Eject
<1>3. /\ disk' \in [Paths -> File] /\ \A p \in Paths : disk'[p] \in {Absent, disk[p]}
      /\ \A p \in Paths : (\A i \in DOMAIN entries : PathOf(entries[i]) = p => ~entries[i].deleted) => disk'[p] = disk[p]
      /\ \A i \in DOMAIN entries : PathOf(entries[i]) \in Paths /\ entries[i].deleted => disk'[PathOf(entries[i])] = Absent
  BY <1>1, <1>2, ContentTyped DEF Flushed
<1>4. Before' \in Device /\ EntriesApart(Before')
  BY <1>1, <1>2, <1>3, ContentTyped DEF Before, Device, EntriesApart
<1>5. ASSUME NEW p \in Paths, disk[p] # Absent
      PROVE  \E i \in DOMAIN entries : PathOf(entries[i]) = p /\ entries[i].name = p[2] /\ p[2] \in Kept /\ disk[p] \in Bytes
  <2>1. PICK i \in DOMAIN entries : PathOf(entries[i]) = p
    BY <1>1, <1>5 DEF Session, Listed, NoPath, Before
  <2>2. entries[i].name \in Kept /\ disk[p] \in Bytes
    BY <1>1, <2>1 DEF Session, Stored, Before
  <2>3. entries[i].name = p[2]
    BY <2>1 DEF PathOf
  <2> QED
    BY <2>1, <2>2, <2>3
<1>6. \A p \in Paths : disk'[p] # Absent => p[2] \in Kept /\ disk'[p] \in Bytes
  BY <1>3, <1>5
<1>7. ASSUME dirty = {}, unsent = {}, NEW p \in Dirs \X Kept
      PROVE  disk'[p] = HostFile(p)'
  <2> DEFINE d == p[1]
             slots == {k \in Live(tbl, d) : tbl[d][k].name = p[2]}
             k == CHOOSE j \in slots : TRUE
  <2>0. p \in Paths /\ d \in Dirs /\ p = <<d, p[2]>> /\ p[2] \in Kept
    BY DEF Paths, Kept
  <2>1. Session(Before, tbl, {}, data, {}, used, past)
    BY <1>1, <1>7
  <2>2. HostFile(p)' = IF slots = {} THEN Absent ELSE IF tbl[d][k].cluster = 0 THEN <<>> ELSE data[tbl[d][k].cluster]
    BY <1>2 DEF HostFile, Live
  <2>3. CASE slots = {}
    <3>1. \A e \in Dirs, j \in TableIndex : LiveAt(tbl, e, j) => PathAt(tbl, e, j) # p
      BY <2>0, <2>3 DEF Live, LiveAt, PathAt
    <3>2. CASE disk[p] = Absent
      BY <1>3, <2>0, <2>2, <2>3, <3>2
    <3>3. CASE disk[p] # Absent
      <4>1. PICK i \in DOMAIN entries : PathOf(entries[i]) = p
        BY <1>5, <2>0, <3>3
      <4>2. entries[i].deleted
        <5> DEFINE v == Before
        <5>1. v.entries = entries
          BY DEF Before
        <5>2. Session(v, tbl, {}, data, {}, used, past)
          BY <2>1
        <5> HIDE DEF v
        <5>3. i \in DOMAIN v.entries /\ \A e \in Dirs, j \in TableIndex : LiveAt(tbl, e, j) => PathAt(tbl, e, j) # PathOf(v.entries[i])
          BY <3>1, <4>1, <5>1
        <5>4. v.entries[i].deleted
          BY <1>1, <5>2, <5>3, SettledNone
        <5> QED
          BY <5>1, <5>4
      <4> QED
        BY <1>3, <2>0, <2>2, <2>3, <4>1, <4>2
    <3> QED
      BY <3>2, <3>3
  <2>4. CASE slots # {}
    <3>1. k \in slots
      BY <2>4
    <3> HIDE DEF k
    <3>2. k \in TableIndex /\ LiveAt(tbl, d, k) /\ tbl[d][k].name = p[2] /\ PathAt(tbl, d, k) = p
      BY <2>0, <3>1 DEF Live, LiveAt, PathAt
    <3>3. tbl[d][k].cluster # 0
      BY <1>1, <2>0, <3>2, LiveSlotTyped
    <3>4. /\ disk[p] = data[tbl[d][k].cluster]
          /\ \A i \in DOMAIN entries : PathOf(entries[i]) = p => ~entries[i].deleted
      <4> DEFINE v == Before
      <4>1. v.entries = entries /\ v.disk = disk
        BY DEF Before
      <4>2. Session(v, tbl, {}, data, {}, used, past)
        BY <2>1
      <4> HIDE DEF v, d
      <4>3. /\ v.disk[PathAt(tbl, d, k)] = data[tbl[d][k].cluster]
            /\ \A i \in DOMAIN v.entries : PathOf(v.entries[i]) = PathAt(tbl, d, k) => ~v.entries[i].deleted
        BY <1>1, <2>0, <3>2, <4>2, SettledFile
      <4> QED
        BY <3>2, <4>1, <4>3
    <3> QED
      BY <1>3, <2>0, <2>2, <2>4, <3>3, <3>4
  <2> QED
    BY <2>3, <2>4
<1>8. EjectedAsHostSawIt'
  BY <1>2, <1>7 DEF EjectedAsHostSawIt, Settled
<1> QED
  BY <1>1, <1>2, <1>4, <1>6, <1>8 DEF CareInv, Rests

-----------------------------------------------------------------------------
(* The host's operations.  t2, x2 and pa2 are its tables, data and past     *)
(* afterwards; the device has heard of nothing yet.                         *)

\* Only the slots X of the tables change.
Besides(X, t, t2) == \A d \in Dirs, k \in TableIndex : <<d, k>> \notin X => t2[d][k] = t[d][k]

\* An entry whose path no live file has keeps it only until the host deletes
\* the file, or the device hears of its move.
LEMMA FreePath ==
  ASSUME NEW v, NEW t, NEW dr, NEW x, NEW u, NEW us, NEW pa, Session(v, t, dr, x, u, us, pa),
         NEW p, \A d \in Dirs, k \in TableIndex : LiveAt(t, d, k) => PathAt(t, d, k) # p,
         <<p, "deleted">> \in pa \/ <<p, "moved">> \in pa => dr = {},
         NEW i \in DOMAIN v.entries, PathOf(v.entries[i]) = p
  PROVE  Unheld(t, v.entries[i].start) /\ v.entries[i].deleted /\ <<p, "deleted">> \in pa
<1>0. Follows(v, t, dr, pa) /\ Gone(v, t, dr, pa)
  BY DEF Session
<1>1. ASSUME NEW d \in Dirs, NEW k \in TableIndex, LiveAt(t, d, k), t[d][k].cluster = v.entries[i].start
      PROVE  FALSE
  <2>1. <<d, k>> \in dr /\ <<p, "moved">> \in pa
    BY <1>0, <1>1 DEF Follows
  <2> QED
    BY <2>1
<1>2. Unheld(t, v.entries[i].start)
  BY <1>1 DEF Unheld
<1>3. /\ <<p, "deleted">> \in pa
      /\ v.entries[i].deleted \/ \E d \in Dirs, k \in TableIndex : <<d, k>> \in dr /\ Erases(d, t[d][k], v.entries[i])
  BY <1>0, <1>2 DEF Gone
<1>4. dr = {}
  BY <1>3
<1> QED
  BY <1>2, <1>3, <1>4

\* A new file z, named nm, in the slot <<d, k>> and in a cluster c of its own.
Creates(t, dr, us, pa, x, d, k, nm, c, z, t2, x2, pa2) ==
  /\ d \in Dirs /\ k \in TableIndex /\ ~LiveAt(t, d, k) /\ <<d, k>> \notin dr
  /\ c \in Clusters /\ c \notin us /\ z \in Bytes /\ Len(z) # 0
  /\ t2 \in [Dirs -> Table] /\ t2[d][k] = LiveSlot(nm, c, Len(z)) /\ Besides({<<d, k>>}, t, t2) /\ ~Ambiguous(t2)
  /\ \A e \in Dirs, j \in TableIndex : LiveAt(t, e, j) => PathAt(t, e, j) # <<d, nm>>
  /\ <<<<d, nm>>, "deleted">> \in pa \/ <<<<d, nm>>, "moved">> \in pa => dr = {}
  /\ x2 \in [Clusters -> Bytes] /\ x2[c] = z /\ \A b \in Clusters \ {c} : x2[b] = x[b]
  /\ pa \subseteq pa2

LEMMA CreateKeeps ==
  ASSUME NEW v, NEW t, NEW dr, NEW x, NEW u, NEW us, NEW pa, Host(t, x, us), Session(v, t, dr, x, u, us, pa),
         NEW d, NEW k, NEW nm, NEW c, NEW z, NEW t2, NEW x2, NEW pa2,
         Creates(t, dr, us, pa, x, d, k, nm, c, z, t2, x2, pa2)
  PROVE  Host(t2, x2, us \cup {c}) /\ Session(v, t2, dr \cup {<<d, k>>}, x2, u \cup {c}, us \cup {c}, pa2)
<1> USE DEF Creates
<1> DEFINE dr2 == dr \cup {<<d, k>>}
           u2 == u \cup {c}
           us2 == us \cup {c}
<1>0. /\ v \in Device /\ EntriesApart(v) /\ Stored(v, us) /\ Listed(v)
      /\ Follows(v, t, dr, pa) /\ Gone(v, t, dr, pa) /\ ErasesDone(v, t, dr)
      /\ Replaced(v, t) /\ Untracked(v, t, dr)
      /\ InSync(v, t, dr, x, u) /\ Claimable(v, t, x, u) /\ Fresh(v, us)
      /\ HostApart(t) /\ HostUsed(t, us) /\ HostSized(t, x) /\ us \subseteq Clusters
  BY DEF Session, Host
<1>1. LiveAt(t2, d, k) /\ t2[d][k].name = nm /\ t2[d][k].cluster = c /\ t2[d][k].size = Len(z) /\ t2[d][k].mark = "live"
  BY DEF LiveSlot, LiveAt
<1>2. \A e \in Dirs, j \in TableIndex :
        \/ e = d /\ j = k
        \/ t2[e][j] = t[e][j] /\ (LiveAt(t2, e, j) <=> LiveAt(t, e, j)) /\ PathAt(t2, e, j) = PathAt(t, e, j)
  BY DEF Besides, LiveAt, PathAt
<1>20. \A e \in Dirs, j \in TableIndex : (e = d /\ j = k) \/ (<<e, j>> \in dr2 <=> <<e, j>> \in dr)
  OBVIOUS
<1>21. \A e \in Dirs, j \in TableIndex : t[e][j].mark # "free" => t[e][j].cluster \in us
  BY <1>0 DEF HostUsed
<1>22. \A e \in Dirs, j \in TableIndex :
         LiveAt(t, e, j) => t[e][j].cluster \in us /\ t[e][j].cluster # c /\ PathAt(t, e, j) # <<d, nm>>
  BY <1>21 DEF LiveAt
<1>23. \A b \in us : x2[b] = x[b] /\ (b \in u2 <=> b \in u)
  BY <1>0
<1>3. \A i \in DOMAIN v.entries : v.entries[i].start \in us /\ v.entries[i].start # c
  BY <1>0 DEF Stored
<1>4. PathAt(t2, d, k) = <<d, nm>>
  BY <1>1 DEF PathAt
<1>5. \A b : b # c => (Unheld(t2, b) <=> Unheld(t, b))
  BY <1>1, <1>2 DEF Unheld
<1> HIDE DEF dr2, u2, us2
<1>6. /\ <<d, k>> \in dr2 /\ dr \subseteq dr2 /\ c \in u2 /\ c \in us2 /\ us \subseteq us2 /\ us2 \subseteq Clusters
      /\ \A b \in us2 : b \in us \/ b = c
  BY <1>0 DEF dr2, u2, us2
<1>7. Host(t2, x2, us2)
  <2>1. HostApart(t2)
    <3>1. ASSUME NEW e \in Dirs, NEW f \in Dirs, NEW j \in TableIndex, NEW l \in TableIndex,
                 LiveAt(t2, e, j), LiveAt(t2, f, l), <<e, j>> # <<f, l>>
          PROVE  t2[e][j].cluster # t2[f][l].cluster /\ PathAt(t2, e, j) # PathAt(t2, f, l)
      <4>1. CASE e = d /\ j = k
        BY <1>1, <1>2, <1>4, <1>22, <3>1, <4>1
      <4>2. CASE f = d /\ l = k
        BY <1>1, <1>2, <1>4, <1>22, <3>1, <4>2
      <4>3. CASE ~(e = d /\ j = k) /\ ~(f = d /\ l = k)
        BY <1>0, <1>2, <3>1, <4>3 DEF HostApart
      <4> QED
        BY <4>1, <4>2, <4>3
    <3> QED
      BY <3>1 DEF HostApart
  <2>2. HostUsed(t2, us2)
    BY <1>1, <1>2, <1>6, <1>21 DEF HostUsed
  <2>3. HostSized(t2, x2)
    <3>1. ASSUME NEW e \in Dirs, NEW j \in TableIndex, LiveAt(t2, e, j)
          PROVE  t2[e][j].size = Len(x2[t2[e][j].cluster])
      <4>1. CASE e = d /\ j = k
        BY <1>1, <4>1
      <4>2. CASE ~(e = d /\ j = k)
        BY <1>0, <1>2, <1>22, <1>23, <3>1, <4>2 DEF HostSized
      <4> QED
        BY <4>1, <4>2
    <3> QED
      BY <3>1 DEF HostSized
  <2> QED
    BY <1>6, <2>1, <2>2, <2>3 DEF Host
<1>8. Stored(v, us2) /\ Fresh(v, us2)
  BY <1>0, <1>6 DEF Stored, Fresh
<1>9. Follows(v, t2, dr2, pa2)
  <2>1. ASSUME NEW i \in DOMAIN v.entries, NEW e \in Dirs, NEW j \in TableIndex,
               LiveAt(t2, e, j), t2[e][j].cluster = v.entries[i].start
        PROVE  IF PathAt(t2, e, j) = PathOf(v.entries[i]) THEN ~v.entries[i].deleted
               ELSE /\ <<e, j>> \in dr2 /\ t2[e][j].name \in Kept /\ NoPath(v, PathAt(t2, e, j))
                    /\ <<PathOf(v.entries[i]), "moved">> \in pa2
    <3>1. ~(e = d /\ j = k)
      BY <1>1, <1>3, <2>1
    <3> QED
      BY <1>0, <1>2, <1>6, <2>1, <3>1 DEF Follows
  <2> QED
    BY <2>1 DEF Follows
<1>10. Gone(v, t2, dr2, pa2)
  <2>1. ASSUME NEW i \in DOMAIN v.entries, Unheld(t2, v.entries[i].start)
        PROVE  /\ <<PathOf(v.entries[i]), "deleted">> \in pa2
               /\ v.entries[i].deleted \/ \E e \in Dirs, j \in TableIndex : <<e, j>> \in dr2 /\ Erases(e, t2[e][j], v.entries[i])
    <3>1. Unheld(t, v.entries[i].start)
      BY <1>3, <1>5, <2>1
    <3>2. /\ <<PathOf(v.entries[i]), "deleted">> \in pa
          /\ v.entries[i].deleted \/ \E e \in Dirs, j \in TableIndex : <<e, j>> \in dr /\ Erases(e, t[e][j], v.entries[i])
      BY <1>0, <3>1 DEF Gone
    <3>3. \A e \in Dirs, j \in TableIndex : <<e, j>> \in dr => <<e, j>> \in dr2 /\ t2[e][j] = t[e][j]
      BY <1>2, <1>6
    <3> QED
      BY <3>2, <3>3
  <2> QED
    BY <2>1 DEF Gone
<1>11. ErasesDone(v, t2, dr2)
  <2>1. ASSUME NEW i \in DOMAIN v.entries, NEW e \in Dirs, NEW j \in TableIndex, Erases(e, t2[e][j], v.entries[i])
        PROVE  v.entries[i].deleted \/ <<e, j>> \in dr2
    <3>1. ~(e = d /\ j = k)
      BY <1>1, <2>1 DEF Erases
    <3>2. t2[e][j] = t[e][j]
      BY <1>2, <3>1
    <3>3. v.entries[i].deleted \/ <<e, j>> \in dr
      BY <1>0, <2>1, <3>2 DEF ErasesDone
    <3> QED
      BY <1>6, <3>3
  <2> QED
    BY <2>1 DEF ErasesDone
<1>12. Replaced(v, t2)
  <2>1. ASSUME NEW i \in DOMAIN v.entries, NEW e \in Dirs, NEW j \in TableIndex, LiveAt(t2, e, j),
               PathAt(t2, e, j) = PathOf(v.entries[i]), t2[e][j].cluster # v.entries[i].start
        PROVE  v.entries[i].deleted /\ Unheld(t2, v.entries[i].start) /\ NoStart(v, t2[e][j].cluster)
    <3>1. CASE e = d /\ j = k
      <4>1. PathOf(v.entries[i]) = <<d, nm>> /\ t2[e][j].cluster = c
        BY <1>1, <1>4, <2>1, <3>1
      <4>2. Unheld(t, v.entries[i].start) /\ v.entries[i].deleted
        BY <4>1, FreePath
      <4> QED
        BY <1>3, <1>5, <4>1, <4>2 DEF NoStart
    <3>2. CASE ~(e = d /\ j = k)
      <4>1. v.entries[i].deleted /\ Unheld(t, v.entries[i].start) /\ NoStart(v, t[e][j].cluster)
        BY <1>0, <1>2, <2>1, <3>2 DEF Replaced
      <4> QED
        BY <1>2, <1>3, <1>5, <2>1, <3>2, <4>1
    <3> QED
      BY <3>1, <3>2
  <2> QED
    BY <2>1 DEF Replaced
<1>13. Untracked(v, t2, dr2)
  BY <1>0, <1>2, <1>6 DEF Untracked
<1>14. InSync(v, t2, dr2, x2, u2)
  <2>1. ASSUME NEW i \in DOMAIN v.entries, NEW e \in Dirs, NEW j \in TableIndex,
               LiveAt(t2, e, j), t2[e][j].cluster = v.entries[i].start
        PROVE  ~(e = d /\ j = k)
    BY <1>1, <1>3, <2>1
  <2>2. \A b \in Clusters : b # c => \A held : Due(b, x2, u2, held) = Due(b, x, u, held)
    BY DEF Due, u2
  <2> QED
    <3>1. ASSUME NEW i \in DOMAIN v.entries, NEW e \in Dirs, NEW j \in TableIndex,
                 LiveAt(t2, e, j), t2[e][j].cluster = v.entries[i].start
          PROVE  IF PathAt(t2, e, j) = PathOf(v.entries[i])
                 THEN InPlace(v.entries[i].size, t2[e][j].size, <<e, j>> \in dr2,
                              Due(t2[e][j].cluster, x2, u2, v.disk[PathOf(v.entries[i])]), x2[t2[e][j].cluster])
                 ELSE /\ t2[e][j].cluster \notin u2 /\ v.disk[PathOf(v.entries[i])] = x2[t2[e][j].cluster]
                      /\ v.entries[i].size \in {0, t2[e][j].size}
      <4>1. ~(e = d /\ j = k)
        BY <2>1, <3>1
      <4>2. /\ t2[e][j] = t[e][j] /\ LiveAt(t, e, j) /\ PathAt(t2, e, j) = PathAt(t, e, j)
            /\ (<<e, j>> \in dr2 <=> <<e, j>> \in dr)
        BY <1>2, <1>20, <3>1, <4>1
      <4>3. /\ x2[t[e][j].cluster] = x[t[e][j].cluster] /\ (t[e][j].cluster \in u2 <=> t[e][j].cluster \in u)
            /\ \A held : Due(t[e][j].cluster, x2, u2, held) = Due(t[e][j].cluster, x, u, held)
        BY <1>0, <1>22, <1>23, <2>2, <4>2
      <4>4. IF PathAt(t, e, j) = PathOf(v.entries[i])
            THEN InPlace(v.entries[i].size, t[e][j].size, <<e, j>> \in dr,
                         Due(t[e][j].cluster, x, u, v.disk[PathOf(v.entries[i])]), x[t[e][j].cluster])
            ELSE /\ t[e][j].cluster \notin u /\ v.disk[PathOf(v.entries[i])] = x[t[e][j].cluster]
                 /\ v.entries[i].size \in {0, t[e][j].size}
        BY <1>0, <3>1, <4>2 DEF InSync
      <4>5. \A m, n, y, w : InPlace(m, n, <<e, j>> \in dr2, y, w) <=> InPlace(m, n, <<e, j>> \in dr, y, w)
        BY <4>2 DEF InPlace
      <4> QED
        BY <4>2, <4>3, <4>4, <4>5
    <3> QED
      BY <3>1 DEF InSync
<1>15. Claimable(v, t2, x2, u2)
  <2>1. \A b \in Clusters : b # c => DueStaged(b, x2, u2, v.staged[b]) = DueStaged(b, x, u, v.staged[b])
    BY DEF DueStaged, u2
  <2>2. v.staged[c] = Absent /\ DueStaged(c, x2, u2, v.staged[c]) = z
    BY <1>0, <1>6 DEF Fresh, DueStaged
  <2>3. Cut(z, Len(z), z)
    BY UpToBytes DEF Cut, Bytes
  <2>4. ASSUME NEW e \in Dirs, NEW j \in TableIndex,
               LiveAt(t2, e, j), t2[e][j].name \notin DotNames, NoStart(v, t2[e][j].cluster)
        PROVE  /\ Cut(DueStaged(t2[e][j].cluster, x2, u2, v.staged[t2[e][j].cluster]), t2[e][j].size, x2[t2[e][j].cluster])
               /\ t2[e][j].cluster \notin u2 => v.staged[t2[e][j].cluster] # Absent
               /\ t2[e][j].cluster \in u2 /\ t2[e][j].name \in Kept => v.staged[t2[e][j].cluster] = Absent
    <3>1. CASE e = d /\ j = k
      BY <1>1, <1>6, <2>2, <2>3, <3>1
    <3>2. CASE ~(e = d /\ j = k)
      <4>1. t2[e][j] = t[e][j] /\ LiveAt(t, e, j)
        BY <1>2, <2>4, <3>2
      <4>2. t[e][j].cluster \in us /\ t[e][j].cluster # c /\ t[e][j].cluster \in Clusters
        BY <1>0, <1>22, <4>1
      <4>3. /\ Cut(DueStaged(t[e][j].cluster, x, u, v.staged[t[e][j].cluster]), t[e][j].size, x[t[e][j].cluster])
            /\ t[e][j].cluster \notin u => v.staged[t[e][j].cluster] # Absent
            /\ t[e][j].cluster \in u /\ t[e][j].name \in Kept => v.staged[t[e][j].cluster] = Absent
        BY <1>0, <2>4, <4>1 DEF Claimable
      <4> QED
        BY <1>23, <2>1, <4>1, <4>2, <4>3
    <3> QED
      BY <3>1, <3>2
  <2> QED
    BY <2>4 DEF Claimable
<1>16. Session(v, t2, dr2, x2, u2, us2, pa2)
  BY <1>0, <1>8, <1>9, <1>10, <1>11, <1>12, <1>13, <1>14, <1>15 DEF Session
<1> QED
  BY <1>7, <1>16 DEF dr2, u2, us2

\* New content in the cluster of a file whose slot and data have been written.
Edits(t, dr, u, pa, x, d, k, c, z, t2, x2, pa2) ==
  /\ d \in Dirs /\ k \in TableIndex /\ LiveAt(t, d, k) /\ <<d, k>> \notin dr
  /\ c = t[d][k].cluster /\ c \notin u /\ z \in Bytes /\ Len(z) # 0
  /\ t2 \in [Dirs -> Table] /\ Besides({<<d, k>>}, t, t2) /\ ~Ambiguous(t2)
  /\ t2[d][k].mark = "live" /\ t2[d][k].name = t[d][k].name /\ t2[d][k].cluster = c /\ t2[d][k].size = Len(z)
  /\ x2 \in [Clusters -> Bytes] /\ x2[c] = z /\ \A b \in Clusters \ {c} : x2[b] = x[b]
  /\ pa \subseteq pa2

LEMMA EditKeeps ==
  ASSUME NEW v, NEW t, NEW dr, NEW x, NEW u, NEW us, NEW pa, Host(t, x, us), Session(v, t, dr, x, u, us, pa),
         NEW d, NEW k, NEW c, NEW z, NEW t2, NEW x2, NEW pa2, Edits(t, dr, u, pa, x, d, k, c, z, t2, x2, pa2)
  PROVE  Host(t2, x2, us \cup {c}) /\ Session(v, t2, dr \cup {<<d, k>>}, x2, u \cup {c}, us \cup {c}, pa2)
<1> USE DEF Edits
<1> DEFINE dr2 == dr \cup {<<d, k>>}
           u2 == u \cup {c}
<1>0. /\ v \in Device /\ EntriesApart(v) /\ Stored(v, us) /\ Listed(v)
      /\ Follows(v, t, dr, pa) /\ Gone(v, t, dr, pa) /\ ErasesDone(v, t, dr)
      /\ Replaced(v, t) /\ Untracked(v, t, dr)
      /\ InSync(v, t, dr, x, u) /\ Claimable(v, t, x, u) /\ Fresh(v, us)
      /\ HostApart(t) /\ HostUsed(t, us) /\ HostSized(t, x) /\ us \subseteq Clusters
  BY DEF Session, Host
<1>1. c \in us /\ c \in Clusters /\ us \cup {c} = us /\ t[d][k].size = Len(x[c]) /\ x[c] \in Bytes
  BY LiveSlotTyped
<1>2. \A e \in Dirs, j \in TableIndex :
        (e = d /\ j = k) \/ (t2[e][j] = t[e][j] /\ (<<e, j>> \in dr2 <=> <<e, j>> \in dr))
  BY DEF Besides
<1>3. \A e \in Dirs, j \in TableIndex :
        /\ t2[e][j].mark = t[e][j].mark /\ t2[e][j].name = t[e][j].name /\ t2[e][j].cluster = t[e][j].cluster
        /\ LiveAt(t2, e, j) <=> LiveAt(t, e, j)
        /\ PathAt(t2, e, j) = PathAt(t, e, j)
  BY <1>2 DEF LiveAt, PathAt
<1>4. \A e \in Dirs, j \in TableIndex :
        LiveAt(t, e, j) /\ ~(e = d /\ j = k) => /\ t[e][j].cluster \in us /\ t[e][j].cluster # c
  <2>1. \A e \in Dirs, j \in TableIndex : LiveAt(t, e, j) => t[e][j].cluster \in us
    BY <1>0 DEF HostUsed, LiveAt
  <2>2. \A e \in Dirs, j \in TableIndex : LiveAt(t, e, j) /\ ~(e = d /\ j = k) => t[e][j].cluster # c
    BY <1>0 DEF HostApart
  <2> QED
    BY <2>1, <2>2
<1>5. \A b \in us : b # c => x2[b] = x[b] /\ (b \in u2 <=> b \in u)
  BY <1>0
<1>6. <<d, k>> \in dr2 /\ dr \subseteq dr2 /\ c \in u2
  OBVIOUS
<1> HIDE DEF dr2, u2
<1>7. Host(t2, x2, us)
  <2>1. HostApart(t2)
    BY <1>0, <1>3 DEF HostApart
  <2>2. HostUsed(t2, us)
    BY <1>0, <1>3 DEF HostUsed
  <2>3. HostSized(t2, x2)
    <3>1. ASSUME NEW e \in Dirs, NEW j \in TableIndex, LiveAt(t2, e, j)
          PROVE  t2[e][j].size = Len(x2[t2[e][j].cluster])
      <4>1. CASE e = d /\ j = k
        BY <4>1
      <4>2. CASE ~(e = d /\ j = k)
        <5>1. t2[e][j] = t[e][j] /\ LiveAt(t, e, j)
          BY <1>2, <1>3, <3>1, <4>2
        <5>2. t[e][j].size = Len(x[t[e][j].cluster])
          BY <1>0, <5>1 DEF HostSized
        <5>3. x2[t[e][j].cluster] = x[t[e][j].cluster]
          BY <1>4, <1>5, <4>2, <5>1
        <5> QED
          BY <5>1, <5>2, <5>3
      <4> QED
        BY <4>1, <4>2
    <3> QED
      BY <3>1 DEF HostSized
  <2> QED
    BY <1>0, <2>1, <2>2, <2>3 DEF Host
<1>8. \A b : Unheld(t2, b) <=> Unheld(t, b)
  BY <1>3 DEF Unheld
<1>9. Follows(v, t2, dr2, pa2)
  <2>1. ASSUME NEW i \in DOMAIN v.entries, NEW e \in Dirs, NEW j \in TableIndex,
               LiveAt(t2, e, j), t2[e][j].cluster = v.entries[i].start
        PROVE  IF PathAt(t2, e, j) = PathOf(v.entries[i]) THEN ~v.entries[i].deleted
               ELSE /\ <<e, j>> \in dr2 /\ t2[e][j].name \in Kept /\ NoPath(v, PathAt(t2, e, j))
                    /\ <<PathOf(v.entries[i]), "moved">> \in pa2
    <3>1. LiveAt(t, e, j) /\ t[e][j].cluster = v.entries[i].start /\ PathAt(t2, e, j) = PathAt(t, e, j)
          /\ t2[e][j].name = t[e][j].name
      BY <1>3, <2>1
    <3>2. IF PathAt(t, e, j) = PathOf(v.entries[i]) THEN ~v.entries[i].deleted
          ELSE /\ <<e, j>> \in dr /\ t[e][j].name \in Kept /\ NoPath(v, PathAt(t, e, j))
               /\ <<PathOf(v.entries[i]), "moved">> \in pa
      BY <1>0, <3>1 DEF Follows
    <3> QED
      BY <1>6, <3>1, <3>2
  <2> QED
    BY <2>1 DEF Follows
<1>10. \A e \in Dirs, j \in TableIndex : \A y : Erases(e, t2[e][j], y) <=> Erases(e, t[e][j], y)
  BY <1>3 DEF Erases
<1>11. Gone(v, t2, dr2, pa2)
  <2>1. ASSUME NEW i \in DOMAIN v.entries, Unheld(t2, v.entries[i].start)
        PROVE  /\ <<PathOf(v.entries[i]), "deleted">> \in pa2
               /\ v.entries[i].deleted \/ \E e \in Dirs, j \in TableIndex : <<e, j>> \in dr2 /\ Erases(e, t2[e][j], v.entries[i])
    <3>1. /\ <<PathOf(v.entries[i]), "deleted">> \in pa
          /\ v.entries[i].deleted \/ \E e \in Dirs, j \in TableIndex : <<e, j>> \in dr /\ Erases(e, t[e][j], v.entries[i])
      BY <1>0, <1>8, <2>1 DEF Gone
    <3> QED
      BY <1>6, <1>10, <3>1
  <2> QED
    BY <2>1 DEF Gone
<1>12. ErasesDone(v, t2, dr2)
  BY <1>0, <1>6, <1>10 DEF ErasesDone
<1>13. Replaced(v, t2)
  BY <1>0, <1>3, <1>8 DEF Replaced
<1>14. Untracked(v, t2, dr2)
  BY <1>0, <1>3, <1>6 DEF Untracked
<1>15. InSync(v, t2, dr2, x2, u2)
  <2>1. ASSUME NEW i \in DOMAIN v.entries, NEW e \in Dirs, NEW j \in TableIndex,
               LiveAt(t2, e, j), t2[e][j].cluster = v.entries[i].start
        PROVE  IF PathAt(t2, e, j) = PathOf(v.entries[i])
               THEN InPlace(v.entries[i].size, t2[e][j].size, <<e, j>> \in dr2,
                            Due(t2[e][j].cluster, x2, u2, v.disk[PathOf(v.entries[i])]), x2[t2[e][j].cluster])
               ELSE /\ t2[e][j].cluster \notin u2 /\ v.disk[PathOf(v.entries[i])] = x2[t2[e][j].cluster]
                    /\ v.entries[i].size \in {0, t2[e][j].size}
    <3>0. LiveAt(t, e, j) /\ t[e][j].cluster = v.entries[i].start /\ PathAt(t2, e, j) = PathAt(t, e, j)
      BY <1>3, <2>1
    <3>1. IF PathAt(t, e, j) = PathOf(v.entries[i])
          THEN InPlace(v.entries[i].size, t[e][j].size, <<e, j>> \in dr,
                       Due(t[e][j].cluster, x, u, v.disk[PathOf(v.entries[i])]), x[t[e][j].cluster])
          ELSE /\ t[e][j].cluster \notin u /\ v.disk[PathOf(v.entries[i])] = x[t[e][j].cluster]
               /\ v.entries[i].size \in {0, t[e][j].size}
      BY <1>0, <3>0 DEF InSync
    <3>2. CASE ~(e = d /\ j = k)
      <4>1. t2[e][j] = t[e][j] /\ (<<e, j>> \in dr2 <=> <<e, j>> \in dr)
        BY <1>2, <3>2
      <4>2. x2[t[e][j].cluster] = x[t[e][j].cluster] /\ (t[e][j].cluster \in u2 <=> t[e][j].cluster \in u)
        BY <1>4, <1>5, <3>0, <3>2
      <4>3. \A held : Due(t[e][j].cluster, x2, u2, held) = Due(t[e][j].cluster, x, u, held)
        BY <4>2 DEF Due
      <4>4. \A m, n, y, w : InPlace(m, n, <<e, j>> \in dr2, y, w) <=> InPlace(m, n, <<e, j>> \in dr, y, w)
        BY <4>1 DEF InPlace
      <4> QED
        BY <3>0, <3>1, <4>1, <4>2, <4>3, <4>4
    <3>3. CASE e = d /\ j = k
      <4> DEFINE held == v.disk[PathOf(v.entries[i])]
                 es == v.entries[i].size
      <4>1. PathAt(t, d, k) = PathOf(v.entries[i])
        BY <1>0, <3>0, <3>3 DEF Follows
      <4>2. InPlace(es, Len(x[c]), FALSE, Due(c, x, u, held), x[c])
        BY <1>1, <3>1, <3>3, <4>1 DEF InPlace
      <4>3. held = x[c] /\ es \in {0, Len(held)}
        BY <4>2 DEF InPlace, Due
      <4>4. held \in Bytes /\ Len(held) \in Nat /\ Len(z) \in Nat /\ es \in Nat
        BY <1>1, <4>3 DEF Bytes
      <4>5. Due(c, x2, u2, held) = Over(z, held)
        BY <1>6 DEF Due
      <4>6. (Len(held) <= Len(z) => Over(z, held) = z) /\ UpTo(Over(z, held), Len(z)) = z
        BY <4>4, OverBytes
      <4> HIDE DEF held, es
      <4>7. InPlace(es, Len(z), TRUE, Over(z, held), z)
        BY <4>3, <4>4, <4>6 DEF InPlace, Cut
      <4>8. InPlace(es, Len(z), <<d, k>> \in dr2, Over(z, held), z)
        BY <1>6, <4>7 DEF InPlace
      <4> QED
        BY <3>0, <3>3, <4>1, <4>5, <4>8 DEF held, es
    <3> QED
      BY <3>2, <3>3
  <2> QED
    BY <2>1 DEF InSync
<1>16. Claimable(v, t2, x2, u2)
  <2>1. ASSUME NEW e \in Dirs, NEW j \in TableIndex,
               LiveAt(t2, e, j), t2[e][j].name \notin DotNames, NoStart(v, t2[e][j].cluster)
        PROVE  /\ Cut(DueStaged(t2[e][j].cluster, x2, u2, v.staged[t2[e][j].cluster]), t2[e][j].size, x2[t2[e][j].cluster])
               /\ t2[e][j].cluster \notin u2 => v.staged[t2[e][j].cluster] # Absent
               /\ t2[e][j].cluster \in u2 /\ t2[e][j].name \in Kept => v.staged[t2[e][j].cluster] = Absent
    <3>0. LiveAt(t, e, j) /\ t[e][j].name \notin DotNames /\ NoStart(v, t[e][j].cluster)
      BY <1>3, <2>1
    <3>1. /\ Cut(DueStaged(t[e][j].cluster, x, u, v.staged[t[e][j].cluster]), t[e][j].size, x[t[e][j].cluster])
          /\ t[e][j].cluster \notin u => v.staged[t[e][j].cluster] # Absent
          /\ t[e][j].cluster \in u /\ t[e][j].name \in Kept => v.staged[t[e][j].cluster] = Absent
      BY <1>0, <3>0 DEF Claimable
    <3>2. CASE ~(e = d /\ j = k)
      <4>1. t2[e][j] = t[e][j]
        BY <1>2, <3>2
      <4>2. x2[t[e][j].cluster] = x[t[e][j].cluster] /\ (t[e][j].cluster \in u2 <=> t[e][j].cluster \in u)
        BY <1>4, <1>5, <3>0, <3>2
      <4>3. DueStaged(t[e][j].cluster, x2, u2, v.staged[t[e][j].cluster])
              = DueStaged(t[e][j].cluster, x, u, v.staged[t[e][j].cluster])
        BY <4>2 DEF DueStaged
      <4> QED
        BY <3>1, <4>1, <4>2, <4>3
    <3>3. CASE e = d /\ j = k
      <4>1. t[d][k].name \notin Kept
        BY <1>0, <3>0, <3>3 DEF Untracked
      <4>2. v.staged[c] # Absent /\ v.staged[c] \in Bytes
        BY <1>0, <1>1, <3>1, <3>3 DEF Fresh
      <4>3. DueStaged(c, x2, u2, v.staged[c]) = Over(z, v.staged[c])
        BY <1>6, <4>2 DEF DueStaged
      <4>4. Cut(Over(z, v.staged[c]), Len(z), z)
        BY <4>2, OverBytes DEF Cut
      <4> QED
        BY <1>6, <3>3, <4>1, <4>3, <4>4
    <3> QED
      BY <3>2, <3>3
  <2> QED
    BY <2>1 DEF Claimable
<1>17. Session(v, t2, dr2, x2, u2, us, pa2)
  BY <1>0, <1>9, <1>11, <1>12, <1>13, <1>14, <1>15, <1>16 DEF Session
<1> QED
  BY <1>1, <1>7, <1>17 DEF dr2, u2

\* A delete: the slot is to be written as erased.
LEMMA DeleteKeeps ==
  ASSUME NEW v, NEW t, NEW dr, NEW x, NEW u, NEW us, NEW pa, Host(t, x, us), Session(v, t, dr, x, u, us, pa),
         NEW d \in Dirs, NEW k \in TableIndex, LiveAt(t, d, k), <<d, k>> \notin dr,
         NEW t2 \in [Dirs -> Table], Besides({<<d, k>>}, t, t2), ~Ambiguous(t2),
         t2[d][k].mark = "erased", t2[d][k].name = t[d][k].name, t2[d][k].cluster = t[d][k].cluster,
         NEW pa2, pa \subseteq pa2, <<PathAt(t, d, k), "deleted">> \in pa2
  PROVE  Host(t2, x, us) /\ Session(v, t2, dr \cup {<<d, k>>}, x, u, us, pa2)
<1> DEFINE dr2 == dr \cup {<<d, k>>}
           c == t[d][k].cluster
<1>0. /\ v \in Device /\ EntriesApart(v) /\ Stored(v, us) /\ Listed(v)
      /\ Follows(v, t, dr, pa) /\ Gone(v, t, dr, pa) /\ ErasesDone(v, t, dr)
      /\ Replaced(v, t) /\ Untracked(v, t, dr)
      /\ InSync(v, t, dr, x, u) /\ Claimable(v, t, x, u) /\ Fresh(v, us)
      /\ HostApart(t) /\ HostUsed(t, us) /\ HostSized(t, x) /\ us \subseteq Clusters /\ x \in [Clusters -> Bytes]
  BY DEF Session, Host
<1>1. c \in us /\ ~LiveAt(t2, d, k)
  BY LiveSlotTyped DEF LiveAt
<1>2. \A e \in Dirs, j \in TableIndex :
        (e = d /\ j = k) \/ (t2[e][j] = t[e][j] /\ (<<e, j>> \in dr2 <=> <<e, j>> \in dr))
  BY DEF Besides
\* The live files are those that were, but for one.
<1>3. \A e \in Dirs, j \in TableIndex :
        LiveAt(t2, e, j) => /\ LiveAt(t, e, j) /\ t2[e][j] = t[e][j] /\ PathAt(t2, e, j) = PathAt(t, e, j)
                            /\ (<<e, j>> \in dr2 <=> <<e, j>> \in dr)
  BY <1>1, <1>2 DEF LiveAt, PathAt
<1>4. \A e \in Dirs, j \in TableIndex :
        t2[e][j].mark # "free" => t[e][j].mark # "free" /\ t2[e][j].cluster = t[e][j].cluster
  BY <1>2 DEF LiveAt
<1>5. <<d, k>> \in dr2 /\ dr \subseteq dr2
  OBVIOUS
<1>6. \A b : Unheld(t, b) => Unheld(t2, b)
  <2>1. ASSUME NEW b, Unheld(t, b), NEW e \in Dirs, NEW j \in TableIndex, LiveAt(t2, e, j) PROVE t2[e][j].cluster # b
    BY <1>3, <2>1 DEF Unheld
  <2> QED
    BY <2>1 DEF Unheld
<1>7. \A b : Unheld(t2, b) => b = c \/ Unheld(t, b)
  <2>1. ASSUME NEW b, b # c, Unheld(t2, b), NEW e \in Dirs, NEW j \in TableIndex, LiveAt(t, e, j) PROVE t[e][j].cluster # b
    BY <1>2, <2>1 DEF Unheld, LiveAt
  <2> QED
    BY <2>1 DEF Unheld
<1> HIDE DEF dr2
<1>8. Host(t2, x, us)
  <2>1. HostApart(t2)
    <3>1. ASSUME NEW e \in Dirs, NEW f \in Dirs, NEW j \in TableIndex, NEW l \in TableIndex,
                 LiveAt(t2, e, j), LiveAt(t2, f, l), <<e, j>> # <<f, l>>
          PROVE  t2[e][j].cluster # t2[f][l].cluster /\ PathAt(t2, e, j) # PathAt(t2, f, l)
      <4>1. LiveAt(t, e, j) /\ t2[e][j] = t[e][j] /\ PathAt(t2, e, j) = PathAt(t, e, j)
        BY <1>3, <3>1
      <4>2. LiveAt(t, f, l) /\ t2[f][l] = t[f][l] /\ PathAt(t2, f, l) = PathAt(t, f, l)
        BY <1>3, <3>1
      <4> QED
        BY <1>0, <3>1, <4>1, <4>2 DEF HostApart
    <3> QED
      BY <3>1 DEF HostApart
  <2>2. HostUsed(t2, us)
    BY <1>0, <1>4 DEF HostUsed
  <2>3. HostSized(t2, x)
    <3>1. ASSUME NEW e \in Dirs, NEW j \in TableIndex, LiveAt(t2, e, j) PROVE t2[e][j].size = Len(x[t2[e][j].cluster])
      <4>1. LiveAt(t, e, j) /\ t2[e][j] = t[e][j]
        BY <1>3, <3>1
      <4> QED
        BY <1>0, <4>1 DEF HostSized
    <3> QED
      BY <3>1 DEF HostSized
  <2> QED
    BY <1>0, <2>1, <2>2, <2>3 DEF Host
<1>9. Follows(v, t2, dr2, pa2)
  <2>1. ASSUME NEW i \in DOMAIN v.entries, NEW e \in Dirs, NEW j \in TableIndex,
               LiveAt(t2, e, j), t2[e][j].cluster = v.entries[i].start
        PROVE  IF PathAt(t2, e, j) = PathOf(v.entries[i]) THEN ~v.entries[i].deleted
               ELSE /\ <<e, j>> \in dr2 /\ t2[e][j].name \in Kept /\ NoPath(v, PathAt(t2, e, j))
                    /\ <<PathOf(v.entries[i]), "moved">> \in pa2
    <3>1. LiveAt(t, e, j) /\ t2[e][j] = t[e][j] /\ PathAt(t2, e, j) = PathAt(t, e, j)
      BY <1>3, <2>1
    <3>2. IF PathAt(t, e, j) = PathOf(v.entries[i]) THEN ~v.entries[i].deleted
          ELSE /\ <<e, j>> \in dr /\ t[e][j].name \in Kept /\ NoPath(v, PathAt(t, e, j))
               /\ <<PathOf(v.entries[i]), "moved">> \in pa
      BY <1>0, <2>1, <3>1 DEF Follows
    <3> QED
      BY <1>5, <3>1, <3>2
  <2> QED
    BY <2>1 DEF Follows
<1>10. Gone(v, t2, dr2, pa2)
  <2>1. ASSUME NEW i \in DOMAIN v.entries, Unheld(t2, v.entries[i].start)
        PROVE  /\ <<PathOf(v.entries[i]), "deleted">> \in pa2
               /\ v.entries[i].deleted \/ \E e \in Dirs, j \in TableIndex : <<e, j>> \in dr2 /\ Erases(e, t2[e][j], v.entries[i])
    <3>1. CASE Unheld(t, v.entries[i].start)
      <4>1. /\ <<PathOf(v.entries[i]), "deleted">> \in pa
            /\ v.entries[i].deleted \/ \E e \in Dirs, j \in TableIndex : <<e, j>> \in dr /\ Erases(e, t[e][j], v.entries[i])
        BY <1>0, <3>1 DEF Gone
      <4>2. \A e \in Dirs, j \in TableIndex : <<e, j>> \in dr => <<e, j>> \in dr2 /\ t2[e][j] = t[e][j]
        BY <1>2, <1>5
      <4> QED
        BY <4>1, <4>2
    <3>2. CASE v.entries[i].start = c
      <4>1. PathAt(t, d, k) = PathOf(v.entries[i])
        BY <1>0, <3>2 DEF Follows
      <4>2. Erases(d, t2[d][k], v.entries[i])
        BY <3>2, <4>1 DEF Erases, PathAt, PathOf
      <4> QED
        BY <1>5, <4>1, <4>2
    <3> QED
      BY <1>7, <2>1, <3>1, <3>2
  <2> QED
    BY <2>1 DEF Gone
<1>11. ErasesDone(v, t2, dr2)
  <2>1. ASSUME NEW i \in DOMAIN v.entries, NEW e \in Dirs, NEW j \in TableIndex, Erases(e, t2[e][j], v.entries[i])
        PROVE  v.entries[i].deleted \/ <<e, j>> \in dr2
    BY <1>0, <1>2, <1>5, <2>1 DEF ErasesDone
  <2> QED
    BY <2>1 DEF ErasesDone
<1>12. Replaced(v, t2)
  <2>1. ASSUME NEW i \in DOMAIN v.entries, NEW e \in Dirs, NEW j \in TableIndex, LiveAt(t2, e, j),
               PathAt(t2, e, j) = PathOf(v.entries[i]), t2[e][j].cluster # v.entries[i].start
        PROVE  v.entries[i].deleted /\ Unheld(t2, v.entries[i].start) /\ NoStart(v, t2[e][j].cluster)
    <3>1. LiveAt(t, e, j) /\ t2[e][j] = t[e][j] /\ PathAt(t2, e, j) = PathAt(t, e, j)
      BY <1>3, <2>1
    <3> QED
      BY <1>0, <1>6, <2>1, <3>1 DEF Replaced
  <2> QED
    BY <2>1 DEF Replaced
<1>13. Untracked(v, t2, dr2)
  BY <1>0, <1>3 DEF Untracked
<1>14. InSync(v, t2, dr2, x, u)
  <2>1. ASSUME NEW i \in DOMAIN v.entries, NEW e \in Dirs, NEW j \in TableIndex,
               LiveAt(t2, e, j), t2[e][j].cluster = v.entries[i].start
        PROVE  IF PathAt(t2, e, j) = PathOf(v.entries[i])
               THEN InPlace(v.entries[i].size, t2[e][j].size, <<e, j>> \in dr2,
                            Due(t2[e][j].cluster, x, u, v.disk[PathOf(v.entries[i])]), x[t2[e][j].cluster])
               ELSE /\ t2[e][j].cluster \notin u /\ v.disk[PathOf(v.entries[i])] = x[t2[e][j].cluster]
                    /\ v.entries[i].size \in {0, t2[e][j].size}
    <3>1. /\ LiveAt(t, e, j) /\ t2[e][j] = t[e][j] /\ PathAt(t2, e, j) = PathAt(t, e, j)
          /\ (<<e, j>> \in dr2 <=> <<e, j>> \in dr)
      BY <1>3, <2>1
    <3>2. IF PathAt(t, e, j) = PathOf(v.entries[i])
          THEN InPlace(v.entries[i].size, t[e][j].size, <<e, j>> \in dr,
                       Due(t[e][j].cluster, x, u, v.disk[PathOf(v.entries[i])]), x[t[e][j].cluster])
          ELSE /\ t[e][j].cluster \notin u /\ v.disk[PathOf(v.entries[i])] = x[t[e][j].cluster]
               /\ v.entries[i].size \in {0, t[e][j].size}
      BY <1>0, <2>1, <3>1 DEF InSync
    <3>3. \A m, n, y, w : InPlace(m, n, <<e, j>> \in dr2, y, w) <=> InPlace(m, n, <<e, j>> \in dr, y, w)
      BY <3>1 DEF InPlace
    <3> QED
      BY <3>1, <3>2, <3>3
  <2> QED
    BY <2>1 DEF InSync
<1>15. Claimable(v, t2, x, u)
  <2>1. ASSUME NEW e \in Dirs, NEW j \in TableIndex,
               LiveAt(t2, e, j), t2[e][j].name \notin DotNames, NoStart(v, t2[e][j].cluster)
        PROVE  /\ Cut(DueStaged(t2[e][j].cluster, x, u, v.staged[t2[e][j].cluster]), t2[e][j].size, x[t2[e][j].cluster])
               /\ t2[e][j].cluster \notin u => v.staged[t2[e][j].cluster] # Absent
               /\ t2[e][j].cluster \in u /\ t2[e][j].name \in Kept => v.staged[t2[e][j].cluster] = Absent
    <3>1. LiveAt(t, e, j) /\ t2[e][j] = t[e][j]
      BY <1>3, <2>1
    <3> QED
      BY <1>0, <2>1, <3>1 DEF Claimable
  <2> QED
    BY <2>1 DEF Claimable
<1>16. Session(v, t2, dr2, x, u, us, pa2)
  BY <1>0, <1>9, <1>10, <1>11, <1>12, <1>13, <1>14, <1>15 DEF Session
<1> QED
  BY <1>8, <1>16 DEF dr2

\* A rename or a move, of a file whose slot and data have been written, to a
\* path no file has or the device thinks one has.  The file's slot is erased,
\* unless it is the one that gets the name.
Renames(t, dr, u, pa, d, k, c, e, j, nm, t2, pa2) ==
  /\ d \in Dirs /\ k \in TableIndex /\ LiveAt(t, d, k) /\ <<d, k>> \notin dr
  /\ c = t[d][k].cluster /\ c \notin u /\ t[d][k].name \notin DotNames
  /\ e \in Dirs /\ j \in TableIndex /\ <<e, j>> \notin dr
  /\ (e = d /\ j = k) \/ ~LiveAt(t, e, j)
  /\ nm \in Kept /\ \A f \in Dirs, l \in TableIndex : LiveAt(t, f, l) => PathAt(t, f, l) # <<e, nm>>
  /\ <<<<e, nm>>, "deleted">> \notin pa
  /\ <<<<e, nm>>, "moved">> \in pa => dr = {}
  /\ t2 \in [Dirs -> Table] /\ Besides({<<d, k>>, <<e, j>>}, t, t2) /\ ~Ambiguous(t2)
  /\ (e = d /\ j = k) \/ (t2[d][k].mark = "erased" /\ t2[d][k].cluster = c)
  /\ t2[e][j].mark = "live" /\ t2[e][j].name = nm /\ t2[e][j].cluster = c /\ t2[e][j].size = t[d][k].size
  /\ pa \subseteq pa2 /\ <<PathAt(t, d, k), "moved">> \in pa2

LEMMA RenameKeeps ==
  ASSUME NEW v, NEW t, NEW dr, NEW x, NEW u, NEW us, NEW pa, Host(t, x, us), Session(v, t, dr, x, u, us, pa),
         NEW d, NEW k, NEW c, NEW e, NEW j, NEW nm, NEW t2, NEW pa2, Renames(t, dr, u, pa, d, k, c, e, j, nm, t2, pa2)
  PROVE  Host(t2, x, us) /\ Session(v, t2, dr \cup {<<d, k>>, <<e, j>>}, x, u, us, pa2)
<1> USE DEF Renames
<1> DEFINE dr2 == dr \cup {<<d, k>>, <<e, j>>}
<1>0. /\ v \in Device /\ EntriesApart(v) /\ Stored(v, us) /\ Listed(v)
      /\ Follows(v, t, dr, pa) /\ Gone(v, t, dr, pa) /\ ErasesDone(v, t, dr)
      /\ Replaced(v, t) /\ Untracked(v, t, dr)
      /\ InSync(v, t, dr, x, u) /\ Claimable(v, t, x, u) /\ Fresh(v, us)
      /\ HostApart(t) /\ HostUsed(t, us) /\ HostSized(t, x) /\ us \subseteq Clusters /\ x \in [Clusters -> Bytes]
  BY DEF Session, Host
<1>1. c \in us /\ t[d][k].size = Len(x[c]) /\ LiveAt(t2, e, j) /\ PathAt(t2, e, j) = <<e, nm>>
  BY LiveSlotTyped DEF LiveAt, PathAt
<1>2. \A f \in Dirs, l \in TableIndex :
        (f = d /\ l = k) \/ (f = e /\ l = j) \/ (t2[f][l] = t[f][l] /\ (<<f, l>> \in dr2 <=> <<f, l>> \in dr))
  BY DEF Besides
\* The other live files are what they were.
<1>3. \A f \in Dirs, l \in TableIndex :
        LiveAt(t2, f, l) =>
          \/ f = e /\ l = j
          \/ /\ LiveAt(t, f, l) /\ t2[f][l] = t[f][l] /\ PathAt(t2, f, l) = PathAt(t, f, l)
             /\ (<<f, l>> \in dr2 <=> <<f, l>> \in dr) /\ ~(f = d /\ l = k)
  BY <1>2 DEF LiveAt, PathAt
<1>4. \A f \in Dirs, l \in TableIndex : LiveAt(t, f, l) /\ ~(f = d /\ l = k) => t[f][l].cluster # c
  BY <1>0 DEF HostApart
<1>5. <<d, k>> \in dr2 /\ <<e, j>> \in dr2 /\ dr \subseteq dr2
  OBVIOUS
<1>6. \A b : Unheld(t, b) <=> Unheld(t2, b)
  <2>1. ASSUME NEW b, Unheld(t, b) PROVE Unheld(t2, b)
    <3>1. ASSUME NEW f \in Dirs, NEW l \in TableIndex, LiveAt(t2, f, l), t2[f][l].cluster = b PROVE FALSE
      <4>1. CASE f = e /\ l = j
        BY <2>1, <3>1, <4>1 DEF Unheld
      <4>2. CASE LiveAt(t, f, l) /\ t2[f][l] = t[f][l]
        BY <2>1, <3>1, <4>2 DEF Unheld
      <4> QED
        BY <1>3, <3>1, <4>1, <4>2
    <3> QED
      BY <3>1 DEF Unheld
  <2>2. \A f \in Dirs, l \in TableIndex : LiveAt(t, f, l) => (f = d /\ l = k) \/ (LiveAt(t2, f, l) /\ t2[f][l] = t[f][l])
    BY <1>2 DEF LiveAt
  <2>3. \A b : Unheld(t2, b) => Unheld(t, b)
    BY <1>1, <2>2 DEF Unheld
  <2> QED
    BY <2>1, <2>3
<1>7. NoPath(v, <<e, nm>>)
  <2> SUFFICES ASSUME NEW i \in DOMAIN v.entries, PathOf(v.entries[i]) = <<e, nm>> PROVE FALSE
    BY DEF NoPath
  <2> QED
    BY FreePath
\* The file's own entry is where the device heard of it last.
<1>8. \A i \in DOMAIN v.entries : v.entries[i].start = c =>
        /\ PathOf(v.entries[i]) = PathAt(t, d, k) /\ ~v.entries[i].deleted
        /\ v.disk[PathOf(v.entries[i])] = x[c] /\ v.entries[i].size \in {0, t[d][k].size}
  <2> SUFFICES ASSUME NEW i \in DOMAIN v.entries, v.entries[i].start = c
               PROVE  /\ PathOf(v.entries[i]) = PathAt(t, d, k) /\ ~v.entries[i].deleted
                      /\ v.disk[PathOf(v.entries[i])] = x[c] /\ v.entries[i].size \in {0, t[d][k].size}
    OBVIOUS
  <2>1. PathOf(v.entries[i]) = PathAt(t, d, k) /\ ~v.entries[i].deleted
    BY <1>0 DEF Follows
  <2>2. InPlace(v.entries[i].size, t[d][k].size, <<d, k>> \in dr, Due(c, x, u, v.disk[PathOf(v.entries[i])]), x[c])
    BY <1>0, <2>1 DEF InSync
  <2> QED
    BY <2>1, <2>2 DEF InPlace, Due
<1> HIDE DEF dr2
<1>9. Host(t2, x, us)
  <2>1. HostApart(t2)
    <3>1. ASSUME NEW f \in Dirs, NEW g \in Dirs, NEW l \in TableIndex, NEW m \in TableIndex,
                 LiveAt(t2, f, l), LiveAt(t2, g, m), <<f, l>> # <<g, m>>
          PROVE  t2[f][l].cluster # t2[g][m].cluster /\ PathAt(t2, f, l) # PathAt(t2, g, m)
      <4>1. CASE f = e /\ l = j
        <5>1. LiveAt(t, g, m) /\ t2[g][m] = t[g][m] /\ PathAt(t2, g, m) = PathAt(t, g, m) /\ ~(g = d /\ m = k)
          BY <1>3, <3>1, <4>1
        <5> QED
          BY <1>1, <1>4, <4>1, <5>1
      <4>2. CASE g = e /\ m = j
        <5>1. LiveAt(t, f, l) /\ t2[f][l] = t[f][l] /\ PathAt(t2, f, l) = PathAt(t, f, l) /\ ~(f = d /\ l = k)
          BY <1>3, <3>1, <4>2
        <5> QED
          BY <1>1, <1>4, <4>2, <5>1
      <4>3. CASE ~(f = e /\ l = j) /\ ~(g = e /\ m = j)
        <5>1. LiveAt(t, f, l) /\ t2[f][l] = t[f][l] /\ PathAt(t2, f, l) = PathAt(t, f, l)
          BY <1>3, <3>1, <4>3
        <5>2. LiveAt(t, g, m) /\ t2[g][m] = t[g][m] /\ PathAt(t2, g, m) = PathAt(t, g, m)
          BY <1>3, <3>1, <4>3
        <5> QED
          BY <1>0, <3>1, <5>1, <5>2 DEF HostApart
      <4> QED
        BY <4>1, <4>2, <4>3
    <3> QED
      BY <3>1 DEF HostApart
  <2>2. HostUsed(t2, us)
    <3>1. ASSUME NEW f \in Dirs, NEW l \in TableIndex, t2[f][l].mark # "free" PROVE t2[f][l].cluster \in us
      <4>1. CASE (f = d /\ l = k) \/ (f = e /\ l = j)
        BY <1>1, <4>1
      <4>2. CASE ~((f = d /\ l = k) \/ (f = e /\ l = j))
        BY <1>0, <1>2, <3>1, <4>2 DEF HostUsed
      <4> QED
        BY <4>1, <4>2
    <3> QED
      BY <3>1 DEF HostUsed
  <2>3. HostSized(t2, x)
    <3>1. ASSUME NEW f \in Dirs, NEW l \in TableIndex, LiveAt(t2, f, l) PROVE t2[f][l].size = Len(x[t2[f][l].cluster])
      <4>1. CASE f = e /\ l = j
        BY <1>1, <4>1
      <4>2. CASE LiveAt(t, f, l) /\ t2[f][l] = t[f][l]
        BY <1>0, <4>2 DEF HostSized
      <4> QED
        BY <1>3, <3>1, <4>1, <4>2
    <3> QED
      BY <3>1 DEF HostSized
  <2> QED
    BY <1>0, <2>1, <2>2, <2>3 DEF Host
<1>10. Follows(v, t2, dr2, pa2)
  <2>1. ASSUME NEW i \in DOMAIN v.entries, NEW f \in Dirs, NEW l \in TableIndex,
               LiveAt(t2, f, l), t2[f][l].cluster = v.entries[i].start
        PROVE  IF PathAt(t2, f, l) = PathOf(v.entries[i]) THEN ~v.entries[i].deleted
               ELSE /\ <<f, l>> \in dr2 /\ t2[f][l].name \in Kept /\ NoPath(v, PathAt(t2, f, l))
                    /\ <<PathOf(v.entries[i]), "moved">> \in pa2
    <3>1. CASE f = e /\ l = j
      <4>1. PathOf(v.entries[i]) = PathAt(t, d, k) /\ v.entries[i].start = c
        BY <1>8, <2>1, <3>1
      <4>2. PathAt(t, d, k) # <<e, nm>>
        OBVIOUS
      <4> QED
        BY <1>1, <1>5, <1>7, <3>1, <4>1, <4>2
    <3>2. CASE ~(f = e /\ l = j)
      <4>1. LiveAt(t, f, l) /\ t2[f][l] = t[f][l] /\ PathAt(t2, f, l) = PathAt(t, f, l)
        BY <1>3, <2>1, <3>2
      <4>2. IF PathAt(t, f, l) = PathOf(v.entries[i]) THEN ~v.entries[i].deleted
            ELSE /\ <<f, l>> \in dr /\ t[f][l].name \in Kept /\ NoPath(v, PathAt(t, f, l))
                 /\ <<PathOf(v.entries[i]), "moved">> \in pa
        BY <1>0, <2>1, <4>1 DEF Follows
      <4> QED
        BY <1>5, <4>1, <4>2
    <3> QED
      BY <3>1, <3>2
  <2> QED
    BY <2>1 DEF Follows
<1>11. Gone(v, t2, dr2, pa2)
  <2>1. ASSUME NEW i \in DOMAIN v.entries, Unheld(t2, v.entries[i].start)
        PROVE  /\ <<PathOf(v.entries[i]), "deleted">> \in pa2
               /\ v.entries[i].deleted \/ \E f \in Dirs, l \in TableIndex : <<f, l>> \in dr2 /\ Erases(f, t2[f][l], v.entries[i])
    <3>1. /\ <<PathOf(v.entries[i]), "deleted">> \in pa
          /\ v.entries[i].deleted \/ \E f \in Dirs, l \in TableIndex : <<f, l>> \in dr /\ Erases(f, t[f][l], v.entries[i])
      BY <1>0, <1>6, <2>1 DEF Gone
    <3>2. \A f \in Dirs, l \in TableIndex : <<f, l>> \in dr => <<f, l>> \in dr2 /\ t2[f][l] = t[f][l]
      BY <1>2, <1>5
    <3> QED
      BY <3>1, <3>2
  <2> QED
    BY <2>1 DEF Gone
<1>12. ErasesDone(v, t2, dr2)
  <2>1. ASSUME NEW i \in DOMAIN v.entries, NEW f \in Dirs, NEW l \in TableIndex, Erases(f, t2[f][l], v.entries[i])
        PROVE  v.entries[i].deleted \/ <<f, l>> \in dr2
    BY <1>0, <1>2, <1>5, <2>1 DEF ErasesDone
  <2> QED
    BY <2>1 DEF ErasesDone
<1>13. Replaced(v, t2)
  <2>1. ASSUME NEW i \in DOMAIN v.entries, NEW f \in Dirs, NEW l \in TableIndex, LiveAt(t2, f, l),
               PathAt(t2, f, l) = PathOf(v.entries[i]), t2[f][l].cluster # v.entries[i].start
        PROVE  v.entries[i].deleted /\ Unheld(t2, v.entries[i].start) /\ NoStart(v, t2[f][l].cluster)
    <3>1. ~(f = e /\ l = j)
      BY <1>1, <1>7, <2>1 DEF NoPath
    <3>2. LiveAt(t, f, l) /\ t2[f][l] = t[f][l] /\ PathAt(t2, f, l) = PathAt(t, f, l)
      BY <1>3, <2>1, <3>1
    <3> QED
      BY <1>0, <1>6, <2>1, <3>2 DEF Replaced
  <2> QED
    BY <2>1 DEF Replaced
<1>14. Untracked(v, t2, dr2)
  <2>1. ASSUME NEW f \in Dirs, NEW l \in TableIndex,
               LiveAt(t2, f, l), t2[f][l].name \in Kept, NoStart(v, t2[f][l].cluster)
        PROVE  <<f, l>> \in dr2
    BY <1>0, <1>3, <1>5, <2>1 DEF Untracked
  <2> QED
    BY <2>1 DEF Untracked
<1>15. InSync(v, t2, dr2, x, u)
  <2>1. ASSUME NEW i \in DOMAIN v.entries, NEW f \in Dirs, NEW l \in TableIndex,
               LiveAt(t2, f, l), t2[f][l].cluster = v.entries[i].start
        PROVE  IF PathAt(t2, f, l) = PathOf(v.entries[i])
               THEN InPlace(v.entries[i].size, t2[f][l].size, <<f, l>> \in dr2,
                            Due(t2[f][l].cluster, x, u, v.disk[PathOf(v.entries[i])]), x[t2[f][l].cluster])
               ELSE /\ t2[f][l].cluster \notin u /\ v.disk[PathOf(v.entries[i])] = x[t2[f][l].cluster]
                    /\ v.entries[i].size \in {0, t2[f][l].size}
    <3>1. CASE f = e /\ l = j
      <4>1. /\ PathOf(v.entries[i]) = PathAt(t, d, k) /\ v.entries[i].start = c
            /\ v.disk[PathOf(v.entries[i])] = x[c] /\ v.entries[i].size \in {0, t[d][k].size}
        BY <1>8, <2>1, <3>1
      <4>2. PathAt(t2, f, l) # PathOf(v.entries[i])
        BY <1>1, <3>1, <4>1
      <4> QED
        BY <3>1, <4>1, <4>2
    <3>2. CASE ~(f = e /\ l = j)
      <4>1. /\ LiveAt(t, f, l) /\ t2[f][l] = t[f][l] /\ PathAt(t2, f, l) = PathAt(t, f, l)
            /\ (<<f, l>> \in dr2 <=> <<f, l>> \in dr)
        BY <1>3, <2>1, <3>2
      <4>2. IF PathAt(t, f, l) = PathOf(v.entries[i])
            THEN InPlace(v.entries[i].size, t[f][l].size, <<f, l>> \in dr,
                         Due(t[f][l].cluster, x, u, v.disk[PathOf(v.entries[i])]), x[t[f][l].cluster])
            ELSE /\ t[f][l].cluster \notin u /\ v.disk[PathOf(v.entries[i])] = x[t[f][l].cluster]
                 /\ v.entries[i].size \in {0, t[f][l].size}
        <5>1. InSync(v, t, dr, x, u) /\ LiveAt(t, f, l) /\ t[f][l].cluster = v.entries[i].start
          BY <1>0, <2>1, <4>1
        <5> QED
          BY <5>1 DEF InSync
      <4>3. \A m, n, y, w : InPlace(m, n, <<f, l>> \in dr2, y, w) <=> InPlace(m, n, <<f, l>> \in dr, y, w)
        BY <4>1 DEF InPlace
      <4> QED
        BY <4>1, <4>2, <4>3
    <3> QED
      BY <3>1, <3>2
  <2> QED
    BY <2>1 DEF InSync
<1>16. Claimable(v, t2, x, u)
  <2>1. ASSUME NEW f \in Dirs, NEW l \in TableIndex,
               LiveAt(t2, f, l), t2[f][l].name \notin DotNames, NoStart(v, t2[f][l].cluster)
        PROVE  /\ Cut(DueStaged(t2[f][l].cluster, x, u, v.staged[t2[f][l].cluster]), t2[f][l].size, x[t2[f][l].cluster])
               /\ t2[f][l].cluster \notin u => v.staged[t2[f][l].cluster] # Absent
               /\ t2[f][l].cluster \in u /\ t2[f][l].name \in Kept => v.staged[t2[f][l].cluster] = Absent
    <3>1. CASE f = e /\ l = j
      <4>1. /\ Cut(DueStaged(c, x, u, v.staged[c]), t[d][k].size, x[c])
            /\ c \notin u => v.staged[c] # Absent
        BY <1>0, <2>1, <3>1 DEF Claimable
      <4> QED
        BY <3>1, <4>1
    <3>2. CASE ~(f = e /\ l = j)
      <4>1. LiveAt(t, f, l) /\ t2[f][l] = t[f][l]
        BY <1>3, <2>1, <3>2
      <4> QED
        BY <1>0, <2>1, <4>1 DEF Claimable
    <3> QED
      BY <3>1, <3>2
  <2> QED
    BY <2>1 DEF Claimable
<1>17. Session(v, t2, dr2, x, u, us, pa2)
  BY <1>0, <1>10, <1>11, <1>12, <1>13, <1>14, <1>15, <1>16 DEF Session
<1> QED
  BY <1>9, <1>17 DEF dr2

-----------------------------------------------------------------------------
(* So a careful host's operations keep the invariant.                       *)

\* No file of the host is written with nothing in it.
SomeContent == <<>> \notin Contents

\* A careful host changes slots whose tables and data it has written.
LEMMA Patient ==
  ASSUME CarefulHost, NEW t, NEW slots, HostTables(t, slots)
  PROVE  /\ ~Ambiguous(t) /\ tbl' = t /\ dirty' = dirty \cup slots /\ UNCHANGED <<device, up>>
         /\ \A y \in slots : y \notin dirty /\ tbl[y[1]][y[2]].cluster \notin unsent
BY DEF CarefulHost, HostTables

LEMMA PatientReuse ==
  ASSUME CarefulHost, NEW p, Reusable(p)
  PROVE  <<p, "deleted">> \in past \/ <<p, "moved">> \in past => dirty = {}
BY DEF CarefulHost, Reusable

LEMMA ContentBytes ==
  ASSUME SomeContent, NEW x \in Contents
  PROVE  x \in Bytes /\ Len(x) \in Nat /\ Len(x) # 0
<1>1. x \in Seq(Values)
  BY ContentsAssumption
<1>2. x # <<>>
  BY DEF SomeContent
<1> QED
  BY <1>1, <1>2 DEF Bytes

LEMMA HostCare ==
  ASSUME CareInv, up, UNCHANGED <<device, up>>, dirty' \subseteq Dirs \X TableIndex, unsent' \subseteq used',
         Host(tbl', data', used'), Session(Before, tbl', dirty', data', unsent', used', past')
  PROVE  CareInv'
<1>1. Before' = Before
  BY DEF Before, device
<1> QED
  BY <1>1 DEF CareInv

LEMMA CareFacts ==
  ASSUME CareInv, up
  PROVE  /\ Host(tbl, data, used) /\ Session(Before, tbl, dirty, data, unsent, used, past)
         /\ dirty \subseteq Dirs \X TableIndex /\ unsent \subseteq used /\ used \subseteq Clusters
         /\ tbl \in [Dirs -> Table] /\ data \in [Clusters -> Bytes]
BY DEF CareInv, Host

\* A path no file has, for the host.
LEMMA Unused ==
  ASSUME NEW d \in Dirs, NEW nm, ~Named(d, nm)
  PROVE  \A e \in Dirs, j \in TableIndex : LiveAt(tbl, e, j) => PathAt(tbl, e, j) # <<d, nm>>
BY DEF Named, Live, LiveAt, PathAt

LEMMA HostDataWritten ==
  ASSUME NEW c \in Clusters, NEW x \in Bytes, data \in [Clusters -> Bytes], HostData(c, x)
  PROVE  /\ data' \in [Clusters -> Bytes] /\ data'[c] = x /\ \A b \in Clusters \ {c} : data'[b] = data[b]
         /\ unsent' = unsent \cup {c} /\ used' = used \cup {c}
BY DEF HostData

LEMMA HostCreateCare ==
  ASSUME CarefulHost, SomeContent, CareInv, NEW d \in Dirs, NEW k \in TableIndex, NEW nm \in Names,
         NEW c \in Clusters, NEW x \in Contents, HostCreate(d, k, nm, c, x)
  PROVE  CareInv'
<1> DEFINE s == LiveSlot(nm, c, Len(x))
           t == WithSlot(tbl, d, k, s)
<1>1. /\ up /\ Vacant(d, k) /\ ~Named(d, nm) /\ c \notin used /\ Reusable(<<d, nm>>) /\ HostData(c, x) /\ past \subseteq past'
  BY DEF HostCreate, Operate, Allocatable, CarefulHost, Did
<1>2. HostTables(t, {<<d, k>>})
  BY DEF HostCreate, WithSlot
<1>3. /\ Host(tbl, data, used) /\ Session(Before, tbl, dirty, data, unsent, used, past)
      /\ dirty \subseteq Dirs \X TableIndex /\ unsent \subseteq used /\ used \subseteq Clusters
      /\ tbl \in [Dirs -> Table] /\ data \in [Clusters -> Bytes]
  BY <1>1, CareFacts
<1>4. x \in Bytes /\ Len(x) \in Nat /\ Len(x) # 0
  BY ContentBytes
<1>5. NamedSlot(s)
  BY <1>4, LiveTyped
<1>6. /\ ~Ambiguous(t) /\ tbl' = t /\ dirty' = dirty \cup {<<d, k>>} /\ UNCHANGED <<device, up>> /\ <<d, k>> \notin dirty
  BY <1>2, Patient
<1> HIDE DEF s
<1>7. t \in [Dirs -> Table] /\ t[d][k] = s /\ \A e \in Dirs, j \in TableIndex : <<e, j>> # <<d, k>> => t[e][j] = tbl[e][j]
  BY <1>3, <1>5, SlotWritten
<1>8. t[d][k] = LiveSlot(nm, c, Len(x)) /\ Besides({<<d, k>>}, tbl, t)
  BY <1>7 DEF Besides, s
<1> HIDE DEF t
<1>9. ~LiveAt(tbl, d, k)
  BY <1>1 DEF Vacant, LiveAt
<1>10. \A e \in Dirs, j \in TableIndex : LiveAt(tbl, e, j) => PathAt(tbl, e, j) # <<d, nm>>
  BY <1>1, Unused
<1>11. <<<<d, nm>>, "deleted">> \in past \/ <<<<d, nm>>, "moved">> \in past => dirty = {}
  BY <1>1, PatientReuse
<1>12. /\ data' \in [Clusters -> Bytes] /\ data'[c] = x /\ \A b \in Clusters \ {c} : data'[b] = data[b]
       /\ unsent' = unsent \cup {c} /\ used' = used \cup {c}
  BY <1>1, <1>3, <1>4, HostDataWritten
<1>13. /\ Host(t, data', used \cup {c})
       /\ Session(Before, t, dirty \cup {<<d, k>>}, data', unsent \cup {c}, used \cup {c}, past')
  <2> DEFINE v == Before
             x2 == data'
             pa2 == past'
  <2>1. /\ Session(v, tbl, dirty, data, unsent, used, past)
        /\ x2 \in [Clusters -> Bytes] /\ x2[c] = x /\ \A b \in Clusters \ {c} : x2[b] = data[b]
        /\ past \subseteq pa2
    BY <1>1, <1>3, <1>12
  <2> HIDE DEF v, x2, pa2
  <2>2. /\ Host(t, x2, used \cup {c})
        /\ Session(v, t, dirty \cup {<<d, k>>}, x2, unsent \cup {c}, used \cup {c}, pa2)
    <3>1. Creates(tbl, dirty, used, past, data, d, k, nm, c, x, t, x2, pa2)
      BY <1>1, <1>4, <1>6, <1>7, <1>8, <1>9, <1>10, <1>11, <2>1 DEF Creates
    <3> QED
      BY <1>3, <2>1, <3>1, CreateKeeps
  <2> QED
    BY <2>2 DEF v, x2, pa2
<1>14. dirty' \subseteq Dirs \X TableIndex /\ unsent' \subseteq used'
  BY <1>3, <1>6, <1>12
<1>15. Host(tbl', data', used') /\ Session(Before, tbl', dirty', data', unsent', used', past')
  BY <1>6, <1>12, <1>13
<1> QED
  BY <1>1, <1>6, <1>14, <1>15, HostCare

LEMMA HostEditCare ==
  ASSUME CarefulHost, SomeContent, CareInv, NEW d \in Dirs, NEW k \in TableIndex, NEW x \in Contents, HostEdit(d, k, x)
  PROVE  CareInv'
<1> DEFINE y == tbl[d][k]
           c == tbl[d][k].cluster
           s == [y EXCEPT !.size = Len(x)]
           t == WithSlot(tbl, d, k, s)
<1>1. up /\ k \in Live(tbl, d) /\ HostData(c, x) /\ past \subseteq past'
  BY DEF HostEdit, Operate, Did
<1>2. HostTables(t, {<<d, k>>})
  BY DEF HostEdit, WithSlot
<1>3. /\ Host(tbl, data, used) /\ Session(Before, tbl, dirty, data, unsent, used, past)
      /\ dirty \subseteq Dirs \X TableIndex /\ unsent \subseteq used /\ used \subseteq Clusters
      /\ tbl \in [Dirs -> Table] /\ data \in [Clusters -> Bytes]
  BY <1>1, CareFacts
<1>4. x \in Bytes /\ Len(x) \in Nat /\ Len(x) # 0
  BY ContentBytes
<1>5. LiveAt(tbl, d, k) /\ y \in Slot /\ c \in Clusters /\ NamedSlot(y)
  <2>1. LiveAt(tbl, d, k)
    BY <1>1 DEF Live, LiveAt
  <2> QED
    BY <1>3, <2>1, LiveSlotTyped, SlotTyped
<1>6. NamedSlot(s) /\ s.mark = "live" /\ s.name = y.name /\ s.cluster = y.cluster /\ s.size = Len(x)
  <2>1. y.mark = "live"
    BY <1>5 DEF LiveAt
  <2> HIDE DEF y
  <2> QED
    BY <1>4, <1>5, <2>1 DEF NamedSlot, Slot
<1>7. /\ ~Ambiguous(t) /\ tbl' = t /\ dirty' = dirty \cup {<<d, k>>} /\ UNCHANGED <<device, up>>
      /\ <<d, k>> \notin dirty /\ c \notin unsent
  BY <1>2, Patient
<1> HIDE DEF s
<1>8. t \in [Dirs -> Table] /\ t[d][k] = s /\ \A e \in Dirs, j \in TableIndex : <<e, j>> # <<d, k>> => t[e][j] = tbl[e][j]
  BY <1>3, <1>6, SlotWritten
<1>9. /\ t[d][k].mark = "live" /\ t[d][k].name = tbl[d][k].name /\ t[d][k].cluster = c /\ t[d][k].size = Len(x)
      /\ Besides({<<d, k>>}, tbl, t)
  BY <1>6, <1>8 DEF Besides
<1>10. /\ data' \in [Clusters -> Bytes] /\ data'[c] = x /\ \A b \in Clusters \ {c} : data'[b] = data[b]
       /\ unsent' = unsent \cup {c} /\ used' = used \cup {c}
  <2> HIDE DEF c
  <2> QED
    BY <1>1, <1>3, <1>4, <1>5, HostDataWritten
<1> HIDE DEF t, y
<1>11. /\ Host(t, data', used \cup {c})
       /\ Session(Before, t, dirty \cup {<<d, k>>}, data', unsent \cup {c}, used \cup {c}, past')
  <2> DEFINE v == Before
             x2 == data'
             pa2 == past'
  <2>1. /\ Session(v, tbl, dirty, data, unsent, used, past)
        /\ x2 \in [Clusters -> Bytes] /\ x2[c] = x /\ \A b \in Clusters \ {c} : x2[b] = data[b]
        /\ past \subseteq pa2 /\ c = tbl[d][k].cluster
    BY <1>1, <1>3, <1>10
  <2> HIDE DEF v, x2, pa2, c
  <2>2. /\ Host(t, x2, used \cup {c})
        /\ Session(v, t, dirty \cup {<<d, k>>}, x2, unsent \cup {c}, used \cup {c}, pa2)
    <3>1. Edits(tbl, dirty, unsent, past, data, d, k, c, x, t, x2, pa2)
      BY <1>4, <1>5, <1>7, <1>8, <1>9, <2>1 DEF Edits
    <3> QED
      BY <1>3, <2>1, <3>1, EditKeeps
  <2> QED
    BY <2>2 DEF v, x2, pa2, c
<1>12. dirty' \subseteq Dirs \X TableIndex /\ unsent' \subseteq used'
  BY <1>3, <1>7, <1>10
<1>13. Host(tbl', data', used') /\ Session(Before, tbl', dirty', data', unsent', used', past')
  BY <1>7, <1>10, <1>11
<1> QED
  BY <1>1, <1>7, <1>12, <1>13, HostCare

LEMMA HostDeleteCare ==
  ASSUME CarefulHost, CareInv, NEW d \in Dirs, NEW k \in TableIndex, HostDelete(d, k)
  PROVE  CareInv'
<1> DEFINE y == tbl[d][k]
           s == ErasedSlot(y)
           t == WithSlot(tbl, d, k, s)
<1>1. /\ up /\ k \in Live(tbl, d) /\ past \subseteq past' /\ <<PathAt(tbl, d, k), "deleted">> \in past'
      /\ data' = data /\ used' = used /\ unsent' = unsent \ {y.cluster}
  BY DEF HostDelete, Operate, Did, PathAt
<1>2. HostTables(t, {<<d, k>>})
  BY DEF HostDelete, WithSlot
<1>3. /\ Host(tbl, data, used) /\ Session(Before, tbl, dirty, data, unsent, used, past)
      /\ dirty \subseteq Dirs \X TableIndex /\ unsent \subseteq used /\ used \subseteq Clusters
      /\ tbl \in [Dirs -> Table] /\ data \in [Clusters -> Bytes]
  BY <1>1, CareFacts
<1>4. LiveAt(tbl, d, k) /\ y \in Slot /\ NamedSlot(y)
  <2>1. LiveAt(tbl, d, k)
    BY <1>1 DEF Live, LiveAt
  <2> QED
    BY <1>3, <2>1, LiveSlotTyped, SlotTyped
<1>5. NamedSlot(s) /\ s.mark = "erased" /\ s.name = y.name /\ s.cluster = y.cluster
  <2> HIDE DEF y
  <2> QED
    BY <1>4, ErasedTyped DEF ErasedSlot, Slot
<1>6. /\ ~Ambiguous(t) /\ tbl' = t /\ dirty' = dirty \cup {<<d, k>>} /\ UNCHANGED <<device, up>>
      /\ <<d, k>> \notin dirty /\ y.cluster \notin unsent
  BY <1>2, Patient
<1> HIDE DEF s
<1>7. t \in [Dirs -> Table] /\ t[d][k] = s /\ \A e \in Dirs, j \in TableIndex : <<e, j>> # <<d, k>> => t[e][j] = tbl[e][j]
  BY <1>3, <1>5, SlotWritten
<1>8. /\ t[d][k].mark = "erased" /\ t[d][k].name = tbl[d][k].name /\ t[d][k].cluster = tbl[d][k].cluster
      /\ Besides({<<d, k>>}, tbl, t)
  BY <1>5, <1>7 DEF Besides
<1>9. unsent' = unsent
  BY <1>1, <1>6
<1> HIDE DEF t
<1>10. Host(t, data, used) /\ Session(Before, t, dirty \cup {<<d, k>>}, data, unsent, used, past')
  <2> DEFINE v == Before
             pa2 == past'
  <2>1. /\ Session(v, tbl, dirty, data, unsent, used, past)
        /\ past \subseteq pa2 /\ <<PathAt(tbl, d, k), "deleted">> \in pa2
    BY <1>1, <1>3
  <2> HIDE DEF v, pa2
  <2>2. Host(t, data, used) /\ Session(v, t, dirty \cup {<<d, k>>}, data, unsent, used, pa2)
    BY <1>3, <1>4, <1>6, <1>7, <1>8, <2>1, DeleteKeeps
  <2> QED
    BY <2>2 DEF v, pa2
<1>11. dirty' \subseteq Dirs \X TableIndex /\ unsent' \subseteq used'
  BY <1>1, <1>3, <1>6
<1>12. Host(tbl', data', used') /\ Session(Before, tbl', dirty', data', unsent', used', past')
  BY <1>1, <1>6, <1>9, <1>10
<1> QED
  BY <1>1, <1>6, <1>11, <1>12, HostCare

LEMMA HostRenameCare ==
  ASSUME CarefulHost, CareInv, NEW d \in Dirs, NEW k \in TableIndex, NEW e \in Dirs, NEW j \in TableIndex,
         NEW nm \in Kept, HostRename(d, k, e, j, nm)
  PROVE  CareInv'
<1> DEFINE y == tbl[d][k]
           c == tbl[d][k].cluster
           gone == ErasedSlot(y)
           here == [y EXCEPT !.name = nm]
           r == WithSlot(tbl, d, k, gone)
           t == WithSlot(r, e, j, here)
           X == {<<d, k>>, <<e, j>>}
<1>1. /\ up /\ k \in Live(tbl, d) /\ past \subseteq past' /\ <<PathAt(tbl, d, k), "moved">> \in past'
      /\ data' = data /\ used' = used /\ unsent' = unsent /\ Reusable(<<e, nm>>) /\ ~Named(e, nm)
      /\ y.name \notin DotNames /\ <<<<e, nm>>, "deleted">> \notin past
      /\ (e = d /\ j = k) \/ Vacant(e, j)
  BY DEF HostRename, Operate, NoData, PathAt, CarefulHost
<1>2. HostTables(t, X)
  BY DEF HostRename, WithSlot
<1>3. /\ Host(tbl, data, used) /\ Session(Before, tbl, dirty, data, unsent, used, past)
      /\ dirty \subseteq Dirs \X TableIndex /\ unsent \subseteq used /\ used \subseteq Clusters
      /\ tbl \in [Dirs -> Table] /\ data \in [Clusters -> Bytes]
  BY <1>1, CareFacts
<1>4. LiveAt(tbl, d, k) /\ y \in Slot /\ NamedSlot(y)
  <2>1. LiveAt(tbl, d, k)
    BY <1>1 DEF Live, LiveAt
  <2> QED
    BY <1>3, <2>1, LiveSlotTyped, SlotTyped
<1>5. NamedSlot(gone) /\ gone.mark = "erased" /\ gone.cluster = c
  <2>1. c = y.cluster
    OBVIOUS
  <2> HIDE DEF y, c
  <2> QED
    BY <1>4, <2>1, ErasedTyped
<1>6. NamedSlot(here) /\ here.name = nm /\ here.mark = "live" /\ here.cluster = c /\ here.size = y.size
  <2>1. y.mark = "live" /\ c = y.cluster /\ nm \in Names
    BY <1>4 DEF LiveAt, Kept
  <2> HIDE DEF y, c
  <2> QED
    BY <1>4, <2>1 DEF NamedSlot, Slot
<1>7. /\ ~Ambiguous(t) /\ tbl' = t /\ dirty' = dirty \cup X /\ UNCHANGED <<device, up>>
      /\ <<d, k>> \notin dirty /\ <<e, j>> \notin dirty /\ c \notin unsent
  BY <1>2, Patient
<1> HIDE DEF gone, here
<1>8. r \in [Dirs -> Table] /\ r[d][k] = gone /\ \A f \in Dirs, l \in TableIndex : <<f, l>> # <<d, k>> => r[f][l] = tbl[f][l]
  BY <1>3, <1>5, SlotWritten
<1> HIDE DEF r
<1>9. t \in [Dirs -> Table] /\ t[e][j] = here /\ \A f \in Dirs, l \in TableIndex : <<f, l>> # <<e, j>> => t[f][l] = r[f][l]
  BY <1>6, <1>8, SlotWritten
<1>10. Besides({<<d, k>>, <<e, j>>}, tbl, t)
  BY <1>8, <1>9 DEF Besides
<1>11. (e = d /\ j = k) \/ (t[d][k].mark = "erased" /\ t[d][k].cluster = c)
  <2>1. CASE ~(e = d /\ j = k)
    <3>1. <<d, k>> # <<e, j>>
      BY <2>1
    <3>2. t[d][k] = gone
      BY <1>8, <1>9, <3>1
    <3> QED
      BY <1>5, <3>2
  <2> QED
    BY <2>1
<1>12. t[e][j].mark = "live" /\ t[e][j].name = nm /\ t[e][j].cluster = c /\ t[e][j].size = tbl[d][k].size
  BY <1>6, <1>9
<1>13. /\ \A f \in Dirs, l \in TableIndex : LiveAt(tbl, f, l) => PathAt(tbl, f, l) # <<e, nm>>
       /\ <<<<e, nm>>, "moved">> \in past => dirty = {}
       /\ (e = d /\ j = k) \/ ~LiveAt(tbl, e, j)
  BY <1>1, Unused, PatientReuse DEF Vacant, LiveAt
<1> HIDE DEF t, y
<1>14. Host(t, data, used) /\ Session(Before, t, dirty \cup {<<d, k>>, <<e, j>>}, data, unsent, used, past')
  <2> DEFINE v == Before
             pa2 == past'
  <2>1. /\ Session(v, tbl, dirty, data, unsent, used, past)
        /\ past \subseteq pa2 /\ <<PathAt(tbl, d, k), "moved">> \in pa2 /\ c = tbl[d][k].cluster
        /\ tbl[d][k].name \notin DotNames /\ <<<<e, nm>>, "deleted">> \notin past
    BY <1>1, <1>3 DEF y
  <2> HIDE DEF v, pa2, c
  <2>2. Host(t, data, used) /\ Session(v, t, dirty \cup {<<d, k>>, <<e, j>>}, data, unsent, used, pa2)
    <3>1. Renames(tbl, dirty, unsent, past, d, k, c, e, j, nm, t, pa2)
      BY <1>4, <1>7, <1>9, <1>10, <1>11, <1>12, <1>13, <2>1 DEF Renames
    <3> QED
      BY <1>3, <2>1, <3>1, RenameKeeps
  <2> QED
    BY <2>2 DEF v, pa2
<1>15. dirty' \subseteq Dirs \X TableIndex /\ unsent' \subseteq used'
  BY <1>1, <1>3, <1>7
<1>16. Host(tbl', data', used') /\ Session(Before, tbl', dirty', data', unsent', used', past')
  BY <1>1, <1>7, <1>14
<1> QED
  BY <1>1, <1>7, <1>15, <1>16, HostCare

\* It does nothing else.
LEMMA HostStepCare ==
  ASSUME CarefulHost, SomeContent, CareInv, HostStep
  PROVE  CareInv'
<1>1. PICK d \in Dirs, k \in TableIndex :
        \/ \E nm \in Names, c \in Clusters, x \in Contents : HostCreate(d, k, nm, c, x)
        \/ \E nm \in Kept : HostTouch(d, k, nm)
        \/ \E x \in Contents : HostEdit(d, k, x)
        \/ \E c \in Clusters, x \in Contents : HostOverwrite(d, k, c, x)
        \/ HostEmpty(d, k)
        \/ HostDelete(d, k)
        \/ \E e \in Dirs, j \in TableIndex, nm \in Kept : HostRename(d, k, e, j, nm)
        \/ \E e \in Dirs, j \in TableIndex : HostExchange(d, k, e, j)
  BY DEF HostStep
<1>2. ~Operate("touch") /\ ~Operate("overwrite") /\ ~Operate("empty") /\ ~Operate("exchange")
  BY DEF Operate, CarefulHost
<1>3. ~\E nm \in Kept : HostTouch(d, k, nm)
  BY <1>2 DEF HostTouch
<1>4. ~\E c \in Clusters, x \in Contents : HostOverwrite(d, k, c, x)
  BY <1>2 DEF HostOverwrite
<1>5. ~HostEmpty(d, k)
  BY <1>2 DEF HostEmpty
<1>6. ~\E e \in Dirs, j \in TableIndex : HostExchange(d, k, e, j)
  BY <1>2 DEF HostExchange
<1> QED
  BY <1>1, <1>3, <1>4, <1>5, <1>6, HostCreateCare, HostEditCare, HostDeleteCare, HostRenameCare

-----------------------------------------------------------------------------
(* A mount starts a session.                                                *)

\* The slot <<d, k>> is that of a live file, and says what entry e does.
Shows(t, d, k, e) ==
  LiveAt(t, d, k) /\ PathAt(t, d, k) = PathOf(e) /\ t[d][k].cluster = e.start /\ t[d][k].size = e.size
\* Entry e is that of a file in cluster c, which the host has read.
Shown(v, x, e, c) ==
  /\ e.start = c /\ c \in Clusters /\ ~e.deleted /\ e.name \in Kept
  /\ x[c] \in Bytes /\ e.size = Len(x[c]) /\ v.disk[PathOf(e)] = x[c]

\* The files F are none of those that are never kept.
Keepable(F, files) == F \subseteq Dirs \X Kept /\ \A p \in F : files[p] \in Bytes

\* The entries are those of the files F, one by one, and so are the slots in use.
Catalogued(F, order, v, t, x) ==
  LET n == Cardinality(F) IN
  /\ n \in Nat /\ DOMAIN v.entries = 1..n /\ DOMAIN order = 1..n
  /\ \A d \in Dirs, k \in TableIndex : t[d][k].mark # "free" =>
       \E i \in 1..n : Shows(t, d, k, v.entries[i]) /\ d = v.entries[i].dir /\ k = Rank(v.entries, i)
  /\ \A i \in 1..n : \E d \in Dirs, k \in TableIndex : Shows(t, d, k, v.entries[i])
  /\ \A i \in 1..n : Shown(v, x, v.entries[i], i + 1)
  /\ \A i, j \in 1..n : PathOf(v.entries[i]) = PathOf(v.entries[j]) => i = j
  /\ \A p \in F : \E i \in 1..n : PathOf(v.entries[i]) = p

LEMMA MountedSlots ==
  ASSUME NEW F, NEW order, NEW files, NEW v, NEW t, NEW x, Mounting(order, F, files, v, t, x),
         Keepable(F, files)
  PROVE  Catalogued(F, order, v, t, x)
<1> DEFINE n == Cardinality(F)
           ents == Scanned(order, files)
<1>1. Listing(order, F, files) /\ v.entries = ents
  BY DEF Mounting
<1>2. /\ ents \in Seq(EntryRecord) /\ DOMAIN ents = 1..n /\ n \in Nat
      /\ \A i \in 1..n : /\ i + 1 \in Clusters /\ Len(files[order[i]]) \in Nat
                         /\ ents[i] = Entry(order[i], i + 1, Len(files[order[i]]))
                         /\ PathOf(ents[i]) = order[i] /\ ents[i] \in EntryRecord
  BY <1>1, ScannedTyped
<1>3. /\ DOMAIN order = 1..n
      /\ \A i \in 1..n : order[i] \in F
      /\ \A i, j \in 1..n : order[i] = order[j] => i = j
      /\ \A q \in F : \E i \in 1..n : order[i] = q
  BY <1>1, OrderIsBijection
<1>4. \A d \in Dirs : t[d] = ServedTable(d, ents)
  BY DEF Mounting
<1>5. /\ \A d \in Dirs, k \in TableIndex :
           \/ t[d][k] = FreeSlot
           \/ \E i \in 1..n : ents[i].dir = d /\ Rank(ents, i) = k /\ t[d][k] = ListedSlot(ents[i])
      /\ \A i \in 1..n : ents[i].dir \in Dirs => t[ents[i].dir][Rank(ents, i)] = ListedSlot(ents[i])
  <2>1. /\ \A d : \A k \in TableIndex :
             \/ ServedTable(d, ents)[k] = FreeSlot
             \/ \E i \in 1..n : /\ ents[i].dir = d /\ Rank(ents, i) = k
                                /\ ServedTable(d, ents)[k] = ListedSlot(ents[i])
        /\ \A i \in 1..n : ServedTable(ents[i].dir, ents)[Rank(ents, i)] = ListedSlot(ents[i])
    BY <1>1, ServedSlots
  <2> HIDE DEF ents, n
  <2> QED
    BY <1>4, <2>1
<1>6. \A i \in 1..n : Rank(ents, i) \in TableIndex
  BY <1>1, RankedApart
<1> HIDE DEF ents, n
<1>7. ASSUME NEW d \in Dirs, NEW k \in TableIndex, NEW i \in 1..n, ents[i].dir = d, t[d][k] = ListedSlot(ents[i])
      PROVE  Shows(t, d, k, ents[i])
  BY <1>7 DEF Shows, ListedSlot, LiveSlot, LiveAt, PathAt, PathOf
<1>8. ASSUME NEW d \in Dirs, NEW k \in TableIndex, t[d][k].mark # "free"
      PROVE  \E i \in 1..n : Shows(t, d, k, ents[i]) /\ d = ents[i].dir /\ k = Rank(ents, i)
  <2>1. t[d][k] # FreeSlot
    BY <1>8 DEF FreeSlot
  <2>2. PICK i \in 1..n : ents[i].dir = d /\ Rank(ents, i) = k /\ t[d][k] = ListedSlot(ents[i])
    BY <1>5, <2>1
  <2> QED
    BY <1>7, <2>2
<1>9. ASSUME NEW i \in 1..n
      PROVE  /\ \E d \in Dirs, k \in TableIndex : Shows(t, d, k, ents[i])
             /\ Shown(v, x, ents[i], i + 1)
  <2>1. /\ order[i] \in F /\ order[i] \in Dirs \X Kept /\ order[i] \in Paths /\ files[order[i]] \in Bytes
        /\ ents[i] = Entry(order[i], i + 1, Len(files[order[i]])) /\ PathOf(ents[i]) = order[i]
        /\ i + 1 \in Clusters /\ i \in Nat
    BY <1>2, <1>3 DEF Keepable, Paths, Kept
  <2>2. /\ ents[i].dir \in Dirs /\ ents[i].name \in Kept /\ ents[i].start = i + 1
        /\ ents[i].size = Len(files[order[i]]) /\ ~ents[i].deleted
    BY <2>1 DEF Entry
  <2>3. Shows(t, ents[i].dir, Rank(ents, i), ents[i])
    BY <1>5, <1>6, <1>7, <2>2
  <2>4. x[i + 1] = files[order[i]] /\ v.disk[order[i]] = files[order[i]]
    <3>1. (i + 1) - 1 = i /\ i \in DOMAIN order
      BY <1>3, <2>1
    <3> QED
      BY <2>1, <3>1 DEF Mounting
  <2> QED
    BY <1>6, <2>1, <2>2, <2>3, <2>4 DEF Shown
<1>10. /\ \A i, j \in 1..n : PathOf(ents[i]) = PathOf(ents[j]) => i = j
       /\ \A p \in F : \E i \in 1..n : PathOf(ents[i]) = p
  BY <1>2, <1>3
<1> QED
  BY <1>1, <1>2, <1>3, <1>8, <1>9, <1>10 DEF ents, n, Catalogued

LEMMA MountedSession ==
  ASSUME NEW F, NEW order, NEW files, NEW v, NEW t, NEW x, Mounting(order, F, files, v, t, x),
         Keepable(F, files),
         v \in Device, \A c \in Clusters : v.staged[c] = Absent,
         NEW us, us = {i + 1 : i \in DOMAIN order}
  PROVE  Host(t, x, us) /\ Session(v, t, {}, x, {}, us, {})
<1> DEFINE n == Cardinality(F)
           ents == v.entries
<1>1. /\ n \in Nat /\ DOMAIN ents = 1..n /\ DOMAIN order = 1..n
      /\ \A d \in Dirs, k \in TableIndex : t[d][k].mark # "free" =>
           \E i \in 1..n : Shows(t, d, k, ents[i]) /\ d = ents[i].dir /\ k = Rank(ents, i)
      /\ \A i \in 1..n : \E d \in Dirs, k \in TableIndex : Shows(t, d, k, ents[i])
      /\ \A i \in 1..n : Shown(v, x, ents[i], i + 1)
      /\ \A i, j \in 1..n : PathOf(ents[i]) = PathOf(ents[j]) => i = j
      /\ \A p \in F : \E i \in 1..n : PathOf(ents[i]) = p
  <2>1. Catalogued(F, order, v, t, x)
    BY MountedSlots
  <2> QED
    BY <2>1 DEF Catalogued
<1>2. t \in [Dirs -> Table] /\ x \in [Clusters -> Bytes]
  <2>1. Listing(order, F, files) /\ x = [c \in Clusters |-> IF c - 1 \in DOMAIN order THEN files[order[c - 1]] ELSE <<>>]
    BY DEF Mounting
  <2>2. \A i \in DOMAIN order : files[order[i]] \in Bytes
    BY <2>1, OrderIsBijection DEF Keepable
  <2>3. t \in [Dirs -> Table]
    BY MountedTyped
  <2> QED
    BY <2>1, <2>2, <2>3, BytesTyped
<1> HIDE DEF n, ents
<1>3. /\ us \subseteq Clusters /\ \A i \in 1..n : ents[i].start = i + 1 /\ ents[i].start \in us
  <2>1. ASSUME NEW i \in 1..n PROVE ents[i].start = i + 1 /\ i + 1 \in Clusters /\ i + 1 \in us
    BY <1>1 DEF Shown
  <2>2. ASSUME NEW c \in us PROVE c \in Clusters
    BY <1>1, <2>1
  <2> QED
    BY <2>1, <2>2
<1>4. \A i, j \in 1..n : ents[i].start = ents[j].start => i = j
  BY <1>3
\* A slot in use is that of an entry; it is live.
<1>5. ASSUME NEW d \in Dirs, NEW k \in TableIndex, t[d][k].mark # "free"
      PROVE  t[d][k].mark = "live" /\ \E i \in 1..n : Shows(t, d, k, ents[i])
  BY <1>1, <1>5 DEF Shows, LiveAt
\* It tells one entry from another, by its path as by its cluster.
<1>6. ASSUME NEW d \in Dirs, NEW k \in TableIndex, LiveAt(t, d, k), NEW i \in 1..n,
             t[d][k].cluster = ents[i].start \/ PathAt(t, d, k) = PathOf(ents[i])
      PROVE  Shows(t, d, k, ents[i])
  <2>1. PICK j \in 1..n : Shows(t, d, k, ents[j])
    BY <1>5, <1>6 DEF LiveAt
  <2>2. j = i
    BY <1>1, <1>4, <1>6, <2>1 DEF Shows
  <2> QED
    BY <2>1, <2>2
<1>7. ASSUME NEW d \in Dirs, NEW k \in TableIndex, LiveAt(t, d, k) PROVE ~NoStart(v, t[d][k].cluster)
  <2>1. PICK i \in 1..n : Shows(t, d, k, ents[i])
    BY <1>5, <1>7 DEF LiveAt
  <2> QED
    BY <1>1, <2>1 DEF Shows, NoStart, ents
<1>8. ASSUME NEW i \in 1..n PROVE ~Unheld(t, ents[i].start)
  BY <1>1 DEF Shows, Unheld
<1>9. ASSUME NEW d \in Dirs, NEW e \in Dirs, NEW k \in TableIndex, NEW j \in TableIndex,
             LiveAt(t, d, k), LiveAt(t, e, j), <<d, k>> # <<e, j>>
      PROVE  t[d][k].cluster # t[e][j].cluster /\ PathAt(t, d, k) # PathAt(t, e, j)
  <2>1. PICK a \in 1..n : Shows(t, d, k, ents[a]) /\ d = ents[a].dir /\ k = Rank(ents, a)
    BY <1>1, <1>9 DEF LiveAt
  <2>2. PICK b \in 1..n : Shows(t, e, j, ents[b]) /\ e = ents[b].dir /\ j = Rank(ents, b)
    BY <1>1, <1>9 DEF LiveAt
  <2>3. a # b
    BY <1>9, <2>1, <2>2
  <2> QED
    BY <1>1, <1>4, <2>1, <2>2, <2>3 DEF Shows
<1>10. Host(t, x, us)
  <2>1. HostApart(t)
    BY <1>9 DEF HostApart
  <2>2. HostUsed(t, us)
    <3>1. ASSUME NEW d \in Dirs, NEW k \in TableIndex, t[d][k].mark # "free" PROVE t[d][k].cluster \in us
      BY <1>3, <1>5, <3>1 DEF Shows
    <3> QED
      BY <3>1 DEF HostUsed
  <2>3. HostSized(t, x)
    <3>1. ASSUME NEW d \in Dirs, NEW k \in TableIndex, LiveAt(t, d, k) PROVE t[d][k].size = Len(x[t[d][k].cluster])
      BY <1>1, <1>5, <3>1 DEF Shows, Shown, LiveAt
    <3> QED
      BY <3>1 DEF HostSized
  <2>4. ~Ambiguous(t)
    BY <1>5 DEF Ambiguous
  <2> QED
    BY <1>2, <1>3, <2>1, <2>2, <2>3, <2>4 DEF Host
<1>11. EntriesApart(v) /\ Stored(v, us) /\ Listed(v)
  <2>1. EntriesApart(v)
    BY <1>1, <1>4 DEF EntriesApart, ents
  <2>2. Stored(v, us)
    BY <1>1, <1>3 DEF Stored, Shown, ents
  <2>3. \A p \in Paths : v.disk[p] # Absent => p \in F
    BY DEF Mounting
  <2>4. Listed(v)
    BY <1>1, <2>3 DEF Listed, NoPath, ents
  <2> QED
    BY <2>1, <2>2, <2>4
<1>12. Follows(v, t, {}, {})
  <2>1. ASSUME NEW i \in 1..n, NEW d \in Dirs, NEW k \in TableIndex, LiveAt(t, d, k), t[d][k].cluster = ents[i].start
        PROVE  PathAt(t, d, k) = PathOf(ents[i]) /\ ~ents[i].deleted
    BY <1>1, <1>6, <2>1 DEF Shows, Shown
  <2> QED
    BY <1>1, <2>1 DEF Follows, ents
<1>13. Gone(v, t, {}, {})
  BY <1>1, <1>8 DEF Gone, ents
<1>14. ErasesDone(v, t, {})
  BY <1>5 DEF ErasesDone, Erases
<1>15. Replaced(v, t)
  <2>1. ASSUME NEW i \in 1..n, NEW d \in Dirs, NEW k \in TableIndex, LiveAt(t, d, k), PathAt(t, d, k) = PathOf(ents[i])
        PROVE  t[d][k].cluster = ents[i].start
    BY <1>6, <2>1 DEF Shows
  <2> QED
    BY <1>1, <2>1 DEF Replaced, ents
<1>16. Untracked(v, t, {}) /\ Claimable(v, t, x, {})
  BY <1>7 DEF Untracked, Claimable
<1>17. InSync(v, t, {}, x, {})
  <2>1. ASSUME NEW i \in 1..n, NEW d \in Dirs, NEW k \in TableIndex, LiveAt(t, d, k), t[d][k].cluster = ents[i].start
        PROVE  /\ PathAt(t, d, k) = PathOf(ents[i])
               /\ InPlace(ents[i].size, t[d][k].size, <<d, k>> \in {},
                          Due(t[d][k].cluster, x, {}, v.disk[PathOf(ents[i])]), x[t[d][k].cluster])
    <3>1. Shows(t, d, k, ents[i]) /\ Shown(v, x, ents[i], i + 1)
      BY <1>1, <1>6, <2>1
    <3> QED
      BY <3>1 DEF Shows, Shown, InPlace, Due
  <2> QED
    BY <1>1, <2>1 DEF InSync, ents
<1>18. Fresh(v, us)
  BY DEF Fresh
<1> QED
  BY <1>10, <1>11, <1>12, <1>13, <1>14, <1>15, <1>16, <1>17, <1>18 DEF Session

-----------------------------------------------------------------------------
(* The invariant holds.                                                     *)

\* The names of files that are kept are no more than a table has slots, and the
\* files on the disk at first have such names.
RoomForKept == Cardinality(Kept) <= TableSlots /\ DOMAIN InitialFiles \subseteq Dirs \X Kept

LEMMA KeptHaveRoom ==
  ASSUME RoomForKept, NEW F, F \subseteq Dirs \X Kept
  PROVE  Roomy(F)
BY DEF RoomForKept, Roomy, Kept

LEMMA InitCare ==
  ASSUME RoomForKept
  PROVE  Init => CareInv
<1> SUFFICES ASSUME Init PROVE CareInv
  OBVIOUS
<1> DEFINE F == DOMAIN InitialFiles
<1>1. PICK order \in SetToSeqs(F) :
        LET m == Mounted(order, InitialFiles)
        IN  entries = m.entries /\ tbl = m.tbl /\ data = m.data /\ used = m.used
  BY DEF Init
<1>2. /\ disk = [p \in Paths |-> IF p \in F THEN InitialFiles[p] ELSE Absent]
      /\ staged = [c \in Clusters |-> Absent] /\ up = TRUE /\ dirty = {} /\ unsent = {} /\ past = {}
  BY DEF Init
<1>3. F \subseteq Dirs \X Kept /\ Keepable(F, InitialFiles)
  BY InitialAssumption DEF RoomForKept, Keepable, Bytes
<1>4. Mounting(order, F, InitialFiles, Before, tbl, data)
  <2>0. Roomy(F)
    BY <1>3, KeptHaveRoom
  <2>1. Listing(order, F, InitialFiles)
    BY <1>1, <1>3, <2>0, InitialAssumption, BytesTyped DEF Listing, Keepable
  <2>2. /\ entries = Scanned(order, InitialFiles)
        /\ tbl = [d \in Dirs |-> ServedTable(d, Scanned(order, InitialFiles))]
        /\ data = [c \in Clusters |-> IF c - 1 \in DOMAIN order THEN InitialFiles[order[c - 1]] ELSE <<>>]
    BY <1>1 DEF Mounted
  <2> QED
    BY <1>2, <2>1, <2>2 DEF Mounting, Before
<1>5. used = {i + 1 : i \in DOMAIN order}
  BY <1>1 DEF Mounted
<1>6. Before \in Device /\ \A c \in Clusters : Before.staged[c] = Absent
  <2>1. Before.entries \in Seq(EntryRecord)
    BY <1>4, MountedTyped
  <2>2. \A p \in F : InitialFiles[p] \in File
    BY <1>3, BytesTyped DEF Keepable
  <2>3. disk \in [Paths -> File] /\ staged \in [Clusters -> File]
    BY <1>2, <2>2, ContentTyped
  <2> QED
    BY <1>2, <2>1, <2>3 DEF Before, Device
<1> HIDE DEF F
<1>7. Host(tbl, data, used) /\ Session(Before, tbl, {}, data, {}, used, {})
  <2> DEFINE v == Before
  <2>1. /\ Mounting(order, F, InitialFiles, v, tbl, data) /\ v \in Device
        /\ \A c \in Clusters : v.staged[c] = Absent
    BY <1>4, <1>6
  <2> HIDE DEF v
  <2>2. Host(tbl, data, used) /\ Session(v, tbl, {}, data, {}, used, {})
    BY <1>3, <1>5, <2>1, MountedSession
  <2> QED
    BY <2>2 DEF v
<1> QED
  BY <1>2, <1>6, <1>7 DEF CareInv, Session

LEMMA MountCare ==
  ASSUME RoomForKept, CareInv, Mount
  PROVE  CareInv'
<1> DEFINE F == Existing(disk)
<1>1. PICK order \in SetToSeqs(F) :
        LET m == Mounted(order, disk)
        IN  entries' = m.entries /\ tbl' = m.tbl /\ data' = m.data /\ used' = m.used
  BY DEF Mount
<1>2. /\ disk' = disk /\ staged' = staged /\ up' = TRUE /\ dirty' = {} /\ unsent' = {} /\ past' = {}
      /\ Cardinality(F) < MaxCluster /\ ~up
  BY DEF Mount
<1>3. /\ disk \in [Paths -> File] /\ staged = [c \in Clusters |-> Absent] /\ staged \in [Clusters -> File]
      /\ \A p \in Paths : disk[p] # Absent => p[2] \in Kept /\ disk[p] \in Bytes
  BY <1>2 DEF CareInv, Rests, Before, Device
<1>4. F \subseteq Paths /\ F \subseteq Dirs \X Kept /\ Keepable(F, disk) /\ \A p \in F : disk[p] \in File
  <2>1. ASSUME NEW p \in F PROVE p \in Paths /\ p \in Dirs \X Kept /\ disk[p] \in Bytes /\ disk[p] \in File
    <3>1. p \in Paths /\ disk[p] # Absent
      BY <1>3 DEF Existing
    <3>2. p = <<p[1], p[2]>> /\ p[1] \in Dirs
      BY <3>1 DEF Paths
    <3> QED
      BY <1>3, <3>1, <3>2
  <2> QED
    BY <2>1 DEF Keepable
<1>5. \A p \in Paths : disk[p] = IF p \in F THEN disk[p] ELSE Absent
  BY <1>3 DEF Existing
<1> HIDE DEF F
<1>6. Mounting(order, F, disk, Before', tbl', data')
  <2>0. Roomy(F)
    BY <1>4, KeptHaveRoom
  <2>1. Listing(order, F, disk)
    BY <1>1, <1>2, <1>4, <2>0 DEF Listing
  <2>2. /\ entries' = Scanned(order, disk)
        /\ tbl' = [d \in Dirs |-> ServedTable(d, Scanned(order, disk))]
        /\ data' = [c \in Clusters |-> IF c - 1 \in DOMAIN order THEN disk[order[c - 1]] ELSE <<>>]
    BY <1>1 DEF Mounted
  <2>3. Before'.entries = entries' /\ Before'.disk = disk
    BY <1>2 DEF Before
  <2> QED
    BY <1>5, <2>1, <2>2, <2>3 DEF Mounting
<1>7. used' = {i + 1 : i \in DOMAIN order}
  BY <1>1 DEF Mounted
<1>8. Before' \in Device /\ \A c \in Clusters : Before'.staged[c] = Absent
  <2>1. Before'.entries \in Seq(EntryRecord)
    BY <1>6, MountedTyped
  <2> QED
    BY <1>2, <1>3, <2>1 DEF Before, Device
<1>9. Host(tbl', data', used') /\ Session(Before', tbl', {}, data', {}, used', {})
  <2> DEFINE v == Before'
             t == tbl'
             x == data'
             us == used'
  <2>1. /\ Mounting(order, F, disk, v, t, x) /\ v \in Device /\ us = {i + 1 : i \in DOMAIN order}
        /\ \A c \in Clusters : v.staged[c] = Absent
    BY <1>6, <1>7, <1>8
  <2> HIDE DEF v, t, x, us
  <2>2. Host(t, x, us) /\ Session(v, t, {}, x, {}, us, {})
    BY <1>4, <2>1, MountedSession
  <2> QED
    BY <2>2 DEF v, t, x, us
<1> QED
  BY <1>2, <1>8, <1>9 DEF CareInv, Session

LEMMA NextCare ==
  ASSUME CarefulHost, SomeContent, RoomForKept, EntryForEachCluster, CareInv, [Next]_vars
  PROVE  CareInv'
<1>1. CASE HostStep
  BY <1>1, HostStepCare
<1>2. ASSUME NEW d \in Dirs, WriteTable(d) PROVE CareInv'
  BY <1>2, WriteTableCare
<1>3. ASSUME NEW c \in Clusters, WriteData(c) PROVE CareInv'
  BY <1>3, WriteDataCare
<1>4. CASE Eject
  BY <1>4, EjectCare
<1>5. CASE Kill
  BY <1>5 DEF Kill, CarefulHost
<1>6. CASE Mount
  BY <1>6, MountCare
<1>7. CASE UNCHANGED vars
  <2>1. /\ Before' = Before /\ staged' = staged /\ disk' = disk /\ up' = up /\ tbl' = tbl /\ dirty' = dirty
        /\ data' = data /\ unsent' = unsent /\ used' = used /\ past' = past
    BY <1>7 DEF vars, device, Before
  <2>2. EjectedAsHostSawIt' <=> EjectedAsHostSawIt
    BY <2>1 DEF EjectedAsHostSawIt, Settled, HostFile, Live
  <2>3. Rests' <=> Rests
    BY <2>1, <2>2 DEF Rests
  <2> QED
    BY <2>1, <2>3 DEF CareInv
<1> QED
  BY <1>1, <1>2, <1>3, <1>4, <1>5, <1>6, <1>7 DEF Next

LEMMA CareAlways ==
  ASSUME CarefulHost, SomeContent, RoomForKept, EntryForEachCluster
  PROVE  Spec => []CareInv
<1>1. Init => CareInv
  BY InitCare
<1>2. CareInv /\ [Next]_vars => CareInv'
  BY NextCare
<1> QED
  BY <1>1, <1>2, PTL DEF Spec

\* Two entries that are not deleted have different paths and different first
\* clusters, so that fatfs_find_entry and fatfs_locate_cluster find the right
\* one, whatever a careful host creates, edits, deletes and renames, and in
\* whatever order its writes come.
THEOREM TrackedAlwaysApart ==
  ASSUME CarefulHost, SomeContent, RoomForKept, EntryForEachCluster
  PROVE  Spec => []TrackedApart
<1>1. CareInv => TrackedApart
  BY CareSeen
<1> QED
  BY <1>1, CareAlways, PTL

\* The file of an entry that is not deleted is on the disk: no rename, replaced
\* file or late table write of a careful host removes it from under the entry.
THEOREM TrackedAlwaysExists ==
  ASSUME CarefulHost, SomeContent, RoomForKept, EntryForEachCluster
  PROVE  Spec => []TrackedExists
<1>1. CareInv => TrackedExists
  BY CareSeen
<1> QED
  BY <1>1, CareAlways, PTL

\* A table sector that a careful host writes again, with nothing new in it,
\* changes no file and deletes, moves and creates no entry: what
\* fatfs_scan_dir_table_write does to every slot each time is idempotent.
THEOREM RewriteAlwaysHarmless ==
  ASSUME CarefulHost, SomeContent, RoomForKept, EntryForEachCluster
  PROVE  Spec => []RewriteHarmless
<1>1. CareInv => RewriteHarmless
  BY CareSeen
<1> QED
  BY <1>1, CareAlways, PTL

\* When a careful host has written all it had to write and the volume is
\* ejected, the disk holds the host's files, with their contents, and no
\* others: staging, claims, renames and deferred deletes come to that in every
\* order of its writes.
THEOREM EjectedAlwaysAsHostSawIt ==
  ASSUME CarefulHost, SomeContent, RoomForKept, EntryForEachCluster
  PROVE  Spec => []EjectedAsHostSawIt
<1>1. CareInv => EjectedAsHostSawIt
  BY CareSeen
<1> QED
  BY <1>1, CareAlways, PTL
=============================================================================
