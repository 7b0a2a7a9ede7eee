-------------------------- MODULE FolderMoveProofs --------------------------
(***************************************************************************)
(* Proofs about FolderMove, for any number of folders, places, files,      *)
(* chunks, queue slots and operations of the host, with or without copies  *)
(* that fail to open a file: no file of the host is lost, reads between    *)
(* two copies are true, the copy's source is nobody's place, and the       *)
(* ejected disk is what the host saw.                                      *)
(*                                                                         *)
(* The hypothesis, Careful, is what the run FolderMove.cfg has too: the    *)
(* two disagreements the project knows of, and a full table, are excluded. *)
(***************************************************************************)
EXTENDS FolderMove, SequenceTheorems, FiniteSetTheorems, WellFoundedInduction, TLAPS

\* Induction on the numbers 1..n, over a set in place of a predicate.
LEMMA CountUp ==
  ASSUME NEW n \in Nat, NEW S, 1 \in S, \A k \in 1..n - 1 : k \in S => k + 1 \in S
  PROVE  1..n \subseteq S
<1> SUFFICES ASSUME NEW x \in 1..n, x \notin S PROVE FALSE
  OBVIOUS
<1> DEFINE T == {k \in 1..n : k \notin S}
<1>1. T \subseteq Nat /\ x \in T
  OBVIOUS
<1>2. PICK m \in T : \A k \in T : ~(<<k, m>> \in OpToRel(<, Nat))
  BY <1>1, NatLessThanWellFounded, WFMin
<1>3. m \in 1..n /\ m \notin S /\ m # 1
  BY <1>2
<1>4. m - 1 \in 1..n - 1 /\ (m - 1) + 1 = m /\ m - 1 < m
  BY <1>3
<1>5. m - 1 \notin T
  <2>1. m - 1 \in Nat /\ m \in Nat
    BY <1>3
  <2>2. <<m - 1, m>> \in OpToRel(<, Nat)
    BY <1>4, <2>1 DEF OpToRel
  <2> QED
    BY <1>2, <2>2
<1> QED
  BY <1>3, <1>4, <1>5

\* The same from 0.
LEMMA CountFromZero ==
  ASSUME NEW n \in Nat, NEW S, 0 \in S, \A k \in 0..n - 1 : k \in S => k + 1 \in S
  PROVE  0..n \subseteq S
<1> DEFINE T == {k \in 1..n + 1 : k - 1 \in S}
<1>1. 1 \in T
  OBVIOUS
<1>2. ASSUME NEW k \in 1..(n + 1) - 1, k \in T PROVE k + 1 \in T
  <2>1. k - 1 \in 0..n - 1 /\ (k - 1) + 1 = k /\ k + 1 \in 1..n + 1 /\ (k + 1) - 1 = k
    BY <1>2
  <2> QED
    BY <1>2, <2>1
<1>3. 1..n + 1 \subseteq T
  BY <1>1, <1>2, CountUp
<1>4. ASSUME NEW i \in 0..n PROVE i \in S
  <2>1. i + 1 \in 1..n + 1 /\ (i + 1) - 1 = i
    OBVIOUS
  <2> QED
    BY <1>3, <2>1
<1> QED
  BY <1>4

\* A function of 0..n is defined by its first value and a step.
Walk(f, n, D, base, step) ==
  f \in [0..n -> D] /\ f[0] = base /\ \A i \in 1..n : f[i] = step[<<f[i - 1], i>>]
LEMMA Steps ==
  ASSUME NEW n \in Nat, NEW D, NEW base \in D, NEW step \in [D \X (1..n) -> D]
  PROVE  \E f : Walk(f, n, D, base, step)
<1> DEFINE Good(f, k) == /\ f \in [0..k -> D] /\ f[0] = base
                         /\ \A i \in 1..k : f[i] = step[<<f[i - 1], i>>]
           S == {k \in 0..n : \E f : Good(f, k)}
<1>1. 0 \in S
  <2>1. Good([i \in 0..0 |-> base], 0)
    OBVIOUS
  <2> HIDE DEF Good
  <2> QED
    BY <2>1
<1>2. ASSUME NEW k \in 0..n - 1, k \in S PROVE k + 1 \in S
  <2>1. PICK f : Good(f, k)
    BY <1>2
  <2>2. k + 1 \in 1..n /\ f[k] \in D /\ step[<<f[k], k + 1>>] \in D
    BY <2>1
  <2> DEFINE g == [i \in 0..k + 1 |-> IF i <= k THEN f[i] ELSE step[<<f[k], k + 1>>]]
  <2>3. g \in [0..k + 1 -> D] /\ g[0] = base
    BY <2>1, <2>2
  <2>4. ASSUME NEW i \in 1..k + 1 PROVE g[i] = step[<<g[i - 1], i>>]
    <3>1. CASE i <= k
      <4>1. i \in 1..k /\ i - 1 \in 0..k + 1 /\ i - 1 <= k
        BY <3>1
      <4>2. g[i] = f[i] /\ g[i - 1] = f[i - 1]
        BY <4>1
      <4> QED
        BY <2>1, <4>1, <4>2
    <3>2. CASE i = k + 1
      <4>1. i \in 0..k + 1 /\ ~(i <= k) /\ k \in 0..k + 1 /\ k <= k /\ i - 1 = k
        BY <3>2
      <4>2. g[i] = step[<<f[k], k + 1>>] /\ g[k] = f[k]
        BY <4>1
      <4> QED
        BY <3>2, <4>1, <4>2
    <3> QED
      BY <3>1, <3>2
  <2>5. Good(g, k + 1)
    BY <2>3, <2>4
  <2>6. k + 1 \in 0..n
    OBVIOUS
  <2> HIDE DEF Good
  <2> QED
    BY <2>5, <2>6
<1>3. n \in S
  <2> HIDE DEF S
  <2>1. 0..n \subseteq S
    BY <1>1, <1>2, CountFromZero
  <2> QED
    BY <2>1
<1>4. PICK f : Good(f, n)
  BY <1>3
<1>5. Walk(f, n, D, base, step)
  BY <1>4 DEF Walk
<1> QED
  BY <1>5

-----------------------------------------------------------------------------
(* The inductive invariant.                                                 *)

\* Places whose slots the device has read as they are.
Settled == {p \in Places : Parent[p] \notin dirty}

LiveAt(f, p) == tbl[p].mark = "live" /\ tbl[p].folder = f
Dead(f) == \E r \in gone \cap Places : tbl[r].folder = f
Accounted(f) == Dead(f) \/ \E p \in Places : LiveAt(f, p)

Texts == {s \in Seq(Folders \cup {Edited}) : Len(s) <= Longest}
EntryRecord == [place : Places \cup {Nowhere}, deleted : BOOLEAN]
SlotRecord == [mark : {"free", "live", "erased"}, folder : Folders \cup {Nowhere}]
CopyRecord ==
  [active : BOOLEAN, old : Places \cup {Nowhere}, new : Places \cup {Nowhere}, todo : Seq(Files), open : BOOLEAN,
   at : Nat, ok : BOOLEAN]
DeviceRecord ==
  [entry : [Folders -> EntryRecord], graves : [Folders \X Files -> Places \cup {Nowhere}],
   dirs : SUBSET Places, disk : [Places \X Files -> Texts \cup {Absent}], bg : CopyRecord]

HostGood ==
  /\ tbl \in [Places -> SlotRecord]
  /\ \A p \in Places : tbl[p].mark = "free" <=> tbl[p].folder = Nowhere
  /\ \A f \in Folders, p, q \in Places : LiveAt(f, p) /\ LiveAt(f, q) => p = q
  /\ want \in [Folders -> [Files -> Texts \cup {Absent}]]
  /\ dirty \subseteq Parents \cup Folders /\ gone \subseteq Places \cup Folders
  /\ \A r \in gone \cap Places :
       /\ tbl[r].mark = "erased"
       /\ \A p \in Places : ~LiveAt(tbl[r].folder, p)
       /\ \A x \in Files : want[tbl[r].folder][x] = Absent
  /\ \A p \in Places : tbl[p].mark # "free" => Accounted(tbl[p].folder)
  /\ \A f \in gone \cap Folders : Accounted(f)
  /\ \A f \in dirty \cap Folders : f \in gone \/ Dead(f)

\* v is the device's state, R the places whose slots were read.
EntryGood(v, R, f) ==
  /\ v.entry[f].place = Nowhere => ~v.entry[f].deleted
  /\ v.entry[f].place # Nowhere => tbl[v.entry[f].place].folder = f /\ v.entry[f].place \in v.dirs
  /\ v.entry[f].deleted => tbl[v.entry[f].place].mark = "erased"
  /\ \A x \in Files : want[f][x] # Absent => v.entry[f].place # Nowhere
  /\ \A p \in Places : LiveAt(f, p) /\ p \in R => v.entry[f] = EntryAt(p)
  /\ \A p \in Places : LiveAt(f, p) /\ f \in gone => v.entry[f].place = p
  /\ \A r \in gone \cap Places :
       tbl[r].folder = f => v.entry[f].place = r /\ (r \in R => v.entry[f].deleted)

\* A copy: from where to where, what is left, the file that is open, what is done.
FromTo(v) ==
  /\ v.bg.old \in v.dirs /\ v.bg.new \in v.dirs /\ v.bg.old # v.bg.new
  /\ \A f \in Folders : v.entry[f].place # v.bg.old
  /\ \E f \in Folders : v.entry[f].place = v.bg.new
Queued(v) ==
  /\ Len(v.bg.todo) <= QueueMax /\ IsInjective(v.bg.todo)
  /\ \A x \in ToSet(v.bg.todo) : v.disk[v.bg.old, x] # Absent
Opened(v) ==
  v.bg.open => LET x == Head(v.bg.todo) IN
               /\ v.bg.todo # <<>> /\ v.bg.at <= Len(v.disk[v.bg.old, x])
               /\ v.disk[v.bg.new, x] = SubSeq(v.disk[v.bg.old, x], 1, v.bg.at)
Copied(v) ==
  /\ v.bg.ok => \A x \in Files \ ToSet(v.bg.todo) : v.disk[v.bg.new, x] = v.disk[v.bg.old, x]
  /\ ~frail => v.bg.ok
CopyGood(v) ==
  IF v.bg.active THEN FromTo(v) /\ Queued(v) /\ Opened(v) /\ Copied(v) ELSE v.bg = Idle

SourceErased(v) ==
  v.bg.active => tbl[v.bg.old].mark = "erased" /\ tbl[v.bg.old].folder = tbl[v.bg.new].folder

DirGood(v, p) ==
  IF p \in v.dirs THEN \/ \E f \in Folders : v.entry[f].place = p
                       \/ v.bg.active /\ p = v.bg.old
                       \/ frail /\ tbl[p].mark = "erased"
  ELSE \A x \in Files : v.disk[p, x] = Absent

\* Where the files of a folder are to be found.
SourceOf(v, f) == IF v.bg.active /\ v.entry[f].place = v.bg.new THEN v.bg.old ELSE v.entry[f].place

FileGood(v, f, x) ==
  /\ v.graves[f, x] # Nowhere =>
       v.graves[f, x] = v.entry[f].place /\ want[f][x] = Absent /\ (f \in gone \/ Dead(f))
  /\ ~frail /\ want[f][x] # Absent => v.disk[SourceOf(v, f), x] = want[f][x]
  /\ ~frail /\ want[f][x] = Absent /\ v.entry[f].place # Nowhere =>
       v.disk[SourceOf(v, f), x] = Absent \/ f \in dirty \/ v.graves[f, x] = v.entry[f].place \/ Dead(f)
  /\ frail /\ want[f][x] # Absent /\ Edited \notin ToSet(want[f][x]) =>
       \E p \in Places : /\ tbl[p].folder = f /\ v.disk[p, x] = want[f][x]
                         /\ ~(v.bg.active /\ p = v.bg.new /\ x \in ToSet(v.bg.todo))

Good(v, R) ==
  /\ v \in DeviceRecord
  /\ \A f \in Folders : EntryGood(v, R, f)
  /\ \A p \in Places : DirGood(v, p)
  /\ \A f \in Folders, x \in Files : FileGood(v, f, x)
  /\ CopyGood(v)
  /\ frail => SourceErased(v)

FolderInv ==
  /\ phase \in {"up", "leaving", "down"} /\ frail \in BOOLEAN
  /\ phase # "down" => HostGood /\ Good(Device, Settled)
  /\ phase = "down" => ~bg.active /\ NothingLost /\ EjectedAsHostSawIt

\* Only a source that cannot be opened fails, the host keeps clear of the habits that
\* FolderMove names as careless, and there is an entry for every folder.
Careful ==
  /\ Faults \subseteq {"open"}
  /\ HostOps \cap {"replace", "hasty", "prune"} = {}
  /\ Cardinality(Folders) <= MaxEntries

-----------------------------------------------------------------------------
(* Sizes and sequences.                                                     *)

LEMMA Basics ==
  /\ QueueMax \in Nat /\ MaxEntries \in Nat
  /\ Parents \cap Folders = {} /\ Places \cap Folders = {}
  /\ Nowhere \notin Places /\ Nowhere \notin Folders /\ Nowhere # Edited
  /\ \A p \in Places : Parent[p] \in Parents
BY BoundsAssumption, TreeAssumption DEF Parents

\* A finite set of numbers has an upper bound.
LEMMA Bounded ==
  ASSUME NEW S, IsFiniteSet(S), NEW F \in [S -> Nat]
  PROVE  \E m \in Nat : \A x \in S : F[x] <= m
<1>0. PICK n \in Nat : ExistsSurjection(1..n, S)
  BY FS_NatSurjection
<1>1. PICK h \in Surjection(1..n, S) : TRUE
  BY <1>0 DEF ExistsSurjection
<1> DEFINE T == {k \in 0..n : \E m \in Nat : \A i \in 1..k : F[h[i]] <= m}
<1>2. 0 \in T
  OBVIOUS
<1>3. \A i \in 1..n : h[i] \in S
  BY DEF Surjection
<1>4. ASSUME NEW k \in 0..n - 1, k \in T PROVE k + 1 \in T
  <2>1. PICK m \in Nat : \A i \in 1..k : F[h[i]] <= m
    BY <1>4
  <2>2. k + 1 \in 1..n /\ F[h[k + 1]] \in Nat
    BY <1>3
  <2>3. \A i \in 1..k + 1 : i \in 1..k \/ i = k + 1
    OBVIOUS
  <2>4. PICK b \in Nat : b >= m /\ b >= F[h[k + 1]]
    BY <2>2
  <2>5. \A i \in 1..k + 1 : F[h[i]] <= b
    <3> TAKE i \in 1..k + 1
    <3>1. CASE i \in 1..k
      <4>1. F[h[i]] <= m /\ F[h[i]] \in Nat
        BY <1>3, <2>1, <3>1
      <4> QED
        BY <2>4, <4>1
    <3>2. CASE i = k + 1
      BY <2>4, <3>2
    <3> QED
      BY <2>3, <3>1, <3>2
  <2>6. k + 1 \in 0..n
    OBVIOUS
  <2> QED
    BY <2>5, <2>6
<1> HIDE DEF T
<1>5. n \in T
  <2>1. 0..n \subseteq T
    BY <1>2, <1>4, CountFromZero
  <2> QED
    BY <2>1
<1>6. PICK m \in Nat : \A i \in 1..n : F[h[i]] <= m
  BY <1>5 DEF T
<1>7. \A x \in S : \E i \in 1..n : h[i] = x
  BY DEF Surjection
<1> QED
  BY <1>6, <1>7

LEMMA LongestIs == Longest \in Nat /\ \A x \in Files : Chunks[x] <= Longest
<1> DEFINE S == {Chunks[x] : x \in Files} \cup {0}
<1>1. PICK m \in Nat : \A x \in Files : Chunks[x] <= m
  BY FilesAssumption, Bounded
<1>2. S \subseteq Nat /\ S # {} /\ \A y \in S : y <= m
  BY <1>1, FilesAssumption
<1> DEFINE T == {k \in Nat : \A y \in S : y <= k}
<1>3. m \in T /\ T \subseteq Nat
  BY <1>2
<1>4. PICK k \in T : \A j \in T : ~(<<j, k>> \in OpToRel(<, Nat))
  BY <1>3, NatLessThanWellFounded, WFMin
<1>5. k \in S
  <2> SUFFICES ASSUME k \notin S PROVE FALSE
    OBVIOUS
  <2>1. k \in Nat /\ \A y \in S : y \in Nat /\ y <= k /\ y # k
    BY <1>2
  <2>2. k # 0
    OBVIOUS
  <2>3. k - 1 \in Nat /\ \A y \in S : y <= k - 1
    BY <2>1, <2>2
  <2>4. k - 1 \in T
    BY <2>3
  <2>5. <<k - 1, k>> \in OpToRel(<, Nat)
    BY <2>1, <2>3 DEF OpToRel
  <2> QED
    BY <1>4, <2>4, <2>5
<1>6. \A y \in S : k >= y
  BY <1>2
<1> HIDE DEF S, T
<1>7. Max(S) \in S /\ \A y \in S : Max(S) >= y
  BY <1>5, <1>6 DEF Max
<1>8. Longest = Max(S) /\ \A x \in Files : Chunks[x] \in S
  BY DEF Longest, S
<1> QED
  BY <1>2, <1>7, <1>8

\* The files of a set, in some order, each once.
LEMMA Listed ==
  ASSUME NEW S, S \subseteq Files
  PROVE  LET s == SetToSeq(S) IN s \in Seq(Files) /\ IsInjective(s) /\ ToSet(s) = S
<1>1. IsFiniteSet(S)
  BY FilesAssumption, FS_Subset
<1>2. Cardinality(S) \in Nat /\ ExistsBijection(1..Cardinality(S), S)
  BY <1>1, FS_CardinalityType
<1>3. PICK h \in Bijection(1..Cardinality(S), S) : TRUE
  BY <1>2 DEF ExistsBijection
<1>4. h \in [1..Cardinality(S) -> S] /\ IsInjective(h)
  BY <1>3 DEF Bijection, Injection, IsInjective
<1> DEFINE s == SetToSeq(S)
<1>5. s \in [1..Cardinality(S) -> S] /\ IsInjective(s)
  BY <1>4 DEF SetToSeq
<1> HIDE DEF s
<1>6. s \in Surjection(1..Cardinality(S), S)
  <2>1. s \in Injection(1..Cardinality(S), S)
    BY <1>5 DEF Injection
  <2>2. Cardinality(1..Cardinality(S)) = Cardinality(S)
    BY <1>2, FS_Interval
  <2> QED
    BY <1>1, <2>1, <2>2, FS_Injection
<1>7. ToSet(s) = S /\ s \in Seq(Files) /\ IsInjective(s)
  BY <1>2, <1>5, <1>6 DEF ToSet, Surjection
<1> QED
  BY <1>7 DEF s

LEMMA TextsAre ==
  /\ Longest \in Nat /\ Absent \notin Texts /\ <<>> \in Texts
  /\ \A s \in Texts : s \in Seq(Folders \cup {Edited}) /\ Len(s) \in Nat /\ Len(s) <= Longest
<1>1. Longest \in Nat
  BY LongestIs
<1>2. <<>> \in Texts
  BY <1>1 DEF Texts
<1>3. Absent \notin Texts
  <2> SUFFICES ASSUME <<Nowhere>> \in Seq(Folders \cup {Edited}) PROVE FALSE
    BY DEF Absent, Texts
  <2>1. <<Nowhere>>[1] \in Folders \cup {Edited}
    BY ElementOfSeq
  <2> QED
    BY <2>1, Basics
<1>4. \A s \in Texts : s \in Seq(Folders \cup {Edited}) /\ Len(s) \in Nat /\ Len(s) <= Longest
  BY DEF Texts
<1> QED
  BY <1>1, <1>2, <1>3, <1>4

\* The first n chunks of a text.
LEMMA FirstChunks ==
  ASSUME NEW s \in Texts
  PROVE  /\ SubSeq(s, 1, 0) = <<>> /\ SubSeq(s, 1, Len(s)) = s
         /\ \A n \in 0..Len(s) : SubSeq(s, 1, n) \in Texts /\ Len(SubSeq(s, 1, n)) = n
         /\ \A n \in 0..Len(s) - 1 : Append(SubSeq(s, 1, n), s[n + 1]) = SubSeq(s, 1, n + 1)
<1> DEFINE T == Folders \cup {Edited}
<1>1. s \in Seq(T) /\ Len(s) \in Nat /\ Len(s) <= Longest /\ Longest \in Nat
  BY TextsAre
<1>2. \A n \in 0..Len(s) : SubSeq(s, 1, n) \in Seq(T) /\ Len(SubSeq(s, 1, n)) = n
  BY <1>1
<1>3. \A n \in 0..Len(s) : SubSeq(s, 1, n) \in Texts
  <2> TAKE n \in 0..Len(s)
  <2>1. SubSeq(s, 1, n) \in Seq(T) /\ Len(SubSeq(s, 1, n)) <= Longest
    BY <1>1, <1>2
  <2> QED
    BY <2>1 DEF Texts
<1>4. \A n \in 0..Len(s) - 1 : Append(SubSeq(s, 1, n), s[n + 1]) = SubSeq(s, 1, n + 1)
  BY <1>1
<1>5. SubSeq(s, 1, 0) = <<>> /\ SubSeq(s, 1, Len(s)) = s
  BY <1>1
<1> QED
  BY <1>2, <1>3, <1>4, <1>5

\* The first file of a queue, and the rest.
LEMMA QueueTail ==
  ASSUME NEW s \in Seq(Files), s # <<>>, IsInjective(s)
  PROVE  /\ Head(s) \in ToSet(s) /\ Head(s) \in Files
         /\ Tail(s) \in Seq(Files) /\ IsInjective(Tail(s)) /\ Len(Tail(s)) = Len(s) - 1
         /\ ToSet(Tail(s)) = ToSet(s) \ {Head(s)}
<1>1. Len(s) \in Nat /\ Len(s) >= 1 /\ DOMAIN s = 1..Len(s)
  BY EmptySeq
<1>2. Head(s) = s[1] /\ Head(s) \in Files /\ 1 \in DOMAIN s
  BY <1>1
<1>3. Tail(s) \in Seq(Files) /\ Len(Tail(s)) = Len(s) - 1 /\ DOMAIN Tail(s) = 1..Len(s) - 1
  BY <1>1
<1>4. \A i \in 1..Len(s) - 1 : Tail(s)[i] = s[i + 1] /\ i + 1 \in DOMAIN s
  BY <1>1, HeadTailProperties
<1>5. IsInjective(Tail(s))
  <2> SUFFICES ASSUME NEW i \in 1..Len(s) - 1, NEW j \in 1..Len(s) - 1, Tail(s)[i] = Tail(s)[j] PROVE i = j
    BY <1>3 DEF IsInjective
  <2>1. i + 1 = j + 1
    BY <1>4 DEF IsInjective
  <2> QED
    BY <2>1
<1>6. ToSet(Tail(s)) \subseteq ToSet(s) \ {Head(s)}
  <2> SUFFICES ASSUME NEW i \in 1..Len(s) - 1 PROVE Tail(s)[i] \in ToSet(s) /\ Tail(s)[i] # Head(s)
    BY <1>3 DEF ToSet
  <2>1. Tail(s)[i] = s[i + 1] /\ i + 1 \in DOMAIN s /\ i + 1 # 1
    BY <1>4
  <2> QED
    BY <1>2, <2>1 DEF ToSet, IsInjective
<1>7. ToSet(s) \ {Head(s)} \subseteq ToSet(Tail(s))
  <2> SUFFICES ASSUME NEW i \in 1..Len(s), s[i] # Head(s) PROVE s[i] \in ToSet(Tail(s))
    BY <1>1 DEF ToSet
  <2>1. i - 1 \in 1..Len(s) - 1 /\ (i - 1) + 1 = i
    BY <1>1, <1>2
  <2>2. Tail(s)[i - 1] = s[i] /\ i - 1 \in DOMAIN Tail(s)
    BY <1>3, <1>4, <2>1
  <2> QED
    BY <2>2 DEF ToSet
<1> QED
  BY <1>2, <1>3, <1>5, <1>6, <1>7 DEF ToSet

-----------------------------------------------------------------------------
(* One step of the background copy.                                         *)

LEMMA CopyIs ==
  ASSUME NEW v \in DeviceRecord, CopyGood(v), v.bg.active
  PROVE  /\ v.bg.old \in Places /\ v.bg.new \in Places /\ v.bg.old # v.bg.new
         /\ v.bg.old \in v.dirs /\ v.bg.new \in v.dirs
         /\ v.bg.todo \in Seq(Files) /\ Len(v.bg.todo) \in Nat /\ Len(v.bg.todo) <= QueueMax
         /\ IsInjective(v.bg.todo) /\ v.bg.at \in Nat
         /\ \A x \in ToSet(v.bg.todo) : x \in Files /\ v.disk[v.bg.old, x] \in Texts
<1>1. v.bg \in CopyRecord /\ v.dirs \subseteq Places /\ v.disk \in [Places \X Files -> Texts \cup {Absent}]
  BY DEF DeviceRecord
<1>2. v.bg.todo \in Seq(Files) /\ Len(v.bg.todo) \in Nat /\ v.bg.at \in Nat
  BY <1>1 DEF CopyRecord
<1>3. /\ v.bg.old \in v.dirs /\ v.bg.new \in v.dirs /\ v.bg.old # v.bg.new
      /\ Len(v.bg.todo) <= QueueMax /\ IsInjective(v.bg.todo)
      /\ \A x \in ToSet(v.bg.todo) : v.disk[v.bg.old, x] # Absent
  BY DEF CopyGood, FromTo, Queued
<1>4. \A x \in ToSet(v.bg.todo) : x \in Files
  BY <1>2 DEF ToSet
<1>5. v.bg.old \in Places /\ v.bg.new \in Places
  BY <1>1, <1>3
<1>6. \A x \in ToSet(v.bg.todo) : v.disk[v.bg.old, x] \in Texts
  BY <1>1, <1>3, <1>4, <1>5
<1> QED
  BY <1>2, <1>3, <1>4, <1>5, <1>6

LEMMA EntryStays ==
  ASSUME NEW v, NEW w, NEW R, NEW f, EntryGood(v, R, f), w.entry[f] = v.entry[f],
         v.entry[f].place # Nowhere => v.entry[f].place \in w.dirs
  PROVE  EntryGood(w, R, f)
BY DEF EntryGood

\* A step within a copy changes nothing but its destination.
LEMMA CopyGoesOn ==
  ASSUME NEW v \in DeviceRecord, NEW w \in DeviceRecord, NEW R, Good(v, R), v.bg.active,
         w.entry = v.entry, w.graves = v.graves, w.dirs = v.dirs,
         w.bg.active, w.bg.old = v.bg.old, w.bg.new = v.bg.new, ToSet(w.bg.todo) \subseteq ToSet(v.bg.todo),
         \A p \in Places, x \in Files :
           w.disk[p, x] = v.disk[p, x] \/ (p = v.bg.new /\ x \in ToSet(v.bg.todo)),
         CopyGood(w)
  PROVE  Good(w, R) /\ (SourceErased(v) => SourceErased(w))
<1>1. /\ \A f \in Folders : EntryGood(v, R, f)
      /\ \A p \in Places : DirGood(v, p)
      /\ \A f \in Folders, x \in Files : FileGood(v, f, x)
      /\ CopyGood(v)
  BY DEF Good
<1>2. v.bg.new \in v.dirs /\ v.bg.old # v.bg.new /\ v.bg.old \in Places
  BY <1>1, CopyIs
<1>3. ASSUME NEW f \in Folders PROVE EntryGood(w, R, f)
  <2>1. v.entry[f].place # Nowhere => v.entry[f].place \in w.dirs
    BY <1>1 DEF EntryGood
  <2> QED
    BY <1>1, <2>1, EntryStays
<1>4. ASSUME NEW p \in Places PROVE DirGood(w, p)
  <2>1. DirGood(v, p)
    BY <1>1
  <2>2. p \notin v.dirs => \A x \in Files : w.disk[p, x] = v.disk[p, x]
    BY <1>2
  <2> QED
    BY <2>1, <2>2 DEF DirGood
<1>5. ASSUME NEW f \in Folders, NEW x \in Files PROVE FileGood(w, f, x)
  <2> DEFINE s == SourceOf(v, f)
  <2>1. SourceOf(w, f) = s /\ s # v.bg.new
    BY <1>2 DEF SourceOf
  <2>2. v.entry[f].place # Nowhere => s \in Places
    BY <1>2 DEF SourceOf, DeviceRecord, EntryRecord
  <2>3. want[f][x] # Absent => v.entry[f].place # Nowhere
    BY <1>1 DEF EntryGood
  <2>4. v.entry[f].place # Nowhere => w.disk[s, x] = v.disk[s, x]
    BY <2>1, <2>2
  <2>5. FileGood(v, f, x)
    BY <1>1
  <2>6. ~frail /\ want[f][x] # Absent => w.disk[SourceOf(w, f), x] = want[f][x]
    BY <2>1, <2>3, <2>4, <2>5 DEF FileGood
  <2>7. ~frail /\ want[f][x] = Absent /\ w.entry[f].place # Nowhere =>
          w.disk[SourceOf(w, f), x] = Absent \/ f \in dirty \/ w.graves[f, x] = w.entry[f].place \/ Dead(f)
    BY <2>1, <2>4, <2>5 DEF FileGood
  <2>8. frail /\ want[f][x] # Absent /\ Edited \notin ToSet(want[f][x]) =>
          \E p \in Places : /\ tbl[p].folder = f /\ w.disk[p, x] = want[f][x]
                            /\ ~(w.bg.active /\ p = w.bg.new /\ x \in ToSet(w.bg.todo))
    BY <2>5 DEF FileGood
  <2>9. w.graves[f, x] # Nowhere =>
          w.graves[f, x] = w.entry[f].place /\ want[f][x] = Absent /\ (f \in gone \/ Dead(f))
    BY <2>5 DEF FileGood
  <2> HIDE DEF s
  <2> QED
    BY <2>6, <2>7, <2>8, <2>9 DEF FileGood
<1>6. SourceErased(v) => SourceErased(w)
  BY DEF SourceErased
<1> QED
  BY <1>1, <1>3, <1>4, <1>5, <1>6 DEF Good

\* The faults a careful configuration has.
Faulting(fault) == fault = "none" \/ (fault = "open" /\ frail)

\* Steps left in a copy, at most.
Remaining(b) ==
  IF b.active THEN 1 + Len(b.todo) * (2 + Longest) - (IF b.open THEN 1 + b.at ELSE 0) ELSE 0

\* A step of a copy from v to w.
Continues(v, w, R) ==
  /\ w \in DeviceRecord /\ w.entry = v.entry /\ w.graves = v.graves
  /\ Good(w, R) /\ (SourceErased(v) => SourceErased(w))
  /\ Remaining(w.bg) + 1 <= Remaining(v.bg)

LEMMA OneLess ==
  ASSUME NEW n \in Nat, n >= 1, NEW c \in Nat
  PROVE  (n - 1) * c = n * c - c /\ n * c \in Nat /\ (n - 1) * c \in Nat
OBVIOUS

LEMMA CopyMoves ==
  ASSUME NEW b \in CopyRecord, NEW n \in Nat, NEW o \in BOOLEAN
  PROVE  [b EXCEPT !.open = o, !.at = n] \in CopyRecord /\ [b EXCEPT !.at = n] \in CopyRecord
<1>1. [b EXCEPT !.open = o, !.at = n] \in CopyRecord
  BY DEF CopyRecord
<1>2. [b EXCEPT !.at = n] \in CopyRecord
  BY DEF CopyRecord
<1> QED
  BY <1>1, <1>2

LEMMA OpensNext ==
  ASSUME NEW v \in DeviceRecord, NEW R, Good(v, R), v.bg.active, ~v.bg.open, v.bg.todo # <<>>,
         NEW fault, Faulting(fault)
  PROVE  Continues(v, OpenNext(v, fault), R)
<1> DEFINE b == v.bg
           x == Head(b.todo)
           w == OpenNext(v, fault)
<1>0. b.active /\ ~b.open /\ b.todo # <<>>
  OBVIOUS
<1>1. CopyGood(v) /\ b \in CopyRecord /\ v.disk \in [Places \X Files -> Texts \cup {Absent}]
  BY DEF Good, DeviceRecord
<1>2. /\ b.old \in Places /\ b.new \in Places /\ b.old # b.new /\ b.old \in v.dirs /\ b.new \in v.dirs
      /\ b.todo \in Seq(Files) /\ Len(b.todo) \in Nat /\ Len(b.todo) <= QueueMax
      /\ IsInjective(b.todo) /\ b.at \in Nat
      /\ \A y \in ToSet(b.todo) : y \in Files /\ v.disk[b.old, y] \in Texts
  BY <1>1, CopyIs
<1>3. /\ x \in ToSet(b.todo) /\ x \in Files /\ Tail(b.todo) \in Seq(Files) /\ IsInjective(Tail(b.todo))
      /\ Len(Tail(b.todo)) = Len(b.todo) - 1 /\ ToSet(Tail(b.todo)) = ToSet(b.todo) \ {x}
  BY <1>2, QueueTail
<1>4. Opens(v, x)
  BY <1>2, <1>3, TextsAre DEF Opens
<1>5. Len(b.todo) \in Nat /\ Len(b.todo) >= 1 /\ Longest \in Nat
  <2>1. Len(b.todo) # 0
    BY <1>2, EmptySeq
  <2>2. Len(b.todo) \in Nat
    BY <1>2
  <2>3. Len(b.todo) >= 1
    BY <2>1, <2>2
  <2>4. Longest \in Nat
    BY LongestIs
  <2> QED
    BY <2>2, <2>3, <2>4
<1> HIDE DEF x
<1>6. CASE fault # "open"
  <2>1. w = [v EXCEPT !.bg = [b EXCEPT !.open = TRUE, !.at = 0], !.disk = [v.disk EXCEPT ![<<b.new, x>>] = <<>>]]
    BY <1>4, <1>6 DEF OpenNext, x
  <2>2. /\ w.entry = v.entry /\ w.graves = v.graves /\ w.dirs = v.dirs
        /\ w.bg = [b EXCEPT !.open = TRUE, !.at = 0] /\ w.disk = [v.disk EXCEPT ![<<b.new, x>>] = <<>>]
    BY <2>1 DEF DeviceRecord
  <2> HIDE DEF w
  <2>3. w.bg \in CopyRecord /\ w.bg.active /\ w.bg.open /\ w.bg.at = 0 /\ w.bg.todo = b.todo
        /\ w.bg.old = b.old /\ w.bg.new = b.new /\ (w.bg.ok <=> b.ok)
    <3>1. w.bg \in CopyRecord
      <4>1. b \in CopyRecord /\ w.bg = [b EXCEPT !.open = TRUE, !.at = 0]
        BY <1>1, <2>2
      <4> HIDE DEF b
      <4>2. 0 \in Nat /\ TRUE \in BOOLEAN
        OBVIOUS
      <4> QED
        BY <4>1, <4>2, CopyMoves
    <3>2. w.bg.active /\ w.bg.open /\ w.bg.at = 0 /\ w.bg.todo = b.todo
          /\ w.bg.old = b.old /\ w.bg.new = b.new
      BY <1>0, <1>1, <2>2 DEF CopyRecord
    <3>3. w.bg.ok <=> b.ok
      BY <1>1, <2>2 DEF CopyRecord
    <3> QED
      BY <3>1, <3>2, <3>3
  <2>4. w.disk \in [Places \X Files -> Texts \cup {Absent}]
    BY <1>1, <2>2, TextsAre
  <2>5. \A p \in Places, y \in Files :
          w.disk[p, y] = IF p = b.new /\ y = x THEN <<>> ELSE v.disk[p, y]
    <3>1. v.disk \in [Places \X Files -> Texts \cup {Absent}]
      BY <1>1
    <3>2. w.disk = [v.disk EXCEPT ![<<b.new, x>>] = <<>>]
      BY <2>2
    <3> HIDE DEF b
    <3> QED
      BY <3>1, <3>2
  <2>6. w \in DeviceRecord
    BY <2>1, <2>2, <2>3, <2>4 DEF DeviceRecord
  <2>7. CopyGood(w)
    <3>1. FromTo(w)
      BY <1>0, <1>1, <2>2, <2>3 DEF CopyGood, FromTo
    <3>2. Queued(w)
      <4>1. \A y \in ToSet(b.todo) : w.disk[b.old, y] # Absent
        BY <1>2, <2>5, TextsAre
      <4> QED
        BY <1>2, <2>3, <4>1 DEF Queued
    <3>3. Opened(w)
      <4> DEFINE s == w.disk[b.old, x]
      <4>1. s \in Texts /\ w.disk[b.new, x] = <<>>
        BY <1>2, <1>3, <2>5
      <4> HIDE DEF s
      <4>2. Len(s) \in Nat
        BY <4>1, TextsAre
      <4>3. 0 <= Len(s)
        BY <4>2
      <4>4. SubSeq(s, 1, 0) = <<>>
        BY <4>1, FirstChunks
      <4>5. w.bg.at <= Len(s) /\ w.disk[b.new, x] = SubSeq(s, 1, w.bg.at)
        BY <2>3, <4>1, <4>3, <4>4
      <4> QED
        BY <1>0, <2>3, <4>5 DEF Opened, s, x
    <3>4. Copied(w)
      <4>1. Copied(v)
        BY <1>0, <1>1 DEF CopyGood
      <4>2. \A y \in Files \ ToSet(b.todo) : w.disk[b.new, y] = v.disk[b.new, y] /\ w.disk[b.old, y] = v.disk[b.old, y]
        BY <1>2, <1>3, <2>5
      <4> QED
        BY <2>3, <4>1, <4>2 DEF Copied
    <3> QED
      BY <2>3, <3>1, <3>2, <3>3, <3>4 DEF CopyGood
  <2>8. \A p \in Places, y \in Files : w.disk[p, y] = v.disk[p, y] \/ (p = b.new /\ y \in ToSet(b.todo))
    BY <1>3, <2>5
  <2>9. Good(w, R) /\ (SourceErased(v) => SourceErased(w))
    BY <2>2, <2>3, <2>6, <2>7, <2>8, CopyGoesOn
  <2>10. Remaining(w.bg) + 1 <= Remaining(b)
    <3> DEFINE m == Len(b.todo) * (2 + Longest)
    <3>1. m \in Nat
      <4>1. 2 + Longest \in Nat
        BY <1>5
      <4> QED
        BY <1>5, <4>1, OneLess
    <3>2. Remaining(w.bg) = 1 + m - (1 + 0) /\ Remaining(b) = 1 + m - 0
      BY <1>0, <2>3 DEF Remaining
    <3> HIDE DEF m
    <3> QED
      BY <3>1, <3>2
  <2> QED
    BY <2>2, <2>6, <2>9, <2>10 DEF Continues, w
<1>7. CASE fault = "open"
  <2>0. frail
    BY <1>7 DEF Faulting
  <2>1. w = [v EXCEPT !.bg = [b EXCEPT !.ok = FALSE, !.todo = Tail(b.todo)]]
    BY <1>7 DEF OpenNext
  <2>2. /\ w.entry = v.entry /\ w.graves = v.graves /\ w.dirs = v.dirs
        /\ w.bg = [b EXCEPT !.ok = FALSE, !.todo = Tail(b.todo)] /\ w.disk = v.disk
    BY <2>1 DEF DeviceRecord
  <2> HIDE DEF w
  <2>3. w.bg \in CopyRecord /\ w.bg.active /\ ~w.bg.open /\ w.bg.todo = Tail(b.todo)
        /\ w.bg.old = b.old /\ w.bg.new = b.new /\ ~w.bg.ok
    BY <1>1, <1>3, <2>2 DEF CopyRecord
  <2>4. w \in DeviceRecord
    BY <2>1, <2>3 DEF DeviceRecord
  <2>5. CopyGood(w)
    <3>1. FromTo(w)
      BY <1>0, <1>1, <2>2, <2>3 DEF CopyGood, FromTo
    <3>2. Queued(w)
      <4>1. Len(Tail(b.todo)) <= QueueMax
        <5>1. Len(b.todo) <= QueueMax /\ QueueMax \in Nat
          BY <1>2, Basics
        <5>2. Len(Tail(b.todo)) = Len(b.todo) - 1
          BY <1>3
        <5> QED
          BY <1>5, <5>1, <5>2
      <4>2. \A y \in ToSet(w.bg.todo) : w.disk[b.old, y] # Absent
        <5>1. \A y \in ToSet(b.todo) : v.disk[b.old, y] # Absent
          BY <1>0, <1>1 DEF CopyGood, Queued
        <5> QED
          BY <1>3, <2>2, <2>3, <5>1
      <4> QED
        BY <1>3, <2>3, <4>1, <4>2 DEF Queued
    <3>3. Opened(w) /\ Copied(w)
      BY <2>0, <2>3 DEF Opened, Copied
    <3> QED
      BY <2>3, <3>1, <3>2, <3>3 DEF CopyGood
  <2>6. Good(w, R) /\ (SourceErased(v) => SourceErased(w))
    BY <1>3, <2>2, <2>3, <2>4, <2>5, CopyGoesOn
  <2>7. Remaining(w.bg) + 1 <= Remaining(b)
    <3> DEFINE n == Len(b.todo)
               c == 2 + Longest
    <3>1. n \in Nat /\ n >= 1 /\ c \in Nat /\ c >= 1
      BY <1>5
    <3> HIDE DEF n, c
    <3>2. (n - 1) * c = n * c - c /\ n * c \in Nat
      BY <3>1, OneLess
    <3>3. Remaining(w.bg) = 1 + (n - 1) * c - 0 /\ Remaining(b) = 1 + n * c - 0
      BY <1>0, <1>3, <2>3 DEF Remaining, n, c
    <3> QED
      BY <3>1, <3>2, <3>3
  <2> QED
    BY <2>2, <2>4, <2>6, <2>7 DEF Continues, w
<1> QED
  BY <1>6, <1>7

\* The file that is open has been read to its end.
AtEnd(v) == v.bg.at = Len(v.disk[v.bg.old, Head(v.bg.todo)])

LEMMA CopiesChunk ==
  ASSUME NEW v \in DeviceRecord, NEW R, Good(v, R), v.bg.active, v.bg.open,
         ~AtEnd(v), NEW fault, Faulting(fault)
  PROVE  Continues(v, CopyChunk(v, fault), R)
<1> DEFINE b == v.bg
           x == Head(b.todo)
           s == v.disk[b.old, x]
           w == CopyChunk(v, fault)
<1>0. b.active /\ b.open /\ fault # "full"
  BY DEF Faulting
<1>1. CopyGood(v) /\ b \in CopyRecord /\ v.disk \in [Places \X Files -> Texts \cup {Absent}]
  BY DEF Good, DeviceRecord
<1>2. /\ b.old \in Places /\ b.new \in Places /\ b.old # b.new /\ b.old \in v.dirs /\ b.new \in v.dirs
      /\ b.todo \in Seq(Files) /\ Len(b.todo) \in Nat /\ Len(b.todo) <= QueueMax
      /\ IsInjective(b.todo) /\ b.at \in Nat
      /\ \A y \in ToSet(b.todo) : y \in Files /\ v.disk[b.old, y] \in Texts
  BY <1>1, CopyIs
<1>3. b.todo # <<>> /\ b.at <= Len(s) /\ v.disk[b.new, x] = SubSeq(s, 1, b.at)
  BY <1>0, <1>1 DEF CopyGood, Opened
<1>4. x \in ToSet(b.todo) /\ x \in Files
  BY <1>2, <1>3, QueueTail
<1>5. s \in Texts
  BY <1>2, <1>4
<1>6. b.at # Len(s)
  BY DEF AtEnd
<1>7. w = [v EXCEPT !.bg = [b EXCEPT !.at = b.at + 1],
                    !.disk = [v.disk EXCEPT ![<<b.new, x>>] = Append(v.disk[<<b.new, x>>], s[b.at + 1])]]
  BY <1>0 DEF CopyChunk
<1>7a. w.entry = v.entry /\ w.graves = v.graves /\ w.dirs = v.dirs
  BY <1>7 DEF DeviceRecord
<1>8. /\ w.bg = [b EXCEPT !.at = b.at + 1]
      /\ w.disk = [v.disk EXCEPT ![<<b.new, x>>] = Append(v.disk[<<b.new, x>>], s[b.at + 1])]
  BY <1>7 DEF DeviceRecord
<1> HIDE DEF w, x, s
<1>9. b.at \in 0..Len(s) - 1 /\ b.at + 1 \in 0..Len(s) /\ b.at + 1 \in Nat /\ b.at + 1 <= Len(s)
  <2> DEFINE a == b.at
             n == Len(s)
  <2>1. n \in Nat /\ a \in Nat /\ a <= n /\ a # n
    BY <1>2, <1>3, <1>5, <1>6, TextsAre
  <2> HIDE DEF a, n
  <2>2. a \in 0..n - 1 /\ a + 1 \in 0..n /\ a + 1 \in Nat /\ a + 1 <= n
    BY <2>1
  <2> QED
    BY <2>2 DEF a, n
<1>10. /\ Append(SubSeq(s, 1, b.at), s[b.at + 1]) = SubSeq(s, 1, b.at + 1)
       /\ SubSeq(s, 1, b.at + 1) \in Texts
  BY <1>5, <1>9, FirstChunks
<1> DEFINE t == SubSeq(s, 1, b.at + 1)
<1>11. t \in Texts /\ w.disk = [v.disk EXCEPT ![<<b.new, x>>] = t]
  BY <1>3, <1>8, <1>10
<1> HIDE DEF t
<1>12. w.bg \in CopyRecord
  <2>1. b \in CopyRecord /\ w.bg = [b EXCEPT !.at = b.at + 1] /\ b.at + 1 \in Nat /\ TRUE \in BOOLEAN
    BY <1>1, <1>8, <1>9
  <2> HIDE DEF b
  <2> QED
    BY <2>1, CopyMoves
<1>13. /\ w.bg.active /\ w.bg.open /\ w.bg.at = b.at + 1 /\ w.bg.todo = b.todo
       /\ w.bg.old = b.old /\ w.bg.new = b.new
  BY <1>0, <1>1, <1>8 DEF CopyRecord
<1>14. w.bg.ok <=> b.ok
  BY <1>1, <1>8 DEF CopyRecord
<1>15. w.disk \in [Places \X Files -> Texts \cup {Absent}]
  BY <1>1, <1>11
<1>16. \A p \in Places, y \in Files :
         w.disk[p, y] = IF p = b.new /\ y = x THEN t ELSE v.disk[p, y]
  BY <1>1, <1>2, <1>4, <1>11
<1>17. w \in DeviceRecord
  <2>1. w = [v EXCEPT !.bg = w.bg, !.disk = w.disk]
    BY <1>7, <1>8
  <2> QED
    BY <1>12, <1>15, <2>1 DEF DeviceRecord
<1>18. CopyGood(w)
  <2>1. FromTo(w)
    BY <1>0, <1>1, <1>7a, <1>13 DEF CopyGood, FromTo
  <2>2. Queued(w)
    <3>1. \A y \in ToSet(b.todo) : w.disk[b.old, y] # Absent
      BY <1>2, <1>16, TextsAre
    <3> QED
      BY <1>2, <1>13, <3>1 DEF Queued
  <2>3. Opened(w)
    <3>1. w.disk[b.old, x] = s /\ w.disk[b.new, x] = t
      BY <1>2, <1>4, <1>16 DEF s
    <3>2. w.bg.at <= Len(s) /\ t = SubSeq(s, 1, w.bg.at)
      BY <1>9, <1>13 DEF t
    <3> QED
      BY <1>3, <1>13, <3>1, <3>2 DEF Opened, x
  <2>4. Copied(w)
    <3>1. Copied(v)
      BY <1>0, <1>1 DEF CopyGood
    <3>2. \A y \in Files \ ToSet(b.todo) : w.disk[b.new, y] = v.disk[b.new, y] /\ w.disk[b.old, y] = v.disk[b.old, y]
      BY <1>2, <1>4, <1>16
    <3> QED
      BY <1>13, <1>14, <3>1, <3>2 DEF Copied
  <2> QED
    BY <1>13, <2>1, <2>2, <2>3, <2>4 DEF CopyGood
<1>19. \A p \in Places, y \in Files : w.disk[p, y] = v.disk[p, y] \/ (p = b.new /\ y \in ToSet(b.todo))
  BY <1>4, <1>16
<1>20. Good(w, R) /\ (SourceErased(v) => SourceErased(w))
  BY <1>7a, <1>13, <1>17, <1>18, <1>19, CopyGoesOn
<1>21. Remaining(w.bg) + 1 <= Remaining(b)
  <2> DEFINE m == Len(b.todo) * (2 + Longest)
             a == b.at
  <2>1. m \in Nat /\ a \in Nat
    <3>1. Len(b.todo) # 0
      BY <1>2, <1>3, EmptySeq
    <3>2. Len(b.todo) \in Nat
      BY <1>2
    <3>3. Len(b.todo) >= 1
      BY <3>1, <3>2
    <3>4. 2 + Longest \in Nat
      BY LongestIs
    <3>5. b.at \in Nat
      BY <1>2
    <3> QED
      BY <3>2, <3>3, <3>4, <3>5, OneLess
  <2>2. Remaining(w.bg) = 1 + m - (1 + (a + 1)) /\ Remaining(b) = 1 + m - (1 + a)
    BY <1>0, <1>13 DEF Remaining
  <2> HIDE DEF m, a
  <2> QED
    BY <2>1, <2>2
<1> QED
  BY <1>7a, <1>17, <1>20, <1>21 DEF Continues, w

LEMMA FileLeaves ==
  ASSUME NEW b \in CopyRecord, NEW s \in Seq(Files)
  PROVE  [b EXCEPT !.open = FALSE, !.todo = s] \in CopyRecord
BY DEF CopyRecord

LEMMA ClosesFile ==
  ASSUME NEW v \in DeviceRecord, NEW R, Good(v, R), v.bg.active, v.bg.open,
         AtEnd(v)
  PROVE  Continues(v, CloseFile(v), R)
<1> DEFINE b == v.bg
           x == Head(b.todo)
           s == v.disk[b.old, x]
           w == CloseFile(v)
<1>0. b.active /\ b.open
  OBVIOUS
<1>1. CopyGood(v) /\ b \in CopyRecord /\ v.disk \in [Places \X Files -> Texts \cup {Absent}]
  BY DEF Good, DeviceRecord
<1>2. /\ b.old \in Places /\ b.new \in Places /\ b.old # b.new /\ b.old \in v.dirs /\ b.new \in v.dirs
      /\ b.todo \in Seq(Files) /\ Len(b.todo) \in Nat /\ Len(b.todo) <= QueueMax
      /\ IsInjective(b.todo) /\ b.at \in Nat
      /\ \A y \in ToSet(b.todo) : y \in Files /\ v.disk[b.old, y] \in Texts
  BY <1>1, CopyIs
<1>3. b.todo # <<>> /\ v.disk[b.new, x] = SubSeq(s, 1, b.at)
  BY <1>0, <1>1 DEF CopyGood, Opened
<1>4. /\ x \in ToSet(b.todo) /\ x \in Files /\ Tail(b.todo) \in Seq(Files) /\ IsInjective(Tail(b.todo))
      /\ Len(Tail(b.todo)) = Len(b.todo) - 1 /\ ToSet(Tail(b.todo)) = ToSet(b.todo) \ {x}
  BY <1>2, <1>3, QueueTail
<1>5. s \in Texts
  BY <1>2, <1>4
<1>6. v.disk[b.new, x] = s
  <2>1. b.at = Len(s)
    BY DEF AtEnd
  <2> HIDE DEF b, s, x
  <2> QED
    BY <1>3, <1>5, <2>1, FirstChunks
<1>7. w = [v EXCEPT !.bg = [b EXCEPT !.open = FALSE, !.todo = Tail(b.todo)]]
  BY DEF CloseFile
<1>8. /\ w.entry = v.entry /\ w.graves = v.graves /\ w.dirs = v.dirs
      /\ w.bg = [b EXCEPT !.open = FALSE, !.todo = Tail(b.todo)] /\ w.disk = v.disk
  BY <1>7 DEF DeviceRecord
<1> HIDE DEF w, x, s
<1>12. w.bg \in CopyRecord
  <2>1. b \in CopyRecord /\ Tail(b.todo) \in Seq(Files) /\ w.bg = [b EXCEPT !.open = FALSE, !.todo = Tail(b.todo)]
    BY <1>1, <1>4, <1>8
  <2> HIDE DEF b
  <2> QED
    BY <2>1, FileLeaves
<1>13. /\ w.bg.active /\ ~w.bg.open /\ w.bg.todo = Tail(b.todo)
       /\ w.bg.old = b.old /\ w.bg.new = b.new
  BY <1>0, <1>1, <1>8 DEF CopyRecord
<1>14. w.bg.ok <=> b.ok
  BY <1>1, <1>8 DEF CopyRecord
<1>15. w \in DeviceRecord
  <2>1. w = [v EXCEPT !.bg = w.bg]
    BY <1>7, <1>8
  <2> QED
    BY <1>12, <2>1 DEF DeviceRecord
<1>16. Len(b.todo) \in Nat /\ Len(b.todo) >= 1
  <2>1. Len(b.todo) # 0
    BY <1>2, <1>3, EmptySeq
  <2>2. Len(b.todo) \in Nat
    BY <1>2
  <2>3. Len(b.todo) >= 1
    BY <2>1, <2>2
  <2> QED
    BY <2>2, <2>3
<1>18. CopyGood(w)
  <2>1. FromTo(w)
    BY <1>0, <1>1, <1>8, <1>13 DEF CopyGood, FromTo
  <2>2. Queued(w)
    <3>1. Len(Tail(b.todo)) <= QueueMax
      <4>1. Len(b.todo) <= QueueMax /\ QueueMax \in Nat
        BY <1>2, Basics
      <4>2. Len(Tail(b.todo)) = Len(b.todo) - 1
        BY <1>4
      <4> QED
        BY <1>16, <4>1, <4>2
    <3>2. \A y \in ToSet(w.bg.todo) : w.disk[b.old, y] # Absent
      <4>1. \A y \in ToSet(b.todo) : v.disk[b.old, y] # Absent
        BY <1>0, <1>1 DEF CopyGood, Queued
      <4> QED
        BY <1>4, <1>8, <1>13, <4>1
    <3> QED
      BY <1>4, <1>13, <3>1, <3>2 DEF Queued
  <2>3. Opened(w)
    BY <1>13 DEF Opened
  <2>4. Copied(w)
    <3>1. Copied(v)
      BY <1>0, <1>1 DEF CopyGood
    <3>2. \A y \in Files \ ToSet(w.bg.todo) : y = x \/ y \in Files \ ToSet(b.todo)
      BY <1>4, <1>13
    <3>3. v.disk[b.new, x] = v.disk[b.old, x]
      BY <1>6 DEF s
    <3>4. w.bg.ok => \A y \in Files \ ToSet(w.bg.todo) : w.disk[w.bg.new, y] = w.disk[w.bg.old, y]
      <4>1. b.ok => \A y \in Files \ ToSet(b.todo) : v.disk[b.new, y] = v.disk[b.old, y]
        BY <3>1 DEF Copied
      <4>2. b.ok => \A y \in Files \ ToSet(w.bg.todo) : v.disk[b.new, y] = v.disk[b.old, y]
        BY <3>2, <3>3, <4>1
      <4> QED
        BY <1>8, <1>13, <1>14, <4>2
    <3> QED
      BY <1>14, <3>1, <3>4 DEF Copied
  <2> QED
    BY <1>13, <2>1, <2>2, <2>3, <2>4 DEF CopyGood
<1>20. Good(w, R) /\ (SourceErased(v) => SourceErased(w))
  BY <1>4, <1>8, <1>13, <1>15, <1>18, CopyGoesOn
<1>21. Remaining(w.bg) + 1 <= Remaining(b)
  <2> DEFINE n == Len(b.todo)
             c == 2 + Longest
             a == b.at
  <2>1. n \in Nat /\ n >= 1 /\ c \in Nat /\ a \in Nat
    <3>1. c \in Nat
      BY LongestIs
    <3>2. a \in Nat
      BY <1>2
    <3> QED
      BY <1>16, <3>1, <3>2
  <2>2. a + 2 <= c
    <3>1. a = Len(s)
      BY DEF AtEnd, s, x
    <3>2. Len(s) <= Longest /\ Longest \in Nat /\ Len(s) \in Nat
      BY <1>5, TextsAre
    <3> HIDE DEF a, b
    <3> QED
      BY <3>1, <3>2
  <2>3. Remaining(w.bg) = 1 + (n - 1) * c - 0 /\ Remaining(b) = 1 + n * c - (1 + a)
    BY <1>0, <1>4, <1>13 DEF Remaining
  <2> HIDE DEF n, c, a
  <2>4. (n - 1) * c = n * c - c /\ n * c \in Nat
    BY <2>1, OneLess
  <2> QED
    BY <2>1, <2>2, <2>3, <2>4
<1> QED
  BY <1>8, <1>15, <1>20, <1>21 DEF Continues, w

LEMMA IdleIs == Idle \in CopyRecord /\ ~Idle.active /\ Idle.ok
BY DEF Idle, CopyRecord

\* A directory removed, with its files.
LEMMA Removed ==
  ASSUME NEW v \in DeviceRecord, NEW p \in Places
  PROVE  LET w == RemoveDir(v, p) IN
         /\ w \in DeviceRecord /\ w.entry = v.entry /\ w.graves = v.graves /\ w.bg = v.bg
         /\ w.dirs = v.dirs \ {p}
         /\ \A q \in Places, x \in Files : w.disk[q, x] = IF q = p THEN Absent ELSE v.disk[q, x]
<1> DEFINE w == RemoveDir(v, p)
           k == [q \in DOMAIN v.disk |-> IF q[1] = p THEN Absent ELSE v.disk[q]]
<1>1. v.disk \in [Places \X Files -> Texts \cup {Absent}]
  BY DEF DeviceRecord
<1>2. w = [v EXCEPT !.dirs = v.dirs \ {p}, !.disk = k]
  BY DEF RemoveDir
<1>3. k \in [Places \X Files -> Texts \cup {Absent}]
  BY <1>1
<1>4. \A q \in Places, x \in Files : k[q, x] = IF q = p THEN Absent ELSE v.disk[q, x]
  <2> TAKE q \in Places, x \in Files
  <2>1. <<q, x>> \in DOMAIN v.disk /\ <<q, x>>[1] = q
    BY <1>1
  <2> QED
    BY <2>1
<1> HIDE DEF w, k
<1>5. /\ w.entry = v.entry /\ w.graves = v.graves /\ w.bg = v.bg
      /\ w.dirs = v.dirs \ {p} /\ w.disk = k
  BY <1>2 DEF DeviceRecord
<1>6. w \in DeviceRecord
  BY <1>2, <1>3 DEF DeviceRecord
<1> QED
  BY <1>4, <1>5, <1>6 DEF w

LEMMA CopyEnds ==
  ASSUME NEW v \in DeviceRecord, NEW R, Good(v, R), v.bg.active, ~v.bg.open, v.bg.todo = <<>>
  PROVE  LET w == FinishCopy(v) IN
         /\ w \in DeviceRecord /\ w.entry = v.entry /\ w.graves = v.graves
         /\ Good(w, R) /\ ~w.bg.active
<1> DEFINE b == v.bg
           done == [v EXCEPT !.bg = Idle]
           w == FinishCopy(v)
<1>1. /\ CopyGood(v) /\ \A f \in Folders : EntryGood(v, R, f)
      /\ \A p \in Places : DirGood(v, p)
      /\ \A f \in Folders, x \in Files : FileGood(v, f, x)
      /\ frail => SourceErased(v)
  BY DEF Good
<1>2. b.old \in Places /\ b.new \in Places /\ b.old # b.new /\ b.old \in v.dirs /\ b.new \in v.dirs
  BY <1>1, CopyIs
<1>3. /\ \A f \in Folders : v.entry[f].place # b.old
      /\ b.ok => \A x \in Files : v.disk[b.new, x] = v.disk[b.old, x]
      /\ ~frail => b.ok
  <2>1. FromTo(v) /\ Copied(v)
    BY <1>1 DEF CopyGood
  <2>2. ToSet(<<>>) = {}
    BY DEF ToSet
  <2>3. Files \ ToSet(b.todo) = Files
    BY <2>2
  <2>4. \A f \in Folders : v.entry[f].place # b.old
    BY <2>1 DEF FromTo
  <2>5. b.ok => \A x \in Files : v.disk[b.new, x] = v.disk[b.old, x]
    BY <2>1, <2>3 DEF Copied
  <2>6. ~frail => b.ok
    BY <2>1 DEF Copied
  <2> QED
    BY <2>4, <2>5, <2>6
<1>4. done \in DeviceRecord /\ done.entry = v.entry /\ done.graves = v.graves /\ done.bg = Idle
      /\ done.dirs = v.dirs /\ done.disk = v.disk
  BY IdleIs DEF DeviceRecord
<1> HIDE DEF done
<1>5. /\ w \in DeviceRecord /\ w.entry = v.entry /\ w.graves = v.graves /\ w.bg = Idle
      /\ w.dirs = IF b.ok THEN v.dirs \ {b.old} ELSE v.dirs
      /\ \A q \in Places, x \in Files :
           w.disk[q, x] = IF b.ok /\ q = b.old THEN Absent ELSE v.disk[q, x]
  <2>1. CASE b.ok
    <3>1. w = RemoveDir(done, b.old)
      BY <2>1 DEF FinishCopy, done
    <3> DEFINE u == RemoveDir(done, b.old)
    <3>2. /\ u \in DeviceRecord /\ u.entry = done.entry /\ u.graves = done.graves /\ u.bg = done.bg
          /\ u.dirs = done.dirs \ {b.old}
          /\ \A q \in Places, x \in Files : u.disk[q, x] = IF q = b.old THEN Absent ELSE done.disk[q, x]
      <4>1. b.old \in Places /\ done \in DeviceRecord
        BY <1>2, <1>4
      <4> HIDE DEF b
      <4> QED
        BY <4>1, Removed
    <3> HIDE DEF w, u
    <3>3. w = u
      BY <3>1 DEF u
    <3>4. /\ w \in DeviceRecord /\ w.entry = v.entry /\ w.graves = v.graves /\ w.bg = Idle
          /\ w.dirs = v.dirs \ {b.old}
      BY <1>4, <3>2, <3>3
    <3>6. \A q \in Places, x \in Files : u.disk[q, x] = IF q = b.old THEN Absent ELSE done.disk[q, x]
      BY <3>2
    <3>7. done.disk = v.disk
      BY <1>4
    <3>5. \A q \in Places, x \in Files : w.disk[q, x] = IF q = b.old THEN Absent ELSE v.disk[q, x]
      <4> TAKE q \in Places, x \in Files
      <4>1. w.disk[q, x] = u.disk[q, x] /\ done.disk[q, x] = v.disk[q, x]
        BY <3>3, <3>7
      <4>2. u.disk[q, x] = IF q = b.old THEN Absent ELSE done.disk[q, x]
        BY <3>6
      <4> QED
        BY <4>1, <4>2
    <3> QED
      BY <2>1, <3>4, <3>5
  <2>2. CASE ~b.ok
    <3>1. w = done
      BY <2>2 DEF FinishCopy, done
    <3> QED
      BY <1>4, <2>2, <3>1
  <2> QED
    BY <2>1, <2>2
<1> HIDE DEF w
<1>6. ~w.bg.active
  BY <1>5, IdleIs
<1>7. ASSUME NEW f \in Folders PROVE EntryGood(w, R, f)
  <2>1. v.entry[f].place # Nowhere => v.entry[f].place \in w.dirs
    BY <1>1, <1>3, <1>5 DEF EntryGood
  <2> QED
    BY <1>1, <1>5, <2>1, EntryStays
<1>8. ASSUME NEW p \in Places PROVE DirGood(w, p)
  <2>1. DirGood(v, p)
    BY <1>1
  <2>2. CASE p = b.old /\ b.ok
    BY <1>5, <2>2 DEF DirGood
  <2>3. CASE p = b.old /\ ~b.ok
    <3>1. p \in w.dirs /\ frail /\ tbl[p].mark = "erased"
      BY <1>1, <1>2, <1>3, <1>5, <2>3 DEF SourceErased
    <3> QED
      BY <3>1 DEF DirGood
  <2>4. CASE p # b.old
    <3>1. (p \in w.dirs <=> p \in v.dirs) /\ \A x \in Files : w.disk[p, x] = v.disk[p, x]
      BY <1>5, <2>4
    <3> QED
      BY <1>5, <2>1, <2>4, <3>1 DEF DirGood
  <2> QED
    BY <2>2, <2>3, <2>4
<1>9. ASSUME NEW f \in Folders, NEW x \in Files PROVE FileGood(w, f, x)
  <2>1. FileGood(v, f, x)
    BY <1>1
  <2>2. SourceOf(w, f) = v.entry[f].place
    BY <1>5, <1>6 DEF SourceOf
  <2>3. want[f][x] # Absent => v.entry[f].place # Nowhere
    BY <1>1 DEF EntryGood
  <2>4. v.entry[f].place # Nowhere /\ ~frail => w.disk[v.entry[f].place, x] = v.disk[SourceOf(v, f), x]
    <3> SUFFICES ASSUME v.entry[f].place # Nowhere, ~frail
                 PROVE  w.disk[v.entry[f].place, x] = v.disk[SourceOf(v, f), x]
      OBVIOUS
    <3>1. v.entry[f].place \in Places
      BY DEF DeviceRecord, EntryRecord
    <3>2. w.disk[v.entry[f].place, x] = v.disk[v.entry[f].place, x]
      BY <1>3, <1>5, <3>1
    <3>3. CASE v.entry[f].place = b.new
      BY <1>3, <3>2, <3>3 DEF SourceOf
    <3>4. CASE v.entry[f].place # b.new
      BY <3>2, <3>4 DEF SourceOf
    <3> QED
      BY <3>3, <3>4
  <2>5. ~frail /\ want[f][x] # Absent => w.disk[SourceOf(w, f), x] = want[f][x]
    BY <2>1, <2>2, <2>3, <2>4 DEF FileGood
  <2>6. ~frail /\ want[f][x] = Absent /\ w.entry[f].place # Nowhere =>
          w.disk[SourceOf(w, f), x] = Absent \/ f \in dirty \/ w.graves[f, x] = w.entry[f].place \/ Dead(f)
    BY <1>5, <2>1, <2>2, <2>4 DEF FileGood
  <2>7. frail /\ want[f][x] # Absent /\ Edited \notin ToSet(want[f][x]) =>
          \E p \in Places : /\ tbl[p].folder = f /\ w.disk[p, x] = want[f][x]
                            /\ ~(w.bg.active /\ p = w.bg.new /\ x \in ToSet(w.bg.todo))
    <3> SUFFICES ASSUME frail, want[f][x] # Absent, Edited \notin ToSet(want[f][x])
                 PROVE  \E p \in Places : tbl[p].folder = f /\ w.disk[p, x] = want[f][x]
      BY <1>6
    <3>1. PICK p \in Places : tbl[p].folder = f /\ v.disk[p, x] = want[f][x]
      BY <2>1 DEF FileGood
    <3>2. CASE b.ok /\ p = b.old
      <4>1. tbl[b.new].folder = f /\ v.disk[b.new, x] = want[f][x]
        BY <1>1, <1>3, <3>1, <3>2 DEF SourceErased
      <4>2. w.disk[b.new, x] = want[f][x]
        BY <1>2, <1>5, <4>1
      <4> QED
        BY <1>2, <4>1, <4>2
    <3>3. CASE ~(b.ok /\ p = b.old)
      BY <1>5, <3>1, <3>3
    <3> QED
      BY <3>2, <3>3
  <2>8. w.graves[f, x] # Nowhere =>
          w.graves[f, x] = w.entry[f].place /\ want[f][x] = Absent /\ (f \in gone \/ Dead(f))
    BY <1>5, <2>1 DEF FileGood
  <2> QED
    BY <2>5, <2>6, <2>7, <2>8 DEF FileGood
<1>10. CopyGood(w) /\ SourceErased(w)
  BY <1>5, <1>6 DEF CopyGood, SourceErased
<1>11. Good(w, R)
  BY <1>5, <1>7, <1>8, <1>9, <1>10 DEF Good
<1> QED
  BY <1>5, <1>6, <1>11 DEF w

-----------------------------------------------------------------------------
(* A whole copy.                                                            *)

LEMMA RemainingIs ==
  ASSUME NEW v \in DeviceRecord, CopyGood(v)
  PROVE  /\ Remaining(v.bg) \in Nat /\ (v.bg.active => Remaining(v.bg) >= 1)
         /\ Remaining(v.bg) <= MaxSteps /\ MaxSteps \in Nat
<1> DEFINE b == v.bg
           n == Len(b.todo)
           c == 2 + Longest
<1>1. c \in Nat /\ c >= 2
  BY LongestIs
<1>2. QueueMax * c \in Nat /\ MaxSteps = 1 + QueueMax * c
  BY <1>1, Basics DEF MaxSteps
<1>3. CASE ~b.active
  <2>1. Remaining(b) = 0
    BY <1>3 DEF Remaining
  <2> QED
    BY <1>2, <1>3, <2>1
<1>4. CASE b.active
  <2>1. n \in Nat /\ n <= QueueMax /\ b.todo \in Seq(Files)
    BY <1>4, CopyIs
  <2>2. n * c \in Nat /\ n * c <= QueueMax * c
    <3> HIDE DEF n, c
    <3> QED
      BY <1>1, <2>1, Basics
  <2>3. CASE ~b.open
    <3>1. Remaining(b) = 1 + n * c - 0
      BY <1>4, <2>3 DEF Remaining
    <3> HIDE DEF n, c
    <3> QED
      BY <1>2, <2>2, <3>1
  <2>4. CASE b.open
    <3> DEFINE a == b.at
    <3>1. Remaining(b) = 1 + n * c - (1 + a)
      BY <1>4, <2>4 DEF Remaining
    <3>2. b.todo # <<>> /\ a \in Nat /\ a <= Longest
      <4>1. b.todo # <<>> /\ a <= Len(v.disk[b.old, Head(b.todo)])
        BY <1>4, <2>4 DEF CopyGood, Opened
      <4>2. IsInjective(b.todo) /\ a \in Nat
        BY <1>4, CopyIs
      <4>3. Head(b.todo) \in ToSet(b.todo)
        BY <2>1, <4>1, <4>2, QueueTail
      <4>4. v.disk[b.old, Head(b.todo)] \in Texts
        BY <1>4, <4>3, CopyIs
      <4> DEFINE l == Len(v.disk[b.old, Head(b.todo)])
      <4>5. l \in Nat /\ l <= Longest /\ Longest \in Nat
        BY <4>4, TextsAre
      <4>6. a <= l
        BY <4>1
      <4>7. a \in Nat
        BY <4>2
      <4> HIDE DEF a, l
      <4>8. a <= Longest
        BY <4>5, <4>6, <4>7
      <4> QED
        BY <4>1, <4>7, <4>8
    <3>3. n >= 1
      <4>1. n # 0
        BY <2>1, <3>2, EmptySeq
      <4> HIDE DEF n
      <4> QED
        BY <2>1, <4>1
    <3>4. 1 + a <= c
      <4> HIDE DEF a
      <4> QED
        BY <3>2, LongestIs
    <3>5. (n - 1) * c = n * c - c /\ (n - 1) * c \in Nat
      BY <1>1, <2>1, <3>3, OneLess
    <3> HIDE DEF n, c, a
    <3>6. n * c >= 1 + a
      BY <1>1, <2>2, <3>2, <3>4, <3>5
    <3>7. Remaining(b) \in Nat /\ Remaining(b) >= 1 /\ Remaining(b) <= MaxSteps
      BY <1>2, <2>2, <3>1, <3>2, <3>6
    <3> QED
      BY <1>2, <3>7
  <2> QED
    BY <2>3, <2>4
<1> QED
  BY <1>3, <1>4

\* A step of the copy, or none.
Turns(v, w, R) ==
  /\ w \in DeviceRecord /\ w.entry = v.entry /\ w.graves = v.graves
  /\ Good(w, R) /\ (SourceErased(v) => SourceErased(w))
  /\ w.bg.active => Remaining(w.bg) + 1 <= Remaining(v.bg)

LEMMA CopyTurns ==
  ASSUME NEW v \in DeviceRecord, NEW R, Good(v, R), NEW fault, Faulting(fault)
  PROVE  Turns(v, BgStep(v, fault), R)
<1> DEFINE b == v.bg
<1>1. CASE ~b.active
  BY <1>1 DEF BgStep, Turns
<1>2. CASE b.active /\ ~b.open /\ b.todo = <<>>
  <2>1. BgStep(v, fault) = FinishCopy(v)
    BY <1>2 DEF BgStep
  <2>2. ~FinishCopy(v).bg.active => SourceErased(FinishCopy(v))
    BY DEF SourceErased
  <2> QED
    BY <1>2, <2>1, <2>2, CopyEnds DEF Turns
<1>3. CASE b.active /\ ~b.open /\ b.todo # <<>>
  <2>1. BgStep(v, fault) = OpenNext(v, fault)
    BY <1>3 DEF BgStep
  <2> QED
    BY <1>3, <2>1, OpensNext DEF Turns, Continues
<1>4. CASE b.active /\ b.open /\ ~AtEnd(v)
  <2>1. BgStep(v, fault) = CopyChunk(v, fault)
    BY <1>4 DEF BgStep, AtEnd
  <2> QED
    BY <1>4, <2>1, CopiesChunk DEF Turns, Continues
<1>5. CASE b.active /\ b.open /\ AtEnd(v)
  <2>1. BgStep(v, fault) = CloseFile(v)
    BY <1>5 DEF BgStep, AtEnd
  <2> QED
    BY <1>5, <2>1, ClosesFile DEF Turns, Continues
<1> QED
  BY <1>1, <1>2, <1>3, <1>4, <1>5

\* A copy is at its end after MaxSteps.
LEMMA CopyDrained ==
  ASSUME NEW v \in DeviceRecord, NEW R, Good(v, R), NEW fault, Faulting(fault)
  PROVE  LET w == Drained(v, fault) IN
         w \in DeviceRecord /\ w.entry = v.entry /\ w.graves = v.graves /\ Good(w, R) /\ ~w.bg.active
<1> DEFINE S == {u \in DeviceRecord : Good(u, R) /\ u.entry = v.entry /\ u.graves = v.graves}
           step == [k \in S \X (1..MaxSteps) |-> BgStep(k[1], fault)]
           Table(g) == g = [i \in 0..MaxSteps |-> IF i = 0 THEN v ELSE BgStep(g[i - 1], fault)]
           after == CHOOSE g : Table(g)
<1>0. MaxSteps \in Nat
  BY RemainingIs DEF Good
<1>1. v \in S
  OBVIOUS
<1>2. \A u \in S : BgStep(u, fault) \in S /\ Turns(u, BgStep(u, fault), R)
  <2> TAKE u \in S
  <2>1. Turns(u, BgStep(u, fault), R)
    BY CopyTurns
  <2> QED
    BY <2>1 DEF Turns
<1> HIDE DEF S
<1>3. step \in [S \X (1..MaxSteps) -> S]
  BY <1>2
<1>4. PICK g : Walk(g, MaxSteps, S, v, step)
  <2> HIDE DEF step
  <2> QED
    BY <1>0, <1>1, <1>3, Steps
<1>5. Table(g)
  <2>1. g \in [0..MaxSteps -> S] /\ g[0] = v
    BY <1>4 DEF Walk
  <2>2. \A i \in 1..MaxSteps : g[i] = BgStep(g[i - 1], fault)
    <3> TAKE i \in 1..MaxSteps
    <3>0. g[i] = step[<<g[i - 1], i>>]
      <4> HIDE DEF step
      <4> QED
        BY <1>4 DEF Walk
    <3>1. i - 1 \in 0..MaxSteps
      BY <1>0
    <3>2. <<g[i - 1], i>> \in S \X (1..MaxSteps)
      BY <2>1, <3>1
    <3> QED
      BY <3>0, <3>2
  <2>3. \A i \in 0..MaxSteps : i = 0 \/ i \in 1..MaxSteps
    BY <1>0
  <2>4. \A i \in 0..MaxSteps : g[i] = IF i = 0 THEN v ELSE BgStep(g[i - 1], fault)
    BY <2>1, <2>2, <2>3
  <2> QED
    BY <2>1, <2>4
<1>6. Drained(v, fault) = after[MaxSteps]
  BY DEF Drained
<1>7. Table(after)
  <2> HIDE DEF Table
  <2> QED
    BY <1>5
<1> HIDE DEF after
<1>8. after[0] = v /\ \A i \in 1..MaxSteps : after[i] = BgStep(after[i - 1], fault)
  <2>1. 0 \in 0..MaxSteps /\ \A i \in 1..MaxSteps : i \in 0..MaxSteps /\ i # 0
    BY <1>0
  <2> HIDE DEF Table
  <2>2. after = [i \in 0..MaxSteps |-> IF i = 0 THEN v ELSE BgStep(after[i - 1], fault)]
    BY <1>7 DEF Table
  <2> QED
    BY <2>1, <2>2
<1> HIDE DEF Table
<1> DEFINE T == {i \in 0..MaxSteps : after[i] \in S /\ (after[i].bg.active => Remaining(after[i].bg) + i <= MaxSteps)}
<1>9. \A u \in S : /\ Remaining(u.bg) \in Nat /\ (u.bg.active => Remaining(u.bg) >= 1)
                   /\ Remaining(u.bg) <= MaxSteps
  BY RemainingIs DEF S, Good
<1>10. 0 \in T
  <2>1. Remaining(v.bg) \in Nat /\ Remaining(v.bg) <= MaxSteps /\ 0 \in 0..MaxSteps
    BY <1>0, <1>1, <1>9
  <2>2. Remaining(v.bg) + 0 <= MaxSteps
    BY <1>0, <2>1
  <2> QED
    BY <1>1, <1>8, <2>1, <2>2
<1>11. ASSUME NEW i \in 0..MaxSteps - 1, i \in T PROVE i + 1 \in T
  <2> DEFINE u == after[i]
             w == after[i + 1]
  <2>1. i + 1 \in 1..MaxSteps /\ (i + 1) - 1 = i /\ i + 1 \in 0..MaxSteps /\ i \in Nat
    BY <1>0
  <2>2. w = BgStep(u, fault)
    BY <1>8, <2>1
  <2>3. u \in S /\ (u.bg.active => Remaining(u.bg) + i <= MaxSteps)
    BY <1>11
  <2>4. w \in S /\ Turns(u, w, R)
    BY <1>2, <2>2, <2>3
  <2>5. Remaining(u.bg) \in Nat /\ Remaining(w.bg) \in Nat
    BY <1>9, <2>3, <2>4
  <2> HIDE DEF u, w
  <2>6. w.bg.active => Remaining(w.bg) + 1 <= Remaining(u.bg)
    BY <2>4 DEF Turns
  <2>7. ~u.bg.active => Remaining(u.bg) = 0
    BY DEF Remaining
  <2>8. w.bg.active => Remaining(w.bg) + (i + 1) <= MaxSteps
    BY <1>0, <2>1, <2>3, <2>5, <2>6, <2>7
  <2> QED
    BY <2>1, <2>4, <2>8 DEF w
<1>12. MaxSteps \in T
  <2> HIDE DEF T
  <2>1. 0..MaxSteps \subseteq T
    BY <1>0, <1>10, <1>11, CountFromZero
  <2> QED
    BY <1>0, <2>1
<1> DEFINE w == after[MaxSteps]
<1>13. w \in S /\ (w.bg.active => Remaining(w.bg) + MaxSteps <= MaxSteps)
  BY <1>12
<1>14. ~w.bg.active
  <2>1. Remaining(w.bg) \in Nat /\ (w.bg.active => Remaining(w.bg) >= 1)
    BY <1>9, <1>13
  <2> HIDE DEF w
  <2> QED
    BY <1>0, <1>13, <2>1
<1>15. w \in DeviceRecord /\ w.entry = v.entry /\ w.graves = v.graves /\ Good(w, R)
  BY <1>13 DEF S
<1> QED
  BY <1>6, <1>14, <1>15

-----------------------------------------------------------------------------
(* The files of a copy: some are queued, the others are copied on the spot. *)

LEMMA QueueSplit ==
  ASSUME NEW s \in Seq(Files), IsInjective(s), NEW m \in 0..Len(s), NEW rest \in Seq(Files),
         Len(rest) = Len(s) - m, \A i \in 1..Len(rest) : rest[i] = s[m + i]
  PROVE  LET queued == SubSeq(s, 1, m) IN
         /\ queued \in Seq(Files) /\ Len(queued) = m /\ IsInjective(queued) /\ ToSet(queued) \subseteq ToSet(s)
         /\ \A x : x \in ToSet(s) \ ToSet(queued) <=> \E i \in 1..Len(rest) : rest[i] = x
<1> DEFINE queued == SubSeq(s, 1, m)
           n == Len(s)
<1>1. n \in Nat /\ m \in Nat /\ m <= n /\ DOMAIN s = 1..n /\ 1..m \subseteq 1..n
  OBVIOUS
<1>2. queued \in Seq(Files) /\ Len(queued) = m /\ DOMAIN queued = 1..m
  OBVIOUS
<1>3. \A i \in 1..m : queued[i] = s[i]
  OBVIOUS
<1> HIDE DEF queued, n
<1>4. ToSet(queued) = {s[i] : i \in 1..m} /\ ToSet(s) = {s[i] : i \in 1..n}
  <2>1. ToSet(s) = {s[i] : i \in 1..n}
    BY <1>1 DEF ToSet
  <2>2. ToSet(queued) = {queued[i] : i \in 1..m}
    BY <1>2 DEF ToSet
  <2>3. {queued[i] : i \in 1..m} = {s[i] : i \in 1..m}
    BY <1>3
  <2> QED
    BY <2>1, <2>2, <2>3
<1>4a. \A i, j \in 1..n : s[i] = s[j] => i = j
  BY <1>1 DEF IsInjective
<1>5. IsInjective(queued) /\ ToSet(queued) \subseteq ToSet(s)
  <2>1. \A i, j \in 1..m : queued[i] = queued[j] => i = j
    BY <1>1, <1>3, <1>4a
  <2>2. IsInjective(queued)
    BY <1>2, <2>1 DEF IsInjective
  <2>3. {s[i] : i \in 1..m} \subseteq {s[i] : i \in 1..n}
    BY <1>1
  <2> QED
    BY <1>4, <2>2, <2>3
<1>6. ASSUME NEW x, x \in ToSet(s) \ ToSet(queued) PROVE \E i \in 1..Len(rest) : rest[i] = x
  <2>1. PICK j \in 1..n : s[j] = x
    BY <1>4, <1>6
  <2>2. j \notin 1..m
    BY <1>4, <1>6, <2>1
  <2>3. j - m \in 1..n - m /\ m + (j - m) = j
    BY <1>1, <2>2
  <2>4. Len(rest) = n - m
    BY DEF n
  <2>5. rest[j - m] = x
    BY <2>1, <2>3, <2>4
  <2> QED
    BY <2>3, <2>4, <2>5
<1>7. ASSUME NEW i \in 1..Len(rest) PROVE rest[i] \in ToSet(s) \ ToSet(queued)
  <2>1. Len(rest) = n - m
    BY DEF n
  <2>2. m + i \in 1..n /\ m + i \notin 1..m
    BY <1>1, <2>1
  <2>3. rest[i] = s[m + i]
    OBVIOUS
  <2>4. \A j \in 1..m : s[j] # s[m + i]
    BY <1>1, <1>4a, <2>2
  <2> QED
    BY <1>4, <2>2, <2>3, <2>4
<1> QED
  BY <1>2, <1>5, <1>6, <1>7 DEF queued

\* One file copied on the spot.
OneCopied(v, w, x) ==
  /\ w \in DeviceRecord /\ w.entry = v.entry /\ w.graves = v.graves /\ w.dirs = v.dirs /\ w.bg = v.bg
  /\ \A p \in Places, y \in Files :
       w.disk[p, y] = IF p = v.bg.new /\ y = x THEN v.disk[v.bg.old, x] ELSE v.disk[p, y]
LEMMA CopiedAtOnce ==
  ASSUME NEW v \in DeviceRecord, NEW x \in Files, Opens(v, x), v.bg.old \in Places, v.bg.new \in Places,
         NEW fault, Faulting(fault)
  PROVE  OneCopied(v, CopiedNow(v, x, fault), x)
<1> DEFINE w == CopiedNow(v, x, fault)
           t == v.disk[v.bg.old, x]
           b == v.bg
<1>1. v.disk \in [Places \X Files -> Texts \cup {Absent}]
  BY DEF DeviceRecord
<1>2. t \in Texts \cup {Absent}
  BY <1>1
<1>3. w = [v EXCEPT !.disk = [v.disk EXCEPT ![<<b.new, x>>] = t]]
  BY DEF CopiedNow, Faulting
<1> HIDE DEF w, t, b
<1>4. /\ w.entry = v.entry /\ w.graves = v.graves /\ w.dirs = v.dirs /\ w.bg = v.bg
      /\ w.disk = [v.disk EXCEPT ![<<b.new, x>>] = t]
  BY <1>3 DEF DeviceRecord
<1>5. w.disk \in [Places \X Files -> Texts \cup {Absent}]
  BY <1>1, <1>2, <1>4
<1>6. w \in DeviceRecord
  BY <1>3, <1>4, <1>5 DEF DeviceRecord
<1>7. \A p \in Places, y \in Files : w.disk[p, y] = IF p = b.new /\ y = x THEN t ELSE v.disk[p, y]
  BY <1>1, <1>4 DEF b
<1> QED
  BY <1>4, <1>6, <1>7 DEF OneCopied, w, t, b

\* What the queue is and what was copied.
Listing(v, w) ==
  /\ w \in DeviceRecord /\ w.entry = v.entry /\ w.graves = v.graves /\ w.dirs = v.dirs \cup {v.bg.new}
  /\ \E q \in Seq(Files) :
       /\ w.bg = [v.bg EXCEPT !.todo = q]
       /\ Len(q) <= QueueMax /\ IsInjective(q) /\ ToSet(q) \subseteq FilesIn(v, v.bg.old)
       /\ \A p \in Places, x \in Files :
            w.disk[p, x] = IF p = v.bg.new /\ x \in FilesIn(v, v.bg.old) \ ToSet(q)
                           THEN v.disk[v.bg.old, x] ELSE v.disk[p, x]

LEMMA Enumerates ==
  ASSUME NEW v \in DeviceRecord, v.bg.old \in v.dirs, v.bg.new \in Places, v.bg.old # v.bg.new,
         NEW fault, Faulting(fault)
  PROVE  Listing(v, Enumerated(v, fault))
<1> DEFINE b == v.bg
           F == FilesIn(v, b.old)
           s == SetToSeq(F)
           n == Len(s)
           m == IF n < QueueMax THEN n ELSE QueueMax
           queued == SubSeq(s, 1, m)
           rest == SubSeq(s, QueueMax + 1, n)
           made == [v EXCEPT !.dirs = @ \cup {b.new}]
           first == [made EXCEPT !.bg.todo = queued]
           r == Len(rest)
           Table(g) == g = [i \in 0..r |-> IF i = 0 THEN first ELSE CopiedNow(g[i - 1], rest[i], fault)]
           copied == CHOOSE g : Table(g)
<1>0. b.old \in Places /\ b.new \in Places /\ b.old # b.new /\ b.old \in v.dirs /\ b \in CopyRecord
  BY DEF DeviceRecord
<1>1. s \in Seq(Files) /\ IsInjective(s) /\ ToSet(s) = F
  <2>1. F \subseteq Files
    BY DEF FilesIn
  <2> HIDE DEF F
  <2> QED
    BY <2>1, Listed
<1>2. Enumerated(v, fault) = copied[r]
  <2>1. fault # "list"
    BY DEF Faulting
  <2> QED
    BY <1>0, <2>1 DEF Enumerated
<1> HIDE DEF s, F
<1>3. n \in Nat /\ m \in 0..n /\ m <= QueueMax
  BY <1>1, Basics
<1>4. rest \in Seq(Files) /\ r = n - m /\ \A i \in 1..r : rest[i] = s[m + i]
  <2>1. CASE n < QueueMax
    <3>1. rest = <<>> /\ m = n
      BY <1>1, <1>3, <2>1, Basics
    <3> HIDE DEF rest, m
    <3>2. r = 0 /\ <<>> \in Seq(Files)
      BY <3>1
    <3>3. n - m = 0
      BY <1>3, <3>1
    <3> HIDE DEF r
    <3> QED
      BY <3>1, <3>2, <3>3
  <2>2. CASE ~(n < QueueMax)
    <3>1. m = QueueMax /\ QueueMax \in Nat /\ QueueMax <= n
      BY <1>3, <2>2, Basics
    <3>2. rest \in Seq(Files) /\ Len(rest) = n - QueueMax
      BY <1>1, <1>3, <3>1
    <3>3. \A i \in 1..n - QueueMax : rest[i] = s[QueueMax + i]
      BY <1>1, <1>3, <3>1
    <3> HIDE DEF rest, m
    <3> QED
      BY <3>1, <3>2, <3>3
  <2> QED
    BY <2>1, <2>2
<1> HIDE DEF rest, m
<1>5. /\ queued \in Seq(Files) /\ Len(queued) = m /\ IsInjective(queued) /\ ToSet(queued) \subseteq F
      /\ \A x : x \in F \ ToSet(queued) <=> \E i \in 1..r : rest[i] = x
  <2>1. s \in Seq(Files) /\ IsInjective(s) /\ m \in 0..Len(s) /\ rest \in Seq(Files)
    BY <1>1, <1>3, <1>4
  <2>2. Len(rest) = Len(s) - m /\ \A i \in 1..Len(rest) : rest[i] = s[m + i]
    BY <1>4
  <2>3. /\ queued \in Seq(Files) /\ Len(queued) = m /\ IsInjective(queued) /\ ToSet(queued) \subseteq ToSet(s)
        /\ \A x : x \in ToSet(s) \ ToSet(queued) <=> \E i \in 1..Len(rest) : rest[i] = x
    BY <2>1, <2>2, QueueSplit
  <2> HIDE DEF queued
  <2> QED
    BY <1>1, <2>3
<1> HIDE DEF queued
<1> DEFINE c == [b EXCEPT !.todo = queued]
<1>6. c \in CopyRecord /\ c.old = b.old /\ c.new = b.new
  BY <1>0, <1>5 DEF CopyRecord
<1>7. first \in DeviceRecord /\ first.entry = v.entry /\ first.graves = v.graves
      /\ first.dirs = v.dirs \cup {b.new} /\ first.disk = v.disk /\ first.bg = c
  <2>1. first = [v EXCEPT !.dirs = v.dirs \cup {b.new}, !.bg = c]
    BY DEF DeviceRecord
  <2> HIDE DEF first, c
  <2>2. v.dirs \cup {b.new} \in SUBSET Places
    BY <1>0 DEF DeviceRecord
  <2> QED
    BY <1>6, <2>1, <2>2 DEF DeviceRecord
<1> HIDE DEF first, c
<1> DEFINE S == {u \in DeviceRecord : /\ u.entry = v.entry /\ u.graves = v.graves
                                      /\ u.dirs = v.dirs \cup {b.new} /\ u.bg = c
                                      /\ \A y \in Files : u.disk[b.old, y] = v.disk[b.old, y]}
           step == [k \in S \X (1..r) |-> CopiedNow(k[1], rest[k[2]], fault)]
<1>8. \A i \in 1..r : rest[i] \in Files /\ v.disk[b.old, rest[i]] # Absent
  <2> TAKE i \in 1..r
  <2>1. rest[i] \in F
    BY <1>5
  <2> QED
    BY <2>1 DEF F, FilesIn
<1>9. ASSUME NEW u \in S, NEW i \in 1..r
      PROVE  /\ CopiedNow(u, rest[i], fault) \in S
             /\ \A p \in Places, y \in Files :
                  CopiedNow(u, rest[i], fault).disk[p, y] =
                    IF p = b.new /\ y = rest[i] THEN v.disk[b.old, rest[i]] ELSE u.disk[p, y]
  <2> DEFINE w == CopiedNow(u, rest[i], fault)
  <2>1. /\ u \in DeviceRecord /\ rest[i] \in Files /\ u.bg.old = b.old /\ u.bg.new = b.new
        /\ u.disk[b.old, rest[i]] = v.disk[b.old, rest[i]] /\ u.dirs = v.dirs \cup {b.new}
    BY <1>6, <1>8
  <2>2. Opens(u, rest[i])
    BY <1>8, <2>1 DEF Opens
  <2> HIDE DEF S, b
  <2>3. /\ w \in DeviceRecord /\ w.entry = u.entry /\ w.graves = u.graves /\ w.dirs = u.dirs /\ w.bg = u.bg
        /\ \A p \in Places, y \in Files :
             w.disk[p, y] = IF p = u.bg.new /\ y = rest[i] THEN u.disk[u.bg.old, rest[i]] ELSE u.disk[p, y]
    <3>1. u.bg.old \in Places /\ u.bg.new \in Places
      BY <1>0, <2>1
    <3>2. u \in DeviceRecord /\ rest[i] \in Files /\ Opens(u, rest[i]) /\ Faulting(fault)
      BY <2>1, <2>2
    <3>3. OneCopied(u, w, rest[i])
      BY <3>1, <3>2, CopiedAtOnce
    <3> HIDE DEF w
    <3> QED
      BY <3>3 DEF OneCopied
  <2> HIDE DEF w
  <2>4. \A p \in Places, y \in Files :
          w.disk[p, y] = IF p = b.new /\ y = rest[i] THEN v.disk[b.old, rest[i]] ELSE u.disk[p, y]
    <3>1. \A p \in Places, y \in Files :
            w.disk[p, y] = IF p = u.bg.new /\ y = rest[i] THEN u.disk[u.bg.old, rest[i]] ELSE u.disk[p, y]
      BY <2>3
    <3>2. u.bg.new = b.new /\ u.disk[u.bg.old, rest[i]] = v.disk[b.old, rest[i]]
      BY <2>1
    <3> QED
      BY <3>1, <3>2
  <2>5. \A y \in Files : w.disk[b.old, y] = u.disk[b.old, y]
    BY <1>0, <2>4
  <2>6. w \in S
    BY <2>3, <2>5 DEF S
  <2> QED
    BY <2>4, <2>6 DEF w
<1>10. first \in S
  BY <1>7
<1> HIDE DEF S
<1>11. step \in [S \X (1..r) -> S]
  BY <1>9
<1>12. r \in Nat
  BY <1>4
<1>13. PICK g : Walk(g, r, S, first, step)
  <2> HIDE DEF step, r
  <2> QED
    BY <1>10, <1>11, <1>12, Steps
<1>14. Table(g)
  <2>1. g \in [0..r -> S] /\ g[0] = first
    BY <1>13 DEF Walk
  <2>2. \A i \in 1..r : g[i] = CopiedNow(g[i - 1], rest[i], fault)
    <3> TAKE i \in 1..r
    <3>0. g[i] = step[<<g[i - 1], i>>]
      <4> HIDE DEF step
      <4> QED
        BY <1>13 DEF Walk
    <3>1. i - 1 \in 0..r
      BY <1>12
    <3>2. <<g[i - 1], i>> \in S \X (1..r)
      BY <2>1, <3>1
    <3> QED
      BY <3>0, <3>2
  <2>3. \A i \in 0..r : i = 0 \/ i \in 1..r
    BY <1>12
  <2>4. \A i \in 0..r : g[i] = IF i = 0 THEN first ELSE CopiedNow(g[i - 1], rest[i], fault)
    BY <2>1, <2>2, <2>3
  <2> QED
    BY <2>1, <2>4
<1>15. Table(copied)
  <2> HIDE DEF Table
  <2> QED
    BY <1>14
<1> HIDE DEF copied
<1>16. copied[0] = first /\ \A i \in 1..r : copied[i] = CopiedNow(copied[i - 1], rest[i], fault)
  <2>1. 0 \in 0..r /\ \A i \in 1..r : i \in 0..r /\ i # 0
    BY <1>12
  <2>2. copied = [i \in 0..r |-> IF i = 0 THEN first ELSE CopiedNow(copied[i - 1], rest[i], fault)]
    BY <1>15
  <2> HIDE DEF Table
  <2> QED
    BY <2>1, <2>2
<1> HIDE DEF Table
<1> DEFINE Done(u, i) == \A p \in Places, y \in Files :
             u.disk[p, y] = IF p = b.new /\ (\E j \in 1..i : rest[j] = y) THEN v.disk[b.old, y] ELSE v.disk[p, y]
           T == {i \in 0..r : copied[i] \in S /\ Done(copied[i], i)}
<1>17. 0 \in T
  <2>1. 0 \in 0..r /\ 1..0 = {}
    BY <1>12
  <2>2. Done(first, 0)
    BY <1>7, <2>1
  <2> QED
    BY <1>10, <1>16, <2>1, <2>2
<1>18. ASSUME NEW i \in 0..r - 1, i \in T PROVE i + 1 \in T
  <2>1. i + 1 \in 1..r /\ (i + 1) - 1 = i /\ i + 1 \in 0..r /\ 1..i + 1 = 1..i \cup {i + 1}
    BY <1>12
  <2> DEFINE u == copied[i]
             w == copied[i + 1]
  <2>2. u \in S /\ Done(u, i)
    BY <1>18
  <2>3. w = CopiedNow(u, rest[i + 1], fault)
    BY <1>16, <2>1
  <2> HIDE DEF u, w
  <2> DEFINE z == rest[i + 1]
  <2>4. /\ w \in S
        /\ \A p \in Places, y \in Files :
             w.disk[p, y] = IF p = b.new /\ y = z THEN v.disk[b.old, z] ELSE u.disk[p, y]
    <3> HIDE DEF Done, T, b, r
    <3>1. u \in S /\ i + 1 \in 1..r
      BY <2>1, <2>2
    <3>2. CopiedNow(u, z, fault) \in S
      BY <1>9, <3>1
    <3>3. \A p \in Places, y \in Files :
             CopiedNow(u, z, fault).disk[p, y] = IF p = b.new /\ y = z THEN v.disk[b.old, z] ELSE u.disk[p, y]
      BY <1>9, <3>1
    <3> HIDE DEF z
    <3> QED
      BY <2>3, <3>2, <3>3 DEF z
  <2>5. Done(w, i + 1)
    <3>1. \A y : (\E j \in 1..i + 1 : rest[j] = y) <=> (y = z \/ \E j \in 1..i : rest[j] = y)
      BY <2>1
    <3> HIDE DEF z, b
    <3>2. \A p \in Places, y \in Files :
            u.disk[p, y] = IF p = b.new /\ (\E j \in 1..i : rest[j] = y) THEN v.disk[b.old, y] ELSE v.disk[p, y]
      BY <2>2
    <3> TAKE p \in Places, y \in Files
    <3>3. CASE p = b.new /\ y = z
      BY <2>4, <3>1, <3>3
    <3>3a. u.disk[p, y] = IF p = b.new /\ (\E j \in 1..i : rest[j] = y) THEN v.disk[b.old, y] ELSE v.disk[p, y]
      BY <3>2
    <3>4. CASE p = b.new /\ y # z
      <4>1. w.disk[p, y] = u.disk[p, y]
        BY <2>4, <3>4
      <4>2. (\E j \in 1..i + 1 : rest[j] = y) <=> (\E j \in 1..i : rest[j] = y)
        BY <3>1, <3>4
      <4> QED
        BY <3>3a, <4>1, <4>2
    <3>5. CASE p # b.new
      <4>1. w.disk[p, y] = u.disk[p, y]
        BY <2>4, <3>5
      <4> QED
        BY <3>3a, <3>5, <4>1
    <3> QED
      BY <3>3, <3>4, <3>5
  <2> QED
    BY <2>1, <2>4, <2>5 DEF w
<1>19. copied[r] \in S /\ Done(copied[r], r)
  <2> HIDE DEF T, r
  <2>1. 0..r \subseteq T
    BY <1>12, <1>17, <1>18, CountFromZero
  <2>2. r \in T
    BY <1>12, <2>1
  <2> QED
    BY <2>2 DEF T
<1> DEFINE w == copied[r]
<1>20. w \in DeviceRecord /\ w.entry = v.entry /\ w.graves = v.graves /\ w.dirs = v.dirs \cup {b.new} /\ w.bg = c
  BY <1>19 DEF S
<1>21. \A p \in Places, y \in Files :
         w.disk[p, y] = IF p = b.new /\ y \in F \ ToSet(queued) THEN v.disk[b.old, y] ELSE v.disk[p, y]
  BY <1>5, <1>19
<1> HIDE DEF w, r
<1>22. Listing(v, w)
  BY <1>3, <1>5, <1>20, <1>21 DEF Listing, F, c
<1> QED
  BY <1>2, <1>22 DEF w, r

-----------------------------------------------------------------------------
(* One slot of a table.                                                     *)

\* The state in the course of a table write.
Written(v, R) == Good(v, R) /\ SourceErased(v)

LEMMA PlacesStay ==
  ASSUME NEW v \in DeviceRecord, NEW w \in DeviceRecord, NEW R, NEW Q, Written(v, R),
         w.graves = v.graves, w.dirs = v.dirs, w.disk = v.disk, w.bg = v.bg,
         \A g \in Folders : w.entry[g].place = v.entry[g].place, \A g \in Folders : EntryGood(w, Q, g)
  PROVE  Written(w, Q)
<1>1. /\ \A p \in Places : DirGood(v, p)
      /\ \A g \in Folders, x \in Files : FileGood(v, g, x)
      /\ CopyGood(v) /\ SourceErased(v)
  BY DEF Good, Written
<1>2. \A p \in Places : DirGood(w, p)
  BY <1>1 DEF DirGood
<1>3. \A g \in Folders, x \in Files : FileGood(w, g, x)
  <2> TAKE g \in Folders, x \in Files
  <2>1. SourceOf(w, g) = SourceOf(v, g)
    BY DEF SourceOf
  <2>2. FileGood(v, g, x) /\ w.entry[g].place = v.entry[g].place
    BY <1>1
  <2> QED
    BY <2>1, <2>2 DEF FileGood
<1>4. CopyGood(w)
  <2>1. v.bg.active => FromTo(v) /\ Queued(v) /\ Opened(v) /\ Copied(v)
    BY <1>1 DEF CopyGood
  <2>2. FromTo(v) => FromTo(w)
    BY DEF FromTo
  <2>3. (Queued(v) => Queued(w)) /\ (Opened(v) => Opened(w)) /\ (Copied(v) => Copied(w))
    BY DEF Queued, Opened, Copied
  <2> QED
    BY <1>1, <2>1, <2>2, <2>3 DEF CopyGood
<1>5. SourceErased(w)
  BY <1>1 DEF SourceErased
<1> QED
  BY <1>2, <1>3, <1>4, <1>5 DEF Good, Written

LEMMA EntryIs ==
  ASSUME NEW v \in DeviceRecord, NEW g \in Folders
  PROVE  /\ v.entry[g].place \in Places \cup {Nowhere} /\ v.entry[g].deleted \in BOOLEAN
         /\ v.entry[g] = [place |-> v.entry[g].place, deleted |-> v.entry[g].deleted]
BY DEF DeviceRecord, EntryRecord

\* A slot that shows nothing, or what is known.
LEMMA SlotSkipped ==
  ASSUME NEW v \in DeviceRecord, NEW R, Written(v, R), NEW q \in Places,
         \A g \in Folders : LiveAt(g, q) => v.entry[g] = EntryAt(q),
         \A g \in Folders : q \in gone /\ tbl[q].folder = g => v.entry[g].deleted
  PROVE  Written(v, R \cup {q})
<1>1. \A g \in Folders : EntryGood(v, R, g)
  BY DEF Written, Good
<1>2. ASSUME NEW g \in Folders PROVE EntryGood(v, R \cup {q}, g)
  <2>1. EntryGood(v, R, g)
    BY <1>1
  <2>2. \A p \in Places : LiveAt(g, p) /\ p \in R \cup {q} => v.entry[g] = EntryAt(p)
    BY <2>1 DEF EntryGood
  <2>3. \A r \in gone \cap Places :
          tbl[r].folder = g => v.entry[g].place = r /\ (r \in R \cup {q} => v.entry[g].deleted)
    BY <2>1 DEF EntryGood
  <2> QED
    BY <2>1, <2>2, <2>3 DEF EntryGood
<1> QED
  BY <1>2, PlacesStay

LEMMA FlagSet ==
  ASSUME NEW a \in EntryRecord, NEW o \in BOOLEAN
  PROVE  [a EXCEPT !.deleted = o] = [place |-> a.place, deleted |-> o]
BY DEF EntryRecord

\* The slot of a folder that left its place.
LEMMA SlotErased ==
  ASSUME NEW v \in DeviceRecord, NEW R, Written(v, R), NEW q \in Places, tbl[q].mark = "erased",
         NEW f \in Folders, tbl[q].folder = f, v.entry[f].place = q
  PROVE  Written([v EXCEPT !.entry[f].deleted = TRUE], R \cup {q})
<1> DEFINE w == [v EXCEPT !.entry[f].deleted = TRUE]
           e == [place |-> q, deleted |-> TRUE]
<1>1. /\ \A g \in Folders : EntryGood(v, R, g)
      /\ v.entry \in [Folders -> EntryRecord]
  BY DEF Good, Written, DeviceRecord
<1>2. w = [v EXCEPT !.entry = [v.entry EXCEPT ![f] = e]]
  <2>1. [v.entry[f] EXCEPT !.deleted = TRUE] = e
    <3>1. v.entry[f] \in EntryRecord /\ v.entry[f].place = q
      BY <1>1
    <3> QED
      BY <3>1, FlagSet
  <2>2. w = [v EXCEPT !.entry = [v.entry EXCEPT ![f] = [v.entry[f] EXCEPT !.deleted = TRUE]]]
    OBVIOUS
  <2> HIDE DEF w, e
  <2> QED
    BY <2>1, <2>2
<1> HIDE DEF w
<1>3. /\ w.graves = v.graves /\ w.dirs = v.dirs /\ w.disk = v.disk /\ w.bg = v.bg
      /\ w.entry = [v.entry EXCEPT ![f] = e]
  BY <1>2 DEF DeviceRecord
<1>4. e \in EntryRecord /\ e.place = q /\ e.deleted = TRUE
  BY DEF EntryRecord
<1> HIDE DEF e
<1>5. w.entry \in [Folders -> EntryRecord] /\ w.entry[f] = e /\ \A g \in Folders \ {f} : w.entry[g] = v.entry[g]
  BY <1>1, <1>3, <1>4
<1>6. w \in DeviceRecord
  <2>1. w = [v EXCEPT !.entry = w.entry]
    BY <1>2, <1>3
  <2> QED
    BY <1>5, <2>1 DEF DeviceRecord
<1>7. \A g \in Folders : w.entry[g].place = v.entry[g].place
  BY <1>4, <1>5
<1>8. ASSUME NEW g \in Folders PROVE EntryGood(w, R \cup {q}, g)
  <2>1. EntryGood(v, R, g) /\ ~LiveAt(g, q)
    BY <1>1 DEF LiveAt
  <2>2. CASE g # f
    <3>1. w.entry[g] = v.entry[g] /\ tbl[q].folder # g
      BY <1>5, <2>2
    <3>2. \A p \in Places : LiveAt(g, p) /\ p \in R \cup {q} => w.entry[g] = EntryAt(p)
      BY <2>1, <3>1 DEF EntryGood
    <3>3. \A r \in gone \cap Places :
            tbl[r].folder = g => w.entry[g].place = r /\ (r \in R \cup {q} => w.entry[g].deleted)
      BY <2>1, <3>1 DEF EntryGood
    <3> QED
      BY <1>3, <2>1, <3>1, <3>2, <3>3 DEF EntryGood
  <2>3. CASE g = f
    <3>1. w.entry[g].place = q /\ w.entry[g].deleted /\ q # Nowhere /\ w.entry[g].place = v.entry[g].place
      BY <1>4, <1>5, <2>3, Basics
    <3>2. \A p \in Places : ~(LiveAt(g, p) /\ p \in R \cup {q})
      <4> SUFFICES ASSUME NEW p \in Places, LiveAt(g, p), p \in R \cup {q} PROVE FALSE
        OBVIOUS
      <4>1. p # q
        BY <2>1
      <4>2. v.entry[g] = EntryAt(p)
        BY <2>1, <4>1 DEF EntryGood
      <4> QED
        BY <2>3, <4>1, <4>2 DEF EntryAt
    <3>3. \A r \in gone \cap Places :
            tbl[r].folder = g => w.entry[g].place = r /\ (r \in R \cup {q} => w.entry[g].deleted)
      BY <2>1, <3>1 DEF EntryGood
    <3>4. \A x \in Files : want[g][x] # Absent => w.entry[g].place # Nowhere
      BY <3>1
    <3>5. \A p \in Places : LiveAt(g, p) /\ g \in gone => w.entry[g].place = p
      BY <2>1, <3>1 DEF EntryGood
    <3>6. w.entry[g].place # Nowhere => tbl[w.entry[g].place].folder = g /\ w.entry[g].place \in w.dirs
      BY <1>3, <2>1, <3>1 DEF EntryGood
    <3>7. w.entry[g].deleted => tbl[w.entry[g].place].mark = "erased"
      BY <3>1
    <3> QED
      BY <3>1, <3>2, <3>3, <3>4, <3>5, <3>6, <3>7 DEF EntryGood
  <2> QED
    BY <2>2, <2>3
<1> QED
  BY <1>3, <1>6, <1>7, <1>8, PlacesStay DEF w

\* What the slot of a live folder says about the others.
LEMMA SlotIsOwn ==
  ASSUME HostGood, NEW v, NEW R, \A g \in Folders : EntryGood(v, R, g),
         NEW f \in Folders, NEW q \in Places, LiveAt(f, q)
  PROVE  /\ \A g \in Folders : g # f => v.entry[g].place # q /\ ~LiveAt(g, q)
         /\ \A p \in Places : LiveAt(f, p) => p = q
         /\ ~Dead(f) /\ q \notin gone
         /\ f \in gone => v.entry[f].place = q
<1>1. tbl[q].folder = f /\ tbl[q].mark = "live"
  BY DEF LiveAt
<1>2. \A g \in Folders : g # f => v.entry[g].place # q /\ ~LiveAt(g, q)
  BY <1>1, Basics DEF EntryGood, LiveAt
<1>3. \A p \in Places : LiveAt(f, p) => p = q
  BY DEF HostGood
<1>4. ~Dead(f) /\ q \notin gone
  BY <1>1 DEF HostGood, Dead
<1>5. f \in gone => v.entry[f].place = q
  BY DEF EntryGood
<1> QED
  BY <1>2, <1>3, <1>4, <1>5

\* The entry of a folder that is live at q, once its slot is read.
LEMMA EntrySet ==
  ASSUME HostGood, NEW v, NEW R, \A g \in Folders : EntryGood(v, R, g),
         NEW f \in Folders, NEW q \in Places, LiveAt(f, q), NEW w, v.dirs \subseteq w.dirs, q \in w.dirs,
         w.entry[f] = EntryAt(q), \A g \in Folders : g # f => w.entry[g] = v.entry[g]
  PROVE  \A g \in Folders : EntryGood(w, R \cup {q}, g)
<1> TAKE g \in Folders
<1>1. /\ ~Dead(f) /\ q \notin gone /\ \A p \in Places : LiveAt(f, p) => p = q
      /\ g # f => ~LiveAt(g, q)
  BY SlotIsOwn
<1>2. CASE g # f
  <2>1. EntryGood(v, R, g) /\ w.entry[g] = v.entry[g]
    BY <1>2
  <2>2. \A p \in Places : LiveAt(g, p) /\ p \in R \cup {q} => w.entry[g] = EntryAt(p)
    BY <1>1, <1>2, <2>1 DEF EntryGood
  <2>3. \A r \in gone \cap Places :
          tbl[r].folder = g => w.entry[g].place = r /\ (r \in R \cup {q} => w.entry[g].deleted)
    BY <1>1, <2>1 DEF EntryGood
  <2>4. w.entry[g].place # Nowhere => tbl[w.entry[g].place].folder = g /\ w.entry[g].place \in w.dirs
    BY <2>1 DEF EntryGood
  <2> QED
    BY <2>1, <2>2, <2>3, <2>4 DEF EntryGood
<1>3. CASE g = f
  <2>1. w.entry[g] = EntryAt(q) /\ w.entry[g].place = q /\ ~w.entry[g].deleted /\ q # Nowhere
    BY <1>3, Basics DEF EntryAt
  <2>2. \A r \in gone \cap Places : tbl[r].folder # g
    BY <1>1, <1>3 DEF Dead
  <2>3. tbl[q].folder = g
    BY <1>3 DEF LiveAt
  <2>4. \A p \in Places : LiveAt(g, p) => p = q
    BY <1>1, <1>3
  <2> QED
    BY <2>1, <2>2, <2>3, <2>4 DEF EntryGood
<1> QED
  BY <1>2, <1>3

\* A state with one more directory.
LEMMA DirAdded ==
  ASSUME NEW v \in DeviceRecord, NEW q \in Places
  PROVE  v.dirs \cup {q} \in SUBSET Places
BY DEF DeviceRecord

LEMMA SlotCreated ==
  ASSUME HostGood, NEW v \in DeviceRecord, NEW R, Written(v, R), NEW q \in Places,
         NEW f \in Folders, LiveAt(f, q), v.entry[f] = NoEntry, Cardinality(Folders) <= MaxEntries
  PROVE  Written(CreateFolder(v, f, q), R \cup {q})
<1> DEFINE w == CreateFolder(v, f, q)
           T == {g \in Folders : v.entry[g] # NoEntry}
           e == [g \in Folders |-> CASE g = f -> EntryAt(q)
                                     [] g # f /\ v.entry[g].place = q -> NoEntry
                                     [] OTHER -> v.entry[g]]
<1>1. /\ \A g \in Folders : EntryGood(v, R, g)
      /\ \A p \in Places : DirGood(v, p)
      /\ \A g \in Folders, x \in Files : FileGood(v, g, x)
      /\ CopyGood(v) /\ SourceErased(v)
  BY DEF Good, Written
<1>2. /\ \A g \in Folders : g # f => v.entry[g].place # q /\ ~LiveAt(g, q)
      /\ \A p \in Places : LiveAt(f, p) => p = q
      /\ ~Dead(f) /\ q \notin gone
      /\ f \in gone => v.entry[f].place = q
  BY <1>1, SlotIsOwn
<1>3. v.entry[f].place = Nowhere /\ tbl[q].mark = "live" /\ tbl[q].folder = f /\ q # Nowhere
  BY Basics DEF NoEntry, LiveAt
<1>4. ~(Cardinality(T) >= MaxEntries)
  <2>1. T \subseteq Folders /\ T # Folders /\ IsFiniteSet(Folders)
    BY FilesAssumption
  <2> HIDE DEF T
  <2>2. Cardinality(T) \in Nat /\ Cardinality(Folders) \in Nat /\ Cardinality(T) < Cardinality(Folders)
    BY <2>1, FS_Subset, FS_CardinalityType
  <2> QED
    BY <2>2, Basics
<1>5. w = [v EXCEPT !.dirs = v.dirs \cup {q}, !.entry = e]
  <2> HIDE DEF T
  <2>1. w = IF Cardinality(T) >= MaxEntries THEN v ELSE [v EXCEPT !.dirs = v.dirs \cup {q}, !.entry = e]
    BY DEF CreateFolder, T
  <2> QED
    BY <1>4, <2>1
<1>6. e[f] = EntryAt(q) /\ \A g \in Folders : g # f => e[g] = v.entry[g]
  BY <1>2
<1>7. e \in [Folders -> EntryRecord]
  <2>1. \A g \in Folders : v.entry[g] \in EntryRecord
    BY DEF DeviceRecord
  <2>2. EntryAt(q) \in EntryRecord /\ NoEntry \in EntryRecord
    BY DEF EntryAt, NoEntry, EntryRecord
  <2> QED
    BY <2>1, <2>2
<1> HIDE DEF w, e
<1>8. /\ w.graves = v.graves /\ w.disk = v.disk /\ w.bg = v.bg
      /\ w.entry = e /\ w.dirs = v.dirs \cup {q}
  BY <1>5 DEF DeviceRecord
<1>9. w \in DeviceRecord
  BY <1>5, <1>7, DirAdded DEF DeviceRecord
<1>10. w.entry[f] = EntryAt(q) /\ w.entry[f].place = q /\ \A g \in Folders : g # f => w.entry[g] = v.entry[g]
  BY <1>6, <1>8 DEF EntryAt
<1>11. v.bg.active => v.bg.old # q /\ v.bg.new # q /\ v.bg.new # Nowhere
  <2> SUFFICES ASSUME v.bg.active PROVE v.bg.old # q /\ v.bg.new # q /\ v.bg.new # Nowhere
    OBVIOUS
  <2>1. tbl[v.bg.old].mark = "erased"
    BY <1>1 DEF SourceErased
  <2>2. \E g \in Folders : v.entry[g].place = v.bg.new
    BY <1>1 DEF CopyGood, FromTo
  <2>3. v.bg.new \in Places
    BY <1>1, CopyIs
  <2> QED
    BY <1>2, <1>3, <2>1, <2>2, <2>3, Basics
<1>12. q \notin v.dirs /\ \A x \in Files : v.disk[q, x] = Absent
  <2>1. DirGood(v, q)
    BY <1>1
  <2>2. \A g \in Folders : v.entry[g].place # q
    BY <1>2, <1>3
  <2>3. q \notin v.dirs
    BY <1>3, <1>11, <2>1, <2>2 DEF DirGood
  <2> QED
    BY <2>1, <2>3 DEF DirGood
<1>13. \A g \in Folders : EntryGood(w, R \cup {q}, g)
  <2>1. v.dirs \subseteq w.dirs /\ q \in w.dirs
    BY <1>8
  <2>2. \A g \in Folders : EntryGood(v, R, g)
    BY <1>1
  <2>3. w.entry[f] = EntryAt(q) /\ \A g \in Folders : g # f => w.entry[g] = v.entry[g]
    BY <1>10
  <2> QED
    BY <2>1, <2>2, <2>3, EntrySet
<1>14. ASSUME NEW p \in Places PROVE DirGood(w, p)
  <2>1. DirGood(v, p)
    BY <1>1
  <2>2. CASE p = q
    BY <1>8, <1>10, <2>2 DEF DirGood
  <2>3. CASE p # q
    <3>1. \A g \in Folders : v.entry[g].place = p => w.entry[g].place = p
      BY <1>3, <1>10, Basics
    <3> QED
      BY <1>8, <2>1, <2>3, <3>1 DEF DirGood
  <2> QED
    BY <2>2, <2>3
<1>15. ASSUME NEW g \in Folders, NEW x \in Files PROVE FileGood(w, g, x)
  <2>1. FileGood(v, g, x)
    BY <1>1
  <2>2. CASE g # f
    <3>1. w.entry[g] = v.entry[g] /\ SourceOf(w, g) = SourceOf(v, g)
      BY <1>8, <1>10, <2>2 DEF SourceOf
    <3> QED
      BY <1>8, <2>1, <3>1 DEF FileGood
  <2>3. CASE g = f
    <3>1. want[g][x] = Absent
      BY <1>1, <1>3, <2>3 DEF EntryGood
    <3>2. SourceOf(w, g) = q /\ w.disk[q, x] = Absent
      BY <1>8, <1>10, <1>11, <1>12, <2>3 DEF SourceOf
    <3>3. w.graves[g, x] = Nowhere
      BY <1>3, <1>8, <2>1, <2>3 DEF FileGood
    <3> QED
      BY <3>1, <3>2, <3>3 DEF FileGood
  <2> QED
    BY <2>2, <2>3
<1>16. CopyGood(w) /\ SourceErased(w)
  <2>1. CASE ~v.bg.active
    BY <1>1, <1>8, <2>1 DEF CopyGood, SourceErased
  <2>2. CASE v.bg.active
    <3>1. FromTo(v) /\ Queued(v) /\ Opened(v) /\ Copied(v)
      BY <1>1, <2>2 DEF CopyGood
    <3>2. FromTo(w)
      <4>1. \A g \in Folders : w.entry[g].place # w.bg.old
        BY <1>8, <1>10, <1>11, <2>2, <3>1 DEF FromTo
      <4>2. \E g \in Folders : w.entry[g].place = w.bg.new
        BY <1>3, <1>8, <1>10, <1>11, <2>2, <3>1 DEF FromTo
      <4> QED
        BY <1>8, <3>1, <4>1, <4>2 DEF FromTo
    <3>3. Queued(w) /\ Opened(w) /\ Copied(w)
      BY <1>8, <3>1 DEF Queued, Opened, Copied
    <3>4. SourceErased(w)
      BY <1>1, <1>8 DEF SourceErased
    <3> QED
      BY <1>8, <2>2, <3>2, <3>3, <3>4 DEF CopyGood
  <2> QED
    BY <2>1, <2>2
<1> QED
  BY <1>9, <1>13, <1>14, <1>15, <1>16 DEF Good, Written, w

LEMMA EntryAgain ==
  ASSUME NEW v \in DeviceRecord, NEW f \in Folders, ~v.entry[f].deleted
  PROVE  [v EXCEPT !.entry[f].deleted = FALSE] = v
<1>1. v.entry[f] \in EntryRecord /\ v.entry \in [Folders -> EntryRecord]
  BY DEF DeviceRecord
<1>2. [v.entry[f] EXCEPT !.deleted = FALSE] = v.entry[f]
  BY <1>1 DEF EntryRecord
<1>3. [v.entry EXCEPT ![f] = v.entry[f]] = v.entry
  BY <1>1
<1>4. [v EXCEPT !.entry = v.entry] = v
  BY DEF DeviceRecord
<1> QED
  BY <1>2, <1>3, <1>4

\* Nothing is where a folder that moves goes.
Free(v, w, q) ==
  /\ q \notin v.dirs /\ \A x \in Files : v.disk[q, x] = Absent
  /\ w \in DeviceRecord /\ w.entry = v.entry /\ w.graves = v.graves /\ w.bg = v.bg /\ w.dirs = v.dirs
  /\ \A p \in Places, x \in Files : w.disk[p, x] = v.disk[p, x]
LEMMA PlaceIsFree ==
  ASSUME HostGood, NEW v \in DeviceRecord, NEW R, Good(v, R), ~v.bg.active, NEW q \in Places,
         NEW f \in Folders, LiveAt(f, q), v.entry[f].place # q, NEW w, w = Cleared(v, f, q)
  PROVE  Free(v, w, q)
<1> DEFINE e == [g \in Folders |-> IF g # f /\ ~v.entry[g].deleted /\ v.entry[g].place = q
                                   THEN [v.entry[g] EXCEPT !.deleted = TRUE] ELSE v.entry[g]]
           u == [v EXCEPT !.entry = e]
<1>1. (\A g \in Folders : EntryGood(v, R, g)) /\ DirGood(v, q)
  BY DEF Good
<1>2. \A g \in Folders : v.entry[g].place # q
  BY <1>1, SlotIsOwn
<1>3. q \notin v.dirs /\ \A x \in Files : v.disk[q, x] = Absent
  BY <1>1, <1>2 DEF DirGood, LiveAt
<1>4. v.entry \in [Folders -> EntryRecord]
  BY DEF DeviceRecord
<1>5. e = v.entry
  BY <1>2, <1>4
<1>6. u = v
  BY <1>5 DEF DeviceRecord
<1>7. w = RemoveDir(v, q)
  BY <1>6 DEF Cleared
<1> DEFINE k == RemoveDir(v, q)
<1>8. /\ k \in DeviceRecord /\ k.entry = v.entry /\ k.graves = v.graves /\ k.bg = v.bg
      /\ k.dirs = v.dirs \ {q}
      /\ \A p \in Places, x \in Files : k.disk[p, x] = IF p = q THEN Absent ELSE v.disk[p, x]
  BY Removed
<1> HIDE DEF k
<1>9. w = k
  BY <1>7 DEF k
<1>10. w \in DeviceRecord /\ w.entry = v.entry /\ w.graves = v.graves /\ w.bg = v.bg /\ w.dirs = v.dirs
  BY <1>3, <1>8, <1>9
<1>11. \A p \in Places, x \in Files : w.disk[p, x] = v.disk[p, x]
  BY <1>3, <1>8, <1>9
<1> QED
  BY <1>3, <1>10, <1>11 DEF Free

LEMMA CopyBetween ==
  ASSUME NEW b \in CopyRecord, NEW o \in Places, NEW n \in Places
  PROVE  [b EXCEPT !.old = o, !.new = n] \in CopyRecord
BY DEF CopyRecord
LEMMA CopyStarts ==
  ASSUME NEW o \in Places, NEW n \in Places
  PROVE  LET c == [Idle EXCEPT !.old = o, !.new = n] IN
         c \in CopyRecord /\ c.old = o /\ c.new = n /\ c.ok /\ ~c.open
<1>1. Idle \in CopyRecord /\ Idle.ok /\ ~Idle.open
  BY IdleIs DEF Idle
<1> DEFINE i == Idle
           c == [i EXCEPT !.old = o, !.new = n]
<1>2. i \in CopyRecord /\ i.ok /\ ~i.open
  BY <1>1
<1> HIDE DEF i
<1>3. c \in CopyRecord
  BY <1>2, CopyBetween
<1>4. c.old = o /\ c.new = n
  BY <1>2 DEF CopyRecord
<1>5. c.ok /\ ~c.open
  BY <1>2 DEF CopyRecord
<1> QED
  BY <1>3, <1>4, <1>5 DEF i

\* A folder at old moves to q: d is the device before, w after, s is the copy's queue.
Moving(d, w, f, old, q, s) ==
  /\ w \in DeviceRecord /\ w.graves = d.graves /\ w.dirs = d.dirs \cup {q}
  /\ w.entry[f] = EntryAt(q) /\ \A g \in Folders : g # f => w.entry[g] = d.entry[g]
  /\ w.bg.active /\ w.bg.old = old /\ w.bg.new = q /\ w.bg.todo = s /\ ~w.bg.open /\ w.bg.ok
  /\ s \in Seq(Files) /\ Len(s) <= QueueMax /\ IsInjective(s) /\ ToSet(s) \subseteq FilesIn(d, old)
  /\ \A p \in Places, x \in Files :
       w.disk[p, x] = IF p = q /\ x \in FilesIn(d, old) \ ToSet(s) THEN d.disk[old, x] ELSE d.disk[p, x]

LEMMA MoveIs ==
  ASSUME HostGood, NEW v \in DeviceRecord, NEW R, Good(v, R), NEW q \in Places, NEW f \in Folders, LiveAt(f, q),
         NEW fault, Faulting(fault), v.entry[f].place # q, v.entry[f].place # Nowhere
  PROVE  LET d == Drained(v, fault)
             old == v.entry[f].place
             w == MoveFolder(v, f, q, fault)
         IN  /\ d \in DeviceRecord /\ d.entry = v.entry /\ d.graves = v.graves /\ Good(d, R) /\ ~d.bg.active
             /\ \E s : Moving(d, w, f, old, q, s)
<1> DEFINE d == Drained(v, fault)
           old == v.entry[f].place
           ready == Cleared(d, f, q)
           c == [Idle EXCEPT !.old = old, !.new = q]
           start == [ready EXCEPT !.bg = c]
           listed == Enumerated(start, fault)
           w == MoveFolder(v, f, q, fault)
           z == [listed EXCEPT !.entry[f] = EntryAt(q), !.bg.active = TRUE]
<1>1. d \in DeviceRecord /\ d.entry = v.entry /\ d.graves = v.graves /\ Good(d, R) /\ ~d.bg.active
  BY CopyDrained
<1>2. old # q /\ old \in Places /\ q # Nowhere
  BY EntryIs, Basics
<1>3. w = IF listed.bg.ok THEN z ELSE [listed EXCEPT !.bg = Idle]
  BY <1>2 DEF MoveFolder
<1> HIDE DEF d, w
<1>4. /\ q \notin d.dirs /\ \A x \in Files : d.disk[q, x] = Absent
      /\ ready \in DeviceRecord /\ ready.entry = d.entry /\ ready.graves = d.graves /\ ready.dirs = d.dirs
      /\ \A p \in Places, x \in Files : ready.disk[p, x] = d.disk[p, x]
  <2>1. d.entry[f].place # q
    BY <1>1
  <2>2. ready = Cleared(d, f, q)
    OBVIOUS
  <2> HIDE DEF ready, old
  <2>3. Free(d, ready, q)
    BY <1>1, <2>1, <2>2, PlaceIsFree
  <2> QED
    BY <2>3 DEF Free
<1>5. old \in d.dirs
  BY <1>1, <1>2, Basics DEF Good, EntryGood
<1> HIDE DEF ready
<1>6. c \in CopyRecord /\ c.old = old /\ c.new = q /\ c.ok /\ ~c.open
  BY <1>2, CopyStarts
<1> HIDE DEF c
<1>7. /\ start \in DeviceRecord /\ start.entry = d.entry /\ start.graves = d.graves /\ start.dirs = d.dirs
      /\ start.bg = c /\ start.disk = ready.disk
  BY <1>4, <1>6 DEF DeviceRecord
<1> HIDE DEF start
<1>8. Listing(start, listed)
  <2>1. start.bg.old \in start.dirs /\ start.bg.new \in Places /\ start.bg.old # start.bg.new
    BY <1>2, <1>5, <1>6, <1>7
  <2> QED
    BY <1>7, <2>1, Enumerates
<1> HIDE DEF listed
<1>9. PICK s \in Seq(Files) :
        /\ listed.bg = [c EXCEPT !.todo = s]
        /\ Len(s) <= QueueMax /\ IsInjective(s) /\ ToSet(s) \subseteq FilesIn(start, old)
        /\ \A p \in Places, x \in Files :
             listed.disk[p, x] = IF p = q /\ x \in FilesIn(start, old) \ ToSet(s)
                                 THEN start.disk[old, x] ELSE start.disk[p, x]
  <2>1. start.bg = c /\ start.bg.old = old /\ start.bg.new = q
    BY <1>6, <1>7
  <2>2. PICK s \in Seq(Files) :
          /\ listed.bg = [start.bg EXCEPT !.todo = s]
          /\ Len(s) <= QueueMax /\ IsInjective(s) /\ ToSet(s) \subseteq FilesIn(start, start.bg.old)
          /\ \A p \in Places, x \in Files :
               listed.disk[p, x] = IF p = start.bg.new /\ x \in FilesIn(start, start.bg.old) \ ToSet(s)
                                   THEN start.disk[start.bg.old, x] ELSE start.disk[p, x]
    BY <1>8 DEF Listing
  <2> HIDE DEF old
  <2>3. listed.bg = [c EXCEPT !.todo = s] /\ ToSet(s) \subseteq FilesIn(start, old)
    BY <2>1, <2>2
  <2>4. \A p \in Places, x \in Files :
          listed.disk[p, x] = IF p = q /\ x \in FilesIn(start, old) \ ToSet(s)
                              THEN start.disk[old, x] ELSE start.disk[p, x]
    BY <2>1, <2>2
  <2> QED
    BY <2>2, <2>3, <2>4
<1>10. FilesIn(start, old) = FilesIn(d, old) /\ \A p \in Places, x \in Files : start.disk[p, x] = d.disk[p, x]
  BY <1>2, <1>4, <1>7 DEF FilesIn
<1>11. listed \in DeviceRecord /\ listed.entry = v.entry /\ listed.graves = d.graves /\ listed.dirs = d.dirs \cup {q}
  BY <1>1, <1>6, <1>7, <1>8 DEF Listing
<1>12. listed.bg \in CopyRecord /\ listed.bg.old = old /\ listed.bg.new = q /\ listed.bg.todo = s
       /\ listed.bg.ok /\ ~listed.bg.open
  BY <1>6, <1>9 DEF CopyRecord
<1>13. w = z
  BY <1>3, <1>12
<1> DEFINE a == [listed.bg EXCEPT !.active = TRUE]
           e == [listed.entry EXCEPT ![f] = EntryAt(q)]
<1>14. a \in CopyRecord /\ a.active /\ a.old = old /\ a.new = q /\ a.todo = s /\ a.ok /\ ~a.open
  BY <1>12 DEF CopyRecord
<1>15. e \in [Folders -> EntryRecord] /\ e[f] = EntryAt(q) /\ \A g \in Folders : g # f => e[g] = d.entry[g]
  <2>1. listed.entry \in [Folders -> EntryRecord]
    BY <1>11 DEF DeviceRecord
  <2>2. EntryAt(q) \in EntryRecord
    BY DEF EntryAt, EntryRecord
  <2> QED
    BY <1>1, <1>11, <2>1, <2>2
<1>16. w = [listed EXCEPT !.entry = e, !.bg = a]
  BY <1>13
<1> HIDE DEF a, e, z
<1>17. /\ w.entry = e /\ w.bg = a /\ w.graves = d.graves /\ w.dirs = d.dirs \cup {q} /\ w.disk = listed.disk
  BY <1>11, <1>16 DEF DeviceRecord
<1>18. w \in DeviceRecord
  BY <1>11, <1>14, <1>15, <1>16 DEF DeviceRecord
<1> HIDE DEF old
<1>19. \A p \in Places, x \in Files :
         w.disk[p, x] = IF p = q /\ x \in FilesIn(d, old) \ ToSet(s) THEN d.disk[old, x] ELSE d.disk[p, x]
  <2> TAKE p \in Places, x \in Files
  <2>1. w.disk[p, x] = IF p = q /\ x \in FilesIn(start, old) \ ToSet(s)
                       THEN start.disk[old, x] ELSE start.disk[p, x]
    BY <1>9, <1>17
  <2>2. start.disk[p, x] = d.disk[p, x] /\ start.disk[old, x] = d.disk[old, x]
    BY <1>2, <1>10
  <2>3. FilesIn(start, old) = FilesIn(d, old)
    BY <1>10
  <2> QED
    BY <2>1, <2>2, <2>3
<1>20. Len(s) <= QueueMax /\ IsInjective(s) /\ ToSet(s) \subseteq FilesIn(d, old)
  BY <1>9, <1>10
<1>21. Moving(d, w, f, old, q, s)
  BY <1>14, <1>15, <1>17, <1>18, <1>19, <1>20 DEF Moving
<1> QED
  BY <1>1, <1>21 DEF d, w, old

LEMMA SlotMoved ==
  ASSUME HostGood, NEW d \in DeviceRecord, NEW R, Good(d, R), ~d.bg.active, NEW q \in Places,
         NEW f \in Folders, LiveAt(f, q), NEW old \in Places, d.entry[f].place = old, old # q,
         NEW w, NEW s, Moving(d, w, f, old, q, s)
  PROVE  Written(w, R \cup {q})
<1>1. /\ \A g \in Folders : EntryGood(d, R, g)
      /\ \A p \in Places : DirGood(d, p)
      /\ \A g \in Folders, x \in Files : FileGood(d, g, x)
  BY DEF Good
<1>2. /\ \A g \in Folders : g # f => d.entry[g].place # q /\ ~LiveAt(g, q)
      /\ \A p \in Places : LiveAt(f, p) => p = q
      /\ ~Dead(f) /\ f \notin gone
  <2>1. f \in gone => d.entry[f].place = q
    BY <1>1, SlotIsOwn
  <2> QED
    BY <1>1, <2>1, SlotIsOwn
<1>3. tbl[q].mark = "live" /\ tbl[q].folder = f /\ q # Nowhere /\ old # Nowhere
  BY Basics DEF LiveAt
<1>4. tbl[old].folder = f /\ tbl[old].mark = "erased" /\ old \in d.dirs
  <2>1. tbl[old].folder = f /\ old \in d.dirs
    BY <1>1, <1>3 DEF EntryGood
  <2>2. tbl[old].mark # "live"
    BY <1>2, <2>1 DEF LiveAt
  <2>3. tbl[old].mark # "free"
    BY <2>1, Basics DEF HostGood
  <2>4. tbl[old].mark \in {"free", "live", "erased"}
    BY DEF HostGood, SlotRecord
  <2> QED
    BY <2>1, <2>2, <2>3, <2>4
<1>5. \A g \in Folders : g # f => d.entry[g].place # old
  BY <1>1, <1>3, <1>4 DEF EntryGood
<1>6. q \notin d.dirs /\ \A x \in Files : d.disk[q, x] = Absent
  <2>1. DirGood(d, q)
    BY <1>1
  <2>2. q \notin d.dirs
    BY <1>2, <1>3, <2>1 DEF DirGood
  <2> QED
    BY <2>1, <2>2 DEF DirGood
<1>7. /\ w \in DeviceRecord /\ w.graves = d.graves /\ w.dirs = d.dirs \cup {q}
      /\ w.entry[f] = EntryAt(q) /\ w.entry[f].place = q /\ \A g \in Folders : g # f => w.entry[g] = d.entry[g]
  <2>1. /\ w \in DeviceRecord /\ w.graves = d.graves /\ w.dirs = d.dirs \cup {q}
        /\ w.entry[f] = EntryAt(q) /\ \A g \in Folders : g # f => w.entry[g] = d.entry[g]
    BY DEF Moving
  <2>2. EntryAt(q).place = q
    BY DEF EntryAt
  <2> QED
    BY <2>1, <2>2
<1>8. w.bg.active /\ w.bg.old = old /\ w.bg.new = q /\ w.bg.todo = s /\ ~w.bg.open /\ w.bg.ok
  BY DEF Moving
<1>9. s \in Seq(Files) /\ Len(s) <= QueueMax /\ IsInjective(s) /\ ToSet(s) \subseteq FilesIn(d, old)
  BY DEF Moving
<1>10. \A p \in Places, x \in Files :
         w.disk[p, x] = IF p = q /\ x \in FilesIn(d, old) \ ToSet(s) THEN d.disk[old, x] ELSE d.disk[p, x]
  BY DEF Moving
<1>11. \A p \in Places, x \in Files : p # q => w.disk[p, x] = d.disk[p, x]
  BY <1>10
<1>12. \A g \in Folders : EntryGood(w, R \cup {q}, g)
  <2>1. d.dirs \subseteq w.dirs /\ q \in w.dirs
    BY <1>7
  <2>2. w.entry[f] = EntryAt(q) /\ \A g \in Folders : g # f => w.entry[g] = d.entry[g]
    BY <1>7
  <2>3. \A g \in Folders : EntryGood(d, R, g)
    BY <1>1
  <2> QED
    BY <2>1, <2>2, <2>3, EntrySet
<1>13. ASSUME NEW p \in Places PROVE DirGood(w, p)
  <2>1. DirGood(d, p)
    BY <1>1
  <2>2. CASE p = q
    BY <1>7, <2>2 DEF DirGood
  <2>3. CASE p = old
    <3>1. p \in w.dirs
      BY <1>4, <1>7, <2>3
    <3> QED
      BY <1>8, <2>3, <3>1 DEF DirGood
  <2>4. CASE p # q /\ p # old
    <3>1. \A g \in Folders : d.entry[g].place = p => w.entry[g].place = p
      BY <1>7, <2>4
    <3>2. p \in w.dirs <=> p \in d.dirs
      BY <1>7, <2>4
    <3> QED
      BY <1>11, <2>1, <2>4, <3>1, <3>2 DEF DirGood
  <2> QED
    BY <2>2, <2>3, <2>4
<1>14. ASSUME NEW g \in Folders, NEW x \in Files PROVE FileGood(w, g, x)
  <2>1. FileGood(d, g, x) /\ EntryGood(d, R, g)
    BY <1>1
  <2>2. w.graves[g, x] # Nowhere =>
          w.graves[g, x] = w.entry[g].place /\ want[g][x] = Absent /\ (g \in gone \/ Dead(g))
    <3>1. CASE g = f
      BY <1>2, <1>7, <2>1, <3>1 DEF FileGood
    <3>2. CASE g # f
      BY <1>7, <2>1, <3>2 DEF FileGood
    <3> QED
      BY <3>1, <3>2
  <2> DEFINE k == d.entry[g].place
  <2>3. SourceOf(d, g) = k /\ SourceOf(w, g) = k /\ k # q
    <3>1. CASE g = f
      BY <1>7, <1>8, <3>1 DEF SourceOf
    <3>2. CASE g # f
      BY <1>2, <1>7, <1>8, <3>2 DEF SourceOf
    <3> QED
      BY <3>1, <3>2
  <2>4. k # Nowhere => w.disk[k, x] = d.disk[k, x]
    BY <1>11, <2>3, EntryIs
  <2>5. want[g][x] # Absent => k # Nowhere
    BY <2>1 DEF EntryGood
  <2>6. ~frail /\ want[g][x] # Absent => w.disk[SourceOf(w, g), x] = want[g][x]
    BY <2>1, <2>3, <2>4, <2>5 DEF FileGood
  <2>7. ~frail /\ want[g][x] = Absent /\ w.entry[g].place # Nowhere =>
          w.disk[SourceOf(w, g), x] = Absent \/ g \in dirty \/ w.graves[g, x] = w.entry[g].place \/ Dead(g)
    <3> SUFFICES ASSUME ~frail, want[g][x] = Absent, w.entry[g].place # Nowhere
                 PROVE  w.disk[k, x] = Absent \/ g \in dirty \/ w.graves[g, x] = w.entry[g].place \/ Dead(g)
      BY <2>3
    <3>1. k # Nowhere
      BY <1>3, <1>7
    <3>2. d.disk[k, x] = Absent \/ g \in dirty \/ d.graves[g, x] = k \/ Dead(g)
      BY <2>1, <2>3, <3>1 DEF FileGood
    <3>3. d.graves[g, x] = k => g # f
      BY <1>2, <2>1, <3>1 DEF FileGood
    <3> QED
      BY <1>7, <2>4, <3>1, <3>2, <3>3
  <2>8. frail /\ want[g][x] # Absent /\ Edited \notin ToSet(want[g][x]) =>
          \E p \in Places : /\ tbl[p].folder = g /\ w.disk[p, x] = want[g][x]
                            /\ ~(w.bg.active /\ p = w.bg.new /\ x \in ToSet(w.bg.todo))
    <3> SUFFICES ASSUME frail, want[g][x] # Absent, Edited \notin ToSet(want[g][x])
                 PROVE  \E p \in Places : /\ tbl[p].folder = g /\ w.disk[p, x] = want[g][x] /\ p # w.bg.new
      OBVIOUS
    <3>1. PICK p \in Places : tbl[p].folder = g /\ d.disk[p, x] = want[g][x]
      BY <2>1 DEF FileGood
    <3>2. p # q
      BY <1>6, <3>1
    <3> QED
      BY <1>8, <1>11, <3>1, <3>2
  <2> HIDE DEF k
  <2> QED
    BY <2>2, <2>6, <2>7, <2>8 DEF FileGood
<1>15. FromTo(w)
  <2>1. \A g \in Folders : w.entry[g].place # old
    BY <1>5, <1>7
  <2> QED
    BY <1>4, <1>7, <1>8, <2>1 DEF FromTo
<1>16. Queued(w)
  <2>1. \A x \in ToSet(s) : x \in Files /\ d.disk[old, x] # Absent
    BY <1>9 DEF FilesIn
  <2>2. \A x \in ToSet(s) : w.disk[old, x] # Absent
    BY <1>11, <2>1
  <2> QED
    BY <1>8, <1>9, <2>2 DEF Queued
<1>17. Copied(w)
  <2>1. ASSUME NEW x \in Files \ ToSet(s) PROVE w.disk[q, x] = w.disk[old, x]
    <3>1. w.disk[old, x] = d.disk[old, x]
      BY <1>11
    <3>2. CASE x \in FilesIn(d, old)
      BY <1>10, <3>1, <3>2
    <3>3. CASE x \notin FilesIn(d, old)
      <4>1. d.disk[old, x] = Absent
        BY <3>3 DEF FilesIn
      <4>2. w.disk[q, x] = d.disk[q, x]
        BY <1>10, <3>3
      <4> QED
        BY <1>6, <3>1, <4>1, <4>2
    <3> QED
      BY <3>2, <3>3
  <2> QED
    BY <1>8, <2>1 DEF Copied
<1>18. CopyGood(w) /\ SourceErased(w)
  <2>1. Opened(w)
    BY <1>8 DEF Opened
  <2>2. SourceErased(w)
    BY <1>3, <1>4, <1>8 DEF SourceErased
  <2> QED
    BY <1>8, <1>15, <1>16, <1>17, <2>1, <2>2 DEF CopyGood
<1> QED
  BY <1>7, <1>12, <1>13, <1>14, <1>18 DEF Good, Written

\* fatfs_handle_short_entry_write
LEMMA SlotHandled ==
  ASSUME HostGood, NEW v \in DeviceRecord, NEW R, Written(v, R), NEW q \in Places,
         NEW fault, Faulting(fault), Cardinality(Folders) <= MaxEntries
  PROVE  Written(Handle(v, q, fault), R \cup {q})
<1> DEFINE f == tbl[q].folder
<1>1. /\ tbl[q].mark \in {"free", "live", "erased"} /\ f \in Folders \cup {Nowhere}
      /\ tbl[q].mark = "free" <=> f = Nowhere
  BY DEF HostGood, SlotRecord
<1>2. \A g \in Folders : EntryGood(v, R, g)
  BY DEF Written, Good
<1>3. CASE tbl[q].mark = "free"
  <2>1. Handle(v, q, fault) = v
    BY <1>3 DEF Handle
  <2>2. \A g \in Folders : ~LiveAt(g, q) /\ tbl[q].folder # g
    BY <1>1, <1>3, Basics DEF LiveAt
  <2> QED
    BY <2>1, <2>2, SlotSkipped
<1>4. CASE tbl[q].mark = "erased"
  <2>1. f \in Folders /\ \A g \in Folders : ~LiveAt(g, q)
    BY <1>1, <1>4 DEF LiveAt
  <2>2. CASE ~v.entry[f].deleted /\ v.entry[f].place = q
    <3>1. Handle(v, q, fault) = [v EXCEPT !.entry[f].deleted = TRUE]
      BY <1>4, <2>2 DEF Handle
    <3> HIDE DEF f
    <3>2. tbl[q].folder = f
      BY DEF f
    <3> QED
      BY <1>4, <2>1, <2>2, <3>1, <3>2, SlotErased
  <2>3. CASE ~(~v.entry[f].deleted /\ v.entry[f].place = q)
    <3>1. Handle(v, q, fault) = v
      BY <1>4, <2>3 DEF Handle
    <3>2. \A g \in Folders : q \in gone /\ tbl[q].folder = g => v.entry[g].deleted
      BY <1>2, <2>3 DEF EntryGood
    <3> QED
      BY <2>1, <3>1, <3>2, SlotSkipped
  <2> QED
    BY <2>2, <2>3
<1>5. CASE tbl[q].mark = "live"
  <2>1. f \in Folders /\ LiveAt(f, q)
    BY <1>1, <1>5 DEF LiveAt
  <2> DEFINE w == Handle(v, q, fault)
  <2>2. w = IF v.entry[f] # NoEntry THEN MoveFolder(v, f, q, fault) ELSE CreateFolder(v, f, q)
    BY <1>5 DEF Handle
  <2> HIDE DEF f, w
  <2>3. CASE v.entry[f] = NoEntry
    BY <2>1, <2>2, <2>3, SlotCreated DEF w
  <2>4. CASE v.entry[f] # NoEntry
    <3>1. w = MoveFolder(v, f, q, fault)
      BY <2>2, <2>4
    <3>2. EntryGood(v, R, f)
      BY <1>2, <2>1
    <3>3. v.entry[f].place # Nowhere
      <4>1. v.entry[f].place = Nowhere => ~v.entry[f].deleted
        BY <3>2 DEF EntryGood
      <4>2. /\ v.entry[f] = [place |-> v.entry[f].place, deleted |-> v.entry[f].deleted]
            /\ v.entry[f].deleted \in BOOLEAN
        BY <2>1, EntryIs
      <4> QED
        BY <2>4, <4>1, <4>2 DEF NoEntry
    <3>4. CASE v.entry[f].place = q
      <4>1. ~v.entry[f].deleted
        BY <1>5, <3>2, <3>4 DEF EntryGood
      <4>2. w = v
        <5>1. w = [v EXCEPT !.entry[f].deleted = FALSE]
          BY <3>1, <3>4 DEF MoveFolder
        <5> QED
          BY <2>1, <4>1, <5>1, EntryAgain
      <4>3. v.entry[f] = EntryAt(q)
        <5>1. v.entry[f] = [place |-> v.entry[f].place, deleted |-> v.entry[f].deleted]
              /\ v.entry[f].deleted \in BOOLEAN
          BY <2>1, EntryIs
        <5>2. v.entry[f].deleted = FALSE
          BY <4>1, <5>1
        <5> QED
          BY <3>4, <5>1, <5>2 DEF EntryAt
      <4>4. \A g \in Folders : LiveAt(g, q) => v.entry[g] = EntryAt(q)
        BY <1>2, <2>1, <4>3, SlotIsOwn
      <4>5. q \notin gone
        BY <1>2, <2>1, SlotIsOwn
      <4> QED
        BY <4>2, <4>4, <4>5, SlotSkipped DEF w
    <3>5. CASE v.entry[f].place # q
      <4> DEFINE d == Drained(v, fault)
                 old == v.entry[f].place
                 u == MoveFolder(v, f, q, fault)
      <4>1. Good(v, R)
        BY DEF Written
      <4>2. /\ d \in DeviceRecord /\ d.entry = v.entry /\ Good(d, R) /\ ~d.bg.active
            /\ \E s : Moving(d, u, f, old, q, s)
        BY <2>1, <3>3, <3>5, <4>1, MoveIs
      <4>3. old \in Places
        BY <2>1, <3>3, EntryIs
      <4> HIDE DEF d, u
      <4>4. PICK s : Moving(d, u, f, old, q, s)
        BY <4>2
      <4>5. d.entry[f].place = old /\ old # q
        BY <3>5, <4>2
      <4> HIDE DEF old
      <4>6. Written(u, R \cup {q})
        BY <2>1, <4>2, <4>3, <4>4, <4>5, SlotMoved
      <4> QED
        BY <3>1, <4>6 DEF u, w
    <3> QED
      BY <3>4, <3>5
  <2> QED
    BY <2>3, <2>4
<1> QED
  BY <1>1, <1>3, <1>4, <1>5

\* All the slots of a table.
SlotsOf(d) == {p \in Places : Parent[p] = d}

LEMMA TableHandled ==
  ASSUME HostGood, Good(Device, Settled), ~bg.active, NEW d,
         NEW fault, Faulting(fault), Cardinality(Folders) <= MaxEntries
  PROVE  Written(Handled(d, fault), Settled \cup SlotsOf(d))
<1> DEFINE n == Len(SlotOrder)
           D == {u \in DeviceRecord : \E R : Written(u, R)}
           Turn(u, i) == IF Parent[SlotOrder[i]] = d THEN Handle(u, SlotOrder[i], fault) ELSE u
           step == [k \in D \X (1..n) |-> Turn(k[1], k[2])]
           Table(g) == g = [i \in 0..n |-> IF i = 0 THEN Device
                                           ELSE IF Parent[SlotOrder[i]] = d THEN Handle(g[i - 1], SlotOrder[i], fault)
                                           ELSE g[i - 1]]
           after == CHOOSE g : Table(g)
           R(i) == Settled \cup {p \in SlotsOf(d) : \E j \in 1..i : SlotOrder[j] = p}
<1>1. n \in Nat /\ (\A i \in 1..n : SlotOrder[i] \in Places) /\ \A p \in Places : \E i \in 1..n : SlotOrder[i] = p
  <2>1. SlotOrder \in Seq(Places) /\ ToSet(SlotOrder) = Places
    BY TreeAssumption
  <2>2. DOMAIN SlotOrder = 1..n /\ n \in Nat
    BY <2>1
  <2>3. \A i \in 1..n : SlotOrder[i] \in Places
    BY <2>1
  <2>4. \A p \in Places : \E i \in 1..n : SlotOrder[i] = p
    BY <2>1, <2>2 DEF ToSet
  <2> QED
    BY <2>2, <2>3, <2>4
<1>2. Device \in DeviceRecord /\ Written(Device, Settled)
  <2>1. SourceErased(Device)
    BY DEF SourceErased, Device
  <2> QED
    BY <2>1 DEF Good, Written
<1>3. Device \in D
  BY <1>2
<1>4. ASSUME NEW u \in DeviceRecord, NEW Q, Written(u, Q), NEW i \in 1..n
      PROVE  /\ Turn(u, i) \in DeviceRecord
             /\ Written(Turn(u, i), IF Parent[SlotOrder[i]] = d THEN Q \cup {SlotOrder[i]} ELSE Q)
  <2>1. CASE Parent[SlotOrder[i]] = d
    <3> DEFINE q == SlotOrder[i]
    <3>1. q \in Places /\ u \in DeviceRecord /\ Written(u, Q)
      BY <1>1, <1>4
    <3> HIDE DEF q
    <3>2. Written(Handle(u, q, fault), Q \cup {q})
      BY <3>1, SlotHandled
    <3>3. Handle(u, q, fault) \in DeviceRecord
      BY <3>2 DEF Written, Good
    <3> QED
      BY <2>1, <3>2, <3>3 DEF q
  <2>2. CASE Parent[SlotOrder[i]] # d
    BY <1>4, <2>2
  <2> QED
    BY <2>1, <2>2
<1>5. \A u \in D, i \in 1..n : Turn(u, i) \in D
  <2> TAKE u \in D, i \in 1..n
  <2>1. PICK Q : Written(u, Q)
    OBVIOUS
  <2> HIDE DEF Turn
  <2> QED
    BY <1>4, <2>1
<1> HIDE DEF D, n
<1>6. step \in [D \X (1..n) -> D]
  <2> HIDE DEF Turn
  <2> QED
    BY <1>5
<1>7. PICK g : Walk(g, n, D, Device, step)
  <2> HIDE DEF step
  <2> QED
    BY <1>1, <1>3, <1>6, Steps
<1>8. Table(g)
  <2>1. g \in [0..n -> D] /\ g[0] = Device
    BY <1>7 DEF Walk
  <2>2. \A i \in 1..n : g[i] = Turn(g[i - 1], i)
    <3> TAKE i \in 1..n
    <3>0. g[i] = step[<<g[i - 1], i>>]
      <4> HIDE DEF step
      <4> QED
        BY <1>7 DEF Walk
    <3>1. i - 1 \in 0..n
      BY <1>1
    <3>2. <<g[i - 1], i>> \in D \X (1..n)
      BY <2>1, <3>1
    <3> HIDE DEF Turn
    <3> QED
      BY <3>0, <3>2
  <2>3. \A i \in 0..n : i = 0 \/ i \in 1..n
    BY <1>1
  <2>4. \A i \in 0..n : g[i] = IF i = 0 THEN Device ELSE Turn(g[i - 1], i)
    <3> HIDE DEF Turn
    <3> QED
      BY <2>1, <2>2, <2>3
  <2>5. g = [i \in 0..n |-> IF i = 0 THEN Device ELSE Turn(g[i - 1], i)]
    <3> HIDE DEF Turn
    <3> QED
      BY <2>1, <2>4
  <2> QED
    BY <2>5
<1>9. Table(after)
  <2> HIDE DEF Table
  <2> QED
    BY <1>8
<1>10. Handled(d, fault) = after[n]
  BY DEF Handled, n
<1> HIDE DEF after
<1>11. after[0] = Device /\ \A i \in 1..n : after[i] = Turn(after[i - 1], i)
  <2>1. 0 \in 0..n /\ \A i \in 1..n : i \in 0..n /\ i # 0
    BY <1>1
  <2>2. after = [i \in 0..n |-> IF i = 0 THEN Device ELSE Turn(after[i - 1], i)]
    BY <1>9
  <2> HIDE DEF Table, Turn
  <2> QED
    BY <2>1, <2>2
<1> HIDE DEF Table, step
<1> DEFINE T == {i \in 0..n : after[i] \in DeviceRecord /\ Written(after[i], R(i))}
<1>12. 0 \in T
  <2>1. R(0) = Settled /\ 0 \in 0..n
    BY <1>1
  <2> HIDE DEF R
  <2> QED
    BY <1>2, <1>11, <2>1
<1>13. ASSUME NEW i \in 0..n - 1, i \in T PROVE i + 1 \in T
  <2>1. i + 1 \in 1..n /\ (i + 1) - 1 = i /\ i + 1 \in 0..n /\ 1..i + 1 = 1..i \cup {i + 1}
    BY <1>1
  <2> DEFINE q == SlotOrder[i + 1]
  <2>2. after[i + 1] = Turn(after[i], i + 1)
    <3> HIDE DEF Turn
    <3> QED
      BY <1>11, <2>1
  <2>3. R(i + 1) = IF Parent[q] = d THEN R(i) \cup {q} ELSE R(i)
    <3>1. q \in Places
      BY <1>1, <2>1
    <3> QED
      BY <2>1, <3>1 DEF SlotsOf
  <2>4. after[i] \in DeviceRecord /\ Written(after[i], R(i))
    BY <1>13
  <2> HIDE DEF R, Turn
  <2>5. /\ Turn(after[i], i + 1) \in DeviceRecord
        /\ Written(Turn(after[i], i + 1), IF Parent[q] = d THEN R(i) \cup {q} ELSE R(i))
    BY <1>4, <2>1, <2>4
  <2>6. after[i + 1] \in DeviceRecord /\ Written(after[i + 1], R(i + 1))
    BY <2>2, <2>3, <2>5
  <2> QED
    BY <2>1, <2>6
<1>14. n \in T
  <2> HIDE DEF T
  <2>1. 0..n \subseteq T
    BY <1>1, <1>12, <1>13, CountFromZero
  <2> QED
    BY <1>1, <2>1
<1>15. R(n) = Settled \cup SlotsOf(d)
  BY <1>1 DEF SlotsOf
<1> QED
  <2> HIDE DEF R
  <2> QED
    BY <1>10, <1>14, <1>15

-----------------------------------------------------------------------------
(* The steps of the device.                                                 *)

LEMMA BecomesDevice ==
  ASSUME NEW w \in DeviceRecord, BecomeDevice(w)
  PROVE  Device' = w
<1>1. w = [entry |-> w.entry, graves |-> w.graves, dirs |-> w.dirs, disk |-> w.disk, bg |-> w.bg]
  BY DEF DeviceRecord
<1> QED
  BY <1>1 DEF Device, BecomeDevice

\* The host does nothing, but that a table may have been written.
HostWaits ==
  /\ tbl' = tbl /\ want' = want /\ gone' = gone /\ frail' = frail
  /\ \A f \in Folders : f \in dirty' <=> f \in dirty

LEMMA GoodAfter ==
  ASSUME NEW w \in DeviceRecord, NEW R, Good(w, R), Device' = w, Settled' = R, HostWaits
  PROVE  Good(Device, Settled)'
<1>1. tbl' = tbl /\ want' = want /\ gone' = gone /\ frail' = frail /\ \A f \in Folders : f \in dirty' <=> f \in dirty
  BY DEF HostWaits
<1>2. /\ \A f \in Folders : EntryGood(w, R, f)
      /\ \A p \in Places : DirGood(w, p)
      /\ \A f \in Folders, x \in Files : FileGood(w, f, x)
      /\ CopyGood(w) /\ (frail => SourceErased(w))
  BY DEF Good
<1>3. (Device \in DeviceRecord)'
  BY DEF DeviceRecord, EntryRecord, CopyRecord, Texts
<1>4. ASSUME NEW f \in Folders PROVE EntryGood(Device, Settled, f)'
  BY <1>1, <1>2 DEF EntryGood, LiveAt
<1>5. ASSUME NEW p \in Places PROVE DirGood(Device, p)'
  BY <1>1, <1>2 DEF DirGood
<1>6. ASSUME NEW f \in Folders, NEW x \in Files PROVE FileGood(Device, f, x)'
  <2>1. Dead(f)' <=> Dead(f)
    BY <1>1 DEF Dead
  <2>2. SourceOf(Device, f)' = SourceOf(w, f)
    BY DEF SourceOf
  <2> QED
    BY <1>1, <1>2, <2>1, <2>2 DEF FileGood
<1>7. CopyGood(Device)'
  BY <1>1, <1>2 DEF CopyGood, FromTo, Queued, Opened, Copied
<1>8. (frail => SourceErased(Device))'
  BY <1>1, <1>2 DEF SourceErased
<1> QED
  BY <1>3, <1>4, <1>5, <1>6, <1>7, <1>8 DEF Good

LEMMA HostStaysGood ==
  ASSUME HostGood, HostWaits, dirty' \subseteq dirty
  PROVE  HostGood'
BY DEF HostGood, HostWaits, SlotRecord, Texts, LiveAt, Accounted, Dead

LEMMA FaultyIs ==
  ASSUME Careful, NEW fault \in Faulty
  PROVE  Faulting(fault)
BY DEF Careful, Faulty, Faulting

LEMMA WriteTableStep ==
  ASSUME Careful, HostGood, Good(Device, Settled), NEW d \in Parents, WriteTable(d)
  PROVE  HostGood' /\ Good(Device, Settled)'
<1>1. ~bg.active /\ dirty' = dirty \ {d} /\ tbl' = tbl /\ want' = want /\ gone' = gone /\ frail' = frail
  BY DEF WriteTable, Accepting
<1>2. PICK fault \in Faulty : BecomeDevice(Handled(d, fault))
  BY DEF WriteTable
<1>3. HostWaits /\ dirty' \subseteq dirty
  BY <1>1, Basics DEF HostWaits
<1> DEFINE w == Handled(d, fault)
           R == Settled \cup SlotsOf(d)
<1>4. Written(w, R)
  BY <1>1, <1>2, FaultyIs, TableHandled DEF Careful
<1>5. Settled' = R
  BY <1>1 DEF Settled, SlotsOf
<1> HIDE DEF w, R
<1>6. w \in DeviceRecord /\ Good(w, R)
  BY <1>4 DEF Written, Good
<1>7. Device' = w
  BY <1>2, <1>6, BecomesDevice DEF w
<1> QED
  BY <1>3, <1>5, <1>6, <1>7, GoodAfter, HostStaysGood

LEMMA BackgroundCopyStep ==
  ASSUME Careful, HostGood, Good(Device, Settled), BackgroundCopy
  PROVE  HostGood' /\ Good(Device, Settled)'
<1>1. dirty' = dirty /\ tbl' = tbl /\ want' = want /\ gone' = gone /\ frail' = frail
  BY DEF BackgroundCopy, host
<1>2. PICK fault \in Faulty : BecomeDevice(BgStep(Device, fault))
  BY DEF BackgroundCopy
<1>3. HostWaits /\ dirty' \subseteq dirty
  BY <1>1 DEF HostWaits
<1> DEFINE w == BgStep(Device, fault)
           R == Settled
<1>4. Turns(Device, w, R)
  BY <1>2, FaultyIs, CopyTurns DEF Good
<1>5. Settled' = R
  BY <1>1 DEF Settled
<1> HIDE DEF w, R
<1>6. w \in DeviceRecord /\ Good(w, R)
  BY <1>4 DEF Turns
<1>7. Device' = w
  BY <1>2, <1>6, BecomesDevice DEF w
<1> QED
  BY <1>3, <1>5, <1>6, <1>7, GoodAfter, HostStaysGood

\* Nothing but the phase changes.
LEMMA GoodStays ==
  ASSUME HostGood, Good(Device, Settled), UNCHANGED <<device, host, frail>>
  PROVE  HostGood' /\ Good(Device, Settled)'
<1>1. dirty' = dirty /\ tbl' = tbl /\ want' = want /\ gone' = gone /\ frail' = frail
  BY DEF host
<1>2. HostWaits /\ dirty' \subseteq dirty
  BY <1>1 DEF HostWaits
<1>3. Device' = Device
  BY DEF device, Device
<1> DEFINE w == Device
           R == Settled
<1>4. w \in DeviceRecord /\ Good(w, R)
  BY DEF Good
<1>5. Settled' = R /\ Device' = w
  BY <1>1, <1>3 DEF Settled
<1> HIDE DEF w, R
<1> QED
  BY <1>2, <1>4, <1>5, GoodAfter, HostStaysGood

LEMMA WriteFolderTableStep ==
  ASSUME HostGood, Good(Device, Settled), NEW f \in Folders, WriteFolderTable(f)
  PROVE  HostGood' /\ Good(Device, Settled)'
<1>1. /\ ~bg.active /\ f \in dirty /\ dirty' = dirty \ {f} /\ tbl' = tbl /\ want' = want /\ gone' = gone /\ frail' = frail
      /\ entry' = entry /\ dirs' = dirs /\ disk' = disk /\ bg' = bg
  BY DEF WriteFolderTable, Accepting
<1>2. /\ entry \in [Folders -> EntryRecord] /\ graves \in [Folders \X Files -> Places \cup {Nowhere}]
      /\ dirs \in SUBSET Places /\ disk \in [Places \X Files -> Texts \cup {Absent}] /\ bg \in CopyRecord
  BY DEF Good, DeviceRecord, Device
<1>3. \A g \in Folders, x \in Files :
        graves'[g, x] = IF g = f /\ graves[g, x] = Nowhere /\ ~entry[f].deleted /\ want[f][x] = Absent
                        THEN entry[f].place ELSE graves[g, x]
  <2>1. graves' = [k \in DOMAIN graves |->
                    IF k[1] = f /\ graves[k] = Nowhere /\ ~entry[f].deleted /\ want[f][k[2]] = Absent
                    THEN entry[f].place ELSE graves[k]]
    BY DEF WriteFolderTable
  <2> QED
    BY <1>2, <2>1
<1>4. graves' \in [Folders \X Files -> Places \cup {Nowhere}]
  <2>1. entry[f].place \in Places \cup {Nowhere}
    BY <1>2 DEF EntryRecord
  <2> QED
    BY <1>2, <2>1 DEF WriteFolderTable
<1>5. (\A g \in Folders : Dead(g)' <=> Dead(g)) /\ Settled' = Settled
  BY <1>1, Basics DEF Dead, Settled
<1>6. HostGood'
  BY <1>1 DEF HostGood, SlotRecord, Texts, LiveAt, Accounted, Dead
<1>7. /\ \A g \in Folders : EntryGood(Device, Settled, g)
      /\ \A p \in Places : DirGood(Device, p)
      /\ \A g \in Folders, x \in Files : FileGood(Device, g, x)
      /\ CopyGood(Device)
  BY DEF Good
<1>8. (Device \in DeviceRecord)'
  BY <1>1, <1>2, <1>4 DEF Device, DeviceRecord, EntryRecord, CopyRecord, Texts
<1>9. ASSUME NEW g \in Folders PROVE EntryGood(Device, Settled, g)'
  BY <1>1, <1>5, <1>7 DEF EntryGood, LiveAt, Device
<1>10. ASSUME NEW p \in Places PROVE DirGood(Device, p)'
  BY <1>1, <1>7 DEF DirGood, Device
<1>11. f \in gone \/ Dead(f)
  BY <1>1 DEF HostGood
<1>12. entry[f].deleted => Dead(f)
  <2> SUFFICES ASSUME entry[f].deleted, ~Dead(f) PROVE FALSE
    OBVIOUS
  <2>1. PICK p \in Places : LiveAt(f, p)
    BY <1>11 DEF HostGood, Accounted
  <2>2. entry[f].place = p /\ tbl[entry[f].place].mark = "erased"
    BY <1>7, <1>11, <2>1, Basics DEF EntryGood, Device
  <2> QED
    BY <2>1, <2>2 DEF LiveAt
<1>13. ASSUME NEW g \in Folders, NEW x \in Files PROVE FileGood(Device, g, x)'
  <2>1. FileGood(Device, g, x)
    BY <1>7
  <2>2. SourceOf(Device, g)' = entry[g].place /\ SourceOf(Device, g) = entry[g].place
    BY <1>1 DEF SourceOf, Device
  <2>3. graves'[g, x] # Nowhere => graves'[g, x] = entry[g].place /\ want[g][x] = Absent /\ (g \in gone \/ Dead(g))
    BY <1>3, <1>11, <2>1 DEF FileGood, Device
  <2>4. ~frail /\ want[g][x] = Absent /\ entry[g].place # Nowhere =>
          disk[entry[g].place, x] = Absent \/ g \in dirty' \/ graves'[g, x] = entry[g].place \/ Dead(g)
    <3>1. CASE g = f
      <4>1. graves[g, x] # Nowhere => graves[g, x] = entry[g].place
        BY <2>1 DEF FileGood, Device
      <4> QED
        BY <1>3, <1>12, <3>1, <4>1
    <3>2. CASE g # f
      BY <1>1, <1>3, <2>1, <2>2, <3>2 DEF FileGood, Device
    <3> QED
      BY <3>1, <3>2
  <2>5. ~frail /\ want[g][x] # Absent => disk[entry[g].place, x] = want[g][x]
    BY <2>1, <2>2 DEF FileGood, Device
  <2>6. frail /\ want[g][x] # Absent /\ Edited \notin ToSet(want[g][x]) =>
          \E p \in Places : tbl[p].folder = g /\ disk[p, x] = want[g][x]
    BY <2>1 DEF FileGood, Device
  <2>7. Dead(g)' <=> Dead(g)
    BY <1>5
  <2> QED
    BY <1>1, <2>2, <2>3, <2>4, <2>5, <2>6, <2>7 DEF FileGood, Device
<1>14. CopyGood(Device)' /\ SourceErased(Device)'
  BY <1>1, <1>7 DEF CopyGood, SourceErased, Device
<1> QED
  BY <1>6, <1>8, <1>9, <1>10, <1>13, <1>14 DEF Good

\* Once every table is written, the folders are where the tables show them.
LEMMA AllSettled ==
  ASSUME HostGood, Good(Device, Settled), dirty = {}, NEW f \in Folders, NEW p \in Places, tbl[p].folder = f
  PROVE  LiveAt(f, p) \/ Dead(f) \/ ~(entry[f].place = p)
<1>1. Settled = Places
  BY DEF Settled
<1>2. EntryGood(Device, Settled, f)
  BY DEF Good
<1> SUFFICES ASSUME ~Dead(f), entry[f].place = p PROVE LiveAt(f, p)
  OBVIOUS
<1>3. tbl[p].mark # "free"
  BY Basics DEF HostGood
<1>4. PICK q \in Places : LiveAt(f, q)
  BY <1>3 DEF HostGood, Accounted
<1>5. entry[f] = EntryAt(q)
  BY <1>1, <1>2, <1>4 DEF EntryGood, Device
<1> QED
  BY <1>4, <1>5 DEF EntryAt

LEMMA FlushStep ==
  ASSUME HostGood, Good(Device, Settled), frail \in BOOLEAN, Flush
  PROVE  (phase' = "down") /\ ~bg'.active /\ NothingLost' /\ EjectedAsHostSawIt'
<1> DEFINE removed == {entry[f].place : f \in {g \in Folders : entry[g].deleted}}
           buried(p, x) == p \in removed \/ \E f \in Folders : graves[f, x] = p
<1>1. /\ ~bg.active /\ phase' = "down" /\ dirty' = dirty /\ tbl' = tbl /\ want' = want /\ gone' = gone /\ frail' = frail
      /\ BecomeDevice(Flushed(Device))
  BY DEF Flush, host
<1>2. /\ entry \in [Folders -> EntryRecord] /\ graves \in [Folders \X Files -> Places \cup {Nowhere}]
      /\ dirs \in SUBSET Places /\ disk \in [Places \X Files -> Texts \cup {Absent}] /\ bg \in CopyRecord
  BY DEF Good, DeviceRecord, Device
<1>3. /\ bg' = bg /\ dirs' = dirs \ removed
      /\ disk' = [q \in DOMAIN disk |-> IF q[1] \in removed \/ \E f \in Folders : graves[f, q[2]] = q[1]
                                        THEN Absent ELSE disk[q]]
  BY <1>1 DEF Flushed, BecomeDevice, Device
<1>4. \A p \in Places, x \in Files : disk'[p, x] = IF buried(p, x) THEN Absent ELSE disk[p, x]
  <2> HIDE DEF removed
  <2> QED
    BY <1>2, <1>3
<1>5. /\ \A f \in Folders : EntryGood(Device, Settled, f)
      /\ \A p \in Places : DirGood(Device, p)
      /\ \A f \in Folders, x \in Files : FileGood(Device, f, x)
  BY DEF Good
<1>6. \A f \in Folders : SourceOf(Device, f) = entry[f].place
  BY <1>1 DEF SourceOf, Device
<1>7. ASSUME NEW p \in removed PROVE \E f \in Folders : entry[f].deleted /\ entry[f].place = p /\ (p # Nowhere => tbl[p].folder = f)
  BY <1>5 DEF EntryGood, Device
<1>8. ASSUME NEW f \in Folders, NEW x \in Files, graves[f, x] # Nowhere
      PROVE  graves[f, x] = entry[f].place /\ want[f][x] = Absent /\ tbl[entry[f].place].folder = f
  <2>1. FileGood(Device, f, x) /\ EntryGood(Device, Settled, f)
    BY <1>5
  <2>2. graves[f, x] = entry[f].place /\ want[f][x] = Absent
    BY <1>8, <2>1 DEF FileGood, Device
  <2> QED
    BY <1>8, <2>1, <2>2 DEF EntryGood, Device
<1> HIDE DEF removed
\* What is wanted of a folder is not removed.
<1>9. ASSUME dirty = {}, NEW f \in Folders, NEW x \in Files, want[f][x] # Absent,
             NEW p \in Places, tbl[p].folder = f
      PROVE  ~buried(p, x)
  <2>1. ~Dead(f)
    BY <1>9 DEF HostGood, Dead
  <2>2. p # Nowhere
    BY Basics
  <2>3. p \notin removed
    <3> SUFFICES ASSUME p \in removed PROVE FALSE
      OBVIOUS
    <3>1. entry[f].deleted /\ entry[f].place = p
      BY <1>7, <1>9, <2>2
    <3>2. tbl[p].mark = "erased"
      BY <1>5, <3>1 DEF EntryGood, Device
    <3>3. LiveAt(f, p)
      BY <1>9, <2>1, <3>1, AllSettled
    <3> QED
      BY <3>2, <3>3 DEF LiveAt
  <2>4. ASSUME NEW g \in Folders, graves[g, x] = p PROVE FALSE
    <3>1. graves[g, x] = entry[g].place /\ want[g][x] = Absent /\ tbl[entry[g].place].folder = g
      BY <1>8, <2>2, <2>4
    <3>2. g = f
      BY <1>9, <2>4, <3>1
    <3> QED
      BY <1>9, <3>1, <3>2
  <2> QED
    BY <2>3, <2>4
<1>10. NothingLost'
  <2> SUFFICES ASSUME dirty = {}, NEW f \in Folders, NEW x \in Files, want[f][x] # Absent,
                      ~(frail /\ Edited \in ToSet(want[f][x]))
               PROVE  \E p \in Places : disk'[p, x] = want[f][x]
    BY <1>1 DEF NothingLost
  <2>1. FileGood(Device, f, x) /\ EntryGood(Device, Settled, f)
    BY <1>5
  <2>2. \E p \in Places : tbl[p].folder = f /\ disk[p, x] = want[f][x]
    <3>1. CASE ~frail
      <4>1. entry[f].place # Nowhere /\ disk[entry[f].place, x] = want[f][x]
        BY <1>6, <2>1, <3>1 DEF FileGood, EntryGood, Device
      <4>2. tbl[entry[f].place].folder = f /\ entry[f].place \in Places
        BY <1>2, <2>1, <4>1 DEF EntryGood, EntryRecord, Device
      <4> QED
        BY <4>1, <4>2
    <3>2. CASE frail
      BY <2>1, <3>2 DEF FileGood, Device
    <3> QED
      BY <3>1, <3>2
  <2>3. PICK p \in Places : tbl[p].folder = f /\ disk[p, x] = want[f][x]
    BY <2>2
  <2>4. ~buried(p, x)
    BY <1>9, <2>3
  <2> HIDE DEF buried
  <2> QED
    BY <1>4, <2>3, <2>4
<1>11. EjectedAsHostSawIt'
  <2> SUFFICES ASSUME dirty = {}, ~frail, NEW p \in Places
               PROVE  /\ p \in dirs' <=> tbl[p].mark = "live"
                      /\ \A x \in Files : disk'[p, x] = IF tbl[p].mark = "live" THEN want[tbl[p].folder][x] ELSE Absent
    BY <1>1 DEF EjectedAsHostSawIt
  <2> DEFINE f == tbl[p].folder
  <2>0. Settled = Places /\ p # Nowhere
    BY Basics DEF Settled
  <2>1. CASE tbl[p].mark = "live"
    <3>1. f \in Folders /\ LiveAt(f, p)
      BY <2>1 DEF HostGood, SlotRecord, LiveAt
    <3>2. EntryGood(Device, Settled, f) /\ \A x \in Files : FileGood(Device, f, x)
      BY <1>5, <3>1
    <3>3. entry[f] = EntryAt(p)
      BY <2>0, <3>1, <3>2 DEF EntryGood, Device
    <3>4. entry[f].place = p /\ ~entry[f].deleted /\ p \in dirs
      BY <2>0, <3>2, <3>3 DEF EntryGood, EntryAt, Device
    <3>5. p \notin removed
      BY <1>7, <2>0, <3>4
    <3>6. ~Dead(f)
      BY <3>1 DEF HostGood, Dead
    <3>7. ASSUME NEW x \in Files PROVE disk'[p, x] = want[f][x]
      <4>1. FileGood(Device, f, x)
        BY <3>2
      <4>2. CASE want[f][x] # Absent
        <5>1. disk[p, x] = want[f][x]
          BY <1>6, <3>1, <3>4, <4>1, <4>2 DEF FileGood, Device
        <5>2. ~buried(p, x)
          BY <1>9, <3>1, <4>2
        <5> HIDE DEF buried
        <5> QED
          BY <1>4, <5>1, <5>2
      <4>3. CASE want[f][x] = Absent
        <5>1. disk[p, x] = Absent \/ graves[f, x] = p
          BY <1>6, <2>0, <3>1, <3>4, <3>6, <4>1, <4>3 DEF FileGood, Device
        <5>2. disk[p, x] = Absent \/ buried(p, x)
          BY <3>1, <5>1
        <5> HIDE DEF buried
        <5> QED
          BY <1>4, <4>3, <5>2
      <4> QED
        BY <4>2, <4>3
    <3> QED
      BY <1>3, <2>1, <3>4, <3>5, <3>7
  <2>2. CASE tbl[p].mark # "live"
    <3>1. p \in dirs => p \in removed
      <4> SUFFICES ASSUME p \in dirs PROVE p \in removed
        OBVIOUS
      <4>1. PICK g \in Folders : entry[g].place = p
        BY <1>1, <1>5 DEF DirGood, Device
      <4>2. EntryGood(Device, Settled, g)
        BY <1>5
      <4>3. tbl[p].folder = g
        BY <2>0, <4>1, <4>2 DEF EntryGood, Device
      <4>4. Dead(g)
        BY <2>2, <4>1, <4>3, AllSettled DEF LiveAt
      <4>5. entry[g].deleted
        BY <2>0, <4>2, <4>4 DEF EntryGood, Dead, Device
      <4> QED
        BY <4>1, <4>5 DEF removed
    <3>2. p \notin dirs => \A x \in Files : disk[p, x] = Absent
      BY <1>5 DEF DirGood, Device
    <3>3. \A x \in Files : disk'[p, x] = Absent
      BY <1>4, <3>1, <3>2
    <3> QED
      BY <1>3, <2>2, <3>1, <3>3
  <2> QED
    BY <2>1, <2>2
<1> QED
  BY <1>1, <1>3, <1>10, <1>11

-----------------------------------------------------------------------------
(* The steps of the host.                                                   *)

LEMMA PlacesOfIs ==
  ASSUME HostGood, NEW f \in Folders, NEW p \in Places
  PROVE  p \in PlacesOf(f) <=> LiveAt(f, p)
<1>1. tbl[p] \in SlotRecord
  BY DEF HostGood
<1>2. tbl[p] = Slot("live", f) <=> LiveAt(f, p)
  BY <1>1 DEF SlotRecord, Slot, LiveAt
<1> QED
  BY <1>2 DEF PlacesOf

LEMMA VacantIs ==
  ASSUME Careful, HostGood, NEW q \in Places, Vacant(q)
  PROVE  /\ tbl[q].mark # "live" /\ q \notin gone /\ ~(frail /\ tbl[q].mark = "erased")
         /\ tbl[q].mark = "erased" => Parent[q] \notin dirty
         /\ \A g \in Folders, p \in Places :
              tbl[q].mark = "erased" /\ tbl[q].folder = g /\ LiveAt(g, p) => Parent[p] \notin dirty
<1>1. /\ tbl[q].mark # "live" /\ q \notin gone /\ ~(frail /\ tbl[q].mark = "erased")
      /\ tbl[q].mark = "erased" => ~Unsettled(q)
  BY DEF Careful, Vacant
<1> QED
  BY <1>1, PlacesOfIs DEF Unsettled

\* No folder is at a place the host takes for vacant.
LEMMA NobodyThere ==
  ASSUME Careful, HostGood, Good(Device, Settled), NEW q \in Places, Vacant(q), NEW g \in Folders
  PROVE  entry[g].place # q
<1> SUFFICES ASSUME entry[g].place = q PROVE FALSE
  OBVIOUS
<1>1. EntryGood(Device, Settled, g)
  BY DEF Good
<1>2. tbl[q].folder = g
  BY <1>1, Basics DEF EntryGood, Device
<1>3. tbl[q].mark = "erased"
  BY <1>2, VacantIs, Basics DEF HostGood, SlotRecord
<1>4. CASE Dead(g)
  <2>1. PICK r \in gone \cap Places : tbl[r].folder = g
    BY <1>4 DEF Dead
  <2>2. entry[g].place = r
    BY <1>1, <2>1 DEF EntryGood, Device
  <2> QED
    BY <2>1, <2>2, VacantIs
<1>5. CASE ~Dead(g)
  <2>1. PICK p \in Places : LiveAt(g, p)
    BY <1>2, <1>3, <1>5 DEF HostGood, Accounted
  <2>2. p \in Settled
    BY <1>2, <1>3, <2>1, VacantIs DEF Settled
  <2>3. entry[g] = EntryAt(p)
    BY <1>1, <2>1, <2>2 DEF EntryGood, Device
  <2>4. p = q
    BY <2>3 DEF EntryAt
  <2> QED
    BY <1>3, <2>1, <2>4 DEF LiveAt
<1> QED
  BY <1>4, <1>5

\* The host gives place q to folder f, which leaves the place it had, if any.
Granted(f, q) ==
  /\ tbl' \in [Places -> SlotRecord] /\ tbl'[q] = Slot("live", f)
  /\ \A p \in Places : p # q => \/ ~LiveAt(f, p) /\ tbl'[p] = tbl[p]
                                \/ LiveAt(f, p) /\ tbl'[p] = Slot("erased", f) /\ Parent[p] \in dirty'
  /\ dirty \subseteq dirty' /\ dirty' \subseteq dirty \cup Parents /\ Parent[q] \in dirty'
  /\ UNCHANGED <<device, want, gone, frail>>

\* The invariant of the host's tables, of the next state.
LiveNext(g, p) == tbl'[p].mark = "live" /\ tbl'[p].folder = g
DeadNext(g) == \E r \in gone' \cap Places : tbl'[r].folder = g
AccountedNext(g) == DeadNext(g) \/ \E p \in Places : LiveNext(g, p)

LEMMA HostGoodNext ==
  ASSUME tbl' \in [Places -> SlotRecord],
         \A p \in Places : tbl'[p].mark = "free" <=> tbl'[p].folder = Nowhere,
         \A g \in Folders, p, o \in Places : LiveNext(g, p) /\ LiveNext(g, o) => p = o,
         want' \in [Folders -> [Files -> Texts \cup {Absent}]],
         dirty' \subseteq Parents \cup Folders, gone' \subseteq Places \cup Folders,
         \A r \in gone' \cap Places :
           /\ tbl'[r].mark = "erased" /\ \A p \in Places : ~LiveNext(tbl'[r].folder, p)
           /\ \A x \in Files : want'[tbl'[r].folder][x] = Absent,
         \A g \in Folders, p \in Places : tbl'[p].folder = g => AccountedNext(g),
         \A g \in gone' \cap Folders : AccountedNext(g),
         \A g \in dirty' \cap Folders : g \in gone' \/ DeadNext(g)
  PROVE  HostGood'
<1>1. \A p \in Places : tbl'[p].mark # "free" => AccountedNext(tbl'[p].folder)
  BY DEF SlotRecord
<1>2. (tbl \in [Places -> SlotRecord])'
  BY DEF SlotRecord
<1>3. (want \in [Folders -> [Files -> Texts \cup {Absent}]])'
  BY DEF Texts
<1> QED
  BY <1>1, <1>2, <1>3 DEF HostGood, LiveAt, Dead, Accounted, LiveNext, DeadNext, AccountedNext

LEMMA SlotGranted ==
  ASSUME Careful, HostGood, Good(Device, Settled), NEW f \in Folders, NEW q \in Places, Vacant(q),
         f \notin gone, ~Dead(f), Granted(f, q)
  PROVE  HostGood' /\ Good(Device, Settled)'
<1>1. want' = want /\ gone' = gone /\ frail' = frail /\ Device' = Device
  BY DEF Granted, device, Device
<1>2. /\ tbl[q].mark # "live" /\ q \notin gone /\ ~(frail /\ tbl[q].mark = "erased")
      /\ tbl' \in [Places -> SlotRecord] /\ tbl \in [Places -> SlotRecord]
  BY VacantIs DEF Granted, HostGood
<1>3. tbl'[q].mark = "live" /\ tbl'[q].folder = f
  BY DEF Granted, Slot
<1>4. \A p \in Places : p # q => /\ tbl'[p].folder = tbl[p].folder
                                 /\ tbl'[p].mark = IF LiveAt(f, p) THEN "erased" ELSE tbl[p].mark
  BY DEF Granted, Slot, LiveAt
<1>5. \A p \in Places, g \in Folders : LiveNext(g, p) <=> (IF p = q THEN g = f ELSE g # f /\ LiveAt(g, p))
  <2> TAKE p \in Places, g \in Folders
  <2>1. CASE p = q
    BY <1>3, <2>1 DEF LiveNext
  <2>2. CASE p # q
    BY <1>4, <2>2 DEF LiveAt, LiveNext
  <2> QED
    BY <2>1, <2>2
<1>6. \A p \in Places : p \in Settled' => p \in Settled /\ p # q /\ ~LiveAt(f, p)
  BY DEF Granted, Settled
<1>7. \A r \in gone \cap Places : r # q /\ ~LiveAt(f, r) /\ tbl'[r].mark = tbl[r].mark /\ tbl'[r].folder = tbl[r].folder
  <2> TAKE r \in gone \cap Places
  <2>1. r # q /\ tbl[r].mark = "erased"
    BY <1>2 DEF HostGood
  <2> QED
    BY <1>4, <2>1 DEF LiveAt
<1>8. \A g \in Folders : DeadNext(g) <=> Dead(g)
  BY <1>1, <1>7 DEF Dead, DeadNext
<1>9. \A g \in Folders : Accounted(g) => AccountedNext(g)
  <2> TAKE g \in Folders
  <2>1. CASE g = f
    BY <1>5, <2>1 DEF AccountedNext
  <2>2. CASE g # f
    <3>1. \A p \in Places : LiveAt(g, p) => LiveNext(g, p)
      BY <1>2, <1>5, <2>2 DEF LiveAt
    <3> QED
      BY <1>8, <3>1 DEF Accounted, AccountedNext
  <2> QED
    BY <2>1, <2>2
<1>10. \A g \in Folders : g \in dirty' <=> g \in dirty
  BY Basics DEF Granted
<1>11. \A p \in Places : tbl[p].folder \in Folders \cup {Nowhere} /\ (tbl[p].mark = "free" <=> tbl[p].folder = Nowhere)
  BY DEF HostGood, SlotRecord
<1>12. HostGood'
  <2>1. \A p \in Places : tbl'[p].mark = "free" <=> tbl'[p].folder = Nowhere
    <3> TAKE p \in Places
    <3>1. CASE p = q
      BY <1>3, <3>1, Basics
    <3>2. CASE p # q
      BY <1>4, <1>11, <3>2, Basics DEF LiveAt
    <3> QED
      BY <3>1, <3>2
  <2>2. \A g \in Folders, p, o \in Places : LiveNext(g, p) /\ LiveNext(g, o) => p = o
    BY <1>5 DEF HostGood
  <2>3. /\ want' \in [Folders -> [Files -> Texts \cup {Absent}]]
        /\ dirty' \subseteq Parents \cup Folders /\ gone' \subseteq Places \cup Folders
    BY <1>1 DEF HostGood, Granted
  <2>4. ASSUME NEW r \in gone' \cap Places
        PROVE  /\ tbl'[r].mark = "erased" /\ \A p \in Places : ~LiveNext(tbl'[r].folder, p)
               /\ \A x \in Files : want'[tbl'[r].folder][x] = Absent
    <3>0. r \in gone \cap Places
      BY <1>1
    <3>1. /\ tbl[r].mark = "erased" /\ \A p \in Places : ~LiveAt(tbl[r].folder, p)
          /\ \A x \in Files : want[tbl[r].folder][x] = Absent
      BY <3>0 DEF HostGood
    <3>2. tbl[r].folder \in Folders /\ tbl[r].folder # f
      BY <1>11, <3>0, <3>1 DEF Dead
    <3>3. tbl'[r].mark = "erased" /\ tbl'[r].folder = tbl[r].folder
      BY <1>7, <3>0, <3>1
    <3>4. \A p \in Places : ~LiveNext(tbl[r].folder, p)
      BY <1>5, <3>1, <3>2
    <3> QED
      BY <1>1, <3>1, <3>3, <3>4
  <2>5. ASSUME NEW g \in Folders, NEW p \in Places, tbl'[p].folder = g PROVE AccountedNext(g)
    <3>1. CASE p = q
      BY <1>3, <1>5, <2>5, <3>1 DEF AccountedNext
    <3>2. CASE p # q
      <4>1. tbl[p].folder = g /\ tbl[p].mark # "free"
        BY <1>4, <1>11, <2>5, <3>2, Basics
      <4>2. Accounted(g)
        BY <4>1 DEF HostGood
      <4> QED
        BY <1>9, <4>2
    <3> QED
      BY <3>1, <3>2
  <2>6. \A g \in gone' \cap Folders : AccountedNext(g)
    BY <1>1, <1>9 DEF HostGood
  <2>7. \A g \in dirty' \cap Folders : g \in gone' \/ DeadNext(g)
    BY <1>1, <1>8, <1>10 DEF HostGood
  <2> QED
    BY <1>2, <2>1, <2>2, <2>3, <2>4, <2>5, <2>6, <2>7, HostGoodNext
<1>13. /\ Device \in DeviceRecord
       /\ \A g \in Folders : EntryGood(Device, Settled, g)
       /\ \A p \in Places : DirGood(Device, p)
       /\ \A g \in Folders, x \in Files : FileGood(Device, g, x)
       /\ CopyGood(Device) /\ (frail => SourceErased(Device))
  BY DEF Good
<1>14. \A g \in Folders : Device.entry[g].place # q
  BY NobodyThere DEF Device
<1> DEFINE v == Device
<1>15. v \in DeviceRecord /\ Device' = v
  BY <1>1, <1>13
<1> HIDE DEF v
<1>16. (Device \in DeviceRecord)'
  BY <1>15 DEF DeviceRecord, EntryRecord, CopyRecord, Texts
<1>17. ASSUME NEW g \in Folders PROVE EntryGood(Device, Settled, g)'
  <2>1. EntryGood(v, Settled, g)
    BY <1>13 DEF v
  <2> DEFINE k == v.entry[g].place
  <2>2. k # q /\ k \in Places \cup {Nowhere}
    BY <1>14, <1>15, EntryIs DEF v
  <2>3. k # Nowhere => tbl'[k].folder = g /\ k \in v.dirs
    BY <1>4, <2>1, <2>2 DEF EntryGood
  <2>4. v.entry[g].deleted => tbl'[k].mark = "erased"
    <3> SUFFICES ASSUME v.entry[g].deleted PROVE tbl'[k].mark = "erased"
      OBVIOUS
    <3>1. k \in Places /\ tbl[k].mark = "erased"
      BY <2>1, <2>2 DEF EntryGood
    <3> HIDE DEF k
    <3> QED
      BY <1>4, <2>2, <3>1
  <2>5. \A p \in Places : LiveNext(g, p) /\ p \in Settled' => v.entry[g] = EntryAt(p)
    BY <1>5, <1>6, <2>1 DEF EntryGood
  <2>6. \A p \in Places : LiveNext(g, p) /\ g \in gone => k = p
    BY <1>5, <2>1 DEF EntryGood
  <2>7. \A r \in gone \cap Places :
          tbl'[r].folder = g => k = r /\ (r \in Settled' => v.entry[g].deleted)
    BY <1>6, <1>7, <2>1 DEF EntryGood
  <2>8. (k = Nowhere => ~v.entry[g].deleted) /\ \A x \in Files : want[g][x] # Absent => k # Nowhere
    BY <2>1 DEF EntryGood
  <2> QED
    BY <1>1, <1>15, <2>3, <2>4, <2>5, <2>6, <2>7, <2>8 DEF EntryGood, LiveAt, LiveNext
<1>18. ASSUME NEW p \in Places PROVE DirGood(Device, p)'
  <2>1. DirGood(v, p)
    BY <1>13 DEF v
  <2>2. frail /\ tbl[p].mark = "erased" => tbl'[p].mark = "erased"
    BY <1>2, <1>4 DEF LiveAt
  <2> QED
    BY <1>1, <1>15, <2>1, <2>2 DEF DirGood
<1>19. ASSUME NEW g \in Folders, NEW x \in Files PROVE FileGood(Device, g, x)'
  <2>1. FileGood(v, g, x)
    BY <1>13 DEF v
  <2>2. Dead(g)' <=> Dead(g)
    BY <1>8 DEF Dead, DeadNext
  <2>3. SourceOf(Device, g)' = SourceOf(v, g)
    BY <1>15 DEF SourceOf
  <2>4. frail /\ want[g][x] # Absent /\ Edited \notin ToSet(want[g][x]) =>
          \E p \in Places : /\ tbl'[p].folder = g /\ v.disk[p, x] = want[g][x]
                            /\ ~(v.bg.active /\ p = v.bg.new /\ x \in ToSet(v.bg.todo))
    <3> SUFFICES ASSUME frail, want[g][x] # Absent, Edited \notin ToSet(want[g][x])
                 PROVE  \E p \in Places : /\ tbl'[p].folder = g /\ v.disk[p, x] = want[g][x]
                                          /\ ~(v.bg.active /\ p = v.bg.new /\ x \in ToSet(v.bg.todo))
      OBVIOUS
    <3>1. PICK p \in Places : /\ tbl[p].folder = g /\ v.disk[p, x] = want[g][x]
                              /\ ~(v.bg.active /\ p = v.bg.new /\ x \in ToSet(v.bg.todo))
      BY <2>1 DEF FileGood
    <3>2. tbl[p].mark # "free" /\ tbl[p].mark \in {"free", "live", "erased"}
      BY <1>2, <1>11, <3>1, Basics DEF SlotRecord
    <3>3. p # q
      BY <1>2, <3>2
    <3> QED
      BY <1>4, <3>1, <3>3
  <2> QED
    BY <1>1, <1>10, <1>15, <2>1, <2>2, <2>3, <2>4 DEF FileGood
<1>20. CopyGood(Device)'
  BY <1>1, <1>13, <1>15 DEF CopyGood, FromTo, Queued, Opened, Copied, v
<1>21. (frail => SourceErased(Device))'
  <2> SUFFICES ASSUME frail, v.bg.active
               PROVE  tbl'[v.bg.old].mark = "erased" /\ tbl'[v.bg.old].folder = tbl'[v.bg.new].folder
    BY <1>1, <1>15 DEF SourceErased
  <2>1. SourceErased(v) /\ CopyGood(v)
    BY <1>13 DEF v
  <2>2. v.bg.old \in Places /\ v.bg.new \in Places
    BY <1>15, <2>1, CopyIs
  <2>3. tbl[v.bg.old].mark = "erased" /\ tbl[v.bg.old].folder = tbl[v.bg.new].folder
    BY <2>1 DEF SourceErased
  <2>4. v.bg.new # q
    BY <1>14, <2>1 DEF CopyGood, FromTo, v
  <2>5. v.bg.old # q
    BY <1>2, <2>3
  <2> QED
    BY <1>4, <2>2, <2>3, <2>4, <2>5 DEF LiveAt
<1>22. Good(Device, Settled)'
  BY <1>16, <1>17, <1>18, <1>19, <1>20, <1>21 DEF Good
<1> QED
  BY <1>12, <1>22

LEMMA SlotIs ==
  /\ \A f \in Folders : Slot("live", f) \in SlotRecord /\ Slot("erased", f) \in SlotRecord
  /\ \A m, f : Slot(m, f).mark = m /\ Slot(m, f).folder = f
BY DEF Slot, SlotRecord

LEMMA HostMoveStep ==
  ASSUME Careful, HostGood, Good(Device, Settled), NEW f \in Folders, NEW p \in Places, NEW q \in Places,
         HostMove(f, p, q)
  PROVE  HostGood' /\ Good(Device, Settled)'
<1>1. /\ p \in PlacesOf(f) /\ Vacant(q) /\ (f \in gone => "prune" \in HostOps)
      /\ tbl' = [tbl EXCEPT ![p] = Slot("erased", f), ![q] = Slot("live", f)]
      /\ dirty' = dirty \cup {Parent[p], Parent[q]}
      /\ UNCHANGED <<device, phase, want, gone, frail>>
  BY DEF HostMove
<1>2. LiveAt(f, p) /\ tbl \in [Places -> SlotRecord]
  BY <1>1, PlacesOfIs DEF HostGood
<1>3. f \notin gone
  BY <1>1 DEF Careful
<1>4. ~Dead(f)
  BY <1>2 DEF Dead, HostGood
<1>5. p # q
  BY <1>1, <1>2, VacantIs DEF LiveAt
<1>6. tbl' \in [Places -> SlotRecord] /\ tbl'[p] = Slot("erased", f) /\ tbl'[q] = Slot("live", f)
      /\ \A o \in Places : o # p /\ o # q => tbl'[o] = tbl[o]
  BY <1>1, <1>2, <1>5, SlotIs
<1>7. \A o \in Places : LiveAt(f, o) => o = p
  BY <1>2 DEF HostGood
<1>8. dirty \subseteq dirty' /\ dirty' \subseteq dirty \cup Parents /\ Parent[q] \in dirty' /\ Parent[p] \in dirty'
  BY <1>1, Basics
<1>9. Granted(f, q)
  BY <1>1, <1>2, <1>6, <1>7, <1>8 DEF Granted
<1> QED
  BY <1>1, <1>3, <1>4, <1>9, SlotGranted

LEMMA HostCreateStep ==
  ASSUME Careful, HostGood, Good(Device, Settled), NEW f \in Folders, NEW q \in Places, HostCreate(f, q)
  PROVE  HostGood' /\ Good(Device, Settled)'
<1>1. /\ \A p \in Places : tbl[p].folder # f
      /\ Vacant(q)
      /\ tbl' = [tbl EXCEPT ![q] = Slot("live", f)]
      /\ dirty' = dirty \cup {Parent[q]}
      /\ UNCHANGED <<device, phase, want, gone, frail>>
  BY DEF HostCreate
<1>2. tbl \in [Places -> SlotRecord]
  BY DEF HostGood
<1>3. ~Dead(f) /\ \A p \in Places : ~LiveAt(f, p)
  BY <1>1 DEF Dead, LiveAt
<1>4. f \notin gone
  BY <1>3 DEF HostGood, Accounted
<1>5. tbl' \in [Places -> SlotRecord] /\ tbl'[q] = Slot("live", f)
      /\ \A o \in Places : o # q => tbl'[o] = tbl[o]
  BY <1>1, <1>2, SlotIs
<1>6. dirty \subseteq dirty' /\ dirty' \subseteq dirty \cup Parents /\ Parent[q] \in dirty'
  BY <1>1, Basics
<1>7. Granted(f, q)
  BY <1>1, <1>3, <1>5, <1>6 DEF Granted
<1> QED
  BY <1>1, <1>3, <1>4, <1>7, SlotGranted

LEMMA HostDeleteStep ==
  ASSUME Careful, HostGood, Good(Device, Settled), NEW f \in Folders, NEW p \in Places, HostDelete(f, p)
  PROVE  HostGood' /\ Good(Device, Settled)'
<1> DEFINE v == Device
<1>1. /\ p \in PlacesOf(f) /\ Parent[p] \notin dirty
      /\ tbl' = [tbl EXCEPT ![p] = Slot("erased", f)]
      /\ want' = [want EXCEPT ![f] = [x \in Files |-> Absent]]
      /\ dirty' = dirty \cup {Parent[p], f}
      /\ gone' = gone \cup {p} /\ frail' = frail /\ Device' = v
  BY DEF HostDelete, Careful, device, Device
<1>2. /\ LiveAt(f, p) /\ tbl \in [Places -> SlotRecord] /\ want \in [Folders -> [Files -> Texts \cup {Absent}]]
      /\ tbl[p].mark = "live" /\ tbl[p].folder = f /\ p \in Settled
  BY <1>1, PlacesOfIs DEF HostGood, LiveAt, Settled
<1>3. /\ tbl' \in [Places -> SlotRecord] /\ tbl'[p].mark = "erased" /\ tbl'[p].folder = f
      /\ \A o \in Places : o # p => tbl'[o] = tbl[o]
  <2>1. tbl'[p] = Slot("erased", f) /\ tbl' \in [Places -> SlotRecord] /\ \A o \in Places : o # p => tbl'[o] = tbl[o]
    BY <1>1, <1>2, SlotIs
  <2> QED
    BY <2>1, SlotIs
<1>4. \A o \in Places : tbl'[o].folder = tbl[o].folder /\ (tbl[o].mark = "erased" => tbl'[o].mark = "erased")
  BY <1>2, <1>3
<1>5. \A g \in Folders, o \in Places : LiveNext(g, o) <=> g # f /\ LiveAt(g, o)
  <2> TAKE g \in Folders, o \in Places
  <2>1. CASE o = p
    BY <1>2, <1>3, <2>1 DEF LiveAt, LiveNext
  <2>2. CASE o # p
    <3>1. LiveAt(f, o) => o = p
      BY <1>2 DEF HostGood
    <3> QED
      BY <1>3, <2>2, <3>1 DEF LiveAt, LiveNext
  <2> QED
    BY <2>1, <2>2
<1>6. \A g \in Folders : (DeadNext(g) <=> g = f \/ Dead(g))
  BY <1>1, <1>2, <1>4 DEF Dead, DeadNext
<1>7. \A g \in Folders : Accounted(g) => AccountedNext(g)
  BY <1>5, <1>6 DEF Accounted, AccountedNext
<1>8. /\ \A g \in Folders, x \in Files : want'[g][x] = IF g = f THEN Absent ELSE want[g][x]
      /\ want' \in [Folders -> [Files -> Texts \cup {Absent}]]
  BY <1>1, <1>2
<1>9. \A o \in Places : o \in Settled' => o \in Settled /\ o # p
  BY <1>1 DEF Settled
<1>10. ~Dead(f)
  BY <1>2 DEF Dead, HostGood
<1>11. HostGood'
  <2>1. \A o \in Places : tbl'[o].mark = "free" <=> tbl'[o].folder = Nowhere
    BY <1>2, <1>3, Basics DEF HostGood
  <2>2. \A g \in Folders, o, r \in Places : LiveNext(g, o) /\ LiveNext(g, r) => o = r
    BY <1>5 DEF HostGood
  <2>3. dirty' \subseteq Parents \cup Folders /\ gone' \subseteq Places \cup Folders
    BY <1>1, Basics DEF HostGood
  <2>4. ASSUME NEW r \in gone' \cap Places
        PROVE  /\ tbl'[r].mark = "erased" /\ \A o \in Places : ~LiveNext(tbl'[r].folder, o)
               /\ \A x \in Files : want'[tbl'[r].folder][x] = Absent
    <3>1. CASE r = p
      BY <1>3, <1>5, <1>8, <3>1
    <3>2. CASE r # p
      <4>1. /\ r \in gone \cap Places /\ tbl[r].mark = "erased"
            /\ \A o \in Places : ~LiveAt(tbl[r].folder, o)
            /\ \A x \in Files : want[tbl[r].folder][x] = Absent
        BY <1>1, <3>2 DEF HostGood
      <4>2. tbl'[r] = tbl[r]
        BY <1>3, <3>2
      <4>3. tbl[r].folder \in Folders
        BY <4>1 DEF HostGood, SlotRecord
      <4> QED
        BY <1>5, <1>8, <4>1, <4>2, <4>3
    <3> QED
      BY <3>1, <3>2
  <2>5. ASSUME NEW g \in Folders, NEW o \in Places, tbl'[o].folder = g PROVE AccountedNext(g)
    <3>1. tbl[o].folder = g /\ tbl[o].mark # "free"
      BY <1>4, <2>5, Basics DEF HostGood
    <3>2. Accounted(g)
      BY <3>1 DEF HostGood
    <3> QED
      BY <1>7, <3>2
  <2>6. \A g \in gone' \cap Folders : AccountedNext(g)
    BY <1>1, <1>7, Basics DEF HostGood
  <2>7. \A g \in dirty' \cap Folders : g \in gone' \/ DeadNext(g)
    <3> TAKE g \in dirty' \cap Folders
    <3>1. g = f \/ g \in dirty
      BY <1>1, Basics
    <3> QED
      BY <1>1, <1>6, <3>1 DEF HostGood
  <2> QED
    BY <1>3, <1>8, <2>1, <2>2, <2>3, <2>4, <2>5, <2>6, <2>7, HostGoodNext
<1>12. /\ v \in DeviceRecord
       /\ \A g \in Folders : EntryGood(v, Settled, g)
       /\ \A o \in Places : DirGood(v, o)
       /\ \A g \in Folders, x \in Files : FileGood(v, g, x)
       /\ CopyGood(v) /\ (frail => SourceErased(v))
  BY DEF Good
<1>13. v.entry[f].place = p /\ ~v.entry[f].deleted
  <2> HIDE DEF v
  <2>1. EntryGood(v, Settled, f)
    BY <1>12
  <2>2. v.entry[f] = EntryAt(p)
    BY <1>2, <2>1 DEF EntryGood
  <2> QED
    BY <2>2 DEF EntryAt
<1> HIDE DEF v
<1>14. (Device \in DeviceRecord)'
  BY <1>1, <1>12 DEF DeviceRecord, EntryRecord, CopyRecord, Texts
<1>15. ASSUME NEW g \in Folders PROVE EntryGood(Device, Settled, g)'
  <2>1. EntryGood(v, Settled, g)
    BY <1>12
  <2> DEFINE k == v.entry[g].place
  <2>2. k \in Places \cup {Nowhere}
    BY <1>12, EntryIs
  <2>3. k # Nowhere => tbl'[k].folder = g /\ k \in v.dirs
    BY <1>4, <2>1, <2>2 DEF EntryGood
  <2>4. v.entry[g].deleted => tbl'[k].mark = "erased"
    BY <1>4, <2>1, <2>2 DEF EntryGood
  <2>5. \A o \in Places : LiveNext(g, o) /\ o \in Settled' => v.entry[g] = EntryAt(o)
    BY <1>5, <1>9, <2>1 DEF EntryGood
  <2>6. \A o \in Places : LiveNext(g, o) /\ g \in gone' => k = o
    BY <1>1, <1>5, <2>1, Basics DEF EntryGood
  <2>7. \A r \in gone' \cap Places :
          tbl'[r].folder = g => k = r /\ (r \in Settled' => v.entry[g].deleted)
    <3> SUFFICES ASSUME NEW r \in gone' \cap Places, tbl'[r].folder = g
                 PROVE  k = r /\ (r \in Settled' => v.entry[g].deleted)
      OBVIOUS
    <3>1. CASE r = p
      BY <1>3, <1>9, <1>13, <3>1
    <3>2. CASE r # p
      <4>1. r \in gone \cap Places /\ tbl[r].folder = g
        BY <1>1, <1>4, <3>2
      <4> QED
        BY <1>9, <2>1, <4>1 DEF EntryGood
    <3> QED
      BY <3>1, <3>2
  <2>8. (k = Nowhere => ~v.entry[g].deleted) /\ \A x \in Files : want'[g][x] # Absent => k # Nowhere
    BY <1>8, <2>1 DEF EntryGood
  <2> QED
    BY <1>1, <2>3, <2>4, <2>5, <2>6, <2>7, <2>8 DEF EntryGood, LiveAt, LiveNext
<1>16. ASSUME NEW o \in Places PROVE DirGood(Device, o)'
  <2>1. DirGood(v, o)
    BY <1>12
  <2> QED
    BY <1>1, <1>4, <2>1 DEF DirGood
<1>17. ASSUME NEW g \in Folders, NEW x \in Files PROVE FileGood(Device, g, x)'
  <2>1. FileGood(v, g, x)
    BY <1>12
  <2>2. Dead(g)' <=> g = f \/ Dead(g)
    BY <1>6 DEF Dead, DeadNext
  <2>3. SourceOf(Device, g)' = SourceOf(v, g)
    BY <1>1 DEF SourceOf
  <2>4. want'[g][x] = IF g = f THEN Absent ELSE want[g][x]
    BY <1>8
  <2>5. (g \in gone => g \in gone') /\ (g \in dirty => g \in dirty')
    BY <1>1
  <2>6. v.graves[g, x] # Nowhere =>
          v.graves[g, x] = v.entry[g].place /\ want'[g][x] = Absent /\ (g \in gone' \/ g = f \/ Dead(g))
    BY <2>1, <2>4, <2>5 DEF FileGood
  <2>7. ~frail /\ want'[g][x] # Absent => v.disk[SourceOf(v, g), x] = want'[g][x]
    BY <2>1, <2>4 DEF FileGood
  <2>8. ~frail /\ want'[g][x] = Absent /\ v.entry[g].place # Nowhere =>
          v.disk[SourceOf(v, g), x] = Absent \/ g \in dirty' \/ v.graves[g, x] = v.entry[g].place \/ g = f \/ Dead(g)
    BY <2>1, <2>4, <2>5 DEF FileGood
  <2>9. frail /\ want'[g][x] # Absent /\ Edited \notin ToSet(want'[g][x]) =>
          \E o \in Places : /\ tbl'[o].folder = g /\ v.disk[o, x] = want'[g][x]
                            /\ ~(v.bg.active /\ o = v.bg.new /\ x \in ToSet(v.bg.todo))
    BY <1>4, <2>1, <2>4 DEF FileGood
  <2> QED
    BY <1>1, <2>2, <2>3, <2>6, <2>7, <2>8, <2>9 DEF FileGood
<1>18. CopyGood(Device)'
  BY <1>1, <1>12 DEF CopyGood, FromTo, Queued, Opened, Copied
<1>19. (frail => SourceErased(Device))'
  <2> SUFFICES ASSUME frail, v.bg.active
               PROVE  tbl'[v.bg.old].mark = "erased" /\ tbl'[v.bg.old].folder = tbl'[v.bg.new].folder
    BY <1>1 DEF SourceErased
  <2>1. v.bg.old \in Places /\ v.bg.new \in Places
    BY <1>12, CopyIs
  <2>2. tbl[v.bg.old].mark = "erased" /\ tbl[v.bg.old].folder = tbl[v.bg.new].folder
    BY <1>12 DEF SourceErased
  <2> QED
    BY <1>4, <2>1, <2>2
<1>20. Good(Device, Settled)'
  BY <1>14, <1>15, <1>16, <1>17, <1>18, <1>19 DEF Good
<1> QED
  BY <1>11, <1>20

LEMMA HostUnlinkStep ==
  ASSUME Careful, HostGood, Good(Device, Settled), NEW f \in Folders, NEW x \in Files, HostUnlink(f, x)
  PROVE  HostGood' /\ Good(Device, Settled)'
<1> DEFINE v == Device
<1>1. /\ want[f][x] # Absent /\ \A p \in PlacesOf(f) : Parent[p] \notin dirty
      /\ want' = [want EXCEPT ![f][x] = Absent]
      /\ dirty' = dirty \cup {f} /\ gone' = gone \cup {f}
      /\ tbl' = tbl /\ frail' = frail /\ Device' = v
  BY DEF HostUnlink, Careful, device, Device
<1>2. tbl \in [Places -> SlotRecord] /\ want \in [Folders -> [Files -> Texts \cup {Absent}]]
  BY DEF HostGood
<1>3. /\ \A g \in Folders, y \in Files : want'[g][y] = IF g = f /\ y = x THEN Absent ELSE want[g][y]
      /\ want' \in [Folders -> [Files -> Texts \cup {Absent}]]
  BY <1>1, <1>2
<1>4. \A p \in Places : LiveAt(f, p) => p \in Settled
  BY <1>1, PlacesOfIs DEF Settled
<1>5. /\ \A g \in Folders, p \in Places : LiveNext(g, p) <=> LiveAt(g, p)
      /\ \A g \in Folders : DeadNext(g) <=> Dead(g)
      /\ Settled' = Settled /\ \A p \in Places : p \in gone' <=> p \in gone
  BY <1>1, Basics DEF LiveNext, LiveAt, DeadNext, Dead, Settled
<1>6. /\ v \in DeviceRecord
      /\ \A g \in Folders : EntryGood(v, Settled, g)
      /\ \A o \in Places : DirGood(v, o)
      /\ \A g \in Folders, y \in Files : FileGood(v, g, y)
      /\ CopyGood(v) /\ (frail => SourceErased(v))
  BY DEF Good
<1> HIDE DEF v
<1>7. Accounted(f)
  <2> DEFINE k == v.entry[f].place
  <2>1. EntryGood(v, Settled, f)
    BY <1>6
  <2>5. k # Nowhere
    <3>1. \A y \in Files : want[f][y] # Absent => v.entry[f].place # Nowhere
      BY <2>1 DEF EntryGood
    <3> QED
      BY <1>1, <3>1
  <2>2. k # Nowhere /\ k \in Places
    <3>1. k \in Places \cup {Nowhere}
      BY <1>6, EntryIs
    <3> QED
      BY <2>5, <3>1
  <2>3. tbl[k].folder = f
    BY <2>1, <2>2 DEF EntryGood
  <2> HIDE DEF k
  <2>4. tbl[k].mark # "free"
    BY <2>2, <2>3, Basics DEF HostGood
  <2> QED
    BY <2>2, <2>3, <2>4 DEF HostGood
<1>8. \A g \in Folders : Accounted(g) => AccountedNext(g)
  BY <1>5 DEF Accounted, AccountedNext
<1>9. HostGood'
  <2>1. \A o \in Places : tbl'[o].mark = "free" <=> tbl'[o].folder = Nowhere
    BY <1>1 DEF HostGood
  <2>2. \A g \in Folders, o, r \in Places : LiveNext(g, o) /\ LiveNext(g, r) => o = r
    BY <1>5 DEF HostGood
  <2>3. dirty' \subseteq Parents \cup Folders /\ gone' \subseteq Places \cup Folders
    BY <1>1 DEF HostGood
  <2>4. ASSUME NEW r \in gone' \cap Places
        PROVE  /\ tbl'[r].mark = "erased" /\ \A o \in Places : ~LiveNext(tbl'[r].folder, o)
               /\ \A y \in Files : want'[tbl'[r].folder][y] = Absent
    <3>1. /\ r \in gone \cap Places /\ tbl[r].mark = "erased"
          /\ \A o \in Places : ~LiveAt(tbl[r].folder, o)
          /\ \A y \in Files : want[tbl[r].folder][y] = Absent
      BY <1>5 DEF HostGood
    <3>2. tbl[r].folder \in Folders
      BY <3>1 DEF HostGood, SlotRecord
    <3> QED
      BY <1>1, <1>3, <1>5, <3>1, <3>2
  <2>5. ASSUME NEW g \in Folders, NEW o \in Places, tbl'[o].folder = g PROVE AccountedNext(g)
    <3>1. tbl[o].folder = g /\ tbl[o].mark # "free"
      BY <1>1, <2>5, Basics DEF HostGood
    <3>2. Accounted(g)
      BY <3>1 DEF HostGood
    <3> QED
      BY <1>8, <3>2
  <2>6. \A g \in gone' \cap Folders : AccountedNext(g)
    BY <1>1, <1>7, <1>8 DEF HostGood
  <2>7. \A g \in dirty' \cap Folders : g \in gone' \/ DeadNext(g)
    BY <1>1, <1>5 DEF HostGood
  <2> QED
    BY <1>1, <1>2, <1>3, <2>1, <2>2, <2>3, <2>4, <2>5, <2>6, <2>7, HostGoodNext
<1>14. (Device \in DeviceRecord)'
  BY <1>1, <1>6 DEF DeviceRecord, EntryRecord, CopyRecord, Texts
<1>15. ASSUME NEW g \in Folders PROVE EntryGood(Device, Settled, g)'
  <2>1. EntryGood(v, Settled, g)
    BY <1>6
  <2>2. \A p \in Places : LiveAt(g, p) /\ g \in gone' => v.entry[g].place = p
    <3>1. CASE g = f
      <4> SUFFICES ASSUME NEW p \in Places, LiveAt(g, p) PROVE v.entry[g].place = p
        OBVIOUS
      <4>1. v.entry[g] = EntryAt(p)
        BY <1>4, <2>1, <3>1 DEF EntryGood
      <4> QED
        BY <4>1 DEF EntryAt
    <3>2. CASE g # f
      BY <1>1, <2>1, <3>2 DEF EntryGood
    <3> QED
      BY <3>1, <3>2
  <2>3. \A y \in Files : want'[g][y] # Absent => v.entry[g].place # Nowhere
    BY <1>3, <2>1 DEF EntryGood
  <2>4. \A r \in gone' \cap Places :
          tbl[r].folder = g => v.entry[g].place = r /\ (r \in Settled' => v.entry[g].deleted)
    BY <1>5, <2>1 DEF EntryGood
  <2>5. \A p \in Places : LiveAt(g, p) /\ p \in Settled' => v.entry[g] = EntryAt(p)
    BY <1>5, <2>1 DEF EntryGood
  <2>6. /\ v.entry[g].place = Nowhere => ~v.entry[g].deleted
        /\ v.entry[g].place # Nowhere => tbl[v.entry[g].place].folder = g /\ v.entry[g].place \in v.dirs
        /\ v.entry[g].deleted => tbl[v.entry[g].place].mark = "erased"
    BY <2>1 DEF EntryGood
  <2> QED
    BY <1>1, <2>2, <2>3, <2>4, <2>5, <2>6 DEF EntryGood, LiveAt
<1>16. ASSUME NEW o \in Places PROVE DirGood(Device, o)'
  <2>1. DirGood(v, o)
    BY <1>6
  <2> QED
    BY <1>1, <2>1 DEF DirGood
<1>17. ASSUME NEW g \in Folders, NEW y \in Files PROVE FileGood(Device, g, y)'
  <2>1. FileGood(v, g, y)
    BY <1>6
  <2>2. Dead(g)' <=> Dead(g)
    BY <1>5 DEF Dead, DeadNext
  <2>3. SourceOf(Device, g)' = SourceOf(v, g)
    BY <1>1 DEF SourceOf
  <2>4. want'[g][y] = IF g = f /\ y = x THEN Absent ELSE want[g][y]
    BY <1>3
  <2>5. (g \in gone => g \in gone') /\ (g \in dirty => g \in dirty') /\ (g = f => g \in dirty' /\ g \in gone')
    BY <1>1
  <2>6. v.graves[g, y] # Nowhere =>
          v.graves[g, y] = v.entry[g].place /\ want'[g][y] = Absent /\ (g \in gone' \/ Dead(g))
    BY <2>1, <2>4, <2>5 DEF FileGood
  <2>7. ~frail /\ want'[g][y] # Absent => v.disk[SourceOf(v, g), y] = want'[g][y]
    BY <2>1, <2>4 DEF FileGood
  <2>8. ~frail /\ want'[g][y] = Absent /\ v.entry[g].place # Nowhere =>
          v.disk[SourceOf(v, g), y] = Absent \/ g \in dirty' \/ v.graves[g, y] = v.entry[g].place \/ Dead(g)
    BY <2>1, <2>4, <2>5 DEF FileGood
  <2>9. frail /\ want'[g][y] # Absent /\ Edited \notin ToSet(want'[g][y]) =>
          \E o \in Places : /\ tbl[o].folder = g /\ v.disk[o, y] = want'[g][y]
                            /\ ~(v.bg.active /\ o = v.bg.new /\ y \in ToSet(v.bg.todo))
    BY <2>1, <2>4 DEF FileGood
  <2> QED
    BY <1>1, <2>2, <2>3, <2>6, <2>7, <2>8, <2>9 DEF FileGood
<1>18. CopyGood(Device)'
  BY <1>1, <1>6 DEF CopyGood, FromTo, Queued, Opened, Copied
<1>19. (frail => SourceErased(Device))'
  BY <1>1, <1>6 DEF SourceErased
<1>20. Good(Device, Settled)'
  BY <1>14, <1>15, <1>16, <1>17, <1>18, <1>19 DEF Good
<1> QED
  BY <1>9, <1>20

\* A text whose first chunk is overwritten.
LEMMA TextEdited ==
  ASSUME NEW s \in Texts, s # <<>>
  PROVE  LET t == [s EXCEPT ![1] = Edited] IN
         t \in Texts /\ t # <<>> /\ Edited \in ToSet(t)
<1> DEFINE t == [s EXCEPT ![1] = Edited]
           T == Folders \cup {Edited}
<1>1. s \in Seq(T) /\ Len(s) \in Nat /\ Len(s) <= Longest
  BY TextsAre
<1>2. Len(s) # 0
  BY <1>1, EmptySeq
<1>3. t \in Seq(T) /\ Len(t) = Len(s) /\ DOMAIN t = 1..Len(s)
  BY <1>1
<1>4. 1 \in 1..Len(s) /\ t[1] = Edited
  BY <1>1, <1>2
<1> HIDE DEF t
<1>5. t \in Texts
  BY <1>1, <1>3 DEF Texts
<1>6. t # <<>>
  <2>1. Len(<<>>) = 0
    OBVIOUS
  <2> QED
    BY <1>2, <1>3, <2>1
<1>7. Edited \in ToSet(t)
  BY <1>3, <1>4 DEF ToSet
<1> QED
  BY <1>5, <1>6, <1>7 DEF t

LEMMA HostEditStep ==
  ASSUME HostGood, Good(Device, Settled), NEW f \in Folders, NEW x \in Files, HostEdit(f, x)
  PROVE  HostGood' /\ Good(Device, Settled)'
<1> DEFINE v == Device
           k == v.entry[f].place
           s == want[f][x]
           t == [s EXCEPT ![1] = Edited]
           o == v.disk[k, x]
           d == IF o \in {Absent, <<>>} THEN v.disk ELSE [v.disk EXCEPT ![<<k, x>>][1] = Edited]
           w == [v EXCEPT !.disk = d]
<1>1. /\ s \notin {Absent, <<>>}
      /\ want' = [want EXCEPT ![f][x][1] = Edited]
      /\ disk' = d
      /\ dirty' = dirty /\ gone' = gone /\ tbl' = tbl /\ frail' = frail
      /\ entry' = entry /\ graves' = graves /\ dirs' = dirs /\ bg' = bg /\ ~v.bg.active
  BY DEF HostEdit, Accepting, Device
<1>2. tbl \in [Places -> SlotRecord] /\ want \in [Folders -> [Files -> Texts \cup {Absent}]]
  BY DEF HostGood
<1>6. /\ v \in DeviceRecord
      /\ \A g \in Folders : EntryGood(v, Settled, g)
      /\ \A p \in Places : DirGood(v, p)
      /\ \A g \in Folders, y \in Files : FileGood(v, g, y)
      /\ CopyGood(v)
  BY DEF Good
<1>3. v = [entry |-> entry, graves |-> graves, dirs |-> dirs, disk |-> disk, bg |-> bg]
  BY DEF Device
<1>4. Device' = [entry |-> entry', graves |-> graves', dirs |-> dirs', disk |-> disk', bg |-> bg']
  BY DEF Device
<1> HIDE DEF v, d
<1>7. Device' = w
  <2>1. w = [entry |-> entry, graves |-> graves, dirs |-> dirs, disk |-> d, bg |-> bg]
    BY <1>3
  <2> QED
    BY <1>1, <1>4, <2>1
<1> USE DEF d
<1>8. s \in Texts /\ s # <<>> /\ s # Absent
  BY <1>1, <1>2
<1>9. t \in Texts /\ t # <<>> /\ Edited \in ToSet(t) /\ t # Absent
  <2> HIDE DEF s
  <2> QED
    BY <1>8, TextEdited, TextsAre
<1>10. want' = [want EXCEPT ![f] = [want[f] EXCEPT ![x] = t]]
  BY <1>1
<1> HIDE DEF t, s
<1>11. /\ \A g \in Folders, y \in Files : want'[g][y] = IF g = f /\ y = x THEN t ELSE want[g][y]
       /\ want' \in [Folders -> [Files -> Texts \cup {Absent}]]
  BY <1>2, <1>9, <1>10
<1>12. \A g \in Folders, y \in Files : want'[g][y] = Absent <=> want[g][y] = Absent
  BY <1>8, <1>9, <1>11 DEF s
<1>13. /\ \A g \in Folders, p \in Places : LiveNext(g, p) <=> LiveAt(g, p)
       /\ \A g \in Folders : (DeadNext(g) <=> Dead(g)) /\ (AccountedNext(g) <=> Accounted(g))
       /\ Settled' = Settled
  BY <1>1 DEF LiveNext, LiveAt, DeadNext, Dead, AccountedNext, Accounted, Settled
<1>14. HostGood'
  <2>1. \A p \in Places : tbl'[p].mark = "free" <=> tbl'[p].folder = Nowhere
    BY <1>1 DEF HostGood
  <2>2. \A g \in Folders, p, r \in Places : LiveNext(g, p) /\ LiveNext(g, r) => p = r
    BY <1>13 DEF HostGood
  <2>3. dirty' \subseteq Parents \cup Folders /\ gone' \subseteq Places \cup Folders
    BY <1>1 DEF HostGood
  <2>4. ASSUME NEW r \in gone' \cap Places
        PROVE  /\ tbl'[r].mark = "erased" /\ \A p \in Places : ~LiveNext(tbl'[r].folder, p)
               /\ \A y \in Files : want'[tbl'[r].folder][y] = Absent
    <3>1. /\ r \in gone \cap Places /\ tbl[r].mark = "erased"
          /\ \A p \in Places : ~LiveAt(tbl[r].folder, p)
          /\ \A y \in Files : want[tbl[r].folder][y] = Absent
      BY <1>1 DEF HostGood
    <3>2. tbl[r].folder \in Folders
      BY <3>1 DEF HostGood, SlotRecord
    <3> QED
      BY <1>1, <1>12, <1>13, <3>1, <3>2
  <2>5. ASSUME NEW g \in Folders, NEW p \in Places, tbl'[p].folder = g PROVE AccountedNext(g)
    <3>1. tbl[p].folder = g /\ tbl[p].mark # "free"
      BY <1>1, <2>5, Basics DEF HostGood
    <3>2. Accounted(g)
      BY <3>1 DEF HostGood
    <3> QED
      BY <1>13, <3>2
  <2>6. \A g \in gone' \cap Folders : AccountedNext(g)
    BY <1>1, <1>13 DEF HostGood
  <2>7. \A g \in dirty' \cap Folders : g \in gone' \/ DeadNext(g)
    BY <1>1, <1>13 DEF HostGood
  <2> QED
    BY <1>1, <1>2, <1>11, <2>1, <2>2, <2>3, <2>4, <2>5, <2>6, <2>7, HostGoodNext
<1>15. k \in Places /\ tbl[k].folder = f
  <2>1. EntryGood(v, Settled, f)
    BY <1>6
  <2>2. k # Nowhere
    BY <1>8, <2>1 DEF EntryGood, s
  <2>3. k \in Places
    BY <1>6, <2>2, EntryIs
  <2> QED
    BY <2>1, <2>2, <2>3 DEF EntryGood
<1> HIDE DEF k
<1>16. v.disk \in [Places \X Files -> Texts \cup {Absent}]
  BY <1>6 DEF DeviceRecord
<1>17. o \in {Absent, <<>>} \/ (o \in Texts /\ o # <<>>)
  BY <1>15, <1>16
<1> DEFINE z == [o EXCEPT ![1] = Edited]
<1>18. o \notin {Absent, <<>>} => z \in Texts /\ z # Absent
  <2> HIDE DEF o
  <2> QED
    BY <1>17, TextEdited, TextsAre
<1>19. o \notin {Absent, <<>>} => d = [v.disk EXCEPT ![<<k, x>>] = z]
  OBVIOUS
<1> HIDE DEF z
<1>20. /\ d \in [Places \X Files -> Texts \cup {Absent}]
       /\ \A p \in Places, y \in Files :
            d[p, y] = IF p = k /\ y = x /\ o \notin {Absent, <<>>} THEN z ELSE v.disk[p, y]
  <2>1. CASE o \in {Absent, <<>>}
    <3>1. d = v.disk
      BY <2>1
    <3> HIDE DEF d, o
    <3> QED
      BY <1>16, <2>1, <3>1
  <2>2. CASE o \notin {Absent, <<>>}
    <3>1. d = [v.disk EXCEPT ![<<k, x>>] = z] /\ z \in Texts
      BY <1>18, <1>19, <2>2
    <3> HIDE DEF d, o
    <3> QED
      BY <1>15, <1>16, <2>2, <3>1
  <2> QED
    BY <2>1, <2>2
<1> HIDE DEF d
<1>21. /\ w.entry = v.entry /\ w.graves = v.graves /\ w.dirs = v.dirs /\ w.bg = v.bg /\ w.disk = d
       /\ w \in DeviceRecord
  BY <1>6, <1>20 DEF DeviceRecord
<1> HIDE DEF w
<1>22. (Device \in DeviceRecord)'
  BY <1>7, <1>21 DEF DeviceRecord, EntryRecord, CopyRecord, Texts
<1>23. ASSUME NEW g \in Folders PROVE EntryGood(Device, Settled, g)'
  <2>1. EntryGood(v, Settled, g)
    BY <1>6
  <2>2. \A y \in Files : want'[g][y] # Absent => v.entry[g].place # Nowhere
    BY <1>12, <2>1 DEF EntryGood
  <2> QED
    BY <1>1, <1>7, <1>13, <1>21, <2>1, <2>2 DEF EntryGood, LiveAt
<1>24. ASSUME NEW p \in Places PROVE DirGood(Device, p)'
  <2>1. DirGood(v, p)
    BY <1>6
  <2>2. \A y \in Files : v.disk[p, y] = Absent => d[p, y] = Absent
    BY <1>20 DEF o
  <2> QED
    BY <1>1, <1>7, <1>21, <2>1, <2>2 DEF DirGood
<1>25. ASSUME NEW g \in Folders, NEW y \in Files PROVE FileGood(Device, g, y)'
  <2>1. FileGood(v, g, y) /\ EntryGood(v, Settled, g)
    BY <1>6
  <2>2. Dead(g)' <=> Dead(g)
    BY <1>13 DEF Dead, DeadNext
  <2> DEFINE e == v.entry[g].place
  <2>3. SourceOf(Device, g)' = e /\ SourceOf(v, g) = e
    BY <1>1, <1>7, <1>21 DEF SourceOf
  <2>4. (want'[g][y] = Absent <=> want[g][y] = Absent) /\ want'[g][y] = IF g = f /\ y = x THEN t ELSE want[g][y]
    BY <1>11, <1>12
  <2>5. e # Nowhere => e \in Places /\ tbl[e].folder = g
    BY <1>6, <2>1, EntryIs DEF EntryGood
  <2>6. want[g][y] # Absent => e # Nowhere
    BY <2>1 DEF EntryGood
  <2>7. v.graves[g, y] # Nowhere =>
          v.graves[g, y] = e /\ want'[g][y] = Absent /\ (g \in gone \/ Dead(g))
    BY <2>1, <2>4 DEF FileGood
  <2>8. ~frail /\ want'[g][y] # Absent => d[e, y] = want'[g][y]
    <3> SUFFICES ASSUME ~frail, want'[g][y] # Absent PROVE d[e, y] = want'[g][y]
      OBVIOUS
    <3>1. v.disk[e, y] = want[g][y] /\ e \in Places /\ tbl[e].folder = g
      BY <2>1, <2>3, <2>4, <2>5, <2>6 DEF FileGood
    <3>2. CASE g = f /\ y = x
      <4>1. o = s /\ e = k
        BY <3>1, <3>2 DEF o, s, k
      <4>2. z = t
        BY <4>1 DEF z, t
      <4> HIDE DEF o, e
      <4> QED
        BY <1>8, <1>15, <1>20, <2>4, <3>2, <4>1, <4>2
    <3>3. CASE ~(g = f /\ y = x)
      <4>1. ~(e = k /\ y = x)
        BY <1>15, <3>1, <3>3
      <4> HIDE DEF o, e
      <4> QED
        BY <1>20, <2>4, <3>1, <3>3, <4>1
    <3> QED
      BY <3>2, <3>3
  <2>9. ~frail /\ want'[g][y] = Absent /\ e # Nowhere =>
          d[e, y] = Absent \/ g \in dirty \/ v.graves[g, y] = e \/ Dead(g)
    <3>1. e # Nowhere /\ v.disk[e, y] = Absent => d[e, y] = Absent
      BY <1>20, <2>5 DEF o
    <3> QED
      BY <2>1, <2>3, <2>4, <3>1 DEF FileGood
  <2>10. frail /\ want'[g][y] # Absent /\ Edited \notin ToSet(want'[g][y]) =>
          \E p \in Places : tbl[p].folder = g /\ d[p, y] = want'[g][y]
    <3> SUFFICES ASSUME frail, want'[g][y] # Absent, Edited \notin ToSet(want'[g][y])
                 PROVE  \E p \in Places : tbl[p].folder = g /\ d[p, y] = want'[g][y]
      OBVIOUS
    <3>1. ~(g = f /\ y = x) /\ want'[g][y] = want[g][y]
      BY <1>9, <2>4
    <3>2. PICK p \in Places : tbl[p].folder = g /\ v.disk[p, y] = want[g][y]
      BY <2>1, <3>1 DEF FileGood
    <3>3. ~(p = k /\ y = x)
      BY <1>15, <3>1, <3>2
    <3> QED
      BY <1>20, <3>1, <3>2, <3>3
  <2> QED
    BY <1>1, <1>7, <1>21, <2>2, <2>3, <2>7, <2>8, <2>9, <2>10 DEF FileGood
<1>26. CopyGood(Device)'
  BY <1>1, <1>6, <1>7, <1>21 DEF CopyGood
<1>27. (frail => SourceErased(Device))'
  BY <1>1, <1>7, <1>21 DEF SourceErased
<1>28. Good(Device, Settled)'
  BY <1>22, <1>23, <1>24, <1>25, <1>26, <1>27 DEF Good
<1> QED
  BY <1>14, <1>28

-----------------------------------------------------------------------------
(* The invariant holds from the first mount on.                             *)

LEMMA ContentIsText ==
  ASSUME NEW f \in Folders, NEW x \in Files
  PROVE  Content(f, x) \in Texts
<1>1. Chunks[x] \in Nat /\ Chunks[x] <= Longest
  BY LongestIs, FilesAssumption
<1>2. Content(f, x) \in [1..Chunks[x] -> Folders \cup {Edited}]
  BY DEF Content
<1>3. Content(f, x) \in Seq(Folders \cup {Edited}) /\ Len(Content(f, x)) = Chunks[x]
  BY <1>1, <1>2
<1> QED
  BY <1>1, <1>3 DEF Texts

LEMMA InitGood ==
  ASSUME Init
  PROVE  FolderInv
<1> DEFINE I == DOMAIN InitialPlace
           v == Device
<1>1. /\ entry = [f \in Folders |-> IF f \in I THEN EntryAt(InitialPlace[f]) ELSE NoEntry]
      /\ graves = [k \in Folders \X Files |-> Nowhere] /\ bg = Idle /\ phase = "up"
      /\ dirs = Range(InitialPlace)
      /\ want = [f \in Folders |-> [x \in Files |-> IF f \in I THEN Content(f, x) ELSE Absent]]
      /\ dirty = {} /\ gone = {} /\ frail \in BOOLEAN
  BY DEF Init
<1>2. /\ tbl = [p \in Places |-> IF \E f \in I : InitialPlace[f] = p
                                 THEN Slot("live", CHOOSE f \in I : InitialPlace[f] = p)
                                 ELSE FreeSlot]
      /\ disk = [q \in Places \X Files |->
                   IF tbl[q[1]] = FreeSlot THEN Absent ELSE Content(tbl[q[1]].folder, q[2])]
  BY DEF Init
<1>3. /\ I \subseteq Folders /\ \A f \in I : InitialPlace[f] \in Places
      /\ \A f, g \in I : InitialPlace[f] = InitialPlace[g] => f = g
  BY FilesAssumption DEF IsInjective
<1>4. \A p \in Places : \/ tbl[p] = FreeSlot /\ ~\E f \in I : InitialPlace[f] = p
                        \/ \E f \in I : InitialPlace[f] = p /\ tbl[p] = Slot("live", f)
  <2> SUFFICES ASSUME NEW p \in Places, NEW f \in I, InitialPlace[f] = p
               PROVE  \E g \in I : InitialPlace[g] = p /\ tbl[p] = Slot("live", g)
    BY <1>2
  <2> DEFINE g == CHOOSE g \in I : InitialPlace[g] = p
  <2>1. g \in I /\ InitialPlace[g] = p
    OBVIOUS
  <2>2. tbl[p] = Slot("live", g)
    BY <1>2
  <2> QED
    BY <2>1, <2>2
<1> HIDE DEF I
<1>5. /\ \A p \in Places : tbl[p] = FreeSlot => tbl[p].mark = "free" /\ tbl[p].folder = Nowhere
      /\ \A p \in Places, f \in I : tbl[p] = Slot("live", f) => tbl[p].mark = "live" /\ tbl[p].folder = f
  BY DEF FreeSlot, Slot
<1>6. \A f \in I : tbl[InitialPlace[f]] = Slot("live", f)
  BY <1>3, <1>4
<1>7. \A f \in Folders, p \in Places : LiveAt(f, p) => f \in I /\ p = InitialPlace[f]
  BY <1>4, <1>5 DEF LiveAt
<1>8. \A f \in I : LiveAt(f, InitialPlace[f])
  BY <1>3, <1>5, <1>6 DEF LiveAt
<1>9. HostGood
  <2>1. tbl \in [Places -> SlotRecord]
    <3>1. \A p \in Places : tbl[p] \in SlotRecord
      <4>1. FreeSlot \in SlotRecord
        BY DEF FreeSlot, SlotRecord
      <4>2. \A f \in I : Slot("live", f) \in SlotRecord
        BY <1>3 DEF Slot, SlotRecord
      <4> QED
        BY <1>4, <4>1, <4>2
    <3> QED
      BY <1>2, <3>1
  <2>2. \A p \in Places : tbl[p].mark = "free" <=> tbl[p].folder = Nowhere
    <3>1. \A f \in I : f # Nowhere
      BY <1>3, Basics
    <3> QED
      BY <1>4, <1>5, <3>1
  <2>3. \A f \in Folders, p, q \in Places : LiveAt(f, p) /\ LiveAt(f, q) => p = q
    BY <1>7
  <2>4. want \in [Folders -> [Files -> Texts \cup {Absent}]]
    BY <1>1, <1>3, ContentIsText
  <2>5. \A p \in Places : tbl[p].mark # "free" => Accounted(tbl[p].folder)
    BY <1>4, <1>5 DEF Accounted, LiveAt
  <2> QED
    BY <1>1, <2>1, <2>2, <2>3, <2>4, <2>5 DEF HostGood
<1>10. v = [entry |-> entry, graves |-> graves, dirs |-> dirs, disk |-> disk, bg |-> bg]
  BY DEF Device
<1> HIDE DEF v
<1>11. v.entry = entry /\ v.graves = graves /\ v.dirs = dirs /\ v.disk = disk /\ v.bg = bg
  BY <1>10
<1>12. \A f \in Folders :
         /\ f \in I => entry[f] = EntryAt(InitialPlace[f]) /\ entry[f].place = InitialPlace[f]
                       /\ InitialPlace[f] \in Places
         /\ f \notin I => entry[f] = NoEntry /\ entry[f].place = Nowhere
         /\ entry[f].deleted = FALSE
  BY <1>1, <1>3 DEF EntryAt, NoEntry
<1>13. \A p \in Places : p \in dirs <=> \E f \in I : InitialPlace[f] = p
  BY <1>1 DEF Range, I
<1>14. \A p \in Places, x \in Files :
         /\ p \notin dirs => disk[p, x] = Absent
         /\ \A f \in I : p = InitialPlace[f] => disk[p, x] = Content(f, x)
  <2> TAKE p \in Places, x \in Files
  <2>1. disk[p, x] = IF tbl[p] = FreeSlot THEN Absent ELSE Content(tbl[p].folder, x)
    BY <1>2
  <2>2. p \notin dirs => tbl[p] = FreeSlot
    BY <1>4, <1>13
  <2>3. ASSUME NEW f \in I, p = InitialPlace[f] PROVE tbl[p] # FreeSlot /\ tbl[p].folder = f
    <3>1. tbl[p].mark = "live" /\ tbl[p].folder = f
      BY <1>5, <1>6, <2>3
    <3> QED
      BY <3>1 DEF FreeSlot
  <2> QED
    BY <2>1, <2>2, <2>3
<1>15. v \in DeviceRecord
  <2>1. entry \in [Folders -> EntryRecord]
    BY <1>1, <1>3 DEF EntryRecord, EntryAt, NoEntry
  <2>2. graves \in [Folders \X Files -> Places \cup {Nowhere}]
    BY <1>1
  <2>3. dirs \in SUBSET Places
    BY <1>1, <1>3 DEF Range, I
  <2>4. disk \in [Places \X Files -> Texts \cup {Absent}]
    <3>1. ASSUME NEW p \in Places, NEW x \in Files PROVE disk[p, x] \in Texts \cup {Absent}
      <4>1. CASE p \in dirs
        <5>1. PICK f \in I : InitialPlace[f] = p
          BY <1>13, <4>1
        <5>2. disk[p, x] = Content(f, x) /\ f \in Folders
          BY <1>3, <1>14, <5>1
        <5> QED
          BY <5>2, ContentIsText
      <4>2. CASE p \notin dirs
        BY <1>14, <4>2
      <4> QED
        BY <4>1, <4>2
    <3>2. disk = [q \in Places \X Files |-> disk[q]]
      BY <1>2
    <3>3. ASSUME NEW q \in Places \X Files PROVE disk[q] \in Texts \cup {Absent}
      <4>1. PICK p \in Places, x \in Files : q = <<p, x>>
        OBVIOUS
      <4> QED
        BY <3>1, <4>1
    <3> QED
      BY <3>2, <3>3
  <2>5. bg \in CopyRecord
    BY <1>1 DEF Idle, CopyRecord
  <2> QED
    BY <1>10, <2>1, <2>2, <2>3, <2>4, <2>5 DEF DeviceRecord
<1>16. ASSUME NEW f \in Folders PROVE EntryGood(v, Settled, f)
  <2>1. v.entry[f].place # Nowhere => tbl[v.entry[f].place].folder = f /\ v.entry[f].place \in v.dirs
    BY <1>5, <1>6, <1>11, <1>12, <1>13
  <2>2. \A x \in Files : want[f][x] # Absent => v.entry[f].place # Nowhere
    <3>1. \A x \in Files : f \notin I => want[f][x] = Absent
      BY <1>1
    <3> QED
      BY <1>11, <1>12, <3>1, Basics
  <2>3. \A p \in Places : LiveAt(f, p) => v.entry[f] = EntryAt(p)
    BY <1>7, <1>11, <1>12
  <2> QED
    BY <1>1, <1>11, <1>12, <2>1, <2>2, <2>3 DEF EntryGood
<1>17. ASSUME NEW p \in Places PROVE DirGood(v, p)
  <2>1. p \in v.dirs => \E f \in Folders : v.entry[f].place = p
    BY <1>3, <1>11, <1>12, <1>13
  <2>2. p \notin v.dirs => \A x \in Files : v.disk[p, x] = Absent
    BY <1>11, <1>14
  <2> QED
    BY <2>1, <2>2 DEF DirGood
<1>18. ASSUME NEW f \in Folders, NEW x \in Files PROVE FileGood(v, f, x)
  <2>1. ~v.bg.active /\ v.graves[f, x] = Nowhere
    <3>1. bg.active = FALSE
      BY <1>1 DEF Idle
    <3>2. <<f, x>> \in Folders \X Files
      OBVIOUS
    <3> QED
      BY <1>1, <1>11, <3>1, <3>2
  <2>2. SourceOf(v, f) = entry[f].place
    BY <1>11, <2>1 DEF SourceOf
  <2>3. /\ want[f][x] = IF f \in I THEN Content(f, x) ELSE Absent
        /\ Content(f, x) # Absent
    BY <1>1, ContentIsText, TextsAre
  <2>4. want[f][x] # Absent => f \in I /\ v.disk[entry[f].place, x] = want[f][x]
    BY <1>11, <1>12, <1>14, <2>3
  <2>5. want[f][x] = Absent => entry[f].place = Nowhere
    BY <1>12, <2>3
  <2>6. want[f][x] # Absent => \E p \in Places : tbl[p].folder = f /\ v.disk[p, x] = want[f][x]
    <3> SUFFICES ASSUME want[f][x] # Absent
                 PROVE  tbl[InitialPlace[f]].folder = f /\ v.disk[InitialPlace[f], x] = want[f][x]
                        /\ InitialPlace[f] \in Places
      OBVIOUS
    <3>1. f \in I /\ entry[f].place = InitialPlace[f] /\ InitialPlace[f] \in Places
      BY <1>12, <2>4
    <3>2. tbl[InitialPlace[f]].folder = f
      BY <1>5, <1>6, <3>1
    <3> QED
      BY <2>4, <3>1, <3>2
  <2> QED
    BY <1>11, <2>1, <2>2, <2>4, <2>5, <2>6 DEF FileGood
<1>19. CopyGood(v) /\ SourceErased(v)
  BY <1>1, <1>11 DEF CopyGood, SourceErased, Idle
<1>20. Good(v, Settled)
  BY <1>15, <1>16, <1>17, <1>18, <1>19 DEF Good
<1> QED
  BY <1>1, <1>9, <1>20 DEF FolderInv, v

(* The invariant is kept by every step.                                     *)
LEMMA FolderStep ==
  ASSUME Careful, FolderInv, [Next]_vars
  PROVE  FolderInv'
<1>1. phase \in {"up", "leaving", "down"} /\ frail \in BOOLEAN
  BY DEF FolderInv
<1> DEFINE Working == /\ phase' \in {"up", "leaving"} /\ frail' = frail
                      /\ HostGood' /\ Good(Device, Settled)'
<1>2. Working => FolderInv'
  BY <1>1 DEF FolderInv
<1>3. ASSUME phase # "down" PROVE HostGood /\ Good(Device, Settled)
  BY <1>3 DEF FolderInv
<1>4. CASE UNCHANGED vars
  <2>1. phase' = phase /\ frail' = frail /\ UNCHANGED <<device, host, frail>>
    BY <1>4 DEF vars
  <2>4. /\ disk' = disk /\ dirs' = dirs /\ bg' = bg
        /\ tbl' = tbl /\ want' = want /\ dirty' = dirty
    BY <2>1 DEF device, host
  <2>2. CASE phase = "down"
    <3>1. ~bg.active /\ NothingLost /\ EjectedAsHostSawIt
      BY <2>2 DEF FolderInv
    <3>4. NothingLost'
      <4> DEFINE torn(f, x) == frail /\ Edited \in ToSet(want[f][x])
                 kept(f, x) == want[f][x] = Absent \/ \E p \in Places : disk[p, x] = want[f][x]
      <4>1. dirty = {} => \A f \in Folders, x \in Files : kept(f, x) \/ torn(f, x)
        BY <3>1 DEF NothingLost
      <4>2. \A f \in Folders, x \in Files : torn(f, x)' <=> torn(f, x)
        BY <2>1, <2>4
      <4>3. \A f \in Folders, x \in Files : kept(f, x)' <=> kept(f, x)
        BY <2>4
      <4> HIDE DEF torn, kept
      <4>4. dirty' = {} => \A f \in Folders, x \in Files : kept(f, x)' \/ torn(f, x)'
        BY <2>4, <4>1, <4>2, <4>3
      <4> SUFFICES ASSUME dirty' = {}
                   PROVE  \A f \in Folders, x \in Files :
                            \/ want'[f][x] = Absent
                            \/ \E p \in Places : disk'[p, x] = want'[f][x]
                            \/ frail' /\ Edited \in ToSet(want'[f][x])
        BY <2>1, <2>2 DEF NothingLost
      <4> QED
        BY <4>4 DEF torn, kept
    <3>2. NothingLost' /\ ~bg'.active
      BY <2>4, <3>1, <3>4
    <3>3. EjectedAsHostSawIt'
      <4> DEFINE shown(p) ==
            /\ p \in dirs <=> tbl[p].mark = "live"
            /\ \A x \in Files : disk[p, x] = IF tbl[p].mark = "live" THEN want[tbl[p].folder][x]
                                              ELSE Absent
      <4>1. dirty = {} /\ ~frail => \A p \in Places : shown(p)
        BY <2>2, <3>1 DEF EjectedAsHostSawIt
      <4>2. \A p \in Places : shown(p)' <=> shown(p)
        BY <2>4
      <4> HIDE DEF shown
      <4>3. dirty' = {} /\ ~frail' => \A p \in Places : shown(p)'
        BY <2>1, <2>4, <4>1, <4>2
      <4> QED
        BY <4>3 DEF EjectedAsHostSawIt, shown
    <3> QED
      BY <1>1, <2>1, <2>2, <3>2, <3>3 DEF FolderInv
  <2>3. CASE phase # "down"
    BY <1>1, <1>2, <1>3, <2>1, <2>3, GoodStays
  <2> QED
    BY <2>2, <2>3
<1>5. CASE \E d \in Parents : WriteTable(d)
  <2>1. PICK d \in Parents : WriteTable(d)
    BY <1>5
  <2>2. phase = "up" /\ phase' = phase /\ frail' = frail
    BY <2>1 DEF WriteTable, Accepting
  <2>3. HostGood' /\ Good(Device, Settled)'
    BY <1>3, <2>1, <2>2, WriteTableStep
  <2> QED
    BY <1>2, <2>2, <2>3
<1>6. CASE \E f \in Folders : WriteFolderTable(f)
  <2>1. PICK f \in Folders : WriteFolderTable(f)
    BY <1>6
  <2>2. phase = "up" /\ phase' = phase /\ frail' = frail
    BY <2>1 DEF WriteFolderTable, Accepting
  <2>3. HostGood' /\ Good(Device, Settled)'
    BY <1>3, <2>1, <2>2, WriteFolderTableStep
  <2> QED
    BY <1>2, <2>2, <2>3
<1>7. CASE BackgroundCopy
  <2>1. phase # "down" /\ phase' = phase /\ frail' = frail
    BY <1>7 DEF BackgroundCopy
  <2>2. HostGood' /\ Good(Device, Settled)'
    BY <1>3, <1>7, <2>1, BackgroundCopyStep
  <2> QED
    BY <1>1, <1>2, <2>1, <2>2
<1>8. CASE Leave
  <2>1. phase = "up" /\ phase' = "leaving" /\ frail' = frail /\ UNCHANGED <<device, host, frail>>
    BY <1>8 DEF Leave
  <2>2. HostGood' /\ Good(Device, Settled)'
    BY <1>3, <2>1, GoodStays
  <2> QED
    BY <1>2, <2>1, <2>2
<1>9. CASE Flush
  <2>1. phase = "leaving" /\ frail' = frail
    BY <1>9 DEF Flush
  <2>2. (phase' = "down") /\ ~bg'.active /\ NothingLost' /\ EjectedAsHostSawIt'
    BY <1>1, <1>3, <1>9, <2>1, FlushStep
  <2> QED
    BY <1>1, <2>1, <2>2 DEF FolderInv
<1>10. CASE HostStep
  <2>1. phase = "up" /\ phase' = phase /\ frail' = frail
    BY <1>10 DEF HostStep, HostMove, HostCreate, HostDelete, HostUnlink, HostEdit, Operation
  <2>2. HostGood /\ Good(Device, Settled)
    BY <1>3, <2>1
  <2>3. ASSUME NEW f \in Folders, NEW p \in Places, NEW q \in Places, HostMove(f, p, q)
        PROVE  HostGood' /\ Good(Device, Settled)'
    BY <2>2, <2>3, HostMoveStep
  <2>4. ASSUME NEW f \in Folders, NEW q \in Places, HostCreate(f, q)
        PROVE  HostGood' /\ Good(Device, Settled)'
    BY <2>2, <2>4, HostCreateStep
  <2>5. ASSUME NEW f \in Folders, NEW q \in Places, HostDelete(f, q)
        PROVE  HostGood' /\ Good(Device, Settled)'
    BY <2>2, <2>5, HostDeleteStep
  <2>6. ASSUME NEW f \in Folders, NEW x \in Files, HostUnlink(f, x)
        PROVE  HostGood' /\ Good(Device, Settled)'
    BY <2>2, <2>6, HostUnlinkStep
  <2>7. ASSUME NEW f \in Folders, NEW x \in Files, HostEdit(f, x)
        PROVE  HostGood' /\ Good(Device, Settled)'
    BY <2>2, <2>7, HostEditStep
  <2>8. HostGood' /\ Good(Device, Settled)'
    BY <1>10, <2>3, <2>4, <2>5, <2>6, <2>7 DEF HostStep
  <2> QED
    BY <1>2, <2>1, <2>8
<1> QED
  BY <1>4, <1>5, <1>6, <1>7, <1>8, <1>9, <1>10 DEF Next

(* What the invariant says of the files, the reads, the copy and the eject.  *)
LEMMA FolderSafe ==
  ASSUME FolderInv
  PROVE  NothingLost /\ IdleReadsTrue /\ SourceUntracked /\ EjectedAsHostSawIt
<1>1. CASE phase = "down"
  BY <1>1 DEF FolderInv, IdleReadsTrue, SourceUntracked
<1>2. CASE phase # "down"
  <2> DEFINE v == Device
  <2>1. HostGood /\ Good(v, Settled) /\ frail \in BOOLEAN
    BY <1>2 DEF FolderInv
  <2>2. v.entry = entry /\ v.disk = disk /\ v.bg = bg
    BY DEF Device
  <2> HIDE DEF v
  <2>3. /\ v \in DeviceRecord
        /\ \A f \in Folders : EntryGood(v, Settled, f)
        /\ \A f \in Folders, x \in Files : FileGood(v, f, x)
        /\ CopyGood(v)
    BY <2>1 DEF Good
  <2>4. NothingLost
    <3> SUFFICES ASSUME NEW f \in Folders, NEW x \in Files, want[f][x] # Absent,
                        ~(frail /\ Edited \in ToSet(want[f][x]))
                 PROVE  \E p \in Places : disk[p, x] = want[f][x]
      BY DEF NothingLost
    <3>1. FileGood(v, f, x) /\ EntryGood(v, Settled, f)
      BY <2>3
    <3>2. CASE frail
      <4>1. \E p \in Places : tbl[p].folder = f /\ v.disk[p, x] = want[f][x]
        BY <3>1, <3>2 DEF FileGood
      <4> QED
        BY <2>2, <4>1
    <3>3. CASE ~frail
      <4>1. v.disk[SourceOf(v, f), x] = want[f][x]
        BY <3>1, <3>3 DEF FileGood
      <4>2. v.entry[f].place \in Places
        <5>1. v.entry[f].place # Nowhere
          BY <3>1 DEF EntryGood
        <5>2. v.entry[f].place \in Places \cup {Nowhere}
          BY <2>3, EntryIs
        <5> QED
          BY <5>1, <5>2
      <4>3. v.bg.active => v.bg.old \in Places
        BY <2>3, CopyIs
      <4>4. SourceOf(v, f) \in Places
        BY <4>2, <4>3 DEF SourceOf
      <4> QED
        BY <2>2, <4>1, <4>4
    <3> QED
      BY <2>1, <3>2, <3>3
  <2>5. IdleReadsTrue
    <3> SUFFICES ASSUME ~bg.active, ~frail, NEW f \in Folders, NEW x \in Files, want[f][x] # Absent
                 PROVE  disk[entry[f].place, x] = want[f][x]
      BY DEF IdleReadsTrue
    <3>1. FileGood(v, f, x) /\ SourceOf(v, f) = v.entry[f].place
      BY <2>2, <2>3 DEF SourceOf
    <3>2. v.disk[v.entry[f].place, x] = want[f][x]
      BY <3>1 DEF FileGood
    <3> QED
      BY <2>2, <3>2
  <2>6. SourceUntracked
    BY <2>2, <2>3 DEF SourceUntracked, CopyGood, FromTo
  <2> QED
    BY <1>2, <2>4, <2>5, <2>6 DEF EjectedAsHostSawIt
<1> QED
  BY <1>1, <1>2

\* From the first mount on, under the hypotheses of Careful.
LEMMA FolderAlways == ASSUME Careful PROVE Spec => []FolderInv
<1>1. Init => FolderInv
  BY InitGood
<1>2. FolderInv /\ [Next]_vars => FolderInv'
  BY Careful, FolderStep
<1> QED
  BY <1>1, <1>2, PTL DEF Spec

-----------------------------------------------------------------------------
(* Theorems, for any number of folders, places, files, chunks and slots, with *)
(* or without calls that fail to open a file.                                 *)

\* A file the host has not deleted is whole somewhere on the disk at every moment: while the
\* tables of a move arrive half by half, while fatfs_bg_copy_step copies the folder chunk by
\* chunk, after a copy that could not open a file (fatfs_bg_copy_ok is FALSE and the source
\* stays), and after the deletes of the eject.
THEOREM FilesNeverLost == ASSUME Careful PROVE Spec => []NothingLost
<1>1. FolderInv => NothingLost
  BY FolderSafe
<1>2. Spec => []FolderInv
  BY Careful, FolderAlways
<1> QED
  BY <1>1, <1>2, PTL

\* Between two background copies READ(10) finds the files of a folder where its entry says,
\* as the host wrote them: fatfs_update_child_paths and the copy agree on where they are.
THEOREM IdleReadsAlwaysTrue == ASSUME Careful PROVE Spec => []IdleReadsTrue
<1>1. FolderInv => IdleReadsTrue
  BY FolderSafe
<1>2. Spec => []FolderInv
  BY Careful, FolderAlways
<1> QED
  BY <1>1, <1>2, PTL

\* fatfs_recursive_remove_dir at the end of a copy removes a directory that no folder's entry
\* names, whatever the host has moved, created or deleted since the copy began.
THEOREM SourceAlwaysUntracked == ASSUME Careful PROVE Spec => []SourceUntracked
<1>1. FolderInv => SourceUntracked
  BY FolderSafe
<1>2. Spec => []FolderInv
  BY Careful, FolderAlways
<1> QED
  BY <1>1, <1>2, PTL

\* Once the host has written all its tables, an eject leaves on the disk what they show: the
\* halves of every move met, and fatfs_flush_pending_deletes removed what was deleted and
\* nothing else.
THEOREM FoldersEjectedAsHostSawThem == ASSUME Careful PROVE Spec => []EjectedAsHostSawIt
<1>1. FolderInv => EjectedAsHostSawIt
  BY FolderSafe
<1>2. Spec => []FolderInv
  BY Careful, FolderAlways
<1> QED
  BY <1>1, <1>2, PTL

=============================================================================
