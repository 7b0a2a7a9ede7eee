-------------------------- MODULE ClusterMapProofs --------------------------
(***************************************************************************)
(* Proofs about ClusterMap, for every size of the volume and of its        *)
(* clusters, every number of edits and every order of the host's writes:   *)
(* what the host writes is in the file it belongs to, at its place, and    *)
(* what it reads back is what it wrote.                                    *)
(*                                                                         *)
(* The module starts with what Chain computes: a walk exists for every     *)
(* table, by induction over a set in place of a predicate.                 *)
(***************************************************************************)
EXTENDS ClusterMap, SequenceTheorems, FiniteSetTheorems, WellFoundedInduction, TLAPS

\* Induction on the numbers 1..n, over a set in place of a predicate.
LEMMA CountUp ==
  ASSUME NEW n \in Nat, NEW S, 1 \in S, \A k \in 1..n - 1 : k \in S => k + 1 \in S
  PROVE  1..n \subseteq S
<1> SUFFICES ASSUME NEW x \in 1..n, x \notin S PROVE FALSE
  OBVIOUS
<1> DEFINE T == {k \in 1..n : k \notin S}
<1>1. T \subseteq Nat /\ x \in T
  OBVIOUS
<1>2. PICK m \in T : \A k \in T : ~(<<k, m>> \in OpToRel(<, Nat))
  BY <1>1, NatLessThanWellFounded, WFMin
<1>3. m \in 1..n /\ m \notin S /\ m # 1
  BY <1>2
<1>4. m - 1 \in 1..n - 1 /\ (m - 1) + 1 = m /\ m - 1 < m
  BY <1>3
<1>5. m - 1 \notin T
  <2>1. m - 1 \in Nat /\ m \in Nat
    BY <1>3
  <2>2. <<m - 1, m>> \in OpToRel(<, Nat)
    BY <1>4, <2>1 DEF OpToRel
  <2> QED
    BY <1>2, <2>2
<1> QED
  BY <1>3, <1>4, <1>5

-----------------------------------------------------------------------------
(* Chain.                                                                   *)

Longer(table, before, n) ==
  LET next == FatNext(table, before[Len(before)])
  IN  IF Len(before) < n - 1 \/ next \notin Clusters THEN before ELSE Append(before, next)
IsWalk(w, table, start, m) ==
  w = [n \in 1..m |-> IF n = 1 THEN <<start>> ELSE Longer(table, w[n - 1], n)]

LEMMA WalkExists ==
  ASSUME NEW table, NEW start, NEW m \in Nat
  PROVE  \E w : IsWalk(w, table, start, m)
<1> DEFINE S == {k \in Nat : \E w : IsWalk(w, table, start, k)}
<1>0. 0 \in S
  <2> DEFINE w == [n \in 1..0 |-> 0]
  <2>1. w = [n \in 1..0 |-> IF n = 1 THEN <<start>> ELSE Longer(table, w[n - 1], n)]
    OBVIOUS
  <2> QED
    BY <2>1 DEF IsWalk
<1>1. 1 \in S
  <2> DEFINE w == [n \in 1..1 |-> <<start>>]
  <2>1. w = [n \in 1..1 |-> IF n = 1 THEN <<start>> ELSE Longer(table, w[n - 1], n)]
    OBVIOUS
  <2> QED
    BY <2>1 DEF IsWalk
<1>2. ASSUME NEW k \in 1..m - 1, k \in S PROVE k + 1 \in S
  <2>1. PICK w : IsWalk(w, table, start, k)
    BY <1>2
  <2> DEFINE v == [n \in 1..k + 1 |-> IF n = k + 1 THEN Longer(table, w[k], k + 1) ELSE w[n]]
  <2>2. ASSUME NEW n \in 1..k + 1
        PROVE  v[n] = IF n = 1 THEN <<start>> ELSE Longer(table, v[n - 1], n)
    <3>1. CASE n = k + 1
      <4>1. n # 1 /\ n - 1 = k /\ v[n - 1] = w[k] /\ v[n] = Longer(table, w[k], n)
        BY <3>1
      <4> QED
        BY <4>1
    <3>2. CASE n # k + 1
      <4>1. n \in 1..k /\ v[n] = w[n] /\ (n # 1 => n - 1 \in 1..k /\ v[n - 1] = w[n - 1])
        BY <3>2
      <4>2. w[n] = IF n = 1 THEN <<start>> ELSE Longer(table, w[n - 1], n)
        BY <2>1, <4>1 DEF IsWalk
      <4> QED
        BY <4>1, <4>2
    <3> QED
      BY <3>1, <3>2
  <2>3. DOMAIN v = 1..k + 1 /\ v = [n \in 1..k + 1 |-> v[n]]
    OBVIOUS
  <2> HIDE DEF v
  <2>4. v = [n \in 1..k + 1 |-> IF n = 1 THEN <<start>> ELSE Longer(table, v[n - 1], n)]
    BY <2>2, <2>3
  <2> QED
    BY <2>4 DEF IsWalk
<1> HIDE DEF S
<1>3. 1..m \subseteq S
  BY <1>1, <1>2, CountUp
<1>4. m \in S
  BY <1>0, <1>3
<1> QED
  BY <1>4 DEF S

LEMMA ChainWalks ==
  ASSUME NEW table, NEW start
  PROVE  \E w : IsWalk(w, table, start, LastCluster) /\ Chain(table, start) = w[LastCluster]
<1> DEFINE W == CHOOSE w : IsWalk(w, table, start, LastCluster)
<1>1. IsWalk(W, table, start, LastCluster)
  <2>1. LastCluster \in Nat
    BY SizesAssumption
  <2> QED
    BY <2>1, WalkExists
<1>2. Chain(table, start) = W[LastCluster]
  BY DEF Chain, IsWalk, Longer
<1> QED
  BY <1>1, <1>2

\* A chain follows the table's links, and ends where they do.
Links(s, table) == \A k \in 1..Len(s) - 1 : s[k + 1] = table[s[k]]
Follows(s, table, start, n) ==
  /\ s \in Seq(Clusters) /\ Len(s) \in 1..n /\ s[1] = start /\ Links(s, table)
  /\ Len(s) < n => table[s[Len(s)]] \notin Clusters

LEMMA ChainFollows ==
  ASSUME NEW table, NEW start \in Clusters
  PROVE  Follows(Chain(table, start), table, start, LastCluster)
<1>1. PICK w : IsWalk(w, table, start, LastCluster) /\ Chain(table, start) = w[LastCluster]
  BY ChainWalks
<1> DEFINE S == {n \in 1..LastCluster : Follows(w[n], table, start, n)}
<1>2. LastCluster \in Nat /\ LastCluster >= 2
  BY SizesAssumption
<1>3. \A n \in 1..LastCluster : w[n] = IF n = 1 THEN <<start>> ELSE Longer(table, w[n - 1], n)
  BY <1>1 DEF IsWalk
<1>4. 1 \in S
  <2>1. w[1] = <<start>> /\ <<start>> \in Seq(Clusters) /\ Len(<<start>>) = 1 /\ <<start>>[1] = start
    BY <1>2, <1>3
  <2> DEFINE s == w[1]
  <2>2. s \in Seq(Clusters) /\ Len(s) = 1 /\ s[1] = start
    BY <2>1
  <2> HIDE DEF s
  <2>3. Links(s, table)
    BY <2>2 DEF Links
  <2>4. Follows(s, table, start, 1)
    BY <2>2, <2>3 DEF Follows
  <2> QED
    BY <1>2, <2>4 DEF s
<1>5. ASSUME NEW n \in 1..LastCluster - 1, n \in S PROVE n + 1 \in S
  <2> DEFINE s == w[n]
             next == table[s[Len(s)]]
  <2>1. Follows(s, table, start, n)
    BY <1>5
  <2>2. w[n + 1] = IF Len(s) < n \/ next \notin Clusters THEN s ELSE Append(s, next)
    <3>1. n + 1 \in 1..LastCluster /\ n + 1 # 1 /\ (n + 1) - 1 = n
      BY <1>2
    <3> QED
      BY <1>3, <3>1 DEF Longer, FatNext
  <2> HIDE DEF s
  <2>3. Follows(w[n + 1], table, start, n + 1)
    <3>1. CASE Len(s) < n \/ next \notin Clusters
      <4>1. w[n + 1] = s /\ next \notin Clusters
        BY <2>1, <2>2, <3>1 DEF Follows
      <4> QED
        BY <2>1, <4>1 DEF Follows
    <3>2. CASE ~(Len(s) < n) /\ next \in Clusters
      <4> DEFINE t == Append(s, next)
      <4>1. s \in Seq(Clusters) /\ Len(s) = n
        BY <2>1, <3>2 DEF Follows
      <4>2. /\ t \in Seq(Clusters) /\ Len(t) = n + 1 /\ t[n + 1] = next
            /\ \A k \in 1..n : t[k] = s[k]
        BY <3>2, <4>1, AppendProperties
      <4> HIDE DEF t
      <4>3. Links(t, table)
        <5> SUFFICES ASSUME NEW k \in 1..n PROVE t[k + 1] = table[t[k]]
          BY <4>2 DEF Links
        <5>1. CASE k = n
          BY <4>1, <4>2, <5>1
        <5>2. CASE k # n
          <6>1. k \in 1..n - 1 /\ k + 1 \in 1..n /\ k \in 1..n
            BY <5>2
          <6>2. s[k + 1] = table[s[k]]
            BY <2>1, <4>1, <6>1 DEF Follows, Links
          <6> QED
            BY <4>2, <6>1, <6>2
        <5> QED
          BY <5>1, <5>2
      <4>4. t[1] = start
        BY <2>1, <4>1, <4>2 DEF Follows
      <4>5. w[n + 1] = t
        BY <2>2, <3>2 DEF t
      <4> QED
        BY <4>2, <4>3, <4>4, <4>5 DEF Follows
    <3> QED
      BY <3>1, <3>2
  <2> QED
    BY <1>2, <2>3
<1> HIDE DEF S
<1>6. LastCluster \in S
  BY <1>2, <1>4, <1>5, CountUp
<1> QED
  BY <1>1, <1>6 DEF S

-----------------------------------------------------------------------------
(* Sectors and places.                                                      *)

LEMMA DivBounds ==
  ASSUME NEW a \in Nat, NEW d \in Nat \ {0}
  PROVE  a \div d \in Nat /\ a % d \in 0..d - 1 /\ a = (a \div d) * d + (a % d)
<1>1. a \div d \in Int /\ a % d \in 0..d - 1 /\ a = d * (a \div d) + (a % d)
  OBVIOUS
<1>2. a \div d \in Nat
  BY <1>1
<1> DEFINE q == a \div d
           r == a % d
<1> HIDE DEF q, r
<1>3. d * q = q * d
  BY <1>2 DEF q
<1> QED
  BY <1>1, <1>2, <1>3 DEF q, r

\* A number has one quotient and one remainder.
LEMMA OneQuotient ==
  ASSUME NEW d \in Nat \ {0}, NEW a \in Int, NEW b \in Int, NEW x \in 0..d - 1, NEW y \in 0..d - 1,
         a * d + x = b * d + y
  PROVE  a = b /\ x = y
<1>1. ASSUME a < b PROVE FALSE
  <2>1. (a + 1) * d <= b * d /\ (a + 1) * d = a * d + d
    BY <1>1
  <2> QED
    BY <2>1
<1>2. ASSUME b < a PROVE FALSE
  <2>1. (b + 1) * d <= a * d /\ (b + 1) * d = b * d + d
    BY <1>2
  <2> QED
    BY <2>1
<1> QED
  BY <1>1, <1>2

Pos(k, s) == (k - 1) * ClusterSectors + (s % ClusterSectors)

LEMMA SectorsOfCluster ==
  ASSUME NEW s \in Nat, NEW c \in Clusters
  PROVE  s \in SectorsOf(c) <=> ClusterOf(s) = c
<1>1. ClusterSectors \in Nat \ {0} /\ c \in Int /\ c >= 2
  BY SizesAssumption DEF Clusters
<1> DEFINE d == ClusterSectors
           q == s \div d
           r == s % d
           b == c - 2
<1>2. q \in Nat /\ r \in 0..d - 1 /\ s = q * d + r
  BY <1>1, DivBounds
<1>3. s \in SectorsOf(c) <=> b * d <= s /\ s <= b * d + d - 1
  BY <1>1 DEF SectorsOf, First
<1>4. ClusterOf(s) = 2 + q
  BY DEF ClusterOf
<1>5. b \in Nat /\ b * d \in Nat /\ q * d \in Nat
  BY <1>1, <1>2
<1> HIDE DEF d, q, r, b
<1>6. ASSUME q = b PROVE b * d <= s /\ s <= b * d + d - 1
  BY <1>1, <1>2, <1>5, <1>6 DEF d
<1>7. ASSUME b * d <= s /\ s <= b * d + d - 1 PROVE q = b
  <2> DEFINE y == s - b * d
  <2>1. y \in 0..d - 1 /\ b * d + y = q * d + r
    BY <1>1, <1>2, <1>5, <1>7 DEF d
  <2> HIDE DEF y
  <2> QED
    BY <1>1, <1>2, <1>5, <2>1, OneQuotient DEF d
<1> QED
  BY <1>1, <1>2, <1>3, <1>4, <1>6, <1>7 DEF b

LEMMA PosOneToOne ==
  ASSUME NEW k \in Nat, NEW j \in Nat, NEW s \in Nat, NEW t \in Nat, Pos(k, s) = Pos(j, t)
  PROVE  k = j /\ (ClusterOf(s) = ClusterOf(t) => s = t)
<1> DEFINE d == ClusterSectors
<1>1. d \in Nat \ {0}
  BY SizesAssumption
<1>2. /\ s \div d \in Nat /\ s % d \in 0..d - 1 /\ s = (s \div d) * d + (s % d)
      /\ t \div d \in Nat /\ t % d \in 0..d - 1 /\ t = (t \div d) * d + (t % d)
  BY <1>1, DivBounds
<1> DEFINE x == s % d
           y == t % d
           q == s \div d
           p == t \div d
<1>3. (k - 1) * d + x = (j - 1) * d + y
  BY DEF Pos
<1>4. ClusterOf(s) = 2 + q /\ ClusterOf(t) = 2 + p
  BY DEF ClusterOf
<1> HIDE DEF x, y, q, p, d
<1>5. x \in 0..d - 1 /\ y \in 0..d - 1 /\ q \in Nat /\ p \in Nat /\ s = q * d + x /\ t = p * d + y
  BY <1>2 DEF x, y, q, p
<1>6. k - 1 = j - 1 /\ x = y
  BY <1>1, <1>3, <1>5, OneQuotient
<1> QED
  BY <1>4, <1>5, <1>6

LEMMA PosInside ==
  ASSUME NEW n \in Nat, NEW k \in 1..n, NEW s \in Nat
  PROVE  Pos(k, s) \in Nat /\ Pos(k, s) < n * ClusterSectors
<1> DEFINE d == ClusterSectors
           x == s % d
<1>1. d \in Nat \ {0}
  BY SizesAssumption
<1>2. x \in 0..d - 1
  BY <1>1, DivBounds
<1>3. Pos(k, s) = (k - 1) * d + x
  BY DEF Pos
<1> HIDE DEF d, x
<1>4. k * d <= n * d /\ k * d = (k - 1) * d + d /\ (k - 1) * d \in Nat /\ n * d \in Nat
  BY <1>1
<1> QED
  BY <1>1, <1>2, <1>3, <1>4 DEF d

-----------------------------------------------------------------------------
(* The host's files: chains of clusters of their own.                       *)

FileRecord == [chain : Seq(Clusters), live : BOOLEAN]
EntryRecord == [start : Clusters, size : Nat, deleted : BOOLEAN]
FileNumbers == 1..Len(files)
Length(f) == Len(files[f].chain)
At(f, k) == files[f].chain[k]
Orphan(c) == \A f \in FileNumbers : \A k \in 1..Length(f) : At(f, k) # c

FilesInv ==
  /\ files \in Seq(FileRecord) /\ \A f \in FileNumbers : Length(f) >= 1
  /\ \A f, g \in FileNumbers : \A j \in 1..Length(f), k \in 1..Length(g) :
       At(f, j) = At(g, k) => f = g /\ j = k

\* The entries known to the calculator are those of the first files, and start as they do.
KnownInv ==
  /\ entries \in Seq(EntryRecord) /\ DOMAIN real = 1..Len(entries) /\ Len(entries) <= Len(files)
  /\ \A i \in 1..Len(entries) : entries[i].start = At(i, 1)
  /\ \A f \in Len(entries) + 1..Len(files) : files[f].live

\* A link of the mirror is one of a file, or leads to a cluster that no file has: the
\* host cannot have given it away, for it is not free in the mirror.
MirrorInv ==
  /\ fat \in [Clusters -> Clusters \cup {Unused, End}]
  /\ \A c \in Clusters : fat[c] \in Clusters =>
       /\ fat[fat[c]] # Unused
       /\ \/ Orphan(fat[c])
          \/ \E f \in FileNumbers : \E k \in 1..Length(f) - 1 : At(f, k) = c /\ At(f, k + 1) = fat[c]

DirtyInv ==
  \A s \in dirty : s \in Nat /\ \E f \in FileNumbers : files[f].live /\ \E k \in 1..Length(f) : At(f, k) = ClusterOf(s)

\* What is written waits in the staging area until the file's entry comes, and is then
\* in the file.
StagedInv ==
  /\ \A s \in DOMAIN staged : s \in Nat
  /\ \A s \in Sectors \ dirty : \A f \in Len(entries) + 1..Len(files) : \A k \in 1..Length(f) :
       At(f, k) = ClusterOf(s) => s \in DOMAIN staged /\ staged[s] = Data(f, Pos(k, s))
RealInv ==
  \A s \in Sectors \ (dirty \cup strays) : \A f \in 1..Len(entries) : \A k \in 1..Length(f) :
    At(f, k) = ClusterOf(s) => Pos(k, s) \in DOMAIN real[f] /\ real[f][Pos(k, s)] = Data(f, Pos(k, s))

MapInv == FilesInv /\ KnownInv /\ MirrorInv /\ DirtyInv /\ StagedInv /\ RealInv

LEMMA FileTyped ==
  ASSUME FilesInv, NEW f \in FileNumbers
  PROVE  /\ files[f] \in FileRecord /\ files[f].chain \in Seq(Clusters) /\ files[f].live \in BOOLEAN
         /\ Length(f) \in Nat \ {0} /\ \A k \in 1..Length(f) : At(f, k) \in Clusters
<1>1. files[f] \in FileRecord
  BY DEF FilesInv, FileNumbers
<1>2. files[f].chain \in Seq(Clusters) /\ files[f].live \in BOOLEAN
  BY <1>1 DEF FileRecord
<1> QED
  BY <1>1, <1>2 DEF FilesInv, Length, At

LEMMA PositionIsPos ==
  ASSUME FilesInv, NEW f \in FileNumbers, NEW k \in 1..Length(f), NEW s, At(f, k) = ClusterOf(s)
  PROVE  Position(f, s) = Pos(k, s)
<1> DEFINE j == CHOOSE i \in 1..Len(files[f].chain) : files[f].chain[i] = ClusterOf(s)
<1>1. j \in 1..Length(f) /\ At(f, j) = ClusterOf(s)
  BY DEF Length, At
<1>2. Position(f, s) = (j - 1) * ClusterSectors + (s % ClusterSectors)
  BY DEF Position
<1> HIDE DEF j
<1>3. j = k
  BY <1>1 DEF FilesInv
<1> QED
  BY <1>2, <1>3 DEF Pos

LEMMA OneOwner ==
  ASSUME FilesInv, NEW f \in FileNumbers, NEW k \in 1..Length(f), NEW s, At(f, k) = ClusterOf(s)
  PROVE  /\ HostOwners(s) \subseteq {f}
         /\ files[f].live => HostOwners(s) = {f} /\ Meant(s) = Data(f, Pos(k, s))
<1>1. \A g \in HostOwners(s) : g \in FileNumbers /\ files[g].live /\ \E j \in 1..Length(g) : At(g, j) = ClusterOf(s)
  BY DEF HostOwners, FileNumbers, Length, At
<1>2. HostOwners(s) \subseteq {f}
  BY <1>1 DEF FilesInv
<1>3. ASSUME files[f].live PROVE HostOwners(s) = {f}
  <2>1. f \in HostOwners(s)
    BY <1>3 DEF HostOwners, FileNumbers, Length, At
  <2> QED
    BY <1>2, <2>1
<1>4. ASSUME files[f].live PROVE Meant(s) = Data(f, Pos(k, s))
  <2>1. SmallestOf({f}) = f
    BY DEF SmallestOf, FileNumbers
  <2>2. Meant(s) = Data(f, Position(f, s))
    BY <1>3, <1>4, <2>1 DEF Meant
  <2> QED
    BY <2>2, PositionIsPos
<1> QED
  BY <1>2, <1>3, <1>4

\* A live file that is there owns its sectors.
LEMMA OwnersHave ==
  ASSUME FilesInv, NEW s, NEW f \in HostOwners(s)
  PROVE  f \in FileNumbers /\ files[f].live /\ \E k \in 1..Length(f) : At(f, k) = ClusterOf(s)
  BY DEF HostOwners, FileNumbers, Length, At

-----------------------------------------------------------------------------
(* A lookup finds the file that has the cluster, at its place, or none.     *)

LEMMA MirrorPlaces ==
  ASSUME FilesInv, KnownInv, MirrorInv, NEW i \in 1..Len(entries),
         NEW k \in 1..Len(Chain(fat, entries[i].start))
  PROVE  LET c == Chain(fat, entries[i].start)[k]
         IN  Orphan(c) \/ (k \in 1..Length(i) /\ At(i, k) = c)
<1> DEFINE s == Chain(fat, entries[i].start)
           Good(j) == Orphan(s[j]) \/ (j \in 1..Length(i) /\ At(i, j) = s[j])
           S == {j \in 1..Len(s) : Good(j)}
<1>1. /\ Len(entries) \in Nat /\ Len(files) \in Nat /\ i \in FileNumbers
      /\ entries[i].start = At(i, 1) /\ Len(entries) <= Len(files)
  BY DEF KnownInv, FilesInv, FileNumbers
<1>2. /\ Length(i) \in Nat \ {0} /\ At(i, 1) \in Clusters
  BY <1>1, FileTyped
<1>3. Follows(s, fat, entries[i].start, LastCluster)
  BY <1>1, <1>2, ChainFollows
<1> HIDE DEF s
<1>4. s \in Seq(Clusters) /\ Len(s) \in Nat /\ Len(s) >= 1 /\ s[1] = At(i, 1)
      /\ \A j \in 1..Len(s) - 1 : s[j + 1] = fat[s[j]]
  BY <1>1, <1>3 DEF Follows, Links
<1>5. 1 \in S
  BY <1>2, <1>4
<1>6. ASSUME NEW j \in 1..Len(s) - 1, j \in S PROVE j + 1 \in S
  <2>1. j \in 1..Len(s) /\ j + 1 \in 1..Len(s)
    BY <1>4
  <2>2. s[j] \in Clusters /\ s[j + 1] \in Clusters /\ s[j + 1] = fat[s[j]]
    BY <1>4, <2>1
  <2>3. \/ Orphan(s[j + 1])
        \/ \E f \in FileNumbers : \E n \in 1..Length(f) - 1 : At(f, n) = s[j] /\ At(f, n + 1) = s[j + 1]
    BY <2>2 DEF MirrorInv
  <2>4. CASE Orphan(s[j + 1])
    BY <2>1, <2>4
  <2>5. CASE \E f \in FileNumbers : \E n \in 1..Length(f) - 1 : At(f, n) = s[j] /\ At(f, n + 1) = s[j + 1]
    <3>0. PICK f \in FileNumbers : \E n \in 1..Length(f) - 1 : At(f, n) = s[j] /\ At(f, n + 1) = s[j + 1]
      BY <2>5
    <3>1. PICK n \in 1..Length(f) - 1 : At(f, n) = s[j] /\ At(f, n + 1) = s[j + 1]
      BY <3>0
    <3>2. Length(f) \in Nat
      BY FileTyped
    <3>3. n \in 1..Length(f) /\ n + 1 \in 1..Length(f)
      BY <3>2
    <3>4. ~Orphan(s[j])
      BY <3>1, <3>3 DEF Orphan
    <3>5. j \in 1..Length(i) /\ At(i, j) = s[j]
      BY <1>6, <3>4
    <3>6. f = i /\ n = j
      BY <1>1, <3>1, <3>3, <3>5 DEF FilesInv
    <3> QED
      BY <2>1, <3>1, <3>3, <3>6
  <2> QED
    BY <2>3, <2>4, <2>5
<1> HIDE DEF Good
<1>7. 1..Len(s) \subseteq S
  <2> DEFINE n == Len(s)
  <2> HIDE DEF n, S
  <2>1. n \in Nat /\ \A j \in 1..n - 1 : j \in S => j + 1 \in S
    BY <1>4, <1>6 DEF n
  <2>2. 1..n \subseteq S
    BY <1>5, <2>1, CountUp
  <2> QED
    BY <2>2 DEF n
<1> QED
  BY <1>7 DEF Good, s

LEMMA LookupFinds ==
  ASSUME FilesInv, KnownInv, MirrorInv, NEW f \in FileNumbers, NEW k \in 1..Length(f),
         NEW s, At(f, k) = ClusterOf(s), OwnersOf(ClusterOf(s)) # {}
  PROVE  f \in 1..Len(entries) /\ Owner(ClusterOf(s)) = f /\ Offset(s) = Pos(k, s)
<1> DEFINE c == ClusterOf(s)
<1>1. \A i \in OwnersOf(c) : i \in 1..Len(entries) /\ PositionsIn(i, c) # {}
  BY DEF OwnersOf
<1>2. ASSUME NEW i \in 1..Len(entries), NEW j \in PositionsIn(i, c)
      PROVE  i = f /\ j = k
  <2>1. j \in 1..Len(Chain(fat, entries[i].start)) /\ Chain(fat, entries[i].start)[j] = c
    BY DEF PositionsIn
  <2>2. Orphan(c) \/ (j \in 1..Length(i) /\ At(i, j) = c)
    BY <2>1, MirrorPlaces
  <2>3. ~Orphan(c)
    BY DEF Orphan
  <2>4. i \in FileNumbers
    BY DEF KnownInv, FilesInv, FileNumbers
  <2> QED
    BY <2>2, <2>3, <2>4 DEF FilesInv
<1>3. PICK i \in OwnersOf(c) : TRUE
  OBVIOUS
<1>4. PICK j \in PositionsIn(i, c) : TRUE
  BY <1>1
<1>5. i = f /\ j = k /\ f \in 1..Len(entries)
  BY <1>1, <1>2, <1>3, <1>4
<1>6. OwnersOf(c) = {f}
  <2>1. ASSUME NEW g \in OwnersOf(c) PROVE g = f
    BY <1>1, <1>2
  <2> QED
    BY <1>3, <1>5, <2>1
<1>7. PositionsIn(f, c) = {k}
  BY <1>2, <1>4, <1>5
<1> HIDE DEF c
<1>8. SmallestOf({f}) = f /\ SmallestOf({k}) = k
  BY DEF SmallestOf, FileNumbers
<1>9. Owner(c) = f
  BY <1>6, <1>8 DEF Owner
<1>10. Offset(s) = Pos(k, s)
  BY <1>7, <1>8, <1>9 DEF Offset, Pos, c
<1> QED
  BY <1>5, <1>9, <1>10 DEF c

-----------------------------------------------------------------------------
(* The initial states, and the calculator's steps.                          *)

LEMMA MapInit == Init => MapInv
<1> SUFFICES ASSUME Init PROVE MapInv
  OBVIOUS
<1>0. LastCluster \in Nat /\ LastCluster >= 2 /\ ClusterSectors \in Nat \ {0}
  BY SizesAssumption
<1>1. ClusterSectors \in Nat \ {0} /\ 2 \in Clusters
  BY <1>0 DEF Clusters
<1> DEFINE r == [chain |-> <<2>>, live |-> TRUE]
           e == [start |-> 2, size |-> ClusterSectors, deleted |-> FALSE]
<1>2. <<2>> \in Seq(Clusters) /\ r \in FileRecord /\ e \in EntryRecord /\ r.chain = <<2>> /\ r.live = TRUE /\ e.start = 2
  BY <1>1 DEF FileRecord, EntryRecord
<1>3. files = <<r>> /\ entries = <<e>> /\ dirty = {} /\ staged = <<>>
  BY DEF Init
<1> HIDE DEF r, e
<1>4. /\ Len(files) = 1 /\ files[1] = r /\ Len(entries) = 1 /\ entries[1] = e
      /\ files \in Seq(FileRecord) /\ entries \in Seq(EntryRecord)
  BY <1>2, <1>3
<1>5. FileNumbers = {1} /\ Length(1) = 1 /\ At(1, 1) = 2
  BY <1>2, <1>4 DEF FileNumbers, Length, At
<1>6. FilesInv
  BY <1>4, <1>5 DEF FilesInv
<1>7. DOMAIN real = 1..1 /\ real[1] = [p \in 0..ClusterSectors - 1 |-> Data(1, p)]
  BY DEF Init
<1>8. KnownInv
  BY <1>2, <1>4, <1>5, <1>7 DEF KnownInv
<1>9. MirrorInv
  <2>1. fat = [c \in Clusters |-> IF c = 2 THEN End ELSE Unused]
    BY DEF Init
  <2>2. End \notin Clusters /\ Unused \notin Clusters
    BY EndAssumption DEF Unused, Clusters
  <2> QED
    BY <2>1, <2>2 DEF MirrorInv
<1>10. DirtyInv
  BY <1>3 DEF DirtyInv
<1>11. StagedInv
  BY <1>3, <1>4 DEF StagedInv
<1>12. RealInv
  <2> SUFFICES ASSUME NEW s \in Sectors, At(1, 1) = ClusterOf(s)
               PROVE  Pos(1, s) \in DOMAIN real[1] /\ real[1][Pos(1, s)] = Data(1, Pos(1, s))
    BY <1>4, <1>5 DEF RealInv
  <2>1. s \in Nat /\ s % ClusterSectors \in 0..ClusterSectors - 1
    <3>1. (LastCluster - 1) * ClusterSectors \in Int /\ s \in 0..(LastCluster - 1) * ClusterSectors - 1
      BY <1>0 DEF Sectors
    <3>2. s \in Nat
      BY <3>1
    <3> QED
      BY <1>1, <3>2, DivBounds
  <2>2. Pos(1, s) = s % ClusterSectors
    BY <1>1, <2>1 DEF Pos
  <2> QED
    BY <1>7, <2>1, <2>2
<1> QED
  BY <1>6, <1>8, <1>9, <1>10, <1>11, <1>12 DEF MapInv

\* What the host's files are does not depend on the rest.
LEMMA SameFiles ==
  ASSUME UNCHANGED files
  PROVE  /\ FileNumbers' = FileNumbers /\ \A f : Length(f)' = Length(f)
         /\ \A f, k : At(f, k)' = At(f, k)
         /\ \A c : Orphan(c)' <=> Orphan(c)
  BY DEF FileNumbers, Length, At, Orphan

LEMMA WriteDataStep ==
  ASSUME MapInv, NEW t \in Sectors, WriteData(t)
  PROVE  MapInv'
<1> DEFINE c == ClusterOf(t)
<1>1. /\ UNCHANGED <<entries, fat, files>> /\ t \in dirty /\ dirty' = dirty \ {t}
      /\ IF Found(c)
           THEN real' = [real EXCEPT ![Owner(c)] = Put(real[Owner(c)], Offset(t), Meant(t))] /\ staged' = staged
           ELSE staged' = Put(staged, t, Meant(t)) /\ real' = real
      /\ strays' = IF Found(c) \/ HostOwners(t) \cap (1..Len(entries)) = {}
                     THEN strays \ {t} ELSE strays \cup {t}
  BY DEF WriteData
<1>2. /\ FilesInv /\ KnownInv /\ MirrorInv /\ DirtyInv /\ StagedInv /\ RealInv
  BY DEF MapInv
<1>3. FilesInv' /\ MirrorInv'
  BY <1>1, <1>2, SameFiles DEF FilesInv, MirrorInv
<1>4. DOMAIN real' = DOMAIN real
  BY <1>1
<1>5. KnownInv'
  BY <1>1, <1>2, <1>4, SameFiles DEF KnownInv
<1>6. DirtyInv'
  BY <1>1, <1>2, SameFiles DEF DirtyInv
<1>7. PICK f \in FileNumbers : files[f].live /\ \E k \in 1..Length(f) : At(f, k) = c
  BY <1>1, <1>2 DEF DirtyInv
<1>8. PICK k \in 1..Length(f) : At(f, k) = c
  BY <1>7
<1>9. HostOwners(t) = {f} /\ Meant(t) = Data(f, Pos(k, t)) /\ t \in Nat
  BY <1>1, <1>2, <1>7, <1>8, OneOwner DEF DirtyInv
<1>10. \A g \in FileNumbers : \A j \in 1..Length(g) : At(g, j) = c => g = f /\ j = k
  BY <1>2, <1>8 DEF FilesInv
<1>11. Len(entries) \in Nat /\ Len(files) \in Nat /\ Len(entries) <= Len(files)
  BY <1>2 DEF KnownInv, FilesInv
<1>12. CASE Found(c)
  <2>1. OwnersOf(c) # {}
    BY <1>12 DEF Found
  <2>2. f \in 1..Len(entries) /\ Owner(c) = f /\ Offset(t) = Pos(k, t)
    BY <1>2, <1>8, <2>1, LookupFinds
  <2>3. /\ staged' = staged /\ strays' = strays \ {t}
        /\ real' = [real EXCEPT ![f] = Put(real[f], Pos(k, t), Data(f, Pos(k, t)))]
    BY <1>1, <1>9, <1>12, <2>2
  <2> HIDE DEF c
  <2>4. f \in DOMAIN real
    BY <1>2, <2>2 DEF KnownInv
  <2>5. real'[f] = Put(real[f], Pos(k, t), Data(f, Pos(k, t))) /\ \A g \in DOMAIN real : g # f => real'[g] = real[g]
    BY <2>3, <2>4
  <2>6. StagedInv'
    <3> SUFFICES ASSUME NEW s \in Sectors \ dirty', NEW g \in Len(entries) + 1..Len(files), NEW j \in 1..Length(g),
                        At(g, j) = ClusterOf(s)
                 PROVE  s \in DOMAIN staged /\ staged[s] = Data(g, Pos(j, s))
      BY <1>1, <1>2, <2>3, SameFiles DEF StagedInv
    <3>1. s # t
      BY <1>10, <1>11, <2>2 DEF FileNumbers, c
    <3> QED
      BY <1>1, <1>2, <3>1 DEF StagedInv
  <2>7. RealInv'
    <3> SUFFICES ASSUME NEW s \in Sectors \ (dirty' \cup strays'), NEW g \in 1..Len(entries), NEW j \in 1..Length(g),
                        At(g, j) = ClusterOf(s)
                 PROVE  Pos(j, s) \in DOMAIN real'[g] /\ real'[g][Pos(j, s)] = Data(g, Pos(j, s))
      BY <1>1, SameFiles DEF RealInv
    <3>1. g \in DOMAIN real /\ g \in FileNumbers
      BY <1>2, <1>11 DEF KnownInv, FileNumbers
    <3>2. CASE s = t
      <4>1. g = f /\ j = k
        BY <1>10, <3>1, <3>2 DEF c
      <4> QED
        BY <2>5, <3>2, <4>1 DEF Put
    <3>3. CASE s # t
      <4>1. Pos(j, s) \in DOMAIN real[g] /\ real[g][Pos(j, s)] = Data(g, Pos(j, s))
        BY <1>1, <1>2, <2>3, <3>3 DEF RealInv
      <4>2. CASE g # f
        BY <2>5, <3>1, <4>1, <4>2
      <4>3. CASE g = f
        <5>1. Pos(j, s) \in DOMAIN real'[f]
          BY <2>5, <4>1, <4>3 DEF Put
        <5>2. real'[f][Pos(j, s)] = IF Pos(j, s) = Pos(k, t) THEN Data(f, Pos(k, t)) ELSE real[f][Pos(j, s)]
          BY <2>5, <4>1, <4>3 DEF Put
        <5> QED
          BY <4>1, <4>3, <5>1, <5>2
      <4> QED
        BY <4>2, <4>3
    <3> QED
      BY <3>2, <3>3
  <2> QED
    BY <1>3, <1>5, <1>6, <2>6, <2>7 DEF MapInv
<1>13. CASE ~Found(c)
  <2>1. staged' = Put(staged, t, Data(f, Pos(k, t))) /\ real' = real
    BY <1>1, <1>9, <1>13
  <2>2. strays' = IF {f} \cap (1..Len(entries)) = {} THEN strays \ {t} ELSE strays \cup {t}
    BY <1>1, <1>9, <1>13
  <2> HIDE DEF c
  <2>3. DOMAIN staged' = DOMAIN staged \cup {t} /\ staged'[t] = Data(f, Pos(k, t))
        /\ \A s \in DOMAIN staged : s # t => staged'[s] = staged[s]
    BY <2>1 DEF Put
  <2>4. StagedInv'
    <3>1. \A s \in DOMAIN staged' : s \in Nat
      BY <1>2, <1>9, <2>3 DEF StagedInv
    <3> SUFFICES ASSUME NEW s \in Sectors \ dirty', NEW g \in Len(entries) + 1..Len(files), NEW j \in 1..Length(g),
                        At(g, j) = ClusterOf(s)
                 PROVE  s \in DOMAIN staged' /\ staged'[s] = Data(g, Pos(j, s))
      BY <1>1, <3>1, SameFiles DEF StagedInv
    <3>2. g \in FileNumbers
      BY <1>11 DEF FileNumbers
    <3>3. CASE s = t
      <4>1. g = f /\ j = k
        BY <1>10, <3>2, <3>3 DEF c
      <4> QED
        BY <2>3, <3>3, <4>1
    <3>4. CASE s # t
      <4>1. s \in DOMAIN staged /\ staged[s] = Data(g, Pos(j, s))
        BY <1>1, <1>2, <3>4 DEF StagedInv
      <4> QED
        BY <2>3, <3>4, <4>1
    <3> QED
      BY <3>3, <3>4
  <2>5. RealInv'
    <3> SUFFICES ASSUME NEW s \in Sectors \ (dirty' \cup strays'), NEW g \in 1..Len(entries), NEW j \in 1..Length(g),
                        At(g, j) = ClusterOf(s)
                 PROVE  Pos(j, s) \in DOMAIN real[g] /\ real[g][Pos(j, s)] = Data(g, Pos(j, s))
      BY <1>1, <2>1, SameFiles DEF RealInv
    <3>1. g \in FileNumbers
      BY <1>11 DEF FileNumbers
    <3>2. s # t
      <4> SUFFICES ASSUME s = t PROVE FALSE
        OBVIOUS
      <4>1. g = f
        BY <1>10, <3>1 DEF c
      <4> QED
        BY <2>2, <4>1
    <3>3. s \in Sectors \ (dirty \cup strays)
      BY <1>1, <2>2, <3>2
    <3> QED
      BY <1>2, <3>3 DEF RealInv
  <2> QED
    BY <1>3, <1>5, <1>6, <2>4, <2>5 DEF MapInv
<1> QED
  BY <1>12, <1>13

LEMMA ReadDataStep ==
  ASSUME MapInv, (\E s \in Sectors : ReadData(s)) \/ UNCHANGED vars
  PROVE  MapInv'
<1>1. UNCHANGED <<entries, fat, real, staged, files, dirty, strays>>
  BY DEF ReadData, vars, device, host
<1> QED
  BY <1>1, SameFiles DEF MapInv, FilesInv, KnownInv, MirrorInv, DirtyInv, StagedInv, RealInv

LEMMA SectorsAreNat == Sectors \subseteq Nat
<1>1. (LastCluster - 1) * ClusterSectors \in Int
  BY SizesAssumption
<1> QED
  BY <1>1 DEF Sectors

-----------------------------------------------------------------------------
(* The host writes its FAT.                                                 *)

\* A chain is no longer than there are clusters.
LEMMA ChainFits ==
  ASSUME FilesInv, NEW f \in FileNumbers
  PROVE  Length(f) <= LastCluster
<1>1. Length(f) \in Nat /\ \A k \in 1..Length(f) : At(f, k) \in Clusters
  BY FileTyped
<1> DEFINE n == Length(f)
           h == [k \in 1..n |-> At(f, k)]
<1>2. \A j, k \in 1..n : At(f, j) = At(f, k) => j = k
  BY DEF FilesInv
<1> HIDE DEF n
<1>3. h \in Injection(1..n, Clusters)
  BY <1>1, <1>2 DEF Injection, IsInjective, n
<1>4. LastCluster \in Nat /\ LastCluster >= 2
  BY SizesAssumption
<1>5. IsFiniteSet(Clusters) /\ Cardinality(Clusters) = LastCluster - 1
  BY <1>4, FS_Interval DEF Clusters
<1>6. Cardinality(1..n) = n
  BY <1>1, FS_Interval DEF n
<1>7. Cardinality(1..n) <= Cardinality(Clusters)
  BY <1>3, <1>5, FS_Injection
<1> QED
  BY <1>1, <1>4, <1>5, <1>6, <1>7 DEF n

LEMMA HostFatAt ==
  ASSUME FilesInv, NEW f \in FileNumbers, files[f].live, NEW k \in 1..Length(f)
  PROVE  HostFat(At(f, k)) = IF k < Length(f) THEN At(f, k + 1) ELSE End
<1> DEFINE c == At(f, k)
           at == {x \in (1..Len(files)) \X (1..LastCluster) :
                    files[x[1]].live /\ x[2] <= Len(files[x[1]].chain) /\ files[x[1]].chain[x[2]] = c}
<1>1. k \in 1..LastCluster /\ k \in Nat /\ Length(f) \in Nat
  <2>1. Length(f) <= LastCluster /\ Length(f) \in Nat /\ LastCluster \in Nat
    BY ChainFits, FileTyped, SizesAssumption
  <2> QED
    BY <2>1
<1>2. <<f, k>> \in at
  BY <1>1 DEF FileNumbers, Length, At
<1>3. ASSUME NEW x \in at PROVE x = <<f, k>>
  <2>1. /\ x \in FileNumbers \X (1..LastCluster) /\ x[2] <= Length(x[1]) /\ At(x[1], x[2]) = c
    BY DEF FileNumbers, Length, At
  <2>2. x[1] \in FileNumbers /\ x[2] \in Nat /\ x[2] >= 1 /\ x = <<x[1], x[2]>>
    BY <2>1, SizesAssumption
  <2>3. Length(x[1]) \in Nat
    BY <2>2, FileTyped
  <2>4. x[2] \in 1..Length(x[1])
    BY <2>1, <2>2, <2>3
  <2>5. x[1] = f /\ x[2] = k
    BY <2>1, <2>2, <2>4 DEF FilesInv
  <2> QED
    BY <2>2, <2>5
<1> DEFINE y == CHOOSE z \in at : TRUE
<1>4. y = <<f, k>>
  BY <1>2, <1>3
<1>5. HostFat(c) = IF at = {} THEN Unused
                   ELSE IF y[2] < Len(files[y[1]].chain) THEN files[y[1]].chain[y[2] + 1] ELSE End
  BY DEF HostFat
<1> HIDE DEF y, at, c
<1>6. y[1] = f /\ y[2] = k /\ at # {}
  BY <1>2, <1>4
<1> QED
  BY <1>5, <1>6 DEF Length, At, c

LEMMA HostFatNone ==
  ASSUME FilesInv, NEW c,
         ~ \E f \in FileNumbers : files[f].live /\ \E k \in 1..Length(f) : At(f, k) = c
  PROVE  HostFat(c) = Unused
<1> DEFINE at == {x \in (1..Len(files)) \X (1..LastCluster) :
                    files[x[1]].live /\ x[2] <= Len(files[x[1]].chain) /\ files[x[1]].chain[x[2]] = c}
<1>1. ASSUME NEW x \in at PROVE FALSE
  <2>1. /\ x \in FileNumbers \X (1..LastCluster) /\ x[2] <= Length(x[1]) /\ At(x[1], x[2]) = c
        /\ files[x[1]].live
    BY DEF FileNumbers, Length, At
  <2>2. x[1] \in FileNumbers /\ x[2] \in Nat /\ x[2] >= 1
    BY <2>1, SizesAssumption
  <2>3. Length(x[1]) \in Nat
    BY <2>2, FileTyped
  <2>4. x[2] \in 1..Length(x[1])
    BY <2>1, <2>2, <2>3
  <2> QED
    BY <2>1, <2>2, <2>4
<1>2. at = {}
  BY <1>1
<1> HIDE DEF at
<1>3. at = {} => HostFat(c) = Unused
  BY DEF HostFat, at
<1> QED
  BY <1>2, <1>3

LEMMA EndNoCluster == End \notin Clusters /\ Unused \notin Clusters /\ End # Unused
  BY EndAssumption DEF End, Unused, Clusters

LEMMA WriteFatStep ==
  ASSUME MapInv, WriteFat
  PROVE  MapInv'
<1>1. fat' = [c \in Clusters |-> HostFat(c)] /\ UNCHANGED <<entries, real, staged, files, dirty, strays>>
  BY DEF WriteFat, host
<1>2. FilesInv /\ KnownInv /\ MirrorInv /\ DirtyInv /\ StagedInv /\ RealInv
  BY DEF MapInv
<1>3. FilesInv' /\ KnownInv' /\ DirtyInv' /\ StagedInv' /\ RealInv'
  BY <1>1, <1>2, SameFiles DEF FilesInv, KnownInv, DirtyInv, StagedInv, RealInv
<1> DEFINE Linked(c) == \E f \in FileNumbers : files[f].live /\ \E k \in 1..Length(f) : At(f, k) = c
<1>4. ASSUME NEW c \in Clusters
      PROVE  /\ HostFat(c) \in Clusters \cup {Unused, End}
             /\ Linked(c) <=> HostFat(c) # Unused
             /\ HostFat(c) \in Clusters =>
                  \E f \in FileNumbers : files[f].live /\
                    \E k \in 1..Length(f) - 1 : At(f, k) = c /\ At(f, k + 1) = HostFat(c)
  <2>1. CASE ~Linked(c)
    BY <1>2, <2>1, HostFatNone, EndNoCluster
  <2>2. CASE Linked(c)
    <3>0. PICK f \in FileNumbers : files[f].live /\ \E k \in 1..Length(f) : At(f, k) = c
      BY <2>2
    <3>1. PICK k \in 1..Length(f) : At(f, k) = c
      BY <3>0
    <3>2. HostFat(c) = IF k < Length(f) THEN At(f, k + 1) ELSE End
      BY <1>2, <3>0, <3>1, HostFatAt
    <3>3. Length(f) \in Nat /\ \A j \in 1..Length(f) : At(f, j) \in Clusters
      BY <1>2, FileTyped
    <3>4. CASE k < Length(f)
      <4>1. k \in 1..Length(f) - 1 /\ k + 1 \in 1..Length(f)
        BY <3>3, <3>4
      <4>2. HostFat(c) = At(f, k + 1) /\ At(f, k + 1) \in Clusters
        BY <3>2, <3>3, <3>4, <4>1
      <4> QED
        BY <2>2, <3>0, <3>1, <4>1, <4>2, EndNoCluster
    <3>5. CASE ~(k < Length(f))
      BY <2>2, <3>2, <3>5, EndNoCluster
    <3> QED
      BY <3>4, <3>5
  <2> QED
    BY <2>1, <2>2
<1>5. MirrorInv'
  <2>1. fat' \in [Clusters -> Clusters \cup {Unused, End}] /\ \A c \in Clusters : fat'[c] = HostFat(c)
    BY <1>1, <1>4
  <2>2. ASSUME NEW c \in Clusters, HostFat(c) \in Clusters
        PROVE  /\ HostFat(HostFat(c)) # Unused
               /\ \E f \in FileNumbers : \E k \in 1..Length(f) - 1 : At(f, k) = c /\ At(f, k + 1) = HostFat(c)
    <3>0. PICK f \in FileNumbers : files[f].live /\
                  \E k \in 1..Length(f) - 1 : At(f, k) = c /\ At(f, k + 1) = HostFat(c)
      BY <1>4, <2>2
    <3>1. PICK k \in 1..Length(f) - 1 : At(f, k) = c /\ At(f, k + 1) = HostFat(c)
      BY <3>0
    <3>2. k + 1 \in 1..Length(f)
      BY <1>2, FileTyped
    <3>3. Linked(HostFat(c))
      BY <3>0, <3>1, <3>2
    <3>4. HostFat(HostFat(c)) # Unused
      BY <1>4, <2>2, <3>3
    <3> QED
      BY <3>1, <3>4
  <2> QED
    BY <1>1, <2>1, <2>2, SameFiles DEF MirrorInv
<1> QED
  BY <1>3, <1>5 DEF MapInv

-----------------------------------------------------------------------------
(* The host writes its directory.                                           *)

LEMMA EntryTyped ==
  ASSUME FilesInv, NEW f \in FileNumbers
  PROVE  Entry(f) \in EntryRecord /\ Entry(f).start = At(f, 1)
<1>1. At(f, 1) \in Clusters /\ Length(f) \in Nat /\ files[f].live \in BOOLEAN
  BY FileTyped
<1>2. SizeOf(f) \in Nat
  BY <1>1, SizesAssumption DEF SizeOf, Length
<1>3. Entry(f) = [start |-> At(f, 1), size |-> SizeOf(f), deleted |-> ~files[f].live]
  BY DEF Entry, At
<1> QED
  BY <1>1, <1>2, <1>3 DEF EntryRecord

\* A new file gets the sectors that wait for it, each at its place.
LEMMA StagedForNew ==
  ASSUME FilesInv, StagedInv, Len(entries) \in Nat, Len(files) \in Nat,
         NEW f \in Len(entries) + 1..Len(files), f \in FileNumbers, files[f].live,
         NEW s \in Sectors \ dirty, NEW k \in 1..Length(f), At(f, k) = ClusterOf(s)
  PROVE  Pos(k, s) \in DOMAIN StagedFor(f) /\ StagedFor(f)[Pos(k, s)] = Data(f, Pos(k, s))
<1> DEFINE mine == {t \in DOMAIN staged : f \in HostOwners(t)}
           places == {Position(f, t) : t \in mine}
           p == Pos(k, s)
<1>1. StagedFor(f) = [q \in places |-> staged[CHOOSE t \in mine : Position(f, t) = q]]
  BY DEF StagedFor
<1>2. s \in DOMAIN staged /\ staged[s] = Data(f, p)
  BY DEF StagedInv
<1>3. s \in mine /\ Position(f, s) = p
  BY <1>2, OneOwner, PositionIsPos
<1>4. ASSUME NEW t \in mine, Position(f, t) = p PROVE t = s
  <2>1. t \in Nat /\ f \in HostOwners(t)
    BY DEF StagedInv
  <2>2. PICK j \in 1..Length(f) : At(f, j) = ClusterOf(t)
    BY <2>1, OwnersHave
  <2>3. Position(f, t) = Pos(j, t)
    BY <2>2, PositionIsPos
  <2>4. j \in Nat /\ k \in Nat /\ s \in Nat
    <3>1. Length(f) \in Nat
      BY FileTyped
    <3> QED
      BY <3>1, SectorsAreNat
  <2>5. j = k
    BY <1>4, <2>1, <2>3, <2>4, PosOneToOne
  <2> QED
    BY <1>4, <2>1, <2>2, <2>3, <2>4, <2>5, PosOneToOne
<1>5. (CHOOSE t \in mine : Position(f, t) = p) = s
  BY <1>3, <1>4
<1>6. p \in places
  BY <1>3
<1> HIDE DEF mine, places, p
<1>7. StagedFor(f)[p] = staged[CHOOSE t \in mine : Position(f, t) = p]
  BY <1>1, <1>6
<1> QED
  BY <1>1, <1>2, <1>5, <1>6, <1>7 DEF p

LEMMA WriteDirectoryStep ==
  ASSUME MapInv, WriteDirectory
  PROVE  MapInv'
<1>1. /\ UNCHANGED <<fat, files, dirty, strays>>
      /\ entries' = [f \in 1..Len(files) |-> Entry(f)]
      /\ real' = [f \in 1..Len(files) |->
                   IF f > Len(entries) THEN StagedFor(f)
                   ELSE IF SizeOf(f) < entries[f].size THEN Cut(real[f], SizeOf(f)) ELSE real[f]]
      /\ staged' = [s \in {q \in DOMAIN staged : HostOwners(q) \cap (Len(entries) + 1..Len(files)) = {}}
                     |-> staged[s]]
  BY DEF WriteDirectory, host
<1>2. FilesInv /\ KnownInv /\ MirrorInv /\ DirtyInv /\ StagedInv /\ RealInv
  BY DEF MapInv
<1>3. FilesInv' /\ MirrorInv' /\ DirtyInv'
  BY <1>1, <1>2, SameFiles DEF FilesInv, MirrorInv, DirtyInv
<1>4. Len(files) \in Nat /\ Len(entries) \in Nat /\ Len(entries) <= Len(files) /\ FileNumbers = 1..Len(files)
  BY <1>2 DEF KnownInv, FilesInv, FileNumbers
<1>5. entries' \in Seq(EntryRecord) /\ Len(entries') = Len(files) /\ \A f \in FileNumbers : entries'[f].start = At(f, 1)
  <2>1. \A f \in 1..Len(files) : Entry(f) \in EntryRecord /\ Entry(f).start = At(f, 1)
    BY <1>2, <1>4, EntryTyped
  <2> QED
    BY <1>1, <1>4, <2>1
<1>6. KnownInv'
  <2>1. DOMAIN real' = 1..Len(files)
    BY <1>1
  <2> QED
    BY <1>1, <1>4, <1>5, <2>1, SameFiles DEF KnownInv
<1>7. StagedInv'
  <2>1. \A s \in DOMAIN staged' : s \in Nat
    BY <1>1, <1>2 DEF StagedInv
  <2>2. Len(entries') + 1..Len(files) = {}
    BY <1>4, <1>5
  <2> QED
    BY <1>1, <2>1, <2>2 DEF StagedInv
<1>8. RealInv'
  <2> SUFFICES ASSUME NEW s \in Sectors \ (dirty \cup strays), NEW f \in FileNumbers, NEW k \in 1..Length(f),
                      At(f, k) = ClusterOf(s)
               PROVE  Pos(k, s) \in DOMAIN real'[f] /\ real'[f][Pos(k, s)] = Data(f, Pos(k, s))
    BY <1>1, <1>4, <1>5, SameFiles DEF RealInv
  <2>1. f \in 1..Len(files) /\ f \in Nat
    BY <1>4
  <2>2. CASE f > Len(entries)
    <3>1. f \in Len(entries) + 1..Len(files) /\ files[f].live
      BY <1>2, <1>4, <2>1, <2>2 DEF KnownInv
    <3>2. real'[f] = StagedFor(f)
      BY <1>1, <2>1, <2>2
    <3> QED
      BY <1>2, <1>4, <3>1, <3>2, StagedForNew
  <2>3. CASE ~(f > Len(entries))
    <3>1. f \in 1..Len(entries)
      BY <1>4, <2>1, <2>3
    <3>2. Pos(k, s) \in DOMAIN real[f] /\ real[f][Pos(k, s)] = Data(f, Pos(k, s))
      BY <1>2, <3>1 DEF RealInv
    <3>3. Pos(k, s) < SizeOf(f)
      <4>1. Length(f) \in Nat /\ s \in Nat
        BY <1>2, FileTyped, SectorsAreNat
      <4> QED
        BY <4>1, PosInside DEF SizeOf, Length
    <3>4. real'[f] = IF SizeOf(f) < entries[f].size THEN Cut(real[f], SizeOf(f)) ELSE real[f]
      BY <1>1, <2>1, <2>3
    <3>5. Pos(k, s) \in DOMAIN Cut(real[f], SizeOf(f)) /\ Cut(real[f], SizeOf(f))[Pos(k, s)] = real[f][Pos(k, s)]
      BY <3>2, <3>3 DEF Cut
    <3> QED
      BY <3>2, <3>4, <3>5
  <2> QED
    BY <2>2, <2>3
<1> QED
  BY <1>3, <1>6, <1>7, <1>8 DEF MapInv

-----------------------------------------------------------------------------
(* The host edits its files.                                                *)

LEMMA VacantIs ==
  ASSUME NEW c \in Vacant
  PROVE  c \in Clusters /\ Orphan(c) /\ fat[c] = Unused
  BY DEF Vacant, Orphan, FileNumbers, Length, At

\* A free cluster is added at the end of a live file, or makes a new one.
LEMMA AddedStep ==
  ASSUME MapInv, FilesInv', NEW c \in Vacant, UNCHANGED device,
         dirty' = dirty \cup SectorsOf(c), strays' = strays \ SectorsOf(c), Len(files) <= Len(files'),
         \A g \in FileNumbers : /\ g \in FileNumbers' /\ files'[g].live = files[g].live
                                /\ \A k \in 1..Length(g) : k \in 1..Length(g)' /\ At(g, k)' = At(g, k),
         \A g \in FileNumbers' : /\ g \in FileNumbers \/ files'[g].live
                                 /\ \A k \in 1..Length(g)' :
                                      (g \in FileNumbers /\ k \in 1..Length(g)) \/ At(g, k)' = c,
         \E g \in FileNumbers' : files'[g].live /\ \E k \in 1..Length(g)' : At(g, k)' = c
  PROVE  MapInv'
<1>1. FilesInv /\ KnownInv /\ MirrorInv /\ DirtyInv /\ StagedInv /\ RealInv
  BY DEF MapInv
<1>2. UNCHANGED <<entries, fat, real, staged>>
  BY DEF device
<1>3. c \in Clusters /\ Orphan(c) /\ fat[c] = Unused
  BY VacantIs
<1>4. /\ Len(files) \in Nat /\ Len(entries) \in Nat /\ Len(files') \in Nat
      /\ FileNumbers = 1..Len(files) /\ FileNumbers' = 1..Len(files')
  BY <1>1 DEF KnownInv, FilesInv, FileNumbers
<1>5. KnownInv'
  <2>1. ASSUME NEW i \in 1..Len(entries) PROVE entries[i].start = At(i, 1)'
    <3>1. i \in FileNumbers /\ entries[i].start = At(i, 1)
      BY <1>1, <1>4 DEF KnownInv
    <3>2. 1 \in 1..Length(i)
      BY <1>1, <3>1, FileTyped
    <3> QED
      BY <3>1, <3>2
  <2>2. ASSUME NEW g \in Len(entries) + 1..Len(files') PROVE files'[g].live
    <3>1. g \in FileNumbers'
      BY <1>4
    <3>2. g \in FileNumbers => g \in Len(entries) + 1..Len(files)
      BY <1>4
    <3> QED
      BY <1>1, <3>1, <3>2 DEF KnownInv
  <2> QED
    BY <1>1, <1>2, <1>4, <2>1, <2>2 DEF KnownInv
<1>6. MirrorInv'
  <2> SUFFICES ASSUME NEW x \in Clusters, fat[x] \in Clusters
               PROVE  \/ Orphan(fat[x])'
                      \/ \E f \in FileNumbers' : \E k \in 1..Length(f)' - 1 : At(f, k)' = x /\ At(f, k + 1)' = fat[x]
    BY <1>1, <1>2 DEF MirrorInv
  <2>1. fat[x] # c
    BY <1>1, <1>3 DEF MirrorInv
  <2>2. CASE Orphan(fat[x])
    <3>1. Orphan(fat[x])'
      BY <1>2, <2>1, <2>2 DEF Orphan
    <3> QED
      BY <3>1
  <2>3. CASE ~Orphan(fat[x])
    <3>0. PICK f \in FileNumbers : \E k \in 1..Length(f) - 1 : At(f, k) = x /\ At(f, k + 1) = fat[x]
      BY <1>1, <2>3 DEF MirrorInv
    <3>1. PICK k \in 1..Length(f) - 1 : At(f, k) = x /\ At(f, k + 1) = fat[x]
      BY <3>0
    <3>2. k \in 1..Length(f) /\ k + 1 \in 1..Length(f)
      BY <1>1, FileTyped
    <3>3. f \in FileNumbers' /\ k + 1 \in 1..Length(f)' /\ At(f, k)' = x /\ At(f, k + 1)' = fat[x]
      BY <3>1, <3>2
    <3>4. k \in 1..Length(f)' - 1
      <4>1. Length(f)' \in Nat
        BY <3>3 DEF FilesInv, FileNumbers, Length, FileRecord
      <4> QED
        BY <3>2, <3>3, <4>1
    <3> QED
      BY <3>3, <3>4
  <2> QED
    BY <2>2, <2>3
<1>7. DirtyInv'
  <2> SUFFICES ASSUME NEW s \in dirty \cup SectorsOf(c)
               PROVE  s \in Nat /\ \E f \in FileNumbers' : files'[f].live /\ \E k \in 1..Length(f)' : At(f, k)' = ClusterOf(s)
    BY DEF DirtyInv
  <2>1. CASE s \in dirty
    BY <1>1, <2>1 DEF DirtyInv
  <2>2. CASE s \in SectorsOf(c)
    <3>1. s \in Nat
      <4>1. First(c) \in Nat
        BY <1>3, SizesAssumption DEF First, Clusters
      <4> QED
        BY <2>2, <4>1, SizesAssumption DEF SectorsOf
    <3>2. ClusterOf(s) = c
      BY <1>3, <2>2, <3>1, SectorsOfCluster
    <3> QED
      BY <3>1, <3>2
  <2> QED
    BY <2>1, <2>2
<1>8. ASSUME NEW s \in Sectors \ dirty', NEW g \in FileNumbers', NEW k \in 1..Length(g)', At(g, k)' = ClusterOf(s)
      PROVE  s \in Sectors \ dirty /\ s \notin SectorsOf(c) /\ g \in FileNumbers /\ k \in 1..Length(g) /\ At(g, k) = ClusterOf(s)
  <2>1. s \in Nat /\ s \notin SectorsOf(c) /\ s \notin dirty
    BY SectorsAreNat
  <2>2. ClusterOf(s) # c
    BY <1>3, <2>1, SectorsOfCluster
  <2> QED
    BY <1>8, <2>1, <2>2
<1>9. StagedInv'
  <2>1. \A s \in DOMAIN staged' : s \in Nat
    BY <1>1, <1>2 DEF StagedInv
  <2> SUFFICES ASSUME NEW s \in Sectors \ dirty', NEW g \in Len(entries) + 1..Len(files'), NEW k \in 1..Length(g)',
                      At(g, k)' = ClusterOf(s)
               PROVE  s \in DOMAIN staged /\ staged[s] = Data(g, Pos(k, s))
    BY <1>2, <2>1 DEF StagedInv
  <2>2. g \in FileNumbers'
    BY <1>4
  <2>3. s \in Sectors \ dirty /\ g \in Len(entries) + 1..Len(files) /\ k \in 1..Length(g) /\ At(g, k) = ClusterOf(s)
    BY <1>4, <1>8, <2>2
  <2> QED
    BY <1>1, <2>3 DEF StagedInv
<1>10. RealInv'
  <2> SUFFICES ASSUME NEW s \in Sectors \ (dirty' \cup strays'), NEW g \in 1..Len(entries), NEW k \in 1..Length(g)',
                      At(g, k)' = ClusterOf(s)
               PROVE  Pos(k, s) \in DOMAIN real[g] /\ real[g][Pos(k, s)] = Data(g, Pos(k, s))
    BY <1>2 DEF RealInv
  <2>1. g \in FileNumbers'
    BY <1>1, <1>4 DEF KnownInv
  <2>2. s \in Sectors \ (dirty \cup strays) /\ k \in 1..Length(g) /\ At(g, k) = ClusterOf(s)
    BY <1>8, <2>1
  <2> QED
    BY <1>1, <2>2 DEF RealInv
<1> QED
  BY <1>5, <1>6, <1>7, <1>9, <1>10 DEF MapInv

\* A file's chain, or its being there, changed.
LEMMA FileChanged ==
  ASSUME FilesInv, NEW f \in FileNumbers, NEW s \in Seq(Clusters), Len(s) >= 1, NEW b \in BOOLEAN,
         files' = [files EXCEPT ![f] = [chain |-> s, live |-> b]]
  PROVE  /\ files' \in Seq(FileRecord) /\ Len(files') = Len(files) /\ FileNumbers' = FileNumbers
         /\ files'[f].live = b /\ Length(f)' = Len(s) /\ \A k : At(f, k)' = s[k]
         /\ \A g \in FileNumbers : g # f =>
              files'[g].live = files[g].live /\ Length(g)' = Length(g) /\ \A k : At(g, k)' = At(g, k)
<1> DEFINE r == [chain |-> s, live |-> b]
<1>1. r \in FileRecord /\ r.chain = s /\ r.live = b
  BY DEF FileRecord
<1>2. files \in Seq(FileRecord) /\ FileNumbers = 1..Len(files)
  BY DEF FilesInv, FileNumbers
<1>3. files' = [files EXCEPT ![f] = r]
  OBVIOUS
<1> HIDE DEF r
<1>4. /\ files' \in Seq(FileRecord) /\ Len(files') = Len(files) /\ files'[f] = r
      /\ \A g \in FileNumbers : g # f => files'[g] = files[g]
  BY <1>1, <1>2, <1>3
<1> QED
  BY <1>1, <1>2, <1>4 DEF FileNumbers, Length, At

LEMMA Relinked ==
  ASSUME NEW r \in FileRecord, NEW s \in Seq(Clusters)
  PROVE  [r EXCEPT !.chain = s] = [chain |-> s, live |-> r.live]
  BY DEF FileRecord

LEMMA GrowStep ==
  ASSUME MapInv, NEW f \in 1..Len(files), Grow(f)
  PROVE  MapInv'
<1>1. FilesInv /\ f \in FileNumbers /\ files[f].live
  BY DEF MapInv, Grow, FileNumbers
<1>2. PICK c \in Vacant : /\ files' = [files EXCEPT ![f].chain = Append(files[f].chain, c)]
                          /\ dirty' = dirty \cup SectorsOf(c) /\ strays' = strays \ SectorsOf(c)
  BY DEF Grow
<1>3. UNCHANGED device
  BY DEF Grow
<1>4. c \in Clusters /\ Orphan(c)
  BY VacantIs
<1>0. files[f] \in FileRecord /\ files[f].chain \in Seq(Clusters) /\ Length(f) \in Nat \ {0}
  BY <1>1, FileTyped
<1>16. PICK s : s = Append(files[f].chain, c)
  OBVIOUS
<1>17. PICK n : n = Length(f)
  OBVIOUS
<1>5. n \in Nat \ {0}
  BY <1>0, <1>17
<1>6. /\ s \in Seq(Clusters) /\ Len(s) = n + 1 /\ s[n + 1] = c
      /\ \A k \in 1..n : s[k] = At(f, k)
  BY <1>0, <1>4, <1>16, <1>17, AppendProperties DEF Length, At
<1>18. PICK b : b = files[f].live
  OBVIOUS
<1>19. b \in BOOLEAN /\ b
  BY <1>0, <1>1, <1>18 DEF FileRecord
<1>7. files' = [files EXCEPT ![f] = [chain |-> s, live |-> b]]
  <2>1. [files[f] EXCEPT !.chain = s] = [chain |-> s, live |-> b]
    BY <1>0, <1>6, <1>18, Relinked
  <2>2. files' = [files EXCEPT ![f] = [files[f] EXCEPT !.chain = s]]
    BY <1>2, <1>16
  <2> QED
    BY <2>1, <2>2
<1>8. /\ files' \in Seq(FileRecord) /\ Len(files') = Len(files) /\ FileNumbers' = FileNumbers
      /\ files'[f].live /\ Length(f)' = n + 1 /\ \A k : At(f, k)' = s[k]
      /\ \A g \in FileNumbers : g # f =>
           files'[g].live = files[g].live /\ Length(g)' = Length(g) /\ \A k : At(g, k)' = At(g, k)
  <2>1. Len(s) >= 1
    BY <1>5, <1>6
  <2>2. files'[f].live = b /\ Length(f)' = Len(s)
    BY <1>1, <1>6, <1>7, <1>19, <2>1, FileChanged
  <2> QED
    BY <1>1, <1>6, <1>7, <1>19, <2>1, <2>2, FileChanged
<1>9. ASSUME NEW g \in FileNumbers, NEW k \in 1..Length(g)
      PROVE  k \in 1..Length(g)' /\ At(g, k)' = At(g, k)
  <2>1. CASE g = f
    BY <1>5, <1>6, <1>8, <1>17, <2>1
  <2>2. CASE g # f
    BY <1>8, <2>2
  <2> QED
    BY <2>1, <2>2
<1>10. ASSUME NEW g \in FileNumbers, NEW k \in 1..Length(g)'
       PROVE  k \in 1..Length(g) \/ (g = f /\ k = n + 1 /\ At(g, k)' = c)
  <2>1. CASE g = f
    BY <1>5, <1>6, <1>8, <1>17, <2>1
  <2>2. CASE g # f
    BY <1>8, <2>2
  <2> QED
    BY <2>1, <2>2
<1>11. FilesInv'
  <2>1. ASSUME NEW g \in FileNumbers, NEW h \in FileNumbers, NEW j \in 1..Length(g)', NEW k \in 1..Length(h)',
               At(g, j)' = At(h, k)'
        PROVE  g = h /\ j = k
    <3>1. CASE j \in 1..Length(g) /\ k \in 1..Length(h)
      BY <1>1, <1>9, <2>1, <3>1 DEF FilesInv
    <3>2. CASE j \notin 1..Length(g) /\ k \notin 1..Length(h)
      BY <1>10, <3>2
    <3>3. CASE j \in 1..Length(g) /\ k \notin 1..Length(h)
      BY <1>4, <1>9, <1>10, <2>1, <3>3 DEF Orphan
    <3>4. CASE j \notin 1..Length(g) /\ k \in 1..Length(h)
      BY <1>4, <1>9, <1>10, <2>1, <3>4 DEF Orphan
    <3> QED
      BY <3>1, <3>2, <3>3, <3>4
  <2>2. ASSUME NEW g \in FileNumbers PROVE Length(g)' >= 1
    BY <1>1, <1>5, <1>8 DEF FilesInv
  <2> QED
    BY <1>8, <2>1, <2>2 DEF FilesInv
<1>12. \A g \in FileNumbers : /\ g \in FileNumbers' /\ files'[g].live = files[g].live
                              /\ \A k \in 1..Length(g) : k \in 1..Length(g)' /\ At(g, k)' = At(g, k)
  <2>1. files'[f].live = files[f].live
    BY <1>1, <1>8
  <2> QED
    BY <1>8, <1>9, <2>1
<1>13. \A g \in FileNumbers' : /\ g \in FileNumbers \/ files'[g].live
                               /\ \A k \in 1..Length(g)' :
                                    (g \in FileNumbers /\ k \in 1..Length(g)) \/ At(g, k)' = c
  BY <1>8, <1>10
<1>14. \E g \in FileNumbers' : files'[g].live /\ \E k \in 1..Length(g)' : At(g, k)' = c
  <2>1. n + 1 \in 1..Length(f)' /\ At(f, n + 1)' = c
    BY <1>5, <1>6, <1>8
  <2> QED
    BY <1>1, <1>8, <2>1
<1>15. Len(files) <= Len(files')
  BY <1>1, <1>8 DEF FilesInv
<1> QED
  BY <1>2, <1>3, <1>11, <1>12, <1>13, <1>14, <1>15, AddedStep

LEMMA CreateStep ==
  ASSUME MapInv, Create
  PROVE  MapInv'
<1>1. FilesInv /\ files \in Seq(FileRecord) /\ Len(files) \in Nat
  BY DEF MapInv, FilesInv
<1>0. PICK n : n = Len(files) + 1
  OBVIOUS
<1>2. PICK c \in Vacant : /\ files' = Append(files, [chain |-> <<c>>, live |-> TRUE])
                          /\ dirty' = dirty \cup SectorsOf(c) /\ strays' = strays \ SectorsOf(c)
  BY DEF Create
<1>3. UNCHANGED device
  BY DEF Create
<1>4. c \in Clusters /\ Orphan(c)
  BY VacantIs
<1> DEFINE r == [chain |-> <<c>>, live |-> TRUE]
<1>5. <<c>> \in Seq(Clusters) /\ r \in FileRecord /\ r.live = TRUE /\ Len(r.chain) = 1 /\ r.chain[1] = c
  BY <1>4 DEF FileRecord
<1> HIDE DEF r
<1>6. files' = Append(files, r)
  BY <1>2 DEF r
<1>7. /\ files' \in Seq(FileRecord) /\ Len(files') = n /\ files'[n] = r
      /\ \A g \in 1..Len(files) : files'[g] = files[g]
  BY <1>0, <1>1, <1>5, <1>6, AppendProperties
<1>8. FileNumbers' = FileNumbers \cup {n} /\ n \notin FileNumbers
  BY <1>0, <1>1, <1>7 DEF FileNumbers
<1>9. /\ files'[n].live /\ Length(n)' = 1 /\ At(n, 1)' = c
      /\ \A g \in FileNumbers :
           files'[g].live = files[g].live /\ Length(g)' = Length(g) /\ \A k : At(g, k)' = At(g, k)
  BY <1>5, <1>7 DEF FileNumbers, Length, At
<1>10. FilesInv'
  <2>1. ASSUME NEW g \in FileNumbers', NEW h \in FileNumbers', NEW j \in 1..Length(g)', NEW k \in 1..Length(h)',
               At(g, j)' = At(h, k)'
        PROVE  g = h /\ j = k
    <3>1. CASE g \in FileNumbers /\ h \in FileNumbers
      BY <1>1, <1>9, <2>1, <3>1 DEF FilesInv
    <3>2. CASE g = n /\ h = n
      BY <1>9, <3>2
    <3>3. CASE g \in FileNumbers /\ h = n
      BY <1>4, <1>9, <2>1, <3>3 DEF Orphan
    <3>4. CASE g = n /\ h \in FileNumbers
      BY <1>4, <1>9, <2>1, <3>4 DEF Orphan
    <3> QED
      BY <1>8, <3>1, <3>2, <3>3, <3>4
  <2>2. ASSUME NEW g \in FileNumbers' PROVE Length(g)' >= 1
    BY <1>1, <1>8, <1>9 DEF FilesInv
  <2> QED
    BY <1>7, <2>1, <2>2 DEF FilesInv
<1>11. \A g \in FileNumbers : /\ g \in FileNumbers' /\ files'[g].live = files[g].live
                              /\ \A k \in 1..Length(g) : k \in 1..Length(g)' /\ At(g, k)' = At(g, k)
  BY <1>8, <1>9
<1>12. \A g \in FileNumbers' : /\ g \in FileNumbers \/ files'[g].live
                               /\ \A k \in 1..Length(g)' :
                                    (g \in FileNumbers /\ k \in 1..Length(g)) \/ At(g, k)' = c
  BY <1>8, <1>9
<1>13. \E g \in FileNumbers' : files'[g].live /\ \E k \in 1..Length(g)' : At(g, k)' = c
  <2>1. 1 \in 1..Length(n)' /\ n \in FileNumbers'
    BY <1>8, <1>9
  <2> QED
    BY <1>9, <2>1
<1>14. Len(files) <= Len(files')
  BY <1>0, <1>1, <1>7
<1> QED
  BY <1>2, <1>3, <1>10, <1>11, <1>12, <1>13, <1>14, AddedStep

LEMMA ShrinkStep ==
  ASSUME MapInv, NEW f \in 1..Len(files), Shrink(f)
  PROVE  MapInv'
<1>1. FilesInv /\ KnownInv /\ MirrorInv /\ DirtyInv /\ StagedInv /\ RealInv /\ f \in FileNumbers
  BY DEF MapInv, FileNumbers
<1>2. files[f] \in FileRecord /\ files[f].chain \in Seq(Clusters) /\ Length(f) \in Nat /\ Length(f) > 1
  BY <1>1, FileTyped DEF Shrink, Length
<1>3. PICK n : n = Length(f) - 1
  OBVIOUS
<1>4. PICK s : s = SubSeq(files[f].chain, 1, n)
  OBVIOUS
<1>5. PICK b : b = files[f].live
  OBVIOUS
<1>6. PICK c : c = At(f, n + 1)
  OBVIOUS
<1>7. /\ n \in Nat \ {0} /\ n + 1 = Length(f) /\ n + 1 \in 1..Length(f) /\ b \in BOOLEAN
      /\ s \in Seq(Clusters) /\ Len(s) = n /\ \A k \in 1..n : s[k] = At(f, k)
      /\ c \in Clusters
  <2>1. n \in Nat \ {0} /\ n + 1 = Length(f) /\ n + 1 \in 1..Length(f) /\ b \in BOOLEAN
    BY <1>2, <1>3, <1>5 DEF FileRecord
  <2>2. s \in Seq(Clusters) /\ Len(s) = n /\ \A k \in 1..n : s[k] = At(f, k)
    BY <1>2, <1>4, <2>1, SubSeqProperties DEF Length, At
  <2>3. c \in Clusters
    BY <1>1, <1>6, <2>1, FileTyped
  <2> QED
    BY <2>1, <2>2, <2>3
<1>8. UNCHANGED <<entries, fat, real, staged, strays>> /\ dirty' = dirty \ SectorsOf(c)
  BY <1>6, <1>7 DEF Shrink, device, At, Length
<1>9. files' = [files EXCEPT ![f] = [chain |-> s, live |-> b]]
  <2>1. [files[f] EXCEPT !.chain = s] = [chain |-> s, live |-> b]
    BY <1>2, <1>5, <1>7, Relinked
  <2>2. files' = [files EXCEPT ![f] = [files[f] EXCEPT !.chain = s]]
    BY <1>3, <1>4 DEF Shrink, Length
  <2> QED
    BY <2>1, <2>2
<1>10. /\ files' \in Seq(FileRecord) /\ Len(files') = Len(files) /\ FileNumbers' = FileNumbers
       /\ files'[f].live = files[f].live /\ Length(f)' = n /\ \A k : At(f, k)' = s[k]
       /\ \A g \in FileNumbers : g # f =>
            files'[g].live = files[g].live /\ Length(g)' = Length(g) /\ \A k : At(g, k)' = At(g, k)
  <2>1. Len(s) >= 1
    BY <1>7
  <2>2. files'[f].live = b /\ Length(f)' = Len(s)
    BY <1>1, <1>7, <1>9, <2>1, FileChanged
  <2>3. files'[f].live = files[f].live /\ Length(f)' = n
    BY <1>5, <1>7, <2>2
  <2> QED
    BY <1>1, <1>7, <1>9, <2>1, <2>3, FileChanged
<1>11. ASSUME NEW g \in FileNumbers, NEW k \in 1..Length(g)'
       PROVE  k \in 1..Length(g) /\ At(g, k)' = At(g, k) /\ At(g, k) # c
  <2>1. CASE g = f
    <3>1. k \in 1..n /\ k \in 1..Length(f) /\ k # n + 1
      BY <1>7, <1>10, <2>1
    <3>2. At(f, k) # c
      BY <1>1, <1>6, <1>7, <3>1 DEF FilesInv
    <3> QED
      BY <1>7, <1>10, <2>1, <3>1, <3>2
  <2>2. CASE g # f
    <3>1. k \in 1..Length(g) /\ At(g, k)' = At(g, k)
      BY <1>10, <2>2
    <3>2. At(g, k) # c
      BY <1>1, <1>6, <1>7, <2>2, <3>1 DEF FilesInv
    <3> QED
      BY <3>1, <3>2
  <2> QED
    BY <2>1, <2>2
<1>12. ASSUME NEW g \in FileNumbers, NEW k \in 1..Length(g), At(g, k) # c
       PROVE  k \in 1..Length(g)' /\ At(g, k)' = At(g, k)
  <2>1. CASE g = f
    <3>1. k # n + 1
      BY <1>6, <1>12, <2>1
    <3>2. k \in 1..n
      BY <1>7, <2>1, <3>1
    <3> QED
      BY <1>7, <1>10, <2>1, <3>2
  <2>2. CASE g # f
    BY <1>10, <2>2
  <2> QED
    BY <2>1, <2>2
<1>13. FilesInv'
  <2>1. ASSUME NEW g \in FileNumbers PROVE Length(g)' >= 1
    BY <1>1, <1>7, <1>10 DEF FilesInv
  <2>2. ASSUME NEW g \in FileNumbers, NEW h \in FileNumbers, NEW j \in 1..Length(g)', NEW k \in 1..Length(h)',
               At(g, j)' = At(h, k)'
        PROVE  g = h /\ j = k
    BY <1>1, <1>11, <2>2 DEF FilesInv
  <2> QED
    BY <1>10, <2>1, <2>2 DEF FilesInv
<1>14. Len(entries) \in Nat /\ Len(files) \in Nat /\ Len(entries) <= Len(files) /\ FileNumbers = 1..Len(files)
  BY <1>1 DEF KnownInv, FilesInv, FileNumbers
<1>15. KnownInv'
  <2>1. ASSUME NEW i \in 1..Len(entries) PROVE entries[i].start = At(i, 1)'
    <3>1. i \in FileNumbers /\ entries[i].start = At(i, 1)
      BY <1>1, <1>14 DEF KnownInv
    <3>2. Length(i)' >= 1 /\ Length(i)' \in Nat
      BY <1>10, <1>13, <3>1 DEF FilesInv, FileNumbers, Length, FileRecord
    <3>3. 1 \in 1..Length(i)'
      BY <3>2
    <3> QED
      BY <1>11, <3>1, <3>3
  <2>2. ASSUME NEW g \in Len(entries) + 1..Len(files) PROVE files'[g].live
    <3>1. g \in FileNumbers /\ files[g].live
      BY <1>1, <1>14 DEF KnownInv
    <3> QED
      BY <1>10, <3>1
  <2> QED
    BY <1>1, <1>8, <1>10, <2>1, <2>2 DEF KnownInv
<1>16. MirrorInv'
  <2> SUFFICES ASSUME NEW x \in Clusters, fat[x] \in Clusters
               PROVE  \/ Orphan(fat[x])'
                      \/ \E g \in FileNumbers : \E k \in 1..Length(g)' - 1 : At(g, k)' = x /\ At(g, k + 1)' = fat[x]
    BY <1>1, <1>8, <1>10 DEF MirrorInv
  <2>1. CASE Orphan(fat[x]) \/ fat[x] = c
    <3>1. Orphan(fat[x])'
      BY <1>8, <1>10, <1>11, <2>1 DEF Orphan
    <3> QED
      BY <3>1
  <2>2. CASE ~Orphan(fat[x]) /\ fat[x] # c
    <3>0. PICK g \in FileNumbers : \E k \in 1..Length(g) - 1 : At(g, k) = x /\ At(g, k + 1) = fat[x]
      BY <1>1, <2>2 DEF MirrorInv
    <3>1. PICK k \in 1..Length(g) - 1 : At(g, k) = x /\ At(g, k + 1) = fat[x]
      BY <3>0
    <3>2. k \in 1..Length(g) /\ k + 1 \in 1..Length(g)
      BY <1>1, FileTyped
    <3>3. k + 1 \in 1..Length(g)' /\ At(g, k + 1)' = fat[x]
      BY <1>12, <2>2, <3>1, <3>2
    <3>4. k \in 1..Length(g)' - 1 /\ k \in 1..Length(g)'
      <4>1. Length(g)' \in Nat
        BY <1>10, <1>13 DEF FilesInv, FileNumbers, Length, FileRecord
      <4> QED
        BY <3>2, <3>3, <4>1
    <3>5. At(g, k)' = x
      BY <1>11, <3>1, <3>4
    <3> QED
      BY <3>3, <3>4, <3>5
  <2> QED
    BY <2>1, <2>2
<1>17. DirtyInv'
  <2> SUFFICES ASSUME NEW t \in dirty \ SectorsOf(c)
               PROVE  t \in Nat /\ \E g \in FileNumbers : files'[g].live /\ \E k \in 1..Length(g)' : At(g, k)' = ClusterOf(t)
    BY <1>8, <1>10 DEF DirtyInv
  <2>1. t \in Nat
    BY <1>1 DEF DirtyInv
  <2>2. PICK g \in FileNumbers : files[g].live /\ \E k \in 1..Length(g) : At(g, k) = ClusterOf(t)
    BY <1>1 DEF DirtyInv
  <2>3. PICK k \in 1..Length(g) : At(g, k) = ClusterOf(t)
    BY <2>2
  <2>4. ClusterOf(t) # c
    BY <1>7, <2>1, SectorsOfCluster
  <2>5. k \in 1..Length(g)' /\ At(g, k)' = ClusterOf(t)
    BY <1>12, <2>3, <2>4
  <2>6. files'[g].live
    BY <1>10, <2>2
  <2> QED
    BY <2>1, <2>5, <2>6
<1>18. ASSUME NEW t \in Sectors \ dirty', NEW g \in FileNumbers, NEW k \in 1..Length(g)', At(g, k)' = ClusterOf(t)
       PROVE  t \in Sectors \ dirty /\ k \in 1..Length(g) /\ At(g, k) = ClusterOf(t)
  <2>1. k \in 1..Length(g) /\ At(g, k) = ClusterOf(t) /\ ClusterOf(t) # c
    BY <1>11, <1>18
  <2>2. t \notin SectorsOf(c)
    BY <1>7, <2>1, SectorsOfCluster, SectorsAreNat
  <2> QED
    BY <1>8, <2>1, <2>2
<1>19. StagedInv'
  <2> SUFFICES ASSUME NEW t \in Sectors \ dirty', NEW g \in Len(entries) + 1..Len(files), NEW k \in 1..Length(g)',
                      At(g, k)' = ClusterOf(t)
               PROVE  t \in DOMAIN staged /\ staged[t] = Data(g, Pos(k, t))
    BY <1>1, <1>8, <1>10 DEF StagedInv
  <2>1. g \in FileNumbers
    BY <1>14
  <2> QED
    BY <1>1, <1>18, <2>1 DEF StagedInv
<1>20. RealInv'
  <2> SUFFICES ASSUME NEW t \in Sectors \ (dirty' \cup strays), NEW g \in 1..Len(entries), NEW k \in 1..Length(g)',
                      At(g, k)' = ClusterOf(t)
               PROVE  Pos(k, t) \in DOMAIN real[g] /\ real[g][Pos(k, t)] = Data(g, Pos(k, t))
    BY <1>8 DEF RealInv
  <2>1. g \in FileNumbers
    BY <1>14
  <2>2. t \in Sectors \ (dirty \cup strays) /\ k \in 1..Length(g) /\ At(g, k) = ClusterOf(t)
    BY <1>18, <2>1
  <2> QED
    BY <1>1, <2>2 DEF RealInv
<1> QED
  BY <1>13, <1>15, <1>16, <1>17, <1>19, <1>20 DEF MapInv

LEMMA Turned ==
  ASSUME NEW r \in FileRecord, NEW b \in BOOLEAN
  PROVE  [r EXCEPT !.live = b] = [chain |-> r.chain, live |-> b]
  BY DEF FileRecord

LEMMA ToggleStep ==
  ASSUME MapInv, NEW f \in 1..Len(files), Toggle(f)
  PROVE  MapInv'
<1>1. FilesInv /\ KnownInv /\ MirrorInv /\ DirtyInv /\ StagedInv /\ RealInv /\ f \in FileNumbers
  BY DEF MapInv, FileNumbers
<1>2. files[f] \in FileRecord /\ files[f].chain \in Seq(Clusters) /\ Length(f) \in Nat \ {0}
  BY <1>1, FileTyped
<1>3. PICK s : s = files[f].chain
  OBVIOUS
<1>4. PICK b : b = ~files[f].live
  OBVIOUS
<1>5. s \in Seq(Clusters) /\ Len(s) = Length(f) /\ Len(s) >= 1 /\ b \in BOOLEAN
  <2>1. b \in BOOLEAN
    BY <1>4
  <2> QED
    BY <1>2, <1>3, <2>1 DEF Length
<1>6. files' = [files EXCEPT ![f] = [chain |-> s, live |-> b]]
  <2>1. files' = [files EXCEPT ![f] = [files[f] EXCEPT !.live = b]]
    BY <1>4 DEF Toggle
  <2>2. [files[f] EXCEPT !.live = b] = [chain |-> s, live |-> b]
    BY <1>2, <1>3, <1>5, Turned
  <2> QED
    BY <2>1, <2>2
<1>7. UNCHANGED <<entries, fat, real, staged, strays, dirty>>
  BY DEF Toggle, device
<1>8. /\ files' \in Seq(FileRecord) /\ Len(files') = Len(files) /\ FileNumbers' = FileNumbers
      /\ Length(f)' = Len(s) /\ \A k : At(f, k)' = s[k]
      /\ \A g \in FileNumbers : g # f =>
           files'[g].live = files[g].live /\ Length(g)' = Length(g) /\ \A k : At(g, k)' = At(g, k)
  BY <1>1, <1>5, <1>6, FileChanged
<1>9. \A g \in FileNumbers : Length(g)' = Length(g) /\ \A k : At(g, k)' = At(g, k)
  <2>1. \A k : s[k] = At(f, k)
    BY <1>3 DEF At
  <2> QED
    BY <1>5, <1>8, <2>1
<1>10. FilesInv'
  <2>1. \A g \in FileNumbers : Length(g)' >= 1
    BY <1>1, <1>9 DEF FilesInv
  <2>2. ASSUME NEW g \in FileNumbers, NEW h \in FileNumbers, NEW j \in 1..Length(g)', NEW k \in 1..Length(h)',
               At(g, j)' = At(h, k)'
        PROVE  g = h /\ j = k
    BY <1>1, <1>9, <2>2 DEF FilesInv
  <2> QED
    BY <1>8, <2>1, <2>2 DEF FilesInv
<1>11. Len(entries) \in Nat /\ Len(files) \in Nat /\ Len(entries) <= Len(files) /\ FileNumbers = 1..Len(files)
       /\ f \in 1..Len(entries)
  BY <1>1 DEF KnownInv, FilesInv, FileNumbers, Toggle, Settled
<1>12. KnownInv'
  <2>1. ASSUME NEW i \in 1..Len(entries) PROVE entries[i].start = At(i, 1)'
    BY <1>1, <1>9, <1>11 DEF KnownInv
  <2>2. ASSUME NEW g \in Len(entries) + 1..Len(files) PROVE files'[g].live
    <3>1. g \in FileNumbers /\ files[g].live /\ g # f
      BY <1>1, <1>11 DEF KnownInv
    <3> QED
      BY <1>8, <3>1
  <2> QED
    BY <1>1, <1>7, <1>8, <2>1, <2>2 DEF KnownInv
<1>13. MirrorInv'
  BY <1>1, <1>7, <1>8, <1>9 DEF MirrorInv, Orphan
<1>14. DirtyInv'
  <2> SUFFICES ASSUME NEW t \in dirty
               PROVE  t \in Nat /\ \E g \in FileNumbers : files'[g].live /\ \E k \in 1..Length(g)' : At(g, k)' = ClusterOf(t)
    BY <1>7, <1>8 DEF DirtyInv
  <2>1. t \in Nat
    BY <1>1 DEF DirtyInv
  <2>2. PICK g \in FileNumbers : files[g].live /\ \E k \in 1..Length(g) : At(g, k) = ClusterOf(t)
    BY <1>1 DEF DirtyInv
  <2>3. g # f
    <3> SUFFICES ASSUME NEW k \in 1..Length(f), At(f, k) = ClusterOf(t) PROVE FALSE
      BY <2>2
    <3>1. SectorsOf(At(f, k)) \cap dirty = {}
      BY DEF Toggle, At, Length
    <3>2. At(f, k) \in Clusters
      BY <1>1, FileTyped
    <3> QED
      BY <2>1, <3>1, <3>2, SectorsOfCluster
  <2> QED
    BY <1>8, <1>9, <2>1, <2>2, <2>3
<1>15. StagedInv'
  <2>1. Len(entries) + 1..Len(files) \subseteq FileNumbers
    BY <1>11
  <2> QED
    BY <1>1, <1>7, <1>8, <1>9, <2>1 DEF StagedInv
<1>16. RealInv'
  <2>1. 1..Len(entries) \subseteq FileNumbers
    BY <1>11
  <2> QED
    BY <1>1, <1>7, <1>8, <1>9, <2>1 DEF RealInv
<1> QED
  BY <1>10, <1>12, <1>13, <1>14, <1>15, <1>16 DEF MapInv

-----------------------------------------------------------------------------
(* The theorems.                                                            *)

LEMMA MapStep == MapInv /\ [Next]_vars => MapInv'
<1> SUFFICES ASSUME MapInv, [Next]_vars PROVE MapInv'
  OBVIOUS
<1>1. CASE \E s \in Sectors : WriteData(s)
  BY <1>1, WriteDataStep
<1>2. CASE (\E s \in Sectors : ReadData(s)) \/ UNCHANGED vars
  BY <1>2, ReadDataStep
<1>3. CASE WriteFat \/ WriteDirectory \/ Create
  BY <1>3, WriteFatStep, WriteDirectoryStep, CreateStep
<1>4. CASE \E f \in 1..Len(files) : Grow(f) \/ Shrink(f) \/ Toggle(f)
  BY <1>4, GrowStep, ShrinkStep, ToggleStep
<1> QED
  BY <1>1, <1>2, <1>3, <1>4 DEF Next

(* In whatever order the host writes its FAT, its directory and its data, a  *)
(* sector that it has written is in its file at its place, and never the     *)
(* data of another file: fatfs_locate_cluster on a mirror of any age finds   *)
(* the file that has the cluster or none, and what it does not find waits.   *)
THEOREM NoDataCrosses == Spec => []NoCrossTalk
<1>1. Init => MapInv
  BY MapInit
<1>2. MapInv => NoCrossTalk
  <2> SUFFICES ASSUME MapInv, NEW s \in Sectors \ (dirty \cup strays), NEW f \in HostOwners(s) \cap (1..Len(entries))
               PROVE  real[f][Position(f, s)] = Data(f, Position(f, s))
    BY DEF NoCrossTalk
  <2>1. FilesInv /\ RealInv
    BY DEF MapInv
  <2>2. PICK k \in 1..Length(f) : At(f, k) = ClusterOf(s)
    BY <2>1, OwnersHave
  <2>3. f \in FileNumbers
    BY <2>1, OwnersHave
  <2>4. Position(f, s) = Pos(k, s)
    BY <2>1, <2>2, <2>3, PositionIsPos
  <2> QED
    BY <2>1, <2>2, <2>4 DEF RealInv
<1> QED
  BY <1>1, <1>2, MapStep, PTL DEF Spec

(* When all is written back, every sector of every file is on the calculator *)
(* in its place, but those that went astray.                                 *)
THEOREM AllIsStored == Spec => []Stored
<1>1. Init => MapInv
  BY MapInit
<1>2. MapInv => Stored
  <2> SUFFICES ASSUME MapInv, AllWritten, NEW s \in Sectors \ strays, NEW f \in HostOwners(s)
               PROVE  Position(f, s) \in DOMAIN real[f] /\ real[f][Position(f, s)] = Data(f, Position(f, s))
    BY DEF Stored
  <2>1. FilesInv /\ KnownInv /\ RealInv
    BY DEF MapInv
  <2>2. PICK k \in 1..Length(f) : At(f, k) = ClusterOf(s)
    BY <2>1, OwnersHave
  <2>3. f \in FileNumbers
    BY <2>1, OwnersHave
  <2>4. Position(f, s) = Pos(k, s)
    BY <2>1, <2>2, <2>3, PositionIsPos
  <2>5. f \in 1..Len(entries) /\ s \notin dirty
    BY <2>1, <2>3 DEF AllWritten, Settled, FileNumbers, KnownInv
  <2> QED
    BY <2>1, <2>2, <2>4, <2>5 DEF RealInv
<1> QED
  BY <1>1, <1>2, MapStep, PTL DEF Spec

-----------------------------------------------------------------------------
(* Reading.                                                                 *)

\* The mirror of a file that is written out links all of its chain.
LEMMA ChainOfFile ==
  ASSUME FilesInv, NEW f \in FileNumbers, \A k \in 1..Length(f) - 1 : fat[At(f, k)] = At(f, k + 1),
         NEW k \in 1..Length(f)
  PROVE  k \in 1..Len(Chain(fat, At(f, 1))) /\ Chain(fat, At(f, 1))[k] = At(f, k)
<1> DEFINE s == Chain(fat, At(f, 1))
           n == Length(f)
           S == {j \in 1..n : j \in 1..Len(s) /\ s[j] = At(f, j)}
<1>1. n \in Nat \ {0} /\ (\A j \in 1..n : At(f, j) \in Clusters) /\ n <= LastCluster /\ LastCluster \in Nat
  BY FileTyped, ChainFits, SizesAssumption
<1>2. Follows(s, fat, At(f, 1), LastCluster)
  BY <1>1, ChainFollows
<1> HIDE DEF s, n
<1>3. /\ s \in Seq(Clusters) /\ Len(s) \in 1..LastCluster /\ s[1] = At(f, 1)
      /\ \A j \in 1..Len(s) - 1 : s[j + 1] = fat[s[j]]
      /\ Len(s) < LastCluster => fat[s[Len(s)]] \notin Clusters
  BY <1>2 DEF Follows, Links
<1>4. 1 \in S
  BY <1>1, <1>3
<1>5. ASSUME NEW j \in 1..n - 1, j \in S PROVE j + 1 \in S
  <2>1. j \in 1..n /\ j + 1 \in 1..n /\ j \in 1..Len(s) /\ s[j] = At(f, j) /\ j < LastCluster
    BY <1>1, <1>5
  <2>2. fat[s[j]] = At(f, j + 1) /\ At(f, j + 1) \in Clusters
    BY <1>1, <2>1 DEF n
  <2>3. Len(s) # j
    BY <1>3, <2>1, <2>2
  <2>4. j \in 1..Len(s) - 1 /\ j + 1 \in 1..Len(s)
    BY <1>3, <2>1, <2>3
  <2> QED
    BY <1>3, <2>1, <2>2, <2>4
<1> HIDE DEF S
<1>6. 1..n \subseteq S
  BY <1>1, <1>4, <1>5, CountUp
<1> QED
  BY <1>6 DEF S, s, n

(* When all is written back, a read returns what the host wrote, whatever    *)
(* was read and written before, unless its sector went astray or it follows  *)
(* a miss of the cluster before.                                             *)
THEOREM ReadsReturnStored == Spec => ReadsStored
<1> DEFINE Read == LET s == answer'.sector
                   IN  reads' # reads /\ AllWritten /\ HostOwners(s) # {}
                         => answer'.data = Meant(s) \/ s \in strays \/ KnownMiss(ClusterOf(s))
<1>1. Init => MapInv
  BY MapInit
<1>2. ASSUME MapInv, NEW s \in Sectors, ReadData(s), AllWritten, s \notin strays, ~KnownMiss(ClusterOf(s))
      PROVE  answer'.sector = s /\ answer'.data = Meant(s)
  <2>1. FilesInv /\ KnownInv /\ MirrorInv /\ RealInv
    BY <1>2 DEF MapInv
  <2>2. /\ HostOwners(s) # {}
        /\ answer' = [sector |-> s, data |-> IF Found(ClusterOf(s)) THEN Content(s) ELSE Zeros]
    BY <1>2 DEF ReadData
  <2>3. PICK f \in HostOwners(s) : TRUE
    BY <2>2
  <2>4. f \in FileNumbers /\ files[f].live
    BY <2>1, OwnersHave
  <2>5. PICK k \in 1..Length(f) : At(f, k) = ClusterOf(s)
    BY <2>1, OwnersHave
  <2>6. Meant(s) = Data(f, Pos(k, s))
    BY <2>1, <2>4, <2>5, OneOwner
  <2>7. f \in 1..Len(entries) /\ entries[f] = Entry(f) /\ s \notin dirty
    BY <2>1, <2>4, <1>2 DEF AllWritten, Settled, FileNumbers, KnownInv
  <2>8. \A j \in 1..Length(f) - 1 : fat[At(f, j)] = At(f, j + 1)
    <3> SUFFICES ASSUME NEW j \in 1..Length(f) - 1 PROVE fat[At(f, j)] = At(f, j + 1)
      OBVIOUS
    <3>1. j \in 1..Length(f) /\ j < Length(f) /\ At(f, j) \in Clusters
      <4>1. Length(f) \in Nat /\ \A i \in 1..Length(f) : At(f, i) \in Clusters
        BY <2>1, <2>4, FileTyped
      <4> QED
        BY <4>1
    <3>2. HostFat(At(f, j)) = At(f, j + 1)
      BY <2>1, <2>4, <3>1, HostFatAt
    <3> QED
      BY <1>2, <3>1, <3>2 DEF AllWritten
  <2>9. Found(ClusterOf(s))
    <3>1. k \in PositionsIn(f, ClusterOf(s))
      <4>1. entries[f].start = At(f, 1)
        BY <2>1, <2>7 DEF KnownInv
      <4>2. k \in 1..Len(Chain(fat, At(f, 1))) /\ Chain(fat, At(f, 1))[k] = At(f, k)
        BY <2>1, <2>4, <2>8, ChainOfFile
      <4>3. PositionsIn(f, ClusterOf(s)) =
              {j \in 1..Len(Chain(fat, At(f, 1))) : Chain(fat, At(f, 1))[j] = ClusterOf(s)}
        BY <4>1 DEF PositionsIn
      <4> QED
        BY <2>5, <4>2, <4>3
    <3>2. ~entries[f].deleted
      <4>1. Entry(f).deleted = ~files[f].live
        BY DEF Entry
      <4> QED
        BY <2>4, <2>7, <4>1
    <3>3. f \in OwnersOf(ClusterOf(s))
      BY <2>7, <3>1, <3>2 DEF OwnersOf
    <3> QED
      BY <1>2, <3>3 DEF Found
  <2>10. Owner(ClusterOf(s)) = f /\ Offset(s) = Pos(k, s)
    BY <2>1, <2>4, <2>5, <2>9, LookupFinds DEF Found
  <2>11. Pos(k, s) \in DOMAIN real[f] /\ real[f][Pos(k, s)] = Data(f, Pos(k, s))
    BY <1>2, <2>1, <2>5, <2>7 DEF RealInv
  <2>12. Pos(k, s) < entries[f].size
    <3>1. Length(f) \in Nat /\ s \in Nat
      BY <2>1, <2>4, FileTyped, SectorsAreNat
    <3>2. entries[f].size = Length(f) * ClusterSectors
      BY <2>7 DEF Entry, SizeOf, Length
    <3> QED
      BY <3>1, <3>2, PosInside
  <2>13. Content(s) = Data(f, Pos(k, s))
    BY <2>10, <2>11, <2>12 DEF Content
  <2> QED
    BY <2>2, <2>6, <2>9, <2>13
<1>3. ASSUME MapInv, [Next]_vars PROVE Read
  <2> SUFFICES ASSUME reads' # reads, AllWritten,
                      ~(answer'.sector \in strays), ~KnownMiss(ClusterOf(answer'.sector))
               PROVE  answer'.data = Meant(answer'.sector)
    OBVIOUS
  <2>1. PICK s \in Sectors : ReadData(s)
    BY <1>3 DEF Next, WriteData, WriteFat, WriteDirectory, Create, Grow, Shrink, Toggle, vars, host
  <2>2. answer'.sector = s
    BY <2>1 DEF ReadData
  <2> QED
    BY <1>2, <1>3, <2>1, <2>2
<1>4. MapInv /\ [Next]_vars => [Read]_vars
  BY <1>3
<1> QED
  BY <1>1, <1>4, MapStep, PTL DEF Spec, ReadsStored
====
