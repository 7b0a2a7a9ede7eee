---------------------------- MODULE VolumeProofs ----------------------------
(***************************************************************************)
(* Proofs about Volume, for every tree of files, every choice of names and *)
(* sizes, every order in which readdir lists them and every limit of the   *)
(* tables: what a session serves is the content of the disk, each file     *)
(* once, under a name and in clusters of its own.                          *)
(*                                                                         *)
(* First what the helpers compute (Entry, Starts, Marked, Table, Chain,    *)
(* Depths: the recursive functions by induction over a set), then the scan *)
(* (EntriesGood, CallsGood, Complete), then the inductive invariant.       *)
(*                                                                         *)
(* At the end, proofs about LongNames, the other half of what a file is    *)
(* called: what the host writes into the tables a scan laid out.           *)
(***************************************************************************)
EXTENDS Volume, LongNames, SequenceTheorems, FiniteSetTheorems, WellFoundedInduction, TLAPS

\* Induction on the numbers 1..n, over a set in place of a predicate.
LEMMA CountUp ==
  ASSUME NEW n \in Nat, NEW S, 1 \in S, \A k \in 1..n - 1 : k \in S => k + 1 \in S
  PROVE  1..n \subseteq S
<1> SUFFICES ASSUME NEW x \in 1..n, x \notin S PROVE FALSE
  OBVIOUS
<1> DEFINE T == {k \in 1..n : k \notin S}
<1>1. T \subseteq Nat /\ x \in T
  OBVIOUS
<1>2. PICK m \in T : \A k \in T : ~(<<k, m>> \in OpToRel(<, Nat))
  BY <1>1, NatLessThanWellFounded, WFMin
<1>3. m \in 1..n /\ m \notin S /\ m # 1
  BY <1>2
<1>4. m - 1 \in 1..n - 1 /\ (m - 1) + 1 = m /\ m - 1 < m
  BY <1>3
<1>5. m - 1 \notin T
  <2>1. m - 1 \in Nat /\ m \in Nat
    BY <1>3
  <2>2. <<m - 1, m>> \in OpToRel(<, Nat)
    BY <1>4, <2>1 DEF OpToRel
  <2> QED
    BY <1>2, <2>2
<1> QED
  BY <1>3, <1>4, <1>5

\* The same from 0.
LEMMA CountFromZero ==
  ASSUME NEW n \in Nat, NEW S, 0 \in S, \A k \in 0..n - 1 : k \in S => k + 1 \in S
  PROVE  0..n \subseteq S
<1> DEFINE T == {k \in 1..n + 1 : k - 1 \in S}
<1>1. 1 \in T
  OBVIOUS
<1>2. ASSUME NEW k \in 1..(n + 1) - 1, k \in T PROVE k + 1 \in T
  <2>1. k - 1 \in 0..n - 1 /\ (k - 1) + 1 = k /\ k + 1 \in 1..n + 1 /\ (k + 1) - 1 = k
    BY <1>2
  <2> QED
    BY <1>2, <2>1
<1>3. 1..n + 1 \subseteq T
  BY <1>1, <1>2, CountUp
<1>4. ASSUME NEW i \in 0..n PROVE i \in S
  <2>1. i + 1 \in 1..n + 1 /\ (i + 1) - 1 = i
    OBVIOUS
  <2> QED
    BY <1>3, <2>1
<1> QED
  BY <1>4

\* A function of 0..n is defined by its first value and a step.
Walk(f, n, D, base, step) ==
  f \in [0..n -> D] /\ f[0] = base /\ \A i \in 1..n : f[i] = step[<<f[i - 1], i>>]
LEMMA Steps ==
  ASSUME NEW n \in Nat, NEW D, NEW base \in D, NEW step \in [D \X (1..n) -> D]
  PROVE  \E f : Walk(f, n, D, base, step)
<1> DEFINE Good(f, k) == /\ f \in [0..k -> D] /\ f[0] = base
                         /\ \A i \in 1..k : f[i] = step[<<f[i - 1], i>>]
           S == {k \in 0..n : \E f : Good(f, k)}
<1>1. 0 \in S
  <2>1. Good([i \in 0..0 |-> base], 0)
    OBVIOUS
  <2> HIDE DEF Good
  <2> QED
    BY <2>1
<1>2. ASSUME NEW k \in 0..n - 1, k \in S PROVE k + 1 \in S
  <2>1. PICK f : Good(f, k)
    BY <1>2
  <2>2. k + 1 \in 1..n /\ f[k] \in D /\ step[<<f[k], k + 1>>] \in D
    BY <2>1
  <2> DEFINE g == [i \in 0..k + 1 |-> IF i <= k THEN f[i] ELSE step[<<f[k], k + 1>>]]
  <2>3. g \in [0..k + 1 -> D] /\ g[0] = base
    BY <2>1, <2>2
  <2>4. ASSUME NEW i \in 1..k + 1 PROVE g[i] = step[<<g[i - 1], i>>]
    <3>1. CASE i <= k
      <4>1. i \in 1..k /\ i - 1 \in 0..k + 1 /\ i - 1 <= k
        BY <3>1
      <4>2. g[i] = f[i] /\ g[i - 1] = f[i - 1]
        BY <4>1
      <4> QED
        BY <2>1, <4>1, <4>2
    <3>2. CASE i = k + 1
      <4>1. i \in 0..k + 1 /\ ~(i <= k) /\ k \in 0..k + 1 /\ k <= k /\ i - 1 = k
        BY <3>2
      <4>2. g[i] = step[<<f[k], k + 1>>] /\ g[k] = f[k]
        BY <4>1
      <4> QED
        BY <3>2, <4>1, <4>2
    <3> QED
      BY <3>1, <3>2
  <2>5. Good(g, k + 1)
    BY <2>3, <2>4
  <2>6. k + 1 \in 0..n
    OBVIOUS
  <2> HIDE DEF Good
  <2> QED
    BY <2>5, <2>6
<1>3. n \in S
  <2> HIDE DEF S
  <2>1. 0..n \subseteq S
    BY <1>1, <1>2, CountFromZero
  <2> QED
    BY <2>1
<1>4. PICK f : Good(f, n)
  BY <1>3
<1>5. Walk(f, n, D, base, step)
  BY <1>4 DEF Walk
<1> QED
  BY <1>5

-----------------------------------------------------------------------------
(* Entries.                                                                 *)

Names == {Name[n] : n \in Nodes} \cup {Synthetic[i] : i \in 1..4}
Shorts == {Candidate(name, n) : name \in Names, n \in 1..LastTail} \cup {Overflow}
EntryRecord ==
  [node : Nodes \cup {NoNode}, long : Names, short : Shorts, parent : Nat, dir : BOOLEAN, size : Nat, slot : Int]

LEMMA NameTyped == Names \subseteq Seq(STRING) /\ \A n \in Nodes : Name[n] \in Names
<1>1. \A i \in 1..4 : Synthetic[i] \in Seq(STRING)
  BY NamesAssumption, SyntheticAssumption, ElementOfSeq, SMTT(20)
<1> QED
  BY <1>1, NamesAssumption DEF Names

\* The tail of a candidate is its number.
LEMMA TailsDiffer ==
  ASSUME NEW name, NEW m \in Nat \ {0}, NEW n \in Nat \ {0}, Candidate(name, m).tail = Candidate(name, n).tail
  PROVE  m = n
  BY DEF Candidate

\* The short name chosen is one that no sibling has, or there are LastTail siblings.
LEMMA ShortNameFree ==
  ASSUME NEW ents \in Seq(EntryRecord), NEW parent, NEW name \in Names
  PROVE  LET short == ShortName(ents, parent, name)
             siblings == {i \in DOMAIN ents : ents[i].parent = parent}
         IN  /\ short \in Shorts
             /\ \/ ~Collides(ents, parent, short)
                \/ short = Overflow /\ Cardinality(siblings) >= LastTail
<1> DEFINE free == {n \in 1..LastTail : ~Collides(ents, parent, Candidate(name, n))}
           siblings == {i \in DOMAIN ents : ents[i].parent = parent}
<1>0. LastTail \in Nat /\ IsFiniteSet(siblings) /\ Cardinality(siblings) \in Nat
  <2>1. IsFiniteSet(1..Len(ents)) /\ siblings \subseteq 1..Len(ents)
    BY FS_Interval
  <2> QED
    BY <2>1, FS_Subset, FS_CardinalityType, SizesAssumption
<1>1. CASE free = {}
  <2>1. ShortName(ents, parent, name) = Overflow
    BY <1>1 DEF ShortName
  <2>2. \A n \in 1..LastTail : \E i \in siblings :
          ents[i].short.stem = Candidate(name, n).stem /\ ents[i].short.tail = Candidate(name, n).tail
    BY <1>1 DEF Collides
  <2> DEFINE like == [n \in 1..LastTail |->
                        CHOOSE i \in siblings : ents[i].short.tail = Candidate(name, n).tail]
  <2>3. \A n \in 1..LastTail : like[n] \in siblings /\ ents[like[n]].short.tail = Candidate(name, n).tail
    BY <2>2
  <2>4. like \in Injection(1..LastTail, siblings)
    <3>1. like \in [1..LastTail -> siblings]
      BY <2>3
    <3>2. ASSUME NEW m \in 1..LastTail, NEW n \in 1..LastTail, like[m] = like[n] PROVE m = n
      <4>1. Candidate(name, m).tail = Candidate(name, n).tail /\ m \in Nat \ {0} /\ n \in Nat \ {0}
        BY <2>3, <3>2, <1>0
      <4> QED
        BY <4>1, TailsDiffer
    <3> HIDE DEF like
    <3> QED
      BY <3>1, <3>2 DEF Injection, IsInjective
  <2>5. Cardinality(siblings) >= LastTail
    <3>1. IsFiniteSet(1..LastTail) /\ Cardinality(1..LastTail) = LastTail
      <4>1. LastTail \in Int /\ LastTail >= 1 /\ 1 \in Int
        BY SizesAssumption
      <4>2. IsFiniteSet(1..LastTail) /\ Cardinality(1..LastTail) = IF 1 > LastTail THEN 0 ELSE (LastTail - 1) + 1
        BY <4>1, FS_Interval
      <4> QED
        BY <4>1, <4>2
    <3>2. Cardinality(1..LastTail) <= Cardinality(siblings)
      BY <1>0, <2>4, <3>1, FS_Injection
    <3> QED
      BY <1>0, <3>1, <3>2
  <2> QED
    BY <2>1, <2>5 DEF Shorts
<1>2. CASE free # {}
  <2>1. PICK m \in free : \A n \in free : m <= n
    <3>1. free \subseteq Nat
      OBVIOUS
    <3>2. PICK m \in free : \A n \in free : ~(<<n, m>> \in OpToRel(<, Nat))
      BY <1>2, <3>1, NatLessThanWellFounded, WFMin
    <3>3. ASSUME NEW n \in free PROVE m <= n
      <4>1. m \in Nat /\ n \in Nat
        BY <3>1
      <4>2. ~(n < m)
        BY <3>2, <4>1 DEF OpToRel
      <4> QED
        BY <4>1, <4>2
    <3> QED
      BY <3>3
  <2>2. Min(free) \in free
    BY <2>1 DEF Min
  <2>3. ShortName(ents, parent, name) = Candidate(name, Min(free))
    BY <1>2 DEF ShortName
  <2>4. Min(free) \in 1..LastTail /\ ~Collides(ents, parent, Candidate(name, Min(free)))
    BY <2>2
  <2>5. \A n \in 1..LastTail : Candidate(name, n) \in Shorts
    BY DEF Shorts
  <2> QED
    BY <2>3, <2>4, <2>5
<1> QED
  BY <1>1, <1>2

\* Entries of the same short name collide.
LEMMA AlikeCollide ==
  ASSUME NEW ents, NEW parent, NEW i \in DOMAIN ents, ents[i].parent = parent
  PROVE  Collides(ents, parent, ents[i].short)
  BY DEF Collides

\* Siblings have different short names, until there are too many of them.
ApartIn(ents) ==
  \A i, j \in DOMAIN ents : i < j /\ ents[i].parent = ents[j].parent =>
    \/ ents[i].short # ents[j].short
    \/ ents[j].short = Overflow /\ Cardinality({k \in 1..j - 1 : ents[k].parent = ents[j].parent}) >= LastTail

\* An entry added has a short name apart.
LEMMA EntryAdded ==
  ASSUME NEW ents \in Seq(EntryRecord), ApartIn(ents), NEW name \in Names,
         NEW e \in EntryRecord, e.short = ShortName(ents, e.parent, name)
  PROVE  Append(ents, e) \in Seq(EntryRecord) /\ ApartIn(Append(ents, e))
<1> DEFINE new == Append(ents, e)
           parent == e.parent
<1>1. e.short = ShortName(ents, parent, name) /\ e.parent = parent
  OBVIOUS
<1>3. e \in EntryRecord
  OBVIOUS
<1>4. new \in Seq(EntryRecord) /\ Len(new) = Len(ents) + 1 /\ new[Len(new)] = e
  BY <1>3
<1>5. \A i \in 1..Len(ents) : i \in DOMAIN new /\ new[i] = ents[i]
  BY <1>3
<1>6. ASSUME NEW i \in DOMAIN new, NEW j \in DOMAIN new, i < j, new[i].parent = new[j].parent
      PROVE  \/ new[i].short # new[j].short
             \/ new[j].short = Overflow /\ Cardinality({k \in 1..j - 1 : new[k].parent = new[j].parent}) >= LastTail
  <2>0. i \in 1..Len(ents) + 1 /\ j \in 1..Len(ents) + 1 /\ i \in 1..Len(ents) /\ Len(ents) \in Nat
    BY <1>4, <1>6
  <2>1. {k \in 1..j - 1 : new[k].parent = new[j].parent} = {k \in 1..j - 1 : ents[k].parent = new[j].parent}
    BY <1>5, <2>0
  <2>2. CASE j \in 1..Len(ents)
    <3>1. new[i] = ents[i] /\ new[j] = ents[j] /\ i \in DOMAIN ents /\ j \in DOMAIN ents
      BY <1>5, <2>0, <2>2
    <3> HIDE DEF new
    <3>2. \/ ents[i].short # ents[j].short
          \/ ents[j].short = Overflow /\ Cardinality({k \in 1..j - 1 : ents[k].parent = ents[j].parent}) >= LastTail
      BY <1>6, <3>1 DEF ApartIn
    <3> QED
      BY <2>1, <3>1, <3>2
  <2>3. CASE j = Len(ents) + 1
    <3>1. new[j] = e /\ new[i] = ents[i] /\ ents[i].parent = parent
      BY <1>1, <1>4, <1>5, <1>6, <2>0, <2>3
    <3>2. j - 1 = Len(ents) /\ {k \in 1..j - 1 : ents[k].parent = new[j].parent} = {k \in DOMAIN ents : ents[k].parent = parent}
      BY <2>3, <3>1, <1>1
    <3>3. CASE ~Collides(ents, parent, e.short)
      BY <3>1, <3>3, AlikeCollide, <2>0
    <3>4. CASE e.short = Overflow /\ Cardinality({k \in DOMAIN ents : ents[k].parent = parent}) >= LastTail
      BY <2>1, <3>1, <3>2, <3>4
    <3> QED
      BY <1>1, <3>3, <3>4, ShortNameFree
  <2>4. j \in 1..Len(ents) \/ j = Len(ents) + 1
    BY <2>0
  <2> HIDE DEF new
  <2> QED
    BY <2>2, <2>3, <2>4
<1> QED
  BY <1>4, <1>6 DEF ApartIn

-----------------------------------------------------------------------------
(* Arithmetic.                                                              *)

LEMMA CeilDivIs ==
  ASSUME NEW a \in Nat, NEW b \in Nat \ {0}
  PROVE  CeilDiv(a, b) \in Nat /\ CeilDiv(a, b) * b >= a
<1>1. (a + b) - 1 \in Nat
  OBVIOUS
<1> DEFINE n == (a + b) - 1
           q == n \div b
           r == n % b
<1>2. q \in Int /\ r \in 0..b - 1 /\ n = b * q + r
  BY <1>1
<1>3. q \in Nat
  BY <1>1
<1>4. b * q = q * b /\ b * q \in Nat
  BY <1>3
<1>5. CeilDiv(a, b) = q
  BY DEF CeilDiv
<1>6. n = (a + b) - 1
  OBVIOUS
<1> HIDE DEF n, q, r
<1>7. q * b >= a
  BY <1>2, <1>4, <1>6
<1> QED
  BY <1>3, <1>5, <1>7

LEMMA LargerOf ==
  ASSUME NEW a \in Nat, NEW b \in Nat
  PROVE  Max({a, b}) \in Nat /\ Max({a, b}) >= a /\ Max({a, b}) >= b
<1>1. \E x \in {a, b} : \A y \in {a, b} : x >= y
  <2>1. CASE a >= b
    BY <2>1
  <2>2. CASE b >= a
    BY <2>2
  <2> QED
    BY <2>1, <2>2
<1>2. Max({a, b}) \in {a, b} /\ \A y \in {a, b} : Max({a, b}) >= y
  BY <1>1 DEF Max
<1> QED
  BY <1>2

LEMMA GroupSlotsNat ==
  ASSUME NEW e \in EntryRecord
  PROVE  GroupSlots(e) \in Nat
<1>1. Len(e.long) \in Nat
  BY NameTyped, LenProperties DEF EntryRecord
<1>2. FragmentLength \in Nat \ {0}
  BY SizesAssumption
<1>3. CeilDiv(Len(e.long), FragmentLength) \in Nat
  BY <1>1, <1>2, CeilDivIs
<1> QED
  BY <1>3 DEF GroupSlots

LEMMA ClustersNat ==
  ASSUME NEW e \in EntryRecord
  PROVE  /\ Clusters(e) \in Nat
         /\ ~(e.dir /\ e.slot = NoSlot) => Clusters(e) >= 1
         /\ ~e.dir => Clusters(e) * ClusterUnits >= e.size
<1>1. e.size \in Nat /\ ClusterUnits \in Nat \ {0}
  BY SizesAssumption DEF EntryRecord
<1> DEFINE q == CeilDiv(e.size, ClusterUnits)
           m == Max({1, q})
<1>2. q \in Nat /\ q * ClusterUnits >= e.size
  BY <1>1, CeilDivIs
<1>3. m \in Nat /\ m >= 1 /\ m >= q
  BY <1>2, LargerOf
<1>4. Clusters(e) = IF e.dir THEN IF e.slot = NoSlot THEN 0 ELSE 1 ELSE m
  BY DEF Clusters
<1> HIDE DEF q, m
<1>5. m * ClusterUnits >= q * ClusterUnits
  BY <1>1, <1>2, <1>3
<1>6. m * ClusterUnits \in Nat /\ q * ClusterUnits \in Nat
  BY <1>1, <1>2, <1>3
<1>7. m * ClusterUnits >= e.size
  BY <1>1, <1>2, <1>5, <1>6
<1> QED
  BY <1>3, <1>4, <1>7

-----------------------------------------------------------------------------
(* Table.                                                                   *)

TableRecord(n) == [used : Nat, listed : Seq(1..n)]
Listing(ents, dir, slots, t, i) ==
  IF ents[i].parent # dir \/ t.used + GroupSlots(ents[i]) > slots THEN t
  ELSE [used |-> t.used + GroupSlots(ents[i]), listed |-> Append(t.listed, i)]
IsListing(u, ents, dir, from, slots) ==
  u = [i \in 0..Len(ents) |-> IF i = 0 THEN [used |-> from, listed |-> << >>]
                              ELSE Listing(ents, dir, slots, u[i - 1], i)]

LEMMA ListingTyped ==
  ASSUME NEW ents \in Seq(EntryRecord), NEW dir, NEW slots \in Nat,
         NEW t \in TableRecord(Len(ents)), NEW i \in 1..Len(ents)
  PROVE  Listing(ents, dir, slots, t, i) \in TableRecord(Len(ents))
<1>1. GroupSlots(ents[i]) \in Nat
  BY GroupSlotsNat
<1>2. t.used \in Nat /\ t.listed \in Seq(1..Len(ents))
  BY DEF TableRecord
<1>3. Append(t.listed, i) \in Seq(1..Len(ents))
  BY <1>2
<1>4. t.used + GroupSlots(ents[i]) \in Nat
  BY <1>1, <1>2
<1> QED
  BY <1>3, <1>4 DEF TableRecord, Listing

LEMMA ListingExists ==
  ASSUME NEW ents \in Seq(EntryRecord), NEW dir, NEW from \in Nat, NEW slots \in Nat
  PROVE  \E u : IsListing(u, ents, dir, from, slots)
<1> DEFINE n == Len(ents)
           base == [used |-> from, listed |-> << >>]
           step == [x \in TableRecord(n) \X (1..n) |-> Listing(ents, dir, slots, x[1], x[2])]
<1>1. n \in Nat /\ base \in TableRecord(n)
  BY DEF TableRecord
<1>2. step \in [TableRecord(n) \X (1..n) -> TableRecord(n)]
  BY ListingTyped
<1>3. PICK u : Walk(u, n, TableRecord(n), base, step)
  <2> HIDE DEF step, base, n
  <2> QED
    BY <1>1, <1>2, Steps
<1>4. ASSUME NEW i \in 0..n, i # 0 PROVE step[<<u[i - 1], i>>] = Listing(ents, dir, slots, u[i - 1], i)
  <2>1. i - 1 \in 0..n /\ i \in 1..n
    BY <1>1, <1>4
  <2>2. u[i - 1] \in TableRecord(n)
    BY <1>3, <2>1 DEF Walk
  <2> QED
    BY <2>1, <2>2
<1>5. u = [i \in 0..n |-> IF i = 0 THEN base ELSE Listing(ents, dir, slots, u[i - 1], i)]
  <2> HIDE DEF step, base, n
  <2>1. ASSUME NEW i \in 0..n PROVE u[i] = IF i = 0 THEN base ELSE Listing(ents, dir, slots, u[i - 1], i)
    <3>1. CASE i = 0
      BY <1>3, <3>1 DEF Walk
    <3>2. CASE i # 0
      <4>1. i \in 1..n
        BY <1>1, <3>2
      <4> QED
        BY <1>3, <1>4, <3>2, <4>1 DEF Walk
    <3> QED
      BY <3>1, <3>2
  <2>2. u = [i \in 0..n |-> u[i]]
    BY <1>3 DEF Walk
  <2> QED
    BY <2>1, <2>2
<1> QED
  BY <1>5 DEF IsListing, base, n

LEMMA TableWalks ==
  ASSUME NEW ents \in Seq(EntryRecord), NEW dir, NEW from \in Nat, NEW slots \in Nat
  PROVE  \E u : IsListing(u, ents, dir, from, slots) /\ Table(ents, dir, from, slots) = u[Len(ents)]
<1> DEFINE U == CHOOSE u : IsListing(u, ents, dir, from, slots)
<1>1. IsListing(U, ents, dir, from, slots)
  BY ListingExists
<1>2. Table(ents, dir, from, slots) = U[Len(ents)]
  BY DEF Table, IsListing, Listing
<1> QED
  BY <1>1, <1>2

\* A table lists entries of its folder in their order, and leaves out only what
\* does not fit.
ListedIn(t, k, ents, dir, slots) ==
  /\ t \in TableRecord(Len(ents)) /\ Len(t.listed) <= k
  /\ \A a \in 1..Len(t.listed) : t.listed[a] <= k /\ ents[t.listed[a]].parent = dir
  /\ \A a, b \in 1..Len(t.listed) : a < b => t.listed[a] < t.listed[b]
  /\ \A i \in 1..k : ents[i].parent = dir =>
       (\E a \in 1..Len(t.listed) : t.listed[a] = i) \/ t.used + GroupSlots(ents[i]) > slots

LEMMA ListOne ==
  ASSUME NEW ents \in Seq(EntryRecord), NEW dir, NEW slots \in Nat, NEW t,
         NEW k \in 0..Len(ents) - 1, ListedIn(t, k, ents, dir, slots)
  PROVE  ListedIn(Listing(ents, dir, slots, t, k + 1), k + 1, ents, dir, slots)
<1> DEFINE g == GroupSlots(ents[k + 1])
           n == Len(ents)
<1>0. k \in Nat /\ k + 1 \in 1..n /\ n \in Nat /\ g \in Nat
  BY GroupSlotsNat
<1>1. /\ t \in TableRecord(n) /\ t.used \in Nat /\ t.listed \in Seq(1..n) /\ Len(t.listed) \in Nat
      /\ \A a \in 1..Len(t.listed) : t.listed[a] \in 1..n
  BY DEF ListedIn, TableRecord
<1>2. CASE ents[k + 1].parent # dir \/ t.used + g > slots
  <2>1. Listing(ents, dir, slots, t, k + 1) = t
    BY <1>2 DEF Listing
  <2>2. Len(t.listed) <= k + 1 /\ \A a \in 1..Len(t.listed) : t.listed[a] <= k + 1
    BY <1>0, <1>1 DEF ListedIn
  <2>3. ASSUME NEW i \in 1..k + 1, ents[i].parent = dir
        PROVE  (\E a \in 1..Len(t.listed) : t.listed[a] = i) \/ t.used + GroupSlots(ents[i]) > slots
    <3>1. CASE i = k + 1
      BY <1>2, <2>3, <3>1
    <3>2. CASE i # k + 1
      <4>1. i \in 1..k
        BY <1>0, <3>2
      <4> QED
        BY <2>3, <4>1 DEF ListedIn
    <3> QED
      BY <3>1, <3>2
  <2> QED
    BY <1>1, <2>1, <2>2, <2>3 DEF ListedIn
<1>3. CASE ~(ents[k + 1].parent # dir \/ t.used + g > slots)
  <2> DEFINE w == Listing(ents, dir, slots, t, k + 1)
             l == Append(t.listed, k + 1)
  <2>1. w.used = t.used + g /\ w.listed = l
    BY <1>3 DEF Listing
  <2>2. w \in TableRecord(n)
    BY <1>0, <1>1, ListingTyped
  <2>3. /\ l \in Seq(1..n) /\ Len(l) = Len(t.listed) + 1 /\ l[Len(t.listed) + 1] = k + 1
        /\ \A a \in 1..Len(t.listed) : l[a] = t.listed[a]
    BY <1>0, <1>1
  <2> HIDE DEF w, l, g, n
  <2>4. Len(l) <= k + 1
    BY <1>0, <1>1, <2>3 DEF ListedIn
  <2>5. ASSUME NEW a \in 1..Len(l) PROVE l[a] <= k + 1 /\ ents[l[a]].parent = dir
    <3>1. CASE a = Len(t.listed) + 1
      BY <1>0, <1>3, <2>3, <3>1
    <3>2. CASE a # Len(t.listed) + 1
      <4>1. a \in 1..Len(t.listed)
        BY <1>1, <2>3, <3>2
      <4>2. l[a] = t.listed[a] /\ t.listed[a] <= k /\ ents[t.listed[a]].parent = dir /\ t.listed[a] \in 1..n
        BY <1>1, <2>3, <4>1 DEF ListedIn
      <4> QED
        BY <1>0, <4>2
    <3> QED
      BY <3>1, <3>2
  <2>6. ASSUME NEW a \in 1..Len(l), NEW b \in 1..Len(l), a < b PROVE l[a] < l[b]
    <3>1. a \in 1..Len(t.listed)
      BY <1>1, <2>3, <2>6
    <3>2. l[a] = t.listed[a] /\ t.listed[a] <= k /\ t.listed[a] \in 1..n
      BY <1>1, <2>3, <3>1 DEF ListedIn
    <3>3. CASE b = Len(t.listed) + 1
      BY <1>0, <2>3, <3>2, <3>3
    <3>4. CASE b # Len(t.listed) + 1
      <4>1. b \in 1..Len(t.listed)
        BY <1>1, <2>3, <3>4
      <4> QED
        BY <2>3, <2>6, <3>1, <3>2, <4>1 DEF ListedIn
    <3> QED
      BY <3>3, <3>4
  <2>7. ASSUME NEW i \in 1..k + 1, ents[i].parent = dir
        PROVE  (\E a \in 1..Len(l) : l[a] = i) \/ w.used + GroupSlots(ents[i]) > slots
    <3>1. CASE i = k + 1
      <4>1. Len(t.listed) + 1 \in 1..Len(l)
        BY <1>1, <2>3
      <4> QED
        BY <2>3, <3>1, <4>1
    <3>2. CASE i # k + 1
      <4>1. i \in 1..k /\ i \in 1..n
        BY <1>0, <3>2
      <4>2. CASE \E a \in 1..Len(t.listed) : t.listed[a] = i
        <5>1. PICK a \in 1..Len(t.listed) : t.listed[a] = i
          BY <4>2
        <5>2. a \in 1..Len(l) /\ l[a] = i
          BY <1>1, <2>3, <5>1
        <5> QED
          BY <5>2
      <4>3. CASE t.used + GroupSlots(ents[i]) > slots
        <5>1. GroupSlots(ents[i]) \in Nat
          BY <4>1, GroupSlotsNat DEF n
        <5> QED
          BY <1>0, <1>1, <2>1, <4>3, <5>1
      <4> QED
        BY <2>7, <4>1, <4>2, <4>3 DEF ListedIn
    <3> QED
      BY <3>1, <3>2
  <2> QED
    BY <2>1, <2>2, <2>4, <2>5, <2>6, <2>7 DEF ListedIn, w, n
<1> QED
  BY <1>2, <1>3

LEMMA TableLists ==
  ASSUME NEW ents \in Seq(EntryRecord), NEW dir, NEW from \in Nat, NEW slots \in Nat
  PROVE  ListedIn(Table(ents, dir, from, slots), Len(ents), ents, dir, slots)
<1>1. PICK u : IsListing(u, ents, dir, from, slots) /\ Table(ents, dir, from, slots) = u[Len(ents)]
  BY TableWalks
<1> DEFINE n == Len(ents)
           S == {k \in 0..n : ListedIn(u[k], k, ents, dir, slots)}
<1>2. n \in Nat
  OBVIOUS
<1>3. 0 \in S
  <2> DEFINE base == [used |-> from, listed |-> << >>]
  <2>1. u[0] = base
    BY <1>1, <1>2 DEF IsListing
  <2>2. base \in TableRecord(n) /\ Len(base.listed) = 0
    BY DEF TableRecord
  <2>3. 1..0 = {}
    OBVIOUS
  <2>4. ListedIn(base, 0, ents, dir, slots)
    BY <2>2, <2>3 DEF ListedIn
  <2> QED
    BY <1>2, <2>1, <2>4
<1>4. ASSUME NEW k \in 0..n - 1, k \in S PROVE k + 1 \in S
  <2>1. k + 1 \in 0..n /\ k + 1 # 0 /\ (k + 1) - 1 = k
    BY <1>2
  <2>2. u[k + 1] = Listing(ents, dir, slots, u[k], k + 1)
    BY <1>1, <2>1 DEF IsListing
  <2>3. ListedIn(u[k + 1], k + 1, ents, dir, slots)
    BY <1>4, <2>2, ListOne
  <2> QED
    BY <2>1, <2>3
<1>5. 0..n \subseteq S
  <2> HIDE DEF S, n
  <2> QED
    BY <1>2, <1>3, <1>4, CountFromZero
<1> QED
  BY <1>1, <1>2, <1>5

-----------------------------------------------------------------------------
(* Starts and Marked.                                                       *)

\* The clusters of the entries follow one another.
LaidOut(next, ents) ==
  /\ next \in [0..Len(ents) -> Nat] /\ next[0] = 2
  /\ \A i \in 1..Len(ents) : next[i] = next[i - 1] + Clusters(ents[i])
  /\ Starts(ents) = [i \in DOMAIN ents |-> IF ents[i].dir /\ ents[i].slot = NoSlot THEN 0 ELSE next[i - 1]]
IsNext(f, ents) == f = [i \in 0..Len(ents) |-> IF i = 0 THEN 2 ELSE f[i - 1] + Clusters(ents[i])]

LEMMA NextExists ==
  ASSUME NEW ents \in Seq(EntryRecord)
  PROVE  \E f : IsNext(f, ents)
<1> DEFINE n == Len(ents)
           step == [x \in Nat \X (1..n) |-> x[1] + Clusters(ents[x[2]])]
<1>1. n \in Nat /\ 2 \in Nat
  OBVIOUS
<1>2. step \in [Nat \X (1..n) -> Nat]
  BY ClustersNat
<1>3. PICK f : Walk(f, n, Nat, 2, step)
  <2> HIDE DEF step, n
  <2> QED
    BY <1>1, <1>2, Steps
<1>4. ASSUME NEW i \in 1..n PROVE f[i] = f[i - 1] + Clusters(ents[i])
  <2>1. i - 1 \in 0..n
    BY <1>1
  <2>2. f[i - 1] \in Nat
    BY <1>3, <2>1 DEF Walk
  <2>3. step[<<f[i - 1], i>>] = f[i - 1] + Clusters(ents[i])
    BY <2>2
  <2> HIDE DEF step, n
  <2> QED
    BY <1>3, <2>3 DEF Walk
<1> HIDE DEF n, step
<1>5. ASSUME NEW i \in 0..n PROVE f[i] = IF i = 0 THEN 2 ELSE f[i - 1] + Clusters(ents[i])
  <2>1. CASE i = 0
    BY <1>3, <2>1 DEF Walk
  <2>2. CASE i # 0
    <3>1. i \in 1..n
      BY <1>1, <2>2
    <3> QED
      BY <1>4, <2>2, <3>1
  <2> QED
    BY <2>1, <2>2
<1>6. f = [i \in 0..n |-> f[i]]
  BY <1>3 DEF Walk
<1>7. f = [i \in 0..n |-> IF i = 0 THEN 2 ELSE f[i - 1] + Clusters(ents[i])]
  BY <1>5, <1>6
<1> QED
  BY <1>7 DEF IsNext, n

LEMMA StartsLaidOut ==
  ASSUME NEW ents \in Seq(EntryRecord)
  PROVE  \E next : LaidOut(next, ents)
<1> DEFINE next == CHOOSE f : IsNext(f, ents)
           n == Len(ents)
<1>1. IsNext(next, ents)
  BY NextExists
<1>2. Starts(ents) = [i \in DOMAIN ents |-> IF ents[i].dir /\ ents[i].slot = NoSlot THEN 0 ELSE next[i - 1]]
  BY DEF Starts, IsNext
<1> HIDE DEF next
<1> DEFINE S == {k \in 0..n : next[k] \in Nat}
<1>3. n \in Nat
  OBVIOUS
<1>4. next[0] = 2 /\ \A i \in 1..n : next[i] = next[i - 1] + Clusters(ents[i])
  <2>1. \A i \in 1..n : i # 0 /\ i \in 0..n
    BY <1>3
  <2> QED
    BY <1>1, <1>3, <2>1 DEF IsNext
<1>5. 0 \in S
  BY <1>3, <1>4
<1>6. ASSUME NEW k \in 0..n - 1, k \in S PROVE k + 1 \in S
  <2>1. k + 1 \in 1..n /\ k + 1 \in 0..n /\ (k + 1) - 1 = k
    BY <1>3
  <2>2. next[k + 1] = next[k] + Clusters(ents[k + 1])
    BY <1>4, <2>1
  <2>3. Clusters(ents[k + 1]) \in Nat
    BY <2>1, ClustersNat
  <2> QED
    BY <1>6, <2>1, <2>2, <2>3
<1>7. 0..n \subseteq S
  <2> HIDE DEF S, n
  <2> QED
    BY <1>3, <1>5, <1>6, CountFromZero
<1>8. next = [i \in 0..n |-> next[i]]
  BY <1>1 DEF IsNext
<1>9. next \in [0..n -> Nat]
  BY <1>7, <1>8
<1> QED
  BY <1>2, <1>4, <1>9 DEF LaidOut

LEMMA NextGrows ==
  ASSUME NEW ents \in Seq(EntryRecord), NEW next, LaidOut(next, ents),
         NEW i \in 0..Len(ents), NEW j \in 0..Len(ents), i <= j
  PROVE  next[i] <= next[j]
<1> DEFINE n == Len(ents)
           S == {k \in 0..n : \A h \in 0..k : next[h] <= next[k]}
<1>1. n \in Nat /\ \A k \in 0..n : next[k] \in Nat
  <2>1. n \in Nat
    OBVIOUS
  <2>2. next \in [0..n -> Nat]
    BY DEF LaidOut
  <2> QED
    BY <2>1, <2>2
<1>2. 0 \in S
  BY <1>1
<1>3. ASSUME NEW k \in 0..n - 1, k \in S PROVE k + 1 \in S
  <2>1. k + 1 \in 1..n /\ (k + 1) - 1 = k /\ k \in 0..n /\ k + 1 \in 0..n
    BY <1>1
  <2>2. next[k + 1] = next[k] + Clusters(ents[k + 1]) /\ Clusters(ents[k + 1]) \in Nat
    BY <2>1, ClustersNat DEF LaidOut
  <2>3. ASSUME NEW h \in 0..k + 1 PROVE next[h] <= next[k + 1]
    <3>1. CASE h = k + 1
      BY <1>1, <2>1, <3>1
    <3>2. CASE h # k + 1
      <4>1. h \in 0..k /\ h \in 0..n
        BY <2>1, <3>2
      <4>2. next[h] <= next[k] /\ next[h] \in Nat /\ next[k] \in Nat
        BY <1>1, <1>3, <2>1, <4>1
      <4> QED
        BY <2>2, <4>2
    <3> QED
      BY <3>1, <3>2
  <2> QED
    BY <2>1, <2>3
<1>4. 0..n \subseteq S
  <2> HIDE DEF S, n
  <2> QED
    BY <1>1, <1>2, <1>3, CountFromZero
<1> QED
  BY <1>4

Owned(ents, i, c) == c \in Starts(ents)[i] .. Starts(ents)[i] + Clusters(ents[i]) - 1

\* An entry with clusters has those between its start and the next one's.
LEMMA OwnedIs ==
  ASSUME NEW ents \in Seq(EntryRecord), NEW next, LaidOut(next, ents), NEW i \in 1..Len(ents)
  PROVE  /\ next[i - 1] \in Nat /\ next[i - 1] >= 2 /\ next[i] = next[i - 1] + Clusters(ents[i])
         /\ Starts(ents)[i] # 0 => Starts(ents)[i] = next[i - 1] /\ Clusters(ents[i]) >= 1
         /\ \A c : Owned(ents, i, c) => c \in next[i - 1] .. next[i] - 1
         /\ Starts(ents)[i] # 0 => \A c \in next[i - 1] .. next[i] - 1 : Owned(ents, i, c)
<1>1. Len(ents) \in Nat /\ i - 1 \in 0..Len(ents) /\ 0 \in 0..Len(ents) /\ 0 <= i - 1
  OBVIOUS
<1>2. next[i - 1] \in Nat /\ next[0] = 2 /\ next[i] = next[i - 1] + Clusters(ents[i])
  BY <1>1 DEF LaidOut
<1>3. next[0] <= next[i - 1]
  BY <1>1, NextGrows
<1>4. Starts(ents)[i] = IF ents[i].dir /\ ents[i].slot = NoSlot THEN 0 ELSE next[i - 1]
  BY DEF LaidOut
<1>5. Clusters(ents[i]) \in Nat /\ (~(ents[i].dir /\ ents[i].slot = NoSlot) => Clusters(ents[i]) >= 1)
  BY ClustersNat
<1>6. CASE ents[i].dir /\ ents[i].slot = NoSlot
  <2>1. Clusters(ents[i]) = 0 /\ Starts(ents)[i] = 0
    BY <1>4, <1>6 DEF Clusters
  <2>2. \A c : ~Owned(ents, i, c)
    BY <2>1 DEF Owned
  <2> QED
    BY <1>2, <1>3, <2>1, <2>2
<1>7. CASE ~(ents[i].dir /\ ents[i].slot = NoSlot)
  <2>1. Starts(ents)[i] = next[i - 1] /\ Clusters(ents[i]) >= 1
    BY <1>4, <1>5, <1>7
  <2>2. Starts(ents)[i] + Clusters(ents[i]) - 1 = next[i] - 1
    BY <1>2, <1>5, <2>1
  <2>3. \A c : Owned(ents, i, c) <=> c \in next[i - 1] .. next[i] - 1
    BY <2>1, <2>2 DEF Owned
  <2> QED
    BY <1>2, <1>3, <2>1, <2>3
<1> QED
  BY <1>6, <1>7

LEMMA OneOwner ==
  ASSUME NEW ents \in Seq(EntryRecord), NEW i \in 1..Len(ents), NEW j \in 1..Len(ents), NEW c,
         Owned(ents, i, c), Owned(ents, j, c)
  PROVE  i = j
<1>1. PICK next : LaidOut(next, ents)
  BY StartsLaidOut
<1>2. ASSUME NEW g \in 1..Len(ents), NEW h \in 1..Len(ents), Owned(ents, g, c), Owned(ents, h, c), g < h
      PROVE  FALSE
  <2>1. g \in 0..Len(ents) /\ h - 1 \in 0..Len(ents) /\ g <= h - 1 /\ g - 1 \in 0..Len(ents)
    BY <1>2
  <2>2. next[g] <= next[h - 1] /\ next[g] \in Nat /\ next[h - 1] \in Nat /\ next[g - 1] \in Nat
    BY <1>1, <2>1, NextGrows DEF LaidOut
  <2>3. c \in next[g - 1] .. next[g] - 1 /\ c \in next[h - 1] .. next[h] - 1
    BY <1>1, <1>2, OwnedIs
  <2> QED
    BY <2>2, <2>3
<1>3. i < j \/ j < i \/ i = j
  OBVIOUS
<1> QED
  BY <1>2, <1>3

\* The table links the clusters of an entry, as far as it goes.
LEMMA MarkedIs ==
  ASSUME NEW ents \in Seq(EntryRecord), NEW i \in 1..Len(ents), NEW c \in 2..MaxClusters - 1, Owned(ents, i, c)
  PROVE  Marked(ents, Starts(ents))[c] = IF Owned(ents, i, c + 1) THEN c + 1 ELSE EndOfChain
<1> DEFINE both == \E j \in DOMAIN ents : Owned(ents, j, c) /\ Owned(ents, j, c + 1)
           one == \E j \in DOMAIN ents : Owned(ents, j, c)
<1>1. Marked(ents, Starts(ents))[c] = IF both THEN c + 1 ELSE IF one THEN EndOfChain ELSE 0
  BY DEF Marked, Owned
<1>2. DOMAIN ents = 1..Len(ents)
  OBVIOUS
<1>3. one
  BY <1>2
<1>4. both <=> Owned(ents, i, c + 1)
  <2>1. Owned(ents, i, c + 1) => both
    BY <1>2
  <2>2. ASSUME NEW j \in DOMAIN ents, Owned(ents, j, c), Owned(ents, j, c + 1) PROVE Owned(ents, i, c + 1)
    <3>1. i = j
      BY <1>2, <2>2, OneOwner
    <3> QED
      BY <2>2, <3>1
  <2> QED
    BY <2>1, <2>2
<1> HIDE DEF both, one
<1> QED
  BY <1>1, <1>3, <1>4

LEMMA MarkedTyped ==
  ASSUME NEW ents \in Seq(EntryRecord)
  PROVE  Marked(ents, Starts(ents)) \in [2..MaxClusters - 1 -> Nat]
<1>1. MaxClusters \in Nat /\ EndOfChain \in Nat
  BY SizesAssumption DEF EndOfChain
<1>2. \A c \in 2..MaxClusters - 1 : c + 1 \in Nat
  BY <1>1
<1> QED
  BY <1>1, <1>2 DEF Marked

-----------------------------------------------------------------------------
(* Chain.                                                                   *)

\* The tables served are those of the entries.
FatServed == volume.fat = Marked(entries, Starts(entries)) /\ volume.start = Starts(entries)

Followed(d) == IF d \in DOMAIN volume.fat /\ volume.fat[d] \notin {0, EndOfChain} THEN volume.fat[d] ELSE d
IsChain(w, c) == w = [k \in 0..MaxClusters |-> IF k = 0 THEN c ELSE Followed(w[k - 1])]

LEMMA FollowedTyped ==
  ASSUME entries \in Seq(EntryRecord), FatServed, NEW d \in Nat
  PROVE  Followed(d) \in Nat
<1>1. volume.fat \in [2..MaxClusters - 1 -> Nat]
  BY MarkedTyped DEF FatServed
<1> QED
  BY <1>1 DEF Followed

LEMMA ChainExists ==
  ASSUME entries \in Seq(EntryRecord), FatServed, NEW c \in Nat
  PROVE  \E w : IsChain(w, c)
<1> DEFINE n == MaxClusters
           step == [x \in Nat \X (1..n) |-> Followed(x[1])]
<1>1. n \in Nat
  BY SizesAssumption
<1>2. step \in [Nat \X (1..n) -> Nat]
  BY FollowedTyped
<1>3. PICK w : Walk(w, n, Nat, c, step)
  <2> HIDE DEF step, n
  <2> QED
    BY <1>1, <1>2, Steps
<1>4. ASSUME NEW k \in 1..n PROVE w[k] = Followed(w[k - 1])
  <2>1. k - 1 \in 0..n
    BY <1>1
  <2>2. w[k - 1] \in Nat
    BY <1>3, <2>1 DEF Walk
  <2>3. step[<<w[k - 1], k>>] = Followed(w[k - 1])
    BY <2>2
  <2> HIDE DEF step, n
  <2> QED
    BY <1>3, <2>3 DEF Walk
<1> HIDE DEF n, step
<1>5. ASSUME NEW k \in 0..n PROVE w[k] = IF k = 0 THEN c ELSE Followed(w[k - 1])
  <2>1. CASE k = 0
    BY <1>3, <2>1 DEF Walk
  <2>2. CASE k # 0
    <3>1. k \in 1..n
      BY <1>1, <2>2
    <3> QED
      BY <1>4, <2>2, <3>1
  <2> QED
    BY <2>1, <2>2
<1>6. w = [k \in 0..n |-> w[k]]
  BY <1>3 DEF Walk
<1>7. w = [k \in 0..n |-> IF k = 0 THEN c ELSE Followed(w[k - 1])]
  BY <1>5, <1>6
<1> QED
  BY <1>7 DEF IsChain, n

LEMMA ChainIs ==
  ASSUME entries \in Seq(EntryRecord), FatServed, NEW c \in Nat
  PROVE  \E w : /\ Chain(c) = {w[k] : k \in 0..MaxClusters} /\ w[0] = c
                /\ \A k \in 0..MaxClusters - 1 : w[k + 1] = Followed(w[k])
<1> DEFINE w == CHOOSE v : IsChain(v, c)
<1>1. IsChain(w, c)
  BY ChainExists
<1>2. Chain(c) = {w[k] : k \in 0..MaxClusters}
  BY DEF Chain, IsChain, Followed
<1> HIDE DEF w
<1>3. MaxClusters \in Nat
  BY SizesAssumption
<1>4. w[0] = c
  BY <1>1, <1>3 DEF IsChain
<1>5. ASSUME NEW k \in 0..MaxClusters - 1 PROVE w[k + 1] = Followed(w[k])
  <2>1. k + 1 \in 0..MaxClusters /\ k + 1 # 0 /\ (k + 1) - 1 = k
    BY <1>3
  <2> QED
    BY <1>1, <2>1 DEF IsChain
<1> QED
  BY <1>2, <1>4, <1>5

\* From a cluster of an entry, the next one is of the same entry, and the one that
\* follows until the entry or the table ends.
LEMMA FollowedOwned ==
  ASSUME entries \in Seq(EntryRecord), FatServed, NEW i \in 1..Len(entries), NEW d \in Nat, d >= 2,
         Owned(entries, i, d)
  PROVE  /\ Owned(entries, i, Followed(d))
         /\ Owned(entries, i, d + 1) /\ d < MaxClusters => Followed(d) = d + 1
<1>0. MaxClusters \in Nat /\ MaxClusters < EndOfChain /\ EndOfChain \in Nat
  BY SizesAssumption, EndAssumption DEF EndOfChain
<1>1. volume.fat \in [2..MaxClusters - 1 -> Nat]
  BY MarkedTyped DEF FatServed
<1>2. CASE d < MaxClusters
  <2>1. d \in 2..MaxClusters - 1
    BY <1>0, <1>2
  <2>2. volume.fat[d] = IF Owned(entries, i, d + 1) THEN d + 1 ELSE EndOfChain
    BY <2>1, MarkedIs DEF FatServed
  <2>3. d + 1 \notin {0, EndOfChain}
    BY <1>0, <2>1
  <2> HIDE DEF Owned
  <2>4. CASE Owned(entries, i, d + 1)
    BY <1>1, <2>1, <2>2, <2>3, <2>4 DEF Followed
  <2>5. CASE ~Owned(entries, i, d + 1)
    BY <1>1, <2>1, <2>2, <2>5 DEF Followed
  <2> QED
    BY <2>4, <2>5
<1>3. CASE ~(d < MaxClusters)
  <2>1. d \notin DOMAIN volume.fat
    BY <1>0, <1>1, <1>3
  <2>2. Followed(d) = d
    BY <2>1 DEF Followed
  <2> QED
    BY <1>3, <2>2
<1> QED
  BY <1>2, <1>3

LEMMA ChainOfEntry ==
  ASSUME entries \in Seq(EntryRecord), FatServed, NEW i \in 1..Len(entries), volume.start[i] # 0
  PROVE  /\ \A c \in Chain(volume.start[i]) : Owned(entries, i, c)
         /\ Chain(volume.start[i]) \subseteq 2..MaxClusters - 1 =>
              Cardinality(Chain(volume.start[i])) = Clusters(entries[i])
<1>1. PICK next : LaidOut(next, entries)
  BY StartsLaidOut
<1> DEFINE s == volume.start[i]
           m == Clusters(entries[i])
           n == MaxClusters
<1>2. /\ s \in Nat /\ s >= 2 /\ m \in Nat /\ m >= 1 /\ n \in Nat
      /\ \A c : Owned(entries, i, c) => c \in s..s + m - 1
      /\ \A c \in s..s + m - 1 : Owned(entries, i, c)
  <2>1. s = Starts(entries)[i] /\ s # 0
    BY DEF FatServed
  <2>2. s = next[i - 1] /\ m >= 1 /\ s \in Nat /\ s >= 2 /\ next[i] = s + m
    BY <1>1, <2>1, OwnedIs
  <2>3. m \in Nat /\ n \in Nat
    BY ClustersNat, SizesAssumption
  <2>4. next[i] - 1 = s + m - 1
    BY <2>2, <2>3
  <2>5. \A c : Owned(entries, i, c) => c \in next[i - 1] .. next[i] - 1
    BY <1>1, OwnedIs
  <2>6. \A c \in next[i - 1] .. next[i] - 1 : Owned(entries, i, c)
    BY <1>1, <2>1, OwnedIs
  <2> HIDE DEF s, m, n
  <2> QED
    BY <2>2, <2>3, <2>4, <2>5, <2>6
<1>3. PICK w : /\ Chain(s) = {w[k] : k \in 0..n} /\ w[0] = s
               /\ \A k \in 0..n - 1 : w[k + 1] = Followed(w[k])
  BY <1>2, ChainIs
<1> HIDE DEF s, m, n
<1>4. 0..n \subseteq {k \in 0..n : Owned(entries, i, w[k])}
  <2> DEFINE S == {k \in 0..n : Owned(entries, i, w[k])}
  <2>1. 0 \in S
    BY <1>2, <1>3
  <2>2. ASSUME NEW k \in 0..n - 1, k \in S PROVE k + 1 \in S
    <3>1. k + 1 \in 0..n /\ w[k + 1] = Followed(w[k])
      BY <1>2, <1>3
    <3>2. w[k] \in Nat /\ w[k] >= 2
      BY <1>2, <2>2
    <3> QED
      BY <2>2, <3>1, <3>2, FollowedOwned
  <2> HIDE DEF S
  <2>3. 0..n \subseteq S
    BY <1>2, <2>1, <2>2, CountFromZero
  <2> QED
    BY <2>3 DEF S
<1>5. 0..n \subseteq {k \in 0..n : s + k <= s + m - 1 /\ s + k <= n => w[k] = s + k}
  <2> DEFINE S == {k \in 0..n : s + k <= s + m - 1 /\ s + k <= n => w[k] = s + k}
  <2>1. 0 \in S
    BY <1>2, <1>3
  <2>2. ASSUME NEW k \in 0..n - 1, k \in S PROVE k + 1 \in S
    <3>1. k + 1 \in 0..n /\ w[k + 1] = Followed(w[k])
      BY <1>2, <1>3
    <3>2. ASSUME s + (k + 1) <= s + m - 1, s + (k + 1) <= n PROVE w[k + 1] = s + (k + 1)
      <4>1. w[k] = s + k /\ s + k \in s..s + m - 1 /\ (s + k) + 1 \in s..s + m - 1 /\ s + k < n /\ s + k \in Nat /\ s + k >= 2
        BY <1>2, <2>2, <3>2
      <4>2. Owned(entries, i, s + k) /\ Owned(entries, i, (s + k) + 1)
        BY <1>2, <4>1
      <4>3. Followed(s + k) = (s + k) + 1
        BY <4>1, <4>2, FollowedOwned DEF n
      <4> QED
        BY <1>2, <3>1, <4>1, <4>3
    <3> QED
      BY <3>1, <3>2
  <2> HIDE DEF S
  <2>3. 0..n \subseteq S
    BY <1>2, <2>1, <2>2, CountFromZero
  <2> QED
    BY <2>3 DEF S
<1>6. \A c \in Chain(s) : Owned(entries, i, c)
  BY <1>3, <1>4
<1>7. ASSUME Chain(s) \subseteq 2..n - 1 PROVE Cardinality(Chain(s)) = m
  <2>1. s \in Chain(s) /\ s < n
    <3>1. 0 \in 0..n
      BY <1>2
    <3>2. s \in Chain(s)
      BY <1>3, <3>1
    <3> QED
      BY <1>2, <1>7, <3>2
  <2>2. s + m - 1 < n
    <3> SUFFICES ASSUME ~(s + m - 1 < n) PROVE FALSE
      OBVIOUS
    <3>1. n - s \in 0..n /\ s + (n - s) = n /\ s + (n - s) <= s + m - 1 /\ s + (n - s) <= n
      BY <1>2, <2>1
    <3>2. w[n - s] = n
      BY <1>5, <3>1
    <3>3. n \in Chain(s)
      BY <1>3, <3>1, <3>2
    <3> QED
      BY <1>2, <1>7, <3>3
  <2>3. Chain(s) = s..s + m - 1
    <3>1. ASSUME NEW c \in s..s + m - 1 PROVE c \in Chain(s)
      <4>1. c - s \in 0..n /\ s + (c - s) = c /\ s + (c - s) <= s + m - 1 /\ s + (c - s) <= n
        BY <1>2, <2>2
      <4>2. w[c - s] = c
        BY <1>5, <4>1
      <4> QED
        BY <1>3, <4>1, <4>2
    <3> QED
      BY <1>2, <1>6, <3>1
  <2>4. s \in Int /\ s + m - 1 \in Int /\ ~(s > s + m - 1) /\ ((s + m - 1) - s) + 1 = m
    BY <1>2
  <2>5. Cardinality(s..s + m - 1) = IF s > s + m - 1 THEN 0 ELSE ((s + m - 1) - s) + 1
    BY <2>4, FS_Interval
  <2> QED
    BY <2>3, <2>4, <2>5
<1> QED
  BY <1>6, <1>7 DEF s, m, n

-----------------------------------------------------------------------------
(* The scan.                                                                *)

CallRecord == [dir : Nat, depth : Nat, first : SUBSET Nodes, left : SUBSET Nodes]
Pending(c) == c.first \cup c.left
NodeOf(ents, d, r) == IF d = 0 THEN r ELSE ents[d].node

\* Each entry is in its folder, and of a file that no other entry is of.
InFolder(ents, i, r) ==
  /\ ents[i].parent < i
  /\ ents[i].dir => ents[i].size = 0
  /\ ents[i].node # NoNode =>
       /\ ents[i].node \notin {Top, r} /\ ents[i].long = Name[ents[i].node]
       /\ Parent[ents[i].node] = NodeOf(ents, ents[i].parent, r)
EntriesGood(ents, r) ==
  /\ ents \in Seq(EntryRecord) /\ ApartIn(ents)
  /\ \A i \in 1..Len(ents) : InFolder(ents, i, r)
  /\ \A i, j \in 1..Len(ents) : ents[i].node = ents[j].node => i = j \/ ents[i].node = NoNode

DepthsOf(D, ents) ==
  /\ D \in [0..Len(ents) -> Nat] /\ D[0] = 0
  /\ \A i \in 1..Len(ents) : D[i] = D[ents[i].parent] + 1

\* A call has children of its folder to list that have no entry yet.
CallGood(ents, c, r) ==
  /\ c \in CallRecord /\ c.dir \in 0..Len(ents) /\ (c.dir > 0 => ents[c.dir].node # NoNode)
  /\ Pending(c) \subseteq Children(NodeOf(ents, c.dir, r)) /\ c.first \subseteq {Documents}
  /\ c.first \cap c.left = {}
  /\ \A i \in 1..Len(ents) : ents[i].parent = c.dir => ents[i].node \notin Pending(c)
  /\ \A D : DepthsOf(D, ents) => c.depth = D[c.dir]
CallsGood(ents, cs, r) ==
  /\ cs \in Seq(CallRecord)
  /\ \A k \in 1..Len(cs) : CallGood(ents, cs[k], r)
  /\ \A k, l \in 1..Len(cs) : cs[k].dir = cs[l].dir => k = l

\* What is in a folder that has a table has an entry, or will have one, but for the limits.
Tabled(ents) == {0} \cup {i \in DOMAIN ents : ents[i].slot # NoSlot}
TooDeep(ents, d) == \A D : DepthsOf(D, ents) => D[d] > MaxDepth
Accounted(ents, cs, d, n) ==
  \/ Dotted(n) \/ Len(ents) = MaxEntries \/ TooDeep(ents, d)
  \/ \E i \in 1..Len(ents) : ents[i].node = n
  \/ \E k \in 1..Len(cs) : cs[k].dir = d /\ n \in Pending(cs[k])
Complete(ents, cs, r) ==
  /\ Len(ents) <= MaxEntries
  /\ \A d \in Tabled(ents) : \A n \in Children(NodeOf(ents, d, r)) : Accounted(ents, cs, d, n)

ScanGood(ents, cs, r) == EntriesGood(ents, r) /\ CallsGood(ents, cs, r) /\ Complete(ents, cs, r)

LEMMA ParentIs ==
  ASSUME NEW ents \in Seq(EntryRecord), NEW i \in 1..Len(ents)
  PROVE  /\ ents[i].parent \in Nat /\ ents[i].slot \in Int /\ ents[i].size \in Nat
         /\ \A r : InFolder(ents, i, r) => ents[i].parent \in 0..Len(ents)
<1>1. ents[i] \in EntryRecord
  OBVIOUS
<1>2. ents[i].parent \in Nat /\ ents[i].slot \in Int /\ ents[i].size \in Nat
  BY <1>1 DEF EntryRecord
<1>3. Len(ents) \in Nat
  OBVIOUS
<1> QED
  BY <1>2, <1>3 DEF InFolder

LEMMA ChildrenAre ==
  ASSUME NEW node
  PROVE  /\ \A n \in Children(node) : n \in Nodes /\ n # Top /\ n # NoNode /\ Parent[n] = node
         /\ node \notin Nodes => Children(node) = {}
<1>1. DOMAIN Parent = Nodes \ {Top} /\ NoNode \notin Nodes /\ \A n \in Nodes \ {Top} : Parent[n] \in Nodes
  BY TreeAssumption
<1> QED
  BY <1>1 DEF Children

LEMMA RootsAre == Top \in Nodes /\ Documents \in Nodes /\ Top # Documents /\ NoNode \notin Nodes
  BY TreeAssumption

\* Two entries are not of the same folder.
LEMMA OneFolder ==
  ASSUME NEW ents, NEW r \in {Top, Documents}, EntriesGood(ents, r), NEW d \in 0..Len(ents), NEW e \in 0..Len(ents),
         NodeOf(ents, d, r) = NodeOf(ents, e, r), NodeOf(ents, d, r) # NoNode
  PROVE  d = e
<1>1. Len(ents) \in Nat
  BY DEF EntriesGood
<1>2. ASSUME NEW j \in 1..Len(ents), ents[j].node # NoNode PROVE ents[j].node # r
  BY <1>2 DEF EntriesGood, InFolder
<1>3. CASE d = 0 /\ e # 0
  BY <1>1, <1>2, <1>3 DEF NodeOf
<1>4. CASE d # 0 /\ e = 0
  BY <1>1, <1>2, <1>4 DEF NodeOf
<1>5. CASE d # 0 /\ e # 0
  BY <1>1, <1>5 DEF NodeOf, EntriesGood
<1> QED
  BY <1>3, <1>4, <1>5

\* A file scanned has no entry before.
LEMMA NewNode ==
  ASSUME NEW ents, NEW r \in {Top, Documents}, EntriesGood(ents, r), NEW c, CallGood(ents, c, r),
         NEW n \in Pending(c)
  PROVE  /\ n \in Nodes \ {Top, r, NoNode} /\ Parent[n] = NodeOf(ents, c.dir, r)
         /\ \A i \in 1..Len(ents) : ents[i].node # n
<1>1. n \in Nodes /\ n # Top /\ n # NoNode /\ Parent[n] = NodeOf(ents, c.dir, r)
  BY ChildrenAre DEF CallGood
<1>2. c.dir \in 0..Len(ents) /\ Len(ents) \in Nat
  BY DEF CallGood, EntriesGood
<1>3. n # r
  <2> SUFFICES ASSUME n = r PROVE FALSE
    OBVIOUS
  <2>1. r = Documents /\ Parent[n] = Top
    BY <1>1, TreeAssumption
  <2>2. NodeOf(ents, c.dir, r) = Top
    BY <1>1, <2>1
  <2>3. c.dir # 0
    BY <2>1, <2>2, RootsAre DEF NodeOf
  <2>4. c.dir \in 1..Len(ents) /\ ents[c.dir].node = Top /\ ents[c.dir].node # NoNode
    BY <1>2, <2>2, <2>3, RootsAre DEF NodeOf
  <2> QED
    BY <2>4 DEF EntriesGood, InFolder
<1>4. ASSUME NEW i \in 1..Len(ents), ents[i].node = n PROVE FALSE
  <2>1. ents[i] \in EntryRecord
    BY DEF EntriesGood
  <2>2. ents[i].parent \in Nat /\ ents[i].parent < i /\ Parent[n] = NodeOf(ents, ents[i].parent, r)
    BY <1>1, <1>4, <2>1 DEF EntriesGood, InFolder, EntryRecord
  <2>3. ents[i].parent \in 0..Len(ents)
    BY <1>2, <2>2
  <2>4. NodeOf(ents, c.dir, r) # NoNode
    BY <1>2, RootsAre DEF NodeOf, CallGood
  <2>5. ents[i].parent = c.dir
    BY <1>1, <1>2, <2>2, <2>3, <2>4, OneFolder
  <2> QED
    BY <1>4, <2>5 DEF CallGood
<1> QED
  BY <1>1, <1>3, <1>4

\* An entry of its own folder is added.
NewEntry(new, ents, c, n, slot) ==
  /\ slot \in Int
  /\ \E dir \in BOOLEAN, sz \in Nat :
       (dir => sz = 0) /\ new = Append(ents, Entry(ents, n, Name[n], c.dir, dir, sz, slot))
LEMMA EntriesStayGood ==
  ASSUME NEW ents, NEW r \in {Top, Documents}, EntriesGood(ents, r), NEW c, CallGood(ents, c, r),
         NEW n \in Pending(c), NEW new, NEW slot, NewEntry(new, ents, c, n, slot)
  PROVE  /\ EntriesGood(new, r) /\ Len(new) = Len(ents) + 1
         /\ \A i \in 1..Len(ents) : new[i] = ents[i]
         /\ new[Len(new)].node = n /\ new[Len(new)].parent = c.dir /\ new[Len(new)].slot = slot
<1>0. slot \in Int
  BY DEF NewEntry
<1> PICK dir \in BOOLEAN, sz \in Nat :
      (dir => sz = 0) /\ new = Append(ents, Entry(ents, n, Name[n], c.dir, dir, sz, slot))
  BY DEF NewEntry
<1> DEFINE e == Entry(ents, n, Name[n], c.dir, dir, sz, slot)
           m == Len(ents) + 1
<1>1. /\ ents \in Seq(EntryRecord) /\ Len(ents) \in Nat /\ ApartIn(ents)
      /\ c.dir \in 0..Len(ents) /\ c.dir \in Nat
  BY DEF EntriesGood, CallGood
<1>2. /\ n \in Nodes \ {Top, r, NoNode} /\ Parent[n] = NodeOf(ents, c.dir, r)
      /\ \A i \in 1..Len(ents) : ents[i].node # n
  BY NewNode
<1>4. /\ e.node = n /\ e.parent = c.dir /\ e.slot = slot /\ e.long = Name[n] /\ e.dir = dir /\ e.size = sz
      /\ e.short = ShortName(ents, e.parent, Name[n])
  BY DEF Entry
<1>3. new \in Seq(EntryRecord) /\ ApartIn(new)
  <2>1. Name[n] \in Names
    BY <1>2, NameTyped
  <2>2. e.short \in Shorts
    BY <1>1, <1>4, <2>1, ShortNameFree
  <2>3. e \in EntryRecord
    BY <1>0, <1>1, <1>2, <2>1, <2>2 DEF Entry, EntryRecord
  <2> HIDE DEF e
  <2>4. Append(ents, e) \in Seq(EntryRecord) /\ ApartIn(Append(ents, e))
    BY <1>1, <1>4, <2>1, <2>3, EntryAdded
  <2> QED
    BY <2>4 DEF e
<1> HIDE DEF e
<1>5. Len(new) = m /\ new[m] = e /\ \A i \in 1..Len(ents) : new[i] = ents[i]
  BY <1>1, AppendProperties DEF e
<1>6. \A d \in 0..Len(ents) : NodeOf(new, d, r) = NodeOf(ents, d, r)
  BY <1>1, <1>5 DEF NodeOf
<1>7. ASSUME NEW i \in 1..m PROVE InFolder(new, i, r)
  <2>1. CASE i = m
    <3>1. new[i].parent < i
      BY <1>1, <1>4, <1>5, <2>1
    <3>2. new[i].dir => new[i].size = 0
      BY <1>4, <1>5, <2>1
    <3>3. NodeOf(new, new[i].parent, r) = NodeOf(ents, c.dir, r)
      BY <1>1, <1>4, <1>5, <1>6, <2>1
    <3> QED
      BY <1>2, <1>4, <1>5, <2>1, <3>1, <3>2, <3>3 DEF InFolder
  <2>2. CASE i # m
    <3>1. i \in 1..Len(ents) /\ new[i] = ents[i] /\ ents[i].parent \in Nat
      <4>1. i \in 1..Len(ents)
        BY <1>1, <2>2
      <4> QED
        BY <1>1, <1>5, <4>1, ParentIs
    <3>2. InFolder(ents, i, r)
      BY <3>1 DEF EntriesGood
    <3>3. NodeOf(new, new[i].parent, r) = NodeOf(ents, ents[i].parent, r)
      <4>1. ents[i].parent \in 0..Len(ents)
        BY <1>1, <3>1, <3>2 DEF InFolder
      <4> QED
        BY <1>6, <3>1, <4>1
    <3> QED
      BY <3>1, <3>2, <3>3 DEF InFolder
  <2> QED
    BY <2>1, <2>2
<1>8. ASSUME NEW i \in 1..m, NEW j \in 1..m, new[i].node = new[j].node PROVE i = j \/ new[i].node = NoNode
  <2>1. CASE i # m /\ j # m
    <3>1. i \in 1..Len(ents) /\ j \in 1..Len(ents)
      BY <1>1, <2>1
    <3> QED
      BY <1>5, <1>8, <3>1 DEF EntriesGood
  <2>2. CASE i = m /\ j # m
    <3>1. j \in 1..Len(ents)
      BY <1>1, <2>2
    <3> QED
      BY <1>2, <1>4, <1>5, <1>8, <2>2, <3>1
  <2>3. CASE i # m /\ j = m
    <3>1. i \in 1..Len(ents)
      BY <1>1, <2>3
    <3> QED
      BY <1>2, <1>4, <1>5, <1>8, <2>3, <3>1
  <2> QED
    BY <2>1, <2>2, <2>3
<1> QED
  BY <1>3, <1>4, <1>5, <1>7, <1>8 DEF EntriesGood

\* The depths of the entries there were do not change.
LEMMA DepthsKept ==
  ASSUME NEW ents, NEW new, NEW r, EntriesGood(ents, r), Len(new) = Len(ents) + 1,
         \A i \in 1..Len(ents) : new[i] = ents[i], NEW D, DepthsOf(D, new)
  PROVE  \E E : /\ DepthsOf(E, ents) /\ \A d \in 0..Len(ents) : E[d] = D[d]
<1> DEFINE n == Len(ents)
           E == [d \in 0..n |-> D[d]]
<1>1. n \in Nat /\ ents \in Seq(EntryRecord)
  BY DEF EntriesGood
<1>2. D \in [0..n + 1 -> Nat] /\ D[0] = 0 /\ \A i \in 1..n + 1 : D[i] = D[new[i].parent] + 1
  BY DEF DepthsOf
<1>3. E \in [0..n -> Nat] /\ E[0] = 0 /\ \A d \in 0..n : E[d] = D[d]
  BY <1>1, <1>2
<1> HIDE DEF E
<1>4. ASSUME NEW i \in 1..n PROVE E[i] = E[ents[i].parent] + 1
  <2>1. ents[i].parent \in 0..n
    <3>1. InFolder(ents, i, r)
      BY DEF EntriesGood
    <3> QED
      BY <1>1, <3>1, ParentIs
  <2>2. i \in 1..n + 1 /\ i \in 0..n /\ new[i] = ents[i]
    BY <1>1
  <2> QED
    BY <1>2, <1>3, <2>1, <2>2
<1>5. DepthsOf(E, ents)
  BY <1>3, <1>4 DEF DepthsOf
<1> QED
  BY <1>3, <1>5

-----------------------------------------------------------------------------
(* The calls.                                                               *)

\* A call that has less to list than before.
Reduced(c, b) ==
  /\ c \in CallRecord /\ c.dir = b.dir /\ c.depth = b.depth
  /\ c.first \subseteq b.first /\ c.left \subseteq b.left
Extends(new, ents) == Len(new) = Len(ents) + 1 /\ \A i \in 1..Len(ents) : new[i] = ents[i]
SubCall(ents, n, c) == [dir |-> Len(ents) + 1, depth |-> c.depth + 1, first |-> {}, left |-> Children(n) \ {}]

LEMMA CallReduced ==
  ASSUME NEW ents, NEW r, NEW b, CallGood(ents, b, r), NEW c, Reduced(c, b)
  PROVE  CallGood(ents, c, r)
<1>1. Pending(c) \subseteq Pending(b) /\ c.first \cap c.left = {}
  BY DEF Reduced, Pending, CallGood
<1>2. \A D : DepthsOf(D, ents) => c.depth = D[c.dir]
  BY DEF Reduced, CallGood
<1> QED
  BY <1>1, <1>2 DEF CallGood, Reduced

LEMMA NodeKept ==
  ASSUME NEW ents, NEW r, EntriesGood(ents, r), NEW new, Extends(new, ents), NEW d \in 0..Len(ents)
  PROVE  NodeOf(new, d, r) = NodeOf(ents, d, r)
<1>1. Len(ents) \in Nat
  BY DEF EntriesGood
<1> QED
  BY <1>1 DEF NodeOf, Extends

LEMMA CallExtended ==
  ASSUME NEW ents, NEW r, EntriesGood(ents, r), NEW c, CallGood(ents, c, r), NEW new, Extends(new, ents),
         new[Len(new)].parent = c.dir => new[Len(new)].node \notin Pending(c)
  PROVE  CallGood(new, c, r)
<1>1. Len(ents) \in Nat /\ Len(new) = Len(ents) + 1 /\ \A i \in 1..Len(ents) : new[i] = ents[i]
  BY DEF EntriesGood, Extends
<1>2. c.dir \in 0..Len(ents) /\ c.dir \in 0..Len(new) /\ NodeOf(new, c.dir, r) = NodeOf(ents, c.dir, r)
  BY <1>1, NodeKept DEF CallGood
<1>3. c.dir > 0 => new[c.dir].node # NoNode
  <2>1. c.dir > 0 => c.dir \in 1..Len(ents)
    BY <1>1, <1>2
  <2> QED
    BY <1>1, <2>1 DEF CallGood
<1>4. ASSUME NEW i \in 1..Len(new), new[i].parent = c.dir PROVE new[i].node \notin Pending(c)
  <2>1. CASE i = Len(new)
    BY <1>4, <2>1
  <2>2. CASE i # Len(new)
    <3>1. i \in 1..Len(ents)
      BY <1>1, <2>2
    <3> QED
      BY <1>1, <1>4, <3>1 DEF CallGood
  <2> QED
    BY <2>1, <2>2
<1>5. ASSUME NEW D, DepthsOf(D, new) PROVE c.depth = D[c.dir]
  <2>1. PICK E : DepthsOf(E, ents) /\ \A d \in 0..Len(ents) : E[d] = D[d]
    BY <1>1, <1>5, DepthsKept
  <2> QED
    BY <1>2, <2>1 DEF CallGood
<1> QED
  BY <1>2, <1>3, <1>4, <1>5 DEF CallGood

\* The depth of an entry added to a call's folder.
LEMMA DepthOfNew ==
  ASSUME NEW ents, NEW r, EntriesGood(ents, r), NEW c, CallGood(ents, c, r), NEW new, Extends(new, ents),
         new[Len(new)].parent = c.dir, NEW D, DepthsOf(D, new)
  PROVE  D[Len(ents) + 1] = c.depth + 1
<1>1. Len(ents) \in Nat /\ Len(new) = Len(ents) + 1 /\ c.dir \in 0..Len(ents)
  BY DEF EntriesGood, Extends, CallGood
<1>2. PICK E : DepthsOf(E, ents) /\ \A d \in 0..Len(ents) : E[d] = D[d]
  BY DepthsKept DEF Extends
<1>3. c.depth = D[c.dir]
  BY <1>1, <1>2 DEF CallGood
<1>4. D[Len(new)] = D[new[Len(new)].parent] + 1
  BY <1>1 DEF DepthsOf
<1> QED
  BY <1>1, <1>3, <1>4

LEMMA SubCallGood ==
  ASSUME NEW ents, NEW r, EntriesGood(ents, r), NEW c, CallGood(ents, c, r), NEW new, Extends(new, ents),
         EntriesGood(new, r), new[Len(new)].parent = c.dir, NEW n \in Nodes \ {NoNode}, new[Len(new)].node = n
  PROVE  CallGood(new, SubCall(ents, n, c), r)
<1> DEFINE s == SubCall(ents, n, c)
           m == Len(ents) + 1
<1>1. Len(ents) \in Nat /\ Len(new) = m /\ c.depth \in Nat
  BY DEF EntriesGood, Extends, CallGood, CallRecord
<1>2. s.dir = m /\ s.depth = c.depth + 1 /\ s.first = {} /\ s.left = Children(n)
  BY DEF SubCall
<1>3. s \in CallRecord
  <2>1. Children(n) \subseteq Nodes
    BY ChildrenAre
  <2> QED
    BY <1>1, <2>1 DEF SubCall, CallRecord
<1>4. Pending(s) = Children(n) /\ NodeOf(new, s.dir, r) = n
  BY <1>1, <1>2 DEF Pending, NodeOf
<1>5. ASSUME NEW i \in 1..Len(new), new[i].parent = m PROVE FALSE
  <2>1. InFolder(new, i, r)
    BY DEF EntriesGood
  <2> QED
    BY <1>1, <1>5, <2>1 DEF InFolder
<1>6. ASSUME NEW D, DepthsOf(D, new) PROVE s.depth = D[s.dir]
  BY <1>2, <1>6, DepthOfNew
<1> HIDE DEF s
<1>7. s.dir \in 0..Len(new) /\ new[s.dir].node # NoNode
  BY <1>1, <1>2
<1> QED
  BY <1>2, <1>3, <1>4, <1>5, <1>6, <1>7 DEF CallGood, s

\* The head of the calls goes on with less, and without the file just scanned.
Continues(rest, cs, n) ==
  /\ rest \in Seq(CallRecord) /\ Len(rest) = Len(cs) /\ \A k \in 2..Len(cs) : rest[k] = cs[k]
  /\ Reduced(rest[1], cs[1]) /\ n \notin Pending(rest[1]) /\ Pending(cs[1]) \ {n} \subseteq Pending(rest[1])

LEMMA CallsExtended ==
  ASSUME NEW ents, NEW r, EntriesGood(ents, r), NEW cs, CallsGood(ents, cs, r), Len(cs) >= 1, NEW n \in Pending(cs[1]),
         NEW new, Extends(new, ents), EntriesGood(new, r), new[Len(new)].parent = cs[1].dir, new[Len(new)].node = n,
         NEW rest, Continues(rest, cs, n)
  PROVE  CallsGood(new, rest, r) /\ CallsGood(new, <<SubCall(ents, n, cs[1])>> \o rest, r)
<1> DEFINE s == SubCall(ents, n, cs[1])
           deep == <<s>> \o rest
<1>1. cs \in Seq(CallRecord) /\ Len(cs) \in Nat /\ Len(rest) = Len(cs) /\ 1 \in 1..Len(cs)
  BY DEF CallsGood, Continues
<1>2. \A k \in 1..Len(cs) : CallGood(ents, cs[k], r)
  BY DEF CallsGood
<1>3. n \in Nodes \ {NoNode}
  <2>1. Pending(cs[1]) \subseteq Children(NodeOf(ents, cs[1].dir, r))
    BY <1>1, <1>2 DEF CallGood
  <2> QED
    BY <2>1, ChildrenAre
<1>4. ASSUME NEW k \in 1..Len(rest) PROVE CallGood(new, rest[k], r) /\ rest[k].dir = cs[k].dir /\ rest[k].dir <= Len(ents)
  <2>0. Len(ents) \in Nat
    BY DEF EntriesGood
  <2>1. CASE k = 1
    <3>1. Reduced(rest[1], cs[1]) /\ n \notin Pending(rest[1])
      BY DEF Continues
    <3>2. CallGood(ents, rest[1], r)
      BY <1>1, <1>2, <3>1, CallReduced
    <3>3. CallGood(new, rest[1], r)
      BY <3>1, <3>2, CallExtended
    <3>4. rest[1].dir = cs[1].dir /\ rest[1].dir \in 0..Len(ents)
      BY <3>1, <3>2 DEF Reduced, CallGood
    <3> QED
      BY <2>0, <2>1, <3>3, <3>4
  <2>2. CASE k # 1
    <3>1. k \in 2..Len(cs) /\ k \in 1..Len(cs)
      BY <1>1, <2>2
    <3>2. rest[k] = cs[k] /\ CallGood(ents, cs[k], r)
      BY <1>2, <3>1 DEF Continues
    <3>3. cs[k].dir # cs[1].dir
      BY <1>1, <2>2, <3>1 DEF CallsGood
    <3>4. CallGood(new, cs[k], r)
      BY <3>2, <3>3, CallExtended
    <3>5. cs[k].dir \in 0..Len(ents)
      BY <3>2 DEF CallGood
    <3> QED
      BY <2>0, <3>2, <3>4, <3>5
  <2> QED
    BY <2>1, <2>2
<1>5. rest \in Seq(CallRecord)
  BY DEF Continues
<1>6. \A k, l \in 1..Len(rest) : rest[k].dir = rest[l].dir => k = l
  BY <1>1, <1>4 DEF CallsGood
<1>7. CallsGood(new, rest, r)
  BY <1>4, <1>5, <1>6 DEF CallsGood
<1>8. CallGood(new, s, r) /\ s \in CallRecord /\ s.dir = Len(ents) + 1
  <2>1. CallGood(new, s, r)
    BY <1>1, <1>2, <1>3, SubCallGood
  <2>2. s.dir = Len(ents) + 1
    BY DEF SubCall
  <2> HIDE DEF s
  <2>3. s \in CallRecord
    BY <2>1 DEF CallGood
  <2> QED
    BY <2>1, <2>2, <2>3
<1> HIDE DEF s
<1>9. /\ deep \in Seq(CallRecord) /\ Len(deep) = Len(rest) + 1 /\ deep[1] = s
      /\ \A k \in 2..Len(rest) + 1 : deep[k] = rest[k - 1]
  BY <1>1, <1>5, <1>8
<1> HIDE DEF deep
<1>10. ASSUME NEW k \in 1..Len(deep) PROVE CallGood(new, deep[k], r)
  <2>1. CASE k = 1
    BY <1>8, <1>9, <2>1
  <2>2. CASE k # 1
    <3>1. k \in 2..Len(rest) + 1 /\ k - 1 \in 1..Len(rest)
      BY <1>1, <1>9, <2>2
    <3> QED
      BY <1>4, <1>9, <3>1
  <2> QED
    BY <2>1, <2>2
<1>11. ASSUME NEW k \in 1..Len(deep), NEW l \in 1..Len(deep), deep[k].dir = deep[l].dir PROVE k = l
  <2>0. Len(ents) \in Nat
    BY DEF EntriesGood
  <2>1. ASSUME NEW j \in 1..Len(deep), j # 1
        PROVE  j - 1 \in 1..Len(rest) /\ deep[j] = rest[j - 1] /\ deep[j].dir <= Len(ents) /\ deep[j].dir # s.dir
    <3>1. j \in 2..Len(rest) + 1 /\ j - 1 \in 1..Len(rest)
      BY <1>1, <1>9, <2>1
    <3>2. deep[j] = rest[j - 1] /\ rest[j - 1].dir <= Len(ents)
      BY <1>4, <1>9, <3>1
    <3> QED
      BY <1>8, <2>0, <3>1, <3>2
  <2>2. CASE k = 1 /\ l # 1
    BY <1>9, <1>11, <2>1, <2>2
  <2>3. CASE k # 1 /\ l = 1
    BY <1>9, <1>11, <2>1, <2>3
  <2>4. CASE k # 1 /\ l # 1
    <3>1. k - 1 = l - 1
      <4>1. k - 1 \in 1..Len(rest) /\ l - 1 \in 1..Len(rest) /\ deep[k] = rest[k - 1] /\ deep[l] = rest[l - 1]
        BY <2>1, <2>4
      <4>2. rest[k - 1].dir = rest[l - 1].dir
        BY <1>11, <4>1
      <4> QED
        BY <1>6, <4>1, <4>2
    <3> QED
      BY <1>1, <1>9, <3>1
  <2> QED
    BY <2>2, <2>3, <2>4
<1>12. CallsGood(new, deep, r)
  BY <1>9, <1>10, <1>11 DEF CallsGood
<1> QED
  BY <1>7, <1>12 DEF deep, s

\* A file is scanned, and an entry added for it; the calls go on with what they had.
Scans(ents, cs, n, r) ==
  ScanGood(ents, cs, r) /\ Len(cs) >= 1 /\ Len(ents) < MaxEntries /\ n \in Pending(cs[1])
Added(new, ents, cs, n, r) ==
  /\ Extends(new, ents) /\ EntriesGood(new, r)
  /\ new[Len(new)].parent = cs[1].dir /\ new[Len(new)].node = n
Covers(next, rest) == \A k \in 1..Len(rest) : \E l \in 1..Len(next) : next[l] = rest[k]
GoesDown(next, new, ents, cs, n) ==
  \/ new[Len(new)].slot = NoSlot \/ cs[1].depth + 1 > MaxDepth
  \/ \E l \in 1..Len(next) : next[l] = SubCall(ents, n, cs[1])

\* Nothing is forgotten.
LEMMA CompleteExtended ==
  ASSUME NEW ents, NEW r, NEW cs, NEW n, NEW new, NEW rest, NEW next,
         Scans(ents, cs, n, r), Added(new, ents, cs, n, r), Continues(rest, cs, n), Covers(next, rest),
         GoesDown(next, new, ents, cs, n)
  PROVE  Complete(new, next, r)
<1> /\ EntriesGood(ents, r) /\ CallsGood(ents, cs, r) /\ Complete(ents, cs, r)
    /\ Len(cs) >= 1 /\ Len(ents) < MaxEntries /\ n \in Pending(cs[1])
  BY DEF Scans, ScanGood
<1> /\ Extends(new, ents) /\ EntriesGood(new, r)
    /\ new[Len(new)].parent = cs[1].dir /\ new[Len(new)].node = n
  BY DEF Added
<1> \A k \in 1..Len(rest) : \E l \in 1..Len(next) : next[l] = rest[k]
  BY DEF Covers
<1> \/ new[Len(new)].slot = NoSlot \/ cs[1].depth + 1 > MaxDepth
    \/ \E l \in 1..Len(next) : next[l] = SubCall(ents, n, cs[1])
  BY DEF GoesDown
<1> DEFINE m == Len(ents) + 1
<1>0. Len(ents) \in Nat /\ MaxEntries \in Nat /\ Len(ents) < MaxEntries
  BY SizesAssumption DEF EntriesGood
<1>1. /\ Len(ents) \in Nat /\ Len(new) = m /\ MaxEntries \in Nat /\ m \in 1..Len(new)
      /\ DOMAIN ents = 1..Len(ents) /\ DOMAIN new = 1..m /\ \A i \in 1..Len(ents) : new[i] = ents[i] /\ i \in 1..Len(new)
  <2>1. ents \in Seq(EntryRecord) /\ new \in Seq(EntryRecord)
    BY DEF EntriesGood
  <2>2. Len(ents) \in Nat /\ DOMAIN ents = 1..Len(ents) /\ DOMAIN new = 1..Len(new)
    BY <2>1
  <2> QED
    BY <2>2, SizesAssumption DEF Extends
<1>2. CallGood(ents, cs[1], r) /\ Len(cs) \in Nat /\ 1 \in 1..Len(cs)
  <2>1. Len(cs) \in Nat
    BY DEF CallsGood
  <2> QED
    BY <2>1 DEF CallsGood
<1>3. ASSUME NEW d \in Tabled(new), NEW k \in Children(NodeOf(new, d, r)) PROVE Accounted(new, next, d, k)
  <2>1. CASE d = m
    <3>1. NodeOf(new, d, r) = n /\ new[m].slot # NoSlot
      BY <1>1, <1>3, <2>1 DEF NodeOf, Tabled
    <3>2. CASE cs[1].depth + 1 > MaxDepth
      <4>1. TooDeep(new, d)
        <5> SUFFICES ASSUME NEW D, DepthsOf(D, new) PROVE D[m] > MaxDepth
          BY <2>1 DEF TooDeep
        <5>1. D[m] = cs[1].depth + 1
          BY <1>2, DepthOfNew
        <5> QED
          BY <3>2, <5>1
      <4> QED
        BY <4>1 DEF Accounted
    <3>3. CASE \E l \in 1..Len(next) : next[l] = SubCall(ents, n, cs[1])
      <4>1. PICK l \in 1..Len(next) : next[l] = SubCall(ents, n, cs[1])
        BY <3>3
      <4>2. next[l].dir = d /\ k \in Pending(next[l])
        BY <1>3, <2>1, <3>1, <4>1 DEF SubCall, Pending
      <4> QED
        BY <4>2 DEF Accounted
    <3> QED
      BY <1>1, <3>1, <3>2, <3>3
  <2>2. CASE d # m
    <3>1. d \in 0..Len(ents) /\ d \in Tabled(ents) /\ NodeOf(new, d, r) = NodeOf(ents, d, r)
      <4>1. d \in 0..Len(ents)
        BY <1>1, <2>2 DEF Tabled
      <4>2. d = 0 \/ d \in 1..Len(ents)
        BY <1>1, <4>1
      <4>3. d \in Tabled(ents)
        BY <1>1, <4>2 DEF Tabled
      <4> QED
        BY <4>1, <4>3, NodeKept
    <3>2. Accounted(ents, cs, d, k)
      BY <1>3, <3>1 DEF Complete
    <3>3. CASE Dotted(k)
      BY <3>3 DEF Accounted
    <3>4. CASE TooDeep(ents, d)
      <4>1. TooDeep(new, d)
        <5> SUFFICES ASSUME NEW D, DepthsOf(D, new) PROVE D[d] > MaxDepth
          BY DEF TooDeep
        <5>1. PICK E : DepthsOf(E, ents) /\ \A f \in 0..Len(ents) : E[f] = D[f]
          BY DepthsKept DEF Extends
        <5> QED
          BY <3>1, <3>4, <5>1 DEF TooDeep
      <4> QED
        BY <4>1 DEF Accounted
    <3>5. CASE \E i \in 1..Len(ents) : ents[i].node = k
      <4>1. PICK i \in 1..Len(ents) : ents[i].node = k
        BY <3>5
      <4>2. i \in 1..Len(new) /\ new[i].node = k
        BY <1>1, <4>1
      <4> QED
        BY <4>2 DEF Accounted
    <3>6. CASE \E j \in 1..Len(cs) : cs[j].dir = d /\ k \in Pending(cs[j])
      <4>1. PICK j \in 1..Len(cs) : cs[j].dir = d /\ k \in Pending(cs[j])
        BY <3>6
      <4>2. CASE k = n
        BY <1>1, <4>2 DEF Accounted
      <4>3. CASE k # n
        <5>1. j \in 1..Len(rest) /\ rest[j].dir = d /\ k \in Pending(rest[j])
          <6>1. CASE j = 1
            BY <4>1, <4>3, <6>1 DEF Continues, Reduced
          <6>2. CASE j # 1
            <7>1. j \in 2..Len(cs)
              BY <1>2, <6>2
            <7> QED
              BY <4>1, <7>1 DEF Continues
          <6> QED
            BY <6>1, <6>2
        <5>2. PICK l \in 1..Len(next) : next[l] = rest[j]
          BY <5>1
        <5> QED
          BY <5>1, <5>2 DEF Accounted
      <4> QED
        BY <4>2, <4>3
    <3>7. Len(ents) # MaxEntries
      BY <1>0
    <3> QED
      BY <3>2, <3>3, <3>4, <3>5, <3>6, <3>7 DEF Accounted
  <2> QED
    BY <2>1, <2>2
<1>4. Len(new) <= MaxEntries
  BY <1>1
<1> QED
  BY <1>3, <1>4 DEF Complete

\* The calls after a scan, and what stays good.
GoesOn(next, rest, ents, cs, n, slot) ==
  next = IF slot # NoSlot /\ cs[1].depth + 1 <= MaxDepth THEN <<SubCall(ents, n, cs[1])>> \o rest ELSE rest
Grown(new, next, ents, cs, n, slot, r) ==
  ScanGood(new, next, r) /\ Extends(new, ents) /\ new[Len(new)].node = n /\ new[Len(new)].slot = slot

LEMMA ScanNode ==
  ASSUME NEW ents, NEW r \in {Top, Documents}, NEW cs, NEW n, Scans(ents, cs, n, r),
         NEW rest, Continues(rest, cs, n), NEW new, NEW slot, NewEntry(new, ents, cs[1], n, slot),
         NEW next, GoesOn(next, rest, ents, cs, n, slot)
  PROVE  Grown(new, next, ents, cs, n, slot, r)
<1> next = IF slot # NoSlot /\ cs[1].depth + 1 <= MaxDepth THEN <<SubCall(ents, n, cs[1])>> \o rest ELSE rest
  BY DEF GoesOn
<1> SUFFICES ScanGood(new, next, r) /\ Extends(new, ents) /\ new[Len(new)].node = n /\ new[Len(new)].slot = slot
  BY DEF Grown
<1>1. EntriesGood(ents, r) /\ CallsGood(ents, cs, r) /\ Len(cs) >= 1 /\ n \in Pending(cs[1])
  BY DEF Scans, ScanGood
<1>2. CallGood(ents, cs[1], r) /\ cs[1].depth \in Nat
  <2>1. 1 \in 1..Len(cs)
    BY <1>1 DEF CallsGood
  <2>2. CallGood(ents, cs[1], r)
    BY <1>1, <2>1 DEF CallsGood
  <2> QED
    BY <2>2 DEF CallGood, CallRecord
<1>3. /\ EntriesGood(new, r) /\ Extends(new, ents) /\ Added(new, ents, cs, n, r)
      /\ new[Len(new)].node = n /\ new[Len(new)].parent = cs[1].dir /\ new[Len(new)].slot = slot
  BY <1>1, <1>2, EntriesStayGood DEF Extends, Added
<1> DEFINE s == SubCall(ents, n, cs[1])
           deep == <<s>> \o rest
<1>4. CallsGood(new, rest, r) /\ CallsGood(new, deep, r)
  BY <1>1, <1>3, CallsExtended
<1>5. rest \in Seq(CallRecord) /\ Len(rest) \in Nat
  BY DEF Continues
<1> HIDE DEF s
<1>6. Len(deep) = Len(rest) + 1 /\ deep[1] = s /\ \A k \in 1..Len(rest) : k + 1 \in 1..Len(deep) /\ deep[k + 1] = rest[k]
  BY <1>5
<1> HIDE DEF deep
<1>7. CASE slot # NoSlot /\ cs[1].depth + 1 <= MaxDepth
  <2>1. next = deep
    BY <1>7 DEF deep, s
  <2>2. 1 \in 1..Len(next) /\ next[1] = SubCall(ents, n, cs[1])
    BY <1>5, <1>6, <2>1 DEF s
  <2>3. Covers(next, rest) /\ GoesDown(next, new, ents, cs, n)
    BY <1>6, <2>1, <2>2 DEF Covers, GoesDown
  <2>4. Complete(new, next, r)
    BY <1>3, <2>3, CompleteExtended
  <2> QED
    BY <1>3, <1>4, <2>1, <2>4 DEF ScanGood
<1>8. CASE ~(slot # NoSlot /\ cs[1].depth + 1 <= MaxDepth)
  <2>1. next = rest
    BY <1>8
  <2>2. new[Len(new)].slot = NoSlot \/ cs[1].depth + 1 > MaxDepth
    <3>1. MaxDepth \in Nat
      BY SizesAssumption
    <3> QED
      BY <1>2, <1>3, <1>8, <3>1
  <2>3. Covers(next, rest) /\ GoesDown(next, new, ents, cs, n)
    BY <2>1, <2>2 DEF Covers, GoesDown
  <2>4. Complete(new, next, r)
    BY <1>3, <2>3, CompleteExtended
  <2> QED
    BY <1>3, <1>4, <2>1, <2>4 DEF ScanGood
<1> QED
  BY <1>7, <1>8

\* What is passed over has a dot, or there is no room left.
Drops(rest, cs, ents) ==
  /\ rest \in Seq(CallRecord) /\ Len(rest) = Len(cs) /\ \A k \in 2..Len(cs) : rest[k] = cs[k]
  /\ Reduced(rest[1], cs[1]) /\ \A n \in Pending(cs[1]) \ Pending(rest[1]) : Dotted(n) \/ Len(ents) = MaxEntries

LEMMA ScanDrops ==
  ASSUME NEW ents, NEW r, NEW cs, ScanGood(ents, cs, r), Len(cs) >= 1, NEW rest, Drops(rest, cs, ents)
  PROVE  ScanGood(ents, rest, r)
<1>1. CallsGood(ents, cs, r) /\ Complete(ents, cs, r) /\ EntriesGood(ents, r)
  BY DEF ScanGood
<1>2. Len(cs) \in Nat /\ Len(rest) = Len(cs) /\ 1 \in 1..Len(cs) /\ rest \in Seq(CallRecord)
  BY <1>1 DEF CallsGood, Drops
<1>3. ASSUME NEW k \in 1..Len(cs)
      PROVE  /\ CallGood(ents, rest[k], r) /\ rest[k].dir = cs[k].dir
             /\ \A n \in Pending(cs[k]) : n \in Pending(rest[k]) \/ Dotted(n) \/ Len(ents) = MaxEntries
  <2>0. CallGood(ents, cs[k], r)
    BY <1>1 DEF CallsGood
  <2>1. CASE k = 1
    <3>1. Reduced(rest[1], cs[1])
      BY DEF Drops
    <3>2. CallGood(ents, rest[1], r)
      BY <2>0, <2>1, <3>1, CallReduced
    <3> QED
      BY <2>1, <3>1, <3>2 DEF Drops, Reduced
  <2>2. CASE k # 1
    <3>1. k \in 2..Len(cs)
      BY <1>2, <2>2
    <3> QED
      BY <2>0, <3>1 DEF Drops
  <2> QED
    BY <2>1, <2>2
<1>4. CallsGood(ents, rest, r)
  <2>1. ASSUME NEW k \in 1..Len(cs), NEW l \in 1..Len(cs), rest[k].dir = rest[l].dir PROVE k = l
    <3>1. cs[k].dir = cs[l].dir
      BY <1>3, <2>1
    <3> QED
      BY <1>1, <3>1 DEF CallsGood
  <2> QED
    BY <1>2, <1>3, <2>1 DEF CallsGood
<1>5. ASSUME NEW d \in Tabled(ents), NEW n \in Children(NodeOf(ents, d, r)) PROVE Accounted(ents, rest, d, n)
  <2>1. Accounted(ents, cs, d, n)
    BY <1>1, <1>5 DEF Complete
  <2>2. CASE \E k \in 1..Len(cs) : cs[k].dir = d /\ n \in Pending(cs[k])
    <3>1. PICK k \in 1..Len(cs) : cs[k].dir = d /\ n \in Pending(cs[k])
      BY <2>2
    <3>2. n \in Pending(rest[k]) \/ Dotted(n) \/ Len(ents) = MaxEntries
      BY <1>3, <3>1
    <3>3. rest[k].dir = d /\ k \in 1..Len(rest)
      BY <1>2, <1>3, <3>1
    <3> QED
      BY <3>2, <3>3 DEF Accounted
  <2> QED
    BY <2>1, <2>2 DEF Accounted
<1>6. Complete(ents, rest, r)
  BY <1>1, <1>5 DEF Complete
<1> QED
  BY <1>1, <1>4, <1>6 DEF ScanGood

LEMMA ScanReturns ==
  ASSUME NEW ents, NEW r, NEW cs, ScanGood(ents, cs, r), Len(cs) >= 1, Pending(cs[1]) = {}
  PROVE  ScanGood(ents, Tail(cs), r)
<1>1. CallsGood(ents, cs, r) /\ Complete(ents, cs, r) /\ EntriesGood(ents, r)
  BY DEF ScanGood
<1> DEFINE t == Tail(cs)
<1>2. /\ cs \in Seq(CallRecord) /\ Len(cs) \in Nat /\ t \in Seq(CallRecord) /\ Len(t) = Len(cs) - 1
      /\ \A k \in 1..Len(t) : k + 1 \in 1..Len(cs) /\ t[k] = cs[k + 1]
  <2>1. cs \in Seq(CallRecord) /\ cs # << >> /\ Len(cs) \in Nat
    BY <1>1 DEF CallsGood
  <2>2. t \in Seq(CallRecord) /\ Len(t) = Len(cs) - 1 /\ \A k \in 1..Len(t) : t[k] = cs[k + 1]
    BY <2>1, HeadTailProperties
  <2> QED
    BY <2>1, <2>2
<1> HIDE DEF t
<1>3. CallsGood(ents, t, r)
  <2>1. \A k \in 1..Len(t) : CallGood(ents, t[k], r)
    BY <1>1, <1>2 DEF CallsGood
  <2>2. ASSUME NEW k \in 1..Len(t), NEW l \in 1..Len(t), t[k].dir = t[l].dir PROVE k = l
    <3>1. k + 1 \in 1..Len(cs) /\ l + 1 \in 1..Len(cs) /\ cs[k + 1].dir = cs[l + 1].dir
      BY <1>2, <2>2
    <3>2. k + 1 = l + 1
      BY <1>1, <3>1 DEF CallsGood
    <3> QED
      BY <3>2
  <2> QED
    BY <1>2, <2>1, <2>2 DEF CallsGood
<1>4. ASSUME NEW d \in Tabled(ents), NEW n \in Children(NodeOf(ents, d, r)) PROVE Accounted(ents, t, d, n)
  <2>1. Accounted(ents, cs, d, n)
    BY <1>1, <1>4 DEF Complete
  <2>2. CASE \E k \in 1..Len(cs) : cs[k].dir = d /\ n \in Pending(cs[k])
    <3>1. PICK k \in 1..Len(cs) : cs[k].dir = d /\ n \in Pending(cs[k])
      BY <2>2
    <3>2. k # 1
      BY <3>1
    <3>3. k - 1 \in 1..Len(t) /\ t[k - 1] = cs[k]
      <4>1. k - 1 \in 1..Len(t) /\ (k - 1) + 1 = k
        BY <1>2, <3>2
      <4> QED
        BY <1>2, <4>1
    <3> QED
      BY <3>1, <3>3 DEF Accounted
  <2> QED
    BY <2>1, <2>2 DEF Accounted
<1>5. Complete(ents, t, r)
  BY <1>1, <1>4 DEF Complete
<1> QED
  BY <1>1, <1>3, <1>5 DEF ScanGood, t

-----------------------------------------------------------------------------
(* What a scan starts with.                                                 *)

IsFileAdded(new, ents, parent) ==
  /\ new \in Seq(EntryRecord) /\ ApartIn(new) /\ Len(new) = Len(ents) + 1
  /\ \A i \in 1..Len(ents) : new[i] = ents[i]
  /\ new[Len(ents) + 1].node = NoNode /\ new[Len(ents) + 1].parent = parent
  /\ new[Len(ents) + 1].size = 0 /\ new[Len(ents) + 1].slot = NoSlot

LEMMA HidingIs ==
  /\ Hiding \in Seq(EntryRecord) /\ ApartIn(Hiding) /\ Len(Hiding) = 4
  /\ \A i \in 1..4 : /\ Hiding[i].node = NoNode /\ Hiding[i].parent < i /\ Hiding[i].size = 0
                     /\ Hiding[i].slot = IF i = 1 THEN 0 ELSE NoSlot
<1>0. MaxEntries \in Nat /\ MaxEntries >= 4 /\ MaxSubdirs \in Nat /\ MaxSubdirs >= 1
  BY SizesAssumption, SyntheticAssumption
<1>1. \A i \in 1..4 : Synthetic[i] \in Names
  BY DEF Names
<1>2. ASSUME NEW ents \in Seq(EntryRecord), ApartIn(ents), NEW i \in 2..4, NEW parent \in {0, 1},
             NEW new, new = FileEntry(ents, NoNode, Synthetic[i], parent, 0)
      PROVE  IsFileAdded(new, ents, parent)
  <2> DEFINE e == Entry(ents, NoNode, Synthetic[i], parent, FALSE, 0, NoSlot)
  <2>0. Synthetic[i] \in Names
    BY <1>1
  <2>1. e.short \in Shorts
    BY <1>2, <2>0, ShortNameFree DEF Entry
  <2>2. /\ e.node = NoNode /\ e.parent = parent /\ e.size = 0 /\ e.slot = NoSlot
        /\ e.short = ShortName(ents, e.parent, Synthetic[i])
    BY DEF Entry
  <2>3. e \in EntryRecord
    BY <2>0, <2>1 DEF Entry, EntryRecord, NoSlot
  <2>4. new = Append(ents, e)
    BY <1>2 DEF FileEntry
  <2> HIDE DEF e
  <2>5. new \in Seq(EntryRecord) /\ ApartIn(new)
    BY <1>2, <2>0, <2>2, <2>3, <2>4, EntryAdded
  <2>6. Len(new) = Len(ents) + 1 /\ new[Len(ents) + 1] = e /\ \A j \in 1..Len(ents) : new[j] = ents[j]
    BY <2>3, <2>4, AppendProperties
  <2> QED
    BY <2>2, <2>5, <2>6 DEF IsFileAdded
<1> DEFINE a == FolderEntry(<< >>, NoNode, Synthetic[1], 0)
           b == FileEntry(a, NoNode, Synthetic[2], 1, 0)
           c == FileEntry(b, NoNode, Synthetic[3], 0, 0)
           d == FileEntry(c, NoNode, Synthetic[4], 0, 0)
<1>3. /\ a \in Seq(EntryRecord) /\ ApartIn(a) /\ Len(a) = 1
      /\ a[1].node = NoNode /\ a[1].parent = 0 /\ a[1].size = 0 /\ a[1].slot = 0
  <2>1. Subdirs(<< >>) = 0
    <3>1. {i \in DOMAIN << >> : (<< >>)[i].slot # NoSlot} = {}
      OBVIOUS
    <3> QED
      BY <3>1, FS_EmptySet DEF Subdirs
  <2> DEFINE e == Entry(<< >>, NoNode, Synthetic[1], 0, TRUE, 0, 0)
  <2>2. a = Append(<< >>, e)
    <3>1. (IF Subdirs(<< >>) < MaxSubdirs THEN Subdirs(<< >>) ELSE NoSlot) = 0
      BY <1>0, <2>1
    <3> QED
      BY <3>1 DEF FolderEntry
  <2>3. << >> \in Seq(EntryRecord) /\ ApartIn(<< >>)
    BY DEF ApartIn
  <2>4. Synthetic[1] \in Names
    BY <1>1
  <2>5. e.short \in Shorts
    BY <2>3, <2>4, ShortNameFree DEF Entry
  <2>6. /\ e.node = NoNode /\ e.parent = 0 /\ e.size = 0 /\ e.slot = 0
        /\ e.short = ShortName(<< >>, e.parent, Synthetic[1])
    BY DEF Entry
  <2>7. e \in EntryRecord
    BY <2>4, <2>5 DEF Entry, EntryRecord
  <2> HIDE DEF a, e
  <2>8. a \in Seq(EntryRecord) /\ ApartIn(a)
    BY <2>2, <2>3, <2>4, <2>6, <2>7, EntryAdded
  <2>9. Len(a) = 1 /\ a[1] = e
    BY <2>2
  <2> QED
    BY <2>6, <2>8, <2>9
<1> HIDE DEF a
<1>4. /\ b \in Seq(EntryRecord) /\ ApartIn(b) /\ Len(b) = 2 /\ b[1] = a[1]
      /\ b[2].node = NoNode /\ b[2].parent = 1 /\ b[2].size = 0 /\ b[2].slot = NoSlot
  <2>1. IsFileAdded(b, a, 1)
    BY <1>2, <1>3
  <2> HIDE DEF b
  <2> QED
    BY <1>3, <2>1 DEF IsFileAdded
<1> HIDE DEF b
<1>5. /\ c \in Seq(EntryRecord) /\ ApartIn(c) /\ Len(c) = 3 /\ c[1] = b[1] /\ c[2] = b[2]
      /\ c[3].node = NoNode /\ c[3].parent = 0 /\ c[3].size = 0 /\ c[3].slot = NoSlot
  <2>1. IsFileAdded(c, b, 0)
    BY <1>2, <1>4
  <2> HIDE DEF c
  <2> QED
    BY <1>4, <2>1 DEF IsFileAdded
<1> HIDE DEF c
<1>6. /\ d \in Seq(EntryRecord) /\ ApartIn(d) /\ Len(d) = 4 /\ d[1] = c[1] /\ d[2] = c[2] /\ d[3] = c[3]
      /\ d[4].node = NoNode /\ d[4].parent = 0 /\ d[4].size = 0 /\ d[4].slot = NoSlot
  <2>1. IsFileAdded(d, c, 0)
    BY <1>2, <1>5
  <2> HIDE DEF d
  <2> QED
    BY <1>5, <2>1 DEF IsFileAdded
<1> HIDE DEF d
<1>7. Hiding = d
  <2>1. Len(b) < MaxEntries /\ Len(c) < MaxEntries
    BY <1>0, <1>4, <1>5
  <2> QED
    BY <2>1 DEF Hiding, a, b, c, d
<1>8. ASSUME NEW i \in 1..4
      PROVE  d[i].node = NoNode /\ d[i].parent < i /\ d[i].size = 0 /\ d[i].slot = IF i = 1 THEN 0 ELSE NoSlot
  <2>1. i = 1 \/ i = 2 \/ i = 3 \/ i = 4
    OBVIOUS
  <2> QED
    BY <1>3, <1>4, <1>5, <1>6, <2>1
<1> QED
  BY <1>6, <1>7, <1>8

LEMMA ScanStarts ==
  ASSUME NEW r \in {Top, Documents}
  PROVE  ScanGood(Hiding, <<Call(0, r, 0, First(r))>>, r)
<1> DEFINE h == Hiding
           c == Call(0, r, 0, First(r))
<1>1. /\ h \in Seq(EntryRecord) /\ ApartIn(h) /\ Len(h) = 4
      /\ \A i \in 1..4 : h[i].node = NoNode /\ h[i].parent < i /\ h[i].size = 0
  BY HidingIs
<1> HIDE DEF h
<1>2. EntriesGood(h, r)
  BY <1>1 DEF EntriesGood, InFolder
<1>3. /\ c \in CallRecord /\ c.dir = 0 /\ c.depth = 0 /\ Pending(c) = Children(r) \cup First(r)
      /\ c.first = First(r) /\ c.first \cap c.left = {}
  <2>1. First(r) \subseteq Nodes /\ Children(r) \subseteq Nodes
    BY RootsAre, ChildrenAre DEF First
  <2> QED
    BY <2>1 DEF Call, CallRecord, Pending
<1>4. First(r) \subseteq {Documents} /\ First(r) \subseteq Children(r)
  BY TreeAssumption DEF First, Children
<1> HIDE DEF c
<1>5. NodeOf(h, 0, r) = r
  BY DEF NodeOf
<1>6. CallGood(h, c, r)
  <2>1. Pending(c) \subseteq Children(NodeOf(h, c.dir, r)) /\ c.dir \in 0..Len(h)
    BY <1>1, <1>3, <1>4, <1>5
  <2>2. NoNode \notin Pending(c)
    BY <1>3, <1>4, ChildrenAre
  <2>3. \A i \in 1..Len(h) : h[i].node \notin Pending(c)
    BY <1>1, <2>2
  <2>4. \A D : DepthsOf(D, h) => c.depth = D[c.dir]
    BY <1>3 DEF DepthsOf
  <2> QED
    BY <1>3, <1>4, <2>1, <2>3, <2>4 DEF CallGood
<1>7. CallsGood(h, <<c>>, r)
  BY <1>3, <1>6 DEF CallsGood
<1>8. Complete(h, <<c>>, r)
  <2>1. Len(h) <= MaxEntries
    BY <1>1, SyntheticAssumption, SizesAssumption
  <2>2. ASSUME NEW d \in Tabled(h), NEW n \in Children(NodeOf(h, d, r)) PROVE Accounted(h, <<c>>, d, n)
    <3>1. CASE d = 0
      <4>1. n \in Pending(c)
        BY <1>3, <1>5, <2>2, <3>1
      <4>2. Len(<<c>>) = 1 /\ (<<c>>)[1] = c
        OBVIOUS
      <4> QED
        BY <1>3, <3>1, <4>1, <4>2 DEF Accounted
    <3>2. CASE d # 0
      <4>1. d \in 1..4
        BY <1>1, <3>2 DEF Tabled
      <4>2. NodeOf(h, d, r) = NoNode
        BY <1>1, <4>1 DEF NodeOf
      <4> QED
        BY <2>2, <4>2, RootsAre, ChildrenAre
    <3> QED
      BY <3>1, <3>2
  <2> QED
    BY <2>1, <2>2 DEF Complete
<1> QED
  BY <1>2, <1>7, <1>8 DEF ScanGood, h, c

-----------------------------------------------------------------------------
(* Depths.                                                                  *)

DepthsTo(f, k, ents) == f \in [0..k -> Nat] /\ f[0] = 0 /\ \A i \in 1..k : f[i] = f[ents[i].parent] + 1
IsDepths(f) == f = [d \in 0..Len(entries) |-> IF d = 0 THEN 0 ELSE f[entries[d].parent] + 1]

LEMMA ParentBefore ==
  ASSUME NEW ents, NEW r, EntriesGood(ents, r), NEW i \in 1..Len(ents)
  PROVE  ents[i].parent \in 0..i - 1
<1>1. ents \in Seq(EntryRecord) /\ InFolder(ents, i, r)
  BY DEF EntriesGood
<1>2. ents[i].parent \in Nat /\ ents[i].parent < i /\ i \in Nat
  BY <1>1, ParentIs DEF InFolder
<1> QED
  BY <1>2

LEMMA DepthsExist ==
  ASSUME NEW ents, NEW r, EntriesGood(ents, r)
  PROVE  \E f : DepthsTo(f, Len(ents), ents)
<1> DEFINE n == Len(ents)
           S == {k \in 0..n : \E f : DepthsTo(f, k, ents)}
<1>1. n \in Nat
  BY DEF EntriesGood
<1>2. 0 \in S
  <2>1. DepthsTo([i \in 0..0 |-> 0], 0, ents)
    BY DEF DepthsTo
  <2> QED
    BY <1>1, <2>1
<1>3. ASSUME NEW k \in 0..n - 1, k \in S PROVE k + 1 \in S
  <2>1. PICK f : DepthsTo(f, k, ents)
    BY <1>3
  <2>2. k + 1 \in 1..n /\ k + 1 \in 0..n /\ k \in Nat
    BY <1>1
  <2>3. ents[k + 1].parent \in 0..k
    <3>1. ents[k + 1].parent \in 0..(k + 1) - 1
      BY <2>2, ParentBefore
    <3> QED
      BY <2>2, <3>1
  <2>4. f \in [0..k -> Nat] /\ f[0] = 0 /\ \A i \in 1..k : f[i] = f[ents[i].parent] + 1
    BY <2>1 DEF DepthsTo
  <2> DEFINE g == [i \in 0..k + 1 |-> IF i <= k THEN f[i] ELSE f[ents[k + 1].parent] + 1]
  <2>5. g \in [0..k + 1 -> Nat] /\ g[0] = 0 /\ g[k + 1] = f[ents[k + 1].parent] + 1 /\ \A i \in 0..k : g[i] = f[i]
    BY <2>2, <2>3, <2>4
  <2> HIDE DEF g
  <2>6. ASSUME NEW i \in 1..k + 1 PROVE g[i] = g[ents[i].parent] + 1
    <3>1. CASE i = k + 1
      BY <2>3, <2>5, <3>1
    <3>2. CASE i # k + 1
      <4>1. i \in 1..k /\ i \in 1..n /\ i \in 0..k
        BY <1>1, <2>2, <3>2
      <4>2. ents[i].parent \in 0..k
        <5>1. ents[i].parent \in 0..i - 1
          BY <4>1, ParentBefore
        <5> QED
          BY <2>2, <4>1, <5>1
      <4> QED
        BY <2>4, <2>5, <4>1, <4>2
    <3> QED
      BY <3>1, <3>2
  <2>7. DepthsTo(g, k + 1, ents)
    BY <2>5, <2>6 DEF DepthsTo
  <2> QED
    BY <2>2, <2>7
<1>4. 0..n \subseteq S
  <2> HIDE DEF S, n
  <2> QED
    BY <1>1, <1>2, <1>3, CountFromZero
<1> QED
  BY <1>1, <1>4

LEMMA DepthsAre ==
  ASSUME NEW r, EntriesGood(entries, r)
  PROVE  DepthsOf(Depths, entries)
<1> DEFINE n == Len(entries)
           f == CHOOSE g : IsDepths(g)
<1>1. n \in Nat
  BY DEF EntriesGood
<1>2. \E g : IsDepths(g)
  <2>1. PICK g : DepthsTo(g, n, entries)
    BY DepthsExist
  <2>2. ASSUME NEW d \in 0..n PROVE g[d] = IF d = 0 THEN 0 ELSE g[entries[d].parent] + 1
    <3>1. d # 0 => d \in 1..n
      BY <1>1
    <3> QED
      BY <2>1, <3>1 DEF DepthsTo
  <2>3. g = [d \in 0..n |-> g[d]]
    BY <2>1 DEF DepthsTo
  <2>4. g = [d \in 0..n |-> IF d = 0 THEN 0 ELSE g[entries[d].parent] + 1]
    BY <2>2, <2>3
  <2> QED
    BY <2>4 DEF IsDepths
<1>3. IsDepths(f)
  BY <1>2
<1>4. Depths = f
  BY DEF Depths, IsDepths
<1> HIDE DEF f
<1> DEFINE S == {k \in 0..n : \A d \in 0..k : f[d] \in Nat}
<1>5. f[0] = 0 /\ \A i \in 1..n : f[i] = f[entries[i].parent] + 1
  <2>1. 0 \in 0..n /\ \A i \in 1..n : i \in 0..n /\ i # 0
    BY <1>1
  <2> QED
    BY <1>3, <2>1 DEF IsDepths
<1>6. 0 \in S
  BY <1>1, <1>5
<1>7. ASSUME NEW k \in 0..n - 1, k \in S PROVE k + 1 \in S
  <2>1. k + 1 \in 1..n /\ k + 1 \in 0..n /\ (k + 1) - 1 = k
    BY <1>1
  <2>2. entries[k + 1].parent \in 0..k
    <3>1. entries[k + 1].parent \in 0..(k + 1) - 1
      BY <2>1, ParentBefore
    <3> QED
      BY <2>1, <3>1
  <2>3. f[k + 1] \in Nat
    BY <1>5, <1>7, <2>1, <2>2
  <2>4. \A d \in 0..k + 1 : d \in 0..k \/ d = k + 1
    OBVIOUS
  <2> QED
    BY <1>7, <2>1, <2>3, <2>4
<1>8. 0..n \subseteq S
  <2> HIDE DEF S, n
  <2> QED
    BY <1>1, <1>6, <1>7, CountFromZero
<1>9. f \in [0..n -> Nat]
  <2>1. \A d \in 0..n : f[d] \in Nat
    BY <1>1, <1>8
  <2>2. f = [d \in 0..n |-> f[d]]
    BY <1>3 DEF IsDepths
  <2> QED
    BY <2>1, <2>2
<1> QED
  BY <1>4, <1>5, <1>9 DEF DepthsOf

-----------------------------------------------------------------------------
(* The inductive invariant.                                                 *)

HasDocuments(ents) == \E i \in 1..Len(ents) : ents[i].node = Documents /\ ents[i].slot # NoSlot

\* At the root of the file system, "documents" comes before all else.
DocumentsInv ==
  root = Top /\ MaxSubdirs >= 2 /\ MaxEntries >= 5 =>
    \/ entries = Hiding /\ Len(calls) = 1 /\ calls[1].first = {Documents}
    \/ HasDocuments(entries) /\ \A k \in 1..Len(calls) : calls[k].first = {}

ServedInv == Served => calls = << >> /\ FatServed /\ volume.tables = Tables(entries)

VolumeInv ==
  /\ size \in [Nodes \ Folders -> Sizes] /\ root \in {Top, Documents}
  /\ ScanGood(entries, calls, root) /\ DocumentsInv /\ ServedInv

LEMMA StartInv ==
  ASSUME NEW r \in {Top, Documents}, NEW cs, cs = <<Call(0, r, 0, First(r))>>
  PROVE  /\ ScanGood(Hiding, cs, r) /\ Len(cs) = 1 /\ (r = Top => cs[1].first = {Documents})
<1>1. Len(cs) = 1 /\ cs[1] = Call(0, r, 0, First(r))
  OBVIOUS
<1>2. cs[1].first = First(r)
  BY <1>1 DEF Call
<1> QED
  BY <1>1, <1>2, ScanStarts DEF First

LEMMA VolumeInit == Init => VolumeInv
<1> SUFFICES ASSUME Init PROVE VolumeInv
  OBVIOUS
<1>1. ScanGood(entries, calls, root) /\ root = Documents /\ size \in [Nodes \ Folders -> Sizes] /\ ~Served
  BY StartInv DEF Init, Served
<1>2. DocumentsInv
  BY <1>1, RootsAre DEF DocumentsInv
<1> QED
  BY <1>1, <1>2 DEF VolumeInv, ServedInv

LEMMA RestIs ==
  ASSUME NEW cs \in Seq(CallRecord), Len(cs) >= 1, NEW c \in CallRecord, NEW rest, rest = <<c>> \o Tail(cs)
  PROVE  /\ rest \in Seq(CallRecord) /\ Len(rest) = Len(cs) /\ rest[1] = c
         /\ \A k \in 2..Len(cs) : rest[k] = cs[k]
<1>1. cs # << >> /\ Len(cs) \in Nat
  OBVIOUS
<1> DEFINE t == Tail(cs)
<1>2. t \in Seq(CallRecord) /\ Len(t) = Len(cs) - 1 /\ \A k \in 1..Len(t) : t[k] = cs[k + 1]
  BY <1>1, HeadTailProperties
<1> HIDE DEF t
<1>3. rest = <<c>> \o t
  BY DEF t
<1>4. rest \in Seq(CallRecord) /\ Len(rest) = Len(t) + 1 /\ rest[1] = c /\ \A k \in 2..Len(t) + 1 : rest[k] = t[k - 1]
  BY <1>2, <1>3
<1>5. \A k \in 2..Len(cs) : k \in 2..Len(t) + 1 /\ k - 1 \in 1..Len(t) /\ (k - 1) + 1 = k
  BY <1>1, <1>2
<1> QED
  BY <1>1, <1>2, <1>4, <1>5

LEMMA SubdirsNat ==
  ASSUME NEW ents \in Seq(EntryRecord)
  PROVE  Subdirs(ents) \in Nat
<1> DEFINE s == {i \in DOMAIN ents : ents[i].slot # NoSlot}
<1>1. s \subseteq 1..Len(ents) /\ IsFiniteSet(1..Len(ents))
  BY FS_Interval
<1>2. IsFiniteSet(s)
  BY <1>1, FS_Subset
<1> QED
  BY <1>2, FS_CardinalityType DEF Subdirs

\* The head of the calls.
LEMMA HeadIs ==
  ASSUME VolumeInv, calls # << >>
  PROVE  /\ calls \in Seq(CallRecord) /\ Len(calls) >= 1 /\ Len(calls) \in Nat /\ Head(calls) = calls[1]
         /\ CallGood(entries, calls[1], root) /\ calls[1] \in CallRecord /\ ~Served
         /\ entries \in Seq(EntryRecord) /\ Len(entries) \in Nat /\ Len(entries) <= MaxEntries /\ MaxEntries \in Nat
<1>1. EntriesGood(entries, root) /\ CallsGood(entries, calls, root) /\ Complete(entries, calls, root)
  BY DEF VolumeInv, ScanGood
<1>2. calls \in Seq(CallRecord)
  BY <1>1 DEF CallsGood
<1>3. Len(calls) >= 1 /\ Len(calls) \in Nat /\ Head(calls) = calls[1]
  BY <1>2
<1>4. CallGood(entries, calls[1], root) /\ calls[1] \in CallRecord
  <2>1. 1 \in 1..Len(calls)
    BY <1>3
  <2> QED
    BY <1>1, <1>2, <2>1 DEF CallsGood
<1>5. entries \in Seq(EntryRecord) /\ Len(entries) <= MaxEntries
  BY <1>1 DEF EntriesGood, Complete
<1> QED
  BY <1>2, <1>3, <1>4, <1>5, SizesAssumption DEF VolumeInv, ServedInv

\* A file or a folder is scanned.
LEMMA ScanOneStep ==
  ASSUME VolumeInv, calls # << >>, Len(entries) < MaxEntries, NEW n \in Pending(calls[1]),
         calls[1].first \subseteq {n}, NEW rest, Continues(rest, calls, n), rest[1].first = {},
         ScanOne(n, rest), UNCHANGED <<size, root, volume, toggles>>
  PROVE  VolumeInv'
<1> DEFINE c == calls[1]
           free == IF Subdirs(entries) < MaxSubdirs THEN Subdirs(entries) ELSE NoSlot
<1>1. /\ Len(calls) >= 1 /\ Len(calls) \in Nat /\ Head(calls) = c /\ CallGood(entries, c, root) /\ ~Served
      /\ entries \in Seq(EntryRecord) /\ Len(entries) \in Nat
  BY HeadIs
<1>2. free \in Int /\ NoSlot \in Int
  BY <1>1, SubdirsNat DEF NoSlot
<1>3. Scans(entries, calls, n, root)
  BY <1>1 DEF Scans, VolumeInv
<1>4. PICK new, next, slot :
        /\ new = entries' /\ next = calls' /\ NewEntry(new, entries, c, n, slot)
        /\ next = IF slot # NoSlot /\ c.depth + 1 <= MaxDepth THEN <<SubCall(entries, n, c)>> \o rest ELSE rest
        /\ n \in Folders => slot = free
  <2> HIDE DEF free
  <2>1. CASE n \in Folders
    <3> DEFINE e == Entry(entries, n, Name[n], c.dir, TRUE, 0, free)
    <3>1. entries' = Append(entries, e)
      BY <1>1, <2>1 DEF ScanOne, ScanFolder, FolderEntry, free
    <3>2. NewEntry(entries', entries, c, n, free)
      <4>1. \E dir \in BOOLEAN, sz \in Nat :
              (dir => sz = 0) /\ entries' = Append(entries, Entry(entries, n, Name[n], c.dir, dir, sz, free))
        BY <3>1
      <4> QED
        BY <1>2, <4>1 DEF NewEntry
    <3>3. e.slot = free
      BY DEF Entry
    <3> HIDE DEF e
    <3>4. Len(entries') = Len(entries) + 1 /\ Last(entries').slot = free
      BY <1>1, <3>1, <3>3 DEF Last
    <3>5. calls' = IF free # NoSlot /\ c.depth + 1 <= MaxDepth THEN <<SubCall(entries, n, c)>> \o rest ELSE rest
      <4>1. FolderEntry(entries, n, Name[n], c.dir) = entries'
        BY <1>1, <2>1 DEF ScanOne, ScanFolder
      <4>2. calls' = IF Last(entries').slot # NoSlot /\ c.depth + 1 <= MaxDepth
                     THEN <<Call(Len(entries'), n, c.depth + 1, {})>> \o rest ELSE rest
        BY <1>1, <2>1, <4>1 DEF ScanOne, ScanFolder
      <4>3. Call(Len(entries'), n, c.depth + 1, {}) = SubCall(entries, n, c)
        BY <3>4 DEF Call, SubCall
      <4> QED
        BY <3>4, <4>2, <4>3
    <3> QED
      BY <3>2, <3>5
  <2>2. CASE n \notin Folders
    <3>1. size[n] \in Nat
      <4>1. n \in Nodes
        BY <1>1, ChildrenAre DEF CallGood
      <4> QED
        BY <2>2, <4>1, SizesAssumption DEF VolumeInv
    <3>2. entries' = Append(entries, Entry(entries, n, Name[n], c.dir, FALSE, size[n], NoSlot)) /\ calls' = rest
      BY <1>1, <2>2 DEF ScanOne, ScanFile, FileEntry
    <3>3. NewEntry(entries', entries, c, n, NoSlot)
      <4>1. \E dir \in BOOLEAN, sz \in Nat :
              (dir => sz = 0) /\ entries' = Append(entries, Entry(entries, n, Name[n], c.dir, dir, sz, NoSlot))
        BY <3>1, <3>2
      <4> QED
        BY <1>2, <4>1 DEF NewEntry
    <3> QED
      BY <2>2, <3>2, <3>3
  <2> QED
    BY <2>1, <2>2
<1>5. /\ ScanGood(new, next, root) /\ Extends(new, entries)
      /\ new[Len(new)].node = n /\ new[Len(new)].slot = slot
  <2>1. PICK r \in {Top, Documents} : r = root
    BY DEF VolumeInv
  <2>2. Scans(entries, calls, n, r)
    BY <1>3, <2>1
  <2>3. NewEntry(new, entries, calls[1], n, slot)
    BY <1>4
  <2>4. next = IF slot # NoSlot /\ calls[1].depth + 1 <= MaxDepth
               THEN <<SubCall(entries, n, calls[1])>> \o rest ELSE rest
    BY <1>4
  <2>5. ScanGood(new, next, r) /\ Extends(new, entries) /\ new[Len(new)].node = n /\ new[Len(new)].slot = slot
    <3> HIDE DEF c, free
    <3>1. Grown(new, next, entries, calls, n, slot, r)
      <4>1. GoesOn(next, rest, entries, calls, n, slot)
        BY <2>4 DEF GoesOn
      <4> QED
        BY <2>2, <2>3, <4>1, ScanNode
    <3> QED
      BY <3>1 DEF Grown
  <2> QED
    BY <2>1, <2>5
<1>6. ScanGood(entries, calls, root)' /\ root' \in {Top, Documents} /\ size' \in [Nodes \ Folders -> Sizes]
  BY <1>4, <1>5 DEF VolumeInv
<1>7. rest \in Seq(CallRecord) /\ Len(rest) = Len(calls) /\ \A k \in 2..Len(calls) : rest[k] = calls[k]
  BY DEF Continues
<1>8. ASSUME root = Top, MaxSubdirs >= 2, MaxEntries >= 5
      PROVE  HasDocuments(new) /\ \A k \in 1..Len(next) : next[k].first = {}
  <2>1. Len(new) = Len(entries) + 1 /\ \A i \in 1..Len(entries) : new[i] = entries[i]
    BY <1>5 DEF Extends
  <2>2. \A k \in 2..Len(calls) : calls[k].first = {}
    BY <1>1, <1>8 DEF VolumeInv, DocumentsInv
  <2>3. \A k \in 1..Len(rest) : rest[k].first = {}
    <3>1. \A k \in 1..Len(rest) : k = 1 \/ k \in 2..Len(calls)
      BY <1>1, <1>7
    <3> QED
      BY <1>7, <2>2, <3>1
  <2>4. \A k \in 1..Len(next) : next[k].first = {}
    <3> DEFINE s == SubCall(entries, n, c)
               deep == <<s>> \o rest
    <3>1. s.first = {}
      BY DEF SubCall
    <3> HIDE DEF s
    <3>2. Len(deep) = Len(rest) + 1 /\ deep[1] = s /\ \A k \in 2..Len(rest) + 1 : deep[k] = rest[k - 1]
      BY <1>7
    <3> HIDE DEF deep
    <3>3. ASSUME NEW k \in 1..Len(deep) PROVE deep[k].first = {}
      <4>1. Len(rest) \in Nat
        BY <1>7
      <4>2. k = 1 \/ (k \in 2..Len(rest) + 1 /\ k - 1 \in 1..Len(rest))
        BY <3>2, <4>1
      <4> QED
        BY <2>3, <3>1, <3>2, <4>2
    <3>4. next = deep \/ next = rest
      BY <1>4 DEF deep, s
    <3> QED
      BY <2>3, <3>3, <3>4
  <2>5. CASE HasDocuments(entries)
    <3>1. PICK i \in 1..Len(entries) : entries[i].node = Documents /\ entries[i].slot # NoSlot
      BY <2>5 DEF HasDocuments
    <3>2. i \in 1..Len(new) /\ new[i] = entries[i]
      BY <1>1, <2>1
    <3> QED
      BY <2>4, <3>1, <3>2 DEF HasDocuments
  <2>6. CASE entries = Hiding /\ calls[1].first = {Documents}
    <3>1. n = Documents /\ n \in Folders
      BY <2>6, TreeAssumption
    <3>2. Subdirs(entries) = 1
      <4>1. {i \in DOMAIN Hiding : Hiding[i].slot # NoSlot} = {1}
        <5>1. DOMAIN Hiding = 1..4
          BY HidingIs
        <5>2. \A i \in 1..4 : Hiding[i].slot # NoSlot <=> i = 1
          BY HidingIs DEF NoSlot
        <5> QED
          BY <5>1, <5>2
      <4>2. Cardinality({1}) = 1
        BY FS_Singleton
      <4>3. Subdirs(entries) = Cardinality({i \in DOMAIN Hiding : Hiding[i].slot # NoSlot})
        BY <2>6 DEF Subdirs
      <4> QED
        BY <4>1, <4>2, <4>3
    <3>3. slot # NoSlot
      <4>1. Subdirs(entries) < MaxSubdirs
        <5>1. MaxSubdirs \in Nat
          BY SizesAssumption
        <5> QED
          BY <1>8, <3>2, <5>1
      <4>2. free = 1
        BY <3>2, <4>1
      <4>3. slot = free
        BY <1>4, <3>1
      <4> QED
        BY <4>2, <4>3 DEF NoSlot
    <3>4. Len(new) \in 1..Len(new)
      BY <1>1, <2>1
    <3> QED
      BY <1>5, <2>4, <3>1, <3>3, <3>4 DEF HasDocuments
  <2> QED
    BY <1>8, <2>5, <2>6 DEF VolumeInv, DocumentsInv
<1>9. DocumentsInv'
  BY <1>4, <1>8 DEF DocumentsInv
<1>10. ServedInv'
  BY <1>1 DEF ServedInv, Served
<1> QED
  BY <1>6, <1>9, <1>10 DEF VolumeInv

\* Something is passed over.
LEMMA SkipStep ==
  ASSUME VolumeInv, calls # << >>, NEW rest, Drops(rest, calls, entries), rest[1].first = {},
         calls[1].first = {} \/ Len(entries) >= MaxEntries,
         entries' = entries, calls' = rest, UNCHANGED <<size, root, volume, toggles>>
  PROVE  VolumeInv'
<1>1. Len(calls) >= 1 /\ Len(calls) \in Nat /\ ~Served /\ MaxEntries \in Nat /\ Len(entries) \in Nat
  BY HeadIs
<1>2. ScanGood(entries, rest, root)
  BY <1>1, ScanDrops DEF VolumeInv
<1>3. ScanGood(entries, calls, root)' /\ root' \in {Top, Documents} /\ size' \in [Nodes \ Folders -> Sizes]
  BY <1>2 DEF VolumeInv
<1>4. ASSUME root = Top, MaxSubdirs >= 2, MaxEntries >= 5
      PROVE  HasDocuments(entries) /\ \A k \in 1..Len(rest) : rest[k].first = {}
  <2>1. ~(entries = Hiding /\ calls[1].first = {Documents})
    <3>1. {Documents} # {}
      OBVIOUS
    <3>2. CASE calls[1].first = {}
      BY <3>1, <3>2
    <3>3. CASE Len(entries) >= MaxEntries
      <4>1. Len(Hiding) = 4
        BY HidingIs
      <4>2. Len(entries) # 4
        <5>1. \A a \in Nat, b \in Nat : a >= b /\ b >= 5 => a # 4
          OBVIOUS
        <5>2. MaxEntries >= 5
          BY <1>4
        <5> QED
          BY <1>1, <3>3, <5>1, <5>2
      <4>3. entries # Hiding
        BY <4>1, <4>2
      <4> QED
        BY <4>3
    <3> QED
      BY <3>2, <3>3
  <2>2. HasDocuments(entries) /\ \A k \in 1..Len(calls) : calls[k].first = {}
    BY <1>4, <2>1 DEF VolumeInv, DocumentsInv
  <2>3. \A k \in 1..Len(rest) : k = 1 \/ (k \in 2..Len(calls) /\ k \in 1..Len(calls) /\ rest[k] = calls[k])
    BY <1>1 DEF Drops
  <2> QED
    BY <2>2, <2>3
<1>5. DocumentsInv'
  BY <1>4 DEF DocumentsInv
<1>6. ServedInv'
  BY <1>1 DEF ServedInv, Served
<1> QED
  BY <1>3, <1>5, <1>6 DEF VolumeInv

LEMMA ReadFirstStep == VolumeInv /\ ReadFirst => VolumeInv'
<1> SUFFICES ASSUME VolumeInv, ReadFirst PROVE VolumeInv'
  OBVIOUS
<1> DEFINE c == calls[1]
           b == [c EXCEPT !.first = {}]
<1>1. calls # << >> /\ UNCHANGED <<size, root, volume, toggles>>
  BY DEF ReadFirst
<1>2. /\ calls \in Seq(CallRecord) /\ Len(calls) >= 1 /\ Head(calls) = c /\ c \in CallRecord
      /\ Len(entries) \in Nat /\ Len(entries) <= MaxEntries /\ MaxEntries \in Nat
      /\ c.first \subseteq {Documents} /\ c.first \cap c.left = {}
  BY <1>1, HeadIs DEF CallGood
<1>3. PICK n \in c.first :
        IF Len(entries) < MaxEntries THEN ScanOne(n, <<b>> \o Tail(calls))
        ELSE entries' = entries /\ calls' = <<b>> \o Tail(calls)
  BY <1>2 DEF ReadFirst
<1>4. /\ b \in CallRecord /\ b.dir = c.dir /\ b.depth = c.depth /\ b.first = {} /\ b.left = c.left
  BY <1>2 DEF CallRecord
<1> HIDE DEF b
<1>5. PICK rest : rest = <<b>> \o Tail(calls)
  OBVIOUS
<1>6. /\ rest \in Seq(CallRecord) /\ Len(rest) = Len(calls) /\ rest[1] = b
      /\ \A k \in 2..Len(calls) : rest[k] = calls[k]
  BY <1>2, <1>4, <1>5, RestIs
<1>7. Reduced(rest[1], calls[1]) /\ rest[1].first = {} /\ n \in Pending(calls[1]) /\ c.first \subseteq {n}
  BY <1>2, <1>3, <1>4, <1>6 DEF Reduced, Pending
<1>8. CASE Len(entries) < MaxEntries
  <2>1. Continues(rest, calls, n)
    BY <1>2, <1>4, <1>6, <1>7 DEF Continues, Pending
  <2>2. ScanOne(n, rest)
    BY <1>3, <1>5, <1>8
  <2> QED
    BY <1>1, <1>7, <1>8, <2>1, <2>2, ScanOneStep
<1>9. CASE ~(Len(entries) < MaxEntries)
  <2>1. Len(entries) = MaxEntries /\ Len(entries) >= MaxEntries
    BY <1>2, <1>9
  <2>2. Drops(rest, calls, entries)
    BY <1>6, <1>7, <2>1 DEF Drops
  <2> QED
    BY <1>1, <1>3, <1>5, <1>7, <1>9, <2>1, <2>2, SkipStep
<1> QED
  BY <1>8, <1>9

LEMMA ReadNextStep == VolumeInv /\ ReadNext => VolumeInv'
<1> SUFFICES ASSUME VolumeInv, ReadNext PROVE VolumeInv'
  OBVIOUS
<1> DEFINE c == calls[1]
           b(left) == [c EXCEPT !.left = left]
<1>1. calls # << >> /\ UNCHANGED <<size, root, volume, toggles>>
  BY DEF ReadNext
<1>2. /\ calls \in Seq(CallRecord) /\ Len(calls) >= 1 /\ Head(calls) = c /\ c \in CallRecord
      /\ Len(entries) \in Nat /\ Len(entries) <= MaxEntries /\ MaxEntries \in Nat
  BY <1>1, HeadIs
<1>3. c.first = {}
  BY <1>2 DEF ReadNext
<1>4. PICK n \in c.left :
        IF Dotted(n) THEN entries' = entries /\ calls' = <<b(c.left \ {n})>> \o Tail(calls)
        ELSE IF Len(entries) >= MaxEntries THEN entries' = entries /\ calls' = <<b({})>> \o Tail(calls)
        ELSE ScanOne(n, <<b(c.left \ {n})>> \o Tail(calls))
  BY <1>2 DEF ReadNext
<1>5. ASSUME NEW left \in {c.left \ {n}, {}}, NEW rest, rest = <<b(left)>> \o Tail(calls)
      PROVE  /\ rest \in Seq(CallRecord) /\ Len(rest) = Len(calls)
             /\ \A k \in 2..Len(calls) : rest[k] = calls[k]
             /\ Reduced(rest[1], calls[1]) /\ rest[1].first = {} /\ Pending(rest[1]) = left
  <2> DEFINE d == b(left)
  <2>1. d \in CallRecord /\ d.dir = c.dir /\ d.depth = c.depth /\ d.first = {} /\ d.left = left
    BY <1>2, <1>3 DEF CallRecord
  <2> HIDE DEF d
  <2>2. /\ rest \in Seq(CallRecord) /\ Len(rest) = Len(calls) /\ rest[1] = d
        /\ \A k \in 2..Len(calls) : rest[k] = calls[k]
    <3>1. rest = <<d>> \o Tail(calls)
      BY <1>5 DEF d
    <3> QED
      BY <1>2, <2>1, <3>1, RestIs
  <2> QED
    BY <1>3, <2>1, <2>2 DEF Reduced, Pending
<1>6. Pending(calls[1]) = c.left /\ n \in Pending(calls[1]) /\ c.first \subseteq {n}
  BY <1>3 DEF Pending
<1> DEFINE less == c.left \ {n}
<1>7. PICK rest : rest = <<b(less)>> \o Tail(calls)
  OBVIOUS
<1>8. PICK none : none = <<b({})>> \o Tail(calls)
  OBVIOUS
<1>9. /\ rest \in Seq(CallRecord) /\ Len(rest) = Len(calls) /\ \A k \in 2..Len(calls) : rest[k] = calls[k]
      /\ Reduced(rest[1], calls[1]) /\ rest[1].first = {} /\ Pending(rest[1]) = less
  BY <1>5, <1>7
<1>10. /\ none \in Seq(CallRecord) /\ Len(none) = Len(calls) /\ \A k \in 2..Len(calls) : none[k] = calls[k]
       /\ Reduced(none[1], calls[1]) /\ none[1].first = {} /\ Pending(none[1]) = {}
  BY <1>5, <1>8
<1> HIDE DEF b
<1>11. CASE Dotted(n)
  <2>1. Drops(rest, calls, entries)
    BY <1>6, <1>9, <1>11 DEF Drops
  <2>2. entries' = entries /\ calls' = rest
    BY <1>4, <1>7, <1>11
  <2> QED
    BY <1>1, <1>3, <1>9, <2>1, <2>2, SkipStep
<1>12. CASE ~Dotted(n) /\ Len(entries) >= MaxEntries
  <2>1. Len(entries) = MaxEntries
    BY <1>2, <1>12
  <2>2. Drops(none, calls, entries)
    BY <1>10, <2>1 DEF Drops
  <2>3. entries' = entries /\ calls' = none
    BY <1>4, <1>8, <1>12
  <2> QED
    BY <1>1, <1>3, <1>10, <2>2, <2>3, SkipStep
<1>13. CASE ~Dotted(n) /\ ~(Len(entries) >= MaxEntries)
  <2>1. Len(entries) < MaxEntries
    BY <1>2, <1>13
  <2>2. Continues(rest, calls, n)
    BY <1>6, <1>9 DEF Continues
  <2>3. ScanOne(n, rest)
    BY <1>4, <1>7, <1>13
  <2> QED
    BY <1>1, <1>6, <1>9, <2>1, <2>2, <2>3, ScanOneStep
<1> QED
  BY <1>11, <1>12, <1>13

LEMMA ReturnStep == VolumeInv /\ Return => VolumeInv'
<1> SUFFICES ASSUME VolumeInv, Return PROVE VolumeInv'
  OBVIOUS
<1>1. calls # << >> /\ calls' = Tail(calls) /\ UNCHANGED <<size, root, entries, volume, toggles>>
  BY DEF Return
<1>2. calls \in Seq(CallRecord) /\ Len(calls) >= 1 /\ Len(calls) \in Nat /\ Head(calls) = calls[1] /\ ~Served
  BY <1>1, HeadIs
<1>3. Pending(calls[1]) = {} /\ calls[1].first = {}
  BY <1>2 DEF Return, Pending
<1>4. ScanGood(entries, Tail(calls), root)
  BY <1>2, <1>3, ScanReturns DEF VolumeInv
<1>5. ScanGood(entries, calls, root)' /\ root' \in {Top, Documents} /\ size' \in [Nodes \ Folders -> Sizes]
  BY <1>1, <1>4 DEF VolumeInv
<1>6. PICK t : t = Tail(calls)
  OBVIOUS
<1>7. Len(t) = Len(calls) - 1 /\ \A k \in 1..Len(t) : t[k] = calls[k + 1]
  BY <1>1, <1>2, <1>6, HeadTailProperties
<1>8. ASSUME root = Top, MaxSubdirs >= 2, MaxEntries >= 5
      PROVE  HasDocuments(entries) /\ \A k \in 1..Len(t) : t[k].first = {}
  <2>1. HasDocuments(entries) /\ \A k \in 1..Len(calls) : calls[k].first = {}
    BY <1>3, <1>8 DEF VolumeInv, DocumentsInv
  <2>2. \A k \in 1..Len(t) : k + 1 \in 1..Len(calls)
    BY <1>2, <1>7
  <2> QED
    BY <1>7, <2>1, <2>2
<1>9. DocumentsInv'
  BY <1>1, <1>6, <1>8 DEF DocumentsInv
<1>10. ServedInv'
  BY <1>1, <1>2 DEF ServedInv, Served
<1> QED
  BY <1>5, <1>9, <1>10 DEF VolumeInv

LEMMA LayOutStep == VolumeInv /\ LayOut => VolumeInv'
<1> SUFFICES ASSUME VolumeInv, LayOut PROVE VolumeInv'
  OBVIOUS
<1>1. /\ calls = << >> /\ UNCHANGED <<size, root, entries, calls, toggles>>
      /\ volume' = [fat |-> Marked(entries, Starts(entries)), start |-> Starts(entries), tables |-> Tables(entries)]
  BY DEF LayOut
<1>2. ServedInv'
  BY <1>1 DEF ServedInv, FatServed
<1>3. DocumentsInv'
  BY <1>1 DEF VolumeInv, DocumentsInv
<1>4. ScanGood(entries, calls, root)' /\ root' \in {Top, Documents} /\ size' \in [Nodes \ Folders -> Sizes]
  BY <1>1 DEF VolumeInv
<1> QED
  BY <1>2, <1>3, <1>4 DEF VolumeInv

LEMMA ToggleRootStep == VolumeInv /\ ToggleRoot => VolumeInv'
<1> SUFFICES ASSUME VolumeInv, ToggleRoot PROVE VolumeInv'
  OBVIOUS
<1>1. PICK r \in {Top, Documents} : Scanning(r) /\ size' = size
  BY DEF ToggleRoot
<1>2. root' = r /\ entries' = Hiding /\ volume' = Unserved
  BY <1>1 DEF Scanning
<1>3. PICK cs : cs = <<Call(0, r, 0, First(r))>>
  OBVIOUS
<1>4. calls' = cs
  BY <1>1, <1>3 DEF Scanning
<1>5. ScanGood(Hiding, cs, r) /\ Len(cs) = 1 /\ (r = Top => cs[1].first = {Documents})
  BY <1>3, StartInv
<1>6. ScanGood(entries, calls, root)' /\ root' \in {Top, Documents} /\ size' \in [Nodes \ Folders -> Sizes]
  BY <1>1, <1>2, <1>4, <1>5 DEF VolumeInv
<1>7. DocumentsInv'
  BY <1>2, <1>4, <1>5 DEF DocumentsInv
<1>8. ServedInv'
  BY <1>2 DEF ServedInv, Served
<1> QED
  BY <1>6, <1>7, <1>8 DEF VolumeInv

LEMMA VolumeStep == VolumeInv /\ [Next]_vars => VolumeInv'
<1> SUFFICES ASSUME VolumeInv, [Next]_vars PROVE VolumeInv'
  OBVIOUS
<1>1. CASE UNCHANGED vars
  <2>1. UNCHANGED <<size, root, entries, calls, volume, toggles>>
    BY <1>1 DEF vars
  <2>2. ServedInv'
    BY <2>1 DEF VolumeInv, ServedInv, Served, FatServed
  <2>3. DocumentsInv'
    BY <2>1 DEF VolumeInv, DocumentsInv
  <2> QED
    BY <2>1, <2>2, <2>3 DEF VolumeInv
<1> QED
  BY <1>1, ReadFirstStep, ReadNextStep, ReturnStep, LayOutStep, ToggleRootStep DEF Next

-----------------------------------------------------------------------------
(* What is served.                                                          *)

SlotsIn(dir) == IF dir = 0 THEN RootSlots ELSE SubSlots

\* A table served lists the entries of its folder.
LEMMA TablesServed ==
  ASSUME VolumeInv, Served, NEW dir \in Dirs
  PROVE  /\ dir \in Tabled(entries) /\ dir \in 0..Len(entries) /\ FolderOf(dir) = NodeOf(entries, dir, root)
         /\ ListedIn(volume.tables[dir], Len(entries), entries, dir, SlotsIn(dir))
         /\ Len(Listed(dir)) \in Nat /\ DOMAIN Listed(dir) = 1..Len(Listed(dir))
         /\ \A a \in 1..Len(Listed(dir)) : Listed(dir)[a] \in 1..Len(entries)
         /\ SlotsIn(dir) \in Nat
<1>1. entries \in Seq(EntryRecord) /\ Len(entries) \in Nat
  BY DEF VolumeInv, ScanGood, EntriesGood
<1>2. volume.tables = Tables(entries)
  BY DEF VolumeInv, ServedInv
<1>3. dir \in Tabled(entries)
  <2>1. DOMAIN Tables(entries) = Tabled(entries)
    BY DEF Tables, Tabled
  <2> QED
    BY <1>2, <2>1 DEF Dirs
<1>4. dir \in 0..Len(entries)
  BY <1>1, <1>3 DEF Tabled
<1>5. RootSlots \in Nat /\ SubSlots \in Nat /\ 0 \in Nat /\ 2 \in Nat
  BY SizesAssumption
<1>6. ListedIn(volume.tables[dir], Len(entries), entries, dir, SlotsIn(dir))
  <2>1. volume.tables[dir] = IF dir = 0 THEN Table(entries, 0, 0, RootSlots) ELSE Table(entries, dir, 2, SubSlots)
    BY <1>2, <1>3 DEF Tables, Tabled
  <2>2. CASE dir = 0
    <3>1. ListedIn(Table(entries, 0, 0, RootSlots), Len(entries), entries, 0, RootSlots)
      BY <1>1, <1>5, TableLists
    <3> QED
      BY <2>1, <2>2, <3>1 DEF SlotsIn
  <2>3. CASE dir # 0
    <3>1. ListedIn(Table(entries, dir, 2, SubSlots), Len(entries), entries, dir, SubSlots)
      BY <1>1, <1>5, TableLists
    <3> QED
      BY <2>1, <2>3, <3>1 DEF SlotsIn
  <2> QED
    BY <2>2, <2>3
<1>7. Listed(dir) \in Seq(1..Len(entries))
  BY <1>6 DEF ListedIn, TableRecord, Listed
<1>8. /\ Len(Listed(dir)) \in Nat /\ DOMAIN Listed(dir) = 1..Len(Listed(dir))
      /\ \A a \in 1..Len(Listed(dir)) : Listed(dir)[a] \in 1..Len(entries)
  BY <1>7
<1>9. FolderOf(dir) = NodeOf(entries, dir, root)
  BY DEF FolderOf, NodeOf
<1> QED
  BY <1>3, <1>4, <1>5, <1>6, <1>8, <1>9 DEF SlotsIn

LEMMA ListedInOrder ==
  ASSUME VolumeInv, Served, NEW dir \in Dirs, NEW a \in 1..Len(Listed(dir))
  PROVE  /\ entries[Listed(dir)[a]].parent = dir
         /\ \A b \in 1..Len(Listed(dir)) : a < b => Listed(dir)[a] < Listed(dir)[b]
  BY TablesServed DEF ListedIn, Listed

\* Of two entries of the same name in a table, the second comes after too many.
LEMMA LaterIsApart ==
  ASSUME VolumeInv, Served, NEW dir \in Dirs, NEW a \in 1..Len(Listed(dir)), NEW b \in 1..Len(Listed(dir)), a < b,
         entries[Listed(dir)[a]].short = entries[Listed(dir)[b]].short
  PROVE  Cardinality(Siblings(dir)) > LastTail /\ entries[Listed(dir)[b]].short = Overflow
<1>1. PICK i, j : i = Listed(dir)[a] /\ j = Listed(dir)[b]
  OBVIOUS
<1>2. i \in 1..Len(entries) /\ j \in 1..Len(entries) /\ DOMAIN entries = 1..Len(entries) /\ Len(entries) \in Nat
  BY <1>1, TablesServed DEF VolumeInv, ScanGood, EntriesGood
<1>3. i < j /\ entries[i].parent = dir /\ entries[j].parent = dir
  BY <1>1, ListedInOrder
<1>4. ApartIn(entries)
  BY DEF VolumeInv, ScanGood, EntriesGood
<1> DEFINE before == {k \in 1..j - 1 : entries[k].parent = dir}
<1>5. entries[j].short = Overflow /\ Cardinality(before) >= LastTail
  <2>1. entries[i].short = entries[j].short
    BY <1>1
  <2>2. Cardinality({k \in 1..j - 1 : entries[k].parent = entries[j].parent}) >= LastTail /\ entries[j].short = Overflow
    BY <1>2, <1>3, <1>4, <2>1 DEF ApartIn
  <2> QED
    BY <1>3, <2>2
<1>6. IsFiniteSet(before) /\ Cardinality(before) \in Nat
  <2>1. j - 1 \in Int /\ 1 \in Int
    BY <1>2
  <2>2. IsFiniteSet(1..j - 1)
    BY <2>1, FS_Interval
  <2>3. IsFiniteSet(1..j - 1) /\ before \subseteq 1..j - 1
    BY <2>2
  <2> QED
    BY <2>3, FS_Subset, FS_CardinalityType
<1>7. IsFiniteSet(Siblings(dir)) /\ Cardinality(Siblings(dir)) \in Nat
  <2>1. IsFiniteSet(1..Len(entries)) /\ Siblings(dir) \subseteq 1..Len(entries)
    BY <1>2, FS_Interval DEF Siblings
  <2> QED
    BY <2>1, FS_Subset, FS_CardinalityType
<1>8. j \notin before /\ before \cup {j} \subseteq Siblings(dir)
  BY <1>2, <1>3 DEF Siblings
<1> HIDE DEF before
<1>9. IsFiniteSet(before \cup {j}) /\ Cardinality(before \cup {j}) = Cardinality(before) + 1
  BY <1>6, <1>8, FS_AddElement
<1>10. Cardinality(before \cup {j}) <= Cardinality(Siblings(dir))
  BY <1>7, <1>8, FS_Subset
<1>11. LastTail \in Nat
  BY SizesAssumption
<1> QED
  BY <1>1, <1>5, <1>6, <1>7, <1>9, <1>10, <1>11

\* The place of a file is in its folder's table, and it has no other.
LEMMA PlacesAre ==
  ASSUME VolumeInv, Served, NEW dir \in Dirs, NEW n \in Children(FolderOf(dir)),
         NEW i \in 1..Len(entries), entries[i].node = n
  PROVE  /\ entries[i].parent = dir /\ entries[i].long = Name[n]
         /\ \A j \in 1..Len(entries) : entries[j].node = n => i = j
<1>1. n \in Nodes /\ n # NoNode /\ n # Top /\ Parent[n] = FolderOf(dir)
  BY ChildrenAre
<1>2. PICK r \in {Top, Documents} : r = root
  BY DEF VolumeInv
<1>3. EntriesGood(entries, r) /\ entries \in Seq(EntryRecord)
  BY <1>2 DEF VolumeInv, ScanGood, EntriesGood
<1>4. /\ InFolder(entries, i, r) /\ entries[i].long = Name[n]
      /\ Parent[n] = NodeOf(entries, entries[i].parent, r)
  BY <1>1, <1>3 DEF EntriesGood, InFolder
<1>5. entries[i].parent \in 0..Len(entries)
  BY <1>3, <1>4, ParentIs
<1>6. dir \in 0..Len(entries) /\ Parent[n] = NodeOf(entries, dir, r)
  BY <1>1, <1>2, TablesServed
<1>7. Parent[n] # NoNode
  BY <1>1, TreeAssumption
<1>8. entries[i].parent = dir
  BY <1>3, <1>4, <1>5, <1>6, <1>7, OneFolder
<1>9. \A j \in 1..Len(entries) : entries[j].node = n => i = j
  BY <1>1, <1>3 DEF EntriesGood
<1> QED
  BY <1>4, <1>8, <1>9

LEMMA PlaceIs ==
  ASSUME VolumeInv, Served, NEW dir \in Dirs, NEW n \in Children(FolderOf(dir)), NEW x \in Places(n)
  PROVE  /\ x[1] = dir /\ x = <<dir, x[2]>> /\ x[2] \in 1..Len(Listed(dir))
         /\ entries[Listed(dir)[x[2]]].node = n
<1>1. PICK d \in Dirs, k \in 1..MaxEntries : x = <<d, k>>
  BY DEF Places
<1>2. x[1] = d /\ x[2] = k /\ k \in DOMAIN Listed(d) /\ entries[Listed(d)[k]].node = n
  BY <1>1 DEF Places
<1>3. k \in 1..Len(Listed(d)) /\ Listed(d)[k] \in 1..Len(entries)
  BY <1>2, TablesServed
<1>4. entries[Listed(d)[k]].parent = d
  BY <1>3, ListedInOrder
<1>5. entries[Listed(d)[k]].parent = dir
  BY <1>2, <1>3, PlacesAre
<1> QED
  BY <1>1, <1>2, <1>3, <1>4, <1>5

LEMMA OnePlace ==
  ASSUME VolumeInv, Served, NEW dir \in Dirs, NEW n \in Children(FolderOf(dir)), NEW x \in Places(n), NEW y \in Places(n)
  PROVE  x = y
<1>1. PICK a, b : a = x[2] /\ b = y[2]
  OBVIOUS
<1>2. x = <<dir, a>> /\ a \in 1..Len(Listed(dir)) /\ entries[Listed(dir)[a]].node = n
  BY <1>1, PlaceIs
<1>3. y = <<dir, b>> /\ b \in 1..Len(Listed(dir)) /\ entries[Listed(dir)[b]].node = n
  BY <1>1, PlaceIs
<1>4. PICK i, j : i = Listed(dir)[a] /\ j = Listed(dir)[b]
  OBVIOUS
<1>5. i \in 1..Len(entries) /\ j \in 1..Len(entries) /\ Len(Listed(dir)) \in Nat
  BY <1>2, <1>3, <1>4, TablesServed
<1>6. i = j
  BY <1>2, <1>3, <1>4, <1>5, PlacesAre
<1>7. ~(i < j) /\ ~(j < i)
  BY <1>5, <1>6
<1>8. ~(a < b)
  BY <1>2, <1>3, <1>4, <1>7, ListedInOrder
<1>9. ~(b < a)
  BY <1>2, <1>3, <1>4, <1>7, ListedInOrder
<1>10. a = b
  BY <1>2, <1>3, <1>5, <1>8, <1>9
<1> QED
  BY <1>2, <1>3, <1>10

\* A file of the folder that has an entry is listed, if it fits.
LEMMA EntryIsListed ==
  ASSUME VolumeInv, Served, NEW dir \in Dirs, NEW n \in Children(FolderOf(dir)),
         NEW i \in 1..Len(entries), entries[i].node = n, Places(n) = {}
  PROVE  Full(dir, n)
<1>1. entries[i].parent = dir /\ entries[i].long = Name[n]
  BY PlacesAre
<1>2. ListedIn(volume.tables[dir], Len(entries), entries, dir, SlotsIn(dir))
  BY TablesServed
<1>3. entries \in Seq(EntryRecord) /\ Len(entries) \in Nat /\ Len(entries) <= MaxEntries /\ MaxEntries \in Nat
  BY SizesAssumption DEF VolumeInv, ScanGood, EntriesGood, Complete
<1>4. ASSUME NEW a \in 1..Len(Listed(dir)), Listed(dir)[a] = i PROVE FALSE
  <2>1. Len(Listed(dir)) <= Len(entries) /\ Len(Listed(dir)) \in Nat /\ DOMAIN Listed(dir) = 1..Len(Listed(dir))
    BY <1>2, TablesServed DEF ListedIn, Listed
  <2>2. a \in 1..MaxEntries /\ a \in DOMAIN Listed(dir)
    BY <1>3, <2>1
  <2>3. entries[Listed(dir)[a]].node = n
    BY <1>4
  <2>4. <<dir, a>> \in Places(n)
    BY <2>2, <2>3 DEF Places
  <2> QED
    BY <2>4
<1>5. volume.tables[dir].used + GroupSlots(entries[i]) > SlotsIn(dir)
  BY <1>1, <1>2, <1>4 DEF ListedIn, Listed
<1> DEFINE q == CeilDiv(Len(Name[n]), FragmentLength)
<1>6. GroupSlots(entries[i]) = q + 1
  BY <1>1 DEF GroupSlots
<1>7. q \in Nat
  <2>1. n \in Nodes
    BY ChildrenAre
  <2>2. Name[n] \in Seq(STRING)
    BY <2>1, NamesAssumption
  <2>3. Len(Name[n]) \in Nat
    BY <2>2
  <2> QED
    BY <2>3, CeilDivIs, SizesAssumption
<1>8. volume.tables[dir].used \in Nat
  BY <1>2 DEF ListedIn, TableRecord
<1>9. SlotsIn(dir) \in Nat
  BY TablesServed
<1> HIDE DEF q
<1>10. volume.tables[dir].used + q + 1 > SlotsIn(dir)
  BY <1>5, <1>6, <1>7, <1>8, <1>9
<1> QED
  BY <1>10 DEF Full, SlotsIn, q

\* The chain of an entry is its own, and long enough if it is whole.
LEMMA ChainIsOwn ==
  ASSUME VolumeInv, Served, NEW i \in 1..Len(entries), volume.start[i] # 0
  PROVE  /\ Chain(volume.start[i]) \subseteq 2..MaxClusters - 1 =>
              Cardinality(Chain(volume.start[i])) * ClusterUnits >= entries[i].size
         /\ \A j \in 1..Len(entries) : j # i /\ volume.start[j] # 0 =>
              Chain(volume.start[i]) \cap Chain(volume.start[j]) = {}
<1>1. entries \in Seq(EntryRecord) /\ FatServed /\ InFolder(entries, i, root)
  BY DEF VolumeInv, ServedInv, ScanGood, EntriesGood
<1>2. ASSUME Chain(volume.start[i]) \subseteq 2..MaxClusters - 1
      PROVE  Cardinality(Chain(volume.start[i])) * ClusterUnits >= entries[i].size
  <2>1. Cardinality(Chain(volume.start[i])) = Clusters(entries[i])
    BY <1>1, <1>2, ChainOfEntry
  <2>2. entries[i] \in EntryRecord /\ ClusterUnits \in Nat
    BY <1>1, SizesAssumption
  <2>3. Clusters(entries[i]) \in Nat /\ (~entries[i].dir => Clusters(entries[i]) * ClusterUnits >= entries[i].size)
    BY <2>2, ClustersNat
  <2>4. CASE ~entries[i].dir
    BY <2>1, <2>3, <2>4
  <2>5. CASE entries[i].dir
    <3>1. entries[i].size = 0
      BY <1>1, <2>5 DEF InFolder
    <3>2. Clusters(entries[i]) * ClusterUnits >= 0
      BY <2>2, <2>3
    <3> QED
      BY <2>1, <3>1, <3>2
  <2> QED
    BY <2>4, <2>5
<1>3. ASSUME NEW j \in 1..Len(entries), j # i, volume.start[j] # 0, NEW c \in Chain(volume.start[i]),
             c \in Chain(volume.start[j])
      PROVE  FALSE
  <2>1. Owned(entries, i, c)
    BY <1>1, ChainOfEntry
  <2>2. Owned(entries, j, c)
    BY <1>1, <1>3, ChainOfEntry
  <2> QED
    BY <1>1, <1>3, <2>1, <2>2, OneOwner
<1> QED
  BY <1>2, <1>3

-----------------------------------------------------------------------------
(* The theorems.                                                            *)

\* "documents" has a table whenever the root of the file system is served and
\* there is room for it at all: nothing found before can take its slot (fatfs_init
\* scans it first).
THEOREM DocumentsAlwaysServed == Spec => []DocumentsServed
<1>1. Init => VolumeInv
  BY VolumeInit
<1>2. VolumeInv => DocumentsServed
  <2> SUFFICES ASSUME VolumeInv, Served, root = Top, MaxSubdirs >= 2, MaxEntries >= 5
               PROVE  \E i \in DOMAIN entries : entries[i].node = Documents /\ entries[i].slot # NoSlot
    BY DEF DocumentsServed
  <2>1. calls = << >> /\ entries \in Seq(EntryRecord)
    BY DEF VolumeInv, ServedInv, ScanGood, EntriesGood
  <2>2. Len(calls) # 1
    BY <2>1
  <2>3. HasDocuments(entries)
    BY <2>2 DEF VolumeInv, DocumentsInv
  <2> QED
    BY <2>1, <2>3 DEF HasDocuments
<1> QED
  BY <1>1, <1>2, VolumeStep, PTL DEF Spec

\* No two files that a folder's table lists have the same short name, in whatever
\* order readdir gave them, unless the folder holds more than LastTail files and
\* the name is the one given when the tails are used up (fatfs_make_short_name).
THEOREM NamesApart == Spec => []ListedApart
<1>1. Init => VolumeInv
  BY VolumeInit
<1>2. VolumeInv => ListedApart
  <2> SUFFICES ASSUME VolumeInv, Served, NEW dir \in Dirs, NEW j \in DOMAIN Listed(dir), NEW k \in DOMAIN Listed(dir),
                      entries[Listed(dir)[j]].short = entries[Listed(dir)[k]].short, j # k
               PROVE  Cardinality(Siblings(dir)) > LastTail /\ entries[Listed(dir)[j]].short = Overflow
    BY DEF ListedApart
  <2>1. j \in 1..Len(Listed(dir)) /\ k \in 1..Len(Listed(dir)) /\ Len(Listed(dir)) \in Nat
    BY TablesServed
  <2>2. CASE j < k
    BY <2>1, <2>2, LaterIsApart
  <2>3. CASE k < j
    BY <2>1, <2>3, LaterIsApart
  <2> QED
    BY <2>1, <2>2, <2>3
<1> QED
  BY <1>1, <1>2, VolumeStep, PTL DEF Spec

\* A file is listed once, in its own folder, and is missing only if its name has a
\* dot first, the entry table is full, its folder is too deep or its folder's
\* table is full (fatfs_scan_recurse, fatfs_write_name_entries).
THEOREM NothingIsHidden == Spec => []NothingHidden
<1>1. Init => VolumeInv
  BY VolumeInit
<1>2. VolumeInv => NothingHidden
  <2> SUFFICES ASSUME VolumeInv, Served, NEW dir \in Dirs, NEW n \in Children(FolderOf(dir))
               PROVE  /\ Cardinality(Places(n)) <= 1 /\ \A x \in Places(n) : x[1] = dir
                      /\ Places(n) = {} =>
                           Dotted(n) \/ Len(entries) = MaxEntries \/ Depths[dir] > MaxDepth \/ Full(dir, n)
    BY DEF NothingHidden
  <2>1. \A x \in Places(n) : x[1] = dir
    BY PlaceIs
  <2>2. Cardinality(Places(n)) <= 1
    <3>1. CASE Places(n) = {}
      BY <3>1, FS_EmptySet
    <3>2. CASE Places(n) # {}
      <4>1. PICK x : x \in Places(n)
        BY <3>2
      <4>2. Places(n) = {x}
        BY <4>1, OnePlace
      <4>3. Cardinality({x}) = 1
        BY FS_Singleton
      <4> QED
        BY <4>2, <4>3
    <3> QED
      BY <3>1, <3>2
  <2>3. ASSUME Places(n) = {} PROVE Dotted(n) \/ Len(entries) = MaxEntries \/ Depths[dir] > MaxDepth \/ Full(dir, n)
    <3>1. calls = << >> /\ Complete(entries, calls, root) /\ EntriesGood(entries, root)
      BY DEF VolumeInv, ServedInv, ScanGood
    <3>2. dir \in Tabled(entries) /\ n \in Children(NodeOf(entries, dir, root))
      BY TablesServed
    <3>3. Accounted(entries, calls, dir, n)
      BY <3>1, <3>2 DEF Complete
    <3>4. ~\E k \in 1..Len(calls) : calls[k].dir = dir /\ n \in Pending(calls[k])
      BY <3>1
    <3>5. CASE TooDeep(entries, dir)
      BY <3>1, <3>5, DepthsAre DEF TooDeep
    <3>6. CASE \E i \in 1..Len(entries) : entries[i].node = n
      BY <2>3, <3>6, EntryIsListed
    <3> QED
      BY <3>3, <3>4, <3>5, <3>6 DEF Accounted
  <2> QED
    BY <2>1, <2>2, <2>3
<1> QED
  BY <1>1, <1>2, VolumeStep, PTL DEF Spec

\* The chain the FAT gives a file is its own and, where the volume is large enough,
\* holds all of it (fatfs_mark_fat_chain).
THEOREM ChainsAreWhole == Spec => []ChainsHold
<1>1. Init => VolumeInv
  BY VolumeInit
<1>2. VolumeInv => ChainsHold
  <2> SUFFICES ASSUME VolumeInv, Served
               PROVE  ChainsHold
    BY DEF ChainsHold
  <2> DEFINE started == {j \in DOMAIN entries : volume.start[j] # 0}
             chain == [i \in started |-> Chain(volume.start[i])]
  <2>1. DOMAIN entries = 1..Len(entries)
    BY DEF VolumeInv, ScanGood, EntriesGood
  <2>2. ASSUME NEW i \in started
        PROVE  /\ chain[i] \subseteq 2..MaxClusters - 1 => Cardinality(chain[i]) * ClusterUnits >= entries[i].size
               /\ \A j \in started \ {i} : chain[i] \cap chain[j] = {}
    <3>1. i \in 1..Len(entries) /\ volume.start[i] # 0 /\ chain[i] = Chain(volume.start[i])
      BY <2>1
    <3>2. Chain(volume.start[i]) \subseteq 2..MaxClusters - 1 =>
            Cardinality(Chain(volume.start[i])) * ClusterUnits >= entries[i].size
      BY <3>1, ChainIsOwn
    <3>3. ASSUME NEW j \in started, j # i PROVE chain[i] \cap chain[j] = {}
      <4>1. j \in 1..Len(entries) /\ volume.start[j] # 0 /\ chain[j] = Chain(volume.start[j])
        BY <2>1
      <4> QED
        BY <3>1, <3>3, <4>1, ChainIsOwn
    <3> HIDE DEF chain
    <3> QED
      BY <3>1, <3>2, <3>3
  <2>3. DOMAIN chain = started
    OBVIOUS
  <2> QED
    BY <2>2, <2>3 DEF ChainsHold
<1> QED
  BY <1>1, <1>2, VolumeStep, PTL DEF Spec

-----------------------------------------------------------------------------
(* The names the host writes: LongNames, for any number and size of tables,*)
(* every set of names with checksums of their own, and any number of edits,*)
(* with the sectors of the tables written in any order, any number of times.*)

\* Slots, accumulators and entries.
LongSlot == [kind : {"long"}, name : FileNames, seq : Nat, last : BOOLEAN, erased : BOOLEAN]
ShortSlot == [kind : {"short"}, name : FileNames, file : Files, erased : BOOLEAN]
Slot == {Free} \cup LongSlot \cup ShortSlot
TablesTyped(tb) == tb \in [DirTables -> [Slots -> Slot]]

Piece == [name : FileNames, number : Nat]
Text == UNION {[D -> Piece] : D \in SUBSET (0..31)}
Accumulator ==
  [active : BOOLEAN, sum : {Sum[n] : n \in FileNames} \cup {Inactive.sum}, text : Text]
Callings == {Spelled(x) : x \in Text} \cup {Derived(n) : n \in FileNames} \cup {<<>>}
TrackedFile ==
  [table : DirTables \cup {NoName}, short : FileNames \cup {NoName}, called : Callings, deleted : BOOLEAN]
Scan == [acc : Accumulator, tracked : [Files -> TrackedFile]]

\* The group of name n stands in table t, its short entry in slot q, and n is nowhere else.
LongOf(n, i) == [kind |-> "long", name |-> n, seq |-> i, last |-> i = Fragments[n], erased |-> FALSE]
ShortOf(n, f) == [kind |-> "short", name |-> n, file |-> f, erased |-> FALSE]
Nowhere(tb, n) == \A u \in DirTables, p \in Slots : tb[u][p].kind # "free" => tb[u][p].name # n
Dead(tb, n) ==
  \A u \in DirTables, p \in Slots : tb[u][p].kind # "free" /\ tb[u][p].name = n => tb[u][p].erased
Stands(tb, n, f, t, q) ==
  /\ t \in DirTables /\ q \in Slots /\ f \in Files /\ q - Fragments[n] >= 1
  /\ tb[t][q] = ShortOf(n, f)
  /\ \A i \in 1..Fragments[n] : tb[t][q - i] = LongOf(n, i)
  /\ \A u \in DirTables, p \in Slots :
       tb[u][p].kind # "free" /\ tb[u][p].name = n => u = t /\ p \in q - Fragments[n]..q
Standing(tb, n) == \E f \in Files : \E t \in DirTables : \E q \in Slots : Stands(tb, n, f, t, q)
NamesKept(tb, u) ==
  \A n \in FileNames : (n \notin u => Nowhere(tb, n)) /\ (Dead(tb, n) \/ Standing(tb, n))

\* The text of an accumulator, of name n whose short entry is in slot q, when the
\* slots after b up to r of a sector have been read: fragments of n, all those read
\* in this sector, and all in the sector of the last one if that is another.
Faithful(text, n) ==
  DOMAIN text \subseteq 1..Fragments[n] /\ \A i \in DOMAIN text : text[i] = Fragment(n, i)
ReadHere(text, n, q, b, r) ==
  \A i \in 1..Fragments[n] : q - i \in b + 1..r => i \in DOMAIN text
ReadBefore(text, n, q, b, r) ==
  \A s \in 1..Sectors :
    q - Fragments[n] \in SlotsOf(s) /\ q - Fragments[n] \notin b + 1..r =>
      \A i \in 1..Fragments[n] : q - i \in SlotsOf(s) => i \in DOMAIN text
Gathers(text, n, q, b, r) ==
  Faithful(text, n) /\ ReadHere(text, n, q, b, r) /\ ReadBefore(text, n, q, b, r)

\* Slot r holds a long fragment of another name than n.
Foreign(e, n) == e.kind = "long" /\ ~e.erased /\ e.name # n
AccKept(tb, u, t, a, b, r) ==
  a.active =>
    \E n \in u \cap FileNames :
      /\ a.sum = Sum[n]
      /\ \/ Dead(tb, n)
         \/ \E f \in Files : \E q \in Slots :
              Stands(tb, n, f, t, q)
              /\ (Gathers(a.text, n, q, b, r) \/ (r > b /\ Foreign(tb[t][r], n)))
LastSeen(tb, t, a, b, r) ==
  r > b =>
    \A m \in FileNames, f \in Files, q \in Slots : \A i \in 1..Fragments[m] :
      Stands(tb, m, f, t, q) /\ r = q - i /\ q - Fragments[m] > b => a.active /\ a.sum = Sum[m]
CalledRight(x) == x.deleted \/ x.called \in {LongName(x.short), Derived(x.short)}

\* Between two sectors nothing is read: b = r = 0.
LongTyped ==
  /\ TablesTyped(table) /\ acc \in [DirTables -> Accumulator] /\ tracked \in [Files -> TrackedFile]
  /\ used \subseteq FileNames
LongInv ==
  /\ LongTyped /\ NamesKept(table, used)
  /\ \A t \in DirTables : AccKept(table, used, t, acc[t], 0, 0)
  /\ OwnName

\* Numbers and slots.
LEMMA SizesAre ==
  ASSUME WellSized
  PROVE  Sectors \in Nat \ {0} /\ SectorSlots \in Nat \ {0}
  BY DEF WellSized

LEMMA FragmentsAre ==
  ASSUME WellSized, WellNamed, NEW n \in FileNames
  PROVE  Fragments[n] \in Nat /\ Fragments[n] <= SectorSlots /\ Fragments[n] < 31
<1>1. Fragments[n] \in 0..SectorSlots /\ Fragments[n] < 31
  BY DEF WellNamed
<1> QED
  BY <1>1, SizesAre

LEMMA SumsApart ==
  ASSUME WellNamed, NEW n \in FileNames, NEW m \in FileNames, Sum[n] = Sum[m]
  PROVE  n = m
  BY DEF WellNamed, IsInjective

LEMMA BeforeNext ==
  ASSUME WellSized, NEW s \in Int
  PROVE  Before(s) \in Int /\ Before(s + 1) = Before(s) + SectorSlots
<1>1. SectorSlots \in Int
  BY SizesAre
<1>2. (s - 1) * SectorSlots \in Int /\ ((s + 1) - 1) * SectorSlots = (s - 1) * SectorSlots + SectorSlots
  BY <1>1
<1> QED
  BY <1>2 DEF Before

LEMMA BeforeGrows ==
  ASSUME WellSized, NEW s \in Int, NEW r \in Int, s <= r
  PROVE  Before(s) <= Before(r)
<1>1. SectorSlots \in Nat
  BY SizesAre
<1>2. (r - s) * SectorSlots \in Nat
  BY <1>1
<1>3. (r - 1) * SectorSlots = (s - 1) * SectorSlots + (r - s) * SectorSlots
  BY <1>1
<1>4. (s - 1) * SectorSlots \in Int /\ (r - 1) * SectorSlots \in Int
  BY <1>1
<1> QED
  BY <1>2, <1>3, <1>4 DEF Before

LEMMA SectorIs ==
  ASSUME WellSized, NEW s \in 1..Sectors
  PROVE  /\ s \in Int /\ Before(s) \in Nat
         /\ SlotsOf(s) = Before(s) + 1..Before(s) + SectorSlots
         /\ SlotsOf(s) \subseteq Slots
<1>1. Sectors \in Nat \ {0} /\ SectorSlots \in Nat \ {0} /\ s \in Int /\ 1 \in Int
  BY SizesAre
<1>2. Before(1) <= Before(s) /\ Before(s + 1) <= Before(Sectors + 1)
  BY <1>1, BeforeGrows
<1>3. Before(1) = 0
  BY <1>1 DEF Before
<1>4. Before(Sectors + 1) = Sectors * SectorSlots
  BY <1>1 DEF Before
<1>5. Before(s) \in Int /\ Before(s + 1) = Before(s) + SectorSlots
  BY <1>1, BeforeNext
<1>6. Sectors * SectorSlots \in Int
  BY <1>1
<1>7. Before(s) \in Nat /\ Before(s) + SectorSlots <= Sectors * SectorSlots
  BY <1>1, <1>2, <1>3, <1>4, <1>5
<1> HIDE DEF Before
<1> QED
  BY <1>1, <1>6, <1>7 DEF SlotsOf, Slots

LEMMA SectorsApart ==
  ASSUME WellSized, NEW s \in 1..Sectors, NEW r \in 1..Sectors, s # r
  PROVE  SlotsOf(s) \cap SlotsOf(r) = {}
<1>0. Sectors \in Nat /\ SectorSlots \in Nat
  BY SizesAre
<1>1. ASSUME NEW x \in 1..Sectors, NEW y \in 1..Sectors, x < y
      PROVE  SlotsOf(x) \cap SlotsOf(y) = {}
  <2>1. x \in Int /\ y \in Int /\ x + 1 \in Int /\ x + 1 <= y
    BY <1>0, <1>1
  <2>2. Before(x + 1) <= Before(y) /\ Before(x + 1) = Before(x) + SectorSlots
    BY <2>1, BeforeNext, BeforeGrows
  <2>3. Before(x) \in Nat /\ Before(y) \in Nat
    BY SectorIs
  <2> QED
    BY <1>0, <2>2, <2>3 DEF SlotsOf
<1> QED
  BY <1>0, <1>1

\* What a group of fragments reaches back to is in the sector or in the one before it.
LEMMA ReachesBack ==
  ASSUME WellSized, WellNamed, NEW s \in 1..Sectors, NEW n \in FileNames, NEW q \in SlotsOf(s),
         q - Fragments[n] >= 1, q - Fragments[n] <= Before(s)
  PROVE  \E r \in 1..Sectors :
           /\ q - Fragments[n] \in SlotsOf(r)
           /\ \A i \in 1..Fragments[n] : q - i <= Before(s) => q - i \in SlotsOf(r)
<1> DEFINE b == Before(s)
           F == Fragments[n]
<1>1. /\ SectorSlots \in Nat \ {0} /\ Sectors \in Nat /\ s \in Int /\ b \in Nat /\ F \in Nat /\ F <= SectorSlots
      /\ q \in b + 1..b + SectorSlots
  BY SizesAre, SectorIs, FragmentsAre
<1>2. Before(1) = 0
  BY <1>1 DEF Before
<1>3. s - 1 \in 1..Sectors /\ Before(s - 1) = b - SectorSlots
  <2>1. s # 1
    BY <1>1, <1>2
  <2>2. s - 1 \in 1..Sectors /\ s - 1 \in Int /\ (s - 1) + 1 = s
    BY <1>1, <2>1
  <2>3. b = Before(s - 1) + SectorSlots /\ Before(s - 1) \in Int
    BY <2>2, BeforeNext
  <2> QED
    BY <1>1, <2>2, <2>3
<1>4. SlotsOf(s - 1) = b - SectorSlots + 1..b
  <2>1. SlotsOf(s - 1) = b - SectorSlots + 1..b - SectorSlots + SectorSlots
    BY <1>3, SectorIs
  <2> HIDE DEF b
  <2> QED
    BY <1>1, <2>1
<1>5. q - F \in Int /\ q - F <= b /\ q - F >= b - SectorSlots + 1
  BY <1>1
<1>6. \A i \in 1..F : q - i <= b => q - i \in b - SectorSlots + 1..b
  BY <1>1
<1>7. q - F \in b - SectorSlots + 1..b
  BY <1>1, <1>5
<1> HIDE DEF b, F
<1> QED
  BY <1>3, <1>4, <1>6, <1>7 DEF b, F

-----------------------------------------------------------------------------
(* Reading a slot.                                                         *)

TextWith(text, e) ==
  [i \in DOMAIN text \cup {Number(e)} |-> IF i = Number(e) THEN Fragment(e.name, e.seq) ELSE text[i]]

LEMMA SlotKinds ==
  ASSUME NEW e \in Slot
  PROVE  /\ e.kind \in {"free", "long", "short"}
         /\ e.kind = "long" =>
              e \in LongSlot /\ e.name \in FileNames /\ e.seq \in Nat /\ e.erased \in BOOLEAN /\ e.last \in BOOLEAN
         /\ e.kind = "short" => e \in ShortSlot /\ e.name \in FileNames /\ e.file \in Files /\ e.erased \in BOOLEAN
<1>1. CASE e = Free
  BY <1>1 DEF Free
<1>2. CASE e \in LongSlot
  BY <1>2 DEF LongSlot
<1>3. CASE e \in ShortSlot
  BY <1>3 DEF ShortSlot
<1> QED
  BY <1>1, <1>2, <1>3 DEF Slot

LEMMA TextIs ==
  ASSUME NEW x
  PROVE  x \in Text <=> DOMAIN x \subseteq 0..31 /\ x \in [DOMAIN x -> Piece]
  BY DEF Text

LEMMA NumberIs ==
  ASSUME NEW e \in LongSlot
  PROVE  Number(e) \in 0..31
<1>1. e.seq \in Nat
  BY DEF LongSlot
<1>2. Byte0(e) \in Nat
  BY <1>1 DEF Byte0
<1> QED
  BY <1>2 DEF Number

LEMMA AddedTyped ==
  ASSUME NEW x \in Text, NEW e \in LongSlot
  PROVE  TextWith(x, e) \in Text
<1>1. Number(e) \in 0..31
  BY NumberIs
<1>2. Fragment(e.name, e.seq) \in Piece
  BY DEF LongSlot, Piece, Fragment
<1>3. DOMAIN x \subseteq 0..31 /\ \A i \in DOMAIN x : x[i] \in Piece
  BY TextIs
<1>4. DOMAIN TextWith(x, e) = DOMAIN x \cup {Number(e)} /\ \A i \in DOMAIN TextWith(x, e) : TextWith(x, e)[i] \in Piece
  BY <1>2, <1>3 DEF TextWith
<1>5. TextWith(x, e) \in [DOMAIN TextWith(x, e) -> Piece]
  <2>1. TextWith(x, e) = [i \in DOMAIN TextWith(x, e) |-> TextWith(x, e)[i]]
    BY DEF TextWith
  <2> QED
    BY <1>4, <2>1
<1> QED
  BY <1>1, <1>3, <1>4, <1>5, TextIs

\* A last fragment starts a name, any other one is added to the name begun.
LEMMA WithLongIs ==
  ASSUME NEW a \in Accumulator, NEW e \in LongSlot
  PROVE  /\ WithLong(a, e) \in Accumulator
         /\ IsLast(e) => /\ WithLong(a, e).active /\ WithLong(a, e).sum = Sum[e.name]
                            /\ WithLong(a, e).text = TextWith(<<>>, e)
         /\ ~IsLast(e) /\ a.active => /\ WithLong(a, e).active /\ WithLong(a, e).sum = a.sum
                                         /\ WithLong(a, e).text = TextWith(a.text, e)
         /\ ~IsLast(e) /\ ~a.active => WithLong(a, e) = a
<1> DEFINE st == IF IsLast(e) THEN [active |-> TRUE, sum |-> Sum[e.name], text |-> <<>>] ELSE a
<1>0. WithLong(a, e) = IF st.active THEN [st EXCEPT !.text = TextWith(st.text, e)] ELSE st
  BY DEF WithLong, TextWith
<1>1. <<>> \in Text
  <2>1. DOMAIN <<>> = {}
    OBVIOUS
  <2>2. <<>> \in [{} -> Piece]
    OBVIOUS
  <2> QED
    BY <2>1, <2>2, TextIs
<1>2. st \in Accumulator
  <2>1. Sum[e.name] \in {Sum[n] : n \in FileNames}
    BY DEF LongSlot
  <2> QED
    BY <1>1, <2>1 DEF Accumulator
<1>3. /\ IsLast(e) => st.active /\ st.sum = Sum[e.name] /\ st.text = <<>>
      /\ ~IsLast(e) => st = a
  OBVIOUS
<1> HIDE DEF st
<1>4. TextWith(st.text, e) \in Text
  BY <1>2, AddedTyped DEF Accumulator
<1>5. /\ [st EXCEPT !.text = TextWith(st.text, e)] \in Accumulator
      /\ [st EXCEPT !.text = TextWith(st.text, e)].active = st.active
      /\ [st EXCEPT !.text = TextWith(st.text, e)].sum = st.sum
      /\ [st EXCEPT !.text = TextWith(st.text, e)].text = TextWith(st.text, e)
  BY <1>2, <1>4 DEF Accumulator
<1>6. WithLong(a, e) \in Accumulator
  BY <1>0, <1>2, <1>5
<1>7. st.active => /\ WithLong(a, e).active /\ WithLong(a, e).sum = st.sum
                   /\ WithLong(a, e).text = TextWith(st.text, e)
  BY <1>0, <1>5
<1>8. ~st.active => WithLong(a, e) = st
  BY <1>0
<1> QED
  BY <1>3, <1>6, <1>7, <1>8

LEMMA InactiveTyped == Inactive \in Accumulator /\ ~Inactive.active
<1>1. <<>> \in Text
  <2>1. DOMAIN <<>> = {} /\ <<>> \in [{} -> Piece]
    OBVIOUS
  <2> QED
    BY <2>1, TextIs
<1>2. Inactive.text = <<>> /\ Inactive.active = FALSE
  BY DEF Inactive
<1> QED
  BY <1>1, <1>2 DEF Accumulator, Inactive

LEMMA CalledTyped ==
  ASSUME NEW a \in Accumulator, NEW e \in ShortSlot
  PROVE  Called(a, e) \in Callings
  BY DEF Called, Callings, Accumulator, ShortSlot

LEMMA HandledTyped ==
  ASSUME NEW x \in TrackedFile, NEW t \in DirTables, NEW e \in ShortSlot, NEW c \in Callings
  PROVE  Handled(x, t, e, c) \in TrackedFile
<1>1. [x EXCEPT !.deleted = TRUE] \in TrackedFile
  BY DEF TrackedFile
<1>2. [table |-> t, short |-> e.name, called |-> c, deleted |-> FALSE] \in TrackedFile
  BY DEF TrackedFile, ShortSlot
<1> QED
  BY <1>1, <1>2 DEF Handled

\* What one slot does.
LEMMA SlotReads ==
  ASSUME NEW t \in DirTables, NEW st \in Scan, NEW e \in Slot
  PROVE  /\ SlotRead(t, st, e) \in Scan
         /\ e.kind = "free" => SlotRead(t, st, e) = st
         /\ e.kind = "long" => /\ SlotRead(t, st, e).acc = WithLong(st.acc, e)
                               /\ SlotRead(t, st, e).tracked = st.tracked
         /\ e.kind = "short" =>
              /\ SlotRead(t, st, e).acc = IF e.erased THEN st.acc ELSE Inactive
              /\ SlotRead(t, st, e).tracked =
                   [st.tracked EXCEPT ![e.file] = Handled(st.tracked[e.file], t, e, Called(st.acc, e))]
<1>1. st.acc \in Accumulator /\ st.tracked \in [Files -> TrackedFile]
  BY DEF Scan
<1>2. e.kind \in {"free", "long", "short"}
  BY SlotKinds
<1>3. CASE e.kind = "free"
  BY <1>3 DEF SlotRead
<1>4. CASE e.kind = "long"
  <2>1. e \in LongSlot
    BY <1>4, SlotKinds
  <2>2. WithLong(st.acc, e) \in Accumulator
    BY <1>1, <2>1, WithLongIs
  <2>3. SlotRead(t, st, e) = [st EXCEPT !.acc = WithLong(st.acc, e)]
    BY <1>4 DEF SlotRead
  <2>4. /\ [st EXCEPT !.acc = WithLong(st.acc, e)] \in Scan
        /\ [st EXCEPT !.acc = WithLong(st.acc, e)].acc = WithLong(st.acc, e)
        /\ [st EXCEPT !.acc = WithLong(st.acc, e)].tracked = st.tracked
    BY <2>2 DEF Scan
  <2> QED
    BY <1>4, <2>3, <2>4
<1>5. CASE e.kind = "short"
  <2> DEFINE x == Handled(st.tracked[e.file], t, e, Called(st.acc, e))
             tr == [st.tracked EXCEPT ![e.file] = x]
             a == IF e.erased THEN st.acc ELSE Inactive
  <2>1. e \in ShortSlot /\ e.file \in Files
    BY <1>5, SlotKinds
  <2>2. x \in TrackedFile
    <3>1. st.tracked[e.file] \in TrackedFile /\ Called(st.acc, e) \in Callings
      BY <1>1, <2>1, CalledTyped
    <3> QED
      BY <2>1, <3>1, HandledTyped
  <2>3. a \in Accumulator
    BY <1>1, InactiveTyped
  <2>4. SlotRead(t, st, e) = [acc |-> a, tracked |-> tr]
    BY <1>5 DEF SlotRead
  <2>5. tr \in [Files -> TrackedFile]
    <3> HIDE DEF x
    <3> QED
      BY <1>1, <2>2
  <2> HIDE DEF a, tr
  <2>6. SlotRead(t, st, e) \in Scan /\ SlotRead(t, st, e).acc = a /\ SlotRead(t, st, e).tracked = tr
    BY <2>3, <2>4, <2>5 DEF Scan
  <2> QED
    BY <1>5, <2>6 DEF a, tr
<1> QED
  BY <1>2, <1>3, <1>4, <1>5

\* The slots of a sector one after the other.
ScanStart(t) == [acc |-> acc[t], tracked |-> tracked]
IsScan(f, t, s) ==
  f = [k \in 0..SectorSlots |->
         IF k = 0 THEN ScanStart(t) ELSE SlotRead(t, f[k - 1], table[t][Before(s) + k])]

LEMMA ScanBySlots ==
  ASSUME WellSized, LongTyped, NEW t \in DirTables, NEW s \in 1..Sectors
  PROVE  \E f : /\ f[0] = ScanStart(t) /\ Scanned(t, s) = f[SectorSlots]
                /\ \A k \in 0..SectorSlots : f[k] \in Scan
                /\ \A k \in 1..SectorSlots : f[k] = SlotRead(t, f[k - 1], table[t][Before(s) + k])
<1> DEFINE e(k) == table[t][Before(s) + k]
           step == [a \in Scan \X (1..SectorSlots) |-> SlotRead(t, a[1], e(a[2]))]
<1>0. SectorSlots \in Nat
  BY SizesAre
<1>1. \A k \in 1..SectorSlots : e(k) \in Slot
  <2>1. table[t] \in [Slots -> Slot]
    BY DEF LongTyped, TablesTyped
  <2>2. Before(s) \in Nat /\ \A k \in 1..SectorSlots : Before(s) + k \in Slots
    BY <1>0, SectorIs
  <2> QED
    BY <2>1, <2>2
<1> HIDE DEF e
<1>2. ScanStart(t) \in Scan
  BY DEF LongTyped, Scan, ScanStart
<1>3. step \in [Scan \X (1..SectorSlots) -> Scan]
  BY <1>1, SlotReads
<1>4. \A v \in Scan, k \in 1..SectorSlots : step[<<v, k>>] = SlotRead(t, v, e(k))
  OBVIOUS
<1> HIDE DEF step
<1>5. PICK g : Walk(g, SectorSlots, Scan, ScanStart(t), step)
  BY <1>0, <1>2, <1>3, Steps
<1>6. \A k \in 1..SectorSlots : g[k] = SlotRead(t, g[k - 1], e(k))
  <2> SUFFICES ASSUME NEW k \in 1..SectorSlots PROVE g[k] = SlotRead(t, g[k - 1], e(k))
    OBVIOUS
  <2>1. k - 1 \in 0..SectorSlots
    BY <1>0
  <2>2. g[k - 1] \in Scan /\ g[k] = step[<<g[k - 1], k>>]
    BY <1>5, <2>1 DEF Walk
  <2> QED
    BY <1>4, <2>2
<1>7. g = [k \in 0..SectorSlots |-> g[k]] /\ g[0] = ScanStart(t)
  BY <1>5 DEF Walk
<1>8. ASSUME NEW k \in 0..SectorSlots
      PROVE  g[k] = IF k = 0 THEN ScanStart(t) ELSE SlotRead(t, g[k - 1], e(k))
  <2>1. k = 0 \/ k \in 1..SectorSlots
    BY <1>0
  <2> QED
    BY <1>6, <1>7, <2>1
<1>9. IsScan(g, t, s)
  <2>1. g = [k \in 0..SectorSlots |-> IF k = 0 THEN ScanStart(t) ELSE SlotRead(t, g[k - 1], e(k))]
    BY <1>7, <1>8
  <2> QED
    BY <2>1 DEF IsScan, e
<1> DEFINE f == CHOOSE h : IsScan(h, t, s)
<1>10. IsScan(f, t, s)
  BY <1>9
<1>11. Scanned(t, s) = f[SectorSlots]
  BY DEF Scanned, AccOf, IsScan, ScanStart
<1> HIDE DEF f
<1>12. f[0] = ScanStart(t) /\ \A k \in 1..SectorSlots : f[k] = SlotRead(t, f[k - 1], e(k))
  <2>1. 0 \in 0..SectorSlots /\ \A k \in 1..SectorSlots : k # 0 /\ k \in 0..SectorSlots
    BY <1>0
  <2> QED
    BY <1>10, <2>1 DEF IsScan, e
<1>13. 0..SectorSlots \subseteq {k \in 0..SectorSlots : f[k] \in Scan}
  <2> DEFINE S == {k \in 0..SectorSlots : f[k] \in Scan}
  <2>1. 0 \in S
    BY <1>0, <1>2, <1>12
  <2>2. ASSUME NEW k \in 0..SectorSlots - 1, k \in S PROVE k + 1 \in S
    <3>1. k + 1 \in 1..SectorSlots /\ k + 1 \in 0..SectorSlots /\ (k + 1) - 1 = k
      BY <1>0
    <3>2. f[k + 1] = SlotRead(t, f[k], e(k + 1)) /\ e(k + 1) \in Slot
      BY <1>1, <1>12, <3>1
    <3>3. f[k] \in Scan
      BY <2>2
    <3>4. SlotRead(t, f[k], e(k + 1)) \in Scan
      BY <3>2, <3>3, SlotReads
    <3> QED
      BY <3>1, <3>2, <3>4
  <2> HIDE DEF S
  <2>3. 0..SectorSlots \subseteq S
    BY <1>0, <2>1, <2>2, CountFromZero
  <2> QED
    BY <2>3 DEF S
<1> QED
  BY <1>11, <1>12, <1>13 DEF e

-----------------------------------------------------------------------------
(* Where names stand.                                                      *)

LEMMA StandsIs ==
  ASSUME WellSized, WellNamed, NEW tb, TablesTyped(tb), NEW n \in FileNames,
         NEW f, NEW t, NEW q, Stands(tb, n, f, t, q)
  PROVE  /\ t \in DirTables /\ q \in Slots /\ q \in Int /\ f \in Files /\ Fragments[n] \in Nat
         /\ tb[t][q].kind = "short" /\ ~tb[t][q].erased /\ tb[t][q].name = n /\ tb[t][q].file = f
         /\ \A i \in 1..Fragments[n] :
              /\ q - i \in Slots /\ tb[t][q - i].kind = "long" /\ ~tb[t][q - i].erased
              /\ tb[t][q - i].name = n /\ tb[t][q - i].seq = i /\ tb[t][q - i].last = (i = Fragments[n])
         /\ ~Dead(tb, n)
<1>1. q \in Slots /\ q \in Int /\ Slots = 1..Sectors * SectorSlots /\ Fragments[n] \in Nat /\ q - Fragments[n] >= 1
  BY FragmentsAre DEF Stands, Slots
<1>2. Sectors * SectorSlots \in Int
  BY SizesAre
<1>3. \A i \in 1..Fragments[n] : q - i \in Slots
  BY <1>1, <1>2
<1>4. tb[t][q].kind = "short" /\ ~tb[t][q].erased /\ tb[t][q].name = n /\ tb[t][q].file = f
  BY DEF Stands, ShortOf
<1>5. \A i \in 1..Fragments[n] :
        /\ tb[t][q - i].kind = "long" /\ ~tb[t][q - i].erased
        /\ tb[t][q - i].name = n /\ tb[t][q - i].seq = i /\ tb[t][q - i].last = (i = Fragments[n])
  <2> SUFFICES ASSUME NEW i \in 1..Fragments[n]
               PROVE  /\ tb[t][q - i].kind = "long" /\ ~tb[t][q - i].erased
                      /\ tb[t][q - i].name = n /\ tb[t][q - i].seq = i /\ tb[t][q - i].last = (i = Fragments[n])
    OBVIOUS
  <2>1. tb[t][q - i] = LongOf(n, i)
    BY DEF Stands
  <2>2. LongOf(n, i).kind = "long" /\ ~LongOf(n, i).erased /\ LongOf(n, i).name = n /\ LongOf(n, i).seq = i
    BY DEF LongOf
  <2>3. LongOf(n, i).last = (i = Fragments[n])
    BY DEF LongOf
  <2> QED
    BY <2>1, <2>2, <2>3
<1>6. ~Dead(tb, n)
  BY <1>1, <1>4 DEF Dead, Stands
<1> QED
  BY <1>1, <1>3, <1>4, <1>5, <1>6 DEF Stands

LEMMA StandsWhere ==
  ASSUME WellSized, WellNamed, NEW tb, TablesTyped(tb), NEW n \in FileNames,
         NEW f, NEW t, NEW q, Stands(tb, n, f, t, q), NEW u \in DirTables, NEW p \in Slots,
         tb[u][p].kind # "free", tb[u][p].name = n
  PROVE  /\ u = t /\ ~tb[u][p].erased
         /\ tb[u][p].kind = "short" => p = q
         /\ tb[u][p].kind = "long" => tb[u][p].seq \in 1..Fragments[n] /\ p = q - tb[u][p].seq
<1>1. u = t /\ p \in q - Fragments[n]..q
  BY DEF Stands
<1>2. q \in Int /\ Fragments[n] \in Nat
  BY StandsIs
<1>3. CASE p = q
  BY <1>1, <1>3, StandsIs
<1>4. CASE p # q
  <2> DEFINE i == q - p
  <2>1. i \in 1..Fragments[n] /\ q - i = p
    BY <1>1, <1>2, <1>4
  <2> HIDE DEF i
  <2> QED
    BY <1>1, <2>1, StandsIs
<1> QED
  BY <1>3, <1>4

LEMMA StandsOnce ==
  ASSUME WellSized, WellNamed, NEW tb, TablesTyped(tb), NEW n \in FileNames,
         NEW f, NEW t, NEW q, Stands(tb, n, f, t, q), NEW g, NEW u, NEW p, Stands(tb, n, g, u, p)
  PROVE  f = g /\ t = u /\ q = p
<1>1. /\ u \in DirTables /\ p \in Slots /\ tb[u][p].kind = "short" /\ tb[u][p].name = n /\ tb[u][p].file = g
      /\ tb[t][q].file = f
  BY StandsIs
<1>2. u = t /\ p = q
  BY <1>1, StandsWhere
<1> QED
  BY <1>1, <1>2

\* A slot in use is one of a name that stands, or it is erased and its name dead.
LEMMA SlotOfName ==
  ASSUME WellSized, WellNamed, NEW tb, TablesTyped(tb), NEW u, NamesKept(tb, u),
         NEW t \in DirTables, NEW p \in Slots, tb[t][p].kind # "free"
  PROVE  /\ tb[t][p] \in Slot /\ tb[t][p].name \in FileNames /\ tb[t][p].name \in u
         /\ tb[t][p].erased => Dead(tb, tb[t][p].name)
         /\ ~tb[t][p].erased =>
              \E f \in Files, q \in Slots :
                /\ Stands(tb, tb[t][p].name, f, t, q)
                /\ tb[t][p].kind = "short" => p = q
                /\ tb[t][p].kind = "long" =>
                     tb[t][p].seq \in 1..Fragments[tb[t][p].name] /\ p = q - tb[t][p].seq
<1> DEFINE n == tb[t][p].name
<1>1. tb[t][p] \in Slot /\ n \in FileNames
  <2>1. tb[t][p] \in Slot
    BY DEF TablesTyped
  <2> QED
    BY <2>1, SlotKinds
<1>2. n \in u /\ (Dead(tb, n) \/ Standing(tb, n))
  <2>1. ~Nowhere(tb, n)
    BY DEF Nowhere
  <2> QED
    BY <1>1, <2>1 DEF NamesKept
<1> HIDE DEF n
<1>3. CASE Dead(tb, n)
  <2>1. tb[t][p].erased
    BY <1>3 DEF Dead, n
  <2> QED
    BY <1>1, <1>2, <1>3, <2>1 DEF n
<1>4. CASE Standing(tb, n)
  <2>1. PICK f \in Files, v \in DirTables, q \in Slots : Stands(tb, n, f, v, q)
    BY <1>4 DEF Standing
  <2>2. tb[t][p].name = n
    BY DEF n
  <2>3. /\ t = v /\ ~tb[t][p].erased
        /\ tb[t][p].kind = "short" => p = q
        /\ tb[t][p].kind = "long" => tb[t][p].seq \in 1..Fragments[n] /\ p = q - tb[t][p].seq
    BY <1>1, <2>1, <2>2, StandsWhere
  <2>4. Stands(tb, n, f, t, q)
    BY <2>1, <2>3
  <2> QED
    BY <1>1, <1>2, <2>3, <2>4 DEF n
<1> QED
  BY <1>2, <1>3, <1>4

\* After a live fragment comes the rest of its name.
LEMMA NextOfName ==
  ASSUME WellSized, WellNamed, NEW tb, TablesTyped(tb), NEW u, NamesKept(tb, u),
         NEW t \in DirTables, NEW p \in Slots, tb[t][p].kind = "long", ~tb[t][p].erased
  PROVE  /\ p + 1 \in Slots /\ tb[t][p + 1].kind # "free" /\ ~tb[t][p + 1].erased
         /\ tb[t][p + 1].name = tb[t][p].name
         /\ tb[t][p + 1].kind = "long" => tb[t][p + 1].seq # Fragments[tb[t][p + 1].name]
<1> DEFINE n == tb[t][p].name
<1>1. PICK f \in Files, q \in Slots :
        Stands(tb, n, f, t, q) /\ tb[t][p].seq \in 1..Fragments[n] /\ p = q - tb[t][p].seq
  BY SlotOfName
<1>2. n \in FileNames
  BY SlotOfName
<1> HIDE DEF n
<1> DEFINE i == tb[t][p].seq
<1>3. q \in Int /\ Fragments[n] \in Nat /\ i \in 1..Fragments[n] /\ p = q - i
  BY <1>1, <1>2, StandsIs
<1> HIDE DEF i
<1>4. CASE i = 1
  <2>1. p + 1 = q
    BY <1>3, <1>4
  <2> QED
    BY <1>1, <1>2, <2>1, StandsIs DEF n
<1>5. CASE i # 1
  <2>1. i - 1 \in 1..Fragments[n] /\ p + 1 = q - (i - 1) /\ i - 1 # Fragments[n]
    BY <1>3, <1>5
  <2> HIDE DEF i
  <2> QED
    BY <1>1, <1>2, <2>1, StandsIs DEF n
<1> QED
  BY <1>4, <1>5

-----------------------------------------------------------------------------
(* One accumulator, slot by slot.                                          *)

Reading(tb, u, t, a, s, k) ==
  /\ AccKept(tb, u, t, a, Before(s), Before(s) + k)
  /\ LastSeen(tb, t, a, Before(s), Before(s) + k)
InSector(tb, u, t, s, k) ==
  /\ WellSized /\ WellNamed /\ TablesTyped(tb) /\ u \subseteq FileNames /\ NamesKept(tb, u)
  /\ t \in DirTables /\ s \in 1..Sectors /\ k \in 0..SectorSlots - 1
NextSlot(s, k) == Before(s) + k + 1

LEMMA InSectorIs ==
  ASSUME NEW tb, NEW u, NEW t, NEW s, NEW k, InSector(tb, u, t, s, k)
  PROVE  /\ Before(s) \in Nat /\ k \in Nat /\ SectorSlots \in Nat
         /\ NextSlot(s, k) \in Slots /\ NextSlot(s, k) = Before(s) + (k + 1)
         /\ NextSlot(s, k) = (Before(s) + k) + 1 /\ NextSlot(s, k) \in SlotsOf(s)
         /\ k # 0 => Before(s) + k \in Slots
         /\ tb[t][NextSlot(s, k)] \in Slot
<1>1. WellSized /\ s \in 1..Sectors /\ k \in 0..SectorSlots - 1 /\ SectorSlots \in Nat /\ Before(s) \in Nat
  BY SizesAre, SectorIs DEF InSector
<1> DEFINE b == Before(s)
<1>2. SlotsOf(s) = b + 1..b + SectorSlots /\ SlotsOf(s) \subseteq Slots
  BY <1>1, SectorIs
<1> HIDE DEF b
<1>3. b \in Nat /\ b + k + 1 \in b + 1..b + SectorSlots /\ (k # 0 => b + k \in b + 1..b + SectorSlots)
      /\ b + k + 1 = b + (k + 1) /\ b + k + 1 = (b + k) + 1
  BY <1>1 DEF b
<1>4. b + k + 1 \in Slots /\ (k # 0 => b + k \in Slots)
  BY <1>2, <1>3
<1>5. tb[t][b + k + 1] \in Slot
  BY <1>4 DEF InSector, TablesTyped
<1> QED
  BY <1>1, <1>2, <1>3, <1>4, <1>5 DEF b, NextSlot

\* What precedes a slot: if it is a live fragment, the slot is of its name.
LEMMA NotForeign ==
  ASSUME NEW tb, NEW u, NEW t, NEW s, NEW k, InSector(tb, u, t, s, k), k # 0, NEW n,
         LET e == tb[t][NextSlot(s, k)] IN e.kind = "free" \/ e.erased \/ e.name = n
  PROVE  ~Foreign(tb[t][Before(s) + k], n)
<1> DEFINE p == Before(s) + k
<1>1. p \in Slots /\ p + 1 = NextSlot(s, k)
  BY InSectorIs
<1> HIDE DEF p
<1> SUFFICES ASSUME Foreign(tb[t][p], n) PROVE FALSE
  BY DEF p
<1>2. tb[t][p].kind = "long" /\ ~tb[t][p].erased /\ tb[t][p].name # n
  BY DEF Foreign
<1>3. tb[t][p + 1].kind # "free" /\ ~tb[t][p + 1].erased /\ tb[t][p + 1].name = tb[t][p].name
  BY <1>1, <1>2, NextOfName DEF InSector
<1> QED
  BY <1>1, <1>2, <1>3

\* A slot of another name leaves a name's text as good as it was.
LEMMA GathersOn ==
  ASSUME NEW tb, NEW u, NEW t, NEW s, NEW k, InSector(tb, u, t, s, k),
         NEW n \in FileNames, NEW f, NEW q, Stands(tb, n, f, t, q), NEW text,
         Gathers(text, n, q, Before(s), Before(s) + k),
         LET e == tb[t][NextSlot(s, k)] IN e.kind = "free" \/ e.erased \/ e.name # n
  PROVE  Gathers(text, n, q, Before(s), Before(s) + (k + 1))
<1> DEFINE b == Before(s)
           F == Fragments[n]
           p == NextSlot(s, k)
<1>1. b \in Nat /\ k \in Nat /\ p = b + k + 1
  BY InSectorIs DEF NextSlot
<1>2. F \in Nat /\ q \in Int
  BY StandsIs DEF InSector
<1>3. \A i \in 1..F : q - i # p
  BY StandsIs DEF InSector
<1> HIDE DEF b, F, p
<1>4. ASSUME NEW i \in 1..F, q - i \in b + 1..b + (k + 1) PROVE i \in DOMAIN text
  <2>1. q - i \in b + 1..b + k
    BY <1>1, <1>2, <1>3, <1>4
  <2> QED
    BY <2>1 DEF Gathers, ReadHere, b, F
<1>5. q - F \notin b + 1..b + (k + 1) => q - F \notin b + 1..b + k
  BY <1>1, <1>2
<1> QED
  BY <1>4, <1>5 DEF Gathers, ReadHere, ReadBefore, b, F

\* A free slot or an erased one that is no fragment.
LEMMA PassesOver ==
  ASSUME NEW tb, NEW u, NEW t, NEW s, NEW k, InSector(tb, u, t, s, k), NEW a, Reading(tb, u, t, a, s, k),
         LET e == tb[t][NextSlot(s, k)] IN e.kind = "free" \/ (e.kind = "short" /\ e.erased)
  PROVE  Reading(tb, u, t, a, s, k + 1)
<1> DEFINE b == Before(s)
           e == tb[t][NextSlot(s, k)]
<1>1. NextSlot(s, k) = b + (k + 1) /\ NextSlot(s, k) \in Slots /\ b \in Nat /\ k \in Nat
  BY InSectorIs
<1>2. LastSeen(tb, t, a, b, b + (k + 1))
  <2> SUFFICES ASSUME NEW m \in FileNames, NEW f \in Files, NEW q \in Slots, NEW i \in 1..Fragments[m],
                      Stands(tb, m, f, t, q), NextSlot(s, k) = q - i
               PROVE  FALSE
    BY <1>1 DEF LastSeen
  <2>1. e.kind = "long"
    BY StandsIs DEF InSector
  <2> QED
    BY <2>1
<1>3. ASSUME a.active PROVE AccKept(tb, u, t, a, b, b + (k + 1))
  <2>1. PICK n \in u \cap FileNames :
          /\ a.sum = Sum[n]
          /\ \/ Dead(tb, n)
             \/ \E f \in Files : \E q \in Slots :
                  Stands(tb, n, f, t, q)
                  /\ (Gathers(a.text, n, q, b, b + k) \/ (b + k > b /\ Foreign(tb[t][b + k], n)))
    BY <1>3 DEF Reading, AccKept
  <2>2. CASE Dead(tb, n)
    BY <2>1, <2>2 DEF AccKept
  <2>3. ASSUME NEW f \in Files, NEW q \in Slots, Stands(tb, n, f, t, q),
               Gathers(a.text, n, q, b, b + k) \/ (b + k > b /\ Foreign(tb[t][b + k], n))
        PROVE  Gathers(a.text, n, q, b, b + (k + 1))
    <3>1. b + k > b => ~Foreign(tb[t][b + k], n)
      <4>1. b + k > b => k # 0
        BY <1>1
      <4> QED
        BY <4>1, NotForeign
    <3>2. Gathers(a.text, n, q, b, b + k)
      BY <2>3, <3>1
    <3> QED
      BY <2>3, <3>2, GathersOn
  <2> QED
    BY <2>1, <2>2, <2>3 DEF AccKept
<1>4. ~a.active => AccKept(tb, u, t, a, b, b + (k + 1))
  BY DEF AccKept
<1> QED
  BY <1>2, <1>3, <1>4 DEF Reading

\* The first byte of a fragment, live or erased.
LEMMA LiveFragment ==
  ASSUME WellSized, WellNamed, NEW n \in FileNames, NEW e, e \in LongSlot, ~e.erased,
         e.seq \in 1..Fragments[n], e.last = (e.seq = Fragments[n])
  PROVE  /\ Number(e) = e.seq
         /\ IsLast(e) <=> e.seq = Fragments[n]
<1>1. Fragments[n] \in Nat /\ Fragments[n] < 31
  BY FragmentsAre
<1>2. e.seq \in Nat /\ e.seq < 31
  BY <1>1
<1>3. CASE e.seq = Fragments[n]
  <2>1. Byte0(e) = e.seq + 64
    BY <1>3 DEF Byte0
  <2> QED
    BY <1>2, <1>3, <2>1 DEF Number, IsLast
<1>4. CASE e.seq # Fragments[n]
  <2>1. ~e.last
    BY <1>4, Zenon
  <2>2. Byte0(e) = e.seq + 0
    BY <2>1 DEF Byte0
  <2>3. Byte0(e) = e.seq
    BY <1>2, <2>2
  <2> QED
    BY <1>2, <1>4, <2>3 DEF Number, IsLast
<1> QED
  BY <1>3, <1>4

LEMMA ErasedFragment ==
  ASSUME NEW e, e.erased
  PROVE  IsLast(e)
<1>1. Byte0(e) = 229
  BY DEF Byte0
<1> QED
  BY <1>1 DEF IsLast

\* An erased fragment begins a name that is not alive.
LEMMA ReadsErased ==
  ASSUME NEW tb, NEW u, NEW t, NEW s, NEW k, InSector(tb, u, t, s, k), NEW a \in Accumulator,
         LET e == tb[t][NextSlot(s, k)] IN e.kind = "long" /\ e.erased
  PROVE  Reading(tb, u, t, WithLong(a, tb[t][NextSlot(s, k)]), s, k + 1)
<1> DEFINE b == Before(s)
           p == NextSlot(s, k)
           e == tb[t][p]
           new == WithLong(a, e)
<1>1. p = b + (k + 1) /\ p \in Slots /\ b \in Nat /\ k \in Nat /\ e \in Slot
  BY InSectorIs
<1>2. e.name \in FileNames /\ e.name \in u /\ Dead(tb, e.name)
  BY <1>1, SlotOfName DEF InSector
<1>3. e \in LongSlot
  BY <1>1, SlotKinds
<1>4. new.active /\ new.sum = Sum[e.name]
  BY <1>3, ErasedFragment, WithLongIs
<1>5. AccKept(tb, u, t, new, b, b + (k + 1))
  BY <1>2, <1>4 DEF AccKept
<1>6. LastSeen(tb, t, new, b, b + (k + 1))
  <2> SUFFICES ASSUME NEW m \in FileNames, NEW f \in Files, NEW q \in Slots, NEW i \in 1..Fragments[m],
                      Stands(tb, m, f, t, q), p = q - i
               PROVE  FALSE
    BY <1>1 DEF LastSeen
  <2>1. ~e.erased
    BY StandsIs DEF InSector
  <2> QED
    BY <2>1
<1> QED
  BY <1>5, <1>6 DEF Reading

\* The last fragment of a live name begins it.
LEMMA ReadsLast ==
  ASSUME NEW tb, NEW u, NEW t, NEW s, NEW k, InSector(tb, u, t, s, k), NEW a \in Accumulator,
         LET e == tb[t][NextSlot(s, k)]
         IN  e.kind = "long" /\ ~e.erased /\ e.seq = Fragments[e.name]
  PROVE  Reading(tb, u, t, WithLong(a, tb[t][NextSlot(s, k)]), s, k + 1)
<1> DEFINE b == Before(s)
           p == NextSlot(s, k)
           e == tb[t][p]
           n == e.name
           F == Fragments[n]
           new == WithLong(a, e)
<1>1. p = b + (k + 1) /\ p \in Slots /\ b \in Nat /\ k \in Nat /\ e \in Slot
  BY InSectorIs
<1>2. n \in FileNames /\ n \in u
  BY <1>1, SlotOfName DEF InSector
<1>3. PICK f \in Files, q \in Slots : Stands(tb, n, f, t, q) /\ F \in 1..F /\ p = q - F
  BY <1>1, SlotOfName DEF InSector
<1>4. q \in Int /\ F \in Nat /\ e.last = (F = F)
  BY <1>2, <1>3, StandsIs DEF InSector
<1>5. e \in LongSlot
  BY <1>1, SlotKinds
<1>6. Number(e) = F /\ IsLast(e)
  BY <1>2, <1>3, <1>4, <1>5, LiveFragment DEF InSector
<1>7. new.active /\ new.sum = Sum[n] /\ new.text = TextWith(<<>>, e)
  BY <1>5, <1>6, WithLongIs
<1>8. DOMAIN new.text = {F} /\ new.text[F] = Fragment(n, F)
  BY <1>6, <1>7 DEF TextWith
<1>9. Gathers(new.text, n, q, b, b + (k + 1))
  <2>1. Faithful(new.text, n)
    BY <1>3, <1>8 DEF Faithful
  <2>2. \A i \in 1..F : q - i \in b + 1..p => i = F
    BY <1>1, <1>3, <1>4
  <2>3. ReadHere(new.text, n, q, b, p)
    BY <1>8, <2>2 DEF ReadHere
  <2>4. q - F \in b + 1..p
    BY <1>1, <1>3
  <2>5. ReadBefore(new.text, n, q, b, p)
    BY <2>4 DEF ReadBefore
  <2> QED
    BY <1>1, <2>1, <2>3, <2>5 DEF Gathers
<1>10. AccKept(tb, u, t, new, b, b + (k + 1))
  BY <1>2, <1>3, <1>7, <1>9 DEF AccKept
<1>11. LastSeen(tb, t, new, b, b + (k + 1))
  <2> SUFFICES ASSUME NEW m \in FileNames, NEW g \in Files, NEW v \in Slots, NEW i \in 1..Fragments[m],
                      Stands(tb, m, g, t, v), p = v - i
               PROVE  new.active /\ new.sum = Sum[m]
    BY <1>1 DEF LastSeen
  <2>1. n = m
    BY StandsIs DEF InSector
  <2> QED
    BY <1>7, <2>1
<1> QED
  BY <1>10, <1>11 DEF Reading

\* Another fragment of a live name.
LEMMA ReadsMore ==
  ASSUME NEW tb, NEW u, NEW t, NEW s, NEW k, InSector(tb, u, t, s, k), NEW a \in Accumulator,
         Reading(tb, u, t, a, s, k),
         LET e == tb[t][NextSlot(s, k)]
         IN  e.kind = "long" /\ ~e.erased /\ e.seq # Fragments[e.name]
  PROVE  Reading(tb, u, t, WithLong(a, tb[t][NextSlot(s, k)]), s, k + 1)
<1> DEFINE b == Before(s)
           p == NextSlot(s, k)
           e == tb[t][p]
           m == e.name
           i == e.seq
           new == WithLong(a, e)
<1>1. p = b + (k + 1) /\ p \in Slots /\ b \in Nat /\ k \in Nat /\ e \in Slot
  BY InSectorIs
<1>2. m \in FileNames /\ m \in u
  BY <1>1, SlotOfName DEF InSector
<1>3. PICK f \in Files, q \in Slots : Stands(tb, m, f, t, q) /\ i \in 1..Fragments[m] /\ p = q - i
  BY <1>1, SlotOfName DEF InSector
<1>4. q \in Int /\ Fragments[m] \in Nat /\ e.last = (i = Fragments[m]) /\ i # Fragments[m]
  BY <1>2, <1>3, StandsIs DEF InSector
<1>5. e \in LongSlot
  BY <1>1, SlotKinds
<1>6. Number(e) = i /\ ~IsLast(e)
  BY <1>2, <1>3, <1>4, <1>5, LiveFragment DEF InSector
<1>7. /\ a.active => new.active /\ new.sum = a.sum /\ new.text = TextWith(a.text, e)
      /\ ~a.active => new = a
  BY <1>5, <1>6, WithLongIs
<1> HIDE DEF new, b
<1>8. ASSUME a.active PROVE AccKept(tb, u, t, new, b, b + (k + 1))
  <2>1. PICK n \in u \cap FileNames :
          /\ a.sum = Sum[n]
          /\ \/ Dead(tb, n)
             \/ \E g \in Files : \E v \in Slots :
                  Stands(tb, n, g, t, v)
                  /\ (Gathers(a.text, n, v, b, b + k) \/ (b + k > b /\ Foreign(tb[t][b + k], n)))
    BY <1>8 DEF Reading, AccKept, b
  <2>2. CASE Dead(tb, n)
    BY <1>7, <1>8, <2>1, <2>2 DEF AccKept
  <2>3. ASSUME NEW g \in Files, NEW v \in Slots, Stands(tb, n, g, t, v), n # m
        PROVE  AccKept(tb, u, t, new, b, b + (k + 1))
    <3>1. b + (k + 1) > b /\ Foreign(tb[t][b + (k + 1)], n)
      BY <1>1, <2>3 DEF Foreign
    <3> QED
      BY <1>7, <1>8, <2>1, <2>3, <3>1 DEF AccKept
  <2>4. ASSUME NEW g \in Files, NEW v \in Slots, Stands(tb, n, g, t, v), n = m,
               Gathers(a.text, n, v, b, b + k) \/ (b + k > b /\ Foreign(tb[t][b + k], n))
        PROVE  AccKept(tb, u, t, new, b, b + (k + 1))
    <3>1. v = q
      BY <1>2, <1>3, <2>4, StandsOnce DEF InSector
    <3>2. b + k > b => ~Foreign(tb[t][b + k], n)
      <4>1. b + k > b => k # 0
        BY <1>1
      <4> QED
        BY <2>4, <4>1, NotForeign DEF b
    <3>3. Gathers(a.text, m, q, b, b + k)
      BY <2>4, <3>1, <3>2
    <3>4. DOMAIN new.text = DOMAIN a.text \cup {i} /\ new.text[i] = Fragment(m, i)
          /\ \A j \in DOMAIN a.text : j # i => new.text[j] = a.text[j]
      BY <1>6, <1>7, <1>8 DEF TextWith
    <3>5. Faithful(new.text, m)
      BY <1>3, <3>3, <3>4 DEF Gathers, Faithful
    <3>6. ReadHere(new.text, m, q, b, b + (k + 1))
      <4> SUFFICES ASSUME NEW j \in 1..Fragments[m], q - j \in b + 1..b + (k + 1) PROVE j \in DOMAIN new.text
        BY DEF ReadHere
      <4> HIDE DEF i, e, p, m
      <4>1. j = i \/ q - j \in b + 1..b + k
        BY <1>1, <1>3, <1>4
      <4> QED
        BY <3>3, <3>4, <4>1 DEF Gathers, ReadHere
    <3>7. ReadBefore(new.text, m, q, b, b + (k + 1))
      <4> HIDE DEF i, e, p, m
      <4>1. q - Fragments[m] \notin b + 1..b + (k + 1) => q - Fragments[m] \notin b + 1..b + k
        BY <1>1, <1>4
      <4> QED
        BY <3>3, <3>4, <4>1 DEF Gathers, ReadBefore
    <3> QED
      BY <1>7, <1>8, <2>1, <2>4, <3>1, <3>5, <3>6, <3>7 DEF AccKept, Gathers
  <2> QED
    BY <2>1, <2>2, <2>3, <2>4
<1>9. ~a.active => AccKept(tb, u, t, new, b, b + (k + 1))
  BY <1>7 DEF AccKept
<1>10. LastSeen(tb, t, new, b, b + (k + 1))
  <2> SUFFICES ASSUME NEW n \in FileNames, NEW g \in Files, NEW v \in Slots, NEW j \in 1..Fragments[n],
                      Stands(tb, n, g, t, v), p = v - j, v - Fragments[n] > b
               PROVE  new.active /\ new.sum = Sum[n]
    BY <1>1 DEF LastSeen
  <2>1. n = m
    BY StandsIs DEF InSector
  <2>2. v = q
    BY <1>2, <1>3, <2>1, StandsOnce DEF InSector
  <2> DEFINE c == b + k
  <2>3. i + 1 \in 1..Fragments[m] /\ c = q - (i + 1) /\ c > b /\ q - Fragments[m] > b
    <3> HIDE DEF i, e, p, m
    <3> QED
      BY <1>1, <1>3, <1>4, <2>1, <2>2
  <2>4. LastSeen(tb, t, a, b, c)
    BY DEF Reading, b
  <2> HIDE DEF c, i, m
  <2>5. a.active /\ a.sum = Sum[m]
    BY <1>2, <1>3, <2>3, <2>4 DEF LastSeen
  <2> QED
    BY <1>7, <2>1, <2>5
<1> QED
  BY <1>8, <1>9, <1>10 DEF Reading, b, new

\* All the fragments of a name spell it.
LEMMA SpelledIs ==
  ASSUME NEW text, NEW n, Fragments[n] \in Nat, DOMAIN text = 1..Fragments[n], Faithful(text, n)
  PROVE  Spelled(text) = LongName(n)
<1> DEFINE F == Fragments[n]
           S == {k \in 0..Cardinality(DOMAIN text) : 1..k \subseteq DOMAIN text}
<1>1. Cardinality(DOMAIN text) = F
  <2>1. Cardinality(1..F) = F
    BY FS_Interval
  <2>2. Cardinality(1..F) = Cardinality(1..F)
    BY DEF Cardinality, Cardinality
  <2> QED
    BY <2>1, <2>2
<1>2. S = 0..F
  BY <1>1
<1>3. Max(S) = F
  <2>1. F \in S /\ \A y \in S : F >= y
    BY <1>2
  <2>2. \A x \in S : (\A y \in S : x >= y) => x = F
    BY <1>2
  <2> HIDE DEF S, F
  <2> QED
    BY <2>1, <2>2 DEF Max
<1>4. Spelled(text) = [j \in 1..F |-> text[j]]
  BY <1>3 DEF Spelled
<1>5. \A j \in 1..F : text[j] = Fragment(n, j)
  BY DEF Faithful
<1> QED
  BY <1>4, <1>5 DEF LongName

\* The short entry of a live name ends it: what was gathered spells it, if the
\* checksum is its own.
LEMMA ReadsSpelled ==
  ASSUME NEW tb, NEW u, NEW t, NEW s, NEW k, InSector(tb, u, t, s, k), NEW a, Reading(tb, u, t, a, s, k),
         LET e == tb[t][NextSlot(s, k)] IN e.kind = "short" /\ ~e.erased
  PROVE  LET e == tb[t][NextSlot(s, k)] IN Matches(a, e) => Spelled(a.text) = LongName(e.name)
<1> DEFINE b == Before(s)
           p == NextSlot(s, k)
           e == tb[t][p]
           m == e.name
           F == Fragments[m]
<1>1. p = b + (k + 1) /\ p \in Slots /\ p \in SlotsOf(s) /\ b \in Nat /\ k \in Nat /\ e \in Slot
  BY InSectorIs
<1>2. m \in FileNames
  BY <1>1, SlotOfName DEF InSector
<1>3. PICK f \in Files : Stands(tb, m, f, t, p)
  BY <1>1, SlotOfName DEF InSector
<1>4. F \in Nat /\ p - F >= 1 /\ ~Dead(tb, m)
  <2>1. F \in Nat /\ ~Dead(tb, m)
    BY <1>2, <1>3, StandsIs DEF InSector
  <2> QED
    BY <1>3, <2>1 DEF Stands
<1>5. SUFFICES ASSUME Matches(a, e) PROVE Spelled(a.text) = LongName(m)
  OBVIOUS
<1>6. a.active /\ a.sum = Sum[m]
  BY <1>5 DEF Matches
<1>7. PICK n \in u \cap FileNames :
        /\ a.sum = Sum[n]
        /\ \/ Dead(tb, n)
           \/ \E g \in Files : \E v \in Slots :
                Stands(tb, n, g, t, v)
                /\ (Gathers(a.text, n, v, b, b + k) \/ (b + k > b /\ Foreign(tb[t][b + k], n)))
  BY <1>6 DEF Reading, AccKept
<1>8. n = m
  BY <1>2, <1>6, <1>7, SumsApart DEF InSector
<1>9. PICK g \in Files, v \in Slots :
        Stands(tb, m, g, t, v)
        /\ (Gathers(a.text, m, v, b, b + k) \/ (b + k > b /\ Foreign(tb[t][b + k], m)))
  BY <1>4, <1>7, <1>8
<1>10. v = p
  BY <1>2, <1>3, <1>9, StandsOnce DEF InSector
<1>11. b + k > b => ~Foreign(tb[t][b + k], m)
  <2>1. b + k > b => k # 0
    BY <1>1
  <2> QED
    BY <2>1, NotForeign
<1>12. Gathers(a.text, m, p, b, b + k)
  BY <1>9, <1>10, <1>11
<1> HIDE DEF b, p, e, m
<1>13. \A i \in 1..F : i \in DOMAIN a.text
  <2> SUFFICES ASSUME NEW i \in 1..F PROVE i \in DOMAIN a.text
    OBVIOUS
  <2>1. CASE p - i > b
    <3>1. p - i \in b + 1..b + k
      BY <1>1, <1>4, <2>1
    <3> QED
      BY <1>12, <3>1 DEF Gathers, ReadHere
  <2>2. CASE ~(p - i > b)
    <3>1. p - i <= b /\ p - F <= b /\ p - F \notin b + 1..b + k
      BY <1>1, <1>4, <2>2
    <3>2. PICK r \in 1..Sectors :
            /\ p - F \in SlotsOf(r)
            /\ \A j \in 1..F : p - j <= b => p - j \in SlotsOf(r)
      BY <1>1, <1>2, <1>4, <3>1, ReachesBack DEF InSector, b
    <3> QED
      BY <1>12, <3>1, <3>2 DEF Gathers, ReadBefore
  <2> QED
    BY <2>1, <2>2
<1>14. DOMAIN a.text = 1..F /\ Faithful(a.text, m)
  BY <1>12, <1>13 DEF Gathers, Faithful
<1>15. Spelled(a.text) = LongName(m)
  BY <1>4, <1>14, SpelledIs
<1> QED
  BY <1>15 DEF p, e, m

\* There is nothing else to be called by but the short name.
LEMMA ReadsShort ==
  ASSUME NEW tb, NEW u, NEW t, NEW s, NEW k, InSector(tb, u, t, s, k), NEW a, Reading(tb, u, t, a, s, k),
         LET e == tb[t][NextSlot(s, k)] IN e.kind = "short" /\ ~e.erased
  PROVE  LET e == tb[t][NextSlot(s, k)] IN Called(a, e) \in {LongName(e.name), Derived(e.name)}
  BY ReadsSpelled DEF Called

\* What a slot does to a name that is right.
LEMMA ReadsRight ==
  ASSUME NEW t \in DirTables, NEW tr \in [Files -> TrackedFile], NEW e \in ShortSlot, NEW c,
         \A x \in Files : CalledRight(tr[x]), ~e.erased => c \in {LongName(e.name), Derived(e.name)},
         NEW x \in Files
  PROVE  CalledRight([tr EXCEPT ![e.file] = Handled(tr[e.file], t, e, c)][x])
<1> DEFINE y == tr[e.file]
           h == Handled(y, t, e, c)
<1>1. y \in TrackedFile /\ CalledRight(y)
  BY DEF ShortSlot
<1>2. CalledRight(h)
  <2>1. CASE e.erased
    <3>1. h = [y EXCEPT !.deleted = TRUE] \/ h = y
      BY <2>1 DEF Handled
    <3>2. [y EXCEPT !.deleted = TRUE].deleted
      BY <1>1 DEF TrackedFile
    <3> HIDE DEF h, y
    <3> QED
      BY <1>1, <3>1, <3>2 DEF CalledRight
  <2>2. CASE ~e.erased
    <3>1. h = y \/ h = [table |-> t, short |-> e.name, called |-> c, deleted |-> FALSE]
      BY <2>2 DEF Handled
    <3> HIDE DEF h, y
    <3> QED
      BY <1>1, <2>2, <3>1 DEF CalledRight
  <2> QED
    BY <2>1, <2>2
<1> SUFFICES CalledRight([tr EXCEPT ![e.file] = h][x])
  OBVIOUS
<1> HIDE DEF h
<1>3. [tr EXCEPT ![e.file] = h][x] = IF x = e.file THEN h ELSE tr[x]
  OBVIOUS
<1> QED
  BY <1>2, <1>3

\* Any slot.
LEMMA ReadsSlot ==
  ASSUME NEW tb, NEW u, NEW t, NEW s, NEW k, InSector(tb, u, t, s, k),
         NEW st \in Scan, Reading(tb, u, t, st.acc, s, k), \A x \in Files : CalledRight(st.tracked[x])
  PROVE  LET new == SlotRead(t, st, tb[t][NextSlot(s, k)])
         IN  Reading(tb, u, t, new.acc, s, k + 1) /\ \A x \in Files : CalledRight(new.tracked[x])
<1> DEFINE e == tb[t][NextSlot(s, k)]
           new == SlotRead(t, st, e)
<1>1. e \in Slot /\ t \in DirTables /\ st.acc \in Accumulator /\ st.tracked \in [Files -> TrackedFile]
  BY InSectorIs DEF InSector, Scan
<1>2. e.kind \in {"free", "long", "short"}
  BY <1>1, SlotKinds
<1>3. CASE e.kind = "free"
  <2>1. new = st
    BY <1>1, <1>3, SlotReads
  <2>2. Reading(tb, u, t, st.acc, s, k + 1)
    BY <1>3, PassesOver
  <2> QED
    BY <2>1, <2>2
<1>4. CASE e.kind = "long"
  <2>1. new.acc = WithLong(st.acc, e) /\ new.tracked = st.tracked
    BY <1>1, <1>4, SlotReads
  <2>2. Reading(tb, u, t, WithLong(st.acc, e), s, k + 1)
    <3>1. CASE e.erased
      BY <1>1, <1>4, <3>1, ReadsErased
    <3>2. CASE ~e.erased /\ e.seq = Fragments[e.name]
      BY <1>1, <1>4, <3>2, ReadsLast
    <3>3. CASE ~e.erased /\ e.seq # Fragments[e.name]
      BY <1>1, <1>4, <3>3, ReadsMore
    <3> QED
      BY <3>1, <3>2, <3>3
  <2> QED
    BY <2>1, <2>2
<1>5. CASE e.kind = "short"
  <2> DEFINE c == Called(st.acc, e)
  <2>1. /\ new.acc = IF e.erased THEN st.acc ELSE Inactive
        /\ new.tracked = [st.tracked EXCEPT ![e.file] = Handled(st.tracked[e.file], t, e, c)]
    BY <1>1, <1>5, SlotReads
  <2>2. e \in ShortSlot
    BY <1>1, <1>5, SlotKinds
  <2>3. ~e.erased => c \in {LongName(e.name), Derived(e.name)}
    BY <1>5, ReadsShort
  <2> HIDE DEF c
  <2>4. \A x \in Files : CalledRight(new.tracked[x])
    <3> DEFINE tr == [st.tracked EXCEPT ![e.file] = Handled(st.tracked[e.file], t, e, c)]
    <3>1. \A x \in Files : CalledRight(tr[x])
      BY <1>1, <2>2, <2>3, ReadsRight
    <3>2. new.tracked = tr
      BY <2>1
    <3> HIDE DEF tr, new
    <3> QED
      BY <3>1, <3>2
  <2>5. CASE e.erased
    <3>1. Reading(tb, u, t, st.acc, s, k + 1)
      BY <1>5, <2>5, PassesOver
    <3> QED
      BY <2>1, <2>4, <2>5, <3>1
  <2>6. CASE ~e.erased
    <3>1. new.acc = Inactive /\ ~Inactive.active
      BY <2>1, <2>6, InactiveTyped
    <3>2. Before(s) + (k + 1) = NextSlot(s, k)
      BY InSectorIs
    <3>3. \A m \in FileNames, f \in Files, q \in Slots : \A i \in 1..Fragments[m] :
            ~(Stands(tb, m, f, t, q) /\ NextSlot(s, k) = q - i)
      <4> SUFFICES ASSUME NEW m \in FileNames, NEW f \in Files, NEW q \in Slots, NEW i \in 1..Fragments[m],
                          Stands(tb, m, f, t, q), NextSlot(s, k) = q - i
                   PROVE  FALSE
        OBVIOUS
      <4>1. e.kind = "long"
        BY StandsIs DEF InSector
      <4> QED
        BY <1>5, <4>1
    <3>4. Reading(tb, u, t, Inactive, s, k + 1)
      BY <3>1, <3>2, <3>3 DEF Reading, AccKept, LastSeen
    <3> QED
      BY <2>4, <3>1, <3>4
  <2> QED
    BY <2>5, <2>6
<1> QED
  BY <1>2, <1>3, <1>4, <1>5

\* Between two sectors and within one.
LEMMA ScanBegins ==
  ASSUME WellSized, NEW tb, NEW u, NEW t, NEW a, AccKept(tb, u, t, a, 0, 0), NEW s \in 1..Sectors
  PROVE  Reading(tb, u, t, a, s, 0)
<1> DEFINE b == Before(s)
<1>1. b \in Nat /\ b + 0 = b /\ ~(b > b) /\ b + 1..b = {} /\ ~(0 > 0) /\ 0 + 1..0 = {}
  BY SectorIs
<1> HIDE DEF b
<1>2. ASSUME NEW text, NEW n, NEW q, Gathers(text, n, q, 0, 0) PROVE Gathers(text, n, q, b, b)
  <2>1. Faithful(text, n)
    BY <1>2 DEF Gathers
  <2>2. ReadHere(text, n, q, b, b)
    BY <1>1 DEF ReadHere
  <2>3. ReadBefore(text, n, q, b, b)
    BY <1>1, <1>2 DEF Gathers, ReadBefore
  <2> QED
    BY <2>1, <2>2, <2>3 DEF Gathers
<1>3. AccKept(tb, u, t, a, b, b)
  BY <1>1, <1>2 DEF AccKept
<1>4. LastSeen(tb, t, a, b, b)
  BY <1>1 DEF LastSeen
<1> QED
  BY <1>1, <1>3, <1>4 DEF Reading, b

LEMMA ScanEnds ==
  ASSUME WellSized, WellNamed, NEW tb, TablesTyped(tb), NEW u, u \subseteq FileNames, NamesKept(tb, u),
         NEW t \in DirTables, NEW s \in 1..Sectors, NEW a, Reading(tb, u, t, a, s, SectorSlots)
  PROVE  AccKept(tb, u, t, a, 0, 0)
<1> DEFINE b == Before(s)
           p == b + SectorSlots
<1>1. b \in Nat /\ SectorSlots \in Nat \ {0} /\ SlotsOf(s) = b + 1..p /\ SlotsOf(s) \subseteq Slots
  BY SizesAre, SectorIs
<1> HIDE DEF b
<1>2. p \in Slots /\ p > b /\ p \in Int
  BY <1>1
<1> HIDE DEF p
<1> SUFFICES ASSUME a.active
             PROVE  \E n \in u \cap FileNames :
                      /\ a.sum = Sum[n]
                      /\ \/ Dead(tb, n)
                         \/ \E f \in Files : \E q \in Slots :
                              Stands(tb, n, f, t, q) /\ Gathers(a.text, n, q, 0, 0)
  BY DEF AccKept
<1>3. PICK n \in u \cap FileNames :
        /\ a.sum = Sum[n]
        /\ \/ Dead(tb, n)
           \/ \E f \in Files : \E q \in Slots :
                Stands(tb, n, f, t, q)
                /\ (Gathers(a.text, n, q, b, p) \/ (p > b /\ Foreign(tb[t][p], n)))
  BY DEF Reading, AccKept, b, p
<1>4. CASE Dead(tb, n)
  BY <1>3, <1>4
<1>5. ASSUME NEW f \in Files, NEW q \in Slots, Stands(tb, n, f, t, q), Gathers(a.text, n, q, b, p)
      PROVE  Gathers(a.text, n, q, 0, 0)
  <2>1. Faithful(a.text, n) /\ ReadHere(a.text, n, q, 0, 0)
    BY <1>5 DEF Gathers, ReadHere
  <2>2. ASSUME NEW r \in 1..Sectors, q - Fragments[n] \in SlotsOf(r),
               NEW i \in 1..Fragments[n], q - i \in SlotsOf(r)
        PROVE  i \in DOMAIN a.text
    <3>1. CASE r = s
      BY <1>1, <1>5, <2>2, <3>1 DEF Gathers, ReadHere
    <3>2. CASE r # s
      <4>1. q - Fragments[n] \notin b + 1..p
        BY <1>1, <2>2, <3>2, SectorsApart
      <4> QED
        BY <1>5, <2>2, <4>1 DEF Gathers, ReadBefore
    <3> QED
      BY <3>1, <3>2
  <2>3. ReadBefore(a.text, n, q, 0, 0)
    BY <2>2 DEF ReadBefore
  <2> QED
    BY <2>1, <2>3 DEF Gathers
<1>6. ~Foreign(tb[t][p], n)
  <2> SUFFICES ASSUME Foreign(tb[t][p], n) PROVE FALSE
    OBVIOUS
  <2> DEFINE e == tb[t][p]
             m == e.name
  <2>1. e.kind = "long" /\ ~e.erased /\ m # n
    BY DEF Foreign
  <2>2. m \in FileNames
    BY <1>2, <2>1, SlotOfName
  <2>3. PICK f \in Files, q \in Slots : Stands(tb, m, f, t, q) /\ e.seq \in 1..Fragments[m] /\ p = q - e.seq
    BY <1>2, <2>1, SlotOfName
  <2> DEFINE i == e.seq
  <2>4. q \in Int /\ Fragments[m] \in Nat /\ Fragments[m] <= SectorSlots
    BY <2>2, <2>3, StandsIs, FragmentsAre
  <2>5. i \in 1..Fragments[m] /\ p = q - i
    BY <2>3
  <2>6. q - Fragments[m] > b
    <3> HIDE DEF i, m, e
    <3>1. p = b + SectorSlots
      BY DEF p
    <3> QED
      BY <1>1, <2>4, <2>5, <3>1
  <2>7. LastSeen(tb, t, a, b, p)
    BY DEF Reading, b, p
  <2> HIDE DEF i, m, e
  <2>8. a.sum = Sum[m]
    BY <1>2, <2>2, <2>3, <2>5, <2>6, <2>7 DEF LastSeen
  <2> QED
    BY <1>3, <2>1, <2>2, <2>8, SumsApart
<1> QED
  BY <1>3, <1>4, <1>5, <1>6

\* The scan of a sector: f[k] is what it has come to after k slots.
ScanIs(f, t, s) ==
  /\ f[0] = ScanStart(t) /\ Scanned(t, s) = f[SectorSlots]
  /\ \A k \in 0..SectorSlots : f[k] \in Scan
  /\ \A k \in 1..SectorSlots : f[k] = SlotRead(t, f[k - 1], table[t][Before(s) + k])
  /\ \A k \in 0..SectorSlots :
       Reading(table, used, t, f[k].acc, s, k) /\ \A x \in Files : CalledRight(f[k].tracked[x])

LEMMA ScanRight ==
  ASSUME WellSized, WellNamed, LongInv, NEW t \in DirTables, NEW s \in 1..Sectors
  PROVE  \E f : ScanIs(f, t, s)
<1>0. LongTyped /\ TablesTyped(table) /\ used \subseteq FileNames /\ NamesKept(table, used) /\ SectorSlots \in Nat
  BY SizesAre DEF LongInv, LongTyped
<1>1. PICK f : /\ f[0] = ScanStart(t) /\ Scanned(t, s) = f[SectorSlots]
               /\ \A k \in 0..SectorSlots : f[k] \in Scan
               /\ \A k \in 1..SectorSlots : f[k] = SlotRead(t, f[k - 1], table[t][Before(s) + k])
  BY <1>0, ScanBySlots
<1> DEFINE Good(k) == Reading(table, used, t, f[k].acc, s, k) /\ \A x \in Files : CalledRight(f[k].tracked[x])
           S == {k \in 0..SectorSlots : Good(k)}
<1>2. 0..SectorSlots \subseteq S
  <2>1. 0 \in S
    <3>1. f[0].acc = acc[t] /\ f[0].tracked = tracked
      BY <1>1 DEF ScanStart
    <3>2. Reading(table, used, t, acc[t], s, 0)
      BY ScanBegins DEF LongInv
    <3>3. \A x \in Files : CalledRight(tracked[x])
      BY DEF LongInv, OwnName, CalledRight
    <3> QED
      BY <1>0, <3>1, <3>2, <3>3
  <2>2. ASSUME NEW k \in 0..SectorSlots - 1, k \in S PROVE k + 1 \in S
    <3>1. k + 1 \in 1..SectorSlots /\ k + 1 \in 0..SectorSlots /\ (k + 1) - 1 = k /\ k \in 0..SectorSlots
      BY <1>0
    <3>2. InSector(table, used, t, s, k)
      BY <1>0 DEF InSector
    <3>3. NextSlot(s, k) = Before(s) + (k + 1)
      BY <3>2, InSectorIs
    <3>4. f[k] \in Scan /\ f[k + 1] = SlotRead(t, f[k], table[t][NextSlot(s, k)])
      BY <1>1, <3>1, <3>3
    <3>5. Good(k)
      BY <2>2
    <3>6. Good(k + 1)
      BY <3>2, <3>4, <3>5, ReadsSlot
    <3> QED
      BY <3>1, <3>6
  <2> HIDE DEF S
  <2> QED
    BY <1>0, <2>1, <2>2, CountFromZero
<1> QED
  BY <1>1, <1>2 DEF ScanIs

\* One step of it.
LEMMA ScanStep ==
  ASSUME WellSized, WellNamed, LongInv, NEW t \in DirTables, NEW s \in 1..Sectors,
         NEW f, ScanIs(f, t, s), NEW k \in 0..SectorSlots - 1
  PROVE  /\ InSector(table, used, t, s, k) /\ k \in Nat /\ k + 1 \in 1..SectorSlots
         /\ f[k] \in Scan /\ f[k].acc \in Accumulator /\ f[k].tracked \in [Files -> TrackedFile]
         /\ Reading(table, used, t, f[k].acc, s, k)
         /\ f[k + 1] = SlotRead(t, f[k], table[t][NextSlot(s, k)])
<1>1. LongTyped /\ TablesTyped(table) /\ used \subseteq FileNames /\ NamesKept(table, used) /\ SectorSlots \in Nat
  BY SizesAre DEF LongInv, LongTyped
<1>2. k + 1 \in 1..SectorSlots /\ (k + 1) - 1 = k /\ k \in 0..SectorSlots /\ k \in Nat
  BY <1>1
<1>3. InSector(table, used, t, s, k)
  BY <1>1 DEF InSector
<1>4. NextSlot(s, k) = Before(s) + (k + 1)
  BY <1>3, InSectorIs
<1> QED
  BY <1>2, <1>3, <1>4 DEF ScanIs, Scan

LEMMA ScanSlot ==
  ASSUME WellSized, WellNamed, LongInv, NEW t \in DirTables, NEW s \in 1..Sectors,
         NEW f, ScanIs(f, t, s), NEW k \in 0..SectorSlots - 1, NEW e, e = table[t][NextSlot(s, k)]
  PROVE  /\ e.kind = "free" => f[k + 1].acc = f[k].acc /\ f[k + 1].tracked = f[k].tracked
         /\ e.kind = "long" => f[k + 1].acc = WithLong(f[k].acc, e) /\ f[k + 1].tracked = f[k].tracked
         /\ e.kind = "short" =>
              /\ f[k + 1].acc = IF e.erased THEN f[k].acc ELSE Inactive
              /\ f[k + 1].tracked =
                   [f[k].tracked EXCEPT ![e.file] = Handled(f[k].tracked[e.file], t, e, Called(f[k].acc, e))]
<1> DEFINE st == f[k]
           end == f[k + 1]
<1>1. InSector(table, used, t, s, k) /\ st \in Scan /\ end = SlotRead(t, st, e)
  BY ScanStep
<1>2. e \in Slot
  BY <1>1, InSectorIs
<1> HIDE DEF st, end
<1>3. /\ e.kind = "free" => end.acc = st.acc /\ end.tracked = st.tracked
      /\ e.kind = "long" => end.acc = WithLong(st.acc, e) /\ end.tracked = st.tracked
      /\ e.kind = "short" =>
           /\ end.acc = IF e.erased THEN st.acc ELSE Inactive
           /\ end.tracked =
                [st.tracked EXCEPT ![e.file] = Handled(st.tracked[e.file], t, e, Called(st.acc, e))]
  BY <1>1, <1>2, SlotReads
<1> QED
  BY <1>3 DEF st, end

\* A sector is written: its slots one after the other.
LEMMA SectorKeepsNames ==
  ASSUME WellSized, WellNamed, LongInv, NEW t \in DirTables, NEW s \in 1..Sectors, WriteSector(t, s)
  PROVE  LongInv'
<1>0. LongTyped /\ TablesTyped(table) /\ used \subseteq FileNames /\ NamesKept(table, used) /\ SectorSlots \in Nat
  BY SizesAre DEF LongInv, LongTyped
<1>1. PICK f : ScanIs(f, t, s)
  BY ScanRight
<1> DEFINE end == f[SectorSlots]
<1>5. acc' = [acc EXCEPT ![t] = end.acc] /\ tracked' = end.tracked /\ table' = table /\ used' = used
  BY <1>1 DEF ScanIs, WriteSector, AccOf
<1> HIDE DEF end
<1>6. end.acc \in Accumulator /\ end.tracked \in [Files -> TrackedFile]
      /\ Reading(table, used, t, end.acc, s, SectorSlots) /\ \A x \in Files : CalledRight(end.tracked[x])
  <2>1. SectorSlots \in 0..SectorSlots
    BY <1>0
  <2> QED
    BY <1>1, <2>1 DEF ScanIs, Scan, end
<1>7. AccKept(table, used, t, end.acc, 0, 0)
  BY <1>0, <1>6, ScanEnds
<1>8. LongTyped'
  BY <1>0, <1>5, <1>6 DEF LongTyped, TablesTyped
<1>9. NamesKept(table, used)'
  BY <1>0, <1>5 DEF NamesKept
<1>10. \A v \in DirTables : AccKept(table, used, v, acc[v], 0, 0)'
  <2> SUFFICES ASSUME NEW v \in DirTables PROVE AccKept(table, used, v, acc'[v], 0, 0)
    BY <1>5
  <2>1. acc'[v] = IF v = t THEN end.acc ELSE acc[v]
    BY <1>0, <1>5 DEF LongTyped
  <2>2. AccKept(table, used, v, acc[v], 0, 0)
    BY DEF LongInv
  <2> QED
    BY <1>7, <2>1, <2>2
<1>11. OwnName'
  <2>1. \A x \in Files : CalledRight(tracked'[x])
    BY <1>5, <1>6
  <2> QED
    BY <2>1 DEF OwnName, CalledRight, LongName, Derived, Fragment
<1> QED
  BY <1>8, <1>9, <1>10, <1>11 DEF LongInv

-----------------------------------------------------------------------------
(* What the host does to its tables, from one value tb to another, nt.     *)

OfName(e, n) == e.kind # "free" /\ e.name = n
Fewer(tb, nt, n) ==
  \A u \in DirTables, p \in Slots : OfName(nt[u][p], n) => OfName(tb[u][p], n) /\ (tb[u][p].erased => nt[u][p].erased)
Alike(tb, nt, n) ==
  \A u \in DirTables, p \in Slots : OfName(tb[u][p], n) \/ OfName(nt[u][p], n) => nt[u][p] = tb[u][p]

LEMMA FewerIs ==
  ASSUME NEW tb, NEW nt, NEW n, Fewer(tb, nt, n)
  PROVE  (Nowhere(tb, n) => Nowhere(nt, n)) /\ (Dead(tb, n) => Dead(nt, n))
  BY DEF Fewer, OfName, Nowhere, Dead

LEMMA AlikeStands ==
  ASSUME WellSized, WellNamed, NEW tb, TablesTyped(tb), NEW nt, NEW n \in FileNames, Alike(tb, nt, n),
         NEW f, NEW t, NEW q, Stands(tb, n, f, t, q)
  PROVE  Stands(nt, n, f, t, q)
<1>1. /\ t \in DirTables /\ q \in Slots /\ f \in Files /\ OfName(tb[t][q], n)
      /\ \A i \in 1..Fragments[n] : q - i \in Slots /\ OfName(tb[t][q - i], n)
  BY StandsIs DEF OfName
<1>2. nt[t][q] = tb[t][q] /\ \A i \in 1..Fragments[n] : nt[t][q - i] = tb[t][q - i]
  BY <1>1 DEF Alike
<1>3. \A u \in DirTables, p \in Slots :
        nt[u][p].kind # "free" /\ nt[u][p].name = n => tb[u][p].kind # "free" /\ tb[u][p].name = n
  BY DEF Alike, OfName
<1> QED
  BY <1>1, <1>2, <1>3 DEF Stands

\* The host leaves a name as it was, or no slot of it is alive.
Spared(tb, nt, n) == Fewer(tb, nt, n) /\ (Alike(tb, nt, n) \/ Dead(nt, n))

LEMMA SparedKept ==
  ASSUME WellSized, WellNamed, NEW tb, TablesTyped(tb), NEW nt, NEW u, NamesKept(tb, u),
         NEW n \in FileNames, Spared(tb, nt, n)
  PROVE  (n \notin u => Nowhere(nt, n)) /\ (Dead(nt, n) \/ Standing(nt, n))
<1>1. n \notin u => Nowhere(nt, n)
  BY FewerIs DEF Spared, NamesKept
<1>2. CASE Dead(tb, n)
  BY <1>1, <1>2, FewerIs DEF Spared
<1>3. CASE Standing(tb, n)
  <2>1. PICK f \in Files, t \in DirTables, q \in Slots : Stands(tb, n, f, t, q)
    BY <1>3 DEF Standing
  <2>2. Dead(nt, n) \/ Stands(nt, n, f, t, q)
    BY <2>1, AlikeStands DEF Spared
  <2> QED
    BY <1>1, <2>2 DEF Standing
<1> QED
  BY <1>2, <1>3 DEF NamesKept

\* Between two sectors, an accumulator outlives what the host does.
LEMMA SparedAcc ==
  ASSUME WellSized, WellNamed, NEW tb, TablesTyped(tb), NEW nt, NEW u, NEW nu, u \subseteq nu,
         \A n \in u \cap FileNames : Spared(tb, nt, n), NEW t, NEW a, AccKept(tb, u, t, a, 0, 0)
  PROVE  AccKept(nt, nu, t, a, 0, 0)
<1> SUFFICES ASSUME a.active
             PROVE  \E n \in nu \cap FileNames :
                      /\ a.sum = Sum[n]
                      /\ \/ Dead(nt, n)
                         \/ \E f \in Files : \E q \in Slots :
                              Stands(nt, n, f, t, q) /\ Gathers(a.text, n, q, 0, 0)
  BY DEF AccKept
<1>1. PICK n \in u \cap FileNames :
        /\ a.sum = Sum[n]
        /\ \/ Dead(tb, n)
           \/ \E f \in Files : \E q \in Slots :
                Stands(tb, n, f, t, q) /\ Gathers(a.text, n, q, 0, 0)
  <2>1. ~(0 > 0)
    OBVIOUS
  <2> QED
    BY <2>1 DEF AccKept
<1>2. Spared(tb, nt, n) /\ n \in nu \cap FileNames
  OBVIOUS
<1>3. CASE Dead(tb, n)
  BY <1>1, <1>2, <1>3, FewerIs DEF Spared
<1>4. CASE Dead(nt, n)
  BY <1>1, <1>2, <1>4
<1>5. CASE Alike(tb, nt, n) /\ ~Dead(tb, n)
  <2>1. PICK f \in Files, q \in Slots : Stands(tb, n, f, t, q) /\ Gathers(a.text, n, q, 0, 0)
    BY <1>1, <1>5
  <2>2. Stands(nt, n, f, t, q)
    BY <1>5, <2>1, AlikeStands
  <2> QED
    BY <1>1, <1>2, <2>1, <2>2
<1> QED
  BY <1>2, <1>3, <1>4, <1>5 DEF Spared

\* What remains kept while the host edits.
HostKept(tb, u) ==
  /\ TablesTyped(tb) /\ NamesKept(tb, u) /\ \A t \in DirTables : AccKept(tb, u, t, acc[t], 0, 0)

\* No name comes to life again.
DeadKept(tb, nt, u) == \A n \in u \cap FileNames : Dead(tb, n) => Dead(nt, n)

LEMMA EraseKeeps ==
  ASSUME WellSized, WellNamed, NEW tb, NEW u, HostKept(tb, u), NEW t \in DirTables, NEW p \in Slots,
         tb[t][p].kind = "short", ~tb[t][p].erased
  PROVE  LET nt == [tb EXCEPT ![t] = Erased(tb[t], p)]
         IN  HostKept(nt, u) /\ DeadKept(tb, nt, u)
<1> DEFINE nt == [tb EXCEPT ![t] = Erased(tb[t], p)]
           m == tb[t][p].name
           Hit(v, q) == v = t /\ OfName(tb[v][q], m)
<1>1. tb \in [DirTables -> [Slots -> Slot]] /\ NamesKept(tb, u) /\ TablesTyped(tb)
  BY DEF HostKept, TablesTyped
<1>2. m \in FileNames /\ \E f \in Files : Stands(tb, m, f, t, p)
  BY <1>1, SlotOfName
<1>3. \A v \in DirTables, q \in Slots :
        nt[v][q] = IF Hit(v, q) THEN [tb[v][q] EXCEPT !.erased = TRUE] ELSE tb[v][q]
  BY <1>1 DEF Erased, OfName
<1> HIDE DEF nt
<1>4. ASSUME NEW e \in Slot, NEW n, OfName(e, n)
      PROVE  LET d == [e EXCEPT !.erased = TRUE] IN d \in Slot /\ OfName(d, n) /\ d.erased
  <2>1. e \in LongSlot \/ e \in ShortSlot
    BY <1>4, SlotKinds DEF OfName, Free, Slot
  <2>2. CASE e \in LongSlot
    BY <1>4, <2>2 DEF LongSlot, Slot, OfName
  <2>3. CASE e \in ShortSlot
    BY <1>4, <2>3 DEF ShortSlot, Slot, OfName
  <2> QED
    BY <2>1, <2>2, <2>3
<1>5. \A v \in DirTables, q \in Slots :
        /\ nt[v][q] \in Slot
        /\ Hit(v, q) => OfName(nt[v][q], m) /\ nt[v][q].erased
        /\ ~Hit(v, q) => nt[v][q] = tb[v][q]
  <2> SUFFICES ASSUME NEW v \in DirTables, NEW q \in Slots
               PROVE  /\ nt[v][q] \in Slot
                      /\ Hit(v, q) => OfName(nt[v][q], m) /\ nt[v][q].erased
                      /\ ~Hit(v, q) => nt[v][q] = tb[v][q]
    OBVIOUS
  <2> DEFINE e == tb[v][q]
             d == [e EXCEPT !.erased = TRUE]
  <2>1. e \in Slot /\ nt[v][q] = IF Hit(v, q) THEN d ELSE e
    BY <1>1, <1>3
  <2>2. CASE Hit(v, q)
    <3>1. OfName(e, m)
      BY <2>2
    <3>2. d \in Slot /\ OfName(d, m) /\ d.erased
      BY <1>4, <2>1, <3>1
    <3> HIDE DEF d, e, m
    <3> QED
      BY <2>1, <2>2, <3>2
  <2>3. CASE ~Hit(v, q)
    BY <2>1, <2>3
  <2> QED
    BY <2>2, <2>3
<1>6. TablesTyped(nt)
  <2>1. nt = [v \in DirTables |-> nt[v]] /\ \A v \in DirTables : nt[v] = [q \in Slots |-> nt[v][q]]
    BY <1>1 DEF nt, Erased
  <2> QED
    BY <1>5, <2>1 DEF TablesTyped
<1>7. ASSUME NEW n \in FileNames PROVE Spared(tb, nt, n)
  <2>1. CASE n = m
    <3>1. Dead(nt, n)
      <4> SUFFICES ASSUME NEW v \in DirTables, NEW q \in Slots, OfName(nt[v][q], m) PROVE nt[v][q].erased
        BY <2>1 DEF Dead, OfName
      <4>1. CASE Hit(v, q)
        BY <1>5, <4>1
      <4>2. CASE ~Hit(v, q)
        <5>1. OfName(tb[v][q], m)
          BY <1>5, <4>2
        <5>2. v = t
          BY <1>1, <1>2, <5>1, StandsWhere DEF OfName
        <5> QED
          BY <4>2, <5>1, <5>2
      <4> QED
        BY <4>1, <4>2
    <3>2. Fewer(tb, nt, n)
      BY <1>5, <2>1, <3>1 DEF Fewer, Dead, OfName
    <3> QED
      BY <3>1, <3>2 DEF Spared
  <2>2. CASE n # m
    <3> HIDE DEF m
    <3>1. \A v \in DirTables, q \in Slots : OfName(tb[v][q], n) \/ OfName(nt[v][q], n) => nt[v][q] = tb[v][q]
      BY <1>5, <2>2 DEF OfName
    <3> QED
      BY <3>1 DEF Spared, Fewer, Alike
  <2> QED
    BY <2>1, <2>2
<1>8. NamesKept(nt, u)
  <2>1. \A n \in FileNames : (n \notin u => Nowhere(nt, n)) /\ (Dead(nt, n) \/ Standing(nt, n))
    BY <1>1, <1>7, SparedKept
  <2> QED
    BY <2>1 DEF NamesKept
<1>9. \A v \in DirTables : AccKept(nt, u, v, acc[v], 0, 0)
  BY <1>1, <1>7, SparedAcc DEF HostKept
<1>10. DeadKept(tb, nt, u)
  BY <1>7, FewerIs DEF DeadKept, Spared
<1> QED
  BY <1>6, <1>8, <1>9, <1>10 DEF HostKept, nt

\* A group in its slots.
LEMMA GroupIs ==
  ASSUME WellSized, WellNamed, NEW n \in FileNames, NEW f \in Files
  PROVE  /\ Len(Group(n, f)) = Fragments[n] + 1
         /\ Group(n, f)[Fragments[n] + 1] = ShortOf(n, f)
         /\ \A j \in 1..Fragments[n] : Group(n, f)[j] = LongOf(n, Fragments[n] + 1 - j)
<1> DEFINE F == Fragments[n]
           long(j) == [kind |-> "long", name |-> n, seq |-> F + 1 - j, last |-> j = 1, erased |-> FALSE]
           g == [j \in 1..F |-> long(j)]
           h == <<ShortOf(n, f)>>
<1>1. F \in Nat
  BY FragmentsAre
<1>2. Group(n, f) = g \o h
  BY DEF Group, ShortOf
<1>3. \A j \in 1..F : long(j) = LongOf(n, F + 1 - j)
  <2> SUFFICES ASSUME NEW j \in 1..F PROVE long(j) = LongOf(n, F + 1 - j)
    OBVIOUS
  <2>1. (j = 1) = (F + 1 - j = F)
    BY <1>1
  <2> HIDE DEF F
  <2> QED
    BY <2>1 DEF LongOf, F
<1> HIDE DEF long, F
<1>4. g \in Seq({long(j) : j \in 1..F}) /\ Len(g) = F
  BY <1>1
<1>5. h \in Seq({ShortOf(n, f)}) /\ Len(h) = 1 /\ h[1] = ShortOf(n, f)
  OBVIOUS
<1>6. Len(g \o h) = F + 1 /\ (g \o h)[F + 1] = h[1] /\ \A j \in 1..F : (g \o h)[j] = g[j]
  <2> DEFINE X == {long(j) : j \in 1..F} \cup {ShortOf(n, f)}
  <2>1. g \in Seq(X) /\ h \in Seq(X)
    BY <1>1
  <2>2. 1..F \subseteq 1..F + 1
    BY <1>1
  <2> HIDE DEF g, h, X
  <2>3. /\ Len(g \o h) = Len(g) + Len(h)
        /\ \A j \in 1..Len(g) + Len(h) : (g \o h)[j] = IF j <= Len(g) THEN g[j] ELSE h[j - Len(g)]
    BY <2>1, ConcatProperties
  <2>4. Len(g \o h) = F + 1 /\ \A j \in 1..F + 1 : (g \o h)[j] = IF j <= F THEN g[j] ELSE h[j - F]
    BY <1>4, <1>5, <2>3
  <2>5. F + 1 \in 1..F + 1 /\ ~(F + 1 <= F) /\ (F + 1) - F = 1
    BY <1>1
  <2>6. (g \o h)[F + 1] = h[1]
    BY <2>4, <2>5
  <2>7. \A j \in 1..F : (g \o h)[j] = g[j]
    BY <1>1, <2>2, <2>4
  <2> QED
    BY <2>4, <2>6, <2>7
<1>7. \A j \in 1..F : g[j] = long(j)
  OBVIOUS
<1> HIDE DEF g, h
<1> QED
  BY <1>2, <1>3, <1>5, <1>6, <1>7 DEF F

\* A group of a new name, over slots that are free or erased.
LEMMA PlaceKeeps ==
  ASSUME WellSized, WellNamed, NEW tb, NEW u, HostKept(tb, u), u \subseteq FileNames,
         NEW t \in DirTables, NEW p \in Slots, NEW n \in FileNames, n \notin u, NEW f \in Files,
         Vacant(tb[t], p, Fragments[n] + 1)
  PROVE  LET nt == [tb EXCEPT ![t] = Placed(tb[t], p, Group(n, f))]
         IN  HostKept(nt, u \cup {n}) /\ DeadKept(tb, nt, u)
<1> DEFINE nt == [tb EXCEPT ![t] = Placed(tb[t], p, Group(n, f))]
           F == Fragments[n]
           q == p + F
           In(v, r) == v = t /\ r \in p..q
<1>1. tb \in [DirTables -> [Slots -> Slot]] /\ NamesKept(tb, u) /\ TablesTyped(tb) /\ Nowhere(tb, n)
  BY DEF HostKept, TablesTyped, NamesKept
<1>2. F \in Nat /\ p \in Int /\ p >= 1 /\ Sectors * SectorSlots \in Int /\ Slots = 1..Sectors * SectorSlots
  <2>1. Sectors * SectorSlots \in Int
    BY SizesAre
  <2> QED
    BY <2>1, FragmentsAre DEF Slots
<1>3. q \in Slots /\ \A r \in p..q : tb[t][r].kind # "free" => tb[t][r].erased
  <2>1. p + (F + 1) - 1 = q
    BY <1>2
  <2> QED
    BY <2>1 DEF Vacant
<1>4. \A v \in DirTables, r \in Slots :
        nt[v][r] = IF In(v, r) THEN Group(n, f)[r - p + 1] ELSE tb[v][r]
  <2>1. p + Len(Group(n, f)) - 1 = q
    <3>1. Len(Group(n, f)) = F + 1
      BY GroupIs
    <3> QED
      BY <1>2, <3>1
  <2> HIDE DEF q
  <2> QED
    BY <1>1, <2>1 DEF Placed
<1> HIDE DEF nt
<1>5. nt[t][q] = ShortOf(n, f) /\ \A i \in 1..F : q - i \in Slots /\ nt[t][q - i] = LongOf(n, i)
  <2>1. In(t, q) /\ q - p + 1 = F + 1
    BY <1>2
  <2>2. nt[t][q] = ShortOf(n, f)
    BY <1>3, <1>4, <2>1, GroupIs
  <2>3. ASSUME NEW i \in 1..F PROVE q - i \in Slots /\ nt[t][q - i] = LongOf(n, i)
    <3> DEFINE j == (q - i) - p + 1
    <3>0. q - i >= p /\ q - i <= q /\ q \in Int /\ q \in Slots
      BY <1>2, <1>3
    <3>1. j \in 1..F /\ F + 1 - j = i /\ In(t, q - i) /\ q - i \in Slots
      <4>1. j \in 1..F /\ F + 1 - j = i
        BY <1>2
      <4>2. q - i \in p..q
        BY <1>2, <3>0
      <4>3. q - i \in Slots
        BY <1>2, <3>0
      <4> QED
        BY <4>1, <4>2, <4>3
    <3>2. Group(n, f)[j] = LongOf(n, i)
      <4> HIDE DEF j
      <4> QED
        BY <3>1, GroupIs
    <3> QED
      BY <1>4, <3>1, <3>2
  <2> QED
    BY <2>2, <2>3
<1>6. \A r \in p..q : r \in Slots /\ nt[t][r] \in Slot /\ OfName(nt[t][r], n)
  <2> SUFFICES ASSUME NEW r \in p..q PROVE r \in Slots /\ nt[t][r] \in Slot /\ OfName(nt[t][r], n)
    OBVIOUS
  <2>1. CASE r = q
    <3>1. ShortOf(n, f) \in ShortSlot /\ OfName(ShortOf(n, f), n)
      BY DEF ShortOf, OfName, ShortSlot
    <3> HIDE DEF q
    <3> QED
      BY <1>3, <1>5, <2>1, <3>1 DEF Slot
  <2>2. CASE r # q
    <3> DEFINE i == q - r
    <3>1. i \in 1..F /\ q - i = r
      BY <1>2, <2>2
    <3> HIDE DEF i, q
    <3>2. r \in Slots /\ nt[t][r] = LongOf(n, i)
      BY <1>5, <3>1
    <3>3. LongOf(n, i) \in LongSlot /\ OfName(LongOf(n, i), n)
      <4>1. (i = Fragments[n]) \in BOOLEAN /\ i \in Nat
        BY <1>2, <3>1
      <4> QED
        BY <4>1 DEF LongOf, OfName, LongSlot
    <3> QED
      BY <3>2, <3>3 DEF Slot
  <2> QED
    BY <2>1, <2>2
<1>7. \A v \in DirTables, r \in Slots : ~In(v, r) => nt[v][r] = tb[v][r]
  BY <1>4
<1>8. TablesTyped(nt)
  <2>1. nt = [v \in DirTables |-> nt[v]] /\ \A v \in DirTables : nt[v] = [r \in Slots |-> nt[v][r]]
    BY <1>1 DEF nt, Placed
  <2>2. \A v \in DirTables, r \in Slots : nt[v][r] \in Slot
    BY <1>1, <1>6, <1>7
  <2> QED
    BY <2>1, <2>2 DEF TablesTyped
<1>9. Stands(nt, n, f, t, q)
  <2>1. \A v \in DirTables, r \in Slots : OfName(nt[v][r], n) => In(v, r)
    BY <1>1, <1>7 DEF Nowhere, OfName
  <2>2. q - F >= 1 /\ q - F = p
    BY <1>2
  <2> QED
    BY <1>3, <1>5, <2>1, <2>2 DEF Stands, OfName
<1>10. ASSUME NEW m \in FileNames, m # n PROVE Spared(tb, nt, m)
  <2>1. \A v \in DirTables, r \in Slots : OfName(nt[v][r], m) => ~In(v, r) /\ nt[v][r] = tb[v][r]
    BY <1>6, <1>7, <1>10 DEF OfName
  <2>2. Fewer(tb, nt, m)
    BY <2>1 DEF Fewer
  <2>3. CASE Dead(tb, m)
    BY <2>2, <2>3, FewerIs DEF Spared
  <2>4. CASE Standing(tb, m)
    <3>1. PICK g \in Files, w \in DirTables, c \in Slots : Stands(tb, m, g, w, c)
      BY <2>4 DEF Standing
    <3>2. \A v \in DirTables, r \in Slots : OfName(tb[v][r], m) => ~tb[v][r].erased
      BY <1>1, <3>1, StandsWhere DEF OfName
    <3>3. \A v \in DirTables, r \in Slots : OfName(tb[v][r], m) => nt[v][r] = tb[v][r]
      BY <1>3, <1>7, <3>2 DEF OfName
    <3> QED
      BY <2>1, <2>2, <3>3 DEF Spared, Alike
  <2> QED
    BY <1>1, <2>3, <2>4 DEF NamesKept
<1>11. NamesKept(nt, u \cup {n})
  <2>1. \A m \in FileNames : m # n => (m \notin u => Nowhere(nt, m)) /\ (Dead(nt, m) \/ Standing(nt, m))
    BY <1>1, <1>10, SparedKept
  <2>2. Standing(nt, n)
    BY <1>3, <1>9 DEF Standing
  <2> QED
    BY <2>1, <2>2 DEF NamesKept
<1>12. \A v \in DirTables : AccKept(nt, u \cup {n}, v, acc[v], 0, 0)
  <2>1. \A m \in u \cap FileNames : Spared(tb, nt, m)
    BY <1>10
  <2>2. u \subseteq u \cup {n} /\ \A v \in DirTables : AccKept(tb, u, v, acc[v], 0, 0)
    BY DEF HostKept
  <2> QED
    BY <1>1, <2>1, <2>2, SparedAcc
<1>13. DeadKept(tb, nt, u)
  BY <1>10, FewerIs DEF DeadKept, Spared
<1> QED
  BY <1>8, <1>11, <1>12, <1>13 DEF HostKept, nt

-----------------------------------------------------------------------------
(* Every step, and the theorem.                                            *)

\* The invariant after an edit: entries and accumulators are as they were.
LEMMA EditKeepsNames ==
  ASSUME LongInv, Editing, HostKept(table', used'), used' \subseteq FileNames
  PROVE  LongInv'
<1>1. acc' = acc /\ tracked' = tracked
  BY DEF Editing
<1>2. LongTyped'
  BY <1>1 DEF LongInv, LongTyped, HostKept, TablesTyped
<1>3. NamesKept(table, used)'
  BY DEF HostKept, NamesKept
<1>4. (\A t \in DirTables : AccKept(table, used, t, acc[t], 0, 0))'
  BY <1>1 DEF HostKept
<1>5. OwnName'
  BY <1>1 DEF LongInv, OwnName, LongName, Derived, Fragment
<1> QED
  BY <1>2, <1>3, <1>4, <1>5 DEF LongInv

LEMMA LongInitially ==
  ASSUME WellSized, WellNamed, LongInit
  PROVE  LongInv
<1>1. TablesTyped(table)
  BY DEF LongInit, TablesTyped, Slot
<1>2. acc \in [DirTables -> Accumulator] /\ \A t \in DirTables : ~acc[t].active
  BY InactiveTyped DEF LongInit
<1>3. tracked \in [Files -> TrackedFile] /\ \A f \in Files : tracked[f].deleted
  <2>1. NotTracked \in TrackedFile /\ NotTracked.deleted
    BY DEF NotTracked, TrackedFile, Callings
  <2> QED
    BY <2>1 DEF LongInit
<1>4. NamesKept(table, used)
  BY DEF LongInit, NamesKept, Nowhere, Dead, Free
<1>5. \A t \in DirTables : AccKept(table, used, t, acc[t], 0, 0)
  BY <1>2 DEF AccKept
<1>6. used = {}
  BY DEF LongInit
<1> QED
  BY <1>1, <1>2, <1>3, <1>4, <1>5, <1>6 DEF LongInv, LongTyped, OwnName

\* What the host does.
HostStep ==
  \/ \E f \in Files, n \in FileNames, t \in DirTables, p \in Slots :
       HostCreate(f, n, t, p) \/ HostRename(f, n, t, p)
  \/ \E f \in Files : HostDelete(f)

LEMMA EditIs ==
  ASSUME WellSized, WellNamed, ~Again, LongInv, HostStep
  PROVE  /\ Editing /\ used \subseteq used' /\ used' \subseteq FileNames
         /\ HostKept(table', used') /\ DeadKept(table, table', used)
<1>0. HostKept(table, used) /\ used \subseteq FileNames
  BY DEF LongInv, LongTyped, HostKept
<1>1. ASSUME NEW f \in Files, NEW n \in FileNames, NEW t \in DirTables, NEW p \in Slots,
             HostCreate(f, n, t, p)
      PROVE  /\ Editing /\ used \subseteq used' /\ used' \subseteq FileNames
             /\ HostKept(table', used') /\ DeadKept(table, table', used)
  <2>1. n \notin used /\ used' = used \cup {n} /\ Editing /\ Vacant(table[t], p, Fragments[n] + 1)
    BY <1>1 DEF HostCreate, Uses
  <2>2. table' = [table EXCEPT ![t] = Placed(table[t], p, Group(n, f))]
    BY <1>1 DEF HostCreate
  <2>3. HostKept(table', used') /\ DeadKept(table, table', used)
    BY <1>0, <2>1, <2>2, PlaceKeeps
  <2> QED
    BY <1>0, <2>1, <2>3
<1>2. ASSUME NEW f \in Files, NEW x \in Live(f)
      PROVE  LET erased == [table EXCEPT ![x[1]] = Erased(table[x[1]], x[2])]
             IN  HostKept(erased, used) /\ DeadKept(table, erased, used)
  <2>1. x[1] \in DirTables /\ x[2] \in Slots /\ table[x[1]][x[2]].kind = "short" /\ ~table[x[1]][x[2]].erased
    BY DEF Live
  <2> QED
    BY <1>0, <2>1, EraseKeeps
<1>3. ASSUME NEW f \in Files, HostDelete(f)
      PROVE  /\ Editing /\ used \subseteq used' /\ used' \subseteq FileNames
             /\ HostKept(table', used') /\ DeadKept(table, table', used)
  <2>1. PICK x \in Live(f) : table' = [table EXCEPT ![x[1]] = Erased(table[x[1]], x[2])]
    BY <1>3 DEF HostDelete
  <2>2. Editing /\ used' = used
    BY <1>3 DEF HostDelete
  <2> QED
    BY <1>0, <1>2, <2>1, <2>2
<1>4. ASSUME NEW f \in Files, NEW n \in FileNames, NEW t \in DirTables, NEW p \in Slots,
             HostRename(f, n, t, p)
      PROVE  /\ Editing /\ used \subseteq used' /\ used' \subseteq FileNames
             /\ HostKept(table', used') /\ DeadKept(table, table', used)
  <2>1. n \notin used /\ used' = used \cup {n} /\ Editing
    BY <1>4 DEF HostRename, Uses
  <2>2. PICK x \in Live(f) :
          LET erased == [table EXCEPT ![x[1]] = Erased(table[x[1]], x[2])]
          IN  /\ Vacant(erased[t], p, Fragments[n] + 1)
              /\ table' = [erased EXCEPT ![t] = Placed(erased[t], p, Group(n, f))]
    BY <1>4 DEF HostRename
  <2> DEFINE erased == [table EXCEPT ![x[1]] = Erased(table[x[1]], x[2])]
  <2>3. HostKept(erased, used) /\ DeadKept(table, erased, used)
    BY <1>2
  <2>4. Vacant(erased[t], p, Fragments[n] + 1)
        /\ table' = [erased EXCEPT ![t] = Placed(erased[t], p, Group(n, f))]
    BY <2>2
  <2> HIDE DEF erased
  <2>5. HostKept(table', used') /\ DeadKept(erased, table', used)
    BY <1>0, <2>1, <2>3, <2>4, PlaceKeeps
  <2>6. DeadKept(table, table', used)
    BY <2>3, <2>5 DEF DeadKept
  <2> QED
    BY <1>0, <2>1, <2>5, <2>6
<1> QED
  BY <1>1, <1>3, <1>4 DEF HostStep

LEMMA LongUnchanged ==
  ASSUME LongInv, UNCHANGED longVars
  PROVE  LongInv'
<1>1. table' = table /\ acc' = acc /\ tracked' = tracked /\ used' = used
  BY DEF longVars
<1>2. LongTyped' /\ NamesKept(table, used)' /\ (\A t \in DirTables : AccKept(table, used, t, acc[t], 0, 0))'
  BY <1>1 DEF LongInv, LongTyped, TablesTyped
<1>3. OwnName'
  BY <1>1 DEF LongInv, OwnName, LongName, Derived, Fragment
<1> QED
  BY <1>2, <1>3 DEF LongInv

LEMMA LongStep ==
  ASSUME WellSized, WellNamed, ~Again, LongInv, [LongNext]_longVars
  PROVE  LongInv'
<1>1. ASSUME NEW t \in DirTables, NEW s \in 1..Sectors, WriteSector(t, s)
      PROVE  LongInv'
  BY <1>1, SectorKeepsNames
<1>2. CASE HostStep
  BY <1>2, EditIs, EditKeepsNames
<1>3. CASE UNCHANGED longVars
  BY <1>3, LongUnchanged
<1> QED
  BY <1>1, <1>2, <1>3 DEF LongNext, HostStep

\* A file is never called by another's name, by a part of its own, or by fragments of
\* two, in whatever order and how often the sectors of the tables are written
\* (fatfs_scan_dir_table_write), as long as the host uses no name twice.
THEOREM NamesAreOwn ==
  ASSUME ~Again
  PROVE  LongSpec => []OwnName
<1>1. LongInit => LongInv
  BY TablesAssumption, FileNamesAssumption, LongInitially
<1>2. LongInv /\ [LongNext]_longVars => LongInv'
  BY TablesAssumption, FileNamesAssumption, LongStep
<1>3. LongInv => OwnName
  BY DEF LongInv
<1> QED
  BY <1>1, <1>2, <1>3, PTL DEF LongSpec

-----------------------------------------------------------------------------
(* A name whose slots are written together.  The name whose fragments end the *)
(* last sector of a table is the one its accumulator gathers.              *)

BegunKept(tb, u, t, n) == n \in u /\ n \in FileNames /\ (Dead(tb, n) \/ (acc[t].active /\ acc[t].sum = Sum[n]))
BegunInv ==
  /\ LongInv
  /\ begun \in [DirTables -> FileNames \cup {NoName}]
  /\ \A t \in DirTables : begun[t] = NoName \/ BegunKept(table, used, t, begun[t])

LEMMA ScanPasses ==
  ASSUME WellSized, WellNamed, LongInv, NEW t \in DirTables, NEW s \in 1..Sectors,
         NEW f, ScanIs(f, t, s), NEW k \in 0..SectorSlots - 1, NEW e, e = table[t][NextSlot(s, k)],
         e.kind = "free" \/ (e.kind = "short" /\ e.erased)
  PROVE  f[k + 1].acc = f[k].acc
<1> DEFINE st == f[k]
           end == f[k + 1]
<1>1. InSector(table, used, t, s, k) /\ st \in Scan /\ end = SlotRead(t, st, e)
  BY ScanStep
<1>2. e \in Slot /\ (e.kind = "free" \/ (e.kind = "short" /\ e.erased))
  BY <1>1, InSectorIs
<1> HIDE DEF st, end
<1>3. end.acc = st.acc
  <2>1. CASE e.kind = "free"
    <3>1. SlotRead(t, st, e) = st
      BY <1>1, <1>2, <2>1, SlotReads
    <3> QED
      BY <1>1, <3>1
  <2>2. CASE e.kind = "short" /\ e.erased
    <3>1. SlotRead(t, st, e).acc = IF e.erased THEN st.acc ELSE Inactive
      BY <1>1, <1>2, <2>2, SlotReads
    <3> QED
      BY <1>1, <2>2, <3>1
  <2> QED
    BY <1>2, <2>1, <2>2
<1> QED
  BY <1>3 DEF st, end

\* A sector with nothing but free slots and erased short entries.
LEMMA ScanQuiet ==
  ASSUME WellSized, WellNamed, LongInv, NEW t \in DirTables, NEW s \in 1..Sectors,
         NEW f, ScanIs(f, t, s), Quiet(t, s)
  PROVE  f[SectorSlots].acc = acc[t]
<1> DEFINE S == {k \in 0..SectorSlots : f[k].acc = acc[t]}
<1>1. SectorSlots \in Nat
  BY SizesAre
<1>2. 0 \in S
  BY <1>1 DEF ScanIs, ScanStart
<1>3. ASSUME NEW k \in 0..SectorSlots - 1, k \in S PROVE k + 1 \in S
  <2> DEFINE e == table[t][NextSlot(s, k)]
  <2>1. /\ InSector(table, used, t, s, k) /\ k + 1 \in 0..SectorSlots /\ f[k] \in Scan
    BY <1>1, ScanStep
  <2>2. e \in Slot /\ NextSlot(s, k) \in SlotsOf(s)
    BY <2>1, InSectorIs
  <2>3. e.kind = "free" \/ (e.kind = "short" /\ e.erased)
    BY <2>2 DEF Quiet
  <2>4. f[k + 1].acc = f[k].acc
    BY <2>3, ScanPasses
  <2> QED
    BY <1>3, <2>1, <2>4
<1> HIDE DEF S
<1>4. 0..SectorSlots \subseteq S
  BY <1>1, <1>2, <1>3, CountFromZero
<1>5. SectorSlots \in S
  BY <1>1, <1>4
<1> QED
  BY <1>5 DEF S

\* A sector that ends in a fragment.
LEMMA ScanBegun ==
  ASSUME WellSized, WellNamed, LongInv, NEW t \in DirTables, NEW s \in 1..Sectors,
         NEW f, ScanIs(f, t, s), Begins(t, s) # NoName
  PROVE  LET n == Begins(t, s)
         IN  n \in used /\ n \in FileNames /\ f[SectorSlots].acc.active /\ f[SectorSlots].acc.sum = Sum[n]
<1> DEFINE b == Before(s)
           p == s * SectorSlots
           e == table[t][p]
           n == Begins(t, s)
           a == f[SectorSlots].acc
<1>1. SectorSlots \in Nat \ {0} /\ Sectors \in Nat /\ s \in Int /\ b \in Nat
  BY SizesAre, SectorIs
<1>2. p = b + SectorSlots
  <2>1. s * SectorSlots = (s - 1) * SectorSlots + SectorSlots
    BY <1>1
  <2> QED
    BY <2>1 DEF Before
<1>3. p \in Slots /\ p > b
  <2>1. b + SectorSlots \in b + 1..b + SectorSlots /\ b + SectorSlots > b
    BY <1>1
  <2> QED
    BY <1>2, <2>1, SectorIs
<1>4. e.kind = "long" /\ ~e.erased /\ n = e.name
  BY DEF Begins
<1>5. TablesTyped(table) /\ NamesKept(table, used)
  BY DEF LongInv, LongTyped
<1>6. n \in FileNames /\ n \in used
  BY <1>3, <1>4, <1>5, SlotOfName
<1>7. PICK g \in Files, q \in Slots : Stands(table, n, g, t, q) /\ e.seq \in 1..Fragments[n] /\ p = q - e.seq
  BY <1>3, <1>4, <1>5, SlotOfName
<1>8. q \in Int /\ Fragments[n] \in Nat /\ Fragments[n] <= SectorSlots
  BY <1>5, <1>6, <1>7, StandsIs, FragmentsAre
<1> DEFINE i == e.seq
<1>9. i \in 1..Fragments[n] /\ p = q - i
  BY <1>7
<1> HIDE DEF i, n, e, p, b
<1>10. q - Fragments[n] > b
  BY <1>1, <1>2, <1>8, <1>9
<1>11. SectorSlots \in 0..SectorSlots
  BY <1>1
<1>12. LastSeen(table, t, a, b, p)
  BY <1>2, <1>11 DEF ScanIs, Reading, b
<1>13. a.active /\ a.sum = Sum[n]
  BY <1>3, <1>6, <1>7, <1>9, <1>10, <1>12 DEF LastSeen
<1> QED
  BY <1>6, <1>13 DEF n

\* The rest of a name begun in the sector before.
LEMMA ScanContinues ==
  ASSUME WellSized, WellNamed, LongInv, NEW t \in DirTables, NEW s \in 1..Sectors,
         NEW f, ScanIs(f, t, s), NEW n \in FileNames, NEW g, NEW q, Stands(table, n, g, t, q),
         acc[t].active, acc[t].sum = Sum[n], q - Fragments[n] <= Before(s),
         NEW l \in 0..SectorSlots, Before(s) + l < q
  PROVE  f[l].acc.active /\ f[l].acc.sum = Sum[n]
<1> DEFINE b == Before(s)
           F == Fragments[n]
           S == {k \in 0..SectorSlots : b + k < q => f[k].acc.active /\ f[k].acc.sum = Sum[n]}
<1>1. SectorSlots \in Nat /\ TablesTyped(table) /\ b \in Nat
  BY SizesAre, SectorIs DEF LongInv, LongTyped
<1>2. q \in Int /\ F \in Nat
  BY <1>1, StandsIs
<1>3. 0 \in S
  BY <1>1 DEF ScanIs, ScanStart
<1>4. ASSUME NEW k \in 0..SectorSlots - 1, k \in S PROVE k + 1 \in S
  <2> SUFFICES ASSUME b + (k + 1) < q PROVE f[k + 1].acc.active /\ f[k + 1].acc.sum = Sum[n]
    BY <1>1
  <2> DEFINE p == NextSlot(s, k)
             e == table[t][p]
             i == q - p
  <2>1. /\ InSector(table, used, t, s, k) /\ k \in Nat /\ f[k] \in Scan /\ f[k].acc \in Accumulator
    BY ScanStep
  <2>2. e \in Slot /\ p = b + (k + 1)
    BY <2>1, InSectorIs
  <2>3. i \in 1..F /\ q - i = p /\ i # F /\ b + k < q
    <3> HIDE DEF p, b, F
    <3> QED
      BY <1>1, <1>2, <2>1, <2>2 DEF b, F
  <2>4. f[k].acc.active /\ f[k].acc.sum = Sum[n]
    BY <1>4, <2>3
  <2> HIDE DEF i
  <2>5. e.kind = "long" /\ ~e.erased /\ e.name = n /\ e.seq = i /\ e.last = (i = F)
    BY <1>1, <2>3, StandsIs
  <2>6. e \in LongSlot
    BY <2>2, <2>5, SlotKinds
  <2>7. ~IsLast(e)
    BY <2>3, <2>5, <2>6, LiveFragment
  <2>8. f[k + 1].acc = WithLong(f[k].acc, e)
    BY <2>5, ScanSlot
  <2> HIDE DEF e
  <2> QED
    BY <2>1, <2>4, <2>6, <2>7, <2>8, WithLongIs
<1> HIDE DEF S
<1>5. l \in S
  BY <1>1, <1>3, <1>4, CountFromZero
<1> QED
  BY <1>5 DEF S

\* The short entry of a name whose slots are written together.
LEMMA TogetherCalled ==
  ASSUME WellSized, WellNamed, BegunInv, NEW t \in DirTables, NEW s \in 1..Sectors,
         NEW f, ScanIs(f, t, s), NEW k \in 0..SectorSlots - 1,
         LET e == table[t][NextSlot(s, k)] IN e.kind = "short" /\ ~e.erased /\ Together(t, e.name)
  PROVE  LET e == table[t][NextSlot(s, k)] IN Called(f[k].acc, e) = NameOf(e.name)
<1> DEFINE b == Before(s)
           p == NextSlot(s, k)
           e == table[t][p]
           n == e.name
           a == f[k].acc
           F == Fragments[n]
<1>1. LongInv /\ TablesTyped(table) /\ NamesKept(table, used)
  BY DEF BegunInv, LongInv, LongTyped
<1>2. InSector(table, used, t, s, k) /\ Reading(table, used, t, a, s, k)
  BY <1>1, ScanStep
<1>3. /\ p = b + (k + 1) /\ p \in Slots /\ p \in SlotsOf(s) /\ b \in Nat /\ k \in Nat
      /\ SectorSlots \in Nat /\ SlotsOf(s) = b + 1..b + SectorSlots
  BY <1>2, InSectorIs, SectorIs
<1>4. n \in FileNames /\ \E g \in Files : Stands(table, n, g, t, p)
  BY <1>1, <1>3, SlotOfName
<1>5. PICK g \in Files : Stands(table, n, g, t, p)
  BY <1>4
<1>6. F \in Nat /\ p \in Int /\ ~Dead(table, n)
      /\ \A i \in 1..F : p - i \in Slots /\ table[t][p - i].kind = "long" /\ table[t][p - i].name = n
  BY <1>1, <1>4, <1>5, StandsIs
<1>7. Matches(a, e) => Spelled(a.text) = LongName(n)
  BY <1>2, ReadsSpelled
<1>8. CASE F = 0
  <2>1. LongName(n) = <<>>
    BY <1>8 DEF LongName
  <2> QED
    BY <1>7, <1>8, <2>1 DEF Called, NameOf
<1>9. CASE F # 0
  <2>1. LongName(n) # <<>>
    <3>1. 1 \in DOMAIN LongName(n)
      BY <1>6, <1>9 DEF LongName
    <3> QED
      BY <3>1
  <2>2. a.active /\ a.sum = Sum[n]
    <3> HIDE DEF b, n, e, p, a
    <3>1. CASE p - F > b
      <4>1. b + k = p - 1 /\ b + k > b /\ 1 \in 1..F
        BY <1>3, <1>6, <1>9, <3>1
      <4>2. LastSeen(table, t, a, b, b + k)
        BY <1>2 DEF Reading, b
      <4> QED
        BY <1>3, <1>4, <1>5, <3>1, <4>1, <4>2 DEF LastSeen
    <3>2. CASE ~(p - F > b)
      <4>1. p - F <= b
        BY <1>3, <1>6, <3>2
      <4>2. ~\E r \in 1..Sectors :
               \A x \in Slots : table[t][x].kind # "free" /\ table[t][x].name = n => x \in SlotsOf(r)
        <5> SUFFICES ASSUME NEW r \in 1..Sectors,
                            \A x \in Slots : table[t][x].kind # "free" /\ table[t][x].name = n => x \in SlotsOf(r)
                     PROVE  FALSE
          OBVIOUS
        <5>1. table[t][p].kind # "free" /\ table[t][p].name = n
          BY DEF n, e, p
        <5>2. p \in SlotsOf(r) /\ p - F \in SlotsOf(r)
          <6>1. F \in 1..F
            BY <1>6, <1>9
          <6> QED
            BY <1>3, <1>6, <5>1, <6>1
        <5>3. r = s
          BY <1>3, <5>2, SectorsApart
        <5> QED
          BY <1>3, <4>1, <5>2, <5>3
      <4>3. begun[t] = n
        BY <4>2 DEF Together, n, e, p
      <4>4. acc[t].active /\ acc[t].sum = Sum[n]
        <5>1. n # NoName
          BY <1>4 DEF WellNamed
        <5> QED
          BY <1>6, <4>3, <5>1 DEF BegunInv, BegunKept
      <4>5. k \in 0..SectorSlots /\ b + k < p
        BY <1>3
      <4> QED
        BY <1>1, <1>4, <1>5, <4>1, <4>4, <4>5, ScanContinues DEF a, b
    <3> QED
      BY <3>1, <3>2
  <2> QED
    BY <1>7, <1>9, <2>1, <2>2 DEF Called, Matches, NameOf
<1> QED
  BY <1>8, <1>9

\* An entry the scan of a sector changed.
NamedBy(t, x) == x.deleted \/ (x.table = t /\ (Together(t, x.short) => x.called = NameOf(x.short)))
LEMMA ScanNames ==
  ASSUME WellSized, WellNamed, BegunInv, NEW t \in DirTables, NEW s \in 1..Sectors,
         NEW f, ScanIs(f, t, s), NEW x \in Files
  PROVE  f[SectorSlots].tracked[x] = tracked[x] \/ NamedBy(t, f[SectorSlots].tracked[x])
<1> DEFINE S == {k \in 0..SectorSlots : f[k].tracked[x] = tracked[x] \/ NamedBy(t, f[k].tracked[x])}
<1>1. SectorSlots \in Nat /\ LongInv
  BY SizesAre DEF BegunInv
<1>2. 0 \in S
  BY <1>1 DEF ScanIs, ScanStart
<1>3. ASSUME NEW k \in 0..SectorSlots - 1, k \in S PROVE k + 1 \in S
  <2> DEFINE e == table[t][NextSlot(s, k)]
             c == Called(f[k].acc, e)
             old == f[k].tracked[x]
             new == f[k + 1].tracked[x]
  <2>1. /\ InSector(table, used, t, s, k) /\ k + 1 \in 0..SectorSlots /\ f[k] \in Scan
        /\ f[k].tracked \in [Files -> TrackedFile]
    BY <1>1, ScanStep
  <2>2. e \in Slot
    BY <2>1, InSectorIs
  <2>3. old = tracked[x] \/ NamedBy(t, old)
    BY <1>3
  <2>4. e.kind = "short" /\ ~e.erased /\ Together(t, e.name) => c = NameOf(e.name)
    BY TogetherCalled
  <2>5. /\ e.kind \in {"free", "long"} => f[k + 1].tracked = f[k].tracked
        /\ e.kind = "short" =>
             f[k + 1].tracked = [f[k].tracked EXCEPT ![e.file] = Handled(f[k].tracked[e.file], t, e, c)]
    BY <1>1, ScanSlot
  <2> HIDE DEF e, c
  <2>6. new = old \/ NamedBy(t, new)
    <3>1. CASE e.kind \in {"free", "long"}
      BY <2>5, <3>1
    <3>2. CASE e.kind = "short"
      <4> DEFINE h == Handled(f[k].tracked[e.file], t, e, c)
      <4>1. f[k + 1].tracked = [f[k].tracked EXCEPT ![e.file] = h]
        BY <2>5, <3>2
      <4>2. new = IF x = e.file THEN h ELSE old
        <5> HIDE DEF h
        <5> QED
          BY <2>1, <4>1
      <4>3. CASE x = e.file
        <5>1. old \in TrackedFile
          BY <2>1
        <5>2. CASE e.erased
          <6>1. h = [old EXCEPT !.deleted = TRUE] \/ h = old
            BY <4>3, <5>2 DEF Handled
          <6>2. [old EXCEPT !.deleted = TRUE].deleted
            BY <5>1 DEF TrackedFile
          <6> HIDE DEF h, old, new
          <6> QED
            BY <4>2, <4>3, <6>1, <6>2 DEF NamedBy
        <5>3. CASE ~e.erased
          <6>1. h = old \/ h = [table |-> t, short |-> e.name, called |-> c, deleted |-> FALSE]
            BY <4>3, <5>3 DEF Handled
          <6> HIDE DEF h, old, new
          <6> QED
            BY <2>4, <3>2, <4>2, <4>3, <5>3, <6>1 DEF NamedBy
        <5> QED
          BY <5>2, <5>3
      <4> QED
        BY <4>2, <4>3
    <3> QED
      BY <2>2, <3>1, <3>2, SlotKinds
  <2> QED
    BY <2>1, <2>3, <2>6
<1> HIDE DEF S
<1>4. 0..SectorSlots \subseteq S
  BY <1>1, <1>2, <1>3, CountFromZero
<1>5. SectorSlots \in S
  BY <1>1, <1>4
<1> QED
  BY <1>5 DEF S

LEMMA SectorKeepsBegun ==
  ASSUME WellSized, WellNamed, BegunInv, NEW t \in DirTables, NEW s \in 1..Sectors, WriteSector(t, s)
  PROVE  /\ BegunInv'
         /\ \A x \in Files : tracked'[x] = tracked[x] \/ NamedBy(t, tracked'[x])
<1>0. LongInv /\ LongInv' /\ acc \in [DirTables -> Accumulator] /\ begun \in [DirTables -> FileNames \cup {NoName}]
  BY SectorKeepsNames DEF BegunInv, LongInv, LongTyped
<1>1. PICK f : ScanIs(f, t, s)
  BY <1>0, ScanRight
<1> DEFINE end == f[SectorSlots]
           now == IF Quiet(t, s) THEN begun[t] ELSE Begins(t, s)
<1>2. /\ acc' = [acc EXCEPT ![t] = end.acc] /\ tracked' = end.tracked /\ table' = table /\ used' = used
      /\ begun' = [begun EXCEPT ![t] = now]
  BY <1>1 DEF ScanIs, WriteSector, AccOf
<1>3. \A x \in Files : tracked'[x] = tracked[x] \/ NamedBy(t, tracked'[x])
  BY <1>1, <1>2, ScanNames
<1>4. \/ now = NoName
      \/ now \in used /\ now \in FileNames /\ (Dead(table, now) \/ (end.acc.active /\ end.acc.sum = Sum[now]))
  <2>1. CASE Quiet(t, s)
    <3>1. end.acc = acc[t]
      BY <1>0, <1>1, <2>1, ScanQuiet
    <3>2. begun[t] = NoName \/ BegunKept(table, used, t, begun[t])
      BY DEF BegunInv
    <3> HIDE DEF end
    <3> QED
      BY <2>1, <3>1, <3>2 DEF BegunKept
  <2>2. CASE ~Quiet(t, s)
    <3>1. now = Begins(t, s)
      BY <2>2
    <3> QED
      BY <1>0, <1>1, <3>1, ScanBegun
  <2> QED
    BY <2>1, <2>2
<1> HIDE DEF end, now
<1>5. begun' \in [DirTables -> FileNames \cup {NoName}]
  BY <1>0, <1>2, <1>4
<1>6. ASSUME NEW v \in DirTables
      PROVE  begun'[v] = NoName \/ (BegunKept(table, used, v, begun[v]))'
  <2>1. /\ acc'[v] = IF v = t THEN end.acc ELSE acc[v]
        /\ begun'[v] = IF v = t THEN now ELSE begun[v]
    BY <1>0, <1>2
  <2>2. begun[v] = NoName \/ BegunKept(table, used, v, begun[v])
    BY DEF BegunInv
  <2>3. CASE v = t
    BY <1>2, <1>4, <2>1, <2>3 DEF BegunKept, Dead
  <2>4. CASE v # t
    BY <1>2, <2>1, <2>2, <2>4 DEF BegunKept, Dead
  <2> QED
    BY <2>3, <2>4
<1>7. BegunInv'
  BY <1>0, <1>5, <1>6 DEF BegunInv
<1> QED
  BY <1>3, <1>7

LEMMA BegunStep ==
  ASSUME WellSized, WellNamed, ~Again, BegunInv, [LongNext]_longVars
  PROVE  /\ BegunInv'
         /\ \/ tracked' = tracked
            \/ \E t \in DirTables : \A x \in Files : tracked'[x] = tracked[x] \/ NamedBy(t, tracked'[x])
<1>0. LongInv /\ LongInv'
  BY LongStep DEF BegunInv
<1>1. ASSUME NEW t \in DirTables, NEW s \in 1..Sectors, WriteSector(t, s)
      PROVE  BegunInv' /\ \A x \in Files : tracked'[x] = tracked[x] \/ NamedBy(t, tracked'[x])
  BY <1>1, SectorKeepsBegun
<1>2. CASE HostStep
  <2>1. Editing /\ used \subseteq used' /\ DeadKept(table, table', used)
    BY <1>0, <1>2, EditIs
  <2>2. acc' = acc /\ tracked' = tracked /\ begun' = begun
    BY <2>1 DEF Editing
  <2>3. ASSUME NEW v \in DirTables
        PROVE  begun'[v] = NoName \/ (BegunKept(table, used, v, begun[v]))'
    <3>1. begun[v] = NoName \/ BegunKept(table, used, v, begun[v])
      BY DEF BegunInv
    <3>2. BegunKept(table, used, v, begun[v]) => (BegunKept(table, used, v, begun[v]))'
      BY <2>1, <2>2 DEF BegunKept, DeadKept, Dead
    <3> QED
      BY <2>2, <3>1, <3>2
  <2> QED
    BY <1>0, <2>2, <2>3 DEF BegunInv
<1>3. CASE UNCHANGED longVars
  <2>1. table' = table /\ acc' = acc /\ tracked' = tracked /\ used' = used /\ begun' = begun
    BY <1>3 DEF longVars
  <2> QED
    BY <1>0, <2>1 DEF BegunInv, BegunKept, Dead
<1> QED
  BY <1>1, <1>2, <1>3 DEF LongNext, HostStep

\* A file is called by its long name whenever its group comes in one sector, or in two
\* written one after the other as far as its table goes (fatfs_scan_dir_table_write,
\* whose accumulator outlives the sector), as long as the host uses no name twice.
THEOREM LongNamesKept ==
  ASSUME ~Again
  PROVE  LongSpec => LongNameKept
<1>1. LongInit => BegunInv
  <2> SUFFICES ASSUME LongInit PROVE BegunInv
    OBVIOUS
  <2>1. begun = [t \in DirTables |-> NoName]
    BY DEF LongInit
  <2> QED
    BY <2>1, TablesAssumption, FileNamesAssumption, LongInitially DEF BegunInv
<1>2. BegunInv /\ [LongNext]_longVars => BegunInv'
  BY TablesAssumption, FileNamesAssumption, BegunStep
<1>3. BegunInv /\ [LongNext]_longVars => [WholeNames]_longVars
  BY TablesAssumption, FileNamesAssumption, BegunStep DEF NamedBy, WholeNames
<1> QED
  BY <1>1, <1>2, <1>3, PTL DEF LongSpec, LongNameKept
=============================================================================
