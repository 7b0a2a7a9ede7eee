--------------------------- MODULE StagingProofs ---------------------------
(***************************************************************************)
(* Proofs about Staging, for every number of slots and clusters, every     *)
(* RAM budget and every FAT.                                               *)
(***************************************************************************)
EXTENDS Staging, TLAPS, FiniteSetTheorems, WellFoundedInduction

----------------------------------------------------------------------------
(* Arithmetic of chain positions and buffer capacities *)

\* A sector of a chain position the code may compute lies in the file.
LEMMA OffsetInPositions ==
  ASSUME NEW p \in ChainPositions, NEW s \in Sectors
  PROVE  p * ClusterSectors + s \in Positions
<1> DEFINE N == Cardinality(Clusters)
<1>a. IsFiniteSet(Clusters)
  BY ClustersAssumption
<1>1. N \in Nat
  BY <1>a, FS_CardinalityType, Zenon
<1>2. ClusterSectors \in Nat /\ p \in Nat /\ s \in Nat /\ p + 1 <= N /\ s + 1 <= ClusterSectors
  BY <1>1, SlotsAssumption DEF ChainPositions, Sectors
<1>3. (p + 1) * ClusterSectors <= N * ClusterSectors
  BY <1>1, <1>2
<1>4. (p + 1) * ClusterSectors = p * ClusterSectors + ClusterSectors
  BY <1>2
<1>5. p * ClusterSectors \in Nat /\ N * ClusterSectors \in Nat
  BY <1>1, <1>2
<1> HIDE DEF N
<1>6. p * ClusterSectors + s \in 0 .. N * ClusterSectors - 1
  BY <1>2, <1>3, <1>4, <1>5
<1> QED
  BY <1>6 DEF N, Positions

\* Growing a buffer for a sector within the slot's budget makes room for it.
LEMMA GrownCapFits ==
  ASSUME NEW needed \in 1 .. SlotCap
  PROVE  GrownCap(needed) \in 1 .. SlotCap /\ GrownCap(needed) >= needed
<1> DEFINE T == {n \in CapSteps : n >= needed}
<1>1. CapSteps \subseteq 1 .. SlotCap /\ SlotCap \in CapSteps
  BY CapsAssumption DEF CapSteps
<1>2. T \subseteq Nat /\ T # {}
  <2>1. SlotCap \in Nat /\ SlotCap >= needed
    BY CapsAssumption
  <2>2. SlotCap \in T
    BY <1>1, <2>1
  <2>3. CapSteps \subseteq Nat
    BY <1>1, <2>1
  <2> QED
    BY <2>2, <2>3
<1>3. PICK n \in T : \A m \in T : ~(<<m, n>> \in OpToRel(<, Nat))
  BY <1>2, NatLessThanWellFounded, WFMin
<1>4. \A m \in T : n <= m
  <2> SUFFICES ASSUME NEW m \in T, ~(n <= m) PROVE FALSE
    OBVIOUS
  <2>1. m \in Nat /\ n \in Nat
    BY <1>2
  <2>2. <<m, n>> \in OpToRel(<, Nat)
    BY <2>1 DEF OpToRel
  <2> QED
    BY <1>3, <2>2
<1>5. n \in CapSteps /\ n >= needed /\ \A m \in CapSteps : m >= needed => n <= m
  BY <1>3, <1>4
<1>6. GrownCap(needed) \in CapSteps /\ GrownCap(needed) >= needed
  BY <1>5 DEF GrownCap
<1> QED
  BY <1>1, <1>6

----------------------------------------------------------------------------
(* Contents *)

\* Updating a function keeps its type.
LEMMA UpdateType ==
  ASSUME NEW S, NEW T, NEW f \in [S -> T], NEW i, NEW x \in T
  PROVE  [f EXCEPT ![i] = x] \in [S -> T]
OBVIOUS

\* The contents the model builds are contents.
LEMMA ContentTypes ==
  /\ Blanks \in Content
  /\ \A f, g \in Content : Overlay(f, g) \in Content
  /\ \A f \in Content, n \in Int : Cut(f, n) \in Content
  /\ \A f \in Content, whole \in BOOLEAN : Written(f, whole) \in Content
  /\ \A f \in Content, off \in Positions, v \in Values : [f EXCEPT ![off] = v] \in Content
<1>1. Blanks \in Content
  BY DEF Blanks, Content
<1>2. \A f, g \in Content : Overlay(f, g) \in Content
  BY DEF Overlay, Content
<1>3. \A f \in Content, n \in Int : Cut(f, n) \in Content
  BY DEF Cut, Content
<1>4. \A f \in Content, whole \in BOOLEAN : Written(f, whole) \in Content
  BY <1>1 DEF Written
<1>5. \A f \in Content, off \in Positions, v \in Values : [f EXCEPT ![off] = v] \in Content
  BY DEF Content
<1> QED
  BY <1>1, <1>2, <1>3, <1>4, <1>5

\* The constant records have their types.
LEMMA ConstantTypes ==
  /\ Idle \in Slot
  /\ \A c \in Clusters : NewSlot(c) \in Slot /\ NewSlot(c).start = c
  /\ NoHandle \in Handle
  /\ Absent \in File
  /\ NoSave \in Outcome
<1>1. Idle \in Slot
  BY ContentTypes, CapsAssumption DEF Idle, Slot
<1>2. \A c \in Clusters : NewSlot(c) \in Slot /\ NewSlot(c).start = c
  BY <1>1 DEF NewSlot, Idle, Slot
<1>3. NoHandle \in Handle
  BY ContentTypes DEF NoHandle, Handle
<1>4. Absent \in File
  BY ContentTypes DEF Absent, File
<1>5. NoSave \in Outcome
  BY ContentTypes DEF NoSave, Outcome
<1> QED
  BY <1>1, <1>2, <1>3, <1>4, <1>5

\* Closing a handle and spilling a slot write contents to staging files.
LEMMA DiskTypes ==
  ASSUME TypeOK, NEW stg \in [Clusters -> File]
  PROVE  /\ \A ch \in Handle, whole \in BOOLEAN : Closed(stg, ch, whole) \in [Clusters -> File]
         /\ \A r \in Slot, opened, whole \in BOOLEAN :
              Spilt(stg, r, opened, whole) \in [Clusters -> File]
         /\ \A c : Removed(stg, c) \in [Clusters -> File]
<1>1. ASSUME NEW ch \in Handle, NEW whole \in BOOLEAN
      PROVE  Closed(stg, ch, whole) \in [Clusters -> File]
  <2> DEFINE c == pending[ch.slot].start
             d == Overlay(stg[c].data, Written(ch.held, whole))
  <2>1. CASE ch.slot = NoSlot \/ ~stg[c].exists
    BY <2>1 DEF Closed
  <2>2. CASE ~(ch.slot = NoSlot \/ ~stg[c].exists)
    <3>1. Closed(stg, ch, whole) = [stg EXCEPT ![c].data = d]
      BY <2>2 DEF Closed
    <3>2. ch.held \in Content
      BY DEF Handle
    <3>3. c \in Clusters => d \in Content
      BY <3>2, ContentTypes DEF File
    <3> QED
      BY <3>1, <3>3 DEF File
  <2> QED
    BY <2>1, <2>2
<1>2. ASSUME NEW r \in Slot, NEW opened \in BOOLEAN, NEW whole \in BOOLEAN
      PROVE  Spilt(stg, r, opened, whole) \in [Clusters -> File]
  <2>1. Written(r.ram, whole) \in Content
    BY ContentTypes DEF Slot
  <2> QED
    BY <2>1 DEF Spilt, File
<1>3. \A c : Removed(stg, c) \in [Clusters -> File]
  BY ConstantTypes DEF Removed
<1> QED
  BY <1>1, <1>2, <1>3

----------------------------------------------------------------------------
(* Type correctness *)

\* What routing hands to PutSector: the slot's record, the RAM total, the
\* staging files and the handle, all of their types.
Routed(i, r, stg, ch, before, unwarned, total) ==
  /\ i \in Slots
  /\ r \in Slot /\ r.start \in Clusters
  /\ total \in Int
  /\ stg \in [Clusters -> File]
  /\ ch \in Handle
  /\ before \in Content
  /\ unwarned \in SUBSET Slots


\* The records a write stores have their types.
LEMMA SlotTypes ==
  ASSUME NEW r \in Slot, NEW off \in Positions, NEW v \in Values
  PROVE  /\ \A cap \in 1 .. SlotCap : RamSlot(r, cap, off, v) \in Slot
         /\ SpiltSlot(r) \in Slot
         /\ DiskSlot(r, off) \in Slot
<1>1. off + 1 \in Nat /\ \A n \in Nat : LargerOf(n, off + 1) \in Nat
  BY DEF Positions, LargerOf
<1>2. [r.ram EXCEPT ![off] = v] \in Content
  BY DEF Slot, Content
<1>3. Blanks \in Content /\ 0 \in 0 .. SlotCap
  BY ContentTypes, CapsAssumption
<1>4. ASSUME NEW cap \in 1 .. SlotCap
      PROVE  RamSlot(r, cap, off, v) \in Slot
  <2>1. cap \in 0 .. SlotCap
    BY CapsAssumption
  <2>2. LargerOf(r.size, off + 1) \in Nat
    BY <1>1 DEF Slot
  <2> QED
    BY <1>2, <2>1, <2>2 DEF RamSlot, Slot
<1>5. SpiltSlot(r) \in Slot
  BY <1>3 DEF SpiltSlot, Slot
<1>6. DiskSlot(r, off) \in Slot
  <2>1. LargerOf(SpiltSlot(r).size, off + 1) \in Nat
    BY <1>1, <1>5 DEF Slot
  <2> QED
    BY <1>5, <2>1 DEF DiskSlot, Slot
<1> QED
  BY <1>4, <1>5, <1>6

\* Storing a sector does not move a slot, nor free it.
LEMMA SlotFields ==
  ASSUME NEW r \in Slot, NEW off, NEW v, NEW cap
  PROVE  /\ RamSlot(r, cap, off, v).start = r.start /\ RamSlot(r, cap, off, v).used = r.used
         /\ RamSlot(r, cap, off, v).spilled = r.spilled /\ RamSlot(r, cap, off, v).cap = cap
         /\ RamSlot(r, cap, off, v).ram = [r.ram EXCEPT ![off] = v]
         /\ RamSlot(r, cap, off, v).size = LargerOf(r.size, off + 1)
         /\ SpiltSlot(r).start = r.start /\ SpiltSlot(r).used = r.used
         /\ SpiltSlot(r).spilled = TRUE /\ SpiltSlot(r).cap = 0
         /\ SpiltSlot(r).ram = Blanks /\ SpiltSlot(r).size = r.size
         /\ DiskSlot(r, off).start = r.start /\ DiskSlot(r, off).used = r.used
         /\ DiskSlot(r, off).spilled = TRUE /\ DiskSlot(r, off).cap = 0
         /\ DiskSlot(r, off).ram = Blanks /\ DiskSlot(r, off).size = LargerOf(r.size, off + 1)
BY DEF Slot, RamSlot, SpiltSlot, DiskSlot

\* The handle keeps its type when it is made ready and when it is written.
LEMMA HandleTypes ==
  ASSUME NEW ch \in Handle, NEW i \in Slots, NEW off \in Positions, NEW v \in Values
  PROVE  /\ HandlePut(ch, off, v) \in Handle
         /\ \A r, disk, opened : HandleFor(i, r, disk, ch, opened) \in Handle
<1> DEFINE at == IF ch.pos = off THEN ch.at ELSE off
<1>1. at \in Nat /\ off + 1 \in Nat
  BY DEF Handle, Positions
<1>2. [ch.held EXCEPT ![at] = v] \in Content
  BY DEF Handle, Content
<1>3. ch.slot \in Slots \cup {NoSlot}
  BY DEF Handle
<1>4. HandlePut(ch, off, v) \in Handle
  BY <1>1, <1>2, <1>3 DEF HandlePut, Handle
<1>5. [NoHandle EXCEPT !.slot = i] \in Handle
  BY ConstantTypes DEF Handle
<1>6. \A r, disk, opened : HandleFor(i, r, disk, ch, opened) \in Handle
  BY <1>5, ConstantTypes DEF HandleFor
<1> QED
  BY <1>4, <1>6

\* Only slot i changes, to x: what an update of one slot means for each slot.
LEMMA SlotUpdate ==
  ASSUME TypeOK, NEW i \in Slots, NEW x, pending' = [pending EXCEPT ![i] = x]
  PROVE  \A j \in Slots : pending'[j] = IF j = i THEN x ELSE pending[j]
<1>1. pending \in [Slots -> Slot]
  BY DEF TypeOK
<1> QED
  BY <1>1

\* Storing a sector in a slot the routing made ready preserves the types.
LEMMA PutSectorTypes ==
  ASSUME TypeOK, NEW i, NEW r, NEW p \in ChainPositions, NEW s \in Sectors, NEW v \in Values,
         NEW total, NEW stg, NEW ch, NEW before, NEW unwarned,
         Routed(i, r, stg, ch, before, unwarned, total),
         PutSector(i, r, p, s, v, total, stg, ch, before, unwarned),
         evictNext' \in Slots, UNCHANGED fat
  PROVE  TypeOK'
<1> DEFINE off == p * ClusterSectors + s
<1>0. /\ i \in Slots /\ r \in Slot /\ total \in Int /\ stg \in [Clusters -> File]
      /\ ch \in Handle /\ before \in Content /\ unwarned \in SUBSET Slots
      /\ r.cap \in Int /\ r.start \in Clusters
  BY CapsAssumption DEF Routed, Slot
<1>1. off \in Positions /\ off \in Nat
  BY OffsetInPositions DEF Positions
<1>2. /\ sent' = [sent EXCEPT ![i] = [before EXCEPT ![off] = v]]
      /\ saved' = NoSave
      /\ \/ /\ PutInRam(i, r, off, v, total)
            /\ stage' = stg
            /\ cache' = ch
            /\ warned' = unwarned
         \/ /\ PutOnDisk(i, r, off, v, total, stg, ch)
            /\ warned' = IF cache'.slot = i THEN unwarned ELSE unwarned \cup {i}
  BY DEF PutSector
<1> HIDE DEF off
<1>3. /\ pending \in [Slots -> Slot] /\ sent \in [Slots -> Content]
      /\ fat' \in [Clusters -> FatValues]
  BY DEF TypeOK
<1>4. [before EXCEPT ![off] = v] \in Content
  BY <1>0, <1>1, ContentTypes
<1>5. sent' \in [Slots -> Content] /\ saved' \in Outcome
  <2>1. [sent EXCEPT ![i] = [before EXCEPT ![off] = v]] \in [Slots -> Content]
    BY <1>3, <1>4, UpdateType
  <2> QED
    BY <1>2, <2>1, ConstantTypes
<1>6. warned' \in SUBSET Slots
  BY <1>0, <1>2
<1>7. /\ pending' \in [Slots -> Slot] /\ ramTotal' \in Int
      /\ stage' \in [Clusters -> File] /\ cache' \in Handle
  <2>1. CASE PutInRam(i, r, off, v, total) /\ stage' = stg /\ cache' = ch
    <3>1. PICK cap \in 1 .. SlotCap :
            /\ pending' = [pending EXCEPT ![i] = RamSlot(r, cap, off, v)]
            /\ ramTotal' = total + (cap - r.cap)
      BY <2>1 DEF PutInRam
    <3>2. RamSlot(r, cap, off, v) \in Slot
      BY <1>0, <1>1, SlotTypes
    <3>3. [pending EXCEPT ![i] = RamSlot(r, cap, off, v)] \in [Slots -> Slot]
      BY <1>3, <3>2, UpdateType
    <3>4. pending' \in [Slots -> Slot]
      BY <3>1, <3>3
    <3> QED
      BY <1>0, <2>1, <3>1, <3>4
  <2>2. CASE PutOnDisk(i, r, off, v, total, stg, ch)
    <3>1. stage' \in [Clusters -> File]
      <4>1. PICK made \in BOOLEAN, whole \in BOOLEAN :
              stage' = DiskFor(i, r, stg, ch, made, whole)
        BY <2>2 DEF PutOnDisk, Outcomes
      <4>2. Spilt(stg, r, made, whole) \in [Clusters -> File]
        BY <1>0, DiskTypes
      <4>3. Closed(Spilt(stg, r, made, whole), ch, whole) \in [Clusters -> File]
        BY <1>0, <4>2, DiskTypes
      <4> QED
        BY <4>1, <4>2, <4>3 DEF DiskFor
    <3>2. PICK opened \in BOOLEAN :
            LET h == HandleFor(i, r, stage', ch, opened) IN
            \/ /\ h.slot = i
               /\ cache' = HandlePut(h, off, v)
               /\ pending' = [pending EXCEPT ![i] = DiskSlot(r, off)]
            \/ /\ h.slot # i
               /\ cache' = h
               /\ pending' = [pending EXCEPT ![i] = SpiltSlot(r)]
      BY <2>2 DEF PutOnDisk, Outcomes
    <3> DEFINE h == HandleFor(i, r, stage', ch, opened)
    <3>3. h \in Handle
      BY <1>0, <1>1, HandleTypes
    <3> HIDE DEF h
    <3>4. HandlePut(h, off, v) \in Handle
      BY <1>0, <1>1, <3>3, HandleTypes
    <3>5. cache' \in Handle
      BY <3>2, <3>3, <3>4 DEF h
    <3>6. pending' \in [Slots -> Slot]
      <4>1. DiskSlot(r, off) \in Slot /\ SpiltSlot(r) \in Slot
        BY <1>0, <1>1, SlotTypes
      <4>2. /\ [pending EXCEPT ![i] = DiskSlot(r, off)] \in [Slots -> Slot]
            /\ [pending EXCEPT ![i] = SpiltSlot(r)] \in [Slots -> Slot]
        BY <1>3, <4>1, UpdateType
      <4> QED
        BY <3>2, <4>2
    <3>7. ramTotal' \in Int
      BY <1>0, <2>2 DEF PutOnDisk
    <3> QED
      BY <3>1, <3>5, <3>6, <3>7
  <2> QED
    BY <1>2, <2>1, <2>2
<1>8. \A j \in Slots : pending'[j].used => pending'[j].start \in Clusters
  <2>1. CASE PutInRam(i, r, off, v, total)
    <3>1. PICK cap : pending' = [pending EXCEPT ![i] = RamSlot(r, cap, off, v)]
      BY <2>1 DEF PutInRam
    <3>a. RamSlot(r, cap, off, v).start = r.start
      BY <1>0 DEF RamSlot, Slot
    <3>2. RamSlot(r, cap, off, v).start \in Clusters
      BY <1>0, <3>a
    <3>3. \A j \in Slots : pending'[j] = IF j = i THEN RamSlot(r, cap, off, v) ELSE pending[j]
      BY <1>0, <3>1, SlotUpdate
    <3>4. \A j \in Slots : pending[j].used => pending[j].start \in Clusters
      BY DEF TypeOK
    <3> QED
      BY <3>2, <3>3, <3>4
  <2>2. CASE PutOnDisk(i, r, off, v, total, stg, ch)
    <3>1. \/ pending' = [pending EXCEPT ![i] = DiskSlot(r, off)]
          \/ pending' = [pending EXCEPT ![i] = SpiltSlot(r)]
      BY <2>2 DEF PutOnDisk
    <3>2. DiskSlot(r, off).start \in Clusters /\ SpiltSlot(r).start \in Clusters
      BY <1>0, SlotFields
    <3>3. \/ \A j \in Slots : pending'[j] = IF j = i THEN DiskSlot(r, off) ELSE pending[j]
          \/ \A j \in Slots : pending'[j] = IF j = i THEN SpiltSlot(r) ELSE pending[j]
      BY <1>0, <3>1, SlotUpdate
    <3>4. \A j \in Slots : pending[j].used => pending[j].start \in Clusters
      BY DEF TypeOK
    <3> QED
      BY <3>2, <3>3, <3>4
  <2> QED
    BY <1>2, <2>1, <2>2
<1> QED
  BY <1>3, <1>5, <1>6, <1>7, <1>8 DEF TypeOK

\* The record routing gives the slot of a known cluster.
LEMMA AdvancedType ==
  ASSUME TypeOK, NEW i \in Slots, NEW c \in Clusters
  PROVE  /\ Advanced(i, c) \in Slot
         /\ Advanced(i, c).start = pending[i].start
         /\ Advanced(i, c).cap = pending[i].cap
         /\ Advanced(i, c).ram = pending[i].ram
         /\ Advanced(i, c).size = pending[i].size
         /\ Advanced(i, c).spilled = pending[i].spilled
         /\ Advanced(i, c).used = pending[i].used
<1>1. pending[i] \in Slot
  BY DEF TypeOK
<1>2. CASE c = pending[i].last + 1
  <2> DEFINE r == pending[i]
  <2>1. r.count + 1 \in Nat /\ c \in Clusters \cup {0}
    BY <1>1 DEF Slot
  <2>2. Advanced(i, c) = [r EXCEPT !.last = c, !.count = r.count + 1]
    BY <1>1, <1>2 DEF Advanced, Slot
  <2> HIDE DEF r
  <2>3. r \in Slot
    BY <1>1 DEF r
  <2> QED
    BY <2>1, <2>2, <2>3 DEF Slot, r
<1>3. CASE c # pending[i].last + 1
  BY <1>1, <1>3 DEF Advanced
<1> QED
  BY <1>2, <1>3

\* A slot that already holds the cluster is ready for its sector.
LEMMA RoutedMatched ==
  ASSUME TypeOK, NEW i \in Slots, NEW c \in Clusters, LocatePending(i, c)
  PROVE  Routed(i, Advanced(i, c), stage, cache, sent[i], warned, ramTotal)
<1>1. pending[i].used /\ pending[i].start \in Clusters
  BY DEF LocatePending, Holds, TypeOK
<1>2. Advanced(i, c) \in Slot /\ Advanced(i, c).start \in Clusters
  BY <1>1, AdvancedType
<1> QED
  BY <1>2 DEF Routed, TypeOK

\* So is a free slot given to a new cluster.
LEMMA RoutedFresh ==
  ASSUME TypeOK, NEW i \in Slots, NEW c \in Clusters
  PROVE  Routed(i, NewSlot(c), stage, cache, Blanks, warned \ {i}, ramTotal)
<1>1. NewSlot(c) \in Slot /\ NewSlot(c).start = c /\ Blanks \in Content
  BY ConstantTypes, ContentTypes
<1> QED
  BY <1>1 DEF Routed, TypeOK

\* So is an evicted slot given to a new cluster.
LEMMA RoutedEvicting ==
  ASSUME TypeOK, NEW i \in Slots, NEW c \in Clusters
  PROVE  Routed(i, NewSlot(c), Removed(stage, pending[i].start), Invalidated(i),
                Blanks, warned \ {i}, ramTotal - pending[i].cap)
<1>1. NewSlot(c) \in Slot /\ NewSlot(c).start = c /\ Blanks \in Content
  BY ConstantTypes, ContentTypes
<1>2. Removed(stage, pending[i].start) \in [Clusters -> File]
  BY DiskTypes DEF TypeOK
<1>3. Invalidated(i) \in Handle
  BY ConstantTypes DEF Invalidated, TypeOK
<1>4. ramTotal - pending[i].cap \in Int
  BY CapsAssumption DEF TypeOK, Slot
<1>5. warned \ {i} \in SUBSET Slots
  BY DEF TypeOK
<1> QED
  BY <1>1, <1>2, <1>3, <1>4, <1>5 DEF Routed

\* Giving up a slot preserves the types of what it changes.
LEMMA DroppedTypes ==
  ASSUME TypeOK, NEW i \in Slots, Dropped(i)
  PROVE  /\ pending' \in [Slots -> Slot] /\ ramTotal' \in Int /\ cache' \in Handle
         /\ warned' \in SUBSET Slots /\ sent' \in [Slots -> Content]
         /\ \A j \in Slots : pending'[j].used => pending'[j].start \in Clusters
<1>1. pending \in [Slots -> Slot] /\ sent \in [Slots -> Content] /\ ramTotal \in Int
      /\ cache \in Handle /\ warned \in SUBSET Slots
  BY DEF TypeOK
<1>2. [pending EXCEPT ![i] = Idle] \in [Slots -> Slot]
  BY <1>1, ConstantTypes, UpdateType
<1>3. [sent EXCEPT ![i] = Blanks] \in [Slots -> Content]
  BY <1>1, ContentTypes, UpdateType
<1>4. pending[i].cap \in Int
  BY <1>1, CapsAssumption DEF Slot
<1>5. cache' \in Handle
  BY <1>1, ConstantTypes DEF Dropped, Invalidated
<1>6. \A j \in Slots : pending'[j].used => pending'[j].start \in Clusters
  BY <1>1 DEF Dropped, Idle, TypeOK
<1> QED
  BY <1>1, <1>2, <1>3, <1>4, <1>5, <1>6 DEF Dropped

\* A claim leaves staging files and an outcome of their types.
LEMMA ClaimedTypes ==
  ASSUME TypeOK, NEW i \in Slots, NEW d \in Declared, Claimed(i, d)
  PROVE  stage' \in [Clusters -> File] /\ saved' \in Outcome
<1>1. PICK whole \in BOOLEAN, writable \in BOOLEAN :
        /\ stage' = ClaimedStage(i, whole)
        /\ saved' = ClaimOutcome(i, d, whole, writable)
  BY DEF Claimed, Outcomes
<1>2. /\ pending[i] \in Slot /\ sent[i] \in Content /\ stage \in [Clusters -> File]
      /\ cache \in Handle
  BY DEF TypeOK
<1>3. InvalidatedStage(i, whole) \in [Clusters -> File]
  BY <1>2, DiskTypes DEF InvalidatedStage
<1>4. ClaimedStage(i, whole) \in [Clusters -> File]
  BY <1>3, DiskTypes DEF ClaimedStage
<1>5. /\ ClaimedData(i, whole) \in Content
  <2>1. pending[i].ram \in Content
    BY <1>2 DEF Slot
  <2>2. CASE pending[i].spilled
    <3>1. pending[i].start \in Clusters
      BY DEF Claimed, TypeOK
    <3> QED
      BY <1>3, <2>2, <3>1, ContentTypes DEF ClaimedData, File
  <2> QED
    BY <2>1, <2>2, ContentTypes DEF ClaimedData
<1>6. FinalSize(i, d) \in Int /\ d \in Int
  BY <1>2, DeclaredAssumption DEF FinalSize, Slot
<1>7. ClaimOutcome(i, d, whole, writable) \in Outcome
  <2>1. /\ Cut(ClaimedData(i, whole), FinalSize(i, d)) \in Content
        /\ Cut(sent[i], d) \in Content /\ Blanks \in Content
    BY <1>2, <1>5, <1>6, ContentTypes
  <2> QED
    BY <1>2, <2>1 DEF ClaimOutcome, Outcome
<1> QED
  BY <1>1, <1>4, <1>7

\* The volume has a first position when it has a cluster.
LEMMA FirstPosition ==
  ASSUME NEW c \in Clusters
  PROVE  0 \in ChainPositions
<1>a. IsFiniteSet(Clusters)
  BY ClustersAssumption
<1>1. IsFiniteSet(Clusters) /\ Clusters # {}
  BY <1>a
<1>2. Cardinality(Clusters) \in Nat /\ Cardinality(Clusters) # 0
  BY <1>1, FS_CardinalityType, FS_EmptySet
<1> QED
  BY <1>2 DEF ChainPositions

\* The RAM held is finite.
LEMMA RamUnitsFinite == IsFiniteSet(RamUnits)
<1>1. IsFiniteSet(Slots) /\ IsFiniteSet(0 .. SlotCap - 1)
  BY SlotsAssumption, CapsAssumption, FS_Interval DEF Slots
<1>2. IsFiniteSet(Slots \X (0 .. SlotCap - 1))
  BY <1>1, FS_Product
<1>3. RamUnits \subseteq Slots \X (0 .. SlotCap - 1)
  BY DEF RamUnits
<1> QED
  BY <1>2, <1>3, FS_Subset

\* The initial state is well typed.
LEMMA InitTypes == Init => TypeOK
<1> SUFFICES ASSUME Init PROVE TypeOK
  OBVIOUS
<1>1. pending \in [Slots -> Slot] /\ stage \in [Clusters -> File] /\ sent \in [Slots -> Content]
  BY ConstantTypes, ContentTypes DEF Init
<1>2. cache \in Handle /\ saved \in Outcome /\ warned \in SUBSET Slots
  BY ConstantTypes DEF Init
<1>3. ramTotal \in Int /\ evictNext \in Slots
  BY SlotsAssumption DEF Init, Slots
<1>4. fat \in [Clusters -> FatValues]
  BY DEF Init, FatValues
<1>5. \A i \in Slots : ~pending[i].used
  BY DEF Init, Idle
<1> QED
  BY <1>1, <1>2, <1>3, <1>4, <1>5 DEF TypeOK

\* Every step preserves the types.
LEMMA StepTypes == TypeOK /\ [Next]_vars => TypeOK'
<1> SUFFICES ASSUME TypeOK, [Next]_vars PROVE TypeOK'
  OBVIOUS
<1>0. evictNext \in Slots /\ (evictNext + 1) % MaxPending \in Slots
  BY SlotsAssumption DEF TypeOK, Slots
<1>1. ASSUME NEW c \in Clusters, NEW s \in Sectors, NEW v \in Values, WriteMatched(c, s, v)
      PROVE  TypeOK'
  <2>1. PICK i \in Slots, p \in ChainPositions :
          /\ LocatePending(i, c)
          /\ PutSector(i, Advanced(i, c), p, s, v, ramTotal, stage, cache, sent[i], warned)
          /\ UNCHANGED <<evictNext, fat>>
    BY <1>1 DEF WriteMatched
  <2>2. Routed(i, Advanced(i, c), stage, cache, sent[i], warned, ramTotal)
    BY <2>1, RoutedMatched
  <2> QED
    BY <1>0, <2>1, <2>2, PutSectorTypes
<1>2. ASSUME NEW c \in Clusters, NEW s \in Sectors, NEW v \in Values, WriteFresh(c, s, v)
      PROVE  TypeOK'
  <2>1. PICK i \in Slots :
          PutSector(i, NewSlot(c), 0, s, v, ramTotal, stage, cache, Blanks, warned \ {i})
    BY <1>2 DEF WriteFresh
  <2>2. UNCHANGED <<evictNext, fat>>
    BY <1>2 DEF WriteFresh
  <2>3. Routed(i, NewSlot(c), stage, cache, Blanks, warned \ {i}, ramTotal)
    BY RoutedFresh
  <2> QED
    BY <1>0, <2>1, <2>2, <2>3, FirstPosition, PutSectorTypes
<1>3. ASSUME NEW c \in Clusters, NEW s \in Sectors, NEW v \in Values, WriteEvicting(c, s, v)
      PROVE  TypeOK'
  <2> DEFINE i == evictNext
  <2>1. PutSector(i, NewSlot(c), 0, s, v, ramTotal - pending[i].cap,
                  Removed(stage, pending[i].start), Invalidated(i), Blanks, warned \ {i})
    BY <1>3 DEF WriteEvicting
  <2>2. evictNext' \in Slots /\ UNCHANGED fat
    BY <1>0, <1>3 DEF WriteEvicting, NextVictim
  <2>3. Routed(i, NewSlot(c), Removed(stage, pending[i].start), Invalidated(i),
               Blanks, warned \ {i}, ramTotal - pending[i].cap)
    BY <1>0, RoutedEvicting
  <2> QED
    BY <2>1, <2>2, <2>3, FirstPosition, PutSectorTypes
<1>4. ASSUME NEW w \in FatWrites, WriteFat(w[1], w[2])
      PROVE  TypeOK'
  <2>1. w[2] \in FatValues
    BY FatAssumption
  <2>2. [fat EXCEPT ![w[1]] = w[2]] \in [Clusters -> FatValues]
    BY <2>1, UpdateType DEF TypeOK
  <2> QED
    BY <1>4, <2>2, ConstantTypes DEF WriteFat, TypeOK
<1>5. ASSUME NEW c \in Clusters, NEW d \in Declared, ClaimName(c, d)
      PROVE  TypeOK'
  <2>1. PICK i \in Slots : LocatePending(i, c) /\ Dropped(i)
                           /\ Claimed(i, d) /\ UNCHANGED <<evictNext, fat>>
    BY <1>5 DEF ClaimName
  <2>2. stage' \in [Clusters -> File] /\ saved' \in Outcome
    BY <2>1, ClaimedTypes
  <2> QED
    BY <2>1, <2>2, DroppedTypes DEF TypeOK
<1>6. ASSUME NEW c \in Clusters, Discard(c)
      PROVE  TypeOK'
  <2>1. PICK i \in Slots : /\ Dropped(i)
                           /\ stage' = Removed(stage, pending[i].start)
                           /\ saved' = NoSave /\ UNCHANGED <<evictNext, fat>>
    BY <1>6 DEF Discard
  <2>2. stage' \in [Clusters -> File] /\ saved' \in Outcome
    BY <2>1, DiskTypes, ConstantTypes DEF TypeOK
  <2> QED
    BY <2>1, <2>2, DroppedTypes DEF TypeOK
<1>7. ASSUME Eject PROVE TypeOK'
  <2>1. pending' \in [Slots -> Slot] /\ sent' \in [Slots -> Content] /\ warned' \in SUBSET Slots
    BY <1>7, ConstantTypes, ContentTypes DEF Eject
  <2>2. stage' \in [Clusters -> File]
    BY <1>7, ConstantTypes DEF Eject, TypeOK
  <2>3. cache' \in Handle /\ saved' \in Outcome
    BY <1>7, ConstantTypes DEF Eject, TypeOK
  <2>4. ramTotal' \in Int
    BY <1>7, RamUnitsFinite, FS_CardinalityType DEF Eject, TypeOK
  <2>5. fat' \in [Clusters -> FatValues] /\ evictNext' \in Slots
    BY <1>0, <1>7 DEF Eject, FatValues
  <2>6. \A i \in Slots : ~pending'[i].used
    BY <1>7 DEF Eject, Idle
  <2> QED
    BY <2>1, <2>2, <2>3, <2>4, <2>5, <2>6 DEF TypeOK
<1>8. CASE UNCHANGED vars
  BY <1>8 DEF vars, TypeOK
<1> QED
  BY <1>1, <1>2, <1>3, <1>4, <1>5, <1>6, <1>7, <1>8 DEF Next, WriteSector

\* The type invariant of the staging area, for every instance of it.
THEOREM TypeCorrect == Spec => []TypeOK
<1>1. Init => TypeOK
  BY InitTypes
<1>2. TypeOK /\ [Next]_vars => TypeOK'
  BY StepTypes
<1> QED
  BY <1>1, <1>2, PTL DEF Spec

----------------------------------------------------------------------------
(* Staging files and the cached handle *)

\* DistinctStarts, HandleCoherent and NoLitter, of any slots P, staging files
\* stg and handle ch: routing a sector changes these before it is stored.
Distinct(P) ==
  \A i, j \in Slots : P[i].used /\ P[j].used /\ P[i].start = P[j].start => i = j

Coherent(P, stg, ch) ==
  ch.slot # NoSlot =>
    /\ P[ch.slot].used /\ P[ch.slot].spilled
    /\ stg[P[ch.slot].start].exists
    /\ ch.pos # UnknownPos => ch.at = ch.pos

Tidy(P, stg) ==
  \A c \in Clusters : stg[c].exists =>
    \E i \in Slots : P[i].used /\ P[i].spilled /\ P[i].start = c

\* P is pending with slot i replaced by r, as far as files are concerned.
Replaces(P, i, r) ==
  \A j \in Slots :
    /\ P[j].used = IF j = i THEN r.used ELSE pending[j].used
    /\ P[j].spilled = IF j = i THEN r.spilled ELSE pending[j].spilled
    /\ P[j].start = IF j = i THEN r.start ELSE pending[j].start

\* What storing a sector does to the existence of staging files.
LEMMA DiskForExists ==
  ASSUME TypeOK, NEW i \in Slots, NEW r \in Slot, NEW stg \in [Clusters -> File],
         NEW ch \in Handle, NEW made \in BOOLEAN, NEW whole \in BOOLEAN, r.start \in Clusters
  PROVE  \A c \in Clusters :
           LET disk == DiskFor(i, r, stg, ch, made, whole) IN
           /\ stg[c].exists => disk[c].exists
           /\ disk[c].exists => stg[c].exists \/ c = r.start
<1> DEFINE sp == Spilt(stg, r, made, whole)
<1>1. sp \in [Clusters -> File]
  BY DiskTypes
<1>2. \A c \in Clusters : /\ stg[c].exists => sp[c].exists
                          /\ sp[c].exists => stg[c].exists \/ c = r.start
  BY DEF Spilt, File
<1> HIDE DEF sp
<1>3. \A c \in Clusters : Closed(sp, ch, whole)[c].exists = sp[c].exists
  BY <1>1 DEF Closed, File
<1> QED
  BY <1>2, <1>3 DEF DiskFor, sp

\* Storing a sector preserves the relation of slots, files and handle, if the
\* routing, which turned pending into P, did.
LEMMA PutSectorFiles ==
  ASSUME TypeOK, NEW i, NEW r, NEW p \in ChainPositions, NEW s \in Sectors, NEW v \in Values,
         NEW total, NEW stg, NEW ch, NEW before, NEW unwarned, NEW P,
         Routed(i, r, stg, ch, before, unwarned, total), r.used,
         Replaces(P, i, r), Distinct(P), Coherent(P, stg, ch), Tidy(P, stg),
         PutSector(i, r, p, s, v, total, stg, ch, before, unwarned)
  PROVE  Distinct(pending') /\ Coherent(pending', stage', cache') /\ Tidy(pending', stage')
<1> DEFINE off == p * ClusterSectors + s
<1>0. /\ i \in Slots /\ r \in Slot /\ stg \in [Clusters -> File]
      /\ ch \in Handle /\ r.start \in Clusters
  BY DEF Routed
<1>1. \/ PutInRam(i, r, off, v, total) /\ stage' = stg /\ cache' = ch
      \/ PutOnDisk(i, r, off, v, total, stg, ch)
  BY DEF PutSector
<1> HIDE DEF off
<1>2. CASE PutInRam(i, r, off, v, total) /\ stage' = stg /\ cache' = ch
  <2>1. PICK cap : pending' = [pending EXCEPT ![i] = RamSlot(r, cap, off, v)]
    BY <1>2 DEF PutInRam
  <2>2. \A j \in Slots : pending'[j] = IF j = i THEN RamSlot(r, cap, off, v) ELSE pending[j]
    BY <1>0, <2>1, SlotUpdate
  <2>3. /\ RamSlot(r, cap, off, v).used = r.used /\ RamSlot(r, cap, off, v).start = r.start
        /\ RamSlot(r, cap, off, v).spilled = r.spilled
    BY <1>0 DEF RamSlot, Slot
  <2>4. \A j \in Slots : /\ pending'[j].used = P[j].used /\ pending'[j].start = P[j].start
                         /\ pending'[j].spilled = P[j].spilled
    BY <2>2, <2>3 DEF Replaces
  <2>5. ch.slot # NoSlot => ch.slot \in Slots
    BY <1>0 DEF Handle
  <2> QED
    BY <1>2, <2>4, <2>5 DEF Distinct, Coherent, Tidy
<1>3. CASE PutOnDisk(i, r, off, v, total, stg, ch)
  <2>1. \/ pending' = [pending EXCEPT ![i] = DiskSlot(r, off)]
        \/ pending' = [pending EXCEPT ![i] = SpiltSlot(r)]
    BY <1>3 DEF PutOnDisk
  <2>2. \/ \A j \in Slots : pending'[j] = IF j = i THEN DiskSlot(r, off) ELSE pending[j]
        \/ \A j \in Slots : pending'[j] = IF j = i THEN SpiltSlot(r) ELSE pending[j]
    BY <1>0, <2>1, SlotUpdate
  <2>3. /\ DiskSlot(r, off).used = r.used /\ DiskSlot(r, off).start = r.start
        /\ SpiltSlot(r).used = r.used /\ SpiltSlot(r).start = r.start
        /\ DiskSlot(r, off).spilled /\ SpiltSlot(r).spilled
    BY <1>0, SlotFields
  <2>4. \A j \in Slots : /\ pending'[j].used = P[j].used /\ pending'[j].start = P[j].start
                         /\ pending'[j].spilled <=> (P[j].spilled \/ j = i)
    BY <2>2, <2>3 DEF Replaces
  <2>5. PICK made \in BOOLEAN, whole \in BOOLEAN :
          stage' = DiskFor(i, r, stg, ch, made, whole)
    BY <1>3 DEF PutOnDisk, Outcomes
  <2>6. \A c \in Clusters : /\ stg[c].exists => stage'[c].exists
                            /\ stage'[c].exists => stg[c].exists \/ c = r.start
    BY <1>0, <2>5, DiskForExists
  <2>7. PICK opened \in BOOLEAN :
          LET h == HandleFor(i, r, stage', ch, opened) IN
          \/ h.slot = i /\ cache' = HandlePut(h, off, v)
          \/ h.slot # i /\ cache' = h
    BY <1>3 DEF PutOnDisk, Outcomes
  <2>8. Distinct(pending')
    BY <2>4 DEF Distinct
  <2>9. Tidy(pending', stage')
    <3>1. P[i].used /\ P[i].start = r.start
      BY <1>0 DEF Replaces
    <3> QED
      BY <1>0, <2>4, <2>6, <3>1 DEF Tidy
  <2>10. Coherent(pending', stage', cache')
    <3> DEFINE h == HandleFor(i, r, stage', ch, opened)
    <3>1. pending'[i].used /\ pending'[i].spilled /\ pending'[i].start = r.start
      BY <1>0, <2>4 DEF Replaces
    <3>2. CASE h.slot = i /\ cache' = HandlePut(h, off, v)
      <4>1. cache'.slot = i /\ cache'.at = cache'.pos
        <5>1. cache'.slot = h.slot /\ cache'.pos = off + 1
              /\ cache'.at = (IF h.pos = off THEN h.at ELSE off) + 1
          BY <3>2 DEF HandlePut
        <5>2. off # UnknownPos
          BY OffsetInPositions DEF off, Positions, UnknownPos
        <5>3. h.pos = off => h.at = off
          <6>1. CASE ch.slot = i
            <7>1. h = ch /\ ch.slot # NoSlot
              BY <1>0, <6>1 DEF HandleFor, Slots, NoSlot
            <7> QED
              BY <5>2, <7>1 DEF Coherent
          <6>2. CASE ch.slot # i
            <7>1. h.pos = UnknownPos
              BY <6>2 DEF HandleFor, NoHandle
            <7> QED
              BY <5>2, <7>1
          <6> QED
            BY <6>1, <6>2
        <5> QED
          BY <3>2, <5>1, <5>3
      <4>2. stage'[r.start].exists
        <5>1. CASE ch.slot = i
          <6>a. i # NoSlot
            BY <1>0 DEF Slots, NoSlot
          <6>b. P[i].start = r.start
            BY <1>0 DEF Replaces
          <6>1. ch.slot # NoSlot /\ P[i].start = r.start
            BY <5>1, <6>a, <6>b
          <6> QED
            BY <1>0, <2>6, <5>1, <6>1 DEF Coherent
        <5>2. CASE ch.slot # i
          <6>1. i # NoSlot
            BY <1>0 DEF Slots, NoSlot
          <6> QED
            BY <3>2, <5>2, <6>1 DEF HandleFor, NoHandle
        <5> QED
          BY <5>1, <5>2
      <4> QED
        BY <3>1, <4>1, <4>2 DEF Coherent
    <3>3. CASE h.slot # i /\ cache' = h
      <4>1. cache' = NoHandle
        BY <3>3 DEF HandleFor, NoHandle
      <4> QED
        BY <4>1 DEF Coherent, NoHandle
    <3> QED
      BY <2>7, <3>2, <3>3
  <2> QED
    BY <2>8, <2>9, <2>10
<1> QED
  BY <1>1, <1>2, <1>3

\* The part of the inductive invariant that is about files.
FilesInv == Distinct(pending) /\ Coherent(pending, stage, cache) /\ Tidy(pending, stage)

\* A cluster no slot holds starts no slot.
LEMMA NotPendingStart ==
  ASSUME NEW c \in Clusters, NotPending(c)
  PROVE  \A j \in Slots : pending[j].used => pending[j].start # c
<1>1. 0 \in ChainPositions
  BY FirstPosition
<1> QED
  BY <1>1 DEF NotPending, Holds, AtChainPos

\* A sector for a slot that holds its cluster leaves the slot's file alone.
LEMMA MatchedFiles ==
  ASSUME TypeOK, FilesInv, NEW i \in Slots, NEW c \in Clusters
  PROVE  Replaces(pending, i, Advanced(i, c))
BY AdvancedType DEF Replaces

\* A new cluster in a free slot shares its start with no slot in use.
LEMMA FreshFiles ==
  ASSUME TypeOK, FilesInv, NEW i \in Slots, NEW c \in Clusters, NotPending(c), ~pending[i].used
  PROVE  LET P == [pending EXCEPT ![i] = NewSlot(c)] IN
         /\ Replaces(P, i, NewSlot(c))
         /\ Distinct(P) /\ Coherent(P, stage, cache) /\ Tidy(P, stage)
<1> DEFINE P == [pending EXCEPT ![i] = NewSlot(c)]
<1>1. \A j \in Slots : P[j] = IF j = i THEN NewSlot(c) ELSE pending[j]
  BY DEF TypeOK
<1>2. NewSlot(c).used /\ NewSlot(c).start = c
  BY DEF NewSlot, Idle
<1> HIDE DEF P
<1>3. Distinct(P)
  BY <1>1, <1>2, NotPendingStart DEF FilesInv, Distinct
<1>4. Coherent(P, stage, cache)
  <2>1. cache.slot # NoSlot => cache.slot \in Slots /\ cache.slot # i
    BY DEF TypeOK, Handle, FilesInv, Coherent
  <2> QED
    BY <1>1, <2>1 DEF FilesInv, Coherent
<1>5. Tidy(P, stage)
  BY <1>1 DEF FilesInv, Tidy
<1>6. Replaces(P, i, NewSlot(c))
  BY <1>1 DEF Replaces
<1> QED
  BY <1>3, <1>4, <1>5, <1>6 DEF P

\* Giving up slot i, its handle and its file leaves the others' files alone.
LEMMA DropFiles ==
  ASSUME TypeOK, FilesInv, NEW i \in Slots, pending[i].used, NEW x,
         NEW stg, stg = Removed(stage, pending[i].start)
  PROVE  LET P == [pending EXCEPT ![i] = x] IN
         /\ Coherent(P, stg, Invalidated(i))
         /\ \A c \in Clusters : stg[c].exists =>
              \E j \in Slots \ {i} : P[j].used /\ P[j].spilled /\ P[j].start = c
<1> DEFINE P == [pending EXCEPT ![i] = x]
<1>1. \A j \in Slots : P[j] = IF j = i THEN x ELSE pending[j]
  BY DEF TypeOK
<1>2. pending[i].start \in Clusters /\ stage \in [Clusters -> File]
  BY DEF TypeOK
<1>3. \A c \in Clusters : stg[c].exists <=> stage[c].exists /\ c # pending[i].start
  BY <1>2 DEF Removed, Absent
<1> HIDE DEF P
<1>4. Coherent(P, stg, Invalidated(i))
  <2>1. CASE cache.slot = i \/ cache.slot = NoSlot
    BY <2>1 DEF Invalidated, NoHandle, Coherent
  <2>2. CASE cache.slot # i /\ cache.slot # NoSlot
    <3>1. cache.slot \in Slots
      BY <2>2 DEF TypeOK, Handle
    <3>2. pending[cache.slot].used /\ pending[cache.slot].start # pending[i].start
      BY <2>2, <3>1 DEF FilesInv, Coherent, Distinct
    <3>3. pending[cache.slot].start \in Clusters
      BY <3>1, <3>2 DEF TypeOK
    <3> QED
      BY <1>1, <1>3, <2>2, <3>1, <3>2, <3>3 DEF Invalidated, FilesInv, Coherent
  <2> QED
    BY <2>1, <2>2
<1>5. ASSUME NEW c \in Clusters, stg[c].exists
      PROVE  \E j \in Slots \ {i} : P[j].used /\ P[j].spilled /\ P[j].start = c
  <2>1. PICK j \in Slots : pending[j].used /\ pending[j].spilled /\ pending[j].start = c
    BY <1>3, <1>5 DEF FilesInv, Tidy
  <2>2. j # i
    BY <1>3, <1>5, <2>1
  <2> QED
    BY <1>1, <2>1, <2>2
<1> QED
  BY <1>4, <1>5 DEF P

\* Nor does one in an evicted slot, whose file and handle are gone.
LEMMA EvictingFiles ==
  ASSUME TypeOK, FilesInv, NEW i \in Slots, NEW c \in Clusters, NotPending(c), pending[i].used
  PROVE  LET P == [pending EXCEPT ![i] = NewSlot(c)]
             stg == Removed(stage, pending[i].start) IN
         /\ Replaces(P, i, NewSlot(c))
         /\ Distinct(P) /\ Coherent(P, stg, Invalidated(i)) /\ Tidy(P, stg)
<1> DEFINE P == [pending EXCEPT ![i] = NewSlot(c)]
           stg == Removed(stage, pending[i].start)
<1>1. \A j \in Slots : P[j] = IF j = i THEN NewSlot(c) ELSE pending[j]
  BY DEF TypeOK
<1>2. NewSlot(c).used /\ NewSlot(c).start = c
  BY DEF NewSlot, Idle
<1>3. /\ Coherent(P, stg, Invalidated(i))
      /\ \A d \in Clusters : stg[d].exists =>
           \E j \in Slots \ {i} : P[j].used /\ P[j].spilled /\ P[j].start = d
  BY DropFiles
<1> HIDE DEF P, stg
<1>4. Distinct(P)
  BY <1>1, <1>2, NotPendingStart DEF FilesInv, Distinct
<1>5. Tidy(P, stg)
  BY <1>3 DEF Tidy
<1>6. Replaces(P, i, NewSlot(c))
  BY <1>1 DEF Replaces
<1> QED
  BY <1>3, <1>4, <1>5, <1>6 DEF P, stg

\* Giving up a slot and its staging file preserves the relation.
LEMMA DroppedFiles ==
  ASSUME TypeOK, FilesInv, NEW i \in Slots, pending[i].used, Dropped(i),
         \A c \in Clusters : stage'[c].exists <=> Removed(stage, pending[i].start)[c].exists
  PROVE  FilesInv'
<1> DEFINE P == [pending EXCEPT ![i] = Idle]
           stg == Removed(stage, pending[i].start)
<1>1. P = pending' /\ cache' = Invalidated(i)
  BY DEF Dropped
<1>2. \A j \in Slots : P[j] = IF j = i THEN Idle ELSE pending[j]
  BY DEF TypeOK
<1>a. /\ Coherent(P, stg, Invalidated(i))
      /\ \A c \in Clusters : stg[c].exists =>
           \E j \in Slots \ {i} : P[j].used /\ P[j].spilled /\ P[j].start = c
  BY DropFiles
<1>3. /\ Coherent(P, stg, cache')
      /\ \A c \in Clusters : stg[c].exists =>
           \E j \in Slots \ {i} : P[j].used /\ P[j].spilled /\ P[j].start = c
  <2> HIDE DEF P, stg
  <2> QED
    BY <1>a, <1>1
<1> HIDE DEF P, stg
<1>4. Distinct(P)
  BY <1>2 DEF FilesInv, Distinct, Idle
<1>5. Tidy(P, stage')
  BY <1>3 DEF Tidy, stg
<1>6. Coherent(P, stage', cache')
  <2>1. ASSUME cache'.slot # NoSlot
        PROVE  P[cache'.slot].start \in Clusters
    <3>1. cache'.slot \in Slots
      BY <1>1, <2>1, ConstantTypes DEF Invalidated, TypeOK, Handle
    <3>2. P[cache'.slot].used
      BY <1>3, <2>1 DEF Coherent
    <3> QED
      BY <1>2, <3>1, <3>2 DEF TypeOK, Idle
  <2> QED
    BY <1>3, <2>1 DEF Coherent, stg
<1> QED
  BY <1>1, <1>4, <1>5, <1>6 DEF FilesInv

\* It holds at first, when there are no slots in use and no files.
LEMMA InitFiles == Init => FilesInv
BY DEF Init, FilesInv, Distinct, Coherent, Tidy, NoHandle, NoSlot, Idle, Absent

\* A claim removes the staging file of the slot it claims, and no other.
LEMMA ClaimedFiles ==
  ASSUME TypeOK, FilesInv, NEW i \in Slots, NEW d \in Declared, Claimed(i, d)
  PROVE  \A c \in Clusters : stage'[c].exists <=> Removed(stage, pending[i].start)[c].exists
<1>1. PICK whole \in BOOLEAN : stage' = ClaimedStage(i, whole)
  BY DEF Claimed, Outcomes
<1>2. pending[i].used /\ pending[i].start \in Clusters /\ stage \in [Clusters -> File]
      /\ cache \in Handle
  BY DEF Claimed, TypeOK
<1>3. \A c \in Clusters : InvalidatedStage(i, whole)[c].exists = stage[c].exists
  BY <1>2 DEF InvalidatedStage, Closed, File
<1>4. InvalidatedStage(i, whole) \in [Clusters -> File]
  BY <1>2, DiskTypes DEF InvalidatedStage
<1>5. CASE pending[i].spilled
  BY <1>1, <1>2, <1>3, <1>4, <1>5 DEF ClaimedStage, Removed
<1>6. CASE ~pending[i].spilled
  <2>1. ~stage[pending[i].start].exists
    BY <1>2, <1>6 DEF FilesInv, Tidy, Distinct
  <2> QED
    BY <1>1, <1>2, <1>3, <1>4, <1>6, <2>1 DEF ClaimedStage, Removed, Absent
<1> QED
  BY <1>5, <1>6

\* Every step preserves the relation of slots, files and handle.
LEMMA StepFiles == TypeOK /\ FilesInv /\ [Next]_vars => FilesInv'
<1> SUFFICES ASSUME TypeOK, FilesInv, [Next]_vars PROVE FilesInv'
  OBVIOUS
<1>1. ASSUME NEW c \in Clusters, NEW s \in Sectors, NEW v \in Values, WriteMatched(c, s, v)
      PROVE  FilesInv'
  <2>1. PICK i \in Slots, p \in ChainPositions :
          /\ LocatePending(i, c)
          /\ PutSector(i, Advanced(i, c), p, s, v, ramTotal, stage, cache, sent[i], warned)
    BY <1>1 DEF WriteMatched
  <2>2. Routed(i, Advanced(i, c), stage, cache, sent[i], warned, ramTotal)
    BY <2>1, RoutedMatched
  <2>3. Replaces(pending, i, Advanced(i, c)) /\ Advanced(i, c).used
    BY <2>1, MatchedFiles, AdvancedType DEF LocatePending, Holds
  <2> QED
    BY <2>1, <2>2, <2>3, PutSectorFiles DEF FilesInv
<1>2. ASSUME NEW c \in Clusters, NEW s \in Sectors, NEW v \in Values, WriteFresh(c, s, v)
      PROVE  FilesInv'
  <2>1. PICK i \in Slots :
          /\ ~pending[i].used
          /\ PutSector(i, NewSlot(c), 0, s, v, ramTotal, stage, cache, Blanks, warned \ {i})
    BY <1>2 DEF WriteFresh
  <2>2. NotPending(c) /\ 0 \in ChainPositions /\ NewSlot(c).used
    BY <1>2, FirstPosition DEF WriteFresh, NewSlot, Idle
  <2>3. Routed(i, NewSlot(c), stage, cache, Blanks, warned \ {i}, ramTotal)
    BY RoutedFresh
  <2> DEFINE P == [pending EXCEPT ![i] = NewSlot(c)]
  <2>4. /\ Replaces(P, i, NewSlot(c))
        /\ Distinct(P) /\ Coherent(P, stage, cache) /\ Tidy(P, stage)
    BY <2>1, <2>2, FreshFiles
  <2> HIDE DEF P
  <2> QED
    BY <2>1, <2>2, <2>3, <2>4, PutSectorFiles DEF FilesInv
<1>3. ASSUME NEW c \in Clusters, NEW s \in Sectors, NEW v \in Values, WriteEvicting(c, s, v)
      PROVE  FilesInv'
  <2> DEFINE i == evictNext
             stg == Removed(stage, pending[i].start)
             P == [pending EXCEPT ![i] = NewSlot(c)]
  <2>1. PutSector(i, NewSlot(c), 0, s, v, ramTotal - pending[i].cap,
                  stg, Invalidated(i), Blanks, warned \ {i})
    BY <1>3 DEF WriteEvicting
  <2>2. i \in Slots /\ pending[i].used /\ NotPending(c) /\ 0 \in ChainPositions
        /\ NewSlot(c).used
    BY <1>3, FirstPosition DEF WriteEvicting, TypeOK, NewSlot, Idle
  <2>3. Routed(i, NewSlot(c), stg, Invalidated(i), Blanks, warned \ {i},
               ramTotal - pending[i].cap)
    BY <2>2, RoutedEvicting
  <2>4. /\ Replaces(P, i, NewSlot(c))
        /\ Distinct(P) /\ Coherent(P, stg, Invalidated(i)) /\ Tidy(P, stg)
    BY <2>2, EvictingFiles
  <2> HIDE DEF i, stg, P
  <2> QED
    BY <2>1, <2>2, <2>3, <2>4, PutSectorFiles DEF FilesInv
<1>4. ASSUME NEW w \in FatWrites, WriteFat(w[1], w[2])
      PROVE  FilesInv'
  BY <1>4 DEF WriteFat, FilesInv, Distinct, Coherent, Tidy
<1>5. ASSUME NEW c \in Clusters, NEW d \in Declared, ClaimName(c, d)
      PROVE  FilesInv'
  <2>1. PICK i \in Slots : Dropped(i) /\ Claimed(i, d)
    BY <1>5 DEF ClaimName
  <2> QED
    BY <2>1, ClaimedFiles, DroppedFiles DEF Claimed
<1>6. ASSUME NEW c \in Clusters, Discard(c)
      PROVE  FilesInv'
  <2>1. PICK i \in Slots : /\ pending[i].used /\ Dropped(i)
                           /\ stage' = Removed(stage, pending[i].start)
    BY <1>6 DEF Discard, LocatePending, Holds
  <2> QED
    BY <2>1, DroppedFiles
<1>7. ASSUME Eject PROVE FilesInv'
  <2>1. \A i \in Slots : ~pending'[i].used
    BY <1>7 DEF Eject, Idle
  <2>2. \A c \in Clusters : ~stage'[c].exists
    BY <1>7 DEF Eject, Absent, FilesInv, Tidy
  <2>3. cache' = NoHandle \/ cache'.slot = NoSlot
    BY <1>7 DEF Eject, FilesInv, Coherent
  <2> QED
    BY <2>1, <2>2, <2>3 DEF FilesInv, Distinct, Coherent, Tidy, NoHandle
<1>8. CASE UNCHANGED vars
  BY <1>8 DEF vars, FilesInv, Distinct, Coherent, Tidy
<1> QED
  BY <1>1, <1>2, <1>3, <1>4, <1>5, <1>6, <1>7, <1>8 DEF Next, WriteSector

\* Slots in use never share a staging file, a staging file always belongs to
\* a slot that has spilled, and the cached handle to a slot whose file exists.
THEOREM FilesCorrect == Spec => [](DistinctStarts /\ HandleCoherent /\ NoLitter)
<1>1. Init => TypeOK /\ FilesInv
  BY InitTypes, InitFiles
<1>2. TypeOK /\ FilesInv /\ [Next]_vars => (TypeOK /\ FilesInv)'
  BY StepTypes, StepFiles
<1>3. TypeOK /\ FilesInv => DistinctStarts /\ HandleCoherent /\ NoLitter
  BY DEF FilesInv, Distinct, Coherent, Tidy, DistinctStarts, HandleCoherent, NoLitter
<1> QED
  BY <1>1, <1>2, <1>3, PTL DEF Spec

\* In particular the cached handle, which the sequential write path trusts without
\* an fseek, always belongs to a spilled slot in use and stands where it is believed to.
THEOREM HandleStaysCoherent == Spec => []HandleCoherent
  BY FilesCorrect, PTL

----------------------------------------------------------------------------
(* The contents of the slots *)

\* BufferBounds but for a buffer's existence: true of a slot being routed.
Bounded(r) ==
  r.used /\ ~r.spilled =>
    /\ r.size <= r.cap
    /\ \A p \in Positions : r.ram[p] # Blank => p < r.size

\* NothingSilentlyLost and the existence of the staging file, of slot record r
\* that should hold data, when the staging files are stg and the handle is ch.
StoredIn(r, i, stg, ch) ==
  IF ~r.spilled THEN r.ram
  ELSE IF ch.slot = i THEN Overlay(stg[r.start].data, ch.held)
  ELSE stg[r.start].data

Keeps(r, i, stg, ch, data) ==
  /\ StoredIn(r, i, stg, ch) = data
  /\ \A p \in Positions : data[p] # Blank => p < r.size
  /\ r.spilled => stg[r.start].exists

ContentsInv ==
  \A i \in Slots : pending[i].used =>
    /\ Bounded(pending[i])
    /\ ~pending[i].spilled => pending[i].cap > 0
    /\ i \notin warned => Keeps(pending[i], i, stage, cache, sent[i])

\* Slot j's staging file is neither slot i's, now r, nor that of another slot
\* whose handle is cached.
Apart(i, r, j, ch) ==
  /\ pending[j].start # r.start
  /\ ch.slot \notin {i, j, NoSlot} => pending[ch.slot].start # pending[j].start

\* Slots in use are apart, because their start clusters are distinct.
LEMMA DistinctApart ==
  ASSUME TypeOK, NEW i \in Slots, NEW r \in Slot, NEW stg, NEW ch \in Handle, r.used,
         NEW P, Replaces(P, i, r), Distinct(P), Coherent(P, stg, ch),
         NEW j \in Slots, j # i, pending[j].used
  PROVE  Apart(i, r, j, ch)
<1>1. pending[j].start # r.start
  BY DEF Replaces, Distinct
<1>2. ASSUME ch.slot \notin {i, j, NoSlot}
      PROVE  pending[ch.slot].start # pending[j].start
  <2>1. ch.slot \in Slots
    BY <1>2 DEF Handle
  <2> QED
    BY <1>2, <2>1 DEF Coherent, Replaces, Distinct
<1> QED
  BY <1>1, <1>2 DEF Apart

\* A file of another slot is not touched when slot i stores a sector; what its
\* handle held is on the disk if its handle was closed.
LEMMA OthersKept ==
  ASSUME TypeOK, "full" \notin Faults,
         NEW i \in Slots, NEW r \in Slot, NEW stg \in [Clusters -> File], NEW ch \in Handle,
         r.start \in Clusters, NEW made \in BOOLEAN,
         NEW ch2, ch2.slot = i \/ ch2.slot = NoSlot,
         NEW j \in Slots, j # i, pending[j].used, Apart(i, r, j, ch), NEW data,
         Keeps(pending[j], j, stg, ch, data)
  PROVE  Keeps(pending[j], j, DiskFor(i, r, stg, ch, made, TRUE), ch2, data)
<1> DEFINE q == pending[j]
           sp == Spilt(stg, r, made, TRUE)
           disk == DiskFor(i, r, stg, ch, made, TRUE)
<1>0. j # NoSlot /\ ch2.slot # j
  BY DEF Slots, NoSlot
<1>1. q \in Slot /\ q.start \in Clusters /\ q.start # r.start
  BY DEF TypeOK, Apart
<1>2. sp \in [Clusters -> File] /\ sp[q.start] = stg[q.start]
  BY <1>1, DiskTypes DEF Spilt
<1> HIDE DEF sp, q
<1>3. CASE ~q.spilled
  BY <1>0, <1>3 DEF Keeps, StoredIn, q
<1>4. CASE q.spilled /\ ch.slot = j
  <2>1. stg[q.start].exists /\ data = Overlay(stg[q.start].data, ch.held)
    BY <1>4 DEF Keeps, StoredIn, q
  <2>2. disk = Closed(sp, ch, TRUE) /\ pending[ch.slot].start = q.start /\ ch.slot # NoSlot
    BY <1>0, <1>4 DEF DiskFor, sp, q
  <2>3. disk = [sp EXCEPT ![q.start].data = Overlay(sp[q.start].data, ch.held)]
    BY <1>2, <2>1, <2>2 DEF Closed, Written
  <2> HIDE DEF disk
  <2>a. disk[q.start] = [sp[q.start] EXCEPT !.data = Overlay(sp[q.start].data, ch.held)]
    BY <1>1, <1>2, <2>3
  <2>b. sp[q.start] \in File
    BY <1>1, <1>2
  <2>4. disk[q.start].exists /\ disk[q.start].data = data
    BY <1>2, <2>1, <2>a, <2>b DEF File
  <2>5. StoredIn(q, j, disk, ch2) = data
    BY <1>0, <1>4, <2>4 DEF StoredIn
  <2> QED
    BY <2>4, <2>5 DEF Keeps, q, disk
<1>5. CASE q.spilled /\ ch.slot # j
  <2>1. stg[q.start].exists /\ data = stg[q.start].data
    BY <1>5 DEF Keeps, StoredIn, q
  <2>2. disk[q.start] = sp[q.start]
    <3>1. CASE ch.slot = i \/ ch.slot = NoSlot
      BY <3>1 DEF DiskFor, Closed, sp
    <3>2. CASE ch.slot # i /\ ch.slot # NoSlot
      <4>2. pending[ch.slot].start # q.start
        BY <1>5, <3>2 DEF Apart, q
      <4>3. disk = Closed(sp, ch, TRUE)
        BY <3>2 DEF DiskFor, sp
      <4> QED
        BY <1>1, <1>2, <4>2, <4>3 DEF Closed
    <3> QED
      BY <3>1, <3>2
  <2> HIDE DEF disk
  <2>3. StoredIn(q, j, disk, ch2) = data /\ disk[q.start].exists
    BY <1>0, <1>2, <1>5, <2>1, <2>2 DEF StoredIn
  <2> QED
    BY <2>3 DEF Keeps, q, disk
<1> QED
  BY <1>3, <1>4, <1>5 DEF q

\* Writing a sector over stored contents, through the handle's buffer or not.
LEMMA OverlayPut ==
  ASSUME NEW f \in Content, NEW g \in Content, NEW off \in Positions, NEW v \in Values
  PROVE  Overlay(f, [g EXCEPT ![off] = v]) = [Overlay(f, g) EXCEPT ![off] = v]
<1>1. v # Blank
  BY BlankAssumption
<1> QED
  BY <1>1 DEF Overlay, Content

\* Nothing held by the handle changes nothing.
LEMMA OverlayBlanks ==
  ASSUME NEW f \in Content
  PROVE  Overlay(f, Blanks) = f
BY DEF Overlay, Content, Blanks

\* A size that covers the data covers it after a sector is stored.
LEMMA SizeCovers ==
  ASSUME NEW f \in Content, NEW size \in Nat, NEW off \in Positions, NEW v,
         \A p \in Positions : f[p] # Blank => p < size
  PROVE  \A p \in Positions : [f EXCEPT ![off] = v][p] # Blank => p < LargerOf(size, off + 1)
<1>1. LargerOf(size, off + 1) \in Nat /\ LargerOf(size, off + 1) >= size
      /\ LargerOf(size, off + 1) >= off + 1 /\ off \in Nat
  BY DEF LargerOf, Positions
<1> SUFFICES ASSUME NEW p \in Positions, [f EXCEPT ![off] = v][p] # Blank
             PROVE  p < LargerOf(size, off + 1)
  OBVIOUS
<1>2. p \in Nat
  BY DEF Positions
<1>3. CASE p = off
  BY <1>1, <1>3
<1>4. CASE p # off
  <2>1. p < size
    BY <1>4 DEF Content
  <2> QED
    BY <1>1, <1>2, <2>1
<1> QED
  BY <1>3, <1>4

\* Storing a sector in RAM keeps the slot's contents in its buffer.
LEMMA PutInRamContents ==
  ASSUME NEW i \in Slots, NEW r \in Slot, NEW off \in Positions, NEW v \in Values,
         NEW total \in Int, r.used, Bounded(r), pending \in [Slots -> Slot],
         PutInRam(i, r, off, v, total)
  PROVE  /\ ~r.spilled /\ ~pending'[i].spilled
         /\ pending'[i].cap > 0 /\ Bounded(pending'[i])
         /\ pending'[i].ram = [r.ram EXCEPT ![off] = v]
         /\ pending'[i].size = LargerOf(r.size, off + 1)
<1>1. PICK cap \in 1 .. SlotCap :
        /\ ~r.spilled
        /\ \/ off + 1 <= r.cap /\ cap = r.cap
           \/ off + 1 > r.cap /\ CanGrow(r, off + 1, total) /\ cap = GrownCap(off + 1)
        /\ pending' = [pending EXCEPT ![i] = RamSlot(r, cap, off, v)]
  BY DEF PutInRam
<1>2. pending'[i] = RamSlot(r, cap, off, v)
  BY <1>1
<1>3. /\ pending'[i].spilled = r.spilled /\ pending'[i].cap = cap
      /\ pending'[i].ram = [r.ram EXCEPT ![off] = v]
      /\ pending'[i].size = LargerOf(r.size, off + 1)
  BY <1>2 DEF RamSlot, Slot
<1>4. off \in Nat /\ r.size \in Nat /\ r.cap \in Nat /\ cap \in Nat /\ cap > 0
  BY CapsAssumption DEF Positions, Slot
<1>5. cap >= off + 1 /\ cap >= r.cap
  <2>1. CASE off + 1 <= r.cap /\ cap = r.cap
    BY <1>4, <2>1
  <2>2. CASE off + 1 > r.cap /\ CanGrow(r, off + 1, total) /\ cap = GrownCap(off + 1)
    <3>1. off + 1 \in 1 .. SlotCap
      BY <1>4, <2>2, CapsAssumption DEF CanGrow
    <3>2. cap >= off + 1
      BY <2>2, <3>1, GrownCapFits
    <3> QED
      BY <1>4, <2>2, <3>2
  <2> QED
    BY <1>1, <2>1, <2>2
<1>6. r.size <= r.cap /\ \A p \in Positions : r.ram[p] # Blank => p < r.size
  BY <1>1 DEF Bounded
<1>7. LargerOf(r.size, off + 1) <= cap /\ LargerOf(r.size, off + 1) >= r.size
      /\ LargerOf(r.size, off + 1) >= off + 1
  BY <1>4, <1>5, <1>6 DEF LargerOf
<1>8. \A p \in Positions : [r.ram EXCEPT ![off] = v][p] # Blank => p < LargerOf(r.size, off + 1)
  <2>1. r.ram \in Content
    BY DEF Slot
  <2> QED
    BY <1>4, <1>6, <2>1, SizeCovers
<1> QED
  BY <1>1, <1>3, <1>4, <1>7, <1>8 DEF Bounded

\* Storing a sector on the disk without a warning adds it to what the slot
\* held, whether that was in RAM, in the file, or in the handle's buffer.
LEMMA PutOnDiskContents ==
  ASSUME TypeOK, "full" \notin Faults,
         NEW i \in Slots, NEW r \in Slot, NEW off \in Positions, NEW v \in Values,
         NEW stg \in [Clusters -> File], NEW ch \in Handle, NEW total \in Int,
         r.used, r.start \in Clusters,
         NEW P, Replaces(P, i, r), Distinct(P), Coherent(P, stg, ch), Tidy(P, stg),
         NEW data \in Content, Keeps(r, i, stg, ch, data),
         PutOnDisk(i, r, off, v, total, stg, ch), cache'.slot = i
  PROVE  Keeps(pending'[i], i, stage', cache', [data EXCEPT ![off] = v])
<1>1. PICK made \in BOOLEAN : stage' = DiskFor(i, r, stg, ch, made, TRUE)
  BY DEF PutOnDisk, Outcomes
<1>2. PICK opened \in BOOLEAN :
        LET h == HandleFor(i, r, stage', ch, opened) IN
        \/ /\ h.slot = i
           /\ cache' = HandlePut(h, off, v)
           /\ pending' = [pending EXCEPT ![i] = DiskSlot(r, off)]
        \/ h.slot # i /\ cache' = h
  BY DEF PutOnDisk, Outcomes
<1> DEFINE h == HandleFor(i, r, stage', ch, opened)
           sp == Spilt(stg, r, made, TRUE)
<1>3. h.slot = i /\ cache' = HandlePut(h, off, v)
      /\ pending' = [pending EXCEPT ![i] = DiskSlot(r, off)]
  BY <1>2
<1>7. sp \in [Clusters -> File]
  BY DiskTypes
<1> HIDE DEF h, sp
<1>4. pending'[i] = DiskSlot(r, off)
  BY <1>3 DEF TypeOK
<1>5. /\ pending'[i].spilled /\ pending'[i].start = r.start
      /\ pending'[i].size = LargerOf(r.size, off + 1)
  BY <1>4 DEF DiskSlot, SpiltSlot, Slot
<1>a. i # NoSlot
  BY DEF Slots, NoSlot
<1>6. i # NoSlot /\ P[i].used /\ P[i].start = r.start /\ P[i].spilled = r.spilled
  BY <1>a DEF Replaces
<1>8. stage'[r.start] = sp[r.start]
  <2>1. CASE ch.slot = i \/ ch.slot = NoSlot
    BY <1>1, <2>1 DEF DiskFor, Closed, sp
  <2>2. CASE ch.slot # i /\ ch.slot # NoSlot
    <3>1. ch.slot \in Slots
      BY <2>2 DEF Handle
    <3>2. pending[ch.slot].start # r.start
      BY <1>6, <2>2, <3>1 DEF Coherent, Replaces, Distinct
    <3>3. stage' = Closed(sp, ch, TRUE)
      BY <1>1, <2>2 DEF DiskFor, sp
    <3> QED
      BY <1>7, <3>2, <3>3 DEF Closed
  <2> QED
    BY <2>1, <2>2
<1>9. h.held \in Content /\ (h.pos # off \/ h.at = off)
  <2>1. CASE ch.slot = i
    BY <1>6, <2>1 DEF HandleFor, Coherent, Handle, h, Positions, UnknownPos
  <2>2. CASE ch.slot # i
    <3>1. h.pos = UnknownPos /\ h.held = Blanks
      BY <2>2 DEF HandleFor, NoHandle, h
    <3> QED
      BY <3>1, ContentTypes DEF Positions, UnknownPos
  <2> QED
    BY <2>1, <2>2
<1>10. cache'.held = [h.held EXCEPT ![off] = v]
  BY <1>3, <1>9 DEF HandlePut
<1>11. stage'[r.start].exists
       /\ data = (IF ch.slot = i THEN Overlay(stage'[r.start].data, h.held)
                  ELSE stage'[r.start].data)
  <2>1. CASE r.spilled
    <3>1. sp = stg
      BY <2>1 DEF Spilt, sp
    <3>2. ch.slot = i => h = ch
      BY DEF HandleFor, h
    <3> QED
      BY <1>8, <2>1, <3>1, <3>2 DEF Keeps, StoredIn
  <2>2. CASE ~r.spilled
    <3>1. ~stg[r.start].exists
      BY <1>6, <2>2 DEF Tidy, Distinct
    <3>2. ch.slot # i
      BY <1>6, <2>2 DEF Coherent
    <3>3. stage'[r.start].exists
      BY <1>3, <1>6, <3>2 DEF HandleFor, NoHandle, h
    <3>4. sp[r.start] = [exists |-> TRUE, data |-> r.ram]
      BY <1>8, <2>2, <3>1, <3>3 DEF Spilt, Written, sp
    <3> QED
      BY <1>8, <2>2, <3>2, <3>3, <3>4 DEF Keeps, StoredIn
  <2> QED
    BY <2>1, <2>2
<1>12. StoredIn(pending'[i], i, stage', cache') = [data EXCEPT ![off] = v]
  <2>1. StoredIn(pending'[i], i, stage', cache') =
          Overlay(stage'[r.start].data, [h.held EXCEPT ![off] = v])
    BY <1>5, <1>10 DEF StoredIn
  <2>2. stage'[r.start].data \in Content
    BY <1>7, <1>8 DEF File
  <2>3. h.held \in Content /\ data = Overlay(stage'[r.start].data, h.held)
    <3>1. CASE ch.slot = i
      BY <1>11, <3>1 DEF HandleFor, h, Handle
    <3>2. CASE ch.slot # i
      <4>1. h.held = Blanks
        BY <3>2 DEF HandleFor, NoHandle, h
      <4> QED
        BY <1>11, <2>2, <3>2, <4>1, OverlayBlanks, ContentTypes
    <3> QED
      BY <3>1, <3>2
  <2> DEFINE f == stage'[r.start].data
             g == h.held
  <2>4. f \in Content /\ g \in Content
    BY <2>2, <2>3
  <2> HIDE DEF f, g
  <2>5. Overlay(f, [g EXCEPT ![off] = v]) = [Overlay(f, g) EXCEPT ![off] = v]
    BY <2>4, OverlayPut
  <2> QED
    BY <2>1, <2>3, <2>5 DEF f, g
<1>13. \A p \in Positions : [data EXCEPT ![off] = v][p] # Blank => p < pending'[i].size
  BY <1>5, SizeCovers DEF Keeps, Slot
<1> QED
  BY <1>5, <1>11, <1>12, <1>13 DEF Keeps

\* What the contents invariant says of one slot.
SlotKept(q, i, stg, ch, data, w) ==
  q.used => /\ Bounded(q)
            /\ ~q.spilled => q.cap > 0
            /\ i \notin w => Keeps(q, i, stg, ch, data)

\* Storing a sector keeps what the host sent to every slot not warned about.
LEMMA PutSectorContents ==
  ASSUME TypeOK, "full" \notin Faults,
         NEW i, NEW r, NEW p \in ChainPositions, NEW s \in Sectors, NEW v \in Values,
         NEW total, NEW stg, NEW ch, NEW before, NEW unwarned, NEW P,
         Routed(i, r, stg, ch, before, unwarned, total), r.used,
         Replaces(P, i, r), Distinct(P), Coherent(P, stg, ch), Tidy(P, stg),
         Bounded(r), i \notin unwarned => Keeps(r, i, stg, ch, before),
         \A j \in Slots \ {i} : SlotKept(pending[j], j, stg, ch, sent[j], unwarned),
         PutSector(i, r, p, s, v, total, stg, ch, before, unwarned)
  PROVE  ContentsInv'
<1> DEFINE off == p * ClusterSectors + s
           data == [before EXCEPT ![off] = v]
<1>0. /\ i \in Slots /\ r \in Slot /\ stg \in [Clusters -> File] /\ total \in Int
      /\ ch \in Handle /\ r.start \in Clusters /\ before \in Content
  BY DEF Routed
<1>1. \/ PutInRam(i, r, off, v, total) /\ stage' = stg /\ cache' = ch /\ warned' = unwarned
      \/ /\ PutOnDisk(i, r, off, v, total, stg, ch)
         /\ warned' = IF cache'.slot = i THEN unwarned ELSE unwarned \cup {i}
  BY DEF PutSector
<1>2. off \in Positions
  BY OffsetInPositions
<1>3. sent' = [sent EXCEPT ![i] = data]
  BY DEF PutSector
<1>4. /\ sent'[i] = data
      /\ \A j \in Slots \ {i} : sent'[j] = sent[j] /\ (j \in warned' <=> j \in unwarned)
  BY <1>0, <1>1, <1>3 DEF TypeOK
<1> HIDE DEF off
<1>5. CASE PutInRam(i, r, off, v, total) /\ stage' = stg /\ cache' = ch /\ warned' = unwarned
  <2>1. \A j \in Slots \ {i} : pending'[j] = pending[j]
    BY <1>5 DEF PutInRam, TypeOK
  <2>2. pending \in [Slots -> Slot]
    BY DEF TypeOK
  <2>3. /\ ~r.spilled /\ ~pending'[i].spilled
        /\ pending'[i].cap > 0 /\ Bounded(pending'[i])
        /\ pending'[i].ram = [r.ram EXCEPT ![off] = v]
        /\ pending'[i].size = LargerOf(r.size, off + 1)
    BY <1>0, <1>2, <1>5, <2>2, PutInRamContents
  <2>4. i \notin unwarned => Keeps(pending'[i], i, stage', cache', data)
    <3> SUFFICES ASSUME i \notin unwarned PROVE Keeps(pending'[i], i, stage', cache', data)
      OBVIOUS
    <3>1. r.ram = before /\ \A q \in Positions : before[q] # Blank => q < r.size
      BY <2>3 DEF Keeps, StoredIn
    <3>2. StoredIn(pending'[i], i, stage', cache') = data
      BY <2>3, <3>1 DEF StoredIn
    <3>3. r.size \in Nat
      BY <1>0 DEF Slot
    <3>4. \A q \in Positions : data[q] # Blank => q < LargerOf(r.size, off + 1)
      BY <1>0, <1>2, <3>1, <3>3, SizeCovers
    <3> HIDE DEF data
    <3> QED
      BY <2>3, <3>2, <3>4 DEF Keeps
  <2>5. SlotKept(pending'[i], i, stage', cache', sent'[i], warned')
    BY <1>4, <1>5, <2>3, <2>4 DEF SlotKept
  <2>6. \A j \in Slots \ {i} : SlotKept(pending'[j], j, stage', cache', sent'[j], warned')
    BY <1>4, <1>5, <2>1
  <2> QED
    BY <1>0, <2>5, <2>6 DEF ContentsInv, SlotKept
<1>6. CASE /\ PutOnDisk(i, r, off, v, total, stg, ch)
           /\ warned' = IF cache'.slot = i THEN unwarned ELSE unwarned \cup {i}
  <2>1. \A j \in Slots \ {i} : pending'[j] = pending[j]
    BY <1>6 DEF PutOnDisk, TypeOK
  <2>2. pending'[i].spilled
    <3>1. pending'[i] = DiskSlot(r, off) \/ pending'[i] = SpiltSlot(r)
      BY <1>0, <1>6 DEF PutOnDisk, TypeOK
    <3> QED
      BY <1>0, <3>1 DEF DiskSlot, SpiltSlot, Slot
  <2>3. SlotKept(pending'[i], i, stage', cache', sent'[i], warned')
    <3>1. ASSUME i \notin warned'
          PROVE  Keeps(pending'[i], i, stage', cache', data)
      <4>1. cache'.slot = i /\ i \notin unwarned
        BY <1>6, <3>1
      <4> QED
        BY <1>0, <1>2, <1>6, <4>1, PutOnDiskContents
    <3> QED
      BY <1>4, <2>2, <3>1 DEF SlotKept, Bounded
  <2>4. PICK made \in BOOLEAN : stage' = DiskFor(i, r, stg, ch, made, TRUE)
    BY <1>6 DEF PutOnDisk, Outcomes
  <2>5. cache'.slot \in {i, NoSlot}
    <3>1. PICK opened \in BOOLEAN :
            LET h == HandleFor(i, r, stage', ch, opened) IN
            \/ h.slot = i /\ cache' = HandlePut(h, off, v)
            \/ h.slot # i /\ cache' = h
      BY <1>6 DEF PutOnDisk, Outcomes
    <3> QED
      BY <3>1 DEF HandlePut, HandleFor, NoHandle
  <2>6. ASSUME NEW j \in Slots \ {i}
        PROVE  SlotKept(pending'[j], j, stage', cache', sent'[j], warned')
    <3>1. SlotKept(pending[j], j, stg, ch, sent[j], unwarned)
      OBVIOUS
    <3>2. ASSUME pending[j].used, j \notin unwarned
          PROVE  Keeps(pending[j], j, stage', cache', sent[j])
      <4>1. Keeps(pending[j], j, stg, ch, sent[j])
        BY <3>1, <3>2 DEF SlotKept
      <4>b. PICK c2, d : c2 = cache' /\ d = sent[j]
        OBVIOUS
      <4>2. j \in Slots /\ j # i /\ c2.slot \in {i, NoSlot} /\ Keeps(pending[j], j, stg, ch, d)
        BY <2>5, <4>1, <4>b
      <4>a. Apart(i, r, j, ch)
        BY <1>0, <3>2, <4>2, DistinctApart
      <4>3. Keeps(pending[j], j, DiskFor(i, r, stg, ch, made, TRUE), c2, d)
        BY <1>0, <3>2, <4>2, <4>a, OthersKept
      <4> QED
        BY <2>4, <4>3, <4>b
    <3> QED
      BY <1>4, <2>1, <3>1, <3>2 DEF SlotKept
  <2> QED
    BY <1>0, <2>3, <2>6 DEF ContentsInv, SlotKept
<1> QED
  BY <1>1, <1>5, <1>6

\* Giving up slot i leaves what the other slots hold alone, whether or not the
\* data its cached handle held was flushed before.
LEMMA DropOthersKept ==
  ASSUME TypeOK, FilesInv, NEW i \in Slots, NEW j \in Slots, j # i,
         pending[i].used, pending[j].used, NEW data,
         NEW stg, stg[pending[j].start] = stage[pending[j].start],
         Keeps(pending[j], j, stage, cache, data)
  PROVE  Keeps(pending[j], j, stg, Invalidated(i), data)
<1> DEFINE q == pending[j]
<1>1. cache.slot = j => Invalidated(i) = cache
  BY DEF Invalidated
<1>2. cache.slot # j => Invalidated(i).slot # j
  BY DEF Invalidated, NoHandle, Slots, NoSlot
<1> HIDE DEF q
<1>3. StoredIn(q, j, stg, Invalidated(i)) = StoredIn(q, j, stage, cache)
  BY <1>1, <1>2 DEF StoredIn, q
<1> QED
  BY <1>3 DEF Keeps, q

\* No slot is in use at first.
LEMMA InitContents == Init => ContentsInv
BY DEF Init, ContentsInv, Idle

\* Giving up one slot loses no data of another.
LEMMA DroppedContents ==
  ASSUME TypeOK, FilesInv, ContentsInv, NEW i \in Slots, pending[i].used, Dropped(i),
         \A c \in Clusters : c # pending[i].start => stage'[c] = stage[c]
  PROVE  ContentsInv'
<1> SUFFICES ASSUME NEW j \in Slots, pending'[j].used
             PROVE  /\ Bounded(pending'[j])
                    /\ ~pending'[j].spilled => pending'[j].cap > 0
                    /\ j \notin warned' => Keeps(pending'[j], j, stage', cache', sent'[j])
  BY DEF ContentsInv
<1>1. pending' = [pending EXCEPT ![i] = Idle] /\ sent' = [sent EXCEPT ![i] = Blanks]
      /\ warned' = warned \ {i} /\ cache' = Invalidated(i)
  BY DEF Dropped
<1>2. j # i /\ pending'[j] = pending[j] /\ sent'[j] = sent[j] /\ pending[j].used
  BY <1>1 DEF TypeOK, Idle
<1>3. pending[j].start \in Clusters /\ pending[j].start # pending[i].start
  BY <1>2 DEF TypeOK, FilesInv, Distinct
<1>4. stage'[pending[j].start] = stage[pending[j].start]
  BY <1>3
<1>5. /\ Bounded(pending[j]) /\ (~pending[j].spilled => pending[j].cap > 0)
      /\ j \notin warned => Keeps(pending[j], j, stage, cache, sent[j])
  BY <1>2 DEF ContentsInv
<1>6. ASSUME j \notin warned'
      PROVE  Keeps(pending[j], j, stage', cache', sent[j])
  <2>1. j \notin warned
    BY <1>1, <1>2, <1>6
  <2>2. Keeps(pending[j], j, stage', Invalidated(i), sent[j])
    BY <1>2, <1>4, <1>5, <2>1, DropOthersKept
  <2> QED
    BY <1>1, <2>2
<1> QED
  BY <1>2, <1>5, <1>6

\* The contents of a slot that has just been allocated: none.
LEMMA NewSlotContents ==
  ASSUME NEW c \in Clusters, NEW i, NEW stg, NEW ch
  PROVE  Bounded(NewSlot(c)) /\ Keeps(NewSlot(c), i, stg, ch, Blanks)
BY DEF NewSlot, Idle, Bounded, Keeps, StoredIn, Blanks

\* Every step keeps what the host sent to every slot not warned about.
LEMMA StepContents ==
  ASSUME "full" \notin Faults, TypeOK, FilesInv, ContentsInv, [Next]_vars
  PROVE  ContentsInv'
<1>0. \A j \in Slots : SlotKept(pending[j], j, stage, cache, sent[j], warned)
  BY DEF ContentsInv, SlotKept
<1>1. ASSUME NEW c \in Clusters, NEW s \in Sectors, NEW v \in Values, WriteMatched(c, s, v)
      PROVE  ContentsInv'
  <2>1. PICK i \in Slots, p \in ChainPositions :
          /\ LocatePending(i, c)
          /\ PutSector(i, Advanced(i, c), p, s, v, ramTotal, stage, cache, sent[i], warned)
    BY <1>1 DEF WriteMatched
  <2>2. Routed(i, Advanced(i, c), stage, cache, sent[i], warned, ramTotal)
    BY <2>1, RoutedMatched
  <2>3. Replaces(pending, i, Advanced(i, c)) /\ Advanced(i, c).used /\ pending[i].used
    BY <2>1, MatchedFiles, AdvancedType DEF LocatePending, Holds
  <2>4. Bounded(Advanced(i, c))
    BY <1>0, <2>3, AdvancedType DEF SlotKept, Bounded
  <2>5. i \notin warned => Keeps(Advanced(i, c), i, stage, cache, sent[i])
    BY <1>0, <2>3, AdvancedType DEF SlotKept, Keeps, StoredIn
  <2> QED
    BY <1>0, <2>1, <2>2, <2>3, <2>4, <2>5, PutSectorContents DEF FilesInv
<1>2. ASSUME NEW c \in Clusters, NEW s \in Sectors, NEW v \in Values, WriteFresh(c, s, v)
      PROVE  ContentsInv'
  <2>1. PICK i \in Slots :
          /\ ~pending[i].used
          /\ PutSector(i, NewSlot(c), 0, s, v, ramTotal, stage, cache, Blanks, warned \ {i})
    BY <1>2 DEF WriteFresh
  <2>2. NotPending(c) /\ 0 \in ChainPositions /\ NewSlot(c).used
    BY <1>2, FirstPosition DEF WriteFresh, NewSlot, Idle
  <2>3. Routed(i, NewSlot(c), stage, cache, Blanks, warned \ {i}, ramTotal)
    BY RoutedFresh
  <2> DEFINE P == [pending EXCEPT ![i] = NewSlot(c)]
  <2>4. /\ Replaces(P, i, NewSlot(c))
        /\ Distinct(P) /\ Coherent(P, stage, cache) /\ Tidy(P, stage)
    BY <2>1, <2>2, FreshFiles
  <2> HIDE DEF P
  <2>5. \A j \in Slots \ {i} : SlotKept(pending[j], j, stage, cache, sent[j], warned \ {i})
    BY <1>0 DEF SlotKept
  <2>6. Bounded(NewSlot(c)) /\ Keeps(NewSlot(c), i, stage, cache, Blanks)
    BY NewSlotContents
  <2> QED
    BY <2>1, <2>2, <2>3, <2>4, <2>5, <2>6, PutSectorContents
<1>3. ASSUME NEW c \in Clusters, NEW s \in Sectors, NEW v \in Values, WriteEvicting(c, s, v)
      PROVE  ContentsInv'
  <2> DEFINE i == evictNext
             stg == Removed(stage, pending[i].start)
             P == [pending EXCEPT ![i] = NewSlot(c)]
             ch == Invalidated(i)
  <2>1. PutSector(i, NewSlot(c), 0, s, v, ramTotal - pending[i].cap,
                  stg, ch, Blanks, warned \ {i})
    BY <1>3 DEF WriteEvicting
  <2>2. i \in Slots /\ pending[i].used /\ NotPending(c) /\ 0 \in ChainPositions
        /\ NewSlot(c).used
    BY <1>3, FirstPosition DEF WriteEvicting, TypeOK, NewSlot, Idle
  <2>3. Routed(i, NewSlot(c), stg, ch, Blanks, warned \ {i},
               ramTotal - pending[i].cap)
    BY <2>2, RoutedEvicting
  <2>4. /\ Replaces(P, i, NewSlot(c))
        /\ Distinct(P) /\ Coherent(P, stg, ch) /\ Tidy(P, stg)
    BY <2>2, EvictingFiles
  <2>5. ASSUME NEW j \in Slots \ {i}
        PROVE  SlotKept(pending[j], j, stg, ch, sent[j], warned \ {i})
    <3> SUFFICES ASSUME pending[j].used
                 PROVE  /\ Bounded(pending[j]) /\ (~pending[j].spilled => pending[j].cap > 0)
                        /\ j \notin warned \ {i} => Keeps(pending[j], j, stg, ch, sent[j])
      BY DEF SlotKept
    <3>1. pending[j].start # pending[i].start
      BY <2>2 DEF FilesInv, Distinct
    <3>2. stg[pending[j].start] = stage[pending[j].start]
      BY <3>1 DEF Removed, TypeOK
    <3>3. /\ Bounded(pending[j]) /\ (~pending[j].spilled => pending[j].cap > 0)
          /\ j \notin warned => Keeps(pending[j], j, stage, cache, sent[j])
      BY <1>0 DEF SlotKept
    <3> HIDE DEF i, stg
    <3> QED
      BY <2>2, <3>2, <3>3, DropOthersKept
  <2>6. Bounded(NewSlot(c)) /\ Keeps(NewSlot(c), i, stg, ch, Blanks)
    BY NewSlotContents
  <2> HIDE DEF i, stg, P, ch
  <2> QED
    BY <2>1, <2>2, <2>3, <2>4, <2>5, <2>6, PutSectorContents
<1>4. ASSUME NEW w \in FatWrites, WriteFat(w[1], w[2])
      PROVE  ContentsInv'
  BY <1>4 DEF WriteFat, ContentsInv
<1>5. ASSUME NEW c \in Clusters, NEW d \in Declared, ClaimName(c, d)
      PROVE  ContentsInv'
  <2>1. PICK i \in Slots : Dropped(i) /\ Claimed(i, d)
    BY <1>5 DEF ClaimName
  <2>2. PICK whole \in BOOLEAN : stage' = ClaimedStage(i, whole)
    BY <2>1 DEF Claimed, Outcomes
  <2>3. \A b \in Clusters : b # pending[i].start => InvalidatedStage(i, whole)[b] = stage[b]
    BY DEF InvalidatedStage, Closed, TypeOK
  <2>4. InvalidatedStage(i, whole) \in [Clusters -> File]
    BY DiskTypes DEF InvalidatedStage, TypeOK
  <2>5. \A b \in Clusters : b # pending[i].start => stage'[b] = stage[b]
    BY <2>2, <2>3, <2>4 DEF ClaimedStage, Removed
  <2> QED
    BY <2>1, <2>5, DroppedContents DEF Claimed
<1>6. ASSUME NEW c \in Clusters, Discard(c)
      PROVE  ContentsInv'
  <2>1. PICK i \in Slots : /\ pending[i].used /\ Dropped(i)
                           /\ stage' = Removed(stage, pending[i].start)
    BY <1>6 DEF Discard, LocatePending, Holds
  <2>2. \A b \in Clusters : b # pending[i].start => stage'[b] = stage[b]
    BY <2>1 DEF Removed, TypeOK
  <2> QED
    BY <2>1, <2>2, DroppedContents
<1>7. ASSUME Eject PROVE ContentsInv'
  BY <1>7 DEF Eject, ContentsInv, Idle
<1>8. CASE UNCHANGED vars
  BY <1>8 DEF vars, ContentsInv
<1> QED
  BY <1>1, <1>2, <1>3, <1>4, <1>5, <1>6, <1>7, <1>8 DEF Next, WriteSector

\* If no write to the disk comes up short, data in RAM stays within its
\* buffer, and a slot for which no warning was shown holds exactly what the
\* host has sent to it.
THEOREM ContentsCorrect ==
  ASSUME "full" \notin Faults
  PROVE  Spec => [](BufferBounds /\ NothingSilentlyLost)
<1>1. Init => TypeOK /\ FilesInv /\ ContentsInv
  BY InitTypes, InitFiles, InitContents
<1>2. TypeOK /\ FilesInv /\ ContentsInv /\ [Next]_vars => (TypeOK /\ FilesInv /\ ContentsInv)'
  BY StepTypes, StepFiles, StepContents
<1>3. ContentsInv => BufferBounds /\ NothingSilentlyLost
  <2>1. ContentsInv => BufferBounds
    BY DEF ContentsInv, Bounded, BufferBounds
  <2>2. ContentsInv => NothingSilentlyLost
    BY DEF ContentsInv, Keeps, StoredIn, Stored, NothingSilentlyLost
  <2> QED
    BY <2>1, <2>2
<1> QED
  BY <1>1, <1>2, <1>3, PTL DEF Spec

----------------------------------------------------------------------------
(* Claims *)

\* Cutting beyond the last sector changes nothing.
LEMMA CutCovers ==
  ASSUME NEW f \in Content, NEW n \in Int, \A p \in Positions : f[p] # Blank => p < n
  PROVE  Cut(f, n) = f
BY DEF Cut, Content

\* A claim of a slot not warned about saves what the host sent to it.
LEMMA ClaimedSaved ==
  ASSUME "full" \notin Faults, TypeOK, FilesInv, ContentsInv,
         NEW i \in Slots, NEW d \in Declared, Claimed(i, d)
  PROVE  SavedIntact'
<1>1. PICK writable \in BOOLEAN : saved' = ClaimOutcome(i, d, TRUE, writable)
  BY DEF Claimed, Outcomes
<1> SUFFICES ASSUME ~saved'.warned, saved'.writable
             PROVE  saved'.outcome = "saved" /\ saved'.data = saved'.want
  BY DEF SavedIntact
<1>2. i \notin warned /\ writable
  BY <1>1 DEF ClaimOutcome
<1> DEFINE q == pending[i]
           disk == InvalidatedStage(i, TRUE)
           data == sent[i]
<1>3. q.used /\ q \in Slot /\ data \in Content /\ q.start \in Clusters
  BY DEF Claimed, TypeOK
<1>4. Keeps(q, i, stage, cache, data)
  BY <1>2, <1>3 DEF ContentsInv
<1>5. q.size \in Nat /\ d \in Nat
  BY <1>3, DeclaredAssumption DEF Slot
<1>6. q.spilled => disk[q.start].exists /\ disk[q.start].data = data
  <2> SUFFICES ASSUME q.spilled PROVE disk[q.start].exists /\ disk[q.start].data = data
    OBVIOUS
  <2>1. stage[q.start].exists
    BY <1>4 DEF Keeps
  <2>2. CASE cache.slot = i
    <3>1. data = Overlay(stage[q.start].data, cache.held)
      BY <1>4, <2>2 DEF Keeps, StoredIn
    <3>2. cache.slot # NoSlot
      BY <2>2 DEF Slots, NoSlot
    <3>3. disk = [stage EXCEPT ![q.start].data = Overlay(stage[q.start].data, cache.held)]
      BY <2>1, <2>2, <3>2 DEF InvalidatedStage, Closed, Written
    <3>4. stage[q.start] \in File /\ stage \in [Clusters -> File]
      BY <1>3 DEF TypeOK
    <3> HIDE DEF disk, q, data
    <3>5. disk[q.start] =
            [stage[q.start] EXCEPT !.data = Overlay(stage[q.start].data, cache.held)]
      BY <1>3, <3>3, <3>4
    <3> QED
      BY <2>1, <3>1, <3>4, <3>5 DEF File
  <2>3. CASE cache.slot # i
    BY <1>4, <2>1, <2>3 DEF Keeps, StoredIn, InvalidatedStage
  <2> QED
    BY <2>2, <2>3
<1>7. ClaimedData(i, TRUE) = data
  BY <1>4, <1>6 DEF ClaimedData, Written, Keeps, StoredIn
<1>8. \A p \in Positions : data[p] # Blank => p < q.size
  BY <1>4 DEF Keeps
<1>9. saved'.outcome = "saved"
  BY <1>1, <1>2, <1>6 DEF ClaimOutcome
<1>10. saved'.data = Cut(data, FinalSize(i, d))
  BY <1>1, <1>2, <1>6, <1>7 DEF ClaimOutcome
<1>11. saved'.want = IF d = 0 THEN data ELSE Cut(data, d)
  BY <1>1 DEF ClaimOutcome
<1> HIDE DEF data, disk
<1>12. CASE d # 0 /\ d < q.size
  BY <1>9, <1>10, <1>11, <1>12 DEF FinalSize
<1>13. CASE ~(d # 0 /\ d < q.size)
  <2>1. Cut(data, q.size) = data
    BY <1>3, <1>5, <1>8, CutCovers
  <2>2. d # 0 => Cut(data, d) = data
    <3> SUFFICES ASSUME d # 0 PROVE Cut(data, d) = data
      OBVIOUS
    <3>1. \A p \in Positions : data[p] # Blank => p < d
      BY <1>5, <1>8, <1>13 DEF Positions
    <3> QED
      BY <1>3, <1>5, <3>1, CutCovers
  <2>3. FinalSize(i, d) = q.size
    BY <1>13 DEF FinalSize
  <2> QED
    BY <1>9, <1>10, <1>11, <2>1, <2>2, <2>3
<1> QED
  BY <1>12, <1>13

\* If no write to the disk comes up short, a claim of a slot for which no
\* warning was shown makes the file the host sent, whenever it can be created.
THEOREM ClaimsCorrect ==
  ASSUME "full" \notin Faults
  PROVE  Spec => []SavedIntact
<1>1. Init => TypeOK /\ FilesInv /\ ContentsInv /\ SavedIntact
  BY InitTypes, InitFiles, InitContents DEF Init, SavedIntact, NoSave
<1>2. TypeOK /\ FilesInv /\ ContentsInv /\ SavedIntact /\ [Next]_vars
        => (TypeOK /\ FilesInv /\ ContentsInv /\ SavedIntact)'
  <2> SUFFICES ASSUME TypeOK, FilesInv, ContentsInv, SavedIntact, [Next]_vars
               PROVE  SavedIntact'
    BY StepTypes, StepFiles, StepContents
  <2>1. CASE UNCHANGED vars
    BY <2>1 DEF vars, SavedIntact
  <2>2. CASE saved' = NoSave
    BY <2>2 DEF SavedIntact, NoSave
  <2>3. CASE \E c \in Clusters, d \in Declared : ClaimName(c, d)
    <3>1. PICK i \in Slots, d \in Declared : Claimed(i, d)
      BY <2>3 DEF ClaimName
    <3> QED
      BY <3>1, ClaimedSaved
  <2>4. Next => saved' = NoSave \/ \E c \in Clusters, d \in Declared : ClaimName(c, d)
    BY DEF Next, WriteSector, WriteMatched, WriteFresh, WriteEvicting, PutSector,
           WriteFat, Discard, Eject
  <2> QED
    BY <2>1, <2>2, <2>3, <2>4
<1> QED
  BY <1>1, <1>2, PTL DEF Spec

----------------------------------------------------------------------------
(* The RAM account: the total kept by hand is the size of the buffers. *)

\* The units of RAM that slots P hold, and those of slot i alone.
Units(P) == {u \in Slots \X (0 .. SlotCap - 1) : P[u[1]].used /\ u[2] < P[u[1]].cap}
CapOf(P, i) == IF P[i].used THEN P[i].cap ELSE 0

LEMMA UnitsFinite == \A P : IsFiniteSet(Units(P))
<1> SUFFICES ASSUME NEW P PROVE IsFiniteSet(Units(P))
  OBVIOUS
<1>1. IsFiniteSet(Slots) /\ IsFiniteSet(0 .. SlotCap - 1)
  BY SlotsAssumption, CapsAssumption, FS_Interval DEF Slots
<1>2. IsFiniteSet(Slots \X (0 .. SlotCap - 1))
  BY <1>1, FS_Product
<1>3. Units(P) \in SUBSET (Slots \X (0 .. SlotCap - 1))
  BY DEF Units
<1> QED
  BY <1>2, <1>3, FS_Subset

\* The units of one slot are as many as its buffer has.
LEMMA UnitsOfSlot ==
  ASSUME NEW P \in [Slots -> Slot], NEW i \in Slots
  PROVE  Cardinality({u \in Units(P) : u[1] = i}) = CapOf(P, i) /\ CapOf(P, i) \in Nat
<1> DEFINE n == CapOf(P, i)
<1>1. n \in 0 .. SlotCap
  BY CapsAssumption DEF CapOf, Slot
<1>2. n \in Nat /\ n <= SlotCap /\ SlotCap \in Nat
  BY <1>1, CapsAssumption
<1>3. {u \in Units(P) : u[1] = i} = {i} \X (0 .. n - 1)
  <2>1. ASSUME NEW u, u \in Units(P), u[1] = i PROVE u \in {i} \X (0 .. n - 1)
    <3>1. PICK j \in Slots, k \in 0 .. SlotCap - 1 : u = <<j, k>> /\ P[j].used /\ k < P[j].cap
      BY <2>1 DEF Units
    <3>2. j = i /\ k < n
      BY <2>1, <3>1 DEF CapOf
    <3>3. k \in 0 .. n - 1
      BY <1>2, <3>2
    <3> QED
      BY <3>1, <3>2, <3>3
  <2>2. ASSUME NEW u \in {i} \X (0 .. n - 1) PROVE u \in Units(P) /\ u[1] = i
    <3>1. PICK k \in 0 .. n - 1 : u = <<i, k>>
      BY <2>2
    <3>2. k \in Nat /\ k < n
      BY <1>2
    <3>3. k \in 0 .. SlotCap - 1
      BY <1>2, <3>2
    <3>4. P[i].used /\ n = P[i].cap
      BY <3>2 DEF CapOf
    <3> QED
      BY <3>1, <3>2, <3>3, <3>4 DEF Units
  <2> QED
    BY <2>1, <2>2
<1> HIDE DEF n
<1>4. Cardinality({i}) = 1 /\ IsFiniteSet({i})
  BY FS_Singleton
<1>5. PICK T : T = 0 .. n - 1
  OBVIOUS
<1>6. IsFiniteSet(T) /\ Cardinality(T) = n
  <2>1. IsFiniteSet(0 .. n - 1) /\ Cardinality(0 .. n - 1) = n
    BY <1>2, FS_Interval
  <2> QED
    BY <1>5, <2>1
<1>7. Cardinality({i} \X T) = n
  <2>1. Cardinality({i} \X T) = Cardinality({i}) * Cardinality(T)
    BY <1>4, <1>6, FS_Product
  <2>2. Cardinality({i} \X T) = 1 * n
    BY <1>4, <1>6, <2>1
  <2> QED
    BY <1>2, <2>2
<1>8. Cardinality({u \in Units(P) : u[1] = i}) = n
  BY <1>3, <1>5, <1>7
<1> QED
  BY <1>2, <1>8 DEF n

\* A change of one slot changes the number of units by what its buffer gained.
LEMMA UnitsChange ==
  ASSUME NEW P \in [Slots -> Slot], NEW Q \in [Slots -> Slot], NEW i \in Slots,
         \A j \in Slots : j # i => Q[j] = P[j]
  PROVE  Cardinality(Units(Q)) = Cardinality(Units(P)) - CapOf(P, i) + CapOf(Q, i)
<1> DEFINE Of(F) == {u \in Units(F) : u[1] = i}
           Off(F) == {u \in Units(F) : u[1] # i}
<1>1. Off(P) = Off(Q)
  BY DEF Units
<1>2. ASSUME NEW F \in [Slots -> Slot]
      PROVE  /\ Cardinality(Units(F)) = Cardinality(Off(F)) + CapOf(F, i)
             /\ Cardinality(Off(F)) \in Nat /\ CapOf(F, i) \in Nat
  <2>1. IsFiniteSet(Of(F)) /\ IsFiniteSet(Off(F))
    <3>1. Of(F) \in SUBSET Units(F) /\ Off(F) \in SUBSET Units(F)
      OBVIOUS
    <3> QED
      BY <3>1, UnitsFinite, FS_Subset
  <2>2. Units(F) = Off(F) \cup Of(F) /\ Off(F) \cap Of(F) = {}
    OBVIOUS
  <2>3. Cardinality(Of(F)) = CapOf(F, i) /\ CapOf(F, i) \in Nat
    BY UnitsOfSlot
  <2> HIDE DEF Of, Off
  <2>4. Cardinality(Units(F)) = Cardinality(Off(F)) + Cardinality(Of(F)) - Cardinality({})
    BY <2>1, <2>2, FS_Union
  <2>5. Cardinality({}) = 0 /\ Cardinality(Off(F)) \in Nat
    BY <2>1, FS_EmptySet, FS_CardinalityType
  <2> QED
    BY <2>3, <2>4, <2>5
<1> HIDE DEF Off
<1>3. /\ Cardinality(Units(P)) = Cardinality(Off(P)) + CapOf(P, i)
      /\ Cardinality(Off(P)) \in Nat /\ CapOf(P, i) \in Nat
  BY <1>2
<1>4. Cardinality(Units(Q)) = Cardinality(Off(Q)) + CapOf(Q, i) /\ CapOf(Q, i) \in Nat
  BY <1>2
<1> QED
  BY <1>1, <1>3, <1>4

\* A change of slot i that moves the total by what its buffer gained keeps the account.
LEMMA AccountKept ==
  ASSUME TypeOK, RamAccounting, NEW i \in Slots, NEW x \in Slot,
         pending' = [pending EXCEPT ![i] = x],
         ramTotal' = ramTotal - CapOf(pending, i) + (IF x.used THEN x.cap ELSE 0),
         ramTotal' <= GlobalCap
  PROVE  RamAccounting'
<1>1. pending \in [Slots -> Slot]
  BY DEF TypeOK
<1>2. pending' \in [Slots -> Slot]
  BY <1>1
<1>3. pending'[i] = x /\ \A j \in Slots : j # i => pending'[j] = pending[j]
  BY <1>1
<1>4. CapOf(pending', i) = IF x.used THEN x.cap ELSE 0
  BY <1>3 DEF CapOf
<1>5. Cardinality(Units(pending')) = Cardinality(Units(pending)) - CapOf(pending, i) + CapOf(pending', i)
  BY <1>1, <1>2, <1>3, UnitsChange
<1>6. RamUnits = Units(pending) /\ RamUnits' = Units(pending')
  BY DEF RamUnits, Units
<1> QED
  BY <1>4, <1>5, <1>6 DEF RamAccounting

\* Storing a sector keeps it, whichever way the routing came by the slot.
LEMMA PutSectorAccount ==
  ASSUME TypeOK, RamAccounting, NEW i, NEW r, NEW p \in ChainPositions, NEW s \in Sectors,
         NEW v \in Values, NEW total, NEW stg, NEW ch, NEW before, NEW unwarned,
         Routed(i, r, stg, ch, before, unwarned, total),
         r.used, total = ramTotal - CapOf(pending, i) + r.cap, total <= GlobalCap,
         PutSector(i, r, p, s, v, total, stg, ch, before, unwarned)
  PROVE  RamAccounting'
<1> DEFINE off == p * ClusterSectors + s
<1>1. i \in Slots /\ r \in Slot /\ total \in Int /\ r.cap \in Nat /\ off \in Positions /\ off \in Nat
  BY OffsetInPositions, CapsAssumption DEF Routed, Slot, Positions
<1>2. ramTotal \in Int /\ CapOf(pending, i) \in Nat /\ GlobalCap \in Nat
  <2>1. pending \in [Slots -> Slot] /\ ramTotal \in Int
    BY DEF TypeOK
  <2> QED
    BY <1>1, <2>1, UnitsOfSlot, CapsAssumption
<1>3. PutInRam(i, r, off, v, total) \/ PutOnDisk(i, r, off, v, total, stg, ch)
  BY DEF PutSector
<1> HIDE DEF off
<1>4. CASE PutInRam(i, r, off, v, total)
  <2>1. PICK cap \in 1 .. SlotCap :
          /\ \/ cap = r.cap
             \/ CanGrow(r, off + 1, total) /\ cap = GrownCap(off + 1)
          /\ pending' = [pending EXCEPT ![i] = RamSlot(r, cap, off, v)]
          /\ ramTotal' = total + (cap - r.cap)
    BY <1>4 DEF PutInRam
  <2>2. RamSlot(r, cap, off, v) \in Slot
    BY <1>1, SlotTypes
  <2> DEFINE x == RamSlot(r, cap, off, v)
  <2>3. x.used /\ x.cap = cap
    <3>1. x.cap = cap /\ (x.used = r.used)
      BY <1>1 DEF RamSlot, Slot
    <3> HIDE DEF x
    <3> QED
      BY <3>1
  <2>4. cap \in Nat
    BY CapsAssumption
  <2>5. ramTotal' = ramTotal - CapOf(pending, i) + cap
    BY <1>1, <1>2, <2>1, <2>4
  <2>6. ramTotal' <= GlobalCap
    BY <1>1, <1>2, <2>1, <2>4 DEF CanGrow
  <2>7. x \in Slot /\ pending' = [pending EXCEPT ![i] = x]
    BY <2>1, <2>2
  <2> HIDE DEF x
  <2>8. ramTotal' = ramTotal - CapOf(pending, i) + (IF x.used THEN x.cap ELSE 0)
    BY <2>3, <2>5
  <2> QED
    BY <1>1, <2>6, <2>7, <2>8, AccountKept
<1>5. CASE PutOnDisk(i, r, off, v, total, stg, ch)
  <2>1. ramTotal' = total - r.cap
    BY <1>5 DEF PutOnDisk
  <2>2. PICK x \in {DiskSlot(r, off), SpiltSlot(r)} : pending' = [pending EXCEPT ![i] = x]
    BY <1>5 DEF PutOnDisk
  <2>3. x \in Slot /\ x.cap = 0
    <3>1. DiskSlot(r, off) \in Slot /\ SpiltSlot(r) \in Slot
      BY <1>1, SlotTypes
    <3>2. DiskSlot(r, off).cap = 0 /\ SpiltSlot(r).cap = 0
      BY <1>1, SlotFields
    <3> QED
      BY <3>1, <3>2
  <2>4. ramTotal' = ramTotal - CapOf(pending, i) + (IF x.used THEN x.cap ELSE 0)
    BY <1>1, <1>2, <2>1, <2>3
  <2>5. ramTotal' <= GlobalCap
    BY <1>1, <1>2, <2>1
  <2> QED
    BY <1>1, <2>2, <2>3, <2>4, <2>5, AccountKept
<1> QED
  BY <1>3, <1>4, <1>5

\* Giving a slot up takes its buffer off the total.
LEMMA DroppedAccount ==
  ASSUME TypeOK, RamAccounting, NEW i \in Slots, NEW c, LocatePending(i, c), Dropped(i)
  PROVE  RamAccounting'
<1>1. pending[i].used /\ pending \in [Slots -> Slot] /\ ramTotal \in Int
  BY DEF LocatePending, Holds, TypeOK
<1>2. CapOf(pending, i) \in Nat /\ CapOf(pending, i) = pending[i].cap
  BY <1>1, UnitsOfSlot DEF CapOf
<1>3. Idle \in Slot /\ ~Idle.used
  BY ConstantTypes DEF Idle
<1>4. pending' = [pending EXCEPT ![i] = Idle] /\ ramTotal' = ramTotal - pending[i].cap
  BY DEF Dropped
<1>5. ramTotal' = ramTotal - CapOf(pending, i) + 0
  BY <1>1, <1>2, <1>4
<1>6. ramTotal' <= GlobalCap
  BY <1>1, <1>2, <1>4, CapsAssumption DEF RamAccounting
<1> QED
  BY <1>3, <1>4, <1>5, <1>6, AccountKept

LEMMA InitAccount == Init => RamAccounting
<1> SUFFICES ASSUME Init PROVE RamAccounting
  OBVIOUS
<1>1. RamUnits = {}
  BY DEF Init, RamUnits, Idle
<1> QED
  BY <1>1, FS_EmptySet, CapsAssumption DEF Init, RamAccounting

LEMMA StepAccount == TypeOK /\ RamAccounting /\ [Next]_vars => RamAccounting'
<1> SUFFICES ASSUME TypeOK, RamAccounting, [Next]_vars PROVE RamAccounting'
  OBVIOUS
<1>0. /\ pending \in [Slots -> Slot] /\ ramTotal \in Int /\ evictNext \in Slots
      /\ ramTotal <= GlobalCap /\ GlobalCap \in Nat
  BY CapsAssumption DEF TypeOK, RamAccounting
<1>1. ASSUME NEW c \in Clusters, NEW s \in Sectors, NEW v \in Values, WriteMatched(c, s, v)
      PROVE  RamAccounting'
  <2>1. PICK i \in Slots, p \in ChainPositions :
          /\ LocatePending(i, c)
          /\ PutSector(i, Advanced(i, c), p, s, v, ramTotal, stage, cache, sent[i], warned)
    BY <1>1 DEF WriteMatched
  <2>2. Advanced(i, c).used /\ Advanced(i, c).cap = CapOf(pending, i) /\ CapOf(pending, i) \in Nat
    BY <1>0, <2>1, AdvancedType, UnitsOfSlot DEF LocatePending, Holds, CapOf
  <2>3. ramTotal = ramTotal - CapOf(pending, i) + Advanced(i, c).cap
    BY <1>0, <2>2
  <2> QED
    BY <1>0, <2>1, <2>2, <2>3, RoutedMatched, PutSectorAccount
<1>2. ASSUME NEW c \in Clusters, NEW s \in Sectors, NEW v \in Values, WriteFresh(c, s, v)
      PROVE  RamAccounting'
  <2>1. PICK i \in Slots :
          /\ ~pending[i].used
          /\ PutSector(i, NewSlot(c), 0, s, v, ramTotal, stage, cache, Blanks, warned \ {i})
    BY <1>2 DEF WriteFresh
  <2>2. NewSlot(c).used /\ NewSlot(c).cap = 0
    BY DEF NewSlot, Idle
  <2>3. ramTotal = ramTotal - CapOf(pending, i) + NewSlot(c).cap
    BY <1>0, <2>1, <2>2 DEF CapOf
  <2> QED
    BY <1>0, <2>1, <2>2, <2>3, RoutedFresh, FirstPosition, PutSectorAccount
<1>3. ASSUME NEW c \in Clusters, NEW s \in Sectors, NEW v \in Values, WriteEvicting(c, s, v)
      PROVE  RamAccounting'
  <2> DEFINE i == evictNext
  <2>1. PutSector(i, NewSlot(c), 0, s, v, ramTotal - pending[i].cap,
                  Removed(stage, pending[i].start), Invalidated(i), Blanks, warned \ {i})
    BY <1>3 DEF WriteEvicting
  <2>2. NewSlot(c).used /\ NewSlot(c).cap = 0
    BY DEF NewSlot, Idle
  <2>3. pending[i].used
    BY <1>0, <1>3 DEF WriteEvicting
  <2>4. CapOf(pending, i) = pending[i].cap /\ CapOf(pending, i) \in Nat
    BY <1>0, <2>3, UnitsOfSlot DEF CapOf
  <2>5. /\ ramTotal - pending[i].cap = ramTotal - CapOf(pending, i) + NewSlot(c).cap
        /\ ramTotal - pending[i].cap <= GlobalCap
    BY <1>0, <2>2, <2>4
  <2>6. Routed(i, NewSlot(c), Removed(stage, pending[i].start), Invalidated(i),
               Blanks, warned \ {i}, ramTotal - pending[i].cap)
    BY <1>0, RoutedEvicting
  <2> QED
    BY <2>1, <2>2, <2>5, <2>6, FirstPosition, PutSectorAccount
<1>4. ASSUME UNCHANGED <<pending, ramTotal>> PROVE RamAccounting'
  BY <1>4 DEF RamAccounting, RamUnits
<1>5. ASSUME NEW c \in Clusters, NEW d \in Declared, ClaimName(c, d) PROVE RamAccounting'
  BY <1>5, DroppedAccount DEF ClaimName
<1>6. ASSUME NEW c \in Clusters, Discard(c) PROVE RamAccounting'
  BY <1>6, DroppedAccount DEF Discard
<1>7. ASSUME Eject PROVE RamAccounting'
  <2>1. RamUnits' = {}
    BY <1>7 DEF Eject, RamUnits, Idle
  <2>2. ramTotal' = 0
    BY <1>0, <1>7 DEF Eject, RamAccounting
  <2> QED
    BY <1>0, <2>1, <2>2, FS_EmptySet DEF RamAccounting
<1>8. ASSUME NEW w \in FatWrites, WriteFat(w[1], w[2]) PROVE RamAccounting'
  BY <1>4, <1>8 DEF WriteFat
<1>9. CASE UNCHANGED vars
  BY <1>4, <1>9 DEF vars
<1> QED
  BY <1>1, <1>2, <1>3, <1>5, <1>6, <1>7, <1>8, <1>9 DEF Next, WriteSector

\* fatfs_pending_ram_total, adjusted by hand at nine places of usb_fatfs.h, is at
\* every moment the RAM held, and within the budget, for every number of slots,
\* every budget and every mix of growth, spilling, eviction, claims and discards.
THEOREM RamAccounted == Spec => []RamAccounting
<1>1. Init => TypeOK /\ RamAccounting
  BY InitTypes, InitAccount
<1>2. TypeOK /\ RamAccounting /\ [Next]_vars => (TypeOK /\ RamAccounting)'
  BY StepTypes, StepAccount
<1> QED
  BY <1>1, <1>2, PTL DEF Spec
============================================================================
