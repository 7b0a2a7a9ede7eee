------------------------------ MODULE Staging ------------------------------
(***************************************************************************)
(* The staging area of usb_fatfs.h: data sectors the USB host writes to    *)
(* clusters that belong to no named file yet are collected in one of       *)
(* FATFS_MAX_PENDING slots, first in a growing RAM buffer, then (once the  *)
(* buffer outgrows its budget, or RAM is refused) in a staging file on the *)
(* calculator's own disk, written through one cached FILE handle.  A later *)
(* directory entry that names the cluster claims the slot and turns it     *)
(* into a real file; hidden and dot entries discard it; an eject cleans up.*)
(*                                                                         *)
(* Every handler runs to completion in the polled main loop, so one        *)
(* handler call is one action; the interleaving is that of the host's      *)
(* data, FAT and directory writes, and the faults are those of the heap    *)
(* and of the disk.  Sizes and capacities are counted in sectors.  Whether *)
(* a cluster already belongs to a named file (fatfs_locate_cluster) is     *)
(* decided outside this module: WriteSector is the untracked branch.       *)
(***************************************************************************)
EXTENDS Integers, FiniteSets

CONSTANTS
  Clusters,        \* data clusters no scanned file occupies
  MaxPending,      \* FATFS_MAX_PENDING
  ClusterSectors,  \* FATFS_CLUSTER_SECTORS
  InitCap,         \* first RAM buffer (256 KiB), in sectors
  SlotCap,         \* FATFS_PENDING_RAM_PER_SLOT_CAP, in sectors
  GlobalCap,       \* FATFS_PENDING_RAM_GLOBAL_CAP, in sectors
  Values,          \* what a sector may contain
  Blank,           \* a sector nothing was written to
  FatWrites,       \* the <<cluster, link>> entries the host may write
  Declared,        \* file sizes a directory entry may carry (bound)
  Faults           \* which of "realloc", "open", "full" may happen

\* A FAT entry: free, a link, or the end of a chain.
FatValues == Clusters \cup {0, 65535}

ASSUME ClustersAssumption == IsFiniteSet(Clusters)
ASSUME NumbersAssumption == Clusters \subseteq 2..65527
ASSUME SlotsAssumption == MaxPending \in Nat \ {0} /\ ClusterSectors \in Nat \ {0}
ASSUME CapsAssumption ==
  /\ InitCap \in Nat \ {0} /\ SlotCap \in Nat /\ GlobalCap \in Nat
  /\ InitCap <= SlotCap
ASSUME BlankAssumption == Blank \notin Values
ASSUME FatAssumption == FatWrites \subseteq Clusters \X FatValues
ASSUME DeclaredAssumption == Declared \subseteq Nat
ASSUME FaultsAssumption == Faults \subseteq {"realloc", "open", "full"}

VARIABLES
  pending,    \* fatfs_pending: the slots
  ramTotal,   \* fatfs_pending_ram_total
  evictNext,  \* fatfs_pending_evict_next
  cache,      \* fatfs_stage_cache_{handle,slot,pos} and what the handle buffers
  stage,      \* the staging files, named after their slot's start cluster
  fat,        \* fatfs_fat_table, mirrored from the host's writes
  warned,     \* slots for which "couldn't stage data" was put on the screen
  sent,       \* history: what the host has sent to each slot since allocation
  saved       \* outcome of this step, if it was a claim

vars == <<pending, ramTotal, evictNext, cache, stage, fat, warned, sent, saved>>

----------------------------------------------------------------------------
Slots == 0 .. MaxPending - 1
NoSlot == -1
UnknownPos == -1
ChainPositions == 0 .. Cardinality(Clusters) - 1
Sectors == 0 .. ClusterSectors - 1
Positions == 0 .. Cardinality(Clusters) * ClusterSectors - 1

Content == [Positions -> Values \cup {Blank}]
Blanks == [p \in Positions |-> Blank]
Overlay(below, above) ==
  [p \in Positions |-> IF above[p] # Blank THEN above[p] ELSE below[p]]
Cut(data, n) == [p \in Positions |-> IF p < n THEN data[p] ELSE Blank]

\* FatPending, without its progress-display fields.  ram_buf is non-NULL
\* exactly when ram_cap > 0.
Slot == [used : BOOLEAN, start : Clusters \cup {0}, last : Clusters \cup {0},
         count : Nat, size : Nat, ram : Content, cap : 0 .. SlotCap,
         spilled : BOOLEAN]

\* No field of an unused slot is ever read, so freeing one erases it.
Idle == [used |-> FALSE, start |-> 0, last |-> 0, count |-> 0, size |-> 0,
         ram |-> Blanks, cap |-> 0, spilled |-> FALSE]
NewSlot(c) == [Idle EXCEPT !.used = TRUE, !.start = c, !.last = c, !.count = 1]

File == [exists : BOOLEAN, data : Content]
Absent == [exists |-> FALSE, data |-> Blanks]

\* The FILE behind the cache: `at` is its own position, `pos` what the code
\* believes it to be, `held` what has not been flushed to the disk yet.
Handle == [slot : Slots \cup {NoSlot}, pos : Nat \cup {UnknownPos},
           at : Nat, held : Content]
NoHandle == [slot |-> NoSlot, pos |-> UnknownPos, at |-> 0, held |-> Blanks]

Outcome == [outcome : {"none", "saved", "failed"}, warned : BOOLEAN,
            writable : BOOLEAN, data : Content, want : Content]
NoSave == [outcome |-> "none", warned |-> FALSE, writable |-> TRUE,
           data |-> Blanks, want |-> Blanks]

\* TRUE: the call succeeds.  FALSE is possible only for a fault we allow.
Outcomes(fault) == IF fault \in Faults THEN BOOLEAN ELSE {TRUE}
Written(data, whole) == IF whole THEN data ELSE Blanks

\* The RAM held by the slots, one element per sector of every buffer.
RamUnits == {u \in Slots \X (0 .. SlotCap - 1) :
               pending[u[1]].used /\ u[2] < pending[u[1]].cap}

Init ==
  /\ pending = [i \in Slots |-> Idle]
  /\ ramTotal = 0
  /\ evictNext = 0
  /\ cache = NoHandle
  /\ stage = [c \in Clusters |-> Absent]
  /\ fat = [c \in Clusters |-> 0]
  /\ warned = {}
  /\ sent = [i \in Slots |-> Blanks]
  /\ saved = NoSave

----------------------------------------------------------------------------
(* fatfs_locate_pending: which slot does a cluster continue? *)

IsLink(n) == n >= 2 /\ n < 65528

\* The clusters met walking the FAT from c; 0 past the end of the chain.
FatWalk(c) ==
  LET walk[n \in ChainPositions] ==
        IF n = 0 THEN c
        ELSE IF walk[n - 1] \in Clusters /\ IsLink(fat[walk[n - 1]])
             THEN fat[walk[n - 1]] ELSE 0
  IN  walk

AtChainPos(i, c, p) ==
  LET r == pending[i] IN
  IF c = r.start THEN p = 0
  ELSE IF c = r.last /\ r.count > 0 THEN p = r.count - 1
  ELSE IF c = r.last + 1 THEN p = r.count
  ELSE FatWalk(r.start)[p] = c /\ \A q \in 0 .. p - 1 : FatWalk(r.start)[q] # c

Holds(i, c) == pending[i].used /\ \E p \in ChainPositions : AtChainPos(i, c, p)

\* The slot the loop returns: the first one that holds c.
LocatePending(i, c) == Holds(i, c) /\ \A j \in Slots : j < i => ~Holds(j, c)
NotPending(c) == \A i \in Slots : ~Holds(i, c)

\* A sector of the cluster after the last one moves the slot's end along.
Advanced(i, c) ==
  IF c = pending[i].last + 1
  THEN [pending[i] EXCEPT !.last = c, !.count = @ + 1]
  ELSE pending[i]

----------------------------------------------------------------------------
(* The cached handle and the staging files *)

\* fclose of handle ch: what it holds reaches its file, unless the disk is full.
Closed(stg, ch, whole) ==
  IF ch.slot = NoSlot THEN stg
  ELSE LET c == pending[ch.slot].start IN
       IF stg[c].exists
       THEN [stg EXCEPT ![c].data = Overlay(@, Written(ch.held, whole))]
       ELSE stg

\* fatfs_stage_cache_invalidate
\* Mutant: the handle stays open.
NotInvalidated(i) == cache
Invalidated(i) == IF cache.slot = i THEN NoHandle ELSE cache
InvalidatedStage(i, whole) == IF cache.slot = i THEN Closed(stage, cache, whole) ELSE stage

\* remove(stage_path)
Removed(stg, c) == [stg EXCEPT ![c] = Absent]

\* fatfs_pending_spill of slot record r: RAM moves to the staging file.
Spilt(stg, r, opened, whole) ==
  IF r.spilled \/ r.cap = 0 \/ ~opened THEN stg
  ELSE [stg EXCEPT ![r.start] = [exists |-> TRUE, data |-> Written(r.ram, whole)]]
SpiltSlot(r) == [r EXCEPT !.spilled = TRUE, !.ram = Blanks, !.cap = 0]

----------------------------------------------------------------------------
(* Storing a sector in its slot: the RAM buffer, or the staging file *)

\* Capacities doubling from InitCap reaches, and the cap it is clamped to.
CapSteps == {n \in InitCap .. SlotCap : \E k \in 0 .. SlotCap : n = InitCap * 2^k} \cup {SlotCap}
GrownCap(needed) ==
  CHOOSE n \in CapSteps : n >= needed /\ \A m \in CapSteps : m >= needed => n <= m

CanGrow(r, needed, total) ==
  /\ needed <= SlotCap
  /\ total + (GrownCap(needed) - r.cap) <= GlobalCap

LargerOf(a, b) == IF a >= b THEN a ELSE b

\* The sector fits in RAM, where need be after growing the buffer.
RamSlot(r, cap, off, v) ==
  [r EXCEPT !.cap = cap, !.ram = [@ EXCEPT ![off] = v], !.size = LargerOf(@, off + 1)]

PutInRam(i, r, off, v, total) ==
  \E cap \in 1 .. SlotCap :
    /\ ~r.spilled
    /\ \/ off + 1 <= r.cap /\ cap = r.cap
       \/ off + 1 > r.cap /\ CanGrow(r, off + 1, total) /\ cap = GrownCap(off + 1)
    /\ pending' = [pending EXCEPT ![i] = RamSlot(r, cap, off, v)]
    /\ ramTotal' = total + (cap - r.cap)

\* The staging files once slot i has spilled and another slot's handle is closed.
\* Mutant: the other slot's handle is overwritten without fclose.
DiskForUnclosed(i, r, stg, ch, made, whole) == Spilt(stg, r, made, whole)
DiskFor(i, r, stg, ch, made, whole) ==
  IF ch.slot = i THEN Spilt(stg, r, made, whole)
  ELSE Closed(Spilt(stg, r, made, whole), ch, whole)

\* The cached handle made ready for slot i: fopen "r+b" wants an existing file.
HandleFor(i, r, disk, ch, opened) ==
  IF ch.slot = i THEN ch
  ELSE IF disk[r.start].exists /\ opened THEN [NoHandle EXCEPT !.slot = i]
  ELSE NoHandle

\* fseek unless the position is already believed right, then fwrite.
HandlePut(h, off, v) ==
  LET at == IF h.pos = off THEN h.at ELSE off IN
  [slot |-> h.slot, pos |-> off + 1, at |-> at + 1, held |-> [h.held EXCEPT ![at] = v]]
DiskSlot(r, off) == [SpiltSlot(r) EXCEPT !.size = LargerOf(@, off + 1)]

\* The sector goes to the staging file, the slot spilling first if it has not.
PutOnDisk(i, r, off, v, total, stg, ch) ==
  /\ \/ r.spilled
     \/ /\ off + 1 > r.cap
        /\ ~CanGrow(r, off + 1, total) \/ "realloc" \in Faults
  /\ ramTotal' = total - r.cap
  /\ \E made \in Outcomes("open"), whole \in Outcomes("full") :
       stage' = DiskFor(i, r, stg, ch, made, whole)
  /\ \E opened \in Outcomes("open") :
       LET h == HandleFor(i, r, stage', ch, opened) IN
       \/ /\ h.slot = i
          /\ cache' = HandlePut(h, off, v)
          /\ pending' = [pending EXCEPT ![i] = DiskSlot(r, off)]
       \/ /\ h.slot # i
          /\ cache' = h
          /\ pending' = [pending EXCEPT ![i] = SpiltSlot(r)]

\* Slot i, now record r, takes the sector at chain position p.  total, stg, ch
\* are ramTotal, stage and cache as the slot's routing left them.
PutSector(i, r, p, s, v, total, stg, ch, before, unwarned) ==
  LET off == p * ClusterSectors + s IN
  /\ sent' = [sent EXCEPT ![i] = [before EXCEPT ![off] = v]]
  /\ saved' = NoSave
  /\ \/ /\ PutInRam(i, r, off, v, total)
        /\ stage' = stg
        /\ cache' = ch
        /\ warned' = unwarned
     \/ /\ PutOnDisk(i, r, off, v, total, stg, ch)
        /\ warned' = IF cache'.slot = i THEN unwarned ELSE unwarned \cup {i}

----------------------------------------------------------------------------
(* fatfs_write_volume_sector, data area, cluster of no tracked entry *)

WriteMatched(c, s, v) ==
  \E i \in Slots, p \in ChainPositions :
    /\ LocatePending(i, c)
    /\ AtChainPos(i, c, p)
    /\ PutSector(i, Advanced(i, c), p, s, v, ramTotal, stage, cache, sent[i], warned)
    /\ UNCHANGED <<evictNext, fat>>

\* fatfs_alloc_pending with a slot to spare
WriteFresh(c, s, v) ==
  /\ NotPending(c)
  /\ \E i \in Slots :
       /\ ~pending[i].used
       /\ \A j \in Slots : j < i => pending[j].used
       /\ PutSector(i, NewSlot(c), 0, s, v, ramTotal, stage, cache, Blanks, warned \ {i})
  /\ UNCHANGED <<evictNext, fat>>

\* Mutant: the round-robin index is never wrapped.
NextVictimUnwrapped == evictNext + 1
NextVictim == (evictNext + 1) % MaxPending

\* fatfs_alloc_pending with every slot in use: round-robin eviction
WriteEvicting(c, s, v) ==
  /\ NotPending(c)
  /\ \A i \in Slots : pending[i].used
  /\ LET i == evictNext IN
       PutSector(i, NewSlot(c), 0, s, v, ramTotal - pending[i].cap,
                 Removed(stage, pending[i].start), Invalidated(i), Blanks, warned \ {i})
  /\ evictNext' = NextVictim
  /\ UNCHANGED fat

WriteSector(c, s, v) ==
  WriteMatched(c, s, v) \/ WriteFresh(c, s, v) \/ WriteEvicting(c, s, v)

\* The host updates its FAT: first copy mirrored, nothing else happens.
WriteFat(c, n) ==
  /\ fat[c] # n
  /\ fat' = [fat EXCEPT ![c] = n]
  /\ saved' = NoSave
  /\ UNCHANGED <<pending, ramTotal, evictNext, cache, stage, warned, sent>>

----------------------------------------------------------------------------
(* fatfs_handle_short_entry_write, where it meets a staged cluster *)

\* A slot is given up: its handle, its RAM and its staging file with it.
\* Mutant: the freed buffer is not taken off the total.
DroppedLeaky(i) ==
  /\ pending' = [pending EXCEPT ![i] = Idle]
  /\ ramTotal' = ramTotal
  /\ cache' = Invalidated(i)
  /\ warned' = warned \ {i}
  /\ sent' = [sent EXCEPT ![i] = Blanks]
Dropped(i) ==
  /\ pending' = [pending EXCEPT ![i] = Idle]
  /\ ramTotal' = ramTotal - pending[i].cap
  /\ cache' = Invalidated(i)
  /\ warned' = warned \ {i}
  /\ sent' = [sent EXCEPT ![i] = Blanks]

\* An entry with a final name claims the slot its cluster lies in.  The
\* staged data becomes the file; a smaller declared size cuts it.
FinalSize(i, declared) ==
  IF declared # 0 /\ declared < pending[i].size THEN declared ELSE pending[i].size

\* Mutant: the staging file is read before the handle is flushed.
ClaimedDataUnflushed(i, whole) ==
  Written(IF pending[i].spilled THEN stage[pending[i].start].data ELSE pending[i].ram, whole)
ClaimedData(i, whole) ==
  Written(IF pending[i].spilled THEN InvalidatedStage(i, whole)[pending[i].start].data
          ELSE pending[i].ram, whole)

\* Mutant: the staging file is copied but not removed.
ClaimedStageKept(i, whole) == InvalidatedStage(i, whole)
ClaimedStage(i, whole) ==
  IF pending[i].spilled THEN Removed(InvalidatedStage(i, whole), pending[i].start)
  ELSE InvalidatedStage(i, whole)

ClaimOutcome(i, declared, whole, writable) ==
  LET ok == writable /\ (pending[i].spilled =>
                           InvalidatedStage(i, whole)[pending[i].start].exists)
  IN  [outcome  |-> IF ok THEN "saved" ELSE "failed",
       warned   |-> i \in warned,
       writable |-> writable,
       data     |-> IF ok THEN Cut(ClaimedData(i, whole), FinalSize(i, declared)) ELSE Blanks,
       want     |-> IF declared = 0 THEN sent[i] ELSE Cut(sent[i], declared)]

Claimed(i, declared) ==
  /\ pending[i].used
  /\ \E whole \in Outcomes("full"), writable \in Outcomes("open") :
       /\ stage' = ClaimedStage(i, whole)
       /\ saved' = ClaimOutcome(i, declared, whole, writable)

ClaimName(c, declared) ==
  \E i \in Slots :
    /\ LocatePending(i, c)
    /\ Dropped(i)
    /\ Claimed(i, declared)
    /\ UNCHANGED <<evictNext, fat>>

\* A hidden entry, or one whose name starts with a dot.
Discard(c) ==
  \E i \in Slots :
    /\ LocatePending(i, c)
    /\ Dropped(i)
    /\ stage' = Removed(stage, pending[i].start)
    /\ saved' = NoSave
    /\ UNCHANGED <<evictNext, fat>>

\* fatfs_cleanup_pending_stage_files, then (on Tab) a fresh volume.
Eject ==
  /\ \E i \in Slots : pending[i].used
  /\ pending' = [i \in Slots |-> Idle]
  /\ ramTotal' = ramTotal - Cardinality(RamUnits)
  /\ stage' = [c \in Clusters |->
                 IF \E i \in Slots : pending[i].used /\ pending[i].start = c
                 THEN Absent ELSE stage[c]]
  /\ cache' = IF cache.slot # NoSlot /\ pending[cache.slot].used THEN NoHandle ELSE cache
  /\ fat' = [c \in Clusters |-> 0]
  /\ warned' = {}
  /\ sent' = [i \in Slots |-> Blanks]
  /\ saved' = NoSave
  /\ UNCHANGED evictNext

Next ==
  \/ \E c \in Clusters, s \in Sectors, v \in Values : WriteSector(c, s, v)
  \/ \E w \in FatWrites : WriteFat(w[1], w[2])
  \/ \E c \in Clusters, d \in Declared : ClaimName(c, d)
  \/ \E c \in Clusters : Discard(c)
  \/ Eject

Spec == Init /\ [][Next]_vars

----------------------------------------------------------------------------
(* What the staging area promises *)

\* The variables stay within their types.
TypeOK ==
  /\ pending \in [Slots -> Slot]
  /\ \A i \in Slots : pending[i].used => pending[i].start \in Clusters
  /\ ramTotal \in Int
  /\ evictNext \in Slots
  /\ cache \in Handle
  /\ stage \in [Clusters -> File]
  /\ fat \in [Clusters -> FatValues]
  /\ warned \in SUBSET Slots
  /\ sent \in [Slots -> Content]
  /\ saved \in Outcome

\* fatfs_pending_ram_total is kept by hand at nine places (growth, spill,
\* eviction, both discards, three outcomes of a claim, cleanup): it is always
\* the RAM really held, and never above the global budget.
RamAccounting == ramTotal = Cardinality(RamUnits) /\ ramTotal <= GlobalCap

\* No two slots in use share a start cluster, hence none share a staging
\* file: the file is named after the cluster, not after the slot.
DistinctStarts ==
  \A i, j \in Slots :
    pending[i].used /\ pending[j].used /\ pending[i].start = pending[j].start => i = j

\* An open cached handle belongs to a slot that is in use, has spilled and
\* still has its file, and its position is where the code believes it is, so
\* skipping the fseek of a sequential write is sound.
HandleCoherent ==
  cache.slot # NoSlot =>
    /\ pending[cache.slot].used /\ pending[cache.slot].spilled
    /\ stage[pending[cache.slot].start].exists
    /\ cache.pos # UnknownPos => cache.at = cache.pos

\* A staging file exists only for a slot in use that has spilled: claims,
\* discards, evictions and ejects leave no .usbstage litter behind.
NoLitter ==
  \A c \in Clusters : stage[c].exists =>
    \E i \in Slots : pending[i].used /\ pending[i].spilled /\ pending[i].start = c

\* Data in RAM lies inside the buffer, and inside the size a claim will copy
\* out of it; a slot that has not spilled has a buffer.
BufferBounds ==
  \A i \in Slots : pending[i].used /\ ~pending[i].spilled =>
    /\ pending[i].cap > 0
    /\ pending[i].size <= pending[i].cap
    /\ \A p \in Positions : pending[i].ram[p] # Blank => p < pending[i].size

\* What slot i would yield if it were claimed now.
Stored(i) ==
  LET r == pending[i] IN
  IF ~r.spilled THEN r.ram
  ELSE IF cache.slot = i THEN Overlay(stage[r.start].data, cache.held)
  ELSE stage[r.start].data

\* As long as no warning was shown for a slot, every sector the host sent to
\* it is still there with its last contents, through growth, spilling, handle
\* switches and other slots' eviction, claims and discards.
NothingSilentlyLost ==
  \A i \in Slots : pending[i].used /\ i \notin warned =>
    /\ Stored(i) = sent[i]
    /\ \A p \in Positions : sent[i][p] # Blank => p < pending[i].size

\* A file for which no RAM is to be had is staged on disk from its first byte
\* (usb_fatfs.h:2525): with a disk that never fails, no warning is ever shown.
RamRefusalFallsBackToDisk == warned = {}

\* A claim without a warning produces the file: it fails only if the final
\* file cannot be created, and the file has the sectors the host sent, up to
\* the size the host declared.
SavedIntact ==
  saved.outcome # "none" /\ ~saved.warned /\ saved.writable =>
    saved.outcome = "saved" /\ saved.data = saved.want
============================================================================
