----------------------------- MODULE ClusterMap -----------------------------
(***************************************************************************)
(* Where a data sector goes: fatfs_locate_cluster finds the file a cluster *)
(* belongs to by walking the host's own FAT mirror from the start cluster  *)
(* of each entry, and remembers the last cluster it did not find, so that  *)
(* the run of writes of a new file is not searched for sector by sector.   *)
(*                                                                         *)
(* The host edits files and writes the FAT, data sectors and directory     *)
(* entries back in any order, and reads sectors.                           *)
(*                                                                         *)
(* Abstractions: data for no known file goes to the staging area, which    *)
(* keeps it until its entry comes (Staging, DirEntries); one directory of  *)
(* files; the FAT is one sector; sizes are in sectors; fopen succeeds.     *)
(***************************************************************************)
EXTENDS Integers, Sequences, FiniteSets

CONSTANTS
  LastCluster,      \* clusters are 2..LastCluster
  ClusterSectors,   \* FATFS_CLUSTER_SECTORS: 8
  MaxEdits,         \* bound on what the host does to its files
  MaxReads          \* bound on reads

ASSUME SizesAssumption == LastCluster \in Nat /\ LastCluster >= 2 /\ ClusterSectors \in Nat \ {0}
ASSUME BoundsAssumption == MaxEdits \in Nat /\ MaxReads \in Nat

VARIABLES
  entries,   \* fatfs_entries: start cluster, size, deleted
  fat,       \* fatfs_fat_table
  miss,      \* fatfs_locate_cluster_cache_cluster and _gen
  real,      \* the files on the calculator: position |-> data
  staged,    \* the staging area: sector |-> data
  files,     \* the host's files: chain of clusters, live
  dirty,     \* sectors the host has yet to write
  edits, reads,
  answer,    \* the last read: sector and data
  strays     \* history: sectors of known files whose data went to the staging area

device == <<entries, fat, miss, real, staged>>
host == <<files, dirty, edits, reads>>
vars == <<device, host, answer, strays>>

Clusters == 2..LastCluster
Sectors == 0..(LastCluster - 1) * ClusterSectors - 1
Unused == 0
End == 65535
NoCluster == 0

(* There are FATFS_MAX_CLUSTERS = 24576 of them.                             *)
ASSUME EndAssumption == End \notin Clusters

ClusterOf(s) == 2 + s \div ClusterSectors
First(c) == (c - 2) * ClusterSectors
SectorsOf(c) == First(c)..First(c) + ClusterSectors - 1

(* The data of sector p of file f.                                          *)
Data(f, p) == [file |-> f, at |-> p]
Zeros == [file |-> 0, at |-> 0]

Init ==
  /\ entries = <<[start |-> 2, size |-> ClusterSectors, deleted |-> FALSE]>>
  /\ fat = [c \in Clusters |-> IF c = 2 THEN End ELSE Unused]
  /\ miss = [cluster |-> NoCluster, gen |-> 0]
  /\ real = <<[p \in 0..ClusterSectors - 1 |-> Data(1, p)]>> /\ staged = <<>>
  /\ files = <<[chain |-> <<2>>, live |-> TRUE]>> /\ dirty = {} /\ edits = 0 /\ reads = 0
  /\ answer = [sector |-> 0, data |-> Zeros] /\ strays = {}

-----------------------------------------------------------------------------
(* fatfs_locate_cluster.                                                    *)

FatNext(table, c) == table[c]

(* The chain from c in the mirror: it ends at the first value that is no     *)
(* cluster.                                                                  *)
Chain(table, start) ==
  LET walk[n \in 1..LastCluster] ==
        IF n = 1 THEN <<start>>
        ELSE LET before == walk[n - 1]
                 next == FatNext(table, before[Len(before)])
             IN  IF Len(before) < n - 1 \/ next \notin Clusters THEN before
                 ELSE Append(before, next)
  IN  walk[LastCluster]

PositionsIn(i, c) ==
  LET chain == Chain(fat, entries[i].start)
  IN  {k \in 1..Len(chain) : chain[k] = c}
OwnersOf(c) == {i \in 1..Len(entries) : ~entries[i].deleted /\ PositionsIn(i, c) # {}}
SmallestOf(S) == CHOOSE x \in S : \A y \in S : x <= y

KnownMiss(c) == c = miss.cluster + 1 /\ miss.gen = Len(entries)
Found(c) == ~KnownMiss(c) /\ OwnersOf(c) # {}
Owner(c) == SmallestOf(OwnersOf(c))

\* Mutant: the place in the chain is left out.
OffsetInCluster(s) == s % ClusterSectors
\* Mutant: the place in the chain is counted from one.
OffsetFromOne(s) ==
  SmallestOf(PositionsIn(Owner(ClusterOf(s)), ClusterOf(s))) * ClusterSectors
    + (s % ClusterSectors)

Offset(s) ==
  (SmallestOf(PositionsIn(Owner(ClusterOf(s)), ClusterOf(s))) - 1) * ClusterSectors
    + (s % ClusterSectors)

(* What the cache is after a lookup for sector s.                           *)
Looked(s) ==
  LET c == ClusterOf(s)
  IN  miss' = IF Found(c) THEN miss
              ELSE [cluster |-> c, gen |-> IF KnownMiss(c) THEN miss.gen ELSE Len(entries)]

-----------------------------------------------------------------------------
(* fatfs_write_volume_sector and fatfs_read_volume_sector.                  *)

Position(f, s) ==
  LET chain == files[f].chain
      k == CHOOSE j \in 1..Len(chain) : chain[j] = ClusterOf(s)
  IN  (k - 1) * ClusterSectors + (s % ClusterSectors)
HostOwners(s) == {f \in 1..Len(files) : files[f].live /\ \E j \in 1..Len(files[f].chain) :
                                                          files[f].chain[j] = ClusterOf(s)}
Meant(s) == IF HostOwners(s) = {} THEN Zeros
            ELSE LET f == SmallestOf(HostOwners(s)) IN Data(f, Position(f, s))

Put(content, k, x) == [p \in DOMAIN content \cup {k} |-> IF p = k THEN x ELSE content[p]]

WriteData(s) ==
  /\ s \in dirty
  /\ IF Found(ClusterOf(s))
       THEN /\ real' = [real EXCEPT ![Owner(ClusterOf(s))] = Put(@, Offset(s), Meant(s))]
            /\ UNCHANGED staged
       ELSE staged' = Put(staged, s, Meant(s)) /\ UNCHANGED real
  /\ Looked(s)
  /\ dirty' = dirty \ {s}
  /\ strays' = IF Found(ClusterOf(s)) \/ HostOwners(s) \cap (1..Len(entries)) = {}
                 THEN strays \ {s} ELSE strays \cup {s}
  /\ UNCHANGED <<entries, fat, files, edits, reads, answer>>

\* Mutant: the size is taken for clusters.
ContentByClusters(s) ==
  LET i == Owner(ClusterOf(s))
  IN  IF Offset(s) < entries[i].size \div ClusterSectors /\ Offset(s) \in DOMAIN real[i]
      THEN real[i][Offset(s)] ELSE Zeros

Content(s) ==
  LET i == Owner(ClusterOf(s))
  IN  IF Offset(s) < entries[i].size /\ Offset(s) \in DOMAIN real[i] THEN real[i][Offset(s)]
      ELSE Zeros

ReadData(s) ==
  /\ HostOwners(s) # {} /\ reads < MaxReads /\ reads' = reads + 1
  /\ answer' = [sector |-> s, data |-> IF Found(ClusterOf(s)) THEN Content(s) ELSE Zeros]
  /\ Looked(s)
  /\ UNCHANGED <<entries, fat, real, staged, files, dirty, edits, strays>>

(* The host's own FAT.  Writes to the second copy change nothing.            *)
HostFat(c) ==
  LET at == {x \in (1..Len(files)) \X (1..LastCluster) :
               files[x[1]].live /\ x[2] <= Len(files[x[1]].chain) /\ files[x[1]].chain[x[2]] = c}
  IN  IF at = {} THEN Unused
      ELSE LET x == CHOOSE y \in at : TRUE
           IN  IF x[2] < Len(files[x[1]].chain) THEN files[x[1]].chain[x[2] + 1] ELSE End

WriteFat ==
  /\ fat' = [c \in Clusters |-> HostFat(c)]
  /\ fat' # fat
  /\ UNCHANGED <<entries, miss, real, staged, host, answer, strays>>

(* A directory sector: sizes follow, and files shrink with them; an entry    *)
(* marked deleted is live again if it is there; a new one takes its data     *)
(* from the staging area, and the cached miss is not used any more.          *)
SizeOf(f) == Len(files[f].chain) * ClusterSectors
StagedFor(f) ==
  LET at(s) == Position(f, s)
      mine == {s \in DOMAIN staged : f \in HostOwners(s)}
  IN  [p \in {at(s) : s \in mine} |-> staged[CHOOSE s \in mine : at(s) = p]]
Cut(content, size) == [p \in {q \in DOMAIN content : q < size} |-> content[p]]

Entry(f) == [start |-> files[f].chain[1], size |-> SizeOf(f), deleted |-> ~files[f].live]

WriteDirectory ==
  /\ entries' = [f \in 1..Len(files) |-> Entry(f)]
  /\ entries' # entries
  /\ real' = [f \in 1..Len(files) |->
               IF f > Len(entries) THEN StagedFor(f)
               ELSE IF SizeOf(f) < entries[f].size THEN Cut(real[f], SizeOf(f)) ELSE real[f]]
  /\ staged' = [s \in {q \in DOMAIN staged : HostOwners(q) \cap (Len(entries) + 1..Len(files)) = {}}
                 |-> staged[s]]
  /\ UNCHANGED <<fat, miss, host, answer, strays>>

-----------------------------------------------------------------------------
(* The host's edits, in its own memory.  It gives a cluster to another file  *)
(* only after it has written out that it is free.                            *)

Editing == edits < MaxEdits /\ edits' = edits + 1
Vacant ==
  {c \in Clusters : /\ \A f \in 1..Len(files) : \A k \in 1..Len(files[f].chain) : files[f].chain[k] # c
                    /\ fat[c] = Unused}
Settled(f) == f <= Len(entries) /\ entries[f] = Entry(f)

Grow(f) ==
  /\ Editing /\ files[f].live
  /\ \E c \in Vacant :
       /\ files' = [files EXCEPT ![f].chain = Append(@, c)]
       /\ dirty' = dirty \cup SectorsOf(c)
       /\ strays' = strays \ SectorsOf(c)
  /\ UNCHANGED <<device, reads, answer>>

Shrink(f) ==
  /\ Editing /\ files[f].live /\ Len(files[f].chain) > 1 /\ Settled(f)
  /\ files' = [files EXCEPT ![f].chain = SubSeq(@, 1, Len(@) - 1)]
  /\ dirty' = dirty \ SectorsOf(files[f].chain[Len(files[f].chain)])
  /\ UNCHANGED <<device, reads, answer, strays>>

Create ==
  /\ Editing
  /\ \E c \in Vacant :
       /\ files' = Append(files, [chain |-> <<c>>, live |-> TRUE])
       /\ dirty' = dirty \cup SectorsOf(c)
       /\ strays' = strays \ SectorsOf(c)
  /\ UNCHANGED <<device, reads, answer>>

(* A file taken away and put back where it was, as a rename in two writes    *)
(* does.                                                                     *)
Toggle(f) ==
  /\ Editing /\ Settled(f)
  /\ \A k \in 1..Len(files[f].chain) : SectorsOf(files[f].chain[k]) \cap dirty = {}
  /\ files' = [files EXCEPT ![f].live = ~@]
  /\ UNCHANGED <<device, dirty, reads, answer, strays>>

-----------------------------------------------------------------------------
Next ==
  \/ \E s \in Sectors : WriteData(s) \/ ReadData(s)
  \/ WriteFat \/ WriteDirectory \/ Create
  \/ \E f \in 1..Len(files) : Grow(f) \/ Shrink(f) \/ Toggle(f)
Spec == Init /\ [][Next]_vars

-----------------------------------------------------------------------------
(* The variables have their types; no file holds more than the volume.      *)
TypeOK ==
  /\ \A i \in 1..Len(entries) :
       entries[i].start \in Clusters /\ entries[i].size \in 1..Cardinality(Sectors)
  /\ fat \in [Clusters -> Clusters \cup {Unused, End}]
  /\ miss.cluster \in Clusters \cup {NoCluster} /\ miss.gen \in 0..Len(entries)
  /\ \A i \in 1..Len(real) : DOMAIN real[i] \subseteq Sectors
  /\ DOMAIN staged \subseteq Sectors /\ dirty \subseteq Sectors

(* A sector the host has written never reads as the data of another file, or *)
(* of another place in its own: only as its data, or not at all.             *)
NoCrossTalk ==
  \A s \in Sectors \ (dirty \cup strays) : \A f \in HostOwners(s) \cap (1..Len(entries)) :
    Position(f, s) \in DOMAIN real[f] => real[f][Position(f, s)] = Data(f, Position(f, s))

AllWritten ==
  /\ dirty = {} /\ \A f \in 1..Len(files) : Settled(f)
  /\ \A c \in Clusters : fat[c] = HostFat(c)

(* When everything is written back, in whatever order it was, the calculator *)
(* has every sector of every file in its place, but for those that went      *)
(* astray: data of a known file that came before its link, or was missed.    *)
Stored ==
  AllWritten =>
    \A s \in Sectors \ strays : \A f \in HostOwners(s) :
      Position(f, s) \in DOMAIN real[f] /\ real[f][Position(f, s)] = Data(f, Position(f, s))

(* Then a read returns what the host wrote, unless it follows a miss of the  *)
(* cluster before.                                                           *)
ReadsStored ==
  [][LET s == answer'.sector
     IN  reads' # reads /\ AllWritten /\ HostOwners(s) # {}
           => answer'.data = Meant(s) \/ s \in strays \/ KnownMiss(ClusterOf(s))]_vars

(* Data for a cluster that the mirror links to a file reaches that file: the *)
(* cluster after a miss is "guaranteed" to be another.                       *)
LinkedDataLands == [][\A s \in strays' \ strays : OwnersOf(ClusterOf(s)) = {}]_vars
=============================================================================
