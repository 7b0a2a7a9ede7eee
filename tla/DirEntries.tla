---------------------------- MODULE DirEntries ----------------------------
(***************************************************************************)
(* Directory tables of usb_fatfs.h.  The host keeps its own copy of every  *)
(* directory and writes whole table sectors; each time one arrives, every  *)
(* slot of it is interpreted again, in order: erased slots mark a tracked  *)
(* file deleted, live ones resize, rename, claim or create one.  Nothing   *)
(* is removed from the disk before the eject, which flushes the deletes.   *)
(*                                                                         *)
(* The host is the environment: it creates, edits, renames, moves and      *)
(* deletes files in its cache, and its data and table writes reach the     *)
(* calculator later, in any order.  HostOps says which habits it has.      *)
(*                                                                         *)
(* Abstractions: a file is one cluster, its content a sequence of sectors; *)
(* a short name is its first byte and the other ten, and stands for the    *)
(* long name too; the directories themselves stay in place; what a cluster *)
(* has pending is kept whole until it is claimed (module Staging).         *)
(***************************************************************************)
EXTENDS Integers, SequencesExt

CONSTANTS
  Dirs,           \* directories with a table
  Names,          \* short names: <<byte 0, bytes 1-10>>
  DotNames,       \* names that start with a dot
  StagingNames,   \* names that contain ".sb-"
  MaxCluster,     \* data clusters are 2 .. MaxCluster
  TableSlots,     \* 32-byte slots per table
  MaxEntries,     \* FATFS_MAX_ENTRIES
  Contents,       \* what the host writes into files
  Hole,           \* stands for no file
  InitialFiles,   \* the disk at first: a function from paths to contents
  HostOps,        \* what the host may do
  MaxOps          \* bound on the host's operations

Paths == Dirs \X Names
Clusters == 2 .. MaxCluster
TableIndex == 1 .. TableSlots
Absent == <<Hole>>

Values == UNION {{x[i] : i \in DOMAIN x} : x \in Contents}

ASSUME SizesAssumption ==
  /\ TableSlots \in Nat \ {0} /\ MaxEntries \in Nat /\ MaxOps \in Nat /\ MaxCluster \in Nat
ASSUME NamesAssumption ==
  /\ DotNames \subseteq Names /\ StagingNames \subseteq Names
  /\ IsFiniteSet(Dirs) /\ IsFiniteSet(Names)
ASSUME ContentsAssumption == Contents \subseteq Seq(Values) /\ Hole \notin Values
ASSUME InitialAssumption ==
  /\ DOMAIN InitialFiles \subseteq Paths /\ Cardinality(DOMAIN InitialFiles) < MaxCluster
  /\ \A p \in DOMAIN InitialFiles : InitialFiles[p] \in Seq(Values)
ASSUME HostAssumption ==
  HostOps \subseteq {"create", "touch", "edit", "empty", "overwrite", "delete", "rename",
                     "replace", "exchange", "reuse", "stale", "hasty", "kill"}

VARIABLES
  entries,   \* fatfs_entries
  disk,      \* the real files
  staged,    \* pending data, by cluster
  up,        \* the volume is being served
  tbl,       \* the host's copy of the directory tables
  dirty,     \* <<directory, slot>>s changed since the host last wrote their table
  data,      \* what the host wrote, or means to write, to each cluster
  unsent,    \* clusters whose data the host has yet to write
  used,      \* history: clusters allocated since the volume was mounted
  past,      \* history: <<path, how>> of the host's operations since then
  ops        \* host operations so far

device == <<entries, disk, staged>>
vars == <<device, up, tbl, dirty, data, unsent, used, past, ops>>

FreeSlot == [mark |-> "free", name |-> <<>>, cluster |-> 0, size |-> 0]
LiveSlot(nm, c, n) == [mark |-> "live", name |-> nm, cluster |-> c, size |-> n]
ErasedSlot(s) == [s EXCEPT !.mark = "erased"]

Entry(p, c, n) == [dir |-> p[1], name |-> p[2], start |-> c, size |-> n, deleted |-> FALSE]
PathOf(e) == <<e.dir, e.name>>

UpTo(x, n) == SubSeq(x, 1, IF n < Len(x) THEN n ELSE Len(x))
Over(new, old) == new \o SubSeq(old, Len(new) + 1, Len(old))

----------------------------------------------------------------------------
(* fatfs_init: the scan lays out clusters and tables for the files found,   *)
(* in the order readdir returns them; the host reads the tables.            *)

Existing(files) == {p \in DOMAIN files : files[p] # Absent}

\* Mutant: clusters counted from 1.
ScannedFromOne(order, files) ==
  [i \in DOMAIN order |-> Entry(order[i], i, Len(files[order[i]]))]
Scanned(order, files) ==
  [i \in DOMAIN order |-> Entry(order[i], i + 1, Len(files[order[i]]))]

\* The place of entry i among those of its directory.
Rank(ents, i) == Cardinality({j \in 1 .. i : ents[j].dir = ents[i].dir})
ServedTable(d, ents) ==
  LET at(k) == {i \in DOMAIN ents : ents[i].dir = d /\ Rank(ents, i) = k} IN
  [k \in TableIndex |->
     IF at(k) = {} THEN FreeSlot
     ELSE LET e == ents[CHOOSE i \in at(k) : TRUE] IN LiveSlot(e.name, e.start, e.size)]

\* The state after a mount of the given files, which order lists.
Mounted(order, files) ==
  [entries |-> Scanned(order, files),
   tbl |-> [d \in Dirs |-> ServedTable(d, Scanned(order, files))],
   data |-> [c \in Clusters |-> IF c - 1 \in DOMAIN order THEN files[order[c - 1]] ELSE <<>>],
   used |-> {i + 1 : i \in DOMAIN order}]

Init ==
  \E order \in SetToSeqs(DOMAIN InitialFiles) :
    LET m == Mounted(order, InitialFiles) IN
    /\ entries = m.entries /\ tbl = m.tbl /\ data = m.data /\ used = m.used
    /\ disk = [p \in Paths |-> IF p \in DOMAIN InitialFiles THEN InitialFiles[p] ELSE Absent]
    /\ staged = [c \in Clusters |-> Absent]
    /\ up = TRUE
    /\ dirty = {} /\ unsent = {} /\ past = {} /\ ops = 0

----------------------------------------------------------------------------
(* fatfs_handle_short_entry_write.  v is the device's state, [entries, disk,*)
(* staged]; s the slot of directory d being interpreted.                    *)

\* fatfs_find_entry
FindEntry(v, d, nm) ==
  SelectInSeq(v.entries, LAMBDA e : ~e.deleted /\ e.dir = d /\ e.name = nm)

\* Mutant: the cluster is not compared.
FindForDeleteByName(v, d, s) ==
  SelectInSeq(v.entries, LAMBDA e : ~e.deleted /\ e.dir = d /\ e.name[2] = s.name[2])
\* fatfs_find_entry_for_delete: the first byte of the name is gone.
FindForDelete(v, d, s) ==
  SelectInSeq(v.entries, LAMBDA e : /\ ~e.deleted /\ e.dir = d /\ e.name[2] = s.name[2]
                                    /\ e.start \in {0, s.cluster})

\* Deletes are remembered, not executed.
Erase(v, d, s) ==
  LET i == FindForDelete(v, d, s) IN
  IF i = 0 THEN v ELSE [v EXCEPT !.entries[i].deleted = TRUE]

\* fatfs_truncate_file
Truncated(files, p, n) ==
  IF files[p] = Absent THEN files ELSE [files EXCEPT ![p] = UpTo(@, n)]

\* A live slot that names a tracked file: its size, and perhaps its cluster.
Resize(v, i, s) ==
  LET e == v.entries[i] IN
  [v EXCEPT !.entries[i].size = s.size,
            !.entries[i].start = IF s.cluster # 0 THEN s.cluster ELSE @,
            !.disk = IF s.size # 0 /\ s.size # e.size THEN Truncated(@, PathOf(e), s.size) ELSE @]

\* fatfs_copy_and_remove: opening the copy truncates it, whatever it was.
\* Mutant: removed before it is copied.
RemoveAndCopy(files, old, new) == [files EXCEPT ![old] = Absent]
CopyAndRemove(files, old, new) ==
  LET copied == [files EXCEPT ![new] = IF new = old THEN <<>> ELSE files[old]]
  IN  [copied EXCEPT ![old] = Absent]

\* Tracked files other than k at the destination of a rename.
Overwritten(v, k, p) ==
  [i \in DOMAIN v.entries |->
     IF i # k /\ ~v.entries[i].deleted /\ PathOf(v.entries[i]) = p
     THEN [v.entries[i] EXCEPT !.deleted = TRUE] ELSE v.entries[i]]

\* A new name on the cluster of a tracked file, deleted ones included: the
\* file is renamed or moved.
Reclaim(v, k, d, s) ==
  LET e == v.entries[k]
      others == Overwritten(v, k, <<d, s.name>>)
      size == IF s.size # 0 THEN s.size ELSE e.size
  IN  IF s.name \in DotNames \cup StagingNames THEN v
      ELSE IF v.disk[PathOf(e)] = Absent
      THEN [v EXCEPT !.entries = [others EXCEPT ![k].deleted = FALSE]]
      ELSE [v EXCEPT !.entries = [others EXCEPT ![k] = Entry(<<d, s.name>>, e.start, size)],
                     !.disk = CopyAndRemove(@, PathOf(e), <<d, s.name>>)]

\* The entry of a new file takes the place of any other with its path.
Place(ents, e) ==
  LET i == SelectInSeq(ents, LAMBDA o : PathOf(o) = PathOf(e)) IN
  IF i = 0 THEN Append(ents, e) ELSE [ents EXCEPT ![i] = e]

\* No data has come for it: an empty file, whatever size is declared.
CreateEmpty(v, p, s) ==
  [v EXCEPT !.entries = Place(@, Entry(p, s.cluster, 0)), !.disk[p] = <<>>]

\* The pending data becomes the file; a smaller declared size cuts it.
Claim(v, p, s) ==
  LET x == v.staged[s.cluster]
      kept == IF s.size # 0 THEN UpTo(x, s.size) ELSE x
  IN  [v EXCEPT !.entries = Place(@, Entry(p, s.cluster, Len(kept))),
                !.disk[p] = kept, !.staged[s.cluster] = Absent]

Create(v, d, s) ==
  IF s.name \in DotNames THEN [v EXCEPT !.staged[s.cluster] = Absent]
  ELSE IF s.name \in StagingNames THEN v
  ELSE IF v.staged[s.cluster] = Absent THEN CreateEmpty(v, <<d, s.name>>, s)
  ELSE Claim(v, <<d, s.name>>, s)

\* The file whose cluster this is, be it deleted.
FindByCluster(v, c) == SelectInSeq(v.entries, LAMBDA e : e.start = c)

\* Mutant: a renamed file is taken for a new one.
HandleLiveNoReclaim(v, d, s) ==
  LET i == FindEntry(v, d, s.name) IN
  IF i # 0 THEN Resize(v, i, s)
  ELSE IF Len(v.entries) >= MaxEntries \/ s.cluster = 0 THEN v ELSE Create(v, d, s)
HandleLive(v, d, s) ==
  LET i == FindEntry(v, d, s.name)
      k == FindByCluster(v, s.cluster)
  IN  IF i # 0 THEN Resize(v, i, s)
      ELSE IF Len(v.entries) >= MaxEntries \/ s.cluster = 0 THEN v
      ELSE IF k # 0 THEN Reclaim(v, k, d, s)
      ELSE Create(v, d, s)

Handle(v, d, s) ==
  IF s.mark = "free" THEN v ELSE IF s.mark = "erased" THEN Erase(v, d, s) ELSE HandleLive(v, d, s)

\* fatfs_scan_dir_table_write: every slot, first to last.
Interpreted(d) ==
  LET after[k \in 0 .. TableSlots] ==
        IF k = 0 THEN [entries |-> entries, disk |-> disk, staged |-> staged]
        ELSE Handle(after[k - 1], d, tbl[d][k])
  IN  after[TableSlots]

----------------------------------------------------------------------------
(* What reaches the calculator *)

\* The host writes a table sector, whether it has changed or not.
WriteTable(d) ==
  /\ up
  /\ LET after == Interpreted(d)
     IN  entries' = after.entries /\ disk' = after.disk /\ staged' = after.staged
  /\ dirty' = {x \in dirty : x[1] # d}
  /\ UNCHANGED <<up, tbl, data, unsent, used, past, ops>>

\* fatfs_locate_cluster
Locate(c) == SelectInSeq(entries, LAMBDA e : ~e.deleted /\ e.start = c)

\* The host writes the data of a cluster: into its file if it is tracked (and
\* the file is still there), else to the staging area.
WriteData(c) ==
  /\ up /\ c \in unsent
  /\ IF Locate(c) # 0
     THEN LET p == PathOf(entries[Locate(c)]) IN
          /\ disk' = IF disk[p] = Absent THEN disk ELSE [disk EXCEPT ![p] = Over(data[c], @)]
          /\ staged' = staged
     ELSE /\ disk' = disk
          /\ staged' = [staged EXCEPT ![c] = IF @ = Absent THEN data[c] ELSE Over(data[c], @)]
  /\ unsent' = unsent \ {c}
  /\ UNCHANGED <<entries, up, tbl, dirty, data, used, past, ops>>

\* Mutant: deletes are never executed.
NotFlushed == disk
\* fatfs_flush_pending_deletes
Flushed ==
  [p \in Paths |-> IF \E i \in DOMAIN entries : entries[i].deleted /\ PathOf(entries[i]) = p
                   THEN Absent ELSE disk[p]]

\* Esc or Tab: deletes are executed and unclaimed data is discarded.
Eject ==
  /\ up /\ up' = FALSE
  /\ disk' = Flushed
  /\ staged' = [c \in Clusters |-> Absent]
  /\ UNCHANGED <<entries, tbl, dirty, data, unsent, used, past, ops>>

\* The calculator is reset or loses power: deletes are not executed.
Kill ==
  /\ up /\ "kill" \in HostOps /\ up' = FALSE
  /\ staged' = [c \in Clusters |-> Absent]
  /\ UNCHANGED <<entries, disk, tbl, dirty, data, unsent, used, past, ops>>

\* The next session starts from the files on the disk (bound: MaxCluster).
Mount ==
  /\ ~up /\ up' = TRUE
  /\ Cardinality(Existing(disk)) < MaxCluster
  /\ \E order \in SetToSeqs(Existing(disk)) :
       LET m == Mounted(order, disk) IN
       entries' = m.entries /\ tbl' = m.tbl /\ data' = m.data /\ used' = m.used
  /\ dirty' = {} /\ unsent' = {} /\ past' = {}
  /\ UNCHANGED <<disk, staged, ops>>

----------------------------------------------------------------------------
(* The host (environment): its cache of the tables, ahead of the device     *)

Live(t, d) == {k \in TableIndex : t[d][k].mark = "live"}
Vacant(d, k) == tbl[d][k].mark # "live"
Named(d, nm) == \E k \in Live(tbl, d) : tbl[d][k].name = nm
Allocated(c) == \E d \in Dirs : \E k \in Live(tbl, d) : tbl[d][k].cluster = c
Kept == Names \ (DotNames \cup StagingNames)

\* An erased slot of t that could be taken for a live file of its directory.
Ambiguous(t) ==
  \E d \in Dirs : \E k \in Live(t, d), j \in TableIndex :
    t[d][j].mark = "erased" /\ t[d][j].name[2] = t[d][k].name[2] /\ t[d][j].cluster = t[d][k].cluster

\* One more operation, if the host has the habit.
Operate(op) == up /\ op \in HostOps /\ ops < MaxOps /\ ops' = ops + 1

\* The host turns its tables into t, which differs in the given slots.
HostTables(t, slots) ==
  /\ Ambiguous(t) => "stale" \in HostOps
  /\ (\E x \in slots : x \in dirty \/ tbl[x[1]][x[2]].cluster \in unsent) => "hasty" \in HostOps
  /\ tbl' = t
  /\ dirty' = dirty \cup slots
  /\ UNCHANGED <<device, up>>

\* Cluster c is given content x, to be written some time later.
HostData(c, x) ==
  /\ data' = [data EXCEPT ![c] = x]
  /\ unsent' = unsent \cup {c}
  /\ used' = used \cup {c}
NoData == UNCHANGED <<data, unsent, used>>

Did(how, ps) == past' = past \cup {<<p, how>> : p \in ps}

\* A path a file left is free again once the tables are written.
Reusable(p) == (\E how \in {"deleted", "moved"} : <<p, how>> \in past) /\ dirty # {} => "hasty" \in HostOps

\* The next cluster never used, or one that is free again.
Allocatable(c) ==
  /\ ~Allocated(c)
  /\ IF c \in used THEN "reuse" \in HostOps ELSE \A b \in Clusters : b < c => b \in used

HostCreate(d, k, nm, c, x) ==
  /\ Operate("create")
  /\ Vacant(d, k) /\ ~Named(d, nm) /\ Allocatable(c)
  /\ Reusable(<<d, nm>>)
  /\ HostTables([tbl EXCEPT ![d][k] = LiveSlot(nm, c, Len(x))], {<<d, k>>})
  /\ HostData(c, x)
  /\ Did("written", {<<d, nm>>})

\* An empty file has no cluster.
HostTouch(d, k, nm) ==
  /\ Operate("touch")
  /\ Vacant(d, k) /\ ~Named(d, nm) /\ Reusable(<<d, nm>>)
  /\ HostTables([tbl EXCEPT ![d][k] = LiveSlot(nm, 0, 0)], {<<d, k>>})
  /\ NoData
  /\ Did("written", {<<d, nm>>})

\* New content in the same cluster.
HostEdit(d, k, x) ==
  /\ Operate("edit")
  /\ k \in Live(tbl, d) /\ tbl[d][k].cluster # 0
  /\ HostTables([tbl EXCEPT ![d][k].size = Len(x)], {<<d, k>>})
  /\ HostData(tbl[d][k].cluster, x)
  /\ Did("written", {<<d, tbl[d][k].name>>})

\* New content in a newly allocated cluster.
HostOverwrite(d, k, c, x) ==
  /\ Operate("overwrite")
  /\ k \in Live(tbl, d) /\ Allocatable(c)
  /\ HostTables([tbl EXCEPT ![d][k].size = Len(x), ![d][k].cluster = c], {<<d, k>>})
  /\ HostData(c, x)
  /\ Did("written", {<<d, tbl[d][k].name>>})

HostEmpty(d, k) ==
  /\ Operate("empty")
  /\ k \in Live(tbl, d)
  /\ HostTables([tbl EXCEPT ![d][k].size = 0, ![d][k].cluster = 0], {<<d, k>>})
  /\ NoData
  /\ Did("written", {<<d, tbl[d][k].name>>})

HostDelete(d, k) ==
  /\ Operate("delete")
  /\ k \in Live(tbl, d)
  /\ HostTables([tbl EXCEPT ![d][k] = ErasedSlot(@)], {<<d, k>>})
  /\ unsent' = unsent \ {tbl[d][k].cluster}
  /\ Did("deleted", {<<d, tbl[d][k].name>>})
  /\ UNCHANGED <<data, used>>

\* A rename or move, in the same slot or into a vacant one.  A dot file, whose
\* data is discarded, keeps its name.
HostRename(d, k, e, j, nm) ==
  /\ Operate("rename")
  /\ k \in Live(tbl, d) /\ (<<e, j>> = <<d, k>> \/ Vacant(e, j)) /\ ~Named(e, nm)
  /\ Reusable(<<e, nm>>)
  /\ tbl[d][k].name \notin DotNames
  /\ <<<<e, nm>>, "deleted">> \in past => "replace" \in HostOps
  /\ HostTables([[tbl EXCEPT ![d][k] = ErasedSlot(@)]
                   EXCEPT ![e][j] = [tbl[d][k] EXCEPT !.name = nm]], {<<d, k>>, <<e, j>>})
  /\ NoData
  /\ past' = past \cup {<<<<d, tbl[d][k].name>>, "moved">>, <<<<e, nm>>, "written">>}

\* A rename onto another file: the other's slot gets this one's cluster.
HostExchange(d, k, e, j) ==
  /\ Operate("exchange")
  /\ k \in Live(tbl, d) /\ j \in Live(tbl, e) /\ <<e, j>> # <<d, k>>
  /\ HostTables([[tbl EXCEPT ![d][k] = ErasedSlot(@)]
                   EXCEPT ![e][j] = [tbl[d][k] EXCEPT !.name = tbl[e][j].name]], {<<d, k>>, <<e, j>>})
  /\ NoData
  /\ past' = past \cup {<<<<d, tbl[d][k].name>>, "moved">>, <<<<e, tbl[e][j].name>>, "written">>}

HostStep ==
  \E d \in Dirs, k \in TableIndex :
    \/ \E nm \in Names, c \in Clusters, x \in Contents : HostCreate(d, k, nm, c, x)
    \/ \E nm \in Kept : HostTouch(d, k, nm)
    \/ \E x \in Contents : HostEdit(d, k, x)
    \/ \E c \in Clusters, x \in Contents : HostOverwrite(d, k, c, x)
    \/ HostEmpty(d, k)
    \/ HostDelete(d, k)
    \/ \E e \in Dirs, j \in TableIndex, nm \in Kept : HostRename(d, k, e, j, nm)
    \/ \E e \in Dirs, j \in TableIndex : HostExchange(d, k, e, j)

Next ==
  \/ HostStep
  \/ \E d \in Dirs : WriteTable(d)
  \/ \E c \in Clusters : WriteData(c)
  \/ Eject
  \/ Kill
  \/ Mount

Spec == Init /\ [][Next]_vars

----------------------------------------------------------------------------
(* What the live directory handling promises *)

TypeOK ==
  /\ entries \in Seq([dir : Dirs, name : Names, start : {0} \cup Clusters, size : Nat,
                      deleted : BOOLEAN])
  /\ Len(entries) <= MaxEntries
  /\ DOMAIN disk = Paths /\ DOMAIN staged = Clusters
  /\ up \in BOOLEAN
  /\ dirty \subseteq Dirs \X TableIndex /\ unsent \subseteq Clusters /\ used \subseteq Clusters

\* What the host believes a path to hold.
HostFile(p) ==
  LET slots == {k \in Live(tbl, p[1]) : tbl[p[1]][k].name = p[2]} IN
  IF slots = {} THEN Absent
  ELSE LET c == tbl[p[1]][CHOOSE k \in slots : TRUE].cluster IN IF c = 0 THEN <<>> ELSE data[c]

Settled == dirty = {} /\ unsent = {}

\* Once the host has written all it had to write and the volume is ejected,
\* the disk holds the host's files, with their contents, and no others.
EjectedAsHostSawIt ==
  ~up /\ Settled => \A p \in Dirs \X Kept : disk[p] = HostFile(p)

\* No two tracked files share a path or a first cluster: lookups by either
\* are unambiguous.
TrackedApart ==
  \A i, j \in DOMAIN entries :
    i # j /\ ~entries[i].deleted /\ ~entries[j].deleted =>
      PathOf(entries[i]) # PathOf(entries[j]) /\ entries[i].start # entries[j].start

\* A tracked file that is not deleted is on the disk.
TrackedExists ==
  up => \A i \in DOMAIN entries : ~entries[i].deleted => disk[PathOf(entries[i])] # Absent

\* Writing a clean table again, as hosts often do, moves, deletes and changes
\* nothing.
RewriteHarmless ==
  up => \A d \in {e \in Dirs : \A k \in TableIndex : <<e, k>> \notin dirty} :
    LET again == Interpreted(d)
    IN  /\ again.disk = disk
        /\ \A i \in DOMAIN entries :
             /\ again.entries[i].deleted = entries[i].deleted
             /\ PathOf(again.entries[i]) = PathOf(entries[i])

\* Whatever the host does to other files, and in whatever order its writes
\* come, a file it has not operated on since the mount keeps its content.
BystandersUntouched ==
  \A p \in Dirs \X Kept : (\A h \in past : h[1] # p) => disk[p] = HostFile(p)

----------------------------------------------------------------------------
(* What the comments promise of hosts with other habits *)

\* "The later, true rename (same cluster, real name) will claim it below"
\* (usb_fatfs.h:2039): no data the host's final names refer to stays staged.
StagedIsClaimed ==
  up /\ Settled =>
    \A d \in Dirs : \A k \in Live(tbl, d) :
      tbl[d][k].name \in Kept /\ tbl[d][k].cluster # 0 => staged[tbl[d][k].cluster] = Absent

\* "a genuinely new, empty file with no content expected yet -- create it
\* directly" (usb_fatfs.h:2043).
NewFilesExist ==
  up /\ Settled => \A p \in Dirs \X Kept : HostFile(p) # Absent => disk[p] # Absent

\* The stale entry of an overwritten file is marked deleted so that the
\* deferred-delete cleanup does not "remove the just-renamed file too, since
\* both entries point at the same real path" (usb_fatfs.h:1942).
FlushSparesTracked ==
  \A i, j \in DOMAIN entries :
    ~entries[i].deleted /\ entries[j].deleted => PathOf(entries[i]) # PathOf(entries[j])

\* "Creating a new file: detected live from directory-entry writes"
\* (usb_fatfs.h:26): a new file on a cluster used before has its own data.
NewFilesHoldTheirData ==
  ~up /\ Settled => \A p \in Dirs \X Kept : HostFile(p) # Absent => disk[p] = HostFile(p)
=============================================================================
