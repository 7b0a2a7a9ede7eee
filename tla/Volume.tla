------------------------------- MODULE Volume -------------------------------
(***************************************************************************)
(* The volume a session serves (usb_fatfs.h, fatfs_init): the files and    *)
(* folders under the root are scanned depth first, in whatever order       *)
(* readdir lists them, each given a short name and an entry until a table  *)
(* is full; then clusters, FAT chains and directory tables are laid out.   *)
(*                                                                         *)
(* The entries that hide the volume from macOS come first; at the root of  *)
(* the file system, "documents" is scanned before anything else.           *)
(*                                                                         *)
(* Abstractions: sizes are in units of which ClusterUnits make a cluster;  *)
(* a short name is its stem, the number of its tail and its extension (a   *)
(* stem never holds the tail's tilde); a table is the sequence of entries  *)
(* it lists.  What is on the disk stays as it is (module DirEntries).      *)
(***************************************************************************)
EXTENDS Integers, FiniteSetsExt, SequencesExt

CONSTANTS
  Nodes,          \* files and folders on the disk
  Top, Documents, \* "/" and the folder it has called "documents"
  Parent,         \* Nodes \ {Top} -> Nodes
  Folders,        \* the nodes that are folders, Top included
  Name,           \* long names: sequences of characters
  Fold,           \* characters a short name may have -> upper case
  Sizes,          \* possible sizes of files
  ClusterUnits,   \* FATFS_CLUSTER_BYTES, in units of size
  StemLength, ExtLength,  \* 8 and 3
  LastTail,       \* 999
  FragmentLength, \* 13 characters in a long-name slot
  MaxEntries, MaxSubdirs, MaxDepth, MaxClusters,
  RootSlots, SubSlots,    \* slots in the root's table and in the others
  NoNode,         \* what is not on the disk
  Synthetic,      \* the names of the four entries that hide the volume
  MaxToggles      \* bound on changes of root

ASSUME TreeAssumption ==
  /\ {Top, Documents} \subseteq Folders /\ Folders \subseteq Nodes /\ NoNode \notin Nodes
  /\ Parent \in [Nodes \ {Top} -> Folders] /\ Documents # Top /\ Parent[Documents] = Top
ASSUME NamesAssumption == Name \in [Nodes -> Seq(STRING)] /\ Synthetic \in Seq(Seq(STRING))
ASSUME SizesAssumption ==
  /\ Sizes \subseteq Nat /\ MaxToggles \in Nat
  /\ {ClusterUnits, StemLength, ExtLength, LastTail, FragmentLength} \subseteq Nat \ {0}
  /\ {MaxEntries, MaxSubdirs, MaxDepth, MaxClusters, RootSlots, SubSlots} \subseteq Nat
ASSUME SyntheticAssumption == Len(Synthetic) = 4 /\ MaxEntries >= 4 /\ MaxSubdirs >= 1

VARIABLES
  size,      \* the disk's: size of each file
  root,      \* fatfs_root_path: Top or Documents
  entries,   \* fatfs_entries
  calls,     \* the calls of fatfs_scan_recurse under way, the innermost first
  volume,    \* what is served: clusters, FAT and tables
  toggles

vars == <<size, root, entries, calls, volume, toggles>>

-----------------------------------------------------------------------------
(* fatfs_make_short_name.                                                   *)

UpTo(s, n) == SubSeq(s, 1, Min({n, Len(s)}))
Folded(s) == LET kept == SelectSeq(s, LAMBDA c : c \in DOMAIN Fold) IN [i \in DOMAIN kept |-> Fold[kept[i]]]

LastDot(name) == Max({0} \cup {i \in DOMAIN name : name[i] = "."})
Stem(name) ==
  LET before == IF LastDot(name) = 0 THEN name ELSE SubSeq(name, 1, LastDot(name) - 1)
  IN  IF Folded(before) = << >> THEN <<"_">> ELSE UpTo(Folded(before), StemLength)
Ext(name) ==
  IF LastDot(name) = 0 THEN << >> ELSE UpTo(Folded(SubSeq(name, LastDot(name) + 1, Len(name))), ExtLength)

(* The tail "~n" has two characters: n is less than 10 here.                *)
Candidate(name, n) ==
  [stem |-> IF n = 1 THEN Stem(name) ELSE UpTo(Stem(name), StemLength - 2),
   tail |-> IF n = 1 THEN 0 ELSE n,
   ext |-> Ext(name)]

(* Only as much of the extension is compared as the new one has.            *)
Collides(ents, parent, short) ==
  \E i \in DOMAIN ents :
    /\ ents[i].parent = parent
    /\ ents[i].short.stem = short.stem /\ ents[i].short.tail = short.tail
    /\ \A k \in DOMAIN short.ext : k \in DOMAIN ents[i].short.ext /\ ents[i].short.ext[k] = short.ext[k]

Overflow == [stem |-> <<"O", "V", "E", "R", "F", "L", "O", "W">>, tail |-> 0, ext |-> <<"T", "X", "T">>]

\* Mutant: the name with a tail is not looked for.
ShortNameUnchecked(ents, parent, name) ==
  IF Collides(ents, parent, Candidate(name, 1)) THEN Candidate(name, 2) ELSE Candidate(name, 1)
ShortName(ents, parent, name) ==
  LET free == {n \in 1..LastTail : ~Collides(ents, parent, Candidate(name, n))}
  IN  IF free = {} THEN Overflow ELSE Candidate(name, Min(free))

-----------------------------------------------------------------------------
(* The scan.                                                                *)

NoSlot == -1
Subdirs(ents) == Cardinality({i \in DOMAIN ents : ents[i].slot # NoSlot})

Entry(ents, node, name, parent, dir, sz, slot) ==
  [node |-> node, long |-> name, short |-> ShortName(ents, parent, name), parent |-> parent,
   dir |-> dir, size |-> sz, slot |-> slot]

FileEntry(ents, node, name, parent, sz) == Append(ents, Entry(ents, node, name, parent, FALSE, sz, NoSlot))
FolderEntry(ents, node, name, parent) ==
  Append(ents, Entry(ents, node, name, parent, TRUE, 0, IF Subdirs(ents) < MaxSubdirs THEN Subdirs(ents) ELSE NoSlot))

(* ".fseventsd" with its "no_log", ".Trashes" and ".metadata_never_index",   *)
(* the last two if there is room.  Entry 0 stands for the root.             *)
Hiding ==
  LET log == FileEntry(FolderEntry(<< >>, NoNode, Synthetic[1], 0), NoNode, Synthetic[2], 1, 0)
      trash == IF Len(log) < MaxEntries THEN FileEntry(log, NoNode, Synthetic[3], 0, 0) ELSE log
  IN  IF Len(trash) < MaxEntries THEN FileEntry(trash, NoNode, Synthetic[4], 0, 0) ELSE trash

Children(node) == {n \in DOMAIN Parent : Parent[n] = node}
Dotted(node) == Name[node][1] = "."

(* A call for a folder; first is what it has to list before the others.     *)

\* Mutant: what came first is listed again.
CallTwice(dir, node, depth, first) ==
  [dir |-> dir, depth |-> depth, first |-> first, left |-> Children(node)]
Call(dir, node, depth, first) ==
  [dir |-> dir, depth |-> depth, first |-> first, left |-> Children(node) \ first]

\* Mutant: no folder comes first.
FirstOfNone(r) == {}
First(r) == IF r = Top THEN {Documents} ELSE {}

Unserved == [fat |-> << >>, start |-> << >>, tables |-> << >>]

Scanning(r) ==
  /\ root' = r
  /\ entries' = Hiding
  /\ calls' = <<Call(0, r, 0, First(r))>>
  /\ volume' = Unserved

Init ==
  /\ size \in [Nodes \ Folders -> Sizes]
  /\ root = Documents
  /\ entries = Hiding
  /\ calls = <<Call(0, Documents, 0, First(Documents))>>
  /\ volume = Unserved /\ toggles = 0

(* fatfs_scan_one_entry, and the call it makes for a folder with a table.   *)
ScanFile(n, rest) ==
  /\ entries' = FileEntry(entries, n, Name[n], Head(calls).dir, size[n])
  /\ calls' = rest

ScanFolder(n, rest) ==
  LET ents == FolderEntry(entries, n, Name[n], Head(calls).dir)
      depth == Head(calls).depth + 1
  IN  /\ entries' = ents
      /\ calls' = IF Last(ents).slot # NoSlot /\ depth <= MaxDepth
                  THEN <<Call(Len(ents), n, depth, {})>> \o rest ELSE rest

ScanOne(n, rest) == IF n \in Folders THEN ScanFolder(n, rest) ELSE ScanFile(n, rest)

ReadFirst ==
  /\ calls # << >> /\ Head(calls).first # {}
  /\ \E n \in Head(calls).first :
       LET rest == <<[Head(calls) EXCEPT !.first = {}]>> \o Tail(calls)
       IN  IF Len(entries) < MaxEntries THEN ScanOne(n, rest) ELSE entries' = entries /\ calls' = rest
  /\ UNCHANGED <<size, root, volume, toggles>>

(* A full table ends the listing.                                           *)
ReadNext ==
  /\ calls # << >> /\ Head(calls).first = {}
  /\ \E n \in Head(calls).left :
       LET rest(left) == <<[Head(calls) EXCEPT !.left = left]>> \o Tail(calls)
       IN  IF Dotted(n) THEN entries' = entries /\ calls' = rest(Head(calls).left \ {n})
           ELSE IF Len(entries) >= MaxEntries THEN entries' = entries /\ calls' = rest({})
           ELSE ScanOne(n, rest(Head(calls).left \ {n}))
  /\ UNCHANGED <<size, root, volume, toggles>>

Return ==
  /\ calls # << >> /\ Head(calls).first = {} /\ Head(calls).left = {}
  /\ calls' = Tail(calls)
  /\ UNCHANGED <<size, root, entries, volume, toggles>>

-----------------------------------------------------------------------------
(* The layout.                                                              *)

CeilDiv(a, b) == (a + b - 1) \div b

\* Mutant: an empty file has no cluster.
ClustersExact(e) == IF e.dir THEN IF e.slot = NoSlot THEN 0 ELSE 1 ELSE CeilDiv(e.size, ClusterUnits)
Clusters(e) ==
  IF e.dir THEN IF e.slot = NoSlot THEN 0 ELSE 1 ELSE Max({1, CeilDiv(e.size, ClusterUnits)})

Starts(ents) ==
  LET next[i \in 0..Len(ents)] == IF i = 0 THEN 2 ELSE next[i - 1] + Clusters(ents[i])
  IN  [i \in DOMAIN ents |-> IF ents[i].dir /\ ents[i].slot = NoSlot THEN 0 ELSE next[i - 1]]

EndOfChain == 65535
(* No cluster has its number: there are 24576.                              *)
ASSUME EndAssumption == MaxClusters < EndOfChain

(* fatfs_mark_fat_chain for every entry, as far as the table goes.          *)
Marked(ents, start) ==
  LET owns(i, c) == c \in start[i] .. start[i] + Clusters(ents[i]) - 1
  IN  [c \in 2..MaxClusters - 1 |->
         IF \E i \in DOMAIN ents : owns(i, c) /\ owns(i, c + 1) THEN c + 1
         ELSE IF \E i \in DOMAIN ents : owns(i, c) THEN EndOfChain ELSE 0]

(* fatfs_write_name_entries: a group that does not fit is left out.         *)
GroupSlots(e) == CeilDiv(Len(e.long), FragmentLength) + 1

Table(ents, dir, from, slots) ==
  LET list(t, i) ==
        IF ents[i].parent # dir \/ t.used + GroupSlots(ents[i]) > slots THEN t
        ELSE [used |-> t.used + GroupSlots(ents[i]), listed |-> Append(t.listed, i)]
      upTo[i \in 0..Len(ents)] == IF i = 0 THEN [used |-> from, listed |-> << >>] ELSE list(upTo[i - 1], i)
  IN  upTo[Len(ents)]

(* fatfs_build_root_dir and fatfs_build_subdir_tables; "." and ".." first.  *)
Tables(ents) ==
  [dir \in {0} \cup {i \in DOMAIN ents : ents[i].slot # NoSlot} |->
     IF dir = 0 THEN Table(ents, 0, 0, RootSlots) ELSE Table(ents, dir, 2, SubSlots)]

LayOut ==
  /\ calls = << >> /\ volume = Unserved
  /\ LET start == Starts(entries)
     IN  volume' = [fat |-> Marked(entries, start), start |-> start, tables |-> Tables(entries)]
  /\ UNCHANGED <<size, root, entries, calls, toggles>>

(* fatfs_toggle_root.                                                       *)
ToggleRoot ==
  /\ volume # Unserved /\ toggles < MaxToggles
  /\ toggles' = toggles + 1
  /\ Scanning(IF root = Documents THEN Top ELSE Documents)
  /\ UNCHANGED size

Next == ReadFirst \/ ReadNext \/ Return \/ LayOut \/ ToggleRoot
Spec == Init /\ [][Next]_vars

-----------------------------------------------------------------------------
(* What a session promises of the volume it serves.                         *)

Served == volume # Unserved
Dirs == DOMAIN volume.tables
Listed(dir) == volume.tables[dir].listed
FolderOf(dir) == IF dir = 0 THEN root ELSE entries[dir].node
Depths ==
  LET depth[dir \in 0..Len(entries)] == IF dir = 0 THEN 0 ELSE depth[entries[dir].parent] + 1 IN depth

(* The host tells the files of a folder apart by their short names: however *)
(* alike their long names, in whatever order they were found, no two that   *)
(* one table lists have the same, unless the folder holds more than         *)
(* LastTail: the rest are then all called "OVERFLOW.TXT".                   *)
Siblings(dir) == {i \in DOMAIN entries : entries[i].parent = dir}
ListedApart ==
  Served => \A dir \in Dirs : \A j, k \in DOMAIN Listed(dir) :
    entries[Listed(dir)[j]].short = entries[Listed(dir)[k]].short =>
      \/ j = k
      \/ Cardinality(Siblings(dir)) > LastTail /\ entries[Listed(dir)[j]].short = Overflow

(* A file is missing from its folder's table only because the entry table,  *)
(* the folder's table or the depth of the scan is exhausted, and it is      *)
(* listed once, in its own folder, even if its folder is scanned first.     *)
Full(dir, n) ==
  volume.tables[dir].used + CeilDiv(Len(Name[n]), FragmentLength) + 1 > IF dir = 0 THEN RootSlots ELSE SubSlots
Places(n) == {x \in Dirs \X (1..MaxEntries) : x[2] \in DOMAIN Listed(x[1]) /\ entries[Listed(x[1])[x[2]]].node = n}
NothingHidden ==
  Served => \A dir \in Dirs : \A n \in Children(FolderOf(dir)) :
    LET places == Places(n)
    IN  /\ Cardinality(places) <= 1 /\ \A x \in places : x[1] = dir
        /\ places = {} => Dotted(n) \/ Len(entries) = MaxEntries \/ Depths[dir] > MaxDepth \/ Full(dir, n)

(* The clusters the host reads a file from, by the FAT.                     *)
Chain(c) ==
  LET follow(d) == IF d \in DOMAIN volume.fat /\ volume.fat[d] \notin {0, EndOfChain} THEN volume.fat[d] ELSE d
      walk[k \in 0..MaxClusters] == IF k = 0 THEN c ELSE follow(walk[k - 1])
  IN  {walk[k] : k \in 0..MaxClusters}

(* Each file has a chain of its own that holds it, folders and empty files  *)
(* included, until the content is larger than the volume: the chain of a    *)
(* file is then cut, and what comes before it is as it was.                 *)
ChainsHold ==
  Served =>
    LET chain == [i \in {j \in DOMAIN entries : volume.start[j] # 0} |-> Chain(volume.start[i])]
    IN  \A i \in DOMAIN chain :
          /\ chain[i] \subseteq 2..MaxClusters - 1 => Cardinality(chain[i]) * ClusterUnits >= entries[i].size
          /\ \A j \in DOMAIN chain \ {i} : chain[i] \cap chain[j] = {}

(* "to guarantee /documents always claims a subdirectory slot rather than   *)
(* possibly losing the race to unrelated top-level folders"                 *)
(* (usb_fatfs.h:408).                                                       *)
DocumentsServed ==
  Served /\ root = Top /\ MaxSubdirs >= 2 /\ MaxEntries >= 5 =>
    \E i \in DOMAIN entries : entries[i].node = Documents /\ entries[i].slot # NoSlot
=============================================================================
