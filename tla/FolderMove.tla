----------------------------- MODULE FolderMove -----------------------------
(***************************************************************************)
(* Folders of usb_fatfs.h: a directory entry that shows up elsewhere is a  *)
(* move.  The folder's paths change at once; its files are queued and then *)
(* copied in the background, one chunk per turn of the main loop, and the  *)
(* source is removed at the end.  Meanwhile reads are served, WRITE(10) is *)
(* refused, and an eject waits.                                            *)
(*                                                                         *)
(* The host keeps its own tables; a table write carries all of a table's   *)
(* slots, which are interpreted in order.  HostOps says what it does.      *)
(*                                                                         *)
(* Abstractions: a place is a full path, with a slot of its own in its     *)
(* parent's table; parents stay where they are; a file below a folder is   *)
(* its path relative to it, so nested folders are files here; a file is a  *)
(* sequence of copy chunks; clusters identify folders.                     *)
(***************************************************************************)
EXTENDS Integers, SequencesExt, FiniteSetsExt

CONSTANTS
  Folders, Places, Files,
  Parent,       \* the directory of each place
  SlotOrder,    \* all places, in slot order
  Chunks,       \* how many chunks each file has at first
  InitialPlace, \* where the folders of the first mount are
  QueueMax,     \* FATFS_BG_COPY_QUEUE_MAX
  MaxEntries,   \* FATFS_MAX_ENTRIES
  Faults,       \* which calls may fail
  HostOps,      \* what the host may do
  MaxOps,       \* bound on the host's operations
  Nowhere, Edited

Parents == {Parent[p] : p \in Places}
Absent == <<Nowhere>>

ASSUME TreeAssumption ==
  /\ DOMAIN Parent = Places /\ SlotOrder \in Seq(Places)
  /\ ToSet(SlotOrder) = Places /\ IsInjective(SlotOrder)
  /\ (Places \cup Parents) \cap Folders = {} /\ Nowhere \notin Places \cup Folders \cup {Edited}
ASSUME FilesAssumption ==
  /\ IsFiniteSet(Files) /\ Chunks \in [Files -> Nat]
  /\ IsFiniteSet(Folders) /\ DOMAIN InitialPlace \subseteq Folders
  /\ InitialPlace \in [DOMAIN InitialPlace -> Places] /\ IsInjective(InitialPlace)
ASSUME BoundsAssumption == QueueMax \in Nat /\ MaxEntries \in Nat /\ MaxOps \in Nat
ASSUME FaultsAssumption == Faults \subseteq {"open", "sync", "full", "list"}
ASSUME HostAssumption ==
  HostOps \subseteq {"move", "delete", "unlink", "edit", "create", "replace", "hasty", "prune"}

VARIABLES
  entry,    \* fatfs_entries of the folders: path and deleted flag
  graves,   \* fatfs_entries of their files: the path a deleted one had when its delete came
  dirs,     \* real directories
  disk,     \* real files
  bg,       \* the fatfs_bg_copy_ variables
  phase,    \* main: serving, draining before the eject, ejected
  tbl,      \* the host's tables
  dirty,    \* parents, and folders, whose table the host has yet to write
  want,     \* the files the host believes it has
  gone,     \* history: places of deleted folders, and folders of deleted files
  frail,    \* the calls in Faults may fail in this session
  ops       \* host operations so far

device == <<entry, graves, dirs, disk, bg>>
host == <<tbl, dirty, want, gone, ops>>
vars == <<device, phase, host, frail>>

Faulty == {"none"} \cup IF frail THEN Faults ELSE {}
NoEntry == [place |-> Nowhere, deleted |-> FALSE]
EntryAt(p) == [place |-> p, deleted |-> FALSE]
Idle == [active |-> FALSE, old |-> Nowhere, new |-> Nowhere, todo |-> <<>>, open |-> FALSE,
         at |-> 0, ok |-> TRUE]
FreeSlot == [mark |-> "free", folder |-> Nowhere]
Slot(mark, f) == [mark |-> mark, folder |-> f]
Content(f, x) == [i \in 1 .. Chunks[x] |-> f]

Init ==
  /\ entry = [f \in Folders |-> IF f \in DOMAIN InitialPlace THEN EntryAt(InitialPlace[f])
                                ELSE NoEntry]
  /\ graves = [k \in Folders \X Files |-> Nowhere] /\ bg = Idle /\ phase = "up"
  /\ dirs = Range(InitialPlace)
  /\ want = [f \in Folders |-> [x \in Files |-> IF f \in DOMAIN InitialPlace
                                                THEN Content(f, x) ELSE Absent]]
  /\ tbl = [p \in Places |-> IF \E f \in DOMAIN InitialPlace : InitialPlace[f] = p
                             THEN Slot("live", CHOOSE f \in DOMAIN InitialPlace : InitialPlace[f] = p)
                             ELSE FreeSlot]
  /\ disk = [q \in Places \X Files |->
               IF tbl[q[1]] = FreeSlot THEN Absent ELSE Content(tbl[q[1]].folder, q[2])]
  /\ dirty = {} /\ gone = {} /\ frail \in BOOLEAN /\ ops = 0

----------------------------------------------------------------------------
(* The device.  v is its state, [entry, graves, dirs, disk, bg]; fault is   *)
(* the call that fails in this step, if any.                                *)

Device == [entry |-> entry, graves |-> graves, dirs |-> dirs, disk |-> disk, bg |-> bg]
BecomeDevice(v) ==
  /\ entry' = v.entry /\ graves' = v.graves /\ dirs' = v.dirs /\ disk' = v.disk /\ bg' = v.bg

FilesIn(v, p) == {x \in Files : v.disk[p, x] # Absent}

\* fatfs_recursive_remove_dir
RemoveDir(v, p) ==
  [v EXCEPT !.dirs = @ \ {p},
            !.disk = [q \in DOMAIN @ |-> IF q[1] = p THEN Absent ELSE @[q]]]

\* fopen of a source for reading and of its copy for writing.
Opens(v, x) == v.disk[v.bg.old, x] # Absent /\ v.bg.new \in v.dirs

\* One file copied on the spot, when the queue is full.
CopiedNow(v, x, fault) ==
  IF Opens(v, x) /\ fault # "sync"
  THEN [v EXCEPT !.disk[<<v.bg.new, x>>] = IF fault = "full" THEN <<>> ELSE v.disk[v.bg.old, x]]
  ELSE [v EXCEPT !.bg.ok = FALSE]

\* fatfs_bg_copy_enumerate, from v.bg.old to v.bg.new
Enumerated(v, fault) ==
  LET made == [v EXCEPT !.dirs = @ \cup {v.bg.new}]
      found == SetToSeq(FilesIn(v, v.bg.old))
      queued == SubSeq(found, 1, IF Len(found) < QueueMax THEN Len(found) ELSE QueueMax)
      rest == SubSeq(found, QueueMax + 1, Len(found))
      copied[i \in 0 .. Len(rest)] == IF i = 0 THEN [made EXCEPT !.bg.todo = queued]
                                      ELSE CopiedNow(copied[i - 1], rest[i], fault)
  IN  IF fault = "list" \/ v.bg.old \notin v.dirs
      THEN [made EXCEPT !.bg.ok = FALSE]
      ELSE copied[Len(rest)]

\* Mutant: the source is removed whether or not every file was copied.
FinishAlways(v) == RemoveDir([v EXCEPT !.bg = Idle], v.bg.old)
\* fatfs_bg_copy_step while it is active: finish, open a file, copy a chunk or close.
FinishCopy(v) ==
  LET done == [v EXCEPT !.bg = Idle]
  IN  IF v.bg.ok THEN RemoveDir(done, v.bg.old) ELSE done

OpenNext(v, fault) ==
  LET x == Head(v.bg.todo) IN
  IF Opens(v, x) /\ fault # "open"
  THEN [v EXCEPT !.bg.open = TRUE, !.bg.at = 0, !.disk[<<v.bg.new, x>>] = <<>>]
  ELSE [v EXCEPT !.bg.ok = FALSE, !.bg.todo = Tail(@)]

\* fwrite is not checked.
CopyChunk(v, fault) ==
  LET x == Head(v.bg.todo)
      chunk == v.disk[v.bg.old, x][v.bg.at + 1]
  IN  [v EXCEPT !.bg.at = @ + 1,
                !.disk[<<v.bg.new, x>>] = IF fault = "full" THEN @ ELSE Append(@, chunk)]

\* Mutant: the same file is taken again.
CloseRepeating(v) == [v EXCEPT !.bg.open = FALSE]
CloseFile(v) == [v EXCEPT !.bg.open = FALSE, !.bg.todo = Tail(@)]

BgStep(v, fault) ==
  LET b == v.bg
      atEnd == b.at = Len(v.disk[b.old, Head(b.todo)])
  IN  CASE ~b.active -> v
        [] b.active /\ ~b.open /\ b.todo = <<>> -> FinishCopy(v)
        [] b.active /\ ~b.open /\ b.todo # <<>> -> OpenNext(v, fault)
        [] b.active /\ b.open /\ ~atEnd -> CopyChunk(v, fault)
        [] OTHER -> CloseFile(v)

\* while (fatfs_bg_copy_active) fatfs_bg_copy_step();
Longest == Max({Chunks[x] : x \in Files} \cup {0})
MaxSteps == 1 + QueueMax * (2 + Longest)
Drained(v, fault) ==
  LET after[i \in 0 .. MaxSteps] == IF i = 0 THEN v ELSE BgStep(after[i - 1], fault)
  IN  after[MaxSteps]

\* The destination's own folder, if one is tracked, is forgotten and removed.
Cleared(v, f, q) ==
  RemoveDir([v EXCEPT !.entry = [g \in Folders |->
               IF g # f /\ ~@[g].deleted /\ @[g].place = q THEN [@[g] EXCEPT !.deleted = TRUE]
               ELSE @[g]]], q)

\* Mutant: a copy in progress is not finished first.
MoveAtOnce(v, f, q, fault) ==
  LET old == v.entry[f].place
      listed == Enumerated([Cleared(v, f, q) EXCEPT !.bg = [Idle EXCEPT !.old = old, !.new = q]], fault)
  IN  CASE old = q -> [v EXCEPT !.entry[f].deleted = FALSE]
        [] old # q /\ listed.bg.ok ->
             [listed EXCEPT !.entry[f] = EntryAt(q), !.bg.active = TRUE]
        [] OTHER -> [listed EXCEPT !.bg = Idle]
\* Mutant: the entry gets its new path only when the copy is done.
MoveLater(v, f, q, fault) ==
  LET old == v.entry[f].place
      ready == Cleared(Drained(v, fault), f, q)
      listed == Enumerated([ready EXCEPT !.bg = [Idle EXCEPT !.old = old, !.new = q]], fault)
  IN  CASE old = q -> [v EXCEPT !.entry[f].deleted = FALSE]
        [] old # q /\ listed.bg.ok -> [listed EXCEPT !.entry[f].deleted = FALSE, !.bg.active = TRUE]
        [] OTHER -> [listed EXCEPT !.bg = Idle]
\* A known folder's entry in the slot of place q: a move, unless nothing changed.
\* The paths of its files follow; those of deleted files do not (fatfs_update_child_paths).
MoveFolder(v, f, q, fault) ==
  LET old == v.entry[f].place
      ready == Cleared(Drained(v, fault), f, q)
      listed == Enumerated([ready EXCEPT !.bg = [Idle EXCEPT !.old = old, !.new = q]], fault)
  IN  CASE old = q -> [v EXCEPT !.entry[f].deleted = FALSE]
        [] old # q /\ listed.bg.ok ->
             [listed EXCEPT !.entry[f] = EntryAt(q), !.bg.active = TRUE]
        [] OTHER -> [listed EXCEPT !.bg = Idle]
\* A new folder's entry; one that has the path already is taken over.
CreateFolder(v, f, q) ==
  IF Cardinality({g \in Folders : v.entry[g] # NoEntry}) >= MaxEntries THEN v
  ELSE [v EXCEPT !.dirs = @ \cup {q},
                 !.entry = [g \in Folders |-> CASE g = f -> EntryAt(q)
                                                [] g # f /\ @[g].place = q -> NoEntry
                                                [] OTHER -> @[g]]]

\* fatfs_handle_short_entry_write for the slot of place q.
Handle(v, q, fault) ==
  LET f == tbl[q].folder IN
  CASE tbl[q].mark = "free" -> v
    [] tbl[q].mark = "erased" ->
         IF ~v.entry[f].deleted /\ v.entry[f].place = q
         THEN [v EXCEPT !.entry[f].deleted = TRUE] ELSE v
    [] OTHER -> IF v.entry[f] # NoEntry THEN MoveFolder(v, f, q, fault)
                ELSE CreateFolder(v, f, q)

\* fatfs_flush_pending_deletes
Flushed(v) ==
  LET removed == {v.entry[f].place : f \in {g \in Folders : v.entry[g].deleted}}
  IN  [v EXCEPT !.dirs = @ \ removed,
                !.disk = [q \in DOMAIN @ |->
                   IF q[1] \in removed \/ \E f \in Folders : v.graves[f, q[2]] = q[1]
                   THEN Absent ELSE @[q]]]

----------------------------------------------------------------------------
(* What the device does: commands and turns of the main loop.               *)

Accepting == phase = "up" /\ ~bg.active   \* otherwise WRITE(10) is refused

\* The slots of directory d, in order.
Handled(d, fault) ==
  LET after[i \in 0 .. Len(SlotOrder)] ==
        IF i = 0 THEN Device
        ELSE IF Parent[SlotOrder[i]] = d THEN Handle(after[i - 1], SlotOrder[i], fault)
        ELSE after[i - 1]
  IN  after[Len(SlotOrder)]

WriteTable(d) ==
  /\ Accepting /\ d \in dirty
  /\ \E fault \in Faulty : BecomeDevice(Handled(d, fault))
  /\ dirty' = dirty \ {d}
  /\ UNCHANGED <<phase, tbl, want, gone, ops, frail>>

\* A folder's own table: slots of deleted files.  A deleted folder's cluster is not found.
WriteFolderTable(f) ==
  /\ Accepting /\ f \in dirty
  /\ graves' = [k \in DOMAIN graves |->
       IF k[1] = f /\ graves[k] = Nowhere /\ ~entry[f].deleted /\ want[f][k[2]] = Absent
       THEN entry[f].place ELSE graves[k]]
  /\ dirty' = dirty \ {f}
  /\ UNCHANGED <<entry, dirs, disk, bg, phase, tbl, want, gone, frail, ops>>

BackgroundCopy ==
  /\ phase # "down" /\ bg.active
  /\ \E fault \in Faulty : BecomeDevice(BgStep(Device, fault))
  /\ UNCHANGED <<phase, host, frail>>

\* Esc or Tab
Leave ==
  /\ phase = "up" /\ phase' = "leaving"
  /\ UNCHANGED <<device, host, frail>>

\* Mutant: a copy in progress is abandoned.
FlushAtOnce ==
  /\ phase = "leaving" /\ phase' = "down"
  /\ BecomeDevice(Flushed(Device))
  /\ UNCHANGED <<host, frail>>
Flush ==
  /\ phase = "leaving" /\ ~bg.active /\ phase' = "down"
  /\ BecomeDevice(Flushed(Device))
  /\ UNCHANGED <<host, frail>>

----------------------------------------------------------------------------
(* The host.                                                                *)

Operation(kind) == phase = "up" /\ kind \in HostOps /\ ops < MaxOps /\ ops' = ops + 1
PlacesOf(f) == {p \in Places : tbl[p] = Slot("live", f)}

\* The folder that left place q: one half of its move is still to be written.
Unsettled(q) ==
  \/ Parent[q] \in dirty
  \/ \E p \in PlacesOf(tbl[q].folder) : Parent[p] \in dirty

\* A place the host may give to a folder, and how carefully.
Vacant(q) ==
  /\ tbl[q].mark # "live"
  /\ q \in gone \/ (frail /\ tbl[q].mark = "erased") => "replace" \in HostOps
  /\ tbl[q].mark = "erased" /\ Unsettled(q) => "hasty" \in HostOps

HostMove(f, p, q) ==
  /\ Operation("move")
  /\ p \in PlacesOf(f) /\ Vacant(q)
  /\ f \in gone => "prune" \in HostOps
  /\ Parent[p] \in dirty => "hasty" \in HostOps
  /\ tbl' = [tbl EXCEPT ![p] = Slot("erased", f), ![q] = Slot("live", f)]
  /\ dirty' = dirty \cup {Parent[p], Parent[q]}
  /\ UNCHANGED <<device, phase, want, gone, frail>>

HostCreate(f, q) ==
  /\ Operation("create")
  /\ \A p \in Places : tbl[p].folder # f
  /\ f \notin DOMAIN InitialPlace /\ Vacant(q)
  /\ tbl' = [tbl EXCEPT ![q] = Slot("live", f)]
  /\ dirty' = dirty \cup {Parent[q]}
  /\ UNCHANGED <<device, phase, want, gone, frail>>

HostDelete(f, p) ==
  /\ Operation("delete")
  /\ p \in PlacesOf(f)
  /\ Parent[p] \in dirty => "hasty" \in HostOps
  /\ tbl' = [tbl EXCEPT ![p] = Slot("erased", f)]
  /\ want' = [want EXCEPT ![f] = [x \in Files |-> Absent]]
  /\ dirty' = dirty \cup {Parent[p], f}
  /\ gone' = gone \cup {p}
  /\ UNCHANGED <<device, phase, frail>>

HostUnlink(f, x) ==
  /\ Operation("unlink")
  /\ want[f][x] # Absent
  /\ \A p \in PlacesOf(f) : Parent[p] \in dirty => "prune" \in HostOps
  /\ want' = [want EXCEPT ![f][x] = Absent]
  /\ dirty' = dirty \cup {f}
  /\ gone' = gone \cup {f}
  /\ UNCHANGED <<device, phase, tbl, frail>>

\* The first chunk of a file is overwritten, and the write reaches the device.
HostEdit(f, x) ==
  /\ Operation("edit") /\ Accepting
  /\ want[f][x] \notin {Absent, <<>>} /\ ~entry[f].deleted
  /\ want' = [want EXCEPT ![f][x][1] = Edited]
  /\ disk' = IF disk[entry[f].place, x] \in {Absent, <<>>} THEN disk
             ELSE [disk EXCEPT ![<<entry[f].place, x>>][1] = Edited]
  /\ UNCHANGED <<entry, graves, dirs, bg, phase, tbl, dirty, gone, frail>>

HostStep ==
  \/ \E f \in Folders, p, q \in Places : HostMove(f, p, q)
  \/ \E f \in Folders, q \in Places : HostCreate(f, q) \/ HostDelete(f, q)
  \/ \E f \in Folders, x \in Files : HostUnlink(f, x) \/ HostEdit(f, x)

Next ==
  \/ \E d \in Parents : WriteTable(d)
  \/ \E f \in Folders : WriteFolderTable(f)
  \/ BackgroundCopy \/ Leave \/ Flush
  \/ HostStep

\* The main loop turns; what the host and the user do is up to them.
Spec == Init /\ [][Next]_vars /\ WF_vars(BackgroundCopy) /\ WF_vars(Flush)

----------------------------------------------------------------------------
(* Properties.                                                              *)

TypeOK ==
  /\ entry \in [Folders -> [place : Places \cup {Nowhere}, deleted : BOOLEAN]]
  /\ graves \in [Folders \X Files -> Places \cup {Nowhere}]
  /\ dirs \subseteq Places
  /\ DOMAIN disk = Places \X Files
  /\ bg.active \in BOOLEAN /\ bg.ok \in BOOLEAN /\ bg.at \in Nat
  /\ bg.open => bg.active /\ bg.todo # <<>>
  /\ phase \in {"up", "leaving", "down"}
  /\ tbl \in [Places -> [mark : {"free", "live", "erased"}, folder : Folders \cup {Nowhere}]]
  /\ dirty \subseteq Parents \cup Folders
  /\ gone \subseteq Places \cup Folders /\ frail \in BOOLEAN /\ ops \in 0 .. MaxOps

\* A file the host has not deleted is whole somewhere on the disk at every moment, also in
\* the middle of a background copy, after one that failed and after the eject's deletes.
\* (When a copy failed, an edit of the file that was not copied is lost; an eject while
\* the host still has tables to write may take the delete half of a move for a delete.)
NothingLost ==
  (phase # "down" \/ dirty = {}) => \A f \in Folders, x \in Files :
    \/ want[f][x] = Absent
    \/ \E p \in Places : disk[p, x] = want[f][x]
    \/ frail /\ Edited \in ToSet(want[f][x])

\* While no copy is in progress, READ(10) finds every file of every tracked folder
\* where the folder's entry says it is, with the content the host wrote.
IdleReadsTrue ==
  phase = "up" /\ ~bg.active /\ ~frail =>
    \A f \in Folders, x \in Files :
      want[f][x] # Absent /\ ~entry[f].deleted => disk[entry[f].place, x] = want[f][x]

\* The directory a background copy will remove at its end is not the place of any live
\* tracked folder, and its copy goes to the place of a tracked one.
SourceUntracked ==
  bg.active => /\ \A f \in Folders : ~entry[f].deleted => entry[f].place # bg.old
               /\ \E f \in Folders : entry[f].place = bg.new

\* After the eject the disk holds exactly the folders and files the host's tables show,
\* if it wrote them all.
EjectedAsHostSawIt ==
  phase = "down" /\ dirty = {} /\ ~frail =>
    \A p \in Places :
      /\ p \in dirs <=> tbl[p].mark = "live"
      /\ \A x \in Files : disk[p, x] = IF tbl[p].mark = "live" THEN want[tbl[p].folder][x]
                                       ELSE Absent

\* What the host deleted is not on the disk after the eject ("to really remove anything
\* that's still marked deleted at that point").
DeletedStayDeleted ==
  phase = "down" /\ dirty = {} =>
    \A f \in DOMAIN InitialPlace, x \in Files :
      want[f][x] = Absent /\ Chunks[x] > 0 => \A p \in Places : disk[p, x] # Content(f, x)

\* An eject waits for the copy in progress, and does come to its end, whatever files of
\* it cannot be opened.
EjectCompletes == phase = "leaving" ~> phase = "down"

=============================================================================
