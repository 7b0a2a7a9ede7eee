# Formal models of Ndless-USB

TLA+ models, TLC runs and TLAPS proofs about the TI-Nspire USB programs of this repository. All paths below are
relative to `src/USB_computer/`; `usb_fatfs.h`, `usb_msc.h` and `usb_dma.h` mean the ones of `nStorage/` unless said otherwise.

## 1. Inventory

The programs are bare-metal: no threads, no interrupts of their own. A polled main loop (`nStorage/main.cpp:44-70`) serves the
control endpoint, the bulk endpoints and, since folder moves became asynchronous, one step of a background copy. A handler runs
to completion (one exception: long file copies call `service_control_endpoint`, `usb_fatfs.h:1044`). What is concurrent is the
environment: the USB host, whose FAT driver caches and writes sectors in its own order, and which gives up what takes too long; the USB
controller; the calculator's file system and heap, which may refuse or run full; the user, who presses keys and pulls cables.

| Component | State | Operations | Talks to | Hard parts | Module |
|---|---|---|---|---|---|
| Staging area (`usb_fatfs.h:1242-1452, 2477-2569`) | 64 pending slots, RAM budget, cached FILE handle, `.usbstage` files | route a sector to a slot, grow, spill, evict, claim, discard, clean up | directory entries (claims), FAT mirror (chains), disk, heap | budget kept by hand at nine places; handle and position outlive slots; data before name; heap and disk failures | `Staging` |
| Live directory entries (`1465-2327`) | `fatfs_entries`, real files, deferred deletes | resize, rename/move, claim, create, erase; flush at eject | staging area, scan, host | the host's operations are guessed from table sectors written in any order, rewritten, coalesced | `DirEntries` |
| Folder moves (`896-1190, 1610-1770`) | copy queue, active flag | enumerate, copy a chunk, remove the source | main loop, WRITE(10), eject | a move in progress while the host reads, writes, moves again or ejects | `FolderMove` |
| Cluster lookup (`767-804`) | FAT mirror, negative cache | locate a cluster's file, read and write its sectors | staging area, all sector commands | cache invalidation; data, link and entry in any order | `ClusterMap` |
| Scan and tables (`150-756`) | entries, subdirectory tables, FAT, boot sector | scan, name, lay out, change root | OS file system | table limits, alike names, folders that overflow | `Volume` |
| Long names (`2238-2327`) | LFN accumulator per table | assemble fragments, check, name | directory entries | groups that straddle sectors, sectors out of order | `LongNames` |
| Mass-storage transport (`usb_msc.h`) | sense data, descriptors | CBW, data phase, CSW, SCSI commands | volume sectors, controller | timeouts, refusals, resets, stale transfers | `MscTransport`, `BulkOnly` |
| USB device (`nStorageKbdMouse/usb_dma.h`, `main.cpp`) | endpoint queue heads, address, saved native state | reset, setup packets, arm, answer, shut down, restore | host, OS driver | setup packets that overtake others; restoring what the OS left | `UsbDevice` |
| HID (`nStorageKbdMouse`, `nKbdMouse`) | last reports, key states, touchpad position | scan keys and touchpad, send changed reports, type text | host | a lost release; typing strings over held keys; a host that sleeps | `Hid` |
| Composite program (`nStorageKbdMouse`) | the three above | its main loop | - | one loop serves all | `UsbDevice`, `Hid`, `Volume`; the rest through nStorage's text |
| nCoreTemp | display, server connection | poll, frame, draw; find, configure, greet, stream | `computer_server.py` | framing, reconnects, a reply inside a handler | `CoreTemp` |
| Prototype (`USB_computer_test1_connecting`) | - | - | - | superseded by `usb_dma.h` | not modelled |

What makes each correct: the staging area loses nothing it did not warn about and leaks neither RAM nor files; the directory
handling leaves, after the eject, exactly the files the host believes it wrote; a folder move ends with the folder whole in one
place; lookups never name the wrong file; a served volume lists each file once under a name of its own, with a chain that holds it;
a file is never called by another's name; a transport command passes only when it was done in full, and the program always gets back to
listening; the control endpoint answers what it was asked; the OS gets its controller back; the host comes to see the keys that are held; the display shows whole frames.
`PROJECT.json` lists every component with its status and every hazard with its line.

## 2. Modules

Each module has an `MC` module with the instance's values (`MCStaging`, `MCDirEntries`, ...); the proofs about a module are in one of their own (`StagingProofs`, `DirEntriesProofs`, ...); `UsbProofs` has those about `UsbDevice` and `MscTransport`, `VolumeProofs` those about `Volume` and `LongNames`. Definitions keep the source's names where TLA+ allows it.

### Staging

| Definition | Code |
|---|---|
| `pending`, `ramTotal`, `evictNext`, `cache` | `fatfs_pending` and the statics next to it (1242-1322) |
| `stage` | files `/documents/.usbstage_<cluster>.tmp`: named after the cluster, hence indexed by it |
| `fat` | first FAT copy, mirrored (2421-2432) |
| `WriteSector` | the untracked branch of `fatfs_write_volume_sector` (2477-2569): `WriteMatched` when `fatfs_locate_pending` finds a slot, `WriteFresh` and `WriteEvicting` for the two halves of `fatfs_alloc_pending` |
| `PutInRam`, `PutOnDisk` | growth, budget, spill, and the cached handle |
| `ClaimName`, `Discard` | the parts of `fatfs_handle_short_entry_write` that meet a pending slot |
| `Eject` | `fatfs_cleanup_pending_stage_files` |

A FILE is modelled with what it has *buffered* (`held`) apart from what has reached the disk, with its own position (`at`) apart from
the one the code believes it has (`pos`); that is what makes unflushed reads and skipped seeks visible. Faults are constants:
`realloc` (the heap refuses), `open` (`fopen` fails), `full` (writes come up short). `sent` and `saved` are history variables;
`warned` is the warning the code puts on the screen. Sizes are in sectors; progress display and the confirmation dialogue (always
accepted by the code, `fatfs_confirm`) are left out. Whether a cluster belongs to a tracked file is decided before this module's
actions (`ClusterMap`, `DirEntries`).

### DirEntries

One short name stands for the long name too (`LongNames` has the relation of the two), and keeps its structure only where the code looks at it: byte 0 apart from the other ten
(`fatfs_find_entry_for_delete` cannot see byte 0 of an erased slot), names that start with a dot, and `.sb-` names. A file is one cluster, a table one sector;
directories themselves do not move (`FolderMove`). `Handle` is `fatfs_handle_short_entry_write` for files, with its order of lookups:
tracked name (`Resize`), full table or cluster 0 (ignored), tracked cluster, deleted entries included (`Reclaim`), else
`Create`. `WriteTable` interprets a whole table, slot by slot, as `fatfs_scan_dir_table_write` does; `Eject` flushes the deletes
(1170-1181, `main.cpp:71-116`); `Kill` ends the program without it; `Mount` scans again.

The host is an environment, modelled from what the device sees of it: it changes its own tables at once (`HostCreate`, `HostEdit`,
`HostRename`, ...) and its table and data writes reach the device later, in any order, any number of times. The constant `HostOps` says which habits
it has. Its basic operations are `create`, `touch`, `edit`, `empty`, `overwrite`, `delete`, `rename`, `exchange` (rename onto an
existing file), and `kill` is the user ending the program. Four more lift conditions a *careful* host keeps:

| Habit | Without it, the host ... |
|---|---|
| `hasty` | does not change a slot again whose last change, or whose file's data, it has yet to write, nor reuse a path it left before its tables are written |
| `replace` | does not rename onto a path whose file it deleted since the mount |
| `reuse` | does not allocate a cluster used since the mount |
| `stale` | leaves no erased slot that differs from a live one of its directory in the first letter at most |

Every one of these conditions is needed: section 5 tells what a host without it loses. Run `dirEntries` has the careful host and the basic operations that do what
the host wants; `dirHabits` has any host with every habit. A dot file, whose data is discarded by design, is never renamed.

### FolderMove

`entry` is `fatfs_entries` of folders, `bg` the `fatfs_bg_copy_` variables, `dirs` and `disk` the real tree. `MoveFolder` and `CreateFolder` are the directory
branch of `fatfs_handle_short_entry_write`: a copy in progress is first drained, a tracked folder at the destination forgotten and removed, the source enumerated into the queue
(files beyond it copied on the spot), the entry given its new path. `BgStep` is one call of `fatfs_bg_copy_step`: open the next file, copy a chunk, close, or remove the source at the end.
`Accepting` is the WRITE(10) refusal while a copy is active; `Leave` and `Flush` are the end of the main loop, which drains the copy and then applies the deferred deletes of folders and of the files in them (`graves`).
`Faults` chooses which calls may fail in a session (`frail`): `open`, `sync` (a copy on the spot), `list` (`opendir`), `full` (`fwrite`, which is not checked). The host moves, creates and
deletes folders, unlinks and edits files in them; `hasty`, `replace` and `prune` (change a folder that is on its way) are habits a careful host does not have.

### MscTransport, BulkOnly

`BulkOnly` is what the transport promises: commands one at a time, each ended once; a write passes when all of its sectors are on the medium, a read when it delivered what the
medium holds; the medium changes only by the latest write, in order. `MscTransport` is `usb_msc.h` with the bulk half of `usb_dma.h`: `ServiceBulk` (completion seen in the loop, the callback entered), `SendData`/`DataSent`, `Receive`/`Received`/`ReceiveTimeout`,
`SendStatus`/`StatusSent`, `Rearm`; `ServiceControl` and `MassStorageReset` are the control requests the callback knows. Each bounded wait may end by its count, but only when the host is not about to serve that pipe. A SCSI command is
what it does to the transport: `write`, `read`, `reply` (any command with a data phase the program fills), `plain`, `unknownIn`, `unknownOut`. The
refinement is `Promise == INSTANCE BulkOnly WITH done <- ...`, checked as `KeepsPromise`: a sector handed to `fatfs_write_sector` maps to `Store`, the host's acceptance of a status or its giving up to `End`, every other step stutters.

### UsbDevice

`Start`, `ResetController`, `Connect`, `Escape`, `SwitchRoot`, `Restore`, `SaveAgain` are the life of `main` in the composite program around the controller (`native_usb_state` is `saved`). A setup packet goes
through `SetupSeen` (flush), `CopySetup` (the tripwire loop), `ClearSetup` (only then `ENDPTSETUPSTAT`), then one action per dispatch class: `SetAddress`, `SetConfiguration` and `Configure`, `ClearFeature`, `Acknowledge`, `Transmit`, `Ignore`; `InDone` and `OutDone` end the waits.
The host sends one request at a time, may abort it and send another at any moment, and resets the bus.

### Hid

`ScanKeys`/`KeysSent` are `hid_scan_keyboard`'s report, `ScanString`, `Type`, `Typed` the text keys on their rising edge, `ScanTouchpad`/`MouseSent` the pointer, `Turn` the rest of the main loop. A report counts as sent however its wait ended, as in the code;
the host fetches while it is awake. One dimension of the touchpad is modelled (the flipped one); C's division and the clipping of a movement are in `Halved` and `Clipped`. A text is its characters as `ascii_to_hid` gives them, a code with or without shift; what the host takes for typed is a report in which a code goes down (`FetchKeys`), and `Masks` tells when it cannot.

### CoreTemp

Both programs. The calculator: `Link`, one control request per turn (`ServeConfigure`, `ServeClearIn`, `ServeClearOut`), `ServiceBulk`; the greeting is sent inside the handler of CLEAR_FEATURE for EP1 IN (`pc = "hello"`).
The server: `Find`, the three requests, `ReadGreeting`, `NewFrame`, `WritePacket`; a cable pulled (`Unplug`), either side started again. Frame sizes come from the number of cores, and a bulk transfer ends by a short packet or a full buffer (`Retired`).

### ClusterMap

`Chain`, `OwnersOf`, `KnownMiss` and `Looked` are `fatfs_locate_cluster` with its negative cache; `WriteData`, `ReadData`, `WriteFat` the sector commands; `WriteDirectory` what a directory sector changes in sizes and ownership. The host grows, shrinks, creates, removes and restores files.

### LongNames

A table is a sequence of slots; `WriteSector` runs the slots of one sector through the accumulator of its table (`WithLong`) and names a file when its short entry comes (`Called`, `Handled`). The host creates, renames and deletes in its own tables; sectors reach the device in any order, any number of times.

### Volume

`ReadFirst`, `ReadNext` and `Return` are `fatfs_scan_recurse` as a stack of calls over directories that `readdir` lists in any order; `ShortName` is `fatfs_make_short_name`; `LayOut` computes start clusters, FAT chains and tables; `ToggleRoot` is `fatfs_toggle_root`.
It is mapped to `nStorageKbdMouse/usb_fatfs.h`, whose text is nStorage's but for one include.

## 3. Runs

| Run | Shows |
|---|---|
| `staging` | RAM accounting, a coherent handle, no litter, no silent loss, intact saves, under refused reallocations and failing opens |
| `dirEntries` | a careful host: after the eject the disk is what the host saw, with dot names and `.sb-` names; no two entries on one file; rewriting a table changes nothing |
| `dirHabits` | any host, every habit and a kill: a file it did not operate on is untouched |
| `folderMove` | nothing lost at any moment of a move, reads between moves true, the source to be removed is nobody's, the disk after the eject is what the host saw; the eject always completes |
| `transport` | the refinement of `BulkOnly`; host and program in step; sense data of the right command; every command ends |
| `usbDevice` | the OS gets its state back, no request is answered with another's answer, the bulk endpoint listens, known requests end |
| `hid` | the report remembered as last is the one shown, text arrives whole, in order and once unless a held key hides its first character, the pointer never outruns the finger, everything settles |
| `coreTemp` | whole frames only, connected while streaming, a server that gets going, every frame shown |
| `clusterMap` | no data at another file's place, everything stored once everything is written, reads return it |
| `clusterCache` | *violated*: data linked to a known file does not reach it after a miss of the cluster before (the finding) |
| `longNames` | never another's name nor part of one's own, the long name kept when its group comes together |
| `volume` | short names apart in each table until the tails are used up, no file hidden before a limit is met, chains that hold their files, `/documents` always served at the top |

**Bounds.** `staging`: two slots suffice for every pair of slots to interact, three clusters (two adjacent, one linked by the FAT) for one more than
there are slots; buffer caps 1 and 2 and budget 2 reach growth, both refusals and spill. Clusters of one sector there; `StagingSectors.cfg` has two, and the theorems every number.
`dirEntries`: two directories distinguish a rename from a move, three operations cover create-rename-delete chains; `MaxEntries` is never reached;
`MaxOps` counts over remounts, so every run ends, and rewrites are not bounded.
`folderMove`: two folders and one to create, four places in two parents, files of 2 and 0 chunks, a queue of 1 (so that one file is copied on the spot), 3 operations, a session with or without the fault `open`.
`transport`: 2 sectors, 8 kinds of command, 3 commands (one stale, one refused, one that follows), 2 resets.
`usbDevice`: 9 request classes, 3 requests, 1 abort or bus reset, 1 switch of root.
`hid`: three keys (plain, shifted, a diagonal of two codes) in two slots, a text key of two characters whose first one is the plain key's code with shift, the two modifiers, 3 changes, 1 sleep.
`coreTemp`: 8, 20, 60 and 100 cores (a short packet, two packets, a full buffer exactly, a capped frame), 2 frames, 2 pulled cables, 1 restart.
`clusterMap`: 3 clusters of 2 sectors, 3 edits, 1 read. `longNames`: 2 tables of 3 sectors of 2 slots, names of 2, 1 and 0 fragments, 3 edits.
`volume`: 2 roots and 11 nodes three levels deep, stems of 3 letters, four alike names and 2 tails (so that OVERFLOW.TXT is given, once and twice in a folder), 10 entries, 3 subdirectory tables, 12 clusters and 12 or 13 slots, each of which some order of `readdir` exhausts; 1 switch of root.

`CHECK_DEADLOCK FALSE` where the bounds on the host's operations end a behaviour, or (DirEntries) a volume with too many files for `MaxCluster` cannot be mounted again.

**Symmetry.** `longNames` permutes its files and its tables, `StagingSectors.cfg` the values of sectors: nothing compares them. No liveness property is checked under symmetry.

**Fairness.** Only what the code's own scheduling gives, all weak.
`FolderMove`: `BackgroundCopy` and `Flush`, turns of the main loop (`nStorage/main.cpp:63, 75`); the host and the user owe nothing.
`MscTransport`: `Runs` and the control requests, for every wait of the program is counted down and the loop polls; `HostMoves`, for a host goes on with the command it has begun. Nothing makes it issue a command or give one up.
`UsbDevice`: `Lives` and `Serves` as before; `TakeIn`/`GiveOut`, for a controller polls EP0 while a request is open.
`Hid`: `Scans` (the loop) and the two fetches of a host that is awake and has configured the device. It need not wake up again: the waits are bounded, and `Settles` excludes only what a report given up has lost (`missed`).
`CoreTemp`: both programs take turns.

## 4. Proofs

`StagingProofs` proves, for every number of slots, clusters and sectors, every budget, FAT and set of faults (the assumptions
are the `ASSUME`s of `Staging`: finite clusters, at least one slot and one sector, an initial buffer no larger than the cap):

| Theorem | Statement |
|---|---|
| `TypeCorrect` | `Spec => []TypeOK` |
| `FilesCorrect` | `Spec => [](DistinctStarts /\ HandleCoherent /\ NoLitter)` |
| `ContentsCorrect` | if the disk never fills up, `Spec => [](BufferBounds /\ NothingSilentlyLost)` |
| `ClaimsCorrect` | if the disk never fills up, `Spec => []SavedIntact` |
| `HandleStaysCoherent` | `Spec => []HandleCoherent` |
| `RamAccounted` | `Spec => []RamAccounting` |

The argument is layered. Types first. Then `FilesInv`, the three file properties as relations of slots, files and handle: a sector first changes
the slots (routing: matched, fresh or evicted) and is then stored, so the relations are stated of *any* slots `P`, files and handle, proved to survive routing,
then storing (`PutSectorFiles`). `NoLitter` needs `DistinctStarts` (an eviction removes one slot's file, and only that one), which needs that
a fresh slot is only taken when no slot holds the cluster. Then `ContentsInv`, the strengthening of `NothingSilentlyLost`: besides holding what was
sent, a slot that was not warned about has its file if it has spilled, its data within its size and, in RAM, within its buffer; the frame part
(`Apart`, `SlotKept`) is that storing one slot's sector, closing the handle of a second, leaves a third alone. `SavedIntact` follows at each claim.
The hypothesis on the disk is necessary: `StagingFull.cfg` violates `NothingSilentlyLost` without it.
`RamAccounting` is inductive with the types. The RAM held is the cardinality of a set of pairs of slot and unit; each of the nine adjustments changes one slot's part of it
(`UnitsChange`), whatever the other slots hold.

Evicting "the oldest in-use slot (round-robin)" (1385) is read as round robin: once slots have been claimed and taken again, the slot
whose turn it is need not be the oldest, and no property says so.

`UsbProofs` proves, about `MscTransport`, `ImplementsBulkOnly == Spec => KeepsPromise`: for every set of commands that satisfies `CommandsAssumption` (a host writes
within the capacity it was told; nothing is assumed of what it reads), every size of the medium and any number of commands and resets, every step of the transport is a step of `BulkOnly` or a stutter. The mapping counts the sectors of the
latest write that the program has received. It needs the invariant `TransportInv`, whose parts say: how the host's phase and its ledger agree (`HostInv`); a command that waits
in the buffer is the latest one and was not begun (`ArrivalInv`); within the callback the program executes the latest command, within its length (`ProgramInv`); a status for the latest command
means that its execution has ended, and, for a write that passed, with all of its sectors (`StatusInv`); the position of host and program in the data agree on the way out and on the way in
(`OutInv`, `InInv`); and what a read has delivered so far is what the medium holds (`ReadInv`). The flush before each transfer is what `InInv` rests on: without it a status left
primed by a command that was given up would stay in the place of the next one's data.

Two more theorems add `AnswerInv` and `OrderInv` to it. `FailuresExplained == Spec => []FailureExplained`: from the moment the program knows that a command fails until the host takes the status, the sense
data is that command's (`SenseInv`); a read that came short is not over in the program or has failed (`ShortReadInv`), and a write all of whose sectors were sent is received (`AllReceivedInv`). `StaysInStep == Spec => []InStep`: as long as nothing was reset and no command
has to be stalled, EP1 IN holds nothing but what the host reads next (`OrderInv`).

About `UsbDevice`, `UsbProofs` proves, for every set of requests and bounds:

| Theorem | Statement | Invariant |
|---|---|---|
| `TypeCorrect` | `UsbSpec => []UsbTypeOK` | `Typed`, the parts of `UsbTypeOK`, with `ConfigureAsked` (a configuration is under way only for a SET_CONFIGURATION) |
| `NativeStateRestored` | `UsbSpec => []NativeBack` | `LifeInv`: what is saved is the calculator's own state from the first save to the last restore |
| `AlwaysListening` | `UsbSpec => []Listening` | armed whenever enabled, but for the one step between the two halves of SET_CONFIGURATION |
| `AnswersMatch` | `UsbSpec => []AnswersOwn` | `OwnInv`: the flush of EP0 comes before the copy (`CopyFlushed`), the buffer holds the latest packet (`PendingLatest`), which is the one served (`ServesLatest`) and answered (`PrimedLatest`), unless a packet overtook one being dispatched |

`CoreTempProofs`, for every set of core counts and any number of frames, cables pulled and restarts:

| Theorem | Statement | Invariant |
|---|---|---|
| `ShowsWholeFrames` | if `EndsTransfer`, `Spec => []ShownIsAFrame` | `CoreTempInv`: what EP1 OUT holds and what the server has still to write make up one frame, and a transfer that ended holds one (`StreamInv`, `ReceivedInv`), as long as no request was given up (`Clean`) |
| `ConnectedWhileStreaming` | `Spec => []StreamsConnected` | `GreetingInv`: as long as the server has its device, a greeting in EP1 IN is this connection's, and a server past it finds the program connected or about to be |

`EndsTransfer` says that each frame is no multiple of a packet or fills the buffer; frames of 12, 28 or 44 cores do not (section 5), and TLC violates `ShownIsAFrame` with them, so it cannot be dropped.

`HidProofs`, for every key map, text, number of slots and of changes:

| Theorem | Statement | Invariant |
|---|---|---|
| `LastReportIsShown` | `Spec => []LastIsShown` | `SentInv`: between turns the endpoint is free and what is remembered was fetched, unless a report was given up (`missed`) |
| `TextAlwaysArrives` | `Spec => []TextArrives` | `TextInv`, with `SentInv`: while a text is typed, what the host saw go down and the characters from the next one on are what is owed (`At`), and the report before that one holds no code of it: an empty report, or keys that do not hide it |
| `PointerNeverLeads` | if `~Quick`, `Spec => []PointerFollows` | `MotionInv`: what the pointer has moved and what is primed are together at most half of the way from the first touch to the remembered position (`Covered`), whatever was clipped or lost |

`~Quick` says that no finger is lifted and put back between two scans; then the pointer jumps (section 5).

`ClusterMapProofs`, for every number and size of clusters, any number of edits and every order of writes:

| Theorem | Statement |
|---|---|
| `NoDataCrosses` | `Spec => []NoCrossTalk` |
| `AllIsStored` | `Spec => []Stored` |
| `ReadsReturnStored` | `Spec => ReadsStored`, an action property |

All three follow from `MapInv`: the chains of the host's files are disjoint (`FilesInv`); an entry starts where its file does (`KnownInv`); a link of the mirror, however old, is one of a file's or leads to a cluster that no file has
(`MirrorInv`, the heart of it: a chain followed through a stale mirror may end early or run into such clusters, and never leads into another file); what is written is staged until the entry comes, and then in the file (`StagedInv`, `RealInv`).
`Chain` is a recursive function inside the operator; that it is the walk it looks like, for every table, is proved by induction over a set in place of a predicate (`CountUp`), which needs no theorem with an operator parameter.

`VolumeProofs`, for every tree, all names and sizes, every order of `readdir` and every limit:

| Theorem | Statement |
|---|---|
| `NamesApart` | `Spec => []ListedApart` |
| `NothingIsHidden` | `Spec => []NothingHidden` |
| `ChainsAreWhole` | `Spec => []ChainsHold` |
| `DocumentsAlwaysServed` | `Spec => []DocumentsServed` |

First what the helpers compute, for all arguments: a name chosen has no sibling's unless all `LastTail` candidates are taken, by as many siblings (`ShortNameFree`, an injection); a table lists its folder's entries in order and leaves out only what does not fit (`TableLists`);
no cluster has two owners and a chain walks its owner's clusters (`OneOwner`, `ChainOfEntry`); depths exist and are unique (`DepthsAre`). Then the invariant `VolumeInv`: each entry is in its file's folder and no file has two (`EntriesGood`);
each call under way has children of its folder to list that have no entry yet, and no two calls are for one folder (`CallsGood`); every child of a folder with a table has an entry, will get one from a call, or has met a limit (`Complete`);
"documents" is scanned first and takes the slot after `.fseventsd`'s (`DocumentsInv`); what is served was laid out from these entries (`ServedInv`). The proof found `ListedApart` wrong as it was first stated: the tails can be used up, for the table of entries (2048) holds more than 999 files of one folder.

The same module has the proofs about `LongNames`, which it extends too (hence `LongInit`, `LongNext` and `LongSpec` there): the names the host writes, for any number and size of tables, any number of edits, and sectors written in any order, any number of times:

| Theorem | Statement |
|---|---|
| `NamesAreOwn` | `~Again => (LongSpec => []OwnName)` |
| `LongNamesKept` | `~Again => (LongSpec => LongNameKept)`, an action property |

Both are under `WellSized` and `WellNamed`, the assumptions of the module (a name has at most as many fragments as a sector has slots: 208 characters, of which the programs keep 63; no two checksums are equal), and `~Again`: the host uses no name twice. Each of the three is needed: section 5 tells what happens without.
`OwnName` says nothing of an accumulator that waits for the next sector. `LongInv` does: it belongs to a name of which no slot is alive, or to one that stands in the table, and then it holds fragments of that name only and all those of the sector its last one is in (`AccKept`); so the group, at most two sectors long, lacks something exactly if the other sector has not been read, or not since.
Inside a sector `Reading` says this slot by slot: right after a fragment of another name its text may be mixed, and that name's short entry will drop it (`Foreign`); but a name whose last fragment is in this sector has the accumulator for its own (`LastSeen`). One lemma for each kind of slot (`ReadsLast`, `ReadsMore`, `ReadsErased`, `PassesOver`, `ReadsShort`), then an induction over the slots (`ScanRight`), for which the recursive function inside `Scanned` is shown to exist (`ScanBySlots`).
The host's edits leave each other name as it was or dead (`Spared`), so an accumulator outlives them (`SparedAcc`). `BegunInv` adds that the name a sector ended in is the one its accumulator gathers, from which `TogetherCalled` gets the whole long name.

`DirEntriesProofs`, for every set of directories and names, every size of the volume and of the entry table, and every subset of the host's habits, the careless ones included:

| Theorem | Statement |
|---|---|
| `BystandersAlwaysUntouched` | `RoomInTables => (Spec => []BystandersUntouched)` |
| `TrackedAlwaysApart`, `TrackedAlwaysExists`, `RewriteAlwaysHarmless`, `EjectedAlwaysAsHostSawIt` | `Spec => []TrackedApart`, `[]TrackedExists`, `[]RewriteHarmless`, `[]EjectedAsHostSawIt`, each under `CarefulHost`, `SomeContent`, `RoomForKept` and `EntryForEachCluster` |

`RoomInTables` says that a table has a slot for each name: without it a file past the end of its table is on the disk and not in the host's view from the start (what is then hidden, and when, is `NothingIsHidden` of `Volume`). `dirHabits` runs under it.
The property is not inductive: that the disk agrees with the host says nothing of what the next table write will do. `IInv` says how an untouched file is held (`Holds`): one slot of the host's tables and one entry of the device have its path; no other slot of any table, erased ones included,
has its cluster (`Alone`), so that neither a rename (`FindByCluster`) nor an erased slot (`FindForDelete`, which cannot see byte 0 of the name) can be taken for it; no data for that cluster is on its way; and the entry is not deleted (`Tracks`), so that the flush spares it.
A path no file had at the mount has no slot and no file (`Lacks`). What each branch of `Handle` may touch is proved once (`HandleTouches`): two paths at most, and a file appears at the slot's own path alone. A whole table is then an induction over its slots (`PassKeeps`, `PassNone`),
for which the recursive function inside `Interpreted` is shown to exist (`PassExists`). The operations of the host change a set of slots that never includes the file's own (`Bypasses`, `OperationSafe`), and a mount gives every entry a place of its own within its table (`RankedApart`).

The other four are about the session as a whole, and hold for a careful host only. Their hypotheses, all of which the instance of run `dirEntries` meets:
`CarefulHost`, the host creates, edits, deletes and renames files and has none of the other habits of section 2 (section 5 tells what is lost with one of them);
`SomeContent`, what it writes into a file is never empty, for a size of 0 is taken for "not known yet" (1880);
`RoomForKept`, no more names are kept than a table has slots (the scan makes a table as large as its folder needs, up to the limits that are `Volume`'s subject), and no dot or `.sb-` file is on the disk at the mount;
`EntryForEachCluster`, there are no more clusters than `FATFS_MAX_ENTRIES`: a file here is one cluster, a careful host never uses a cluster twice, so the entry table is never full, which would make the code ignore even renames (1886).
None of the four is inductive. The invariant `CareInv` is `Session`, a dozen named parts that relate each entry of the device to the host's tables, `dirty` slots and `unsent` data, and `Rests`, what an eject leaves:

- no two entries, deleted ones included, have a path or a cluster in common (`EntriesApart`): `FindByCluster` takes deleted entries too;
- an entry is that of the live file that has its cluster, and either has its path or the file's slot is one the device has yet to see, renamed to a path no entry has (`Follows`); or no live file has its cluster, the host deleted it, and it is marked so or an erased slot still to be written will (`Gone`, `ErasesDone`);
- an entry whose path a live file with *another* cluster has is deleted for good and that file is not tracked yet (`Replaced`): so the new file may take the entry's place (`Place`), and the flush spares it;
- a live file without an entry is in a slot still to be written (`Untracked`), and what is staged for its cluster, with the data on its way, will be its content once it is cut to the slot's size (`Claimable`);
- the disk file of an entry, with the data on its way, is the host's, but for a tail that a resize still to come will cut (`InSync`): this is where data before table, table before data, and a shrinking edit meet.

The host's own tables have one path and one cluster to a file, its true size, and no erased slot that could be taken for a live one (`Host`). `HandleKeepsSession` shows that one slot, interpreted, settles that slot and keeps the rest, branch by branch (`SettleKeeps`, `EraseKeeps` and the lemmas next to them);
`PassKeepsSession` is the induction over a table; `CleanPass` shows that a table with nothing new in it changes no file, which is `RewriteHarmless`. `WriteDataCare` does the same for data, to a tracked file and to the staging area, and `CreateKeeps`, `EditKeeps`, `DeleteKeeps` and `RenameKeeps` for the host. With nothing left to write, `SettledFile` and `SettledNone` turn `Session` into `EjectedAsHostSawIt` after the flush;
`MountedSession` starts the next one. TLC checked `CareInv` on the instance of `dirEntries` before it was proved.

`FolderMoveProofs`, for every set of folders, places, files and contents, and every queue and table size:

| Theorem | Statement |
|---|---|
| `FilesNeverLost` | `Careful => (Spec => []NothingLost)` |
| `IdleReadsAlwaysTrue` | `Careful => (Spec => []IdleReadsTrue)` |
| `SourceAlwaysUntracked` | `Careful => (Spec => []SourceUntracked)` |
| `FoldersEjectedAsHostSawThem` | `Careful => (Spec => []EjectedAsHostSawIt)` |

`Careful` says that no call but `open` fails (each of the other faults loses files, section 5), that the host has none of the habits `replace`, `hasty` and `prune` (section 5 again), and that there are no more folders than `MaxEntries` (a full table ignores a new folder). The instance of run `folderMove` meets it, and TLC checked `FolderInv` there before it was proved.

None of the four is inductive. While the program runs, `FolderInv` is two things. `HostGood` is about the host's tables alone: a folder has one live slot at most, one the host deleted has none and no file it still wants (`Dead`), and every folder in the tables is alive or deleted (`Accounted`). `Good` relates the device to them:

- `EntryGood`: an entry's place is that of a slot of its folder, and a live slot the device has read is tracked exactly;
- `DirGood`: every directory on the disk is an entry's, or the source of the copy, or at an erased slot, where a copy that failed left it;
- `FileGood`: what the host put into a file is found where the entry says or, until the copy has passed it, in the source (`SourceOf`); where an `open` may fail, an unedited file is in one of the folder's places; files the host unlinked are to be removed by the flush (`graves`);
- `CopyGood`: a copy runs between two places of one folder (`FromTo`); what is queued is in the source (`Queued`), what is open is half-way (`Opened`), and what is no longer queued has arrived (`Copied`);
- `SourceErased`, in a session with failures: the slot at the source is erased, so nothing will be asked to live there again.

After the eject, only what the properties say of the disk is left.

The difficulty is a table write that moves two folders: the second move drains the first copy in the middle of the scan. So `Good` is stated of *any* device state `v` and *any* set `R` of slots read, and a table write goes slot by slot (`SlotHandled`, then `TableHandled` by induction over the slots). A move drains the copy (`CopyTurns` for one turn; `CopyDrained`, since `Remaining` turns, which go down with each, are at most the `MaxSteps` the drain may take),
clears the destination (`PlaceIsFree`), lists the source (`Enumerates`: each file is queued or copied on the spot), and starts the next copy (`SlotMoved`). The recursive functions inside `Drained`, `Enumerated` and `Handled` are shown to exist by counting (`CountFromZero`). Each of the host's operations has its own lemma, from `HostMoveStep` to `HostEditStep`; `FlushStep` is the eject and `InitGood` the mount; `FolderStep` puts them together.

Only model-checked: every liveness property (liveness under fairness is beyond the prover). The `TypeOK`s of `FolderMove` and `LongNames` are stated for the reader; no run spends its time on them.

## 5. Known disagreements and limits

What the models showed, or what reading for them showed, where the programs do less than a comment or a user expects. Where a configuration is named, TLC finds the violation with
`tlc -config <cfg> <MC module>`; these are not among the runs (but for `clusterCache`), whose number is kept to a dozen.

**Staging.** A slot refused RAM at its first byte cannot fall back to disk (2549, against the comment at 2525-2527): `StagingRamRefused.cfg`, `RamRefusalFallsBackToDisk`.
A full disk loses staged sectors without the warning (2557): `StagingFull.cfg`, `NothingSilentlyLost`.
`.usbstage` files left by a kill stay until a spill of the same cluster truncates them (not modelled). Which of two files written alternately to adjacent clusters a slot belongs to is a guess (1364).

**Directory entries.** A safe save over an existing file is never claimed (1875): `DirSafeSave.cfg`, `StagedIsClaimed`.
A new empty file is never created (1887): `DirTouch.cfg`, `NewFilesExist`; a size of 0 never truncates (1880).
A rename onto the path of a file deleted in the same session is removed by the eject (1945): `DirReplace.cfg`, `FlushSparesTracked`.
A cluster used again in the same session brings the old file's entry back (1900): `DirReuse.cfg`, `NewFilesHoldTheirData`.
An erased slot deletes the live file it differs from in the first letter only (1500): `DirAlike.cfg`, `RewriteHarmless`.
A hasty host that moves a file away and back before it writes the table has it copied onto itself and removed; one whose erased slot is taken by another before the table is written keeps the file on the calculator.
With the entry table full even renames of tracked files are ignored (1886). A kill in the middle of one table write and the control endpoint served from inside a file copy (1044) are not modelled: every table write is whole.

**Folder moves.** A full disk during the copy (1003: `fwrite` is not checked) loses the folder: `FolderMove.cfg` with `Faults = {"full"}` violates `NothingLost`; so do `sync`, and `open` with the habit `replace`.
When a folder cannot be listed the move is not taken back, against 1739-1742: `FolderListing.cfg`, `NothingLost` (1763). A file deleted from a folder on its way comes back: `FolderPrune.cfg`, `DeletedStayDeleted` (1190).
`replace`: the deferred delete removes a folder moved onto a deleted one's place. `hasty`: with places reused or folders moved again before their tables are written, `SourceUntracked` and `EjectedAsHostSawIt` are violated.
READ(10) of a file not yet copied returns zeros with a good status; the later sectors of one WRITE(10) that went to a folder just moved are lost. The header still says that creating directories is unsupported (47).

**Transport.** A status that was not fetched stays primed across a reset, and is the first thing the host reads next. READ out of range and unknown commands with a data phase do not stall; a READ that fails midway reports residue 0. The result of
`fatfs_write_sector` is ignored. A completion bit left by a flushed transfer causes a second arming, whose flush may drop a command in between (the host then gives up and resets). Residues and sense texts are abstracted.

**USB device.** A setup packet that arrives after an earlier one was copied and before its flag is cleared is dropped, and the flag is not looked at again before an answer is primed (`overrun`). SET_CONFIGURATION is acknowledged before EP1 is flushed and armed. A bus reset is never handled.
SET_REPORT (the LED report) is never answered: `UsbLedReport.cfg`, `EveryRequestAnswered` (`nStorageKbdMouse/usb_dma.h:904`); nor are GET_STATUS, unknown descriptors and SET_CONFIGURATION(0). SET_FEATURE and GET_INTERFACE reach HID handlers by their numbers. `reset_usb_subsystem` waits without a bound.
Esc and Tab are keys of the HID map too.

**HID.** A report whose wait ran out counts as sent. Endpoints are not flushed before a report is primed. Movements smaller than the divisor are lost. Keys that find no slot among the six are dropped, with their shift. A key pressed before the device is configured is not reported.
Typing text sends empty reports in between, so that a held key goes down again for the host: `HidHeld.cfg`, `HeldExactly` (`nStorageKbdMouse/main.cpp:27`).
`HidMasked.cfg`, `TextWhole`: the first character of a text comes right after the report of the keys that are held; if one of them has its code, nothing goes down for the host and the character is lost (`nStorageKbdMouse/main.cpp:24`, against 59-61).
Every text of the map begins with a character whose code another key has. A finger lifted and put back between two scans makes the pointer jump (72-75; constant `Quick`).
The failure of `touchpad_scan` is abstracted.

**nCoreTemp.** With 12, 28 or 44 logical cores a frame is a multiple of 64 bytes but no full buffer, so no short packet ends it and it is joined with the next (`computer_server.py:284`); `CoreCounts` leaves these out. A CLEAR_FEATURE given up during the greeting arms the endpoint in the middle of a frame.
A server that lost the device while it waits for the greeting reads the old handle for ever: `Recovers` is violated. A failure of `set_configuration` ends the server. Write timeouts are not modelled.

**Cluster lookup.** The finding: `clusterCache`, `LinkedDataLands`. The cluster after a missed one is taken for missing without a search, as long as no entry was added, although the host may have linked it to a known file since (773-778). The data goes to the staging area, where no entry claims it. Found lookups do not reset the cache.

**Long names.** When the second sector of a group that straddles two comes first, the file keeps its short name (216, 286-288): `EveryLongName` is violated. A host that uses a name again (`Again = TRUE`) violates `OwnName`: an erased slot's 0xE5 looks like a last fragment of number 5.
A rename that changes the long name only is ignored. Checksums are taken as collision-free (`Sum` is injective); they have 8 bits, so one pair of names in 256 is not, and the checksum is all that keeps a name from another's short entry.
A name of more than 208 characters can come in three sectors; with the middle one late, the string the file is called by ends at the gap, a part of its own name (left out: `Fragments[n] <= SectorSlots`).

**Volume.** The boot sector declares clusters up to `FATFS_MAX_CLUSTERS` + 1, but the mirror ends at `FATFS_MAX_CLUSTERS` - 1, so links of the last two are neither kept nor served (130, 713, 768). Content larger than the volume gets cut chains.
With 999 alike siblings the rest share OVERFLOW.TXT, and the host sees several files of one name (210). Folders beyond the depth or the number of tables look empty, and a host that deletes one deletes what it never saw. Long names over 63 characters and paths over 191 are truncated (not modelled). A file that cannot be opened is not shown.

## 6. Plan

Modelled: every component of section 1 but the prototype. Next:

1. Composition of `Staging`, `ClusterMap` and `DirEntries` over one host (files of several clusters, claimed from several slots), which is what decides the guess of 1364. Together they are out of TLC's reach at bounds that say anything; it needs a coarser staging area, for which the theorems of section 4 are the promise.
2. A kill in the middle of a table write.

## 7. Not modelled

Register and descriptor layout, cache maintenance, drawing and wording need the hardware or have no state worth checking. The bytes of boot sector and MBR are layout.
`nKbdMouse` has the composite program's HID text and an older `usb_dma.h`; `nCoreTemp/usb_dma.h` is modelled where its server meets it. `USB_computer_test1_connecting` is a superseded prototype.
The composite program's `usb_fatfs.h` and `usb_msc.h` are nStorage's text; the models of that text are mapped to nStorage's, and the scan to the composite program's.
