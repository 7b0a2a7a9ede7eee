----------------------------- MODULE LongNames ------------------------------
(***************************************************************************)
(* Long file names in directory sectors.  A name is a group of slots: its  *)
(* fragments, last first, each with the checksum of the short name, then   *)
(* the short entry.  A group may straddle two sectors, so the fragments    *)
(* seen are kept between writes, in one accumulator for each table, until  *)
(* a short entry ends the group.                                           *)
(*                                                                         *)
(* The host creates, renames and deletes files in its tables and writes    *)
(* their sectors in any order, any number of times.                        *)
(*                                                                         *)
(* Abstractions: a fragment is its name and number, a short name the name  *)
(* it belongs to, a checksum that of a constant; a file is its cluster;    *)
(* what an accumulator holds when it is not active is never read.          *)
(***************************************************************************)
EXTENDS Integers, Sequences, FiniteSetsExt, SequencesExt

CONSTANTS
  DirTables,      \* the root and the subdirectories with a table
  Sectors,        \* sectors of a table
  SectorSlots,    \* 16
  Files,          \* clusters
  FileNames,
  Fragments,      \* FileNames -> number of fragments; 0: a short name only
  Sum,            \* fatfs_lfn_checksum: FileNames -> checksum
  Again,          \* the host may use a name again
  MaxEdits        \* bound on what the host does

NoName == "none"

WellSized == {Sectors, SectorSlots} \subseteq Nat \ {0} /\ MaxEdits \in Nat /\ Again \in BOOLEAN
WellNamed ==
  /\ Fragments \in [FileNames -> 0..SectorSlots] /\ \A n \in FileNames : Fragments[n] < 31
  /\ DOMAIN Sum = FileNames /\ IsInjective(Sum)
  /\ NoName \notin FileNames
ASSUME TablesAssumption == WellSized
ASSUME FileNamesAssumption == WellNamed

VARIABLES
  table,     \* the host's directory tables: slots
  acc,       \* fatfs_pending_lfn and its _len, _checksum, _active
  tracked,   \* the entry of each file: its table, short name, name, deleted
  edits,
  used,      \* names the host has used
  begun      \* history: for each table, the name whose fragments end the last sector

longVars == <<table, acc, tracked, edits, used, begun>>

Slots == 1..Sectors * SectorSlots
Before(s) == (s - 1) * SectorSlots
SlotsOf(s) == Before(s) + 1..Before(s) + SectorSlots

-----------------------------------------------------------------------------
(* Slots.                                                                   *)

Free == [kind |-> "free"]

(* fatfs_write_name_entries.                                                *)
Group(n, f) ==
  [i \in 1..Fragments[n] |->
     [kind |-> "long", name |-> n, seq |-> Fragments[n] + 1 - i, last |-> i = 1, erased |-> FALSE]]
  \o <<[kind |-> "short", name |-> n, file |-> f, erased |-> FALSE]>>

Fragment(n, i) == [name |-> n, number |-> i]
LongName(n) == [i \in 1..Fragments[n] |-> Fragment(n, i)]
Derived(n) == <<Fragment(n, 0)>>
NameOf(n) == IF Fragments[n] = 0 THEN Derived(n) ELSE LongName(n)

(* Byte 0 of a long slot.  The one of an erased slot, 0xE5, has the bit of a *)
(* last fragment, and a number of 5.                                        *)
Byte0(e) == IF e.erased THEN 229 ELSE e.seq + (IF e.last THEN 64 ELSE 0)
IsLast(e) == (Byte0(e) \div 64) % 2 = 1
Number(e) == Byte0(e) % 32

Inactive == [active |-> FALSE, sum |-> Sum[CHOOSE n \in FileNames : TRUE], text |-> << >>]
NotTracked == [table |-> NoName, short |-> NoName, called |-> << >>, deleted |-> TRUE]

LongInit ==
  /\ table = [t \in DirTables |-> [p \in Slots |-> Free]]
  /\ acc = [t \in DirTables |-> Inactive]
  /\ tracked = [f \in Files |-> NotTracked]
  /\ edits = 0 /\ used = {} /\ begun = [t \in DirTables |-> NoName]

-----------------------------------------------------------------------------
(* fatfs_scan_dir_table_write.                                              *)

\* Mutant: one accumulator for all tables.
AccOfAll(t) == CHOOSE u \in DirTables : TRUE

AccOf(t) == t

WithLong(a, e) ==
  LET started == IF IsLast(e) THEN [active |-> TRUE, sum |-> Sum[e.name], text |-> << >>] ELSE a
  IN  IF started.active
      THEN [started EXCEPT !.text =
              [i \in DOMAIN @ \cup {Number(e)} |-> IF i = Number(e) THEN Fragment(e.name, e.seq) ELSE @[i]]]
      ELSE started

(* The text ends at the first fragment that is missing.                     *)
Spelled(text) ==
  LET n == Max({k \in 0..Cardinality(DOMAIN text) : 1..k \subseteq DOMAIN text})
  IN  [i \in 1..n |-> text[i]]

\* Mutant: the checksum is not compared.
MatchesAny(a, e) == a.active

Matches(a, e) == a.active /\ a.sum = Sum[e.name]

(* The long name, if its checksum matches and it is not empty.              *)
Called(a, e) ==
  IF Matches(a, e) /\ Spelled(a.text) # << >> THEN Spelled(a.text) ELSE Derived(e.name)

(* The part of fatfs_handle_short_entry_write that names a file: an entry    *)
(* with this short name keeps its name; one with this cluster is renamed.    *)
Known(entry, t, e) == ~entry.deleted /\ entry.table = t /\ entry.short = e.name

Handled(entry, t, e, called) ==
  IF e.erased THEN IF Known(entry, t, e) THEN [entry EXCEPT !.deleted = TRUE] ELSE entry
  ELSE IF Known(entry, t, e) THEN entry
  ELSE [table |-> t, short |-> e.name, called |-> called, deleted |-> FALSE]

\* One slot, on the accumulator and the tracked entries.
SlotRead(t, st, e) ==
  CASE e.kind = "free" -> st
    [] e.kind = "long" -> [st EXCEPT !.acc = WithLong(@, e)]
    [] e.kind = "short" ->
         [acc |-> IF e.erased THEN st.acc ELSE Inactive,
          tracked |-> [st.tracked EXCEPT ![e.file] = Handled(@, t, e, Called(st.acc, e))]]

\* The slots of one sector, in order.
Scanned(t, s) ==
  LET read[k \in 0..SectorSlots] ==
        IF k = 0 THEN [acc |-> acc[AccOf(t)], tracked |-> tracked]
        ELSE SlotRead(t, read[k - 1], table[t][Before(s) + k])
  IN  read[SectorSlots]

\* The name whose fragments end the sector: its short entry is in the next one.
Begins(t, s) ==
  LET e == table[t][s * SectorSlots]
  IN  IF e.kind = "long" /\ ~e.erased
         /\ \E p \in SlotsOf(s) : table[t][p].kind = "long" /\ ~table[t][p].erased /\ table[t][p].last
                                  /\ table[t][p].name = e.name
      THEN e.name ELSE NoName

Quiet(t, s) ==
  \A p \in SlotsOf(s) : table[t][p].kind = "free" \/ (table[t][p].kind = "short" /\ table[t][p].erased)

WriteSector(t, s) ==
  /\ acc' = [acc EXCEPT ![AccOf(t)] = Scanned(t, s).acc]
  /\ tracked' = Scanned(t, s).tracked
  /\ begun' = [begun EXCEPT ![t] = IF Quiet(t, s) THEN @ ELSE Begins(t, s)]
  /\ UNCHANGED <<table, edits, used>>

-----------------------------------------------------------------------------
(* The host.                                                                *)

Live(f) == {x \in DirTables \X Slots : LET e == table[x[1]][x[2]]
                                        IN  e.kind = "short" /\ ~e.erased /\ e.file = f}
Uses(n) ==
  /\ n \in used =>
       /\ Again
       /\ \A t \in DirTables, p \in Slots : table[t][p].kind # "free" => table[t][p].name # n \/ table[t][p].erased
  /\ used' = used \cup {n}

Vacant(tb, p, k) ==
  /\ p + k - 1 \in Slots
  /\ \A q \in p..p + k - 1 : tb[q].kind # "free" => tb[q].erased

Placed(tb, p, group) ==
  [q \in Slots |-> IF q \in p..p + Len(group) - 1 THEN group[q - p + 1] ELSE tb[q]]

\* The group that ends at slot p, erased.
Erased(tb, p) ==
  [q \in Slots |-> IF tb[q].kind # "free" /\ tb[q].name = tb[p].name THEN [tb[q] EXCEPT !.erased = TRUE]
                   ELSE tb[q]]

Editing == edits < MaxEdits /\ edits' = edits + 1 /\ UNCHANGED <<acc, tracked, begun>>

HostCreate(f, n, t, p) ==
  /\ Editing
  /\ Live(f) = {} /\ tracked[f] = NotTracked /\ Uses(n) /\ Vacant(table[t], p, Fragments[n] + 1)
  /\ table' = [table EXCEPT ![t] = Placed(@, p, Group(n, f))]

HostDelete(f) ==
  /\ Editing /\ UNCHANGED used
  /\ \E x \in Live(f) : table' = [table EXCEPT ![x[1]] = Erased(@, x[2])]

(* A rename, or a move to another table.                                    *)
HostRename(f, n, t, p) ==
  /\ Editing
  /\ Uses(n)
  /\ \E x \in Live(f) :
       LET erased == [table EXCEPT ![x[1]] = Erased(@, x[2])]
       IN  /\ Vacant(erased[t], p, Fragments[n] + 1)
           /\ table' = [erased EXCEPT ![t] = Placed(@, p, Group(n, f))]

-----------------------------------------------------------------------------
LongNext ==
  \/ \E t \in DirTables, s \in 1..Sectors : WriteSector(t, s)
  \/ \E f \in Files, n \in FileNames, t \in DirTables, p \in Slots : HostCreate(f, n, t, p) \/ HostRename(f, n, t, p)
  \/ \E f \in Files : HostDelete(f)
LongSpec == LongInit /\ [][LongNext]_longVars

-----------------------------------------------------------------------------
(* The variables have their types.                                          *)
TypeOK ==
  /\ \A t \in DirTables : acc[t].active \in BOOLEAN /\ DOMAIN acc[t].text \subseteq 1..31
  /\ \A f \in Files : tracked[f].table \in DirTables \cup {NoName} /\ tracked[f].deleted \in BOOLEAN
  /\ used \subseteq FileNames /\ begun \in [DirTables -> FileNames \cup {NoName}]

(* A file is never called by another's name, by a part of its own, or by     *)
(* fragments of two, whatever sectors come in between: by its long name or   *)
(* by its short one.                                                         *)
OwnName ==
  \A f \in Files : tracked[f].deleted \/ tracked[f].called \in {LongName(tracked[f].short), Derived(tracked[f].short)}

(* A file is called by its long name when its group comes in one sector, or  *)
(* in two written one after the other as far as its table goes: sectors of   *)
(* other tables, and ones with nothing but free slots and erased short       *)
(* entries, may come in between.                                             *)
Together(t, n) ==
  \/ begun[t] = n
  \/ \E s \in 1..Sectors : \A p \in Slots : table[t][p].kind # "free" /\ table[t][p].name = n => p \in SlotsOf(s)

WholeNames ==
  \A f \in Files :
    tracked'[f] # tracked[f] /\ ~tracked'[f].deleted /\ Together(tracked'[f].table, tracked'[f].short)
      => tracked'[f].called = NameOf(tracked'[f].short)
LongNameKept == [][WholeNames]_longVars

(* Once created, a file whose sectors were all written again has its long    *)
(* name: not so if the second sector of its group came first.                *)
EveryLongName ==
  \A f \in Files : tracked[f].deleted \/ tracked[f].called = NameOf(tracked[f].short)
=============================================================================
