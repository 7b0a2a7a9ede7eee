---------------------------- MODULE MscTransport ----------------------------
(***************************************************************************)
(* The mass-storage transport of usb_msc.h over the bulk endpoints of      *)
(* usb_dma.h: a command arrives in the buffer armed on EP1 OUT, is run to  *)
(* its end inside the callback, with its data moved one transfer at a time *)
(* and every wait bounded, and is answered by one status on EP1 IN.        *)
(*                                                                         *)
(* The host follows the bulk-only protocol: command, data, status; it      *)
(* reads or sends as soon as it may, a short packet ends its data phase,   *)
(* and when it gives a command up it resets: the class request, then       *)
(* CLEAR_FEATURE for EP1 IN and for EP1 OUT, all served by the main loop.  *)
(*                                                                         *)
(* Abstractions: a sector is one transfer, also where the 256-byte command *)
(* buffer takes it in two halves; an endpoint holds one primed transfer; a *)
(* wait expires only while the host has no transfer of its own on that     *)
(* pipe; no sector looks like a command; the file layer below              *)
(* fatfs_write_sector takes every sector it is handed.                     *)
(***************************************************************************)
EXTENDS Integers, Sequences

CONSTANTS
  Commands,     \* what the host may ask: [op, lba, n]
  Sectors,      \* fatfs_total_sectors_count()
  MaxCommands,  \* bound on the host's commands
  MaxResets     \* bound on the host's resets

Ops == {"write", "read", "reply", "plain", "unknownIn", "unknownOut"}

ASSUME CommandsAssumption ==
  /\ Commands \subseteq [op : Ops, lba : Nat, n : Nat]
  /\ \A c \in Commands : c.op = "write" => c.lba + c.n <= Sectors
ASSUME SizesAssumption == Sectors \in Nat /\ MaxCommands \in Nat /\ MaxResets \in Nat

VARIABLES
  issued, outcome, read,  \* the host's commands and how they ended
  phase,    \* the host: idle, command, out, in, status, halted, reset
  moved,    \* the data of the latest command: sectors received, or how many were sent
  setup,    \* the control request that waits for the device
  mixup,    \* history: the host took a packet for what it was not
  resets,   \* resets so far
  inTd,     \* the transfer primed on EP1 IN
  outTd,    \* the buffer armed on EP1 OUT: none, command (dtd_bulk_rx), sector (msc_dtd_rx)
  outBuf,   \* what has arrived in that buffer
  outDone,  \* ENDPTCOMPLETE, EP1 OUT
  pc,       \* the program: loop, exec, sendData, sendStatus, receive, rearm
  cur,      \* tag of the command being executed
  i,        \* its sectors so far
  ok,       \* what msc_scsi_execute will return
  sense,    \* tag of the command that set the sense data last
  medium,   \* what fatfs_write_sector was handed
  busy      \* fatfs_bg_copy_active

ledger == <<issued, outcome, read>>
host == <<ledger, phase, moved, setup, mixup, resets>>
wires == <<inTd, outTd, outBuf, outDone>>
program == <<pc, cur, i, ok, sense, medium, busy>>
vars == <<host, wires, program>>

Empty == [kind |-> "empty"]
Data(x) == [kind |-> "data", sector |-> x]
Cbw(t) == [kind |-> "command", tag |-> t]
Csw(t, o) == [kind |-> "status", tag |-> t, passed |-> o]

Tag == Len(issued)
Latest == issued[Tag]
Job == issued[cur]          \* the command block the program is executing
InRange(c) == c.lba + c.n <= Sectors
Reading == phase \in {"in", "status"}

Init ==
  /\ issued = <<>> /\ outcome = <<>> /\ read = <<>>
  /\ phase = "idle" /\ moved = <<>> /\ setup = "none" /\ mixup = FALSE /\ resets = 0
  /\ inTd = Empty /\ outTd = "command" /\ outBuf = Empty /\ outDone = FALSE
  /\ pc = "loop" /\ cur = 0 /\ i = 0 /\ ok = TRUE /\ sense = 0
  /\ medium = [s \in 0..Sectors - 1 |-> <<0, s>>] /\ busy = FALSE

-----------------------------------------------------------------------------
(* The host.                                                                *)

DataPhase(c) ==
  CASE c.op \in {"write", "unknownOut"} /\ c.n > 0 -> "out"
    [] c.op \in {"read", "reply", "unknownIn"} /\ c.n > 0 -> "in"
    [] OTHER -> "status"

Issue(c) ==
  /\ phase = "idle" /\ Tag < MaxCommands
  /\ issued' = Append(issued, c) /\ outcome' = Append(outcome, "open")
  /\ read' = Append(read, <<>>)
  /\ phase' = "command" /\ moved' = <<>>
  /\ UNCHANGED <<setup, mixup, resets, wires, program>>

Deliver(x) ==
  /\ outTd # "none"
  /\ outBuf' = x /\ outDone' = TRUE /\ outTd' = "none"
  /\ UNCHANGED <<inTd, program, ledger, setup, mixup, resets>>

SendCommand ==
  /\ phase = "command"
  /\ Deliver(Cbw(Tag))
  /\ phase' = DataPhase(Latest)
  /\ UNCHANGED moved

SendSector ==
  /\ phase = "out"
  /\ Deliver(Data(<<Tag, Len(moved)>>))
  /\ moved' = Append(moved, <<Tag, Len(moved)>>)
  /\ phase' = IF Len(moved') = Latest.n THEN "status" ELSE "out"

EndAs(o) ==
  /\ outcome' = [outcome EXCEPT ![Tag] = o]
  /\ read' = [read EXCEPT ![Tag] = IF o = "passed" /\ Latest.op = "read" THEN moved ELSE <<>>]
  /\ UNCHANGED issued

(* A reset starts with the class request; the command counts as lost.       *)
Reset ==
  /\ resets < MaxResets
  /\ EndAs("lost")
  /\ phase' = "reset" /\ setup' = "massStorageReset" /\ resets' = resets + 1
  /\ UNCHANGED moved

GiveUp ==
  /\ phase \notin {"idle", "reset"}
  /\ Reset
  /\ UNCHANGED <<mixup, wires, program>>

TakeData ==
  /\ phase = "in"
  /\ IF inTd.kind = "data"
       THEN /\ moved' = Append(moved, inTd.sector)
            /\ phase' = IF Len(moved') = Latest.n THEN "status" ELSE "in"
            /\ UNCHANGED mixup
       ELSE moved' = moved /\ phase' = "status" /\ mixup' = TRUE  \* 13 bytes: a short packet
  /\ UNCHANGED <<ledger, setup, resets>>

GoodStatus == inTd.kind = "status" /\ inTd.tag = Tag

TakeStatus ==
  /\ phase = "status" /\ GoodStatus
  /\ EndAs(IF ~inTd.passed \/ (Latest.op = "read" /\ Len(moved) # Latest.n)
             THEN "failed" ELSE "passed")
  /\ phase' = "idle"
  /\ UNCHANGED <<moved, setup, mixup, resets>>

RejectStatus == phase = "status" /\ ~GoodStatus /\ mixup' = TRUE /\ Reset

Fetch ==
  /\ inTd # Empty
  /\ TakeData \/ TakeStatus \/ RejectStatus
  /\ inTd' = Empty
  /\ UNCHANGED <<outTd, outBuf, outDone, program>>

(* A stall seen during the data phase is cleared before the status is read. *)
ClearHalt ==
  /\ phase = "halted" /\ setup = "none"
  /\ setup' = "clearIn"
  /\ UNCHANGED <<ledger, phase, moved, mixup, resets, wires, program>>

-----------------------------------------------------------------------------
(* The endpoints.                                                           *)

\* Mutant: what was primed before stays.
PrimedUnflushed(x) == inTd' = IF inTd = Empty THEN x ELSE inTd

(* msc_bulk_send_chunk flushes EP1 IN before it primes the transfer.        *)
Primed(x) == inTd' = x

(* arm_bulk_out: flush, a fresh descriptor, prime.  The completion bit of    *)
(* what the flush dropped stays.                                             *)
ArmBulkOut == outTd' = "command" /\ outBuf' = Empty /\ UNCHANGED outDone

-----------------------------------------------------------------------------
(* The program, between the loop and the end of the callback.               *)

Refused(c) == busy /\ c.op = "write"

\* Mutant: a write refused during the copy sets no sense data.
BeginSilently(t) ==
  LET c == issued[t]
      bad == c.op \in {"unknownIn", "unknownOut"} \/ (c.op = "read" /\ ~InRange(c))
  IN  /\ cur' = t /\ i' = 0 /\ ok' = ~(bad \/ Refused(c))
      /\ sense' = IF bad THEN t ELSE sense
      /\ pc' = "exec" /\ UNCHANGED phase

Begin(t) ==
  LET c == issued[t]
      bad == \/ Refused(c)
             \/ c.op = "read" /\ ~InRange(c)
             \/ c.op \in {"unknownIn", "unknownOut"}
  IN  /\ cur' = t /\ i' = 0 /\ ok' = ~bad
      /\ sense' = IF bad THEN t ELSE sense
      /\ pc' = "exec"
      (* TXS is raised and dropped at once: the host may or may not meet it. *)
      /\ \/ c.op = "unknownIn" /\ ~Refused(c) /\ phase = "in" /\ phase' = "halted"
         \/ UNCHANGED phase

(* service_bulk_endpoints, from the loop to the callback or the re-arming.   *)
ServiceBulk ==
  /\ pc = "loop" /\ outDone
  /\ outDone' = FALSE
  /\ IF outBuf.kind = "command"
       THEN Begin(outBuf.tag)
       ELSE pc' = "rearm" /\ UNCHANGED <<cur, i, ok, sense, phase>>
  /\ UNCHANGED <<ledger, moved, setup, mixup, resets, inTd, outTd, outBuf, medium, busy>>

Rearm ==
  /\ pc = "rearm"
  /\ ArmBulkOut
  /\ pc' = "loop"
  /\ UNCHANGED <<host, inTd, cur, i, ok, sense, medium, busy>>

Sends(c) == c.op \in {"reply", "read"} /\ ok
Receives(c) == (c.op = "write" /\ ok) \/ c.op = "unknownOut"
Going == pc = "exec" /\ i < Job.n

SendData ==
  /\ Going /\ Sends(Job)
  /\ Primed(Data(IF Job.op = "read" THEN medium[Job.lba + i] ELSE Job.op))
  /\ pc' = "sendData"
  /\ UNCHANGED <<host, outTd, outBuf, outDone, cur, i, ok, sense, medium, busy>>

\* Mutant: the status does not tell what msc_scsi_execute returned.
SendStatusPassed ==
  /\ pc = "exec" /\ ~(Going /\ (Sends(Job) \/ Receives(Job)))
  /\ Primed(Csw(cur, TRUE))
  /\ pc' = "sendStatus"
  /\ UNCHANGED <<host, outTd, outBuf, outDone, cur, i, ok, sense, medium, busy>>

SendStatus ==
  /\ pc = "exec" /\ ~(Going /\ (Sends(Job) \/ Receives(Job)))
  /\ Primed(Csw(cur, ok))
  /\ pc' = "sendStatus"
  /\ UNCHANGED <<host, outTd, outBuf, outDone, cur, i, ok, sense, medium, busy>>

\* Mutant: the completion of a data transfer is not awaited.
DataSentUnawaited ==
  /\ pc = "sendData"
  /\ i' = i + 1 /\ pc' = "exec"
  /\ UNCHANGED <<host, wires, cur, ok, sense, medium, busy>>

(* The wait of a send ends: the host has fetched the transfer, or the count  *)
(* has run out and the transfer stays primed.                                *)
DataSent ==
  /\ pc = "sendData" /\ (inTd = Empty \/ ~Reading)
  /\ IF inTd = Empty THEN i' = i + 1 /\ UNCHANGED ok ELSE ok' = FALSE /\ UNCHANGED i
  /\ pc' = "exec"
  /\ UNCHANGED <<host, wires, cur, sense, medium, busy>>

\* Mutant: the wait for the host has no bound.
StatusSentUnbounded ==
  /\ pc = "sendStatus" /\ inTd = Empty
  /\ pc' = "rearm"
  /\ UNCHANGED <<host, wires, cur, i, ok, sense, medium, busy>>

StatusSent ==
  /\ pc = "sendStatus" /\ (inTd = Empty \/ ~Reading)
  /\ pc' = "rearm"
  /\ UNCHANGED <<host, wires, cur, i, ok, sense, medium, busy>>

Receive ==
  /\ Going /\ Receives(Job)
  /\ outTd' = "sector" /\ outBuf' = Empty
  /\ pc' = "receive"
  /\ UNCHANGED <<host, inTd, outDone, cur, i, ok, sense, medium, busy>>

(* A sector is in: WRITE(10) hands it to the file layer, which may find a    *)
(* folder moved and start the background copy; an unknown command drops it.  *)
Received ==
  /\ pc = "receive" /\ outDone
  /\ outDone' = FALSE /\ i' = i + 1 /\ pc' = "exec"
  /\ IF Job.op = "write"
       THEN /\ medium' = [medium EXCEPT ![Job.lba + i] = outBuf.sector]
            /\ busy' \in {busy, TRUE}
       ELSE UNCHANGED <<medium, busy>>
  /\ UNCHANGED <<host, inTd, outTd, outBuf, cur, ok, sense>>

ReceiveTimeout ==
  /\ pc = "receive" /\ ~outDone /\ phase # "out"
  /\ pc' = "exec"
  /\ IF Job.op = "write" THEN ok' = FALSE /\ UNCHANGED i ELSE i' = i + 1 /\ UNCHANGED ok
  /\ UNCHANGED <<host, wires, cur, sense, medium, busy>>

CopyEnds ==
  /\ pc = "loop" /\ busy
  /\ busy' = FALSE
  /\ UNCHANGED <<host, wires, pc, cur, i, ok, sense, medium>>

(* service_control_endpoint clears the halt of EP1 IN or EP1 OUT; it takes no *)
(* primed transfer off EP1 IN.                                               *)
ServiceControl ==
  /\ pc = "loop" /\ setup \in {"clearIn", "clearOut"}
  /\ IF setup = "clearOut" THEN ArmBulkOut ELSE UNCHANGED <<outTd, outBuf, outDone>>
  /\ setup' = IF setup = "clearIn" /\ phase = "reset" THEN "clearOut" ELSE "none"
  /\ phase' = CASE setup' # "none" -> phase
                [] phase = "halted" -> "status"
                [] OTHER -> "idle"
  /\ UNCHANGED <<ledger, moved, mixup, resets, inTd, program>>

(* msc_on_unhandled_control: a Bulk-Only reset is acknowledged, and resets    *)
(* nothing; the host clears the halt of both endpoints next.                 *)
MassStorageReset ==
  /\ pc = "loop" /\ setup = "massStorageReset"
  /\ setup' = "clearIn"
  /\ UNCHANGED <<phase, outTd, outBuf, outDone, ledger, moved, mixup, resets, inTd, program>>

-----------------------------------------------------------------------------
HostMoves == SendCommand \/ SendSector \/ Fetch \/ ClearHalt
Runs ==
  \/ ServiceBulk \/ Rearm \/ SendData \/ SendStatus \/ DataSent \/ StatusSent
  \/ Receive \/ Received \/ ReceiveTimeout

Next ==
  \/ \E c \in Commands : Issue(c)
  \/ GiveUp \/ HostMoves
  \/ Runs \/ CopyEnds \/ ServiceControl \/ MassStorageReset

(* The program never blocks, and the host pursues the command it has begun;  *)
(* nothing makes it issue one or give one up.                                *)
Spec ==
  /\ Init /\ [][Next]_vars
  /\ WF_vars(Runs) /\ WF_vars(ServiceControl \/ MassStorageReset) /\ WF_vars(HostMoves)

-----------------------------------------------------------------------------
(* The variables have their types, and what is left primed while the program *)
(* is not sending is a status: data never outlives its command (the flush    *)
(* that msc_bulk_send_chunk starts with).                                    *)
TypeOK ==
  /\ issued \in Seq(Commands) /\ Len(outcome) = Tag /\ Len(read) = Tag
  /\ \A t \in 1..Tag : outcome[t] \in {"open", "passed", "failed", "lost"}
  /\ phase \in {"idle", "command", "out", "in", "status", "halted", "reset"}
  /\ setup \in {"none", "massStorageReset", "clearIn", "clearOut"}
  /\ mixup \in BOOLEAN /\ resets \in 0..MaxResets
  /\ outTd \in {"none", "command", "sector"} /\ outDone \in BOOLEAN
  /\ pc \in {"loop", "exec", "sendData", "sendStatus", "receive", "rearm"}
  /\ cur \in 0..Tag /\ i \in Nat /\ ok \in BOOLEAN /\ sense \in 0..Tag /\ busy \in BOOLEAN
  /\ DOMAIN medium = 0..Sectors - 1
  /\ pc \in {"loop", "rearm", "receive"} => inTd.kind \in {"empty", "status"}

(* An orderly history: no reset, and no command that a device must answer    *)
(* by a stall, which this one does not do.                                   *)
Unstalled(c) == (c.op = "read" /\ ~InRange(c)) \/ (c.op = "unknownIn" /\ c.n > 0)
Orderly == resets = 0 /\ \A t \in 1..Tag : ~Unstalled(issued[t])

(* Host and program stay in step: as long as nothing was reset, the host     *)
(* never takes a status for data or the status of one command for that of    *)
(* another, also across refused writes, whose data is swallowed.             *)
InStep == Orderly => ~mixup

(* When the host is told that its command failed, the sense data it will ask *)
(* for next was set by that command, not left by an earlier one.             *)
FailureExplained == phase = "idle" /\ Tag > 0 /\ outcome[Tag] = "failed" => sense = Tag

(* The transport keeps the promise of BulkOnly through refusals, timeouts,   *)
(* resets and stale statuses: nothing passes that was not done in full.      *)
Promise == INSTANCE BulkOnly WITH
  done <- IF Tag > 0 /\ cur = Tag /\ Latest.op = "write" THEN i ELSE 0
KeepsPromise == Promise!Spec

(* Every command is answered, a refused write included: the program leaves   *)
(* its waits, swallows the data, and the host gets the status in the end.    *)
Answered ==
  \A t \in 1..MaxCommands :
    (Tag = t /\ outcome[t] = "open" /\ Orderly) ~> (Tag >= t /\ outcome[t] # "open")
=============================================================================
