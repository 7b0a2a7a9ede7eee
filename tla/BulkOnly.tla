------------------------------ MODULE BulkOnly ------------------------------
(***************************************************************************)
(* What the mass-storage transport promises its host, whatever becomes of  *)
(* single transfers: one command at a time, each ended once; a write that  *)
(* passed is on the medium in full, a read that passed delivered what the  *)
(* medium holds, and the medium changes only by the sectors of the latest  *)
(* write, in order.                                                        *)
(***************************************************************************)
EXTENDS Integers, Sequences

CONSTANTS Commands, Sectors, MaxCommands

VARIABLES
  issued,   \* the commands so far; a command's tag is its index
  outcome,  \* for each: open, passed, failed or lost
  read,     \* for each: the sectors it delivered, once it has passed
  done,     \* how many sectors of the latest write are on the medium
  medium    \* the sectors: <<tag, k>> is the k-th one written by that command

abstract == <<issued, outcome, read, done, medium>>

Latest == issued[Len(issued)]
Extent(c, m) == [k \in 1..c.n |-> m[c.lba + k - 1]]
InRange(c) == c.lba + c.n <= Sectors

Init ==
  /\ issued = <<>> /\ outcome = <<>> /\ read = <<>> /\ done = 0
  /\ medium = [s \in 0..Sectors - 1 |-> <<0, s>>]

Issue(c) ==
  /\ Len(issued) < MaxCommands
  /\ issued # <<>> => outcome[Len(issued)] # "open"
  /\ issued' = Append(issued, c) /\ outcome' = Append(outcome, "open")
  /\ read' = Append(read, <<>>) /\ done' = 0
  /\ UNCHANGED medium

(* The next sector of a write that has not ended, or that the host lost.    *)
Store ==
  /\ issued # <<>> /\ Latest.op = "write" /\ InRange(Latest) /\ done < Latest.n
  /\ outcome[Len(issued)] \in {"open", "lost"}
  /\ medium' = [medium EXCEPT ![Latest.lba + done] = <<Len(issued), done>>]
  /\ done' = done + 1
  /\ UNCHANGED <<issued, outcome, read>>

End(o) ==
  /\ issued # <<>> /\ outcome[Len(issued)] = "open"
  /\ o = "passed" /\ Latest.op = "write" => done = Latest.n
  /\ outcome' = [outcome EXCEPT ![Len(issued)] = o]
  /\ read' = [read EXCEPT ![Len(issued)] =
                IF o = "passed" /\ Latest.op = "read" THEN Extent(Latest, medium) ELSE <<>>]
  /\ UNCHANGED <<issued, done, medium>>

Next ==
  \/ \E c \in Commands : Issue(c)
  \/ Store
  \/ \E o \in {"passed", "failed", "lost"} : End(o)

Spec == Init /\ [][Next]_abstract
=============================================================================
