--------------------------- MODULE MCMscTransport ---------------------------
(* A medium of two sectors and one command of every kind: writes of one and  *)
(* of two sectors, a read of both, a read past the end, a short answer, a    *)
(* command without data, and two the program does not know.                  *)
EXTENDS MscTransport

Command(op, lba, n) == [op |-> op, lba |-> lba, n |-> n]
MCCommands ==
  { Command("write", 0, 2), Command("write", 1, 1), Command("read", 0, 2),
    Command("read", 1, 2), Command("reply", 0, 1), Command("plain", 0, 0),
    Command("unknownIn", 0, 1), Command("unknownOut", 0, 1) }
=============================================================================
