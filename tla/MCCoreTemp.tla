----------------------------- MODULE MCCoreTemp -----------------------------
(* One packet, two packets, a full buffer, and more cores than fit.          *)
EXTENDS CoreTemp, TLC
MCCoreCounts == {8, 20, 60, 100}
=============================================================================
