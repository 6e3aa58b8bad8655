------------------------------- MODULE MCQueue -------------------------------
(***************************************************************************)
(* Small instances of Queue for TLC.                                       *)
(***************************************************************************)
EXTENDS Queue, TLC

\* A program that only sends (to either end) and receives.
PlainOps == {"SendToBack", "SendToFront", "Receive"}

\* A program that uses everything.
AllOps == PlainOps \cup {"Peek", "Reset"}

SymmetricThreads == Permutations(Threads)
=============================================================================
