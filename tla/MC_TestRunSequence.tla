------------------------- MODULE MC_TestRunSequence -------------------------
(***************************************************************************)
(* An instance of TestRunSequence for TLC.                                 *)
(***************************************************************************)
EXTENDS TestRunSequence, TLC

CONSTANTS w1, w2

\* Workers serve the same tasks, so they may be exchanged.
WorkerSymmetry == Permutations(Workers)
=============================================================================
