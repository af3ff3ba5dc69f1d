---------------------- MODULE MC_TestRunLifecycle ----------------------
(***************************************************************************)
(* Instances of TestRunLifecycle for TLC.                                  *)
(***************************************************************************)
EXTENDS TestRunLifecycle, TLC

CONSTANTS k1, k2, u1, boot

\* Kickers run the same code on the same queue, so they may be exchanged.
KickerSymmetry == Permutations(Kickers)
=============================================================================
