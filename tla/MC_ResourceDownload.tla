------------------------ MODULE MC_ResourceDownload ------------------------
(***************************************************************************)
(* An instance of ResourceDownload for TLC.                                *)
(***************************************************************************)
EXTENDS ResourceDownload

CONSTANTS c1, c2, c3
=============================================================================
