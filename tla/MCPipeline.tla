----------------------------- MODULE MCPipeline -----------------------------
(***************************************************************************)
(* TLC instances of Pipeline.  The bounds of the .cfg files: three slots   *)
(* stand for the ten of cpipeline.h, more entries than slots so that the   *)
(* array is filled, emptied and used again.                                *)
(***************************************************************************)
EXTENDS Pipeline
=============================================================================
