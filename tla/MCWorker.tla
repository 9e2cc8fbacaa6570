------------------------------ MODULE MCWorker ------------------------------
(***************************************************************************)
(* TLC instance of Worker, with the reaper's properties.                   *)
(***************************************************************************)
EXTENDS Worker
=============================================================================
