---------------------------- MODULE MCPatchCommand ----------------------------
(***************************************************************************)
(* PatchCommand with few enough runs and faults to check.                  *)
(***************************************************************************)
EXTENDS PatchCommand
===============================================================================
