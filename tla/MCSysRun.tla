----------------------------- MODULE MCSysRun -----------------------------
(* SysRun with a machine of a few drivers.                                 *)
EXTENDS SysRunProofs
=============================================================================
