----------------------------- MODULE MCVgaLink ------------------------------
(* VgaLink with one canvas besides the console, calls of up to a canvas, a *)
(* mode and an argument, and a VGA that dies once.                         *)
EXTENDS VgaLink
=============================================================================
