----------------------------- MODULE MCApiStd ------------------------------
(* ApiStd with two free descriptors over a driver that has one file.       *)
EXTENDS ApiStd
=============================================================================
