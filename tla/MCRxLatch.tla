---------------------------- MODULE MCRxLatch ------------------------------
(* RxLatch with two sources: the keyboard, which declares no dwell, and    *)
(* the UART, which declares one.                                           *)
EXTENDS RxLatch

MCDwell == {2}
MCBytes == <<1, 2>>

=============================================================================
