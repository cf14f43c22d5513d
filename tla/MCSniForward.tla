---------------------------- MODULE MCSniForward ----------------------------
(* Small instances of SniForward.                                           *)
EXTENDS SniForward

CONSTANTS i1, i2
=============================================================================
