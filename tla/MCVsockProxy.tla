--------------------------- MODULE MCVsockProxy ---------------------------
(***************************************************************************)
(* Small instances of VsockProxy.                                          *)
(***************************************************************************)
EXTENDS VsockProxy

CONSTANTS pair1, pair2
=============================================================================
