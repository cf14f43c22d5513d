----------------------------- MODULE MCSniProxy -----------------------------
(***************************************************************************)
(* A small instance of SniProxy: an application that may own a well-known  *)
(* name, and one name another renamer may generate for it.                 *)
(***************************************************************************)
EXTENDS SniProxy

CONSTANTS a1, n1, p1

HomeOfOne == [n \in {n1} |-> a1]
=============================================================================
