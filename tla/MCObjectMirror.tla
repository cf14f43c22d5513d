--------------------------- MODULE MCObjectMirror ---------------------------
(***************************************************************************)
(* Small instances of ObjectMirror: the root, a node and a node below it.  *)
(***************************************************************************)
EXTENDS ObjectMirror, TLC

CONSTANTS node, leaf, i1, i2

TreeOfThree == (Root :> Paths) @@ (node :> {node, leaf}) @@ (leaf :> {leaf})

(* A service with an ObjectManager at "/" ... *)
Managed == {[p \in Paths |-> CASE p = Root -> {OM} [] p = node -> is [] p = leaf -> {i1}] :
              is \in {{}, {i1}}}

(* ... and one that has none there. *)
Unmanaged == {[p \in Paths |-> CASE p = Root -> {} [] p = node -> is [] p = leaf -> {i1}] :
                is \in {{}, {i1}}}

Both == Managed \cup Unmanaged
=============================================================================
