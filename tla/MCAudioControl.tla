--------------------------- MODULE MCAudioControl ---------------------------
(* Small instances of AudioControl: two sinks, two streams of one VM, a      *)
(* recording stream.                                                         *)
EXTENDS AudioControl

CONSTANTS s1, s2, i1, i2, o1, vm, c1, c2

KindsOfDevs == [d \in Devs |-> IF d \in {s1, s2} THEN "sink" ELSE IF d = o1 THEN "output" ELSE "input"]
OneVm       == [d \in Devs |-> vm]
=============================================================================
