------------------------------ MODULE MCBackend ------------------------------
(* Small instances of Backend for TLC.                                     *)
EXTENDS Backend

CONSTANTS a, b

Op(k, x) == [kind |-> k, name |-> x]

(* One operation of each kind.                                             *)
Each == {Op("list", a), Op("set", a), Op("call", a), Op("stream", a)}

CONSTANTS i1, i2

(* Two interfaces with different names, or one; other clients of VPP can   *)
(* make the name ambiguous or take it away.                                *)
Some == {[i \in Idx |-> IF i = i1 THEN a ELSE b],
         [i \in Idx |-> IF i = i1 THEN a ELSE Nil]}
=============================================================================
