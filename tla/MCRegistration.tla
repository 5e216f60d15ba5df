--------------------------- MODULE MCRegistration ---------------------------
(* Small instances of Registration for TLC.                                *)
EXTENDS Registration

CONSTANTS p1, p2, j1, j2, c1, c2

(* Both processes on one directory, or each on its own.                    *)
Placed == {[p \in Procs |-> j1], [p \in Procs |-> IF p = p1 THEN j1 ELSE j2]}
(* The first client is accepted, the second one may send anything.         *)
Sending == [c \in Clients |-> IF c = c1 THEN {"good"} ELSE AllKinds]
=============================================================================
