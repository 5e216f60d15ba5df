----------------------------- MODULE MCResponse -----------------------------
(* Small instances of Response for TLC.                                    *)
EXTENDS Response

Dump(sizes) == [mode |-> "dump", sizes |-> sizes]
One(size) == [mode |-> "single", sizes |-> <<size>>]

(* No item; plain and fragmented items; a response that runs out of space  *)
(* in the middle of a record; records that are too large.                  *)
Some == {Dump(<< >>), Dump(<<1, 2>>), Dump(<<2, 1>>), Dump(<<2, 2, 1>>),
         Dump(<<1, 3, 1>>), One(1), One(2), One(3)}
=============================================================================
