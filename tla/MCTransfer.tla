----------------------------- MODULE MCTransfer -----------------------------
(* Small instances of Transfer for TLC.                                    *)
EXTENDS Transfer, TLC

CONSTANTS a, b

Declare(n, c) == [total |-> n, sha256 |-> c]
Piece(i, c) == [seq |-> i, data |-> c]

(* Three declarations for one identifier; every chunk of one or two bytes, *)
(* which cut the content in all ways, corrupt it, overrun it and come out  *)
(* of order.                                                               *)
Declared == {Declare(3, <<a, b, a>>), Declare(1, <<b>>), Declare(0, << >>)}
Pieces == {Piece(i, c) : i \in 0..2, c \in {<<x>> : x \in Bytes}
                                        \cup {<<x, y>> : x, y \in Bytes}}
=============================================================================
