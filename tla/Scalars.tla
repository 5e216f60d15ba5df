------------------------------ MODULE Scalars ------------------------------
(***************************************************************************)
(* The part of Schema::Convert that does not recurse (src/schema.cc):      *)
(* bytes, integers, booleans, strings, addresses, interfaces and fixed     *)
(* text, both ways; and the length a generated callback gives a reply      *)
(* (tools/schema_generator.cc).  A byte has Base values instead of 256.    *)
(***************************************************************************)
EXTENDS Integers, Sequences

CONSTANTS
  Base,           \* values of a byte
  PayloadLimit,   \* Limits::kNativePayloadBytes
  Nil

(* Values of an unsigned integer of w bytes.                               *)
Square(n) == n * n
Capacity(w) ==
  CASE w = 1 -> Base
    [] w = 2 -> Square(Base)
    [] w = 4 -> Square(Square(Base))
    [] w = 8 -> Square(Square(Square(Base)))

(* The limit, 1 MiB, is a number that the length of a string can be.       *)
ASSUME ScalarsAssumption ==
  Base \in Nat /\ Base > 1 /\ PayloadLimit \in Nat /\ PayloadLimit < Capacity(4)

-----------------------------------------------------------------------------
(* JSON, and statuses.                                                     *)

Num(n) == [is |-> "number", data |-> n]
Bool(b) == [is |-> "boolean", data |-> b]
Str(s) == [is |-> "string", data |-> s]
Arr(s) == [is |-> "array", data |-> s]
Obj(f) == [is |-> "object", data |-> f]

Fail(code) == [err |-> code, val |-> Nil, bytes |-> << >>]
Put(bytes) == [err |-> "ok", val |-> Nil, bytes |-> bytes]
Got(val, rest) == [err |-> "ok", val |-> val, bytes |-> rest]

(* Bytes, for both directions.                                             *)
Extended(out, bytes) ==
  IF Len(out) + Len(bytes) > PayloadLimit THEN Fail("payload_too_large")
                                          ELSE Put(out \o bytes)
Take(rest, n) ==
  IF Len(rest) < n THEN Fail("invalid_reply")
  ELSE Got(SubSeq(rest, 1, n), SubSeq(rest, n + 1, Len(rest)))

-----------------------------------------------------------------------------
(* Integers, of at most eight bytes.                                       *)

(* n, and n without its lowest byte, its two lowest bytes, and so on.      *)
Shifted(n) ==
  LET a == n \div Base   b == a \div Base   c == b \div Base   d == c \div Base
      e == d \div Base   f == e \div Base   g == f \div Base
  IN <<n, a, b, c, d, e, f, g>>

(* Native integers are little endian; VAPI swaps them where VPP needs it.  *)
Digits(n, w) == [i \in 1..w |-> Shifted(n % Capacity(w))[i] % Base]
ByteAt(bytes, i) == IF i <= Len(bytes) THEN bytes[i] ELSE 0
Unsigned(bytes) ==
  LET high == ByteAt(bytes, 5) + Base * (ByteAt(bytes, 6)
                + Base * (ByteAt(bytes, 7) + Base * ByteAt(bytes, 8)))
  IN ByteAt(bytes, 1) + Base * (ByteAt(bytes, 2)
       + Base * (ByteAt(bytes, 3) + Base * (ByteAt(bytes, 4) + Base * high)))

Width == [bool |-> 1, u8 |-> 1, i8 |-> 1, u16 |-> 2, i16 |-> 2, u32 |-> 4,
          i32 |-> 4, u64 |-> 8, i64 |-> 8]
Signed == {"i8", "i16", "i32", "i64"}
Long == {"u64", "i64"}
Lowest(name) == IF name \in Signed THEN -(Capacity(Width[name]) \div 2) ELSE 0
Highest(name) == Lowest(name) + (Capacity(Width[name]) - 1)

NoRange(name, n) == TRUE
InRange(name, n) == n >= Lowest(name) /\ n <= Highest(name)

(* 64-bit integers travel as decimal strings.                              *)
Number(name, n) == IF name \in Long THEN Str(n) ELSE Num(n)
IsNumber(name, j) ==
  j.is = (IF name \in Long THEN "string" ELSE "number") /\ InRange(name, j.data)
Native(name, bytes) ==
  LET n == Unsigned(bytes) IN
  IF name \in Signed /\ n > Highest(name) THEN n - Capacity(Width[name]) ELSE n

-----------------------------------------------------------------------------
(* The types at which Convert ends.  An interface goes by its name; names  *)
(* maps those that are known to their index.                               *)

AllOnes == Capacity(4) - 1    \* UINT32_MAX, shown as @all
AddressBytes == [vl_api_ip4_address_t |-> 4, vl_api_ip6_address_t |-> 16,
                 vl_api_mac_address_t |-> 6]
Leaves == DOMAIN Width \cup {"string", "vl_api_interface_index_t"} \cup DOMAIN AddressBytes

EncInterface(names, j, out) ==
  IF j.is # "string" THEN Fail("invalid_params")
  ELSE IF j.data = "@all" THEN Extended(out, Digits(AllOnes, 4))
  ELSE IF j.data \notin DOMAIN names THEN Fail("resource_not_found")
  ELSE Extended(out, Digits(names[j.data], 4))

EncString(j, out) ==
  IF j.is # "string" THEN Fail("invalid_params")
  ELSE LET size == Extended(out, Digits(Len(j.data), 4)) IN
       IF size.err # "ok" THEN size ELSE Extended(size.bytes, j.data)

EncLeaf(names, name, j, out) ==
  CASE name = "bool" ->
         IF j.is # "boolean" THEN Fail("invalid_params")
         ELSE Extended(out, <<IF j.data THEN 1 ELSE 0>>)
    [] name \in DOMAIN Width \ {"bool"} ->
         IF ~IsNumber(name, j) THEN Fail("invalid_params")
         ELSE Extended(out, Digits(j.data, Width[name]))
    [] name = "string" -> EncString(j, out)
    [] name = "vl_api_interface_index_t" -> EncInterface(names, j, out)
    [] OTHER ->
         IF j.is # "string" \/ Len(j.data) # AddressBytes[name]
         THEN Fail("invalid_params") ELSE Extended(out, j.data)

DecBool(part) ==
  IF part.val[1] > 1 THEN Fail("invalid_reply")
  ELSE Got(Bool(part.val[1] = 1), part.bytes)

DecInterface(names, part) ==
  LET index == Unsigned(part.val)
      named == {i \in DOMAIN names : names[i] = index}
  IN CASE index = AllOnes -> Got(Str("@all"), part.bytes)
       [] index # AllOnes /\ named = {} -> Fail("resource_not_found")
       [] OTHER -> Got(Str(CHOOSE i \in named : TRUE), part.bytes)

DecString(rest) ==
  LET size == Take(rest, 4) IN
  IF size.err # "ok" THEN size
  ELSE IF Unsigned(size.val) > PayloadLimit THEN Fail("payload_too_large")
  ELSE LET text == Take(size.bytes, Unsigned(size.val)) IN
       IF text.err # "ok" THEN text ELSE Got(Str(text.val), text.bytes)

(* n bytes, then what they stand for.                                      *)
DecScalar(names, name, part) ==
  CASE part.err # "ok" -> part
    [] name = "bool" -> DecBool(part)
    [] name = "vl_api_interface_index_t" -> DecInterface(names, part)
    [] name \in DOMAIN AddressBytes -> Got(Str(part.val), part.bytes)
    [] OTHER -> Got(Number(name, Native(name, part.val)), part.bytes)
DecLeaf(names, name, rest) ==
  CASE name = "string" -> DecString(rest)
    [] name = "vl_api_interface_index_t" -> DecScalar(names, name, Take(rest, 4))
    [] name \in DOMAIN AddressBytes -> DecScalar(names, name, Take(rest, AddressBytes[name]))
    [] OTHER -> DecScalar(names, name, Take(rest, Width[name]))

(* A string of fixed length, which ends at its first NUL.                  *)
OneTooLong(f, text) == Len(text) > f.length
TooLong(f, text) == Len(text) >= f.length

EncText(f, item, out) ==
  IF \/ item.is # "string" \/ TooLong(f, item.data)
     \/ \E i \in DOMAIN item.data : item.data[i] = 0
  THEN Fail("invalid_params")
  ELSE Extended(out, item.data \o [i \in 1..(f.length - Len(item.data)) |-> 0])

Terminated(text) ==
  LET ends == {i \in DOMAIN text : text[i] = 0} IN
  IF ends = {} THEN text
  ELSE SubSeq(text, 1, (CHOOSE i \in ends : \A j \in ends : i <= j) - 1)

DecText(f, rest) ==
  LET part == Take(rest, f.length) IN
  IF part.err # "ok" THEN part ELSE Got(Str(Terminated(part.val)), part.bytes)

-----------------------------------------------------------------------------
(* Callback: how much of a reply is copied, from the count inside it; -1   *)
(* when that exceeds the limit, Nil when no callback can be written for    *)
(* the layout.                                                             *)
CopySize(tail, size, count) ==
  CASE ~tail.ok -> Nil
    [] tail.ok /\ tail.width = 0 -> size
    [] OTHER -> IF size > PayloadLimit \/ count > (PayloadLimit - size) \div tail.element
                THEN -1 ELSE size + count * tail.element
CountIn(reply, tail) == Unsigned(SubSeq(reply, tail.at + 1, tail.at + tail.width))
=============================================================================
