------------------------------- MODULE Codec -------------------------------
(***************************************************************************)
(* Conversion between JSON and VPP's packed native messages                *)
(* (src/schema.cc), and the layouts for which the generator emits bindings *)
(* (tools/schema_generator.cc).  The request of a client is encoded; VPP   *)
(* holds a reply of some layout; the generated callback computes how many  *)
(* bytes of it to copy from a count it finds inside; the copy is decoded.  *)
(*                                                                         *)
(* The catalog is data: Types maps a name to its definition.  JSON is      *)
(* tagged by its kind.  A textual address is the sequence of its bytes, a  *)
(* prefix a pair of address and length: spelling is left out, and so are   *)
(* floating-point numbers.  The scalars are in module Scalars.             *)
(***************************************************************************)
EXTENDS Scalars, FiniteSetsExt, SequencesExt, Functions, Bitwise, TLC

CONSTANTS
  Types,          \* type name -> definition, the catalog
  Inputs,         \* message name -> set of JSON values
  Interfaces,     \* interface name -> index, as RefreshNames found them
  MaxDepth,       \* 32
  V4Bits, V6Bits  \* 32 and 128, the longest prefixes

ASSUME CodecAssumption ==
  DOMAIN Inputs \subseteq DOMAIN Types /\ {MaxDepth, V4Bits, V6Bits} \subseteq Nat

VARIABLES
  message,   \* the layout under conversion
  json,      \* what the client sent, or what VPP's reply stands for
  native,    \* its native form, in VPP's memory
  copied,    \* what the callback copied of it
  shown,     \* the JSON it was decoded to
  status,    \* "ok" or the error code
  pc         \* "encode", "call", "decode", "over"

vars == <<message, json, native, copied, shown, status, pc>>

-----------------------------------------------------------------------------
(* Sizes of layouts.  A field has the keys type, name, length (-1: absent, *)
(* 0: variable), count, default, discriminator and case ("" or Nil: none). *)

Known(name) == name \in DOMAIN Types
FieldsOf(name) ==
  IF Types[name].kind \in {"struct", "union"} THEN Types[name].fields ELSE << >>
Times(length) == IF length = -1 THEN 1 ELSE length
FixedString(f) == f.type = "string" /\ f.length > 0
IsArray(f) == f.type # "string" /\ f.length >= 0
Counts(fields) == {f.count : f \in ToSet(fields)} \ {""}
HasArray(f, obj) == f.name \in DOMAIN obj /\ obj[f.name].is = "array"

RECURSIVE FixedSize(_, _), PartSize(_, _)
PartSize(f, d) ==
  CASE FixedString(f) -> f.length
    [] f.type = "string" /\ ~FixedString(f) -> 4
    [] OTHER -> FixedSize(f.type, d + 1) * Times(f.length)
FixedSize(name, d) ==
  IF d > MaxDepth THEN -1
  ELSE IF name \in DOMAIN Width THEN Width[name]
  ELSE IF name = "string" THEN 4
  ELSE IF ~Known(name) THEN -1
  ELSE LET t == Types[name] IN
    CASE t.kind \in {"alias", "enum"} ->
           LET size == FixedSize(t.type, d + 1) IN
           IF size < 0 THEN -1 ELSE size * Times(t.length)
      [] OTHER ->
           LET parts == [i \in DOMAIN t.fields |-> PartSize(t.fields[i], d)] IN
           IF \E i \in DOMAIN parts : parts[i] \notin 0..PayloadLimit THEN -1
           ELSE IF t.kind = "union" THEN Max(ToSet(parts) \cup {0})
           ELSE FoldSeq(+, 0, parts)

RECURSIVE Variable(_, _)
Variable(name, d) ==
  \/ d > MaxDepth \/ name = "string"
  \/ /\ Known(name) /\ Types[name].kind = "alias"
     /\ Variable(Types[name].type, d + 1)
  \/ /\ Known(name)
     /\ \E f \in ToSet(FieldsOf(name)) :
          ~FixedString(f) /\ (f.length = 0 \/ Variable(f.type, d + 1))

RECURSIVE HasInterface(_, _)
HasInterface(name, d) ==
  \/ name = "vl_api_interface_index_t"
  \/ /\ d <= MaxDepth /\ Known(name)
     /\ \/ Types[name].kind = "alias" /\ HasInterface(Types[name].type, d + 1)
        \/ \E f \in ToSet(FieldsOf(name)) : HasInterface(f.type, d + 1)

-----------------------------------------------------------------------------
(* Enums, unions and the special types of Convert.                         *)

Prefixed == {"vl_api_prefix_t", "vl_api_ip4_prefix_t", "vl_api_ip6_prefix_t"}

Symbols(t) == {e.symbol : e \in ToSet(t.values)}
ValueOf(t, symbol) == (CHOOSE e \in ToSet(t.values) : e.symbol = symbol).value
Bits(t, symbols) ==
  FoldSeq(LAMBDA s, acc : ValueOf(t, s.data) | acc, 0, symbols)
Single(n) == n > 0 /\ (n & (n - 1)) = 0

(* The default of a field, as the public schema shows it.                  *)
PublicDefault(f) ==
  LET values == IF Known(f.type) /\ Types[f.type].kind = "enum"
                THEN Types[f.type].values ELSE << >>
      same == SelectSeq(values, LAMBDA e : e.value = f.default)
  IN CASE f.type = "bool" -> Bool(f.default = "true")
       [] f.type = "vl_api_interface_index_t" /\ f.default = AllOnes -> Str("@all")
       [] values # << >> /\ Types[f.type].flags /\ f.default = 0 -> Arr(<< >>)
       [] same # << >> -> Str(Head(same).symbol)
       [] OTHER -> Number(f.type, f.default)

(* A textual address or prefix becomes the object its struct expects.      *)
Family(ip) == IF Len(ip) = 16 THEN 6 ELSE 4
PrefixBits(ip) == IF Family(ip) = 6 THEN V6Bits ELSE V4Bits
Expand(name, j) ==
  CASE name \in Prefixed -> Obj([address |-> Str(j.data.ip), len |-> Num(j.data.len)])
    [] name = "vl_api_address_t" ->
         IF Family(j.data) = 6
         THEN Obj([af |-> Str("ADDRESS_IP6"), un |-> Obj([ip6 |-> j])])
         ELSE Obj([af |-> Str("ADDRESS_IP4"), un |-> Obj([ip4 |-> j])])
    [] OTHER -> j
Collapse(name, obj) ==
  CASE name \in Prefixed -> Str([ip |-> obj.address.data, len |-> obj.len.data])
    [] name = "vl_api_address_t" ->
         LET un == obj.un.data IN un[CHOOSE k \in DOMAIN un : TRUE]
    [] OTHER -> Obj(obj)

(* The tag that selects the member of a union; "" if there is none.        *)
Tag(obj, key) == IF key \in DOMAIN obj THEN obj[key].data ELSE ""
Selected(name, f, obj, tag) ==
  CASE name = "vl_api_fib_path_t" /\ f.name = "nh" -> Tag(obj, "proto")
    [] name = "vl_api_fib_path_nh_t" /\ f.name = "address" /\ tag # "" ->
         CASE tag = "FIB_API_PATH_NH_PROTO_IP4" -> "ADDRESS_IP4"
           [] tag = "FIB_API_PATH_NH_PROTO_IP6" -> "ADDRESS_IP6"
           [] OTHER -> "non-ip"
    [] OTHER -> Tag(obj, IF f.discriminator = "" /\ f.type = "vl_api_address_union_t"
                         THEN "af" ELSE f.discriminator)

-----------------------------------------------------------------------------
(* Convert, JSON to native: j is appended to out.                          *)

FromCaller(fields) == {f.name : f \in ToSet(fields)} \ Counts(fields)

(* The keys of an object before its fields are converted: the caller's,    *)
(* and the counts, each the length of the last array that names it.        *)
WithCounts(fields, obj) ==
  LET arrayOf(c) == SelectLastInSeq(fields, LAMBDA f : f.count = c) IN
  obj @@ [c \in Counts(fields) |-> Num(Len(obj[fields[arrayOf(c)].name].data))]

RECURSIVE Enc(_, _, _, _, _)

EncMany(type, items, out, d) ==
  FoldLeft(LAMBDA acc, item : IF acc.err # "ok" THEN acc
                              ELSE Enc(type, item, acc.bytes, "", d),
           Put(out), items)

EncArray(f, item, obj, out, d) ==
  LET count == IF f.count = "" THEN f.length ELSE obj[f.count].data IN
  IF count > PayloadLimit \/ item.is # "array" \/ Len(item.data) # count
  THEN Fail("invalid_params") ELSE EncMany(f.type, item.data, out, d + 1)

EncField(name, f, obj, out, tag, d) ==
  IF f.name \notin DOMAIN obj /\ f.default = Nil THEN Fail("invalid_params")
  ELSE LET item == IF f.name \in DOMAIN obj THEN obj[f.name] ELSE PublicDefault(f)
           full == (f.name :> item) @@ obj
           selected == Selected(name, f, full, tag)
           part == CASE FixedString(f) -> EncText(f, item, out)
                     [] IsArray(f) -> EncArray(f, item, obj, out, d)
                     [] selected = "non-ip" -> Fail("unsupported_type")
                     [] OTHER -> Enc(f.type, item, out, selected, d + 1)
       IN [part EXCEPT !.val = full]

EncStruct(name, j, out, tag, d) ==
  LET fields == Types[name].fields IN
  IF \/ j.is # "object" \/ ~(DOMAIN j.data \subseteq FromCaller(fields))
     \/ \E f \in ToSet(fields) : f.count # "" /\ ~HasArray(f, j.data)
  THEN Fail("invalid_params")
  ELSE FoldLeft(LAMBDA acc, f : IF acc.err # "ok" THEN acc
                                ELSE EncField(name, f, acc.val, acc.bytes, tag, d),
                Got(WithCounts(fields, j.data), out), fields)

EncUnion(name, j, out, tag, d) ==
  LET size == FixedSize(name, 0)
      named == IF j.is = "object" /\ Cardinality(DOMAIN j.data) = 1
               THEN SelectSeq(Types[name].fields, LAMBDA f : f.name \in DOMAIN j.data)
               ELSE << >>
  IN IF size < 0 \/ Variable(name, 0) THEN Fail("unsupported_type")
     ELSE IF named = << >> THEN Fail("invalid_params")
     ELSE LET member == Last(named)
              part == Enc(member.type, j.data[member.name], << >>, "", d + 1)
          IN IF tag # "" /\ member.case # "" /\ member.case # tag
             THEN Fail("invalid_params")
             ELSE IF part.err # "ok" THEN part
             ELSE Extended(out, [i \in 1..size |-> IF i <= Len(part.bytes)
                                                   THEN part.bytes[i] ELSE 0])

EncEnum(t, j, out, d) ==
  IF t.flags
  THEN IF j.is # "array" \/ ~IsInjective(j.data)
          \/ \E s \in ToSet(j.data) : s.is # "string" \/ s.data \notin Symbols(t)
       THEN Fail("invalid_params")
       ELSE Enc(t.type, Number(t.type, Bits(t, j.data)), out, "", d + 1)
  ELSE IF j.is # "string" \/ j.data \notin Symbols(t) THEN Fail("invalid_params")
       ELSE Enc(t.type, Number(t.type, ValueOf(t, j.data)), out, "", d + 1)

(* The names RefreshNames read before this call; it is skipped when no     *)
(* layout of the call holds an interface.                                  *)
Resolved == IF HasInterface(message, 0) THEN Interfaces ELSE << >>

Enc(name, j, out, tag, d) ==
  IF d > MaxDepth THEN Fail("invalid_params")
  ELSE CASE name \in Leaves -> EncLeaf(Resolved, name, j, out)
    [] OTHER ->
         IF ~Known(name) THEN Fail("unsupported_type")
         ELSE LET t == Types[name] IN
           CASE t.kind = "alias" /\ t.length = -1 -> Enc(t.type, j, out, tag, d + 1)
             [] t.kind = "alias" /\ t.length # -1 ->
                  IF j.is # "array" \/ Len(j.data) # t.length THEN Fail("invalid_params")
                  ELSE EncMany(t.type, j.data, out, d + 1)
             [] t.kind = "enum" -> EncEnum(t, j, out, d)
             [] t.kind = "union" -> EncUnion(name, j, out, tag, d)
             [] OTHER ->
                  IF \/ name \in Prefixed \cup {"vl_api_address_t"} /\ j.is # "string"
                     \/ name \in Prefixed /\ j.data.len > PrefixBits(j.data.ip)
                  THEN Fail("invalid_params")
                  ELSE EncStruct(name, Expand(name, j), out, tag, d)

-----------------------------------------------------------------------------
(* Convert, native to JSON: a value is taken off the front of rest.        *)

RECURSIVE Dec(_, _, _, _)

DecMany(type, n, rest, d) ==
  LET one(acc, i) ==
        IF acc.err # "ok" THEN acc
        ELSE LET item == Dec(type, acc.bytes, "", d) IN
             [item EXCEPT !.val = Append(acc.val, @)]
      all == FoldLeftDomain(one, Got(<< >>, rest), [i \in 1..n |-> i])
  IN [all EXCEPT !.val = Arr(@)]

DecArray(f, obj, rest, d) ==
  IF f.count # "" /\ (f.count \notin DOMAIN obj \/ obj[f.count].is # "number")
  THEN Fail("unsupported_type")
  ELSE LET count == IF f.count = "" THEN f.length ELSE obj[f.count].data IN
       IF count > PayloadLimit THEN Fail("invalid_params")
       ELSE DecMany(f.type, count, rest, d + 1)

DecField(name, f, obj, rest, tag, d) ==
  LET selected == Selected(name, f, obj, tag)
      part == CASE FixedString(f) -> DecText(f, rest)
                [] IsArray(f) -> DecArray(f, obj, rest, d)
                [] selected = "non-ip" -> Fail("unsupported_type")
                [] OTHER -> Dec(f.type, rest, selected, d + 1)
  IN [part EXCEPT !.val = (f.name :> @) @@ obj]

DecStruct(name, rest, tag, d) ==
  LET fields == Types[name].fields
      all == FoldLeft(LAMBDA acc, f : IF acc.err # "ok" THEN acc
                                      ELSE DecField(name, f, acc.val, acc.bytes, tag, d),
                      Got(<< >>, rest), fields)
      public == [k \in FromCaller(fields) |-> all.val[k]]
  IN IF all.err # "ok" THEN all ELSE Got(Collapse(name, public), all.bytes)

DecUnion(name, rest, tag, d) ==
  LET size == FixedSize(name, 0)
      tagged == SelectSeq(Types[name].fields,
                          LAMBDA f : tag # "" /\ f.case # "" /\ f.case = tag)
  IN IF size < 0 \/ Variable(name, 0) \/ tagged = << >>
     THEN Fail("unsupported_type")
     ELSE IF Len(rest) < size THEN Fail("invalid_reply")
     ELSE LET item == Dec(Last(tagged).type, SubSeq(rest, 1, size), "", d + 1) IN
          IF item.err # "ok" THEN item
          ELSE Got(Obj(Last(tagged).name :> item.val), Take(rest, size).bytes)

DecEnum(t, rest, d) ==
  LET part == Dec(t.type, rest, "", d + 1)
      flags == SelectSeq(t.values, LAMBDA e : Single(e.value)
                                              /\ (part.val.data & e.value) # 0)
      same == SelectSeq(t.values, LAMBDA e : e.value = part.val.data)
      names(es) == [i \in DOMAIN es |-> Str(es[i].symbol)]
  IN IF part.err # "ok" THEN part
     ELSE IF t.type \in Long /\ part.val.data < 0 THEN Fail("invalid_reply")
     ELSE IF t.flags
     THEN IF Bits(t, names(flags)) # part.val.data THEN Fail("unknown_enum")
          ELSE Got(Arr(names(flags)), part.bytes)
     ELSE IF same = << >> THEN Fail("unknown_enum")
          ELSE Got(Str(Head(same).symbol), part.bytes)

Dec(name, rest, tag, d) ==
  IF d > MaxDepth THEN Fail("invalid_params")
  ELSE CASE name \in Leaves -> DecLeaf(Resolved, name, rest)
    [] OTHER ->
         IF ~Known(name) THEN Fail("unsupported_type")
         ELSE LET t == Types[name] IN
           CASE t.kind = "alias" /\ t.length = -1 -> Dec(t.type, rest, tag, d + 1)
             [] t.kind = "alias" /\ t.length # -1 -> DecMany(t.type, t.length, rest, d + 1)
             [] t.kind = "enum" -> DecEnum(t, rest, d)
             [] t.kind = "union" -> DecUnion(name, rest, tag, d)
             [] OTHER -> DecStruct(name, rest, tag, d)

-----------------------------------------------------------------------------
(* Which layouts get a binding, and how long its callback takes a reply    *)
(* to be.                                                                  *)

RECURSIVE Supported(_, _, _)
Supported(name, tagged, d) ==
  /\ d <= MaxDepth /\ FixedSize(name, 0) >= 0
  /\ ~Known(name)
     \/ LET t == Types[name] IN
        IF t.kind = "alias" THEN Supported(t.type, FALSE, d + 1)
        ELSE /\ t.kind = "union" => tagged
             /\ \A f \in ToSet(FieldsOf(name)) :
                  /\ t.kind = "union" => f.length = -1
                  /\ Supported(f.type, f.discriminator # ""
                                       \/ f.type = "vl_api_address_union_t", d + 1)

(* Where the count of a trailing variable part is, how wide it is, and the *)
(* size of an element; ok is false when no callback can be written.        *)
NoTail == [ok |-> FALSE, at |-> 0, width |-> 0, element |-> 0]
Offset(fields, i) == FoldSeq(+, 0, [j \in 1..(i - 1) |-> PartSize(fields[j], 0)])
OneByte(f) == 1
Element(f) == IF f.type = "string" THEN 1 ELSE FixedSize(f.type, 0)

(* The first field of variable length, and the integer that counts it.     *)
FirstVariable(fields) ==
  SelectInSeq(fields, LAMBDA f : ~FixedString(f)
                                 /\ (f.length = 0 \/ Variable(f.type, 0)))
CounterOf(fields, f) ==
  SelectInSeq(fields, LAMBDA g : g.name = f.count /\ g.type \in {"u8", "u16", "u32"})

Counted(fields, f, at, i) ==
  IF Variable(f.type, 0) \/ f.count = "" \/ i = 0 THEN NoTail
  ELSE [ok |-> TRUE, at |-> at + Offset(fields, i),
        width |-> Width[fields[i].type], element |-> Element(f)]

RECURSIVE ReplyTail(_, _, _)
LastField(fields, f, at, before, d) ==
  CASE f.type = "string" -> [ok |-> TRUE, at |-> at + before, width |-> 4,
                             element |-> Element(f)]
    [] f.type # "string" /\ f.length = -1 -> ReplyTail(f.type, at + before, d + 1)
    [] OTHER -> Counted(fields, f, at, CounterOf(Front(fields), f))
ReplyTail(name, at, d) ==
  IF d > MaxDepth THEN NoTail
  ELSE IF ~Variable(name, 0) THEN [NoTail EXCEPT !.ok = TRUE]
  ELSE IF ~Known(name) THEN NoTail
  ELSE LET t == Types[name] IN
    CASE t.kind = "alias" /\ t.length = -1 -> ReplyTail(t.type, at, d + 1)
      [] t.kind = "struct" ->
           IF FirstVariable(t.fields) # Len(t.fields) THEN NoTail
           ELSE LastField(t.fields, Last(t.fields), at,
                          Offset(t.fields, Len(t.fields)), d)
      [] OTHER -> NoTail

WithTail(name, reply, tail) == CopySize(tail, FixedSize(name, 0), CountIn(reply, tail))
ReplySize(name, reply) == WithTail(name, reply, ReplyTail(name, 0, 0))

-----------------------------------------------------------------------------
Init ==
  /\ message \in DOMAIN Inputs /\ json \in Inputs[message]
  /\ native = Nil /\ copied = Nil /\ shown = Nil /\ status = "ok" /\ pc = "encode"

Ends(code) == status' = code /\ pc' = "over"

(* Only a supported message has a binding to encode for.                   *)
Encode ==
  /\ pc = "encode"
  /\ \E done \in {IF Supported(message, FALSE, 0)
                  THEN Enc(message, json, << >>, "", 0) ELSE Fail("unsupported")} :
       \/ done.err # "ok" /\ Ends(done.err) /\ UNCHANGED native
       \/ done.err = "ok" /\ native' = done.bytes /\ pc' = "call" /\ UNCHANGED status
  /\ UNCHANGED <<message, json, copied, shown>>

(* VPP's reply need not be one a client could have asked for: any one byte *)
(* may differ, with two exceptions.  VPP terminates its fixed strings, so  *)
(* the last byte of one stays 0 (a catalog has them only before what is    *)
(* variable, and in the message itself).  VAPI hands over no reply whose   *)
(* length disagrees with its count; a count that is beyond the limit       *)
(* stands for a reply that long.                                           *)
Terminators ==
  LET fields == Types[message].fields IN
  {Offset(fields, i + 1) : i \in {j \in DOMAIN fields : FixedString(fields[j])}}
VppAnswers ==
  /\ pc = "call" /\ json # Nil
  /\ \E i \in DOMAIN native \ Terminators : \E b \in 0..(Base - 1) \ {native[i]} :
       native' = [native EXCEPT ![i] = b]
  /\ ReplySize(message, native') \in {Len(native), -1}
  /\ json' = Nil
  /\ UNCHANGED <<message, copied, shown, status, pc>>

Callback ==
  /\ pc = "call"
  /\ \E size \in {ReplySize(message, native)} :
       \/ size = Nil /\ Ends("unsupported") /\ UNCHANGED copied
       \/ size = -1 /\ Ends("payload_too_large") /\ UNCHANGED copied
       \/ /\ size \notin {-1, Nil} /\ copied' = SubSeq(native, 1, size)
          /\ pc' = "decode" /\ UNCHANGED status
  /\ UNCHANGED <<message, json, native, shown>>

Decode ==
  /\ pc = "decode"
  /\ \E done \in {Dec(message, copied, "", 0)} :
       LET code == IF done.err = "ok" /\ done.bytes # << >> THEN "invalid_reply"
                                                          ELSE done.err
       IN Ends(code) /\ shown' = IF code = "ok" THEN done.val ELSE Nil
  /\ UNCHANGED <<message, json, native, copied>>

Next == Encode \/ VppAnswers \/ Callback \/ Decode
Spec == Init /\ [][Next]_vars

-----------------------------------------------------------------------------
(* The schema api.describe publishes, as the set of values it admits.      *)

RECURSIVE Describes(_, _, _)
DescribesField(f, j, d) ==
  CASE FixedString(f) -> j.is = "string" /\ Len(j.data) <= f.length - 1
    [] IsArray(f) -> /\ j.is = "array" /\ (f.count = "" => Len(j.data) = f.length)
                     /\ \A e \in ToSet(j.data) : Describes(f.type, e, d)
    [] OTHER -> Describes(f.type, j, d)
DescribesObject(t, j, d) ==
  /\ j.is = "object" /\ DOMAIN j.data \subseteq FromCaller(t.fields)
  /\ t.kind = "union" => Cardinality(DOMAIN j.data) = 1
  /\ \A f \in ToSet(t.fields) :
       IF f.name \in DOMAIN j.data THEN DescribesField(f, j.data[f.name], d)
       ELSE t.kind = "union" \/ f.default # Nil \/ f.name \in Counts(t.fields)
Describes(name, j, d) ==
  CASE d > MaxDepth -> TRUE
    [] name = "bool" -> j.is = "boolean"
    [] name \in DOMAIN Width \ {"bool"} -> IsNumber(name, j)
    [] name \in {"string", "vl_api_interface_index_t", "vl_api_address_t"}
                \cup DOMAIN AddressBytes \cup Prefixed -> j.is = "string"
    [] OTHER ->
         LET t == Types[name] IN
         CASE t.kind = "alias" /\ t.length = -1 -> Describes(t.type, j, d + 1)
           [] t.kind = "alias" /\ t.length # -1 ->
                /\ j.is = "array" /\ Len(j.data) = t.length
                /\ \A e \in ToSet(j.data) : Describes(t.type, e, d + 1)
           [] t.kind = "enum" ->
                IF t.flags
                THEN /\ j.is = "array" /\ IsInjective(j.data)
                     /\ \A s \in ToSet(j.data) : s.is = "string" /\ s.data \in Symbols(t)
                ELSE j.is = "string" /\ j.data \in Symbols(t)
           [] OTHER -> DescribesObject(t, j, d + 1)

-----------------------------------------------------------------------------
(* What must hold.                                                         *)

(* What a JSON value means, whichever way it is written: defaults filled   *)
(* in, an enum as its number, flags as their bits.                         *)
RECURSIVE Meaning(_, _)
MeaningOf(f, obj) ==
  LET j == IF f.name \in DOMAIN obj THEN obj[f.name] ELSE PublicDefault(f) IN
  IF IsArray(f) THEN [i \in DOMAIN j.data |-> Meaning(f.type, j.data[i])]
                ELSE Meaning(f.type, j)
Meaning(name, j) ==
  IF ~Known(name) \/ name \in {"vl_api_interface_index_t", "vl_api_address_t"}
                              \cup DOMAIN AddressBytes \cup Prefixed
  THEN j.data
  ELSE LET t == Types[name] IN
    CASE t.kind = "alias" /\ t.length = -1 -> Meaning(t.type, j)
      [] t.kind = "alias" /\ t.length # -1 ->
           [i \in DOMAIN j.data |-> Meaning(t.type, j.data[i])]
      [] t.kind = "enum" -> IF t.flags THEN Bits(t, j.data) ELSE ValueOf(t, j.data)
      [] t.kind = "union" -> {<<f.name, MeaningOf(f, j.data)>> :
                                f \in {g \in ToSet(t.fields) : g.name \in DOMAIN j.data}}
      [] OTHER -> [n \in FromCaller(t.fields) |->
                     MeaningOf(CHOOSE f \in ToSet(t.fields) : f.name = n, j.data)]

(* What the codec accepts survives it: a value that could be encoded is    *)
(* decoded again, without an error and with its meaning, from the bytes    *)
(* the callback of its layout copies.  In particular an integer or an      *)
(* array too long for its count is refused, never cut.                     *)
RoundTrip ==
  pc = "over" /\ copied # Nil /\ json # Nil =>
    status = "ok" /\ Meaning(message, shown) = Meaning(message, json)

(* For every layout the generator accepts, the length the callback derives *)
(* from the count inside the reply is the length of the reply: it neither  *)
(* reads past its end nor cuts it, also when the tail is nested, empty or  *)
(* as long as the limit allows.                                            *)
SizeIsExact ==
  pc = "call" /\ json # Nil =>
    /\ ReplySize(message, native) \in {Len(native), Nil}
    /\ Len(native) <= PayloadLimit

(* The published schema tells the truth: Encode accepts nothing it forbids *)
(* and Decode shows nothing it forbids, whichever byte of the reply VPP    *)
(* chose otherwise, as long as the fixed strings of the reply end in NUL.  *)
(* (Of one that does not, Decode shows every byte, one more than the       *)
(* maxLength that Describe publishes.)                                     *)
DescribedIsTrue ==
  /\ native # Nil /\ json # Nil => Describes(message, json, 0)
  /\ shown # Nil => Describes(message, shown, 0)
=============================================================================
