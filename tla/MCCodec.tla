------------------------------ MODULE MCCodec -------------------------------
(* A small catalog for TLC with every kind of type the codec knows, and    *)
(* values for each message, valid ones and invalid ones.                   *)
EXTENDS Codec

Fld(type, name) == [type |-> type, name |-> name, length |-> -1, count |-> "",
                    default |-> Nil, discriminator |-> "", case |-> ""]
Fixed(type, name, n) == [Fld(type, name) EXCEPT !.length = n]
Varying(type, name, count) == [Fixed(type, name, 0) EXCEPT !.count = count]
Preset(type, name, v) == [Fld(type, name) EXCEPT !.default = v]
Case(type, name, c) == [Fld(type, name) EXCEPT !.case = c]
Tagged(type, name, disc) == [Fld(type, name) EXCEPT !.discriminator = disc]

Struct(fields) == [kind |-> "struct", fields |-> fields]
Union(fields) == [kind |-> "union", fields |-> fields]
Alias(type, n) == [kind |-> "alias", type |-> type, length |-> n]
Enum(type, flags, values) == [kind |-> "enum", type |-> type, length |-> -1,
                              flags |-> flags, values |-> values]
Sym(s, n) == [symbol |-> s, value |-> n]

Catalog == [
  vl_api_interface_index_t |-> Alias("u32", -1),
  vl_api_ip4_address_t |-> Alias("u8", 4),
  vl_api_ip6_address_t |-> Alias("u8", 16),
  vl_api_address_family_t |->
    Enum("u8", FALSE, <<Sym("ADDRESS_IP4", 0), Sym("ADDRESS_IP6", 1)>>),
  vl_api_address_union_t |->
    Union(<<Case("vl_api_ip4_address_t", "ip4", "ADDRESS_IP4"),
            Case("vl_api_ip6_address_t", "ip6", "ADDRESS_IP6")>>),
  vl_api_address_t |-> Struct(<<Fld("vl_api_address_family_t", "af"),
                                Fld("vl_api_address_union_t", "un")>>),
  vl_api_prefix_t |-> Struct(<<Fld("vl_api_address_t", "address"),
                               Fld("u8", "len")>>),
  vl_api_fib_proto_t |->
    Enum("i8", FALSE, <<Sym("FIB_API_PATH_NH_PROTO_IP4", 0),
                        Sym("FIB_API_PATH_NH_PROTO_IP6", 1),
                        Sym("FIB_API_PATH_NH_PROTO_MPLS", -1)>>),
  vl_api_fib_path_nh_t |-> Struct(<<Fld("vl_api_address_union_t", "address"),
                                    Fld("u8", "label")>>),
  vl_api_fib_path_t |-> Struct(<<Fld("vl_api_fib_proto_t", "proto"),
                                 Fld("vl_api_fib_path_nh_t", "nh")>>),
  vl_api_flags_t |-> Enum("u8", TRUE, <<Sym("A", 1), Sym("B", 2), Sym("BOTH", 3),
                                        Sym("NONE", 0)>>),
  vl_api_mode_t |-> Enum("i64", FALSE, <<Sym("ACCESS", 1), Sym("AGAIN", 1),
                                         Sym("TRUNK", 2)>>),
  vl_api_pair_t |-> Alias("u8", 2),
  vl_api_pairs_t |-> Struct(<<Fld("u8", "n"), Varying("vl_api_pair_t", "items", "n")>>),
  vl_api_loop_t |-> Struct(<<Fld("u8", "n"), Varying("vl_api_loop_t", "items", "n")>>),
  vl_api_mixed_t |-> Union(<<Case("u8", "byte", "A1"), Case("u16", "word", "A2")>>),
  vl_api_which_t |-> Enum("u8", FALSE, <<Sym("A1", 1), Sym("A2", 2)>>),
  numbers |-> Struct(<<Fld("u8", "a"), Fld("i8", "b"), Fld("u64", "c"),
                       Preset("bool", "d", "true")>>),
  listing |-> Struct(<<Fld("u8", "n"), Fld("i32", "retval"),
                       Varying("u16", "items", "n")>>),
  nested |-> Struct(<<Fld("u16", "x"), Fld("vl_api_pairs_t", "route")>>),
  named |-> Struct(<<Fixed("string", "tag", 3), Fld("string", "text")>>),
  note |-> Struct(<<Fld("vl_api_pair_t", "x"), Fld("string", "text")>>),
  symbols |-> Struct(<<Fld("vl_api_flags_t", "flags"),
                       Preset("vl_api_mode_t", "mode", 1),
                       Preset("vl_api_interface_index_t", "where", 255)>>),
  tagged |-> Struct(<<Fld("vl_api_which_t", "which"),
                      Tagged("vl_api_mixed_t", "un", "which")>>),
  routed |-> Struct(<<Fld("vl_api_prefix_t", "prefix"),
                      Fixed("vl_api_address_t", "via", 1)>>),
  path |-> Struct(<<Fld("vl_api_fib_path_t", "path")>>),
  untagged |-> Struct(<<Fld("vl_api_mixed_t", "un")>>),
  early |-> Struct(<<Varying("u8", "items", "n"), Fld("u8", "n")>>),
  looping |-> Struct(<<Fld("vl_api_loop_t", "root")>>)]

Names == [eth0 |-> 0, loop0 |-> 6]

-----------------------------------------------------------------------------
Ip4(n) == <<n, 0, 0, 1>>
Ip6(n) == [i \in 1..16 |-> IF i = 16 THEN n ELSE 0]
Ips == {Ip4(3), Ip6(1), <<1>>}
Lists(S, n) == UNION {[1..i -> S] : i \in 0..n}
Arrays(S, n) == {Arr(s) : s \in Lists(S, n)}

Values == [
  numbers |->
    {Obj([a |-> Num(x), b |-> Num(y), c |-> z]) :
       x \in {-1, 0, 3, 4}, y \in {-3, -2, 1, 2},
       z \in {Str(0), Str(65535), Str(65536), Num(1)}}
    \cup {Obj([a |-> Num(x), b |-> Num(0), c |-> Str(7), d |-> y]) :
            x \in {1, 2}, y \in {Bool(TRUE), Bool(FALSE), Num(1)}}
    \cup {Obj([a |-> Num(1)]), Num(1)},
  listing |->
    {Obj([retval |-> Num(r), items |-> s]) :
       r \in {-1, 0}, s \in Arrays({Num(0), Num(15), Num(16)}, 2)}
    \cup {Obj([retval |-> Num(0), items |-> Arr([i \in 1..k |-> Num(i)])]) : k \in 3..5}
    \cup {Obj([retval |-> Num(0), items |-> Arr(<< >>), n |-> Num(0)])},
  nested |->
    {Obj([x |-> Num(9), route |-> Obj([items |-> s])]) :
       s \in Arrays({Arr(<<Num(1), Num(2)>>), Arr(<<Num(3)>>)}, 3)},
  named |->
    {Obj([tag |-> Str(t), text |-> Str(s)]) :
       t \in Lists({0, 1}, 3), s \in Lists({0, 3}, 2)
                                      \cup {[i \in 1..k |-> 1] : k \in 31..35}},
  note |->
    {Obj([x |-> Arr(<<Num(1), Num(n)>>), text |-> Str(s)]) :
       n \in 3..4, s \in Lists({0, 3}, 2) \cup {[i \in 1..k |-> 1] : k \in 33..35}},
  symbols |->
    {Obj([flags |-> Arr(f), mode |-> Str(m)]) :
       f \in Lists({Str("A"), Str("B"), Str("BOTH"), Str("NONE"), Str("C")}, 2),
       m \in {"ACCESS", "AGAIN", "TRUNK", "OTHER"}}
    \cup {Obj([flags |-> Arr(<< >>), where |-> Str(w)]) :
            w \in {"@all", "eth0", "loop0", "gone"}},
  tagged |->
    {Obj([which |-> Str(w), un |-> Obj(u)]) :
       w \in {"A1", "A2", "A3"},
       u \in {[byte |-> Num(2)], [word |-> Num(14)], [word |-> Num(16)],
              [other |-> Num(0)], [byte |-> Num(1), word |-> Num(1)]}},
  routed |->
    {Obj([prefix |-> Str([ip |-> i, len |-> n]), via |-> Arr(<<Str(v)>>)]) :
       i \in Ips, n \in 0..4, v \in Ips}
    \cup {Obj([prefix |-> Num(0), via |-> Arr(<< >>)])},
  path |->
    {Obj([path |-> Obj([proto |-> Str("FIB_API_PATH_NH_PROTO_" \o p),
                        nh |-> Obj([address |-> Obj(u), label |-> Num(0)])])]) :
       p \in {"IP4", "IP6", "MPLS"},
       u \in {[ip4 |-> Str(Ip4(2))], [ip6 |-> Str(Ip6(2))]}},
  untagged |-> {Obj([un |-> Obj([byte |-> Num(1)])])},
  early |-> {Obj([items |-> s]) : s \in Arrays({Num(1)}, 2)},
  looping |-> {Obj([root |-> Obj([items |-> Arr(<< >>)])])}]
=============================================================================
