------------------------------ MODULE TypedData ------------------------------
(* The typed-data tree the host appends to PROTO_TYPED_DATA and what        *)
(* eip712.c makes of it: the walk that finds every value, the type strings, *)
(* the struct hashes, the domain's chain id, and the verdict on the host's  *)
(* two hashes.                                                              *)
(*                                                                          *)
(* A tree is [types, primary, values]: the type table, the index of the     *)
(* primary type in it, and the bytes of the domain's and the message's      *)
(* values.  A type is [name, fields], a field [name, type], where a type is *)
(* <<base>> or, for arrays, <<base, "[]", ...>>; names are strings, and Len *)
(* is the number of their bytes.  A hash is the term that is hashed:        *)
(* keccak256 is taken to be injective.                                      *)
EXTENDS EthTx

EIP712_MAX_TYPES == 32
EIP712_MAX_FIELDS_PER_TYPE == 32
EIP712_MAX_NAME_LEN == 32
EIP712_MAX_TYPE_LEN == 40
EIP712_MAX_STRING_LEN == 1024
EIP712_MAX_DEPTH == 4
EIP712_TYPESTR_MAX == 2048

\* Bytes of an atomic value; every other width is as one of these.
Width == [address |-> 20, bool |-> 1, uint8 |-> 1, uint16 |-> 2, uint160 |-> 20,
          uint256 |-> 32, int8 |-> 1, int256 |-> 32, bytes4 |-> 4, bytes32 |-> 32]
Signed == {"int8", "int256"}
LeftAligned == {"bytes4", "bytes32"}
Dynamics == {"string", "bytes"}

type_is_array(type) == Len(type) > 1
find_type_by_name(types, name) == {i \in DOMAIN types : types[i].name = name}
IsStruct(types, type) == ~type_is_array(type) /\ find_type_by_name(types, type[1]) # {}
StructOf(types, type) == Min(find_type_by_name(types, type[1]))

\* The bytes of a type's name, "[]" for each array.
TypeLen(type) == Len(type[1]) + 2 * (Len(type) - 1)
parse_tlv_header(t) ==
  /\ Len(t.types) \in 1..EIP712_MAX_TYPES
  /\ \A i \in DOMAIN t.types :
       /\ Len(t.types[i].fields) \in 1..EIP712_MAX_FIELDS_PER_TYPE
       /\ Len(t.types[i].name) \in 1..EIP712_MAX_NAME_LEN
       /\ \A k \in DOMAIN t.types[i].fields :
            /\ Len(t.types[i].fields[k].name) \in 1..EIP712_MAX_NAME_LEN
            /\ TypeLen(t.types[i].fields[k].type) \in 1..EIP712_MAX_TYPE_LEN
  /\ t.primary \in DOMAIN t.types
  /\ t.types[1].name = "EIP712Domain"

(*************************************************************************)
(* Walking the values.  Position 0 is "malformed".  Arrays are refused   *)
(* here: the code skips them and refuses them when it comes to hashing,  *)
(* and the caller treats all refusals alike.                             *)
(*************************************************************************)
Bad == 0
LengthAt(v, at) == read_be(Slice(v, at, 4))

\* Where the content of a value lies: <<from, length>>, or <<Bad, 0>>.
Extent(v, base, at) ==
  CASE base \in Dynamics ->
         IF /\ at + 3 <= Len(v) /\ LengthAt(v, at) <= EIP712_MAX_STRING_LEN
            /\ at + 3 + LengthAt(v, at) <= Len(v)
         THEN <<at + 4, LengthAt(v, at)>> ELSE <<Bad, 0>>
    [] base \in DOMAIN Width ->
         IF at + Width[base] - 1 <= Len(v) /\ (base = "bool" => v[at] \in {0, 1})
         THEN <<at, Width[base]>> ELSE <<Bad, 0>>
    [] OTHER -> <<Bad, 0>>
After(extent) == IF extent[1] = Bad THEN Bad ELSE extent[1] + extent[2]

\* The position after a value of some type.  child[i][at] is that after a struct of
\* type i, one level deeper.
walk_value(t, child, type, at) ==
  CASE at = Bad \/ type_is_array(type) -> Bad
    [] at # Bad /\ IsStruct(t.types, type) -> child[StructOf(t.types, type)][at]
    [] OTHER -> After(Extent(t.values, type[1], at))
\* The positions after the first k fields of a struct of type i that starts at `at`.
FieldEnds(t, child, i, at) ==
  LET end[k \in 0..Len(t.types[i].fields)] ==
        IF k = 0 THEN at ELSE walk_value(t, child, t.types[i].fields[k].type, end[k - 1])
  IN end
WalkLevel(t, child) ==
  [i \in DOMAIN t.types |-> [at \in 0..Len(t.values) + 1 |->
     FieldEnds(t, child, i, at)[Len(t.types[i].fields)]]]
\* The position after a struct with so many levels left for what is nested in it
\* and itself: depth is EIP712_MAX_DEPTH + 1 - left.
walk_struct(t) ==
  LET walk[left \in 0..EIP712_MAX_DEPTH] ==
        IF left = 0 THEN [i \in DOMAIN t.types |-> [at \in 0..Len(t.values) + 1 |-> Bad]]
        ELSE WalkLevel(t, walk[left - 1])
  IN walk

DomainEnd(t) == walk_struct(t)[EIP712_MAX_DEPTH][1][1]
MessageEnd(t) == IF DomainEnd(t) = Bad THEN Bad
                 ELSE walk_struct(t)[EIP712_MAX_DEPTH][t.primary][DomainEnd(t)]
WellFormed(t) == parse_tlv_header(t) /\ MessageEnd(t) = Len(t.values) + 1

(*************************************************************************)
(* encodeType: the primary's definition, then the others' by name.       *)
(*************************************************************************)
Uses(types, i) ==
  {StructOf(types, types[i].fields[k].type) :
     k \in {k \in DOMAIN types[i].fields : find_type_by_name(types, types[i].fields[k].type[1]) # {}}}
\* What is reached from i: it is in every set that has i and what its members use.
collect_deps(types, i) ==
  {j \in DOMAIN types :
     \A S \in SUBSET DOMAIN types : i \in S /\ (\A m \in S : Uses(types, m) \subseteq S) => j \in S}

\* Definitions, given by name, in the order in which memcmp has their names.
InOrder(order, defs) ==
  FlattenSeq([n \in DOMAIN order |-> IF order[n] \in DOMAIN defs THEN <<defs[order[n]]>> ELSE <<>>])
sort_deps_by_name(order, types, deps) ==
  InOrder(order, [n \in {types[j].name : j \in deps} |-> types[Min(find_type_by_name(types, n))]])
encode_type_canonical(order, types, i) ==
  <<types[i]>> \o sort_deps_by_name(order, types, collect_deps(types, i) \ {i})

\* The bytes of "T(t0 n0,t1 n1,...)", and of definitions one after the other.
emit_struct_def(d) ==
  FoldLeft(LAMBDA n, f : n + TypeLen(f.type) + Len(f.name) + 2, Len(d.name) + 1, d.fields)
TypeStringSize(defs) == FoldLeft(LAMBDA n, d : n + emit_struct_def(d), 0, defs)
\* Every struct that is hashed has a type string that fits in the buffer for it.
TypeStringsFit(order, t) ==
  \A i \in collect_deps(t.types, 1) \cup collect_deps(t.types, t.primary) :
    TypeStringSize(encode_type_canonical(order, t.types, i)) <= EIP712_TYPESTR_MAX

(*************************************************************************)
(* Hashing.                                                              *)
(*************************************************************************)
\* Mutant of Word: a negative number is filled up with zeros.
ZeroFilled(base, s) ==
  LET pad == [i \in 1..32 - Len(s) |-> 0] IN
  IF base \in Dynamics THEN <<"keccak", s>>
  ELSE <<"word", IF base \in LeftAligned THEN s \o pad ELSE pad \o s>>

\* The 32 bytes an atomic value is hashed as.
Word(base, s) ==
  LET pad == 32 - Len(s)
      fill == IF base \in Signed /\ s[1] >= 128 THEN 255 ELSE 0
  IN IF base \in Dynamics THEN <<"keccak", s>>
     ELSE IF base \in LeftAligned
     THEN <<"word", s \o [i \in 1..pad |-> 0]>>
     ELSE <<"word", [i \in 1..pad |-> fill] \o s>>

\* The hashes of structs; the tree is well formed, so they are nested no deeper than
\* was walked.
HashLevel(order, t, child, walk) ==
  [i \in DOMAIN t.types |-> [at \in 0..Len(t.values) + 1 |->
     <<"struct", encode_type_canonical(order, t.types, i),
       [k \in DOMAIN t.types[i].fields |->
          LET type == t.types[i].fields[k].type
              from == FieldEnds(t, walk, i, at)[k - 1]
              e == Extent(t.values, type[1], from)
          IN IF IsStruct(t.types, type) THEN child[StructOf(t.types, type)][from]
             ELSE Word(type[1], Slice(t.values, e[1], e[2]))]>>]]
compute_struct_hash(order, t) ==
  LET hash[left \in 0..EIP712_MAX_DEPTH] ==
        IF left = 0 THEN [i \in DOMAIN t.types |-> [at \in 0..Len(t.values) + 1 |-> <<>>]]
        ELSE HashLevel(order, t, hash[left - 1], walk_struct(t)[left - 1])
  IN hash[EIP712_MAX_DEPTH]

our_domain_separator(order, t) == compute_struct_hash(order, t)[1][1]
our_message_hash(order, t) == compute_struct_hash(order, t)[t.primary][DomainEnd(t)]

\* The chain id of the domain: the low four bytes of a field chainId of type
\* uint256, the last one if there are several; <<>> of {} when there is none.
extract_domain_fields(t) ==
  LET before == FieldEnds(t, walk_struct(t)[EIP712_MAX_DEPTH - 1], 1, 1)
      ids == {k \in DOMAIN t.types[1].fields :
                t.types[1].fields[k] = [name |-> "chainId", type |-> <<"uint256">>]}
  IN IF ids = {} THEN <<>>
     ELSE <<LowWord(Canonical(Slice(t.values, before[Max(ids) - 1], 32)))>>

eip712_parse_and_verify(order, t, hostDs, hostMh) ==
  CASE ~(WellFormed(t) /\ TypeStringsFit(order, t)) -> "error"
    [] WellFormed(t) /\ TypeStringsFit(order, t)
         /\ our_domain_separator(order, t) = hostDs /\ our_message_hash(order, t) = hostMh -> "match"
    [] OTHER -> "mismatch"
=============================================================================
