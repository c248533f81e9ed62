------------------------------ MODULE HostTyped ------------------------------
(* Typed data on the extension's side (eip712.ts): its hashes, and the tree *)
(* that is sent with them.                                                  *)
(*                                                                          *)
(* Typed data is [types, primaryType, domain, message]: types maps a name   *)
(* to its fields, a domain or message the path of each of its values, the   *)
(* names of the fields that lead there, to its bytes.  Numbers are given    *)
(* without sign as at most their width, signed ones as 32 bytes of two's    *)
(* complement.  Structs are nested at most EIP712_MAX_DEPTH deep (bound:    *)
(* the cartridge refuses deeper trees); as in TypedData, left counts the    *)
(* levels that are left.                                                    *)
EXTENDS TypedData

Paths == Seq(STRING)
LeftPad(s, n) == [i \in 1..(n - Len(s)) |-> 0] \o s
RightPad(s, n) == s \o [i \in 1..(n - Len(s)) |-> 0]

(*************************************************************************)
(* The hashes.                                                           *)
(*************************************************************************)
BaseTypes(types, name) == {types[name][k].type[1] : k \in DOMAIN types[name]} \cap DOMAIN types
findDependencies(types, primary) ==
  {n \in DOMAIN types :
     \A S \in SUBSET DOMAIN types :
       primary \in S /\ (\A m \in S : BaseTypes(types, m) \subseteq S) => n \in S}
Definition(types, name) == [name |-> name, fields |-> types[name]]
\* Array.prototype.sort and memcmp agree on names in ASCII.
encodeType(order, types, primary) ==
  <<Definition(types, primary)>>
  \o InOrder(order, [n \in findDependencies(types, primary) \ {primary} |-> Definition(types, n)])

HostWord(base, v) ==
  IF base \in Dynamics THEN <<"keccak", v>>
  ELSE <<"word", IF base \in LeftAligned THEN RightPad(v, 32) ELSE LeftPad(v, 32)>>
HostHashLevel(order, types, data, child) ==
  [name \in DOMAIN types |-> [path \in Paths |->
     <<"struct", encodeType(order, types, name),
       [k \in DOMAIN types[name] |->
          LET f == types[name][k]
              here == Append(path, f.name)
          IN IF f.type[1] \in DOMAIN types THEN child[f.type[1]][here]
             ELSE HostWord(f.type[1], data[here])]>>]]
hashStruct(order, types, primary, data) ==
  LET hash[left \in 0..EIP712_MAX_DEPTH] ==
        IF left = 0 THEN [name \in DOMAIN types |-> [path \in Paths |-> <<>>]]
        ELSE HostHashLevel(order, types, data, hash[left - 1])
  IN hash[EIP712_MAX_DEPTH][primary][<<>>]

(*************************************************************************)
(* The tree.                                                             *)
(*************************************************************************)
\* The bytes of an atomic value, without the length of a dynamic one.
ValueBytes(base, v) ==
  CASE base \in Signed -> SubSeq(v, 33 - Width[base], 32)
    [] base \in Dynamics \cup LeftAligned -> v
    [] OTHER -> LeftPad(v, Width[base])
writeValue(base, v) ==
  IF base \in Dynamics THEN <<0, 0, Len(v) \div 256, Len(v) % 256>> \o v ELSE ValueBytes(base, v)
FieldBytes(types, data, child, name, path) ==
  [k \in DOMAIN types[name] |->
     LET f == types[name][k]
         here == Append(path, f.name)
     IN IF f.type[1] \in DOMAIN types THEN child[f.type[1]][here]
        ELSE writeValue(f.type[1], data[here])]
WriteLevel(types, data, child) ==
  [name \in DOMAIN types |-> [path \in Paths |-> FlattenSeq(FieldBytes(types, data, child, name, path))]]
writeStructValues(types, data) ==
  LET write[left \in 0..EIP712_MAX_DEPTH] ==
        IF left = 0 THEN [name \in DOMAIN types |-> [path \in Paths |-> <<>>]]
        ELSE WriteLevel(types, data, write[left - 1])
  IN write

\* names: the types in the order of the tree.
serializeTypedDataTLV(names, td) ==
  [types |-> [i \in DOMAIN names |-> Definition(td.types, names[i])],
   primary |-> CHOOSE i \in DOMAIN names : names[i] = td.primaryType,
   values |-> writeStructValues(td.types, td.domain)[EIP712_MAX_DEPTH]["EIP712Domain"][<<>>]
              \o writeStructValues(td.types, td.message)[EIP712_MAX_DEPTH][td.primaryType][<<>>]]

(*************************************************************************)
(* What can be asked for.                                                *)
(*************************************************************************)
\* A value of its type; intToBigEndian does not look at the range of a signed one.
IsValue(base, v) ==
  /\ v \in Seq(Byte) /\ base \in DOMAIN Width \cup Dynamics
  /\ base \in Dynamics => Len(v) <= EIP712_MAX_STRING_LEN
  /\ base \in LeftAligned \cup {"address"} => Len(v) = Width[base]
  /\ base \in DOMAIN Width => Len(v) <= (IF base \in Signed THEN 32 ELSE Width[base])
  /\ base = "bool" => v \in {<<>>, <<1>>}
  /\ base \in Signed =>
       /\ Len(v) = 32
       /\ \A i \in 1..32 - Width[base] : v[i] = IF v[33 - Width[base]] >= 128 THEN 255 ELSE 0
FillsLevel(types, data, child) ==
  [name \in DOMAIN types |-> [path \in Paths |->
     \A k \in DOMAIN types[name] :
       LET f == types[name][k]
           here == Append(path, f.name)
       IN IF f.type[1] \in DOMAIN types THEN child[f.type[1]][here]
          ELSE here \in DOMAIN data /\ IsValue(f.type[1], data[here])]]
\* data has a value for every path of a struct with so many levels left.
Fills(types, data) ==
  LET fills[left \in 0..EIP712_MAX_DEPTH] ==
        IF left = 0 THEN [name \in DOMAIN types |-> [path \in Paths |-> FALSE]]
        ELSE FillsLevel(types, data, fills[left - 1])
  IN fills

\* Structs nested at most `left` deep; arrays are left out, and structs that are
\* named as an atomic type (bounds).
Nested(td, left) ==
  /\ Fills(td.types, td.domain)[left]["EIP712Domain"][<<>>]
  /\ Fills(td.types, td.message)[left][td.primaryType][<<>>]
IsTypedData(td) ==
  /\ {"EIP712Domain", td.primaryType} \subseteq DOMAIN td.types
  /\ DOMAIN td.types \cap (DOMAIN Width \cup Dynamics) = {}
  /\ \A n \in DOMAIN td.types :
       /\ td.types[n] \in Seq([name : STRING, type : Seq(STRING)])
       /\ Len(td.types[n]) \in 1..EIP712_MAX_FIELDS_PER_TYPE
       /\ Len(n) \in 1..EIP712_MAX_NAME_LEN
       /\ \A k \in DOMAIN td.types[n] :
            /\ Len(td.types[n][k].type) = 1
            /\ Len(td.types[n][k].name) \in 1..EIP712_MAX_NAME_LEN
            /\ TypeLen(td.types[n][k].type) \in 1..EIP712_MAX_TYPE_LEN
  /\ Nested(td, EIP712_MAX_DEPTH)
\* The types a tree lists: the domain's first, each once, and what they use.
IsTypeOrder(names, td) ==
  /\ names \in Seq(DOMAIN td.types) /\ Len(names) \in 1..EIP712_MAX_TYPES
  /\ names[1] = "EIP712Domain" /\ td.primaryType \in ToSet(names)
  /\ \A i \in DOMAIN names : BaseTypes(td.types, names[i]) \subseteq ToSet(names)
  /\ \A i, j \in DOMAIN names : names[i] = names[j] => i = j

\* The network that the domain names, in the 32 bits that are compared.
ChainOf(td) ==
  IF [name |-> "chainId", type |-> <<"uint256">>] \in ToSet(td.types["EIP712Domain"])
  THEN <<LowWord(Canonical(td.domain[<<"chainId">>]))>> ELSE <<>>
=============================================================================
