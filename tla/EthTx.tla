------------------------------- MODULE EthTx -------------------------------
(* What the cartridge reads in the payload of PROTO_TX_RLP and              *)
(* PROTO_TX_RLP_META: the RLP decoder (rlp.c), the transaction decoder      *)
(* (eth_tx.c), the informational TLV block (tx_meta.c), and the table of    *)
(* networks a chain id is looked up in (chains.c).                          *)
(*                                                                          *)
(* A payload is a sequence of bytes; a position in it is 1-based.  A number *)
(* is its big-endian bytes without leading zeros, zero is <<>>.  Lengths    *)
(* are integers that saturate at Huge, which no payload reaches.            *)
EXTENDS Integers, Sequences, FiniteSets, SequencesExt

Byte == 0..255
Huge == 2^22
PROTO_TX_RLP_MAX == 4096    \* the longest payload the cartridge takes

Slice(b, from, len) == SubSeq(b, from, Min({from + len - 1, Len(b)}))
AllZero(b) == \A i \in DOMAIN b : b[i] = 0

\* A big-endian byte string as a number: its bytes from the first non-zero one.
Canonical(b) ==
  LET Used == {i \in DOMAIN b : b[i] # 0} IN
  IF Used = {} THEN <<>> ELSE SubSeq(b, Min(Used), Len(b))

\* The same as an integer, saturated (only lengths and offsets are read so).
read_be(b) ==
  LET upTo[i \in 0..Len(b)] == IF i = 0 THEN 0 ELSE Min({256 * upTo[i - 1] + b[i], Huge})
  IN upTo[Len(b)]

(*************************************************************************)
(* RLP: an item is a stretch of the payload.                             *)
(*************************************************************************)
Item(list, from, len) == [ok |-> TRUE, list |-> list, from |-> from, len |-> len]
NoItem == [ok |-> FALSE, list |-> FALSE, from |-> 0, len |-> 0]
Bytes(b, x) == Slice(b, x.from, x.len)

\* The item that starts at p, in the bytes p..last.
rlp_decode_item(b, p, last) ==
  LET list == b[p] >= 192
      size == b[p] - (IF list THEN 192 ELSE 128)
      lol  == Max({0, size - 55})            \* the bytes the length is written in
      len  == IF lol = 0 THEN size ELSE read_be(Slice(b, p + 1, lol))
      left == last - p - lol
  IN IF p > last THEN NoItem
     ELSE IF b[p] <= 127 THEN Item(FALSE, p, 1)
     ELSE IF \/ left < 0
             \/ lol > 0 /\ (b[p + 1] = 0 \/ len <= 55)
             \/ len > left
             \/ ~list /\ lol = 0 /\ len = 1 /\ b[p + 1] <= 127
     THEN NoItem ELSE Item(list, p + 1 + lol, len)

\* Everything rlp_iter_next gives for a list; a failure ends it and stays last.
rlp_iter(b, list) ==
  LET last == list.from + list.len - 1
      f[p \in list.from .. last + 1] ==
        IF p > last THEN <<>>
        ELSE LET x == rlp_decode_item(b, p, last) IN
             IF x.ok THEN <<x>> \o f[x.from + x.len] ELSE <<NoItem>>
  IN f[list.from]

IsU64(b, x) == ~x.list /\ x.len <= 8 /\ ~(x.len > 1 /\ b[x.from] = 0)
\* Mutant of rlp_to_u64: the last byte is the most significant one.
LittleEndian(b, x) == Canonical(Reverse(Bytes(b, x)))

rlp_to_u64(b, x) == Canonical(Bytes(b, x))
IsPadded(x, n) == ~x.list /\ x.len <= n

(*************************************************************************)
(* Transactions.                                                         *)
(*************************************************************************)
Malformed == [ok |-> FALSE]
AddressItem(x) == ~x.list /\ x.len \in {0, 20}

\* A transaction with what both formats read in the same way, the rest zero.
Common(b, to, value, data) ==
  [ok |-> TRUE, type |-> 0, chainid |-> <<>>, nonce |-> <<>>, max_priority_fee_per_gas |-> <<>>,
   max_fee_per_gas |-> <<>>, gas_limit |-> <<>>,
   to |-> Bytes(b, to), value |-> Canonical(Bytes(b, value)), data |-> Bytes(b, data)]
CommonOk(b, to, value, data) == AddressItem(to) /\ IsPadded(value, 32) /\ ~data.list

\* The items f of the list that is a transaction of type 2.
decode_1559_body(b, f) ==
  IF /\ Len(f) = 9 /\ \A i \in 1..9 : f[i].ok
     /\ \A i \in 1..5 : IsU64(b, f[i])
     /\ CommonOk(b, f[6], f[7], f[8]) /\ f[9].list
  THEN LET n == [i \in 1..5 |-> rlp_to_u64(b, f[i])] IN
       [Common(b, f[6], f[7], f[8]) EXCEPT
          !.type = 2, !.chainid = n[1], !.nonce = n[2],
          !.max_priority_fee_per_gas = n[3], !.max_fee_per_gas = n[4], !.gas_limit = n[5]]
  ELSE Malformed

\* Six fields, or nine that end in chainId, 0, 0.
decode_legacy(b, f) ==
  IF /\ Len(f) \in {6, 9} /\ \A i \in DOMAIN f : f[i].ok
     /\ \A i \in 1..3 : IsU64(b, f[i])
     /\ CommonOk(b, f[4], f[5], f[6])
     /\ \A i \in 7..Len(f) : IsU64(b, f[i])
     /\ \A i \in 8..Len(f) : rlp_to_u64(b, f[i]) = <<>>
  THEN LET n == [i \in {1, 2, 3} \cup 7..Len(f) |-> rlp_to_u64(b, f[i])] IN
       [Common(b, f[4], f[5], f[6]) EXCEPT
          !.chainid = IF Len(f) = 9 THEN n[7] ELSE <<>>,
          !.nonce = n[1], !.max_fee_per_gas = n[2], !.gas_limit = n[3]]
  ELSE Malformed

eth_tx_decode(b) ==
  LET start == IF b # <<>> /\ b[1] = 2 THEN 2 ELSE 1   \* after the type byte
      list == rlp_decode_item(b, start, Len(b))
      Fields(f) == IF start = 2 THEN decode_1559_body(b, f) ELSE decode_legacy(b, f)
  IN IF list.ok /\ list.list THEN Fields(rlp_iter(b, list)) ELSE Malformed

(*************************************************************************)
(* The informational block: type, length, value, repeated.               *)
(*************************************************************************)
META_ORIGIN_MAX == 96
META_NAME_MAX   == 32
META_SYMBOL_MAX == 16
TextField == (1 :> <<"origin", META_ORIGIN_MAX>>)
          @@ (2 :> <<"to_name", META_NAME_MAX>>)
          @@ (3 :> <<"to_symbol", META_SYMBOL_MAX>>)
NoMeta == [origin |-> <<>>, to_name |-> <<>>, to_symbol |-> <<>>, to_decimals |-> <<>>]

\* A field is <<>> until it is present, then <<its value>>.
copy_safe_ascii(s) == [i \in DOMAIN s |-> IF s[i] \in 32..126 THEN s[i] ELSE 63]

meta_field(m, type, v) ==
  IF type \in DOMAIN TextField /\ Len(v) <= TextField[type][2]
  THEN [m EXCEPT ![TextField[type][1]] = <<copy_safe_ascii(v)>>]
  ELSE IF type = 4 /\ Len(v) = 1 /\ v[1] <= 77 THEN [m EXCEPT !.to_decimals = v]
  ELSE m

\* The block that starts at p, on top of what was read before it.
tx_meta_parse(blob) ==
  LET end == Len(blob) + 1
      run[k \in 0..Len(blob)] ==   \* after k entries: where, what, still well formed
        IF k = 0 THEN [at |-> 1, meta |-> NoMeta, ok |-> TRUE]
        ELSE LET s == run[k - 1] IN
             IF ~s.ok \/ s.at = end THEN s
             ELSE IF s.at + 2 > end \/ s.at + 2 + blob[s.at + 1] > end
                  THEN [s EXCEPT !.ok = FALSE]
             ELSE [s EXCEPT !.at = s.at + 2 + blob[s.at + 1],
                            !.meta = meta_field(s.meta, blob[s.at],
                                                Slice(blob, s.at + 2, blob[s.at + 1]))]
  IN run[Len(blob)]

(*************************************************************************)
(* chains.c: the networks the firmware knows, by chain id.               *)
(*************************************************************************)
\* A chain id of the table as the canonical bytes of the number n < 2^32.
Number(n) == Canonical([i \in 1..4 |-> (n \div <<16777216, 65536, 256, 1>>[i]) % 256])
Mainnets == {Number(n) : n \in {1, 137, 8453, 42161, 10, 56, 43114, 324, 59144,
                                534352, 81457, 5000, 100}}
Testnets == {Number(n) : n \in {11155111, 84532, 421614, 11155420, 80002, 97}}
KnownChains == Mainnets \cup Testnets

\* The callers pass (u32)chainid: the row of the table that the low four
\* bytes name, or the "Custom network" row <<>>.
LowWord(n) == Canonical(SubSeq(n, Max({1, Len(n) - 3}), Len(n)))
chains_lookup(n) == IF LowWord(n) \in KnownChains THEN LowWord(n) ELSE <<>>
=============================================================================
