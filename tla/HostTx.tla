------------------------------- MODULE HostTx -------------------------------
(* The transactions the extension puts on the wire, as RLP (rlp.ts, tx.ts). *)
EXTENDS EthTx

encodeLength(len, offset) ==
  IF len < 56 THEN <<offset + len>>
  ELSE LET n == Canonical(<<len \div 65536, (len \div 256) % 256, len % 256>>)
       IN <<offset + 55 + Len(n)>> \o n
encodeBytes(s) ==
  IF Len(s) = 1 /\ s[1] < 128 THEN s ELSE encodeLength(Len(s), 128) \o s
encodeList(encoded) ==
  LET body == FlattenSeq(encoded) IN encodeLength(Len(body), 192) \o body
\* The fields of both formats, before an access list.
Eip1559Fields(t) == <<t.chainid, t.nonce, t.max_priority_fee_per_gas, t.max_fee_per_gas,
                      t.gas_limit, t.to, t.value, t.data>>
LegacyFields(t) == <<t.nonce, t.max_fee_per_gas, t.gas_limit, t.to, t.value, t.data,
                     t.chainid, <<>>, <<>>>>
encodeEip1559(t, accessList) ==
  <<2>> \o encodeList([i \in 1..8 |-> encodeBytes(Eip1559Fields(t)[i])]
                      \o <<encodeList(accessList)>>)
encodeLegacy(t) == encodeList([i \in 1..9 |-> encodeBytes(LegacyFields(t)[i])])

\* tx.ts: a gas price makes it a legacy transaction; access lists are empty.
encodeTx(t) == IF t.type = 2 THEN encodeEip1559(t, <<>>) ELSE encodeLegacy(t)

\* What the extension encodes: numbers of any size, in their minimal bytes, and
\* the bytes of an address, or none, and of the data, whatever the dApp gave.
TxNumbers == {"chainid", "nonce", "max_priority_fee_per_gas", "max_fee_per_gas",
              "gas_limit", "value"}
IsTx(t) ==
  /\ DOMAIN t = TxNumbers \cup {"type", "to", "data"}
  /\ t.type \in {0, 2} /\ (t.type = 0 => t.max_priority_fee_per_gas = <<>>)
  /\ \A f \in TxNumbers \cup {"to", "data"} : t[f] \in Seq(Byte)
  /\ \A f \in TxNumbers : t[f] # <<>> => t[f][1] # 0
=============================================================================
