---------------------------- MODULE HostPayloads ----------------------------
(* What else the extension puts on the wire for the cartridge to read: the  *)
(* informational block (tx_meta.ts), and the order of the types in a tree   *)
(* (eip712.ts).  The runs send these, the transactions of HostTx and the    *)
(* trees of HostTyped, and damaged or dishonest variants, to the            *)
(* cartridge's decoders.                                                    *)
EXTENDS Calldata, HostTyped, HostTx

(*************************************************************************)
(* The informational block of a transaction, and calldata.               *)
(*************************************************************************)
\* A field of the meta record is <<>> or <<its value>>, as tx_meta keeps it.
encodeTxMetaTlv(m) ==
  LET Text(type, field, max) ==
        IF field = <<>> THEN <<>>
        ELSE LET v == copy_safe_ascii(SubSeq(field[1], 1, Min({Len(field[1]), max})))
             IN <<type, Len(v)>> \o v
  IN Text(1, m.origin, META_ORIGIN_MAX) \o Text(2, m.to_name, META_NAME_MAX)
     \o Text(3, m.to_symbol, META_SYMBOL_MAX)
     \o (IF m.to_decimals = <<>> THEN <<>> ELSE <<4, 1>> \o m.to_decimals)

\* Calldata: the selector and one slot per static argument.
CallData(fn, slots) == Selector[fn] \o FlattenSeq([i \in DOMAIN slots |-> LeftPad(slots[i], 32)])

(*************************************************************************)
(* The order of the types in a typed-data tree: as a search finds them.  *)
(*************************************************************************)
RECURSIVE collect(_, _, _)
collect(types, found, name) ==
  IF name \in ToSet(found) \/ name \notin DOMAIN types THEN found
  ELSE FoldLeft(LAMBDA acc, f : collect(types, acc, f.type[1]),
                Append(found, name), types[name])
TypeOrder(td) == collect(td.types, collect(td.types, <<>>, "EIP712Domain"), td.primaryType)
=============================================================================
