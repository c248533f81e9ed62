------------------------------ MODULE Calldata ------------------------------
(* What the cartridge makes of a transaction's data field: the table of     *)
(* known functions (abi_selectors.c), the decoder of the seven functions of *)
(* v0.2 (eth_abi.c) and the generic one that is tried after it              *)
(* (abi_decoder.c).  An argument keeps its type and its bytes; the display  *)
(* decides what of them is shown.                                           *)
EXTENDS EthTx

(*************************************************************************)
(* The table: the four bytes a function is called by, its arguments'     *)
(* types in order, and its flags.                                        *)
(*************************************************************************)
Amounts(n) == [i \in 1..n |-> "uint256"]
Addresses(n) == [i \in 1..n |-> "address"]
To_deadline == <<"address", "deadline">>
Swap(amounts) == Amounts(amounts) \o <<"address[]">> \o To_deadline

Args ==
  [transfer |-> <<"address", "uint256">>,
   approve |-> <<"address", "uint256">>,
   transferFrom |-> Addresses(2) \o Amounts(1),
   mint |-> <<"address", "uint256">>,
   burn |-> Amounts(1),
   safeTransferFrom |-> Addresses(2) \o Amounts(1),
   safeTransferFromData |-> Addresses(2) \o <<"uint256", "bytes">>,
   setApprovalForAll |-> <<"address", "bool">>,
   deposit |-> <<>>,
   withdraw |-> Amounts(1),
   permit |-> Addresses(2) \o <<"uint256", "deadline", "uint8", "bytes32", "bytes32">>,
   swapExactETHForTokens |-> Swap(1),
   swapExactTokensForETH |-> Swap(2),
   swapExactTokensForTokens |-> Swap(2),
   swapTokensForExactETH |-> Swap(2),
   swapETHForExactTokens |-> Swap(1),
   swapTokensForExactTokens |-> Swap(2),
   addLiquidityETH |-> <<"address">> \o Amounts(3) \o To_deadline,
   addLiquidity |-> Addresses(2) \o Amounts(4) \o To_deadline,
   removeLiquidity |-> Addresses(2) \o Amounts(3) \o To_deadline,
   removeLiquidityETH |-> <<"address">> \o Amounts(3) \o To_deadline,
   multicall |-> <<"bytes[]">>,
   multicallDeadln |-> <<"deadline", "bytes[]">>,
   execute |-> <<"sub-bytes", "bytes[]", "deadline">>,
   executeNoDeadln |-> <<"sub-bytes", "bytes[]">>]

Selector ==
  [transfer |-> <<169, 5, 156, 187>>,            approve |-> <<9, 94, 167, 179>>,
   transferFrom |-> <<35, 184, 114, 221>>,       mint |-> <<64, 193, 15, 25>>,
   burn |-> <<66, 150, 108, 104>>,               safeTransferFrom |-> <<66, 132, 46, 14>>,
   safeTransferFromData |-> <<184, 141, 79, 222>>,
   setApprovalForAll |-> <<162, 44, 180, 101>>,  deposit |-> <<208, 227, 13, 176>>,
   withdraw |-> <<46, 26, 125, 77>>,             permit |-> <<213, 5, 172, 207>>,
   swapExactETHForTokens |-> <<127, 243, 106, 181>>,
   swapExactTokensForETH |-> <<24, 203, 175, 229>>,
   swapExactTokensForTokens |-> <<56, 237, 23, 57>>,
   swapTokensForExactETH |-> <<74, 37, 217, 74>>,
   swapETHForExactTokens |-> <<251, 59, 219, 65>>,
   swapTokensForExactTokens |-> <<136, 3, 219, 238>>,
   addLiquidityETH |-> <<243, 5, 215, 25>>,      addLiquidity |-> <<232, 227, 55, 0>>,
   removeLiquidity |-> <<186, 162, 171, 222>>,   removeLiquidityETH |-> <<2, 117, 28, 236>>,
   multicall |-> <<172, 150, 80, 216>>,          multicallDeadln |-> <<90, 228, 1, 220>>,
   execute |-> <<53, 147, 86, 76>>,              executeNoDeadln |-> <<36, 133, 107, 195>>]

\* Mutant of Drainers: the table's row for permit lacks the flag.
WithoutPermit == {"approve", "setApprovalForAll"}

Drainers == {"approve", "setApprovalForAll", "permit"}

abi_lookup_selector(data) == {fn \in DOMAIN Selector : Selector[fn] = Slice(data, 1, 4)}

(*************************************************************************)
(* The seven functions of v0.2: exact length, clean addresses and bools. *)
(*************************************************************************)
LegacyFns == {"deposit", "withdraw", "transfer", "approve", "setApprovalForAll",
              "transferFrom", "safeTransferFrom"}
Slot(data, i) == Slice(data, 5 + 32 * (i - 1), 32)
\* Mutant of CleanAddress: one byte of the padding is not looked at.
ElevenZeros(s) == AllZero(SubSeq(s, 1, 11))

CleanAddress(s) == AllZero(SubSeq(s, 1, 12))
CleanBool(s) == AllZero(SubSeq(s, 1, 31)) /\ s[32] \in {0, 1}
MaxUint == [i \in 1..32 |-> 255]

NotDecoded == [ok |-> FALSE]
Arg(type, value) == [type |-> type, value |-> value]

Clean(data, types) ==
  /\ Len(data) = 4 + 32 * Len(types)
  /\ \A i \in DOMAIN types : /\ types[i] = "address" => CleanAddress(Slot(data, i))
                             /\ types[i] = "bool" => CleanBool(Slot(data, i))
eth_abi_decode(data) ==
  LET fns == {fn \in LegacyFns \cap abi_lookup_selector(data) : Clean(data, Args[fn])}
      The(fn, types) ==
        [ok |-> TRUE, fn |-> fn, args |-> [i \in DOMAIN types |-> Arg(types[i], Slot(data, i))]]
      First(found) == IF found = {} THEN NotDecoded
                      ELSE LET fn == CHOOSE f \in found : TRUE IN The(fn, Args[fn])
  IN First(fns)

\* eth_abi_call's is_infinite (approve only) and approved_bool.
is_infinite(c) == c.fn = "approve" /\ c.args[2].value = MaxUint
approved_bool(c) == c.fn = "setApprovalForAll" /\ c.args[2].value[32] = 1

(*************************************************************************)
(* The generic decoder.                                                  *)
(*************************************************************************)
HighPad == [uint256 |-> 0, bytes32 |-> 0, deadline |-> 0, address |-> 12, bool |-> 31,
            uint8 |-> 31]
ArrayCap == 64
Dynamic == {"bytes", "address[]", "sub-bytes", "bytes[]"}

validate_pad(type, s) ==
  AllZero(SubSeq(s, 1, HighPad[type])) /\ (type = "bool" => s[32] \in {0, 1})

\* A slot as a u32: what does not fit is refused (Huge and above always is,
\* for no payload is that long).
IsU32(s) == AllZero(SubSeq(s, 1, 28))

\* Argument i, or NotDecoded: the static value, or the (count, bytes) its
\* offset leads to.
Static(type, head) ==
  IF validate_pad(type, head) THEN [ok |-> TRUE, arg |-> Arg(type, head)] ELSE NotDecoded
CountSlot(args, offset) == Slice(args, offset + 1, 32)
Referred(args, type, offset, count) ==
  LET size == IF type \in {"address[]", "bytes[]"} THEN 32 * count ELSE count IN
  IF /\ type \in {"address[]", "bytes[]"} => count <= ArrayCap
     /\ size <= Len(args) - offset - 32
  THEN [ok |-> TRUE, arg |-> Arg(type, Slice(args, offset + 33, size)) @@ [count |-> count]]
  ELSE NotDecoded
Indirect(args, type, head, offset) ==
  IF /\ IsU32(head) /\ offset % 32 = 0
     /\ offset <= Len(args) /\ Len(args) - offset >= 32 /\ IsU32(CountSlot(args, offset))
  THEN Referred(args, type, offset, read_be(CountSlot(args, offset)))
  ELSE NotDecoded
DecodeArg(args, type, i) ==
  LET head == Slice(args, 32 * (i - 1) + 1, 32) IN
  IF 32 * i > Len(args) THEN NotDecoded
  ELSE IF type \in Dynamic THEN Indirect(args, type, head, read_be(head))
  ELSE Static(type, head)

abi_decode(data) ==
  LET fns == abi_lookup_selector(data)
      Decoded(fn, types) == [i \in DOMAIN types |-> DecodeArg(SubSeq(data, 5, Len(data)), types[i], i)]
      Whole(fn, d) == IF \E i \in DOMAIN d : ~d[i].ok THEN NotDecoded
                      ELSE [ok |-> TRUE, fn |-> fn, args |-> [i \in DOMAIN d |-> d[i].arg]]
  IN IF Len(data) < 4 \/ fns = {} THEN NotDecoded
     ELSE LET fn == CHOOSE f \in fns : TRUE IN Whole(fn, Decoded(fn, Args[fn]))

(*************************************************************************)
(* How confirm_tx combines them, and what page 0 then says.              *)
(*************************************************************************)
Badge(legacy, generic, data) ==
  CASE legacy.ok -> "DECODED"
    [] ~legacy.ok /\ generic.ok -> "PARSED"
    [] ~legacy.ok /\ ~generic.ok /\ data # <<>> -> "BLIND"
    [] OTHER -> "NONE"
=============================================================================
