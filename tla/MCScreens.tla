------------------------------ MODULE MCScreens ------------------------------
(* Instances of the screens: 30 requests, a short PIN and a short phrase.   *)
EXTENDS Screens, HostPayloads

(*************************************************************************)
(* Transactions.                                                         *)
(*************************************************************************)
Polygon == <<137>>
MCChains == <<<<1>>, Polygon>>
Addr(n) == [i \in 1..20 |-> n]
Text(n) == [i \in 1..n |-> 65]
Fields(type, chain, to, value, data) ==
  [type |-> type, chainid |-> chain, nonce |-> <<7>>,
   max_priority_fee_per_gas |-> IF type = 2 THEN <<59, 154>> ELSE <<>>,
   max_fee_per_gas |-> <<200, 1>>, gas_limit |-> <<82, 8>>,
   to |-> to, value |-> value, data |-> data]
TxRequest(t, meta) ==
  [op |-> "tx", raw |-> IF t.type = 2 THEN encodeEip1559(t, <<>>) ELSE encodeLegacy(t),
   tlv |-> encodeTxMetaTlv(meta), sent |-> <<t>>]
Call1(data) == TxRequest(Fields(2, <<1>>, Addr(17), <<>>, data), NoMeta)
Coin == [origin |-> <<Text(30)>>, to_name |-> <<Text(5)>>, to_symbol |-> <<Text(3)>>,
         to_decimals |-> <<18>>]
Plain == Fields(2, <<1>>, Addr(17), <<13, 224>>, <<>>)

TxRequests ==
  {TxRequest(Plain, Coin),
   TxRequest(Fields(0, Polygon, Addr(17), <<>>, CallData("transfer", <<Addr(3), <<5>>>>)), Coin),
   TxRequest(Fields(2, <<1>>, Addr(17), <<>>, CallData("withdraw", <<<<9, 9>>>>)), Coin),
   TxRequest(Fields(2, <<1>>, Addr(17), <<9>>, CallData("deposit", <<>>)), NoMeta),
   \* the low word of this chain id is 1
   TxRequest(Fields(2, <<1, 0, 0, 0, 1>>, Addr(17), <<>>, <<>>), NoMeta),
   TxRequest(Fields(2, <<1>>, <<>>, <<>>, Text(81)), NoMeta),
   Call1(CallData("approve", <<Addr(3), MaxUint>>)),
   Call1(CallData("approve", <<Addr(3), MaxUint>>) \o <<0>>),
   Call1(CallData("setApprovalForAll", <<Addr(3), <<1>>>>)),
   Call1(CallData("permit", <<Addr(3), Addr(4), <<5>>, <<6>>, <<27>>, MaxUint, MaxUint>>)),
   Call1(CallData("transfer", <<Addr(3) \o <<4>>, <<5>>>>)),
   Call1(CallData("swapExactETHForTokens", <<<<5>>, <<128>>, Addr(3), <<6>>, <<1>>, Addr(4)>>)),
   Call1(CallData("executeNoDeadln", <<<<64>>, <<128>>, <<3>>, Text(32), <<1>>, Text(32)>>)),
   Call1(CallData("removeLiquidity", <<Addr(3), Addr(4), <<1>>, <<2>>, <<3>>, Addr(5), <<6>>>>)),
   \* a block of metadata that is cut off, and a transaction that is
   [TxRequest(Plain, Coin) EXCEPT !.tlv = Front(@)],
   [TxRequest(Plain, Coin) EXCEPT !.raw = Front(@), !.sent = <<>>],
   \* no chain id at all
   [TxRequest(Plain, Coin) EXCEPT
      !.raw = encodeList([i \in 1..6 |-> encodeBytes(<<<<>>, <<1>>, <<2>>, Addr(1), <<>>, <<>>>>[i])]),
      !.sent = <<>>]}

(*************************************************************************)
(* Texts.                                                                *)
(*************************************************************************)
Lines(n) == [i \in 1..n |-> Newline]
PersonalRequests ==
  {[op |-> "personal", text |-> t] :
     t \in {Text(1),
            \* a line of exactly 28 characters and its newline, and two pages
            Text(28) \o Lines(1) \o Text(1) \o Lines(15),
            \* a line that wraps, and text that ends where a page does
            Text(30) \o Lines(15)}}
ConnectRequests == {[op |-> "connect", origin |-> Text(30)]}

(*************************************************************************)
(* Typed data.                                                           *)
(*************************************************************************)
\* A name of EIP712_MAX_NAME_LEN bytes.
Wordy(n) == "A_name_that_is_thirty_bytes_is" \o ToString(n)
MCNameOrder == <<Wordy(10), "EIP712Domain", "Long", "Mail", "Note", "Person", "Wide">>
Field(name, type) == [name |-> name, type |-> <<type>>]
Domain == <<Field("name", "string"), Field("chainId", "uint256"), Field("salt", "bytes32"),
            Field("verifyingContract", "address")>>
Bare == <<Field("name", "string")>>
MailTypes(domain) ==
  [EIP712Domain |-> domain,
   Mail |-> <<Field("from", "Person"), Field("id", "uint16"), Field("note", "Note"),
              Field("to", "Person"), Field("body", "string")>>,
   Note |-> <<Field("by", "Person"), Field("tag", "bytes4")>>,
   Person |-> <<Field("wallet", "address"), Field("ok", "bool")>>]
Minus(n) == [i \in 1..32 |-> IF i = 32 THEN 256 - n ELSE 255]
\* The values of a struct, some of them structs, under the names of its fields.
Values(parts) == FoldLeft(LAMBDA all, p : p @@ all, [path \in {} |-> <<>>], parts)
In(field, data) == [path \in {<<field>> \o p : p \in DOMAIN data} |-> data[Tail(path)]]
At(field, bytes) == <<field>> :> bytes
Person(n, ok) == Values(<<At("wallet", Addr(n)), At("ok", ok)>>)
Mail(domain, chain) ==
  [types |-> MailTypes(domain), primaryType |-> "Mail",
   domain |-> Values(<<At("name", Text(3)), At("chainId", chain), At("salt", MaxUint),
                       At("verifyingContract", Addr(8))>>),
   message |-> Values(<<In("from", Person(5, <<1>>)), At("id", <<1, 44>>),
                        In("note", Values(<<In("by", Person(6, <<>>)),
                                            At("tag", <<222, 173, 0, 1>>)>>)),
                        In("to", Person(7, <<1>>)), At("body", Text(30))>>)]
Wide == [types |-> [EIP712Domain |-> Bare,
                    Wide |-> <<Field("a", "int8"), Field("b", "int256"), Field("c", "bytes"),
                               Field("d", "uint160"), Field("e", "uint256")>>],
         primaryType |-> "Wide", domain |-> At("name", <<>>),
         message |-> Values(<<At("a", Minus(2)), At("b", Minus(1)), At("c", Text(6)),
                              At("d", <<1>>), At("e", [i \in 1..9 |-> i])>>)]
\* More lines than the parsed view has, and a type string of 2041 bytes and those of
\* the name of its last field.
Long(last) ==
  [types |-> [n \in {"EIP712Domain", "Long", Wordy(10)} |->
                CASE n = "EIP712Domain" -> Domain
                  [] n = "Long" -> [k \in 1..31 |-> IF k = 31 THEN Field(last, "uint256")
                                                    ELSE Field(Wordy(9 + k), Wordy(10))]
                  [] OTHER -> <<Field("a", "bool"), Field("b", "bool")>>],
   primaryType |-> "Long", domain |-> Mail(Domain, Polygon).domain,
   message |-> Values([k \in 1..31 |->
                 IF k = 31 THEN At(last, <<1>>)
                 ELSE In(Wordy(9 + k), Values(<<At("a", <<>>), At("b", <<1>>)>>))])]

TypedRequest(td) ==
  [op |-> "typed", text |-> Text(20),
   ds |-> hashStruct(MCNameOrder, td.types, "EIP712Domain", td.domain),
   mh |-> hashStruct(MCNameOrder, td.types, td.primaryType, td.message),
   tree |-> <<serializeTypedDataTLV(TypeOrder(td), td)>>,
   chain |-> ChainOf(td), forged |-> FALSE, asked |-> <<td>>]
Blind(r) == [r EXCEPT !.chain = <<>>, !.asked = <<>>]
OnMainnet == TypedRequest(Mail(Domain, <<1>>))

TypedRequests ==
  {OnMainnet, TypedRequest(Mail(Domain, Polygon)), TypedRequest(Mail(Bare, <<1>>)),
   TypedRequest(Wide),
   \* type strings of 2048 and of 2049 bytes
   TypedRequest(Long("seventh")), TypedRequest(Long("seventhX")),
   \* the hashes of another message than the tree's
   [OnMainnet EXCEPT !.mh = TypedRequest(Wide).mh, !.forged = TRUE],
   \* no tree, and a tree with bytes left over
   [Blind(OnMainnet) EXCEPT !.tree = <<>>, !.text = Text(20) \o Lines(17)],
   [Blind(OnMainnet) EXCEPT !.tree[1].values = Append(@, 0)]}

MCRequests == TxRequests \cup PersonalRequests \cup ConnectRequests \cup TypedRequests

(*************************************************************************)
(* Entry: three letters, three words, four to the phrase.                *)
(*************************************************************************)
MCWords == <<<<0, 1>>, <<0, 1, 2>>, <<0, 2, 0>>>>
MCChecksumOk ==
  {p \in [1..4 -> DOMAIN MCWords] : (p[1] + 2 * p[2] + p[3] + p[4]) % 3 = 0}
=============================================================================
