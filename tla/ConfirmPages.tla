----------------------------- MODULE ConfirmPages -----------------------------
(* The pages of the confirmation screens (confirm.c): what each render      *)
(* function draws, how many pages there are, and where each one starts.     *)
(* Wording and layout are left out; a row says which datum it shows and how *)
(* much of it.                                                              *)
EXTENDS Calldata, TypedData, TextScreen

(*************************************************************************)
(* Formatting: how much of a value can be read.                          *)
(*************************************************************************)
Head4(s) == SubSeq(s, 1, 4)
LastN(s, n) == SubSeq(s, Len(s) - n + 1, Len(s))

format_uint256(s) ==
  IF Len(Canonical(s)) <= 8 THEN <<"dec", Canonical(s)>> ELSE <<"hex", Head4(s), LastN(s, 4)>>
format_abi_uint(type, s) ==
  IF type # "uint8" /\ s = MaxUint THEN <<"max">> ELSE format_uint256(s)
format_value(v, symbol) ==
  IF Len(v) <= 8 THEN <<"value", v, symbol>> ELSE <<"value over 2^64">>
format_amount_with_decimals(s, decimals, symbol) ==
  LET v == Canonical(s) IN
  IF Len(v) > 8 THEN <<"amount over 2^64">>
  ELSE IF decimals[1] > 19 THEN <<"raw", v, decimals>> ELSE <<"amount", v, decimals, symbol>>
\* An address takes two rows: 0x and ten bytes, then the other ten.
AddressRows(a) == <<<<"address", SubSeq(a, 1, 10)>>, <<"address", SubSeq(a, 11, 20)>>>>
SlotAddress(s) == AddressRows(SubSeq(s, 13, 32))

(*************************************************************************)
(* Transactions: page 0, one page for decoded calldata, hex pages.       *)
(*************************************************************************)
DATA_BYTES_PER_LINE == 10
DATA_LINES_PER_PAGE == 8
DATA_BYTES_PER_PAGE == DATA_BYTES_PER_LINE * DATA_LINES_PER_PAGE
\* Mutant of data_total_pages: the quotient is not rounded up.
WholePages(len) == len \div DATA_BYTES_PER_PAGE

data_total_pages(len) == (len + DATA_BYTES_PER_PAGE - 1) \div DATA_BYTES_PER_PAGE

\* What confirm_tx works with: both decoders are tried once, the first one
\* that understands the calldata is believed.
TxDoc(tx, meta) ==
  LET With(legacy, generic) ==
        [tx |-> tx, meta |-> meta, badge |-> Badge(legacy, generic, tx.data),
         call |-> IF legacy.ok THEN legacy ELSE generic]
  IN With(eth_abi_decode(tx.data), abi_decode(tx.data))
Understood(x) == x.badge \in {"DECODED", "PARSED"}
extra_pages(x) == data_total_pages(Len(x.tx.data)) + (IF Understood(x) THEN 1 ELSE 0)

\* The note a dangerous call adds to the summary on page 0.
abi_summary(x) ==
  CASE x.badge = "DECODED" -> <<"call", x.call.fn, is_infinite(x.call) \/ approved_bool(x.call)>>
    [] x.badge = "PARSED"  -> <<"call", x.call.fn, x.call.fn \in Drainers>>
    [] x.badge = "BLIND"   -> <<"call", "bytes", FALSE>>
    [] OTHER               -> <<"call", "none", FALSE>>

native_sym(tx) == <<"native", chains_lookup(tx.chainid)>>

render_page0(x) ==
  LET tx == x.tx
      meta == x.meta IN
  Page("CONFIRM TX",
    From(2, <<<<"network", chains_lookup(tx.chainid)>>, <<"chainId", tx.type, tx.chainid>>,
              <<"nonce", tx.nonce>>, <<"max fee", tx.max_fee_per_gas>>>>)
    \o (IF tx.type = 2 THEN <<<<6, <<"tip", tx.max_priority_fee_per_gas>>>>>> ELSE <<>>)
    \o <<<<7, <<"gas", tx.gas_limit>>>>>>
    \o (IF meta.origin # <<>> THEN <<<<8, <<"origin", Slice(meta.origin[1], 1, 20)>>>>>> ELSE <<>>)
    \o (IF tx.to = <<>> THEN <<<<9, <<"creation">>>>>>
        ELSE <<<<9, <<"to">>>>>> \o From(10, AddressRows(tx.to))
             \o (IF meta.to_name # <<>>
                 THEN <<<<12, <<"name", Slice(meta.to_name[1], 1, 20)>>>>>> ELSE <<>>))
    \o <<<<14, format_value(tx.value, native_sym(tx))>>, <<16, abi_summary(x)>>>>
    \o (IF tx.data # <<>> THEN <<<<17, <<"badge", x.badge>>>>>> ELSE <<>>)
    \o <<<<18, <<"tx id">>>>>>,
    CASE x.badge = "NONE"    -> "A sign  B cancel"
      [] x.badge = "DECODED" -> "A sign  B cancel  R decoded >"
      [] x.badge = "PARSED"  -> "A sign  B cancel  R parsed >"
      [] OTHER -> "A sign  B cancel  R BLIND hex >")

\* deposit and withdraw: the only page that is drawn over the previous one.
render_wrap_unwrap_page(x) ==
  LET tx == x.tx
      meta == x.meta
      call == x.call
      deposit == call.fn = "deposit"
      amount == IF deposit THEN tx.value ELSE Canonical(call.args[1].value)
      token == <<"token", meta.to_symbol>>
      minus == IF deposit THEN native_sym(tx) ELSE token
      plus == IF deposit THEN token ELSE native_sym(tx)
  IN [Page("TX DATA",
        <<<<3, <<"function", call.fn>>>>>>
        \o (IF tx.to # <<>> /\ meta.to_symbol # <<>>
            THEN <<<<5, <<"minus", format_value(amount, minus)>>>>,
                   <<6, <<"plus", format_value(amount, plus)>>>>, <<8, token>>>>
                 \o From(9, AddressRows(tx.to)) \o <<<<12, <<"amount from", deposit>>>>>>
            ELSE <<<<5, <<"no token info">>>>,
                   <<9, IF deposit THEN format_value(amount, native_sym(tx))
                        ELSE format_uint256(call.args[1].value)>>>>),
        "A sign  B cancel  L< R> hex") EXCEPT !.clear = FALSE]

render_decoded_page(x) ==
  LET call == x.call
      meta == x.meta
      n == Len(call.args) - 1          \* the addresses: all arguments but the last
      warn == is_infinite(call) \/ approved_bool(call)
      top == IF warn THEN 9 ELSE 5
      after == top + 4 * n
      last == call.args[Len(call.args)].value
      hostInfo == meta.to_symbol # <<>> /\ meta.to_decimals # <<>>
                  /\ call.fn \in {"transfer", "approve", "transferFrom"}
      amount ==
        CASE call.fn = "setApprovalForAll" -> <<"bool", last[32]>>
          [] is_infinite(call)             -> <<"max">>
          [] OTHER -> IF hostInfo
                      THEN format_amount_with_decimals(last, meta.to_decimals, meta.to_symbol)
                      ELSE format_uint256(last)
  IN Page("TX DATA",
       <<<<3, <<"function", call.fn>>>>>>
       \o (IF warn THEN <<<<6, <<"warning", call.fn>>>>>> ELSE <<>>)
       \o [k \in 1..3 * n |->
             LET i == (k - 1) \div 3
                 part == (k - 1) % 3
                 address == SlotAddress(call.args[i + 1].value)
             IN <<top + 4 * i + part, IF part = 0 THEN <<"arg", i + 1>> ELSE address[part]>>]
       \o (IF call.fn = "setApprovalForAll" THEN <<<<after, amount>>>>
           ELSE <<<<after, <<"arg", Len(call.args)>>>>, <<after + 1, amount>>>>),
       "A sign  B cancel  L< R> hex")

\* The rows below an argument's label, when the first of them is `row`.
ArgRows(a, row) ==
  CASE a.type = "address" -> SlotAddress(a.value)
    [] a.type = "bool"    -> <<<<"bool", a.value[32]>>>>
    [] a.type = "deadline" -> <<format_abi_uint(a.type, a.value), <<"unix timestamp">>>>
    [] a.type \in {"uint8", "uint256"} -> <<format_abi_uint(a.type, a.value)>>
    [] a.type = "bytes32" -> <<<<"bytes", SubSeq(a.value, 1, 9)>>,
                               <<"bytes", SubSeq(a.value, 10, 12), LastN(a.value, 4)>>>>
    [] a.type = "address[]" ->
         LET hops == Min({a.count, 3, Max({17 - row, 0})}) IN
         <<<<"hops", a.count>>>>
         \o [j \in 1..hops |-> <<"hop", Slice(a.value, 32 * j - 19, 3), Slice(a.value, 32 * j - 1, 2)>>]
         \o (IF a.count > 3 /\ row + 1 + hops < 18 THEN <<<<"more hops">>>> ELSE <<>>)
    [] a.type \in {"bytes", "sub-bytes", "bytes[]"} -> <<<<"count", a.type, a.count>>>>
render_one_arg(a, i, row) == From(row, <<<<"arg", i>>>> \o ArgRows(a, row + 1))

\* What is drawn of the arguments so far: the rows, the next one free, and whether
\* there was no more room.  Argument i comes below them.
ArgLine(s, a, i) ==
  LET new == render_one_arg(a, i, s.row)
  IN IF s.full THEN s
     ELSE IF s.row >= 17
     THEN [s EXCEPT !.full = TRUE, !.rows = @ \o <<<<s.row, <<"more args">>>>>>]
     ELSE [s EXCEPT !.rows = @ \o new, !.row = @ + Len(new)]
ArgLines(args, top) ==
  LET run[i \in 0..Len(args)] == IF i = 0 THEN [rows |-> <<>>, row |-> top, full |-> FALSE]
                                 ELSE ArgLine(run[i - 1], args[i], i)
  IN run[Len(args)].rows

render_parsed_page(call) ==
  LET top == IF call.fn \in Drainers THEN 8 ELSE 4 IN
  Page("TX DATA",
    <<<<2, <<"function", call.fn>>>>>>
    \o (IF call.fn \in Drainers THEN <<<<5, <<"warning", call.fn>>>>>> ELSE <<>>)
    \o ArgLines(call.args, top),
    "A sign  B cancel  R> raw hex")

\* Hex page n, from 0.  A row shows the bytes from an offset on.
render_data_page(x, n) ==
  LET tx == x.tx
      lines == {l \in 0..DATA_LINES_PER_PAGE - 1 :
                  n * DATA_BYTES_PER_PAGE + l * DATA_BYTES_PER_LINE < Len(tx.data)}
      Off(l) == n * DATA_BYTES_PER_PAGE + l * DATA_BYTES_PER_LINE
  IN Page("TX DATA",
       <<<<2, <<"hex page", n, x.badge>>>>>>
       \o [k \in 1..Cardinality(lines) |->
             <<3 + k, <<"data", Off(k - 1), Min({DATA_BYTES_PER_LINE, Len(tx.data) - Off(k - 1)})>>>>],
       "A sign  B cancel  L< R> data")

\* What confirm_tx draws for cur_page.
TxPage(x, page) ==
  LET decoded == IF Understood(x) THEN 1 ELSE 0
  IN IF page = 0 THEN render_page0(x)
     ELSE IF page > decoded THEN render_data_page(x, page - 1 - decoded)
     ELSE IF x.badge = "PARSED" THEN render_parsed_page(x.call)
     ELSE IF x.call.fn \in {"deposit", "withdraw"} THEN render_wrap_unwrap_page(x)
     ELSE render_decoded_page(x)

(*************************************************************************)
(* Text pages: personal_sign and the text of typed data.  A row shows a  *)
(* stretch of the text, <<"text", first, last>>.                         *)
(*************************************************************************)
TEXT_COLS_PER_LINE == 28
TEXT_LINES_PER_PAGE == 16
MAX_TEXT_PAGES == 32
Newline == 10

\* Mutant of TextLine: a newline right after a full line is taken with it.
NewlineSwallowed(text, i) ==
  LET stop == Min({i + TEXT_COLS_PER_LINE - 1, Len(text)})
      breaks == {j \in i..Min({stop + 1, Len(text)}) : text[j] = Newline}
  IN IF breaks # {} THEN [last |-> Min(breaks) - 1, next |-> Min(breaks) + 1]
     ELSE [last |-> stop, next |-> stop + 1]

\* The line that starts at i: its last character, and where the next starts.
TextLine(text, i) ==
  LET stop == Min({i + TEXT_COLS_PER_LINE - 1, Len(text)})
      breaks == {j \in i..stop : text[j] = Newline}
  IN IF breaks # {} THEN [last |-> Min(breaks) - 1, next |-> Min(breaks) + 1]
     ELSE [last |-> stop, next |-> stop + 1]

\* The rows drawn from offset i on, and the offset the page ends at.
render_text_page(text, i) ==
  LET start[n \in 0..TEXT_LINES_PER_PAGE] ==
        IF n = 0 THEN i
        ELSE LET at == start[n - 1] IN IF at > Len(text) THEN at ELSE TextLine(text, at).next
      lines == {n \in 1..TEXT_LINES_PER_PAGE : start[n - 1] <= Len(text)}
  IN [rows |-> From(3, [n \in 1..Cardinality(lines) |->
                          <<"text", start[n - 1], TextLine(text, start[n - 1]).last>>]),
      next |-> start[TEXT_LINES_PER_PAGE]]

\* Where the pages after the first one start, counted character by character.
later_offsets(text, max_pages) ==
  LET after[i \in 0..Len(text)] ==
        IF i = 0 THEN [col |-> 0, line |-> 0, more |-> <<>>]
        ELSE LET s == after[i - 1]
                 full == text[i] = Newline \/ s.col + 1 = TEXT_COLS_PER_LINE
                 line == IF full THEN s.line + 1 ELSE s.line
                 turn == line = TEXT_LINES_PER_PAGE
             IN [col |-> IF full THEN 0 ELSE s.col + 1,
                 line |-> IF turn THEN 0 ELSE line,
                 more |-> IF turn /\ Len(s.more) + 1 < max_pages
                          THEN Append(s.more, i + 1) ELSE s.more]
  IN after[Len(text)].more
compute_page_offsets(text, max_pages) == <<1>> \o later_offsets(text, max_pages)

render_personal_page(text, offsets, page) ==
  Page("PERSONAL SIGN",
       <<<<2, <<"page", page + 1, Len(offsets)>>>>>> \o render_text_page(text, offsets[page + 1]).rows,
       "A sign  B cancel  L< R> msg")

\* The text's pages, and after them one with the two hashes.
blind_npages(offsets) == Len(offsets) + 1
render_typed_page(text, offsets, page, parsed_available) ==
  Page("TYPED DATA",
       <<<<2, <<"page", page + 1, blind_npages(offsets)>>>>>>
       \o (IF page = Len(offsets)
           THEN <<<<8, <<"domainSep">>>>, <<10, <<"msgHash">>>>, <<13, <<"verified", parsed_available>>>>>>
           ELSE render_text_page(text, offsets[page + 1]).rows),
       "A B  L< R>  L+R parse")

(*************************************************************************)
(* The parsed view of typed data.                                        *)
(*************************************************************************)
PARSED_MAX_LINES == 96
PARSED_LINES_PER_PAGE == 13
PARSED_LINE_CHARS == 29

short_hex_into(s) == IF Len(s) <= 4 THEN <<"hex", s>> ELSE <<"hex", Head4(s), LastN(s, 2)>>
format_atomic_value(base, s) ==
  CASE base = "string" -> IF Len(s) < 21 THEN <<"string", s>> ELSE <<"string~", SubSeq(s, 1, 20)>>
    [] base = "bool"   -> <<"bool", s[1]>>
    [] base \in {"bytes", "address"} \cup LeftAligned -> short_hex_into(s)
    [] OTHER ->
         IF Len(s) >= 16 /\ \A i \in DOMAIN s : s[i] = 255 THEN <<"max">>
         ELSE IF Len(Canonical(s)) <= 8 THEN <<"dec", Canonical(s)>>
         ELSE short_hex_into(LastN(s, Min({16, Len(s)})))

\* A line is <<depth, name, value, n>>: the first n characters of "name: value" below
\* so many levels of indent, or of "name:" for a title.
Title == <<"title">>
\* The digits of a number: how often ten divides it before nothing is left.
u64_to_str(s) ==
  LET Tenth(q) ==
        LET part[i \in 0..Len(q)] ==      \* <<quotient, remainder>> of the first i bytes
              IF i = 0 THEN <<<<>>, 0>>
              ELSE LET r == 256 * part[i - 1][2] + q[i]
                   IN <<Append(part[i - 1][1], r \div 10), r % 10>>
        IN Canonical(part[Len(q)][1])
      left[k \in 0..20] == IF k = 0 THEN s ELSE Tenth(left[k - 1])
  IN Max({1} \cup {k \in 1..20 : left[k - 1] # <<>>})
\* The characters of a value; a string ends at its first zero byte.
Quoted(s, quotes) ==
  LET nul == {i \in DOMAIN s : s[i] = 0} IN IF nul = {} THEN Len(s) + quotes ELSE Min(nul)
ValueChars(v) ==
  CASE v[1] = "string"  -> Quoted(v[2], 2)
    [] v[1] = "string~" -> Quoted(v[2], 3)
    [] v[1] = "bool"    -> IF v[2] = 0 THEN 5 ELSE 4
    [] v[1] = "dec"     -> u64_to_str(v[2])
    [] v[1] = "hex"     -> IF Len(v) = 2 THEN 2 + 2 * Len(v[2]) ELSE 16
    [] v[1] = "max"     -> 14
    [] v[1] = "bad"     -> 5
LineChars(name, v) == IF v = Title THEN Len(name) + 1 ELSE Len(name) + 2 + ValueChars(v)

push_line(depth, name, v) ==
  <<depth, name, v, Min({LineChars(name, v), PARSED_LINE_CHARS - Min({2 * depth, 10})})>>
BlankLine == <<0, "", <<>>, 0>>

\* The lines of the first k fields of the struct of type i at `at`, and where their
\* values end.  A struct at EIP712_MAX_DEPTH gives no lines, and its values are not
\* skipped.
FieldLines(t, child, depth, i, at) ==
  LET upTo[k \in 0..Len(t.types[i].fields)] ==
        IF k = 0 THEN [lines |-> <<>>, at |-> at]
        ELSE LET s == upTo[k - 1]
                 f == t.types[i].fields[k]
                 e == Extent(t.values, f.type[1], s.at)
             IN IF IsStruct(t.types, f.type)
                THEN LET nested == child[StructOf(t.types, f.type)][s.at]
                     IN [lines |-> s.lines \o (<<push_line(depth, f.name, Title)>> \o nested.lines),
                         at |-> nested.at]
                ELSE IF e[1] = Bad
                THEN [lines |-> s.lines \o <<push_line(depth, f.name, <<"bad">>)>>, at |-> s.at]
                ELSE [lines |-> s.lines \o <<push_line(depth, f.name,
                        format_atomic_value(f.type[1], Slice(t.values, e[1], e[2])))>>,
                      at |-> After(e)]
  IN upTo
LineLevel(t, child, depth) ==
  [i \in DOMAIN t.types |-> [at \in 0..Len(t.values) + 1 |->
     FieldLines(t, child, depth, i, at)[Len(t.types[i].fields)]]]
\* left as in walk_struct.
walk_struct_for_lines(t) ==
  LET walk[left \in 1..EIP712_MAX_DEPTH] ==
        IF left = 1 THEN [i \in DOMAIN t.types |-> [at \in 0..Len(t.values) + 1 |-> [lines |-> <<>>, at |-> at]]]
        ELSE LineLevel(t, walk[left - 1], EIP712_MAX_DEPTH + 1 - left)
  IN walk[EIP712_MAX_DEPTH]

\* The lines of the struct of type i whose values start at `at`, in a view with
\* a title for each part.
LinesOf(t, i, at) == walk_struct_for_lines(t)[i][at].lines
Listed(t, message) ==
  LET all == <<push_line(0, "Domain", Title)>> \o LinesOf(t, 1, 1)
             \o <<BlankLine, push_line(0, t.types[t.primary].name, Title)>> \o message
  IN [lines |-> Slice(all, 1, PARSED_MAX_LINES), overflow |-> Len(all) > PARSED_MAX_LINES]

\* Mutant of build_parsed_lines: the message is read from the start of the
\* values.
FromTheTop(t) == Listed(t, LinesOf(t, t.primary, 1))

build_parsed_lines(t) == Listed(t, LinesOf(t, t.primary, DomainEnd(t)))

parsed_total_pages(b) == (Len(b.lines) + PARSED_LINES_PER_PAGE - 1) \div PARSED_LINES_PER_PAGE

\* b is what build_parsed_lines left in g_parsed_lines.
render_typed_parsed_page(t, b, page) ==
  LET first == page * PARSED_LINES_PER_PAGE + 1
      shown == Slice(b.lines, first, PARSED_LINES_PER_PAGE)
  IN Page("TYPED DATA OK",
       <<<<2, <<"primary", t.types[t.primary].name, extract_domain_fields(t)>>>>,
         <<3, <<"page", page + 1, parsed_total_pages(b)>>>>>>
       \o From(5, [k \in DOMAIN shown |-> <<"line", first + k - 1, shown[k]>>])
       \o (IF b.overflow /\ page + 1 = parsed_total_pages(b)
           THEN <<<<18, <<"tree truncated">>>>>> ELSE <<>>),
       "A B  L< R>  L+R blind")

(*************************************************************************)
(* The screens of a single page.                                         *)
(*************************************************************************)
render_typed_mismatch_page == Page("MISMATCH!", <<<<13, <<"ds host">>>>, <<14, <<"ds ours">>>>>>,
                                   "B cancel  (A disabled)")
render_wrong_chain_screen(active, got) ==
  Page("TX REJECTED",
       From(7, <<<<"locked", active>>, <<"locked id", active>>>>)
       \o From(11, <<<<"got", chains_lookup(got)>>, <<"got id", LowWord(got)>>>>),
       "press any key to dismiss")
MalformedPage == Page("CONFIRM TX", <<<<6, <<"malformed">>>>>>, "any key continue")
ConnectPage(origin) ==
  Page("CONNECT REQ", From(8, <<<<"origin", Slice(origin, 1, 22)>>,
                                <<"origin", Slice(origin, 23, 22)>>>>), "A allow  B deny")
=============================================================================
