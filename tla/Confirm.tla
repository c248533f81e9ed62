------------------------------- MODULE Confirm -------------------------------
(* The requests the cartridge asks its user about, from the complete        *)
(* payload to the answer: the handlers of state.c and the screens of        *)
(* confirm.c, one action per iteration of their loops, that is per poll of  *)
(* the keys.                                                                *)
(*                                                                          *)
(* A request is                                                             *)
(*   [op "tx", raw, tlv, sent]    raw is the RLP, tlv the block after it    *)
(*                                (<<>> for PROTO_TX_RLP), sent <<the       *)
(*                                transaction the host encoded>>, or <<>>   *)
(*                                for bytes that encode none;               *)
(*   [op "typed", ds, mh, text, tree, chain, forged, asked]                 *)
(*                                tree <<a tree>> or <<>>; chain <<the      *)
(*                                chain id of the domain>> or <<>>; forged  *)
(*                                when ds and mh are not the tree's; asked  *)
(*                                <<the typed data the dApp gave>>, or <<>> *)
(*                                for a tree that the extension never sent; *)
(*   [op "personal", text]  and  [op "connect", origin].                    *)
(* sent, chain, forged and asked are the host's side of the story: only     *)
(* properties read them.                                                    *)
EXTENDS ConfirmPages, HostTx, HostTyped

CONSTANTS Requests,
          Chains,      \* the networks, in the selector's order
          NameOrder,   \* the struct names, in memcmp's order
          WIPE_HOLD_FRAMES

VARIABLES lock,     \* g_active_chain_idx, as the network's chain id
          req,      \* the request being asked, NoRequest when there is none
          dlg,      \* the loop that runs: a screen's, "release", or "idle"
          doc,      \* what the handler decoded
          page,     \* cur_page, cur, cur_blind
          ppage,    \* cur_parsed
          parsed,   \* show_parsed
          combo,    \* lr_combo_state_t
          held,     \* the keys at the last input_poll
          screen,
          answer,   \* the answer to the last request
          seen,     \* history: the rows of content shown for this request
          hold,     \* held_frames of the wipe screen
          alone,    \* history: the polls up to now that saw A alone on that screen
          paired    \* history: of L and R, those that came down with, or met, the other
pages == <<page, ppage, parsed, combo, screen, seen, paired>>
vars == <<lock, req, dlg, doc, pages, held, answer, hold, alone>>

\* The table of chains.c, and the seconds a wipe takes.
ASSUME ChainsAssumption == Chains \in Seq(Seq(0..255)) /\ Chains # <<>>
ASSUME HoldAssumption == WIPE_HOLD_FRAMES \in Nat \ {0}
\* Payloads and texts are made of bytes, and fit the cartridge's buffer.
ASSUME PayloadAssumption ==
  \A r \in Requests :
    /\ r.op = "tx" => r.raw \in Seq(Byte) /\ Len(r.raw) <= PROTO_TX_RLP_MAX
    /\ r.op \in {"typed", "personal"} => r.text \in Seq(Byte)

NoRequest == [op |-> "none"]
NoCombo == [l |-> FALSE, r |-> FALSE, used |-> FALSE]
Shoulders == {"L", "R"}
\* The keys that may be down at a poll (bound: SELECT alone or with A; the
\* other keys of the console do nothing here, or what L and R do).
KeysDown == SUBSET {"A", "B", "L", "R"} \cup {{"select"}, {"select", "A"}}

ContentRows(s) ==
  {s[r] : r \in {q \in Row : s[q] # <<>> /\ s[q][1] \in {"data", "text", "line"}}}

\* The page a dialog's loop draws: what it needs to know, and the page.
Known == [dlg |-> dlg, req |-> req, doc |-> doc, n |-> page, pn |-> ppage, parsed |-> parsed]
PageOf(s) ==
  CASE s.dlg = "tx"       -> TxPage(s.doc, s.n)
    [] s.dlg = "personal" -> render_personal_page(s.req.text, s.doc.offsets, s.n)
    [] s.dlg = "typed" /\ s.parsed  -> render_typed_parsed_page(s.req.tree[1], s.doc.lines, s.pn)
    [] s.dlg = "typed" /\ ~s.parsed ->
         render_typed_page(s.req.text, s.doc.offsets, s.n, s.doc.status = "match")
    [] s.dlg = "mismatch" -> render_typed_mismatch_page
    [] s.dlg = "connect"  -> ConnectPage(s.req.origin)
    [] s.dlg = "notice"   -> s.doc.page
CurrentPage == PageOf(Known)

\* The new page is drawn over what was on the screen, and looked at.
DrawOver(before, looked) ==
  \E s \in {Known'} : /\ screen' = Draw(before, PageOf(s))
                       /\ seen' = looked \cup ContentRows(screen')

LastPage == CASE dlg = "tx"       -> extra_pages(doc)
              [] dlg = "personal" -> Len(doc.offsets) - 1
              [] dlg = "typed"    -> blind_npages(doc.offsets) - 1
              [] OTHER            -> 0

Init ==
  /\ lock \in ToSet(Chains)
  /\ req = NoRequest /\ dlg = "idle" /\ doc = <<>> /\ answer = "none"
  /\ page = 0 /\ ppage = 0 /\ parsed = FALSE /\ combo = NoCombo
  /\ held = {} /\ screen = text_clear /\ seen = {} /\ paired = {}
  /\ hold = 0 /\ alone = 0

(*************************************************************************)
(* A payload is complete.  input_poll does not run while it arrives, so  *)
(* the first poll of the dialog compares with the last one before it.    *)
(*************************************************************************)
Open(r, d, x) ==
  /\ req' = r /\ dlg' = d /\ doc' = x /\ answer' = "none"
  /\ page' = 0 /\ ppage' = 0 /\ combo' = NoCombo /\ paired' = {}
  /\ parsed' = (d = "typed" /\ x.status = "match")
  /\ UNCHANGED <<lock, held, hold, alone>>
Notify(r, p, verdict) == Open(r, "notice", [page |-> p, verdict |-> verdict])

handle_tx_rlp_common(r) ==
  /\ r.op = "tx"
  /\ \E tx \in {eth_tx_decode(r.raw)}, block \in {tx_meta_parse(r.tlv)} :
       \/ ~tx.ok /\ Notify(r, MalformedPage, "cancel")
       \/ /\ tx.ok /\ tx.chainid # lock
          /\ Notify(r, render_wrong_chain_screen(lock, tx.chainid), "reject_chain")
       \/ /\ tx.ok /\ tx.chainid = lock
          /\ Open(r, "tx", TxDoc(tx, IF block.ok THEN block.meta ELSE NoMeta))

\* A tree that does not verify at all is dropped: the text is shown as it is.
TypedStatus(r) == IF r.tree = <<>> THEN "error"
                  ELSE eip712_parse_and_verify(NameOrder, r.tree[1], r.ds, r.mh)
\* The host's side of a request's story: what was sent is what its encoder made of
\* a transaction, as are any bytes that decode to a listed chain; the tree, and its
\* hashes unless they are forged, are made of what was asked; any other tree names
\* the chain that can be read in it, and hashes are forged when they are not those of
\* a tree that parses.
TreeParses(r) ==
  r.tree # <<>> /\ WellFormed(r.tree[1]) /\ TypeStringsFit(NameOrder, r.tree[1])
Story(r) ==
  /\ r.op = "tx" =>
       /\ r.sent # <<>> => IsTx(r.sent[1]) /\ r.raw = encodeTx(r.sent[1])
       /\ \A tx \in {eth_tx_decode(r.raw)} : tx.ok /\ tx.chainid \in ToSet(Chains) => r.sent # <<>>
  /\ r.op = "typed" =>
       /\ r.asked # <<>> =>
            \E names \in {[i \in DOMAIN r.tree[1].types |-> r.tree[1].types[i].name]} :
            \E td \in {r.asked[1]} :
              /\ IsTypedData(td) /\ IsTypeOrder(names, td)
              /\ r.tree = <<serializeTypedDataTLV(names, td)>> /\ r.chain = ChainOf(td)
              /\ ~r.forged =>
                   /\ r.ds = hashStruct(NameOrder, td.types, "EIP712Domain", td.domain)
                   /\ r.mh = hashStruct(NameOrder, td.types, td.primaryType, td.message)
       /\ r.asked = <<>> =>
            r.chain = IF TreeParses(r) THEN extract_domain_fields(r.tree[1]) ELSE <<>>
       /\ r.forged => /\ TreeParses(r)
                      /\ <<our_domain_separator(NameOrder, r.tree[1]),
                           our_message_hash(NameOrder, r.tree[1])>> # <<r.ds, r.mh>>
ASSUME StoryAssumption == \A r \in Requests : Story(r)

handle_typed_data(r) ==
  /\ r.op = "typed"
  /\ \E status \in {TypedStatus(r)} :
     \E id \in {IF status = "error" THEN <<>> ELSE extract_domain_fields(r.tree[1])} :
       \/ /\ id \notin {<<>>, <<lock>>}
          /\ Notify(r, render_wrong_chain_screen(lock, id[1]), "reject_chain")
       \/ id \in {<<>>, <<lock>>} /\ status = "mismatch" /\ Open(r, "mismatch", <<>>)
       \/ /\ id \in {<<>>, <<lock>>} /\ status # "mismatch"
          /\ Open(r, "typed",
                  [status |-> status,
                   offsets |-> compute_page_offsets(r.text, MAX_TEXT_PAGES - 1),
                   lines |-> IF status = "match" THEN build_parsed_lines(r.tree[1]) ELSE <<>>])

handle_personal_sign(r) ==
  /\ r.op = "personal"
  /\ Open(r, "personal", [offsets |-> compute_page_offsets(r.text, MAX_TEXT_PAGES)])
handle_connect_request(r) == r.op = "connect" /\ Open(r, "connect", <<>>)

Receive(r) ==
  /\ dlg = "idle"
  /\ \/ handle_tx_rlp_common(r) \/ handle_typed_data(r)
     \/ handle_personal_sign(r) \/ handle_connect_request(r)
  /\ DrawOver(text_clear, {})

(*************************************************************************)
(* The loops.  keys are the keys down at this poll.                      *)
(*************************************************************************)
\* Mutant of Pressed: input_held in place of input_pressed.
StillDown(keys) == keys

Pressed(keys) == keys \ held

\* The handler sends its answer; READY, or a loop that waits for the keys to
\* be let go, comes next.
Answer(what, next) ==
  /\ answer' = what /\ dlg' = next
  /\ req' = NoRequest /\ doc' = <<>> /\ page' = 0 /\ ppage' = 0 /\ parsed' = FALSE
  /\ combo' = NoCombo /\ paired' = {} /\ screen' = text_clear /\ seen' = {}
  /\ UNCHANGED <<lock, hold, alone>>

\* What A and B do, A first.  eth_sign_hash may fail: then A ends in CANCEL.
Attempt == {"signature", "cancel"}
Decide(keys, yes, next) ==
  \/ "A" \in Pressed(keys) /\ \E what \in yes : Answer(what, next)
  \/ "A" \notin Pressed(keys) /\ "B" \in Pressed(keys) /\ Answer("cancel", next)
Stay == UNCHANGED <<lock, req, dlg, doc, pages, answer, hold, alone>>
Undecided(keys) == Pressed(keys) \cap {"A", "B"} = {}

\* R, then L; a page that is drawn again looks the same.
PageAfter(keys) ==
  LET right == IF "R" \in Pressed(keys) /\ page < LastPage THEN page + 1 ELSE page
  IN IF "L" \in Pressed(keys) /\ right > 0 THEN right - 1 ELSE right
Show(n, pn, p) ==
  /\ page' = n /\ ppage' = pn /\ parsed' = p
  /\ UNCHANGED <<lock, req, dlg, doc, answer, hold, alone>>
  /\ \/ <<page, ppage, parsed>>' = <<page, ppage, parsed>> /\ UNCHANGED <<screen, seen>>
     \/ <<page, ppage, parsed>>' # <<page, ppage, parsed>> /\ DrawOver(screen, seen)
Turn(keys) ==
  Undecided(keys) /\ Show(PageAfter(keys), ppage, parsed) /\ UNCHANGED <<combo, paired>>

confirm_tx(keys) ==
  dlg = "tx" /\ (Decide(keys, Attempt, "idle") \/ Turn(keys))
confirm_personal_sign(keys) ==
  dlg = "personal" /\ (Decide(keys, Attempt, "release") \/ Turn(keys))
confirm_connect_request(keys) ==
  dlg = "connect" /\ (Decide(keys, {"connect_ok"}, "release") \/ (Undecided(keys) /\ Stay))
mismatch_loop(keys) ==
  /\ dlg = "mismatch"
  /\ \/ "B" \in Pressed(keys) /\ Answer("cancel", "release")
     \/ "B" \notin Pressed(keys) /\ Stay

\* Mutant of lr_combo_step: the toggle does not remember that it was done.
EachFrameToggles(s, pressed, keys, released) ==
  LET l == s.l \/ "L" \in pressed
      r == s.r \/ "R" \in pressed
      down == Shoulders \subseteq keys
  IN CASE down -> [state |-> NoCombo, act |-> "toggle"]
       [] ~down /\ "L" \in released /\ l -> [state |-> [NoCombo EXCEPT !.r = r], act |-> "left"]
       [] ~down /\ ~("L" \in released /\ l) /\ "R" \in released /\ r ->
            [state |-> [NoCombo EXCEPT !.l = l], act |-> "right"]
       [] OTHER -> [state |-> [l |-> l, r |-> r, used |-> FALSE], act |-> "none"]

\* The detector that tells L+R from L and from R.
lr_combo_step(s, pressed, keys, released) ==
  LET l == s.l \/ "L" \in pressed
      r == s.r \/ "R" \in pressed
      used == s.used /\ keys \cap Shoulders # {}
  IN CASE Shoulders \subseteq keys ->
            [state |-> [NoCombo EXCEPT !.used = TRUE], act |-> IF s.used THEN "none" ELSE "toggle"]
       [] ~(Shoulders \subseteq keys) /\ "L" \in released /\ l ->
            [state |-> [l |-> FALSE, r |-> r, used |-> used], act |-> "left"]
       [] ~(Shoulders \subseteq keys) /\ ~("L" \in released /\ l) /\ "R" \in released /\ r ->
            [state |-> [l |-> l, r |-> FALSE, used |-> used], act |-> "right"]
       [] OTHER -> [state |-> [l |-> l, r |-> r, used |-> used], act |-> "none"]

\* Mutant of Move: nothing stops at the last page.
PastTheEnd(act, n, last) == CASE act = "left" /\ n > 0 -> n - 1
                              [] act = "right"         -> n + 1
                              [] OTHER                 -> n

\* One page left or right, if there is one.
Move(act, n, last) == CASE act = "left" /\ n > 0     -> n - 1
                        [] act = "right" /\ n < last -> n + 1
                        [] OTHER                     -> n

TurnOrToggle(keys) ==
  LET step == lr_combo_step(combo, Pressed(keys), keys, held \ keys) IN
  /\ Undecided(keys)
  /\ combo' = step.state
  /\ paired' = IF Shoulders \subseteq keys THEN Shoulders ELSE paired \cap keys
  /\ Show(IF parsed THEN page ELSE Move(step.act, page, LastPage),
          IF parsed THEN Move(step.act, ppage, parsed_total_pages(doc.lines) - 1) ELSE ppage,
          parsed # (step.act = "toggle"))

confirm_typed_data(keys) ==
  /\ dlg = "typed"
  /\ \/ Decide(keys, Attempt, "release")
     \/ doc.status = "match" /\ TurnOrToggle(keys)
     \/ doc.status # "match" /\ Turn(keys)

\* A notice goes away at any key, or after 90 frames.
notice_loop(keys) ==
  /\ dlg = "notice"
  /\ \/ Answer(doc.verdict, "idle")
     \/ Pressed(keys) = {} /\ Stay

\* The loops that wait for every key to be let go, and what comes after.
AfterRelease == [release |-> "idle", clear |-> "wipe", erase |-> "wiped"]
wait_release(keys) ==
  /\ dlg \in DOMAIN AfterRelease
  /\ dlg' = IF keys = {} THEN AfterRelease[dlg] ELSE dlg
  /\ UNCHANGED <<lock, req, doc, pages, answer, hold, alone>>

\* Mutant of confirm_wipe_wallet: letting go of A does not start over.
HoldAddsUp(keys) ==
  /\ dlg = "wipe"
  /\ \/ keys \notin {{}, {"A"}} /\ dlg' = "release" /\ hold' = 0
     \/ keys = {"A"} /\ hold + 1 < WIPE_HOLD_FRAMES /\ hold' = hold + 1 /\ UNCHANGED dlg
     \/ keys = {"A"} /\ hold + 1 >= WIPE_HOLD_FRAMES /\ dlg' = "erase" /\ hold' = 0
     \/ keys = {} /\ UNCHANGED <<dlg, hold>>
  /\ alone' = IF keys = {"A"} THEN alone + 1 ELSE 0
  /\ UNCHANGED <<lock, req, doc, pages, answer>>

\* The wipe screen: A held down, alone, for WIPE_HOLD_FRAMES polls.
confirm_wipe_wallet(keys) ==
  /\ dlg = "wipe"
  /\ \/ keys \notin {{}, {"A"}} /\ dlg' = "release" /\ hold' = 0
     \/ keys = {"A"} /\ hold + 1 < WIPE_HOLD_FRAMES /\ hold' = hold + 1 /\ UNCHANGED dlg
     \/ keys = {"A"} /\ hold + 1 >= WIPE_HOLD_FRAMES /\ dlg' = "erase" /\ hold' = 0
     \/ keys = {} /\ hold' = 0 /\ UNCHANGED dlg
  /\ alone' = IF keys = {"A"} THEN alone + 1 ELSE 0
  /\ UNCHANGED <<lock, req, doc, pages, answer>>

\* "Power-cycle the GBA to re-enter your 12 words."
PowerCycle ==
  /\ dlg = "wiped" /\ dlg' = "idle" /\ held' = {} /\ alone' = 0
  /\ UNCHANGED <<lock, req, doc, pages, answer, hold>>

\* READY: L and R move the lock, on a press, and while held whenever the
\* cooldown has run out.
Neighbour(keys) ==
  LET i == CHOOSE k \in DOMAIN Chains : Chains[k] = lock
      n == Len(Chains)
  IN Chains[IF "L" \in keys THEN ((i + n - 2) % n) + 1 ELSE (i % n) + 1]
sign_loop(keys) ==
  /\ dlg = "idle" /\ alone' = 0
  /\ \/ "select" \in Pressed(keys) /\ dlg' = "clear" /\ UNCHANGED lock
     \/ /\ "select" \notin Pressed(keys) /\ UNCHANGED dlg
        /\ \/ /\ Pressed(keys) \cap Shoulders # {}
              /\ \E nav \in {Pressed(keys), keys} : lock' = Neighbour(nav)
           \/ /\ Pressed(keys) \cap Shoulders = {} /\ keys \cap Shoulders # {}
              /\ lock' \in {lock, Neighbour(keys)}
           \/ keys \cap Shoulders = {} /\ UNCHANGED lock
  /\ UNCHANGED <<req, doc, pages, answer, hold>>

Frame(keys) ==
  /\ held' = keys
  /\ \/ confirm_tx(keys) \/ confirm_personal_sign(keys) \/ confirm_connect_request(keys)
     \/ confirm_typed_data(keys) \/ mismatch_loop(keys) \/ notice_loop(keys)
     \/ wait_release(keys) \/ confirm_wipe_wallet(keys) \/ sign_loop(keys)

Next == (\E r \in Requests : Receive(r)) \/ (\E keys \in KeysDown : Frame(keys)) \/ PowerCycle
Spec == Init /\ [][Next]_vars

(*************************************************************************)
(* Properties.                                                           *)
(*************************************************************************)
\* Types; and the page numbers the loops index page_offsets and
\* g_parsed_lines with are those of pages that exist.
TypeOK ==
  /\ lock \in ToSet(Chains) /\ req \in Requests \cup {NoRequest}
  /\ dlg \in {"idle", "tx", "typed", "mismatch", "personal", "connect", "notice", "wipe", "wiped"}
         \cup DOMAIN AfterRelease
  /\ answer \in {"none", "signature", "connect_ok", "cancel", "reject_chain"}
  /\ combo \in [l : BOOLEAN, r : BOOLEAN, used : BOOLEAN] /\ held \in KeysDown
  /\ parsed \in BOOLEAN /\ paired \subseteq Shoulders /\ DOMAIN screen = Row
  /\ hold \in 0..WIPE_HOLD_FRAMES - 1 /\ alone \in 0..WIPE_HOLD_FRAMES
  /\ page \in 0..LastPage
  /\ ppage \in 0..(IF dlg = "typed" /\ doc.status = "match"
                   THEN parsed_total_pages(doc.lines) - 1 ELSE 0)

\* Typed data whose type strings fit in the cartridge's buffer for them. Nothing on
\* the host's side asks for it.
TypesFit(order, td) ==
  \A n \in findDependencies(td.types, "EIP712Domain")
             \cup findDependencies(td.types, td.primaryType) :
    TypeStringSize(encodeType(order, td.types, n)) <= EIP712_TYPESTR_MAX
TooLong(r) == r.asked # <<>> /\ ~TypesFit(NameOrder, r.asked[1])

\* What may be granted, told by the host's side of the request: a
\* transaction that was encoded for the locked chain; typed data whose
\* hashes are those of its tree and whose domain names no other chain, or
\* cannot be read because the type strings are too long.
Permitted(r, l) ==
  CASE r.op = "tx"    -> r.sent # <<>> /\ r.sent[1].chainid = l
    [] r.op = "typed" -> ~r.forged /\ (r.chain \in {<<>>, <<l>>} \/ TooLong(r))
    [] OTHER          -> TRUE
Outcome == CASE answer \in {"signature", "connect_ok"} -> "yes"
             [] answer \in {"cancel", "reject_chain"}  -> "no"
             [] OTHER                                  -> "none"
Promise == INSTANCE Consent WITH
  asking <- req, answer <- Outcome, Keys <- KeysDown, Locks <- ToSet(Chains), MayBeGranted <- Permitted

\* The screens keep the promise of Consent: one answer per request, never
\* yes without a fresh press of A or against the lock, through every
\* sequence of pages, chords, notices and keys held over from one dialog
\* to the next (state.c handle_*, confirm.c loops).
ConsentKept == Promise!Spec

\* What eth_tx_decode hands to the pages is, field by field, the transaction
\* the host encoded.
DecodedIsSent ==
  dlg = "tx" => \A f \in DOMAIN req.sent[1] : doc.tx[f] = req.sent[1][f]

\* When page 0 says DECODED the page of the call leaves nothing out: the
\* selector and the part of each argument that is shown (20 bytes of an
\* address, one bit of a bool) give back every byte of the data.
DecodedCallIsTheData ==
  dlg = "tx" /\ doc.badge = "DECODED" =>
    LET c == doc.call
        Hidden(type) == CASE type = "address" -> 12 [] type = "bool" -> 31 [] OTHER -> 0
        Rebuilt(a, i) == IF i <= Hidden(a.type) THEN 0 ELSE a.value[i]
    IN doc.tx.data =
         [k \in 1..4 + 32 * Len(c.args) |->
            IF k <= 4 THEN Selector[c.fn][k]
            ELSE Rebuilt(c.args[((k - 5) \div 32) + 1], ((k - 5) % 32) + 1)]

\* The comment in abi_selectors.c has a drainer highlighted: an unlimited
\* approve, a setApprovalForAll(true) or a permit that is understood at all
\* has its warning on the page of the call, and is marked on page 0.
DrainerWarned ==
  dlg = "tx" /\ Understood(doc) =>
    LET c == doc.call
        drains == \/ c.fn = "approve" /\ c.args[2].value = MaxUint
                  \/ c.fn = "setApprovalForAll" /\ c.args[2].value[32] = 1
                  \/ c.fn = "permit"
    IN drains => /\ page = 0 => \E r \in Row : screen[r] = <<"call", c.fn, TRUE>>
                 /\ page = 1 => \E r \in Row : screen[r] = <<"warning", c.fn>>

\* Who stands on the last page of the hex bytes, or of the parsed view, has
\* had every byte, or every line, on the screen on the way there, whatever
\* was drawn over what.
ContentSeen ==
  /\ dlg = "tx" /\ page = LastPage =>
       \A i \in 0..Len(doc.tx.data) - 1 :
         \E row \in seen : row[1] = "data" /\ i \in row[2]..row[2] + row[3] - 1
  /\ dlg = "typed" /\ doc.status = "match" =>
       (ppage = parsed_total_pages(doc.lines) - 1 =>
          \A k \in DOMAIN doc.lines.lines : <<"line", k, doc.lines.lines[k]>> \in seen)

\* compute_page_offsets and render_text_page wrap the text alike: each page
\* ends where the next one starts, and the last one ends with the text,
\* unless the text has more pages than the table of offsets.
NoByteSkipped ==
  dlg \in {"personal", "typed"} =>
    LET n == Len(doc.offsets) IN
    /\ \A p \in 1..n - 1 : render_text_page(req.text, doc.offsets[p]).next = doc.offsets[p + 1]
    /\ n < MAX_TEXT_PAGES - 1 =>
         render_text_page(req.text, doc.offsets[n]).next = Len(req.text) + 1

\* Typed data that the extension put into a tree and hashed is recognised: the
\* cartridge never shows MISMATCH to the user of an honest host, and shows the
\* unverified text only when a type string is longer than EIP712_TYPESTR_MAX, and then
\* always (serializeTypedDataTLV and hashStruct against eip712.c).
HonestHostMatches ==
  req.op = "typed" /\ req.asked # <<>> /\ ~req.forged =>
    IF TooLong(req) THEN dlg = "typed" /\ doc.status = "error"
    ELSE \/ dlg = "typed" /\ doc.status = "match"
         \/ dlg = "notice" /\ req.chain # <<lock>>

\* The lines that list what was asked, taken from it and not from its bytes.
AskedFields(types, data, child, name, path, depth) ==
  [k \in DOMAIN types[name] |->
     LET f == types[name][k]
         here == Append(path, f.name)
     IN IF f.type[1] \in DOMAIN types
        THEN <<push_line(depth, f.name, Title)>> \o child[f.type[1]][here]
        ELSE <<push_line(depth, f.name,
               format_atomic_value(f.type[1], ValueBytes(f.type[1], data[here])))>>]
AskedLevel(types, data, child, depth) ==
  [name \in DOMAIN types |-> [path \in Paths |->
     FlattenSeq(AskedFields(types, data, child, name, path, depth))]]
Asked(types, data) ==
  LET asked[left \in 1..EIP712_MAX_DEPTH] ==
        IF left = 1 THEN [name \in DOMAIN types |-> [path \in Paths |-> <<>>]]
        ELSE AskedLevel(types, data, asked[left - 1], EIP712_MAX_DEPTH + 1 - left)
  IN asked[EIP712_MAX_DEPTH]
AskedLines(td) ==
  <<push_line(0, "Domain", Title)>> \o Asked(td.types, td.domain)["EIP712Domain"][<<>>]
  \o <<BlankLine, push_line(0, td.primaryType, Title)>>
  \o Asked(td.types, td.message)[td.primaryType][<<>>]

\* The parsed view has a line for every value the dApp asked to have signed, in
\* their order, as many as PARSED_MAX_LINES, and says when there are more. A line
\* begins as its field and value do, and ends after PARSED_LINE_CHARS characters:
\* of the name and the value, what is beyond them is not listed, and nothing says
\* so (structs nested less than EIP712_MAX_DEPTH deep).
ParsedIsAsked ==
  dlg = "typed" /\ doc.status = "match" /\ req.asked # <<>> =>
    \E td \in {req.asked[1]} :
      Nested(td, EIP712_MAX_DEPTH - 1) =>
        /\ doc.lines.lines = Slice(AskedLines(td), 1, PARSED_MAX_LINES)
        /\ doc.lines.overflow = (Len(AskedLines(td)) > PARSED_MAX_LINES)

\* L and R together are one gesture (lr_combo_step): they change the view
\* once while either stays down, and a page is turned only by letting go of
\* a key that never met the other.
ChordTogglesOnce ==
  [][dlg = "typed" /\ dlg' = "typed" /\ doc.status = "match" =>
       /\ parsed' # parsed => paired = {} /\ paired' = Shoulders
       /\ <<page, ppage>>' # <<page, ppage>> =>
            (held \ held') \cap (Shoulders \ paired) # {}]_vars

\* Keys are erased only after A was seen alone at WIPE_HOLD_FRAMES polls in a
\* row, all of them on the wipe screen and after the keys that opened it, and
\* what A did before, were let go ("Hold A for 3 seconds to confirm").
WipeIsHeld == [][dlg' = "erase" /\ dlg # "erase" => alone' >= WIPE_HOLD_FRAMES]_vars

\* confirm.c lays its pages out on the rows between the title bar and the
\* status bar: whatever a page draws can be read once the page is complete.
DrawnIsShown ==
  dlg \notin {"idle", "wipe", "wiped"} \cup DOMAIN AfterRelease =>
    Visible(screen, CurrentPage) = DOMAIN CurrentPage.rows
=============================================================================
