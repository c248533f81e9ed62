---------------------------- MODULE ConfirmProofs ----------------------------
(* Theorems about the confirmation screens, for any requests, any table of  *)
(* networks and any hold time: types and page numbers, the wipe screen, the *)
(* L+R chord, and the refinement of Consent.                                *)
EXTENDS Screens, TypedProofs

(*************************************************************************)
(* The inductive invariant.                                              *)
(*************************************************************************)
Dialogs == {"tx", "typed", "mismatch", "personal", "connect", "notice"}
Waiting == {"idle", "wipe", "wiped"} \cup DOMAIN AfterRelease

\* A request is open exactly while one of its screens runs.
AskInv ==
  /\ dlg \in Waiting => req = NoRequest
  /\ dlg \in Dialogs => req \in Requests
  /\ dlg \in {"tx", "personal", "connect"} => req.op = dlg
  /\ dlg \in {"typed", "mismatch"} => req.op = "typed"
  /\ dlg = "notice" => req.op \in {"tx", "typed"} /\ answer = "none"

\* What the screens work with is what the handler made of the request.
TypedDoc(r) ==
  [status |-> TypedStatus(r),
   offsets |-> compute_page_offsets(r.text, MAX_TEXT_PAGES - 1),
   lines |-> IF TypedStatus(r) = "match" THEN build_parsed_lines(r.tree[1]) ELSE <<>>]
IsTxDoc(r, d) ==
  /\ eth_tx_decode(r.raw).ok /\ eth_tx_decode(r.raw).chainid = lock
  /\ \E meta \in {NoMeta, tx_meta_parse(r.tlv).meta} : d = TxDoc(eth_tx_decode(r.raw), meta)
OnLock(r) == (IF TypedStatus(r) = "error" THEN <<>> ELSE extract_domain_fields(r.tree[1])) \in {<<>>, <<lock>>}
DocInv ==
  /\ dlg = "tx" => IsTxDoc(req, doc)
  /\ dlg = "typed" => doc = TypedDoc(req) /\ doc.status # "mismatch" /\ OnLock(req)
  /\ dlg = "personal" => doc = [offsets |-> compute_page_offsets(req.text, MAX_TEXT_PAGES)]
  /\ dlg = "mismatch" => TypedStatus(req) = "mismatch"
  /\ dlg = "notice" => doc.verdict \in {"cancel", "reject_chain"} /\ (req.op = "typed" => ~OnLock(req))
  /\ parsed => dlg = "typed" /\ doc.status = "match"

\* The hold counter is the number of polls that saw A alone.
HoldInv ==
  /\ dlg # "wipe" => hold = 0
  /\ dlg = "wipe" => hold = alone
  /\ dlg = "clear" => alone = 0

\* The chord detector knows which of L and R has met the other.
ChordInv ==
  dlg = "typed" /\ doc.status = "match" =>
    /\ paired \subseteq held
    /\ paired # {} => combo.used
    /\ combo.l => "L" \notin paired
    /\ combo.r => "R" \notin paired

ConfirmInv == TypeOK /\ AskInv /\ DocInv /\ HoldInv /\ ChordInv

(*************************************************************************)
(* What a frame does.                                                    *)
(*************************************************************************)
Verdicts == {"signature", "connect_ok", "cancel", "reject_chain"}
Yes == {"signature", "connect_ok"}

\* A request is answered; yes only by a fresh press of A on a screen that asks.
Answered(keys) ==
  /\ dlg \in Dialogs /\ held' = keys
  /\ \E what \in Verdicts, next \in {"idle", "release"} :
       /\ Answer(what, next)
       /\ what \in Yes => "A" \in keys \ held /\ dlg \in {"tx", "typed", "personal", "connect"}
Stayed(keys) == dlg \in {"mismatch", "connect", "notice"} /\ held' = keys /\ Stay
Turned(keys) ==
  /\ dlg \in {"tx", "typed", "personal"} /\ ~(dlg = "typed" /\ doc.status = "match")
  /\ held' = keys /\ Turn(keys)
Toggled(keys) == dlg = "typed" /\ doc.status = "match" /\ held' = keys /\ TurnOrToggle(keys)
Waited(keys) ==
  /\ dlg \in Waiting /\ held' = keys
  /\ wait_release(keys) \/ confirm_wipe_wallet(keys) \/ sign_loop(keys)

\* What A and B do is an answer: yes only after a press of A.
LEMMA DecideAnswers ==
  ASSUME NEW keys, NEW yes \in SUBSET Verdicts, NEW next \in {"idle", "release"},
         dlg \in {"tx", "typed", "personal", "connect"}, held' = keys, Decide(keys, yes, next)
  PROVE  Answered(keys)
<1>1. dlg \in Dialogs
  BY DEF Dialogs
<1>2. CASE "A" \in Pressed(keys) /\ \E what \in yes : Answer(what, next)
  BY <1>1, <1>2 DEF Answered, Pressed
<1>3. CASE Answer("cancel", next)
  <2>1. "cancel" \in Verdicts /\ "cancel" \notin Yes
    BY DEF Verdicts, Yes
  <2> QED BY <1>1, <1>3, <2>1 DEF Answered
<1> QED BY <1>2, <1>3 DEF Decide

\* Whichever loop runs, a poll is one of these.
LEMMA FrameKinds ==
  ASSUME NEW keys, DocInv, Frame(keys)
  PROVE  Answered(keys) \/ Stayed(keys) \/ Turned(keys) \/ Toggled(keys) \/ Waited(keys)
<1>1. held' = keys
  BY DEF Frame
<1>2. Attempt \in SUBSET Verdicts /\ {"connect_ok"} \in SUBSET Verdicts /\ "cancel" \in Verdicts \ Yes
  BY DEF Attempt, Verdicts, Yes
<1>3. CASE confirm_tx(keys)
  BY <1>1, <1>2, <1>3, DecideAnswers DEF confirm_tx, Turned
<1>4. CASE confirm_personal_sign(keys)
  BY <1>1, <1>2, <1>4, DecideAnswers DEF confirm_personal_sign, Turned
<1>5. CASE confirm_connect_request(keys)
  BY <1>1, <1>2, <1>5, DecideAnswers DEF confirm_connect_request, Stayed, Dialogs
<1>6. CASE confirm_typed_data(keys)
  BY <1>1, <1>2, <1>6, DecideAnswers DEF confirm_typed_data, Turned, Toggled
<1>7. CASE mismatch_loop(keys)
  <2>1. dlg \in Dialogs
    BY <1>7 DEF mismatch_loop, Dialogs
  <2> QED BY <1>1, <1>2, <1>7, <2>1 DEF mismatch_loop, Answered, Stayed
<1>8. CASE notice_loop(keys)
  <2>1. dlg \in Dialogs /\ doc.verdict \in Verdicts \ Yes
    BY <1>8 DEF notice_loop, Dialogs, DocInv, Verdicts, Yes
  <2> QED BY <1>1, <1>8, <2>1 DEF notice_loop, Answered, Stayed
<1>9. CASE wait_release(keys) \/ confirm_wipe_wallet(keys) \/ sign_loop(keys)
  BY <1>1, <1>9 DEF wait_release, confirm_wipe_wallet, sign_loop, Waited, Waiting
<1> QED BY <1>3, <1>4, <1>5, <1>6, <1>7, <1>8, <1>9 DEF Frame

(*************************************************************************)
(* Pages there are.                                                      *)
(*************************************************************************)
\* A transaction has a page 0 and perhaps more.
LEMMA DataPages == ASSUME NEW x PROVE extra_pages(x) \in Nat
<1>1. Len(x.tx.data) \in Nat
  OBVIOUS
<1>2. data_total_pages(Len(x.tx.data)) \in Nat
  <2>1. DATA_BYTES_PER_PAGE = 80
    BY DEF DATA_BYTES_PER_PAGE, DATA_BYTES_PER_LINE, DATA_LINES_PER_PAGE
  <2>2. \A n \in Nat : (n + 80 - 1) \div 80 \in Nat
    OBVIOUS
  <2> QED BY <1>1, <2>1, <2>2 DEF data_total_pages
<1> QED BY <1>2 DEF extra_pages

\* A text has a page, also when it is empty.
LEMMA TextPages ==
  ASSUME NEW text, NEW m
  PROVE  /\ Len(compute_page_offsets(text, m)) \in Nat
         /\ Len(compute_page_offsets(text, m)) >= 1
  BY DEF compute_page_offsets

\* The parsed view has the title of the domain, hence a line and a page.
LEMMA ParsedPages ==
  ASSUME NEW t
  PROVE  LET b == build_parsed_lines(t) IN
         DOMAIN b.lines = 1..Len(b.lines) /\ parsed_total_pages(b) \in Nat \ {0}
<1> DEFINE message == LinesOf(t, t.primary, DomainEnd(t))
           all == <<push_line(0, "Domain", Title)>> \o LinesOf(t, 1, 1)
                  \o <<BlankLine, push_line(0, t.types[t.primary].name, Title)>> \o message
           m == Min({1 + PARSED_MAX_LINES - 1, Len(all)})
<1>1. Len(all) \in Nat /\ Len(all) >= 1
  OBVIOUS
<1>2. build_parsed_lines(t).lines = SubSeq(all, 1, m)
  BY DEF build_parsed_lines, Listed, Slice
<1> HIDE DEF all
<1>3. m \in {96, Len(all)} /\ m <= Len(all)
  <2>1. 1 + PARSED_MAX_LINES - 1 = 96
    BY DEF PARSED_MAX_LINES
  <2>4. m = Min({96, Len(all)})
    BY ONLY <2>1 DEF m
  <2> HIDE DEF m
  <2>2. CASE 96 <= Len(all)
    <3>1. Min({96, Len(all)}) = 96
      BY <1>1, <2>2 DEF Min
    <3> QED BY <2>2, <2>4, <3>1
  <2>3. CASE 96 > Len(all)
    <3>1. Min({96, Len(all)}) = Len(all)
      BY <1>1, <2>3 DEF Min
    <3> QED BY <2>4, <3>1, <1>1
  <2> QED BY <1>1, <2>2, <2>3
<1> HIDE DEF m
<1>4. m \in Nat /\ m >= 1
  BY <1>1, <1>3
<1>5. Len(SubSeq(all, 1, m)) = m /\ DOMAIN SubSeq(all, 1, m) = 1..m
  BY <1>1, <1>3, <1>4
<1> QED BY <1>2, <1>4, <1>5 DEF parsed_total_pages, PARSED_LINES_PER_PAGE

\* The last page of the parsed view.
LastParsed == IF dlg = "typed" /\ doc.status = "match" THEN parsed_total_pages(doc.lines) - 1 ELSE 0
\* There is a first page, and a page of the parsed view.
LEMMA PageBounds == DocInv => LastPage \in Nat /\ LastParsed \in Nat
<1> SUFFICES ASSUME DocInv PROVE LastPage \in Nat /\ LastParsed \in Nat
  OBVIOUS
<1>1. CASE dlg = "tx"
  BY <1>1, DataPages DEF LastPage, LastParsed
<1>2. CASE dlg = "personal"
  <2>1. doc.offsets = compute_page_offsets(req.text, MAX_TEXT_PAGES)
    BY <1>2 DEF DocInv
  <2> QED BY <1>2, <2>1, TextPages DEF LastPage, LastParsed
<1>3. CASE dlg = "typed"
  <2>1. doc = TypedDoc(req)
    BY <1>3 DEF DocInv
  <2>2. /\ doc.offsets = compute_page_offsets(req.text, MAX_TEXT_PAGES - 1)
        /\ doc.status = "match" => doc.lines = build_parsed_lines(req.tree[1])
    BY <2>1 DEF TypedDoc
  <2>3. LastPage \in Nat
    BY <1>3, <2>2, TextPages DEF LastPage, blind_npages
  <2>4. LastParsed \in Nat
    <3>1. CASE doc.status = "match"
      <4>1. parsed_total_pages(doc.lines) \in Nat \ {0}
        BY <2>2, <3>1, ParsedPages
      <4> QED BY <1>3, <3>1, <4>1 DEF LastParsed
    <3>2. CASE doc.status # "match"
      BY <3>2 DEF LastParsed
    <3> QED BY <3>1, <3>2
  <2> QED BY <2>3, <2>4
<1>4. CASE dlg \notin {"tx", "personal", "typed"}
  BY <1>4 DEF LastPage, LastParsed
<1> QED BY <1>1, <1>2, <1>3, <1>4

\* A loop without pages stands on page 0.
LEMMA NoPages == ASSUME dlg \notin {"tx", "personal", "typed"} PROVE LastPage = 0 /\ LastParsed = 0
  BY DEF LastPage, LastParsed

\* The same, of the loop that runs next.
LEMMA NoPagesAfter == ASSUME dlg' \notin {"tx", "personal", "typed"} PROVE LastPage' = 0 /\ LastParsed' = 0
  BY DEF LastPage, LastParsed

\* What is drawn covers the rows of the screen.
LEMMA DrawnRows == ASSUME NEW s, DOMAIN s = Row, NEW p PROVE DOMAIN Draw(s, p) = Row
  BY DEF Draw, text_statusbar, text_at, newRow

\* PageBounds of the state a step leads to.
LEMMA PageBoundsAfter == ASSUME DocInv' PROVE LastPage' \in Nat /\ LastParsed' \in Nat
<1>1. DocInv' => (LastPage \in Nat /\ LastParsed \in Nat)'
  BY PageBounds, PTL
<1> QED BY <1>1

(*************************************************************************)
(* The invariant, action by action.                                      *)
(*************************************************************************)
\* The invariant starts out true.
LEMMA InitHolds == ASSUME Init PROVE ConfirmInv
<1>1. dlg = "idle" /\ page = 0 /\ ppage = 0 /\ req = NoRequest /\ parsed = FALSE
  BY DEF Init
<1>2. TypeOK
  <2>1. LastPage = 0 /\ LastParsed = 0
    BY <1>1, NoPages
  <2>2. combo \in [l : BOOLEAN, r : BOOLEAN, used : BOOLEAN]
    BY DEF Init, NoCombo
  <2>3. held \in KeysDown
    BY DEF Init, KeysDown
  <2>4. DOMAIN screen = Row
    BY DEF Init, text_clear
  <2>5. hold \in 0..WIPE_HOLD_FRAMES - 1 /\ alone \in 0..WIPE_HOLD_FRAMES
    BY HoldAssumption DEF Init
  <2>6. page \in 0..LastPage /\ ppage \in 0..LastParsed
    BY <1>1, <2>1
  <2>7. /\ lock \in ToSet(Chains) /\ req \in Requests \cup {NoRequest}
        /\ dlg \in {"idle"} /\ answer \in {"none"} /\ parsed \in BOOLEAN /\ paired = {}
    BY DEF Init
  <2> QED BY <2>2, <2>3, <2>4, <2>5, <2>6, <2>7 DEF TypeOK, LastParsed
<1>3. AskInv /\ DocInv /\ HoldInv /\ ChordInv
  BY <1>1 DEF Init, AskInv, Dialogs, DocInv, HoldInv, ChordInv
<1> QED BY <1>2, <1>3 DEF ConfirmInv

\* What a payload that is complete opens.
Opens(r, d, x) ==
  \/ /\ d = "notice" /\ x.verdict \in {"cancel", "reject_chain"}
     /\ r.op \in {"tx", "typed"} /\ (r.op = "typed" => ~OnLock(r))
  \/ d = "tx" /\ r.op = "tx" /\ IsTxDoc(r, x)
  \/ d = "typed" /\ r.op = "typed" /\ x = TypedDoc(r) /\ x.status # "mismatch" /\ OnLock(r)
  \/ d = "mismatch" /\ r.op = "typed" /\ TypedStatus(r) = "mismatch"
  \/ /\ d = "personal" /\ r.op = "personal"
     /\ x = [offsets |-> compute_page_offsets(r.text, MAX_TEXT_PAGES)]
  \/ d = "connect" /\ r.op = "connect"
\* Every handler opens the request in one of these ways.
LEMMA ReceiveOpens ==
  ASSUME NEW r, Receive(r)
  PROVE  dlg = "idle" /\ \E d, x : Open(r, d, x) /\ Opens(r, d, x)
<1>1. dlg = "idle"
  BY DEF Receive
<1>2. ASSUME NEW p, NEW v \in {"cancel", "reject_chain"}, r.op \in {"tx", "typed"}, r.op = "typed" => ~OnLock(r), Notify(r, p, v)
      PROVE  \E d, x : Open(r, d, x) /\ Opens(r, d, x)
  BY <1>2 DEF Notify, Opens
<1>3. CASE handle_tx_rlp_common(r)
  <2> DEFINE tx == eth_tx_decode(r.raw)
             block == tx_meta_parse(r.tlv)
             meta == IF block.ok THEN block.meta ELSE NoMeta
  <2>1. r.op = "tx"
    BY <1>3 DEF handle_tx_rlp_common
  <2>2. \/ Notify(r, MalformedPage, "cancel")
        \/ Notify(r, render_wrong_chain_screen(lock, tx.chainid), "reject_chain")
        \/ tx.ok /\ tx.chainid = lock /\ Open(r, "tx", TxDoc(tx, meta))
    BY <1>3 DEF handle_tx_rlp_common
  <2>3. CASE tx.ok /\ tx.chainid = lock /\ Open(r, "tx", TxDoc(tx, meta))
    <3>1. IsTxDoc(r, TxDoc(tx, meta))
      BY <2>3 DEF IsTxDoc
    <3>2. Opens(r, "tx", TxDoc(tx, meta))
      BY <2>1, <3>1 DEF Opens
    <3> QED BY <1>1, <2>3, <3>2
  <2> QED BY <1>1, <1>2, <2>1, <2>2, <2>3
<1>4. CASE handle_typed_data(r)
  <2> DEFINE status == TypedStatus(r)
             id == IF status = "error" THEN <<>> ELSE extract_domain_fields(r.tree[1])
             d == [status |-> status,
                   offsets |-> compute_page_offsets(r.text, MAX_TEXT_PAGES - 1),
                   lines |-> IF status = "match" THEN build_parsed_lines(r.tree[1]) ELSE <<>>]
  <2>1. r.op = "typed"
    BY <1>4 DEF handle_typed_data
  <2>2. \/ id \notin {<<>>, <<lock>>} /\ Notify(r, render_wrong_chain_screen(lock, id[1]), "reject_chain")
        \/ id \in {<<>>, <<lock>>} /\ status = "mismatch" /\ Open(r, "mismatch", <<>>)
        \/ id \in {<<>>, <<lock>>} /\ status # "mismatch" /\ Open(r, "typed", d)
    BY <1>4 DEF handle_typed_data
  <2>3. d = TypedDoc(r) /\ d.status = status /\ (id \in {<<>>, <<lock>>} <=> OnLock(r))
    BY DEF TypedDoc, OnLock
  <2>6. status = TypedStatus(r)
    OBVIOUS
  <2> HIDE DEF d, id, status
  <2>4. CASE id \in {<<>>, <<lock>>} /\ status = "mismatch" /\ Open(r, "mismatch", <<>>)
    <3>1. Opens(r, "mismatch", <<>>)
      BY <2>1, <2>4, <2>6 DEF Opens
    <3> QED BY <1>1, <2>4, <3>1
  <2>5. CASE id \in {<<>>, <<lock>>} /\ status # "mismatch" /\ Open(r, "typed", d)
    <3>1. Opens(r, "typed", d)
      BY <2>1, <2>3, <2>5 DEF Opens
    <3> QED BY <1>1, <2>5, <3>1
  <2> QED BY <1>1, <1>2, <2>1, <2>2, <2>3, <2>4, <2>5
<1>5. CASE handle_personal_sign(r)
  <2> DEFINE x == [offsets |-> compute_page_offsets(r.text, MAX_TEXT_PAGES)]
  <2>1. r.op = "personal" /\ Open(r, "personal", x)
    BY <1>5 DEF handle_personal_sign
  <2>2. Opens(r, "personal", x)
    BY <2>1 DEF Opens
  <2> QED BY <1>1, <2>1, <2>2
<1>6. CASE handle_connect_request(r)
  <2>1. r.op = "connect" /\ Open(r, "connect", <<>>)
    BY <1>6 DEF handle_connect_request
  <2>2. Opens(r, "connect", <<>>)
    BY <2>1 DEF Opens
  <2> QED BY <1>1, <2>1, <2>2
<1> QED BY <1>1, <1>3, <1>4, <1>5, <1>6 DEF Receive

\* A request that is opened keeps the invariant.
LEMMA ReceiveKeeps == ASSUME ConfirmInv, NEW r \in Requests, Receive(r) PROVE ConfirmInv'
<1>1. PICK d, x : Open(r, d, x) /\ Opens(r, d, x)
  BY ReceiveOpens
<1>2. /\ dlg = "idle" /\ req' = r /\ dlg' = d /\ doc' = x /\ answer' = "none"
      /\ page' = 0 /\ ppage' = 0 /\ combo' = NoCombo /\ paired' = {}
      /\ parsed' = (d = "typed" /\ x.status = "match")
      /\ lock' = lock /\ held' = held /\ hold' = hold /\ alone' = alone
  BY <1>1, ReceiveOpens DEF Open
<1>3. d \in Dialogs
  BY <1>1 DEF Opens, Dialogs
<1>4. AskInv'
  BY <1>1, <1>2, <1>3 DEF Opens, AskInv, Dialogs, Waiting, AfterRelease
<1>5. DocInv'
  <2>1. IsTxDoc(r, x) => IsTxDoc(r, x)'
    BY <1>2 DEF IsTxDoc
  <2>2. OnLock(r)' = OnLock(r) /\ TypedStatus(r)' = TypedStatus(r)
    BY <1>2 DEF OnLock, TypedStatus
  <2> QED BY <1>1, <1>2, <2>1, <2>2 DEF Opens, DocInv, Dialogs
<1>6. HoldInv'
  BY <1>2, <1>3 DEF HoldInv, ConfirmInv, Dialogs
<1>7. ChordInv'
  BY <1>2 DEF ChordInv, NoCombo
<1>8. TypeOK'
  <2>1. page' \in 0..LastPage' /\ ppage' \in 0..LastParsed'
    BY <1>2, <1>5, PageBoundsAfter
  <2>2. DOMAIN screen' = Row
    <3>1. \E p : screen' = Draw(text_clear, p)
      BY DEF Receive, DrawOver
    <3>2. DOMAIN text_clear = Row
      BY DEF text_clear
    <3> QED BY <3>1, <3>2, DrawnRows
  <2>3. combo' \in [l : BOOLEAN, r : BOOLEAN, used : BOOLEAN] /\ paired' \subseteq Shoulders
    BY <1>2 DEF NoCombo
  <2>4. parsed' \in BOOLEAN
    BY <1>2
  <2>5. /\ lock' \in ToSet(Chains) /\ held' \in KeysDown
        /\ hold' \in 0..WIPE_HOLD_FRAMES - 1 /\ alone' \in 0..WIPE_HOLD_FRAMES
    BY <1>2 DEF ConfirmInv, TypeOK
  <2>6. req' \in Requests \cup {NoRequest} /\ answer' = "none" /\ dlg' \in Dialogs
    BY <1>2, <1>3
  <2> QED BY <2>1, <2>2, <2>3, <2>4, <2>5, <2>6 DEF TypeOK, LastParsed, Dialogs
<1> QED BY <1>4, <1>5, <1>6, <1>7, <1>8 DEF ConfirmInv

\* After an answer the screens are as they are before a request.
LEMMA AnsweredKeeps == ASSUME ConfirmInv, NEW keys \in KeysDown, Answered(keys) PROVE ConfirmInv'
<1>1. /\ dlg \in Dialogs /\ held' = keys /\ dlg' \in {"idle", "release"} /\ answer' \in Verdicts
      /\ req' = NoRequest /\ doc' = <<>> /\ page' = 0 /\ ppage' = 0 /\ parsed' = FALSE
      /\ combo' = NoCombo /\ paired' = {} /\ screen' = text_clear
      /\ lock' = lock /\ hold' = hold /\ alone' = alone
  BY DEF Answered, Answer
<1>2. AskInv' /\ DocInv' /\ ChordInv'
  BY <1>1 DEF AskInv, DocInv, ChordInv, Dialogs
<1>3. HoldInv'
  BY <1>1 DEF ConfirmInv, HoldInv, Dialogs
<1>4. TypeOK'
  <2>1. page' \in 0..LastPage' /\ ppage' \in 0..LastParsed'
    BY <1>1, NoPagesAfter
  <2>2. DOMAIN screen' = Row
    BY <1>1 DEF text_clear
  <2>3. combo' \in [l : BOOLEAN, r : BOOLEAN, used : BOOLEAN]
    BY <1>1 DEF NoCombo
  <2>4. /\ lock' \in ToSet(Chains)
        /\ hold' \in 0..WIPE_HOLD_FRAMES - 1 /\ alone' \in 0..WIPE_HOLD_FRAMES
    BY <1>1 DEF ConfirmInv, TypeOK
  <2>5. answer' \in {"none", "signature", "connect_ok", "cancel", "reject_chain"}
    BY <1>1 DEF Verdicts
  <2>6. dlg' \in {"idle"} \cup DOMAIN AfterRelease
    BY <1>1 DEF AfterRelease
  <2> QED BY <1>1, <2>1, <2>2, <2>3, <2>4, <2>5, <2>6 DEF TypeOK, LastParsed
<1> QED BY <1>2, <1>3, <1>4 DEF ConfirmInv

\* The parts that do not look at the pages.
LEMMA SameDialog ==
  ASSUME ConfirmInv, UNCHANGED <<lock, req, dlg, doc, answer, hold, alone>>,
         parsed' => dlg = "typed" /\ doc.status = "match"
  PROVE  AskInv' /\ DocInv' /\ HoldInv' /\ LastPage' = LastPage /\ LastParsed' = LastParsed
<1>1. AskInv' /\ HoldInv'
  BY DEF ConfirmInv, AskInv, HoldInv
<1>2. DocInv'
  <2>1. IsTxDoc(req, doc) => IsTxDoc(req, doc)'
    BY DEF IsTxDoc
  <2>2. OnLock(req)' = OnLock(req)
    BY DEF OnLock
  <2>3. TypedDoc(req)' = TypedDoc(req) /\ TypedStatus(req)' = TypedStatus(req)
    BY DEF TypedDoc, TypedStatus
  <2> QED BY <2>1, <2>2, <2>3 DEF ConfirmInv, DocInv
<1>3. LastPage' = LastPage /\ LastParsed' = LastParsed
  BY DEF LastPage, LastParsed
<1> QED BY <1>1, <1>2, <1>3

\* A poll that decides nothing and shows the same page.
LEMMA StayedKeeps == ASSUME ConfirmInv, NEW keys \in KeysDown, Stayed(keys) PROVE ConfirmInv'
<1>1. /\ UNCHANGED <<lock, req, dlg, doc, answer, hold, alone>> /\ UNCHANGED pages /\ held' = keys
  BY DEF Stayed, Stay
<1>2. AskInv' /\ DocInv' /\ HoldInv' /\ LastPage' = LastPage /\ LastParsed' = LastParsed
  <2>1. parsed' => dlg = "typed" /\ doc.status = "match"
    BY <1>1 DEF pages, ConfirmInv, DocInv
  <2> QED BY <1>1, <2>1, SameDialog
<1>3. TypeOK'
  BY <1>1, <1>2 DEF pages, ConfirmInv, TypeOK, LastParsed
<1>4. ChordInv'
  BY <1>1 DEF Stayed, ChordInv
<1> QED BY <1>2, <1>3, <1>4 DEF ConfirmInv

\* One page further or back, or the same one.
LEMMA MoveStays ==
  ASSUME NEW act, NEW last \in Nat, NEW n \in 0..last PROVE Move(act, n, last) \in 0..last
  BY DEF Move
\* R and L stay within the pages.
LEMMA TurnStays == ASSUME LastPage \in Nat, page \in 0..LastPage, NEW keys PROVE PageAfter(keys) \in 0..LastPage
<1> DEFINE right == IF "R" \in Pressed(keys) /\ page < LastPage THEN page + 1 ELSE page
<1>1. right \in 0..LastPage
  OBVIOUS
<1>2. PageAfter(keys) = IF "L" \in Pressed(keys) /\ right > 0 THEN right - 1 ELSE right
  BY DEF PageAfter
<1> HIDE DEF right
<1> QED BY <1>1, <1>2

\* What Show leaves on the screen has all its rows.
LEMMA ShowKeepsRows ==
  ASSUME DOMAIN screen = Row, NEW n, NEW pn, NEW p, Show(n, pn, p)
  PROVE  /\ page' = n /\ ppage' = pn /\ parsed' = p /\ DOMAIN screen' = Row
         /\ UNCHANGED <<lock, req, dlg, doc, answer, hold, alone>>
<1>1. screen' = screen \/ \E q : screen' = Draw(screen, q)
  BY DEF Show, DrawOver
<1> QED BY <1>1, DrawnRows DEF Show

\* A poll that turns a page of the text or of the bytes keeps the invariant.
LEMMA TurnedKeeps == ASSUME ConfirmInv, NEW keys \in KeysDown, Turned(keys) PROVE ConfirmInv'
<1>1. /\ LastPage \in Nat /\ page \in 0..LastPage /\ DOMAIN screen = Row /\ ppage \in 0..LastParsed
      /\ dlg \in {"tx", "typed", "personal"} /\ ~(dlg = "typed" /\ doc.status = "match") /\ ~parsed
  BY PageBounds DEF ConfirmInv, TypeOK, LastParsed, Turned, DocInv
<1>2. /\ page' = PageAfter(keys) /\ ppage' = ppage /\ parsed' = parsed /\ DOMAIN screen' = Row
      /\ UNCHANGED <<lock, req, dlg, doc, answer, hold, alone>>
      /\ combo' = combo /\ paired' = paired /\ held' = keys
  BY <1>1, ShowKeepsRows DEF Turned, Turn
<1>3. AskInv' /\ DocInv' /\ HoldInv' /\ LastPage' = LastPage /\ LastParsed' = LastParsed
  BY <1>1, <1>2, SameDialog
<1>4. page' \in 0..LastPage'
  BY <1>1, <1>2, <1>3, TurnStays
<1>5. TypeOK'
  BY <1>1, <1>2, <1>3, <1>4 DEF ConfirmInv, TypeOK, LastParsed
<1>6. ChordInv'
  BY <1>1, <1>2 DEF ChordInv
<1> QED BY <1>3, <1>5, <1>6 DEF ConfirmInv

\* What the chord detector does.
ToggleStep(keys) == lr_combo_step(combo, Pressed(keys), keys, held \ keys)
Combo == [l : BOOLEAN, r : BOOLEAN, used : BOOLEAN]
StepIs(step, l, r, used, act) ==
  step.state.l = l /\ step.state.r = r /\ step.state.used = used /\ step.act = act /\ step.state \in Combo
\* lr_combo_step, case by case.
LEMMA ComboCases ==
  ASSUME combo \in Combo, NEW keys
  PROVE  LET step == ToggleStep(keys)
             l == combo.l \/ "L" \in Pressed(keys)
             r == combo.r \/ "R" \in Pressed(keys)
             used == combo.used /\ keys \cap Shoulders # {} IN
         \/ /\ Shoulders \subseteq keys
            /\ StepIs(step, FALSE, FALSE, TRUE, IF combo.used THEN "none" ELSE "toggle")
         \/ ~(Shoulders \subseteq keys) /\ "L" \in held \ keys /\ l /\ StepIs(step, FALSE, r, used, "left")
         \/ ~(Shoulders \subseteq keys) /\ "R" \in held \ keys /\ r /\ StepIs(step, l, FALSE, used, "right")
         \/ ~(Shoulders \subseteq keys) /\ StepIs(step, l, r, used, "none")
<1> DEFINE step == ToggleStep(keys)
           l == combo.l \/ "L" \in Pressed(keys)
           r == combo.r \/ "R" \in Pressed(keys)
           used == combo.used /\ keys \cap Shoulders # {}
<1>1. l \in BOOLEAN /\ r \in BOOLEAN /\ used \in BOOLEAN
  OBVIOUS
<1>2. ASSUME NEW a \in BOOLEAN, NEW b \in BOOLEAN, NEW c \in BOOLEAN, NEW act,
             step = [state |-> [l |-> a, r |-> b, used |-> c], act |-> act]
      PROVE  StepIs(step, a, b, c, act)
  <2> HIDE DEF step
  <2>1. step.state = [l |-> a, r |-> b, used |-> c] /\ step.act = act
    BY <1>2
  <2>2. [l |-> a, r |-> b, used |-> c] \in Combo
    BY DEF Combo
  <2> QED BY <2>1, <2>2 DEF StepIs
<1>3. CASE Shoulders \subseteq keys
  <2>1. step = [state |-> [l |-> FALSE, r |-> FALSE, used |-> TRUE], act |-> IF combo.used THEN "none" ELSE "toggle"]
    BY <1>3 DEF ToggleStep, lr_combo_step, NoCombo
  <2>2. StepIs(step, FALSE, FALSE, TRUE, IF combo.used THEN "none" ELSE "toggle")
    BY <1>2, <2>1
  <2> QED BY <1>3, <2>2
<1>4. CASE ~(Shoulders \subseteq keys) /\ "L" \in held \ keys /\ l
  <2>1. step = [state |-> [l |-> FALSE, r |-> r, used |-> used], act |-> "left"]
    BY <1>4 DEF ToggleStep, lr_combo_step
  <2>2. StepIs(step, FALSE, r, used, "left")
    BY <1>1, <1>2, <2>1
  <2> QED BY <1>4, <2>2
<1>5. CASE ~(Shoulders \subseteq keys) /\ ~("L" \in held \ keys /\ l) /\ "R" \in held \ keys /\ r
  <2>1. step = [state |-> [l |-> l, r |-> FALSE, used |-> used], act |-> "right"]
    BY <1>5 DEF ToggleStep, lr_combo_step
  <2>2. StepIs(step, l, FALSE, used, "right")
    BY <1>1, <1>2, <2>1
  <2> QED BY <1>5, <2>2
<1>6. CASE ~(Shoulders \subseteq keys) /\ ~("L" \in held \ keys /\ l) /\ ~("R" \in held \ keys /\ r)
  <2>1. step = [state |-> [l |-> l, r |-> r, used |-> used], act |-> "none"]
    BY <1>6 DEF ToggleStep, lr_combo_step
  <2>2. StepIs(step, l, r, used, "none")
    BY <1>1, <1>2, <2>1
  <2> QED BY <1>6, <2>2
<1> QED BY <1>3, <1>4, <1>5, <1>6

\* One step of the loop that shows a tree that was verified.
LEMMA ToggledShows ==
  ASSUME TypeOK, NEW keys, Toggled(keys)
  PROVE  LET act == ToggleStep(keys).act IN
         /\ dlg = "typed" /\ doc.status = "match" /\ held' = keys /\ combo' = ToggleStep(keys).state
         /\ paired' = IF Shoulders \subseteq keys THEN Shoulders ELSE paired \cap keys
         /\ UNCHANGED <<lock, req, dlg, doc, answer, hold, alone>> /\ DOMAIN screen' = Row
         /\ page' = IF parsed THEN page ELSE Move(act, page, LastPage)
         /\ ppage' = IF parsed THEN Move(act, ppage, LastParsed) ELSE ppage
         /\ parsed' = (parsed # (act = "toggle"))
<1> DEFINE act == ToggleStep(keys).act
           n == IF parsed THEN page ELSE Move(act, page, LastPage)
           pn == IF parsed THEN Move(act, ppage, LastParsed) ELSE ppage
           p == parsed # (act = "toggle")
<1>1. dlg = "typed" /\ doc.status = "match" /\ held' = keys /\ TurnOrToggle(keys) /\ DOMAIN screen = Row
  BY DEF Toggled, TypeOK
<1>2. LastParsed = parsed_total_pages(doc.lines) - 1
  BY <1>1 DEF LastParsed
<1>3. /\ combo' = ToggleStep(keys).state /\ Show(n, pn, p)
      /\ paired' = IF Shoulders \subseteq keys THEN Shoulders ELSE paired \cap keys
  BY <1>1, <1>2 DEF TurnOrToggle, ToggleStep
<1> HIDE DEF n, pn, p
<1>4. /\ page' = n /\ ppage' = pn /\ parsed' = p /\ DOMAIN screen' = Row
      /\ UNCHANGED <<lock, req, dlg, doc, answer, hold, alone>>
  BY <1>1, <1>3, ShowKeepsRows
<1> QED BY <1>1, <1>3, <1>4 DEF n, pn, p

\* What the detector remembers of L and R agrees with what they did.
LEMMA ChordKept ==
  ASSUME TypeOK, ChordInv, NEW keys, Toggled(keys)
  PROVE  /\ combo' \in Combo /\ paired' \subseteq Shoulders /\ paired' \subseteq keys
         /\ paired' # {} => combo'.used
         /\ combo'.l => "L" \notin paired'
         /\ combo'.r => "R" \notin paired'
<1> DEFINE step == ToggleStep(keys)
           l == combo.l \/ "L" \in Pressed(keys)
           r == combo.r \/ "R" \in Pressed(keys)
           used == combo.used /\ keys \cap Shoulders # {}
<1>1. /\ dlg = "typed" /\ doc.status = "match" /\ combo' = step.state
      /\ paired' = IF Shoulders \subseteq keys THEN Shoulders ELSE paired \cap keys
  BY ToggledShows
<1>2. /\ combo \in Combo /\ paired \subseteq Shoulders /\ paired \subseteq held
      /\ paired # {} => combo.used
      /\ combo.l => "L" \notin paired
      /\ combo.r => "R" \notin paired
  BY <1>1 DEF TypeOK, ChordInv, Combo
<1>3. (l => "L" \notin paired) /\ (r => "R" \notin paired)
  BY <1>2 DEF Pressed
<1>4. paired \cap keys # {} => used
  BY <1>2
<1>5. \/ Shoulders \subseteq keys /\ StepIs(step, FALSE, FALSE, TRUE, IF combo.used THEN "none" ELSE "toggle")
      \/ ~(Shoulders \subseteq keys) /\ StepIs(step, FALSE, r, used, "left")
      \/ ~(Shoulders \subseteq keys) /\ StepIs(step, l, FALSE, used, "right")
      \/ ~(Shoulders \subseteq keys) /\ StepIs(step, l, r, used, "none")
  BY <1>2, ComboCases
<1> HIDE DEF step, l, r, used
<1>6. CASE Shoulders \subseteq keys
  BY <1>1, <1>5, <1>6 DEF StepIs
<1>7. CASE ~(Shoulders \subseteq keys)
  <2>1. /\ combo' \in Combo
        /\ combo'.l => l
        /\ combo'.r => r
        /\ combo'.used = used
    BY <1>1, <1>5, <1>7 DEF StepIs
  <2>2. paired' = paired \cap keys
    BY <1>1, <1>7
  <2> QED BY <1>2, <1>3, <1>4, <2>1, <2>2
<1> QED BY <1>6, <1>7

\* A poll that turns a page of a verified tree, or changes the view.
LEMMA ToggledKeeps == ASSUME ConfirmInv, NEW keys \in KeysDown, Toggled(keys) PROVE ConfirmInv'
<1> DEFINE act == ToggleStep(keys).act
<1>1. /\ dlg = "typed" /\ doc.status = "match" /\ held' = keys
      /\ UNCHANGED <<lock, req, dlg, doc, answer, hold, alone>> /\ DOMAIN screen' = Row
      /\ page' = IF parsed THEN page ELSE Move(act, page, LastPage)
      /\ ppage' = IF parsed THEN Move(act, ppage, LastParsed) ELSE ppage
      /\ parsed' \in BOOLEAN
  BY ToggledShows DEF ConfirmInv
<1> HIDE DEF act
<1>2. AskInv' /\ DocInv' /\ HoldInv' /\ LastPage' = LastPage /\ LastParsed' = LastParsed
  BY <1>1, SameDialog
<1>3. /\ combo' \in Combo /\ paired' \subseteq Shoulders /\ paired' \subseteq keys
      /\ paired' # {} => combo'.used
      /\ combo'.l => "L" \notin paired'
      /\ combo'.r => "R" \notin paired'
  BY ChordKept DEF ConfirmInv
<1>4. page' \in 0..LastPage' /\ ppage' \in 0..LastParsed'
  <2>1. LastPage \in Nat /\ LastParsed \in Nat /\ page \in 0..LastPage /\ ppage \in 0..LastParsed
    BY PageBounds DEF ConfirmInv, TypeOK, LastParsed
  <2> QED BY <1>1, <1>2, <2>1, MoveStays
<1>5. TypeOK'
  <2>1. /\ lock' \in ToSet(Chains) /\ req' \in Requests \cup {NoRequest} /\ dlg' = "typed"
        /\ answer' \in {"none", "signature", "connect_ok", "cancel", "reject_chain"}
        /\ hold' \in 0..WIPE_HOLD_FRAMES - 1 /\ alone' \in 0..WIPE_HOLD_FRAMES
    BY <1>1 DEF ConfirmInv, TypeOK
  <2> QED BY <1>1, <1>3, <1>4, <2>1 DEF TypeOK, LastParsed, Combo
<1>6. ChordInv'
  BY <1>1, <1>3 DEF ChordInv
<1> QED BY <1>2, <1>5, <1>6 DEF ConfirmInv

\* The selector stays within the table of networks.
LEMMA NeighbourIsChain == ASSUME NEW keys, lock \in ToSet(Chains) PROVE Neighbour(keys) \in ToSet(Chains)
<1> DEFINE i == CHOOSE k \in DOMAIN Chains : Chains[k] = lock
           n == Len(Chains)
           at == IF "L" \in keys THEN ((i + n - 2) % n) + 1 ELSE (i % n) + 1
<1>1. n \in Nat \ {0} /\ DOMAIN Chains = 1..n
  BY ChainsAssumption
<1>2. \E k \in DOMAIN Chains : Chains[k] = lock
  BY DEF ToSet
<1>3. i \in DOMAIN Chains
  BY <1>2
<1> HIDE DEF n, i
<1>4. i \in 1..n
  BY <1>1, <1>3
<1>5. at \in 1..n
  <2>1. i + n - 2 \in Int /\ i \in Int
    BY <1>1, <1>4
  <2>2. \A x \in Int : x % n \in 0..n - 1
    BY <1>1
  <2>3. (i + n - 2) % n \in 0..n - 1 /\ i % n \in 0..n - 1
    BY <2>1, <2>2
  <2> DEFINE a == (i + n - 2) % n
             b == i % n
  <2>4. at = (IF "L" \in keys THEN a + 1 ELSE b + 1)
    OBVIOUS
  <2>5. a \in 0..n - 1 /\ b \in 0..n - 1
    BY <2>3
  <2> HIDE DEF a, b, at
  <2>6. a + 1 \in 1..n /\ b + 1 \in 1..n
    BY <1>1, <2>5
  <2> QED BY <2>4, <2>6
<1> HIDE DEF at
<1>6. Chains[at] \in ToSet(Chains)
  BY <1>1, <1>5 DEF ToSet
<1>7. Neighbour(keys) = Chains[at]
  BY DEF Neighbour, at, i, n
<1> QED BY <1>6, <1>7

\* Between requests: READY, the wipe screen, and the waits for a release.
LEMMA WaitedShape ==
  ASSUME TypeOK, AskInv, HoldInv, NEW keys, Waited(keys)
  PROVE  /\ dlg \in Waiting /\ dlg' \in Waiting /\ held' = keys
         /\ UNCHANGED <<req, doc, pages, answer>>
         /\ lock' \in ToSet(Chains)
         /\ lock' # lock => dlg = "idle" /\ keys \cap Shoulders # {}
         /\ hold' \in 0..WIPE_HOLD_FRAMES - 1 /\ alone' \in 0..WIPE_HOLD_FRAMES
         /\ dlg' # "wipe" => hold' = 0
         /\ dlg' = "wipe" => hold' = alone'
         /\ dlg' = "clear" => alone' = 0
         /\ dlg' = "erase" /\ dlg # "erase" => alone' = WIPE_HOLD_FRAMES
<1>1. /\ dlg \in Waiting /\ held' = keys
      /\ lock \in ToSet(Chains) /\ hold \in 0..WIPE_HOLD_FRAMES - 1 /\ alone \in 0..WIPE_HOLD_FRAMES
      /\ dlg # "wipe" => hold = 0
      /\ dlg = "wipe" => hold = alone
      /\ dlg = "clear" => alone = 0
  BY DEF Waited, TypeOK, HoldInv
<1>2. CASE wait_release(keys)
  <2>1. /\ dlg \in {"release", "clear", "erase"} /\ UNCHANGED <<lock, req, doc, pages, answer, hold, alone>>
        /\ dlg' = dlg \/ (dlg = "release" /\ dlg' = "idle") \/ (dlg = "clear" /\ dlg' = "wipe")
           \/ (dlg = "erase" /\ dlg' = "wiped")
    BY <1>2 DEF wait_release, AfterRelease
  <2> QED BY <1>1, <2>1 DEF Waiting
<1>3. CASE confirm_wipe_wallet(keys)
  <2>1. /\ dlg = "wipe" /\ UNCHANGED <<lock, req, doc, pages, answer>>
        /\ alone' = IF keys = {"A"} THEN alone + 1 ELSE 0
        /\ \/ keys # {"A"} /\ dlg' \in {"release", "wipe"} /\ hold' = 0
           \/ keys = {"A"} /\ hold + 1 < WIPE_HOLD_FRAMES /\ hold' = hold + 1 /\ dlg' = "wipe"
           \/ keys = {"A"} /\ hold + 1 >= WIPE_HOLD_FRAMES /\ dlg' = "erase" /\ hold' = 0
    <3>1. {"A"} # {}
      OBVIOUS
    <3> QED BY <1>3, <3>1 DEF confirm_wipe_wallet
  <2>2. dlg' \in Waiting
    BY <2>1 DEF Waiting, AfterRelease
  <2> QED BY <1>1, <2>1, <2>2, HoldAssumption
<1>4. CASE sign_loop(keys)
  <2>1. dlg = "idle" /\ alone' = 0 /\ dlg' \in {"idle", "clear"} /\ UNCHANGED <<req, doc, pages, answer, hold>>
    BY <1>4 DEF sign_loop
  <2>2. lock' \in ToSet(Chains) /\ (lock' # lock => keys \cap Shoulders # {})
    <3>1. \/ lock' = lock
          \/ Pressed(keys) \cap Shoulders # {} /\ \E nav \in {Pressed(keys), keys} : lock' = Neighbour(nav)
          \/ keys \cap Shoulders # {} /\ lock' \in {lock, Neighbour(keys)}
      BY <1>4 DEF sign_loop
    <3>2. Pressed(keys) \subseteq keys
      BY DEF Pressed
    <3> QED BY <1>1, <3>1, <3>2, NeighbourIsChain
  <2>3. dlg' \in Waiting
    BY <2>1 DEF Waiting, AfterRelease
  <2> QED BY <1>1, <2>1, <2>2, <2>3, HoldAssumption
<1> QED BY <1>2, <1>3, <1>4 DEF Waited

\* A loop without a request, going to another one, keeps the invariant.
LEMMA WaitingKeeps ==
  ASSUME ConfirmInv, dlg \in Waiting, dlg' \in Waiting, held' \in KeysDown,
         UNCHANGED <<req, doc, pages, answer>>, lock' \in ToSet(Chains),
         hold' \in 0..WIPE_HOLD_FRAMES - 1, alone' \in 0..WIPE_HOLD_FRAMES, HoldInv'
  PROVE  ConfirmInv'
<1>1. dlg \notin Dialogs /\ dlg' \notin Dialogs
  BY DEF Waiting, Dialogs, AfterRelease
<1>2. ~parsed /\ page = 0 /\ ppage = 0
  <2>1. LastPage = 0 /\ LastParsed = 0
    BY <1>1, NoPages DEF Dialogs
  <2> QED BY <1>1, <2>1 DEF ConfirmInv, TypeOK, LastParsed, DocInv, Dialogs
<1>3. AskInv' /\ DocInv' /\ ChordInv'
  <2>1. req' = NoRequest /\ parsed' = parsed
    BY DEF ConfirmInv, AskInv, pages
  <2> QED BY <1>1, <1>2, <2>1 DEF AskInv, DocInv, ChordInv, Dialogs
<1>4. TypeOK'
  <2>1. LastPage' = 0 /\ LastParsed' = 0
    BY <1>1, NoPagesAfter DEF Dialogs
  <2>2. page' = 0 /\ ppage' = 0 /\ UNCHANGED <<combo, parsed, paired, screen, req, answer>>
    BY <1>2 DEF pages
  <2>3. page' \in 0..LastPage' /\ ppage' \in 0..LastParsed'
    BY <2>1, <2>2
  <2>4. dlg' \in {"idle", "wipe", "wiped"} \cup DOMAIN AfterRelease
    BY DEF Waiting
  <2> QED BY <2>2, <2>3, <2>4 DEF ConfirmInv, TypeOK, LastParsed
<1> QED BY <1>3, <1>4 DEF ConfirmInv

\* So do READY, the wipe screen and the loops that wait for the keys.
LEMMA WaitedKeeps == ASSUME ConfirmInv, NEW keys \in KeysDown, Waited(keys) PROVE ConfirmInv'
<1>1. /\ dlg \in Waiting /\ dlg' \in Waiting /\ held' \in KeysDown
      /\ UNCHANGED <<req, doc, pages, answer>> /\ lock' \in ToSet(Chains)
      /\ hold' \in 0..WIPE_HOLD_FRAMES - 1 /\ alone' \in 0..WIPE_HOLD_FRAMES
      /\ dlg' # "wipe" => hold' = 0
      /\ dlg' = "wipe" => hold' = alone'
      /\ dlg' = "clear" => alone' = 0
  BY WaitedShape DEF ConfirmInv
<1>2. HoldInv'
  BY <1>1 DEF HoldInv
<1> QED BY <1>1, <1>2, WaitingKeeps

\* So does the power cycle after a wipe.
LEMMA PowerCycleKeeps == ASSUME ConfirmInv, PowerCycle PROVE ConfirmInv'
<1>1. /\ dlg = "wiped" /\ dlg' = "idle" /\ held' = {} /\ alone' = 0
      /\ UNCHANGED <<lock, req, doc, pages, answer, hold>>
  BY DEF PowerCycle
<1>2. dlg \in Waiting /\ dlg' \in Waiting /\ held' \in KeysDown
  BY <1>1 DEF Waiting, KeysDown
<1>3. /\ lock' \in ToSet(Chains) /\ hold' = 0 /\ hold' \in 0..WIPE_HOLD_FRAMES - 1
      /\ alone' \in 0..WIPE_HOLD_FRAMES
  BY <1>1, HoldAssumption DEF ConfirmInv, TypeOK, HoldInv
<1>4. HoldInv'
  BY <1>1, <1>3 DEF HoldInv
<1> QED BY <1>1, <1>2, <1>3, <1>4, WaitingKeeps

\* So does a step that changes nothing.
LEMMA StutterKeeps == ASSUME ConfirmInv, UNCHANGED vars PROVE ConfirmInv'
<1>1. /\ UNCHANGED <<lock, req, dlg, doc, answer, hold, alone>> /\ UNCHANGED pages /\ held' = held
  BY DEF vars
<1>2. AskInv' /\ DocInv' /\ HoldInv' /\ LastPage' = LastPage /\ LastParsed' = LastParsed
  <2>1. parsed' => dlg = "typed" /\ doc.status = "match"
    BY <1>1 DEF pages, ConfirmInv, DocInv
  <2> QED BY <1>1, <2>1, SameDialog
<1>3. TypeOK'
  BY <1>1, <1>2 DEF pages, ConfirmInv, TypeOK, LastParsed
<1>4. ChordInv'
  BY <1>1 DEF pages, ConfirmInv, ChordInv
<1> QED BY <1>2, <1>3, <1>4 DEF ConfirmInv

\* So does every poll of the keys.
LEMMA FrameKeeps == ASSUME ConfirmInv, NEW keys \in KeysDown, Frame(keys) PROVE ConfirmInv'
<1>1. Answered(keys) \/ Stayed(keys) \/ Turned(keys) \/ Toggled(keys) \/ Waited(keys)
  BY FrameKinds DEF ConfirmInv
<1> QED BY <1>1, AnsweredKeeps, StayedKeeps, TurnedKeeps, ToggledKeeps, WaitedKeeps

\* So does every step.
LEMMA Inductive == ConfirmInv /\ [Next]_vars => ConfirmInv'
<1> SUFFICES ASSUME ConfirmInv, [Next]_vars PROVE ConfirmInv'
  OBVIOUS
<1>1. CASE \E r \in Requests : Receive(r)
  BY <1>1, ReceiveKeeps
<1>2. CASE \E keys \in KeysDown : Frame(keys)
  BY <1>2, FrameKeeps
<1>3. CASE PowerCycle
  BY <1>3, PowerCycleKeeps
<1>4. CASE UNCHANGED vars
  BY <1>4, StutterKeeps
<1> QED BY <1>1, <1>2, <1>3, <1>4 DEF Next

\* The invariant holds of the confirmation screens, whatever is asked and whichever
\* keys are down (state.c, confirm.c).
THEOREM ConfirmAlways == Spec => []ConfirmInv
<1>1. Init => ConfirmInv
  BY InitHolds
<1> QED BY <1>1, Inductive, PTL DEF Spec

\* The run's steps are steps of the screens, or of the entry, which leaves them
\* alone.
LEMMA ScreensRun == ScreensSpec => Spec
<1>1. ScreensInit => Init
  BY DEF ScreensInit
<1>2. [ScreensNext]_<<vars, entryVars>> => [Next]_vars
  BY DEF ScreensNext
<1> QED BY <1>1, <1>2, PTL DEF ScreensSpec, Spec

(*************************************************************************)
(* The theorems, of the specification the runs check.                    *)
(*************************************************************************)
\* The invariant holds of a cartridge that is used for any requests.
THEOREM ScreensAlways == ScreensSpec => []ConfirmInv
  BY ScreensRun, ConfirmAlways, PTL

\* Types; and no page is drawn that page_offsets or g_parsed_lines does not
\* have (confirm.c's loops).
THEOREM PagesExist == ScreensSpec => []TypeOK
<1>1. ConfirmInv => TypeOK
  BY DEF ConfirmInv
<1> QED BY <1>1, ScreensAlways, PTL

\* What a step of the invariant allows, for the theorems about steps.
LEMMA StepKinds ==
  ASSUME ConfirmInv, [Next]_vars
  PROVE  \/ \E r \in Requests : Receive(r)
         \/ \E keys \in KeysDown : \/ Answered(keys) \/ Stayed(keys) \/ Turned(keys)
                                   \/ Toggled(keys) \/ Waited(keys)
         \/ PowerCycle
         \/ UNCHANGED vars
<1>1. CASE \E keys \in KeysDown : Frame(keys)
  BY <1>1, FrameKinds DEF ConfirmInv
<1> QED BY <1>1 DEF Next

\* The frames that answer nothing leave the dialog as it is.
LEMMA DialogStays ==
  ASSUME ConfirmInv, NEW keys, Stayed(keys) \/ Turned(keys) \/ Toggled(keys)
  PROVE  UNCHANGED <<lock, req, dlg, doc, answer, hold, alone>> /\ held' = keys
<1>1. CASE Stayed(keys)
  BY <1>1 DEF Stayed, Stay
<1>2. CASE Turned(keys)
  BY <1>2 DEF Turned, Turn, Show
<1>3. CASE Toggled(keys)
  BY <1>3 DEF Toggled, TurnOrToggle, Show
<1> QED BY <1>1, <1>2, <1>3

\* The keys are erased only at the end of a hold: A was alone at
\* WIPE_HOLD_FRAMES polls of the wipe screen in a row (confirm_wipe_wallet).
THEOREM HeldToWipe == ScreensSpec => WipeIsHeld
<1> DEFINE Held == dlg' = "erase" /\ dlg # "erase" => alone' >= WIPE_HOLD_FRAMES
<1>1. ASSUME ConfirmInv, [Next]_vars PROVE [Held]_vars
  <2>1. CASE \E r \in Requests : Receive(r)
    <3>1. PICK r \in Requests : Receive(r)
      BY <2>1
    <3>2. \E d, x : Open(r, d, x) /\ Opens(r, d, x)
      BY <3>1, ReceiveOpens
    <3>3. dlg' \in Dialogs
      BY <3>2 DEF Open, Opens, Dialogs
    <3> QED BY <3>3 DEF Dialogs
  <2>2. ASSUME NEW keys \in KeysDown, Answered(keys) PROVE Held
    BY <2>2 DEF Answered, Answer
  <2>3. ASSUME NEW keys \in KeysDown, Stayed(keys) \/ Turned(keys) \/ Toggled(keys) PROVE Held
    BY <1>1, <2>3, DialogStays
  <2>4. ASSUME NEW keys \in KeysDown, Waited(keys) PROVE Held
    BY <1>1, <2>4, WaitedShape, HoldAssumption DEF ConfirmInv
  <2>5. CASE PowerCycle
    BY <2>5 DEF PowerCycle
  <2> QED BY <1>1, <2>1, <2>2, <2>3, <2>4, <2>5, StepKinds
<1>2. ConfirmInv /\ [Next]_vars => [Held]_vars
  BY <1>1
<1> QED BY <1>2, ConfirmAlways, ScreensRun, PTL DEF Spec, WipeIsHeld

\* What the chord does to a poll of the verified tree: the view changes at
\* the poll that completes the chord, a page at the release of a key that took
\* no part in one.
LEMMA ChordStep ==
  ASSUME ConfirmInv, NEW keys, Toggled(keys)
  PROVE  /\ parsed' # parsed => paired = {} /\ paired' = Shoulders
         /\ <<page, ppage>>' # <<page, ppage>> => (held \ held') \cap (Shoulders \ paired) # {}
<1> DEFINE step == ToggleStep(keys)
           l == combo.l \/ "L" \in Pressed(keys)
           r == combo.r \/ "R" \in Pressed(keys)
           used == combo.used /\ keys \cap Shoulders # {}
<1>1. /\ dlg = "typed" /\ doc.status = "match" /\ held' = keys
      /\ paired' = IF Shoulders \subseteq keys THEN Shoulders ELSE paired \cap keys
      /\ page' = IF parsed THEN page ELSE Move(step.act, page, LastPage)
      /\ ppage' = IF parsed THEN Move(step.act, ppage, LastParsed) ELSE ppage
      /\ parsed' = (parsed # (step.act = "toggle"))
  BY ToggledShows DEF ConfirmInv
<1>2. /\ combo \in Combo /\ paired \subseteq Shoulders /\ paired \subseteq held /\ parsed \in BOOLEAN
      /\ paired # {} => combo.used
      /\ combo.l => "L" \notin paired
      /\ combo.r => "R" \notin paired
  BY <1>1 DEF ConfirmInv, TypeOK, ChordInv, Combo
<1>3. \/ Shoulders \subseteq keys /\ StepIs(step, FALSE, FALSE, TRUE, IF combo.used THEN "none" ELSE "toggle")
      \/ ~(Shoulders \subseteq keys) /\ "L" \in held \ keys /\ l /\ StepIs(step, FALSE, r, used, "left")
      \/ ~(Shoulders \subseteq keys) /\ "R" \in held \ keys /\ r /\ StepIs(step, l, FALSE, used, "right")
      \/ ~(Shoulders \subseteq keys) /\ StepIs(step, l, r, used, "none")
  BY <1>2, ComboCases
<1>4. (l => "L" \notin paired) /\ (r => "R" \notin paired)
  BY <1>2 DEF Pressed
<1> HIDE DEF step, l, r, used
<1>5. /\ step.act = "toggle" => Shoulders \subseteq keys /\ ~combo.used
      /\ step.act = "left" => "L" \in held \ keys /\ l
      /\ step.act = "right" => "R" \in held \ keys /\ r
      /\ step.act \in {"toggle", "left", "right", "none"}
  BY <1>3 DEF StepIs
<1>6. ASSUME parsed' # parsed PROVE paired = {} /\ paired' = Shoulders
  <2>1. step.act = "toggle"
    BY <1>1, <1>2, <1>6
  <2> QED BY <1>1, <1>2, <1>5, <2>1
<1>7. ASSUME <<page, ppage>>' # <<page, ppage>> PROVE (held \ held') \cap (Shoulders \ paired) # {}
  <2>1. step.act \in {"left", "right"}
    <3>1. step.act \in {"toggle", "none"} => page' = page /\ ppage' = ppage
      BY <1>1 DEF Move
    <3> QED BY <1>5, <1>7, <3>1
  <2>2. CASE step.act = "left"
    BY <1>1, <1>4, <1>5, <2>2 DEF Shoulders
  <2>3. CASE step.act = "right"
    BY <1>1, <1>4, <1>5, <2>3 DEF Shoulders
  <2> QED BY <2>1, <2>2, <2>3
<1> QED BY <1>6, <1>7

\* L and R together change the view once, and turn no page (lr_combo_step).
THEOREM OneGesture == ScreensSpec => ChordTogglesOnce
<1> DEFINE Once ==
      dlg = "typed" /\ dlg' = "typed" /\ doc.status = "match" =>
        /\ parsed' # parsed => paired = {} /\ paired' = Shoulders
        /\ <<page, ppage>>' # <<page, ppage>> => (held \ held') \cap (Shoulders \ paired) # {}
<1>1. ASSUME ConfirmInv, [Next]_vars PROVE [Once]_vars
  <2>1. SUFFICES ASSUME dlg = "typed", dlg' = "typed", doc.status = "match", ~UNCHANGED vars
                 PROVE  \E keys : Toggled(keys)
    BY <1>1, ChordStep
  <2>2. ASSUME NEW r, Receive(r) PROVE FALSE
    BY <2>1, <2>2 DEF Receive
  <2>3. ASSUME NEW keys, Answered(keys) PROVE FALSE
    BY <2>1, <2>3 DEF Answered, Answer
  <2>4. ASSUME NEW keys, Stayed(keys) \/ Turned(keys) PROVE FALSE
    BY <2>1, <2>4 DEF Stayed, Turned
  <2>5. ASSUME NEW keys, Waited(keys) PROVE FALSE
    BY <2>1, <2>5 DEF Waited, Waiting, AfterRelease
  <2>6. ~PowerCycle
    BY <2>1 DEF PowerCycle
  <2> QED BY <1>1, <2>1, <2>2, <2>3, <2>4, <2>5, <2>6, StepKinds
<1>2. ConfirmInv /\ [Next]_vars => [Once]_vars
  BY <1>1
<1> QED BY <1>2, ConfirmAlways, ScreensRun, PTL DEF Spec, ChordTogglesOnce

\* What is signed is on the lock, whatever the host sent: a transaction whose
\* own bytes name the locked network; typed data whose hashes are its tree's, or
\* which has no tree, and whose domain names no other network.
SignedOnLock ==
  [][req # NoRequest /\ req' = NoRequest /\ answer' = "signature" =>
       /\ lock' = lock /\ dlg \in {"tx", "typed", "personal", "connect"}
       /\ dlg = "tx" => eth_tx_decode(req.raw).ok /\ eth_tx_decode(req.raw).chainid = lock
       /\ dlg = "typed" => OnLock(req) /\ TypedStatus(req) \in {"match", "error"}]_vars
\* No signature leaves the lock, and none is given without one of the screens
\* (handle_tx_rlp_common, handle_typed_data, handle_personal_sign).
THEOREM OnlyOnLock == ScreensSpec => SignedOnLock
<1> DEFINE OnTheLock ==
      req # NoRequest /\ req' = NoRequest /\ answer' = "signature" =>
        /\ lock' = lock /\ dlg \in {"tx", "typed", "personal", "connect"}
        /\ dlg = "tx" => eth_tx_decode(req.raw).ok /\ eth_tx_decode(req.raw).chainid = lock
        /\ dlg = "typed" => OnLock(req) /\ TypedStatus(req) \in {"match", "error"}
<1>1. ASSUME ConfirmInv, [Next]_vars PROVE [OnTheLock]_vars
  <2>1. SUFFICES ASSUME req # NoRequest, req' = NoRequest, answer' = "signature" PROVE OnTheLock
    OBVIOUS
  <2>2. ASSUME NEW r, Receive(r) PROVE FALSE
    <3>1. \E d, x : Open(r, d, x)
      BY <2>2, ReceiveOpens
    <3> QED BY <2>1, <3>1 DEF Open
  <2>3. ASSUME NEW keys, Answered(keys) PROVE OnTheLock
    <3>1. lock' = lock /\ dlg \in {"tx", "typed", "personal", "connect"}
      BY <2>1, <2>3 DEF Answered, Answer, Yes
    <3>2. dlg = "tx" => eth_tx_decode(req.raw).ok /\ eth_tx_decode(req.raw).chainid = lock
      BY <1>1 DEF ConfirmInv, DocInv, IsTxDoc
    <3>3. dlg = "typed" => OnLock(req) /\ TypedStatus(req) \in {"match", "error"}
      <4>1. dlg = "typed" => OnLock(req) /\ TypedStatus(req) # "mismatch"
        BY <1>1 DEF ConfirmInv, DocInv, TypedDoc
      <4>2. TypedStatus(req) \in {"match", "error", "mismatch"}
        BY DEF TypedStatus, eip712_parse_and_verify
      <4> QED BY <4>1, <4>2
    <3> QED BY <3>1, <3>2, <3>3
  <2>4. ASSUME NEW keys, Stayed(keys) \/ Turned(keys) \/ Toggled(keys) PROVE FALSE
    BY <1>1, <2>1, <2>4, DialogStays
  <2>5. ASSUME NEW keys, Waited(keys) PROVE FALSE
    BY <1>1, <2>1, <2>5, WaitedShape DEF ConfirmInv
  <2>6. ~PowerCycle /\ ~UNCHANGED vars
    BY <2>1 DEF PowerCycle, vars
  <2> QED BY <1>1, <2>2, <2>3, <2>4, <2>5, <2>6, StepKinds
<1>2. ConfirmInv /\ [Next]_vars => [OnTheLock]_vars
  BY <1>1
<1> QED BY <1>2, ConfirmAlways, ScreensRun, PTL DEF Spec, SignedOnLock

(*************************************************************************)
(* The screens implement Consent.                                        *)
(*************************************************************************)
\* A request is open while a dialog runs, and at no other time.
LEMMA NoRequestIsNone ==
  ASSUME AskInv
  PROVE  (dlg \in Dialogs => req # NoRequest) /\ (dlg \in Waiting => req = NoRequest)
  BY DEF AskInv, Dialogs, NoRequest

\* What decodes to a listed chain was sent, and is what was sent.
LEMMA SentIsRead ==
  ASSUME NEW r \in Requests, r.op = "tx", Story(r), eth_tx_decode(r.raw).ok,
         eth_tx_decode(r.raw).chainid \in ToSet(Chains)
  PROVE  r.sent # <<>> /\ IsTx(r.sent[1]) /\ SameTx(eth_tx_decode(r.raw), r.sent[1])
<1>1. r.sent # <<>> /\ IsTx(r.sent[1]) /\ r.raw = encodeTx(r.sent[1])
  BY DEF Story
<1>2. Len(r.raw) < Huge
  <2>1. r.raw \in Seq(Byte) /\ Len(r.raw) <= 4096
    BY PayloadAssumption DEF PROTO_TX_RLP_MAX
  <2>2. Len(r.raw) \in Nat
    BY <2>1
  <2>3. Huge > 4096 /\ Huge \in Int
    BY DEF Huge
  <2> QED BY <2>1, <2>2, <2>3
<1>3. SameTx(eth_tx_decode(encodeTx(r.sent[1])), r.sent[1])
  BY <1>1, <1>2, TransactionIsRead
<1> QED BY <1>1, <1>3

\* Typed data that was asked for is read as it was asked.
AskedIsRead(r) ==
  /\ r.tree # <<>> /\ r.chain = ChainOf(r.asked[1]) /\ ReadAsAsked(NameOrder, r.tree[1], r.asked[1])
  /\ ~r.forged => /\ r.ds = hashStruct(NameOrder, r.asked[1].types, "EIP712Domain", r.asked[1].domain)
                  /\ r.mh = hashStruct(NameOrder, r.asked[1].types, r.asked[1].primaryType, r.asked[1].message)
LEMMA AskedRead == ASSUME NEW r, r.op = "typed", Story(r), r.asked # <<>> PROVE AskedIsRead(r)
<1> DEFINE names == [i \in DOMAIN r.tree[1].types |-> r.tree[1].types[i].name]
           td == r.asked[1]
<1>1. /\ IsTypedData(td) /\ IsTypeOrder(names, td) /\ r.tree = <<serializeTypedDataTLV(names, td)>>
      /\ r.chain = ChainOf(td)
      /\ ~r.forged => /\ r.ds = hashStruct(NameOrder, td.types, "EIP712Domain", td.domain)
                      /\ r.mh = hashStruct(NameOrder, td.types, td.primaryType, td.message)
  BY DEF Story
<1> HIDE DEF names, td
<1>2. ReadAsAsked(NameOrder, serializeTypedDataTLV(names, td), td)
  BY <1>1, TreeIsRead
<1>3. r.tree # <<>> /\ r.tree[1] = serializeTypedDataTLV(names, td)
  BY <1>1
<1> QED BY <1>1, <1>2, <1>3 DEF AskedIsRead, td

\* A screen with an A that says yes stands only before a request that may be granted.
LEMMA AskedIsPermitted ==
  ASSUME ConfirmInv, dlg \in {"tx", "typed", "personal", "connect"}
  PROVE  Permitted(req, lock)
<1>1. /\ req \in Requests /\ Story(req) /\ lock \in ToSet(Chains)
  BY StoryAssumption DEF ConfirmInv, AskInv, Dialogs, TypeOK
<1>2. CASE dlg = "tx"
  <2>1. req.op = "tx" /\ eth_tx_decode(req.raw).ok /\ eth_tx_decode(req.raw).chainid = lock
    BY <1>2 DEF ConfirmInv, AskInv, DocInv, IsTxDoc
  <2>2. req.sent # <<>> /\ req.sent[1].chainid = lock
    BY <1>1, <2>1, SentIsRead DEF SameTx
  <2> QED BY <2>1, <2>2 DEF Permitted
<1>3. CASE dlg = "typed"
  <2>1. req.op = "typed" /\ OnLock(req) /\ TypedStatus(req) # "mismatch"
    BY <1>3 DEF ConfirmInv, AskInv, DocInv, TypedDoc
  <2>2. /\ TypedStatus(req) = "error" <=> ~TreeParses(req)
        /\ TreeParses(req) =>
             /\ our_domain_separator(NameOrder, req.tree[1]) = req.ds
             /\ our_message_hash(NameOrder, req.tree[1]) = req.mh
    BY <2>1 DEF TypedStatus, TreeParses, eip712_parse_and_verify
  <2>3. ~req.forged
    BY <1>1, <2>1, <2>2 DEF Story
  <2>4. req.chain \in {<<>>, <<lock>>} \/ TooLong(req)
    <3>1. CASE req.asked = <<>>
      BY <1>1, <2>1, <2>2, <3>1 DEF Story, OnLock
    <3>2. CASE req.asked # <<>>
      <4>1. AskedIsRead(req)
        BY <1>1, <2>1, <3>2, AskedRead
      <4>2. TypedStatus(req) = "error" => TooLong(req)
        BY <2>2, <3>2, <4>1 DEF AskedIsRead, ReadAsAsked, TreeParses, TooLong
      <4> QED BY <2>1, <4>1, <4>2 DEF AskedIsRead, ReadAsAsked, OnLock
    <3> QED BY <3>1, <3>2
  <2> QED BY <2>1, <2>3, <2>4 DEF Permitted
<1>4. CASE dlg \in {"personal", "connect"}
  <2>1. req.op \in {"personal", "connect"}
    BY <1>4 DEF ConfirmInv, AskInv
  <2> QED BY <2>1 DEF Permitted
<1> QED BY <1>2, <1>3, <1>4

\* The screens implement Consent: one answer to a request, yes only by a
\* press of A made after the request was there, and only to what the chain
\* lock and the hashes allow; the lock is of no use against typed data whose
\* type strings are too long to be read, which is shown as text and may name
\* any chain (state.c handle_*, confirm.c loops).
THEOREM ConsentIsKept == ScreensSpec => ConsentKept
<1>1. Init => Promise!Init
  BY DEF Init, Promise!Init, Outcome
<1>2. ASSUME ConfirmInv, [Next]_vars PROVE [Promise!Next]_Promise!vars
  <2>1. lock \in ToSet(Chains) /\ AskInv
    BY <1>2 DEF ConfirmInv, TypeOK
  <2>2. CASE \E r \in Requests : Receive(r)
    <3>1. PICK r \in Requests : Receive(r)
      BY <2>2
    <3>2. PICK d, x : Open(r, d, x) /\ dlg = "idle"
      BY <3>1, ReceiveOpens
    <3>3. req = NoRequest
      BY <2>1, <3>2, NoRequestIsNone DEF Waiting
    <3>4. Promise!Ask(r)
      BY <3>2, <3>3 DEF Open, Outcome, Promise!Ask
    <3> QED BY <3>4 DEF Promise!Next
  <2>3. ASSUME NEW keys \in KeysDown, Answered(keys) PROVE Promise!Next
    <3>1. PICK what \in Verdicts : \E next : /\ Answer(what, next)
                                             /\ what \in Yes => "A" \in keys \ held
                                                  /\ dlg \in {"tx", "typed", "personal", "connect"}
      BY <2>3 DEF Answered
    <3>2. dlg \in Dialogs /\ held' = keys
      BY <2>3 DEF Answered
    <3>3. req # NoRequest /\ req' = NoRequest /\ lock' = lock /\ answer' = what
      <4>1. req # NoRequest
        BY <2>1, <3>2, NoRequestIsNone
      <4>2. req' = NoRequest /\ lock' = lock /\ answer' = what
        BY <3>1 DEF Answer
      <4> QED BY <4>1, <4>2
    <3>4. CASE what \in Yes
      <4>1. Permitted(req, lock) /\ "A" \in keys \ held
        BY <1>2, <3>1, <3>4, AskedIsPermitted
      <4>2. Outcome' = "yes"
        BY <3>3, <3>4 DEF Outcome, Yes
      <4>3. Promise!Grant(keys)
        BY <3>2, <3>3, <4>1, <4>2 DEF Promise!Grant
      <4> QED BY <4>3 DEF Promise!Next
    <3>5. CASE what \notin Yes
      <4>1. Outcome' = "no"
        BY <3>3, <3>5 DEF Outcome, Yes, Verdicts
      <4>2. Promise!Refuse(keys)
        BY <3>2, <3>3, <4>1 DEF Promise!Refuse
      <4> QED BY <4>2 DEF Promise!Next
    <3> QED BY <3>4, <3>5
  <2>4. ASSUME NEW keys \in KeysDown, Stayed(keys) \/ Turned(keys) \/ Toggled(keys) PROVE Promise!Next
    <3>1. UNCHANGED <<lock, req, answer>> /\ held' = keys
      BY <1>2, <2>4, DialogStays
    <3>2. Promise!Poll(keys)
      BY <3>1 DEF Promise!Poll, Outcome
    <3> QED BY <3>2 DEF Promise!Next
  <2>5. ASSUME NEW keys \in KeysDown, Waited(keys) PROVE Promise!Next
    <3>1. /\ dlg \in Waiting /\ held' = keys /\ UNCHANGED <<req, answer>> /\ lock' \in ToSet(Chains)
          /\ lock' # lock => keys \cap Shoulders # {}
      BY <1>2, <2>5, WaitedShape DEF ConfirmInv
    <3>2. req = NoRequest
      BY <2>1, <3>1, NoRequestIsNone
    <3>3. CASE lock' = lock
      <4>1. Promise!Poll(keys)
        BY <3>1, <3>3 DEF Promise!Poll, Outcome
      <4> QED BY <4>1 DEF Promise!Next
    <3>4. CASE lock' # lock
      <4>1. Promise!MoveLock(keys)
        BY <3>1, <3>2, <3>4 DEF Promise!MoveLock, Outcome, Shoulders
      <4> QED BY <4>1 DEF Promise!Next
    <3> QED BY <3>3, <3>4
  <2>6. CASE PowerCycle
    <3>1. {} \in KeysDown /\ Promise!Poll({})
      BY <2>6 DEF KeysDown, PowerCycle, Promise!Poll, Outcome
    <3> QED BY <3>1 DEF Promise!Next
  <2>7. CASE UNCHANGED vars
    BY <2>7 DEF vars, Promise!vars, Outcome
  <2> QED BY <1>2, <2>2, <2>3, <2>4, <2>5, <2>6, <2>7, StepKinds
<1>3. ConfirmInv /\ [Next]_vars => [Promise!Next]_Promise!vars
  BY <1>2
<1>4. Spec => Promise!Spec
  BY <1>1, <1>3, ConfirmAlways, PTL DEF Spec, Promise!Spec
<1> QED BY <1>4, ScreensRun DEF ConsentKept

\* What eth_tx_decode hands to the pages is, field by field, the transaction
\* the host encoded (extension rlp.ts and tx.ts, device rlp.c and eth_tx.c).
THEOREM PagesTellWhatWasSent == ScreensSpec => []DecodedIsSent
<1>1. ASSUME ConfirmInv PROVE DecodedIsSent
  <2> SUFFICES ASSUME dlg = "tx", NEW f \in DOMAIN req.sent[1] PROVE doc.tx[f] = req.sent[1][f]
    BY DEF DecodedIsSent
  <2>1. /\ req \in Requests /\ req.op = "tx" /\ Story(req) /\ lock \in ToSet(Chains)
        /\ eth_tx_decode(req.raw).ok /\ eth_tx_decode(req.raw).chainid = lock
    BY <1>1, StoryAssumption DEF ConfirmInv, AskInv, Dialogs, TypeOK, DocInv, IsTxDoc
  <2>2. IsTx(req.sent[1]) /\ SameTx(eth_tx_decode(req.raw), req.sent[1])
    BY <2>1, SentIsRead
  <2>3. doc.tx = eth_tx_decode(req.raw)
    <3>1. IsTxDoc(req, doc)
      BY <1>1 DEF ConfirmInv, DocInv
    <3> QED BY <3>1 DEF IsTxDoc, TxDoc
  <2>4. f \in TxNumbers \cup {"type", "to", "data"}
    BY <2>2 DEF IsTx
  <2>5. \/ f = "chainid" \/ f = "nonce" \/ f = "max_priority_fee_per_gas" \/ f = "max_fee_per_gas"
        \/ f = "gas_limit" \/ f = "value" \/ f = "type" \/ f = "to" \/ f = "data"
    BY <2>4 DEF TxNumbers
  <2> QED BY <2>2, <2>3, <2>5 DEF SameTx
<1> QED BY <1>1, ConfirmAlways, ScreensRun, PTL DEF Spec

\* Typed data that the extension put into a tree and hashed is recognised if its
\* type strings fit in EIP712_TYPESTR_MAX bytes, and is shown as unverified text,
\* whatever chain it names, if they do not; the user of an honest host never sees
\* MISMATCH (serializeTypedDataTLV and hashStruct of eip712.ts, eip712.c,
\* handle_typed_data).
THEOREM HonestIsRecognised == ScreensSpec => []HonestHostMatches
<1>1. ASSUME ConfirmInv PROVE HonestHostMatches
  <2> SUFFICES ASSUME req.op = "typed", req.asked # <<>>, ~req.forged
               PROVE  IF TooLong(req) THEN dlg = "typed" /\ doc.status = "error"
                      ELSE \/ dlg = "typed" /\ doc.status = "match"
                           \/ dlg = "notice" /\ req.chain # <<lock>>
    BY DEF HonestHostMatches
  <2>1. req # NoRequest
    BY DEF NoRequest
  <2>2. dlg \in Dialogs \/ dlg \in Waiting
    BY <1>1 DEF ConfirmInv, TypeOK, Dialogs, Waiting
  <2>3. dlg \in {"typed", "mismatch", "notice"} /\ req \in Requests
    BY <1>1, <2>1, <2>2 DEF ConfirmInv, AskInv, Dialogs
  <2>4. AskedIsRead(req)
    BY <2>3, StoryAssumption, AskedRead
  <2>5. TypedStatus(req) = (IF TooLong(req) THEN "error" ELSE "match")
        /\ extract_domain_fields(req.tree[1]) = req.chain
    BY <2>4 DEF AskedIsRead, ReadAsAsked, TypedStatus, eip712_parse_and_verify, TooLong
  <2>6. CASE dlg = "typed"
    BY <1>1, <2>5, <2>6 DEF ConfirmInv, DocInv, TypedDoc
  <2>7. CASE dlg = "mismatch"
    BY <1>1, <2>5, <2>7 DEF ConfirmInv, DocInv
  <2>8. CASE dlg = "notice"
    <3>1. ~OnLock(req)
      BY <1>1, <2>3, <2>8 DEF ConfirmInv, DocInv
    <3> QED BY <2>5, <2>8, <3>1 DEF OnLock
  <2> QED BY <2>3, <2>6, <2>7, <2>8
<1> QED BY <1>1, ConfirmAlways, ScreensRun, PTL DEF Spec

\* The parsed view has a line for every value the dApp asked to have signed, in
\* their order, as many as PARSED_MAX_LINES, and says when there are more; a line
\* ends after PARSED_LINE_CHARS characters of the name and the value
\* (serializeTypedDataTLV of eip712.ts, build_parsed_lines and push_line of
\* confirm.c).
THEOREM ViewIsWhatWasAsked == ScreensSpec => []ParsedIsAsked
<1>1. ASSUME ConfirmInv PROVE ParsedIsAsked
  <2> SUFFICES ASSUME dlg = "typed", doc.status = "match", req.asked # <<>>,
                      Nested(req.asked[1], EIP712_MAX_DEPTH - 1)
               PROVE  /\ doc.lines.lines = Slice(AskedLines(req.asked[1]), 1, PARSED_MAX_LINES)
                      /\ doc.lines.overflow = (Len(AskedLines(req.asked[1])) > PARSED_MAX_LINES)
    BY DEF ParsedIsAsked
  <2>1. req \in Requests /\ req.op = "typed"
    BY <1>1 DEF ConfirmInv, AskInv, Dialogs
  <2>2. AskedIsRead(req)
    BY <2>1, StoryAssumption, AskedRead
  <2>3. doc.lines = build_parsed_lines(req.tree[1])
    BY <1>1 DEF ConfirmInv, DocInv, TypedDoc
  <2> QED BY <2>2, <2>3 DEF AskedIsRead, ReadAsAsked
<1> QED BY <1>1, ConfirmAlways, ScreensRun, PTL DEF Spec
=============================================================================
