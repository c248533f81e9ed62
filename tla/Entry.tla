-------------------------------- MODULE Entry --------------------------------
(* The two screens that take a secret with ten keys: the PIN (pin.c) and    *)
(* the words of the phrase, with their review (keyboard.c over the prefix   *)
(* search of bip39.c).  One action per poll that sees a key pressed; keys   *)
(* is what input_pressed returns, so several may come at once.              *)
(* The sizes are constants here: 10 digits, 4..8 of them, 26 letters, 2048  *)
(* words of at most 8, 24 candidates, 12 words in two columns.              *)
EXTENDS Integers, Sequences, FiniteSets, SequencesExt

CONSTANTS DIGITS, PIN_MIN_LEN, PIN_MAX_LEN,
          LETTERS, MAX_PREFIX, CANDS_CAP, BIP39_WORDS_COUNT,
          BIP39_WORDS,     \* the word list, sorted; a word is a tuple of letters
          ChecksumOk,      \* the phrases, as tuples of positions in it, that check out
          KeysAtOnce       \* bound: keys that go down between two polls

\* The digits of pin.c and its lengths (pin.h); the 24 candidates of keyboard.c
\* and the slots of a phrase.
ASSUME PinAssumption ==
  /\ DIGITS \in Nat \ {0} /\ PIN_MIN_LEN \in Nat \ {0} /\ PIN_MAX_LEN \in Nat
  /\ PIN_MIN_LEN <= PIN_MAX_LEN
ASSUME PhraseAssumption ==
  LETTERS \in Nat \ {0} /\ CANDS_CAP \in Nat \ {0} /\ BIP39_WORDS_COUNT \in Nat \ {0}

VARIABLES scr,     \* "pin", "word", "review", "error", "done", "cancelled", "open"
          pin,     \* pin_input's locals, and the digit on row 10
          kb,      \* input_one_word's locals, and the word on row 16
          slot,    \* the word being entered, from 1
          editing, \* input_one_word was called from the review
          hl,      \* the review's cursor, 0 when it is off
          words,   \* out_idx
          reviewed,\* history: the phrase as the review last drew it
          blind    \* history: the last A came together with another key
entryVars == <<scr, pin, kb, slot, editing, hl, words, reviewed, blind>>

EntryKeys == {"up", "down", "left", "right", "A", "B", "L", "R", "start", "select"}
Column == BIP39_WORDS_COUNT \div 2
Slots == 1..BIP39_WORDS_COUNT

(*************************************************************************)
(* The prefix search.                                                    *)
(*************************************************************************)
Matches(prefix) == {i \in DOMAIN BIP39_WORDS : IsPrefix(prefix, BIP39_WORDS[i])}
bip39_filter_prefix(prefix) ==
  IF prefix = <<>> THEN <<>>
  ELSE SelectSeq([i \in DOMAIN BIP39_WORDS |-> i], LAMBDA i : i \in Matches(prefix))
bip39_has_prefix(prefix) == prefix = <<>> \/ Matches(prefix) # {}
bip39_validate_words(phrase) == phrase \in ChecksumOk

(*************************************************************************)
(* PIN.                                                                  *)
(*************************************************************************)
NewPin == [digits |-> [i \in 1..PIN_MAX_LEN |-> 0], pos |-> 1, out |-> <<>>, shown |-> 0]
render_field(p) == [p EXCEPT !.shown = p.digits[p.pos]]

Spin(p, keys) ==
  LET by == (IF "up" \in keys THEN 1 ELSE 0) + (IF "down" \in keys THEN DIGITS - 1 ELSE 0)
  IN [p EXCEPT !.digits[p.pos] = (@ + by) % DIGITS]
MovePin(p, keys) ==
  LET left == IF "left" \in keys /\ p.pos > 1 THEN p.pos - 1 ELSE p.pos
  IN [p EXCEPT !.pos = IF "right" \in keys /\ left < PIN_MAX_LEN THEN left + 1 ELSE left]
AddDigit(p, keys) ==
  IF "A" \in keys /\ Len(p.out) < PIN_MAX_LEN
  THEN [p EXCEPT !.out = Append(@, p.digits[p.pos]),
                 !.pos = IF @ < PIN_MAX_LEN THEN @ + 1 ELSE @]
  ELSE p
DropDigit(p, keys) ==
  IF "B" \in keys /\ p.out # <<>> THEN [p EXCEPT !.out = Front(@)] ELSE p

pin_input(keys) ==
  LET p == DropDigit(AddDigit(MovePin(Spin(pin, keys), keys), keys), keys) IN
  /\ scr = "pin"
  /\ \/ "select" \in keys /\ scr' = "cancelled" /\ UNCHANGED pin
     \/ /\ "select" \notin keys /\ pin' = render_field(p)
        /\ scr' = IF "start" \in keys /\ Len(p.out) >= PIN_MIN_LEN THEN "done" ELSE scr
  /\ blind' = ("A" \in keys /\ keys # {"A"})
  /\ UNCHANGED <<kb, slot, editing, hl, words, reviewed>>

(*************************************************************************)
(* One word.                                                             *)
(*************************************************************************)
NewWord == [prefix |-> <<>>, cur |-> 0, total |-> 0, cands |-> <<>>, highlight |-> 0, shown |-> 0]

\* What is recomputed and drawn when dirty_cands is set.
render_cands(w) ==
  LET all == bip39_filter_prefix(w.prefix)
      cands == SubSeq(all, 1, Min({Len(all), CANDS_CAP}))
      highlight == IF w.highlight >= Len(cands) THEN 0 ELSE w.highlight
  IN [w EXCEPT !.total = Len(all), !.cands = cands, !.highlight = highlight,
               !.shown = IF cands = <<>> THEN 0 ELSE cands[highlight + 1]]

\* A new letter at the end: the first that some word goes on with.
AddLetter(w) ==
  LET next == {t \in 0..LETTERS - 1 : bip39_has_prefix(Append(w.prefix, t))}
  IN IF Len(w.prefix) < MAX_PREFIX /\ next # {}
     THEN [w EXCEPT !.prefix = Append(@, Min(next))] ELSE w

\* The letter under the cursor turns to the next that leaves some word.
TurnLetter(w, delta) ==
  LET At(n) == [w.prefix EXCEPT ![w.cur + 1] = (@ + n * delta + n * LETTERS) % LETTERS]
      good == {n \in 1..LETTERS : bip39_has_prefix(At(n))}
  IN IF good = {} THEN w ELSE [w EXCEPT !.prefix = At(Min(good))]

Wheel(w, keys) ==
  IF keys \cap {"up", "down"} = {} THEN w
  ELSE IF w.cur = Len(w.prefix) THEN AddLetter(w)
  ELSE TurnLetter(w, IF "up" \in keys THEN 1 ELSE -1)
LeftOf(w, keys) == IF "left" \in keys /\ w.cur > 0 THEN [w EXCEPT !.cur = @ - 1] ELSE w
RightOf(w, keys) ==
  IF "right" \notin keys THEN w
  ELSE IF w.cur < Len(w.prefix) THEN [w EXCEPT !.cur = @ + 1] ELSE AddLetter(w)
DelLetter(w, keys) ==
  LET del == IF w.cur < Len(w.prefix) THEN w.cur + 1 ELSE Len(w.prefix)
  IN IF "B" \notin keys \/ w.prefix = <<>> THEN w
     ELSE [w EXCEPT !.prefix = RemoveAt(@, del), !.cur = Min({@, Len(w.prefix) - 1})]
Scroll(w, keys) ==
  LET n == Len(w.cands)
      by == (IF "L" \in keys THEN n - 1 ELSE 0) + (IF "R" \in keys THEN 1 ELSE 0)
  IN IF n > 1 THEN [w EXCEPT !.highlight = (@ + by) % n] ELSE w

\* Mutants of Redraw: a letter that RIGHT adds, or a step of the highlight,
\* does not set dirty_cands.
RightForgotten(w, keys) ==
  IF keys \cap {"up", "down", "B", "L", "R"} # {} THEN render_cands(w) ELSE w
ScrollForgotten(w, keys) ==
  IF keys \cap {"up", "down", "B"} # {} \/ w.prefix # kb.prefix THEN render_cands(w) ELSE w

\* The candidates are searched again when the prefix or the highlight was
\* touched, not when only the cursor moved.
Redraw(w, keys) ==
  IF keys \cap {"up", "down", "B", "L", "R"} # {} \/ w.prefix # kb.prefix
  THEN render_cands(w) ELSE w

Typed(keys) ==
  Scroll(DelLetter(RightOf(LeftOf(Wheel(kb, keys), keys), keys), keys), keys)
Pickable(w) == w.total \in 1..CANDS_CAP

\* Where a word leads: the next slot, or the review.
OpenSlot(s, edit) == scr' = "word" /\ slot' = s /\ editing' = edit /\ kb' = NewWord
\* Mutant of OpenReview: an edited phrase is taken without being looked at.
EditedIsDone == /\ scr' = (IF editing THEN "done" ELSE "review") /\ hl' = 0 /\ kb' = NewWord
                /\ reviewed' = words' /\ UNCHANGED <<slot, editing>>

OpenReview == /\ scr' = "review" /\ hl' = 0 /\ kb' = NewWord
              /\ reviewed' = words' /\ UNCHANGED <<slot, editing>>

input_one_word(keys) ==
  /\ scr = "word" /\ UNCHANGED pin
  /\ blind' = ("A" \in keys /\ keys # {"A"})
  /\ \/ "start" \in keys /\ scr' = "cancelled" /\ UNCHANGED <<kb, slot, editing, hl, words, reviewed>>
     \/ /\ keys \cap {"start", "select"} = {"select"} /\ UNCHANGED words
        /\ \/ editing /\ OpenReview
           \/ ~editing /\ OpenSlot(Max({slot - 1, 1}), FALSE) /\ UNCHANGED <<hl, reviewed>>
     \/ /\ keys \cap {"start", "select"} = {}
        /\ \/ /\ "A" \in keys /\ Pickable(kb)
              /\ words' = [words EXCEPT ![slot] = kb.cands[Typed(keys).highlight + 1]]
              /\ \/ (editing \/ slot = BIP39_WORDS_COUNT) /\ OpenReview
                 \/ ~editing /\ slot < BIP39_WORDS_COUNT /\ OpenSlot(slot + 1, FALSE)
                    /\ UNCHANGED <<hl, reviewed>>
           \/ /\ ~("A" \in keys /\ Pickable(kb))
              /\ kb' = Redraw(Typed(keys), keys)
              /\ UNCHANGED <<scr, slot, editing, hl, words, reviewed>>

(*************************************************************************)
(* Review.                                                               *)
(*************************************************************************)
\* The cursor on the grid: two columns of Column slots.
MoveCursor(keys) ==
  LET across == IF "left" \in keys /\ hl > Column THEN hl - Column ELSE hl
      right == IF "right" \in keys /\ across <= Column THEN across + Column ELSE across
      up == IF "up" \in keys /\ (right - 1) % Column # 0 THEN right - 1 ELSE right
  IN IF "down" \in keys /\ (up - 1) % Column # Column - 1 THEN up + 1 ELSE up

review_screen(keys) ==
  /\ scr = "review" /\ UNCHANGED <<pin, words>> /\ blind' = FALSE
  /\ \/ /\ hl = 0 /\ "A" \in keys
        /\ scr' = IF bip39_validate_words(words) THEN "done" ELSE "error"
        /\ UNCHANGED <<kb, slot, editing, hl, reviewed>>
     \/ /\ hl = 0 /\ "A" \notin keys /\ "B" \in keys
        /\ OpenSlot(BIP39_WORDS_COUNT, TRUE) /\ UNCHANGED <<hl, reviewed>>
     \/ /\ hl = 0 /\ keys \cap {"A", "B"} = {}
        /\ hl' = IF "select" \in keys THEN 1 ELSE 0
        /\ reviewed' = words /\ UNCHANGED <<scr, kb, slot, editing>>
     \/ /\ hl > 0 /\ "A" \in keys
        /\ OpenSlot(MoveCursor(keys), TRUE) /\ hl' = 0 /\ UNCHANGED reviewed
     \/ /\ hl > 0 /\ "A" \notin keys
        /\ hl' = IF "B" \in keys THEN 0 ELSE MoveCursor(keys)
        /\ reviewed' = words /\ UNCHANGED <<scr, kb, slot, editing>>

\* "invalid checksum": back to the review, or to the last slot.
error_screen(keys) ==
  /\ scr = "error" /\ UNCHANGED <<pin, words>> /\ blind' = FALSE
  /\ \/ "select" \in keys /\ OpenReview
     \/ /\ "select" \notin keys /\ "B" \in keys
        /\ OpenSlot(BIP39_WORDS_COUNT, TRUE) /\ UNCHANGED <<hl, reviewed>>
     \/ /\ keys \cap {"select", "B"} = {}
        /\ UNCHANGED <<scr, kb, slot, editing, hl, reviewed>>

EntryInit ==
  /\ scr \in {"pin", "word"}
  /\ pin = NewPin /\ kb = NewWord /\ slot = 1 /\ editing = FALSE /\ hl = 0
  /\ words = [i \in Slots |-> 1] /\ reviewed = <<>> /\ blind = FALSE

KeySets == UNION {kSubset(n, EntryKeys) : n \in 1..KeysAtOnce}
EntryNext == \E keys \in KeySets :
          \/ pin_input(keys) \/ input_one_word(keys)
          \/ review_screen(keys) \/ error_screen(keys)

\* state.c goes on to the READY screen with a secret, and starts over without.
Opened ==
  /\ scr \in {"done", "cancelled"}
  /\ scr' \in (IF scr = "done" THEN {"open"} ELSE {"pin", "word"})
  /\ pin' = NewPin /\ kb' = NewWord /\ slot' = 1 /\ editing' = FALSE /\ hl' = 0
  /\ words' = [i \in Slots |-> 1] /\ reviewed' = <<>> /\ blind' = FALSE

EntrySpec == EntryInit /\ [][EntryNext \/ Opened]_entryVars

(*************************************************************************)
(* Properties.                                                           *)
(*************************************************************************)
\* A secret is handed on only when it is one: a PIN of a length it may have,
\* or a phrase that checks out and is, word for word, the one the review
\* last drew, through any number of edits (keyboard_input_words, pin_input).
SecretIsReviewed ==
  scr = "done" =>
    IF reviewed = <<>> THEN Len(pin.out) \in PIN_MIN_LEN..PIN_MAX_LEN
    ELSE words = reviewed /\ bip39_validate_words(words)

\* The candidates A picks from are those of the prefix on the wheel, though
\* they are searched again only when a flag says so.
CandidatesAreCurrent ==
  scr = "word" =>
    LET all == bip39_filter_prefix(kb.prefix) IN
    /\ kb.total = Len(all)
    /\ kb.cands = SubSeq(all, 1, Min({Len(all), CANDS_CAP}))

\* The header of keyboard.c: A accepts the highlighted candidate; and
\* likewise the digit on row 10.  A alone accepts what the screen shows.
AcceptedWasShown ==
  [][/\ scr = "pin" /\ Len(pin'.out) > Len(pin.out) =>
          blind' \/ Last(pin'.out) = pin.shown
     /\ scr = "word" /\ words' # words => blind' \/ words'[slot] = kb.shown]_entryVars
=============================================================================
