----------------------------- MODULE EntryProofs -----------------------------
(* Theorems about Entry, for every word list, every set of phrases that     *)
(* check out and every size: what is handed on was reviewed, what A picks   *)
(* from is current, what A accepts was shown.                               *)
EXTENDS Screens, TLAPS

(*************************************************************************)
(* The inductive invariant.                                              *)
(*************************************************************************)
Digit == 0..DIGITS - 1

\* The digits of the PIN, and the one that row 10 shows is that of the cursor.
PinInv ==
  /\ pin \in [digits : [1..PIN_MAX_LEN -> Digit], pos : 1..PIN_MAX_LEN, out : Seq(Digit), shown : Digit]
  /\ Len(pin.out) <= PIN_MAX_LEN
  /\ pin.shown = pin.digits[pin.pos]

WordFields == {"prefix", "cur", "total", "cands", "highlight", "shown"}
IsWord(w) == w = [f \in WordFields |-> w[f]] /\ w.highlight \in Nat

\* The candidates are those of the prefix; the highlight is on one of them,
\* and it is the one that row 16 shows.
Current(w) ==
  LET all == bip39_filter_prefix(w.prefix) IN
  /\ w.total = Len(all)
  /\ w.cands = SubSeq(all, 1, Min({Len(all), CANDS_CAP}))
Highlighted(w) ==
  \/ w.cands = <<>> /\ w.highlight = 0 /\ w.shown = 0
  \/ /\ w.cands # <<>> /\ w.highlight < Len(w.cands)
     /\ w.shown = w.cands[w.highlight + 1]
WordInv == scr = "word" => IsWord(kb) /\ Current(kb) /\ Highlighted(kb)

\* Until the review has drawn a phrase nothing is reviewed; the review and
\* the screen of the checksum error show the phrase as it is.
ReviewInv ==
  /\ words = [i \in Slots |-> words[i]]
  /\ scr = "pin" => reviewed = <<>>
  /\ scr \in {"review", "error"} => reviewed = words

EntryInv == PinInv /\ WordInv /\ ReviewInv /\ SecretIsReviewed

(*************************************************************************)
(* Minima, sequences and the helpers of one word.                        *)
(*************************************************************************)
\* The smaller of two numbers is one of them and no larger than either.
LEMMA SmallerOfTwo ==
  ASSUME NEW a \in Nat, NEW b \in Nat
  PROVE  Min({a, b}) = IF a <= b THEN a ELSE b
<1>1. CASE a <= b
  BY <1>1 DEF Min
<1>2. CASE a > b
  BY <1>2 DEF Min
<1> QED BY <1>1, <1>2

\* The first m of a sequence are m, and none when m is 0.
LEMMA FirstOnes ==
  ASSUME NEW s, NEW m \in Nat, m <= Len(s)
  PROVE  /\ Len(SubSeq(s, 1, m)) = m
         /\ SubSeq(s, 1, m) = <<>> <=> m = 0
<1>1. Len(SubSeq(s, 1, m)) = m
  OBVIOUS
<1>2. ASSUME m = 0 PROVE SubSeq(s, 1, m) = <<>>
  BY <1>2
<1>3. ASSUME SubSeq(s, 1, m) = <<>> PROVE m = 0
  <2>1. Len(<<>>) = 0
    OBVIOUS
  <2> QED BY ONLY <1>1, <1>3, <2>1
<1> QED BY <1>1, <1>2, <1>3

\* The candidates that are kept: the first CANDS_CAP, or all.
LEMMA Kept ==
  ASSUME NEW all
  PROVE  LET m == Min({Len(all), CANDS_CAP}) IN
         /\ m \in Nat /\ m <= Len(all)
         /\ Len(SubSeq(all, 1, m)) = m
         /\ SubSeq(all, 1, m) = <<>> <=> m = 0
<1>1. Len(all) \in Nat /\ CANDS_CAP \in Nat
  BY PhraseAssumption
<1> DEFINE m == Min({Len(all), CANDS_CAP})
<1>2. m \in Nat /\ m <= Len(all)
  BY <1>1, SmallerOfTwo
<1> HIDE DEF m
<1>3. Len(SubSeq(all, 1, m)) = m /\ (SubSeq(all, 1, m) = <<>> <=> m = 0)
  BY <1>2, FirstOnes
<1> QED BY <1>2, <1>3 DEF m

\* A sum and a remainder.
LEMMA Total == \A a, b \in Nat : a + b \in Nat
  OBVIOUS
\* A remainder is less than what is divided by.
LEMMA Remainder == ASSUME NEW a \in Nat, NEW n \in Nat \ {0} PROVE a % n \in 0..n - 1
  OBVIOUS

\* Turning the wheel, moving the cursor and deleting leave the candidates and
\* the highlight alone.
Same(v, w) ==
  v.cands = w.cands /\ v.total = w.total /\ v.highlight = w.highlight /\ v.shown = w.shown
\* What a key does to the prefix leaves what was found as it is: adding a letter,
LEMMA AddLetterKeeps == ASSUME NEW w, IsWord(w) PROVE IsWord(AddLetter(w)) /\ Same(AddLetter(w), w)
  BY DEF IsWord, WordFields, Same, AddLetter
\* turning the last letter,
LEMMA TurnLetterKeeps ==
  ASSUME NEW w, IsWord(w), NEW d PROVE IsWord(TurnLetter(w, d)) /\ Same(TurnLetter(w, d), w)
  BY DEF IsWord, WordFields, Same, TurnLetter
\* UP and DOWN,
LEMMA WheelKeeps ==
  ASSUME NEW w, IsWord(w), NEW keys PROVE IsWord(Wheel(w, keys)) /\ Same(Wheel(w, keys), w)
  BY AddLetterKeeps, TurnLetterKeeps DEF Wheel, Same
\* LEFT,
LEMMA LeftKeeps ==
  ASSUME NEW w, IsWord(w), NEW keys PROVE IsWord(LeftOf(w, keys)) /\ Same(LeftOf(w, keys), w)
  BY DEF LeftOf, Same, IsWord, WordFields
\* and RIGHT.
LEMMA RightKeeps ==
  ASSUME NEW w, IsWord(w), NEW keys PROVE IsWord(RightOf(w, keys)) /\ Same(RightOf(w, keys), w)
  BY AddLetterKeeps DEF RightOf, Same, IsWord, WordFields
\* and B.
LEMMA DelKeeps ==
  ASSUME NEW w, IsWord(w), NEW keys PROVE IsWord(DelLetter(w, keys)) /\ Same(DelLetter(w, keys), w)
  BY DEF DelLetter, Same, IsWord, WordFields

Moved(w, keys) == DelLetter(RightOf(LeftOf(Wheel(w, keys), keys), keys), keys)
\* UP, DOWN, LEFT, RIGHT and B of one poll.
LEMMA MovedKeeps ==
  ASSUME NEW w, IsWord(w), NEW keys PROVE IsWord(Moved(w, keys)) /\ Same(Moved(w, keys), w)
<1>1. IsWord(Wheel(w, keys)) /\ Same(Wheel(w, keys), w)
  BY WheelKeeps
<1>2. IsWord(LeftOf(Wheel(w, keys), keys)) /\ Same(LeftOf(Wheel(w, keys), keys), w)
  BY <1>1, LeftKeeps DEF Same
<1>3. /\ IsWord(RightOf(LeftOf(Wheel(w, keys), keys), keys))
      /\ Same(RightOf(LeftOf(Wheel(w, keys), keys), keys), w)
  BY <1>2, RightKeeps DEF Same
<1> QED BY <1>3, DelKeeps DEF Same, Moved

\* The highlight is moved over the candidates there are.
LEMMA ScrollKeeps ==
  ASSUME NEW w, IsWord(w), NEW keys
  PROVE  /\ IsWord(Scroll(w, keys))
         /\ Scroll(w, keys).cands = w.cands /\ Scroll(w, keys).total = w.total
         /\ Scroll(w, keys).prefix = w.prefix
         /\ keys \cap {"L", "R"} = {} /\ Highlighted(w) =>
              Scroll(w, keys).highlight = w.highlight /\ Scroll(w, keys).shown = w.shown
<1> DEFINE n == Len(w.cands)
           by == (IF "L" \in keys THEN n - 1 ELSE 0) + (IF "R" \in keys THEN 1 ELSE 0)
<1>1. CASE n > 1
  <2>1. n \in Nat /\ w.highlight \in Nat
    BY DEF IsWord
  <2>2. by \in Nat /\ (keys \cap {"L", "R"} = {} => by = 0)
    <3>1. (IF "L" \in keys THEN n - 1 ELSE 0) \in Nat
      BY <1>1, <2>1
    <3>2. (IF "R" \in keys THEN 1 ELSE 0) \in Nat
      OBVIOUS
    <3>3. by \in Nat
      BY ONLY <3>1, <3>2, Total
    <3>4. ASSUME keys \cap {"L", "R"} = {} PROVE by = 0
      <4>1. "L" \notin keys /\ "R" \notin keys
        BY <3>4
      <4> QED BY ONLY <4>1
    <3> QED BY <3>3, <3>4
  <2>3. Scroll(w, keys) = [w EXCEPT !.highlight = (w.highlight + by) % n]
    BY <1>1 DEF Scroll
  <2>4. Highlighted(w) => w.highlight < n
    BY <1>1 DEF Highlighted
  <2> HIDE DEF n, by
  <2>5. (w.highlight + by) % n \in Nat
    <3>1. w.highlight + by \in Nat /\ n \in Nat \ {0}
      BY <1>1, <2>1, <2>2
    <3> QED BY <3>1, Remainder
  <2>6. ASSUME keys \cap {"L", "R"} = {}, Highlighted(w)
        PROVE  (w.highlight + by) % n = w.highlight
    BY <2>6, <2>1, <2>2, <2>4
  <2> QED BY <2>3, <2>5, <2>6 DEF IsWord, WordFields
<1>2. CASE ~(n > 1)
  BY <1>2 DEF Scroll
<1> QED BY <1>1, <1>2

\* All keys of a poll together: without L and R the highlight stays.
LEMMA TypedKeeps ==
  ASSUME NEW keys, IsWord(kb)
  PROVE  /\ IsWord(Typed(keys))
         /\ Typed(keys).cands = kb.cands /\ Typed(keys).total = kb.total
         /\ Typed(keys).prefix = Moved(kb, keys).prefix
         /\ keys \cap {"L", "R"} = {} /\ Highlighted(kb) =>
              Typed(keys).highlight = kb.highlight /\ Typed(keys).shown = kb.shown
<1>1. IsWord(Moved(kb, keys)) /\ Same(Moved(kb, keys), kb)
  BY MovedKeeps
<1>2. Highlighted(kb) => Highlighted(Moved(kb, keys))
  BY <1>1 DEF Highlighted, Same
<1>3. Typed(keys) = Scroll(Moved(kb, keys), keys)
  BY DEF Typed, Moved
<1> QED BY <1>1, <1>2, <1>3, ScrollKeeps DEF Same

\* A search leaves candidates, highlight and row 16 in step with the prefix.
LEMMA RenderCurrent ==
  ASSUME NEW w, IsWord(w)
  PROVE  IsWord(render_cands(w)) /\ Current(render_cands(w)) /\ Highlighted(render_cands(w))
<1> DEFINE all == bip39_filter_prefix(w.prefix)
           cands == SubSeq(all, 1, Min({Len(all), CANDS_CAP}))
           highlight == IF w.highlight >= Len(cands) THEN 0 ELSE w.highlight
           r == [w EXCEPT !.total = Len(all), !.cands = cands, !.highlight = highlight,
                          !.shown = IF cands = <<>> THEN 0 ELSE cands[highlight + 1]]
<1>1. render_cands(w) = r
  BY DEF render_cands
<1>2. Len(cands) \in Nat /\ (cands # <<>> => Len(cands) > 0) /\ w.highlight \in Nat
  <2>1. w.highlight \in Nat
    BY DEF IsWord
  <2> HIDE DEF all
  <2>2. Len(cands) \in Nat /\ (cands = <<>> <=> Len(cands) = 0)
    BY Kept
  <2> HIDE DEF cands
  <2> QED BY <2>1, <2>2
<1> HIDE DEF all, cands
<1>3. /\ r = [f \in WordFields |-> r[f]] /\ r.total = Len(all) /\ r.cands = cands
      /\ r.prefix = w.prefix /\ r.highlight = highlight
      /\ r.shown = IF cands = <<>> THEN 0 ELSE cands[highlight + 1]
  BY DEF IsWord, WordFields
<1>4. highlight \in Nat
  BY <1>2
<1>5. IsWord(r)
  BY <1>3, <1>4 DEF IsWord
<1>6. Current(r)
  BY <1>3 DEF Current, all, cands
<1>7. Highlighted(r)
  <2>1. CASE cands = <<>>
    <3>1. Len(cands) = 0
      BY <2>1
    <3> QED BY <2>1, <3>1, <1>2, <1>3 DEF Highlighted
  <2>2. CASE cands # <<>>
    BY <2>2, <1>2, <1>3 DEF Highlighted
  <2> QED BY <2>1, <2>2
<1> QED BY <1>1, <1>5, <1>6, <1>7

\* A poll that redraws nothing changed neither the prefix nor the highlight.
LEMMA RedrawCurrent ==
  ASSUME NEW keys, IsWord(kb), Current(kb), Highlighted(kb)
  PROVE  LET w == Redraw(Typed(keys), keys) IN IsWord(w) /\ Current(w) /\ Highlighted(w)
<1>1. CASE keys \cap {"up", "down", "B", "L", "R"} # {} \/ Typed(keys).prefix # kb.prefix
  BY <1>1, TypedKeeps, RenderCurrent DEF Redraw
<1>2. CASE keys \cap {"up", "down", "B", "L", "R"} = {} /\ Typed(keys).prefix = kb.prefix
  <2>1. Redraw(Typed(keys), keys) = Typed(keys)
    BY <1>2 DEF Redraw
  <2>2. keys \cap {"L", "R"} = {}
    BY <1>2
  <2> QED BY <1>2, <2>1, <2>2, TypedKeeps DEF Current, Highlighted
<1> QED BY <1>1, <1>2

\* A word begins with nothing typed and nothing found.
LEMMA NewWordCurrent == IsWord(NewWord) /\ Current(NewWord) /\ Highlighted(NewWord)
<1>1. IsWord(NewWord) /\ Highlighted(NewWord)
  BY DEF IsWord, WordFields, NewWord, Highlighted
<1>2. bip39_filter_prefix(NewWord.prefix) = <<>>
  BY DEF bip39_filter_prefix, NewWord
<1>3. Len(<<>>) = 0 /\ NewWord.total = 0 /\ NewWord.cands = <<>>
  BY DEF NewWord
<1>4. Min({Len(<<>>), CANDS_CAP}) = 0
  BY <1>3, SmallerOfTwo, PhraseAssumption
<1>5. SubSeq(<<>>, 1, Min({Len(<<>>), CANDS_CAP})) = <<>>
  BY <1>4, <1>3, Kept
<1> QED BY <1>1, <1>2, <1>3, <1>5 DEF Current

(*************************************************************************)
(* The helpers of the PIN.                                               *)
(*************************************************************************)
PinShape(p) ==
  /\ p \in [digits : [1..PIN_MAX_LEN -> Digit], pos : 1..PIN_MAX_LEN, out : Seq(Digit), shown : Digit]
  /\ Len(p.out) <= PIN_MAX_LEN

\* UP and DOWN turn the digit under the cursor.
LEMMA SpinShape ==
  ASSUME NEW p, PinShape(p), NEW keys
  PROVE  /\ PinShape(Spin(p, keys))
         /\ Spin(p, keys).out = p.out /\ Spin(p, keys).pos = p.pos
         /\ keys \cap {"up", "down"} = {} => Spin(p, keys) = p
<1> DEFINE by == (IF "up" \in keys THEN 1 ELSE 0) + (IF "down" \in keys THEN DIGITS - 1 ELSE 0)
           d == (p.digits[p.pos] + by) % DIGITS
<1>1. p.digits[p.pos] \in Digit /\ DIGITS \in Nat \ {0} /\ p.digits[p.pos] \in Nat
  BY PinAssumption DEF PinShape, Digit
<1>2. by \in Nat /\ (keys \cap {"up", "down"} = {} => by = 0)
  <2>1. (IF "up" \in keys THEN 1 ELSE 0) \in Nat
    OBVIOUS
  <2>2. (IF "down" \in keys THEN DIGITS - 1 ELSE 0) \in Nat
    BY <1>1
  <2>3. by \in Nat
    BY ONLY <2>1, <2>2, Total
  <2>4. ASSUME keys \cap {"up", "down"} = {} PROVE by = 0
    <3>1. "up" \notin keys /\ "down" \notin keys
      BY <2>4
    <3> QED BY ONLY <3>1
  <2> QED BY <2>3, <2>4
<1> HIDE DEF by
<1>3. d \in Digit
  <2>1. p.digits[p.pos] + by \in Nat
    BY <1>1, <1>2
  <2> QED BY <2>1, <1>1, Remainder DEF Digit
<1>4. Spin(p, keys) = [p EXCEPT !.digits = [p.digits EXCEPT ![p.pos] = d]]
  BY DEF Spin, by
<1>5. by = 0 => d = p.digits[p.pos]
  BY <1>1 DEF Digit
<1> HIDE DEF d
<1>6. keys \cap {"up", "down"} = {} => Spin(p, keys) = p
  BY <1>2, <1>4, <1>5 DEF PinShape
<1> QED BY <1>3, <1>4, <1>6 DEF PinShape

\* LEFT and RIGHT move the cursor.
LEMMA MoveShape ==
  ASSUME NEW p, PinShape(p), NEW keys
  PROVE  /\ PinShape(MovePin(p, keys)) /\ MovePin(p, keys).out = p.out
         /\ keys \cap {"left", "right"} = {} => MovePin(p, keys) = p
<1> DEFINE left == IF "left" \in keys /\ p.pos > 1 THEN p.pos - 1 ELSE p.pos
           at == IF "right" \in keys /\ left < PIN_MAX_LEN THEN left + 1 ELSE left
<1>1. left \in 1..PIN_MAX_LEN
  BY PinAssumption DEF PinShape
<1>2. at \in 1..PIN_MAX_LEN
  BY <1>1, PinAssumption
<1>3. MovePin(p, keys) = [p EXCEPT !.pos = at]
  BY DEF MovePin
<1>4. ASSUME keys \cap {"left", "right"} = {} PROVE at = p.pos
  <2>1. "left" \notin keys /\ "right" \notin keys
    BY <1>4
  <2> QED BY ONLY <2>1
<1> HIDE DEF at
<1> QED BY <1>2, <1>3, <1>4 DEF PinShape

\* A adds the digit under the cursor, while there is room for one.
LEMMA AddShape ==
  ASSUME NEW p, PinShape(p), NEW keys
  PROVE  /\ PinShape(AddDigit(p, keys))
         /\ "A" \notin keys => AddDigit(p, keys) = p
         /\ AddDigit(p, keys).out \in {p.out, Append(p.out, p.digits[p.pos])}
<1>1. CASE "A" \in keys /\ Len(p.out) < PIN_MAX_LEN
  <2> DEFINE at == IF p.pos < PIN_MAX_LEN THEN p.pos + 1 ELSE p.pos
  <2>1. at \in 1..PIN_MAX_LEN
    BY PinAssumption DEF PinShape
  <2>2. AddDigit(p, keys) = [p EXCEPT !.out = Append(p.out, p.digits[p.pos]), !.pos = at]
    BY <1>1 DEF AddDigit
  <2>3. p.out \in Seq(Digit) /\ p.digits[p.pos] \in Digit
    BY DEF PinShape
  <2>4. /\ Append(p.out, p.digits[p.pos]) \in Seq(Digit)
        /\ Len(Append(p.out, p.digits[p.pos])) = Len(p.out) + 1
    BY <2>3
  <2>5. Len(p.out) + 1 <= PIN_MAX_LEN
    BY <1>1, <2>3, PinAssumption
  <2> HIDE DEF at
  <2> QED BY <1>1, <2>1, <2>2, <2>4, <2>5 DEF PinShape
<1>2. CASE ~("A" \in keys /\ Len(p.out) < PIN_MAX_LEN)
  BY <1>2 DEF AddDigit
<1> QED BY <1>1, <1>2

\* B drops the last digit.
LEMMA DropShape ==
  ASSUME NEW p, PinShape(p), NEW keys
  PROVE  /\ PinShape(DropDigit(p, keys)) /\ Len(DropDigit(p, keys).out) <= Len(p.out)
         /\ "B" \notin keys => DropDigit(p, keys) = p
<1>1. CASE "B" \in keys /\ p.out # <<>>
  <2>1. DropDigit(p, keys) = [p EXCEPT !.out = Front(p.out)]
    BY <1>1 DEF DropDigit
  <2>2. p.out \in Seq(Digit) /\ p.out # <<>>
    BY <1>1 DEF PinShape
  <2>3. Front(p.out) \in Seq(Digit) /\ Len(Front(p.out)) = Len(p.out) - 1
    BY <2>2 DEF Front
  <2>4. Len(Front(p.out)) <= Len(p.out) /\ Len(Front(p.out)) <= PIN_MAX_LEN
    <3>1. Len(p.out) \in Nat /\ PIN_MAX_LEN \in Nat /\ Len(p.out) <= PIN_MAX_LEN
      BY PinAssumption DEF PinShape
    <3> QED BY ONLY <3>1, <2>3
  <2> DEFINE f == Front(p.out)
  <2> HIDE DEF f
  <2>5. DropDigit(p, keys) = [p EXCEPT !.out = f]
    BY <2>1 DEF f
  <2>6. f \in Seq(Digit) /\ Len(f) <= PIN_MAX_LEN /\ Len(f) <= Len(p.out)
    BY <2>3, <2>4 DEF f
  <2>7. [p EXCEPT !.out = f].out = f /\ PinShape([p EXCEPT !.out = f])
    BY <2>6 DEF PinShape
  <2> QED BY <1>1, <2>5, <2>6, <2>7
<1>2. CASE ~("B" \in keys /\ p.out # <<>>)
  BY <1>2 DEF DropDigit, PinShape
<1> QED BY <1>1, <1>2

\* One poll of the PIN screen, drawn: the shape is kept, and A alone adds the
\* digit that was on the screen.
AfterKeys(keys) == DropDigit(AddDigit(MovePin(Spin(pin, keys), keys), keys), keys)
LEMMA PinStep ==
  ASSUME NEW keys, PinInv
  PROVE  LET p == render_field(AfterKeys(keys)) IN
         /\ PinShape(p) /\ p.shown = p.digits[p.pos] /\ p.out = AfterKeys(keys).out
         /\ Len(p.out) > Len(pin.out) =>
              "A" \in keys /\ (keys = {"A"} => Last(p.out) = pin.shown)
<1> DEFINE a == Spin(pin, keys)
           b == MovePin(a, keys)
           c == AddDigit(b, keys)
           d == DropDigit(c, keys)
<1>1. PinShape(pin) /\ pin.shown = pin.digits[pin.pos]
  BY DEF PinInv, PinShape
<1>2. /\ PinShape(a) /\ a.out = pin.out
      /\ keys \cap {"up", "down"} = {} => a = pin
  BY <1>1, SpinShape
<1> HIDE DEF a
<1>3. /\ PinShape(b) /\ b.out = pin.out
      /\ keys \cap {"left", "right"} = {} => b = a
  BY <1>2, MoveShape
<1> HIDE DEF b
<1>4. /\ PinShape(c) /\ ("A" \notin keys => c = b)
      /\ c.out \in {b.out, Append(b.out, b.digits[b.pos])}
  BY <1>3, AddShape
<1> HIDE DEF c
<1>5. /\ PinShape(d) /\ Len(d.out) <= Len(c.out)
      /\ "B" \notin keys => d = c
  BY <1>4, DropShape
<1>6. AfterKeys(keys) = d
  BY DEF AfterKeys, d, c, b, a
<1> HIDE DEF d
<1>7. render_field(d) = [d EXCEPT !.shown = d.digits[d.pos]] /\ d.digits[d.pos] \in Digit
  BY <1>5 DEF render_field, PinShape
<1>8. PinShape(render_field(d)) /\ render_field(d).shown = render_field(d).digits[render_field(d).pos]
      /\ render_field(d).out = d.out
  BY <1>5, <1>7 DEF PinShape
<1>9. ASSUME Len(d.out) > Len(pin.out) PROVE "A" \in keys /\ (keys = {"A"} => Last(d.out) = pin.shown)
  <2>1. "A" \in keys
    <3>1. ASSUME "A" \notin keys PROVE FALSE
      <4>1. c.out = pin.out
        BY <3>1, <1>3, <1>4
      <4>2. Len(d.out) \in Nat /\ Len(pin.out) \in Nat
        OBVIOUS
      <4> QED BY ONLY <4>1, <4>2, <1>5, <1>9
    <3> QED BY <3>1
  <2>2. ASSUME keys = {"A"} PROVE Last(d.out) = pin.shown
    <3>1. a = pin /\ b = pin /\ d = c
      BY <2>2, <1>2, <1>3, <1>5
    <3>2. d.out # pin.out
      BY ONLY <1>9
    <3>3. d.out = Append(pin.out, pin.digits[pin.pos])
      BY <3>1, <3>2, <1>4
    <3>4. pin.out \in Seq(Digit)
      BY <1>1 DEF PinShape
    <3>5. Last(Append(pin.out, pin.digits[pin.pos])) = pin.digits[pin.pos]
      BY <3>4 DEF Last
    <3> QED BY <3>3, <3>5, <1>1
  <2> QED BY <2>1, <2>2
<1> QED BY <1>6, <1>8, <1>9

(*************************************************************************)
(* The invariant holds, and with it the properties.                      *)
(*************************************************************************)
\* The invariant starts out true.
LEMMA InitHolds == ASSUME EntryInit PROVE EntryInv
<1>1. PinInv
  <2>1. <<>> \in Seq(Digit) /\ Len(<<>>) = 0
    OBVIOUS
  <2>2. NewPin \in [digits : [1..PIN_MAX_LEN -> Digit], pos : 1..PIN_MAX_LEN, out : Seq(Digit), shown : Digit]
    BY <2>1, PinAssumption DEF NewPin, Digit
  <2> QED BY <2>1, <2>2, PinAssumption DEF EntryInit, PinInv, NewPin, Digit
<1>2. WordInv
  BY NewWordCurrent DEF EntryInit, WordInv
<1>3. ReviewInv /\ SecretIsReviewed
  BY DEF EntryInit, ReviewInv, SecretIsReviewed
<1> QED BY <1>1, <1>2, <1>3 DEF EntryInv

\* The phrase has slots, so it is never taken for no phrase.
LEMMA PhraseIsSome == ASSUME ReviewInv PROVE words # <<>>
<1>1. 1 \in Slots
  BY PhraseAssumption DEF Slots
<1> QED BY <1>1 DEF ReviewInv

\* It is kept by a poll of the PIN entry,
LEMMA PinKept == ASSUME EntryInv, NEW keys, pin_input(keys) PROVE EntryInv'
<1> USE DEF EntryInv
<1> DEFINE p == render_field(AfterKeys(keys))
<1>1. /\ PinShape(p) /\ p.shown = p.digits[p.pos] /\ p.out = AfterKeys(keys).out
  BY PinStep
<1>2. PinShape(pin) /\ scr = "pin" /\ reviewed = <<>>
  BY DEF PinInv, PinShape, ReviewInv, pin_input
<1>3. \/ scr' = "cancelled" /\ pin' = pin
      \/ pin' = p /\ scr' = IF "start" \in keys /\ Len(p.out) >= PIN_MIN_LEN THEN "done" ELSE scr
  BY <1>1 DEF pin_input, AfterKeys
<1> HIDE DEF p
<1>4. PinInv'
  BY <1>1, <1>3 DEF PinInv, PinShape
<1>5. scr' \in {"cancelled", "done", "pin"} /\ reviewed' = reviewed /\ words' = words
  BY <1>2, <1>3 DEF pin_input
<1>6. WordInv' /\ ReviewInv'
  BY <1>2, <1>5 DEF WordInv, ReviewInv
<1>7. SecretIsReviewed'
  <2>1. scr' = "done" => Len(pin'.out) \in PIN_MIN_LEN..PIN_MAX_LEN
    <3> SUFFICES ASSUME scr' = "done" PROVE Len(pin'.out) \in PIN_MIN_LEN..PIN_MAX_LEN
      OBVIOUS
    <3>1. pin' = p /\ Len(p.out) >= PIN_MIN_LEN
      BY <1>2, <1>3
    <3>2. Len(p.out) \in Nat /\ Len(p.out) <= PIN_MAX_LEN
      BY <1>1 DEF PinShape
    <3> QED BY <3>1, <3>2, PinAssumption
  <2> QED BY <2>1, <1>2, <1>5 DEF SecretIsReviewed
<1> QED BY <1>4, <1>6, <1>7

\* by one of the word entry, which may pick a word,
LEMMA WordKept == ASSUME EntryInv, NEW keys, input_one_word(keys) PROVE EntryInv'
<1> USE DEF EntryInv
<1>1. scr = "word" /\ IsWord(kb) /\ Current(kb) /\ Highlighted(kb) /\ words = [i \in Slots |-> words[i]]
  BY DEF input_one_word, WordInv, ReviewInv
<1>2. PinInv'
  BY DEF input_one_word, PinInv
<1>3. \/ scr' = "cancelled" /\ words' = words
      \/ words' = words /\ OpenReview
      \/ words' = words /\ scr' = "word" /\ kb' = NewWord
      \/ (\E x : words' = [words EXCEPT ![slot] = x]) /\ OpenReview
      \/ (\E x : words' = [words EXCEPT ![slot] = x]) /\ scr' = "word" /\ kb' = NewWord
      \/ words' = words /\ scr' = "word" /\ kb' = Redraw(Typed(keys), keys)
  BY <1>1 DEF input_one_word, OpenSlot
<1>4. words' = [i \in Slots |-> words'[i]]
  BY <1>1, <1>3
<1>5. scr' = "word" => kb' = NewWord \/ kb' = Redraw(Typed(keys), keys)
  BY <1>3 DEF OpenReview
<1>6. WordInv'
  BY <1>1, <1>5, NewWordCurrent, RedrawCurrent DEF WordInv
<1>7. \/ scr' \in {"word", "cancelled"}
      \/ scr' = "review" /\ reviewed' = words'
  BY <1>3 DEF OpenReview
<1>8. ReviewInv' /\ SecretIsReviewed'
  BY <1>4, <1>7 DEF ReviewInv, SecretIsReviewed
<1> QED BY <1>2, <1>6, <1>8

\* by one of the review, which may hand the phrase on or go back to a word,
LEMMA ReviewKept == ASSUME EntryInv, NEW keys, review_screen(keys) PROVE EntryInv'
<1> USE DEF EntryInv
<1>1. scr = "review" /\ words' = words /\ pin' = pin /\ reviewed = words
  BY DEF review_screen, ReviewInv
<1>2. \/ scr' = "done" /\ bip39_validate_words(words) /\ reviewed' = reviewed
      \/ scr' = "error" /\ reviewed' = reviewed
      \/ scr' = "word" /\ kb' = NewWord
      \/ scr' = "review" /\ reviewed' = words
  BY <1>1 DEF review_screen, OpenSlot
<1>3. PinInv'
  BY <1>1 DEF PinInv
<1>4. WordInv'
  BY <1>2, NewWordCurrent DEF WordInv
<1>5. ReviewInv'
  BY <1>1, <1>2 DEF ReviewInv
<1>6. SecretIsReviewed'
  BY <1>1, <1>2, PhraseIsSome DEF SecretIsReviewed, bip39_validate_words
<1> QED BY <1>3, <1>4, <1>5, <1>6

\* by one of the screen of the checksum error,
LEMMA ErrorKept == ASSUME EntryInv, NEW keys, error_screen(keys) PROVE EntryInv'
<1> USE DEF EntryInv
<1>1. scr = "error" /\ words' = words /\ pin' = pin /\ reviewed = words
  BY DEF error_screen, ReviewInv
<1>2. \/ scr' = "word" /\ kb' = NewWord
      \/ scr' = "review" /\ reviewed' = words'
      \/ scr' = "error" /\ reviewed' = reviewed
  BY <1>1 DEF error_screen, OpenSlot, OpenReview
<1>3. PinInv'
  BY <1>1 DEF PinInv
<1>4. WordInv'
  BY <1>2, NewWordCurrent DEF WordInv
<1>5. ReviewInv' /\ SecretIsReviewed'
  BY <1>1, <1>2 DEF ReviewInv, SecretIsReviewed
<1> QED BY <1>3, <1>4, <1>5

\* and by a session that is begun anew.
LEMMA OpenedKept == ASSUME EntryInv, Opened PROVE EntryInv'
<1> USE DEF EntryInv
<1>1. /\ scr' \in {"open", "pin", "word"} /\ pin' = NewPin /\ kb' = NewWord
      /\ words' = [i \in Slots |-> 1] /\ reviewed' = <<>>
  BY DEF Opened
<1>2. PinInv'
  <2>1. <<>> \in Seq(Digit) /\ Len(<<>>) = 0
    OBVIOUS
  <2>2. NewPin \in [digits : [1..PIN_MAX_LEN -> Digit], pos : 1..PIN_MAX_LEN, out : Seq(Digit), shown : Digit]
    BY <2>1, PinAssumption DEF NewPin, Digit
  <2> QED BY <1>1, <2>1, <2>2, PinAssumption DEF PinInv, NewPin, Digit
<1>3. WordInv'
  BY <1>1, NewWordCurrent DEF WordInv
<1>4. ReviewInv' /\ SecretIsReviewed'
  BY <1>1 DEF ReviewInv, SecretIsReviewed
<1> QED BY <1>2, <1>3, <1>4

\* EntryInv is inductive.
LEMMA EntryInductive == ASSUME EntryInv, [EntryNext \/ Opened]_entryVars PROVE EntryInv'
<1>1. CASE UNCHANGED entryVars
  BY <1>1 DEF entryVars, EntryInv, PinInv, WordInv, IsWord, Current, Highlighted, ReviewInv, SecretIsReviewed
<1>2. CASE EntryNext
  BY <1>2, PinKept, WordKept, ReviewKept, ErrorKept DEF EntryNext
<1>3. CASE Opened
  BY <1>3, OpenedKept
<1> QED BY <1>1, <1>2, <1>3

\* The invariant holds of an entry that is left and begun again.
THEOREM EntryAlways == EntrySpec => []EntryInv
<1>1. EntryInit => EntryInv
  BY InitHolds
<1>2. EntryInv /\ [EntryNext \/ Opened]_entryVars => EntryInv'
  BY EntryInductive
<1> QED BY <1>1, <1>2, PTL DEF EntrySpec

\* The run's steps are steps of the entry, or of the screens, which leave it
\* alone.
LEMMA EntryRun == ScreensSpec => EntrySpec
<1>1. ScreensInit => EntryInit
  BY DEF ScreensInit
<1>2. [ScreensNext]_<<vars, entryVars>> => [EntryNext \/ Opened]_entryVars
  BY DEF ScreensNext
<1> QED BY <1>1, <1>2, PTL DEF ScreensSpec, EntrySpec

\* A secret is handed on only when it is one: a PIN of a length it may have, or
\* the phrase the review last drew, and only if it checks out.
THEOREM SecretsAreReviewed == ScreensSpec => []SecretIsReviewed
<1>1. EntryInv => SecretIsReviewed
  BY DEF EntryInv
<1> QED BY <1>1, EntryAlways, EntryRun, PTL

\* A never picks from the candidates of another prefix.
THEOREM CandidatesCurrent == ScreensSpec => []CandidatesAreCurrent
<1>1. EntryInv => CandidatesAreCurrent
  BY DEF EntryInv, WordInv, Current, CandidatesAreCurrent
<1> QED BY <1>1, EntryAlways, EntryRun, PTL

\* A, alone, accepts the digit or the word that is on the screen.
THEOREM ShownIsAccepted == ScreensSpec => AcceptedWasShown
<1> DEFINE A == /\ scr = "pin" /\ Len(pin'.out) > Len(pin.out) =>
                     blind' \/ Last(pin'.out) = pin.shown
                /\ scr = "word" /\ words' # words => blind' \/ words'[slot] = kb.shown
<1>1. ASSUME EntryInv, NEW keys, pin_input(keys) PROVE A
  <2>1. scr = "pin" /\ blind' = ("A" \in keys /\ keys # {"A"})
    BY <1>1 DEF pin_input
  <2>2. pin' = pin \/ pin' = render_field(AfterKeys(keys))
    BY <1>1 DEF pin_input, AfterKeys
  <2>3. Len(pin.out) \in Nat
    OBVIOUS
  <2>4. CASE pin' = pin
    BY <2>1, <2>3, <2>4
  <2>5. CASE pin' = render_field(AfterKeys(keys))
    <3>1. PinInv
      BY <1>1 DEF EntryInv
    <3>2. Len(pin'.out) > Len(pin.out) => "A" \in keys /\ (keys = {"A"} => Last(pin'.out) = pin.shown)
      BY <2>5, <3>1, PinStep
    <3> QED BY <2>1, <3>2
  <2> QED BY <2>2, <2>4, <2>5
<1>2. ASSUME EntryInv, NEW keys, input_one_word(keys) PROVE A
  <2>1. /\ scr = "word" /\ blind' = ("A" \in keys /\ keys # {"A"})
        /\ IsWord(kb) /\ Highlighted(kb) /\ words = [i \in Slots |-> words[i]]
    BY <1>2 DEF input_one_word, EntryInv, WordInv, ReviewInv
  <2>2. SUFFICES ASSUME words' # words, ~blind' PROVE words'[slot] = kb.shown
    BY <2>1
  <2>3. /\ "A" \in keys /\ Pickable(kb)
        /\ words' = [words EXCEPT ![slot] = kb.cands[Typed(keys).highlight + 1]]
    BY <1>2, <2>2 DEF input_one_word
  <2>4. keys = {"A"} /\ keys \cap {"L", "R"} = {}
    BY <2>1, <2>2, <2>3
  <2>5. Typed(keys).highlight = kb.highlight
    BY <2>1, <2>4, TypedKeeps
  <2>6. kb.cands # <<>>
    <3>1. Current(kb) /\ kb.total \in 1..CANDS_CAP
      BY <1>2, <2>1, <2>3 DEF EntryInv, WordInv, Pickable
    <3> DEFINE all == bip39_filter_prefix(kb.prefix)
               m == Min({Len(all), CANDS_CAP})
    <3>2. Len(all) \in 1..CANDS_CAP /\ kb.cands = SubSeq(all, 1, m)
      BY <3>1 DEF Current
    <3> HIDE DEF all
    <3>3. m = Len(all)
      BY <3>2, SmallerOfTwo, PhraseAssumption
    <3>4. kb.cands = <<>> <=> m = 0
      BY <3>2, Kept
    <3> QED BY <3>2, <3>3, <3>4
  <2>7. kb.cands[kb.highlight + 1] = kb.shown
    BY <2>1, <2>6 DEF Highlighted
  <2>8. slot \in DOMAIN words
    <3>1. ASSUME slot \notin DOMAIN words, NEW x PROVE [words EXCEPT ![slot] = x] = words
      BY <3>1, <2>1
    <3> QED BY <3>1, <2>2, <2>3
  <2> QED BY <2>3, <2>5, <2>7, <2>8
<1>3. ASSUME EntryInv, [EntryNext \/ Opened]_entryVars PROVE [A]_entryVars
  <2>1. CASE UNCHANGED entryVars
    BY <2>1
  <2>2. CASE Opened
    BY <2>2 DEF Opened
  <2>3. CASE EntryNext
    <3>1. PICK keys \in KeySets : \/ pin_input(keys) \/ input_one_word(keys)
                                 \/ review_screen(keys) \/ error_screen(keys)
      BY <2>3 DEF EntryNext
    <3>2. CASE pin_input(keys)
      BY <1>1, <1>3, <3>2
    <3>3. CASE input_one_word(keys)
      BY <1>2, <1>3, <3>3
    <3>4. CASE review_screen(keys) \/ error_screen(keys)
      BY <3>4 DEF review_screen, error_screen
    <3> QED BY <3>1, <3>2, <3>3, <3>4
  <2> QED BY <1>3, <2>1, <2>2, <2>3
<1> QED BY <1>3, EntryAlways, EntryRun, PTL DEF EntrySpec, AcceptedWasShown
=============================================================================
