----------------------------- MODULE PagesProofs -----------------------------
(* Theorems about what the confirmation screens show: every byte and every  *)
(* line on the way to the last page, the warnings of calls that drain an    *)
(* account, calls that leave out nothing, texts whose pages follow on.      *)
EXTENDS ConfirmProofs

(*************************************************************************)
(* What is drawn can be read.                                            *)
(*************************************************************************)
\* A row between the two bars shows what the page draws there last, perhaps one
\* row further up.
Between(p, k) ==
  /\ k \in DOMAIN p.rows /\ DOMAIN p.rows \subseteq Int
  /\ p.rows[k][1] \in 2..TEXT_ROWS - 3
  /\ \A j \in DOMAIN p.rows : p.rows[j][1] = p.rows[k][1] => j <= k
\* What such an element says is on the screen once the page is drawn.
LEMMA RowDrawn ==
  ASSUME NEW s, NEW p, NEW k, Between(p, k)
  PROVE  \E r \in Row : Draw(s, p)[r] = p.rows[k][2]
<1> DEFINE On(r) == {i \in DOMAIN p.rows : p.rows[i][1] = r}
           before == text_titlebar(IF p.clear THEN text_clear ELSE s, p.title)
           body == [r \in Row |-> IF On(r) = {} THEN before[r] ELSE p.rows[Max(On(r))][2]]
           row == p.rows[k][1]
           drawn == text_at(text_at(body, TEXT_ROWS - 2, <<"rule">>), TEXT_ROWS - 1, <<"hints", p.hints>>)
<1>1. Draw(s, p) = text_statusbar(body, p.hints)
  BY DEF Draw
<1>2. row \in 2..17 /\ Row = 0..19
  BY DEF Between, Row, TEXT_ROWS
<1>3. k \in On(row) /\ On(row) \subseteq Int /\ \A j \in On(row) : j <= k
  BY DEF Between
<1>4. Max(On(row)) = k
  BY <1>3, Greatest
<1>5. body[row] = p.rows[k][2]
  <2>1. On(row) # {} /\ row \in Row
    BY <1>2, <1>3
  <2>2. body[row] = IF On(row) = {} THEN before[row] ELSE p.rows[Max(On(row))][2]
    BY <2>1
  <2> HIDE DEF On, body, before
  <2> QED BY <1>4, <2>1, <2>2
<1>6. DOMAIN body = Row
  OBVIOUS
<1> HIDE DEF body, On, before
<1>7. drawn[row] = p.rows[k][2] /\ DOMAIN drawn = Row
  BY <1>2, <1>5, <1>6 DEF text_at, TEXT_ROWS
<1> HIDE DEF drawn
<1>8. CASE Len(p.hints) > TEXT_COLS
  <2>1. Draw(s, p) = newRow(drawn)
    BY <1>1, <1>8 DEF text_statusbar, drawn
  <2>2. row - 1 \in Row /\ row - 1 # TEXT_ROWS - 1 /\ row - 1 + 1 = row
    BY <1>2 DEF TEXT_ROWS
  <2>3. newRow(drawn)[row - 1] = drawn[row]
    BY <2>2 DEF newRow
  <2> QED BY <1>7, <2>1, <2>2, <2>3
<1>9. CASE ~(Len(p.hints) > TEXT_COLS)
  <2>1. Draw(s, p) = drawn
    BY <1>1, <1>9 DEF text_statusbar, drawn
  <2> QED BY <1>2, <1>7, <2>1
<1> QED BY <1>8, <1>9

\* A row of content that is drawn so is read.
LEMMA RowRead ==
  ASSUME NEW s, NEW p, NEW k, Between(p, k),
         p.rows[k][2] # <<>>, p.rows[k][2][1] \in {"data", "text", "line"}
  PROVE  p.rows[k][2] \in ContentRows(Draw(s, p))
<1>1. PICK r \in Row : Draw(s, p)[r] = p.rows[k][2]
  BY RowDrawn
<1> HIDE DEF Between
<1> QED BY <1>1 DEF ContentRows

(*************************************************************************)
(* What the calldata decoder of v0.2 understands.                        *)
(*************************************************************************)
\* The types of the seven functions of v0.2, counted.
LEMMA LegacyTypes == ASSUME NEW fn \in LegacyFns PROVE Len(Args[fn]) \in Nat /\ DOMAIN Args[fn] = 1..Len(Args[fn])
<1>1. CASE fn = "deposit"
  BY <1>1 DEF Args
<1>2. CASE fn = "withdraw"
  BY <1>2 DEF Args, Amounts
<1>3. CASE fn \in {"transfer", "approve", "setApprovalForAll"}
  BY <1>3 DEF Args
<1>4. CASE fn \in {"transferFrom", "safeTransferFrom"}
  <2>1. Args[fn] = Addresses(2) \o Amounts(1)
    <3>1. CASE fn = "transferFrom"
      BY <3>1 DEF Args
    <3>2. CASE fn = "safeTransferFrom"
      BY <3>2 DEF Args
    <3> QED BY <1>4, <3>1, <3>2
  <2>2. Len(Addresses(2)) = 2 /\ Len(Amounts(1)) = 1
    BY DEF Addresses, Amounts
  <2> QED BY <2>1, <2>2
<1> QED BY <1>1, <1>2, <1>3, <1>4 DEF LegacyFns

\* What eth_abi_decode understands.
IsCall(data, c) ==
  /\ c.ok /\ c.fn \in LegacyFns /\ Selector[c.fn] = Slice(data, 1, 4) /\ Clean(data, Args[c.fn])
  /\ c.args = [i \in DOMAIN Args[c.fn] |-> Arg(Args[c.fn][i], Slot(data, i))]
\* A call of v0.2 is one of its functions, with its selector, clean arguments and
\* no byte more (eth_abi_decode).
LEMMA LegacyCall == ASSUME NEW data, eth_abi_decode(data).ok PROVE IsCall(data, eth_abi_decode(data))
<1> DEFINE fns == {fn \in LegacyFns \cap abi_lookup_selector(data) : Clean(data, Args[fn])}
           fn == CHOOSE f \in fns : TRUE
           types == Args[fn]
           c == [ok |-> TRUE, fn |-> fn, args |-> [i \in DOMAIN types |-> Arg(types[i], Slot(data, i))]]
<1>1. eth_abi_decode(data) = IF fns = {} THEN NotDecoded ELSE c
  BY DEF eth_abi_decode
<1>2. NotDecoded.ok = FALSE
  BY DEF NotDecoded
<1>3. eth_abi_decode(data) = c /\ fns # {}
  <2> HIDE DEF fns, c
  <2> QED BY <1>1, <1>2
<1>4. fn \in fns
  BY <1>3
<1>5. fn \in LegacyFns /\ Selector[fn] = Slice(data, 1, 4) /\ Clean(data, Args[fn])
  <2> HIDE DEF fn
  <2> QED BY <1>4 DEF abi_lookup_selector
<1> HIDE DEF fn
<1> QED BY <1>3, <1>5 DEF IsCall

\* What is hidden of a clean argument is zero.
Hides(type) == CASE type = "address" -> 12 [] type = "bool" -> 31 [] OTHER -> 0
\* The bytes of a slot that the page does not show were checked to be zero.
LEMMA HiddenIsZero ==
  ASSUME NEW s, Len(s) = 32, NEW type, type = "address" => CleanAddress(s), type = "bool" => CleanBool(s),
         NEW j \in 1..32, j <= Hides(type)
  PROVE  s[j] = 0
<1>1. CASE type = "address"
  <2>1. Hides(type) = 12
    BY <1>1 DEF Hides
  <2>2. j \in DOMAIN SubSeq(s, 1, 12) /\ SubSeq(s, 1, 12)[j] = s[j]
    BY <2>1
  <2> QED BY <1>1, <2>2 DEF CleanAddress, AllZero
<1>2. CASE type = "bool"
  <2>1. Hides(type) = 31
    BY <1>2 DEF Hides
  <2>2. j \in DOMAIN SubSeq(s, 1, 31) /\ SubSeq(s, 1, 31)[j] = s[j]
    BY <2>1
  <2> QED BY <1>2, <2>2 DEF CleanBool, AllZero
<1>3. CASE type \notin {"address", "bool"}
  BY <1>3 DEF Hides
<1> QED BY <1>1, <1>2, <1>3

\* The selector and what is shown of the arguments give back the data.
LEMMA CallIsData ==
  ASSUME NEW data, Str(data), NEW c, IsCall(data, c)
  PROVE  data = [k \in 1..4 + 32 * Len(c.args) |->
            IF k <= 4 THEN Selector[c.fn][k]
            ELSE LET a == c.args[((k - 5) \div 32) + 1]
                     j == ((k - 5) % 32) + 1
                 IN IF j <= Hides(a.type) THEN 0 ELSE a.value[j]]
<1> DEFINE types == Args[c.fn]
           n == Len(types)
<1>1. n \in Nat /\ DOMAIN types = 1..n
  BY LegacyTypes DEF IsCall
<1>2. Len(data) = 4 + 32 * n /\ Len(data) \in Nat /\ data = [k \in 1..Len(data) |-> data[k]]
  BY DEF IsCall, Clean, Str
<1>3. Len(c.args) = n /\ \A i \in 1..n : c.args[i] = Arg(types[i], Slot(data, i))
  <2> HIDE DEF n, types
  <2>1. c.args = [i \in 1..n |-> Arg(types[i], Slot(data, i))]
    BY <1>1 DEF IsCall, types
  <2> QED BY <1>1, <2>1
<1>4. \A i \in 1..n : /\ types[i] = "address" => CleanAddress(Slot(data, i))
                      /\ types[i] = "bool" => CleanBool(Slot(data, i))
  BY <1>1 DEF IsCall, Clean
<1> HIDE DEF n, types
<1>5. ASSUME NEW i \in 1..n
      PROVE  Len(Slot(data, i)) = 32 /\ \A j \in 1..32 : Slot(data, i)[j] = data[5 + 32 * (i - 1) + j - 1]
  <2> DEFINE from == 5 + 32 * (i - 1)
  <2>1. from \in Int /\ from >= 1 /\ from + 32 <= Len(data) + 1 /\ 32 \in Nat /\ 32 \in Int
    BY <1>1, <1>2
  <2>2. Slot(data, i) = Slice(data, from, 32)
    BY DEF Slot
  <2> HIDE DEF from
  <2>3. Len(Slice(data, from, 32)) = 32
    BY <1>2, <2>1, Stretch
  <2>4. \A j \in 1..Len(Slice(data, from, 32)) : Slice(data, from, 32)[j] = data[from + j - 1]
    BY <1>2, <2>1, Stretch
  <2>5. \A j \in 1..32 : Slice(data, from, 32)[j] = data[from + j - 1]
    BY <2>3, <2>4
  <2> QED BY <2>2, <2>3, <2>5 DEF from
<1>6. ASSUME NEW k \in 1..4 PROVE data[k] = Selector[c.fn][k]
  <2>1. 1 \in Int /\ 4 \in Int /\ 4 \in Nat /\ 1 >= 1 /\ 1 + 4 <= Len(data) + 1
    BY <1>1, <1>2
  <2>2. Len(Slice(data, 1, 4)) = 4
    BY <1>2, <2>1, Stretch
  <2>3. \A i \in 1..Len(Slice(data, 1, 4)) : Slice(data, 1, 4)[i] = data[1 + i - 1]
    BY <1>2, <2>1, Stretch
  <2>4. Slice(data, 1, 4)[k] = data[1 + k - 1] /\ 1 + k - 1 = k
    BY <2>2, <2>3
  <2> QED BY <2>4 DEF IsCall
<1>7. ASSUME NEW k \in 5..4 + 32 * n
      PROVE  LET a == c.args[((k - 5) \div 32) + 1]
                 j == ((k - 5) % 32) + 1
             IN data[k] = IF j <= Hides(a.type) THEN 0 ELSE a.value[j]
  <2> DEFINE i == ((k - 5) \div 32) + 1
             j == ((k - 5) % 32) + 1
  <2>1. i \in 1..n /\ j \in 1..32 /\ 5 + 32 * (i - 1) + j - 1 = k
    <3> DEFINE q == k - 5
    <3>1. q \in Nat /\ q < 32 * n /\ k = q + 5
      BY <1>1
    <3>2. i = (q \div 32) + 1 /\ j = (q % 32) + 1
      OBVIOUS
    <3> HIDE DEF q, i, j
    <3>3. q = 32 * (q \div 32) + (q % 32) /\ q \div 32 \in Nat /\ q % 32 \in 0..31
      BY <3>1
    <3>4. q \div 32 < n
      BY <1>1, <3>1, <3>3
    <3> QED BY <1>1, <3>1, <3>2, <3>3, <3>4
  <2> HIDE DEF i, j
  <2> DEFINE s == Slot(data, i)
  <2>2. c.args[i].type = types[i] /\ c.args[i].value = s
    <3>1. c.args[i] = Arg(types[i], s)
      BY <1>3, <2>1
    <3> HIDE DEF s
    <3> QED BY <3>1 DEF Arg
  <2>3. Len(s) = 32 /\ s[j] = data[k]
    BY <1>5, <2>1
  <2>4. (types[i] = "address" => CleanAddress(s)) /\ (types[i] = "bool" => CleanBool(s))
    BY <1>4, <2>1
  <2> HIDE DEF s
  <2>5. j <= Hides(types[i]) => s[j] = 0
    BY <2>1, <2>3, <2>4, HiddenIsZero
  <2>6. data[k] = IF j <= Hides(c.args[i].type) THEN 0 ELSE c.args[i].value[j]
    BY <2>2, <2>3, <2>5
  <2> QED BY <2>6 DEF i, j
<1>8. ASSUME NEW k \in 1..4 + 32 * n
      PROVE  data[k] = IF k <= 4 THEN Selector[c.fn][k]
                       ELSE LET a == c.args[((k - 5) \div 32) + 1]
                                j == ((k - 5) % 32) + 1
                            IN IF j <= Hides(a.type) THEN 0 ELSE a.value[j]
  <2>1. CASE k <= 4
    BY <1>1, <1>6, <2>1
  <2>2. CASE ~(k <= 4)
    <3>1. k \in 5..4 + 32 * n
      BY <1>1, <2>2
    <3> QED BY <1>7, <2>2, <3>1
  <2> QED BY <2>1, <2>2
<1> QED BY <1>2, <1>3, <1>8

(*************************************************************************)
(* The hex pages.                                                        *)
(*************************************************************************)
\* Byte i, counted from 0, has been on the screen.
ByteSeen(rows, i) == \E row \in rows : row[1] = "data" /\ i \in row[2]..row[2] + row[3] - 1

\* The row of a hex page that begins at byte `off`, and what is at its row j.
DataRow(len, off) == <<"data", off, Min({DATA_BYTES_PER_LINE, len - off})>>
DataLine(len, n, j) ==
  <<3 + j, DataRow(len, n * DATA_BYTES_PER_PAGE + (j - 1) * DATA_BYTES_PER_LINE)>>

\* Hex page n shows the bytes n * 80 to n * 80 + 79, as far as there are any.
LEMMA HexPageShows ==
  ASSUME NEW x, NEW n \in Nat, NEW s, NEW i \in Nat, i < Len(x.tx.data), i \div DATA_BYTES_PER_PAGE = n
  PROVE  ByteSeen(ContentRows(Draw(s, render_data_page(x, n))), i)
<1> DEFINE len == Len(x.tx.data)
           Off(l) == n * DATA_BYTES_PER_PAGE + l * DATA_BYTES_PER_LINE
           lines == {l \in 0..DATA_LINES_PER_PAGE - 1 : Off(l) < len}
           p == render_data_page(x, n)
           l == (i - 80 * n) \div 10
           what == DataRow(len, Off(l))
           k == l + 2
           body == [j \in 1..Cardinality(lines) |-> DataLine(len, n, j)]
<1>1. DATA_BYTES_PER_LINE = 10 /\ DATA_LINES_PER_PAGE = 8 /\ DATA_BYTES_PER_PAGE = 80 /\ len \in Nat
  BY DEF DATA_BYTES_PER_LINE, DATA_LINES_PER_PAGE, DATA_BYTES_PER_PAGE
<1>2. 80 * n <= i /\ i < 80 * n + 80
  BY <1>1
<1>3. l \in 0..7 /\ 80 * n + l * 10 <= i /\ i < 80 * n + l * 10 + 10
  BY <1>2
<1> HIDE DEF l
<1>4. Off(l) = 80 * n + l * 10 /\ Off(l) \in Nat /\ Off(l) < len
  BY <1>1, <1>3
<1>5. Cardinality(lines) \in Nat /\ l + 1 <= Cardinality(lines) /\ Cardinality(lines) <= 8
  <2>1. lines \subseteq 0..7 /\ 0..l \subseteq lines
    BY <1>1, <1>3, <1>4
  <2>2. IsFiniteSet(0..7) /\ Cardinality(0..7) = 8 /\ Cardinality(0..l) = l + 1
    <3>1. 7 - 0 + 1 = 8 /\ l - 0 + 1 = l + 1 /\ 0 <= 7 /\ 0 <= l /\ l \in Int
      BY <1>3
    <3>2. 0 \in Int /\ 7 \in Int
      OBVIOUS
    <3>3. IsFiniteSet(0..7) /\ Cardinality(0..7) = IF 0 > 7 THEN 0 ELSE 7 - 0 + 1
      BY <3>2, FS_Interval
    <3>4. Cardinality(0..l) = IF 0 > l THEN 0 ELSE l - 0 + 1
      BY <3>1, <3>2, FS_Interval
    <3> QED BY <3>1, <3>3, <3>4
  <2>3. IsFiniteSet(lines) /\ Cardinality(lines) <= 8
    BY <2>1, <2>2, FS_Subset
  <2>4. Cardinality(0..l) <= Cardinality(lines)
    BY <2>1, <2>3, FS_Subset
  <2> QED BY <2>2, <2>3, <2>4, FS_CardinalityType
<1>6. p.rows = <<<<2, <<"hex page", n, x.badge>>>>>> \o body
  BY DEF render_data_page, Page, DataLine, DataRow
<1> HIDE DEF lines, p
<1>7. /\ DOMAIN p.rows = 1..Cardinality(lines) + 1
      /\ p.rows[1][1] = 2
      /\ \A j \in 1..Cardinality(lines) : p.rows[j + 1] = DataLine(len, n, j)
  <2>1. Len(body) = Cardinality(lines) /\ \A j \in 1..Cardinality(lines) : body[j] = DataLine(len, n, j)
    BY <1>5
  <2> HIDE DEF body
  <2> DEFINE top == <<<<2, <<"hex page", n, x.badge>>>>>>
  <2>2. Len(top) = 1 /\ top[1][1] = 2 /\ p.rows = top \o body
    BY <1>6
  <2> HIDE DEF top
  <2> DEFINE c == Cardinality(lines)
  <2>3. /\ DOMAIN p.rows = 1..1 + c /\ p.rows[1] = top[1]
        /\ \A j \in 1..c : p.rows[1 + j] = body[j]
    <3>1. /\ DOMAIN (top \o body) = 1..Len(top) + Len(body)
          /\ \A j \in 1..Len(top) : (top \o body)[j] = top[j]
          /\ \A j \in 1..Len(body) : (top \o body)[Len(top) + j] = body[j]
      BY Joined
    <3>2. Len(top) = 1 /\ Len(body) = c /\ 1 \in 1..1
      BY <2>1, <2>2
    <3> HIDE DEF c
    <3> QED BY <2>2, <3>1, <3>2
  <2>4. c \in Nat
    BY <1>5
  <2> HIDE DEF c
  <2>5. 1 + c = c + 1 /\ \A j \in 1..c : 1 + j = j + 1
    BY <2>4
  <2>6. \A j \in 1..c : body[j] = DataLine(len, n, j)
    BY <2>1 DEF c
  <2>7. DOMAIN p.rows = 1..c + 1 /\ p.rows[1][1] = 2 /\ \A j \in 1..c : p.rows[j + 1] = DataLine(len, n, j)
    BY <2>2, <2>3, <2>5, <2>6
  <2> QED BY <2>7 DEF c
<1>8. p.rows[k] = <<4 + l, what>>
  <2>1. l + 1 \in 1..Cardinality(lines) /\ l + 1 + 1 = k /\ (l + 1) - 1 = l /\ 3 + (l + 1) = 4 + l
    BY <1>3, <1>5
  <2>2. p.rows[k] = DataLine(len, n, l + 1)
    BY <1>7, <2>1
  <2>3. DataLine(len, n, l + 1) = <<4 + l, what>>
    <3> DEFINE at == l + 1
    <3>1. at - 1 = l /\ 3 + at = 4 + l /\ at = l + 1
      BY <2>1
    <3> HIDE DEF at
    <3> DEFINE from == n * DATA_BYTES_PER_PAGE + (at - 1) * DATA_BYTES_PER_LINE
    <3>2. DataLine(len, n, at) = <<3 + at, DataRow(len, from)>>
      BY DEF DataLine
    <3>4. from = Off(l)
      BY <3>1
    <3> HIDE DEF from, Off
    <3>3. DataRow(len, from) = what
      BY <3>4
    <3> QED BY <3>1, <3>2, <3>3
  <2> QED BY <2>2, <2>3
<1>9. Between(p, k)
  <2>1. k \in DOMAIN p.rows /\ DOMAIN p.rows \subseteq Int
    BY <1>3, <1>5, <1>7
  <2>2. p.rows[k][1] \in 2..TEXT_ROWS - 3
    BY <1>3, <1>8 DEF TEXT_ROWS
  <2>3. ASSUME NEW j \in DOMAIN p.rows, p.rows[j][1] = p.rows[k][1] PROVE j <= k
    <3>1. j \in 1..Cardinality(lines) + 1
      BY <1>7
    <3>2. CASE j = 1
      BY <1>3, <3>2
    <3>3. CASE j > 1
      <4>1. j - 1 \in 1..Cardinality(lines) /\ (j - 1) + 1 = j
        BY <1>5, <3>1, <3>3
      <4>2. p.rows[j] = DataLine(len, n, j - 1)
        BY <1>7, <4>1
      <4>3. p.rows[j][1] = 3 + (j - 1)
        BY <4>2 DEF DataLine
      <4> QED BY <1>3, <1>8, <2>3, <3>1, <4>3
    <3> QED BY <1>5, <3>1, <3>2, <3>3
  <2> QED BY <2>1, <2>2, <2>3 DEF Between
<1>10. what \in ContentRows(Draw(s, p))
  <2>1. p.rows[k][2] = what /\ what # <<>> /\ what[1] = "data"
    BY <1>8 DEF DataRow
  <2> QED BY <1>9, <2>1, RowRead
<1>11. i \in what[2]..what[2] + what[3] - 1
  <2>1. what[2] = Off(l) /\ what[3] = Min({10, len - Off(l)})
    BY <1>1 DEF DataRow
  <2>2. what[3] \in {10, len - Off(l)}
    <3>1. len - Off(l) \in Int /\ 10 \in Int
      BY <1>1, <1>4
    <3>2. Min({10, len - Off(l)}) = IF 10 <= len - Off(l) THEN 10 ELSE len - Off(l)
      BY <3>1, Smaller
    <3> QED BY <2>1, <3>2
  <2> DEFINE from == what[2]
             many == what[3]
  <2>3. from = 80 * n + l * 10 /\ many \in {10, len - from} /\ i < len
    BY <1>1, <1>4, <2>1, <2>2
  <2>4. from \in Nat /\ from <= i /\ i < from + 10
    BY <1>3, <1>4, <2>3
  <2> HIDE DEF from, many
  <2>5. i < from + many /\ many \in Int
    BY <1>1, <2>3, <2>4
  <2>6. i \in from..from + many - 1
    BY <2>4, <2>5
  <2> QED BY <2>6 DEF from, many
<1>12. what[1] = "data"
  BY DEF DataRow
<1> HIDE DEF what
<1>13. ByteSeen(ContentRows(Draw(s, p)), i)
  BY <1>10, <1>11, <1>12 DEF ByteSeen
<1> QED BY <1>13 DEF p

(*************************************************************************)
(* The pages of the parsed view.                                         *)
(*************************************************************************)
\* A row drawn amid others, none of which comes later and falls on it.
Amid(p, a, b, c, q) ==
  /\ p.rows = (a \o b) \o c /\ q \in 1..Len(b) /\ b[q][1] \in 2..17
  /\ \A j \in 1..Len(b) : j > q => b[j][1] # b[q][1]
  /\ \A j \in 1..Len(c) : c[j][1] # b[q][1]
\* Such a row is read.
LEMMA Placed ==
  ASSUME NEW p, NEW a, NEW b, NEW c, NEW q, Amid(p, a, b, c, q)
  PROVE  Between(p, Len(a) + q) /\ p.rows[Len(a) + q] = b[q]
<1> DEFINE ab == a \o b
           A == Len(a)
           B == Len(b)
           C == Len(c)
<1>1. A \in Nat /\ B \in Nat /\ C \in Nat
  BY Joined
<1>2. /\ Len(ab) = A + B
      /\ \A i \in 1..A : ab[i] = a[i]
      /\ \A i \in 1..B : ab[A + i] = b[i]
  BY Joined
<1>3. /\ DOMAIN p.rows = 1..(A + B) + C
      /\ \A i \in 1..A + B : p.rows[i] = ab[i]
      /\ \A i \in 1..C : p.rows[(A + B) + i] = c[i]
  <2> HIDE DEF ab
  <2>1. p.rows = ab \o c
    BY DEF ab, Amid
  <2>2. /\ DOMAIN (ab \o c) = 1..Len(ab) + Len(c)
        /\ \A i \in 1..Len(ab) : (ab \o c)[i] = ab[i]
        /\ \A i \in 1..Len(c) : (ab \o c)[Len(ab) + i] = c[i]
    BY Joined
  <2>3. Len(ab) = A + B /\ Len(c) = C
    BY <1>2
  <2> HIDE DEF A, B, C
  <2> QED BY <2>1, <2>2, <2>3
<1>4. q \in 1..B
  BY DEF Amid
<1>5. /\ b[q][1] \in 2..17
      /\ \A j \in 1..B : j > q => b[j][1] # b[q][1]
      /\ \A j \in 1..C : c[j][1] # b[q][1]
  BY DEF Amid
<1> HIDE DEF ab, A, B, C
<1>6. A + q \in 1..A + B /\ A + q \in DOMAIN p.rows /\ DOMAIN p.rows \subseteq Int
  BY <1>1, <1>3, <1>4
<1>7. p.rows[A + q] = b[q]
  BY <1>2, <1>3, <1>4, <1>6
<1>8. ASSUME NEW j \in DOMAIN p.rows, j > A + q PROVE p.rows[j][1] # b[q][1]
  <2>1. j \in 1..(A + B) + C
    BY <1>3
  <2>2. CASE j <= A + B
    <3>1. j - A \in 1..B /\ j - A > q /\ A + (j - A) = j /\ j \in 1..A + B
      BY <1>1, <1>4, <1>8, <2>1, <2>2
    <3>2. p.rows[j] = b[j - A]
      BY <1>2, <1>3, <3>1
    <3> QED BY <1>5, <3>1, <3>2
  <2>3. CASE j > A + B
    <3>1. j - (A + B) \in 1..C /\ (A + B) + (j - (A + B)) = j
      BY <1>1, <2>1, <2>3
    <3>2. p.rows[j] = c[j - (A + B)]
      BY <1>3, <3>1
    <3> QED BY <1>5, <3>1, <3>2
  <2> QED BY <1>1, <2>1, <2>2, <2>3
<1>9. b[q][1] \in 2..TEXT_ROWS - 3
  BY <1>5 DEF TEXT_ROWS
<1>10. \A j \in DOMAIN p.rows : p.rows[j][1] = b[q][1] => j <= A + q
  <2>1. A + q \in Int
    BY <1>1, <1>4
  <2> QED BY <1>6, <1>8, <2>1
<1>11. Between(p, A + q)
  BY <1>6, <1>7, <1>9, <1>10 DEF Between
<1> QED BY <1>7, <1>11 DEF A

\* Page n of the parsed view shows the lines 13 * n + 1 to 13 * n + 13, as far as
\* there are any.
LEMMA ParsedPageShows ==
  ASSUME NEW t, NEW x, NEW n \in Nat, NEW s, NEW k \in 1..Len(x.lines),
         (k - 1) \div PARSED_LINES_PER_PAGE = n
  PROVE  <<"line", k, x.lines[k]>> \in ContentRows(Draw(s, render_typed_parsed_page(t, x, n)))
<1> DEFINE len == Len(x.lines)
           first == n * PARSED_LINES_PER_PAGE + 1
           last == Min({first + PARSED_LINES_PER_PAGE - 1, len})
           shown == SubSeq(x.lines, first, last)
           p == render_typed_parsed_page(t, x, n)
           whats == [j \in DOMAIN shown |-> <<"line", first + j - 1, shown[j]>>]
           a == <<<<2, <<"primary", t.types[t.primary].name, extract_domain_fields(t)>>>>,
                  <<3, <<"page", n + 1, parsed_total_pages(x)>>>>>>
           b == From(5, whats)
           c == IF x.overflow /\ n + 1 = parsed_total_pages(x)
                THEN <<<<18, <<"tree truncated">>>>>> ELSE <<>>
           q == k - 13 * n
           m == last - 13 * n
<1>1. PARSED_LINES_PER_PAGE = 13 /\ len \in Nat /\ k \in Nat /\ k <= len
  BY DEF PARSED_LINES_PER_PAGE
<1>2. first = 13 * n + 1 /\ first + PARSED_LINES_PER_PAGE - 1 = 13 * n + 13
  BY <1>1
<1>3. q \in 1..13
  BY <1>1
<1>4. last = IF 13 * n + 13 <= len THEN 13 * n + 13 ELSE len
  <2>1. 13 * n + 13 \in Int /\ len \in Int
    BY <1>1
  <2>2. last = Min({13 * n + 13, len})
    BY <1>2
  <2> QED BY <2>1, <2>2, Smaller
<1>5. p.rows = (a \o b) \o c
  BY DEF render_typed_parsed_page, Page, Slice
<1> HIDE DEF p, a, c, len
<1>6. /\ 1 <= first /\ first <= last /\ last <= len /\ first \in Nat /\ last \in Nat
      /\ q <= m /\ m \in 1..13 /\ m = (last - first) + 1 /\ first + (q - 1) = k
  <2>1. q = k - 13 * n /\ m = last - 13 * n
    OBVIOUS
  <2> HIDE DEF first, last, q, m
  <2>2. first \in Nat /\ 1 <= first /\ first + (q - 1) = k
    BY <1>1, <1>2, <2>1
  <2>3. CASE 13 * n + 13 <= len
    BY <1>1, <1>2, <1>3, <1>4, <2>1, <2>2, <2>3
  <2>4. CASE ~(13 * n + 13 <= len)
    <3>1. last = len /\ 13 * n + 1 <= len /\ len <= 13 * n + 12
      BY <1>1, <1>3, <1>4, <2>1, <2>4
    <3> QED BY <1>1, <1>2, <1>3, <2>1, <2>2, <3>1
  <2> QED BY <2>3, <2>4
<1>7. DOMAIN shown = 1..m /\ Len(shown) = m /\ \A j \in 1..m : shown[j] = x.lines[first + (j - 1)]
  <2> HIDE DEF first, last, m
  <2>1. last - first + 1 = m
    BY <1>6
  <2> QED BY <1>6, <2>1 DEF len
<1> HIDE DEF shown
<1>8. Len(b) = m /\ \A j \in 1..m : b[j] = <<5 + j - 1, <<"line", first + j - 1, shown[j]>>>>
  <2>1. b = [j \in 1..m |-> <<5 + j - 1, <<"line", first + j - 1, shown[j]>>>>]
    BY <1>7 DEF From
  <2>2. m \in Nat
    BY <1>6
  <2> HIDE DEF b, m, first
  <2> QED BY <2>1, <2>2
<1> HIDE DEF b, first, last, m
<1>9. b[q] = <<4 + q, <<"line", k, x.lines[k]>>>>
  <2>1. q \in 1..m
    BY <1>3, <1>6
  <2>2. first + q - 1 = k /\ 5 + q - 1 = 4 + q
    BY <1>3, <1>6
  <2> HIDE DEF q
  <2> QED BY <1>6, <1>7, <1>8, <2>1, <2>2
<1>10. \A j \in 1..Len(b) : j > q => b[j][1] # b[q][1]
  <2>1. ASSUME NEW j \in 1..m, j > q PROVE b[j][1] # b[q][1]
    <3>1. b[j][1] = 5 + j - 1
      BY <1>8
    <3>2. b[q][1] = 4 + q
      BY <1>9
    <3> QED BY <1>3, <1>6, <2>1, <3>1, <3>2
  <2> QED BY <1>8, <2>1
<1>11. \A j \in 1..Len(c) : c[j][1] # b[q][1]
  <2>1. c \in {<<>>, <<<<18, <<"tree truncated">>>>>>}
    BY DEF c
  <2>3. \A j \in 1..Len(c) : c[j][1] = 18
    <3> HIDE DEF c
    <3>1. CASE c = <<>>
      BY <3>1
    <3>2. CASE c = <<<<18, <<"tree truncated">>>>>>
      <4>1. Len(c) = 1 /\ c[1][1] = 18
        BY <3>2
      <4> QED BY <4>1
    <3> QED BY <2>1, <3>1, <3>2
  <2>2. b[q][1] # 18
    BY <1>3, <1>9
  <2> QED BY <2>2, <2>3
<1>12. q \in 1..Len(b) /\ b[q][1] \in 2..17
  <2> HIDE DEF q
  <2>1. 1..Len(b) = 1..m
    BY <1>8
  <2>2. q \in 1..m
    BY <1>3, <1>6
  <2>3. b[q][1] = 4 + q
    BY <1>9
  <2>4. 4 + q \in 2..17
    BY <1>3
  <2> QED BY <2>1, <2>2, <2>3, <2>4
<1> HIDE DEF q
<1>13. Between(p, Len(a) + q) /\ p.rows[Len(a) + q] = b[q]
  <2>1. Amid(p, a, b, c, q)
    BY <1>5, <1>10, <1>11, <1>12 DEF Amid
  <2> QED BY <2>1, Placed
<1>14. <<"line", k, x.lines[k]>> \in ContentRows(Draw(s, p))
  <2> DEFINE what == <<"line", k, x.lines[k]>>
  <2>1. p.rows[Len(a) + q][2] = what /\ what # <<>> /\ what[1] = "line"
    BY <1>9, <1>13
  <2> HIDE DEF what
  <2>2. what \in ContentRows(Draw(s, p))
    BY <1>13, <2>1, RowRead
  <2> QED BY <2>2 DEF what
<1> QED BY <1>14 DEF p

(*************************************************************************)
(* What has been on the screen on the way to a page.                     *)
(*************************************************************************)
\* Every byte of the hex pages up to page n of a transaction.
HexSeen(x, n, rows) ==
  \A i \in 0..Len(x.tx.data) - 1 :
    (IF Understood(x) THEN 1 ELSE 0) + 1 + i \div DATA_BYTES_PER_PAGE <= n => ByteSeen(rows, i)
\* Every line of the pages up to page n of the parsed view.
LinesSeen(b, n, rows) ==
  \A k \in 1..Len(b.lines) :
    (k - 1) \div PARSED_LINES_PER_PAGE <= n => <<"line", k, b.lines[k]>> \in rows
SeenInv ==
  /\ dlg = "tx" => HexSeen(doc, page, seen)
  /\ dlg = "typed" /\ doc.status = "match" => LinesSeen(doc.lines, ppage, seen)

\* A page further, or some pages back, of a transaction.
LEMMA HexPassed ==
  ASSUME NEW x, NEW n \in Nat, NEW m \in Nat, NEW rows, NEW new, NEW s,
         HexSeen(x, n, rows), rows \subseteq new,
         m <= n \/ (m = n + 1 /\ ContentRows(Draw(s, TxPage(x, m))) \subseteq new)
  PROVE  HexSeen(x, m, new)
<1> DEFINE d == IF Understood(x) THEN 1 ELSE 0
<1>1. d \in 0..1 /\ DATA_BYTES_PER_PAGE = 80 /\ Len(x.tx.data) \in Nat
  BY DEF DATA_BYTES_PER_PAGE, DATA_BYTES_PER_LINE, DATA_LINES_PER_PAGE
<1>2. ASSUME NEW i \in 0..Len(x.tx.data) - 1, d + 1 + i \div DATA_BYTES_PER_PAGE <= m
      PROVE  ByteSeen(new, i)
  <2>1. i \in Nat /\ i < Len(x.tx.data) /\ i \div 80 \in Nat
    BY <1>1
  <2>2. CASE d + 1 + i \div 80 <= n
    <3>1. ByteSeen(rows, i)
      BY <1>1, <2>2 DEF HexSeen
    <3> QED BY <3>1 DEF ByteSeen
  <2>3. CASE ~(d + 1 + i \div 80 <= n)
    <3>1. m = n + 1 /\ i \div 80 = m - 1 - d /\ m > d /\ m # 0 /\ m - 1 - d \in Nat
      BY <1>1, <1>2, <2>1, <2>3
    <3>2. TxPage(x, m) = render_data_page(x, m - 1 - d)
      BY <1>1, <3>1 DEF TxPage
    <3>3. ByteSeen(ContentRows(Draw(s, render_data_page(x, m - 1 - d))), i)
      BY <1>1, <2>1, <3>1, HexPageShows
    <3>4. ContentRows(Draw(s, TxPage(x, m))) \subseteq new
      BY <1>1, <2>1, <2>3, <3>1
    <3> QED BY <3>2, <3>3, <3>4 DEF ByteSeen
  <2> QED BY <2>2, <2>3
<1> QED BY <1>2 DEF HexSeen

\* The same of the parsed view.
LEMMA LinesPassed ==
  ASSUME NEW t, NEW b, NEW n \in Nat \cup {-1}, NEW m \in Nat, NEW rows, NEW new, NEW s,
         LinesSeen(b, n, rows), rows \subseteq new,
         m <= n \/ (m = n + 1 /\ ContentRows(Draw(s, render_typed_parsed_page(t, b, m))) \subseteq new)
  PROVE  LinesSeen(b, m, new)
<1> SUFFICES ASSUME NEW k \in 1..Len(b.lines), (k - 1) \div PARSED_LINES_PER_PAGE <= m
             PROVE  <<"line", k, b.lines[k]>> \in new
  BY DEF LinesSeen
<1>1. PARSED_LINES_PER_PAGE = 13 /\ (k - 1) \div 13 \in Nat
  BY DEF PARSED_LINES_PER_PAGE
<1>2. CASE (k - 1) \div 13 <= n
  BY <1>1, <1>2 DEF LinesSeen
<1>3. CASE ~((k - 1) \div 13 <= n)
  <2>1. m = n + 1 /\ (k - 1) \div 13 = m
    BY <1>1, <1>3
  <2>2. <<"line", k, b.lines[k]>> \in ContentRows(Draw(s, render_typed_parsed_page(t, b, m)))
    BY <1>1, <2>1, ParsedPageShows
  <2>3. ContentRows(Draw(s, render_typed_parsed_page(t, b, m))) \subseteq new
    BY <1>1, <1>3, <2>1
  <2> QED BY <2>2, <2>3
<1> QED BY <1>2, <1>3

\* A poll that shows page n, pn, p keeps what was seen; another page is seen too.
LEMMA ShowSees ==
  ASSUME NEW n, NEW pn, NEW p, Show(n, pn, p)
  PROVE  /\ seen \subseteq seen'
         /\ <<page, ppage, parsed>>' # <<page, ppage, parsed>>
              => ContentRows(Draw(screen, PageOf(Known'))) \subseteq seen'
  BY DEF Show, DrawOver

\* The first page is looked at when the request is opened.
LEMMA ReceiveSees ==
  ASSUME ConfirmInv', NEW r \in Requests, Receive(r) PROVE SeenInv'
<1>1. PICK d, x : Open(r, d, x) /\ Opens(r, d, x)
  BY ReceiveOpens
<1>2. dlg' = d /\ doc' = x /\ req' = r /\ page' = 0 /\ ppage' = 0
      /\ parsed' = (d = "typed" /\ x.status = "match")
  BY <1>1 DEF Open
<1>3. ContentRows(Draw(text_clear, PageOf(Known'))) \subseteq seen'
  BY DEF Receive, DrawOver
<1>4. HexSeen(x, 0, seen')
  <2>1. \A i \in 0..Len(x.tx.data) - 1 : i \div DATA_BYTES_PER_PAGE \in Nat
    BY DEF DATA_BYTES_PER_PAGE, DATA_BYTES_PER_LINE, DATA_LINES_PER_PAGE
  <2> QED BY <2>1 DEF HexSeen
<1>5. CASE d = "typed" /\ x.status = "match"
  <2>1. PageOf(Known') = render_typed_parsed_page(r.tree[1], x.lines, 0)
    BY <1>2, <1>5 DEF PageOf, Known
  <2>2. LinesSeen(x.lines, -1, {})
    BY DEF LinesSeen, PARSED_LINES_PER_PAGE
  <2>3. LinesSeen(x.lines, 0, seen')
    BY <1>3, <2>1, <2>2, LinesPassed
  <2> QED BY <1>2, <1>5, <2>3 DEF SeenInv
<1> QED BY <1>2, <1>4, <1>5 DEF SeenInv

\* A page that R turns to is looked at, and no page is jumped over.
LEMMA TurnSees ==
  ASSUME ConfirmInv, SeenInv, NEW keys \in KeysDown, Turned(keys) PROVE SeenInv'
<1>1. /\ UNCHANGED <<lock, req, dlg, doc, answer, hold, alone>> /\ page' = PageAfter(keys) /\ ppage' = ppage
      /\ parsed' = parsed /\ ~(dlg = "typed" /\ doc.status = "match") /\ Show(PageAfter(keys), ppage, parsed)
  BY DEF Turned, Turn, Show
<1>2. CASE dlg # "tx"
  BY <1>1, <1>2 DEF SeenInv
<1>3. CASE dlg = "tx"
  <2>1. page \in Nat /\ page' \in Nat /\ (page' <= page \/ page' = page + 1)
    <3>1. LastPage \in Nat /\ page \in 0..LastPage
      BY PageBounds DEF ConfirmInv, TypeOK
    <3>2. PageAfter(keys) \in 0..LastPage
      BY <3>1, TurnStays
    <3>3. PageAfter(keys) <= page + 1
      <4> DEFINE right == IF "R" \in Pressed(keys) /\ page < LastPage THEN page + 1 ELSE page
      <4>1. right \in {page, page + 1}
        OBVIOUS
      <4>2. PageAfter(keys) \in {right, right - 1}
        BY DEF PageAfter
      <4> HIDE DEF right
      <4> QED BY <3>1, <4>1, <4>2
    <3> QED BY <1>1, <3>1, <3>2, <3>3
  <2>2. seen \subseteq seen' /\ (page' # page => ContentRows(Draw(screen, TxPage(doc, page'))) \subseteq seen')
    <3>1. PageOf(Known') = TxPage(doc, page')
      BY <1>1, <1>3 DEF PageOf, Known
    <3> QED BY <1>1, <3>1, ShowSees
  <2>3. HexSeen(doc, page, seen)
    BY <1>3 DEF SeenInv
  <2>4. HexSeen(doc, page', seen')
    <3>1. page' <= page \/ (page' = page + 1 /\ ContentRows(Draw(screen, TxPage(doc, page'))) \subseteq seen')
      <4>1. page' = page + 1 => page' # page
        BY <2>1
      <4> QED BY <2>1, <2>2, <4>1
    <3> QED BY <2>1, <2>2, <2>3, <3>1, HexPassed
  <2> QED BY <1>1, <1>3, <2>4 DEF SeenInv
<1> QED BY <1>2, <1>3

\* So is one of the parsed view, whose page is kept while the text is shown.
LEMMA ToggleSees ==
  ASSUME ConfirmInv, SeenInv, NEW keys \in KeysDown, Toggled(keys) PROVE SeenInv'
<1> DEFINE act == ToggleStep(keys).act
<1>1. /\ dlg = "typed" /\ doc.status = "match"
      /\ UNCHANGED <<lock, req, dlg, doc, answer, hold, alone>>
      /\ ppage' = IF parsed THEN Move(act, ppage, LastParsed) ELSE ppage
      /\ parsed' = (parsed # (act = "toggle")) /\ parsed \in BOOLEAN
  BY ToggledShows DEF ConfirmInv, TypeOK
<1>2. ppage \in 0..LastParsed /\ LastParsed \in Nat
  BY PageBounds DEF ConfirmInv, TypeOK, LastParsed
<1> HIDE DEF act
<1>3. ppage' \in Nat /\ (ppage' <= ppage \/ ppage' = ppage + 1)
  BY <1>1, <1>2 DEF Move
<1>4. ppage' # ppage => parsed' = TRUE
  BY <1>1 DEF Move
<1>5. seen \subseteq seen' /\ (ppage' # ppage => ContentRows(Draw(screen, PageOf(Known'))) \subseteq seen')
  <2>1. \E n, pn, p : Show(n, pn, p)
    BY DEF Toggled, TurnOrToggle
  <2> QED BY <2>1, ShowSees
<1>6. LinesSeen(doc.lines, ppage, seen)
  BY <1>1 DEF SeenInv
<1>7. LinesSeen(doc.lines, ppage', seen')
  <2>1. ppage' # ppage => PageOf(Known') = render_typed_parsed_page(req.tree[1], doc.lines, ppage')
    BY <1>1, <1>4 DEF PageOf, Known
  <2>2. \/ ppage' <= ppage
        \/ ppage' = ppage + 1
           /\ ContentRows(Draw(screen, render_typed_parsed_page(req.tree[1], doc.lines, ppage'))) \subseteq seen'
    <3>1. ppage' = ppage + 1 => ppage' # ppage
      BY <1>2
    <3> QED BY <1>3, <1>5, <2>1, <3>1
  <2>3. ppage \in Nat \cup {-1} /\ ppage' \in Nat /\ seen \subseteq seen'
    BY <1>2, <1>3, <1>5
  <2> QED BY <1>6, <2>2, <2>3, LinesPassed
<1> QED BY <1>1, <1>7 DEF SeenInv

\* Every step keeps the pages up to the current one seen.
LEMMA SeenKept == ConfirmInv /\ ConfirmInv' /\ SeenInv /\ [Next]_vars => SeenInv'
<1> SUFFICES ASSUME ConfirmInv, ConfirmInv', SeenInv, [Next]_vars PROVE SeenInv'
  OBVIOUS
<1>1. CASE \E r \in Requests : Receive(r)
  BY <1>1, ReceiveSees
<1>2. ASSUME dlg' \notin {"tx", "typed"} PROVE SeenInv'
  BY <1>2 DEF SeenInv
<1>3. ASSUME NEW keys \in KeysDown, Answered(keys) PROVE SeenInv'
  BY <1>2, <1>3 DEF Answered, Answer
<1>4. ASSUME UNCHANGED <<dlg, doc, pages>> PROVE SeenInv'
  BY <1>4 DEF SeenInv, pages
<1>5. ASSUME NEW keys \in KeysDown, Stayed(keys) PROVE SeenInv'
  BY <1>4, <1>5 DEF Stayed, Stay
<1>6. ASSUME NEW keys \in KeysDown, Waited(keys) PROVE SeenInv'
  BY <1>2, <1>6, WaitedShape DEF ConfirmInv, Waiting, AfterRelease
<1>7. CASE PowerCycle
  BY <1>2, <1>7 DEF PowerCycle
<1>8. CASE UNCHANGED vars
  BY <1>4, <1>8 DEF vars
<1> QED BY <1>1, <1>3, <1>5, <1>6, <1>7, <1>8, TurnSees, ToggleSees, StepKinds

\* Who stands on the last page of the bytes, or of the verified tree, has had
\* all of it on the screen (confirm_tx, confirm_typed_data).
LEMMA AllSeen == ConfirmInv /\ SeenInv => ContentSeen
<1> SUFFICES ASSUME ConfirmInv, SeenInv PROVE ContentSeen
  OBVIOUS
<1>1. ASSUME dlg = "tx", page = LastPage, NEW i \in 0..Len(doc.tx.data) - 1 PROVE ByteSeen(seen, i)
  <2> DEFINE len == Len(doc.tx.data)
             d == IF Understood(doc) THEN 1 ELSE 0
  <2>1. DATA_BYTES_PER_PAGE = 80 /\ len \in Nat /\ d \in 0..1
    BY DEF DATA_BYTES_PER_PAGE, DATA_BYTES_PER_LINE, DATA_LINES_PER_PAGE
  <2>2. page = (len + 80 - 1) \div 80 + d
    BY <1>1, <2>1 DEF LastPage, extra_pages, data_total_pages
  <2> HIDE DEF len, d
  <2>3. i \in Nat /\ i < len
    BY <1>1, <2>1 DEF len
  <2>4. d + 1 + i \div 80 <= page
    BY <2>1, <2>2, <2>3
  <2> QED BY <1>1, <2>1, <2>4 DEF SeenInv, HexSeen, d
<1>2. ASSUME dlg = "typed", doc.status = "match", ppage = parsed_total_pages(doc.lines) - 1,
             NEW k \in DOMAIN doc.lines.lines
      PROVE  <<"line", k, doc.lines.lines[k]>> \in seen
  <2> DEFINE len == Len(doc.lines.lines)
  <2>1. len \in Nat /\ PARSED_LINES_PER_PAGE = 13
    BY DEF PARSED_LINES_PER_PAGE
  <2>2. DOMAIN doc.lines.lines = 1..len
    <3>1. doc.lines = build_parsed_lines(req.tree[1])
      BY <1>2 DEF ConfirmInv, DocInv, TypedDoc
    <3> QED BY <3>1, ParsedPages
  <2>3. ppage = (len + 13 - 1) \div 13 - 1
    BY <1>2, <2>1 DEF parsed_total_pages
  <2>4. k \in 1..len
    BY <1>2, <2>2
  <2> HIDE DEF len
  <2>5. (k - 1) \div 13 <= ppage
    BY <2>1, <2>3, <2>4
  <2> QED BY <1>2, <2>1, <2>4, <2>5 DEF SeenInv, LinesSeen, len
<1> QED BY <1>1, <1>2 DEF ContentSeen, ByteSeen

\* Whoever can see that this is the last page, of the hex bytes of a transaction or
\* of a verified tree, was shown every byte, or every line, of it on the way there,
\* in whichever order the pages were turned (confirm_tx, confirm_typed_data,
\* render_data_page, render_typed_parsed_page).
THEOREM WholeIsSeen == ScreensSpec => []ContentSeen
<1>1. Init => SeenInv
  BY DEF Init, SeenInv
<1> QED BY <1>1, SeenKept, AllSeen, ConfirmAlways, ScreensRun, PTL DEF Spec

(*************************************************************************)
(* What is on the screen.                                                *)
(*************************************************************************)
\* A dialog's page is drawn, over whatever was there.
ScreenInv == dlg \in Dialogs => \E before : screen = Draw(before, CurrentPage)

\* Every step that changes what a page depends on draws it again.
LEMMA ScreenKept == ConfirmInv /\ ConfirmInv' /\ ScreenInv /\ [Next]_vars => ScreenInv'
<1> SUFFICES ASSUME ConfirmInv, ConfirmInv', ScreenInv, [Next]_vars PROVE ScreenInv'
  OBVIOUS
<1>1. CASE \E r \in Requests : Receive(r)
  BY <1>1 DEF Receive, DrawOver, ScreenInv, CurrentPage
<1>2. ASSUME dlg' \notin Dialogs PROVE ScreenInv'
  BY <1>2 DEF ScreenInv
<1>3. ASSUME NEW keys \in KeysDown, Answered(keys) PROVE ScreenInv'
  BY <1>2, <1>3 DEF Answered, Answer, Dialogs
<1>4. ASSUME UNCHANGED <<req, dlg, doc, page, ppage, parsed, screen>> PROVE ScreenInv'
  <2>1. CurrentPage' = CurrentPage
    BY <1>4 DEF CurrentPage, Known
  <2> QED BY <1>4, <2>1 DEF ScreenInv
<1>5. ASSUME NEW keys \in KeysDown, Stayed(keys) PROVE ScreenInv'
  BY <1>4, <1>5 DEF Stayed, Stay, pages
<1>6. ASSUME NEW n, NEW pn, NEW p, Show(n, pn, p) PROVE ScreenInv'
  <2>1. UNCHANGED <<req, dlg, doc>>
    BY <1>6 DEF Show
  <2>2. CASE UNCHANGED <<page, ppage, parsed, screen>>
    BY <1>4, <2>1, <2>2
  <2>3. CASE DrawOver(screen, seen)
    BY <2>3 DEF DrawOver, ScreenInv, CurrentPage
  <2> QED BY <1>6, <2>2, <2>3 DEF Show
<1>7. ASSUME NEW keys \in KeysDown, Turned(keys) \/ Toggled(keys) PROVE ScreenInv'
  BY <1>6, <1>7 DEF Turned, Turn, Toggled, TurnOrToggle
<1>8. ASSUME NEW keys \in KeysDown, Waited(keys) PROVE ScreenInv'
  BY <1>2, <1>8, WaitedShape DEF ConfirmInv, Waiting, AfterRelease, Dialogs
<1>9. CASE PowerCycle
  BY <1>2, <1>9 DEF PowerCycle, Dialogs
<1>10. CASE UNCHANGED vars
  BY <1>4, <1>10 DEF vars, pages
<1> QED BY <1>1, <1>3, <1>5, <1>7, <1>8, <1>9, <1>10, StepKinds

(*************************************************************************)
(* The warnings of a call that drains an account.                        *)
(*************************************************************************)
\* A call that hands over more than one payment.
Drains(c) == \/ c.fn = "approve" /\ c.args[2].value = MaxUint
             \/ c.fn = "setApprovalForAll" /\ c.args[2].value[32] = 1
             \/ c.fn = "permit"

\* Row k of a page's rows is the last one that is drawn where it is.
LastThere(s, k) == k \in 1..Len(s) /\ \A j \in 1..Len(s) : j > k => s[j][1] # s[k][1]
Avoids(t, row) == \A j \in 1..Len(t) : t[j][1] # row
\* What is drawn after it, elsewhere, leaves it there.
LEMMA Appended ==
  ASSUME NEW s, NEW t, NEW k, LastThere(s, k), Avoids(t, s[k][1])
  PROVE  LastThere(s \o t, k) /\ (s \o t)[k] = s[k]
<1>1. /\ Len(s) \in Nat /\ Len(t) \in Nat /\ Len(s \o t) = Len(s) + Len(t)
      /\ \A i \in 1..Len(s) : (s \o t)[i] = s[i]
      /\ \A i \in 1..Len(t) : (s \o t)[Len(s) + i] = t[i]
  BY Joined
<1> DEFINE st == s \o t
<1> HIDE DEF st
<1>2. k \in 1..Len(st) /\ st[k] = s[k]
  BY <1>1 DEF LastThere, st
<1>3. ASSUME NEW j \in 1..Len(st), j > k PROVE st[j][1] # st[k][1]
  <2>1. CASE j <= Len(s)
    <3>1. j \in 1..Len(s) /\ st[j] = s[j]
      BY <1>1, <2>1 DEF st
    <3> QED BY <1>2, <1>3, <3>1 DEF LastThere
  <2>2. CASE ~(j <= Len(s))
    <3>1. j - Len(s) \in 1..Len(t) /\ Len(s) + (j - Len(s)) = j
      BY <1>1, <2>2 DEF st
    <3>2. st[j] = t[j - Len(s)]
      BY <1>1, <3>1 DEF st
    <3> QED BY <1>2, <3>1, <3>2 DEF Avoids
  <2> QED BY <2>1, <2>2
<1> QED BY <1>2, <1>3 DEF LastThere, st

\* What is put together has places from 1 on.
Counted(s) == Len(s) \in Nat /\ DOMAIN s = 1..Len(s)
\* Rows that are put together are.
LEMMA JoinedIsCounted == ASSUME NEW a, NEW b PROVE Counted(a \o b)
  BY DEF Counted

\* The last of some rows.
LEMMA Ending ==
  ASSUME NEW s, NEW row, NEW what
  PROVE  LET t == s \o <<<<row, what>>>> IN LastThere(t, Len(t)) /\ t[Len(t)] = <<row, what>>
<1> DEFINE t == s \o <<<<row, what>>>>
<1>1. Len(t) = Len(s) + 1 /\ Len(s) \in Nat /\ t[Len(s) + 1] = <<row, what>>
  OBVIOUS
<1> HIDE DEF t
<1>2. LastThere(t, Len(t)) /\ t[Len(t)] = <<row, what>>
  BY <1>1 DEF LastThere
<1> QED BY <1>2 DEF t

\* Such a row is read, between the bars.
Shown(p, k, row, what) ==
  Counted(p.rows) /\ LastThere(p.rows, k) /\ row \in 2..17 /\ p.rows[k] = <<row, what>>
\* It is on the screen once the page is drawn.
LEMMA LastIsDrawn ==
  ASSUME NEW s, NEW p, NEW k, NEW row, NEW what, Shown(p, k, row, what)
  PROVE  \E r \in Row : Draw(s, p)[r] = what
<1>1. /\ Counted(p.rows) /\ LastThere(p.rows, k) /\ row \in 2..17
      /\ p.rows[k][1] = row /\ p.rows[k][2] = what
  BY DEF Shown
<1>2. Len(p.rows) \in Nat /\ DOMAIN p.rows = 1..Len(p.rows)
  BY <1>1 DEF Counted
<1>3. Between(p, k)
  <2>1. k \in DOMAIN p.rows /\ DOMAIN p.rows \subseteq Int
    BY <1>2, <1>1 DEF LastThere
  <2>2. p.rows[k][1] \in 2..TEXT_ROWS - 3
    BY <1>1 DEF TEXT_ROWS
  <2>3. \A j \in DOMAIN p.rows : p.rows[j][1] = p.rows[k][1] => j <= k
    BY <1>2, <1>1, <2>1 DEF LastThere
  <2> QED BY <2>1, <2>2, <2>3 DEF Between
<1>4. \E r \in Row : Draw(s, p)[r] = p.rows[k][2]
  BY <1>3, RowDrawn
<1> QED BY <1>1, <1>4

\* Page 0 says what the call is, and whether it drains.
LEMMA SummaryShown ==
  ASSUME NEW x, NEW s PROVE \E r \in Row : Draw(s, render_page0(x))[r] = abi_summary(x)
<1> DEFINE tx == x.tx
           meta == x.meta
           a == From(2, <<<<"network", chains_lookup(tx.chainid)>>, <<"chainId", tx.type, tx.chainid>>,
                          <<"nonce", tx.nonce>>, <<"max fee", tx.max_fee_per_gas>>>>)
           b == IF tx.type = 2 THEN <<<<6, <<"tip", tx.max_priority_fee_per_gas>>>>>> ELSE <<>>
           c == IF meta.origin # <<>> THEN <<<<8, <<"origin", Slice(meta.origin[1], 1, 20)>>>>>> ELSE <<>>
           d == IF tx.to = <<>> THEN <<<<9, <<"creation">>>>>>
                ELSE <<<<9, <<"to">>>>>> \o From(10, AddressRows(tx.to))
                     \o (IF meta.to_name # <<>>
                         THEN <<<<12, <<"name", Slice(meta.to_name[1], 1, 20)>>>>>> ELSE <<>>)
           top == (((a \o b) \o <<<<7, <<"gas", tx.gas_limit>>>>>>) \o c) \o d
           two == <<<<14, format_value(tx.value, native_sym(tx))>>, <<16, abi_summary(x)>>>>
           badge == IF tx.data # <<>> THEN <<<<17, <<"badge", x.badge>>>>>> ELSE <<>>
           id == <<<<18, <<"tx id">>>>>>
           p == render_page0(x)
<1>1. p.rows = ((top \o two) \o badge) \o id
  BY DEF render_page0, Page
<1> HIDE DEF top, p
<1> DEFINE k == Len(top) + 2
           s1 == top \o two
           s2 == s1 \o badge
           s3 == s2 \o id
           what == abi_summary(x)
<1>2. LastThere(s1, k) /\ s1[k] = <<16, what>>
  <2> HIDE DEF what
  <2> DEFINE m == format_value(tx.value, native_sym(tx))
  <2>1. two = <<<<14, m>>, <<16, what>>>>
    BY DEF what
  <2> HIDE DEF m
  <2>2. Len(s1) = Len(top) + 2 /\ Len(top) \in Nat /\ s1[Len(top) + 2] = <<16, what>>
    BY <2>1
  <2> HIDE DEF s1
  <2> QED BY <2>2 DEF LastThere
<1>3. \A j \in 1..Len(badge) : badge[j][1] = 17
  <2>1. CASE badge = <<>>
    BY <2>1
  <2>2. CASE badge = <<<<17, <<"badge", x.badge>>>>>>
    <3>1. Len(badge) = 1 /\ badge[1][1] = 17
      BY <2>2
    <3> HIDE DEF badge
    <3> QED BY <3>1
  <2> QED BY <2>1, <2>2
<1>4. \A j \in 1..Len(id) : id[j][1] = 18
  <2>1. Len(id) = 1 /\ id[1][1] = 18
    OBVIOUS
  <2> HIDE DEF id
  <2> QED BY <2>1
<1> HIDE DEF s1, badge, id, what
<1>5. LastThere(s2, k) /\ s2[k] = <<16, what>>
  <2>1. s1[k][1] = 16
    BY <1>2
  <2>2. Avoids(badge, s1[k][1])
    BY <1>3, <2>1 DEF Avoids
  <2> QED BY <1>2, <2>2, Appended
<1> HIDE DEF s2
<1>6. LastThere(s3, k) /\ s3[k] = <<16, what>>
  <2>1. s2[k][1] = 16
    BY <1>5
  <2>2. Avoids(id, s2[k][1])
    BY <1>4, <2>1 DEF Avoids
  <2> QED BY <1>5, <2>2, Appended
<1>7. p.rows = s3 /\ Counted(s3)
  <2>1. Counted(s2 \o id)
    BY JoinedIsCounted
  <2> QED BY <1>1, <2>1 DEF s1, s2
<1> HIDE DEF s3, k
<1>8. \E r \in Row : Draw(s, p)[r] = what
  <2>1. Shown(p, k, 16, what)
    BY <1>6, <1>7 DEF Shown
  <2> QED BY <2>1, LastIsDrawn
<1> QED BY <1>8 DEF p, what

\* The page of a call of v0.2 that drains has its warning on row 6, and nothing
\* of the arguments falls on it.
LEMMA WarningDecoded ==
  ASSUME NEW x, NEW s, is_infinite(x.call) \/ approved_bool(x.call), Len(x.call.args) \in Nat, Len(x.call.args) >= 1
  PROVE  \E r \in Row : Draw(s, render_decoded_page(x))[r] = <<"warning", x.call.fn>>
<1> DEFINE call == x.call
           n == Len(call.args) - 1
           what == <<"warning", call.fn>>
           top == <<<<3, <<"function", call.fn>>>>>>
           p == render_decoded_page(x)
<1>1. PICK addresses, rest :
        /\ p.rows = ((top \o <<<<6, what>>>>) \o addresses) \o rest
        /\ addresses = [k \in 1..3 * n |->
             LET i == (k - 1) \div 3
                 part == (k - 1) % 3
                 address == SlotAddress(call.args[i + 1].value)
             IN <<9 + 4 * i + part, IF part = 0 THEN <<"arg", i + 1>> ELSE address[part]>>]
        /\ \E u, v : rest \in {<<<<9 + 4 * n, u>>>>, <<<<9 + 4 * n, u>>, <<9 + 4 * n + 1, v>>>>}
  BY ZenonT(30) DEF render_decoded_page, Page
<1>2. n \in Nat
  OBVIOUS
<1> HIDE DEF p, n, what, top
<1>3. Avoids(addresses, 6)
  <2>1. Len(addresses) = 3 * n
    BY <1>1, <1>2
  <2>2. ASSUME NEW k \in 1..3 * n PROVE addresses[k][1] # 6
    <3> DEFINE i == (k - 1) \div 3
               part == (k - 1) % 3
    <3>1. addresses[k][1] = 9 + 4 * i + part
      BY <1>1
    <3>2. i \in Nat /\ part \in Nat
      BY <1>2
    <3> HIDE DEF i, part
    <3> QED BY <3>1, <3>2
  <2> QED BY <2>1, <2>2 DEF Avoids
<1>4. Avoids(rest, 6)
  <2>1. PICK u, v : rest \in {<<<<9 + 4 * n, u>>>>, <<<<9 + 4 * n, u>>, <<9 + 4 * n + 1, v>>>>}
    BY <1>1
  <2> DEFINE m == 9 + 4 * n
  <2>2. m \in Nat /\ m >= 9
    BY <1>2
  <2>3. rest \in {<<<<m, u>>>>, <<<<m, u>>, <<m + 1, v>>>>}
    BY <2>1
  <2> HIDE DEF m
  <2>4. Len(rest) \in 1..2 /\ rest[1][1] = m /\ (Len(rest) = 2 => rest[2][1] = m + 1)
    BY <2>3
  <2> QED BY <2>2, <2>4 DEF Avoids
<1> DEFINE s1 == top \o <<<<6, what>>>>
           s2 == s1 \o addresses
           k == Len(s1)
<1>5. LastThere(s1, k) /\ s1[k] = <<6, what>>
  BY Ending
<1> HIDE DEF s1, k
<1>6. LastThere(s2, k) /\ s2[k] = <<6, what>>
  <2>1. Avoids(addresses, s1[k][1])
    BY <1>3, <1>5
  <2> QED BY <1>5, <2>1, Appended
<1> HIDE DEF s2
<1>7. LastThere(s2 \o rest, k) /\ (s2 \o rest)[k] = <<6, what>>
  <2>1. Avoids(rest, s2[k][1])
    BY <1>4, <1>6
  <2> QED BY <1>6, <2>1, Appended
<1>8. Shown(p, k, 6, what)
  <2>1. p.rows = s2 \o rest
    BY <1>1 DEF s1, s2
  <2>2. Counted(s2 \o rest)
    BY JoinedIsCounted
  <2>3. LastThere(p.rows, k) /\ p.rows[k] = <<6, what>>
    BY <1>7, <2>1
  <2>4. Counted(p.rows)
    BY <2>1, <2>2
  <2> QED BY <2>3, <2>4 DEF Shown
<1>9. \E r \in Row : Draw(s, p)[r] = what
  BY <1>8, LastIsDrawn
<1> QED BY <1>9 DEF p, what

\* What is drawn of the arguments stays below the row it begins at.
Below(s, top) ==
  /\ s = [rows |-> s.rows, row |-> s.row, full |-> s.full] /\ s.row \in Nat /\ s.row >= top
  /\ \A j \in 1..Len(s.rows) : s.rows[j][1] \in Nat /\ s.rows[j][1] >= top
\* render_one_arg: one more argument is.
LEMMA LineBelow ==
  ASSUME NEW top \in Nat, NEW s, Below(s, top), NEW a, NEW i PROVE Below(ArgLine(s, a, i), top)
<1> DEFINE new == render_one_arg(a, i, s.row)
           more == <<<<s.row, <<"more args">>>>>>
<1>1. \A j \in 1..Len(new) : new[j][1] \in Nat /\ new[j][1] >= s.row
  <2> DEFINE whats == <<<<"arg", i>>>> \o ArgRows(a, s.row + 1)
  <2>1. new = From(s.row, whats)
    BY DEF render_one_arg
  <2>2. Len(whats) \in Nat /\ DOMAIN whats = 1..Len(whats)
    OBVIOUS
  <2> HIDE DEF new, whats
  <2>3. new = [j \in 1..Len(whats) |-> <<s.row + j - 1, whats[j]>>]
    BY <2>1, <2>2 DEF From
  <2>4. Len(new) = Len(whats) /\ \A j \in 1..Len(whats) : new[j][1] = s.row + j - 1
    BY <2>2, <2>3
  <2> QED BY <2>2, <2>4 DEF Below
<1>2. \A j \in 1..Len(more) : more[j][1] = s.row
  <2>1. Len(more) = 1 /\ more[1][1] = s.row
    OBVIOUS
  <2> HIDE DEF more
  <2> QED BY <2>1
<1>3. ArgLine(s, a, i) = IF s.full THEN s
                         ELSE IF s.row >= 17
                         THEN [s EXCEPT !.full = TRUE, !.rows = @ \o more]
                         ELSE [s EXCEPT !.rows = @ \o new, !.row = @ + Len(new)]
  BY DEF ArgLine
<1> HIDE DEF new, more
<1>4. ASSUME NEW t, \A j \in 1..Len(t) : t[j][1] \in Nat /\ t[j][1] >= s.row
      PROVE  \A j \in 1..Len(s.rows \o t) : (s.rows \o t)[j][1] \in Nat /\ (s.rows \o t)[j][1] >= top
  <2>1. /\ Len(s.rows) \in Nat /\ Len(t) \in Nat /\ Len(s.rows \o t) = Len(s.rows) + Len(t)
        /\ \A j \in 1..Len(s.rows) : (s.rows \o t)[j] = s.rows[j]
        /\ \A j \in 1..Len(t) : (s.rows \o t)[Len(s.rows) + j] = t[j]
    BY Joined
  <2> DEFINE st == s.rows \o t
             m == Len(s.rows)
  <2> HIDE DEF st
  <2>2. ASSUME NEW j \in 1..m + Len(t) PROVE st[j][1] \in Nat /\ st[j][1] >= top
    <3>1. CASE j <= m
      <4>1. j \in 1..m /\ st[j] = s.rows[j]
        BY <2>1, <3>1 DEF st
      <4> QED BY <4>1 DEF Below
    <3>2. CASE ~(j <= m)
      <4>1. j - m \in 1..Len(t) /\ m + (j - m) = j
        BY <2>1, <3>2
      <4>2. st[j] = t[j - m] /\ t[j - m][1] \in Nat /\ t[j - m][1] >= s.row
        BY <1>4, <2>1, <4>1 DEF st
      <4> QED BY <4>2 DEF Below
    <3> QED BY <3>1, <3>2
  <2> QED BY <2>1, <2>2 DEF st
<1>5. CASE s.full
  BY <1>3, <1>5
<1>6. CASE ~s.full /\ s.row >= 17
  <2>1. ArgLine(s, a, i) = [rows |-> s.rows \o more, row |-> s.row, full |-> TRUE]
    BY <1>3, <1>6 DEF Below
  <2>2. \A j \in 1..Len(s.rows \o more) : (s.rows \o more)[j][1] \in Nat /\ (s.rows \o more)[j][1] >= top
    BY <1>2, <1>4 DEF Below
  <2> DEFINE st == s.rows \o more
  <2> HIDE DEF st
  <2> QED BY <2>1, <2>2 DEF Below, st
<1>7. CASE ~s.full /\ ~(s.row >= 17)
  <2>1. ArgLine(s, a, i) = [rows |-> s.rows \o new, row |-> s.row + Len(new), full |-> s.full]
    BY <1>3, <1>7 DEF Below
  <2>2. \A j \in 1..Len(s.rows \o new) : (s.rows \o new)[j][1] \in Nat /\ (s.rows \o new)[j][1] >= top
    BY <1>1, <1>4
  <2>3. Len(new) \in Nat
    OBVIOUS
  <2> QED BY <2>1, <2>2, <2>3 DEF Below
<1> QED BY <1>5, <1>6, <1>7

\* No row of the arguments is above the one they begin at.
DrawnTo(args, top, g, n) ==
  g = [i \in 0..n |-> IF i = 0 THEN [rows |-> <<>>, row |-> top, full |-> FALSE]
                      ELSE ArgLine(g[i - 1], args[i], i)]
\* render_parsed_page: all of them are.
LEMMA ArgsBelow ==
  ASSUME NEW args, NEW top \in Nat
  PROVE  \A j \in 1..Len(ArgLines(args, top)) :
           ArgLines(args, top)[j][1] \in Nat /\ ArgLines(args, top)[j][1] >= top
<1> DEFINE none == [rows |-> <<>>, row |-> top, full |-> FALSE]
<1>1. \E g : DrawnTo(args, top, g, Len(args))
  <2> DEFINE S == {n \in Nat : \E g : DrawnTo(args, top, g, n)}
  <2>1. 0 \in S
    <3>1. DrawnTo(args, top, [i \in 0..0 |-> none], 0)
      BY DEF DrawnTo
    <3> QED BY <3>1
  <2>2. ASSUME NEW n \in Nat, n \in S PROVE n + 1 \in S
    <3>1. PICK g : DrawnTo(args, top, g, n)
      BY <2>2
    <3> DEFINE h == [i \in 0..n + 1 |-> IF i <= n THEN g[i] ELSE ArgLine(g[n], args[n + 1], n + 1)]
    <3>2. ASSUME NEW i \in 0..n + 1 PROVE h[i] = IF i = 0 THEN none ELSE ArgLine(h[i - 1], args[i], i)
      <4>1. CASE i <= n
        <5>1. h[i] = g[i] /\ (i # 0 => h[i - 1] = g[i - 1])
          BY <4>1
        <5>2. i \in 0..n
          BY <4>1
        <5> HIDE DEF h
        <5>3. g[i] = IF i = 0 THEN none ELSE ArgLine(g[i - 1], args[i], i)
          BY <3>1, <5>2 DEF DrawnTo
        <5>4. CASE i = 0
          BY <5>1, <5>3, <5>4
        <5>5. CASE i # 0
          BY <5>1, <5>3, <5>5
        <5> QED BY <5>4, <5>5
      <4>2. CASE i = n + 1
        <5>1. h[i] = ArgLine(g[n], args[n + 1], n + 1) /\ h[i - 1] = g[n] /\ i # 0
          BY <4>2
        <5> QED BY <4>2, <5>1
      <4> QED BY <4>1, <4>2
    <3>3. DrawnTo(args, top, h, n + 1)
      BY <3>2 DEF DrawnTo
    <3> QED BY <3>3
  <2>3. Nat \subseteq S
    <3> HIDE DEF S
    <3> QED BY <2>1, <2>2, SetInduction
  <2> QED BY <2>3
<1> DEFINE f == CHOOSE g : DrawnTo(args, top, g, Len(args))
<1>2. ArgLines(args, top) = f[Len(args)].rows
  BY DEF ArgLines, DrawnTo
<1>3. DrawnTo(args, top, f, Len(args))
  BY <1>1
<1> HIDE DEF f
<1>4. \A n \in Nat : n <= Len(args) => Below(f[n], top)
  <2> DEFINE S == {n \in Nat : n <= Len(args) => Below(f[n], top)}
  <2>1. 0 \in S
    <3>1. f[0] = none
      BY <1>3 DEF DrawnTo
    <3>2. Below(none, top)
      BY DEF Below
    <3> QED BY <3>1, <3>2
  <2>2. ASSUME NEW n \in Nat, n \in S PROVE n + 1 \in S
    <3> SUFFICES ASSUME n + 1 <= Len(args) PROVE Below(f[n + 1], top)
      OBVIOUS
    <3>1. n + 1 \in 0..Len(args) /\ n + 1 # 0 /\ (n + 1) - 1 = n /\ n <= Len(args)
      OBVIOUS
    <3>2. f[n + 1] = ArgLine(f[n], args[n + 1], n + 1)
      BY <1>3, <3>1 DEF DrawnTo
    <3>3. Below(f[n], top)
      BY <2>2, <3>1
    <3> QED BY <3>2, <3>3, LineBelow
  <2>3. Nat \subseteq S
    <3> HIDE DEF S
    <3> QED BY <2>1, <2>2, SetInduction
  <2> QED BY <2>3
<1>5. Below(f[Len(args)], top)
  BY <1>4
<1> QED BY <1>2, <1>5 DEF Below

\* The page of a call that the generic decoder understands has its warning on
\* row 5, and nothing of the arguments falls on it.
LEMMA WarningParsed ==
  ASSUME NEW call, NEW s, call.fn \in Drainers
  PROVE  \E r \in Row : Draw(s, render_parsed_page(call))[r] = <<"warning", call.fn>>
<1> DEFINE what == <<"warning", call.fn>>
           top == <<<<2, <<"function", call.fn>>>>>>
           lines == ArgLines(call.args, 8)
           s1 == top \o <<<<5, what>>>>
           k == Len(s1)
           p == render_parsed_page(call)
<1>1. p.rows = s1 \o lines
  BY DEF render_parsed_page, Page
<1>2. Avoids(lines, 5)
  <2>1. \A j \in 1..Len(lines) : lines[j][1] \in Nat /\ lines[j][1] >= 8
    BY ArgsBelow
  <2> HIDE DEF lines
  <2> QED BY <2>1 DEF Avoids
<1> HIDE DEF p, lines, what, top
<1>3. LastThere(s1, k) /\ s1[k] = <<5, what>>
  BY Ending
<1> HIDE DEF s1, k
<1>4. LastThere(s1 \o lines, k) /\ (s1 \o lines)[k] = <<5, what>>
  <2>1. Avoids(lines, s1[k][1])
    BY <1>2, <1>3
  <2> QED BY <1>3, <2>1, Appended
<1>5. Shown(p, k, 5, what)
  <2>1. Counted(s1 \o lines)
    BY JoinedIsCounted
  <2>2. Counted(p.rows)
    BY <1>1, <2>1
  <2>3. LastThere(p.rows, k) /\ p.rows[k] = <<5, what>>
    BY <1>1, <1>4
  <2> QED BY <2>2, <2>3 DEF Shown
<1>6. \E r \in Row : Draw(s, p)[r] = what
  BY <1>5, LastIsDrawn
<1> QED BY <1>6 DEF p, what

\* What a call of the v0.2 decoder, or of the generic one, says on page 0.
LEMMA BadgeOf ==
  ASSUME NEW tx, NEW meta, Understood(TxDoc(tx, meta))
  PROVE  LET x == TxDoc(tx, meta) IN
         /\ x.tx = tx
         /\ \/ x.badge = "DECODED" /\ x.call = eth_abi_decode(tx.data) /\ IsCall(tx.data, x.call)
            \/ x.badge = "PARSED" /\ x.call = abi_decode(tx.data)
<1> DEFINE legacy == eth_abi_decode(tx.data)
           generic == abi_decode(tx.data)
           x == TxDoc(tx, meta)
<1>1. /\ x.tx = tx /\ x.badge = Badge(legacy, generic, tx.data)
      /\ x.call = IF legacy.ok THEN legacy ELSE generic
  BY DEF TxDoc
<1> HIDE DEF x
<1>2. x.badge \in {"DECODED", "PARSED"}
  BY DEF Understood, x
<1>3. CASE legacy.ok
  <2>1. x.badge = "DECODED" /\ x.call = legacy
    BY <1>1, <1>3 DEF Badge
  <2> QED BY <1>1, <1>3, <2>1, LegacyCall DEF x
<1>4. CASE ~legacy.ok
  <2>1. x.call = generic /\ x.badge # "DECODED"
    BY <1>1, <1>4 DEF Badge
  <2> QED BY <1>1, <1>2, <2>1 DEF x
<1> QED BY <1>3, <1>4

\* What page 0 says of a call, when the call drains.
LEMMA DrainIsMarked ==
  ASSUME NEW x, NEW data, Drains(x.call),
         \/ x.badge = "DECODED" /\ IsCall(data, x.call)
         \/ x.badge = "PARSED"
  PROVE  abi_summary(x) = <<"call", x.call.fn, TRUE>>
<1>1. CASE x.badge = "DECODED" /\ IsCall(data, x.call)
  <2>1. x.call.fn # "permit"
    BY <1>1 DEF IsCall, LegacyFns
  <2>2. is_infinite(x.call) \/ approved_bool(x.call)
    BY <2>1 DEF Drains, is_infinite, approved_bool
  <2>3. (is_infinite(x.call) \/ approved_bool(x.call)) = TRUE
    BY <2>2
  <2>4. abi_summary(x) = <<"call", x.call.fn, is_infinite(x.call) \/ approved_bool(x.call)>>
    BY <1>1 DEF abi_summary
  <2> QED BY <2>3, <2>4, Zenon
<1>2. CASE x.badge = "PARSED"
  <2>1. x.call.fn \in Drainers
    BY DEF Drains, Drainers
  <2>2. (x.call.fn \in Drainers) = TRUE
    BY <2>1
  <2>3. abi_summary(x) = <<"call", x.call.fn, x.call.fn \in Drainers>>
    BY <1>2 DEF abi_summary
  <2> QED BY <2>2, <2>3, Zenon
<1> QED BY <1>1, <1>2

\* The warnings are on page 0 and on the page of the call.
LEMMA DrainersWarned == ConfirmInv /\ ScreenInv => DrainerWarned
<1> SUFFICES ASSUME ConfirmInv, ScreenInv, dlg = "tx", Understood(doc), Drains(doc.call)
             PROVE  /\ page = 0 => \E r \in Row : screen[r] = <<"call", doc.call.fn, TRUE>>
                    /\ page = 1 => \E r \in Row : screen[r] = <<"warning", doc.call.fn>>
  BY DEF DrainerWarned, Drains
<1>1. PICK tx, meta : doc = TxDoc(tx, meta)
  BY DEF ConfirmInv, DocInv, IsTxDoc
<1>2. \/ doc.badge = "DECODED" /\ IsCall(tx.data, doc.call)
      \/ doc.badge = "PARSED"
  BY <1>1, BadgeOf
<1>3. PICK before : screen = Draw(before, TxPage(doc, page))
  BY DEF ScreenInv, Dialogs, CurrentPage, PageOf, Known
<1>4. ASSUME page = 0 PROVE \E r \in Row : screen[r] = <<"call", doc.call.fn, TRUE>>
  <2>1. TxPage(doc, page) = render_page0(doc)
    BY <1>4 DEF TxPage
  <2>2. abi_summary(doc) = <<"call", doc.call.fn, TRUE>>
    BY <1>2, DrainIsMarked
  <2>3. \E r \in Row : Draw(before, render_page0(doc))[r] = abi_summary(doc)
    BY SummaryShown
  <2> QED BY <1>3, <2>1, <2>2, <2>3
<1>5. ASSUME page = 1 PROVE \E r \in Row : screen[r] = <<"warning", doc.call.fn>>
  <2>1. CASE doc.badge = "PARSED"
    <3>1. TxPage(doc, page) = render_parsed_page(doc.call)
      BY <1>5, <2>1 DEF TxPage
    <3>2. doc.call.fn \in Drainers
      BY DEF Drains, Drainers
    <3>3. \E r \in Row : Draw(before, render_parsed_page(doc.call))[r] = <<"warning", doc.call.fn>>
      BY <3>2, WarningParsed
    <3> QED BY <1>3, <3>1, <3>3
  <2>2. CASE doc.badge = "DECODED" /\ IsCall(tx.data, doc.call)
    <3>1. doc.call.fn \in {"approve", "setApprovalForAll"}
      BY <2>2 DEF Drains, IsCall, LegacyFns
    <3>2. TxPage(doc, page) = render_decoded_page(doc)
      BY <1>5, <2>2, <3>1 DEF TxPage
    <3>3. is_infinite(doc.call) \/ approved_bool(doc.call)
      BY <3>1 DEF Drains, is_infinite, approved_bool
    <3>4. Len(doc.call.args) = 2
      <4>1. doc.call.args = [i \in DOMAIN Args[doc.call.fn] |-> Arg(Args[doc.call.fn][i], Slot(tx.data, i))]
        BY <2>2 DEF IsCall
      <4>2. DOMAIN Args[doc.call.fn] = 1..2
        BY <3>1 DEF Args
      <4> QED BY <4>1, <4>2
    <3>5. Len(doc.call.args) \in Nat /\ Len(doc.call.args) >= 1
      BY <3>4
    <3>6. \E r \in Row : Draw(before, render_decoded_page(doc))[r] = <<"warning", doc.call.fn>>
      BY <3>3, <3>5, WarningDecoded
    <3> QED BY <1>3, <3>2, <3>6
  <2> QED BY <1>2, <2>1, <2>2
<1> QED BY <1>4, <1>5

\* Whoever is asked to sign an unlimited approve, a setApprovalForAll(true) or a
\* permit reads the warning on both pages, whatever else the call and its
\* metadata put on the screen (render_page0, render_decoded_page,
\* render_parsed_page; abi_selectors.c).
THEOREM DrainsAreShown == ScreensSpec => []DrainerWarned
<1>1. Init => ScreenInv
  BY DEF Init, ScreenInv, Dialogs
<1> QED BY <1>1, ScreenKept, DrainersWarned, ConfirmAlways, ScreensRun, PTL DEF Spec

(*************************************************************************)
(* DECODED leaves nothing out.                                           *)
(*************************************************************************)
\* What confirm_tx calls DECODED gives back all of the data it was read from.
LEMMA DecodedIsWhole == ConfirmInv => DecodedCallIsTheData
<1> SUFFICES ASSUME ConfirmInv, dlg = "tx", doc.badge = "DECODED"
             PROVE  doc.tx.data = [k \in 1..4 + 32 * Len(doc.call.args) |->
                      IF k <= 4 THEN Selector[doc.call.fn][k]
                      ELSE LET a == doc.call.args[((k - 5) \div 32) + 1]
                               j == ((k - 5) % 32) + 1
                           IN IF j <= Hides(a.type) THEN 0 ELSE a.value[j]]
  BY DEF DecodedCallIsTheData, Hides
<1>1. eth_tx_decode(req.raw).ok /\ \E meta : doc = TxDoc(eth_tx_decode(req.raw), meta)
  BY DEF ConfirmInv, DocInv, IsTxDoc
<1>2. Octets(req.raw)
  <2>1. req.raw \in Seq(Byte)
    BY PayloadAssumption DEF ConfirmInv, TypeOK, AskInv, NoRequest
  <2> QED BY <2>1 DEF Octets, Str
<1>3. Str(eth_tx_decode(req.raw).data)
  BY <1>1, <1>2, DataIsBytes
<1>4. doc.tx = eth_tx_decode(req.raw) /\ IsCall(eth_tx_decode(req.raw).data, doc.call)
  <2>1. Understood(doc)
    BY DEF Understood
  <2> QED BY <1>1, <2>1, BadgeOf
<1> QED BY <1>3, <1>4, CallIsData

\* No byte of a call that page 0 calls DECODED escapes its page: the selector
\* and what is shown of each argument give back the data (eth_abi_decode,
\* rlp_to_bytes).
THEOREM NothingLeftOut == ScreensSpec => []DecodedCallIsTheData
  BY DecodedIsWhole, ScreensAlways, PTL

(*************************************************************************)
(* The pages of a text.                                                  *)
(*************************************************************************)
\* Where the lines of a page that starts at i begin, after n of them.
StartsTo(text, i, g, n) ==
  g = [k \in 0..n |-> IF k = 0 THEN i
                      ELSE IF g[k - 1] > Len(text) THEN g[k - 1] ELSE TextLine(text, g[k - 1]).next]
Starts(text, i) == CHOOSE g : StartsTo(text, i, g, 16)
NextStart(text, at) == IF at > Len(text) THEN at ELSE TextLine(text, at).next
Follows(text, f) == \A k \in 0..15 : f[k + 1] = NextStart(text, f[k])
\* The first line starts where the page does, each of the others where the one
\* before it ends.
LEMMA StartsAre == ASSUME NEW text, NEW i PROVE Starts(text, i)[0] = i /\ Follows(text, Starts(text, i))
<1> DEFINE S == {n \in Nat : \E g : StartsTo(text, i, g, n)}
<1>1. 0 \in S
  <2>1. StartsTo(text, i, [k \in 0..0 |-> i], 0)
    BY DEF StartsTo
  <2> QED BY <2>1
<1>2. ASSUME NEW n \in Nat, n \in S PROVE n + 1 \in S
  <2>1. PICK g : StartsTo(text, i, g, n)
    BY <1>2
  <2> DEFINE new == IF g[n] > Len(text) THEN g[n] ELSE TextLine(text, g[n]).next
             h == [k \in 0..n + 1 |-> IF k <= n THEN g[k] ELSE new]
  <2>2. ASSUME NEW k \in 0..n + 1
        PROVE  h[k] = IF k = 0 THEN i ELSE IF h[k - 1] > Len(text) THEN h[k - 1] ELSE TextLine(text, h[k - 1]).next
    <3>1. CASE k <= n
      <4>1. h[k] = g[k] /\ (k # 0 => h[k - 1] = g[k - 1]) /\ k \in 0..n
        BY <3>1
      <4> HIDE DEF h
      <4>2. g[k] = IF k = 0 THEN i ELSE IF g[k - 1] > Len(text) THEN g[k - 1] ELSE TextLine(text, g[k - 1]).next
        BY <2>1, <4>1 DEF StartsTo
      <4>3. CASE k = 0
        BY <4>1, <4>2, <4>3
      <4>4. CASE k # 0
        BY <4>1, <4>2, <4>4
      <4> QED BY <4>3, <4>4
    <3>2. CASE k = n + 1
      <4> HIDE DEF new
      <4>1. h[k] = new /\ h[k - 1] = g[n] /\ k # 0
        BY <3>2
      <4> QED BY <4>1 DEF new
    <3> QED BY <3>1, <3>2
  <2>3. h = [k \in 0..n + 1 |-> h[k]]
    OBVIOUS
  <2> HIDE DEF h
  <2>4. StartsTo(text, i, h, n + 1)
    BY <2>2, <2>3 DEF StartsTo
  <2> QED BY <2>4
<1>3. 16 \in S
  <2> HIDE DEF S
  <2> QED BY <1>1, <1>2, SetInduction
<1>4. StartsTo(text, i, Starts(text, i), 16)
  BY <1>3 DEF Starts
<1> DEFINE f == Starts(text, i)
<1> HIDE DEF f, S
<1>5. f[0] = i
  BY <1>4 DEF StartsTo, f
<1>6. ASSUME NEW k \in 0..15
      PROVE  f[k + 1] = IF f[k] > Len(text) THEN f[k] ELSE TextLine(text, f[k]).next
  <2>1. k + 1 \in 0..16 /\ k + 1 # 0 /\ (k + 1) - 1 = k
    OBVIOUS
  <2> QED BY <1>4, <2>1 DEF StartsTo, f
<1> QED BY <1>5, <1>6 DEF f, NextStart, Follows

\* The same, of one line.
LEMMA NextLine ==
  ASSUME NEW text, NEW i, NEW k \in 0..15
  PROVE  Starts(text, i)[k + 1] = NextStart(text, Starts(text, i)[k])
  BY StartsAre DEF Follows

\* A page ends where its seventeenth line would start.
LEMMA PageEnds == ASSUME NEW text, NEW i PROVE render_text_page(text, i).next = Starts(text, i)[16]
  BY DEF render_text_page, Starts, StartsTo, TEXT_LINES_PER_PAGE

\* Once a line starts after the text, so do the lines after it.
LEMMA EndStays ==
  ASSUME NEW text, NEW i, NEW k \in 0..16, Starts(text, i)[k] = Len(text) + 1
  PROVE  Starts(text, i)[16] = Len(text) + 1
<1> DEFINE f == Starts(text, i)
           S == {n \in Nat : n \in k..16 => f[n] = Len(text) + 1}
           after == Len(text) + 1
<1>0. after \in Nat /\ after > Len(text)
  OBVIOUS
<1> HIDE DEF f
<1>1. 0 \in S
  BY DEF f
<1>2. ASSUME NEW n \in Nat, n \in S PROVE n + 1 \in S
  <2> SUFFICES ASSUME n + 1 \in k..16 PROVE f[n + 1] = after
    OBVIOUS
  <2>1. CASE n + 1 = k
    BY <2>1 DEF f
  <2>2. CASE n + 1 # k
    <3>1. n \in k..16 /\ n \in 0..15
      BY <2>2
    <3>2. f[n] = after
      BY <1>2, <3>1
    <3>3. f[n + 1] = NextStart(text, f[n])
      BY <3>1, NextLine DEF f
    <3> QED BY <1>0, <3>2, <3>3 DEF NextStart
  <2> QED BY <2>1, <2>2
<1>3. 16 \in S
  <2> HIDE DEF S
  <2> QED BY <1>1, <1>2, SetInduction
<1> QED BY <1>3 DEF f

\* The line that starts at a, when the text has no newline from there up to i.
NoBreak(text, a, i) == \A j \in a..i : text[j] # Newline
\* Its end, when character i is a newline or the last one that fits.
LEMMA LineBreaks ==
  ASSUME NEW text, NEW a \in Nat \ {0}, NEW i \in Nat, a <= i, i <= a + 27, i <= Len(text),
         NoBreak(text, a, i - 1), text[i] = Newline \/ i = a + 27
  PROVE  TextLine(text, a).next = i + 1
<1> DEFINE stop == Min({a + TEXT_COLS_PER_LINE - 1, Len(text)})
           breaks == {j \in a..stop : text[j] = Newline}
<1>1. stop = IF a + 27 <= Len(text) THEN a + 27 ELSE Len(text)
  BY Smaller DEF TEXT_COLS_PER_LINE
<1> HIDE DEF stop
<1>2. i \in a..stop /\ stop \in Nat
  BY <1>1
<1>3. CASE text[i] = Newline
  <2>1. i \in breaks /\ \A j \in breaks : i <= j
    BY <1>2, <1>3 DEF NoBreak
  <2>2. breaks \subseteq Int
    BY <1>2
  <2>3. TextLine(text, a) = [last |-> Min(breaks) - 1, next |-> Min(breaks) + 1]
    BY <2>1 DEF TextLine, stop
  <2> HIDE DEF breaks
  <2>4. \A j \in breaks : (\A k \in breaks : j <= k) => j = i
    <3>1. ASSUME NEW j \in breaks, \A k \in breaks : j <= k PROVE j = i
      <4>1. j <= i /\ i <= j /\ j \in Int
        BY <2>1, <2>2, <3>1
      <4> QED BY <4>1
    <3> QED BY <3>1
  <2>5. Min(breaks) = i
    BY <2>1, <2>4 DEF Min
  <2> QED BY <2>3, <2>5
<1>4. CASE text[i] # Newline
  <2>1. i = a + 27 /\ stop = i
    BY <1>1, <1>4
  <2>2. breaks = {}
    BY <1>4, <2>1 DEF NoBreak
  <2>3. TextLine(text, a) = [last |-> stop, next |-> stop + 1]
    BY <2>2 DEF TextLine, stop
  <2> QED BY <2>1, <2>3
<1> QED BY <1>3, <1>4

\* The last line of the text.
LEMMA LineEnds ==
  ASSUME NEW text, NEW a \in Nat \ {0}, a <= Len(text), Len(text) <= a + 27, NoBreak(text, a, Len(text))
  PROVE  TextLine(text, a).next = Len(text) + 1
<1> DEFINE stop == Min({a + TEXT_COLS_PER_LINE - 1, Len(text)})
           breaks == {j \in a..stop : text[j] = Newline}
<1>1. stop = Len(text)
  BY Smaller DEF TEXT_COLS_PER_LINE
<1> HIDE DEF stop
<1>2. breaks = {}
  BY <1>1 DEF NoBreak
<1>3. TextLine(text, a) = [last |-> stop, next |-> stop + 1]
  BY <1>2 DEF TextLine, stop
<1> QED BY <1>1, <1>3

\* What compute_page_offsets knows after i characters, and after the next.
ScanStep(s, c, i, max) ==
  LET full == c = Newline \/ s.col + 1 = TEXT_COLS_PER_LINE
      line == IF full THEN s.line + 1 ELSE s.line
      turn == line = TEXT_LINES_PER_PAGE
  IN [col |-> IF full THEN 0 ELSE s.col + 1,
      line |-> IF turn THEN 0 ELSE line,
      more |-> IF turn /\ Len(s.more) + 1 < max THEN Append(s.more, i + 1) ELSE s.more]
ScannedTo(text, max, g, n) ==
  g = [i \in 0..n |-> IF i = 0 THEN [col |-> 0, line |-> 0, more |-> <<>>]
                      ELSE ScanStep(g[i - 1], text[i], i, max)]
\* compute_page_offsets does that to every character in turn.
LEMMA Scan ==
  ASSUME NEW text, NEW max, Len(text) \in Nat
  PROVE  \E f : ScannedTo(text, max, f, Len(text)) /\ later_offsets(text, max) = f[Len(text)].more
<1> DEFINE S == {n \in Nat : \E g : ScannedTo(text, max, g, n)}
           none == [col |-> 0, line |-> 0, more |-> <<>>]
<1>1. 0 \in S
  <2>1. ScannedTo(text, max, [i \in 0..0 |-> none], 0)
    BY DEF ScannedTo
  <2> QED BY <2>1
<1>2. ASSUME NEW n \in Nat, n \in S PROVE n + 1 \in S
  <2>1. PICK g : ScannedTo(text, max, g, n)
    BY <1>2
  <2> DEFINE new == ScanStep(g[n], text[n + 1], n + 1, max)
             h == [k \in 0..n + 1 |-> IF k <= n THEN g[k] ELSE new]
  <2> HIDE DEF none, new
  <2>2. ASSUME NEW k \in 0..n + 1
        PROVE  h[k] = IF k = 0 THEN none ELSE ScanStep(h[k - 1], text[k], k, max)
    <3>1. CASE k <= n
      <4>1. h[k] = g[k] /\ (k # 0 => h[k - 1] = g[k - 1]) /\ k \in 0..n
        BY <3>1
      <4> HIDE DEF h
      <4>2. g[k] = IF k = 0 THEN none ELSE ScanStep(g[k - 1], text[k], k, max)
        BY <2>1, <4>1 DEF ScannedTo, none
      <4>3. CASE k = 0
        BY <4>1, <4>2, <4>3
      <4>4. CASE k # 0
        BY <4>1, <4>2, <4>4
      <4> QED BY <4>3, <4>4
    <3>2. CASE k = n + 1
      <4>1. h[k] = new /\ h[k - 1] = g[n] /\ k # 0
        BY <3>2
      <4> QED BY <3>2, <4>1 DEF new
    <3> QED BY <3>1, <3>2
  <2>3. h = [k \in 0..n + 1 |-> h[k]]
    OBVIOUS
  <2> HIDE DEF h
  <2>4. ScannedTo(text, max, h, n + 1)
    BY <2>2, <2>3 DEF ScannedTo, none
  <2> QED BY <2>4
<1>3. Len(text) \in S
  <2> HIDE DEF S
  <2> QED BY <1>1, <1>2, SetInduction
<1> DEFINE f == CHOOSE g : ScannedTo(text, max, g, Len(text))
<1>4. ScannedTo(text, max, f, Len(text))
  BY <1>3
<1>5. later_offsets(text, max) = f[Len(text)].more
  BY DEF later_offsets, ScannedTo, ScanStep
<1> QED BY <1>4, <1>5

\* The offsets found so far are where the pages start, and the line being
\* counted is the one that render_text_page would be drawing.
ScanInv(text, max, i, s) ==
  /\ s.col \in 0..27 /\ s.line \in 0..15 /\ s.more \in Seq(Nat) /\ s.col <= i
  /\ NoBreak(text, i - s.col + 1, i)
  /\ \A p \in 1..Len(s.more) :
       Starts(text, (<<1>> \o s.more)[p])[16] = (<<1>> \o s.more)[p + 1]
  /\ Len(s.more) + 1 < max =>
       Starts(text, (<<1>> \o s.more)[Len(s.more) + 1])[s.line] = i - s.col + 1

\* One more character, whether it ends a line, a page, or neither.
LEMMA ScanKept ==
  ASSUME NEW text, NEW max \in Nat, NEW i \in Nat, i + 1 <= Len(text), NEW s, ScanInv(text, max, i, s)
  PROVE  ScanInv(text, max, i + 1, ScanStep(s, text[i + 1], i + 1, max))
<1> DEFINE col == s.col
           line == s.line
           more == s.more
           n == Len(more)
           c == text[i + 1]
           full == c = Newline \/ col + 1 = 28
           t == ScanStep(s, c, i + 1, max)
           a == i - col + 1
           o == <<1>> \o more
<1>1. /\ col \in 0..27 /\ line \in 0..15 /\ more \in Seq(Nat) /\ col <= i /\ NoBreak(text, a, i)
      /\ \A p \in 1..n : Starts(text, o[p])[16] = o[p + 1]
      /\ n + 1 < max => Starts(text, o[n + 1])[line] = a
  BY DEF ScanInv
<1>2. n \in Nat
  OBVIOUS
<1>3. t = [col |-> IF full THEN 0 ELSE col + 1,
           line |-> IF (IF full THEN line + 1 ELSE line) = 16 THEN 0 ELSE IF full THEN line + 1 ELSE line,
           more |-> IF (IF full THEN line + 1 ELSE line) = 16 /\ n + 1 < max
                    THEN Append(more, (i + 1) + 1) ELSE more]
  BY DEF ScanStep, TEXT_COLS_PER_LINE, TEXT_LINES_PER_PAGE
<1> HIDE DEF t, o, n, col, line, more, c
<1>4. a \in Nat \ {0} /\ a <= i + 1 /\ i + 1 <= a + 27 /\ (i + 1) - (col + 1) + 1 = a /\ (i + 1) + 1 = i + 2
  BY <1>1
<1>5. CASE ~full
  <2>1. t.col = col + 1 /\ t.line = line /\ t.more = more
    <3>1. line # 16
      BY <1>1
    <3> QED BY <1>3, <1>5, <3>1
  <2>2. col + 1 \in 0..27 /\ col + 1 <= i + 1
    BY <1>1, <1>5
  <2>3. NoBreak(text, a, i + 1)
    <3>1. ASSUME NEW j \in a..i + 1 PROVE text[j] # Newline
      <4>1. j \in a..i \/ j = i + 1
        BY <1>4, <3>1
      <4> QED BY <1>1, <1>5, <4>1 DEF NoBreak, c
    <3> QED BY <3>1 DEF NoBreak
  <2> HIDE DEF a
  <2>4. ScanInv(text, max, i + 1, t)
    BY <1>1, <1>4, <2>1, <2>2, <2>3 DEF ScanInv, n, o
  <2> QED BY <2>4 DEF t, c
<1>6. CASE full
  <2>1. TextLine(text, a).next = i + 2
    <3>1. text[i + 1] = Newline \/ i + 1 = a + 27
      <4>1. col + 1 = 28 => i + 1 = a + 27
        BY <1>1
      <4> QED BY <1>6, <4>1 DEF c
    <3>2. NoBreak(text, a, (i + 1) - 1) /\ i + 1 \in Nat
      <4>1. (i + 1) - 1 = i
        OBVIOUS
      <4> QED BY <1>1, <4>1
    <3> HIDE DEF a
    <3>3. TextLine(text, a).next = (i + 1) + 1
      BY <1>4, <3>1, <3>2, LineBreaks
    <3> QED BY <1>4, <3>3
  <2>2. n + 1 < max => Starts(text, o[n + 1])[line + 1] = i + 2
    <3>1. SUFFICES ASSUME n + 1 < max PROVE Starts(text, o[n + 1])[line + 1] = i + 2
      OBVIOUS
    <3>2. ~(a > Len(text))
      BY <1>4
    <3> HIDE DEF a
    <3>3. Starts(text, o[n + 1])[line] = a
      BY <1>1, <3>1
    <3>4. Starts(text, o[n + 1])[line + 1] = NextStart(text, Starts(text, o[n + 1])[line])
      <4>1. line \in 0..15
        BY <1>1
      <4> DEFINE start == o[n + 1]
      <4> HIDE DEF start
      <4>2. Starts(text, start)[line + 1] = NextStart(text, Starts(text, start)[line])
        BY <4>1, NextLine
      <4> QED BY <4>2 DEF start
    <3> QED BY <2>1, <3>2, <3>3, <3>4 DEF NextStart
  <2>3. NoBreak(text, i + 2, i + 1) /\ (i + 1) - 0 + 1 = i + 2
    BY DEF NoBreak
  <2> HIDE DEF a
  <2>4. CASE line + 1 # 16
    <3>1. t.col = 0 /\ t.line = line + 1 /\ t.more = more
      BY <1>3, <1>6, <2>4
    <3>2. line + 1 \in 0..15
      BY <1>1, <2>4
    <3>3. /\ t.col \in 0..27 /\ t.line \in 0..15 /\ t.more \in Seq(Nat) /\ t.col <= i + 1
          /\ NoBreak(text, (i + 1) - t.col + 1, i + 1)
      BY <1>1, <2>3, <3>1, <3>2
    <3>4. /\ \A p \in 1..Len(t.more) : Starts(text, (<<1>> \o t.more)[p])[16] = (<<1>> \o t.more)[p + 1]
          /\ Len(t.more) + 1 < max =>
               Starts(text, (<<1>> \o t.more)[Len(t.more) + 1])[t.line] = (i + 1) - t.col + 1
      BY <1>1, <2>2, <2>3, <3>1 DEF n, o
    <3>5. ScanInv(text, max, i + 1, t)
      BY <3>3, <3>4 DEF ScanInv
    <3> QED BY <3>5 DEF t, c
  <2>5. CASE line + 1 = 16 /\ ~(n + 1 < max)
    <3>1. t.col = 0 /\ t.line = 0 /\ t.more = more
      BY <1>3, <1>6, <2>5
    <3>2. ScanInv(text, max, i + 1, t)
      BY <1>1, <2>3, <2>5, <3>1 DEF ScanInv, n, o
    <3> QED BY <3>2 DEF t, c
  <2>6. CASE line + 1 = 16 /\ n + 1 < max
    <3> DEFINE new == <<1>> \o t.more
    <3>1. t.col = 0 /\ t.line = 0 /\ t.more = Append(more, i + 2)
      BY <1>3, <1>4, <1>6, <2>6
    <3>2. Len(t.more) = n + 1 /\ t.more \in Seq(Nat)
      BY <1>1, <3>1 DEF n
    <3>3. new[n + 2] = i + 2 /\ \A p \in 1..n + 1 : new[p] = o[p]
      BY <1>1, <3>1 DEF n, o
    <3> HIDE DEF new
    <3>4. ASSUME NEW p \in 1..n + 1 PROVE Starts(text, new[p])[16] = new[p + 1]
      <4>1. CASE p = n + 1
        <5>1. new[p] = o[n + 1] /\ new[p + 1] = i + 2
          <6>1. p + 1 = n + 2
            BY <1>2, <4>1
          <6> QED BY <3>3, <4>1, <6>1
        <5> QED BY <2>2, <2>6, <5>1
      <4>2. CASE p # n + 1
        <5>1. p \in 1..n /\ p + 1 \in 1..n + 1
          BY <1>2, <4>2
        <5>2. new[p] = o[p] /\ new[p + 1] = o[p + 1]
          BY <3>3, <5>1
        <5> QED BY <1>1, <5>1, <5>2
      <4> QED BY <4>1, <4>2
    <3>5. Starts(text, new[(n + 1) + 1])[0] = i + 2
      <4>1. (n + 1) + 1 = n + 2
        BY <1>2
      <4> QED BY <3>3, <4>1, StartsAre
    <3>6. /\ t.col \in 0..27 /\ t.line \in 0..15 /\ t.col <= i + 1
          /\ NoBreak(text, (i + 1) - t.col + 1, i + 1)
      BY <2>3, <3>1
    <3>7. /\ \A p \in 1..Len(t.more) : Starts(text, new[p])[16] = new[p + 1]
          /\ Starts(text, new[Len(t.more) + 1])[t.line] = (i + 1) - t.col + 1
      BY <2>3, <3>1, <3>2, <3>4, <3>5
    <3>8. ScanInv(text, max, i + 1, t)
      BY <3>2, <3>6, <3>7 DEF ScanInv, new
    <3> QED BY <3>8 DEF t, c
  <2> QED BY <2>4, <2>5, <2>6
<1> QED BY <1>5, <1>6

\* The pages of a text that compute_page_offsets lists cover it.
LEMMA OffsetsCover ==
  ASSUME NEW text, NEW max \in Nat, Len(text) \in Nat
  PROVE  LET o == compute_page_offsets(text, max)
             n == Len(o)
         IN /\ \A p \in 1..n - 1 : render_text_page(text, o[p]).next = o[p + 1]
            /\ n < max => render_text_page(text, o[n]).next = Len(text) + 1
<1> DEFINE len == Len(text)
           o == compute_page_offsets(text, max)
<1>1. PICK f : ScannedTo(text, max, f, len) /\ later_offsets(text, max) = f[len].more
  BY Scan
<1>2. \A i \in Nat : i <= len => ScanInv(text, max, i, f[i])
  <2> DEFINE S == {i \in Nat : i <= len => ScanInv(text, max, i, f[i])}
  <2>1. 0 \in S
    <3>1. f[0] = [col |-> 0, line |-> 0, more |-> <<>>]
      BY <1>1 DEF ScannedTo
    <3>2. f[0].col = 0 /\ f[0].line = 0 /\ f[0].more = <<>>
      BY <3>1
    <3>3. <<>> \in Seq(Nat) /\ Len(<<>>) = 0 /\ (<<1>> \o <<>>)[1] = 1
      OBVIOUS
    <3>4. NoBreak(text, 1, 0)
      BY DEF NoBreak
    <3>5. Starts(text, 1)[0] = 1
      BY StartsAre
    <3>6. ScanInv(text, max, 0, f[0])
      BY <3>2, <3>3, <3>4, <3>5 DEF ScanInv
    <3> QED BY <3>6
  <2>2. ASSUME NEW i \in Nat, i \in S PROVE i + 1 \in S
    <3> SUFFICES ASSUME i + 1 <= len PROVE ScanInv(text, max, i + 1, f[i + 1])
      OBVIOUS
    <3>1. i + 1 \in 0..len /\ i + 1 # 0 /\ (i + 1) - 1 = i /\ i <= len
      OBVIOUS
    <3>2. f[i + 1] = ScanStep(f[i], text[i + 1], i + 1, max)
      BY <1>1, <3>1 DEF ScannedTo
    <3>3. ScanInv(text, max, i, f[i])
      BY <2>2, <3>1
    <3> QED BY <3>2, <3>3, ScanKept
  <2>3. Nat \subseteq S
    <3> HIDE DEF S
    <3> QED BY <2>1, <2>2, SetInduction
  <2> QED BY <2>3
<1> DEFINE s == f[len]
           m == Len(s.more)
<1>3. ScanInv(text, max, len, s)
  BY <1>2
<1>4. o = <<1>> \o s.more
  BY <1>1 DEF compute_page_offsets
<1> HIDE DEF s, o
<1>5. m \in Nat /\ Len(o) = m + 1
  BY <1>3, <1>4 DEF ScanInv
<1>6. ASSUME NEW p \in 1..Len(o) - 1 PROVE render_text_page(text, o[p]).next = o[p + 1]
  <2>1. p \in 1..m
    BY <1>5
  <2>2. Starts(text, o[p])[16] = o[p + 1]
    BY <1>3, <1>4, <2>1 DEF ScanInv
  <2> QED BY <2>2, PageEnds
<1>7. ASSUME Len(o) < max PROVE render_text_page(text, o[Len(o)]).next = len + 1
  <2> DEFINE start == o[m + 1]
             col == s.col
             line == s.line
             a == len - col + 1
  <2>1. /\ col \in 0..27 /\ line \in 0..15 /\ col <= len
        /\ NoBreak(text, a, len) /\ Starts(text, start)[line] = a
    BY <1>3, <1>4, <1>5, <1>7 DEF ScanInv
  <2> HIDE DEF start, col, line
  <2>2. Starts(text, start)[16] = len + 1
    <3>1. CASE col = 0
      <4>1. a = len + 1 /\ line \in 0..16
        BY <2>1, <3>1
      <4> QED BY <2>1, <4>1, EndStays
    <3>2. CASE col # 0
      <4>1. a \in Nat \ {0} /\ a <= len /\ len <= a + 27
        BY <2>1, <3>2
      <4>2. TextLine(text, a).next = len + 1
        BY <2>1, <4>1, LineEnds
      <4>3. Starts(text, start)[line + 1] = len + 1
        <5>1. ~(a > len)
          BY <4>1
        <5>2. Starts(text, start)[line + 1] = NextStart(text, Starts(text, start)[line])
          BY <2>1, NextLine
        <5> QED BY <2>1, <4>2, <5>1, <5>2 DEF NextStart
      <4>4. line + 1 \in 0..16
        BY <2>1
      <4> QED BY <4>3, <4>4, EndStays
    <3> QED BY <3>1, <3>2
  <2> QED BY <1>5, <2>2, PageEnds DEF start
<1> QED BY <1>6, <1>7 DEF o

\* The same, of the text that is asked about.
LEMMA OffsetsAgree == ConfirmInv => NoByteSkipped
<1> SUFFICES ASSUME ConfirmInv, dlg \in {"personal", "typed"}
             PROVE  LET n == Len(doc.offsets) IN
                    /\ \A p \in 1..n - 1 : render_text_page(req.text, doc.offsets[p]).next = doc.offsets[p + 1]
                    /\ n < MAX_TEXT_PAGES - 1 => render_text_page(req.text, doc.offsets[n]).next = Len(req.text) + 1
  BY DEF NoByteSkipped
<1>1. PICK max \in {31, 32} : doc.offsets = compute_page_offsets(req.text, max)
  BY DEF ConfirmInv, DocInv, TypedDoc, MAX_TEXT_PAGES
<1>2. max \in Nat /\ MAX_TEXT_PAGES - 1 <= max /\ MAX_TEXT_PAGES = 32
  BY <1>1 DEF MAX_TEXT_PAGES
<1>3. Len(req.text) \in Nat
  BY PayloadAssumption DEF ConfirmInv, TypeOK, AskInv, NoRequest
<1>4. Len(doc.offsets) \in Nat
  OBVIOUS
<1>5. LET o == doc.offsets
          n == Len(o)
      IN /\ \A p \in 1..n - 1 : render_text_page(req.text, o[p]).next = o[p + 1]
         /\ n < max => render_text_page(req.text, o[n]).next = Len(req.text) + 1
  BY <1>1, <1>2, <1>3, OffsetsCover
<1> QED BY <1>2, <1>4, <1>5

\* No byte of a text that is to be signed falls between two pages or after the
\* last one, as long as the table of offsets has room for them
\* (compute_page_offsets against render_text_page).
THEOREM TextIsWhole == ScreensSpec => []NoByteSkipped
  BY OffsetsAgree, ScreensAlways, PTL
=============================================================================
