----------------------------- MODULE TypedProofs -----------------------------
(* Theorems about typed data, of any types nested up to EIP712_MAX_DEPTH    *)
(* deep and any values: in the tree that the extension makes of it the      *)
(* cartridge finds every value where it was put, measures the type strings  *)
(* and computes the hashes that the extension computed, and has a line for  *)
(* every value that was asked for.                                          *)
EXTENDS Confirm, CodecProofs

(*************************************************************************)
(* Atomic values.                                                        *)
(*************************************************************************)
\* The sequences over a set.
LEMMA SeqIsStr == ASSUME NEW S, NEW s \in Seq(S) PROVE Str(s)
  BY DEF Str
\* Sequences that are put together make one.
LEMMA StrJoin == ASSUME NEW a, Str(a), NEW b, Str(b) PROVE Str(a \o b)
<1> DEFINE S == {a[i] : i \in 1..Len(a)} \cup {b[i] : i \in 1..Len(b)}
<1>1. a \in Seq(S)
  BY DEF Str
<1>2. b \in Seq(S)
  BY DEF Str
<1> HIDE DEF S
<1>3. a \o b \in Seq(S)
  BY <1>1, <1>2
<1> QED BY <1>3, SeqIsStr

\* n times x.
Fill(n, x) == [i \in 1..n |-> x]
LEMMA Filling == ASSUME NEW n \in Nat, NEW x PROVE Str(Fill(n, x)) /\ Len(Fill(n, x)) = n /\ \A i \in 1..n : Fill(n, x)[i] = x
<1>1. Len(Fill(n, x)) = n /\ \A i \in 1..n : Fill(n, x)[i] = x
  BY DEF Fill
<1>2. Fill(n, x) = [i \in 1..n |-> Fill(n, x)[i]]
  BY DEF Fill
<1> QED BY <1>1, <1>2 DEF Str
\* A sequence filled up on the left.
FilledUp(s, n, x, v) ==
  /\ Str(s) /\ Len(s) = n + Len(v)
  /\ \A i \in 1..n : s[i] = x
  /\ \A i \in 1..Len(v) : s[n + i] = v[i]
LEMMA Filled == ASSUME NEW n \in Nat, NEW x, NEW v, Str(v) PROVE FilledUp(Fill(n, x) \o v, n, x, v)
<1> DEFINE u == Fill(n, x)
<1>1. Str(u) /\ Len(u) = n /\ \A i \in 1..n : u[i] = x
  BY Filling
<1> HIDE DEF u
<1>2. /\ Len(u \o v) = n + Len(v) /\ \A i \in 1..n : (u \o v)[i] = u[i]
      /\ \A i \in 1..Len(v) : (u \o v)[n + i] = v[i]
  BY <1>1, Joined
<1>3. Str(u \o v) /\ \A i \in 1..n : (u \o v)[i] = x
  BY <1>1, <1>2, StrJoin
<1> QED BY <1>2, <1>3 DEF u, FilledUp

\* Bytes filled up with bytes.
LEMMA FilledBytes ==
  ASSUME NEW n \in Nat, NEW x \in Byte, NEW v, Octets(v)
  PROVE  Octets(Fill(n, x) \o v)
<1>1. Octets(Fill(n, x))
  BY Filling DEF Octets
<1> QED BY <1>1, OctetsJoin

\* Bytes filled up with zeros.
LEMMA Padded ==
  ASSUME NEW n \in Nat, NEW v, Octets(v), Len(v) <= n
  PROVE  /\ Octets(LeftPad(v, n)) /\ Len(LeftPad(v, n)) = n
         /\ \A i \in 1..n - Len(v) : LeftPad(v, n)[i] = 0
         /\ \A i \in 1..Len(v) : LeftPad(v, n)[(n - Len(v)) + i] = v[i]
<1> DEFINE m == n - Len(v)
           s == LeftPad(v, n)
<1>1. m \in Nat /\ Len(v) \in Nat /\ m + Len(v) = n /\ Str(v)
  BY DEF Octets, Str
<1>2. s = Fill(m, 0) \o v
  BY DEF LeftPad, Fill
<1> HIDE DEF m, s
<1>3. /\ Str(s) /\ Len(s) = m + Len(v) /\ \A i \in 1..m : s[i] = 0
      /\ \A i \in 1..Len(v) : s[m + i] = v[i]
  <2>1. FilledUp(Fill(m, 0) \o v, m, 0, v)
    BY <1>1, Filled
  <2> QED BY <1>2, <2>1 DEF FilledUp
<1>4. 0 \in Byte
  BY DEF Byte
<1>5. Octets(s)
  BY <1>1, <1>2, <1>4, FilledBytes
<1> QED BY <1>1, <1>3, <1>5 DEF m, s

\* The widths of the atomic types.
LEMMA Widths ==
  /\ \A base \in DOMAIN Width : Width[base] \in Nat /\ Width[base] >= 1 /\ Width[base] <= 32
  /\ Width["bool"] = 1 /\ Width["uint256"] = 32 /\ "uint256" \in DOMAIN Width
  /\ Signed \cup LeftAligned \cup {"bool", "address"} \subseteq DOMAIN Width
  /\ DOMAIN Width \cap Dynamics = {} /\ Signed \cap LeftAligned = {}
  /\ {"bool", "address", "uint256"} \cap (Signed \cup LeftAligned \cup Dynamics) = {}
<1>1. DOMAIN Width = {"address", "bool", "uint8", "uint16", "uint160", "uint256", "int8", "int256",
                      "bytes4", "bytes32"}
  BY DEF Width
<1>2. \A base \in DOMAIN Width : Width[base] \in {1, 2, 4, 20, 32}
  BY <1>1 DEF Width
<1>3. Width["bool"] = 1 /\ Width["uint256"] = 32
  BY DEF Width
<1>4. \A n \in {1, 2, 4, 20, 32} : n \in Nat /\ n >= 1 /\ n <= 32
  OBVIOUS
<1>5. \A base \in DOMAIN Width : Width[base] \in Nat /\ Width[base] >= 1 /\ Width[base] <= 32
  BY <1>2, <1>4
<1> QED BY <1>1, <1>3, <1>5 DEF Signed, LeftAligned, Dynamics

\* What is written for a value: the bytes of its type's width, or its length and it.
LEMMA ValueFits ==
  ASSUME NEW base, NEW v, IsValue(base, v)
  PROVE  /\ Octets(v) /\ Octets(ValueBytes(base, v))
         /\ base \in DOMAIN Width => Len(ValueBytes(base, v)) = Width[base]
         /\ base \in Dynamics => ValueBytes(base, v) = v
<1>1. Octets(v) /\ base \in DOMAIN Width \cup Dynamics /\ Len(v) \in Nat
  BY SeqOfBytes DEF IsValue, Octets, Str
<1>2. CASE base \in Signed
  <2> DEFINE w == Width[base]
             s == SubSeq(v, 33 - w, 32)
  <2>1. w \in Nat /\ w >= 1 /\ w <= 32 /\ base \notin Dynamics
    BY <1>2, Widths
  <2>2. Len(v) = 32 /\ v \in Seq(Byte)
    BY <1>2 DEF IsValue
  <2>3. ValueBytes(base, v) = s
    <3>1. base \notin Dynamics \cup LeftAligned
      BY <1>2, Widths
    <3> QED BY <1>2, <3>1, Zenon DEF ValueBytes
  <2> HIDE DEF w
  <2>4. s \in Seq(Byte) /\ Len(s) = w
    <3>1. Len(s) = w
      BY <2>1, <2>2
    <3>2. s = [i \in 1..32 - (33 - w) + 1 |-> v[33 - w + i - 1]]
      BY <2>1, <2>2
    <3>3. 32 - (33 - w) + 1 = w
      BY <2>1
    <3> HIDE DEF s
    <3>5. ASSUME NEW i \in 1..w PROVE v[33 - w + i - 1] \in Byte
      <4> DEFINE j == 33 - w + i - 1
      <4>1. j \in 1..32
        BY <2>1
      <4> HIDE DEF j
      <4>2. j \in 1..Len(v)
        BY <2>2, <4>1
      <4>3. v[j] \in Byte
        BY <1>1, <4>2 DEF Octets
      <4> QED BY <4>3 DEF j
    <3>6. s = [i \in 1..w |-> v[33 - w + i - 1]]
      BY <3>2, <3>3
    <3> QED BY <2>1, <3>1, <3>5, <3>6
  <2> HIDE DEF s
  <2>5. Octets(s)
    BY <2>4, SeqOfBytes
  <2> QED BY <1>1, <2>1, <2>3, <2>4, <2>5 DEF w
<1>3. CASE base \in Dynamics \cup LeftAligned
  <2>1. base \notin Signed
    BY <1>3, Widths DEF Signed, Dynamics
  <2>2. ValueBytes(base, v) = v
    BY <1>3, <2>1 DEF ValueBytes
  <2>3. base \in LeftAligned => Len(v) = Width[base]
    BY DEF IsValue
  <2>4. base \in DOMAIN Width => base \in LeftAligned
    BY <1>3, Widths
  <2> QED BY <1>1, <2>2, <2>3, <2>4
<1>4. CASE base \notin Signed \cup Dynamics \cup LeftAligned
  <2>1. base \in DOMAIN Width /\ Width[base] \in Nat
    BY <1>1, <1>4, Widths
  <2>2. Len(v) <= Width[base]
    BY <1>4, <2>1 DEF IsValue
  <2>3. ValueBytes(base, v) = LeftPad(v, Width[base])
    BY <1>4 DEF ValueBytes
  <2>4. Octets(LeftPad(v, Width[base])) /\ Len(LeftPad(v, Width[base])) = Width[base]
    BY <1>1, <2>1, <2>2, Padded
  <2> QED BY <1>1, <1>4, <2>1, <2>3, <2>4
<1> QED BY <1>2, <1>3, <1>4

\* The part of a signed number that is written.
LEMMA Shortened ==
  ASSUME NEW base \in Signed, NEW v, IsValue(base, v)
  PROVE  LET s == ValueBytes(base, v) IN
         /\ Len(v) = 32 /\ Len(s) = Width[base]
         /\ \A i \in 1..Width[base] : s[i] = v[(32 - Width[base]) + i]
<1> DEFINE w == Width[base]
           s == SubSeq(v, 33 - w, 32)
<1>1. w \in Nat /\ w >= 1 /\ w <= 32 /\ base \notin Dynamics \cup LeftAligned
  BY Widths
<1>2. Len(v) = 32 /\ v \in Seq(Byte)
  BY DEF IsValue
<1>3. ValueBytes(base, v) = s
  BY <1>1, Zenon DEF ValueBytes
<1> HIDE DEF w
<1>4. Len(s) = w
  BY <1>1, <1>2
<1>5. s = [i \in 1..32 - (33 - w) + 1 |-> v[33 - w + i - 1]]
  BY <1>1, <1>2
<1>6. 32 - (33 - w) + 1 = w
  BY <1>1
<1> HIDE DEF s
<1>7. ASSUME NEW i \in 1..w PROVE s[i] = v[(32 - w) + i]
  <2>1. s[i] = v[33 - w + i - 1]
    BY <1>5, <1>6
  <2>2. 33 - w + i - 1 = (32 - w) + i
    BY <1>1
  <2> QED BY <2>1, <2>2
<1> QED BY <1>2, <1>3, <1>4, <1>7 DEF w

\* A sequence of the full length is not filled up.
LEMMA NotFilled == ASSUME NEW v, Str(v) PROVE LeftPad(v, Len(v)) = v
<1> DEFINE s == Fill(0, 0) \o v
<1>1. FilledUp(s, 0, 0, v)
  BY Filled
<1>2. LeftPad(v, Len(v)) = s
  <2>1. Len(v) - Len(v) = 0
    BY DEF Str
  <2> QED BY <2>1 DEF LeftPad, Fill
<1> HIDE DEF s
<1>3. Len(v) \in Nat
  BY DEF Str
<1>4. Str(s) /\ Len(s) = Len(v) /\ \A i \in 1..Len(s) : s[i] = v[i]
  BY <1>1, <1>3 DEF FilledUp
<1> QED BY <1>2, <1>4, SameStr

\* What fills up a word of 32 bytes.
Filler(base, s) == IF base \in Signed /\ s[1] >= 128 THEN 255 ELSE 0

\* The cartridge hashes a value as the host does (hash_atomic_value against encodeValue).
LEMMA WordAgrees ==
  ASSUME NEW base, NEW v, IsValue(base, v)
  PROVE  Word(base, ValueBytes(base, v)) = HostWord(base, v)
<1> DEFINE s == ValueBytes(base, v)
           w == Width[base]
           pad == 32 - w
           fill == Filler(base, s)
<1>1. Octets(v) /\ Octets(s) /\ base \in DOMAIN Width \cup Dynamics
  BY ValueFits DEF IsValue
<1>2. base \in Dynamics => s = v
  BY ValueFits
<1>3. CASE base \in Dynamics
  BY <1>2, <1>3, Zenon DEF Word, HostWord
<1>4. ASSUME base \notin Dynamics
      PROVE  w \in Nat /\ w >= 1 /\ w <= 32 /\ Len(s) = w /\ pad \in Nat /\ pad + w = 32
  <2>1. w \in Nat /\ w >= 1 /\ w <= 32 /\ Len(s) = w
    BY <1>1, <1>4, ValueFits, Widths
  <2> HIDE DEF s, w
  <2> QED BY <2>1
<1>5. CASE base \in LeftAligned
  <2>1. base \notin Dynamics /\ base \notin Signed
    BY <1>5, Widths DEF LeftAligned, Dynamics
  <2>2. s = v
    BY <1>5, <2>1, Zenon DEF ValueBytes
  <2> QED BY <1>5, <2>1, <2>2, Zenon DEF Word, HostWord, RightPad
<1>6. CASE base \notin Dynamics \cup LeftAligned
  <2>1. HostWord(base, v) = <<"word", LeftPad(v, 32)>>
    BY <1>6, Zenon DEF HostWord
  <2>2. Word(base, s) = <<"word", Fill(pad, fill) \o s>>
    <3>1. Word(base, s) = <<"word", Fill(32 - Len(s), fill) \o s>>
      <4> HIDE DEF s
      <4> QED BY <1>6, Zenon DEF Word, Fill, Filler
    <3>2. 32 - Len(s) = pad
      BY <1>4, <1>6
    <3> QED BY <3>1, <3>2
  <2>3. Len(s) = w /\ w \in Nat /\ w >= 1 /\ pad \in Nat /\ pad + w = 32 /\ Str(s) /\ Str(v) /\ Len(v) \in Nat
    BY <1>1, <1>4, <1>6 DEF Octets, Str
  <2>4. FilledUp(Fill(pad, fill) \o s, pad, fill, s)
    BY <2>3, Filled
  <2> DEFINE u == Fill(pad, fill) \o s
  <2>5. CASE base \in Signed
    <3>1. Len(v) = 32 /\ \A i \in 1..w : s[i] = v[(32 - w) + i]
      BY <2>5, Shortened
    <3>2. \A i \in 1..32 - w : v[i] = IF v[33 - w] >= 128 THEN 255 ELSE 0
      BY <2>5 DEF IsValue
    <3>3. s[1] = v[33 - w]
      <4>1. s[1] = v[(32 - w) + 1] /\ (32 - w) + 1 = 33 - w
        <5> HIDE DEF s, w
        <5> QED BY <2>3, <3>1
      <4> QED BY <4>1
    <3>4. fill = IF v[33 - w] >= 128 THEN 255 ELSE 0
      <4> HIDE DEF s
      <4> QED BY <2>5, <3>3, Zenon DEF Filler
    <3> HIDE DEF fill, s
    <3>5. \A i \in 1..pad : v[i] = fill
      BY <3>2, <3>4
    <3>6. LeftPad(v, 32) = v
      BY <2>3, <3>1, NotFilled
    <3>7. Str(u) /\ Len(u) = pad + Len(s) /\ (\A i \in 1..pad : u[i] = fill) /\ \A i \in 1..Len(s) : u[pad + i] = s[i]
      BY <2>4 DEF FilledUp
    <3>8. \A i \in 1..w : s[i] = v[pad + i]
      BY <3>1
    <3> HIDE DEF u, pad, w
    <3>9. ASSUME NEW i \in 1..Len(u) PROVE u[i] = v[i]
      <4>1. CASE i <= pad
        BY <2>3, <3>5, <3>7, <4>1
      <4>2. CASE i > pad
        <5>1. i - pad \in 1..w /\ pad + (i - pad) = i
          BY <2>3, <3>7, <4>2
        <5>2. u[i] = s[i - pad]
          BY <2>3, <3>7, <5>1
        <5>3. s[i - pad] = v[i]
          BY <3>8, <5>1
        <5> QED BY <5>2, <5>3
      <4> QED BY <2>3, <4>1, <4>2
    <3>10. u = v
      <4>1. Len(u) = Len(v) /\ Str(u) /\ Str(v)
        BY <2>3, <3>1, <3>7
      <4> QED BY <3>9, <4>1, SameStr
    <3> QED BY <2>1, <2>2, <3>6, <3>10 DEF u, s
  <2>6. CASE base \notin Signed
    <3>1. s = LeftPad(v, w)
      BY <1>6, <2>6, Zenon DEF ValueBytes
    <3>2. Len(v) <= w
      BY <1>1, <1>6, <2>6 DEF IsValue
    <3>3. /\ Octets(LeftPad(v, w)) /\ Len(LeftPad(v, w)) = w
          /\ \A i \in 1..w - Len(v) : LeftPad(v, w)[i] = 0
          /\ \A i \in 1..Len(v) : LeftPad(v, w)[(w - Len(v)) + i] = v[i]
      BY <1>1, <2>3, <3>2, Padded, SMTT(30)
    <3>4. Len(v) <= 32 /\ 32 \in Nat
      <4> HIDE DEF w, s, pad
      <4> QED BY <2>3, <3>2
    <3>5. /\ Octets(LeftPad(v, 32)) /\ Len(LeftPad(v, 32)) = 32
          /\ \A i \in 1..32 - Len(v) : LeftPad(v, 32)[i] = 0
          /\ \A i \in 1..Len(v) : LeftPad(v, 32)[(32 - Len(v)) + i] = v[i]
      BY <1>1, <3>4, Padded
    <3>6. fill = 0
      BY <2>6, Zenon DEF Filler
    <3>7. Str(u) /\ Len(u) = pad + Len(s) /\ (\A i \in 1..pad : u[i] = 0) /\ \A i \in 1..Len(s) : u[pad + i] = s[i]
      BY <2>4, <3>6 DEF FilledUp
    <3> DEFINE l == LeftPad(v, 32)
               n == Len(v)
    <3>8. (\A i \in 1..w - n : s[i] = 0) /\ \A i \in 1..n : s[(w - n) + i] = v[i]
      BY <3>1, <3>3
    <3>9. Str(l) /\ Len(l) = 32 /\ (\A i \in 1..32 - n : l[i] = 0) /\ \A i \in 1..n : l[(32 - n) + i] = v[i]
      BY <3>5 DEF Octets
    <3>10. n \in Nat /\ n <= w
      BY <2>3, <3>2
    <3> HIDE DEF u, l, n, s, pad, w, fill
    <3>11. ASSUME NEW i \in 1..Len(u) PROVE u[i] = l[i]
      <4>1. CASE i <= 32 - n /\ i <= pad
        BY <2>3, <3>7, <3>9, <3>10, <4>1
      <4>2. CASE i <= 32 - n /\ i > pad
        <5>1. i - pad \in 1..w - n /\ i - pad \in 1..Len(s) /\ pad + (i - pad) = i
          BY <2>3, <3>10, <4>2
        <5>2. u[i] = s[i - pad] /\ s[i - pad] = 0
          BY <3>7, <3>8, <5>1
        <5>3. i \in 1..32 - n
          BY <3>10, <4>2
        <5> QED BY <3>9, <5>2, <5>3
      <4>3. CASE i > 32 - n
        <5> DEFINE j == i - (32 - n)
        <5>1. j \in 1..n /\ (32 - n) + j = i /\ (w - n) + j \in 1..Len(s) /\ pad + ((w - n) + j) = i
          BY <2>3, <3>7, <3>10, <4>3
        <5> HIDE DEF j
        <5>2. u[i] = s[(w - n) + j]
          BY <3>7, <5>1
        <5>3. s[(w - n) + j] = v[j] /\ l[i] = v[j]
          BY <3>8, <3>9, <5>1
        <5> QED BY <5>2, <5>3
      <4> QED BY <2>3, <3>10, <4>1, <4>2, <4>3
    <3>12. u = l
      <4>1. Len(u) = Len(l) /\ Str(u) /\ Str(l)
        BY <2>3, <3>7, <3>9
      <4> QED BY <3>11, <4>1, SameStr
    <3> QED BY <2>1, <2>2, <3>12 DEF u, l, s
  <2> QED BY <2>5, <2>6
<1> QED BY <1>3, <1>5, <1>6

\* The length that is written before a value is read back.
LEMMA QuadRead ==
  ASSUME NEW x \in Nat, x < 256, NEW y \in Nat, y < 256
  PROVE  read_be(<<0, 0, x, y>>) = 256 * x + y
<1> DEFINE s == <<0, 0, x, y>>
<1>1. Len(s) = 4 /\ Len(s) \in Nat /\ s[1] = 0 /\ s[2] = 0 /\ s[3] = x /\ s[4] = y
  OBVIOUS
<1> HIDE DEF s
<1>2. PICK f : ReadTo(s, f, Len(s)) /\ read_be(s) = f[Len(s)]
  BY <1>1, ReadSteps
<1>3. f[0] = 0 /\ \A i \in 1..4 : f[i] = Shifted(f[i - 1], s[i])
  BY <1>1, <1>2 DEF ReadTo
<1>4. Shifted(0, 0) = 0
  BY ShiftsOne
<1>5. f[1] = 0
  <2>1. f[1] = Shifted(f[1 - 1], s[1])
    BY <1>3
  <2>2. f[1 - 1] = 0
    BY <1>3
  <2> QED BY <1>1, <1>4, <2>1, <2>2
<1>6. f[2] = 0
  <2>1. f[2] = Shifted(f[2 - 1], s[2])
    BY <1>3
  <2>2. f[2 - 1] = 0
    BY <1>5
  <2> QED BY <1>1, <1>4, <2>1, <2>2
<1>7. f[3] = x
  <2>1. f[3] = Shifted(f[3 - 1], s[3])
    BY <1>3
  <2>2. f[3 - 1] = 0
    BY <1>6
  <2>3. Shifted(0, x) = x
    BY ShiftsOne
  <2> QED BY <1>1, <2>1, <2>2, <2>3
<1>8. f[4] = 256 * x + y
  <2>1. f[4] = Shifted(f[4 - 1], s[4])
    BY <1>3
  <2>2. f[4 - 1] = x
    BY <1>7
  <2>3. Shifted(x, y) = 256 * x + y
    BY ShiftsTwo
  <2> QED BY <1>1, <2>1, <2>2, <2>3
<1> QED BY <1>1, <1>2, <1>8 DEF s

\* The four bytes of a length.
Prefix(len) == <<0, 0, len \div 256, len % 256>>
LEMMA PrefixBytes ==
  ASSUME NEW len \in Nat, len <= EIP712_MAX_STRING_LEN
  PROVE  Octets(Prefix(len)) /\ Len(Prefix(len)) = 4 /\ read_be(Prefix(len)) = len
<1> DEFINE x == len \div 256
           y == len % 256
<1>1. x \in Nat /\ x < 256 /\ y \in Nat /\ y < 256 /\ 256 * x + y = len
  <2>1. len \in Nat /\ len <= 1024
    BY DEF EIP712_MAX_STRING_LEN
  <2> QED BY <2>1
<1>2. Prefix(len) = <<0, 0, x, y>>
  BY DEF Prefix
<1> HIDE DEF x, y
<1>3. x \in Byte /\ y \in Byte /\ 0 \in Byte
  BY <1>1, SmallIsByte
<1>4. <<0, 0, x, y>> \in Seq(Byte) /\ Len(<<0, 0, x, y>>) = 4
  BY <1>3
<1>5. Octets(<<0, 0, x, y>>)
  BY <1>4, SeqOfBytes
<1> QED BY <1>1, <1>2, <1>4, <1>5, QuadRead

\* What is written are bytes.
LEMMA WrittenBytes ==
  ASSUME NEW base, NEW v, IsValue(base, v)
  PROVE  /\ Octets(writeValue(base, v))
         /\ base \in Dynamics => writeValue(base, v) = Prefix(Len(v)) \o v /\ Len(v) <= EIP712_MAX_STRING_LEN
         /\ base \notin Dynamics => writeValue(base, v) = ValueBytes(base, v)
<1>1. Octets(v) /\ Octets(ValueBytes(base, v)) /\ Len(v) \in Nat
  BY ValueFits DEF Octets, Str
<1>2. CASE base \in Dynamics
  <2>1. writeValue(base, v) = Prefix(Len(v)) \o v
    BY <1>2, Zenon DEF writeValue, Prefix
  <2>2. Len(v) <= EIP712_MAX_STRING_LEN
    BY <1>2 DEF IsValue
  <2>3. Octets(Prefix(Len(v)))
    BY <1>1, <2>2, PrefixBytes
  <2>4. Octets(Prefix(Len(v)) \o v)
    BY <1>1, <2>3, OctetsJoin
  <2> QED BY <1>2, <2>1, <2>2, <2>4
<1>3. CASE base \notin Dynamics
  <2>1. writeValue(base, v) = ValueBytes(base, v)
    BY <1>3, Zenon DEF writeValue
  <2> QED BY <1>1, <1>3, <2>1
<1> QED BY <1>2, <1>3

\* A value that lies at p is found there.
Found(b, base, p, v) ==
  LET e == Extent(b, base, p) IN
  /\ e[1] # Bad /\ After(e) = p + Len(writeValue(base, v))
  /\ Slice(b, e[1], e[2]) = ValueBytes(base, v)
\* A dynamic value, after its length.
LEMMA DynamicRead ==
  ASSUME NEW b, Octets(b), NEW base \in Dynamics, NEW v, IsValue(base, v), NEW p, Has(b, p, writeValue(base, v))
  PROVE  Found(b, base, p, v)
<1> DEFINE n == Len(v)
           e == <<p + 4, n>>
<1>1. Octets(v) /\ n \in Nat /\ ValueBytes(base, v) = v /\ Str(v)
  BY ValueFits DEF Octets, Str
<1>2. writeValue(base, v) = Prefix(n) \o v /\ n <= EIP712_MAX_STRING_LEN
  BY WrittenBytes
<1>3. Octets(Prefix(n)) /\ Len(Prefix(n)) = 4 /\ read_be(Prefix(n)) = n
  BY <1>1, <1>2, PrefixBytes
<1>4. Has(b, p, Prefix(n)) /\ Has(b, p + Len(Prefix(n)), v)
  BY <1>2, HasParts
<1>5. Has(b, p + 4, v)
  BY <1>3, <1>4
<1>6. p \in Int /\ p >= 1 /\ p + 4 + n <= Len(b) + 1 /\ Len(b) \in Nat
  BY <1>3, <1>4, <1>5 DEF Has, Octets, Str
<1>7. LengthAt(b, p) = n
  <2>1. Str(Prefix(n)) /\ Len(b) \in Nat
    BY <1>3, <1>6 DEF Octets
  <2>2. Slice(b, p, Len(Prefix(n))) = Prefix(n)
    BY <1>4, <2>1, SliceHas
  <2> QED BY <1>3, <2>2 DEF LengthAt
<1> HIDE DEF n
<1>8. p + 3 <= Len(b) /\ p + 3 + n <= Len(b)
  BY <1>1, <1>6
<1>9. Extent(b, base, p) = e
  <2>1. base \notin DOMAIN Width
    BY Widths
  <2>2. Extent(b, base, p)
        = IF p + 3 <= Len(b) /\ LengthAt(b, p) <= EIP712_MAX_STRING_LEN /\ p + 3 + LengthAt(b, p) <= Len(b)
          THEN <<p + 4, LengthAt(b, p)>> ELSE <<Bad, 0>>
    BY <2>1, Zenon DEF Extent
  <2> QED BY <1>2, <1>7, <1>8, <2>2
<1>10. e[1] = p + 4 /\ e[2] = n /\ e[1] # Bad
  BY <1>6 DEF Bad
<1>11. After(e) = (p + 4) + n
  BY <1>10, Zenon DEF After
<1> HIDE DEF e
<1>12. Slice(b, p + 4, n) = v
  BY <1>1, <1>5, <1>6, SliceHas DEF n
<1>13. Len(writeValue(base, v)) = 4 + n
  <2>1. Len(Prefix(n) \o v) = Len(Prefix(n)) + Len(v)
    BY Joined
  <2> QED BY <1>2, <1>3, <2>1 DEF n
<1>14. After(e) = p + Len(writeValue(base, v))
  BY <1>1, <1>6, <1>11, <1>13
<1> QED BY <1>1, <1>9, <1>10, <1>12, <1>14 DEF Found

\* A value of a fixed width.
LEMMA FixedRead ==
  ASSUME NEW b, Octets(b), NEW base \in DOMAIN Width, NEW v, IsValue(base, v), NEW p, Has(b, p, writeValue(base, v))
  PROVE  Found(b, base, p, v)
<1> DEFINE s == ValueBytes(base, v)
           w == Width[base]
           e == <<p, w>>
<1>1. base \notin Dynamics /\ w \in Nat /\ w >= 1
  BY Widths
<1>2. writeValue(base, v) = s /\ Str(s) /\ Len(s) = w
  BY <1>1, WrittenBytes, ValueFits DEF Octets
<1>3. Has(b, p, s) /\ Len(b) \in Nat
  BY <1>2 DEF Octets, Str
<1>4. Slice(b, p, w) = s
  BY <1>2, <1>3, SliceHas
<1>5. base = "bool" => b[p] \in {0, 1}
  <2> SUFFICES ASSUME base = "bool" PROVE b[p] \in {0, 1}
    OBVIOUS
  <2>1. v \in {<<>>, <<1>>} /\ w = 1
    BY Widths DEF IsValue
  <2>2. s = LeftPad(v, 1)
    <3>1. base \notin Signed /\ base \notin Dynamics \cup LeftAligned
      BY Widths
    <3> QED BY <2>1, <3>1, Zenon DEF ValueBytes
  <2>3. s[1] \in {0, 1}
    BY <2>1, <2>2 DEF LeftPad
  <2>4. b[p] = s[1]
    <3> HIDE DEF s
    <3>1. 1 \in 1..Len(s) /\ p + 1 - 1 = p
      BY <1>2, <1>3, <2>1 DEF Has
    <3>2. b[p + 1 - 1] = s[1]
      BY <1>3, <3>1 DEF Has
    <3> QED BY <3>1, <3>2
  <2> QED BY <2>3, <2>4
<1> HIDE DEF s, w
<1>6. p \in Int /\ p >= 1 /\ p + w - 1 <= Len(b)
  BY <1>1, <1>2, <1>3 DEF Has
<1>7. Extent(b, base, p) = e
  <2>1. Extent(b, base, p)
        = IF p + w - 1 <= Len(b) /\ (base = "bool" => b[p] \in {0, 1}) THEN <<p, w>> ELSE <<Bad, 0>>
    BY <1>1, Zenon DEF Extent, w
  <2> QED BY <1>5, <1>6, <2>1
<1>8. e[1] = p /\ e[2] = w /\ e[1] # Bad
  BY <1>6 DEF Bad
<1>9. After(e) = p + w
  BY <1>8, Zenon DEF After
<1> HIDE DEF e
<1> QED BY <1>2, <1>4, <1>7, <1>8, <1>9 DEF Found, s

LEMMA ValueRead ==
  ASSUME NEW b, Octets(b), NEW base, NEW v, IsValue(base, v), NEW p, Has(b, p, writeValue(base, v))
  PROVE  Found(b, base, p, v)
<1>1. base \in Dynamics \/ base \in DOMAIN Width
  BY DEF IsValue
<1> QED BY <1>1, DynamicRead, FixedRead

(*************************************************************************)
(* The type table.                                                       *)
(*************************************************************************)
\* Names of types, each once and with the types they use, as a tree lists them.
Listing(names, types) ==
  /\ Len(names) \in Nat /\ DOMAIN names = 1..Len(names)
  /\ \A i \in 1..Len(names) : names[i] \in DOMAIN types
  /\ \A i, j \in 1..Len(names) : names[i] = names[j] => i = j
  /\ \A i \in 1..Len(names) : BaseTypes(types, names[i]) \subseteq {names[j] : j \in 1..Len(names)}
\* The fields of every type.
Fielded(types) ==
  \A n \in DOMAIN types :
    /\ Str(types[n]) /\ Len(types[n]) >= 1 /\ DOMAIN types[n] = 1..Len(types[n])
    /\ \A k \in 1..Len(types[n]) : Len(types[n][k].type) = 1 /\ types[n][k].name \in STRING
\* t is a tree of such types.
TreeOf(t, names, types) ==
  /\ Listing(names, types) /\ Fielded(types) /\ Octets(t.values)
  /\ t.types = [i \in DOMAIN names |-> Definition(types, names[i])]

LEMMA TableRows ==
  ASSUME NEW t, NEW names, NEW types, TreeOf(t, names, types)
  PROVE  /\ DOMAIN t.types = 1..Len(names) /\ Len(names) \in Nat
         /\ \A i \in 1..Len(names) : /\ names[i] \in DOMAIN types
                                     /\ t.types[i] = Definition(types, names[i])
                                     /\ t.types[i].name = names[i] /\ t.types[i].fields = types[names[i]]
<1>1. DOMAIN names = 1..Len(names) /\ Len(names) \in Nat
  BY DEF TreeOf, Listing
<1>2. t.types = [i \in DOMAIN names |-> Definition(types, names[i])]
  BY DEF TreeOf
<1>3. \A i \in 1..Len(names) : t.types[i] = Definition(types, names[i])
  BY <1>1, <1>2
<1>4. \A n : Definition(types, n).name = n /\ Definition(types, n).fields = types[n]
  BY DEF Definition
<1> QED BY <1>1, <1>2, <1>3, <1>4 DEF TreeOf, Listing

\* The one type of that name.
AloneNamed(t, names, j) ==
  find_type_by_name(t.types, names[j]) = {j} /\ Min(find_type_by_name(t.types, names[j])) = j
LEMMA NameFound ==
  ASSUME NEW t, NEW names, NEW types, TreeOf(t, names, types)
  PROVE  \A j \in 1..Len(names) : AloneNamed(t, names, j)
<1> SUFFICES ASSUME NEW j \in 1..Len(names) PROVE AloneNamed(t, names, j)
  OBVIOUS
<1>1. DOMAIN t.types = 1..Len(names) /\ \A i \in 1..Len(names) : t.types[i].name = names[i]
  BY TableRows
<1>2. \A i, k \in 1..Len(names) : names[i] = names[k] => i = k
  BY DEF TreeOf, Listing
<1>3. find_type_by_name(t.types, names[j]) = {j}
  BY <1>1, <1>2 DEF find_type_by_name
<1>4. j \in Int
  OBVIOUS
<1>5. {j} = {j, j}
  OBVIOUS
<1>6. Min({j}) = j
  BY <1>4, <1>5, Smaller
<1> QED BY <1>3, <1>6 DEF AloneNamed

\* A member is a struct for the cartridge when it is one for the host, and then the
\* one of that name.
MemberFound(t, names, types, type) ==
  /\ IsStruct(t.types, type) <=> type[1] \in DOMAIN types
  /\ find_type_by_name(t.types, type[1]) # {} <=> type[1] \in DOMAIN types
  /\ ~type_is_array(type)
  /\ type[1] \in DOMAIN types => StructOf(t.types, type) \in 1..Len(names) /\ names[StructOf(t.types, type)] = type[1]
LEMMA StructFound ==
  ASSUME NEW t, NEW names, NEW types, TreeOf(t, names, types), NEW i \in 1..Len(names),
         NEW k \in 1..Len(types[names[i]])
  PROVE  MemberFound(t, names, types, types[names[i]][k].type)
<1> DEFINE type == types[names[i]][k].type
<1>1. names[i] \in DOMAIN types /\ DOMAIN t.types = 1..Len(names)
      /\ \A j \in 1..Len(names) : t.types[j].name = names[j] /\ names[j] \in DOMAIN types
  BY TableRows
<1>2. Len(type) = 1 /\ DOMAIN types[names[i]] = 1..Len(types[names[i]])
  BY <1>1 DEF TreeOf, Fielded
<1>3. ~type_is_array(type)
  BY <1>2 DEF type_is_array
<1>4. type[1] \in DOMAIN types => \E j \in 1..Len(names) : names[j] = type[1]
  <2> SUFFICES ASSUME type[1] \in DOMAIN types PROVE \E j \in 1..Len(names) : names[j] = type[1]
    OBVIOUS
  <2>1. type[1] \in BaseTypes(types, names[i])
    BY <1>2 DEF BaseTypes
  <2>2. BaseTypes(types, names[i]) \subseteq {names[j] : j \in 1..Len(names)}
    BY DEF TreeOf, Listing
  <2> HIDE DEF type
  <2> QED BY <2>1, <2>2
<1> HIDE DEF type
<1>5. find_type_by_name(t.types, type[1]) # {} => type[1] \in DOMAIN types
  BY <1>1 DEF find_type_by_name
<1>6. ASSUME type[1] \in DOMAIN types
      PROVE  /\ find_type_by_name(t.types, type[1]) # {}
             /\ StructOf(t.types, type) \in 1..Len(names) /\ names[StructOf(t.types, type)] = type[1]
  <2>1. PICK j \in 1..Len(names) : names[j] = type[1]
    BY <1>4, <1>6
  <2>2. find_type_by_name(t.types, names[j]) = {j} /\ Min(find_type_by_name(t.types, names[j])) = j
    <3>1. AloneNamed(t, names, j)
      BY NameFound, Zenon
    <3> QED BY <3>1 DEF AloneNamed
  <2> QED BY <2>1, <2>2 DEF StructOf
<1> QED BY <1>3, <1>5, <1>6 DEF MemberFound, IsStruct, type

(*************************************************************************)
(* The recursive functions, unrolled.                                    *)
(*************************************************************************)
EndsTo(t, child, i, at, g, n) ==
  g = [k \in 0..n |-> IF k = 0 THEN at ELSE walk_value(t, child, t.types[i].fields[k].type, g[k - 1])]
\* Each field begins where the one before it ends.
EndsStep(t, child, i, at, g, n) ==
  g[0] = at /\ \A k \in 1..n : g[k] = walk_value(t, child, t.types[i].fields[k].type, g[k - 1])
LEMMA EndsSteps ==
  ASSUME NEW t, NEW child, NEW i, NEW at, Len(t.types[i].fields) \in Nat
  PROVE  EndsStep(t, child, i, at, FieldEnds(t, child, i, at), Len(t.types[i].fields))
<1> DEFINE W(k, p) == walk_value(t, child, t.types[i].fields[k].type, p)
           m == Len(t.types[i].fields)
<1>1. \E g : EndsTo(t, child, i, at, g, m)
  <2> DEFINE S == {n \in Nat : \E g : EndsTo(t, child, i, at, g, n)}
  <2>1. 0 \in S
    <3>1. EndsTo(t, child, i, at, [k \in 0..0 |-> at], 0)
      BY DEF EndsTo
    <3> QED BY <3>1
  <2>2. ASSUME NEW n \in Nat, n \in S PROVE n + 1 \in S
    <3>1. PICK g : EndsTo(t, child, i, at, g, n)
      BY <2>2
    <3> DEFINE h == [k \in 0..n + 1 |-> IF k <= n THEN g[k] ELSE W(n + 1, g[n])]
    <3>2. g = [k \in 0..n |-> IF k = 0 THEN at ELSE W(k, g[k - 1])]
      BY <3>1 DEF EndsTo
    <3> HIDE DEF W
    <3>3. ASSUME NEW k \in 0..n + 1 PROVE h[k] = IF k = 0 THEN at ELSE W(k, h[k - 1])
      <4>1. CASE k <= n
        BY <3>2, <4>1
      <4>2. CASE k = n + 1
        <5>1. h[k] = W(n + 1, g[n]) /\ h[k - 1] = g[n] /\ k # 0
          BY <4>2
        <5> QED BY <4>2, <5>1
      <4> QED BY <4>1, <4>2
    <3>4. h = [k \in 0..n + 1 |-> IF k = 0 THEN at ELSE W(k, h[k - 1])]
      BY <3>3
    <3>5. EndsTo(t, child, i, at, h, n + 1)
      BY <3>4 DEF EndsTo, W
    <3> QED BY <3>5
  <2>3. Nat \subseteq S
    <3> HIDE DEF S
    <3> QED BY <2>1, <2>2, SetInduction
  <2> QED BY <2>3
<1> DEFINE f == CHOOSE g : EndsTo(t, child, i, at, g, m)
<1>2. FieldEnds(t, child, i, at) = f
  BY DEF FieldEnds, EndsTo
<1>3. EndsTo(t, child, i, at, f, m)
  BY <1>1
<1>6. m \in Nat
  OBVIOUS
<1> HIDE DEF f, m
<1>4. f = [k \in 0..m |-> IF k = 0 THEN at ELSE W(k, f[k - 1])]
  BY <1>3 DEF EndsTo
<1> HIDE DEF W
<1>5. f[0] = at /\ \A k \in 1..m : f[k] = W(k, f[k - 1])
  BY <1>4, <1>6
<1> QED BY <1>2, <1>5 DEF EndsStep, W, m

\* Five levels.
Five(a, b, c, d, e) ==
  [left \in 0..4 |-> IF left = 0 THEN a ELSE IF left = 1 THEN b ELSE IF left = 2 THEN c
                     ELSE IF left = 3 THEN d ELSE e]
LEMMA FiveLevels ==
  ASSUME NEW a, NEW b, NEW c, NEW d, NEW e, NEW h, h = Five(a, b, c, d, e)
  PROVE  /\ h = [left \in 0..4 |-> h[left]]
         /\ h[0] = a /\ h[1] = b /\ h[2] = c /\ h[3] = d /\ h[4] = e
  BY DEF Five

\* A struct for which no level is left.
TooDeep(t) == [i \in DOMAIN t.types |-> [at \in 0..Len(t.values) + 1 |-> Bad]]
WalkTo(t, g) ==
  g = [left \in 0..EIP712_MAX_DEPTH |-> IF left = 0 THEN TooDeep(t) ELSE WalkLevel(t, g[left - 1])]
LEMMA WalkSteps ==
  ASSUME NEW t
  PROVE  LET g == walk_struct(t) IN
         /\ g[0] = TooDeep(t) /\ g[1] = WalkLevel(t, g[0]) /\ g[2] = WalkLevel(t, g[1])
         /\ g[3] = WalkLevel(t, g[2]) /\ g[4] = WalkLevel(t, g[3])
<1> DEFINE L(c) == WalkLevel(t, c)
           z == TooDeep(t)
           h == Five(z, L(z), L(L(z)), L(L(L(z))), L(L(L(L(z)))))
           f == CHOOSE g : WalkTo(t, g)
<1> HIDE DEF z, L, h
<1>1. /\ h = [left \in 0..4 |-> h[left]]
      /\ h[0] = z /\ h[1] = L(h[0]) /\ h[2] = L(h[1]) /\ h[3] = L(h[2]) /\ h[4] = L(h[3])
  BY FiveLevels DEF h
<1>2. \A left \in 0..4 : h[left] = IF left = 0 THEN z ELSE L(h[left - 1])
  <2>1. \A left \in 0..4 : left = 0 \/ left = 1 \/ left = 2 \/ left = 3 \/ left = 4
    OBVIOUS
  <2> QED BY <1>1, <2>1
<1>3. h = [left \in 0..4 |-> IF left = 0 THEN z ELSE L(h[left - 1])]
  BY <1>1, <1>2
<1>4. WalkTo(t, h)
  BY <1>3 DEF WalkTo, EIP712_MAX_DEPTH, L, z
<1>5. WalkTo(t, f)
  BY <1>4
<1>6. walk_struct(t) = f
  BY DEF walk_struct, WalkTo, TooDeep
<1> HIDE DEF f
<1>7. f = [left \in 0..4 |-> IF left = 0 THEN z ELSE L(f[left - 1])]
  BY <1>5 DEF WalkTo, EIP712_MAX_DEPTH, L, z
<1>8. f[0] = z /\ f[1] = L(f[0]) /\ f[2] = L(f[1]) /\ f[3] = L(f[2]) /\ f[4] = L(f[3])
  BY <1>7
<1> QED BY <1>6, <1>8 DEF L, z

\* What there is when no level is left.
NoBytes(types) == [name \in DOMAIN types |-> [path \in Paths |-> <<>>]]
NotFor(types) == [name \in DOMAIN types |-> [path \in Paths |-> FALSE]]
NoHash(t) == [i \in DOMAIN t.types |-> [at \in 0..Len(t.values) + 1 |-> <<>>]]
NoHostHash(types) == [name \in DOMAIN types |-> [path \in Paths |-> <<>>]]
NoLines(t) == [i \in DOMAIN t.types |-> [at \in 0..Len(t.values) + 1 |-> [lines |-> <<>>, at |-> at]]]
NoneAsked(types) == [name \in DOMAIN types |-> [path \in Paths |-> <<>>]]
WriteTo(types, data, g) ==
  g = [left \in 0..EIP712_MAX_DEPTH |-> IF left = 0 THEN NoBytes(types) ELSE WriteLevel(types, data, g[left - 1])]
\* Level by level, what is written.
LEMMA WriteSteps ==
  ASSUME NEW types, NEW data
  PROVE  LET g == writeStructValues(types, data) IN
         /\ g[0] = NoBytes(types) /\ g[1] = WriteLevel(types, data, g[0]) /\ g[2] = WriteLevel(types, data, g[1])
         /\ g[3] = WriteLevel(types, data, g[2]) /\ g[4] = WriteLevel(types, data, g[3])
<1> DEFINE L(c) == WriteLevel(types, data, c)
           z == NoBytes(types)
           h == Five(z, L(z), L(L(z)), L(L(L(z))), L(L(L(L(z)))))
           f == CHOOSE g : WriteTo(types, data, g)
<1> HIDE DEF z, L, h
<1>1. /\ h = [left \in 0..4 |-> h[left]]
      /\ h[0] = z /\ h[1] = L(h[0]) /\ h[2] = L(h[1]) /\ h[3] = L(h[2]) /\ h[4] = L(h[3])
  BY FiveLevels DEF h
<1>2. \A left \in 0..4 : h[left] = IF left = 0 THEN z ELSE L(h[left - 1])
  <2>1. \A left \in 0..4 : left = 0 \/ left = 1 \/ left = 2 \/ left = 3 \/ left = 4
    OBVIOUS
  <2> QED BY <1>1, <2>1
<1>3. h = [left \in 0..4 |-> IF left = 0 THEN z ELSE L(h[left - 1])]
  BY <1>1, <1>2
<1>4. WriteTo(types, data, h)
  BY <1>3 DEF WriteTo, EIP712_MAX_DEPTH, L, z
<1>5. WriteTo(types, data, f)
  BY <1>4
<1>6. writeStructValues(types, data) = f
  BY DEF writeStructValues, WriteTo, NoBytes
<1> HIDE DEF f
<1>7. f = [left \in 0..4 |-> IF left = 0 THEN z ELSE L(f[left - 1])]
  BY <1>5 DEF WriteTo, EIP712_MAX_DEPTH, L, z
<1>8. f[0] = z /\ f[1] = L(f[0]) /\ f[2] = L(f[1]) /\ f[3] = L(f[2]) /\ f[4] = L(f[3])
  BY <1>7
<1> QED BY <1>6, <1>8 DEF L, z
FillTo(types, data, g) ==
  g = [left \in 0..EIP712_MAX_DEPTH |-> IF left = 0 THEN NotFor(types) ELSE FillsLevel(types, data, g[left - 1])]
\* Level by level, what has its values.
LEMMA FillSteps ==
  ASSUME NEW types, NEW data
  PROVE  LET g == Fills(types, data) IN
         /\ g[0] = NotFor(types) /\ g[1] = FillsLevel(types, data, g[0]) /\ g[2] = FillsLevel(types, data, g[1])
         /\ g[3] = FillsLevel(types, data, g[2]) /\ g[4] = FillsLevel(types, data, g[3])
<1> DEFINE L(c) == FillsLevel(types, data, c)
           z == NotFor(types)
           h == Five(z, L(z), L(L(z)), L(L(L(z))), L(L(L(L(z)))))
           f == CHOOSE g : FillTo(types, data, g)
<1> HIDE DEF z, L, h
<1>1. /\ h = [left \in 0..4 |-> h[left]]
      /\ h[0] = z /\ h[1] = L(h[0]) /\ h[2] = L(h[1]) /\ h[3] = L(h[2]) /\ h[4] = L(h[3])
  BY FiveLevels DEF h
<1>2. \A left \in 0..4 : h[left] = IF left = 0 THEN z ELSE L(h[left - 1])
  <2>1. \A left \in 0..4 : left = 0 \/ left = 1 \/ left = 2 \/ left = 3 \/ left = 4
    OBVIOUS
  <2> QED BY <1>1, <2>1
<1>3. h = [left \in 0..4 |-> IF left = 0 THEN z ELSE L(h[left - 1])]
  BY <1>1, <1>2
<1>4. FillTo(types, data, h)
  BY <1>3 DEF FillTo, EIP712_MAX_DEPTH, L, z
<1>5. FillTo(types, data, f)
  BY <1>4
<1>6. Fills(types, data) = f
  BY DEF Fills, FillTo, NotFor
<1> HIDE DEF f
<1>7. f = [left \in 0..4 |-> IF left = 0 THEN z ELSE L(f[left - 1])]
  BY <1>5 DEF FillTo, EIP712_MAX_DEPTH, L, z
<1>8. f[0] = z /\ f[1] = L(f[0]) /\ f[2] = L(f[1]) /\ f[3] = L(f[2]) /\ f[4] = L(f[3])
  BY <1>7
<1> QED BY <1>6, <1>8 DEF L, z
HashTo(order, t, g) ==
  g = [left \in 0..EIP712_MAX_DEPTH |-> IF left = 0 THEN NoHash(t) ELSE HashLevel(order, t, g[left - 1], walk_struct(t)[left - 1])]
\* Level by level, the hashes of the cartridge.
LEMMA HashSteps ==
  ASSUME NEW order, NEW t
  PROVE  \E g : /\ compute_struct_hash(order, t) = g[4] /\ g[0] = NoHash(t)
                /\ g[1] = HashLevel(order, t, g[0], walk_struct(t)[0]) /\ g[2] = HashLevel(order, t, g[1], walk_struct(t)[1])
                /\ g[3] = HashLevel(order, t, g[2], walk_struct(t)[2]) /\ g[4] = HashLevel(order, t, g[3], walk_struct(t)[3])
<1> DEFINE L(c, l) == HashLevel(order, t, c, walk_struct(t)[l])
           z == NoHash(t)
           h == Five(z, L(z, 0), L(L(z, 0), 1), L(L(L(z, 0), 1), 2), L(L(L(L(z, 0), 1), 2), 3))
           f == CHOOSE g : HashTo(order, t, g)
<1> HIDE DEF z, L, h
<1>1. /\ h = [left \in 0..4 |-> h[left]]
      /\ h[0] = z /\ h[1] = L(h[0], 0) /\ h[2] = L(h[1], 1) /\ h[3] = L(h[2], 2) /\ h[4] = L(h[3], 3)
  BY FiveLevels DEF h
<1>2. \A left \in 0..4 : h[left] = IF left = 0 THEN z ELSE L(h[left - 1], left - 1)
  <2>1. \A left \in 0..4 : left = 0 \/ left = 1 \/ left = 2 \/ left = 3 \/ left = 4
    OBVIOUS
  <2> QED BY <1>1, <2>1
<1>3. h = [left \in 0..4 |-> IF left = 0 THEN z ELSE L(h[left - 1], left - 1)]
  BY <1>1, <1>2
<1>4. HashTo(order, t, h)
  BY <1>3 DEF HashTo, EIP712_MAX_DEPTH, L, z
<1>5. HashTo(order, t, f)
  BY <1>4
<1>6. compute_struct_hash(order, t) = f[4]
  BY DEF compute_struct_hash, HashTo, NoHash, EIP712_MAX_DEPTH
<1> HIDE DEF f
<1>7. f = [left \in 0..4 |-> IF left = 0 THEN z ELSE L(f[left - 1], left - 1)]
  BY <1>5 DEF HashTo, EIP712_MAX_DEPTH, L, z
<1>8. f[0] = z /\ f[1] = L(f[0], 0) /\ f[2] = L(f[1], 1) /\ f[3] = L(f[2], 2) /\ f[4] = L(f[3], 3)
  BY <1>7
<1> QED BY <1>6, <1>8 DEF L, z
HostHashTo(order, types, data, g) ==
  g = [left \in 0..EIP712_MAX_DEPTH |-> IF left = 0 THEN NoHostHash(types) ELSE HostHashLevel(order, types, data, g[left - 1])]
\* Level by level, those of the host.
LEMMA HostHashSteps ==
  ASSUME NEW order, NEW types, NEW data
  PROVE  \E g : /\ \A primary : hashStruct(order, types, primary, data) = g[4][primary][<<>>] /\ g[0] = NoHostHash(types)
                /\ g[1] = HostHashLevel(order, types, data, g[0]) /\ g[2] = HostHashLevel(order, types, data, g[1])
                /\ g[3] = HostHashLevel(order, types, data, g[2]) /\ g[4] = HostHashLevel(order, types, data, g[3])
<1> DEFINE L(c, l) == HostHashLevel(order, types, data, c)
           z == NoHostHash(types)
           h == Five(z, L(z, 0), L(L(z, 0), 1), L(L(L(z, 0), 1), 2), L(L(L(L(z, 0), 1), 2), 3))
           f == CHOOSE g : HostHashTo(order, types, data, g)
<1> HIDE DEF z, L, h
<1>1. /\ h = [left \in 0..4 |-> h[left]]
      /\ h[0] = z /\ h[1] = L(h[0], 0) /\ h[2] = L(h[1], 1) /\ h[3] = L(h[2], 2) /\ h[4] = L(h[3], 3)
  BY FiveLevels DEF h
<1>2. \A left \in 0..4 : h[left] = IF left = 0 THEN z ELSE L(h[left - 1], left - 1)
  <2>1. \A left \in 0..4 : left = 0 \/ left = 1 \/ left = 2 \/ left = 3 \/ left = 4
    OBVIOUS
  <2> QED BY <1>1, <2>1
<1>3. h = [left \in 0..4 |-> IF left = 0 THEN z ELSE L(h[left - 1], left - 1)]
  BY <1>1, <1>2
<1>4. HostHashTo(order, types, data, h)
  BY <1>3 DEF HostHashTo, EIP712_MAX_DEPTH, L, z
<1>5. HostHashTo(order, types, data, f)
  BY <1>4
<1>6. \A primary : hashStruct(order, types, primary, data) = f[4][primary][<<>>]
  BY DEF hashStruct, HostHashTo, NoHostHash, EIP712_MAX_DEPTH
<1> HIDE DEF f
<1>7. f = [left \in 0..4 |-> IF left = 0 THEN z ELSE L(f[left - 1], left - 1)]
  BY <1>5 DEF HostHashTo, EIP712_MAX_DEPTH, L, z
<1>8. f[0] = z /\ f[1] = L(f[0], 0) /\ f[2] = L(f[1], 1) /\ f[3] = L(f[2], 2) /\ f[4] = L(f[3], 3)
  BY <1>7
<1> QED BY <1>6, <1>8 DEF L, z
LinesTo(t, g) ==
  g = [left \in 1..EIP712_MAX_DEPTH |->
         IF left = 1 THEN NoLines(t) ELSE LineLevel(t, g[left - 1], EIP712_MAX_DEPTH + 1 - left)]
\* Level by level, the lines.
LEMMA LineSteps ==
  ASSUME NEW t
  PROVE  \E g : /\ walk_struct_for_lines(t) = g[4] /\ g[1] = NoLines(t)
                /\ g[2] = LineLevel(t, g[1], 3) /\ g[3] = LineLevel(t, g[2], 2) /\ g[4] = LineLevel(t, g[3], 1)
<1> DEFINE L(c, d) == LineLevel(t, c, d)
           z == NoLines(t)
           h == Five(z, z, L(z, 3), L(L(z, 3), 2), L(L(L(z, 3), 2), 1))
           f == CHOOSE g : LinesTo(t, g)
<1> HIDE DEF z, L, h
<1>1. h[1] = z /\ h[2] = L(h[1], 3) /\ h[3] = L(h[2], 2) /\ h[4] = L(h[3], 1)
  BY FiveLevels DEF h
<1> DEFINE j == [left \in 1..4 |-> h[left]]
<1>2. j[1] = z /\ j[2] = L(j[1], 3) /\ j[3] = L(j[2], 2) /\ j[4] = L(j[3], 1) /\ j = [left \in 1..4 |-> j[left]]
  BY <1>1
<1> HIDE DEF j
<1>3. \A left \in 1..4 : j[left] = IF left = 1 THEN z ELSE L(j[left - 1], 4 + 1 - left)
  <2>1. \A left \in 1..4 : left = 1 \/ left = 2 \/ left = 3 \/ left = 4
    OBVIOUS
  <2> QED BY <1>2, <2>1
<1>4. j = [left \in 1..4 |-> IF left = 1 THEN z ELSE L(j[left - 1], 4 + 1 - left)]
  BY <1>2, <1>3
<1>5. LinesTo(t, j)
  BY <1>4 DEF LinesTo, EIP712_MAX_DEPTH, L, z
<1>6. LinesTo(t, f)
  BY <1>5
<1>7. walk_struct_for_lines(t) = f[4]
  BY DEF walk_struct_for_lines, LinesTo, NoLines, EIP712_MAX_DEPTH
<1> HIDE DEF f
<1>8. f = [left \in 1..4 |-> IF left = 1 THEN z ELSE L(f[left - 1], 4 + 1 - left)]
  BY <1>6 DEF LinesTo, EIP712_MAX_DEPTH, L, z
<1>9. f[1] = z /\ f[2] = L(f[1], 3) /\ f[3] = L(f[2], 2) /\ f[4] = L(f[3], 1)
  <2>1. 4 + 1 - 2 = 3 /\ 4 + 1 - 3 = 2 /\ 4 + 1 - 4 = 1
    OBVIOUS
  <2> QED BY <1>8, <2>1
<1> QED BY <1>7, <1>9 DEF L, z
AskedTo(types, data, g) ==
  g = [left \in 1..EIP712_MAX_DEPTH |->
         IF left = 1 THEN NoneAsked(types) ELSE AskedLevel(types, data, g[left - 1], EIP712_MAX_DEPTH + 1 - left)]
\* Level by level, the lines of what was asked.
LEMMA AskedSteps ==
  ASSUME NEW types, NEW data
  PROVE  \E g : /\ Asked(types, data) = g[4] /\ g[1] = NoneAsked(types)
                /\ g[2] = AskedLevel(types, data, g[1], 3) /\ g[3] = AskedLevel(types, data, g[2], 2) /\ g[4] = AskedLevel(types, data, g[3], 1)
<1> DEFINE L(c, d) == AskedLevel(types, data, c, d)
           z == NoneAsked(types)
           h == Five(z, z, L(z, 3), L(L(z, 3), 2), L(L(L(z, 3), 2), 1))
           f == CHOOSE g : AskedTo(types, data, g)
<1> HIDE DEF z, L, h
<1>1. h[1] = z /\ h[2] = L(h[1], 3) /\ h[3] = L(h[2], 2) /\ h[4] = L(h[3], 1)
  BY FiveLevels DEF h
<1> DEFINE j == [left \in 1..4 |-> h[left]]
<1>2. j[1] = z /\ j[2] = L(j[1], 3) /\ j[3] = L(j[2], 2) /\ j[4] = L(j[3], 1) /\ j = [left \in 1..4 |-> j[left]]
  BY <1>1
<1> HIDE DEF j
<1>3. \A left \in 1..4 : j[left] = IF left = 1 THEN z ELSE L(j[left - 1], 4 + 1 - left)
  <2>1. \A left \in 1..4 : left = 1 \/ left = 2 \/ left = 3 \/ left = 4
    OBVIOUS
  <2> QED BY <1>2, <2>1
<1>4. j = [left \in 1..4 |-> IF left = 1 THEN z ELSE L(j[left - 1], 4 + 1 - left)]
  BY <1>2, <1>3
<1>5. AskedTo(types, data, j)
  BY <1>4 DEF AskedTo, EIP712_MAX_DEPTH, L, z
<1>6. AskedTo(types, data, f)
  BY <1>5
<1>7. Asked(types, data) = f[4]
  BY DEF Asked, AskedTo, NoneAsked, EIP712_MAX_DEPTH
<1> HIDE DEF f
<1>8. f = [left \in 1..4 |-> IF left = 1 THEN z ELSE L(f[left - 1], 4 + 1 - left)]
  BY <1>6 DEF AskedTo, EIP712_MAX_DEPTH, L, z
<1>9. f[1] = z /\ f[2] = L(f[1], 3) /\ f[3] = L(f[2], 2) /\ f[4] = L(f[3], 1)
  <2>1. 4 + 1 - 2 = 3 /\ 4 + 1 - 3 = 2 /\ 4 + 1 - 4 = 1
    OBVIOUS
  <2> QED BY <1>8, <2>1
<1> QED BY <1>7, <1>9 DEF L, z

(*************************************************************************)
(* One level: the fields of a struct, given what holds of the structs    *)
(* that are nested in it.                                                *)
(*************************************************************************)
MemberBytes(types, data, cw, base, here) ==
  IF base \in DOMAIN types THEN cw[base][here] ELSE writeValue(base, data[here])
MemberFills(types, data, cf, base, here) ==
  IF base \in DOMAIN types THEN cf[base][here] ELSE here \in DOMAIN data /\ IsValue(base, data[here])
Base(types, name, k) == types[name][k].type[1]
Here(types, name, k, path) == Append(path, types[name][k].name)

\* The fields of a struct, one by one.
Members(types, data, cf, cw, name, path) ==
  /\ Len(FieldBytes(types, data, cw, name, path)) = Len(types[name])
  /\ Len(types[name]) \in Nat /\ Len(types[name]) >= 1
  /\ \A k \in 1..Len(types[name]) :
       /\ Here(types, name, k, path) \in Paths
       /\ FieldBytes(types, data, cw, name, path)[k]
            = MemberBytes(types, data, cw, Base(types, name, k), Here(types, name, k, path))
       /\ FillsLevel(types, data, cf)[name][path] =>
            MemberFills(types, data, cf, Base(types, name, k), Here(types, name, k, path))
LEMMA MemberByMember ==
  ASSUME NEW types, Fielded(types), NEW data, NEW cf, NEW cw, NEW name \in DOMAIN types, NEW path \in Paths
  PROVE  Members(types, data, cf, cw, name, path)
<1> DEFINE n == Len(types[name])
           B(k) == MemberBytes(types, data, cw, Base(types, name, k), Here(types, name, k, path))
           M(k) == MemberFills(types, data, cf, Base(types, name, k), Here(types, name, k, path))
<1>1. n \in Nat /\ n >= 1 /\ DOMAIN types[name] = 1..n /\ \A k \in 1..n : types[name][k].name \in STRING
  BY DEF Fielded, Str
<1>2. FieldBytes(types, data, cw, name, path) = [k \in DOMAIN types[name] |-> B(k)]
  BY DEF FieldBytes, MemberBytes, Base, Here
<1>3. FillsLevel(types, data, cf)[name][path] <=> \A k \in DOMAIN types[name] : M(k)
  BY DEF FillsLevel, MemberFills, Base, Here
<1> HIDE DEF n, B, M
<1>4. Len(FieldBytes(types, data, cw, name, path)) = n /\ \A k \in 1..n : FieldBytes(types, data, cw, name, path)[k] = B(k)
  BY <1>1, <1>2
<1>5. \A k \in 1..n : Here(types, name, k, path) \in Paths
  BY <1>1 DEF Here, Paths
<1> QED BY <1>1, <1>3, <1>4, <1>5 DEF Members, n, B, M

\* What is written for a struct are bytes.
Bounded(names, f, w) ==
  \A j \in 1..Len(names) : \A path \in Paths : f[names[j]][path] => Octets(w[names[j]][path])
LEMMA MemberOctets ==
  ASSUME NEW t, NEW names, NEW types, TreeOf(t, names, types), NEW data, NEW cf, NEW cw, Bounded(names, cf, cw),
         NEW i \in 1..Len(names), NEW k \in 1..Len(types[names[i]]), NEW here \in Paths,
         MemberFills(types, data, cf, Base(types, names[i], k), here)
  PROVE  Octets(MemberBytes(types, data, cw, Base(types, names[i], k), here))
<1> DEFINE type == types[names[i]][k].type
           base == Base(types, names[i], k)
<1>1. MemberFound(t, names, types, type)
  BY StructFound
<1>2. base = type[1]
  BY DEF Base
<1> HIDE DEF type, base
<1>3. CASE base \in DOMAIN types
  <2>1. PICK j \in 1..Len(names) : names[j] = base
    BY <1>1, <1>2, <1>3 DEF MemberFound
  <2>2. cf[names[j]][here]
    BY <1>3, <2>1 DEF MemberFills, base
  <2>3. Octets(cw[names[j]][here])
    BY <2>2 DEF Bounded
  <2> QED BY <1>3, <2>1, <2>3 DEF MemberBytes, base
<1>4. CASE base \notin DOMAIN types
  <2>1. IsValue(base, data[here])
    BY <1>4 DEF MemberFills, base
  <2>2. Octets(writeValue(base, data[here]))
    BY <2>1, WrittenBytes
  <2> QED BY <1>4, <2>2 DEF MemberBytes, base
<1> QED BY <1>3, <1>4
LEMMA LevelBounded ==
  ASSUME NEW t, NEW names, NEW types, TreeOf(t, names, types), NEW data, NEW cf, NEW cw, Bounded(names, cf, cw)
  PROVE  Bounded(names, FillsLevel(types, data, cf), WriteLevel(types, data, cw))
<1> SUFFICES ASSUME NEW i \in 1..Len(names), NEW path \in Paths, FillsLevel(types, data, cf)[names[i]][path]
             PROVE  Octets(WriteLevel(types, data, cw)[names[i]][path])
  BY DEF Bounded
<1> DEFINE name == names[i]
           e == FieldBytes(types, data, cw, name, path)
           n == Len(types[name])
<1>1. name \in DOMAIN types /\ Fielded(types)
  BY TableRows DEF TreeOf
<1>2. Members(types, data, cf, cw, name, path)
  BY <1>1, MemberByMember
<1>3. WriteLevel(types, data, cw)[name][path] = FlattenSeq(e)
  BY <1>1 DEF WriteLevel
<1>4. Len(e) = n /\ n \in Nat /\ n >= 1
  BY <1>2 DEF Members
<1>5. ASSUME NEW k \in 1..n PROVE Octets(e[k])
  <2>1. /\ Here(types, name, k, path) \in Paths
        /\ e[k] = MemberBytes(types, data, cw, Base(types, name, k), Here(types, name, k, path))
        /\ MemberFills(types, data, cf, Base(types, name, k), Here(types, name, k, path))
    BY <1>2 DEF Members
  <2>2. Octets(MemberBytes(types, data, cw, Base(types, name, k), Here(types, name, k, path)))
    BY <2>1, MemberOctets
  <2> QED BY <2>1, <2>2
<1> HIDE DEF e, n
<1>6. Octets(FlattenSeq(e))
  BY <1>4, <1>5, Flattened
<1> QED BY <1>3, <1>6 DEF e

\* Where a struct ends that lies at p.
WalksTo(v, names, f, w, walk) ==
  \A j \in 1..Len(names) : \A path \in Paths : \A p \in Int :
    f[names[j]][path] /\ Has(v, p, w[names[j]][path]) => walk[j][p] = p + Len(w[names[j]][path])

\* A member that lies at p ends behind its bytes.
WalkedPast(t, names, types, data, cf, cw, ck, i, k, here, p) ==
  walk_value(t, ck, types[names[i]][k].type, p)
    = p + Len(MemberBytes(types, data, cw, Base(types, names[i], k), here))
LEMMA MemberWalked ==
  ASSUME NEW t, NEW names, NEW types, TreeOf(t, names, types), NEW data, NEW cf, NEW cw, NEW ck,
         WalksTo(t.values, names, cf, cw, ck),
         NEW i \in 1..Len(names), NEW k \in 1..Len(types[names[i]]), NEW here \in Paths,
         MemberFills(types, data, cf, Base(types, names[i], k), here), NEW p,
         Has(t.values, p, MemberBytes(types, data, cw, Base(types, names[i], k), here))
  PROVE  WalkedPast(t, names, types, data, cf, cw, ck, i, k, here, p)
<1> DEFINE type == types[names[i]][k].type
           base == Base(types, names[i], k)
           s == MemberBytes(types, data, cw, base, here)
<1>1. MemberFound(t, names, types, type)
  BY StructFound
<1>2. base = type[1]
  BY DEF Base
<1>3. MemberFills(types, data, cf, base, here) /\ Has(t.values, p, s) /\ p \in Int /\ p # Bad
  BY DEF Has, Bad
<1> HIDE DEF type, base
<1>4. CASE base \in DOMAIN types
  <2> DEFINE j == StructOf(t.types, type)
  <2>1. j \in 1..Len(names) /\ names[j] = base /\ IsStruct(t.types, type) /\ ~type_is_array(type)
    BY <1>1, <1>2, <1>4 DEF MemberFound
  <2>2. cf[base][here] /\ s = cw[base][here]
    BY <1>3, <1>4 DEF MemberFills, MemberBytes
  <2>3. walk_value(t, ck, type, p) = ck[j][p]
    BY <1>3, <2>1, Zenon DEF walk_value
  <2> HIDE DEF j, s
  <2>4. ck[j][p] = p + Len(cw[names[j]][here])
    BY <1>3, <2>1, <2>2 DEF WalksTo
  <2> QED BY <2>1, <2>2, <2>3, <2>4 DEF type, base, s, WalkedPast
<1>5. CASE base \notin DOMAIN types
  <2>1. ~IsStruct(t.types, type) /\ ~type_is_array(type)
    BY <1>1, <1>2, <1>5 DEF MemberFound
  <2>2. IsValue(base, data[here]) /\ s = writeValue(base, data[here])
    BY <1>3, <1>5 DEF MemberFills, MemberBytes
  <2>3. walk_value(t, ck, type, p) = After(Extent(t.values, base, p))
    BY <1>2, <1>3, <2>1, Zenon DEF walk_value
  <2> HIDE DEF s
  <2>4. Octets(t.values) /\ Has(t.values, p, writeValue(base, data[here]))
    BY <1>3, <2>2 DEF TreeOf
  <2>5. Found(t.values, base, p, data[here])
    BY <2>2, <2>4, ValueRead
  <2> QED BY <2>2, <2>3, <2>5 DEF Found, type, base, s, WalkedPast
<1> QED BY <1>4, <1>5

\* No element begins after the end.
LEMMA LaidBelow ==
  ASSUME NEW e, NEW n \in Nat, NEW F, NEW o, Laid(e, n, F, o)
  PROVE  \A k \in 1..n : o[k] \in Nat /\ o[k + 1] = o[k] + Len(e[k]) /\ o[k + 1] <= Len(F)
<1>1. (\A k \in 1..n : o[k] \in Nat /\ o[k + 1] = o[k] + Len(e[k])) /\ Len(F) = o[n + 1]
  BY DEF Laid
<1>2. \A k \in 1..n : Len(e[k]) \in Nat
  BY Joined
<1> DEFINE S == {m \in Nat : m < n => o[n - m + 1] <= Len(F)}
<1>3. 0 \in S
  <2>1. n - 0 + 1 = n + 1 /\ Len(F) \in Nat
    BY Joined
  <2> QED BY <1>1, <2>1
<1>4. ASSUME NEW m \in Nat, m \in S PROVE m + 1 \in S
  <2> SUFFICES ASSUME m + 1 < n PROVE o[n - (m + 1) + 1] <= Len(F)
    OBVIOUS
  <2> DEFINE k == n - m
  <2>1. k \in 1..n /\ n - (m + 1) + 1 = k /\ n - m + 1 = k + 1
    OBVIOUS
  <2>2. o[k + 1] <= Len(F)
    BY <1>4, <2>1
  <2> HIDE DEF k, S
  <2>3. o[k] \in Nat /\ o[k + 1] = o[k] + Len(e[k]) /\ Len(e[k]) \in Nat /\ Len(F) \in Nat
    BY <1>1, <1>2, <2>1, Joined
  <2>4. o[k] <= Len(F)
    BY <2>2, <2>3
  <2> QED BY <2>1, <2>4
<1>5. Nat \subseteq S
  <2> HIDE DEF S
  <2> QED BY <1>3, <1>4, SetInduction
<1>6. ASSUME NEW k \in 1..n PROVE o[k + 1] <= Len(F)
  <2>1. n - k \in S /\ n - k < n /\ n - (n - k) + 1 = k + 1
    BY <1>5, SMTT(30)
  <2> QED BY <2>1
<1> QED BY <1>1, <1>6

\* The elements of e, one after the other from `at` on, and what ends where each does.
FieldsLie(b, e, n, ends, at, o) ==
  /\ Laid(e, n, FlattenSeq(e), o) /\ at \in Int /\ at >= 1
  /\ \A k \in 1..n : Has(b, at + o[k], e[k]) /\ ends[k - 1] = at + o[k] /\ ends[k] = at + o[k + 1]
  /\ ends[n] = at + Len(FlattenSeq(e))

\* The fields of a struct whose bytes lie at `at`.
LEMMA FieldsRead ==
  ASSUME NEW t, NEW names, NEW types, TreeOf(t, names, types), NEW data, NEW cf, NEW cw, NEW ck,
         WalksTo(t.values, names, cf, cw, ck),
         NEW i \in 1..Len(names), NEW path \in Paths, FillsLevel(types, data, cf)[names[i]][path], NEW at,
         Has(t.values, at, FlattenSeq(FieldBytes(types, data, cw, names[i], path)))
  PROVE  \E o : FieldsLie(t.values, FieldBytes(types, data, cw, names[i], path), Len(types[names[i]]),
                          FieldEnds(t, ck, i, at), at, o)
<1> DEFINE name == names[i]
           b == t.values
           e == FieldBytes(types, data, cw, name, path)
           n == Len(types[name])
           F == FlattenSeq(e)
           ends == FieldEnds(t, ck, i, at)
           type(k) == types[name][k].type
           W(k) == MemberBytes(types, data, cw, Base(types, name, k), Here(types, name, k, path))
<1>1. name \in DOMAIN types /\ Fielded(types) /\ t.types[i].fields = types[name] /\ Octets(b)
  <2>1. Fielded(types) /\ Octets(b)
    BY DEF TreeOf
  <2> QED BY <2>1, TableRows
<1>2. Members(types, data, cf, cw, name, path)
  BY <1>1, MemberByMember
<1>3. Len(e) = n /\ n \in Nat /\ n >= 1
  BY <1>2 DEF Members
<1>4. PICK o : Laid(e, n, F, o)
  BY <1>3, Flattened
<1>5. \A k \in 1..n : o[k] \in Nat /\ o[k + 1] = o[k] + Len(e[k]) /\ o[k + 1] <= Len(F)
  BY <1>3, <1>4, LaidBelow
<1>6. at \in Int /\ at >= 1
  BY DEF Has
<1>7. ASSUME NEW k \in 1..n PROVE Has(b, at + o[k], e[k])
  <2>1. o[k + 1] <= Len(F)
    BY <1>5
  <2>2. LiesAt(b, at + o[k], at + Len(F) - 1, e[k])
    <3> HIDE DEF F, n, b
    <3>1. Has(b, at, F)
      BY DEF F, b
    <3> QED BY <1>1, <1>3, <1>4, <2>1, <3>1, ElementLies
  <2> QED BY <2>2 DEF LiesAt
<1>8. ASSUME NEW k \in 1..n
      PROVE  walk_value(t, ck, type(k), at + o[k]) = at + o[k + 1]
  <2>1. /\ Here(types, name, k, path) \in Paths /\ e[k] = W(k)
        /\ MemberFills(types, data, cf, Base(types, name, k), Here(types, name, k, path))
    BY <1>2 DEF Members
  <2>2. Has(b, at + o[k], W(k))
    <3>1. Has(b, at + o[k], e[k])
      BY <1>7
    <3> QED BY <2>1, <3>1
  <2>3. walk_value(t, ck, type(k), at + o[k]) = (at + o[k]) + Len(W(k))
    <3>1. WalkedPast(t, names, types, data, cf, cw, ck, i, k, Here(types, name, k, path), at + o[k])
      BY <2>1, <2>2, MemberWalked
    <3> QED BY <3>1 DEF WalkedPast
  <2>4. Len(e[k]) = Len(W(k)) /\ Len(e[k]) \in Nat
    BY <2>1, Joined
  <2> HIDE DEF e, W, type
  <2>5. o[k] \in Nat /\ o[k + 1] = o[k] + Len(e[k])
    BY <1>5
  <2> QED BY <1>6, <2>3, <2>4, <2>5
<1>9. EndsStep(t, ck, i, at, ends, n)
  BY <1>1, <1>3, EndsSteps
<1>10. ends[0] = at /\ \A k \in 1..n : ends[k] = walk_value(t, ck, type(k), ends[k - 1])
  BY <1>1, <1>9 DEF EndsStep
<1> HIDE DEF ends, type, e, n, F, b
<1>11. o[1] = 0 /\ Len(F) = o[n + 1]
  BY <1>4 DEF Laid
<1> DEFINE S == {m \in Nat : m <= n => ends[m] = at + o[m + 1]}
<1>12. 0 \in S
  BY <1>6, <1>10, <1>11
<1>13. ASSUME NEW m \in Nat, m \in S PROVE m + 1 \in S
  <2> SUFFICES ASSUME m + 1 <= n PROVE ends[m + 1] = at + o[(m + 1) + 1]
    OBVIOUS
  <2>1. ends[m] = at + o[m + 1] /\ m + 1 \in 1..n /\ (m + 1) - 1 = m
    BY <1>3, <1>13
  <2>2. ends[m + 1] = walk_value(t, ck, type(m + 1), ends[m])
    BY <1>10, <2>1
  <2>3. walk_value(t, ck, type(m + 1), at + o[m + 1]) = at + o[(m + 1) + 1]
    BY <1>8, <2>1
  <2> QED BY <2>1, <2>2, <2>3
<1>14. Nat \subseteq S
  <2> HIDE DEF S
  <2> QED BY <1>12, <1>13, SetInduction
<1>15. ASSUME NEW k \in 1..n PROVE ends[k - 1] = at + o[k] /\ ends[k] = at + o[k + 1]
  <2>1. k - 1 \in S /\ k \in S /\ k - 1 <= n /\ k <= n /\ (k - 1) + 1 = k
    BY <1>3, <1>14
  <2> QED BY <2>1
<1>16. ends[n] = at + Len(F)
  <2>1. n \in S
    BY <1>3, <1>14
  <2> QED BY <1>3, <1>11, <2>1
<1>17. FieldsLie(b, e, n, ends, at, o)
  BY <1>4, <1>6, <1>7, <1>15, <1>16 DEF FieldsLie, F
<1> QED BY <1>17 DEF b, e, n, ends

\* A struct ends behind its bytes.
LEMMA LevelWalks ==
  ASSUME NEW t, NEW names, NEW types, TreeOf(t, names, types), NEW data, NEW cf, NEW cw, NEW ck,
         WalksTo(t.values, names, cf, cw, ck)
  PROVE  WalksTo(t.values, names, FillsLevel(types, data, cf), WriteLevel(types, data, cw), WalkLevel(t, ck))
<1> SUFFICES ASSUME NEW i \in 1..Len(names), NEW path \in Paths, NEW at \in Int,
                    FillsLevel(types, data, cf)[names[i]][path],
                    Has(t.values, at, WriteLevel(types, data, cw)[names[i]][path])
             PROVE  WalkLevel(t, ck)[i][at] = at + Len(WriteLevel(types, data, cw)[names[i]][path])
  BY DEF WalksTo
<1> DEFINE F == FlattenSeq(FieldBytes(types, data, cw, names[i], path))
<1>1. names[i] \in DOMAIN types /\ i \in DOMAIN t.types /\ t.types[i].fields = types[names[i]]
  BY TableRows
<1>2. WriteLevel(types, data, cw)[names[i]][path] = F
  BY <1>1 DEF WriteLevel
<1>3. Has(t.values, at, F)
  BY <1>2
<1>4. PICK o : FieldsLie(t.values, FieldBytes(types, data, cw, names[i], path), Len(types[names[i]]),
                         FieldEnds(t, ck, i, at), at, o)
  BY <1>3, FieldsRead
<1>5. at \in 0..Len(t.values) + 1
  <2> HIDE DEF F
  <2>1. at >= 1 /\ at + Len(F) <= Len(t.values) + 1 /\ Len(F) \in Nat /\ Len(t.values) \in Nat
    BY <1>3, Joined DEF Has
  <2> QED BY <2>1
<1>6. WalkLevel(t, ck)[i][at] = FieldEnds(t, ck, i, at)[Len(types[names[i]])]
  BY <1>1, <1>5 DEF WalkLevel
<1> QED BY <1>2, <1>4, <1>6 DEF FieldsLie

(*************************************************************************)
(* encodeType.                                                           *)
(*************************************************************************)
\* The types that the i-th one uses have the names that the host finds in it.
UsesAlike(t, names, types, i) ==
  /\ Uses(t.types, i) \subseteq 1..Len(names)
  /\ BaseTypes(types, names[i]) = {names[j] : j \in Uses(t.types, i)}
LEMMA UsesAgree ==
  ASSUME NEW t, NEW names, NEW types, TreeOf(t, names, types), NEW i \in 1..Len(names)
  PROVE  UsesAlike(t, names, types, i)
<1> DEFINE f == types[names[i]]
           D == {k \in 1..Len(f) : find_type_by_name(t.types, f[k].type[1]) # {}}
<1>1. names[i] \in DOMAIN types /\ t.types[i].fields = f
  BY TableRows
<1>2. DOMAIN f = 1..Len(f)
  BY <1>1 DEF TreeOf, Fielded
<1>3. Uses(t.types, i) = {StructOf(t.types, f[k].type) : k \in D}
  BY <1>1, <1>2 DEF Uses
<1>4. ASSUME NEW k \in 1..Len(f) PROVE MemberFound(t, names, types, f[k].type)
  BY StructFound
<1>5. BaseTypes(types, names[i]) = {f[k].type[1] : k \in 1..Len(f)} \cap DOMAIN types
  BY <1>2 DEF BaseTypes
<1> HIDE DEF f
<1>6. ASSUME NEW k \in D
      PROVE  StructOf(t.types, f[k].type) \in 1..Len(names) /\ names[StructOf(t.types, f[k].type)] = f[k].type[1]
             /\ f[k].type[1] \in DOMAIN types
  BY <1>4 DEF MemberFound
<1>7. Uses(t.types, i) \subseteq 1..Len(names)
  BY <1>3, <1>6
<1>8. ASSUME NEW j \in Uses(t.types, i) PROVE names[j] \in BaseTypes(types, names[i])
  <2>1. PICK k \in D : j = StructOf(t.types, f[k].type)
    BY <1>3
  <2> QED BY <1>5, <1>6, <2>1
<1>9. ASSUME NEW b \in BaseTypes(types, names[i]) PROVE \E j \in Uses(t.types, i) : b = names[j]
  <2>1. PICK k \in 1..Len(f) : b = f[k].type[1] /\ b \in DOMAIN types
    BY <1>5
  <2>2. k \in D
    BY <1>4, <2>1 DEF MemberFound
  <2> QED BY <1>3, <1>6, <2>1, <2>2
<1> QED BY <1>7, <1>8, <1>9 DEF UsesAlike

\* Both follow them to the same types.
LEMMA DepsAgree ==
  ASSUME NEW t, NEW names, NEW types, TreeOf(t, names, types), NEW i \in 1..Len(names)
  PROVE  /\ collect_deps(t.types, i) \subseteq 1..Len(names)
         /\ findDependencies(types, names[i]) = {names[j] : j \in collect_deps(t.types, i)}
<1> DEFINE C == collect_deps(t.types, i)
           U(m) == Uses(t.types, m)
           B(n) == BaseTypes(types, n)
<1>1. DOMAIN t.types = 1..Len(names) /\ \A j \in 1..Len(names) : names[j] \in DOMAIN types
  BY TableRows
<1>2. C = {j \in 1..Len(names) : \A S \in SUBSET (1..Len(names)) :
                                   i \in S /\ (\A m \in S : U(m) \subseteq S) => j \in S}
  BY <1>1 DEF collect_deps
<1>3. findDependencies(types, names[i])
        = {n \in DOMAIN types : \A S \in SUBSET DOMAIN types :
             names[i] \in S /\ (\A m \in S : B(m) \subseteq S) => n \in S}
  BY DEF findDependencies
<1>4. ASSUME NEW m \in 1..Len(names) PROVE U(m) \subseteq 1..Len(names) /\ B(names[m]) = {names[j] : j \in U(m)}
  <2>1. UsesAlike(t, names, types, m)
    BY UsesAgree
  <2> QED BY <2>1 DEF UsesAlike
<1> HIDE DEF C, U, B
<1>5. C \subseteq 1..Len(names)
  BY <1>2
<1>6. ASSUME NEW j \in C PROVE names[j] \in findDependencies(types, names[i])
  <2> SUFFICES ASSUME NEW S \in SUBSET DOMAIN types, names[i] \in S, \A m \in S : B(m) \subseteq S
               PROVE  names[j] \in S
    BY <1>1, <1>3, <1>5
  <2> DEFINE R == {m \in 1..Len(names) : names[m] \in S}
  <2>1. \A m \in R : U(m) \subseteq R
    BY <1>4
  <2>2. i \in R /\ R \in SUBSET (1..Len(names))
    OBVIOUS
  <2>3. j \in R
    BY <1>2, <2>1, <2>2
  <2> QED BY <2>3
<1>7. ASSUME NEW n \in findDependencies(types, names[i]) PROVE \E j \in C : n = names[j]
  <2> DEFINE S == {names[j] : j \in C}
  <2>1. i \in C
    BY <1>2
  <2>2. S \in SUBSET DOMAIN types /\ names[i] \in S
    BY <1>1, <1>5, <2>1
  <2>3. ASSUME NEW j \in C PROVE U(j) \subseteq C
    BY <1>2, <1>4, <2>3
  <2>4. ASSUME NEW m \in S PROVE B(m) \subseteq S
    <3>1. PICK j \in C : m = names[j]
      OBVIOUS
    <3>2. B(names[j]) = {names[k] : k \in U(j)}
      BY <1>4, <1>5
    <3> QED BY <2>3, <3>1, <3>2
  <2>5. n \in S
    BY <1>3, <2>2, <2>4
  <2> QED BY <2>5
<1>8. findDependencies(types, names[i]) = {names[j] : j \in C}
  BY <1>6, <1>7
<1> QED BY <1>5, <1>8 DEF C

\* The type that is hashed is the same.
LEMMA TypeAgrees ==
  ASSUME NEW order, NEW t, NEW names, NEW types, TreeOf(t, names, types), NEW i \in 1..Len(names)
  PROVE  encode_type_canonical(order, t.types, i) = encodeType(order, types, names[i])
<1> DEFINE C == collect_deps(t.types, i)
           D == findDependencies(types, names[i])
           ours == [n \in {t.types[j].name : j \in C \ {i}} |-> t.types[Min(find_type_by_name(t.types, n))]]
           theirs == [n \in D \ {names[i]} |-> Definition(types, n)]
<1>1. C \subseteq 1..Len(names) /\ D = {names[j] : j \in C}
  BY DepsAgree
<1>2. \A j \in 1..Len(names) : /\ t.types[j] = Definition(types, names[j]) /\ t.types[j].name = names[j]
                               /\ Min(find_type_by_name(t.types, names[j])) = j
  <2>1. \A j \in 1..Len(names) : AloneNamed(t, names, j)
    BY NameFound
  <2>2. \A j \in 1..Len(names) : t.types[j] = Definition(types, names[j]) /\ t.types[j].name = names[j]
    BY TableRows
  <2> QED BY <2>1, <2>2 DEF AloneNamed
<1>3. \A j, k \in 1..Len(names) : names[j] = names[k] => j = k
  BY DEF TreeOf, Listing
<1> HIDE DEF C, D
<1>4. {t.types[j].name : j \in C \ {i}} = {names[j] : j \in C \ {i}}
  BY <1>1, <1>2
<1>5. {names[j] : j \in C \ {i}} = D \ {names[i]}
  BY <1>1, <1>3
<1>6. ASSUME NEW n \in D \ {names[i]} PROVE t.types[Min(find_type_by_name(t.types, n))] = Definition(types, n)
  <2>1. PICK j \in C : n = names[j]
    BY <1>1
  <2> QED BY <1>1, <1>2, <2>1
<1>7. ours = theirs
  <2>1. ours = [n \in D \ {names[i]} |-> t.types[Min(find_type_by_name(t.types, n))]]
    BY <1>4, <1>5
  <2> QED BY <1>6, <2>1
<1>8. encode_type_canonical(order, t.types, i) = <<t.types[i]>> \o InOrder(order, ours)
  BY DEF encode_type_canonical, sort_deps_by_name, C
<1>9. encodeType(order, types, names[i]) = <<Definition(types, names[i])>> \o InOrder(order, theirs)
  BY DEF encodeType, D
<1> HIDE DEF ours, theirs
<1> QED BY <1>2, <1>7, <1>8, <1>9

\* The types that are used and their type strings, for each type of the tree.
StringsAlike(order, t, names, types, i) ==
  /\ collect_deps(t.types, i) \subseteq 1..Len(names)
  /\ findDependencies(types, names[i]) = {names[j] : j \in collect_deps(t.types, i)}
  /\ encode_type_canonical(order, t.types, i) = encodeType(order, types, names[i])
LEMMA StringsAgree ==
  ASSUME NEW order, NEW t, NEW names, NEW types, TreeOf(t, names, types), NEW i \in 1..Len(names)
  PROVE  StringsAlike(order, t, names, types, i)
<1>1. /\ collect_deps(t.types, i) \subseteq 1..Len(names)
      /\ findDependencies(types, names[i]) = {names[j] : j \in collect_deps(t.types, i)}
  BY DepsAgree
<1>2. encode_type_canonical(order, t.types, i) = encodeType(order, types, names[i])
  BY TypeAgrees
<1> QED BY <1>1, <1>2 DEF StringsAlike

\* Both measure the same type strings.
LEMMA SizesAgree ==
  ASSUME NEW order, NEW t, NEW names, NEW td, TreeOf(t, names, td.types), 1 \in 1..Len(names),
         names[1] = "EIP712Domain", t.primary \in 1..Len(names), names[t.primary] = td.primaryType
  PROVE  TypeStringsFit(order, t) <=> TypesFit(order, td)
<1> DEFINE types == td.types
           P == collect_deps(t.types, 1) \cup collect_deps(t.types, t.primary)
           Q == findDependencies(types, "EIP712Domain") \cup findDependencies(types, td.primaryType)
           Small(defs) == TypeStringSize(defs) <= EIP712_TYPESTR_MAX
<1>1. \A i \in 1..Len(names) : StringsAlike(order, t, names, types, i)
  BY StringsAgree
<1>2. P \subseteq 1..Len(names) /\ Q = {names[j] : j \in P}
  BY <1>1 DEF StringsAlike
<1>3. TypeStringsFit(order, t) <=> \A j \in P : Small(encode_type_canonical(order, t.types, j))
  BY DEF TypeStringsFit
<1>4. TypesFit(order, td) <=> \A n \in Q : Small(encodeType(order, types, n))
  BY DEF TypesFit
<1>5. \A j \in P : encode_type_canonical(order, t.types, j) = encodeType(order, types, names[j])
  BY <1>1, <1>2 DEF StringsAlike
<1> HIDE DEF P, Q, Small, types
<1> QED BY <1>2, <1>3, <1>4, <1>5

(*************************************************************************)
(* The hashes.                                                           *)
(*************************************************************************)
HashesTo(v, names, f, w, hash, host) ==
  \A j \in 1..Len(names) : \A path \in Paths : \A p \in Int :
    f[names[j]][path] /\ Has(v, p, w[names[j]][path]) => hash[j][p] = host[names[j]][path]

\* What a member at p is hashed as, by the cartridge and by the host.
OursFor(t, ch, type, p) ==
  IF IsStruct(t.types, type) THEN ch[StructOf(t.types, type)][p]
  ELSE Word(type[1], Slice(t.values, Extent(t.values, type[1], p)[1], Extent(t.values, type[1], p)[2]))
TheirsFor(types, data, chost, base, here) ==
  IF base \in DOMAIN types THEN chost[base][here] ELSE HostWord(base, data[here])
HashedAlike(t, names, types, data, cf, cw, ch, chost, i, k, here, p) ==
  OursFor(t, ch, types[names[i]][k].type, p) = TheirsFor(types, data, chost, Base(types, names[i], k), here)
LEMMA MemberHashed ==
  ASSUME NEW t, NEW names, NEW types, TreeOf(t, names, types), NEW data, NEW cf, NEW cw, NEW ch, NEW chost,
         HashesTo(t.values, names, cf, cw, ch, chost),
         NEW i \in 1..Len(names), NEW k \in 1..Len(types[names[i]]), NEW here \in Paths,
         MemberFills(types, data, cf, Base(types, names[i], k), here), NEW p,
         Has(t.values, p, MemberBytes(types, data, cw, Base(types, names[i], k), here))
  PROVE  HashedAlike(t, names, types, data, cf, cw, ch, chost, i, k, here, p)
<1> DEFINE type == types[names[i]][k].type
           base == Base(types, names[i], k)
           s == MemberBytes(types, data, cw, base, here)
<1>1. MemberFound(t, names, types, type)
  BY StructFound
<1>2. base = type[1]
  BY DEF Base
<1>3. MemberFills(types, data, cf, base, here) /\ Has(t.values, p, s) /\ p \in Int
  BY DEF Has
<1> HIDE DEF type, base
<1>4. CASE base \in DOMAIN types
  <2> DEFINE j == StructOf(t.types, type)
  <2>1. j \in 1..Len(names) /\ names[j] = base /\ IsStruct(t.types, type)
    BY <1>1, <1>2, <1>4 DEF MemberFound
  <2>2. cf[base][here] /\ s = cw[base][here]
    BY <1>3, <1>4 DEF MemberFills, MemberBytes
  <2>3. OursFor(t, ch, type, p) = ch[j][p] /\ TheirsFor(types, data, chost, base, here) = chost[base][here]
    BY <1>4, <2>1, Zenon DEF OursFor, TheirsFor
  <2> HIDE DEF j, s
  <2>4. ch[j][p] = chost[names[j]][here]
    BY <1>3, <2>1, <2>2 DEF HashesTo
  <2> QED BY <2>1, <2>3, <2>4 DEF type, base, HashedAlike
<1>5. CASE base \notin DOMAIN types
  <2> DEFINE v == data[here]
             e == Extent(t.values, base, p)
  <2>1. ~IsStruct(t.types, type)
    BY <1>1, <1>2, <1>5 DEF MemberFound
  <2>2. IsValue(base, v) /\ s = writeValue(base, v)
    BY <1>3, <1>5 DEF MemberFills, MemberBytes
  <2>3. /\ OursFor(t, ch, type, p) = Word(base, Slice(t.values, e[1], e[2]))
        /\ TheirsFor(types, data, chost, base, here) = HostWord(base, v)
    BY <1>2, <1>5, <2>1, Zenon DEF OursFor, TheirsFor
  <2> HIDE DEF s, v
  <2>4. Octets(t.values) /\ Has(t.values, p, writeValue(base, v))
    BY <1>3, <2>2 DEF TreeOf
  <2>5. Found(t.values, base, p, v)
    BY <2>2, <2>4, ValueRead
  <2>6. Slice(t.values, e[1], e[2]) = ValueBytes(base, v)
    BY <2>5 DEF Found
  <2>7. Word(base, ValueBytes(base, v)) = HostWord(base, v)
    BY <2>2, WordAgrees
  <2> QED BY <2>3, <2>6, <2>7 DEF type, base, HashedAlike
<1> QED BY <1>4, <1>5

\* A struct is hashed alike.
LEMMA LevelHashes ==
  ASSUME NEW order, NEW t, NEW names, NEW types, TreeOf(t, names, types), NEW data, NEW cf, NEW cw, NEW ck, NEW ch, NEW chost,
         WalksTo(t.values, names, cf, cw, ck), HashesTo(t.values, names, cf, cw, ch, chost)
  PROVE  HashesTo(t.values, names, FillsLevel(types, data, cf), WriteLevel(types, data, cw),
                  HashLevel(order, t, ch, ck), HostHashLevel(order, types, data, chost))
<1> SUFFICES ASSUME NEW i \in 1..Len(names), NEW path \in Paths, NEW at \in Int,
                    FillsLevel(types, data, cf)[names[i]][path],
                    Has(t.values, at, WriteLevel(types, data, cw)[names[i]][path])
             PROVE  HashLevel(order, t, ch, ck)[i][at] = HostHashLevel(order, types, data, chost)[names[i]][path]
  BY DEF HashesTo
<1> DEFINE name == names[i]
           e == FieldBytes(types, data, cw, name, path)
           F == FlattenSeq(e)
           n == Len(types[name])
           ends == FieldEnds(t, ck, i, at)
           ours(k) == OursFor(t, ch, types[name][k].type, ends[k - 1])
           theirs(k) == TheirsFor(types, data, chost, Base(types, name, k), Here(types, name, k, path))
<1>1. name \in DOMAIN types /\ i \in DOMAIN t.types /\ t.types[i].fields = types[name]
  BY TableRows
<1>2. WriteLevel(types, data, cw)[name][path] = F
  BY <1>1 DEF WriteLevel
<1>3. Has(t.values, at, F)
  BY <1>2
<1>4. PICK o : FieldsLie(t.values, e, n, ends, at, o)
  BY <1>3, FieldsRead
<1>5. at \in 0..Len(t.values) + 1
  <2> HIDE DEF F
  <2>1. at >= 1 /\ at + Len(F) <= Len(t.values) + 1 /\ Len(F) \in Nat /\ Len(t.values) \in Nat
    BY <1>3, Joined DEF Has
  <2> QED BY <2>1
<1>6. Fielded(types)
  BY DEF TreeOf
<1>7. Members(types, data, cf, cw, name, path) /\ DOMAIN types[name] = 1..n
  BY <1>1, <1>6, MemberByMember DEF Fielded
<1>8. ASSUME NEW k \in 1..n PROVE ours(k) = theirs(k)
  <2>1. /\ Here(types, name, k, path) \in Paths
        /\ e[k] = MemberBytes(types, data, cw, Base(types, name, k), Here(types, name, k, path))
        /\ MemberFills(types, data, cf, Base(types, name, k), Here(types, name, k, path))
    BY <1>7 DEF Members
  <2>2. Has(t.values, at + o[k], e[k]) /\ ends[k - 1] = at + o[k]
    BY <1>4 DEF FieldsLie
  <2>3. Has(t.values, ends[k - 1], MemberBytes(types, data, cw, Base(types, name, k), Here(types, name, k, path)))
    BY <2>1, <2>2
  <2>4. HashedAlike(t, names, types, data, cf, cw, ch, chost, i, k, Here(types, name, k, path), ends[k - 1])
    BY <2>1, <2>3, MemberHashed
  <2> QED BY <2>4 DEF HashedAlike
<1>9. HashLevel(order, t, ch, ck)[i][at]
        = <<"struct", encode_type_canonical(order, t.types, i), [k \in 1..n |-> ours(k)]>>
  BY <1>1, <1>5, <1>7 DEF HashLevel, OursFor
<1>10. HostHashLevel(order, types, data, chost)[name][path]
         = <<"struct", encodeType(order, types, name), [k \in 1..n |-> theirs(k)]>>
  BY <1>1, <1>7 DEF HostHashLevel, TheirsFor, Base, Here
<1>11. encode_type_canonical(order, t.types, i) = encodeType(order, types, name)
  BY TypeAgrees
<1> HIDE DEF ours, theirs
<1>12. [k \in 1..n |-> ours(k)] = [k \in 1..n |-> theirs(k)]
  BY <1>8
<1> QED BY <1>9, <1>10, <1>11, <1>12

(*************************************************************************)
(* The lines.                                                            *)
(*************************************************************************)
\* What a member whose field is f adds to the lines s.
LineMore(t, child, depth, f, s) ==
  LET e == Extent(t.values, f.type[1], s.at) IN
  IF IsStruct(t.types, f.type)
  THEN LET nested == child[StructOf(t.types, f.type)][s.at]
       IN [lines |-> s.lines \o (<<push_line(depth, f.name, Title)>> \o nested.lines), at |-> nested.at]
  ELSE IF e[1] = Bad
  THEN [lines |-> s.lines \o <<push_line(depth, f.name, <<"bad">>)>>, at |-> s.at]
  ELSE [lines |-> s.lines \o <<push_line(depth, f.name,
                                 format_atomic_value(f.type[1], Slice(t.values, e[1], e[2])))>>,
        at |-> After(e)]
Nothing(at) == [lines |-> <<>>, at |-> at]
UpTo(t, child, depth, i, at, g, n) ==
  g = [k \in 0..n |-> IF k = 0 THEN Nothing(at) ELSE LineMore(t, child, depth, t.types[i].fields[k], g[k - 1])]
UpToStep(t, child, depth, i, at, g, n) ==
  g[0] = Nothing(at) /\ \A k \in 1..n : g[k] = LineMore(t, child, depth, t.types[i].fields[k], g[k - 1])
\* FieldLines goes field by field.
LEMMA UpToSteps ==
  ASSUME NEW t, NEW child, NEW depth, NEW i, NEW at, Len(t.types[i].fields) \in Nat
  PROVE  UpToStep(t, child, depth, i, at, FieldLines(t, child, depth, i, at), Len(t.types[i].fields))
<1> DEFINE W(k, p) == LineMore(t, child, depth, t.types[i].fields[k], p)
           z == Nothing(at)
           m == Len(t.types[i].fields)
<1>1. \E g : UpTo(t, child, depth, i, at, g, m)
  <2> DEFINE S == {n \in Nat : \E g : UpTo(t, child, depth, i, at, g, n)}
  <2>1. 0 \in S
    <3>1. UpTo(t, child, depth, i, at, [k \in 0..0 |-> z], 0)
      BY DEF UpTo
    <3> QED BY <3>1
  <2>2. ASSUME NEW n \in Nat, n \in S PROVE n + 1 \in S
    <3>1. PICK g : UpTo(t, child, depth, i, at, g, n)
      BY <2>2
    <3> DEFINE h == [k \in 0..n + 1 |-> IF k <= n THEN g[k] ELSE W(n + 1, g[n])]
    <3>2. g = [k \in 0..n |-> IF k = 0 THEN z ELSE W(k, g[k - 1])]
      BY <3>1 DEF UpTo
    <3> HIDE DEF W, z
    <3>3. ASSUME NEW k \in 0..n + 1 PROVE h[k] = IF k = 0 THEN z ELSE W(k, h[k - 1])
      <4>1. CASE k <= n
        BY <3>2, <4>1
      <4>2. CASE k = n + 1
        <5>1. h[k] = W(n + 1, g[n]) /\ h[k - 1] = g[n] /\ k # 0
          BY <4>2
        <5> QED BY <4>2, <5>1
      <4> QED BY <4>1, <4>2
    <3>4. h = [k \in 0..n + 1 |-> IF k = 0 THEN z ELSE W(k, h[k - 1])]
      BY <3>3
    <3>5. UpTo(t, child, depth, i, at, h, n + 1)
      BY <3>4 DEF UpTo, W, z
    <3> QED BY <3>5
  <2>3. Nat \subseteq S
    <3> HIDE DEF S
    <3> QED BY <2>1, <2>2, SetInduction
  <2> QED BY <2>3
<1> DEFINE f == CHOOSE g : UpTo(t, child, depth, i, at, g, m)
<1>2. FieldLines(t, child, depth, i, at) = f
  BY DEF FieldLines, UpTo, LineMore, Nothing
<1>3. UpTo(t, child, depth, i, at, f, m)
  BY <1>1
<1>6. m \in Nat
  OBVIOUS
<1> HIDE DEF f, m, z
<1>4. f = [k \in 0..m |-> IF k = 0 THEN z ELSE W(k, f[k - 1])]
  BY <1>3 DEF UpTo, z
<1> HIDE DEF W
<1>5. f[0] = z /\ \A k \in 1..m : f[k] = W(k, f[k - 1])
  BY <1>4, <1>6
<1> QED BY <1>2, <1>5 DEF UpToStep, W, m, z

\* A struct at p gives the lines that were asked for.
ListsTo(v, names, f, w, lines, asked) ==
  \A j \in 1..Len(names) : \A path \in Paths : \A p \in Int :
    f[names[j]][path] /\ Has(v, p, w[names[j]][path]) =>
      /\ lines[j][p].lines = asked[names[j]][path] /\ Str(asked[names[j]][path])
      /\ lines[j][p].at = p + Len(w[names[j]][path])
\* What is asked for of a member.
AskedFor(types, data, ca, name, k, here, depth) ==
  LET f == types[name][k] IN
  IF f.type[1] \in DOMAIN types THEN <<push_line(depth, f.name, Title)>> \o ca[f.type[1]][here]
  ELSE <<push_line(depth, f.name, format_atomic_value(f.type[1], ValueBytes(f.type[1], data[here])))>>
ListedAs(t, names, types, data, cf, cw, cl, ca, i, k, here, depth, s) ==
  LET next == LineMore(t, cl, depth, types[names[i]][k], s)
      more == AskedFor(types, data, ca, names[i], k, here, depth)
  IN /\ next.lines = s.lines \o more /\ Str(more)
     /\ next.at = s.at + Len(MemberBytes(types, data, cw, Base(types, names[i], k), here))
LEMMA MemberListed ==
  ASSUME NEW t, NEW names, NEW types, TreeOf(t, names, types), NEW data, NEW cf, NEW cw, NEW cl, NEW ca,
         ListsTo(t.values, names, cf, cw, cl, ca), NEW depth,
         NEW i \in 1..Len(names), NEW k \in 1..Len(types[names[i]]), NEW here \in Paths,
         MemberFills(types, data, cf, Base(types, names[i], k), here), NEW s,
         Has(t.values, s.at, MemberBytes(types, data, cw, Base(types, names[i], k), here))
  PROVE  ListedAs(t, names, types, data, cf, cw, cl, ca, i, k, here, depth, s)
<1> DEFINE f == types[names[i]][k]
           base == Base(types, names[i], k)
           b == MemberBytes(types, data, cw, base, here)
           p == s.at
           next == LineMore(t, cl, depth, f, s)
           more == AskedFor(types, data, ca, names[i], k, here, depth)
<1>1. MemberFound(t, names, types, f.type)
  BY StructFound
<1>2. base = f.type[1]
  BY DEF Base
<1>3. MemberFills(types, data, cf, base, here) /\ Has(t.values, p, b) /\ p \in Int
  BY DEF Has
<1>4. \A x : Str(<<x>>)
  BY DEF Str
<1>5. SUFFICES next.lines = s.lines \o more /\ Str(more) /\ next.at = p + Len(b)
  BY DEF ListedAs
<1> HIDE DEF base, p
<1>6. CASE base \in DOMAIN types
  <2> DEFINE j == StructOf(t.types, f.type)
             head == <<push_line(depth, f.name, Title)>>
             nested == cl[j][p]
  <2>1. j \in 1..Len(names) /\ names[j] = base /\ IsStruct(t.types, f.type)
    BY <1>1, <1>2, <1>6 DEF MemberFound
  <2>2. cf[base][here] /\ b = cw[base][here]
    BY <1>3, <1>6 DEF MemberFills, MemberBytes
  <2>3. more = head \o ca[base][here]
    BY <1>2, <1>6, Zenon DEF AskedFor
  <2>4. next = [lines |-> s.lines \o (head \o nested.lines), at |-> nested.at]
    BY <2>1, Zenon DEF LineMore, p
  <2> HIDE DEF j, b, head, more, next, f
  <2>5. nested.lines = ca[names[j]][here] /\ Str(ca[names[j]][here]) /\ nested.at = p + Len(cw[names[j]][here])
    BY <1>3, <2>1, <2>2 DEF ListsTo
  <2> HIDE DEF nested
  <2>6. Str(head \o ca[base][here])
    BY <1>4, <2>1, <2>5, StrJoin DEF head
  <2>7. next.lines = s.lines \o (head \o nested.lines) /\ next.at = nested.at
    BY <2>4
  <2> QED BY <2>1, <2>2, <2>3, <2>5, <2>6, <2>7
<1>7. CASE base \notin DOMAIN types
  <2> DEFINE v == data[here]
             e == Extent(t.values, base, p)
             line(x) == <<push_line(depth, f.name, format_atomic_value(base, x))>>
  <2>1. ~IsStruct(t.types, f.type)
    BY <1>1, <1>2, <1>7 DEF MemberFound
  <2>2. IsValue(base, v) /\ b = writeValue(base, v)
    BY <1>3, <1>7 DEF MemberFills, MemberBytes
  <2> HIDE DEF b, v
  <2>4. Octets(t.values) /\ Has(t.values, p, writeValue(base, v))
    BY <1>3, <2>2 DEF TreeOf
  <2>5. Found(t.values, base, p, v)
    BY <2>2, <2>4, ValueRead
  <2>6. e[1] # Bad /\ After(e) = p + Len(b) /\ Slice(t.values, e[1], e[2]) = ValueBytes(base, v)
    BY <2>2, <2>5 DEF Found
  <2>7. more = line(ValueBytes(base, v))
    BY <1>2, <1>7, Zenon DEF AskedFor, v
  <2>8. next = [lines |-> s.lines \o line(Slice(t.values, e[1], e[2])), at |-> After(e)]
    BY <1>2, <2>1, <2>6, Zenon DEF LineMore, p
  <2> HIDE DEF e, more, next
  <2>9. Str(line(ValueBytes(base, v)))
    BY <1>4
  <2> HIDE DEF line
  <2> QED BY <2>6, <2>7, <2>8, <2>9
<1> QED BY <1>6, <1>7

LEMMA NothingBefore == ASSUME NEW s, Str(s) PROVE <<>> \o s = s
<1>1. Str(<<>>)
  BY DEF Str
<1>2. Str(<<>> \o s) /\ Len(<<>> \o s) = Len(s)
  BY <1>1, StrJoin, Joined
<1>3. \A i \in 1..Len(s) : (<<>> \o s)[i] = s[i]
  <2>1. \A i \in 1..Len(s) : (<<>> \o s)[Len(<<>>) + i] = s[i]
    BY Joined
  <2> QED BY <2>1
<1> QED BY <1>2, <1>3, SameStr

\* A struct is listed as it was asked for.
LEMMA LevelLists ==
  ASSUME NEW t, NEW names, NEW types, TreeOf(t, names, types), NEW data, NEW cf, NEW cw, NEW ck, NEW cl, NEW ca, NEW depth,
         WalksTo(t.values, names, cf, cw, ck), ListsTo(t.values, names, cf, cw, cl, ca)
  PROVE  ListsTo(t.values, names, FillsLevel(types, data, cf), WriteLevel(types, data, cw),
                 LineLevel(t, cl, depth), AskedLevel(types, data, ca, depth))
<1> SUFFICES ASSUME NEW i \in 1..Len(names), NEW path \in Paths, NEW at \in Int,
                    FillsLevel(types, data, cf)[names[i]][path],
                    Has(t.values, at, WriteLevel(types, data, cw)[names[i]][path])
             PROVE  /\ LineLevel(t, cl, depth)[i][at].lines = AskedLevel(types, data, ca, depth)[names[i]][path]
                    /\ Str(AskedLevel(types, data, ca, depth)[names[i]][path])
                    /\ LineLevel(t, cl, depth)[i][at].at = at + Len(WriteLevel(types, data, cw)[names[i]][path])
  BY DEF ListsTo
<1> DEFINE name == names[i]
           e == FieldBytes(types, data, cw, name, path)
           F == FlattenSeq(e)
           n == Len(types[name])
           u == FieldLines(t, cl, depth, i, at)
           q == AskedFields(types, data, ca, name, path, depth)
           More(k) == AskedFor(types, data, ca, name, k, Here(types, name, k, path), depth)
<1>1. name \in DOMAIN types /\ i \in DOMAIN t.types /\ t.types[i].fields = types[name]
  BY TableRows
<1>2. WriteLevel(types, data, cw)[name][path] = F
  BY <1>1 DEF WriteLevel
<1>3. Has(t.values, at, F)
  BY <1>2
<1>4. PICK o : FieldsLie(t.values, e, n, FieldEnds(t, ck, i, at), at, o)
  BY <1>3, FieldsRead
<1>5. at \in 0..Len(t.values) + 1
  <2> HIDE DEF F
  <2>1. at >= 1 /\ at + Len(F) <= Len(t.values) + 1 /\ Len(F) \in Nat /\ Len(t.values) \in Nat
    BY <1>3, Joined DEF Has
  <2> QED BY <2>1
<1>6. Fielded(types)
  BY DEF TreeOf
<1>7. Members(types, data, cf, cw, name, path) /\ DOMAIN types[name] = 1..n /\ n \in Nat /\ n >= 1
  <2>1. Members(types, data, cf, cw, name, path)
    BY <1>1, <1>6, MemberByMember
  <2> QED BY <1>1, <1>6, <2>1 DEF Fielded, Members
<1>8. UpToStep(t, cl, depth, i, at, u, n)
  BY <1>1, <1>7, UpToSteps
<1>9. u[0].lines = <<>> /\ u[0].at = at /\ \A k \in 1..n : u[k] = LineMore(t, cl, depth, types[name][k], u[k - 1])
  BY <1>1, <1>8 DEF UpToStep, Nothing
<1>10. q = [k \in 1..n |-> More(k)]
  BY <1>7 DEF AskedFields, AskedFor, Here
<1>11. Len(q) = n /\ \A k \in 1..n : q[k] = More(k)
  BY <1>7, <1>10
<1>12. PICK g : FlattenTo(q, g, n) /\ FlattenSeq(q) = g[n]
  <2>1. Len(q) \in Nat \ {0}
    BY <1>7, <1>11
  <2> QED BY <1>11, <2>1, FlattenSteps
<1>13. o[1] = 0 /\ (\A k \in 1..n : o[k] \in Nat /\ o[k + 1] = o[k] + Len(e[k])) /\ Len(F) = o[n + 1]
  BY <1>4 DEF FieldsLie, Laid
<1>14. ASSUME NEW k \in 1..n, u[k - 1].at = at + o[k]
       PROVE  u[k].lines = u[k - 1].lines \o q[k] /\ Str(q[k]) /\ u[k].at = at + o[k + 1]
  <2> DEFINE h == Here(types, name, k, path)
             s == u[k - 1]
  <2>1. h \in Paths /\ e[k] = MemberBytes(types, data, cw, Base(types, name, k), h)
        /\ MemberFills(types, data, cf, Base(types, name, k), h)
    BY <1>7 DEF Members
  <2>2. Has(t.values, at + o[k], e[k])
    BY <1>4 DEF FieldsLie
  <2>3. Has(t.values, s.at, MemberBytes(types, data, cw, Base(types, name, k), h))
    BY <1>14, <2>1, <2>2
  <2> HIDE DEF h, s
  <2>4. ListedAs(t, names, types, data, cf, cw, cl, ca, i, k, h, depth, s)
    BY <2>1, <2>3, MemberListed
  <2>5. u[k] = LineMore(t, cl, depth, types[name][k], s)
    BY <1>9 DEF s
  <2>6. q[k] = AskedFor(types, data, ca, name, k, h, depth)
    BY <1>11 DEF h
  <2>7. u[k].lines = s.lines \o q[k] /\ Str(q[k]) /\ u[k].at = s.at + Len(e[k])
    BY <2>1, <2>4, <2>5, <2>6 DEF ListedAs
  <2>8. o[k] \in Nat /\ o[k + 1] = o[k] + Len(e[k]) /\ Len(e[k]) \in Nat
    BY <1>13, Joined
  <2> HIDE DEF u, q, e
  <2> QED BY <1>14, <2>7, <2>8 DEF s
<1> HIDE DEF u, q, e, F, n, More
<1>15. g[1] = q[1] /\ \A k \in 2..n : g[k] = g[k - 1] \o q[k]
  <2>1. n \in Nat /\ n >= 1
    BY <1>7
  <2>2. g = [k \in 1..n |-> IF k = 1 THEN q[k] ELSE g[k - 1] \o q[k]]
    BY <1>12 DEF FlattenTo
  <2>3. \A k \in 1..n : g[k] = IF k = 1 THEN q[k] ELSE g[k - 1] \o q[k]
    BY <2>2
  <2>4. 1 \in 1..n /\ \A k \in 2..n : k \in 1..n /\ k # 1
    BY <2>1
  <2> QED BY <2>3, <2>4
<1> DEFINE S == {m \in Nat : m + 1 <= n => /\ u[m + 1].lines = g[m + 1] /\ Str(g[m + 1])
                                          /\ u[m + 1].at = at + o[m + 2]}
<1>16. 0 \in S
  <2>1. 1 \in 1..n /\ 1 - 1 = 0 /\ u[0].at = at + o[1] /\ 1 + 1 = 2
    BY <1>7, <1>9, <1>13
  <2>2. u[1].lines = <<>> \o q[1] /\ Str(q[1]) /\ u[1].at = at + o[2]
    <3>1. u[1 - 1].at = at + o[1]
      BY <2>1
    <3>2. u[1].lines = u[1 - 1].lines \o q[1] /\ Str(q[1]) /\ u[1].at = at + o[1 + 1]
      BY <1>14, <2>1, <3>1
    <3>3. u[1 - 1].lines = <<>> /\ o[1 + 1] = o[2]
      BY <1>9, <2>1
    <3> QED BY <3>2, <3>3
  <2>3. u[1].lines = q[1]
    BY <2>2, NothingBefore
  <2> QED BY <1>15, <2>2, <2>3
<1>17. ASSUME NEW m \in Nat, m \in S PROVE m + 1 \in S
  <2> DEFINE k == m + 2
  <2> SUFFICES ASSUME k <= n PROVE u[k].lines = g[k] /\ Str(g[k]) /\ u[k].at = at + o[k + 1]
    OBVIOUS
  <2>1. k \in 2..n /\ k \in 1..n /\ k - 1 = m + 1 /\ m + 1 <= n
    BY <1>7
  <2>2. u[k - 1].lines = g[k - 1] /\ Str(g[k - 1]) /\ u[k - 1].at = at + o[k]
    BY <1>17, <2>1
  <2> HIDE DEF k, S
  <2>3. u[k].lines = u[k - 1].lines \o q[k] /\ Str(q[k]) /\ u[k].at = at + o[k + 1]
    BY <1>14, <2>1, <2>2
  <2>4. g[k] = g[k - 1] \o q[k]
    BY <1>15, <2>1
  <2>5. Str(g[k - 1] \o q[k])
    BY <2>2, <2>3, StrJoin
  <2> QED BY <2>2, <2>3, <2>4, <2>5
<1>18. Nat \subseteq S
  <2> HIDE DEF S
  <2> QED BY <1>16, <1>17, SetInduction
<1>19. u[n].lines = g[n] /\ Str(g[n]) /\ u[n].at = at + o[n + 1]
  <2>1. n - 1 \in Nat /\ (n - 1) + 1 = n /\ (n - 1) + 2 = n + 1 /\ n <= n
    BY <1>7
  <2>2. n - 1 \in S
    BY <1>18, <2>1
  <2> QED BY <2>1, <2>2
<1>20. LineLevel(t, cl, depth)[i][at] = u[n]
  BY <1>1, <1>5 DEF LineLevel, u, n
<1>21. AskedLevel(types, data, ca, depth)[name][path] = FlattenSeq(q)
  BY <1>1 DEF AskedLevel, q
<1> QED BY <1>2, <1>12, <1>13, <1>19, <1>20, <1>21

(*************************************************************************)
(* All the levels.                                                       *)
(*************************************************************************)
\* What is written for a struct does not depend on the levels it does not need.
Steady(types, f, w, more) ==
  \A name \in DOMAIN types : \A path \in Paths : f[name][path] => w[name][path] = more[name][path]
LEMMA LevelSteady ==
  ASSUME NEW types, Fielded(types), NEW data, NEW cf, NEW cw, NEW cx, Steady(types, cf, cw, cx)
  PROVE  Steady(types, FillsLevel(types, data, cf), WriteLevel(types, data, cw), WriteLevel(types, data, cx))
<1> SUFFICES ASSUME NEW name \in DOMAIN types, NEW path \in Paths, FillsLevel(types, data, cf)[name][path]
             PROVE  WriteLevel(types, data, cw)[name][path] = WriteLevel(types, data, cx)[name][path]
  BY DEF Steady
<1> DEFINE d == FieldBytes(types, data, cw, name, path)
           e == FieldBytes(types, data, cx, name, path)
           n == Len(types[name])
           D(k) == MemberBytes(types, data, cw, Base(types, name, k), Here(types, name, k, path))
           E(k) == MemberBytes(types, data, cx, Base(types, name, k), Here(types, name, k, path))
<1>1. Members(types, data, cf, cw, name, path)
  BY MemberByMember
<1>2. ASSUME NEW k \in 1..n PROVE D(k) = E(k)
  <2> DEFINE b == Base(types, name, k)
             h == Here(types, name, k, path)
  <2>1. h \in Paths /\ MemberFills(types, data, cf, b, h)
    BY <1>1 DEF Members
  <2> HIDE DEF b, h
  <2>2. CASE b \in DOMAIN types
    <3>1. cf[b][h]
      BY <2>1, <2>2 DEF MemberFills
    <3>2. cw[b][h] = cx[b][h]
      BY <2>1, <2>2, <3>1 DEF Steady
    <3>3. MemberBytes(types, data, cw, b, h) = MemberBytes(types, data, cx, b, h)
      BY <2>2, <3>2 DEF MemberBytes
    <3> QED BY <3>3 DEF b, h
  <2>3. CASE b \notin DOMAIN types
    <3>1. MemberBytes(types, data, cw, b, h) = MemberBytes(types, data, cx, b, h)
      BY <2>3 DEF MemberBytes
    <3> QED BY <3>1 DEF b, h
  <2> QED BY <2>2, <2>3
<1>3. DOMAIN types[name] = 1..n
  BY DEF Fielded
<1>4. d = [k \in 1..n |-> D(k)] /\ e = [k \in 1..n |-> E(k)]
  BY <1>3 DEF FieldBytes, MemberBytes, Base, Here
<1> HIDE DEF D, E
<1>5. d = e
  BY <1>2, <1>4
<1>6. WriteLevel(types, data, cw)[name][path] = FlattenSeq(d) /\ WriteLevel(types, data, cx)[name][path] = FlattenSeq(e)
  BY DEF WriteLevel
<1> QED BY <1>5, <1>6
\* Three levels are enough for what is nested three deep.
ThreeDo(types, data) ==
  Steady(types, Fills(types, data)[3], writeStructValues(types, data)[3], writeStructValues(types, data)[4])
LEMMA ThreeEnough == ASSUME NEW types, Fielded(types), NEW data PROVE ThreeDo(types, data)
<1> DEFINE f == Fills(types, data)
           w == writeStructValues(types, data)
<1>1. /\ f[0] = NotFor(types) /\ f[1] = FillsLevel(types, data, f[0]) /\ f[2] = FillsLevel(types, data, f[1])
      /\ f[3] = FillsLevel(types, data, f[2])
  BY FillSteps
<1>2. /\ w[1] = WriteLevel(types, data, w[0]) /\ w[2] = WriteLevel(types, data, w[1])
      /\ w[3] = WriteLevel(types, data, w[2]) /\ w[4] = WriteLevel(types, data, w[3])
  BY WriteSteps
<1> HIDE DEF f, w
<1>3. Steady(types, f[0], w[0], w[1])
  BY <1>1 DEF Steady, NotFor
<1>4. Steady(types, f[1], w[1], w[2])
  BY <1>1, <1>2, <1>3, LevelSteady
<1>5. Steady(types, f[2], w[2], w[3])
  BY <1>1, <1>2, <1>4, LevelSteady
<1>6. Steady(types, f[3], w[3], w[4])
  BY <1>1, <1>2, <1>5, LevelSteady
<1> QED BY <1>6 DEF ThreeDo, f, w

\* All that is written are bytes.
AllBytes(names, types, data) == Bounded(names, Fills(types, data)[4], writeStructValues(types, data)[4])
LEMMA WritesBytes ==
  ASSUME NEW names, NEW types, Listing(names, types), Fielded(types), NEW data
  PROVE  AllBytes(names, types, data)
<1> DEFINE t == [types |-> [i \in DOMAIN names |-> Definition(types, names[i])], values |-> <<>>]
           f == Fills(types, data)
           w == writeStructValues(types, data)
<1>1. Octets(<<>>)
  BY DEF Octets, Str
<1>2. TreeOf(t, names, types)
  BY <1>1 DEF TreeOf
<1>3. /\ f[0] = NotFor(types) /\ f[1] = FillsLevel(types, data, f[0]) /\ f[2] = FillsLevel(types, data, f[1])
      /\ f[3] = FillsLevel(types, data, f[2]) /\ f[4] = FillsLevel(types, data, f[3])
  BY FillSteps
<1>4. /\ w[1] = WriteLevel(types, data, w[0]) /\ w[2] = WriteLevel(types, data, w[1])
      /\ w[3] = WriteLevel(types, data, w[2]) /\ w[4] = WriteLevel(types, data, w[3])
  BY WriteSteps
<1> HIDE DEF f, w, t
<1>5. Bounded(names, f[0], w[0])
  <2>1. \A j \in 1..Len(names) : names[j] \in DOMAIN types
    BY DEF Listing
  <2> QED BY <1>3, <2>1 DEF Bounded, NotFor
<1>6. Bounded(names, f[1], w[1])
  BY <1>2, <1>3, <1>4, <1>5, LevelBounded
<1>7. Bounded(names, f[2], w[2])
  BY <1>2, <1>3, <1>4, <1>6, LevelBounded
<1>8. Bounded(names, f[3], w[3])
  BY <1>2, <1>3, <1>4, <1>7, LevelBounded
<1>9. Bounded(names, f[4], w[4])
  BY <1>2, <1>3, <1>4, <1>8, LevelBounded
<1> QED BY <1>9 DEF AllBytes, f, w

\* Level by level the walk ends behind the bytes.
Walked(t, names, types, data, l) ==
  WalksTo(t.values, names, Fills(types, data)[l], writeStructValues(types, data)[l], walk_struct(t)[l])
LEMMA AllWalked ==
  ASSUME NEW t, NEW names, NEW types, TreeOf(t, names, types), NEW data
  PROVE  /\ Walked(t, names, types, data, 0) /\ Walked(t, names, types, data, 1) /\ Walked(t, names, types, data, 2)
         /\ Walked(t, names, types, data, 3) /\ Walked(t, names, types, data, 4)
<1> DEFINE f == Fills(types, data)
           w == writeStructValues(types, data)
           g == walk_struct(t)
<1>1. /\ f[0] = NotFor(types) /\ f[1] = FillsLevel(types, data, f[0]) /\ f[2] = FillsLevel(types, data, f[1])
      /\ f[3] = FillsLevel(types, data, f[2]) /\ f[4] = FillsLevel(types, data, f[3])
  BY FillSteps
<1>2. /\ w[1] = WriteLevel(types, data, w[0]) /\ w[2] = WriteLevel(types, data, w[1])
      /\ w[3] = WriteLevel(types, data, w[2]) /\ w[4] = WriteLevel(types, data, w[3])
  BY WriteSteps
<1>3. g[1] = WalkLevel(t, g[0]) /\ g[2] = WalkLevel(t, g[1]) /\ g[3] = WalkLevel(t, g[2]) /\ g[4] = WalkLevel(t, g[3])
  BY WalkSteps
<1> HIDE DEF f, w, g
<1>4. WalksTo(t.values, names, f[0], w[0], g[0])
  <2>1. \A j \in 1..Len(names) : names[j] \in DOMAIN types
    BY DEF TreeOf, Listing
  <2> QED BY <1>1, <2>1 DEF WalksTo, NotFor
<1>5. WalksTo(t.values, names, f[1], w[1], g[1])
  BY <1>1, <1>2, <1>3, <1>4, LevelWalks
<1>6. WalksTo(t.values, names, f[2], w[2], g[2])
  BY <1>1, <1>2, <1>3, <1>5, LevelWalks
<1>7. WalksTo(t.values, names, f[3], w[3], g[3])
  BY <1>1, <1>2, <1>3, <1>6, LevelWalks
<1>8. WalksTo(t.values, names, f[4], w[4], g[4])
  BY <1>1, <1>2, <1>3, <1>7, LevelWalks
<1> QED BY <1>4, <1>5, <1>6, <1>7, <1>8 DEF Walked, f, w, g

\* What was written for the j-th type at the top lies at p.
Written(t, names, types, data, j, p) ==
  /\ j \in 1..Len(names) /\ p \in Int /\ Fills(types, data)[4][names[j]][<<>>]
  /\ Has(t.values, p, writeStructValues(types, data)[4][names[j]][<<>>])
TopHash(order, t, names, types, data, j, p) ==
  compute_struct_hash(order, t)[j][p] = hashStruct(order, types, names[j], data)
LEMMA TopHashed ==
  ASSUME NEW order, NEW t, NEW names, NEW types, TreeOf(t, names, types), NEW data, NEW j, NEW p,
         Written(t, names, types, data, j, p)
  PROVE  TopHash(order, t, names, types, data, j, p)
<1> DEFINE f == Fills(types, data)
           w == writeStructValues(types, data)
           a == walk_struct(t)
<1>1. /\ f[0] = NotFor(types) /\ f[1] = FillsLevel(types, data, f[0]) /\ f[2] = FillsLevel(types, data, f[1])
      /\ f[3] = FillsLevel(types, data, f[2]) /\ f[4] = FillsLevel(types, data, f[3])
  BY FillSteps
<1>2. /\ w[1] = WriteLevel(types, data, w[0]) /\ w[2] = WriteLevel(types, data, w[1])
      /\ w[3] = WriteLevel(types, data, w[2]) /\ w[4] = WriteLevel(types, data, w[3])
  BY WriteSteps
<1>3. /\ WalksTo(t.values, names, f[0], w[0], a[0]) /\ WalksTo(t.values, names, f[1], w[1], a[1])
      /\ WalksTo(t.values, names, f[2], w[2], a[2]) /\ WalksTo(t.values, names, f[3], w[3], a[3])
  BY AllWalked DEF Walked
<1>4. PICK g : /\ compute_struct_hash(order, t) = g[4]
               /\ g[1] = HashLevel(order, t, g[0], a[0]) /\ g[2] = HashLevel(order, t, g[1], a[1])
               /\ g[3] = HashLevel(order, t, g[2], a[2]) /\ g[4] = HashLevel(order, t, g[3], a[3])
  BY HashSteps
<1>5. PICK h : /\ \A primary : hashStruct(order, types, primary, data) = h[4][primary][<<>>]
               /\ h[1] = HostHashLevel(order, types, data, h[0]) /\ h[2] = HostHashLevel(order, types, data, h[1])
               /\ h[3] = HostHashLevel(order, types, data, h[2]) /\ h[4] = HostHashLevel(order, types, data, h[3])
  BY HostHashSteps
<1>6. j \in 1..Len(names) /\ p \in Int /\ f[4][names[j]][<<>>] /\ Has(t.values, p, w[4][names[j]][<<>>])
  BY DEF Written
<1> HIDE DEF f, w, a
<1>7. HashesTo(t.values, names, f[0], w[0], g[0], h[0])
  <2>1. \A k \in 1..Len(names) : names[k] \in DOMAIN types
    BY DEF TreeOf, Listing
  <2> QED BY <1>1, <2>1 DEF HashesTo, NotFor
<1>8. HashesTo(t.values, names, f[1], w[1], g[1], h[1])
  BY <1>1, <1>2, <1>3, <1>4, <1>5, <1>7, LevelHashes
<1>9. HashesTo(t.values, names, f[2], w[2], g[2], h[2])
  BY <1>1, <1>2, <1>3, <1>4, <1>5, <1>8, LevelHashes
<1>10. HashesTo(t.values, names, f[3], w[3], g[3], h[3])
  BY <1>1, <1>2, <1>3, <1>4, <1>5, <1>9, LevelHashes
<1>11. HashesTo(t.values, names, f[4], w[4], g[4], h[4])
  BY <1>1, <1>2, <1>3, <1>4, <1>5, <1>10, LevelHashes
<1>12. <<>> \in Paths
  BY DEF Paths
<1>13. g[4][j][p] = h[4][names[j]][<<>>]
  BY <1>6, <1>11, <1>12 DEF HashesTo
<1> QED BY <1>4, <1>5, <1>13 DEF TopHash

TopLines(t, names, types, data, j, p) == LinesOf(t, j, p) = Asked(types, data)[names[j]][<<>>]
LEMMA TopListed ==
  ASSUME NEW t, NEW names, NEW types, TreeOf(t, names, types), NEW data, NEW j, NEW p,
         Written(t, names, types, data, j, p), Fills(types, data)[3][names[j]][<<>>]
  PROVE  TopLines(t, names, types, data, j, p)
<1> DEFINE f == Fills(types, data)
           w == writeStructValues(types, data)
           a == walk_struct(t)
<1>1. /\ f[0] = NotFor(types) /\ f[1] = FillsLevel(types, data, f[0]) /\ f[2] = FillsLevel(types, data, f[1])
      /\ f[3] = FillsLevel(types, data, f[2])
  BY FillSteps
<1>2. /\ w[1] = WriteLevel(types, data, w[0]) /\ w[2] = WriteLevel(types, data, w[1])
      /\ w[3] = WriteLevel(types, data, w[2])
  BY WriteSteps
<1>3. /\ WalksTo(t.values, names, f[0], w[0], a[0]) /\ WalksTo(t.values, names, f[1], w[1], a[1])
      /\ WalksTo(t.values, names, f[2], w[2], a[2])
  BY AllWalked DEF Walked
<1>4. PICK g : /\ walk_struct_for_lines(t) = g[4]
               /\ g[2] = LineLevel(t, g[1], 3) /\ g[3] = LineLevel(t, g[2], 2) /\ g[4] = LineLevel(t, g[3], 1)
  BY LineSteps
<1>5. PICK h : /\ Asked(types, data) = h[4] /\ h[2] = AskedLevel(types, data, h[1], 3)
               /\ h[3] = AskedLevel(types, data, h[2], 2) /\ h[4] = AskedLevel(types, data, h[3], 1)
  BY AskedSteps
<1>6. j \in 1..Len(names) /\ p \in Int /\ f[3][names[j]][<<>>] /\ Has(t.values, p, w[4][names[j]][<<>>])
  BY DEF Written
<1>7. Steady(types, f[3], w[3], w[4])
  BY ThreeEnough DEF ThreeDo, TreeOf
<1> HIDE DEF f, w, a
<1>8. \A k \in 1..Len(names) : names[k] \in DOMAIN types
  BY DEF TreeOf, Listing
<1>9. ListsTo(t.values, names, f[0], w[0], g[1], h[1])
  BY <1>1, <1>8 DEF ListsTo, NotFor
<1>10. ListsTo(t.values, names, f[1], w[1], g[2], h[2])
  <2>1. ListsTo(t.values, names, FillsLevel(types, data, f[0]), WriteLevel(types, data, w[0]),
                LineLevel(t, g[1], 3), AskedLevel(types, data, h[1], 3))
    BY <1>3, <1>9, LevelLists
  <2> QED BY <1>1, <1>2, <1>4, <1>5, <2>1
<1>11. ListsTo(t.values, names, f[2], w[2], g[3], h[3])
  <2>1. ListsTo(t.values, names, FillsLevel(types, data, f[1]), WriteLevel(types, data, w[1]),
                LineLevel(t, g[2], 2), AskedLevel(types, data, h[2], 2))
    BY <1>3, <1>10, LevelLists
  <2> QED BY <1>1, <1>2, <1>4, <1>5, <2>1
<1>12. ListsTo(t.values, names, f[3], w[3], g[4], h[4])
  <2>1. ListsTo(t.values, names, FillsLevel(types, data, f[2]), WriteLevel(types, data, w[2]),
                LineLevel(t, g[3], 1), AskedLevel(types, data, h[3], 1))
    BY <1>3, <1>11, LevelLists
  <2> QED BY <1>1, <1>2, <1>4, <1>5, <2>1
<1>13. <<>> \in Paths
  BY DEF Paths
<1>14. Has(t.values, p, w[3][names[j]][<<>>])
  <2>1. w[3][names[j]][<<>>] = w[4][names[j]][<<>>]
    BY <1>6, <1>7, <1>8, <1>13 DEF Steady
  <2> QED BY <1>6, <2>1
<1>15. g[4][j][p].lines = h[4][names[j]][<<>>]
  BY <1>6, <1>12, <1>13, <1>14 DEF ListsTo
<1> QED BY <1>4, <1>5, <1>15 DEF TopLines, LinesOf

(*************************************************************************)
(* The whole tree.                                                       *)
(*************************************************************************)
LEMMA TypesListed ==
  ASSUME NEW td, IsTypedData(td), NEW names, IsTypeOrder(names, td)
  PROVE  Listing(names, td.types) /\ Fielded(td.types)
<1> DEFINE types == td.types
           R == [name : STRING, type : Seq(STRING)]
<1>1. names \in Seq(DOMAIN types)
  BY DEF IsTypeOrder
<1>2. Len(names) \in Nat /\ DOMAIN names = 1..Len(names) /\ \A i \in 1..Len(names) : names[i] \in DOMAIN types
  BY <1>1
<1>3. \A i, j \in 1..Len(names) : names[i] = names[j] => i = j
  BY <1>2 DEF IsTypeOrder
<1>4. \A i \in 1..Len(names) : BaseTypes(types, names[i]) \subseteq {names[j] : j \in 1..Len(names)}
  BY <1>2 DEF IsTypeOrder, ToSet
<1>5. ASSUME NEW n \in DOMAIN types
      PROVE  /\ Str(types[n]) /\ Len(types[n]) >= 1 /\ DOMAIN types[n] = 1..Len(types[n])
             /\ \A k \in 1..Len(types[n]) : Len(types[n][k].type) = 1 /\ types[n][k].name \in STRING
  <2> DEFINE f == types[n]
  <2>1. f \in Seq(R) /\ Len(f) \in 1..EIP712_MAX_FIELDS_PER_TYPE /\ \A k \in DOMAIN f : Len(f[k].type) = 1
    BY DEF IsTypedData
  <2>5. \A x \in R : x.name \in STRING
    OBVIOUS
  <2> HIDE DEF f, R
  <2>2. Str(f)
    BY <2>1, SeqIsStr
  <2>3. Len(f) \in Nat /\ DOMAIN f = 1..Len(f) /\ \A k \in 1..Len(f) : f[k] \in R
    BY <2>1
  <2>4. Len(f) >= 1
    BY <2>1, <2>3 DEF EIP712_MAX_FIELDS_PER_TYPE
  <2>6. \A k \in 1..Len(f) : Len(f[k].type) = 1 /\ f[k].name \in STRING
    BY <2>1, <2>3, <2>5
  <2> QED BY <2>2, <2>3, <2>4, <2>6 DEF f
<1> HIDE DEF types
<1>6. Listing(names, types) /\ Fielded(types)
  BY <1>2, <1>3, <1>4, <1>5 DEF Listing, Fielded
<1> QED BY <1>6 DEF types

\* What the tree of td is made of, and where its two parts lie.
DomainBytes(td) == writeStructValues(td.types, td.domain)[4]["EIP712Domain"][<<>>]
MessageBytes(td) == writeStructValues(td.types, td.message)[4][td.primaryType][<<>>]
TreeKnown(t, names, td) ==
  /\ TreeOf(t, names, td.types) /\ t.primary \in 1..Len(names) /\ names[t.primary] = td.primaryType
  /\ 1 \in 1..Len(names) /\ names[1] = "EIP712Domain" /\ parse_tlv_header(t)
  /\ Written(t, names, td.types, td.domain, 1, 1)
  /\ Written(t, names, td.types, td.message, t.primary, 1 + Len(DomainBytes(td)))
  /\ Len(t.values) = Len(DomainBytes(td)) + Len(MessageBytes(td))
LEMMA TreeMade ==
  ASSUME NEW td, IsTypedData(td), NEW names, IsTypeOrder(names, td)
  PROVE  TreeKnown(serializeTypedDataTLV(names, td), names, td)
<1> DEFINE types == td.types
           t == serializeTypedDataTLV(names, td)
           a == DomainBytes(td)
           b == MessageBytes(td)
<1>1. Listing(names, types) /\ Fielded(types)
  BY TypesListed
<1>2. Len(names) \in Nat /\ DOMAIN names = 1..Len(names) /\ \A i \in 1..Len(names) : names[i] \in DOMAIN types
  BY <1>1 DEF Listing
<1>3. /\ t.types = [i \in DOMAIN names |-> Definition(types, names[i])]
      /\ t.primary = CHOOSE i \in DOMAIN names : names[i] = td.primaryType
      /\ t.values = a \o b
  BY DEF serializeTypedDataTLV, DomainBytes, MessageBytes, EIP712_MAX_DEPTH
<1>4. Len(names) \in 1..EIP712_MAX_TYPES /\ names[1] = "EIP712Domain" /\ td.primaryType \in ToSet(names)
  BY DEF IsTypeOrder
<1>5. 1 \in 1..Len(names)
  BY <1>2, <1>4
<1>6. t.primary \in 1..Len(names) /\ names[t.primary] = td.primaryType
  <2>1. \E i \in DOMAIN names : names[i] = td.primaryType
    BY <1>4 DEF ToSet
  <2> QED BY <1>2, <1>3, <2>1
<1>7. <<>> \in Paths
  BY DEF Paths
<1>8. Fills(types, td.domain)[4][names[1]][<<>>] /\ Fills(types, td.message)[4][names[t.primary]][<<>>]
  BY <1>4, <1>6 DEF IsTypedData, Nested, EIP712_MAX_DEPTH
<1>9. a = writeStructValues(types, td.domain)[4][names[1]][<<>>] /\ b = writeStructValues(types, td.message)[4][names[t.primary]][<<>>]
  BY <1>4, <1>6 DEF DomainBytes, MessageBytes
<1> HIDE DEF t, a, b, types
<1>10. Octets(a) /\ Octets(b)
  <2>1. AllBytes(names, types, td.domain) /\ AllBytes(names, types, td.message)
    BY <1>1, WritesBytes
  <2> QED BY <1>5, <1>6, <1>7, <1>8, <1>9, <2>1 DEF AllBytes, Bounded
<1>11. Octets(t.values) /\ Len(t.values) = Len(a) + Len(b) /\ Len(a) \in Nat /\ Len(b) \in Nat
  BY <1>3, <1>10, OctetsJoin, Joined
<1>12. TreeOf(t, names, types)
  BY <1>1, <1>3, <1>11 DEF TreeOf
<1>13. Has(t.values, 1, a \o b)
  <2>1. Len(a \o b) = Len(t.values) /\ Len(t.values) \in Nat
    BY <1>3, <1>11
  <2>2. \A i \in 1..Len(a \o b) : t.values[1 + i - 1] = (a \o b)[i]
    BY <1>3, <2>1
  <2> HIDE <1>3
  <2> QED BY <2>1, <2>2 DEF Has
<1>14. Has(t.values, 1, a) /\ Has(t.values, 1 + Len(a), b)
  BY <1>13, HasParts
<1>15. parse_tlv_header(t)
  <2>1. /\ DOMAIN t.types = 1..Len(names)
        /\ \A i \in 1..Len(names) : t.types[i].name = names[i] /\ t.types[i].fields = types[names[i]]
    BY <1>12, TableRows
  <2>2. Len(t.types) = Len(names)
    BY <1>2, <1>3
  <2> DEFINE FieldLens(f) ==
        /\ Len(f) \in 1..EIP712_MAX_FIELDS_PER_TYPE
        /\ \A k \in DOMAIN f : /\ Len(f[k].name) \in 1..EIP712_MAX_NAME_LEN
                               /\ TypeLen(f[k].type) \in 1..EIP712_MAX_TYPE_LEN
  <2>3. \A n \in DOMAIN types : Len(n) \in 1..EIP712_MAX_NAME_LEN /\ FieldLens(types[n])
    BY DEF IsTypedData, types
  <2> HIDE DEF FieldLens
  <2>4. \A i \in DOMAIN t.types :
          Len(t.types[i].name) \in 1..EIP712_MAX_NAME_LEN /\ FieldLens(t.types[i].fields)
    BY <1>2, <2>1, <2>3
  <2>5. Len(t.types) \in 1..EIP712_MAX_TYPES
    BY <1>4, <2>2
  <2>6. t.types[1].name = "EIP712Domain" /\ t.primary \in DOMAIN t.types
    BY <1>4, <1>5, <1>6, <2>1
  <2> QED BY <2>4, <2>5, <2>6 DEF parse_tlv_header, FieldLens
<1>16. Written(t, names, types, td.domain, 1, 1)
  BY <1>5, <1>8, <1>9, <1>14 DEF Written
<1>17. Written(t, names, types, td.message, t.primary, 1 + Len(a))
  <2>1. 1 + Len(a) \in Int
    BY <1>11
  <2> QED BY <1>6, <1>8, <1>9, <1>14, <2>1 DEF Written
<1> QED BY <1>4, <1>5, <1>6, <1>11, <1>12, <1>15, <1>16, <1>17 DEF TreeKnown, t, a, b, types

\* The cartridge reads all of it: both parts end where they should.
WholeRead(t, td) ==
  WellFormed(t) /\ DomainEnd(t) = 1 + Len(DomainBytes(td)) /\ MessageEnd(t) = Len(t.values) + 1
LEMMA TreeWalked == ASSUME NEW t, NEW names, NEW td, TreeKnown(t, names, td) PROVE WholeRead(t, td)
<1> DEFINE types == td.types
           a == DomainBytes(td)
           b == MessageBytes(td)
           g == walk_struct(t)[4]
<1>1. TreeOf(t, names, types)
  BY DEF TreeKnown
<1>2. /\ WalksTo(t.values, names, Fills(types, td.domain)[4], writeStructValues(types, td.domain)[4], g)
      /\ WalksTo(t.values, names, Fills(types, td.message)[4], writeStructValues(types, td.message)[4], g)
  BY <1>1, AllWalked DEF Walked
<1>3. <<>> \in Paths
  BY DEF Paths
<1>4. g[1][1] = 1 + Len(a)
  <2>1. Written(t, names, types, td.domain, 1, 1) /\ names[1] = "EIP712Domain"
    BY DEF TreeKnown
  <2> QED BY <1>2, <1>3, <2>1 DEF Written, WalksTo, DomainBytes
<1>5. g[t.primary][1 + Len(a)] = 1 + Len(a) + Len(b)
  <2>1. Written(t, names, types, td.message, t.primary, 1 + Len(a)) /\ names[t.primary] = td.primaryType
    BY DEF TreeKnown
  <2> DEFINE p == 1 + Len(a)
             j == t.primary
             f == Fills(types, td.message)[4]
             w == writeStructValues(types, td.message)[4]
  <2>2. WalksTo(t.values, names, f, w, g)
    BY <1>2
  <2>3. j \in 1..Len(names) /\ p \in Int /\ f[names[j]][<<>>] /\ Has(t.values, p, w[names[j]][<<>>])
    BY <2>1 DEF Written
  <2>4. b = w[names[j]][<<>>]
    BY <2>1 DEF MessageBytes
  <2> HIDE DEF a, b, g, p, j, f, w
  <2>5. g[j][p] = p + Len(b)
    BY <1>3, <2>2, <2>3, <2>4 DEF WalksTo
  <2> QED BY <2>5 DEF p, j
<1>6. Len(a) \in Nat /\ Len(b) \in Nat /\ Len(t.values) = Len(a) + Len(b)
  BY Joined DEF TreeKnown
<1>7. DomainEnd(t) = 1 + Len(a)
  BY <1>4 DEF DomainEnd, EIP712_MAX_DEPTH
<1> HIDE DEF a, b
<1>8. DomainEnd(t) # Bad
  BY <1>6, <1>7 DEF Bad
<1>9. MessageEnd(t) = g[t.primary][DomainEnd(t)]
  BY <1>8 DEF MessageEnd, EIP712_MAX_DEPTH
<1>10. MessageEnd(t) = Len(t.values) + 1
  BY <1>5, <1>6, <1>7, <1>9
<1> QED BY <1>7, <1>10 DEF WholeRead, WellFormed, TreeKnown, a

\* The greatest of some numbers up to n is one of them.
LEMMA LastOne == ASSUME NEW n \in Nat, NEW S \in SUBSET (1..n), S # {} PROVE Max(S) \in S
<1> DEFINE D == {m \in Nat : n - m \in S}
<1>1. D # {}
  <2>1. PICK x : x \in S
    OBVIOUS
  <2>2. n - x \in Nat /\ n - (n - x) = x
    BY <2>1
  <2>3. n - x \in D
    BY <2>1, <2>2
  <2> QED BY <2>3
<1>2. D \in SUBSET Nat
  OBVIOUS
<1>3. PICK d \in D : \A m \in D : d <= m
  BY <1>1, <1>2, Least
<1>4. ASSUME NEW y \in S PROVE n - d >= y
  <2>1. n - y \in Nat /\ n - (n - y) = y /\ y \in Int
    OBVIOUS
  <2>2. n - y \in D
    BY <2>1
  <2>3. d <= n - y /\ d \in Int
    BY <1>3, <2>2
  <2> HIDE DEF D
  <2> QED BY <2>1, <2>3
<1>5. n - d \in S
  BY <1>3
<1>6. \E x \in S : \A y \in S : x >= y
  BY <1>4, <1>5
<1>7. Max(S) = CHOOSE x \in S : \A y \in S : x >= y
  BY Zenon DEF Max
<1> HIDE DEF D
<1> QED BY <1>6, <1>7, Zenon

\* Zeros on the left do not change a number.
LEMMA SameNumber ==
  ASSUME NEW n \in Nat, NEW v, Octets(v), Len(v) <= n
  PROVE  Canonical(LeftPad(v, n)) = Canonical(v)
<1> DEFINE u == LeftPad(v, n)
           m == n - Len(v)
<1>1. /\ Octets(u) /\ Len(u) = n /\ \A i \in 1..m : u[i] = 0
      /\ \A i \in 1..Len(v) : u[m + i] = v[i]
  BY Padded
<1>2. Str(v) /\ Str(u) /\ Len(v) \in Nat /\ m \in Nat /\ Len(u) = m + Len(v) /\ DOMAIN v = 1..Len(v) /\ DOMAIN u = 1..Len(u)
  BY <1>1 DEF Octets, Str
<1> HIDE DEF u, m
<1>3. CASE \A i \in 1..Len(v) : v[i] = 0
  <2>1. ASSUME NEW i \in 1..Len(u) PROVE u[i] = 0
    <3>1. CASE i <= m
      BY <1>1, <1>2, <3>1
    <3>2. CASE i > m
      <4>1. i - m \in 1..Len(v) /\ m + (i - m) = i
        BY <1>2, <3>2
      <4> QED BY <1>1, <1>3, <4>1
    <3> QED BY <1>2, <3>1, <3>2
  <2>2. {i \in DOMAIN u : u[i] # 0} = {} /\ {i \in DOMAIN v : v[i] # 0} = {}
    BY <1>2, <1>3, <2>1
  <2>3. Canonical(u) = <<>> /\ Canonical(v) = <<>>
    BY <2>2 DEF Canonical
  <2> QED BY <2>3 DEF u
<1>4. CASE \E i \in 1..Len(v) : v[i] # 0
  <2> DEFINE S == {i \in 1..Len(v) : v[i] # 0}
  <2>1. S \in SUBSET Nat /\ S # {}
    BY <1>2, <1>4
  <2>2. PICK k \in S : \A i \in S : k <= i
    BY <2>1, Least
  <2>3. k \in 1..Len(v) /\ v[k] # 0
    OBVIOUS
  <2>4. \A i \in 1..k - 1 : v[i] = 0
    BY <1>2, <2>2, <2>3
  <2> HIDE DEF S
  <2>5. Canonical(v) = SubSeq(v, k, Len(v))
    BY <1>2, <2>3, <2>4, CanonicalFrom
  <2> DEFINE j == m + k
  <2>6. j \in 1..Len(u) /\ u[j] # 0
    BY <1>1, <1>2, <2>3
  <2>7. ASSUME NEW i \in 1..j - 1 PROVE u[i] = 0
    <3>1. CASE i <= m
      BY <1>1, <1>2, <3>1
    <3>2. CASE i > m
      <4>1. i - m \in 1..Len(v) /\ i - m \in 1..k - 1 /\ m + (i - m) = i
        BY <1>2, <2>3, <3>2
      <4> QED BY <1>1, <2>4, <4>1
    <3> QED BY <1>2, <2>3, <3>1, <3>2
  <2>8. Canonical(u) = SubSeq(u, j, Len(u))
    <3> HIDE DEF j
    <3> QED BY <1>2, <2>6, <2>7, CanonicalFrom
  <2> DEFINE p == SubSeq(u, j, Len(u))
             q == SubSeq(v, k, Len(v))
             c == Len(v) - k + 1
  <2>9. c \in Nat /\ j \in Nat /\ j >= 1 /\ Len(u) - j + 1 = c
    BY <1>2, <2>3
  <2>10. p = [i \in 1..c |-> u[j + i - 1]] /\ q = [i \in 1..c |-> v[k + i - 1]]
    <3>1. q = [i \in 1..c |-> v[k + i - 1]]
      BY <1>2, <2>3
    <3> HIDE DEF j
    <3>2. p = [i \in 1..Len(u) - j + 1 |-> u[j + i - 1]]
      BY <1>2, <2>6
    <3> QED BY <2>9, <3>1, <3>2
  <2>11. ASSUME NEW i \in 1..c PROVE u[j + i - 1] = v[k + i - 1]
    <3>1. k + i - 1 \in 1..Len(v) /\ m + (k + i - 1) = j + i - 1
      BY <1>2, <2>3
    <3> HIDE DEF j, c
    <3> QED BY <1>1, <3>1
  <2> HIDE DEF j, c, p, q
  <2>12. p = q
    BY <2>10, <2>11
  <2> QED BY <2>5, <2>8, <2>12 DEF p, q, u, j
<1> QED BY <1>3, <1>4

\* The chain id that the cartridge takes from the tree is the one that was asked for.
ChainRead(t, td) == extract_domain_fields(t) = ChainOf(td)
LEMMA ChainKnown ==
  ASSUME NEW t, NEW names, NEW td, IsTypedData(td), TreeKnown(t, names, td)
  PROVE  ChainRead(t, td)
<1> DEFINE types == td.types
           dom == types["EIP712Domain"]
           n == Len(dom)
           chainId == [name |-> "chainId", type |-> <<"uint256">>]
           ids == {k \in 1..n : dom[k] = chainId}
           cf == Fills(types, td.domain)[3]
           cw == writeStructValues(types, td.domain)[3]
           ends == FieldEnds(t, walk_struct(t)[3], 1, 1)
           e == FieldBytes(types, td.domain, cw, "EIP712Domain", <<>>)
           F == FlattenSeq(e)
           v == td.domain[<<"chainId">>]
<1>1. /\ TreeOf(t, names, types) /\ 1 \in 1..Len(names) /\ names[1] = "EIP712Domain"
      /\ Written(t, names, types, td.domain, 1, 1)
  BY DEF TreeKnown
<1>2. "EIP712Domain" \in DOMAIN types /\ t.types[1].fields = dom
  BY <1>1, TableRows
<1>3. Fielded(types)
  BY <1>1 DEF TreeOf
<1>4. DOMAIN dom = 1..n /\ n \in Nat
  BY <1>2, <1>3 DEF Fielded, Str
<1>5. extract_domain_fields(t)
        = IF ids = {} THEN <<>> ELSE <<LowWord(Canonical(Slice(t.values, ends[Max(ids) - 1], 32)))>>
  BY <1>2, <1>4 DEF extract_domain_fields, EIP712_MAX_DEPTH
<1>6. chainId \in ToSet(dom) <=> ids # {}
  BY <1>4 DEF ToSet
<1>7. ChainOf(td) = IF ids # {} THEN <<LowWord(Canonical(v))>> ELSE <<>>
  BY <1>6 DEF ChainOf
<1>8. CASE ids = {}
  BY <1>5, <1>7, <1>8 DEF ChainRead
<1>9. CASE ids # {}
  <2> DEFINE k == Max(ids)
             h == Here(types, "EIP712Domain", k, <<>>)
  <2>1. k \in ids
    <3>1. ids \in SUBSET (1..n)
      OBVIOUS
    <3> HIDE DEF ids, n
    <3> QED BY <1>4, <1>9, <3>1, LastOne
  <2>2. k \in 1..n /\ dom[k].name = "chainId" /\ dom[k].type = <<"uint256">>
    <3> HIDE DEF k
    <3> QED BY <2>1
  <2>3. <<>> \in Paths
    BY DEF Paths
  <2>4. Append(<<>>, "chainId") = <<"chainId">>
    OBVIOUS
  <2>5. h = <<"chainId">> /\ Base(types, "EIP712Domain", k) = "uint256"
    BY <2>2, <2>4 DEF Here, Base
  <2>6. "uint256" \notin DOMAIN types
    <3>1. DOMAIN types \cap (DOMAIN Width \cup Dynamics) = {}
      BY DEF IsTypedData
    <3> QED BY <3>1, Widths
  <2>7. /\ FillsLevel(types, td.domain, cf)["EIP712Domain"][<<>>]
        /\ WriteLevel(types, td.domain, cw)["EIP712Domain"][<<>>] = F
        /\ Has(t.values, 1, F)
    <3>1. Fills(types, td.domain)[4] = FillsLevel(types, td.domain, cf)
      BY FillSteps
    <3>2. writeStructValues(types, td.domain)[4] = WriteLevel(types, td.domain, cw)
      BY WriteSteps
    <3>3. WriteLevel(types, td.domain, cw)["EIP712Domain"][<<>>] = F
      BY <1>2, <2>3 DEF WriteLevel
    <3> HIDE DEF cf, cw, F
    <3> QED BY <1>1, <3>1, <3>2, <3>3 DEF Written
  <2>8. PICK o : FieldsLie(t.values, e, n, ends, 1, o)
    <3>1. WalksTo(t.values, names, cf, cw, walk_struct(t)[3])
      BY <1>1, AllWalked DEF Walked
    <3> HIDE DEF cf, cw
    <3> QED BY <1>1, <2>3, <2>7, <3>1, FieldsRead, ZenonT(30)
  <2>9. Members(types, td.domain, cf, cw, "EIP712Domain", <<>>)
    BY <1>2, <1>3, <2>3, MemberByMember
  <2>10. e[k] = MemberBytes(types, td.domain, cw, "uint256", <<"chainId">>)
         /\ MemberFills(types, td.domain, cf, "uint256", <<"chainId">>)
    <3> HIDE DEF k, h
    <3> QED BY <2>2, <2>5, <2>7, <2>9 DEF Members, h
  <2>11. e[k] = writeValue("uint256", v) /\ IsValue("uint256", v)
    BY <2>6, <2>10 DEF MemberBytes, MemberFills
  <2>12. Has(t.values, ends[k - 1], e[k])
    <3> HIDE DEF k, e
    <3> QED BY <2>2, <2>8 DEF FieldsLie
  <2> HIDE DEF k, e, v, cf, cw, ends, ids, h
  <2>13. "uint256" \in DOMAIN Width /\ Width["uint256"] = 32 /\ "uint256" \notin Signed \cup LeftAligned \cup Dynamics
    BY Widths
  <2>14. writeValue("uint256", v) = LeftPad(v, 32)
    <3>1. writeValue("uint256", v) = ValueBytes("uint256", v)
      BY <2>13, Zenon DEF writeValue
    <3>2. ValueBytes("uint256", v) = LeftPad(v, Width["uint256"])
      BY <2>13, Zenon DEF ValueBytes
    <3> QED BY <2>13, <3>1, <3>2
  <2>15. Octets(v) /\ Len(v) <= 32
    <3>1. Octets(v)
      BY <2>11, ValueFits
    <3>2. Len(v) <= Width["uint256"]
      BY <2>11, <2>13 DEF IsValue
    <3> QED BY <2>13, <3>1, <3>2
  <2>16. Octets(LeftPad(v, 32)) /\ Len(LeftPad(v, 32)) = 32 /\ Canonical(LeftPad(v, 32)) = Canonical(v)
    BY <2>15, Padded, SameNumber, ZenonT(30)
  <2>17. Slice(t.values, ends[k - 1], 32) = LeftPad(v, 32)
    <3>1. Len(t.values) \in Nat /\ Str(LeftPad(v, 32)) /\ Has(t.values, ends[k - 1], LeftPad(v, 32))
      BY <1>1, <2>11, <2>12, <2>14, <2>16 DEF TreeOf, Octets, Str
    <3>2. Slice(t.values, ends[k - 1], Len(LeftPad(v, 32))) = LeftPad(v, 32)
      BY <3>1, SliceHas
    <3> QED BY <2>16, <3>2
  <2>18. extract_domain_fields(t) = <<LowWord(Canonical(Slice(t.values, ends[k - 1], 32)))>>
    BY <1>5, <1>9 DEF k
  <2> QED BY <1>7, <1>9, <2>16, <2>17, <2>18 DEF ChainRead
<1> QED BY <1>8, <1>9

\* What the cartridge makes of a tree: it is well formed, and its type strings fit
\* when those of what was asked do; both hashes are those of what was asked, the
\* domain names its chain, and the parsed view has a line for each value, as much of
\* it as a line holds.
ReadAsAsked(order, t, td) ==
  /\ WellFormed(t)
  /\ TypeStringsFit(order, t) <=> TypesFit(order, td)
  /\ our_domain_separator(order, t) = hashStruct(order, td.types, "EIP712Domain", td.domain)
  /\ our_message_hash(order, t) = hashStruct(order, td.types, td.primaryType, td.message)
  /\ extract_domain_fields(t) = ChainOf(td)
  /\ Nested(td, EIP712_MAX_DEPTH - 1) =>
       /\ build_parsed_lines(t).lines = Slice(AskedLines(td), 1, PARSED_MAX_LINES)
       /\ build_parsed_lines(t).overflow = (Len(AskedLines(td)) > PARSED_MAX_LINES)
\* For every typed data that can be asked for, and every order of its types, the
\* cartridge finds in the tree that the extension makes of it what was asked; it
\* accepts the tree if and only if every type string fits in EIP712_TYPESTR_MAX
\* bytes (serializeTypedDataTLV and hashStruct of eip712.ts, against eip712.c and
\* build_parsed_lines of confirm.c).
THEOREM TreeIsRead ==
  ASSUME NEW order, NEW td, IsTypedData(td), NEW names, IsTypeOrder(names, td)
  PROVE  ReadAsAsked(order, serializeTypedDataTLV(names, td), td)
<1> DEFINE t == serializeTypedDataTLV(names, td)
           types == td.types
           p == 1 + Len(DomainBytes(td))
<1>1. TreeKnown(t, names, td)
  BY TreeMade
<1> HIDE DEF t
<1>2. WellFormed(t) /\ DomainEnd(t) = p
  BY <1>1, TreeWalked DEF WholeRead
<1> HIDE DEF p
<1>3. /\ TreeOf(t, names, types) /\ names[1] = "EIP712Domain" /\ names[t.primary] = td.primaryType
      /\ Written(t, names, types, td.domain, 1, 1) /\ Written(t, names, types, td.message, t.primary, p)
      /\ t.primary \in 1..Len(names)
  BY <1>1 DEF TreeKnown, p
<1>4. our_domain_separator(order, t) = hashStruct(order, types, "EIP712Domain", td.domain)
  <2>1. TopHash(order, t, names, types, td.domain, 1, 1)
    BY <1>3, TopHashed
  <2> QED BY <1>3, <2>1 DEF TopHash, our_domain_separator
<1>5. our_message_hash(order, t) = hashStruct(order, types, td.primaryType, td.message)
  <2>1. TopHash(order, t, names, types, td.message, t.primary, p)
    BY <1>3, TopHashed
  <2> QED BY <1>2, <1>3, <2>1 DEF TopHash, our_message_hash
<1>6. extract_domain_fields(t) = ChainOf(td)
  BY <1>1, ChainKnown DEF ChainRead
<1>7. ASSUME Nested(td, EIP712_MAX_DEPTH - 1)
      PROVE  /\ build_parsed_lines(t).lines = Slice(AskedLines(td), 1, PARSED_MAX_LINES)
             /\ build_parsed_lines(t).overflow = (Len(AskedLines(td)) > PARSED_MAX_LINES)
  <2> DEFINE all(a, name, b) == <<push_line(0, "Domain", Title)>> \o a
                                \o <<BlankLine, push_line(0, name, Title)>> \o b
             a == Asked(types, td.domain)["EIP712Domain"][<<>>]
             b == Asked(types, td.message)[td.primaryType][<<>>]
  <2>1. EIP712_MAX_DEPTH - 1 = 3
    BY DEF EIP712_MAX_DEPTH
  <2>2. Fills(types, td.domain)[3][names[1]][<<>>] /\ Fills(types, td.message)[3][names[t.primary]][<<>>]
    BY <1>3, <1>7, <2>1 DEF Nested
  <2>3. TopLines(t, names, types, td.domain, 1, 1) /\ TopLines(t, names, types, td.message, t.primary, p)
    BY <1>3, <2>2, TopListed
  <2>4. LinesOf(t, 1, 1) = a /\ LinesOf(t, t.primary, DomainEnd(t)) = b
    BY <1>2, <1>3, <2>3 DEF TopLines
  <2>5. t.types[t.primary].name = td.primaryType
    BY <1>3, TableRows
  <2>6. AskedLines(td) = all(a, td.primaryType, b)
    BY DEF AskedLines
  <2>7. build_parsed_lines(t)
          = [lines |-> Slice(all(LinesOf(t, 1, 1), t.types[t.primary].name, LinesOf(t, t.primary, DomainEnd(t))),
                             1, PARSED_MAX_LINES),
             overflow |-> Len(all(LinesOf(t, 1, 1), t.types[t.primary].name, LinesOf(t, t.primary, DomainEnd(t))))
                            > PARSED_MAX_LINES]
    BY DEF build_parsed_lines, Listed
  <2> HIDE DEF all, a, b
  <2>8. build_parsed_lines(t) = [lines |-> Slice(AskedLines(td), 1, PARSED_MAX_LINES),
                                 overflow |-> Len(AskedLines(td)) > PARSED_MAX_LINES]
    BY <2>4, <2>5, <2>6, <2>7
  <2> QED BY <2>8
<1>8. TypeStringsFit(order, t) <=> TypesFit(order, td)
  <2>1. 1 \in 1..Len(names)
    BY <1>1 DEF TreeKnown
  <2> QED BY <1>3, <2>1, SizesAgree
<1> QED BY <1>2, <1>4, <1>5, <1>6, <1>7, <1>8 DEF ReadAsAsked, t
=============================================================================
