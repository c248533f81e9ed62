----------------------------- MODULE CodecProofs -----------------------------
(* Theorems about the RLP codec, for payloads of any bytes: what the        *)
(* decoder accepts lies in the payload, and a transaction that the          *)
(* extension encodes is read back field by field.                           *)
EXTENDS HostTx, TLAPS, FiniteSetTheorems, WellFoundedInduction

(*************************************************************************)
(* Numbers.                                                              *)
(*************************************************************************)
\* The greatest of some numbers, where there is one.
LEMMA Greatest ==
  ASSUME NEW S, S \subseteq Int, NEW k \in S, \A j \in S : j <= k
  PROVE  Max(S) = k
<1>1. \E x \in S : \A y \in S : x >= y
  OBVIOUS
<1>2. Max(S) \in S /\ \A y \in S : Max(S) >= y
  BY <1>1 DEF Max
<1>3. Max(S) \in Int /\ k \in Int
  BY <1>2
<1>4. Max(S) <= k /\ Max(S) >= k
  BY <1>2
<1> QED BY <1>3, <1>4
(*************************************************************************)
(* Sequences that are put together.                                      *)
(*************************************************************************)
\* Where the elements of two sequences are when one follows the other.
LEMMA Joined ==
  ASSUME NEW a, NEW b
  PROVE  /\ Len(a) \in Nat /\ Len(b) \in Nat /\ Len(a \o b) = Len(a) + Len(b)
         /\ DOMAIN (a \o b) = 1..Len(a) + Len(b)
         /\ \A i \in 1..Len(a) : (a \o b)[i] = a[i]
         /\ \A i \in 1..Len(b) : (a \o b)[Len(a) + i] = b[i]
  OBVIOUS

\* The smaller of two integers is one of them.
LEMMA Smaller == ASSUME NEW a \in Int, NEW b \in Int PROVE Min({a, b}) = IF a <= b THEN a ELSE b
<1>1. CASE a <= b
  BY <1>1 DEF Min
<1>2. CASE ~(a <= b)
  BY <1>2 DEF Min
<1> QED BY <1>1, <1>2

\* The larger of two integers is one of them.
LEMMA Larger == ASSUME NEW a \in Int, NEW b \in Int PROVE Max({a, b}) = IF a >= b THEN a ELSE b
<1>1. CASE a >= b
  BY <1>1 DEF Max
<1>2. CASE ~(a >= b)
  BY <1>2 DEF Max
<1> QED BY <1>1, <1>2

(*************************************************************************)
(* Induction on the natural numbers, by sets of them.                    *)
(*************************************************************************)
\* The order of the natural numbers is well founded.
Before == {p \in Nat \X Nat : p[1] < p[2]}
\* No set of numbers goes down for ever.
LEMMA NatOrder == IsWellFoundedOn(Before, Nat)
  BY NatLessThanWellFounded DEF OpToRel, Before

\* Some natural numbers have a least one.
LEMMA Least == ASSUME NEW S \in SUBSET Nat, S # {} PROVE \E n \in S : \A m \in S : n <= m
<1>1. S \subseteq Nat
  OBVIOUS
<1>2. \E x \in S : \A y \in S : ~ (<<y, x>> \in Before)
  BY <1>1, NatOrder, WFMin, Zenon
<1>3. PICK n \in S : \A m \in S : ~(<<m, n>> \in Before)
  BY <1>2
<1>4. ASSUME NEW m \in S PROVE n <= m
  <2>1. m \in Nat /\ n \in Nat /\ <<m, n>> \notin Before
    BY <1>3
  <2>2. ~(m < n)
    BY <2>1 DEF Before
  <2> QED BY <2>1, <2>2
<1> QED BY <1>4

\* A set that has 0 and, with a number, the next one has them all.
LEMMA SetInduction ==
  ASSUME NEW S, 0 \in S, \A n \in Nat : n \in S => n + 1 \in S
  PROVE  Nat \subseteq S
<1> SUFFICES ASSUME Nat \ S # {} PROVE FALSE
  OBVIOUS
<1>1. PICK n \in Nat \ S : \A m \in Nat \ S : n <= m
  BY Least
<1>2. n - 1 \in Nat /\ n - 1 \notin Nat \ S
  BY <1>1
<1> QED BY <1>1, <1>2

(*************************************************************************)
(* What the RLP decoder reads.                                           *)
(*************************************************************************)
\* The bytes of a payload: what a stretch of one is again.
Str(b) == Len(b) \in Nat /\ b = [i \in 1..Len(b) |-> b[i]]
Octets(b) == Str(b) /\ \A i \in 1..Len(b) : b[i] \in Byte

\* A stretch of a sequence, wherever it begins and however long it is.
LEMMA Stretch ==
  ASSUME NEW b, Len(b) \in Nat, NEW from \in Int, NEW len \in Int
  PROVE  /\ Str(Slice(b, from, len))
         /\ from >= 1 => \A i \in 1..Len(Slice(b, from, len)) :
                           /\ from + i - 1 \in 1..Len(b)
                           /\ Slice(b, from, len)[i] = b[from + i - 1]
         /\ from >= 1 /\ len \in Nat /\ from + len <= Len(b) + 1 => Len(Slice(b, from, len)) = len
<1> DEFINE last == Min({from + len - 1, Len(b)})
           s == SubSeq(b, from, last)
<1>1. last = IF from + len - 1 <= Len(b) THEN from + len - 1 ELSE Len(b)
  BY Smaller
<1>2. Slice(b, from, len) = s
  BY DEF Slice
<1> HIDE DEF last
<1>3. last \in Int /\ last <= Len(b)
  BY <1>1
<1>4. s = [i \in 1..last - from + 1 |-> b[from + i - 1]]
  BY <1>3
<1>5. Len(s) = IF last - from + 1 >= 0 THEN last - from + 1 ELSE 0
  BY <1>3
<1>6. 1..last - from + 1 = 1..Len(s)
  BY <1>3, <1>5
<1> HIDE DEF s
<1>7. Len(s) \in Nat
  BY <1>3, <1>5
<1>8. Str(s)
  BY <1>4, <1>6, <1>7 DEF Str
<1>9. ASSUME from >= 1, NEW i \in 1..Len(s) PROVE from + i - 1 \in 1..Len(b) /\ s[i] = b[from + i - 1]
  <2>1. i \in 1..last - from + 1
    BY <1>6
  <2>2. s[i] = b[from + i - 1]
    BY <1>4, <2>1
  <2>3. from + i - 1 \in 1..Len(b)
    BY <1>3, <1>9, <2>1
  <2> QED BY <2>2, <2>3
<1>10. from >= 1 /\ len \in Nat /\ from + len <= Len(b) + 1 => Len(s) = len
  BY <1>1, <1>5
<1> QED BY <1>2, <1>8, <1>9, <1>10

\* A number that is read is one.
Shifted(v, c) == Min({256 * v + c, Huge})
ReadTo(s, g, n) == g = [i \in 0..n |-> IF i = 0 THEN 0 ELSE Shifted(g[i - 1], s[i])]
\* read_be goes byte by byte.
LEMMA ReadSteps == ASSUME NEW s, Len(s) \in Nat PROVE \E f : ReadTo(s, f, Len(s)) /\ read_be(s) = f[Len(s)]
<1>1. \E g : ReadTo(s, g, Len(s))
  <2> DEFINE S == {n \in Nat : \E g : ReadTo(s, g, n)}
  <2>1. 0 \in S
    <3>1. ReadTo(s, [i \in 0..0 |-> 0], 0)
      BY DEF ReadTo
    <3> QED BY <3>1
  <2>2. ASSUME NEW n \in Nat, n \in S PROVE n + 1 \in S
    <3>1. PICK g : ReadTo(s, g, n)
      BY <2>2
    <3> DEFINE h == [i \in 0..n + 1 |-> IF i <= n THEN g[i] ELSE Shifted(g[n], s[n + 1])]
    <3>2. ASSUME NEW i \in 0..n + 1 PROVE h[i] = IF i = 0 THEN 0 ELSE Shifted(h[i - 1], s[i])
      <4>1. CASE i <= n
        BY <3>1, <4>1 DEF ReadTo
      <4>2. CASE i = n + 1
        <5>1. h[i] = Shifted(g[n], s[n + 1]) /\ h[i - 1] = g[n] /\ i # 0
          BY <4>2
        <5> QED BY <4>2, <5>1
      <4> QED BY <4>1, <4>2
    <3>3. ReadTo(s, h, n + 1)
      BY <3>2 DEF ReadTo
    <3> QED BY <3>3
  <2>3. Nat \subseteq S
    <3> HIDE DEF S
    <3> QED BY <2>1, <2>2, SetInduction
  <2> QED BY <2>3
<1> DEFINE f == CHOOSE g : ReadTo(s, g, Len(s))
<1>2. read_be(s) = f[Len(s)]
  BY DEF read_be, ReadTo, Shifted
<1>3. ReadTo(s, f, Len(s))
  BY <1>1
<1> QED BY <1>2, <1>3

\* read_be gives a number for the bytes of one.
LEMMA ReadsNumber == ASSUME NEW s, Len(s) \in Nat, \A i \in 1..Len(s) : s[i] \in Int PROVE read_be(s) \in Int
<1>3. PICK f : ReadTo(s, f, Len(s)) /\ read_be(s) = f[Len(s)]
  BY ReadSteps
<1>4. \A n \in Nat : n <= Len(s) => f[n] \in Int
  <2> DEFINE S == {n \in Nat : n <= Len(s) => f[n] \in Int}
  <2>1. 0 \in S
    BY <1>3 DEF ReadTo
  <2>2. ASSUME NEW n \in Nat, n \in S PROVE n + 1 \in S
    <3> SUFFICES ASSUME n + 1 <= Len(s) PROVE f[n + 1] \in Int
      OBVIOUS
    <3>1. f[n + 1] = Shifted(f[n], s[n + 1]) /\ f[n] \in Int /\ s[n + 1] \in Int
      BY <1>3, <2>2 DEF ReadTo
    <3> DEFINE v == 256 * f[n] + s[n + 1]
    <3>2. v \in Int /\ Huge \in Int
      BY <3>1 DEF Huge
    <3>3. f[n + 1] = Min({v, Huge})
      BY <3>1 DEF Shifted
    <3> HIDE DEF v
    <3> QED BY <3>2, <3>3, Smaller
  <2>3. Nat \subseteq S
    <3> HIDE DEF S
    <3> QED BY <2>1, <2>2, SetInduction
  <2> QED BY <2>3
<1> QED BY <1>3, <1>4

\* A byte is a number.
LEMMA SmallIsByte == ASSUME NEW v \in Nat, v < 256 PROVE v \in Byte
  BY DEF Byte
LEMMA ByteIsNumber == ASSUME NEW v \in Byte PROVE v \in 0..255 /\ v \in Int
  BY DEF Byte
\* So the bytes of a payload are.
LEMMA OctetsAreNumbers ==
  ASSUME NEW b, Octets(b)
  PROVE  Len(b) \in Nat /\ \A i \in 1..Len(b) : b[i] \in Int
<1>1. \A i \in 1..Len(b) : b[i] \in Byte
  BY DEF Octets
<1>2. ASSUME NEW i \in 1..Len(b) PROVE b[i] \in Int
  BY <1>1, ByteIsNumber
<1>3. Len(b) \in Nat
  BY DEF Octets, Str
<1> QED BY <1>2, <1>3

\* What is known of an item that is decoded: where its bytes are, and that they
\* come after its first byte p and not after the last one.
Within(x, p, last) ==
  x.ok => x.from \in Int /\ x.len \in Nat /\ x.from >= 1 /\ x.from + x.len > p /\ x.from + x.len <= last + 1
\* rlp_decode_item: an item that it accepts lies within the bytes it was given.
LEMMA ItemWithin ==
  ASSUME NEW b, Octets(b), NEW p \in Int, p >= 1, NEW last \in Int, last <= Len(b)
  PROVE  Within(rlp_decode_item(b, p, last), p, last)
<1> DEFINE list == b[p] >= 192
           size == b[p] - (IF list THEN 192 ELSE 128)
           lol  == Max({0, size - 55})
           len  == IF lol = 0 THEN size ELSE read_be(Slice(b, p + 1, lol))
           left == last - p - lol
           bad == \/ left < 0
                  \/ lol > 0 /\ (b[p + 1] = 0 \/ len <= 55)
                  \/ len > left
                  \/ ~list /\ lol = 0 /\ len = 1 /\ b[p + 1] <= 127
           x == rlp_decode_item(b, p, last)
<1>1. x = IF p > last THEN NoItem ELSE IF b[p] <= 127 THEN Item(FALSE, p, 1)
          ELSE IF bad THEN NoItem ELSE Item(list, p + 1 + lol, len)
  BY DEF rlp_decode_item
<1> SUFFICES Within(x, p, last)
  OBVIOUS
<1> HIDE DEF x, bad
<1>5. NoItem.ok = FALSE
  BY DEF NoItem
<1>6. \A l, from, n : Item(l, from, n).from = from /\ Item(l, from, n).len = n
  BY DEF Item
<1>2. CASE p > last
  <2>1. x = NoItem
    BY <1>1, <1>2, Zenon
  <2> QED BY <1>5, <2>1 DEF Within
<1>3. CASE ~(p > last) /\ b[p] <= 127
  <2>1. x = Item(FALSE, p, 1)
    BY <1>1, <1>3, Zenon
  <2>2. x.from = p /\ x.len = 1
    BY <2>1 DEF Item
  <2> QED BY <1>3, <2>2 DEF Within
<1>4. CASE ~(p > last) /\ ~(b[p] <= 127)
  <2>1. b[p] \in 0..255 /\ p + 1 \in Int
    BY <1>4 DEF Octets, Byte, Str
  <2>2. size \in 0..255
    <3> DEFINE c == b[p]
    <3>1. c >= 192 => size = c - 192
      OBVIOUS
    <3>2. ~(c >= 192) => size = c - 128
      OBVIOUS
    <3>3. c \in 0..255 /\ ~(c <= 127)
      BY <1>4, <2>1
    <3> HIDE DEF c, size, list
    <3>4. CASE c >= 192
      BY <3>1, <3>3, <3>4
    <3>5. CASE ~(c >= 192)
      BY <3>2, <3>3, <3>5
    <3> QED BY <3>4, <3>5
  <2>3. lol \in Nat
    <3> HIDE DEF size
    <3>1. 0 \in Int /\ size - 55 \in Int
      BY <2>2
    <3> QED BY <3>1, Larger
  <2>4. len \in Int /\ (lol = 0 => len >= 0)
    <3>1. CASE lol = 0
      <4>1. len = size
        BY <3>1
      <4> HIDE DEF size, len
      <4> QED BY <2>2, <4>1
    <3>2. CASE lol # 0
      <4>1. len = read_be(Slice(b, p + 1, lol))
        BY <3>2
      <4> DEFINE s == Slice(b, p + 1, lol)
      <4>2. Len(b) \in Nat /\ p + 1 >= 1 /\ lol \in Int
        BY <2>3 DEF Octets, Str
      <4> HIDE DEF lol
      <4>3. Str(s) /\ \A i \in 1..Len(s) : (p + 1) + i - 1 \in 1..Len(b) /\ s[i] = b[(p + 1) + i - 1]
        BY <2>1, <4>2, Stretch
      <4> HIDE DEF s
      <4>4. \A i \in 1..Len(s) : s[i] \in Int
        BY <4>3, OctetsAreNumbers
      <4>5. read_be(s) \in Int
        BY <4>3, <4>4, ReadsNumber DEF Str
      <4> QED BY <3>2, <4>1, <4>5 DEF s
    <3> QED BY <3>1, <3>2
  <2> HIDE DEF list, size, lol, len
  <2>5. CASE bad
    <3>1. x = NoItem
      BY <1>1, <1>4, <2>5, Zenon
    <3> QED BY <1>5, <3>1 DEF Within
  <2>6. CASE ~bad
    <3>1. x = Item(list, p + 1 + lol, len)
      BY <1>1, <1>4, <2>6, Zenon
    <3>2. left >= 0 /\ len <= left
      BY <2>3, <2>4, <2>6 DEF bad
    <3>3. len >= 0
      BY <2>3, <2>4, <2>6 DEF bad
    <3>4. x.from = p + 1 + lol /\ x.len = len
      BY <1>6, <3>1, ZenonT(30)
    <3>5. left = last - p - lol
      OBVIOUS
    <3> HIDE DEF left
    <3> QED BY <2>3, <2>4, <3>2, <3>3, <3>4, <3>5 DEF Within
  <2> QED BY <2>5, <2>6
<1> QED BY <1>2, <1>3, <1>4 DEF Octets, Str

\* The items of a list from position p on, given those from later positions on.
ItemsFrom(b, last, p, g) ==
  IF p > last THEN <<>>
  ELSE LET x == rlp_decode_item(b, p, last) IN
       IF x.ok THEN <<x>> \o g[x.from + x.len] ELSE <<NoItem>>
Iterated(b, last, D, g) == g = [p \in D |-> ItemsFrom(b, last, p, g)]
Items(s) ==
  /\ Len(s) \in Nat
  /\ \A i \in 1..Len(s) : s[i].ok => s[i].from \in Int /\ s[i].len \in Nat /\ s[i].from >= 1

\* Two functions agree from position p on, p left out.
AgreeAfter(g, h, p, last) == \A q \in p + 1..last + 1 : g[q] = h[q]
\* An item is followed by the items after it, whatever is known of later ones.
LEMMA ItemsAfter ==
  ASSUME NEW b, Octets(b), NEW last \in Int, last <= Len(b), NEW p \in Int, p >= 1, p <= last + 1,
         NEW g, NEW h, AgreeAfter(g, h, p, last)
  PROVE  ItemsFrom(b, last, p, g) = ItemsFrom(b, last, p, h)
<1> DEFINE x == rlp_decode_item(b, p, last)
<1>1. Within(x, p, last)
  BY ItemWithin
<1> HIDE DEF x
<1>2. x.ok => g[x.from + x.len] = h[x.from + x.len]
  BY <1>1 DEF Within, AgreeAfter
<1>3. \A k : ItemsFrom(b, last, p, k) =
               IF p > last THEN <<>> ELSE IF x.ok THEN <<x>> \o k[x.from + x.len] ELSE <<NoItem>>
  BY DEF ItemsFrom, x
<1> QED BY <1>2, <1>3

\* The last n positions of lo..last + 1, and the one after them.
Late(lo, last, n) == {p \in lo..last + 1 : p >= last + 1 - n}
\* rlp_iter is a function of where it starts, for the positions of a list that
\* lies within b, by induction on how far from the end they are.
LEMMA Iterates ==
  ASSUME NEW b, Octets(b), NEW list, list.from \in Int, list.from >= 1, list.len \in Nat,
         list.from + list.len <= Len(b) + 1
  PROVE  \E f : /\ Iterated(b, list.from + list.len - 1, list.from..list.from + list.len, f)
                /\ rlp_iter(b, list) = f[list.from]
<1> DEFINE lo == list.from
           last == list.from + list.len - 1
<1>1. lo \in Int /\ last \in Int /\ lo >= 1 /\ last <= Len(b) /\ lo <= last + 1
  <2>1. Len(b) \in Nat
    BY DEF Octets, Str
  <2> QED BY <2>1
<1> HIDE DEF lo, last
<1>2. \A n \in Nat : \E g : Iterated(b, last, Late(lo, last, n), g)
  <2> DEFINE S == {n \in Nat : \E g : Iterated(b, last, Late(lo, last, n), g)}
  <2>1. 0 \in S
    <3>1. \A p \in Late(lo, last, 0) : p > last
      BY <1>1 DEF Late
    <3>2. Iterated(b, last, Late(lo, last, 0), [p \in Late(lo, last, 0) |-> <<>>])
      BY <3>1 DEF Iterated, ItemsFrom
    <3> QED BY <3>2
  <2>2. ASSUME NEW n \in Nat, n \in S PROVE n + 1 \in S
    <3>1. PICK g : Iterated(b, last, Late(lo, last, n), g)
      BY <2>2
    <3> DEFINE h == [p \in Late(lo, last, n + 1) |-> IF p \in Late(lo, last, n) THEN g[p] ELSE ItemsFrom(b, last, p, g)]
    <3>2. ASSUME NEW p \in Late(lo, last, n + 1) PROVE h[p] = ItemsFrom(b, last, p, h)
      <4>1. p \in Int /\ p >= lo /\ p <= last + 1 /\ p >= last + 1 - (n + 1)
        BY <1>1 DEF Late
      <4>2. \A q \in p + 1..last + 1 : q \in Late(lo, last, n) /\ q \in Late(lo, last, n + 1)
        BY <1>1, <4>1 DEF Late
      <4>3. AgreeAfter(g, h, p, last)
        BY <4>2 DEF AgreeAfter
      <4>4. h[p] = ItemsFrom(b, last, p, g)
        BY <3>1 DEF Iterated
      <4> HIDE DEF h
      <4>5. p >= 1
        BY <1>1, <4>1
      <4>6. ItemsFrom(b, last, p, g) = ItemsFrom(b, last, p, h)
        BY <1>1, <4>1, <4>3, <4>5, ItemsAfter
      <4> QED BY <4>4, <4>6
    <3>3. Iterated(b, last, Late(lo, last, n + 1), h)
      BY <3>2 DEF Iterated
    <3> HIDE DEF h
    <3> QED BY <3>3
  <2>3. Nat \subseteq S
    <3> HIDE DEF S
    <3> QED BY <2>1, <2>2, SetInduction
  <2> QED BY <2>3
<1>3. Late(lo, last, last + 1 - lo) = lo..last + 1 /\ last + 1 - lo \in Nat
  BY <1>1 DEF Late
<1>4. \E g : Iterated(b, last, lo..last + 1, g)
  BY <1>2, <1>3
<1> DEFINE f == CHOOSE g : Iterated(b, last, lo..last + 1, g)
<1>5. rlp_iter(b, list) = f[lo]
  BY DEF rlp_iter, Iterated, ItemsFrom, lo, last
<1>6. Iterated(b, last, lo..last + 1, f)
  BY <1>4
<1>7. last + 1 = list.from + list.len
  BY DEF last
<1> QED BY <1>5, <1>6, <1>7 DEF lo, last

\* rlp_iter: the items of a list that lies within b do, too.
LEMMA ItemsTyped ==
  ASSUME NEW b, Octets(b), NEW list, list.from \in Int, list.from >= 1, list.len \in Nat,
         list.from + list.len <= Len(b) + 1
  PROVE  Items(rlp_iter(b, list))
<1> DEFINE lo == list.from
           last == list.from + list.len - 1
<1>1. lo \in Int /\ last \in Int /\ lo >= 1 /\ last <= Len(b) /\ lo <= last + 1
  <2>1. Len(b) \in Nat
    BY DEF Octets, Str
  <2> QED BY <2>1
<1>2. last + 1 = list.from + list.len
  OBVIOUS
<1>6. PICK f : Iterated(b, last, lo..last + 1, f) /\ rlp_iter(b, list) = f[lo]
  BY <1>2, Iterates
<1> HIDE DEF lo, last
<1>3. Late(lo, last, last + 1 - lo) = lo..last + 1 /\ last + 1 - lo \in Nat
  BY <1>1 DEF Late
<1>7. \A n \in Nat : \A p \in Late(lo, last, n) : Items(f[p])
  <2> DEFINE S == {n \in Nat : \A p \in Late(lo, last, n) : Items(f[p])}
  <2>1. 0 \in S
    <3>1. ASSUME NEW p \in Late(lo, last, 0) PROVE Items(f[p])
      <4>1. p \in lo..last + 1 /\ p > last
        BY <1>1 DEF Late
      <4>2. f[p] = <<>>
        BY <1>6, <4>1 DEF Iterated, ItemsFrom
      <4> QED BY <4>2 DEF Items
    <3> QED BY <3>1
  <2>2. ASSUME NEW n \in Nat, n \in S PROVE n + 1 \in S
    <3>1. ASSUME NEW p \in Late(lo, last, n + 1) PROVE Items(f[p])
      <4> DEFINE x == rlp_decode_item(b, p, last)
      <4>1. p \in Int /\ p >= lo /\ p <= last + 1 /\ p >= last + 1 - (n + 1) /\ p \in lo..last + 1
        BY <1>1 DEF Late
      <4>2. Within(x, p, last)
        BY <1>1, <4>1, ItemWithin
      <4>3. f[p] = IF p > last THEN <<>> ELSE IF x.ok THEN <<x>> \o f[x.from + x.len] ELSE <<NoItem>>
        BY <1>6, <4>1 DEF Iterated, ItemsFrom
      <4> HIDE DEF x
      <4>4. CASE x.ok /\ ~(p > last)
        <5> DEFINE rest == f[x.from + x.len]
        <5>1. x.from + x.len \in Late(lo, last, n)
          BY <1>1, <4>1, <4>2, <4>4, SMTT(30) DEF Within, Late
        <5>2. Items(rest)
          BY <2>2, <5>1
        <5>3. f[p] = <<x>> \o rest
          BY <4>3, <4>4
        <5> HIDE DEF rest
        <5>4. Len(f[p]) = 1 + Len(rest) /\ f[p][1] = x /\ \A i \in 1..Len(rest) : f[p][1 + i] = rest[i]
          BY <5>2, <5>3 DEF Items
        <5>5. ASSUME NEW i \in 1..Len(f[p]), f[p][i].ok
              PROVE  f[p][i].from \in Int /\ f[p][i].len \in Nat /\ f[p][i].from >= 1
          <6>1. CASE i = 1
            BY <4>2, <4>4, <5>4, <6>1 DEF Within
          <6>2. CASE i # 1
            <7>1. i - 1 \in 1..Len(rest) /\ 1 + (i - 1) = i
              BY <5>2, <5>4, <6>2 DEF Items
            <7>2. f[p][i] = rest[i - 1]
              BY <5>4, <7>1
            <7> QED BY <5>2, <5>5, <7>1, <7>2 DEF Items
          <6> QED BY <6>1, <6>2
        <5>6. Len(f[p]) \in Nat
          BY <5>2, <5>4 DEF Items
        <5> HIDE DEF lo, last
        <5> QED BY <5>5, <5>6 DEF Items
      <4>5. CASE ~(x.ok /\ ~(p > last))
        <5>1. f[p] \in {<<>>, <<NoItem>>}
          BY <4>3, <4>5
        <5>2. NoItem.ok = FALSE
          BY DEF NoItem
        <5> QED BY <5>1, <5>2 DEF Items
      <4> QED BY <4>4, <4>5
    <3> QED BY <3>1
  <2>3. Nat \subseteq S
    <3> HIDE DEF S
    <3> QED BY <2>1, <2>2, SetInduction
  <2> QED BY <2>3
<1>8. lo \in Late(lo, last, last + 1 - lo)
  BY <1>1, <1>3 DEF Late
<1> QED BY <1>3, <1>6, <1>7, <1>8

\* The bytes of an item.
LEMMA ItemBytes ==
  ASSUME NEW b, Octets(b), NEW s, Items(s), NEW i \in 1..Len(s), s[i].ok
  PROVE  Str(Bytes(b, s[i]))
<1>1. s[i].from \in Int /\ s[i].len \in Int /\ Len(b) \in Nat
  BY DEF Items, Octets, Str
<1> QED BY <1>1, Stretch DEF Bytes

\* The data of a transaction is a stretch of the payload.
LEMMA DataIsBytes ==
  ASSUME NEW b, Octets(b), eth_tx_decode(b).ok
  PROVE  Str(eth_tx_decode(b).data)
<1> DEFINE start == IF b # <<>> /\ b[1] = 2 THEN 2 ELSE 1
           list == rlp_decode_item(b, start, Len(b))
           f == rlp_iter(b, list)
           tx == eth_tx_decode(b)
<1>1. tx = IF list.ok /\ list.list THEN IF start = 2 THEN decode_1559_body(b, f) ELSE decode_legacy(b, f)
           ELSE Malformed
  BY DEF eth_tx_decode
<1> HIDE DEF tx
<1>2. Malformed.ok = FALSE
  BY DEF Malformed
<1>3. tx.ok
  BY DEF tx
<1>4. list.ok /\ tx \in {decode_1559_body(b, f), decode_legacy(b, f)}
  BY <1>1, <1>2, <1>3
<1>5. Len(b) \in Nat /\ start \in {1, 2}
  BY DEF Octets, Str
<1> HIDE DEF start
<1>6. Within(list, start, Len(b))
  BY <1>5, ItemWithin
<1> HIDE DEF list
<1>7. Items(f)
  BY <1>4, <1>6, ItemsTyped DEF Within
<1> HIDE DEF f
<1>8. \E i \in 1..Len(f) : f[i].ok /\ tx.data = Bytes(b, f[i])
  <2>1. CASE tx = decode_1559_body(b, f)
    <3>1. /\ Len(f) = 9 /\ \A i \in 1..9 : f[i].ok
      BY <1>2, <1>3, <2>1 DEF decode_1559_body
    <3>2. tx.data = Bytes(b, f[8])
      BY <1>2, <1>3, <2>1 DEF decode_1559_body, Common
    <3> QED BY <3>1, <3>2
  <2>2. CASE tx = decode_legacy(b, f)
    <3>1. /\ Len(f) \in {6, 9} /\ \A i \in DOMAIN f : f[i].ok
      BY <1>2, <1>3, <2>2 DEF decode_legacy
    <3>2. tx.data = Bytes(b, f[6])
      BY <1>2, <1>3, <2>2 DEF decode_legacy, Common
    <3> QED BY <3>1, <3>2
  <2> QED BY <1>4, <2>1, <2>2
<1> QED BY <1>7, <1>8, ItemBytes DEF tx

(*************************************************************************)
(* What the extension encodes is read back.                              *)
(*************************************************************************)
\* The bytes s are those of b from position p on.
Has(b, p, s) == p \in Int /\ p >= 1 /\ p + Len(s) <= Len(b) + 1 /\ \A i \in 1..Len(s) : b[p + i - 1] = s[i]

\* Two sequences with the same elements are the same.
LEMMA SameStr ==
  ASSUME NEW s, Str(s), NEW t, Str(t), Len(s) = Len(t), \A i \in 1..Len(s) : s[i] = t[i]
  PROVE  s = t
  BY DEF Str

\* A stretch of the payload that holds s is s.
LEMMA SliceHas ==
  ASSUME NEW b, Len(b) \in Nat, NEW p, NEW s, Str(s), Has(b, p, s)
  PROVE  Slice(b, p, Len(s)) = s
<1> DEFINE t == Slice(b, p, Len(s))
<1>1. p \in Int /\ p >= 1 /\ p + Len(s) <= Len(b) + 1 /\ Len(s) \in Nat
  BY DEF Has, Str
<1>2. /\ Str(t) /\ Len(t) = Len(s)
      /\ \A i \in 1..Len(t) : t[i] = b[p + i - 1]
  BY <1>1, Stretch
<1> HIDE DEF t
<1>3. \A i \in 1..Len(t) : t[i] = s[i]
  BY <1>2 DEF Has
<1>4. t = s
  BY <1>2, <1>3, SameStr
<1> QED BY <1>4 DEF t

\* Bytes that follow other bytes.
LEMMA HasParts ==
  ASSUME NEW b, NEW p, NEW s, NEW t, Has(b, p, s \o t)
  PROVE  Has(b, p, s) /\ Has(b, p + Len(s), t)
<1>1. /\ Len(s) \in Nat /\ Len(t) \in Nat /\ Len(s \o t) = Len(s) + Len(t)
      /\ \A i \in 1..Len(s) : (s \o t)[i] = s[i]
      /\ \A i \in 1..Len(t) : (s \o t)[Len(s) + i] = t[i]
  BY Joined
<1> DEFINE u == s \o t
<1>2. p \in Int /\ p >= 1 /\ p + Len(u) <= Len(b) + 1 /\ \A i \in 1..Len(u) : b[p + i - 1] = u[i]
  BY DEF Has
<1> HIDE DEF u
<1>3. \A i \in 1..Len(s) : i \in 1..Len(u) /\ u[i] = s[i]
  BY <1>1 DEF u
<1>4. \A i \in 1..Len(t) : Len(s) + i \in 1..Len(u) /\ u[Len(s) + i] = t[i]
  BY <1>1 DEF u
<1>5. Has(b, p, s)
  <2>1. p + Len(s) <= Len(b) + 1
    <3>1. Len(u) = Len(s) + Len(t)
      BY <1>1 DEF u
    <3> QED BY <1>1, <1>2, <3>1
  <2> QED BY <1>2, <1>3, <2>1 DEF Has
<1>6. Has(b, p + Len(s), t)
  <2>1. Len(u) = Len(s) + Len(t)
    BY <1>1 DEF u
  <2>2. ASSUME NEW i \in 1..Len(t) PROVE b[(p + Len(s)) + i - 1] = t[i]
    <3>1. b[p + (Len(s) + i) - 1] = t[i]
      BY <1>2, <1>4
    <3>2. p + (Len(s) + i) - 1 = (p + Len(s)) + i - 1
      BY <1>1, <1>2
    <3> QED BY <3>1, <3>2
  <2> QED BY <1>1, <1>2, <2>1, <2>2 DEF Has
<1> QED BY <1>5, <1>6

\* Sequences of bytes are the payloads the lemmas speak of.
LEMMA SeqOfBytes == ASSUME NEW s \in Seq(Byte) PROVE Octets(s)
  BY DEF Octets, Str
\* Bytes that are put together.
LEMMA OctetsJoin ==
  ASSUME NEW s, Octets(s), NEW t, Octets(t)
  PROVE  Octets(s \o t) /\ Len(s \o t) = Len(s) + Len(t)
<1>1. s \in Seq(Byte) /\ t \in Seq(Byte)
  BY DEF Octets, Str
<1>2. s \o t \in Seq(Byte)
  BY <1>1
<1>3. Octets(s \o t)
  BY <1>2, SeqOfBytes
<1>4. Len(s \o t) = Len(s) + Len(t)
  BY Joined
<1> QED BY <1>3, <1>4

\* The first non-zero byte is where the canonical form begins.
LEMMA CanonicalFrom ==
  ASSUME NEW b, Str(b), NEW k \in 1..Len(b), b[k] # 0, \A i \in 1..k - 1 : b[i] = 0
  PROVE  Canonical(b) = SubSeq(b, k, Len(b))
<1> DEFINE Used == {i \in DOMAIN b : b[i] # 0}
<1>1. DOMAIN b = 1..Len(b) /\ Len(b) \in Nat
  BY DEF Str
<1>2. k \in Used /\ \A i \in Used : i \in Int /\ k <= i
  BY <1>1
<1> HIDE DEF Used
<1>3. Min(Used) \in Used /\ \A y \in Used : Min(Used) <= y
  <2>1. \E x \in Used : \A y \in Used : x <= y
    BY <1>2
  <2> QED BY <2>1 DEF Min
<1>4. Min(Used) = k
  <2> DEFINE m == Min(Used)
  <2>1. m \in Used /\ m <= k
    BY <1>2, <1>3
  <2> HIDE DEF m
  <2>2. m \in Int /\ k <= m /\ k \in Int
    BY <1>2, <2>1
  <2>3. m = k
    BY <2>1, <2>2
  <2> QED BY <2>3 DEF m
<1>5. Used # {}
  BY <1>2
<1> QED BY <1>4, <1>5 DEF Canonical, Used

\* One more byte of a number that stays below the limit.
LEMMA ShiftsIn ==
  ASSUME NEW v \in Nat, NEW c \in Nat, 256 * v + c < Huge
  PROVE  Shifted(v, c) = 256 * v + c
<1> DEFINE w == 256 * v + c
<1>1. w \in Int /\ Huge \in Int /\ w <= Huge
  BY DEF Huge
<1>2. Shifted(v, c) = Min({w, Huge})
  BY DEF Shifted
<1> HIDE DEF w
<1>3. Shifted(v, c) = w
  BY <1>1, <1>2, Smaller
<1> QED BY <1>3 DEF w

\* Three bytes that are shifted in stay below the limit.
LEMMA ShiftsOne == ASSUME NEW x \in Nat, x < 256 PROVE Shifted(0, x) = x
<1>1. 0 \in Nat /\ 256 * 0 + x < Huge /\ Huge \in Int
  BY SMT DEF Huge
<1>2. Shifted(0, x) = 256 * 0 + x
  BY <1>1, ShiftsIn
<1> QED BY <1>2
LEMMA ShiftsTwo == ASSUME NEW x \in Nat, x < 256, NEW y \in Nat, y < 256 PROVE Shifted(x, y) = 256 * x + y
<1>1. 256 * x + y < Huge /\ Huge \in Int
  BY SMT DEF Huge
<1> QED BY <1>1, ShiftsIn
LEMMA ShiftsThree == ASSUME NEW v \in Nat, v < 16384, NEW z \in Nat, z < 256 PROVE Shifted(v, z) = 256 * v + z
<1>1. 256 * v + z < Huge /\ Huge \in Int
  BY SMT DEF Huge
<1> QED BY <1>1, ShiftsIn

\* The number that up to three bytes are read as.
Triple(s) == 65536 * s[1] + 256 * s[2] + s[3]
LEMMA ReadsThree ==
  ASSUME NEW s, Str(s), Len(s) >= 1, \A i \in 1..Len(s) : s[i] \in Nat /\ s[i] < 256
  PROVE  /\ Len(s) = 1 => read_be(s) = s[1]
         /\ Len(s) = 2 => read_be(s) = 256 * s[1] + s[2]
         /\ Len(s) = 3 /\ s[1] < 64 => read_be(s) = Triple(s)
<1>1. PICK f : ReadTo(s, f, Len(s)) /\ read_be(s) = f[Len(s)]
  BY ReadSteps DEF Str
<1>2. f[0] = 0 /\ \A i \in 1..Len(s) : f[i] = Shifted(f[i - 1], s[i])
  BY <1>1 DEF ReadTo
<1>3. f[1] = Shifted(0, s[1]) /\ s[1] \in Nat /\ s[1] < 256
  BY <1>2
<1>4. f[1] = s[1]
  BY <1>3, ShiftsOne
<1>5. Len(s) >= 2 => f[2] = Shifted(s[1], s[2]) /\ s[2] \in Nat /\ s[2] < 256
  BY <1>2, <1>4
<1>6. Len(s) >= 2 => f[2] = 256 * s[1] + s[2]
  <2> SUFFICES ASSUME Len(s) >= 2 PROVE f[2] = 256 * s[1] + s[2]
    OBVIOUS
  <2>1. f[2] = Shifted(s[1], s[2]) /\ s[2] \in Nat /\ s[2] < 256
    BY <1>5
  <2> DEFINE x == s[1]
             y == s[2]
  <2>2. x \in Nat /\ x < 256 /\ y \in Nat /\ y < 256
    BY <1>3, <2>1
  <2> HIDE DEF x, y
  <2>3. Shifted(x, y) = 256 * x + y
    BY <2>2, ShiftsTwo
  <2> QED BY <2>1, <2>3 DEF x, y
<1>7. Len(s) = 3 => f[3] = Shifted(f[2], s[3]) /\ s[3] \in Nat /\ s[3] < 256
  BY <1>2
<1>8. Len(s) = 3 /\ s[1] < 64 => f[3] = 65536 * s[1] + 256 * s[2] + s[3]
  <2> SUFFICES ASSUME Len(s) = 3, s[1] < 64 PROVE f[3] = 65536 * s[1] + 256 * s[2] + s[3]
    OBVIOUS
  <2>1. f[2] \in Nat /\ f[2] < 16384
    BY <1>3, <1>5, <1>6
  <2>2. f[3] = 256 * f[2] + s[3]
    BY <1>7, <2>1, ShiftsThree
  <2> QED BY <1>3, <1>5, <1>6, <1>7, <2>2
<1> QED BY <1>1, <1>4, <1>6, <1>8, SMTT(30) DEF Triple

\* encodeLength: a length of 56 or more in its minimal bytes.
LengthOf(len) == Canonical(<<len \div 65536, (len \div 256) % 256, len % 256>>)
LEMMA LengthBytes ==
  ASSUME NEW len \in Nat, len >= 56, len < Huge
  PROVE  /\ Octets(LengthOf(len)) /\ Len(LengthOf(len)) >= 1 /\ Len(LengthOf(len)) <= 3
         /\ LengthOf(len)[1] # 0 /\ read_be(LengthOf(len)) = len
<1> DEFINE x == len \div 65536
           y == (len \div 256) % 256
           z == len % 256
           b == <<x, y, z>>
           n == LengthOf(len)
<1>1. /\ x \in Nat /\ x < 64 /\ y \in Nat /\ y < 256 /\ z \in Nat /\ z < 256
      /\ len = 65536 * x + 256 * y + z
  BY DEF Huge
<1>2. n = Canonical(b)
  BY DEF LengthOf
<1> SUFFICES Octets(n) /\ Len(n) >= 1 /\ Len(n) <= 3 /\ n[1] # 0 /\ read_be(n) = len
  OBVIOUS
<1> HIDE DEF x, y, z, n
<1>3. /\ Str(b) /\ Len(b) = 3 /\ b[1] = x /\ b[2] = y /\ b[3] = z
      /\ \A i \in 1..3 : b[i] \in Nat /\ b[i] < 256
  BY <1>1 DEF Str
<1> HIDE DEF b
<1>4. PICK k \in 1..3 : b[k] # 0 /\ \A i \in 1..k - 1 : b[i] = 0
  <2>1. x # 0 \/ y # 0 \/ z # 0
    BY <1>1
  <2>2. CASE x # 0
    BY <1>3, <2>2
  <2>3. CASE x = 0 /\ y # 0
    <3>1. b[2] # 0 /\ \A i \in 1..2 - 1 : b[i] = 0
      BY <1>3, <2>3
    <3> QED BY <3>1
  <2>4. CASE x = 0 /\ y = 0 /\ z # 0
    <3>1. b[3] # 0 /\ \A i \in 1..3 - 1 : b[i] = 0
      BY <1>3, <2>4
    <3> QED BY <3>1
  <2> QED BY <2>1, <2>2, <2>3, <2>4
<1>5. n = SubSeq(b, k, 3)
  BY <1>2, <1>3, <1>4, CanonicalFrom
<1>6. Len(n) = 4 - k /\ Str(n) /\ \A i \in 1..Len(n) : n[i] = b[k + i - 1]
  <2>1. n = [i \in 1..3 - k + 1 |-> b[k + i - 1]]
    BY <1>3, <1>4, <1>5
  <2>2. Len(n) = 4 - k /\ 1..3 - k + 1 = 1..Len(n)
    BY <1>4, <2>1
  <2> QED BY <1>4, <2>1, <2>2 DEF Str
<1>7. \A i \in 1..Len(n) : n[i] \in Nat /\ n[i] < 256
  <2>1. ASSUME NEW i \in 1..Len(n) PROVE k + i - 1 \in 1..3
    BY <1>4, <1>6
  <2> QED BY <1>3, <1>6, <2>1
<1>8. Octets(n)
  <2>1. ASSUME NEW i \in 1..Len(n) PROVE n[i] \in Byte
    <3>1. n[i] \in Nat /\ n[i] < 256
      BY <1>7
    <3> QED BY <3>1, SmallIsByte
  <2> QED BY <1>6, <2>1 DEF Octets
<1>9. Len(n) >= 1 /\ Len(n) <= 3 /\ n[1] # 0
  BY <1>4, <1>6
<1>10. read_be(n) = len
  <2>1. CASE k = 1
    <3>1. Len(n) = 3 /\ n[1] = x /\ n[2] = y /\ n[3] = z
      BY <1>3, <1>6, <2>1
    <3>2. n[1] < 64
      BY <1>1, <3>1
    <3>3. Str(n) /\ Len(n) >= 1
      BY <1>6, <1>9
    <3>4. read_be(n) = Triple(n)
      BY <1>7, <3>1, <3>2, <3>3, ReadsThree
    <3> QED BY <1>1, <3>1, <3>4 DEF Triple
  <2>2. CASE k = 2
    <3>1. Len(n) = 2 /\ n[1] = y /\ n[2] = z /\ x = 0
      BY <1>3, <1>4, <1>6, <2>2
    <3>2. read_be(n) = 256 * n[1] + n[2]
      BY <1>6, <1>7, <1>9, <3>1, ReadsThree
    <3> QED BY <1>1, <3>1, <3>2
  <2>3. CASE k = 3
    <3>1. Len(n) = 1 /\ n[1] = z /\ x = 0 /\ y = 0
      BY <1>3, <1>4, <1>6, <2>3
    <3>2. read_be(n) = n[1]
      BY <1>6, <1>7, <1>9, <3>1, ReadsThree
    <3> QED BY <1>1, <3>1, <3>2
  <2> QED BY <1>4, <2>1, <2>2, <2>3
<1> QED BY <1>8, <1>9, <1>10

\* encodeLength gives bytes: one, or one and the length.
LEMMA HeaderBytes ==
  ASSUME NEW len \in Nat, len < Huge, NEW off \in Nat, off = 128 \/ off = 192
  PROVE  /\ Octets(encodeLength(len, off)) /\ Len(encodeLength(len, off)) >= 1
         /\ len < 56 => encodeLength(len, off) = <<off + len>>
         /\ len >= 56 => encodeLength(len, off) = <<off + 55 + Len(LengthOf(len))>> \o LengthOf(len)
<1>1. CASE len < 56
  <2>1. encodeLength(len, off) = <<off + len>>
    BY <1>1 DEF encodeLength
  <2>2. off + len \in 0..255
    BY <1>1
  <2>3. <<off + len>> \in Seq(Byte) /\ Len(<<off + len>>) = 1
    BY <2>2 DEF Byte
  <2>4. Octets(<<off + len>>)
    BY <2>3, SeqOfBytes
  <2> QED BY <1>1, <2>1, <2>3, <2>4
<1>2. CASE len >= 56
  <2> DEFINE n == LengthOf(len)
             c == off + 55 + Len(n)
  <2>1. Octets(n) /\ Len(n) >= 1 /\ Len(n) <= 3
    BY <1>2, LengthBytes
  <2>2. encodeLength(len, off) = <<c>> \o n
    BY <1>2 DEF encodeLength, LengthOf
  <2> HIDE DEF n
  <2>3. c \in Int /\ c >= 0 /\ c <= 255
    BY <2>1
  <2> HIDE DEF c
  <2>4. c \in 0..255
    BY <2>3
  <2>5. <<c>> \in Seq(Byte) /\ Len(<<c>>) = 1
    BY <2>4 DEF Byte
  <2>6. Octets(<<c>>)
    BY <2>5, SeqOfBytes
  <2>7. Octets(<<c>> \o n) /\ Len(<<c>> \o n) = 1 + Len(n)
    BY <2>1, <2>5, <2>6, OctetsJoin
  <2>8. Len(<<c>> \o n) >= 1
    BY <2>1, <2>7
  <2> QED BY <1>2, <2>2, <2>7, <2>8 DEF n, c
<1> QED BY <1>1, <1>2

\* What is at p when a length was written there: len for an item of the kind off,
\* in lol bytes of its own, or in the first byte; the item ends by last.
Headed(b, p, last, off, lol, len) ==
  /\ p \in Int /\ last \in Int /\ off \in Nat /\ (off = 128 \/ off = 192) /\ lol \in Nat /\ lol <= 8 /\ len \in Nat
  /\ b[p] = off + (IF lol = 0 THEN len ELSE 55 + lol) /\ (lol = 0 => len <= 55)
  /\ lol > 0 => read_be(Slice(b, p + 1, lol)) = len /\ b[p + 1] # 0 /\ len > 55
  /\ p + lol + len <= last
  /\ off = 128 /\ lol = 0 /\ len = 1 => b[p + 1] \in Int /\ b[p + 1] > 127
\* rlp_decode_item reads it as such an item.
LEMMA ItemRead ==
  ASSUME NEW b, NEW p, NEW last, NEW off, NEW lol, NEW len, Headed(b, p, last, off, lol, len)
  PROVE  rlp_decode_item(b, p, last) = Item(off = 192, p + 1 + lol, len)
<1> DEFINE list == b[p] >= 192
           size == b[p] - (IF list THEN 192 ELSE 128)
           l    == Max({0, size - 55})
           n    == IF l = 0 THEN size ELSE read_be(Slice(b, p + 1, l))
           left == last - p - l
           bad  == \/ left < 0
                   \/ l > 0 /\ (b[p + 1] = 0 \/ n <= 55)
                   \/ n > left
                   \/ ~list /\ l = 0 /\ n = 1 /\ b[p + 1] <= 127
           x    == rlp_decode_item(b, p, last)
<1> USE DEF Headed
<1>1. x = IF p > last THEN NoItem ELSE IF b[p] <= 127 THEN Item(FALSE, p, 1)
          ELSE IF bad THEN NoItem ELSE Item(list, p + 1 + l, n)
  BY DEF rlp_decode_item
<1>2. list = (off = 192) /\ size = IF lol = 0 THEN len ELSE 55 + lol
  OBVIOUS
<1>3. l = lol
  <2> HIDE DEF size
  <2>1. 0 \in Int /\ size - 55 \in Int
    BY <1>2
  <2>2. l = IF 0 >= size - 55 THEN 0 ELSE size - 55
    BY <2>1, Larger
  <2> HIDE DEF l
  <2> QED BY <1>2, <2>2
<1> HIDE DEF l
<1>4. n = len
  <2>1. CASE lol = 0
    BY <1>2, <1>3, <2>1
  <2>2. CASE lol # 0
    BY <1>3, <2>2
  <2> QED BY <2>1, <2>2
<1> HIDE DEF list, size, n
<1>5. ~(left < 0) /\ ~(n > left)
  BY <1>3, <1>4
<1>6. ~(l > 0 /\ (b[p + 1] = 0 \/ n <= 55))
  BY <1>3, <1>4
<1>7. ~(~list /\ l = 0 /\ n = 1 /\ b[p + 1] <= 127)
  <2>1. ~list => off = 128
    BY <1>2
  <2> QED BY <1>3, <1>4, <2>1
<1>8. ~bad
  <2> HIDE DEF left
  <2> QED BY <1>5, <1>6, <1>7
<1>9. ~(p > last) /\ ~(b[p] <= 127)
  OBVIOUS
<1> HIDE DEF x, bad, Headed
<1>10. x = Item(list, p + 1 + l, n)
  BY <1>1, <1>8, <1>9, Zenon
<1> QED BY <1>2, <1>3, <1>4, <1>10 DEF x

\* A length and the bytes after it are read as an item with those bytes.
Writes(b, p, last, off, s) ==
  /\ Octets(b) /\ off \in Nat /\ (off = 128 \/ off = 192) /\ Octets(s) /\ Len(s) < Huge
  /\ ~(off = 128 /\ Len(s) = 1 /\ s[1] < 128)
  /\ Has(b, p, encodeLength(Len(s), off) \o s)
  /\ last \in Int /\ p + Len(encodeLength(Len(s), off)) + Len(s) <= last + 1
LEMMA HeaderRead ==
  ASSUME NEW b, NEW p, NEW last, NEW off, NEW s, Writes(b, p, last, off, s)
  PROVE  rlp_decode_item(b, p, last) = Item(off = 192, p + Len(encodeLength(Len(s), off)), Len(s))
<1> DEFINE len == Len(s)
           head == encodeLength(len, off)
<1>1. len \in Nat /\ len < Huge /\ Huge \in Int /\ off \in Nat /\ (off = 128 \/ off = 192) /\ last \in Int
  BY DEF Octets, Str, Huge, Writes
<1>2. Has(b, p, head) /\ Has(b, p + Len(head), s)
  BY HasParts DEF Writes
<1>3. /\ Octets(head) /\ Len(head) >= 1
      /\ len < 56 => head = <<off + len>>
      /\ len >= 56 => head = <<off + 55 + Len(LengthOf(len))>> \o LengthOf(len)
  BY <1>1, HeaderBytes
<1>4. p + Len(head) + len <= last + 1
  BY DEF Writes
<1>5. ASSUME NEW i \in 1..Len(s) PROVE s[i] \in Int
  BY OctetsAreNumbers DEF Writes
<1>6. ~(off = 128 /\ len = 1 /\ s[1] < 128)
  BY DEF Writes
<1> HIDE DEF head
<1>7. p \in Int /\ p >= 1
  BY <1>2 DEF Has
<1>8. b[p] = head[1]
  <2>1. 1 \in 1..Len(head) /\ p + 1 - 1 = p
    BY <1>3, <1>7
  <2>2. b[p + 1 - 1] = head[1]
    BY <1>2, <2>1 DEF Has
  <2> QED BY <2>1, <2>2
<1>9. len >= 1 => b[p + Len(head)] = s[1] /\ s[1] \in Int
  <2> SUFFICES ASSUME len >= 1 PROVE b[p + Len(head)] = s[1] /\ s[1] \in Int
    OBVIOUS
  <2>1. 1 \in 1..Len(s) /\ (p + Len(head)) + 1 - 1 = p + Len(head)
    BY <1>1, <1>3, <1>7
  <2>2. b[(p + Len(head)) + 1 - 1] = s[1]
    BY <1>2, <2>1 DEF Has
  <2>3. s[1] \in Int
    BY <1>5, <2>1
  <2> QED BY <2>1, <2>2, <2>3
<1> HIDE DEF len
<1>10. CASE len < 56
  <2>1. head[1] = off + len /\ Len(head) = 1
    BY <1>3, <1>10
  <2>2. b[p] = off + len
    BY <1>8, <2>1
  <2>3. off = 128 /\ len = 1 => b[p + 1] \in Int /\ b[p + 1] > 127
    <3> SUFFICES ASSUME off = 128, len = 1 PROVE b[p + 1] \in Int /\ b[p + 1] > 127
      OBVIOUS
    <3>1. b[p + 1] = s[1] /\ s[1] \in Int
      BY <1>9, <2>1
    <3> QED BY <1>6, <3>1
  <2>4. p + 0 + len <= last
    BY <1>1, <1>4, <1>7, <2>1
  <2>5. Headed(b, p, last, off, 0, len)
    BY <1>1, <1>7, <1>10, <2>2, <2>3, <2>4 DEF Headed
  <2>6. rlp_decode_item(b, p, last) = Item(off = 192, p + 1 + 0, len)
    BY <2>5, ItemRead
  <2>7. p + 1 + 0 = p + Len(head)
    BY <1>7, <2>1
  <2> QED BY <2>6, <2>7 DEF head, len
<1>11. CASE len >= 56
  <2> DEFINE n == LengthOf(len)
             c == off + 55 + Len(n)
             k == Len(n)
  <2>1. Octets(n) /\ k >= 1 /\ k <= 3 /\ n[1] # 0 /\ read_be(n) = len
    BY <1>1, <1>11, LengthBytes
  <2>2. head = <<c>> \o n
    BY <1>3, <1>11
  <2> HIDE DEF n
  <2>3. k \in Nat
    BY <2>1 DEF Octets, Str
  <2>4. head[1] = c /\ Len(head) = 1 + k
    <3>1. Len(<<c>>) = 1 /\ <<c>>[1] = c
      OBVIOUS
    <3> HIDE DEF c
    <3> QED BY <2>2, <3>1, Joined
  <2>5. Has(b, p + 1, n)
    <3> DEFINE h == <<c>>
    <3>1. Len(h) = 1 /\ head = h \o n
      BY <2>2
    <3> HIDE DEF h, c
    <3>2. Has(b, p + Len(h), n)
      BY <1>2, <3>1, HasParts
    <3> QED BY <3>1, <3>2
  <2>6. Slice(b, p + 1, k) = n
    <3>1. Str(n) /\ Len(b) \in Nat
      BY <2>1 DEF Octets, Str, Writes
    <3> QED BY <2>5, <3>1, SliceHas
  <2>7. b[p + 1] = n[1]
    <3>1. 1 \in 1..Len(n) /\ (p + 1) + 1 - 1 = p + 1
      BY <1>7, <2>1
    <3>2. b[(p + 1) + 1 - 1] = n[1]
      BY <2>5, <3>1 DEF Has
    <3> QED BY <3>1, <3>2
  <2>8. b[p] = off + 55 + k
    BY <1>8, <2>4
  <2> HIDE DEF k, c
  <2>9. p + k + len <= last /\ off + 55 + k = off + (55 + k)
    BY <1>1, <1>4, <1>7, <2>3, <2>4
  <2>10. Headed(b, p, last, off, k, len)
    BY <1>1, <1>7, <1>11, <2>1, <2>3, <2>6, <2>7, <2>8, <2>9 DEF Headed
  <2>11. rlp_decode_item(b, p, last) = Item(off = 192, p + 1 + k, len)
    BY <2>10, ItemRead
  <2>12. p + 1 + k = p + Len(head)
    BY <1>7, <2>3, <2>4
  <2> QED BY <2>11, <2>12 DEF head, len
<1> QED BY <1>1, <1>10, <1>11

\* e lies at p, and ends by last.
LiesAt(b, p, last, e) == Octets(b) /\ Has(b, p, e) /\ last \in Int /\ p + Len(e) <= last + 1
\* e is read as one item, a list or not, with the bytes s.
IsPiece(e, list, s) ==
  /\ Octets(e) /\ Octets(s) /\ Len(e) >= 1 /\ Len(s) <= Len(e)
  /\ \A i \in 1..Len(s) : e[(Len(e) - Len(s)) + i] = s[i]
  /\ \A b, p, last : LiesAt(b, p, last, e) =>
       rlp_decode_item(b, p, last) = Item(list, p + (Len(e) - Len(s)), Len(s))

\* A length and its bytes are one item.
LEMMA HeaderPiece ==
  ASSUME NEW off \in Nat, off = 128 \/ off = 192, NEW s, Octets(s), Len(s) < Huge,
         ~(off = 128 /\ Len(s) = 1 /\ s[1] < 128)
  PROVE  IsPiece(encodeLength(Len(s), off) \o s, off = 192, s)
<1> DEFINE h == encodeLength(Len(s), off)
           e == h \o s
<1>1. Len(s) \in Nat
  BY DEF Octets, Str
<1>2. Octets(h) /\ Len(h) >= 1
  <2> DEFINE len == Len(s)
  <2>1. len \in Nat /\ len < Huge
    BY <1>1
  <2> HIDE DEF len
  <2>2. /\ Octets(encodeLength(len, off)) /\ Len(encodeLength(len, off)) >= 1
        /\ len < 56 => encodeLength(len, off) = <<off + len>>
        /\ len >= 56 => encodeLength(len, off) = <<off + 55 + Len(LengthOf(len))>> \o LengthOf(len)
    BY <2>1, HeaderBytes
  <2> QED BY <2>2 DEF len
<1>3. Len(h) \in Nat
  BY <1>2 DEF Octets, Str
<1>4. ASSUME NEW b, NEW p, NEW last, Octets(b), Has(b, p, e), last \in Int, p + (Len(h) + Len(s)) <= last + 1
      PROVE  rlp_decode_item(b, p, last) = Item(off = 192, p + Len(h), Len(s))
  <2>1. p \in Int
    BY <1>4 DEF Has
  <2> HIDE DEF h
  <2>2. p + Len(h) + Len(s) <= last + 1
    BY <1>1, <1>3, <1>4, <2>1
  <2>3. Writes(b, p, last, off, s)
    BY <1>4, <2>2 DEF Writes, h
  <2>4. rlp_decode_item(b, p, last) = Item(off = 192, p + Len(encodeLength(Len(s), off)), Len(s))
    BY <2>3, HeaderRead
  <2> QED BY <2>4 DEF h
<1> HIDE DEF h
<1>5. Octets(e) /\ Len(e) = Len(h) + Len(s)
  BY <1>2, OctetsJoin
<1>6. \A i \in 1..Len(s) : e[Len(h) + i] = s[i]
  BY Joined
<1> HIDE DEF e
<1>7. Len(e) - Len(s) = Len(h) /\ Len(e) >= 1 /\ Len(s) <= Len(e)
  BY <1>1, <1>2, <1>3, <1>5
<1>8. ASSUME NEW b, NEW p, NEW last, LiesAt(b, p, last, e)
      PROVE  rlp_decode_item(b, p, last) = Item(off = 192, p + (Len(e) - Len(s)), Len(s))
  <2>1. rlp_decode_item(b, p, last) = Item(off = 192, p + Len(h), Len(s))
    BY <1>4, <1>5, <1>8 DEF LiesAt
  <2> QED BY <1>7, <2>1
<1>9. IsPiece(e, off = 192, s)
  BY <1>5, <1>6, <1>7, <1>8 DEF IsPiece
<1> QED BY <1>9 DEF e, h

\* A byte below 128 is its own item.
LEMMA BytePiece ==
  ASSUME NEW s, Octets(s), Len(s) = 1, s[1] < 128
  PROVE  IsPiece(s, FALSE, s)
<1>1. s[1] \in Int /\ Len(s) - Len(s) = 0 /\ Len(s) <= Len(s)
  <2>1. 1 \in 1..Len(s)
    OBVIOUS
  <2> QED BY <2>1, OctetsAreNumbers
<1>2. \A i \in 1..Len(s) : s[(Len(s) - Len(s)) + i] = s[i]
  BY <1>1
<1>3. ASSUME NEW b, NEW p, NEW last, LiesAt(b, p, last, s)
      PROVE  rlp_decode_item(b, p, last) = Item(FALSE, p + (Len(s) - Len(s)), Len(s))
  <2>1. Has(b, p, s) /\ p \in Int /\ ~(p > last)
    BY <1>3 DEF Has, LiesAt
  <2>2. b[p] = s[1]
    <3>1. 1 \in 1..Len(s) /\ p + 1 - 1 = p
      BY <2>1
    <3>2. b[p + 1 - 1] = s[1]
      BY <2>1, <3>1 DEF Has
    <3> QED BY <3>1, <3>2
  <2>3. b[p] <= 127
    BY <1>1, <2>2
  <2>4. rlp_decode_item(b, p, last) = Item(FALSE, p, 1)
    BY <2>1, <2>3, Zenon DEF rlp_decode_item
  <2>5. p + (Len(s) - Len(s)) = p
    BY <1>1, <2>1
  <2> QED BY <2>4, <2>5
<1> QED BY <1>1, <1>2, <1>3 DEF IsPiece

\* encodeBytes: bytes are one item, a small byte is its own.
LEMMA BytesPiece ==
  ASSUME NEW s, Octets(s), Len(s) < Huge
  PROVE  IsPiece(encodeBytes(s), FALSE, s)
<1>1. CASE Len(s) = 1 /\ s[1] < 128
  <2>1. encodeBytes(s) = s
    BY <1>1 DEF encodeBytes
  <2>2. IsPiece(s, FALSE, s)
    BY <1>1, BytePiece
  <2> QED BY <2>1, <2>2
<1>2. CASE ~(Len(s) = 1 /\ s[1] < 128)
  <2>1. encodeBytes(s) = encodeLength(Len(s), 128) \o s
    BY <1>2 DEF encodeBytes
  <2>2. IsPiece(encodeLength(Len(s), 128) \o s, 128 = 192, s)
    BY <1>2, HeaderPiece
  <2>3. (128 = 192) = FALSE
    OBVIOUS
  <2> QED BY <2>1, <2>2, <2>3, ZenonT(30)
<1> QED BY <1>1, <1>2
\* encodeList: a list is one item.
LEMMA ListPiece ==
  ASSUME NEW e, Octets(FlattenSeq(e)), Len(FlattenSeq(e)) < Huge
  PROVE  IsPiece(encodeList(e), TRUE, FlattenSeq(e))
<1> DEFINE s == FlattenSeq(e)
<1>1. encodeList(e) = encodeLength(Len(s), 192) \o s
  BY DEF encodeList
<1> HIDE DEF s
<1>2. IsPiece(encodeLength(Len(s), 192) \o s, 192 = 192, s)
  BY HeaderPiece DEF s
<1>3. (192 = 192) = TRUE
  OBVIOUS
<1> QED BY <1>1, <1>2, <1>3 DEF s

\* Where the n elements of e lie in F, which begins with the first: o[i] elements
\* come before the i-th.
Laid(e, n, F, o) ==
  /\ o[1] = 0 /\ \A i \in 1..n : o[i] \in Nat /\ o[i + 1] = o[i] + Len(e[i])
  /\ Len(F) = o[n + 1]
  /\ \A i \in 1..n : \A j \in 1..Len(e[i]) : F[o[i] + j] = e[i][j]
FlattenTo(e, g, n) == g = [i \in 1..n |-> IF i = 1 THEN e[i] ELSE g[i - 1] \o e[i]]
\* FlattenSeq puts one after the other.
LEMMA FlattenSteps ==
  ASSUME NEW e, Len(e) \in Nat \ {0}
  PROVE  \E g : FlattenTo(e, g, Len(e)) /\ FlattenSeq(e) = g[Len(e)]
<1>1. \E g : FlattenTo(e, g, Len(e))
  <2> DEFINE S == {n \in Nat : \E g : FlattenTo(e, g, n)}
  <2>1. 0 \in S
    <3>1. FlattenTo(e, [i \in 1..0 |-> <<>>], 0)
      BY DEF FlattenTo
    <3> QED BY <3>1
  <2>2. ASSUME NEW n \in Nat, n \in S PROVE n + 1 \in S
    <3>1. PICK g : FlattenTo(e, g, n)
      BY <2>2
    <3> DEFINE h == [i \in 1..n + 1 |-> IF i <= n THEN g[i] ELSE IF n = 0 THEN e[1] ELSE g[n] \o e[n + 1]]
    <3>2. \A i \in 1..n : h[i] = g[i]
      OBVIOUS
    <3>3. h[n + 1] = IF n = 0 THEN e[1] ELSE g[n] \o e[n + 1]
      OBVIOUS
    <3>4. h = [i \in 1..n + 1 |-> h[i]]
      OBVIOUS
    <3> HIDE DEF h
    <3>5. ASSUME NEW i \in 1..n PROVE g[i] = IF i = 1 THEN e[i] ELSE g[i - 1] \o e[i]
      <4> DEFINE G(k) == IF k = 1 THEN e[k] ELSE g[k - 1] \o e[k]
      <4>1. g = [k \in 1..n |-> G(k)]
        BY <3>1 DEF FlattenTo
      <4> HIDE DEF G
      <4>2. g[i] = G(i)
        BY <4>1
      <4> QED BY <4>2 DEF G
    <3>6. ASSUME NEW i \in 1..n + 1 PROVE h[i] = IF i = 1 THEN e[i] ELSE h[i - 1] \o e[i]
      <4>1. CASE i <= n
        <5>1. i \in 1..n /\ (i # 1 => i - 1 \in 1..n)
          BY <4>1
        <5>2. h[i] = g[i] /\ (i # 1 => h[i - 1] = g[i - 1])
          BY <3>2, <5>1
        <5> QED BY <3>5, <5>1, <5>2
      <4>2. CASE i = n + 1 /\ n = 0
        BY <3>3, <4>2
      <4>3. CASE i = n + 1 /\ n # 0
        <5>1. n \in 1..n /\ i - 1 = n /\ i # 1
          BY <4>3
        <5>2. h[n] = g[n]
          BY <3>2, <5>1
        <5> QED BY <3>3, <4>3, <5>1, <5>2
      <4>4. i <= n \/ i = n + 1
        OBVIOUS
      <4> QED BY <4>1, <4>2, <4>3, <4>4
    <3>7. FlattenTo(e, h, n + 1)
      <4> DEFINE H(k) == IF k = 1 THEN e[k] ELSE h[k - 1] \o e[k]
      <4>1. \A i \in 1..n + 1 : h[i] = H(i)
        BY <3>6
      <4> HIDE DEF H
      <4>2. h = [i \in 1..n + 1 |-> H(i)]
        BY <3>4, <4>1
      <4> QED BY <4>2 DEF FlattenTo, H
    <3> QED BY <3>7
  <2>3. Nat \subseteq S
    <3> HIDE DEF S
    <3> QED BY <2>1, <2>2, SetInduction
  <2> QED BY <2>3
<1> DEFINE f == CHOOSE g : FlattenTo(e, g, Len(e))
<1>2. FlattenSeq(e) = f[Len(e)]
  BY DEF FlattenSeq, FlattenTo
<1>3. FlattenTo(e, f, Len(e))
  BY <1>1
<1> QED BY <1>2, <1>3

\* The first m elements of e lie in G, at the places o.
Grown(e, m, G, o) ==
  \A i \in 1..m : /\ o[i] \in Nat /\ o[i] + Len(e[i]) <= Len(G)
                  /\ \A j \in 1..Len(e[i]) : G[o[i] + j] = e[i][j]
\* One more element is put behind them.
LEMMA GrownMore ==
  ASSUME NEW e, NEW m \in Nat, NEW G, NEW o, NEW a, Grown(e, m, G, o), a = e[m + 1], o[m + 1] = Len(G)
  PROVE  Grown(e, m + 1, G \o a, o)
<1> DEFINE H == G \o a
<1>1. Len(H) = Len(G) + Len(a)
  BY Joined
<1>2. Len(G) \in Nat /\ Len(a) \in Nat
  BY Joined
<1>3. /\ \A i \in 1..Len(G) : H[i] = G[i]
      /\ \A i \in 1..Len(a) : H[Len(G) + i] = a[i]
  BY Joined
<1> HIDE DEF H
<1>4. ASSUME NEW i \in 1..m
      PROVE  o[i] \in Nat /\ o[i] + Len(e[i]) <= Len(H) /\ \A j \in 1..Len(e[i]) : H[o[i] + j] = e[i][j]
  <2> DEFINE p == o[i]
             k == Len(e[i])
  <2>1. p \in Nat /\ p + k <= Len(G) /\ \A j \in 1..k : G[p + j] = e[i][j]
    BY DEF Grown
  <2>2. k \in Nat
    BY Joined
  <2> HIDE DEF p, k
  <2>3. p + k <= Len(H)
    BY <1>1, <1>2, <2>1, <2>2
  <2>4. ASSUME NEW j \in 1..k PROVE H[p + j] = e[i][j]
    <3>1. p + j \in 1..Len(G)
      BY <1>2, <2>1, <2>2
    <3> QED BY <1>3, <2>1, <3>1
  <2> QED BY <2>1, <2>3, <2>4 DEF p, k
<1>5. /\ o[m + 1] \in Nat /\ o[m + 1] + Len(e[m + 1]) <= Len(H)
      /\ \A j \in 1..Len(e[m + 1]) : H[o[m + 1] + j] = e[m + 1][j]
  BY <1>1, <1>2, <1>3
<1>6. \A i \in 1..m + 1 : i \in 1..m \/ i = m + 1
  OBVIOUS
<1>7. \A i \in 1..m + 1 :
        o[i] \in Nat /\ o[i] + Len(e[i]) <= Len(H) /\ \A j \in 1..Len(e[i]) : H[o[i] + j] = e[i][j]
  BY <1>4, <1>5, <1>6, Zenon
<1>8. Grown(e, m + 1, H, o)
  BY <1>7 DEF Grown
<1> QED BY <1>8 DEF H

\* The elements of e, one after the other, are bytes if each of them is.
LEMMA Flattened ==
  ASSUME NEW e, NEW n \in Nat, n >= 1, Len(e) = n
  PROVE  /\ \E o : Laid(e, n, FlattenSeq(e), o)
         /\ \A i \in 1..n : Len(e[i]) <= Len(FlattenSeq(e))
         /\ (\A i \in 1..n : Octets(e[i])) => Octets(FlattenSeq(e))
<1>1. PICK g : FlattenTo(e, g, n) /\ FlattenSeq(e) = g[n]
  BY FlattenSteps
<1> DEFINE F == FlattenSeq(e)
           G(k) == IF k = 1 THEN e[k] ELSE g[k - 1] \o e[k]
           o == [i \in 1..n + 1 |-> IF i = 1 THEN 0 ELSE Len(g[i - 1])]
           bytes == \A i \in 1..n : Octets(e[i])
<1>2. \A k \in 1..n : g[k] = G(k)
  <2>1. g = [k \in 1..n |-> G(k)]
    BY <1>1 DEF FlattenTo
  <2> HIDE DEF G
  <2>2. \A k \in 1..n : [i \in 1..n |-> G(i)][k] = G(k)
    OBVIOUS
  <2> QED BY <2>1, <2>2
<1>3. o[1] = 0 /\ \A i \in 1..n : o[i + 1] = Len(g[i])
  OBVIOUS
<1>4. n \in 1..n /\ 1 \in 1..n
  OBVIOUS
<1>13. \A i \in 1..n : bytes => Octets(e[i])
  OBVIOUS
<1> HIDE DEF o, F, bytes
<1> DEFINE S == {m \in Nat : m + 1 <= n => Grown(e, m + 1, g[m + 1], o) /\ (bytes => Octets(g[m + 1]))}
<1>5. 0 \in S
  <2>1. g[1] = e[1] /\ (bytes => Octets(e[1])) /\ o[1] = 0
    BY <1>2, <1>3, <1>4, <1>13
  <2>2. Len(e[1]) \in Nat
    BY Joined
  <2>3. \A i \in 1..1 : i = 1
    OBVIOUS
  <2>4. Grown(e, 1, e[1], o)
    BY <2>1, <2>2, <2>3 DEF Grown
  <2>5. Grown(e, 0 + 1, g[0 + 1], o) /\ (bytes => Octets(g[0 + 1]))
    BY <2>1, <2>4
  <2> QED BY <2>5
<1>6. ASSUME NEW m \in Nat, m \in S PROVE m + 1 \in S
  <2> SUFFICES ASSUME (m + 1) + 1 <= n
               PROVE  Grown(e, (m + 1) + 1, g[(m + 1) + 1], o) /\ (bytes => Octets(g[(m + 1) + 1]))
    OBVIOUS
  <2> DEFINE k == m + 1
  <2>1. k \in Nat /\ k \in 1..n /\ k + 1 \in 1..n /\ k + 1 # 1 /\ (k + 1) - 1 = k
    OBVIOUS
  <2>2. Grown(e, k, g[k], o) /\ (bytes => Octets(g[k]))
    BY <1>6
  <2> HIDE DEF k, S
  <2>3. g[k + 1] = g[k] \o e[k + 1]
    <3>1. g[k + 1] = G(k + 1)
      BY <1>2, <2>1
    <3> QED BY <2>1, <3>1
  <2> HIDE DEF G
  <2>4. (bytes => Octets(e[k + 1])) /\ o[k + 1] = Len(g[k])
    BY <1>3, <1>13, <2>1
  <2>5. Grown(e, k + 1, g[k] \o e[k + 1], o)
    BY <2>1, <2>2, <2>4, GrownMore
  <2>6. bytes => Octets(g[k] \o e[k + 1])
    BY <2>2, <2>4, OctetsJoin
  <2> QED BY <2>3, <2>5, <2>6 DEF k
<1>7. ASSUME NEW m \in 1..n PROVE Grown(e, m, g[m], o) /\ (bytes => Octets(g[m]))
  <2>1. Nat \subseteq S
    <3> HIDE DEF S
    <3> QED BY <1>5, <1>6, SetInduction
  <2>2. m - 1 \in S /\ (m - 1) + 1 = m
    BY <2>1
  <2> QED BY <2>2
<1> HIDE DEF S
<1>8. F = g[n] /\ Grown(e, n, F, o) /\ (bytes => Octets(F))
  BY <1>1, <1>4, <1>7 DEF F
<1>9. Len(F) = o[n + 1]
  BY <1>3, <1>4, <1>8
<1>10. ASSUME NEW i \in 1..n PROVE o[i] \in Nat /\ o[i + 1] = o[i] + Len(e[i])
  <2>1. o[i] \in Nat
    BY <1>8 DEF Grown
  <2>2. CASE i = 1
    <3>1. g[1] = e[1] /\ Len(e[1]) \in Nat
      BY <1>2, <1>4, Joined
    <3> QED BY <1>3, <1>4, <2>1, <2>2, <3>1
  <2>3. CASE i # 1
    <3>1. g[i] = g[i - 1] \o e[i]
      BY <1>2, <2>3
    <3>2. i - 1 \in 1..n /\ (i - 1) + 1 = i
      BY <2>3
    <3>3. o[i] = Len(g[i - 1])
      BY <1>3, <3>2
    <3>4. Len(g[i]) = Len(g[i - 1]) + Len(e[i])
      BY <3>1, Joined
    <3> QED BY <1>3, <2>1, <3>3, <3>4
  <2> QED BY <2>2, <2>3
<1>11. \A i \in 1..n : \A j \in 1..Len(e[i]) : F[o[i] + j] = e[i][j]
  BY <1>8 DEF Grown
<1>12. Laid(e, n, F, o)
  BY <1>3, <1>9, <1>10, <1>11 DEF Laid
<1>14. ASSUME NEW i \in 1..n PROVE Len(e[i]) <= Len(F)
  <2>1. o[i] \in Nat /\ o[i] + Len(e[i]) <= Len(F)
    BY <1>8 DEF Grown
  <2>2. Len(e[i]) \in Nat /\ Len(F) \in Nat
    BY Joined
  <2> QED BY <2>1, <2>2
<1> QED BY <1>8, <1>12, <1>14 DEF F, bytes

\* x is an item, a list or not, with the bytes s.
Carries(b, x, list, s) ==
  /\ x.ok /\ x.list = list /\ x.from \in Int /\ x.len = Len(s) /\ Has(b, x.from, s)
  /\ Bytes(b, x) = s /\ (Len(s) >= 1 => b[x.from] = s[1])

\* What a piece is read as, where it lies.
LEMMA PieceRead ==
  ASSUME NEW b, NEW p, NEW last, NEW e, NEW list, NEW s, IsPiece(e, list, s), LiesAt(b, p, last, e)
  PROVE  LET x == rlp_decode_item(b, p, last)
         IN Carries(b, x, list, s) /\ x.from + x.len = p + Len(e)
<1> DEFINE q == p + (Len(e) - Len(s))
           x == Item(list, q, Len(s))
<1>1. rlp_decode_item(b, p, last) = x
  BY DEF IsPiece
<1>2. x.ok /\ x.list = list /\ x.from = q /\ x.len = Len(s)
  BY DEF Item
<1>3. p \in Int /\ p >= 1 /\ Len(s) \in Nat /\ Len(e) \in Nat /\ Len(s) <= Len(e) /\ Str(s) /\ Len(b) \in Nat
  BY DEF LiesAt, Has, IsPiece, Octets, Str
<1> HIDE DEF x
<1>4. q \in Int /\ q >= 1 /\ q + Len(s) = p + Len(e)
  BY <1>3
<1>5. Has(b, q, s)
  <2>1. p + Len(e) <= Len(b) + 1 /\ \A i \in 1..Len(e) : b[p + i - 1] = e[i]
    BY DEF LiesAt, Has
  <2>2. ASSUME NEW i \in 1..Len(s) PROVE b[q + i - 1] = s[i]
    <3> DEFINE j == (Len(e) - Len(s)) + i
    <3>1. j \in 1..Len(e) /\ p + j - 1 = q + i - 1
      BY <1>3
    <3>2. e[j] = s[i]
      BY DEF IsPiece
    <3> HIDE DEF j, q
    <3>3. b[p + j - 1] = e[j]
      BY <2>1, <3>1
    <3> QED BY <3>1, <3>2, <3>3
  <2> HIDE DEF q
  <2> QED BY <1>3, <1>4, <2>1, <2>2 DEF Has
<1> HIDE DEF q
<1>6. Bytes(b, x) = s
  <2>1. Slice(b, q, Len(s)) = s
    BY <1>3, <1>5, SliceHas
  <2> QED BY <1>2, <2>1 DEF Bytes
<1>7. Len(s) >= 1 => b[q] = s[1]
  <2> SUFFICES ASSUME Len(s) >= 1 PROVE b[q] = s[1]
    OBVIOUS
  <2>1. 1 \in 1..Len(s) /\ q + 1 - 1 = q
    BY <1>4
  <2>2. b[q + 1 - 1] = s[1]
    BY <1>5, <2>1 DEF Has
  <2> QED BY <2>1, <2>2
<1>8. Carries(b, x, list, s)
  BY <1>2, <1>4, <1>5, <1>6, <1>7 DEF Carries
<1>9. x.from + x.len = p + Len(e)
  BY <1>2, <1>4
<1> QED BY <1>1, <1>8, <1>9

\* An element of a list lies within it.
LEMMA ElementLies ==
  ASSUME NEW b, Octets(b), NEW from, NEW F, Has(b, from, F), NEW e, NEW n \in Nat, NEW o, Laid(e, n, F, o),
         NEW k \in 1..n, o[k + 1] <= Len(F)
  PROVE  LiesAt(b, from + o[k], from + Len(F) - 1, e[k])
<1> DEFINE p == from + o[k]
           a == e[k]
<1>1. from \in Int /\ from >= 1 /\ from + Len(F) <= Len(b) + 1 /\ \A i \in 1..Len(F) : b[from + i - 1] = F[i]
  BY DEF Has
<1>2. o[k] \in Nat /\ o[k + 1] = o[k] + Len(a) /\ \A j \in 1..Len(a) : F[o[k] + j] = a[j]
  BY DEF Laid
<1>3. Len(F) \in Nat /\ Len(a) \in Nat /\ Len(b) \in Nat
  BY Joined
<1>4. p \in Int /\ p >= 1 /\ p + Len(a) <= from + Len(F)
  BY <1>1, <1>2, <1>3, SMTT(30)
<1>5. ASSUME NEW j \in 1..Len(a) PROVE b[p + j - 1] = a[j]
  <2>1. o[k] + j \in 1..Len(F) /\ from + (o[k] + j) - 1 = p + j - 1
    <3> DEFINE u == o[k]
               v == Len(F)
               w == Len(a)
    <3>1. u \in Nat /\ v \in Nat /\ w \in Nat /\ u + w <= v /\ from \in Int /\ j \in 1..w
      BY <1>1, <1>2, <1>3
    <3> HIDE DEF u, v, w
    <3>2. u + j \in 1..v /\ from + (u + j) - 1 = from + u + j - 1
      BY <3>1
    <3> QED BY <3>2 DEF u, v
  <2>2. b[from + (o[k] + j) - 1] = F[o[k] + j]
    BY <1>1, <2>1
  <2> QED BY <1>2, <2>1, <2>2
<1> HIDE DEF p, a
<1>6. Has(b, p, a)
  BY <1>1, <1>3, <1>4, <1>5 DEF Has
<1>7. from + Len(F) - 1 \in Int /\ p + Len(a) <= (from + Len(F) - 1) + 1
  BY <1>1, <1>3, <1>4
<1>8. LiesAt(b, p, from + Len(F) - 1, a)
  BY <1>6, <1>7 DEF LiesAt
<1> QED BY <1>8 DEF p, a

Pieces(e, n, l, s) == Len(e) = n /\ \A i \in 1..n : IsPiece(e[i], l[i], s[i])
\* g is m items, which carry what l and s say from k on.
Carried(b, g, l, s, k, m) ==
  Len(g) = m /\ DOMAIN g = 1..m /\ \A i \in 1..m : Carries(b, g[i], l[k + i - 1], s[k + i - 1])
LEMMA CarriedMore ==
  ASSUME NEW b, NEW g, NEW l, NEW s, NEW k \in Int, NEW m \in Nat, Carried(b, g, l, s, k + 1, m),
         NEW y, Carries(b, y, l[k], s[k])
  PROVE  Carried(b, <<y>> \o g, l, s, k, m + 1)
<1> DEFINE u == <<y>>
           h == u \o g
<1>1. Len(u) = 1 /\ u[1] = y
  OBVIOUS
<1> HIDE DEF u
<1>2. Len(g) = m /\ \A i \in 1..m : Carries(b, g[i], l[(k + 1) + i - 1], s[(k + 1) + i - 1])
  BY DEF Carried
<1>3. /\ Len(h) = 1 + m /\ DOMAIN h = 1..1 + m
      /\ \A i \in 1..1 : h[i] = u[i]
      /\ \A i \in 1..m : h[1 + i] = g[i]
  <2>1. /\ Len(h) = Len(u) + Len(g) /\ DOMAIN h = 1..Len(u) + Len(g)
        /\ \A i \in 1..Len(u) : h[i] = u[i]
        /\ \A i \in 1..Len(g) : h[Len(u) + i] = g[i]
    BY Joined
  <2>2. Len(u) = 1 /\ Len(g) = m
    BY <1>1, <1>2
  <2> HIDE DEF h
  <2> QED BY <2>1, <2>2
<1> HIDE DEF h
<1>4. ASSUME NEW i \in 1..m + 1 PROVE Carries(b, h[i], l[k + i - 1], s[k + i - 1])
  <2>1. CASE i = 1
    <3>1. h[i] = y /\ k + i - 1 = k
      BY <1>1, <1>3, <2>1
    <3> QED BY <3>1
  <2>2. CASE i # 1
    <3> DEFINE j == i - 1
    <3>1. j \in 1..m /\ 1 + j = i /\ (k + 1) + j - 1 = k + i - 1
      BY <2>2
    <3> HIDE DEF j
    <3>2. h[i] = g[j]
      BY <1>3, <3>1
    <3>3. Carries(b, g[j], l[(k + 1) + j - 1], s[(k + 1) + j - 1])
      BY <1>2, <3>1
    <3> QED BY <3>1, <3>2, <3>3
  <2> QED BY <2>1, <2>2
<1>5. 1 + m = m + 1
  OBVIOUS
<1>6. Carried(b, h, l, s, k, m + 1)
  BY <1>3, <1>4, <1>5 DEF Carried
<1> QED BY <1>6 DEF h, u

\* The elements that were put in a list are what is read from it.
LEMMA ItemsRead ==
  ASSUME NEW b, Octets(b), NEW e, NEW n \in Nat, n >= 1, NEW l, NEW s, Pieces(e, n, l, s),
         NEW x, Has(b, x.from, FlattenSeq(e)), x.len = Len(FlattenSeq(e))
  PROVE  Carried(b, rlp_iter(b, x), l, s, 1, n)
<1> DEFINE F == FlattenSeq(e)
           from == x.from
           last == from + Len(F) - 1
<1>1. Len(e) = n /\ \A i \in 1..n : IsPiece(e[i], l[i], s[i]) /\ Octets(e[i])
  BY DEF Pieces, IsPiece
<1>2. PICK o : Laid(e, n, F, o)
  BY <1>1, Flattened
<1>3. from \in Int /\ from >= 1 /\ Len(F) \in Nat /\ from + Len(F) <= Len(b) + 1
  BY Joined DEF Has
<1>4. PICK f : Iterated(b, last, from..from + Len(F), f) /\ rlp_iter(b, x) = f[from]
  BY <1>3, Iterates
<1>5. Has(b, from, F)
  OBVIOUS
<1> HIDE DEF F, from
<1>6. last \in Int /\ last + 1 = from + Len(F)
  BY <1>3
<1> HIDE DEF last
<1>7. o[1] = 0 /\ Len(F) = o[n + 1] /\ \A k \in 1..n : o[k] \in Nat /\ o[k + 1] = o[k] + Len(e[k])
  BY <1>2 DEF Laid
<1>8. ASSUME NEW p \in from..from + Len(F) PROVE f[p] = ItemsFrom(b, last, p, f)
  BY <1>4, <1>8 DEF Iterated
<1> DEFINE S == {m \in Nat : m <= n => o[n - m + 1] <= Len(F) /\ Carried(b, f[from + o[n - m + 1]], l, s, n - m + 1, m)}
<1>9. 0 \in S
  <2>1. from + Len(F) \in from..from + Len(F) /\ from + Len(F) > last
    BY <1>3, <1>6
  <2>2. f[from + Len(F)] = <<>>
    BY <1>8, <2>1 DEF ItemsFrom
  <2>3. Carried(b, <<>>, l, s, n + 1, 0)
    BY DEF Carried
  <2>4. n - 0 + 1 = n + 1 /\ o[n + 1] = Len(F)
    BY <1>7
  <2> QED BY <1>3, <2>2, <2>3, <2>4, SMTT(30)
<1>10. ASSUME NEW m \in Nat, m \in S PROVE m + 1 \in S
  <2> SUFFICES ASSUME m + 1 <= n
               PROVE  /\ o[n - (m + 1) + 1] <= Len(F)
                      /\ Carried(b, f[from + o[n - (m + 1) + 1]], l, s, n - (m + 1) + 1, m + 1)
    OBVIOUS
  <2> DEFINE k == n - m
             p == from + o[k]
             y == rlp_decode_item(b, p, last)
  <2>1. k \in 1..n /\ n - (m + 1) + 1 = k /\ n - m + 1 = k + 1
    OBVIOUS
  <2>2. o[k + 1] <= Len(F) /\ Carried(b, f[from + o[k + 1]], l, s, k + 1, m)
    BY <1>10, <2>1
  <2> HIDE DEF k, S
  <2>3. o[k] \in Nat /\ o[k + 1] = o[k] + Len(e[k]) /\ Len(e[k]) \in Nat /\ IsPiece(e[k], l[k], s[k])
    BY <1>1, <1>7, <2>1, Joined
  <2>4. Len(e[k]) >= 1
    BY <2>3 DEF IsPiece
  <2>5. o[k] <= Len(F) /\ p \in from..from + Len(F) /\ ~(p > last)
    <3> HIDE DEF y
    <3>1. o[k] < Len(F)
      BY <1>3, <2>2, <2>3, <2>4
    <3>2. p \in Int /\ p >= from /\ p < from + Len(F)
      <4> DEFINE a == o[k]
      <4>1. a \in Nat /\ a < Len(F)
        BY <2>3, <3>1
      <4> HIDE DEF a
      <4>2. from + a \in Int /\ from + a >= from /\ from + a < from + Len(F)
        BY <1>3, <4>1
      <4> QED BY <4>2 DEF a
    <3> HIDE DEF p
    <3> QED BY <1>3, <1>6, <2>3, <3>1, <3>2
  <2>6. LiesAt(b, p, last, e[k])
    <3>1. LiesAt(b, from + o[k], from + Len(F) - 1, e[k])
      BY <1>2, <1>5, <2>1, <2>2, ElementLies
    <3> QED BY <3>1 DEF last
  <2> HIDE DEF p
  <2>7. Carries(b, y, l[k], s[k]) /\ y.from + y.len = p + Len(e[k])
    BY <2>3, <2>6, PieceRead
  <2>8. y.ok
    BY <2>7 DEF Carries
  <2>9. f[p] = <<y>> \o f[y.from + y.len]
    BY <1>8, <2>5, <2>8 DEF ItemsFrom
  <2> HIDE DEF y
  <2>10. y.from + y.len = from + o[k + 1]
    BY <1>3, <2>3, <2>7 DEF p
  <2>11. k \in Int
    BY <2>1
  <2>12. Carried(b, <<y>> \o f[from + o[k + 1]], l, s, k, m + 1)
    BY <2>2, <2>7, <2>11, CarriedMore
  <2>13. Carried(b, f[p], l, s, k, m + 1)
    BY <2>9, <2>10, <2>12
  <2> QED BY <2>1, <2>5, <2>13 DEF p
<1>11. n \in S
  <2>1. Nat \subseteq S
    <3> HIDE DEF S
    <3> QED BY <1>9, <1>10, SetInduction
  <2> QED BY <2>1
<1>12. Carried(b, f[from + o[1]], l, s, 1, n)
  <2>1. n - n + 1 = 1
    OBVIOUS
  <2> QED BY <1>11, <2>1
<1>13. from + o[1] = from
  BY <1>3, <1>7
<1> QED BY <1>4, <1>12, <1>13

\* A payload that is, from start on, one encoded list is read as that list.
LEMMA ListRead ==
  ASSUME NEW b, Octets(b), Len(b) < Huge, NEW start, NEW e, NEW n \in Nat, n >= 1, NEW l, NEW s, Pieces(e, n, l, s),
         Has(b, start, encodeList(e)), start + Len(encodeList(e)) = Len(b) + 1
  PROVE  LET x == rlp_decode_item(b, start, Len(b))
         IN x.ok /\ x.list = TRUE /\ Carried(b, rlp_iter(b, x), l, s, 1, n)
<1> DEFINE F == FlattenSeq(e)
           E == encodeList(e)
           x == rlp_decode_item(b, start, Len(b))
<1>1. Len(e) = n /\ \A i \in 1..n : Octets(e[i])
  BY DEF Pieces, IsPiece
<1>2. Octets(F)
  BY <1>1, Flattened
<1>3. Len(F) < Huge
  <2> DEFINE h == encodeLength(Len(F), 192)
  <2>1. E = h \o F
    BY DEF encodeList
  <2> HIDE DEF h, E, F
  <2>2. Len(E) = Len(h) + Len(F) /\ Len(h) \in Nat /\ Len(F) \in Nat /\ Len(b) \in Nat
    BY <2>1, Joined
  <2>3. start \in Int /\ start >= 1
    BY DEF Has
  <2>4. Huge \in Int
    BY DEF Huge
  <2>5. Len(F) <= Len(b)
    BY <2>2, <2>3 DEF E
  <2> QED BY <2>2, <2>4, <2>5
<1>4. IsPiece(E, TRUE, F)
  BY <1>2, <1>3, ListPiece
<1>5. LiesAt(b, start, Len(b), E)
  <2>1. Len(b) \in Int
    BY Joined
  <2>2. start + Len(E) <= Len(b) + 1
    BY <2>1
  <2> QED BY <2>1, <2>2 DEF LiesAt
<1> HIDE DEF E
<1>6. Carries(b, x, TRUE, F)
  BY <1>4, <1>5, PieceRead
<1> HIDE DEF x
<1>7. x.ok /\ x.list = TRUE /\ x.len = Len(FlattenSeq(e)) /\ Has(b, x.from, FlattenSeq(e))
  BY <1>6 DEF Carries
<1>8. Carried(b, rlp_iter(b, x), l, s, 1, n)
  BY <1>7, ItemsRead
<1> QED BY <1>7, <1>8 DEF x

\* The elements of an encoded list are no longer than it is.
LEMMA ElementShorter ==
  ASSUME NEW e, NEW n \in Nat, n >= 1, Len(e) = n, NEW i \in 1..n
  PROVE  Len(e[i]) <= Len(encodeList(e))
<1> DEFINE F == FlattenSeq(e)
           h == encodeLength(Len(F), 192)
<1>1. encodeList(e) = h \o F
  BY DEF encodeList
<1>2. Len(e[i]) <= Len(F)
  BY Flattened
<1> HIDE DEF h, F
<1>3. Len(h \o F) = Len(h) + Len(F) /\ Len(h) \in Nat /\ Len(F) \in Nat /\ Len(e[i]) \in Nat
  BY Joined
<1> QED BY <1>1, <1>2, <1>3
\* Nor are bytes longer than what they are encoded as.
LEMMA BytesShorter == ASSUME NEW s PROVE Len(s) <= Len(encodeBytes(s))
<1>1. Len(s) \in Nat
  BY Joined
<1>2. encodeBytes(s) = s \/ encodeBytes(s) = encodeLength(Len(s), 128) \o s
  BY DEF encodeBytes
<1>3. Len(encodeLength(Len(s), 128) \o s) >= Len(s)
  <2> DEFINE h == encodeLength(Len(s), 128)
  <2> HIDE DEF h
  <2>1. Len(h \o s) = Len(h) + Len(s) /\ Len(h) \in Nat
    BY Joined
  <2>2. Len(h \o s) >= Len(s)
    BY <1>1, <2>1
  <2> QED BY <2>2 DEF h
<1> QED BY <1>1, <1>2, <1>3

\* A number without leading zeros is its own canonical form.
LEMMA AlreadyCanonical ==
  ASSUME NEW s, Octets(s), s # <<>> => s[1] # 0
  PROVE  Canonical(s) = s
<1>1. Str(s) /\ Len(s) \in Nat
  BY DEF Octets, Str
<1>2. CASE Len(s) = 0
  <2>1. {i \in DOMAIN s : s[i] # 0} = {}
    BY <1>1, <1>2 DEF Str
  <2>2. s = <<>>
    BY <1>1, <1>2 DEF Str
  <2> QED BY <2>1, <2>2 DEF Canonical
<1>3. CASE Len(s) # 0
  <2>1. 1 \in 1..Len(s) /\ s # <<>>
    BY <1>1, <1>3
  <2>2. s[1] # 0 /\ \A i \in 1..1 - 1 : s[i] = 0
    BY <2>1
  <2>3. Canonical(s) = SubSeq(s, 1, Len(s))
    BY <1>1, <2>1, <2>2, CanonicalFrom
  <2>4. SubSeq(s, 1, Len(s)) = s
    <3>1. SubSeq(s, 1, Len(s)) = [i \in 1..Len(s) |-> s[i]]
      BY <1>1
    <3> QED BY <1>1, <3>1 DEF Str
  <2> QED BY <2>3, <2>4
<1> QED BY <1>2, <1>3

\* x is an item that is no list, with the bytes s.
Holds(b, x, s) == Carries(b, x, FALSE, s)
\* l says that none of the first n items is a list.
Plain(l, n) == \A i \in 1..n : l[i] = FALSE
\* Then each of them is one.
LEMMA HoldsAll ==
  ASSUME NEW b, NEW f, NEW l, NEW s, NEW m \in Nat, NEW n \in Nat, n <= m, Plain(l, n),
         Carried(b, f, l, s, 1, m)
  PROVE  Len(f) = m /\ DOMAIN f = 1..m /\ \A i \in 1..n : Holds(b, f[i], s[i])
<1>1. Len(f) = m /\ DOMAIN f = 1..m
  BY DEF Carried
<1>2. ASSUME NEW i \in 1..n PROVE Holds(b, f[i], s[i])
  <2>1. 1 + i - 1 = i /\ i \in 1..m
    OBVIOUS
  <2>2. Carries(b, f[i], l[1 + i - 1], s[1 + i - 1])
    BY <2>1 DEF Carried
  <2> QED BY <2>1, <2>2 DEF Holds, Plain
<1> QED BY <1>1, <1>2

\* A number is read back, when it has eight bytes or less.
LEMMA NumberRead ==
  ASSUME NEW b, NEW x, NEW s, Octets(s), s # <<>> => s[1] # 0, Holds(b, x, s)
  PROVE  (IsU64(b, x) <=> Len(s) <= 8) /\ rlp_to_u64(b, x) = s
<1>1. ~x.list /\ x.len = Len(s) /\ Bytes(b, x) = s /\ (Len(s) >= 1 => b[x.from] = s[1])
  BY DEF Holds, Carries
<1>2. Len(s) > 1 => b[x.from] # 0
  <2> SUFFICES ASSUME Len(s) > 1 PROVE b[x.from] # 0
    OBVIOUS
  <2>1. s # <<>> /\ Len(s) >= 1
    OBVIOUS
  <2> QED BY <1>1, <2>1
<1>3. Canonical(s) = s
  BY AlreadyCanonical
<1> QED BY <1>1, <1>2, <1>3 DEF IsU64, rlp_to_u64

\* What fits the fields of the decoder.
Fits(t) ==
  /\ Len(t.chainid) <= 8 /\ Len(t.nonce) <= 8 /\ Len(t.max_priority_fee_per_gas) <= 8
  /\ Len(t.max_fee_per_gas) <= 8 /\ Len(t.gas_limit) <= 8
  /\ Len(t.value) <= 32 /\ Len(t.to) \in {0, 20}
SameTx(d, t) ==
  /\ d.type = t.type /\ d.chainid = t.chainid /\ d.nonce = t.nonce
  /\ d.max_priority_fee_per_gas = t.max_priority_fee_per_gas /\ d.max_fee_per_gas = t.max_fee_per_gas
  /\ d.gas_limit = t.gas_limit /\ d.to = t.to /\ d.value = t.value /\ d.data = t.data
\* The fields of a transaction are bytes, its numbers without leading zeros.
LEMMA TxFields ==
  ASSUME NEW t, IsTx(t)
  PROVE  /\ \A f \in TxNumbers \cup {"to", "data"} : Octets(t[f])
         /\ \A f \in TxNumbers : t[f] # <<>> => t[f][1] # 0
  BY SeqOfBytes DEF IsTx

\* What both formats read alike.
Started(t) ==
  [ok |-> TRUE, type |-> 0, chainid |-> <<>>, nonce |-> <<>>, max_priority_fee_per_gas |-> <<>>,
   max_fee_per_gas |-> <<>>, gas_limit |-> <<>>, to |-> t.to, value |-> t.value, data |-> t.data]
LEMMA CommonRead ==
  ASSUME NEW b, NEW t, IsTx(t), NEW to, NEW value, NEW data,
         Holds(b, to, t.to), Holds(b, value, t.value), Holds(b, data, t.data)
  PROVE  /\ CommonOk(b, to, value, data) <=> Len(t.to) \in {0, 20} /\ Len(t.value) <= 32
         /\ Common(b, to, value, data) = Started(t)
<1>1. /\ ~to.list /\ to.len = Len(t.to) /\ Bytes(b, to) = t.to
      /\ ~value.list /\ value.len = Len(t.value) /\ Bytes(b, value) = t.value
      /\ ~data.list /\ Bytes(b, data) = t.data
  BY DEF Holds, Carries
<1>2. Canonical(t.value) = t.value
  BY TxFields, AlreadyCanonical DEF TxNumbers
<1> QED BY <1>1, <1>2 DEF CommonOk, Common, AddressItem, IsPadded, Started

\* The nine items of a legacy transaction are decoded to it.
LEMMA LegacyRead ==
  ASSUME NEW b, NEW t, IsTx(t), t.type = 0, NEW f, NEW l, Plain(l, 9),
         Carried(b, f, l, LegacyFields(t), 1, 9)
  PROVE  LET d == decode_legacy(b, f) IN (d.ok <=> Fits(t)) /\ (d.ok => SameTx(d, t))
<1> DEFINE s == LegacyFields(t)
           d == decode_legacy(b, f)
<1>1. /\ s[1] = t.nonce /\ s[2] = t.max_fee_per_gas /\ s[3] = t.gas_limit /\ s[4] = t.to /\ s[5] = t.value
      /\ s[6] = t.data /\ s[7] = t.chainid /\ s[8] = <<>> /\ s[9] = <<>>
  BY DEF LegacyFields
<1> HIDE DEF s
<1>2. Len(f) = 9 /\ DOMAIN f = 1..9 /\ \A i \in 1..9 : Holds(b, f[i], s[i])
  <2>1. PICK m \in Nat : m = 9
    OBVIOUS
  <2>2. m <= m /\ Plain(l, m) /\ Carried(b, f, l, s, 1, m)
    BY <2>1 DEF s
  <2>3. Len(f) = m /\ DOMAIN f = 1..m /\ \A i \in 1..m : Holds(b, f[i], s[i])
    BY <2>2, HoldsAll
  <2> QED BY <2>1, <2>3
<1>3. Octets(<<>>)
  <2>1. <<>> \in Seq(Byte)
    OBVIOUS
  <2> QED BY <2>1, SeqOfBytes
<1>4. ASSUME NEW i \in {1, 2, 3, 7, 8, 9}
      PROVE  (IsU64(b, f[i]) <=> Len(s[i]) <= 8) /\ rlp_to_u64(b, f[i]) = s[i]
  <2>1. Octets(s[i]) /\ (s[i] # <<>> => s[i][1] # 0)
    BY <1>1, <1>3, TxFields DEF TxNumbers
  <2>2. Holds(b, f[i], s[i])
    <3>1. i \in 1..9
      OBVIOUS
    <3> QED BY <1>2, <3>1
  <2> QED BY <2>1, <2>2, NumberRead
<1>5. \A i \in DOMAIN f : f[i].ok
  BY <1>2 DEF Holds, Carries
<1>6. /\ CommonOk(b, f[4], f[5], f[6]) <=> Len(t.to) \in {0, 20} /\ Len(t.value) <= 32
      /\ Common(b, f[4], f[5], f[6]) = Started(t)
  <2>1. Holds(b, f[4], t.to) /\ Holds(b, f[5], t.value) /\ Holds(b, f[6], t.data)
    <3>1. 4 \in 1..9 /\ 5 \in 1..9 /\ 6 \in 1..9
      OBVIOUS
    <3>2. Holds(b, f[4], s[4]) /\ Holds(b, f[5], s[5]) /\ Holds(b, f[6], s[6])
      BY <1>2, <3>1
    <3> QED BY <1>1, <3>2
  <2> QED BY <2>1, CommonRead
<1> DEFINE fine == /\ Len(f) \in {6, 9} /\ \A i \in DOMAIN f : f[i].ok
                   /\ \A i \in 1..3 : IsU64(b, f[i])
                   /\ CommonOk(b, f[4], f[5], f[6])
                   /\ \A i \in 7..Len(f) : IsU64(b, f[i])
                   /\ \A i \in 8..Len(f) : rlp_to_u64(b, f[i]) = <<>>
           n == [i \in {1, 2, 3} \cup 7..Len(f) |-> rlp_to_u64(b, f[i])]
           c == Common(b, f[4], f[5], f[6])
<1>7. d = IF fine THEN [c EXCEPT !.chainid = IF Len(f) = 9 THEN n[7] ELSE <<>>,
                                 !.nonce = n[1], !.max_fee_per_gas = n[2], !.gas_limit = n[3]]
          ELSE Malformed
  BY DEF decode_legacy
<1>8. n[1] = t.nonce /\ n[2] = t.max_fee_per_gas /\ n[3] = t.gas_limit /\ n[7] = t.chainid
  BY <1>1, <1>2, <1>4
<1>9. fine <=> Fits(t)
  <2>1. t.max_priority_fee_per_gas = <<>>
    BY DEF IsTx
  <2>2. (\A i \in 1..3 : IsU64(b, f[i])) <=> Len(t.nonce) <= 8 /\ Len(t.max_fee_per_gas) <= 8 /\ Len(t.gas_limit) <= 8
    BY <1>1, <1>4, SMTT(30)
  <2>3. (\A i \in 7..9 : IsU64(b, f[i])) <=> Len(t.chainid) <= 8
    <3>1. IsU64(b, f[8]) /\ IsU64(b, f[9]) /\ (IsU64(b, f[7]) <=> Len(t.chainid) <= 8)
      BY <1>1, <1>4
    <3> QED BY <3>1
  <2>4. \A i \in 8..9 : rlp_to_u64(b, f[i]) = <<>>
    BY <1>1, <1>4
  <2> QED BY <1>2, <1>5, <1>6, <2>1, <2>2, <2>3, <2>4 DEF Fits
<1> HIDE DEF fine, n, c, d
<1>10. CASE fine
  <2>1. d = [c EXCEPT !.chainid = n[7], !.nonce = n[1], !.max_fee_per_gas = n[2], !.gas_limit = n[3]]
    BY <1>2, <1>7, <1>10
  <2>2. c = Started(t)
    BY <1>6 DEF c
  <2>3. d.ok /\ d.type = 0 /\ d.chainid = n[7] /\ d.nonce = n[1] /\ d.max_priority_fee_per_gas = <<>>
    BY <2>1, <2>2 DEF Started
  <2>4. d.max_fee_per_gas = n[2] /\ d.gas_limit = n[3] /\ d.to = t.to /\ d.value = t.value /\ d.data = t.data
    BY <2>1, <2>2 DEF Started
  <2>5. t.max_priority_fee_per_gas = <<>>
    BY DEF IsTx
  <2>6. SameTx(d, t)
    BY <1>8, <2>3, <2>4, <2>5 DEF SameTx
  <2> QED BY <1>9, <1>10, <2>3, <2>6 DEF d
<1>11. CASE ~fine
  <2>1. ~d.ok
    BY <1>7, <1>11 DEF Malformed
  <2> QED BY <1>9, <1>11, <2>1 DEF d
<1> QED BY <1>10, <1>11

\* The nine items of a transaction of type 2 are decoded to it.
Layout(l, s, t) == Plain(l, 8) /\ l[9] = TRUE /\ \A i \in 1..8 : s[i] = Eip1559Fields(t)[i]
LEMMA Eip1559Read ==
  ASSUME NEW b, NEW t, IsTx(t), t.type = 2, NEW f, NEW l, NEW s, Layout(l, s, t), Carried(b, f, l, s, 1, 9)
  PROVE  LET d == decode_1559_body(b, f) IN (d.ok <=> Fits(t)) /\ (d.ok => SameTx(d, t))
<1> DEFINE d == decode_1559_body(b, f)
<1>1. /\ s[1] = t.chainid /\ s[2] = t.nonce /\ s[3] = t.max_priority_fee_per_gas /\ s[4] = t.max_fee_per_gas
      /\ s[5] = t.gas_limit /\ s[6] = t.to /\ s[7] = t.value /\ s[8] = t.data
  BY DEF Eip1559Fields, Layout
<1>2. Len(f) = 9 /\ \A i \in 1..8 : Holds(b, f[i], s[i])
  <2>1. 8 \in Nat /\ 9 \in Nat /\ 8 <= 9 /\ Plain(l, 8)
    BY DEF Layout
  <2> QED BY <2>1, HoldsAll
<1>3. f[9].ok /\ f[9].list
  <2>1. 9 \in 1..9 /\ 1 + 9 - 1 = 9
    OBVIOUS
  <2>2. Carries(b, f[9], l[1 + 9 - 1], s[1 + 9 - 1])
    BY <2>1 DEF Carried
  <2>3. f[9].ok /\ f[9].list = l[9]
    BY <2>1, <2>2 DEF Carries
  <2> QED BY <2>3 DEF Layout
<1>4. ASSUME NEW i \in 1..5
      PROVE  (IsU64(b, f[i]) <=> Len(s[i]) <= 8) /\ rlp_to_u64(b, f[i]) = s[i]
  <2>1. Octets(s[i]) /\ (s[i] # <<>> => s[i][1] # 0)
    BY <1>1, TxFields DEF TxNumbers
  <2>2. Holds(b, f[i], s[i])
    <3>1. i \in 1..8
      OBVIOUS
    <3> QED BY <1>2, <3>1
  <2> QED BY <2>1, <2>2, NumberRead
<1>5. \A i \in 1..9 : f[i].ok
  <2>1. \A i \in 1..8 : f[i].ok
    BY <1>2 DEF Holds, Carries
  <2>2. \A i \in 1..9 : i \in 1..8 \/ i = 9
    OBVIOUS
  <2> QED BY <1>3, <2>1, <2>2
<1>6. /\ CommonOk(b, f[6], f[7], f[8]) <=> Len(t.to) \in {0, 20} /\ Len(t.value) <= 32
      /\ Common(b, f[6], f[7], f[8]) = Started(t)
  <2>1. Holds(b, f[6], t.to) /\ Holds(b, f[7], t.value) /\ Holds(b, f[8], t.data)
    <3>1. 6 \in 1..8 /\ 7 \in 1..8 /\ 8 \in 1..8
      OBVIOUS
    <3>2. Holds(b, f[6], s[6]) /\ Holds(b, f[7], s[7]) /\ Holds(b, f[8], s[8])
      BY <1>2, <3>1
    <3> QED BY <1>1, <3>2
  <2> QED BY <2>1, CommonRead
<1> DEFINE fine == /\ Len(f) = 9 /\ \A i \in 1..9 : f[i].ok
                   /\ \A i \in 1..5 : IsU64(b, f[i])
                   /\ CommonOk(b, f[6], f[7], f[8]) /\ f[9].list
           n == [i \in 1..5 |-> rlp_to_u64(b, f[i])]
           c == Common(b, f[6], f[7], f[8])
<1>7. d = IF fine THEN [c EXCEPT !.type = 2, !.chainid = n[1], !.nonce = n[2],
                          !.max_priority_fee_per_gas = n[3], !.max_fee_per_gas = n[4], !.gas_limit = n[5]]
          ELSE Malformed
  BY DEF decode_1559_body
<1>8. /\ n[1] = t.chainid /\ n[2] = t.nonce /\ n[3] = t.max_priority_fee_per_gas
      /\ n[4] = t.max_fee_per_gas /\ n[5] = t.gas_limit
  BY <1>1, <1>4
<1>9. fine <=> Fits(t)
  <2>1. (\A i \in 1..5 : IsU64(b, f[i])) <=>
           /\ Len(t.chainid) <= 8 /\ Len(t.nonce) <= 8 /\ Len(t.max_priority_fee_per_gas) <= 8
           /\ Len(t.max_fee_per_gas) <= 8 /\ Len(t.gas_limit) <= 8
    <3>1. \A i \in 1..5 : i = 1 \/ i = 2 \/ i = 3 \/ i = 4 \/ i = 5
      OBVIOUS
    <3>2. (IsU64(b, f[1]) <=> Len(t.chainid) <= 8) /\ (IsU64(b, f[2]) <=> Len(t.nonce) <= 8)
      BY <1>1, <1>4
    <3>3. IsU64(b, f[3]) <=> Len(t.max_priority_fee_per_gas) <= 8
      BY <1>1, <1>4
    <3>4. (IsU64(b, f[4]) <=> Len(t.max_fee_per_gas) <= 8) /\ (IsU64(b, f[5]) <=> Len(t.gas_limit) <= 8)
      BY <1>1, <1>4
    <3>5. 1 \in 1..5 /\ 2 \in 1..5 /\ 3 \in 1..5 /\ 4 \in 1..5 /\ 5 \in 1..5
      OBVIOUS
    <3>6. (\A i \in 1..5 : IsU64(b, f[i])) <=>
            IsU64(b, f[1]) /\ IsU64(b, f[2]) /\ IsU64(b, f[3]) /\ IsU64(b, f[4]) /\ IsU64(b, f[5])
      BY <3>1, <3>5
    <3> QED BY <3>2, <3>3, <3>4, <3>6
  <2> QED BY <1>2, <1>3, <1>5, <1>6, <2>1 DEF Fits
<1> HIDE DEF fine, n, c, d
<1>10. CASE fine
  <2>1. d = [c EXCEPT !.type = 2, !.chainid = n[1], !.nonce = n[2],
               !.max_priority_fee_per_gas = n[3], !.max_fee_per_gas = n[4], !.gas_limit = n[5]]
    BY <1>7, <1>10
  <2>2. c = Started(t)
    BY <1>6 DEF c
  <2>3. d.ok /\ d.type = 2 /\ d.chainid = n[1] /\ d.nonce = n[2] /\ d.max_priority_fee_per_gas = n[3]
    BY <2>1, <2>2 DEF Started
  <2>4. d.max_fee_per_gas = n[4] /\ d.gas_limit = n[5] /\ d.to = t.to /\ d.value = t.value /\ d.data = t.data
    BY <2>1, <2>2 DEF Started
  <2>5. SameTx(d, t)
    BY <1>8, <2>3, <2>4 DEF SameTx
  <2> QED BY <1>9, <1>10, <2>3, <2>5 DEF d
<1>11. CASE ~fine
  <2>1. ~d.ok
    BY <1>7, <1>11 DEF Malformed
  <2> QED BY <1>9, <1>11, <2>1 DEF d
<1> QED BY <1>10, <1>11

\* The bytes that are encoded one by one are pieces, if none is too long.
LEMMA BytesPieces ==
  ASSUME NEW s, NEW n \in Nat, \A i \in 1..n : Octets(s[i]) /\ Len(s[i]) < Huge
  PROVE  \A i \in 1..n : IsPiece(encodeBytes(s[i]), FALSE, s[i])
  BY BytesPiece
\* An empty access list is one, too.
LEMMA NoAccess == IsPiece(encodeList(<<>>), TRUE, <<>>)
<1>1. FlattenSeq(<<>>) = <<>>
  BY DEF FlattenSeq
<1>2. <<>> \in Seq(Byte) /\ Len(<<>>) < Huge
  BY DEF Huge
<1>3. Octets(FlattenSeq(<<>>)) /\ Len(FlattenSeq(<<>>)) < Huge
  BY <1>1, <1>2, SeqOfBytes
<1>4. IsPiece(encodeList(<<>>), TRUE, FlattenSeq(<<>>))
  BY <1>3, ListPiece
<1> QED BY <1>1, <1>4

\* A list does not begin with the byte of a transaction type.
LEMMA ListBegins ==
  ASSUME NEW e, Octets(FlattenSeq(e)), Len(FlattenSeq(e)) < Huge
  PROVE  Octets(encodeList(e)) /\ encodeList(e) # <<>> /\ encodeList(e)[1] # 2
<1> DEFINE F == FlattenSeq(e)
           E == encodeList(e)
           b == E
<1>1. IsPiece(E, TRUE, F)
  BY ListPiece
<1> HIDE DEF E, F
<1>2. Octets(E) /\ Len(E) >= 1 /\ Len(E) \in Nat
  BY <1>1 DEF IsPiece, Octets, Str
<1>3. LiesAt(E, 1, Len(E), E)
  <2>1. \A i \in 1..Len(E) : 1 + i - 1 = i
    OBVIOUS
  <2>2. \A i \in 1..Len(E) : E[1 + i - 1] = E[i]
    BY <2>1
  <2> QED BY <1>2, <2>2 DEF LiesAt, Has
<1>4. Carries(E, rlp_decode_item(E, 1, Len(E)), TRUE, F)
  BY <1>1, <1>3, PieceRead
<1>5. rlp_decode_item(E, 1, Len(E)).list = TRUE /\ rlp_decode_item(E, 1, Len(E)).ok
  BY <1>4 DEF Carries
<1>6. E[1] # 2
  <2> SUFFICES ASSUME E[1] = 2 PROVE FALSE
    OBVIOUS
  <2>1. rlp_decode_item(E, 1, Len(E)) = Item(FALSE, 1, 1)
    <3>1. ~(1 > Len(E)) /\ E[1] <= 127
      BY <1>2
    <3> QED BY <3>1, Zenon DEF rlp_decode_item
  <2>2. Item(FALSE, 1, 1).list = FALSE
    BY DEF Item
  <2> QED BY <1>5, <2>1, <2>2
<1>7. E # <<>>
  BY <1>2
<1> QED BY <1>2, <1>6, <1>7 DEF E

\* encodeLegacy: its nine pieces.
LEMMA LegacyPieces ==
  ASSUME NEW t, IsTx(t), Len(encodeLegacy(t)) < Huge
  PROVE  LET e == [i \in 1..9 |-> encodeBytes(LegacyFields(t)[i])]
         IN Pieces(e, 9, [i \in 1..9 |-> FALSE], LegacyFields(t)) /\ encodeLegacy(t) = encodeList(e)
<1> DEFINE s == LegacyFields(t)
           e == [i \in 1..9 |-> encodeBytes(s[i])]
<1>1. encodeLegacy(t) = encodeList(e)
  BY DEF encodeLegacy
<1>2. Octets(<<>>)
  <2>1. <<>> \in Seq(Byte)
    OBVIOUS
  <2> QED BY <2>1, SeqOfBytes
<1>3. /\ s[1] = t.nonce /\ s[2] = t.max_fee_per_gas /\ s[3] = t.gas_limit /\ s[4] = t.to /\ s[5] = t.value
      /\ s[6] = t.data /\ s[7] = t.chainid /\ s[8] = <<>> /\ s[9] = <<>>
  BY DEF LegacyFields
<1> HIDE DEF s
<1>4. Octets(s[1]) /\ Octets(s[2]) /\ Octets(s[3]) /\ Octets(s[4]) /\ Octets(s[5]) /\ Octets(s[6]) /\ Octets(s[7])
  BY <1>3, TxFields DEF TxNumbers
<1>5. \A i \in 1..9 : Octets(s[i])
  <2>1. \A i \in 1..9 : i = 1 \/ i = 2 \/ i = 3 \/ i = 4 \/ i = 5 \/ i = 6 \/ i = 7 \/ i = 8 \/ i = 9
    OBVIOUS
  <2> QED BY <1>2, <1>3, <1>4, <2>1
<1>6. Len(e) = 9 /\ \A i \in 1..9 : e[i] = encodeBytes(s[i])
  OBVIOUS
<1> HIDE DEF e
<1>7. ASSUME NEW i \in 1..9 PROVE Len(s[i]) < Huge
  <2>3. 9 \in Nat /\ 9 >= 1 /\ Len(e) = 9
    BY <1>6
  <2>1. Len(e[i]) <= Len(encodeList(e)) /\ Len(s[i]) <= Len(encodeBytes(s[i]))
    BY <2>3, ElementShorter, BytesShorter
  <2>2. Len(e[i]) \in Nat /\ Len(encodeList(e)) \in Nat /\ Len(s[i]) \in Nat /\ Huge \in Int
    BY Joined DEF Huge
  <2> QED BY <1>1, <1>6, <2>1, <2>2, SMTT(30)
<1>8. \A i \in 1..9 : IsPiece(encodeBytes(s[i]), FALSE, s[i])
  BY <1>5, <1>7, BytesPieces
<1>9. Pieces(e, 9, [i \in 1..9 |-> FALSE], s)
  BY <1>6, <1>8 DEF Pieces
<1> QED BY <1>1, <1>9 DEF e, s

\* encodeEip1559: the type, and its nine pieces.
LEMMA Eip1559Pieces ==
  ASSUME NEW t, IsTx(t), Len(encodeEip1559(t, <<>>)) < Huge
  PROVE  \E e, s : /\ Pieces(e, 9, [i \in 1..9 |-> IF i = 9 THEN TRUE ELSE FALSE], s) /\ \A i \in 1..8 : s[i] = Eip1559Fields(t)[i]
                   /\ encodeEip1559(t, <<>>) = <<2>> \o encodeList(e)
                   /\ Len(encodeList(e)) < Huge
<1> DEFINE a == Eip1559Fields(t)
           s == [i \in 1..9 |-> IF i = 9 THEN <<>> ELSE a[i]]
           h == [i \in 1..8 |-> encodeBytes(a[i])]
           z == <<encodeList(<<>>)>>
           e == h \o z
           l == [i \in 1..9 |-> IF i = 9 THEN TRUE ELSE FALSE]
<1>1. encodeEip1559(t, <<>>) = <<2>> \o encodeList(e)
  BY DEF encodeEip1559
<1>2. /\ a[1] = t.chainid /\ a[2] = t.nonce /\ a[3] = t.max_priority_fee_per_gas /\ a[4] = t.max_fee_per_gas
      /\ a[5] = t.gas_limit /\ a[6] = t.to /\ a[7] = t.value /\ a[8] = t.data
  BY DEF Eip1559Fields
<1> HIDE DEF a
<1>3. \A i \in 1..8 : Octets(a[i])
  <2>1. /\ Octets(a[1]) /\ Octets(a[2]) /\ Octets(a[3]) /\ Octets(a[4]) /\ Octets(a[5])
        /\ Octets(a[6]) /\ Octets(a[7]) /\ Octets(a[8])
    BY <1>2, TxFields DEF TxNumbers
  <2>2. \A i \in 1..8 : i = 1 \/ i = 2 \/ i = 3 \/ i = 4 \/ i = 5 \/ i = 6 \/ i = 7 \/ i = 8
    OBVIOUS
  <2> QED BY <2>1, <2>2
<1>4. Len(h) = 8 /\ \A i \in 1..8 : h[i] = encodeBytes(a[i])
  OBVIOUS
<1>5. Len(z) = 1 /\ z[1] = encodeList(<<>>)
  OBVIOUS
<1>6. s[9] = <<>> /\ \A i \in 1..8 : s[i] = a[i]
  OBVIOUS
<1>7. l[9] = TRUE /\ \A i \in 1..8 : l[i] = FALSE
  OBVIOUS
<1> HIDE DEF h, z, s
<1>8. Len(e) = 9 /\ e[9] = encodeList(<<>>) /\ \A i \in 1..8 : e[i] = encodeBytes(a[i])
  <2>1. Len(e) = Len(h) + Len(z) /\ \A i \in 1..Len(h) : e[i] = h[i]
    BY Joined
  <2>2. \A i \in 1..Len(z) : e[Len(h) + i] = z[i]
    BY Joined
  <2> HIDE DEF e
  <2>3. e[8 + 1] = z[1]
    BY <1>4, <1>5, <2>2
  <2> QED BY <1>4, <1>5, <2>1, <2>3
<1> HIDE DEF e
<1>9. Len(encodeList(e)) < Huge
  <2>1. Len(<<2>>) = 1
    OBVIOUS
  <2>2. Len(<<2>> \o encodeList(e)) = Len(<<2>>) + Len(encodeList(e)) /\ Len(encodeList(e)) \in Nat
    BY Joined
  <2>3. Huge \in Int
    BY DEF Huge
  <2> QED BY <1>1, <2>1, <2>2, <2>3
<1>10. ASSUME NEW i \in 1..8 PROVE Len(a[i]) < Huge
  <2>1. i \in 1..9 /\ 9 \in Nat /\ 9 >= 1
    OBVIOUS
  <2>2. Len(e[i]) <= Len(encodeList(e)) /\ Len(a[i]) <= Len(encodeBytes(a[i]))
    BY <1>8, <2>1, ElementShorter, BytesShorter
  <2>3. Len(e[i]) \in Nat /\ Len(encodeList(e)) \in Nat /\ Len(a[i]) \in Nat /\ Huge \in Int
    BY Joined DEF Huge
  <2>4. e[i] = encodeBytes(a[i])
    BY <1>8
  <2> QED BY <1>9, <2>2, <2>3, <2>4
<1>11. \A i \in 1..8 : IsPiece(encodeBytes(a[i]), FALSE, a[i])
  BY <1>3, <1>10, BytesPieces
<1>12. ASSUME NEW i \in 1..9 PROVE IsPiece(e[i], l[i], s[i])
  <2>1. CASE i = 9
    <3>1. l[i] = TRUE /\ s[i] = <<>> /\ e[i] = encodeList(<<>>)
      BY <1>6, <1>7, <1>8, <2>1
    <3> QED BY <3>1, NoAccess
  <2>2. CASE i # 9
    <3>1. i \in 1..8
      BY <2>2
    <3>2. l[i] = FALSE /\ s[i] = a[i] /\ e[i] = encodeBytes(a[i])
      BY <1>6, <1>7, <1>8, <3>1
    <3> QED BY <1>11, <3>1, <3>2
  <2> QED BY <2>1, <2>2
<1>13. Pieces(e, 9, l, s)
  <2> HIDE DEF l
  <2> QED BY <1>8, <1>12 DEF Pieces
<1>14. \A i \in 1..8 : s[i] = Eip1559Fields(t)[i]
  BY <1>6 DEF a
<1> QED BY <1>1, <1>9, <1>13, <1>14

\* What the extension encodes, with whatever numbers, is decoded by the
\* cartridge, if every number and address has a size that it takes, and then to
\* the transaction that was encoded (rlp.ts and tx.ts against rlp.c and eth_tx.c).
THEOREM TransactionIsRead ==
  ASSUME NEW t, IsTx(t), Len(encodeTx(t)) < Huge
  PROVE  LET d == eth_tx_decode(encodeTx(t)) IN (d.ok <=> Fits(t)) /\ (d.ok => SameTx(d, t))
<1> DEFINE b == encodeTx(t)
           start == IF b # <<>> /\ b[1] = 2 THEN 2 ELSE 1
           x == rlp_decode_item(b, start, Len(b))
           f == rlp_iter(b, x)
           d == eth_tx_decode(b)
<1>1. d = IF x.ok /\ x.list THEN IF start = 2 THEN decode_1559_body(b, f) ELSE decode_legacy(b, f) ELSE Malformed
  BY DEF eth_tx_decode
<1>2. CASE t.type = 0
  <2> DEFINE e == [i \in 1..9 |-> encodeBytes(LegacyFields(t)[i])]
             l == [i \in 1..9 |-> FALSE]
  <2>1. b = encodeLegacy(t)
    BY <1>2 DEF encodeTx
  <2>2. Pieces(e, 9, l, LegacyFields(t)) /\ b = encodeList(e)
    BY <2>1, LegacyPieces
  <2>3. Plain(l, 9)
    BY DEF Plain
  <2> HIDE DEF e, l
  <2>4. Octets(FlattenSeq(e)) /\ Len(FlattenSeq(e)) < Huge
    <3>1. Len(e) = 9 /\ 9 \in Nat /\ 9 >= 1 /\ \A i \in 1..9 : Octets(e[i])
      BY <2>2 DEF Pieces, IsPiece
    <3>2. Octets(FlattenSeq(e))
      BY <3>1, Flattened
    <3> DEFINE F == FlattenSeq(e)
               h == encodeLength(Len(F), 192)
    <3>3. b = h \o F
      BY <2>2 DEF encodeList
    <3>4. Len(b) < Huge
      OBVIOUS
    <3> HIDE DEF F, h, b
    <3>5. Len(b) = Len(h) + Len(F) /\ Len(h) \in Nat /\ Len(F) \in Nat /\ Huge \in Int
      BY <3>3, Joined DEF Huge
    <3>6. Len(F) < Huge
      BY <3>4, <3>5
    <3> QED BY <3>2, <3>6 DEF F
  <2>5. Octets(b) /\ b # <<>> /\ b[1] # 2
    BY <2>2, <2>4, ListBegins
  <2>6. start = 1
    BY <2>5
  <2>7. Has(b, 1, encodeList(e)) /\ 1 + Len(encodeList(e)) = Len(b) + 1
    <3>1. Len(b) \in Nat
      BY Joined
    <3> HIDE DEF b
    <3>2. \A i \in 1..Len(b) : 1 + i - 1 = i
      OBVIOUS
    <3>3. \A i \in 1..Len(b) : b[1 + i - 1] = b[i]
      BY <3>2
    <3> QED BY <2>2, <3>1, <3>3 DEF Has
  <2>8. Len(b) < Huge
    OBVIOUS
  <2> HIDE DEF b, start
  <2>9. x.ok /\ x.list = TRUE /\ Carried(b, f, l, LegacyFields(t), 1, 9)
    <3>1. 9 \in Nat /\ 9 >= 1
      OBVIOUS
    <3> QED BY <2>2, <2>5, <2>6, <2>7, <2>8, <3>1, ListRead
  <2> HIDE DEF x, f
  <2>10. d = decode_legacy(b, f)
    BY <1>1, <2>6, <2>9
  <2>11. (decode_legacy(b, f).ok <=> Fits(t)) /\ (decode_legacy(b, f).ok => SameTx(decode_legacy(b, f), t))
    BY <1>2, <2>3, <2>9, LegacyRead
  <2> QED BY <2>10, <2>11 DEF b
<1>3. CASE t.type = 2
  <2> DEFINE l == [i \in 1..9 |-> IF i = 9 THEN TRUE ELSE FALSE]
  <2>1. b = encodeEip1559(t, <<>>)
    BY <1>3 DEF encodeTx
  <2>2. PICK e, s : /\ Pieces(e, 9, l, s) /\ \A i \in 1..8 : s[i] = Eip1559Fields(t)[i]
                    /\ b = <<2>> \o encodeList(e) /\ Len(encodeList(e)) < Huge
    BY <2>1, Eip1559Pieces
  <2>3. Layout(l, s, t)
    BY <2>2 DEF Plain, Layout
  <2> HIDE DEF l
  <2> DEFINE E == encodeList(e)
             h == <<2>>
  <2>4. Octets(FlattenSeq(e)) /\ Len(FlattenSeq(e)) < Huge
    <3>1. Len(e) = 9 /\ 9 \in Nat /\ 9 >= 1 /\ \A i \in 1..9 : Octets(e[i])
      BY <2>2 DEF Pieces, IsPiece
    <3>2. Octets(FlattenSeq(e))
      BY <3>1, Flattened
    <3> DEFINE F == FlattenSeq(e)
               g == encodeLength(Len(F), 192)
    <3>3. E = g \o F
      BY DEF encodeList
    <3>4. Len(E) < Huge
      BY <2>2
    <3> HIDE DEF F, g, E
    <3>5. Len(E) = Len(g) + Len(F) /\ Len(g) \in Nat /\ Len(F) \in Nat /\ Huge \in Int
      BY <3>3, Joined DEF Huge
    <3>6. Len(F) < Huge
      BY <3>4, <3>5
    <3> QED BY <3>2, <3>6 DEF F
  <2>5. Octets(E)
    BY <2>4, ListBegins
  <2>6. Len(h) = 1 /\ h[1] = 2 /\ Octets(h)
    <3>1. h \in Seq(Byte)
      BY DEF Byte
    <3> QED BY <3>1, SeqOfBytes
  <2>7. b = h \o E
    BY <2>2
  <2>8. Len(b) < Huge
    OBVIOUS
  <2> HIDE DEF b, h, E
  <2>9. Octets(b) /\ Len(b) = 1 + Len(E) /\ Len(E) \in Nat
    <3>1. Octets(h \o E) /\ Len(h \o E) = Len(h) + Len(E)
      BY <2>5, <2>6, OctetsJoin
    <3>2. Len(E) \in Nat
      BY Joined
    <3> QED BY <2>6, <2>7, <3>1, <3>2
  <2>10. b[1] = 2 /\ b # <<>>
    <3>1. \A i \in 1..Len(h) : b[i] = h[i]
      BY <2>7, Joined
    <3>2. 1 \in 1..Len(h)
      BY <2>6
    <3> QED BY <2>6, <2>9, <3>1, <3>2
  <2>11. start = 2
    BY <2>10
  <2>12. Has(b, 2, E)
    <3>1. Has(b, 1, h \o E)
      <4>1. \A i \in 1..Len(b) : 1 + i - 1 = i
        BY <2>9
      <4>2. \A i \in 1..Len(b) : b[1 + i - 1] = b[i]
        BY <4>1
      <4>3. Has(b, 1, b)
        BY <2>9, <4>2 DEF Has
      <4> QED BY <2>7, <4>3
    <3>2. Has(b, 1 + Len(h), E)
      BY <3>1, HasParts
    <3> QED BY <2>6, <3>2
  <2>13. 2 + Len(E) = Len(b) + 1
    BY <2>9
  <2> HIDE DEF start
  <2>14. x.ok /\ x.list = TRUE /\ Carried(b, f, l, s, 1, 9)
    <3>1. 9 \in Nat /\ 9 >= 1 /\ Has(b, start, encodeList(e)) /\ start + Len(encodeList(e)) = Len(b) + 1
      BY <2>11, <2>12, <2>13 DEF E
    <3> QED BY <2>2, <2>8, <2>9, <3>1, ListRead
  <2> HIDE DEF x, f
  <2>15. d = decode_1559_body(b, f)
    BY <1>1, <2>11, <2>14
  <2>16. (decode_1559_body(b, f).ok <=> Fits(t)) /\ (decode_1559_body(b, f).ok => SameTx(decode_1559_body(b, f), t))
    BY <1>3, <2>3, <2>14, Eip1559Read
  <2> QED BY <2>15, <2>16 DEF b
<1>4. t.type = 0 \/ t.type = 2
  BY DEF IsTx
<1> QED BY <1>2, <1>3, <1>4
=============================================================================
