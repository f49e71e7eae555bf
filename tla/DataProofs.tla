----------------------------- MODULE DataProofs -----------------------------
(***************************************************************************)
(* What the readers of data return, for every text: expand_hex and the     *)
(* kernel's parse_arg, atoi, the largest of a list.  What they compute is  *)
(* a recursive function or a set of places; that both have one value is    *)
(* shown from the last place at which they would not.                      *)
(***************************************************************************)
EXTENDS ExpandHex, FiniteSetTheorems, SequenceTheorems, WellFoundedInduction,
        TLAPS

\* A nonempty set of naturals has a least element.
LEMMA Least ==
    ASSUME NEW T, T \subseteq Nat, T # {}
    PROVE  \E m \in T : \A k \in T : ~(k < m)
<1>1. PICK m \in T : \A k \in T : <<k, m>> \notin OpToRel(<, Nat)
  BY WFMin, NatLessThanWellFounded, Zenon
<1>2. QED
  BY <1>1, Zenon DEF OpToRel

----------------------------------------------------------------------------
(***************************************************************************)
(* The loop of expand_hex.                                                 *)
(***************************************************************************)
Bytes == Seq(0..255)

\* What a sequence of bytes is.
LEMMA BytesAre ==
    ASSUME NEW s \in Bytes
    PROVE  /\ Len(s) \in Nat
           /\ DOMAIN s = 1 .. Len(s)
           /\ \A j \in 1 .. Len(s) : s[j] \in 0..255
<1>1. s \in Seq(0..255)
  BY DEF Bytes
<1>2. Len(s) \in Nat /\ DOMAIN s = 1 .. Len(s)
  BY <1>1, LenProperties
<1>3. \A j \in 1 .. Len(s) : s[j] \in 0..255
  BY <1>1, ElementOfSeq
<1>4. QED
  BY <1>2, <1>3

\* The rest of the text from character i on, given the rests of later ones.
Rest(s, rest, i) ==
    IF i > Len(s) THEN <<>>
    ELSE IF Escape(s, i) THEN <<strtol(s[i+2], s[i+3]) % 256>> \o rest[i+4]
         ELSE <<s[i]>> \o rest[i+1]

\* strtol yields a number.
LEMMA StrtolType ==
    ASSUME NEW a \in 0..255, NEW b \in 0..255
    PROVE  strtol(a, b) % 256 \in 0..255
<1>1. HexValue(a) \in Int /\ HexValue(b) \in Int
  BY DEF HexValue, Digits
<1>2. strtol(a, b) \in Int
  BY <1>1 DEF strtol
<1>3. \A x \in Int : x % 256 \in 0..255
  OBVIOUS
<1>4. QED
  BY <1>2, <1>3, Zenon

\* A byte more.
LEMMA RestType ==
    ASSUME NEW s \in Bytes, NEW i \in 1 .. Len(s) + 1, NEW rest,
           \A j \in i+1 .. Len(s) + 1 : rest[j] \in Bytes
    PROVE  Rest(s, rest, i) \in Bytes
<1>1. Len(s) \in Nat /\ \A j \in 1 .. Len(s) : s[j] \in 0..255
  BY BytesAre
<1>2. ASSUME NEW x \in 0..255, NEW t \in Bytes
      PROVE  <<x>> \o t \in Bytes
  <2>1. <<x>> \in Seq(0..255) /\ t \in Seq(0..255)
    BY DEF Bytes
  <2>2. QED
    BY <2>1, ConcatProperties DEF Bytes
<1>3. CASE i > Len(s)
  BY <1>3 DEF Rest, Bytes
<1>4. CASE i <= Len(s) /\ Escape(s, i)
  <2>1. i+3 <= Len(s)
    BY <1>4 DEF Escape
  <2>2. i+2 \in 1 .. Len(s) /\ i+3 \in 1 .. Len(s)
        /\ i+4 \in i+1 .. Len(s) + 1
    BY <1>1, <2>1
  <2>3. s[i+2] \in 0..255 /\ s[i+3] \in 0..255 /\ rest[i+4] \in Bytes
    BY <1>1, <2>2, Zenon
  <2>4. strtol(s[i+2], s[i+3]) % 256 \in 0..255
    BY <2>3, StrtolType
  <2>5. <<strtol(s[i+2], s[i+3]) % 256>> \o rest[i+4] \in Bytes
    BY <1>2, <2>3, <2>4
  <2>6. Rest(s, rest, i) = <<strtol(s[i+2], s[i+3]) % 256>> \o rest[i+4]
    BY <1>1, <1>4 DEF Rest
  <2>7. QED
    BY <2>5, <2>6
<1>5. CASE i <= Len(s) /\ ~Escape(s, i)
  <2>1. i \in 1 .. Len(s) /\ i+1 \in i+1 .. Len(s) + 1
    BY <1>1, <1>5
  <2>2. s[i] \in 0..255 /\ rest[i+1] \in Bytes
    BY <1>1, <2>1, Zenon
  <2>3. <<s[i]>> \o rest[i+1] \in Bytes
    BY <1>2, <2>2
  <2>4. Rest(s, rest, i) = <<s[i]>> \o rest[i+1]
    BY <1>1, <1>5 DEF Rest
  <2>5. QED
    BY <2>3, <2>4
<1>6. QED
  BY <1>1, <1>3, <1>4, <1>5

\* Only later rests matter.
LEMMA RestLater ==
    ASSUME NEW s \in Bytes, NEW i \in 1 .. Len(s) + 1, NEW f, NEW g,
           \A j \in i+1 .. Len(s) + 1 : f[j] = g[j]
    PROVE  Rest(s, f, i) = Rest(s, g, i)
<1>1. Len(s) \in Nat
  BY DEF Bytes
<1>2. i <= Len(s) /\ Escape(s, i) => i+4 \in i+1 .. Len(s) + 1
  BY <1>1 DEF Escape
<1>3. i <= Len(s) => i+1 \in i+1 .. Len(s) + 1
  BY <1>1
<1>4. i > Len(s) \/ i <= Len(s)
  BY <1>1
<1>5. QED
  BY <1>2, <1>3, <1>4 DEF Rest

\* There is a function of all rests.
LEMMA RestsExist ==
    ASSUME NEW s \in Bytes
    PROVE  \E f \in [1 .. Len(s) + 1 -> Bytes] :
              \A i \in 1 .. Len(s) + 1 : f[i] = Rest(s, f, i)
<1> DEFINE n == Len(s)
           Last(k) == n + 1 - k .. n + 1
           Rests(k) == \E f \in [Last(k) -> Bytes] :
                          \A i \in Last(k) : f[i] = Rest(s, f, i)
           T == {k \in 0 .. n : ~Rests(k)}
<1>1. n \in Nat
  BY DEF Bytes
<1>2. Rests(0)
  <2> DEFINE f == [i \in Last(0) |-> <<>>]
  <2>1. f \in [Last(0) -> Bytes]
    BY DEF Bytes
  <2>2. \A i \in Last(0) : f[i] = Rest(s, f, i)
    BY <1>1 DEF Rest
  <2>3. QED
    BY <2>1, <2>2
<1>3. ASSUME NEW m \in 0 .. n, m # 0, Rests(m - 1)
      PROVE  Rests(m)
  <2> DEFINE a == n + 1 - m
  <2>1. a \in 1 .. n /\ Last(m) = {a} \cup Last(m - 1) /\ a \notin Last(m - 1)
        /\ Last(m - 1) = a + 1 .. n + 1
    BY <1>1, <1>3
  <2>2. PICK f \in [Last(m - 1) -> Bytes] :
                \A i \in Last(m - 1) : f[i] = Rest(s, f, i)
    BY <1>3
  <2> DEFINE g == [i \in Last(m) |-> IF i = a THEN Rest(s, f, a) ELSE f[i]]
  <2> HIDE DEF a
  <2>3. Rest(s, f, a) \in Bytes
    BY <1>1, <2>1, <2>2, RestType
  <2>4. g \in [Last(m) -> Bytes]
    BY <2>1, <2>2, <2>3
  <2>5. \A j \in a + 1 .. n + 1 : g[j] = f[j]
    BY <2>1
  <2>6. ASSUME NEW i \in Last(m)
        PROVE  g[i] = Rest(s, g, i)
    <3>1. i \in 1 .. n + 1 /\ \A j \in i+1 .. n + 1 : g[j] = f[j]
      BY <1>1, <2>1, <2>5
    <3>2. Rest(s, f, i) = Rest(s, g, i)
      BY <3>1, RestLater
    <3>3. g[i] = Rest(s, f, i)
      BY <2>1, <2>2
    <3>4. QED
      BY <3>2, <3>3
  <2>7. QED
    BY <2>4, <2>6
<1> HIDE DEF Rests
<1>4. T = {}
  <2>1. SUFFICES ASSUME T # {}
                 PROVE  FALSE
    OBVIOUS
  <2>. T \subseteq Nat
    BY <1>1
  <2>. HIDE DEF T
  <2>2. PICK m \in T : \A k \in T : ~(k < m)
    BY <2>1, Least, Zenon
  <2>. USE DEF T
  <2>3. m # 0
    BY <1>2, <2>2
  <2>4. m - 1 \in 0 .. n /\ m - 1 \notin T
    BY <1>1, <2>2, <2>3
  <2>5. QED
    BY <1>3, <2>2, <2>3, <2>4
<1>5. Rests(n)
  BY <1>1, <1>4
<1>6. Last(n) = 1 .. n + 1
  BY <1>1
<1>7. QED
  BY <1>5, <1>6 DEF Rests

\* expand_hex computes them.
LEMMA ExpandRests ==
    ASSUME NEW s \in Bytes
    PROVE  \E f \in [1 .. Len(s) + 1 -> Bytes] :
              /\ \A i \in 1 .. Len(s) + 1 : f[i] = Rest(s, f, i)
              /\ expand_hex(s) = f[1]
<1> DEFINE D == 1 .. Len(s) + 1
           Fixed(f) == f = [i \in D |-> Rest(s, f, i)]
           f == CHOOSE f : Fixed(f)
<1>1. Fixed(f)
  <2>1. PICK g \in [D -> Bytes] : \A i \in D : g[i] = Rest(s, g, i)
    BY RestsExist
  <2>2. Fixed(g)
    BY <2>1
  <2>3. QED
    BY <2>2
<1>2. expand_hex(s) = f[1]
  BY DEF expand_hex, Rest
<1> HIDE DEF f
<1>3. \A i \in D : f[i] = Rest(s, f, i)
  BY <1>1
<1>4. Len(s) \in Nat
  BY DEF Bytes
<1>5. \A i \in D : f[i] \in Bytes
  <2> DEFINE T == {k \in 0 .. Len(s) : f[Len(s) + 1 - k] \notin Bytes}
  <2>1. SUFFICES ASSUME T # {}
                 PROVE  FALSE
    <3>1. ASSUME T = {}, NEW i \in D
          PROVE  f[i] \in Bytes
      <4>1. Len(s) + 1 - i \in 0 .. Len(s) /\ Len(s) + 1 - (Len(s) + 1 - i) = i
        BY <1>4
      <4>2. QED
        BY <3>1, <4>1
    <3>2. QED
      BY <3>1
  <2>. T \subseteq Nat
    BY <1>4
  <2>. HIDE DEF T
  <2>2. PICK m \in T : \A k \in T : ~(k < m)
    BY <2>1, Least, Zenon
  <2>. USE DEF T
  <2> DEFINE i == Len(s) + 1 - m
  <2>3. i \in D /\ f[i] \notin Bytes
    BY <1>4, <2>2
  <2>4. ASSUME NEW j \in i+1 .. Len(s) + 1
        PROVE  f[j] \in Bytes
    <3>1. /\ Len(s) + 1 - j \in 0 .. Len(s)
          /\ Len(s) + 1 - (Len(s) + 1 - j) = j /\ Len(s) + 1 - j < m
      BY <1>4, <2>2
    <3>2. QED
      BY <2>2, <3>1
  <2>5. QED
    BY <1>3, <2>3, <2>4, RestType
<1>6. f \in [D -> Bytes]
  <2>1. f = [i \in D |-> f[i]]
    BY <1>1
  <2>2. QED
    BY <1>5, <2>1
<1>7. QED
  BY <1>2, <1>3, <1>6

\* So it yields bytes.
LEMMA ExpandType ==
    ASSUME NEW s \in Bytes
    PROVE  expand_hex(s) \in Bytes
<1>1. Len(s) + 1 \in 1 .. Len(s) + 1 /\ 1 \in 1 .. Len(s) + 1
  BY DEF Bytes
<1>2. QED
  BY <1>1, ExpandRests

----------------------------------------------------------------------------
(***************************************************************************)
(* A text that the kernel does not refuse has the same expansion in both.  *)
(***************************************************************************)
BytesAt(s) == {i \in 1 .. Len(s) : EscapeStarts(s) \cap (i-3 .. i-1) = {}}

ByteOf(s, i) ==
    IF i \in EscapeStarts(s)
    THEN 16 * HexValue(s[i+2]) + HexValue(s[i+3]) ELSE s[i]

\* Which of the bytes the one at j is, counted from i.
BytesTo(s, i, j) == {m \in BytesAt(s) : i <= m /\ m <= j}
BytesFrom(s, i) == {m \in BytesAt(s) : i <= m}

\* Where the byte after the one at i begins.
NextKept(s, i) == IF i \in EscapeStarts(s) THEN i+4 ELSE i+1

\* The kernel's expansion in these words.
LEMMA ParseArgIs ==
    ASSUME NEW s
    PROVE  parse_arg(s) =
             [k \in 1 .. Cardinality(BytesAt(s)) |->
                ByteOf(s, CHOOSE i \in BytesAt(s) :
                             Cardinality({j \in BytesAt(s) : j <= i}) = k)]
<1> DEFINE nth == [i \in BytesAt(s) |->
                     Cardinality({j \in BytesAt(s) : j <= i})]
<1>1. parse_arg(s) =
         [k \in 1 .. Cardinality(BytesAt(s)) |->
            ByteOf(s, CHOOSE i \in BytesAt(s) : nth[i] = k)]
  BY DEF parse_arg, BytesAt, ByteOf
<1>2. ASSUME NEW k
      PROVE  (CHOOSE i \in BytesAt(s) : nth[i] = k) =
             (CHOOSE i \in BytesAt(s) :
                 Cardinality({j \in BytesAt(s) : j <= i}) = k)
  <2>1. \A i : (i \in BytesAt(s) /\ nth[i] = k) <=>
               /\ i \in BytesAt(s)
               /\ Cardinality({j \in BytesAt(s) : j <= i}) = k
    OBVIOUS
  <2>2. QED
    BY <2>1
<1>3. QED
  BY <1>1, <1>2

\* Where an escape begins: the two readers agree on a text that is not
\* refused, and escapes do not overlap.
LEMMA Escapes ==
    ASSUME NEW s \in Bytes, ~Refused(s), NEW i \in 1 .. Len(s)
    PROVE  /\ Escape(s, i) <=> i \in EscapeStarts(s)
           /\ i \in EscapeStarts(s) =>
                 /\ i + 3 <= Len(s)
                 /\ s[i+2] \in HexDigits /\ s[i+3] \in HexDigits
                 /\ \A j \in i+1 .. i+3 : j \notin EscapeStarts(s)
<1>1. Len(s) \in Nat /\ \A j \in 1 .. Len(s) : s[j] \in 0..255
  BY BytesAre
<1>2. i \in EscapeStarts(s) =>
         i + 3 <= Len(s) /\ s[i+2] \in HexDigits /\ s[i+3] \in HexDigits
  BY <1>1 DEF Refused, EscapeStarts
<1>3. ASSUME i \in EscapeStarts(s), NEW j \in i+1 .. i+3
      PROVE  j \notin EscapeStarts(s)
  <2>1. s[j] \in HexDigits \/ s[j] = 120
    <3>1. j = i+1 \/ j = i+2 \/ j = i+3
      BY <1>1
    <3>2. s[i+1] = 120
      BY <1>3 DEF EscapeStarts
    <3>3. QED
      BY <1>2, <1>3, <3>1, <3>2
  <2>2. \A c \in HexDigits : c # 92
    BY DEF HexDigits, Digits
  <2>3. s[j] # Backslash
    BY <2>1, <2>2 DEF Backslash
  <2>4. QED
    BY <2>3 DEF EscapeStarts
<1>4. Escape(s, i) => i \in EscapeStarts(s)
  BY <1>1 DEF Escape, EscapeStarts
<1>5. i \in EscapeStarts(s) => Escape(s, i)
  BY <1>1, <1>2 DEF Escape, EscapeStarts, ReadsBoth
<1>6. QED
  BY <1>2, <1>3, <1>4, <1>5

\* From one byte to the next.
LEMMA AfterKept ==
    ASSUME NEW s \in Bytes, ~Refused(s), NEW i \in BytesAt(s)
    PROVE  /\ i \in 1 .. Len(s)
           /\ NextKept(s, i) \in i+1 .. Len(s) + 1
           /\ NextKept(s, i) = Len(s) + 1 \/ NextKept(s, i) \in BytesAt(s)
           /\ \A j \in BytesAt(s) : i < j => NextKept(s, i) <= j
<1>1. Len(s) \in Nat
  BY BytesAre
<1>2. i \in 1 .. Len(s) /\ EscapeStarts(s) \cap (i-3 .. i-1) = {}
  BY DEF BytesAt
<1>3. CASE i \in EscapeStarts(s)
  <2>1. /\ i + 3 <= Len(s)
        /\ \A j \in i+1 .. i+3 : j \notin EscapeStarts(s)
    BY <1>2, <1>3, Escapes
  <2>2. NextKept(s, i) = i + 4
    BY <1>3 DEF NextKept
  <2>3. ASSUME i + 4 <= Len(s)
        PROVE  i + 4 \in BytesAt(s)
    <3>1. (i+4) - 3 = i+1 /\ (i+4) - 1 = i+3
      BY <1>2
    <3>2. EscapeStarts(s) \cap (i+1 .. i+3) = {}
      BY <2>1
    <3>3. i+4 \in 1 .. Len(s)
      BY <1>1, <1>2, <2>3
    <3>4. QED
      BY <3>1, <3>2, <3>3 DEF BytesAt
  <2>4. ASSUME NEW j \in BytesAt(s), i < j
        PROVE  i + 4 <= j
    <3>1. j \in Int /\ i \in Int
      BY <1>2 DEF BytesAt
    <3>2. i \notin (j-3 .. j-1)
      BY <1>3 DEF BytesAt
    <3>3. QED
      BY <2>4, <3>1, <3>2
  <2>5. QED
    BY <1>1, <1>2, <2>1, <2>2, <2>3, <2>4
<1>4. CASE i \notin EscapeStarts(s)
  <2>1. NextKept(s, i) = i + 1
    BY <1>4 DEF NextKept
  <2>2. ASSUME i + 1 <= Len(s)
        PROVE  i + 1 \in BytesAt(s)
    <3>1. \A j \in (i+1) - 3 .. (i+1) - 1 : j = i \/ j \in i-3 .. i-1
      BY <1>2
    <3>2. EscapeStarts(s) \cap ((i+1) - 3 .. (i+1) - 1) = {}
      BY <1>2, <1>4, <3>1
    <3>3. i+1 \in 1 .. Len(s)
      BY <1>1, <1>2, <2>2
    <3>4. QED
      BY <3>2, <3>3 DEF BytesAt
  <2>3. \A j \in BytesAt(s) : j \in Int
    BY DEF BytesAt
  <2>4. QED
    BY <1>1, <1>2, <2>1, <2>2, <2>3
<1>5. QED
  BY <1>3, <1>4

\* The byte itself: what strtol reads is what two digits say.
LEMMA SameByte ==
    ASSUME NEW s \in Bytes, ~Refused(s), NEW i \in BytesAt(s), NEW rest
    PROVE  Rest(s, rest, i) = <<ByteOf(s, i)>> \o rest[NextKept(s, i)]
           /\ ByteOf(s, i) \in 0..255
<1>1. Len(s) \in Nat /\ i \in 1 .. Len(s) /\ s[i] \in 0..255
  BY BytesAre DEF BytesAt
<1>2. Escape(s, i) <=> i \in EscapeStarts(s)
  BY <1>1, Escapes
<1>3. CASE i \in EscapeStarts(s)
  <2>1. s[i+2] \in HexDigits /\ s[i+3] \in HexDigits
    BY <1>1, <1>3, Escapes
  <2>2. ASSUME NEW a \in HexDigits
        PROVE  HexValue(a) \in 0..15
    BY DEF HexDigits, Digits, HexValue
  <2>3. ASSUME NEW x \in 0..15, NEW y \in 0..15
        PROVE  16 * x + y \in 0..255 /\ (16 * x + y) % 256 = 16 * x + y
    BY SMTT(30)
  <2> DEFINE v == 16 * HexValue(s[i+2]) + HexValue(s[i+3])
  <2>4. v \in 0..255 /\ v % 256 = v
    BY <2>1, <2>2, <2>3
  <2>5. strtol(s[i+2], s[i+3]) = v
    BY <2>1 DEF strtol
  <2>6. ByteOf(s, i) = v /\ NextKept(s, i) = i + 4
    BY <1>3 DEF ByteOf, NextKept
  <2>7. Rest(s, rest, i)
           = <<strtol(s[i+2], s[i+3]) % 256>> \o rest[i+4]
    BY <1>1, <1>2, <1>3 DEF Rest
  <2> HIDE DEF v
  <2>8. QED
    BY <2>4, <2>5, <2>6, <2>7
<1>4. CASE i \notin EscapeStarts(s)
  BY <1>1, <1>2, <1>4 DEF Rest, ByteOf, NextKept
<1>5. QED
  BY <1>3, <1>4

\* Counting the bytes.
LEMMA KeptFinite ==
    ASSUME NEW s \in Bytes
    PROVE  IsFiniteSet(BytesAt(s)) /\ BytesAt(s) \subseteq 1 .. Len(s)
<1>1. Len(s) \in Nat
  BY BytesAre
<1>2. BytesAt(s) \subseteq 1 .. Len(s)
  BY DEF BytesAt
<1>3. IsFiniteSet(1 .. Len(s))
  BY <1>1, FS_Interval
<1>4. QED
  BY <1>2, <1>3, FS_Subset

\* From a byte on there is one byte more than from the next.
LEMMA CountFrom ==
    ASSUME NEW s \in Bytes, ~Refused(s), NEW i \in BytesAt(s)
    PROVE  /\ Cardinality(BytesFrom(s, NextKept(s, i))) \in Nat
           /\ Cardinality(BytesFrom(s, i)) =
                 Cardinality(BytesFrom(s, NextKept(s, i))) + 1
           /\ BytesFrom(s, i) = {i} \cup BytesFrom(s, NextKept(s, i))
<1> DEFINE R == BytesFrom(s, NextKept(s, i))
<1>1. NextKept(s, i) \in Int /\ i \in Int /\ i < NextKept(s, i)
      /\ \A j \in BytesAt(s) : i < j => NextKept(s, i) <= j
  BY AfterKept
<1>2. \A j \in BytesAt(s) : j \in Int
  BY DEF BytesAt
<1>3. BytesFrom(s, i) = {i} \cup R /\ i \notin R
  <2>1. \A k \in BytesAt(s) : i <= k <=> k = i \/ NextKept(s, i) <= k
    <3>1. SUFFICES ASSUME NEW k \in BytesAt(s)
                   PROVE  i <= k <=> k = i \/ NextKept(s, i) <= k
      OBVIOUS
    <3>2. k \in Int /\ (i < k => NextKept(s, i) <= k)
      BY <1>1, <1>2
    <3>3. QED
      BY <1>1, <3>2
  <2>2. ~(NextKept(s, i) <= i)
    BY <1>1
  <2>3. QED
    BY <2>1, <2>2 DEF BytesFrom
<1>4. IsFiniteSet(R)
  <2>1. R \subseteq BytesAt(s)
    BY DEF BytesFrom
  <2>2. QED
    BY <2>1, KeptFinite, FS_Subset
<1>5. Cardinality(R) \in Nat /\ Cardinality(R \cup {i}) = Cardinality(R) + 1
  BY <1>3, <1>4, FS_CardinalityType, FS_AddElement
<1>6. R \cup {i} = {i} \cup R
  OBVIOUS
<1>7. QED
  BY <1>3, <1>5, <1>6

\* So there is up to any later byte.
LEMMA CountBetween ==
    ASSUME NEW s \in Bytes, ~Refused(s), NEW i \in BytesAt(s),
           NEW j \in BytesFrom(s, NextKept(s, i))
    PROVE  /\ Cardinality(BytesTo(s, NextKept(s, i), j)) \in Nat
           /\ Cardinality(BytesTo(s, i, j)) =
                 Cardinality(BytesTo(s, NextKept(s, i), j)) + 1
<1> DEFINE R == BytesTo(s, NextKept(s, i), j)
<1>1. NextKept(s, i) \in Int /\ i \in Int /\ i < NextKept(s, i)
      /\ \A k \in BytesAt(s) : i < k => NextKept(s, i) <= k
  BY AfterKept
<1>2. \A k \in BytesAt(s) : k \in Int
  BY DEF BytesAt
<1>3. j \in BytesAt(s) /\ NextKept(s, i) <= j
  BY DEF BytesFrom
<1>4. BytesTo(s, i, j) = R \cup {i} /\ i \notin R
  <2>1. ASSUME NEW k \in BytesAt(s)
        PROVE  (i <= k /\ k <= j) <=>
               k = i \/ (NextKept(s, i) <= k /\ k <= j)
    <3>1. k \in Int /\ j \in Int /\ (i < k => NextKept(s, i) <= k)
      BY <1>1, <1>2, <1>3
    <3>2. QED
      BY <1>1, <1>3, <3>1
  <2>2. ~(NextKept(s, i) <= i)
    BY <1>1
  <2>3. QED
    BY <2>1, <2>2 DEF BytesTo
<1>5. IsFiniteSet(R)
  <2>1. R \subseteq BytesAt(s)
    BY DEF BytesTo
  <2>2. QED
    BY <2>1, KeptFinite, FS_Subset
<1>6. QED
  BY <1>4, <1>5, FS_CardinalityType, FS_AddElement

\* Up to itself a byte is one.
LEMMA CountItself ==
    ASSUME NEW s \in Bytes, NEW i \in BytesAt(s)
    PROVE  Cardinality(BytesTo(s, i, i)) = 1
<1>1. \A k \in BytesAt(s) : k \in Int
  BY DEF BytesAt
<1>2. BytesTo(s, i, i) = {i}
  BY <1>1 DEF BytesTo
<1>3. QED
  BY <1>2, FS_Singleton

\* The rests of expand_hex are the bytes from there on, in their order.
RestAgrees(s, t, i) ==
    /\ Len(t) = Cardinality(BytesFrom(s, i))
    /\ \A j \in BytesFrom(s, i) :
          /\ Cardinality(BytesTo(s, i, j)) \in 1 .. Len(t)
          /\ t[Cardinality(BytesTo(s, i, j))] = ByteOf(s, j)
    /\ \A k \in 1 .. Len(t) :
          \E j \in BytesFrom(s, i) : Cardinality(BytesTo(s, i, j)) = k

\* Behind the last character nothing is left.
LEMMA AgreesAtEnd ==
    ASSUME NEW s \in Bytes
    PROVE  RestAgrees(s, <<>>, Len(s) + 1)
<1>1. Len(s) \in Nat /\ BytesAt(s) \subseteq 1 .. Len(s)
  BY BytesAre, KeptFinite
<1>2. BytesFrom(s, Len(s) + 1) = {}
  BY <1>1 DEF BytesFrom
<1>3. Cardinality(BytesFrom(s, Len(s) + 1)) = 0
  BY <1>2, FS_EmptySet
<1>4. QED
  BY <1>2, <1>3 DEF RestAgrees

\* The rest from a byte on is the byte and the rest from the next one on.
LEMMA AgreesBefore ==
    ASSUME NEW s \in Bytes, ~Refused(s), NEW i \in BytesAt(s),
           NEW t \in Bytes, RestAgrees(s, t, NextKept(s, i))
    PROVE  RestAgrees(s, <<ByteOf(s, i)>> \o t, i)
<1> DEFINE u == <<ByteOf(s, i)>> \o t
           a == NextKept(s, i)
<1>1. ByteOf(s, i) \in 0..255
  BY SameByte
<1>2. /\ Len(t) \in Nat /\ Len(u) = Len(t) + 1
      /\ u[1] = ByteOf(s, i)
      /\ \A k \in 1 .. Len(t) : u[k+1] = t[k]
  <2>1. <<ByteOf(s, i)>> \in Seq(0..255) /\ t \in Seq(0..255)
        /\ Len(<<ByteOf(s, i)>>) = 1 /\ <<ByteOf(s, i)>>[1] = ByteOf(s, i)
    BY <1>1 DEF Bytes
  <2>2. Len(t) \in Nat
    BY <2>1, LenProperties
  <2>3. /\ Len(u) = 1 + Len(t)
        /\ \A k \in 1 .. 1 + Len(t) :
              u[k] = IF k <= 1 THEN <<ByteOf(s, i)>>[k] ELSE t[k - 1]
    BY <2>1, ConcatProperties
  <2> HIDE DEF u
  <2>4. ASSUME NEW k \in 1 .. Len(t)
        PROVE  u[k+1] = t[k]
    <3>1. k + 1 \in 1 .. 1 + Len(t) /\ ~(k + 1 <= 1) /\ (k + 1) - 1 = k
      BY <2>2
    <3>2. QED
      BY <2>3, <3>1
  <2>5. 1 \in 1 .. 1 + Len(t)
    BY <2>2
  <2>6. QED
    BY <2>1, <2>2, <2>3, <2>4, <2>5
<1>3. /\ Len(u) = Cardinality(BytesFrom(s, i))
      /\ BytesFrom(s, i) = {i} \cup BytesFrom(s, a)
  BY <1>2, CountFrom DEF RestAgrees
<1>4. Cardinality(BytesTo(s, i, i)) = 1
  BY CountItself
<1>5. ASSUME NEW j \in BytesFrom(s, a)
      PROVE  Cardinality(BytesTo(s, i, j)) = Cardinality(BytesTo(s, a, j)) + 1
  BY CountBetween
<1> HIDE DEF u, a
<1>6. ASSUME NEW j \in BytesFrom(s, i)
      PROVE  /\ Cardinality(BytesTo(s, i, j)) \in 1 .. Len(u)
             /\ u[Cardinality(BytesTo(s, i, j))] = ByteOf(s, j)
  <2>1. CASE j = i
    BY <1>2, <1>4, <2>1
  <2>2. CASE j \in BytesFrom(s, a)
    <3> DEFINE k == Cardinality(BytesTo(s, a, j))
    <3>1. k \in 1 .. Len(t) /\ t[k] = ByteOf(s, j)
      BY <2>2 DEF RestAgrees, a
    <3>2. Cardinality(BytesTo(s, i, j)) = k + 1
      BY <1>5, <2>2
    <3> HIDE DEF k
    <3>3. QED
      BY <1>2, <3>1, <3>2
  <2>3. QED
    BY <1>3, <2>1, <2>2
<1>7. ASSUME NEW k \in 1 .. Len(u)
      PROVE  \E j \in BytesFrom(s, i) : Cardinality(BytesTo(s, i, j)) = k
  <2>1. CASE k = 1
    BY <1>3, <1>4, <2>1
  <2>2. CASE k # 1
    <3>1. k - 1 \in 1 .. Len(t) /\ (k - 1) + 1 = k
      BY <1>2, <2>2
    <3>2. PICK j \in BytesFrom(s, a) : Cardinality(BytesTo(s, a, j)) = k - 1
      BY <3>1 DEF RestAgrees, a
    <3>3. QED
      BY <1>3, <1>5, <3>1, <3>2
  <2>3. QED
    BY <2>1, <2>2
<1>8. RestAgrees(s, u, i)
  BY <1>3, <1>6, <1>7 DEF RestAgrees
<1>9. QED
  BY <1>8 DEF u

\* Every rest the loop can leave is what the kernel has from there: there is
\* no last place at which it is not.
LEMMA RestsAgree ==
    ASSUME NEW s \in Bytes, ~Refused(s),
           NEW f \in [1 .. Len(s) + 1 -> Bytes],
           \A i \in 1 .. Len(s) + 1 : f[i] = Rest(s, f, i)
    PROVE  \A i \in BytesAt(s) \cup {Len(s) + 1} : RestAgrees(s, f[i], i)
<1> DEFINE n == Len(s)
           T == {k \in 0 .. n : /\ n + 1 - k \in BytesAt(s) \cup {n + 1}
                                /\ ~RestAgrees(s, f[n + 1 - k], n + 1 - k)}
<1>1. n \in Nat /\ BytesAt(s) \subseteq 1 .. n
  BY BytesAre, KeptFinite
<1>2. ASSUME T = {}, NEW i \in BytesAt(s) \cup {n + 1}
      PROVE  RestAgrees(s, f[i], i)
  <2>1. n + 1 - i \in 0 .. n /\ n + 1 - (n + 1 - i) = i
    BY <1>1
  <2>2. QED
    BY <1>2, <2>1
<1>3. SUFFICES ASSUME T # {}
               PROVE  FALSE
  BY <1>2
<1>4. T \subseteq Nat
  BY <1>1
<1> HIDE DEF T
<1>5. PICK m \in T : \A k \in T : ~(k < m)
  BY <1>3, <1>4, Least, Zenon
<1> USE DEF T
<1> DEFINE i == n + 1 - m
<1>6. /\ i \in 1 .. n + 1 /\ i \in BytesAt(s) \cup {n + 1}
      /\ ~RestAgrees(s, f[i], i)
      /\ m \in Int
  BY <1>1, <1>5
<1>7. i # n + 1
  <2>1. n + 1 \in 1 .. n + 1 /\ n + 1 > n
    BY <1>1
  <2>2. Rest(s, f, n + 1) = <<>>
    BY <2>1 DEF Rest
  <2>3. f[n + 1] = <<>>
    BY <2>1, <2>2
  <2>4. QED
    BY <1>6, <2>3, AgreesAtEnd
<1> DEFINE a == NextKept(s, i)
<1>8. i \in BytesAt(s) /\ a \in i+1 .. n + 1 /\ a \in BytesAt(s) \cup {n + 1}
  BY <1>6, <1>7, AfterKept
<1>9. RestAgrees(s, f[a], a)
  <2>1. n + 1 - a \in 0 .. n /\ n + 1 - (n + 1 - a) = a /\ n + 1 - a < m
    <3>1. /\ \A x \in i+1 .. n+1 : n + 1 - x \in 0 .. n
          /\ \A x \in i+1 .. n+1 : n + 1 - (n + 1 - x) = x
          /\ \A x \in i+1 .. n+1 : n + 1 - x < m
      BY <1>1, <1>6
    <3>2. QED
      BY <1>8, <3>1, Zenon
  <2> HIDE DEF a, i
  <2>2. n + 1 - a \notin T
    BY <1>5, <2>1
  <2>3. QED
    BY <1>8, <2>1, <2>2
<1>10. f[a] \in Bytes
  BY <1>1, <1>6, <1>8
<1>11. f[i] = <<ByteOf(s, i)>> \o f[a]
  BY <1>6, <1>8, SameByte
<1> HIDE DEF i, T
<1>12. RestAgrees(s, f[i], i)
  BY <1>8, <1>9, <1>10, <1>11, AgreesBefore
<1>13. QED
  BY <1>6, <1>12

\* expand_hex of src/find.c gives every text the kernel accepts the bytes the
\* kernel gives it, however long the text is and wherever its escapes are:
\* run-detectors and --find look for the magic the kernel looked for.
THEOREM SameExpansion ==
    ASSUME NEW s \in Bytes, ~Refused(s)
    PROVE  expand_hex(s) = parse_arg(s)
<1>1. PICK f \in [1 .. Len(s) + 1 -> Bytes] :
              /\ \A i \in 1 .. Len(s) + 1 : f[i] = Rest(s, f, i)
              /\ expand_hex(s) = f[1]
  BY ExpandRests
<1>2. Len(s) \in Nat /\ BytesAt(s) \subseteq 1 .. Len(s)
  BY BytesAre, KeptFinite
<1>3. 1 \in BytesAt(s) \cup {Len(s) + 1}
  <2>1. CASE Len(s) = 0
    BY <2>1
  <2>2. CASE Len(s) # 0
    <3>1. EscapeStarts(s) \cap (1-3 .. 1-1) = {}
      BY DEF EscapeStarts
    <3>2. QED
      BY <1>2, <2>2, <3>1 DEF BytesAt
  <2>3. QED
    BY <2>1, <2>2
<1> DEFINE t == f[1]
           nth(j) == Cardinality({m \in BytesAt(s) : m <= j})
           N == Cardinality(BytesAt(s))
<1>4. t \in Bytes /\ RestAgrees(s, t, 1)
  BY <1>1, <1>2, <1>3, RestsAgree
<1>5. BytesFrom(s, 1) = BytesAt(s) /\ \A j \in BytesAt(s) : BytesTo(s, 1, j) =
                                   {m \in BytesAt(s) : m <= j}
  BY <1>2 DEF BytesFrom, BytesTo
<1>6. /\ Len(t) = N
      /\ \A j \in BytesAt(s) : nth(j) \in 1 .. N /\ t[nth(j)] = ByteOf(s, j)
      /\ \A k \in 1 .. N : \E j \in BytesAt(s) : nth(j) = k
  BY <1>4, <1>5 DEF RestAgrees
<1> HIDE DEF t, nth, N
<1>7. DOMAIN t = 1 .. N /\ t = [k \in DOMAIN t |-> t[k]]
  <2>1. t \in Seq(0..255)
    BY <1>4 DEF Bytes
  <2>2. t \in [1 .. Len(t) -> 0..255] /\ DOMAIN t = 1 .. Len(t)
    BY <2>1, LenProperties
  <2>3. QED
    BY <1>6, <2>2
<1> DEFINE at(k) == CHOOSE j \in BytesAt(s) : nth(j) = k
<1>8. ASSUME NEW k \in 1 .. N
      PROVE  t[k] = ByteOf(s, at(k))
  <2>1. at(k) \in BytesAt(s) /\ nth(at(k)) = k
    BY <1>6
  <2> HIDE DEF at
  <2>2. QED
    BY <1>6, <2>1
<1>9. t = [k \in 1 .. N |-> ByteOf(s, at(k))]
  BY <1>7, <1>8
<1>10. parse_arg(s) = [k \in 1 .. N |-> ByteOf(s, at(k))]
  BY ParseArgIs DEF nth, N
<1>11. QED
  BY <1>1, <1>9, <1>10 DEF t

----------------------------------------------------------------------------
(***************************************************************************)
(* atoi: of any text it makes a number, of the empty one 0.                *)
(***************************************************************************)
Number == [num : Int, on : BOOLEAN]

Start0 == [num |-> 0, on |-> TRUE]

Digit(s, u, i) ==
    IF u.on /\ s[i] \in Digits
    THEN [num |-> 10 * u.num + (s[i] - 48), on |-> TRUE]
    ELSE [num |-> u.num, on |-> FALSE]

\* A digit more, or the end of the number.
LEMMA DigitType ==
    ASSUME NEW s, NEW u \in Number, NEW i
    PROVE  Digit(s, u, i) \in Number
<1>1. \A c \in Digits : c \in Int
  BY DEF Digits
<1>2. u.num \in Int
  BY DEF Number
<1>3. QED
  BY <1>1, <1>2 DEF Digit, Number

\* There is a function of the numbers read so far.
LEMMA NumbersExist ==
    ASSUME NEW s, NEW a \in Int, NEW n \in Int, a <= n
    PROVE  \E u \in [a .. n -> Number] :
              \A i \in a .. n :
                 u[i] = IF i = a THEN Start0 ELSE Digit(s, u[i-1], i)
<1> DEFINE Numbers(k) ==
             \E u \in [a .. a + k -> Number] :
                \A i \in a .. a + k :
                   u[i] = IF i = a THEN Start0 ELSE Digit(s, u[i-1], i)
           T == {k \in Nat : ~Numbers(k)}
<1>1. Numbers(0)
  <2> DEFINE u == [i \in a .. a + 0 |-> Start0]
  <2>1. u \in [a .. a + 0 -> Number]
    BY DEF Start0, Number
  <2>2. \A i \in a .. a + 0 :
           u[i] = IF i = a THEN Start0 ELSE Digit(s, u[i-1], i)
    OBVIOUS
  <2>3. QED
    BY <2>1, <2>2
<1>2. ASSUME NEW m \in Nat, m # 0, Numbers(m - 1)
      PROVE  Numbers(m)
  <2>1. PICK u \in [a .. a + (m-1) -> Number] :
                \A i \in a .. a + (m-1) :
                   u[i] = IF i = a THEN Start0 ELSE Digit(s, u[i-1], i)
    BY <1>2
  <2> DEFINE b == a + m
             v == [i \in a .. b |-> IF i = b THEN Digit(s, u[b-1], b)
                                    ELSE u[i]]
  <2>2. /\ b \in Int /\ b # a /\ b - 1 \in a .. a + (m-1)
        /\ \A i \in a .. b : i # b => i \in a .. a + (m-1)
        /\ \A i \in a .. b : i # a => i - 1 \in a .. b /\ i - 1 # b
    BY <1>2
  <2> HIDE DEF b
  <2>3. Digit(s, u[b-1], b) \in Number
    BY <2>1, <2>2, DigitType
  <2>4. v \in [a .. b -> Number]
    BY <2>1, <2>2, <2>3
  <2>5. ASSUME NEW i \in a .. b
        PROVE  v[i] = IF i = a THEN Start0 ELSE Digit(s, v[i-1], i)
    <3>1. CASE i = b
      <4>1. v[i] = Digit(s, u[b-1], b)
        BY <3>1
      <4>2. v[i-1] = u[b-1]
        BY <2>2, <3>1
      <4>3. QED
        BY <2>2, <3>1, <4>1, <4>2
    <3>2. CASE i # b
      <4>1. v[i] = u[i] /\ i \in a .. a + (m-1)
        BY <2>2, <3>2
      <4>2. i # a => v[i-1] = u[i-1]
        BY <2>2
      <4>3. QED
        BY <2>1, <4>1, <4>2
    <3>3. QED
      BY <3>1, <3>2
  <2>6. QED
    BY <2>4, <2>5 DEF b
<1> HIDE DEF Numbers
<1>3. T = {}
  <2>1. SUFFICES ASSUME T # {}
                 PROVE  FALSE
    OBVIOUS
  <2>2. T \subseteq Nat
    OBVIOUS
  <2> HIDE DEF T
  <2>3. PICK m \in T : \A k \in T : ~(k < m)
    BY <2>1, <2>2, Least, Zenon
  <2> USE DEF T
  <2>4. m # 0
    BY <1>1, <2>3
  <2>5. m - 1 \in Nat /\ m - 1 \notin T
    BY <2>3, <2>4
  <2>6. QED
    BY <1>2, <2>3, <2>4, <2>5
<1>4. n - a \in Nat /\ a + (n - a) = n
  OBVIOUS
<1>5. Numbers(n - a)
  BY <1>3, <1>4
<1>6. QED
  BY <1>4, <1>5 DEF Numbers

\* Where the blanks end.
Blank(s) == [i \in 0 .. Len(s) |-> \A j \in 1 .. i : s[j] \in Blanks]

\* The blanks before a number, one more at a time.
LEMMA BlankIs ==
    ASSUME NEW s \in Bytes
    PROVE  Blank(s) = [i \in 0 .. Len(s) |->
                         i = 0 \/ (Blank(s)[i-1] /\ s[i] \in Blanks)]
<1>1. Len(s) \in Nat
  BY BytesAre
<1> DEFINE All(i) == \A j \in 1 .. i : s[j] \in Blanks
<1>2. ASSUME NEW i \in 0 .. Len(s)
      PROVE  Blank(s)[i] = (i = 0 \/ (Blank(s)[i-1] /\ s[i] \in Blanks))
  <2>1. Blank(s)[i] = All(i)
    BY DEF Blank
  <2>2. CASE i = 0
    <3>1. All(i)
      BY <2>2
    <3>2. QED
      BY <2>1, <2>2, <3>1, Zenon
  <2>3. CASE i # 0
    <3>1. i - 1 \in 0 .. Len(s) /\ i \in 1 .. i
          /\ (\A j \in 1 .. i : j = i \/ j \in 1 .. i-1)
          /\ (\A j \in 1 .. i-1 : j \in 1 .. i)
      BY <1>1, <2>3
    <3>2. Blank(s)[i-1] = All(i-1)
      BY <3>1 DEF Blank
    <3>3. All(i) <=> All(i-1) /\ s[i] \in Blanks
      BY <3>1, Zenon
    <3> DEFINE R == i = 0 \/ (Blank(s)[i-1] /\ s[i] \in Blanks)
    <3>4. R \in BOOLEAN /\ All(i) \in BOOLEAN
      OBVIOUS
    <3> HIDE DEF All
    <3>5. R <=> All(i)
      BY <2>3, <3>2, <3>3, Zenon
    <3> HIDE DEF R
    <3>6. R = All(i)
      BY <3>4, <3>5
    <3>7. QED
      BY <2>1, <3>6 DEF R
  <2>4. QED
    BY <2>2, <2>3
<1> DEFINE F == [i \in 0 .. Len(s) |->
                         i = 0 \/ (Blank(s)[i-1] /\ s[i] \in Blanks)]
<1>3. \A i \in 0 .. Len(s) : Blank(s)[i] = F[i]
  BY <1>2
<1>4. DOMAIN Blank(s) = 0 .. Len(s) /\ DOMAIN F = 0 .. Len(s)
      /\ Blank(s) = [i \in 0 .. Len(s) |-> Blank(s)[i]]
  BY DEF Blank
<1>5. QED
  BY <1>3, <1>4

\* atoi makes a number of every text.
LEMMA AtoiType ==
    ASSUME NEW s \in Bytes
    PROVE  atoi(s) \in Int
<1> DEFINE n == Len(s)
           B(f) == f = [i \in 0 .. n |->
                          i = 0 \/ (f[i-1] /\ s[i] \in Blanks)]
           blank == CHOOSE f : B(f)
           signed == \E i \in 1 .. n : blank[i-1] /\ s[i] \in Signs
           minus == \E i \in 1 .. n : blank[i-1] /\ s[i] = 45
           set == {i \in 1 .. n : blank[i]}
           first == Cardinality(set) + (IF signed THEN 1 ELSE 0)
           U(f) == f = [i \in first .. n |->
                          IF i = first THEN [num |-> 0, on |-> TRUE]
                          ELSE IF f[i-1].on /\ s[i] \in Digits
                          THEN [num |-> 10 * f[i-1].num + (s[i] - 48),
                                on |-> TRUE]
                          ELSE [num |-> f[i-1].num, on |-> FALSE]]
           upto == CHOOSE f : U(f)
<1>1. atoi(s) = IF minus THEN -upto[n].num ELSE upto[n].num
  BY DEF atoi
<1>2. n \in Nat
  BY BytesAre
<1>3. B(blank)
  BY BlankIs
<1> HIDE DEF blank, U
<1>4. first \in 0 .. n
  <2>. HIDE DEF B, upto
  <2>1. /\ set \subseteq 1 .. n /\ IsFiniteSet(1 .. n)
        /\ Cardinality(1 .. n) = n
    <3>1. 1 \in Int /\ n \in Int
      BY <1>2
    <3>2. IsFiniteSet(1 .. n)
          /\ Cardinality(1 .. n) = IF 1 > n THEN 0 ELSE n - 1 + 1
      BY <3>1, FS_Interval, Zenon
    <3>3. QED
      BY <1>2, <3>2
  <2>2. Cardinality(set) \in Nat /\ Cardinality(set) <= n
    <3>1. set \in SUBSET (1 .. n)
      BY <2>1
    <3> HIDE DEF set
    <3>2. QED
      BY <2>1, <3>1, FS_Subset, FS_CardinalityType
  <2>3. CASE signed
    <3>1. PICK i \in 1 .. n : blank[i-1] /\ s[i] \in Signs
      BY <2>3
    <3>2. s[i] \notin Blanks
      BY <3>1 DEF Signs, Blanks
    <3>3. ~blank[i]
      <4>1. blank[i] = (i = 0 \/ (blank[i-1] /\ s[i] \in Blanks))
        <5>1. i \in 0 .. n
          BY <1>2
        <5>2. QED
          BY <1>3, <5>1, Zenon DEF B
      <4>2. i # 0
        BY <1>2
      <4>3. QED
        BY <3>2, <4>1, <4>2, Zenon
    <3>4. set \subseteq (1 .. n) \ {i}
      BY <3>3
    <3>5. Cardinality((1 .. n) \ {i}) = n - 1 /\ IsFiniteSet((1 .. n) \ {i})
      BY <2>1, FS_RemoveElement
    <3> HIDE DEF set
    <3>6. Cardinality(set) <= n - 1
      <4>1. set \in SUBSET ((1 .. n) \ {i})
        BY <3>4
      <4>2. Cardinality(set) <= Cardinality((1 .. n) \ {i})
        BY <3>5, <4>1, FS_Subset, Zenon
      <4>3. QED
        BY <3>5, <4>2
    <3>7. QED
      BY <1>2, <2>2, <2>3, <3>6
  <2>4. CASE ~signed
    BY <1>2, <2>2, <2>4
  <2>5. QED
    BY <2>3, <2>4
<1> HIDE DEF first
<1>5. U(upto)
  <2>1. PICK u \in [first .. n -> Number] :
                \A i \in first .. n :
                   u[i] = IF i = first THEN Start0 ELSE Digit(s, u[i-1], i)
    <3>1. first \in Int /\ n \in Int /\ first <= n
      BY <1>2, <1>4
    <3> HIDE DEF upto, n
    <3>2. QED
      BY <3>1, NumbersExist, Zenon
  <2>2. U(u)
    BY <2>1 DEF Start0, Digit, U
  <2>3. QED
    BY <2>2
<1> HIDE DEF upto
<1>6. \A i \in first .. n : upto[i] =
             IF i = first THEN Start0 ELSE Digit(s, upto[i-1], i)
  BY <1>5 DEF Start0, Digit, U
<1> HIDE DEF B
<1>7. upto[n] \in Number
  <2> DEFINE T == {k \in 0 .. n : k >= first /\ upto[k] \notin Number}
  <2>1. SUFFICES ASSUME T # {}
                 PROVE  FALSE
    BY <1>2, <1>4
  <2>2. T \subseteq Nat
    BY <1>2
  <2> HIDE DEF T
  <2>3. PICK m \in T : \A k \in T : ~(k < m)
    BY <2>1, <2>2, Least, Zenon
  <2> USE DEF T
  <2>4. m \in first .. n /\ upto[m] \notin Number
    BY <1>2, <1>4, <2>3
  <2>5. m # first
    <3>1. Start0 \in Number
      BY DEF Start0, Number
    <3>2. first \in first .. n
      BY <1>2, <1>4
    <3>3. upto[first] = Start0
      BY <1>6, <3>2
    <3>4. QED
      BY <2>4, <3>1, <3>3
  <2>6. upto[m-1] \in Number
    BY <1>2, <1>4, <2>3, <2>4, <2>5
  <2>7. QED
    BY <1>6, <2>4, <2>5, <2>6, DigitType
<1>8. upto[n].num \in Int
  BY <1>7 DEF Number
<1>9. QED
  BY <1>1, <1>8

\* Of no characters it makes 0.
LEMMA AtoiEmpty == atoi(<<>>) = 0
<1> DEFINE s == <<>>
           B(f) == f = [i \in 0 .. Len(s) |->
                          i = 0 \/ (f[i-1] /\ s[i] \in Blanks)]
           blank == CHOOSE f : B(f)
           signed == \E i \in 1 .. Len(s) : blank[i-1] /\ s[i] \in Signs
           minus == \E i \in 1 .. Len(s) : blank[i-1] /\ s[i] = 45
           set == {i \in 1 .. Len(s) : blank[i]}
           first == Cardinality(set) + (IF signed THEN 1 ELSE 0)
           U(f) == f = [i \in first .. Len(s) |->
                          IF i = first THEN [num |-> 0, on |-> TRUE]
                          ELSE IF f[i-1].on /\ s[i] \in Digits
                          THEN [num |-> 10 * f[i-1].num + (s[i] - 48),
                                on |-> TRUE]
                          ELSE [num |-> f[i-1].num, on |-> FALSE]]
           upto == CHOOSE f : U(f)
<1>1. atoi(<<>>) = IF minus THEN -upto[Len(s)].num ELSE upto[Len(s)].num
  BY DEF atoi
<1>2. Len(s) = 0 /\ \A i \in 1 .. Len(s) : FALSE
  OBVIOUS
<1> HIDE DEF blank, s
<1>3. ~minus /\ ~signed /\ set = {}
  BY <1>2
<1>4. first = 0
  BY <1>3, FS_EmptySet
<1> HIDE DEF first, minus
<1>5. U(upto)
  <2>1. U([i \in first .. Len(s) |-> [num |-> 0, on |-> TRUE]])
    BY <1>2, <1>4
  <2>2. QED
    BY <2>1
<1> HIDE DEF upto
<1>6. upto[Len(s)].num = 0
  BY <1>2, <1>4, <1>5
<1>7. QED
  BY <1>1, <1>3, <1>6

----------------------------------------------------------------------------
(***************************************************************************)
(* The largest of the sizes: find_interpreters reads so much of the file.  *)
(***************************************************************************)
LEMMA Largest ==
    ASSUME NEW n \in Nat, NEW f \in [1 .. n -> Int]
    PROVE  \E m \in {0} \cup {f[i] : i \in 1 .. n} :
              \A k \in {0} \cup {f[i] : i \in 1 .. n} : k <= m
<1> DEFINE S(k) == {0} \cup {f[i] : i \in 1 .. k}
           P(k) == \E m \in S(k) : m \in Int /\ \A x \in S(k) : x <= m
           T == {k \in 0 .. n : ~P(k)}
<1>1. P(0)
  <2>1. S(0) = {0}
    OBVIOUS
  <2>2. QED
    BY <2>1
<1>2. ASSUME NEW k \in 0 .. n, k # 0, P(k-1)
      PROVE  P(k)
  <2>1. PICK m \in S(k-1) : m \in Int /\ \A x \in S(k-1) : x <= m
    BY <1>2
  <2>2. 1 .. k = (1 .. k-1) \cup {k} /\ f[k] \in Int
    BY <1>2
  <2>3. S(k) = S(k-1) \cup {f[k]}
    BY <2>2
  <2> HIDE DEF S
  <2>4. CASE f[k] <= m
    BY <2>1, <2>3, <2>4
  <2>5. CASE ~(f[k] <= m)
    <3>1. \A x \in S(k-1) : x <= f[k]
      <4>1. \A x \in S(k-1) : x \in Int
        BY <1>2 DEF S
      <4>2. QED
        BY <2>1, <2>2, <2>5, <4>1
    <3>2. f[k] <= f[k]
      BY <2>2
    <3>3. QED
      BY <2>2, <2>3, <3>1, <3>2
  <2>6. QED
    BY <2>4, <2>5
<1> HIDE DEF P
<1>3. T = {}
  <2>1. SUFFICES ASSUME T # {}
                 PROVE  FALSE
    OBVIOUS
  <2>2. T \subseteq Nat
    OBVIOUS
  <2> HIDE DEF T
  <2>3. PICK k \in T : \A x \in T : ~(x < k)
    BY <2>1, <2>2, Least, Zenon
  <2> USE DEF T
  <2>4. k # 0
    BY <1>1, <2>3
  <2>5. k - 1 \in 0 .. n /\ k - 1 \notin T
    BY <2>3, <2>4
  <2>6. QED
    BY <1>2, <2>3, <2>4, <2>5
<1>4. P(n)
  BY <1>3
<1>5. QED
  BY <1>4 DEF P
=============================================================================
