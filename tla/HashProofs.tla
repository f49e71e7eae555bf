----------------------------- MODULE HashProofs -----------------------------
(***************************************************************************)
(* hash.c never loses an entry or memory, never aborts, and implements the *)
(* map of KeyValue, for any keys, hash functions and sizes.  The argument: *)
(* every entry is in the chain of its hash, in one of two tables that have *)
(* no key in common (Chains, Apart); the counters are cardinalities of     *)
(* what they count; and while entries are moved there have been at least   *)
(* as many overflow entries allocated as the old table needs (Enough), so  *)
(* that they suffice on the way back.  A walk is tracked through the order *)
(* of the places in the table: what comes before it has been passed.       *)
(***************************************************************************)
EXTENDS HashTable, FiniteSetTheorems, SequenceTheorems, WellFoundedInduction,
        TLAPS

LEMMA RemoveAtIs ==
    ASSUME NEW S, NEW s \in Seq(S), NEW p \in 1 .. Len(s)
    PROVE  /\ RemoveAt(s, p) \in Seq(S)
           /\ Len(RemoveAt(s, p)) = Len(s) - 1
           /\ \A j \in 1 .. Len(s) - 1 :
                 RemoveAt(s, p)[j] = IF j < p THEN s[j] ELSE s[j+1]
<1> DEFINE a == SubSeq(s, 1, p-1)
           b == SubSeq(s, p+1, Len(s))
<1>1. Len(s) \in Nat /\ p \in Int
  BY LenProperties
<1>2. a \in Seq(S) /\ Len(a) = p - 1 /\ \A j \in 1 .. p-1 : a[j] = s[j]
  BY <1>1, SubSeqProperties
<1>3. b \in Seq(S) /\ Len(b) = Len(s) - p /\ \A j \in 1 .. Len(s)-p : b[j] = s[p+j]
  BY <1>1, SubSeqProperties
<1>4. /\ a \o b \in Seq(S) /\ Len(a \o b) = Len(a) + Len(b)
      /\ \A j \in 1 .. Len(a) + Len(b) :
            (a \o b)[j] = IF j <= Len(a) THEN a[j] ELSE b[j - Len(a)]
  BY <1>2, <1>3, ConcatProperties
<1> HIDE DEF a, b
<1>5. ASSUME NEW j \in 1 .. Len(s) - 1
      PROVE  (a \o b)[j] = IF j < p THEN s[j] ELSE s[j+1]
  <2>1. CASE j < p
    BY <1>1, <1>2, <1>3, <1>4, <2>1
  <2>2. CASE ~(j < p)
    <3>1. (a \o b)[j] = b[j - (p - 1)]
      BY <1>1, <1>2, <1>3, <1>4, <2>2
    <3>2. j - (p - 1) \in 1 .. Len(s) - p /\ p + (j - (p - 1)) = j + 1
      BY <1>1, <2>2
    <3>3. QED
      BY <1>3, <2>2, <3>1, <3>2
  <2>3. QED
    BY <2>1, <2>2
<1>6. RemoveAt(s, p) = a \o b
  BY DEF RemoveAt, a, b
<1>7. Len(a \o b) = Len(s) - 1
  BY <1>1, <1>2, <1>3, <1>4
<1>8. QED
  BY <1>4, <1>5, <1>6, <1>7, Zenon

LEMMA InsertAtIs ==
    ASSUME NEW S, NEW s \in Seq(S), Len(s) >= 1, NEW e \in S
    PROVE  /\ InsertAt(s, 2, e) \in Seq(S)
           /\ Len(InsertAt(s, 2, e)) = Len(s) + 1
           /\ \A j \in 1 .. Len(s) + 1 :
                 InsertAt(s, 2, e)[j] =
                    IF j = 1 THEN s[1] ELSE IF j = 2 THEN e ELSE s[j-1]
<1> DEFINE a == SubSeq(s, 1, 1)
           b == SubSeq(s, 2, Len(s))
           c == a \o <<e>>
<1>1. Len(s) \in Nat /\ Len(s) >= 1
  BY LenProperties
<1>2. a \in Seq(S) /\ Len(a) = 1 /\ a[1] = s[1]
  BY <1>1, SubSeqProperties
<1>3. b \in Seq(S) /\ Len(b) = Len(s) - 1 /\ \A j \in 1 .. Len(s)-1 : b[j] = s[j+1]
  <2>1. /\ b \in Seq(S)
        /\ Len(b) = IF 2 <= Len(s) THEN Len(s) - 2 + 1 ELSE 0
        /\ \A i \in 1 .. Len(s) - 2 + 1 : b[i] = s[2 + i - 1]
    BY <1>1, SubSeqProperties
  <2>2. Len(b) = Len(s) - 1
    <3>1. \A m, n \in Nat :
             n >= 1 /\ m = (IF 2 <= n THEN n - 2 + 1 ELSE 0) => m = n - 1
      OBVIOUS
    <3>2. Len(b) \in Nat /\ Len(s) \in Nat
      BY <2>1, LenProperties
    <3>3. QED
      BY <1>1, <2>1, <3>1, <3>2, Zenon
  <2> HIDE DEF b
  <2>3. ASSUME NEW j \in 1 .. Len(s) - 1
        PROVE  b[j] = s[j+1]
    <3>1. j \in 1 .. Len(s) - 2 + 1 /\ 2 + j - 1 = j + 1
      BY <1>1
    <3>2. QED
      BY <2>1, <3>1
  <2>4. QED
    BY <2>1, <2>2, <2>3
<1> HIDE DEF a, b
<1>4. c \in Seq(S) /\ Len(c) = 2 /\ c[1] = s[1] /\ c[2] = e
  <2>1. <<e>> \in Seq(S) /\ Len(<<e>>) = 1 /\ <<e>>[1] = e
    OBVIOUS
  <2>2. /\ c \in Seq(S) /\ Len(c) = 1 + 1
        /\ \A i \in 1 .. 1 + 1 : c[i] = IF i <= 1 THEN a[i] ELSE <<e>>[i - 1]
    BY <1>2, <2>1, ConcatProperties, SMTT(30)
  <2>3. QED
    BY <1>2, <2>1, <2>2
<1> HIDE DEF c
<1>5. /\ c \o b \in Seq(S) /\ Len(c \o b) = Len(s) + 1
      /\ \A j \in 1 .. Len(s) + 1 : (c \o b)[j] = IF j <= 2 THEN c[j] ELSE b[j - 2]
  <2>1. /\ c \o b \in Seq(S) /\ Len(c \o b) = Len(c) + Len(b)
        /\ \A j \in 1 .. Len(c) + Len(b) :
              (c \o b)[j] = IF j <= Len(c) THEN c[j] ELSE b[j - Len(c)]
    BY <1>3, <1>4, ConcatProperties
  <2>2. Len(c) = 2 /\ Len(c) + Len(b) = Len(s) + 1
    BY <1>1, <1>3, <1>4
  <2>3. QED
    BY <2>1, <2>2
<1>6. ASSUME NEW j \in 1 .. Len(s) + 1
      PROVE  (c \o b)[j] = IF j = 1 THEN s[1] ELSE IF j = 2 THEN e ELSE s[j-1]
  <2>1. CASE j <= 2
    BY <1>1, <1>4, <1>5, <2>1
  <2>2. CASE ~(j <= 2)
    <3>1. (c \o b)[j] = b[j - 2]
      BY <1>5, <2>2
    <3>2. j - 2 \in 1 .. Len(s) - 1 /\ (j - 2) + 1 = j - 1
      BY <1>1, <2>2
    <3>3. QED
      BY <1>3, <2>2, <3>1, <3>2
  <2>3. QED
    BY <2>1, <2>2
<1>7. InsertAt(s, 2, e) = c \o b
  BY DEF InsertAt, a, b, c
<1>8. QED
  BY <1>1, <1>5, <1>6, <1>7

----------------------------------------------------------------------------
(* Chains. *)

\* No key is in a chain twice.
Distinct(s) == \A i, j \in 1 .. Len(s) : s[i].key = s[j].key => i = j

LEMMA RangeIs ==
    ASSUME NEW S, NEW s \in Seq(S), NEW x
    PROVE  x \in Range(s) <=> \E j \in 1 .. Len(s) : x = s[j]
<1>1. DOMAIN s = 1 .. Len(s)
  BY LenProperties
<1>2. QED
  BY <1>1 DEF Range

LEMMA RangeOfChained ==
    ASSUME NEW s \in Seq(Entries), Len(s) >= 1, NEW e \in Entries,
           NEW b \in Seq(Entries), Len(b) = Len(s) + 1,
           \A j \in 1 .. Len(s) + 1 :
              b[j] = IF j = 1 THEN s[1] ELSE IF j = 2 THEN e ELSE s[j-1]
    PROVE  /\ Range(b) = Range(s) \cup {e}
           /\ Distinct(s) /\ (\A x \in Range(s) : x.key # e.key) => Distinct(b)
<1>1. Len(s) \in Nat /\ Len(b) \in Nat
  BY LenProperties
<1>2. ASSUME NEW x
      PROVE  x \in Range(b) <=> x \in Range(s) \/ x = e
  <2>1. CASE x \in Range(b)
    <3>1. PICK j \in 1 .. Len(b) : x = b[j]
      BY <2>1, RangeIs
    <3>2. CASE j = 1
      <4>1. 1 \in 1 .. Len(s) /\ x = s[1]
        BY <1>1, <3>1, <3>2
      <4>2. QED
        BY <2>1, <4>1, RangeIs
    <3>3. CASE j = 2
      BY <1>1, <2>1, <3>1, <3>3
    <3>4. CASE j > 2
      <4>1. j - 1 \in 1 .. Len(s) /\ x = s[j-1]
        BY <1>1, <3>1, <3>4
      <4>2. QED
        BY <2>1, <4>1, RangeIs
    <3>5. QED
      BY <1>1, <3>2, <3>3, <3>4
  <2>2. CASE x \in Range(s)
    <3>1. PICK j \in 1 .. Len(s) : x = s[j]
      BY <2>2, RangeIs
    <3> DEFINE l == IF j = 1 THEN 1 ELSE j + 1
    <3>2. l \in 1 .. Len(b) /\ x = b[l]
      BY <1>1, <3>1
    <3>3. QED
      BY <2>2, <3>2, RangeIs
  <2>3. CASE x = e
    <3>1. 2 \in 1 .. Len(b) /\ x = b[2]
      BY <1>1, <2>3
    <3>2. QED
      BY <2>3, <3>1, RangeIs
  <2>4. QED
    BY <2>1, <2>2, <2>3
<1>3. ASSUME Distinct(s), \A x \in Range(s) : x.key # e.key,
             NEW i \in 1 .. Len(b), NEW j \in 1 .. Len(b), b[i].key = b[j].key
      PROVE  i = j
  <2> DEFINE from(n) == IF n = 1 THEN 1 ELSE n - 1
  <2>1. ASSUME NEW n \in 1 .. Len(b), n # 2
        PROVE  from(n) \in 1 .. Len(s) /\ b[n] = s[from(n)] /\ b[n] \in Range(s)
    <3>1. from(n) \in 1 .. Len(s) /\ b[n] = s[from(n)]
      BY <1>1, <2>1
    <3>2. QED
      BY <3>1, RangeIs
  <2>2. b[2] = e
    BY <1>1
  <2>3. CASE i = 2
    BY <2>1, <2>2, <2>3, <1>3
  <2>4. CASE j = 2
    BY <2>1, <2>2, <2>4, <1>3
  <2>5. CASE i # 2 /\ j # 2
    <3> HIDE DEF from
    <3>1. /\ from(i) \in 1 .. Len(s) /\ b[i] = s[from(i)]
          /\ from(j) \in 1 .. Len(s) /\ b[j] = s[from(j)]
      BY <2>1, <2>5
    <3>2. from(i) = from(j)
      BY <3>1, <1>3 DEF Distinct
    <3> USE DEF from
    <3>3. QED
      BY <1>1, <2>5, <3>2
  <2>6. QED
    BY <2>3, <2>4, <2>5
<1>4. QED
  BY <1>2, <1>3 DEF Distinct

LEMMA Single ==
    ASSUME NEW e \in Entries
    PROVE  /\ <<e>> \in Seq(Entries) /\ Len(<<e>>) = 1 /\ <<e>> # <<>>
           /\ Range(<<e>>) = {e} /\ Distinct(<<e>>) /\ Range(<<>>) = {}
<1>1. Range(<<e>>) = {e} /\ Range(<<>>) = {}
  BY DEF Range
<1>2. QED
  BY <1>1 DEF Distinct

\* What becomes of a chain when an entry comes in.
With(s, e) == IF s = <<>> THEN <<e>> ELSE Chained(s, e)

LEMMA Longer ==
    ASSUME NEW s \in Seq(Entries), NEW e \in Entries, NEW b, b = With(s, e)
    PROVE  /\ b \in Seq(Entries) /\ Len(b) = Len(s) + 1 /\ b # <<>>
           /\ Range(b) = Range(s) \cup {e}
           /\ Distinct(s) /\ (\A x \in Range(s) : x.key # e.key) => Distinct(b)
<1>1. CASE s = <<>>
  <2>1. b = <<e>> /\ Len(s) = 0 /\ Len(<<e>>) = Len(s) + 1
    BY <1>1 DEF With
  <2>2. Range(s) = {}
    BY <1>1, Single
  <2>3. /\ <<e>> \in Seq(Entries) /\ <<e>> # <<>>
        /\ Range(<<e>>) = Range(s) \cup {e} /\ Distinct(<<e>>)
    BY <2>2, Single, Zenon
  <2>4. QED
    BY <2>1, <2>3, Zenon
<1>2. CASE s # <<>>
  <2>1. b = InsertAt(s, 2, e)
    BY <1>2 DEF Chained, With
  <2>2. Len(s) >= 1 /\ Len(s) \in Nat
    BY <1>2, EmptySeq
  <2>3. /\ b \in Seq(Entries) /\ Len(b) = Len(s) + 1
        /\ \A j \in 1 .. Len(s) + 1 :
              b[j] = IF j = 1 THEN s[1] ELSE IF j = 2 THEN e ELSE s[j-1]
    <3>1. /\ InsertAt(s, 2, e) \in Seq(Entries)
          /\ Len(InsertAt(s, 2, e)) = Len(s) + 1
          /\ \A j \in 1 .. Len(s) + 1 :
                InsertAt(s, 2, e)[j] =
                   IF j = 1 THEN s[1] ELSE IF j = 2 THEN e ELSE s[j-1]
      BY <2>2, InsertAtIs
    <3>2. QED
      BY <2>1, <3>1, Zenon
  <2>4. b # <<>>
    BY <2>2, <2>3, EmptySeq
  <2>5. QED
    BY <2>2, <2>3, <2>4, RangeOfChained
<1>3. QED
  BY <1>1, <1>2

LEMMA Shorter ==
    ASSUME NEW s \in Seq(Entries), Distinct(s), NEW p \in 1 .. Len(s),
           NEW b, b = RemoveAt(s, p)
    PROVE  /\ b \in Seq(Entries) /\ Len(b) = Len(s) - 1
           /\ s[p] \in Range(s) /\ Range(b) = Range(s) \ {s[p]}
           /\ Distinct(b)
           /\ b = <<>> <=> Len(s) = 1
<1>1. Len(s) \in Nat /\ p \in Int
  BY LenProperties
<1>2. /\ b \in Seq(Entries) /\ Len(b) = Len(s) - 1
      /\ \A j \in 1 .. Len(s) - 1 : b[j] = IF j < p THEN s[j] ELSE s[j+1]
  BY RemoveAtIs
<1>3. b = <<>> <=> Len(s) = 1
  BY <1>1, <1>2, EmptySeq
<1>4. s[p] \in Range(s)
  BY RangeIs
<1>5. ASSUME NEW x
      PROVE  x \in Range(b) <=> x \in Range(s) /\ x # s[p]
  <2>1. CASE x \in Range(b)
    <3>1. PICK j \in 1 .. Len(s) - 1 : x = b[j]
      BY <1>2, <2>1, RangeIs
    <3> DEFINE l == IF j < p THEN j ELSE j + 1
    <3>2. l \in 1 .. Len(s) /\ x = s[l] /\ l # p
      BY <1>1, <1>2, <3>1
    <3>3. x # s[p]
      BY <3>2 DEF Distinct
    <3>4. QED
      BY <2>1, <3>2, <3>3, RangeIs
  <2>2. CASE x \in Range(s) /\ x # s[p]
    <3>1. PICK j \in 1 .. Len(s) : x = s[j]
      BY <2>2, RangeIs
    <3> DEFINE l == IF j < p THEN j ELSE j - 1
    <3>2. l \in 1 .. Len(b) /\ x = b[l]
      <4>1. j # p
        BY <2>2, <3>1
      <4>2. l \in 1 .. Len(s) - 1
        BY <1>1, <4>1
      <4>3. CASE j < p
        BY <1>1, <1>2, <3>1, <4>2, <4>3
      <4>4. CASE j > p
        BY <1>1, <1>2, <3>1, <4>2, <4>4
      <4>5. QED
        BY <1>1, <4>1, <4>3, <4>4
    <3>3. QED
      BY <1>2, <2>2, <3>2, RangeIs
  <2>3. QED
    BY <2>1, <2>2
<1>6. ASSUME NEW i \in 1 .. Len(b), NEW j \in 1 .. Len(b), b[i].key = b[j].key
      PROVE  i = j
  <2> DEFINE from(n) == IF n < p THEN n ELSE n + 1
  <2>1. ASSUME NEW n \in 1 .. Len(b)
        PROVE  from(n) \in 1 .. Len(s) /\ b[n] = s[from(n)]
    BY <1>1, <1>2
  <2>2. from(i) = from(j)
    BY <2>1, <1>6, SMTT(30) DEF Distinct
  <2>3. QED
    BY <1>1, <1>2, <2>2
<1>7. QED
  BY <1>2, <1>3, <1>4, <1>5, <1>6 DEF Distinct

----------------------------------------------------------------------------
(* Tables. *)

\* Every entry is in the chain of its hash, no key is there twice.
Chains(t) ==
    /\ t.n_buckets \in 0 .. MaxSize
    /\ t.bucket \in [0 .. t.n_buckets - 1 -> Seq(Entries)]
    /\ IsFiniteSet(Places(t))
    /\ \A i \in 0 .. t.n_buckets - 1 :
          /\ Distinct(t.bucket[i])
          /\ \A e \in Range(t.bucket[i]) : safe_hasher(t, e.key) = i

LEMMA SizeIsInt ==
    ASSUME NEW n \in 0 .. MaxSize
    PROVE  n \in Nat /\ n \in Int /\ n - 1 \in Int
<1>1. MaxSize \in Nat
  BY TableAssumption DEF TableAssumption
<1>2. QED
  BY <1>1

LEMMA HasherIs ==
    ASSUME hasher \in Hashers, NEW t, t.n_buckets \in 1 .. MaxSize, NEW k \in Keys
    PROVE  safe_hasher(t, k) \in 0 .. t.n_buckets - 1
<1>1. /\ hasher \in [1 .. MaxSize -> [Keys -> Nat]]
      /\ \A n \in 1 .. MaxSize : \A l \in Keys : hasher[n][l] < n
      /\ MaxSize \in Nat
  BY TableAssumption DEF TableAssumption
<1>2. hasher[t.n_buckets][k] \in Nat /\ hasher[t.n_buckets][k] < t.n_buckets
  BY <1>1
<1>3. QED
  BY <1>1, <1>2 DEF safe_hasher

LEMMA ContentsIs ==
    ASSUME NEW t, Chains(t), NEW x
    PROVE  /\ x \in Contents(t) <=>
                 \E i \in 0 .. t.n_buckets - 1 : x \in Range(t.bucket[i])
           /\ x \in Contents(t) => x \in Entries
<1>1. x \in Contents(t) <=>
         \E i \in 0 .. t.n_buckets - 1 : x \in Range(t.bucket[i])
  BY DEF Contents, Chains
<1>2. ASSUME NEW i \in 0 .. t.n_buckets - 1, x \in Range(t.bucket[i])
      PROVE  x \in Entries
  <2>1. t.bucket[i] \in Seq(Entries)
    BY DEF Chains
  <2>2. PICK j \in 1 .. Len(t.bucket[i]) : x = t.bucket[i][j]
    BY <1>2, <2>1, RangeIs
  <2>3. QED
    BY <2>1, <2>2, LenProperties
<1>3. QED
  BY <1>1, <1>2

LEMMA PlacesIs ==
    ASSUME NEW t, Chains(t), NEW p
    PROVE  p \in Places(t) <=>
              \E i \in 0 .. t.n_buckets - 1 :
                 \E j \in 1 .. Len(t.bucket[i]) : p = <<i, j>>
<1>1. ASSUME NEW i \in 0 .. t.n_buckets - 1
      PROVE  DOMAIN t.bucket[i] = 1 .. Len(t.bucket[i])
  BY LenProperties DEF Chains
<1>2. DOMAIN t.bucket = 0 .. t.n_buckets - 1
  BY DEF Chains
<1>3. p \in Places(t) <=>
         \E i \in 0 .. t.n_buckets - 1 : p \in {i} \X DOMAIN t.bucket[i]
  BY <1>2 DEF Places
<1>4. QED
  BY <1>1, <1>3

LEMMA HeadsAre ==
    ASSUME NEW t, Chains(t)
    PROVE  /\ IsFiniteSet(Heads(t, 0)) /\ Cardinality(Heads(t, 0)) \in Nat
           /\ Cardinality(Places(t)) \in Nat
           /\ \A i : i \in Heads(t, 0) <=>
                        i \in 0 .. t.n_buckets - 1 /\ t.bucket[i] # <<>>
<1>1. 0 \in Int /\ t.n_buckets - 1 \in Int
  BY SizeIsInt DEF Chains
<1>2. IsFiniteSet(0 .. t.n_buckets - 1)
  BY <1>1, FS_Interval
<1>3. Heads(t, 0) \in SUBSET (0 .. t.n_buckets - 1)
  BY DEF Heads
<1>4. IsFiniteSet(Heads(t, 0))
  BY <1>2, <1>3, FS_Subset
<1>5. QED
  BY <1>4, FS_CardinalityType DEF Heads, Chains

----------------------------------------------------------------------------
(* One chain of a table is replaced. *)

LEMMA Replaced ==
    ASSUME NEW t, Chains(t), NEW d \in 0 .. t.n_buckets - 1,
           NEW b \in Seq(Entries), Distinct(b),
           \A e \in Range(b) : safe_hasher(t, e.key) = d,
           NEW u, u.n_buckets = t.n_buckets,
           u.bucket = [t.bucket EXCEPT ![d] = b],
           IsFiniteSet(Places(u))
    PROVE  /\ Chains(u) /\ u.bucket[d] = b
           /\ \A i \in 0 .. t.n_buckets - 1 : i # d => u.bucket[i] = t.bucket[i]
<1>1. /\ u.bucket \in [0 .. u.n_buckets - 1 -> Seq(Entries)]
      /\ u.n_buckets \in 0 .. MaxSize
      /\ u.bucket[d] = b
      /\ \A i \in 0 .. t.n_buckets - 1 : i # d => u.bucket[i] = t.bucket[i]
  BY DEF Chains
<1>2. \A k : safe_hasher(u, k) = safe_hasher(t, k)
  BY DEF safe_hasher
<1>3. \A i \in 0 .. u.n_buckets - 1 :
         /\ Distinct(u.bucket[i])
         /\ \A e \in Range(u.bucket[i]) : safe_hasher(u, e.key) = i
  BY <1>1, <1>2 DEF Chains
<1>4. QED
  BY <1>1, <1>3 DEF Chains

LEMMA ChainGrows ==
    ASSUME NEW t, Chains(t), NEW d \in 0 .. t.n_buckets - 1,
           NEW e \in Entries, safe_hasher(t, e.key) = d,
           NEW b \in Seq(Entries), b # <<>>, Distinct(b),
           Len(b) = Len(t.bucket[d]) + 1, Range(b) = Range(t.bucket[d]) \cup {e},
           NEW u, u.n_buckets = t.n_buckets,
           u.bucket = [t.bucket EXCEPT ![d] = b]
    PROVE  /\ Chains(u)
           /\ Contents(u) = Contents(t) \cup {e}
           /\ Cardinality(Places(u)) = Cardinality(Places(t)) + 1
           /\ Heads(u, 0) = Heads(t, 0) \cup {d}
           /\ Cardinality(Heads(u, 0)) = Cardinality(Heads(t, 0))
                 + (IF t.bucket[d] = <<>> THEN 1 ELSE 0)
<1> DEFINE s == t.bucket[d]
<1>1. s \in Seq(Entries) /\ Distinct(s) /\ Len(s) \in Nat
  BY LenProperties DEF Chains
<1>3. Len(b) = Len(s) + 1 /\ Range(b) = Range(s) \cup {e}
  OBVIOUS
<1>4. \A x \in Range(b) : safe_hasher(t, x.key) = d
  BY <1>3 DEF Chains
<1>5. /\ DOMAIN u.bucket = 0 .. t.n_buckets - 1 /\ u.bucket[d] = b
      /\ \A i \in 0 .. t.n_buckets - 1 : i # d => u.bucket[i] = t.bucket[i]
  BY DEF Chains
<1> HIDE DEF s
<1>6. Places(u) = Places(t) \cup {<<d, Len(s) + 1>>}
  <2>1. DOMAIN b = 1 .. Len(s) + 1 /\ DOMAIN s = 1 .. Len(s)
    BY <1>1, <1>3, LenProperties
  <2>2. \A i \in 0 .. t.n_buckets - 1 :
           {i} \X DOMAIN u.bucket[i] =
              ({i} \X DOMAIN t.bucket[i])
                 \cup (IF i = d THEN {<<d, Len(s) + 1>>} ELSE {})
    BY <1>1, <1>5, <2>1 DEF s
  <2>3. DOMAIN t.bucket = 0 .. t.n_buckets - 1
    BY DEF Chains
  <2>4. ASSUME NEW q
        PROVE  q \in Places(u) <=> q \in Places(t) \/ q = <<d, Len(s) + 1>>
    <3>1. q \in Places(u) <=>
             \E i \in 0 .. t.n_buckets - 1 : q \in {i} \X DOMAIN u.bucket[i]
      BY <1>5, ZenonT(30) DEF Places
    <3>2. q \in Places(t) <=>
             \E i \in 0 .. t.n_buckets - 1 : q \in {i} \X DOMAIN t.bucket[i]
      BY <2>3 DEF Places
    <3>3. QED
      BY <2>2, <3>1, <3>2
  <2>5. QED
    BY <2>4
<1>7. <<d, Len(s) + 1>> \notin Places(t)
  BY <1>1, PlacesIs DEF s
<1>8. IsFiniteSet(Places(u)) /\ Cardinality(Places(u)) = Cardinality(Places(t)) + 1
  <2>1. IsFiniteSet(Places(t))
    BY DEF Chains
  <2>2. QED
    BY <1>6, <1>7, <2>1, FS_AddElement
<1>9. Chains(u)
  BY <1>3, <1>4, <1>8, Replaced
<1>10. ASSUME NEW x
       PROVE  x \in Contents(u) <=> x \in Contents(t) \/ x = e
  <2>1. x \in Contents(u) <=>
           \E i \in 0 .. t.n_buckets - 1 : x \in Range(u.bucket[i])
    BY <1>9, ContentsIs
  <2>2. x \in Contents(t) <=>
           \E i \in 0 .. t.n_buckets - 1 : x \in Range(t.bucket[i])
    BY ContentsIs
  <2>3. QED
    BY <1>3, <1>5, <2>1, <2>2 DEF s
<1>11. Heads(u, 0) = Heads(t, 0) \cup {d}
  <2>1. \A i : i \in Heads(u, 0) <=>
                  i \in 0 .. t.n_buckets - 1 /\ u.bucket[i] # <<>>
    BY <1>9, HeadsAre
  <2>2. QED
    BY <1>3, <1>5, <2>1, HeadsAre
<1>12. Cardinality(Heads(u, 0)) = Cardinality(Heads(t, 0))
          + (IF t.bucket[d] = <<>> THEN 1 ELSE 0)
  <2>1. IsFiniteSet(Heads(t, 0)) /\ Cardinality(Heads(t, 0)) \in Nat
        /\ (d \in Heads(t, 0) <=> t.bucket[d] # <<>>)
    BY HeadsAre
  <2>2. Cardinality(Heads(u, 0)) = IF d \in Heads(t, 0)
           THEN Cardinality(Heads(t, 0)) ELSE Cardinality(Heads(t, 0)) + 1
    BY <1>11, <2>1, FS_AddElement
  <2>3. QED
    BY <2>1, <2>2
<1>13. QED
  BY <1>8, <1>9, <1>10, <1>11, <1>12

LEMMA PutIn ==
    ASSUME NEW t, Chains(t), NEW d \in 0 .. t.n_buckets - 1,
           NEW e \in Entries, safe_hasher(t, e.key) = d,
           \A x \in Contents(t) : x.key # e.key,
           NEW u, u.n_buckets = t.n_buckets,
           u.bucket = [t.bucket EXCEPT ![d] = With(t.bucket[d], e)]
    PROVE  /\ Chains(u)
           /\ Contents(u) = Contents(t) \cup {e}
           /\ Cardinality(Places(u)) = Cardinality(Places(t)) + 1
           /\ Heads(u, 0) = Heads(t, 0) \cup {d}
           /\ Cardinality(Heads(u, 0)) = Cardinality(Heads(t, 0))
                 + (IF t.bucket[d] = <<>> THEN 1 ELSE 0)
<1> DEFINE s == t.bucket[d]
           b == With(s, e)
<1>1. s \in Seq(Entries) /\ Distinct(s)
  BY DEF Chains
<1>2. \A x \in Range(s) : x.key # e.key
  BY ContentsIs
<1>3. /\ b \in Seq(Entries) /\ Len(b) = Len(s) + 1 /\ b # <<>>
      /\ Range(b) = Range(s) \cup {e}
      /\ Distinct(b)
  <2> HIDE DEF s, b
  <2>1. b = With(s, e)
    BY DEF b
  <2>2. QED
    BY <1>1, <1>2, <2>1, Longer
<1>4. QED
  BY <1>3, ChainGrows

\* u is t without the p-th entry of the d-th chain.
Without(t, u, d, p) ==
    /\ Chains(t) /\ d \in 0 .. t.n_buckets - 1 /\ p \in 1 .. Len(t.bucket[d])
    /\ u.n_buckets = t.n_buckets
    /\ u.bucket = [t.bucket EXCEPT ![d] = RemoveAt(t.bucket[d], p)]

LEMMA TakeOut ==
    ASSUME NEW t, NEW u, NEW d, NEW p, Without(t, u, d, p)
    PROVE  /\ Chains(u)
           /\ t.bucket[d][p] \in Contents(t)
           /\ Contents(u) = Contents(t) \ {t.bucket[d][p]}
           /\ Cardinality(Places(u)) = Cardinality(Places(t)) - 1
           /\ Cardinality(Heads(u, 0)) = Cardinality(Heads(t, 0))
                 - (IF Len(t.bucket[d]) = 1 THEN 1 ELSE 0)
           /\ Len(u.bucket[d]) = Len(t.bucket[d]) - 1
           /\ u.bucket[d] = RemoveAt(t.bucket[d], p)
           /\ u.bucket[d] = <<>> <=> Len(t.bucket[d]) = 1
           /\ \A i \in 0 .. t.n_buckets - 1 : i # d => u.bucket[i] = t.bucket[i]
<1> USE DEF Without
<1> DEFINE s == t.bucket[d]
           b == RemoveAt(s, p)
<1>1. s \in Seq(Entries) /\ Distinct(s) /\ Len(s) \in Nat
  BY LenProperties DEF Chains
<1>2. /\ b \in Seq(Entries) /\ Len(b) = Len(s) - 1
      /\ s[p] \in Range(s) /\ Range(b) = Range(s) \ {s[p]}
      /\ Distinct(b)
      /\ b = <<>> <=> Len(s) = 1
  <2> HIDE DEF s, b
  <2>1. p \in 1 .. Len(s) /\ b = RemoveAt(s, p)
    BY DEF s, b
  <2>2. QED
    BY <1>1, <2>1, Shorter
<1>0. u.bucket = [t.bucket EXCEPT ![d] = b] /\ b = RemoveAt(t.bucket[d], p)
  OBVIOUS
<1> HIDE DEF b
<1>3. \A x \in Range(s) : safe_hasher(t, x.key) = d
  BY DEF Chains
<1>4. /\ DOMAIN u.bucket = 0 .. t.n_buckets - 1 /\ u.bucket[d] = b
      /\ \A i \in 0 .. t.n_buckets - 1 : i # d => u.bucket[i] = t.bucket[i]
  BY <1>0 DEF Chains
<1>5. s # <<>> /\ Len(s) >= 1
  BY <1>1, EmptySeq
<1> HIDE DEF s
<1>6. Places(u) = Places(t) \ {<<d, Len(s)>>}
  <2>1. DOMAIN b = 1 .. Len(s) - 1 /\ DOMAIN s = 1 .. Len(s)
    BY <1>1, <1>2, LenProperties
  <2>2. \A i \in 0 .. t.n_buckets - 1 :
           {i} \X DOMAIN u.bucket[i] = ({i} \X DOMAIN t.bucket[i]) \ {<<d, Len(s)>>}
    BY <1>1, <1>4, <2>1 DEF s
  <2>3. DOMAIN t.bucket = 0 .. t.n_buckets - 1
    BY DEF Chains
  <2>4. ASSUME NEW q
        PROVE  q \in Places(u) <=> q \in Places(t) /\ q # <<d, Len(s)>>
    <3>1. q \in Places(u) <=>
             \E i \in 0 .. t.n_buckets - 1 : q \in {i} \X DOMAIN u.bucket[i]
      BY <1>4 DEF Places
    <3>2. q \in Places(t) <=>
             \E i \in 0 .. t.n_buckets - 1 : q \in {i} \X DOMAIN t.bucket[i]
      BY <2>3 DEF Places
    <3>3. QED
      BY <2>2, <3>1, <3>2
  <2>5. QED
    BY <2>4
<1>7. <<d, Len(s)>> \in Places(t)
  <2>1. Len(s) \in 1 .. Len(t.bucket[d])
    BY <1>1, <1>5 DEF s
  <2>2. QED
    BY <2>1, PlacesIs
<1>8. IsFiniteSet(Places(u)) /\ Cardinality(Places(u)) = Cardinality(Places(t)) - 1
  BY <1>6, <1>7, FS_RemoveElement, ZenonT(30) DEF Chains
<1>9. Chains(u)
  BY <1>0, <1>2, <1>3, <1>8, Replaced
<1>10. ASSUME NEW x
       PROVE  x \in Contents(u) <=> x \in Contents(t) /\ x # s[p]
  <2>1. x \in Contents(u) <=>
           \E i \in 0 .. t.n_buckets - 1 : x \in Range(u.bucket[i])
    BY <1>9, ContentsIs
  <2>2. x \in Contents(t) <=>
           \E i \in 0 .. t.n_buckets - 1 : x \in Range(t.bucket[i])
    BY ContentsIs
  <2>3. \A i \in 0 .. t.n_buckets - 1 : i # d => s[p] \notin Range(t.bucket[i])
    BY <1>2, <1>3 DEF Chains
  <2>4. QED
    BY <1>2, <1>4, <2>1, <2>2, <2>3 DEF s
<1>11. s[p] \in Contents(t)
  BY <1>2, ContentsIs DEF s
<1>12. Heads(u, 0) = Heads(t, 0) \ (IF b = <<>> THEN {d} ELSE {})
  <2>1. \A i : i \in Heads(u, 0) <=>
                  i \in 0 .. t.n_buckets - 1 /\ u.bucket[i] # <<>>
    BY <1>9, HeadsAre
  <2>2. \A i : i \in Heads(t, 0) <=>
                  i \in 0 .. t.n_buckets - 1 /\ t.bucket[i] # <<>>
    BY HeadsAre
  <2>3. QED
    BY <1>4, <1>5, <2>1, <2>2 DEF s
<1>13. Cardinality(Heads(u, 0)) = Cardinality(Heads(t, 0))
          - (IF b = <<>> THEN 1 ELSE 0)
  <2>1. IsFiniteSet(Heads(t, 0)) /\ Cardinality(Heads(t, 0)) \in Nat
        /\ d \in Heads(t, 0)
    BY <1>5, HeadsAre DEF s
  <2>2. CASE b = <<>>
    <3>1. Heads(u, 0) = Heads(t, 0) \ {d}
      BY <1>12, <2>2
    <3>2. QED
      BY <2>1, <2>2, <3>1, FS_RemoveElement
  <2>3. CASE b # <<>>
    <3>1. Heads(u, 0) = Heads(t, 0)
      BY <1>12, <2>3
    <3>2. QED
      BY <2>1, <2>3, <3>1
  <2>4. QED
    BY <2>2, <2>3
<1>14. QED
  BY <1>0, <1>2, <1>4, <1>8, <1>9, <1>10, <1>11, <1>13 DEF s

----------------------------------------------------------------------------
(* Looking up. *)

LEMMA OneOfAKey ==
    ASSUME NEW t, Chains(t), NEW e \in Contents(t), NEW f \in Contents(t),
           e.key = f.key
    PROVE  e = f
<1>1. PICK i \in 0 .. t.n_buckets - 1 : e \in Range(t.bucket[i])
  BY ContentsIs
<1>2. PICK j \in 0 .. t.n_buckets - 1 : f \in Range(t.bucket[j])
  BY ContentsIs
<1>3. i = safe_hasher(t, e.key) /\ j = safe_hasher(t, f.key)
  BY <1>1, <1>2 DEF Chains
<1>4. i = j
  BY <1>3
<1> DEFINE s == t.bucket[i]
<1>5. s \in Seq(Entries) /\ Distinct(s)
  BY DEF Chains
<1>6. PICK m \in 1 .. Len(s) : e = s[m]
  BY <1>1, <1>5, RangeIs
<1>7. PICK n \in 1 .. Len(s) : f = s[n]
  BY <1>2, <1>4, <1>5, RangeIs
<1>8. m = n
  BY <1>5, <1>6, <1>7 DEF Distinct
<1>9. QED
  BY <1>6, <1>7, <1>8

LEMMA LookupIs ==
    ASSUME hasher \in Hashers, NEW t, Chains(t), t.n_buckets >= 1, NEW k \in Keys
    PROVE  /\ safe_hasher(t, k) \in 0 .. t.n_buckets - 1
           /\ \/ /\ hash_lookup(t, k) = NULL /\ Place(t, k) = 0
                 /\ \A e \in Contents(t) : e.key # k
              \/ /\ Place(t, k) \in 1 .. Len(Bucket(t, k))
                 /\ Bucket(t, k)[Place(t, k)] \in Contents(t)
                 /\ Bucket(t, k)[Place(t, k)].key = k
                 /\ Bucket(t, k)[Place(t, k)].value = hash_lookup(t, k)
                 /\ hash_lookup(t, k) # NULL
<1> DEFINE d == safe_hasher(t, k)
           s == Bucket(t, k)
           at_k == {j \in DOMAIN s : s[j].key = k}
           p == Place(t, k)
<1>1. d \in 0 .. t.n_buckets - 1
  <2>1. t.n_buckets \in 1 .. MaxSize
    BY SizeIsInt DEF Chains
  <2>2. QED
    BY <2>1, HasherIs
<1>2. s = t.bucket[d] /\ s \in Seq(Entries) /\ Distinct(s)
  BY <1>1 DEF Chains, Bucket
<1>3. DOMAIN s = 1 .. Len(s) /\ Len(s) \in Nat
  BY <1>2, LenProperties
<1>4. p = IF at_k = {} THEN 0 ELSE CHOOSE j \in at_k : \A i \in at_k : j <= i
  BY DEF Place
<1> HIDE DEF s, d, p
<1>5. CASE at_k = {}
  <2>1. p = 0
    BY <1>4, <1>5
  <2>2. hash_lookup(t, k) = NULL
    BY <2>1 DEF hash_lookup, p
  <2>3. ASSUME NEW e \in Contents(t), e.key = k
        PROVE  FALSE
    <3>1. PICK i \in 0 .. t.n_buckets - 1 : e \in Range(t.bucket[i])
      BY ContentsIs
    <3>2. i = d
      BY <2>3, <3>1 DEF Chains, d
    <3>3. PICK j \in 1 .. Len(s) : e = s[j]
      BY <1>2, <3>1, <3>2, RangeIs
    <3>4. QED
      BY <1>3, <1>5, <2>3, <3>3
  <2>4. QED
    BY <1>1, <2>1, <2>2, <2>3 DEF d, p
<1>6. CASE at_k # {}
  <2>1. PICK j \in at_k : TRUE
    BY <1>6
  <2>2. \A i \in at_k : i = j
    BY <1>2, <1>3, <2>1 DEF Distinct
  <2>3. j \in Int
    BY <1>3, <2>1
  <2>4. j \in at_k /\ \A i \in at_k : j <= i
    BY <2>1, <2>2, <2>3
  <2>5. p \in at_k
    BY <1>4, <1>6, <2>4
  <2>6. p \in 1 .. Len(s) /\ s[p].key = k /\ p # 0
    BY <1>3, <2>5
  <2>7. s[p] \in Range(s)
    BY <1>2, <2>6, RangeIs
  <2>8. s[p] \in Contents(t) /\ s[p] \in Entries
    BY <1>1, <1>2, <2>7, ContentsIs
  <2>9. hash_lookup(t, k) = s[p].value
    BY <2>6 DEF hash_lookup, s, p
  <2>10. s[p].value # NULL
    BY <2>8, TableAssumption DEF TableAssumption, Entries
  <2>11. QED
    BY <1>1, <2>6, <2>8, <2>9, <2>10 DEF s, p, d
<1>7. QED
  BY <1>5, <1>6

LEMMA LeastOf ==
    ASSUME NEW T, T \subseteq Nat, T # {}
    PROVE  \E m \in T : \A n \in T : m <= n
<1>1. PICK x \in T : \A y \in T : ~ (<<y, x>> \in OpToRel(<, Nat))
  BY WFMin, NatLessThanWellFounded, Zenon
<1>2. \A y \in T : ~ (y < x)
  BY <1>1 DEF OpToRel
<1>3. QED
  BY <1>2

LEMMA FirstIs ==
    ASSUME NEW t, Chains(t), Heads(t, 0) # {}
    PROVE  FirstFrom(t, 0) \in Keys
<1>1. Heads(t, 0) \subseteq Nat
  BY HeadsAre, SizeIsInt DEF Chains
<1>2. PICK m \in Heads(t, 0) : \A n \in Heads(t, 0) : m <= n
  BY <1>1, LeastOf
<1> DEFINE i == CHOOSE j \in Heads(t, 0) : \A n \in Heads(t, 0) : j <= n
<1>3. i \in Heads(t, 0)
  BY <1>2
<1>4. FirstFrom(t, 0) = Head(t.bucket[i]).key
  BY DEF FirstFrom
<1> HIDE DEF i
<1>5. t.bucket[i] \in Seq(Entries) /\ t.bucket[i] # <<>>
  BY <1>3, HeadsAre DEF Chains
<1>6. Head(t.bucket[i]) \in Entries
  BY <1>5
<1>7. QED
  BY <1>4, <1>6 DEF Entries

----------------------------------------------------------------------------
(* Tables that are empty, and two tables an entry goes between. *)

LEMMA EmptyIs ==
    ASSUME NEW t, Chains(t), \A i \in 0 .. t.n_buckets - 1 : t.bucket[i] = <<>>
    PROVE  /\ Contents(t) = {} /\ Places(t) = {} /\ Heads(t, 0) = {}
           /\ Cardinality(Places(t)) = 0 /\ Cardinality(Heads(t, 0)) = 0
<1>1. \A i \in 0 .. t.n_buckets - 1 : Range(t.bucket[i]) = {} /\ Len(t.bucket[i]) = 0
  BY DEF Range
<1>2. Contents(t) = {}
  BY <1>1, ContentsIs
<1>3. Places(t) = {}
  BY <1>1, PlacesIs
<1>4. Heads(t, 0) = {}
  BY HeadsAre
<1>5. QED
  BY <1>2, <1>3, <1>4, FS_EmptySet

LEMMA FreshIs ==
    ASSUME NEW t, NEW n \in 0 .. MaxSize, t.n_buckets = n,
           t.bucket = EmptyBuckets(n)
    PROVE  /\ Chains(t) /\ Contents(t) = {}
           /\ \A i \in 0 .. n - 1 : t.bucket[i] = <<>>
           /\ Places(t) = {} /\ Cardinality(Places(t)) = 0
           /\ Heads(t, 0) = {} /\ Cardinality(Heads(t, 0)) = 0
<1>1. /\ t.bucket \in [0 .. n - 1 -> Seq(Entries)]
      /\ \A i \in 0 .. n - 1 : t.bucket[i] = <<>>
      /\ DOMAIN t.bucket = 0 .. n - 1
  BY DEF EmptyBuckets
<1>2. \A i \in 0 .. n - 1 : DOMAIN t.bucket[i] = {} /\ Range(t.bucket[i]) = {}
                            /\ Distinct(t.bucket[i])
  BY <1>1 DEF Range, Distinct
<1>3. Places(t) = {}
  BY <1>1, <1>2 DEF Places
<1>4. Chains(t)
  BY <1>1, <1>2, <1>3, FS_EmptySet DEF Chains
<1>5. QED
  BY <1>1, <1>4, EmptyIs

\* No key is in both tables.
Apart(t, u) == \A e \in Contents(t) : \A f \in Contents(u) : e.key # f.key

\* "to" and "left" are dst and src after the p-th entry of src's i-th chain
\* went to dst's d-th.
Relinks(dst, src, i, p, d, to, left) ==
    /\ Chains(dst) /\ Chains(src) /\ Apart(dst, src) /\ dst.n_buckets >= 1
    /\ i \in 0 .. src.n_buckets - 1 /\ p \in 1 .. Len(src.bucket[i])
    /\ d = safe_hasher(dst, src.bucket[i][p].key)
    /\ to.n_buckets = dst.n_buckets
    /\ to.bucket = [dst.bucket EXCEPT ![d] =
                       With(dst.bucket[d], src.bucket[i][p])]
    /\ left.n_buckets = src.n_buckets
    /\ left.bucket = [src.bucket EXCEPT ![i] = RemoveAt(src.bucket[i], p)]

LEMMA Relinked ==
    ASSUME hasher \in Hashers, NEW dst, NEW src, NEW i, NEW p, NEW d,
           NEW to, NEW left, Relinks(dst, src, i, p, d, to, left)
    PROVE  /\ Chains(to) /\ Chains(left) /\ Apart(to, left)
           /\ Contents(to) \cup Contents(left) = Contents(dst) \cup Contents(src)
           /\ Cardinality(Places(to)) + Cardinality(Places(left))
                 = Cardinality(Places(dst)) + Cardinality(Places(src))
           /\ Cardinality(Heads(to, 0)) = Cardinality(Heads(dst, 0))
                 + (IF dst.bucket[d] = <<>> THEN 1 ELSE 0)
           /\ Cardinality(Heads(left, 0)) = Cardinality(Heads(src, 0))
                 - (IF Len(src.bucket[i]) = 1 THEN 1 ELSE 0)
           /\ \A j \in 0 .. src.n_buckets - 1 :
                 j # i => left.bucket[j] = src.bucket[j]
           /\ Len(left.bucket[i]) = Len(src.bucket[i]) - 1
<1> USE DEF Relinks
<1> DEFINE e == src.bucket[i][p]
<1>1. src.bucket[i] \in Seq(Entries)
  BY DEF Chains
<1>2. e \in Range(src.bucket[i])
  BY <1>1, RangeIs
<1>3. e \in Contents(src) /\ e \in Entries /\ e.key \in Keys
  BY <1>2, ContentsIs DEF Entries
<1>4. d \in 0 .. dst.n_buckets - 1
  <2>1. dst.n_buckets \in 1 .. MaxSize
    BY SizeIsInt DEF Chains
  <2>2. QED
    BY <1>3, <2>1, HasherIs
<1>5. \A x \in Contents(dst) : x.key # e.key
  BY <1>3 DEF Apart
<1>6. /\ Chains(left)
      /\ Contents(left) = Contents(src) \ {e}
      /\ Cardinality(Places(left)) = Cardinality(Places(src)) - 1
      /\ Cardinality(Heads(left, 0)) = Cardinality(Heads(src, 0))
            - (IF Len(src.bucket[i]) = 1 THEN 1 ELSE 0)
      /\ \A j \in 0 .. src.n_buckets - 1 : j # i => left.bucket[j] = src.bucket[j]
      /\ Len(left.bucket[i]) = Len(src.bucket[i]) - 1
  <2>1. Without(src, left, i, p)
    BY DEF Without
  <2>2. QED
    BY ONLY <2>1, TakeOut
<1>7. /\ to.bucket = [dst.bucket EXCEPT ![d] = With(dst.bucket[d], e)]
      /\ d = safe_hasher(dst, e.key)
  OBVIOUS
<1> HIDE DEF e
<1>8. /\ Chains(to)
       /\ Contents(to) = Contents(dst) \cup {e}
       /\ Cardinality(Places(to)) = Cardinality(Places(dst)) + 1
       /\ Cardinality(Heads(to, 0)) = Cardinality(Heads(dst, 0))
             + (IF dst.bucket[d] = <<>> THEN 1 ELSE 0)
  BY <1>3, <1>4, <1>5, <1>7, PutIn
<1>9. Apart(to, left)
  <2>1. ASSUME NEW x \in Contents(to), NEW y \in Contents(left), x.key = y.key
        PROVE  FALSE
    <3>1. y \in Contents(src) /\ y # e
      BY <1>6
    <3>2. CASE x = e
      BY <1>3, <2>1, <3>1, <3>2, OneOfAKey
    <3>3. CASE x \in Contents(dst)
      BY <2>1, <3>1, <3>3 DEF Apart
    <3>4. QED
      BY <1>8, <3>2, <3>3
  <2>2. QED
    BY <2>1 DEF Apart
<1>10. Contents(to) \cup Contents(left) = Contents(dst) \cup Contents(src)
  BY <1>3, <1>6, <1>8
<1>11. Cardinality(Places(to)) + Cardinality(Places(left))
          = Cardinality(Places(dst)) + Cardinality(Places(src))
  <2>1. Cardinality(Places(dst)) \in Nat /\ Cardinality(Places(src)) \in Nat
    BY HeadsAre
  <2>2. QED
    BY <1>6, <1>8, <2>1
<1>12. QED
  BY <1>6, <1>8, <1>9, <1>10, <1>11

----------------------------------------------------------------------------
(***************************************************************************)
(* The invariant.                                                          *)
(***************************************************************************)
\* struct hash_table has these members.
Members(t) ==
    /\ DOMAIN t = {"bucket", "n_buckets", "n_buckets_used", "n_entries", "free"}
    /\ t.n_buckets_used \in Int /\ t.n_entries \in Int /\ t.free \in Nat

\* A table is sound: its chains, and its count of used buckets.
TableOK(t) ==
    /\ Members(t) /\ Chains(t)
    /\ t.n_buckets_used = Cardinality(Heads(t, 0))

HashTypeOK ==
    /\ hasher \in Hashers
    /\ table.n_buckets >= 1
    /\ TableOK(table) /\ TableOK(storage) /\ Apart(table, storage)
    /\ pc \in {"ready", "transfer", "undo", "heads", "insert"}
    /\ at \in Nat /\ nodes \in Int

AllEntries == Contents(table) \cup Contents(storage)

\* The entry that is being inserted is not in the tables.
Pending ==
    /\ pc # "ready" =>
          /\ new \in [key : Keys, value : Values, bucket : Int]
          /\ \A e \in AllEntries : e.key # new.key
    /\ pc = "insert" => new.bucket = safe_hasher(table, new.key)
    /\ pc \in {"ready", "insert"} => storage = NoTable

Counted ==
    table.n_entries = Cardinality(Places(table)) + Cardinality(Places(storage))

\* What transfer_entries has passed is empty, but for the heads it saves for
\* the second pass back.
Passed ==
    /\ pc \in {"transfer", "undo", "heads"} =>
          storage.n_buckets >= 1 /\ at <= Src.n_buckets
    /\ pc \in {"transfer", "heads"} =>
          \A i \in 0 .. at - 1 : Src.bucket[i] = <<>>
    /\ pc = "undo" => \A i \in 0 .. at - 1 : Len(storage.bucket[i]) <= 1
    /\ pc = "heads" =>
          \A i \in 0 .. storage.n_buckets - 1 : Len(storage.bucket[i]) <= 1

\* The buckets the old table uses when it has all entries; for the others
\* there is overflow, and that is what malloc has already given.
Homes == {safe_hasher(table, e.key) : e \in AllEntries}

Enough ==
    pc \in {"transfer", "undo", "heads"} =>
        nodes >= table.n_entries - Cardinality(Homes)

HashInv ==
    /\ HashTypeOK /\ Pending /\ Counted /\ Passed /\ Enough
    /\ NothingLeaks /\ NoAbort


----------------------------------------------------------------------------
(* With the same hash function the next state's tables are sound as tables
   of this state. *)
LEMMA PrimesAre ==
    ASSUME hasher' = hasher
    PROVE  /\ TableOK(table)' <=> TableOK(table')
           /\ TableOK(storage)' <=> TableOK(storage')
           /\ Apart(table, storage)' <=> Apart(table', storage')
           /\ AllEntries' = Contents(table') \cup Contents(storage')
           /\ Counted' <=> table'.n_entries = Cardinality(Places(table'))
                                                + Cardinality(Places(storage'))
           /\ \A k : safe_hasher(table, k)' = safe_hasher(table', k)
  BY DEF TableOK, Chains, safe_hasher, Apart, Members, Contents, Places, Heads,
         AllEntries, Counted, Entries

LEMMA DstSrc ==
    ASSUME HashInv
    PROVE  /\ TableOK(Dst) /\ TableOK(Src) /\ Apart(Dst, Src)
           /\ AllEntries = Contents(Dst) \cup Contents(Src)
           /\ Cardinality(Places(Dst)) \in Nat /\ Cardinality(Places(Src)) \in Nat
           /\ table.n_entries = Cardinality(Places(Dst)) + Cardinality(Places(Src))
           /\ nodes = Dst.free + table.n_entries
                         - Dst.n_buckets_used - Src.n_buckets_used
           /\ pc \in {"transfer", "undo", "heads"} =>
                 Dst.n_buckets >= 1 /\ Src.n_buckets >= 1
           /\ Dst.free \in Nat /\ Dst.n_buckets_used \in Int
           /\ Src.n_buckets_used \in Int /\ table.n_entries \in Int
<1>1. /\ TableOK(table) /\ TableOK(storage) /\ Apart(table, storage)
      /\ table.n_buckets >= 1 /\ Counted /\ NothingLeaks /\ Passed
  BY DEF HashInv, HashTypeOK
<1>2. /\ Cardinality(Places(table)) \in Nat /\ Cardinality(Places(storage)) \in Nat
  BY <1>1, HeadsAre DEF TableOK
<1>3. /\ table.free \in Nat /\ table.n_buckets_used \in Int
      /\ storage.free \in Nat /\ storage.n_buckets_used \in Int
      /\ table.n_entries \in Int
  BY <1>1 DEF TableOK, Members
<1>4. Apart(storage, table)
  BY <1>1 DEF Apart
<1>5. CASE pc = "transfer"
  <2>1. Dst = storage /\ Src = table
    BY <1>5 DEF Dst, Src
  <2>2. QED
    BY <1>1, <1>2, <1>3, <1>4, <1>5, <2>1, SMTT(30)
    DEF AllEntries, Counted, NothingLeaks, Passed
<1>6. CASE pc # "transfer"
  <2>1. Dst = table /\ Src = storage
    BY <1>6 DEF Dst, Src
  <2>2. QED
    BY <1>1, <1>2, <1>3, <1>4, <2>1
    DEF AllEntries, Counted, NothingLeaks, Passed
<1>7. QED
  BY <1>5, <1>6


----------------------------------------------------------------------------
(***************************************************************************)
(* The steps keep the invariant.  First any step that moves the p-th entry *)
(* of the bucket transfer_entries has come to.                             *)
(***************************************************************************)
LEMMA PartsOfInv ==
    ASSUME HashInv
    PROVE  /\ hasher \in Hashers /\ table.n_buckets >= 1
           /\ TableOK(table) /\ TableOK(storage) /\ Apart(table, storage)
           /\ pc \in {"ready", "transfer", "undo", "heads", "insert"}
           /\ at \in Nat /\ nodes \in Int /\ ~aborted
           /\ Pending /\ Counted /\ Passed /\ Enough /\ NothingLeaks
  BY DEF HashInv, HashTypeOK, NoAbort

LEMMA HomesAre ==
    ASSUME HashInv
    PROVE  /\ Homes \subseteq 0 .. table.n_buckets - 1
           /\ IsFiniteSet(Homes) /\ Cardinality(Homes) \in Nat
<1>1. /\ hasher \in Hashers /\ Chains(table) /\ Chains(storage)
      /\ table.n_buckets \in 1 .. MaxSize /\ table.n_buckets - 1 \in Int
  BY PartsOfInv, SizeIsInt DEF TableOK, Chains
<1>2. \A e \in AllEntries : e.key \in Keys
  BY <1>1, ContentsIs DEF AllEntries, Entries
<1>3. Homes \subseteq 0 .. table.n_buckets - 1
  BY <1>1, <1>2, HasherIs DEF Homes
<1>4. IsFiniteSet(0 .. table.n_buckets - 1)
  BY <1>1, FS_Interval
<1>5. QED
  BY <1>3, <1>4, FS_Subset, FS_CardinalityType

LEMMA MovedInv ==
    ASSUME HashInv, Moving, at < Src.n_buckets,
           NEW to, NEW left, Become(to, left),
           TableOK(to), TableOK(left), Apart(to, left),
           Contents(to) \cup Contents(left) = AllEntries,
           Cardinality(Places(to)) + Cardinality(Places(left)) = table.n_entries,
           to.n_buckets = Dst.n_buckets, left.n_buckets = Src.n_buckets,
           to.n_entries = Dst.n_entries, left.n_entries = Src.n_entries,
           \A j \in 0 .. Src.n_buckets - 1 : j # at => left.bucket[j] = Src.bucket[j],
           pc = "heads" => Len(left.bucket[at]) <= 1,
           nodes' \in Int, nodes' >= nodes,
           nodes' = to.free + table.n_entries - to.n_buckets_used
                            - left.n_buckets_used,
           UNCHANGED <<hasher, pc, at, new, aborted>>
    PROVE  HashInv' /\ AllEntries' = AllEntries
<1>0. /\ hasher' = hasher /\ pc' = pc /\ at' = at /\ new' = new /\ aborted' = aborted
      /\ pc \in {"transfer", "undo", "heads"}
  BY DEF Moving
<1>1. \/ pc = "transfer" /\ storage' = to /\ table' = left /\ Dst = storage /\ Src = table
      \/ pc # "transfer" /\ table' = to /\ storage' = left /\ Dst = table /\ Src = storage
  BY DEF Become, Dst, Src
<1>2. table'.n_buckets = table.n_buckets /\ storage'.n_buckets = storage.n_buckets
      /\ table'.n_entries = table.n_entries
  BY <1>1
<1>3. TableOK(table') /\ TableOK(storage') /\ Apart(table', storage')
  BY <1>1 DEF Apart
<1>4. Contents(table') \cup Contents(storage') = AllEntries
  BY <1>1
<1>5. HashTypeOK'
  BY <1>0, <1>2, <1>3, PartsOfInv, PrimesAre DEF HashTypeOK
<1>6. AllEntries' = AllEntries
  BY <1>0, <1>4, PrimesAre
<1>7. Pending'
  BY <1>0, <1>6, PartsOfInv DEF Pending
<1>8. Cardinality(Places(to)) \in Nat /\ Cardinality(Places(left)) \in Nat
  BY HeadsAre DEF TableOK
<1>9. table.n_entries = Cardinality(Places(table')) + Cardinality(Places(storage'))
  BY <1>1, <1>8
<1>10. Counted'
  BY <1>0, <1>2, <1>9, PrimesAre
<1>11. Src' = left /\ Dst' = to
  BY <1>0, <1>1 DEF Src, Dst
<1>12. Passed'
  <2>1. at \in Nat /\ Passed /\ Src.n_buckets \in Nat
    BY <1>1, PartsOfInv, SizeIsInt DEF TableOK, Chains
  <2>2. at' <= Src'.n_buckets /\ storage'.n_buckets >= 1
    BY <1>0, <1>2, <1>11, <2>1 DEF Passed
  <2>3. \A i \in 0 .. at - 1 : i \in 0 .. Src.n_buckets - 1 /\ i # at
    BY <2>1
  <2>4. \A i \in 0 .. at - 1 : left.bucket[i] = Src.bucket[i]
    BY <2>3
  <2>5. pc \in {"transfer", "heads"} => \A i \in 0 .. at' - 1 : Src'.bucket[i] = <<>>
    BY <1>0, <1>11, <2>1, <2>4 DEF Passed
  <2>6. pc = "undo" => \A i \in 0 .. at' - 1 : Len(storage'.bucket[i]) <= 1
    BY <1>0, <1>1, <2>1, <2>4 DEF Passed
  <2>7. pc = "heads" =>
           \A i \in 0 .. storage'.n_buckets - 1 : Len(storage'.bucket[i]) <= 1
    BY <1>0, <1>1, <2>1 DEF Passed
  <2>8. QED
    BY <1>0, <2>2, <2>5, <2>6, <2>7 DEF Passed
<1>13. Homes' = Homes
  <2>1. \A k : safe_hasher(table, k)' = safe_hasher(table, k)
    BY <1>0, <1>2 DEF safe_hasher
  <2>2. QED
    BY <1>6, <2>1 DEF Homes
<1>14. Enough'
  <2>1. Enough /\ nodes \in Int
    BY PartsOfInv
  <2>2. table.n_entries \in Int
    BY DstSrc
  <2>3. nodes >= table.n_entries - Cardinality(Homes)
    BY <1>0, <2>1 DEF Enough
  <2>4. nodes' >= table'.n_entries - Cardinality(Homes')
    <3> DEFINE c == Cardinality(Homes)
               n == table.n_entries
    <3>1. nodes' >= n - c
      <4>1. nodes >= n - c
        BY <2>3
      <4>2. c \in Nat /\ n \in Int
        BY <2>2, HomesAre
      <4> HIDE DEF c, n
      <4>3. QED
        BY <4>1, <4>2, <2>1
    <3>2. QED
      BY <1>2, <1>13, <3>1
  <2>5. QED
    BY <2>4 DEF Enough
<1>15. NothingLeaks'
  <2>1. /\ table'.n_buckets_used \in Int /\ storage'.n_buckets_used \in Int
        /\ table.n_entries \in Int /\ to.free \in Int
    BY <1>3, DstSrc DEF TableOK, Members
  <2>2. to.free + table.n_entries - to.n_buckets_used - left.n_buckets_used
           = to.free + table.n_entries - table'.n_buckets_used
                     - storage'.n_buckets_used
    BY <1>1, <2>1
  <2>3. QED
    BY <1>2, <1>11, <2>2 DEF NothingLeaks
<1>16. NoAbort'
  BY <1>0, PartsOfInv DEF NoAbort
<1>17. QED
  BY <1>5, <1>6, <1>7, <1>10, <1>12, <1>14, <1>15, <1>16 DEF HashInv


\* The step is one that moves the p-th entry of the bucket; what becomes of
\* the free list and of nodes is left open but for their balance.
EntryMoves(p, d, to, left) ==
    /\ Moving /\ at < Src.n_buckets
    /\ p \in 1 .. Len(Src.bucket[at]) /\ d = safe_hasher(Dst, Src.bucket[at][p].key)
    /\ Members(to) /\ Members(left)
    /\ Become(to, left)
    /\ to.bucket = [Dst.bucket EXCEPT ![d] = With(Dst.bucket[d], Src.bucket[at][p])]
    /\ left.bucket = [Src.bucket EXCEPT ![at] = RemoveAt(Src.bucket[at], p)]
    /\ to.n_buckets = Dst.n_buckets /\ left.n_buckets = Src.n_buckets
    /\ to.n_entries = Dst.n_entries /\ left.n_entries = Src.n_entries
    /\ to.n_buckets_used = Dst.n_buckets_used
          + (IF Dst.bucket[d] = <<>> THEN 1 ELSE 0)
    /\ left.n_buckets_used = Src.n_buckets_used
          - (IF Len(Src.bucket[at]) = 1 THEN 1 ELSE 0)
    /\ nodes' \in Int /\ nodes' >= nodes
    /\ nodes' = to.free + table.n_entries - to.n_buckets_used
                        - left.n_buckets_used
    /\ UNCHANGED <<hasher, pc, at, new, aborted>>

LEMMA EntryMovesInv ==
    ASSUME HashInv, NEW p, NEW d, NEW to, NEW left, EntryMoves(p, d, to, left)
    PROVE  HashInv' /\ AllEntries' = AllEntries
<1>0. /\ Moving /\ at < Src.n_buckets
      /\ p \in 1 .. Len(Src.bucket[at])
      /\ Members(to) /\ Members(left) /\ Become(to, left)
      /\ to.n_buckets = Dst.n_buckets /\ left.n_buckets = Src.n_buckets
      /\ to.n_entries = Dst.n_entries /\ left.n_entries = Src.n_entries
      /\ to.n_buckets_used = Dst.n_buckets_used
            + (IF Dst.bucket[d] = <<>> THEN 1 ELSE 0)
      /\ left.n_buckets_used = Src.n_buckets_used
            - (IF Len(Src.bucket[at]) = 1 THEN 1 ELSE 0)
      /\ nodes' \in Int /\ nodes' >= nodes
      /\ nodes' = to.free + table.n_entries - to.n_buckets_used
                          - left.n_buckets_used
      /\ UNCHANGED <<hasher, pc, at, new, aborted>>
  BY DEF EntryMoves
<1>1. pc \in {"transfer", "undo", "heads"}
  BY <1>0 DEF Moving
<1>2. /\ hasher \in Hashers /\ Chains(Dst) /\ Chains(Src) /\ Apart(Dst, Src)
      /\ Dst.n_buckets >= 1 /\ at \in 0 .. Src.n_buckets - 1
      /\ Dst.n_buckets_used = Cardinality(Heads(Dst, 0))
      /\ Src.n_buckets_used = Cardinality(Heads(Src, 0))
      /\ AllEntries = Contents(Dst) \cup Contents(Src)
      /\ table.n_entries = Cardinality(Places(Dst)) + Cardinality(Places(Src))
  <2>1. TableOK(Dst) /\ TableOK(Src) /\ Dst.n_buckets >= 1
    BY <1>1, DstSrc
  <2>2. at \in Nat /\ Src.n_buckets \in Nat
    BY <2>1, PartsOfInv, SizeIsInt DEF TableOK, Chains
  <2>3. at \in 0 .. Src.n_buckets - 1
    BY <1>0, <2>2
  <2>4. QED
    BY <2>1, <2>3, DstSrc, PartsOfInv DEF TableOK
<1>3. /\ Chains(to) /\ Chains(left) /\ Apart(to, left)
      /\ Contents(to) \cup Contents(left) = AllEntries
      /\ Cardinality(Places(to)) + Cardinality(Places(left)) = table.n_entries
      /\ to.n_buckets_used = Cardinality(Heads(to, 0))
      /\ left.n_buckets_used = Cardinality(Heads(left, 0))
      /\ \A j \in 0 .. Src.n_buckets - 1 : j # at => left.bucket[j] = Src.bucket[j]
      /\ Len(left.bucket[at]) = Len(Src.bucket[at]) - 1
  <2>1. Relinks(Dst, Src, at, p, d, to, left)
    BY <1>2 DEF Relinks, EntryMoves
  <2>2. /\ Chains(to) /\ Chains(left) /\ Apart(to, left)
        /\ Contents(to) \cup Contents(left) = Contents(Dst) \cup Contents(Src)
        /\ Cardinality(Places(to)) + Cardinality(Places(left))
              = Cardinality(Places(Dst)) + Cardinality(Places(Src))
        /\ Cardinality(Heads(to, 0)) = Cardinality(Heads(Dst, 0))
              + (IF Dst.bucket[d] = <<>> THEN 1 ELSE 0)
        /\ Cardinality(Heads(left, 0)) = Cardinality(Heads(Src, 0))
              - (IF Len(Src.bucket[at]) = 1 THEN 1 ELSE 0)
        /\ \A j \in 0 .. Src.n_buckets - 1 :
              j # at => left.bucket[j] = Src.bucket[j]
        /\ Len(left.bucket[at]) = Len(Src.bucket[at]) - 1
    BY ONLY <1>2, <2>1, Relinked
  <2>3. QED
    BY ONLY <1>0, <1>2, <2>2
<1>4. TableOK(to) /\ TableOK(left)
  BY <1>0, <1>3 DEF TableOK
<1>5. pc = "heads" => Len(left.bucket[at]) <= 1
  <2>1. ASSUME pc = "heads"
        PROVE  Len(Src.bucket[at]) <= 1 /\ Len(Src.bucket[at]) \in Nat
    <3>1. Src = storage /\ Passed
      BY <2>1, PartsOfInv DEF Src
    <3>2. Src.bucket[at] \in Seq(Entries)
      BY <1>2 DEF Chains
    <3>3. QED
      BY <1>2, <2>1, <3>1, <3>2, LenProperties DEF Passed
  <2>2. QED
    BY ONLY <1>3, <2>1
<1>6. QED
  BY <1>0, <1>3, <1>4, <1>5, MovedInv


LEMMA SourceIs ==
    ASSUME HashInv, Moving, at < Src.n_buckets
    PROVE  /\ pc \in {"transfer", "undo", "heads"}
           /\ Members(Dst) /\ Members(Src)
           /\ Chains(Src) /\ Chains(Dst) /\ hasher \in Hashers
           /\ Dst.n_buckets \in 1 .. MaxSize
           /\ at \in 0 .. Src.n_buckets - 1
           /\ Src.bucket[at] \in Seq(Entries) /\ Len(Src.bucket[at]) \in Nat
           /\ \A p \in 1 .. Len(Src.bucket[at]) :
                 /\ Src.bucket[at][p] \in Entries
                 /\ safe_hasher(Dst, Src.bucket[at][p].key)
                       \in 0 .. Dst.n_buckets - 1
<1>1. /\ pc \in {"transfer", "undo", "heads"} /\ TableOK(Dst) /\ TableOK(Src)
      /\ Dst.n_buckets >= 1 /\ hasher \in Hashers /\ at \in Nat
  BY DstSrc, PartsOfInv DEF Moving
<1>2. /\ Chains(Src) /\ Chains(Dst) /\ Dst.n_buckets \in 1 .. MaxSize
      /\ Src.n_buckets \in Nat
  <2>1. Chains(Src) /\ Chains(Dst)
    BY <1>1 DEF TableOK
  <2>2. Dst.n_buckets \in 0 .. MaxSize /\ Src.n_buckets \in 0 .. MaxSize
    BY <2>1 DEF Chains
  <2>3. MaxSize \in Nat
    BY TableAssumption DEF TableAssumption
  <2>4. QED
    BY <1>1, <2>1, <2>2, <2>3
<1>3. /\ at \in 0 .. Src.n_buckets - 1
      /\ Src.bucket[at] \in Seq(Entries) /\ Len(Src.bucket[at]) \in Nat
  BY <1>1, <1>2, LenProperties DEF Chains
<1>4. ASSUME NEW p \in 1 .. Len(Src.bucket[at])
      PROVE  /\ Src.bucket[at][p] \in Entries
             /\ safe_hasher(Dst, Src.bucket[at][p].key) \in 0 .. Dst.n_buckets - 1
  <2>1. Src.bucket[at][p] \in Entries
    BY <1>3, LenProperties
  <2>2. Src.bucket[at][p].key \in Keys
    BY <2>1 DEF Entries
  <2>3. QED
    BY <1>1, <1>2, <2>1, <2>2, HasherIs
<1>5. QED
  BY <1>1, <1>2, <1>3, <1>4 DEF TableOK

LEMMA MoveOverflowInv ==
    ASSUME HashInv, MoveOverflow
    PROVE  HashInv' /\ AllEntries' = AllEntries
<1> DEFINE s == Src.bucket[at]
           e == s[2]
           d == safe_hasher(Dst, e.key)
           b == Dst.bucket[d]
           left == [Src EXCEPT !.bucket[at] = RemoveAt(@, 2)]
<1>1. /\ Moving /\ at < Src.n_buckets /\ Len(s) > 1
      /\ UNCHANGED <<hasher, pc, at, new, aborted>> /\ nodes' = nodes
      /\ \/ b # <<>> /\ Become([Dst EXCEPT !.bucket[d] = Chained(@, e)], left)
         \/ b = <<>> /\ Become([Dst EXCEPT !.bucket[d] = <<e>>, !.free = @ + 1,
                                           !.n_buckets_used = @ + 1], left)
  BY DEF MoveOverflow
<1>2. /\ Members(Dst) /\ Members(Src)
      /\ Chains(Dst) /\ at \in 0 .. Src.n_buckets - 1
      /\ s \in Seq(Entries) /\ Len(s) \in Nat
  BY <1>1, SourceIs
<1>3. 2 \in 1 .. Len(s) /\ Len(s) # 1
  BY <1>1, <1>2
<1>4. e \in Entries /\ d \in 0 .. Dst.n_buckets - 1 /\ b \in Seq(Entries)
  BY <1>1, <1>3, SourceIs DEF Chains
<1>5. /\ Dst.free \in Nat /\ Dst.n_buckets_used \in Int
      /\ Src.free \in Nat /\ Src.n_buckets_used \in Int
      /\ table.n_entries \in Int /\ nodes \in Int
      /\ nodes = Dst.free + table.n_entries - Dst.n_buckets_used
                          - Src.n_buckets_used
  BY <1>2, DstSrc, PartsOfInv DEF Members
<1>6. /\ Members(left)
      /\ left.bucket = [Src.bucket EXCEPT ![at] = RemoveAt(s, 2)]
      /\ left.n_buckets = Src.n_buckets /\ left.n_entries = Src.n_entries
      /\ left.n_buckets_used = Src.n_buckets_used
  BY <1>2 DEF Members
<1> HIDE DEF left
<1> DEFINE more == IF b = <<>> THEN 1 ELSE 0
<1>7. PICK to :
         /\ Become(to, left) /\ Members(to)
         /\ to.bucket = [Dst.bucket EXCEPT ![d] = With(b, e)]
         /\ to.n_buckets = Dst.n_buckets /\ to.n_entries = Dst.n_entries
         /\ to.free = Dst.free + more
         /\ to.n_buckets_used = Dst.n_buckets_used + more
  <2>1. CASE b # <<>>
    <3> DEFINE to == [Dst EXCEPT !.bucket[d] = Chained(@, e)]
    <3>1. With(b, e) = Chained(b, e) /\ more = 0
      BY <2>1 DEF With
    <3>2. Become(to, left)
      BY <1>1, <2>1
    <3> HIDE DEF more
    <3>3. /\ Members(to)
          /\ to.bucket = [Dst.bucket EXCEPT ![d] = With(b, e)]
          /\ to.n_buckets = Dst.n_buckets /\ to.n_entries = Dst.n_entries
          /\ to.free = Dst.free + more
          /\ to.n_buckets_used = Dst.n_buckets_used + more
      BY <1>2, <1>5, <3>1 DEF Members
    <3> HIDE DEF to
    <3>4. QED
      BY <3>2, <3>3
  <2>2. CASE b = <<>>
    <3> DEFINE to == [Dst EXCEPT !.bucket[d] = <<e>>, !.free = @ + 1,
                                 !.n_buckets_used = @ + 1]
    <3>1. With(b, e) = <<e>> /\ more = 1
      BY <2>2 DEF With
    <3>2. Become(to, left)
      BY <1>1, <2>2
    <3> HIDE DEF more
    <3>3. /\ Members(to)
          /\ to.bucket = [Dst.bucket EXCEPT ![d] = With(b, e)]
          /\ to.n_buckets = Dst.n_buckets /\ to.n_entries = Dst.n_entries
          /\ to.free = Dst.free + more
          /\ to.n_buckets_used = Dst.n_buckets_used + more
      BY <1>2, <1>5, <3>1, SMTT(30) DEF Members
    <3> HIDE DEF to
    <3>4. QED
      BY <3>2, <3>3
  <2>3. QED
    BY <2>1, <2>2
<1>8. more \in Nat
  OBVIOUS
<1>9. nodes' = to.free + table.n_entries - to.n_buckets_used
                       - left.n_buckets_used
  <2> HIDE DEF more, s, e, d, b
  <2>1. nodes' = nodes
    BY <1>1
  <2>2. /\ to.free = Dst.free + more /\ to.n_buckets_used = Dst.n_buckets_used + more
        /\ left.n_buckets_used = Src.n_buckets_used
    BY <1>6, <1>7
  <2>3. QED
    BY ONLY <1>5, <1>8, <2>1, <2>2
<1>10. nodes' \in Int /\ nodes' >= nodes
  BY <1>1, <1>5
<1>11. left.n_buckets_used = Src.n_buckets_used - (IF Len(s) = 1 THEN 1 ELSE 0)
  BY <1>3, <1>5, <1>6
<1>12. EntryMoves(2, d, to, left)
  BY <1>1, <1>3, <1>6, <1>7, <1>9, <1>10, <1>11 DEF EntryMoves
<1>13. QED
  BY <1>12, EntryMovesInv


LEMMA MoveHeadInv ==
    ASSUME HashInv, MoveHead
    PROVE  HashInv' /\ AllEntries' = AllEntries
<1> DEFINE s == Src.bucket[at]
           e == s[1]
           d == safe_hasher(Dst, e.key)
           b == Dst.bucket[d]
           left == [Src EXCEPT !.bucket[at] = <<>>, !.n_buckets_used = @ - 1]
<1>1. /\ Moving /\ at < Src.n_buckets /\ Len(s) = 1
      /\ UNCHANGED <<hasher, pc, at, new, aborted>>
      /\ \/ /\ b = <<>>
            /\ Become([Dst EXCEPT !.bucket[d] = <<e>>, !.n_buckets_used = @ + 1],
                      left)
            /\ nodes' = nodes
         \/ /\ b # <<>> /\ Dst.free > 0
            /\ Become([Dst EXCEPT !.bucket[d] = Chained(@, e), !.free = @ - 1],
                      left)
            /\ nodes' = nodes
         \/ /\ b # <<>> /\ Dst.free = 0
            /\ Become([Dst EXCEPT !.bucket[d] = Chained(@, e)], left)
            /\ nodes' = nodes + 1
  BY DEF MoveHead
<1>2. /\ Members(Dst) /\ Members(Src)
      /\ Chains(Dst) /\ at \in 0 .. Src.n_buckets - 1
      /\ s \in Seq(Entries) /\ Len(s) \in Nat
  BY <1>1, SourceIs
<1>3. 1 \in 1 .. Len(s)
  BY <1>1, <1>2
<1>4. RemoveAt(s, 1) = <<>>
  <2>1. RemoveAt(s, 1) \in Seq(Entries) /\ Len(RemoveAt(s, 1)) = Len(s) - 1
    BY <1>2, <1>3, RemoveAtIs
  <2>2. Len(RemoveAt(s, 1)) = 0
    BY <1>1, <2>1
  <2>3. QED
    BY <2>1, <2>2, EmptySeq
<1>5. /\ Dst.free \in Nat /\ Dst.n_buckets_used \in Int
      /\ Src.free \in Nat /\ Src.n_buckets_used \in Int
      /\ table.n_entries \in Int /\ nodes \in Int
      /\ nodes = Dst.free + table.n_entries - Dst.n_buckets_used
                          - Src.n_buckets_used
  BY <1>2, DstSrc, PartsOfInv DEF Members
<1>6. /\ Members(left)
      /\ left.bucket = [Src.bucket EXCEPT ![at] = RemoveAt(s, 1)]
      /\ left.n_buckets = Src.n_buckets /\ left.n_entries = Src.n_entries
      /\ left.n_buckets_used = Src.n_buckets_used - 1
  BY <1>2, <1>4 DEF Members
<1> HIDE DEF left
<1> DEFINE more == IF b = <<>> THEN 1 ELSE 0
<1>7. PICK to :
         /\ Become(to, left) /\ Members(to)
         /\ to.bucket = [Dst.bucket EXCEPT ![d] = With(b, e)]
         /\ to.n_buckets = Dst.n_buckets /\ to.n_entries = Dst.n_entries
         /\ to.n_buckets_used = Dst.n_buckets_used + more
         /\ nodes' = nodes + to.free - Dst.free + 1 - more
         /\ nodes' >= nodes
  <2>1. CASE b = <<>>
    <3> DEFINE to == [Dst EXCEPT !.bucket[d] = <<e>>, !.n_buckets_used = @ + 1]
    <3>1. With(b, e) = <<e>> /\ more = 1
      BY <2>1 DEF With
    <3>2. Become(to, left) /\ nodes' = nodes
      BY <1>1, <2>1
    <3> HIDE DEF more
    <3>3. /\ Members(to) /\ to.free = Dst.free
          /\ to.bucket = [Dst.bucket EXCEPT ![d] = With(b, e)]
          /\ to.n_buckets = Dst.n_buckets /\ to.n_entries = Dst.n_entries
          /\ to.n_buckets_used = Dst.n_buckets_used + more
      BY <1>2, <1>5, <3>1 DEF Members
    <3> HIDE DEF to
    <3>4. nodes' = nodes + to.free - Dst.free + 1 - more /\ nodes' >= nodes
      BY <1>5, <3>1, <3>2, <3>3
    <3>5. QED
      BY <3>2, <3>3, <3>4
  <2>2. CASE b # <<>> /\ Dst.free > 0
    <3> DEFINE to == [Dst EXCEPT !.bucket[d] = Chained(@, e), !.free = @ - 1]
    <3>1. With(b, e) = Chained(b, e) /\ more = 0
      BY <2>2 DEF With
    <3>2. Become(to, left) /\ nodes' = nodes
      BY <1>1, <1>5, <2>2
    <3> HIDE DEF more
    <3>3. /\ Members(to) /\ to.free = Dst.free - 1
          /\ to.bucket = [Dst.bucket EXCEPT ![d] = With(b, e)]
          /\ to.n_buckets = Dst.n_buckets /\ to.n_entries = Dst.n_entries
          /\ to.n_buckets_used = Dst.n_buckets_used + more
      BY <1>2, <1>5, <2>2, <3>1 DEF Members
    <3> HIDE DEF to
    <3>4. nodes' = nodes + to.free - Dst.free + 1 - more /\ nodes' >= nodes
      BY <1>5, <3>1, <3>2, <3>3
    <3>5. QED
      BY <3>2, <3>3, <3>4
  <2>3. CASE b # <<>> /\ Dst.free = 0
    <3> DEFINE to == [Dst EXCEPT !.bucket[d] = Chained(@, e)]
    <3>1. With(b, e) = Chained(b, e) /\ more = 0
      BY <2>3 DEF With
    <3>2. Become(to, left) /\ nodes' = nodes + 1
      BY <1>1, <2>3
    <3> HIDE DEF more
    <3>3. /\ Members(to) /\ to.free = Dst.free
          /\ to.bucket = [Dst.bucket EXCEPT ![d] = With(b, e)]
          /\ to.n_buckets = Dst.n_buckets /\ to.n_entries = Dst.n_entries
          /\ to.n_buckets_used = Dst.n_buckets_used + more
      BY <1>2, <1>5, <3>1 DEF Members
    <3> HIDE DEF to
    <3>4. nodes' = nodes + to.free - Dst.free + 1 - more /\ nodes' >= nodes
      BY <1>5, <3>1, <3>2, <3>3
    <3>5. QED
      BY <3>2, <3>3, <3>4
  <2>4. Dst.free > 0 \/ Dst.free = 0
    BY <1>5
  <2>5. QED
    BY <2>1, <2>2, <2>3, <2>4, Zenon
<1>8. more \in Nat
  OBVIOUS
<1>9. nodes' = to.free + table.n_entries - to.n_buckets_used
                       - left.n_buckets_used
  <2> HIDE DEF more
  <2>1. to.free \in Int
    BY <1>7 DEF Members
  <2>2. /\ nodes' = nodes + to.free - Dst.free + 1 - more
        /\ to.n_buckets_used = Dst.n_buckets_used + more
        /\ left.n_buckets_used = Src.n_buckets_used - 1
    BY <1>6, <1>7
  <2>3. \A f, n, du, su, g, m \in Int :
           (f + n - du - su) + g - f + 1 - m = g + n - (du + m) - (su - 1)
    OBVIOUS
  <2>4. (Dst.free + table.n_entries - Dst.n_buckets_used - Src.n_buckets_used)
           + to.free - Dst.free + 1 - more
        = to.free + table.n_entries - (Dst.n_buckets_used + more)
                  - (Src.n_buckets_used - 1)
    BY <1>5, <1>8, <2>1, <2>3
  <2>5. QED
    BY <1>5, <2>2, <2>4, Zenon
<1>10. nodes' \in Int
  <2> HIDE DEF more
  <2>1. to.free \in Int
    BY <1>7 DEF Members
  <2>2. QED
    BY <1>5, <1>7, <1>8, <2>1
<1>11. left.n_buckets_used = Src.n_buckets_used - (IF Len(s) = 1 THEN 1 ELSE 0)
  BY <1>1, <1>5, <1>6
<1>12. EntryMoves(1, d, to, left)
  BY <1>1, <1>3, <1>6, <1>7, <1>9, <1>10, <1>11 DEF EntryMoves
<1>13. QED
  BY <1>12, EntryMovesInv


\* Steps that change neither table.
LEMMA SameTables ==
    ASSUME HashInv, UNCHANGED <<hasher, table, storage, nodes>>,
           pc' \in {"ready", "transfer", "undo", "heads", "insert"}, at' \in Nat
    PROVE  HashTypeOK' /\ Counted' /\ AllEntries' = AllEntries /\ Homes' = Homes
<1>1. hasher' = hasher /\ table' = table /\ storage' = storage /\ nodes' = nodes
  OBVIOUS
<1>2. HashTypeOK'
  BY <1>1, PartsOfInv, PrimesAre DEF HashTypeOK
<1>3. Counted'
  BY <1>1, PartsOfInv, PrimesAre DEF Counted
<1>4. AllEntries' = AllEntries
  BY <1>1, PrimesAre DEF AllEntries
<1>5. \A k : safe_hasher(table, k)' = safe_hasher(table, k)
  BY <1>1 DEF safe_hasher
<1>6. Homes' = Homes
  BY <1>4, <1>5 DEF Homes
<1>7. QED
  BY <1>2, <1>3, <1>4, <1>6

LEMMA PassBucketInv ==
    ASSUME HashInv, PassBucket
    PROVE  HashInv' /\ AllEntries' = AllEntries
<1>1. /\ Moving /\ at < Src.n_buckets /\ at' = at + 1
      /\ Src.bucket[at] = <<>> \/ (pc = "undo" /\ Len(Src.bucket[at]) = 1)
      /\ hasher' = hasher /\ table' = table /\ storage' = storage /\ pc' = pc
      /\ new' = new /\ nodes' = nodes /\ aborted' = aborted
  BY DEF PassBucket
<1>2. /\ pc \in {"transfer", "undo", "heads"} /\ at \in Nat
      /\ Src.n_buckets \in Nat
  BY <1>1, SourceIs, PartsOfInv, SizeIsInt DEF Chains
<1>3. HashTypeOK' /\ Counted' /\ AllEntries' = AllEntries /\ Homes' = Homes
  BY <1>1, <1>2, SameTables
<1>4. Pending'
  <2>1. Pending /\ safe_hasher(table, new.key)' = safe_hasher(table, new.key)
    BY <1>1, PartsOfInv DEF safe_hasher
  <2>2. QED
    BY <1>1, <1>3, <2>1 DEF Pending
<1>5. Src' = Src /\ Dst' = Dst
  BY <1>1 DEF Src, Dst
<1>6. Passed'
  <2>1. Passed
    BY PartsOfInv
  <2>2. \A i \in 0 .. at' - 1 : i \in 0 .. at - 1 \/ i = at
    BY <1>1, <1>2
  <2>3. at' <= Src'.n_buckets
    BY <1>1, <1>2, <1>5
  <2>4. CASE pc = "undo"
    <3>1. Src = storage /\ Len(<<>>) = 0
      BY <2>4 DEF Src
    <3>2. Len(storage.bucket[at]) <= 1
      <4>1. storage.bucket[at] = <<>> \/ Len(storage.bucket[at]) = 1
        BY <1>1, <3>1
      <4>2. CASE storage.bucket[at] = <<>>
        <5>1. Len(storage.bucket[at]) = 0
          BY <3>1, <4>2, Zenon
        <5>2. QED
          BY <5>1
      <4>3. CASE Len(storage.bucket[at]) = 1
        BY <4>3
      <4>4. QED
        BY <4>1, <4>2, <4>3
    <3>3. QED
      BY <1>1, <2>1, <2>2, <2>3, <2>4, <3>2 DEF Passed
  <2>5. CASE pc # "undo"
    BY <1>1, <1>5, <2>1, <2>2, <2>3, <2>5 DEF Passed
  <2>6. QED
    BY <2>4, <2>5
<1>7. Enough' /\ NothingLeaks' /\ NoAbort'
  BY <1>1, <1>3, <1>5, PartsOfInv DEF Enough, NothingLeaks, NoAbort
<1>8. QED
  BY <1>3, <1>4, <1>6, <1>7 DEF HashInv

\* Memory that is wanted when entries go back is there: the heads that have
\* not gone back and those in the table go to no more buckets than there are
\* of them, and the head that wants an entry shares its bucket.
LEMMA BackWithoutMemory ==
    ASSUME HashInv, pc = "heads", at < storage.n_buckets,
           Len(storage.bucket[at]) = 1,
           table.bucket[safe_hasher(table, storage.bucket[at][1].key)] # <<>>
    PROVE  table.free > 0
<1> DEFINE home(i) == safe_hasher(table, storage.bucket[i][1].key)
           hs == Heads(storage, 0)
           ht == Heads(table, 0)
           rest == hs \ {at}
<1>1. /\ Chains(table) /\ Chains(storage) /\ at \in Nat
      /\ table.n_buckets_used = Cardinality(ht)
      /\ storage.n_buckets_used = Cardinality(hs)
      /\ Passed /\ Enough /\ Dst = table
      /\ nodes = table.free + table.n_entries - table.n_buckets_used
                            - storage.n_buckets_used
      /\ nodes \in Int /\ table.n_entries \in Int /\ table.free \in Nat
  BY PartsOfInv, DstSrc DEF TableOK, NothingLeaks, Members, Dst
<1>2. /\ IsFiniteSet(hs) /\ Cardinality(hs) \in Nat
      /\ IsFiniteSet(ht) /\ Cardinality(ht) \in Nat
  BY <1>1, HeadsAre
<1>3. at \in hs /\ storage.bucket[at] \in Seq(Entries)
  <2>1. storage.n_buckets \in Nat
    BY <1>1, SizeIsInt DEF Chains
  <2>2. at \in 0 .. storage.n_buckets - 1
    BY <1>1, <2>1
  <2>3. storage.bucket[at] \in Seq(Entries)
    BY <1>1, <2>2 DEF Chains
  <2>4. storage.bucket[at] # <<>>
    BY <2>3, EmptySeq
  <2>5. QED
    BY <1>1, <2>2, <2>3, <2>4, HeadsAre
<1>4. IsFiniteSet(rest) /\ Cardinality(rest) = Cardinality(hs) - 1
  BY <1>2, <1>3, FS_RemoveElement
<1>5. home(at) \in ht
  <2>1. 1 \in 1 .. Len(storage.bucket[at])
    OBVIOUS
  <2>2. storage.bucket[at][1] \in Entries
    BY <1>3, <2>1, LenProperties
  <2>3. storage.bucket[at][1].key \in Keys
    BY <2>2 DEF Entries
  <2>4. table.n_buckets \in 1 .. MaxSize /\ hasher \in Hashers
    BY <1>1, PartsOfInv, SizeIsInt DEF Chains
  <2>5. home(at) \in 0 .. table.n_buckets - 1
    BY <2>3, <2>4, HasherIs
  <2>6. QED
    BY <1>1, <2>5, HeadsAre
<1> DEFINE Img == {home(i) : i \in rest}
<1>6. IsFiniteSet(Img) /\ Cardinality(Img) <= Cardinality(rest)
  <2> DEFINE g == [i \in rest |-> home(i)]
  <2>1. g \in Surjection(rest, Img)
    BY DEF Surjection
  <2>2. QED
    BY <1>4, <2>1, FS_Surjection
<1>7. Homes \subseteq ht \cup Img
  <2>1. ASSUME NEW e \in Contents(table)
        PROVE  safe_hasher(table, e.key) \in ht
    <3>1. PICK i \in 0 .. table.n_buckets - 1 : e \in Range(table.bucket[i])
      BY <1>1, ContentsIs
    <3>2. safe_hasher(table, e.key) = i
      BY <1>1, <3>1 DEF Chains
    <3>3. table.bucket[i] # <<>>
      BY <3>1, Single DEF Range
    <3>4. QED
      BY <1>1, <3>2, <3>3, HeadsAre
  <2>2. ASSUME NEW e \in Contents(storage)
        PROVE  safe_hasher(table, e.key) \in ht \cup Img
    <3>1. PICK i \in 0 .. storage.n_buckets - 1 : e \in Range(storage.bucket[i])
      BY <1>1, ContentsIs
    <3>2. storage.bucket[i] \in Seq(Entries) /\ Len(storage.bucket[i]) <= 1
      BY <1>1 DEF Chains, Passed
    <3>3. PICK j \in 1 .. Len(storage.bucket[i]) : e = storage.bucket[i][j]
      BY <3>1, <3>2, RangeIs
    <3>4. j = 1
      BY <3>2, <3>3, LenProperties
    <3>5. storage.bucket[i] # <<>>
      BY <3>1 DEF Range
    <3>6. i \in hs
      BY <1>1, <3>5, HeadsAre
    <3>7. safe_hasher(table, e.key) = home(i)
      BY <3>3, <3>4
    <3>8. CASE i = at
      BY <1>5, <3>7, <3>8
    <3>9. CASE i # at
      BY <3>6, <3>7, <3>9
    <3>10. QED
      BY <3>8, <3>9
  <2>3. QED
    BY <2>1, <2>2 DEF Homes, AllEntries
<1> HIDE DEF Img, rest, hs, ht
<1>8. Cardinality(Homes) <= Cardinality(ht) + Cardinality(hs) - 1
  <2>1. /\ IsFiniteSet(ht \cup Img)
        /\ Cardinality(ht \cup Img) =
              Cardinality(ht) + Cardinality(Img) - Cardinality(ht \cap Img)
        /\ Cardinality(ht \cap Img) \in Nat /\ Cardinality(Img) \in Nat
    <3>1. IsFiniteSet(ht \cap Img)
      BY <1>2, FS_Subset
    <3>2. QED
      BY <1>2, <1>6, <3>1, FS_Union, FS_CardinalityType
  <2>2. Cardinality(Homes) <= Cardinality(ht \cup Img)
    BY <1>7, <2>1, FS_Subset
  <2>3. Cardinality(Homes) \in Nat
    BY HomesAre
  <2>4. QED
    BY <1>2, <1>4, <1>6, <2>1, <2>2, <2>3
<1>9. nodes >= table.n_entries - Cardinality(Homes)
  BY <1>1 DEF Enough
<1>10. Cardinality(Homes) \in Nat
  BY HomesAre
<1>11. /\ nodes = table.free + table.n_entries - Cardinality(ht) - Cardinality(hs)
       /\ nodes \in Int /\ table.n_entries \in Int /\ table.free \in Nat
  BY <1>1
<1>12. QED
  BY ONLY <1>2, <1>8, <1>9, <1>10, <1>11


LEMMA NoMemoryInv ==
    ASSUME HashInv, NoMemory
    PROVE  HashInv' /\ AllEntries' = AllEntries
<1>1. /\ Moving /\ pc # "undo" /\ at < Src.n_buckets /\ Len(Src.bucket[at]) = 1
      /\ Dst.bucket[safe_hasher(Dst, Src.bucket[at][1].key)] # <<>>
      /\ Dst.free = 0 /\ aborted' = (pc = "heads")
      /\ pc # "heads" => /\ table' = [table EXCEPT !.free = storage.free]
                         /\ pc' = "undo" /\ at' = 0
      /\ hasher' = hasher /\ storage' = storage /\ new' = new /\ nodes' = nodes
  BY DEF NoMemory, WithFreeList, FirstPass
<1>2. pc = "transfer"
  <2>1. pc \in {"transfer", "heads"}
    BY <1>1 DEF Moving
  <2>2. ASSUME pc = "heads"
        PROVE  FALSE
    <3>1. Src = storage /\ Dst = table
      BY <2>2 DEF Src, Dst
    <3>2. table.free > 0
      BY <1>1, <2>2, <3>1, BackWithoutMemory
    <3>3. QED
      BY <1>1, <3>1, <3>2
  <2>3. QED
    BY <2>1, <2>2
<1>3. /\ table' = [table EXCEPT !.free = storage.free]
      /\ pc' = "undo" /\ at' = 0 /\ ~aborted'
  BY <1>1, <1>2
<1>4. /\ TableOK(table) /\ TableOK(storage) /\ Members(table) /\ Members(storage)
      /\ storage.n_buckets >= 1 /\ Apart(table, storage)
      /\ Src = table /\ Dst = storage /\ Pending /\ Enough /\ NothingLeaks
  BY <1>2, PartsOfInv, DstSrc DEF TableOK, Passed, Src, Dst
<1>5. /\ table'.bucket = table.bucket /\ table'.n_buckets = table.n_buckets
      /\ table'.n_buckets_used = table.n_buckets_used
      /\ table'.n_entries = table.n_entries /\ table'.free = storage.free
      /\ Members(table')
  BY <1>3, <1>4 DEF Members
<1>6. /\ Contents(table') = Contents(table) /\ Places(table') = Places(table)
      /\ Heads(table', 0) = Heads(table, 0)
  BY <1>5 DEF Contents, Places, Heads
<1>7. TableOK(table') /\ Apart(table', storage')
  <2>0. \A k : safe_hasher(table', k) = safe_hasher(table, k)
    BY <1>1, <1>5, Zenon DEF safe_hasher
  <2>1. Chains(table')
    <3>1. Chains(table)
      BY ONLY <1>4 DEF TableOK
    <3>2. QED
      BY ONLY <3>1, <2>0, <1>5, <1>6 DEF Chains
  <2>2. TableOK(table')
    BY ONLY <1>4, <1>5, <1>6, <2>1 DEF TableOK
  <2>3. Apart(table', storage)
    BY ONLY <1>4, <1>5, <1>6 DEF Apart
  <2>4. QED
    BY <1>1, <2>2, <2>3
<1>8. HashTypeOK' /\ Counted' /\ AllEntries' = AllEntries
  <2>1. AllEntries' = AllEntries
    BY <1>1, <1>6, PrimesAre DEF AllEntries
  <2>2. HashTypeOK'
    BY <1>1, <1>3, <1>5, <1>7, PartsOfInv, PrimesAre DEF HashTypeOK
  <2>3. Counted'
    BY <1>1, <1>3, <1>5, <1>6, <2>1, PartsOfInv, PrimesAre DEF Counted
  <2>4. QED
    BY <2>1, <2>2, <2>3
<1>9. Pending'
  BY <1>1, <1>2, <1>3, <1>4, <1>8 DEF Pending
<1>10. Src' = storage /\ Dst' = table'
  BY <1>1, <1>3 DEF Src, Dst
<1>11. Passed'
  <2>1. storage.n_buckets \in Nat
    BY <1>4, SizeIsInt DEF TableOK, Chains
  <2>2. QED
    BY <1>1, <1>3, <1>4, <1>10, <2>1 DEF Passed
<1>12. Enough'
  <2>1. \A k : safe_hasher(table, k)' = safe_hasher(table, k)
    BY <1>1, <1>5 DEF safe_hasher
  <2>2. Homes' = Homes
    BY <1>8, <2>1 DEF Homes
  <2>3. QED
    BY <1>1, <1>2, <1>4, <1>5, <2>2 DEF Enough
<1>13. NothingLeaks' /\ NoAbort'
  BY <1>1, <1>3, <1>4, <1>5, <1>10 DEF NothingLeaks, NoAbort
<1>14. QED
  BY <1>8, <1>9, <1>11, <1>12, <1>13 DEF HashInv

LEMMA NoTableIs ==
    /\ TableOK(NoTable) /\ Contents(NoTable) = {}
    /\ Cardinality(Places(NoTable)) = 0 /\ Places(NoTable) = {}
    /\ NoTable.n_buckets_used = 0 /\ NoTable.free = 0 /\ NoTable.n_buckets = 0
    /\ \A t : Apart(t, NoTable) /\ Apart(NoTable, t)
<1>1. 0 \in 0 .. MaxSize
  BY TableAssumption DEF TableAssumption
<1>2. /\ NoTable.n_buckets = 0 /\ NoTable.bucket = EmptyBuckets(0)
      /\ NoTable.n_buckets_used = 0 /\ NoTable.free = 0 /\ Members(NoTable)
  BY DEF NoTable, Members
<1>3. /\ Chains(NoTable) /\ Contents(NoTable) = {} /\ Places(NoTable) = {}
      /\ Cardinality(Places(NoTable)) = 0 /\ Cardinality(Heads(NoTable, 0)) = 0
  BY <1>1, <1>2, FreshIs
<1>4. QED
  BY <1>2, <1>3 DEF TableOK, Apart

\* A loop of transfer_entries that is over has left an empty table.
LEMMA AllMoved ==
    ASSUME HashInv, pc \in {"transfer", "heads"}, at = Src.n_buckets
    PROVE  /\ Contents(Src) = {} /\ Cardinality(Places(Src)) = 0
           /\ Src.n_buckets_used = 0
<1>1. TableOK(Src) /\ Passed
  BY DstSrc, PartsOfInv
<1>2. \A i \in 0 .. Src.n_buckets - 1 : Src.bucket[i] = <<>>
  BY <1>1 DEF Passed
<1>3. QED
  BY <1>1, <1>2, EmptyIs DEF TableOK

LEMMA TransferredInv ==
    ASSUME HashInv, Transferred
    PROVE  HashInv' /\ AllEntries' = AllEntries
<1>1. /\ Moving /\ at = Src.n_buckets /\ hasher' = hasher /\ nodes' = nodes
  BY DEF Transferred
<1>2. /\ TableOK(table) /\ TableOK(storage) /\ Members(table) /\ Members(storage)
      /\ Pending /\ Passed /\ Enough /\ Counted /\ NothingLeaks /\ NoAbort
      /\ hasher \in Hashers /\ table.n_buckets >= 1 /\ at \in Nat /\ nodes \in Int
      /\ storage.n_buckets >= 1
      /\ new \in [key : Keys, value : Values, bucket : Int]
      /\ \A e \in AllEntries : e.key # new.key
  BY <1>1, PartsOfInv DEF HashInv, Moving, TableOK, Pending, Passed
<1>3. CASE pc = "transfer"
  <2>1. /\ table' = [storage EXCEPT !.n_entries = table.n_entries]
        /\ storage' = NoTable /\ pc' = "insert" /\ at' = at
        /\ new' = [new EXCEPT !.bucket = safe_hasher(storage, new.key)]
        /\ aborted' = (hash_lookup(storage, new.key) # NULL)
    BY <1>3 DEF Transferred, BucketAgain
  <2>2. /\ Src = table /\ Dst = storage
    BY <1>3 DEF Src, Dst
  <2>3. /\ Contents(table) = {} /\ Cardinality(Places(table)) = 0
        /\ table.n_buckets_used = 0
    BY <1>1, <1>3, <2>2, AllMoved
  <2>4. table.n_entries = Cardinality(Places(storage))
    <3>1. Cardinality(Places(storage)) \in Nat
      BY <1>2, HeadsAre DEF TableOK
    <3>2. QED
      BY <1>2, <2>3, <3>1 DEF Counted
  <2>5. /\ table'.bucket = storage.bucket /\ table'.n_buckets = storage.n_buckets
        /\ table'.n_buckets_used = storage.n_buckets_used
        /\ table'.n_entries = table.n_entries /\ table'.free = storage.free
        /\ Members(table')
    BY <1>2, <2>1 DEF Members
  <2>6. /\ Contents(table') = Contents(storage) /\ Places(table') = Places(storage)
        /\ Heads(table', 0) = Heads(storage, 0)
    BY <2>5 DEF Contents, Places, Heads
  <2>7. TableOK(table')
    BY <1>2, <2>5, <2>6 DEF TableOK, Chains, safe_hasher
  <2>8. HashTypeOK'
    BY <1>1, <1>2, <2>1, <2>5, <2>7, NoTableIs, PrimesAre DEF HashTypeOK
  <2>9. Counted'
    <3>1. Cardinality(Places(storage)) \in Nat
      BY <1>2, HeadsAre DEF TableOK
    <3>2. QED
      BY <1>1, <2>1, <2>4, <2>5, <2>6, <3>1, NoTableIs, PrimesAre
  <2>10. AllEntries' = AllEntries
    BY <1>1, <2>1, <2>3, <2>6, NoTableIs, PrimesAre DEF AllEntries
  <2>11. safe_hasher(storage, new.key) \in Int
    <3>1. new.key \in Keys /\ storage.n_buckets \in 1 .. MaxSize
      BY <1>2, SizeIsInt DEF TableOK, Chains
    <3>2. safe_hasher(storage, new.key) \in 0 .. storage.n_buckets - 1
      BY <1>2, <3>1, HasherIs
    <3>3. QED
      BY <3>2
  <2>12. /\ new' \in [key : Keys, value : Values, bucket : Int]
         /\ new'.key = new.key /\ new'.bucket = safe_hasher(storage, new.key)
    BY <1>2, <2>1, <2>11
  <2>13. safe_hasher(table, new.key)' = safe_hasher(storage, new.key)
    BY <1>1, <2>5, <2>12 DEF safe_hasher
  <2>14. Pending'
    BY <1>2, <2>1, <2>10, <2>12, <2>13 DEF Pending
  <2>15. Passed' /\ Enough'
    BY <2>1 DEF Passed, Enough
  <2>16. Dst' = table'
    BY <2>1 DEF Dst
  <2>17. NothingLeaks'
    <3>1. nodes = storage.free + table.n_entries - 0 - storage.n_buckets_used
      BY <1>2, <2>2, <2>3 DEF NothingLeaks
    <3>2. /\ storage.n_buckets_used \in Int /\ storage.free \in Int
          /\ table.n_entries \in Int
      BY <1>2 DEF Members
    <3>3. nodes = storage.free + table.n_entries - storage.n_buckets_used - 0
      BY <3>1, <3>2
    <3>4. storage'.n_buckets_used = 0
      BY <2>1, NoTableIs
    <3>5. QED
      BY <1>1, <2>5, <2>16, <3>3, <3>4 DEF NothingLeaks
  <2>18. NoAbort'
    <3>1. new.key \in Keys /\ Chains(storage)
      BY <1>2 DEF TableOK
    <3>2. \A e \in Contents(storage) : e.key # new.key
      BY <1>2 DEF AllEntries
    <3>3. hash_lookup(storage, new.key) = NULL
      BY <1>2, <3>1, <3>2, LookupIs
    <3>4. QED
      BY <2>1, <3>3 DEF NoAbort
  <2>19. QED
    BY <2>8, <2>9, <2>10, <2>14, <2>15, <2>17, <2>18 DEF HashInv
<1>4. CASE pc = "undo"
  <2>1. /\ pc' = "heads" /\ at' = 0 /\ table' = table /\ storage' = storage
        /\ new' = new /\ aborted' = aborted
    BY <1>4 DEF Transferred
  <2>2. HashTypeOK' /\ Counted' /\ AllEntries' = AllEntries /\ Homes' = Homes
    BY <1>1, <2>1, SameTables
  <2>3. Pending'
    BY <1>2, <1>4, <2>1, <2>2 DEF Pending
  <2>4. Src' = storage /\ Dst' = table /\ Src = storage /\ Dst = table
    BY <1>4, <2>1 DEF Src, Dst
  <2>5. Passed'
    <3>1. storage.n_buckets \in Nat
      BY <1>2, SizeIsInt DEF TableOK, Chains
    <3>2. QED
      BY <1>1, <1>2, <1>4, <2>1, <2>4, <3>1 DEF Passed
  <2>6. Enough' /\ NothingLeaks' /\ NoAbort'
    BY <1>1, <1>2, <1>4, <2>1, <2>2, <2>4 DEF Enough, NothingLeaks, NoAbort
  <2>7. QED
    BY <2>2, <2>3, <2>5, <2>6 DEF HashInv
<1>5. CASE pc = "heads"
  <2>1. /\ pc' = "ready" /\ at' = at /\ table' = table /\ storage' = NoTable
        /\ new' = NULL /\ aborted' = aborted
    BY <1>5 DEF Transferred, Return
  <2>2. Src = storage /\ Dst = table
    BY <1>5 DEF Src, Dst
  <2>3. /\ Contents(storage) = {} /\ Cardinality(Places(storage)) = 0
        /\ storage.n_buckets_used = 0
    BY <1>1, <1>5, <2>2, AllMoved
  <2>4. HashTypeOK'
    BY <1>1, <1>2, <2>1, NoTableIs, PrimesAre DEF HashTypeOK
  <2>5. Counted' /\ AllEntries' = AllEntries
    BY <1>1, <1>2, <2>1, <2>3, NoTableIs, PrimesAre DEF Counted, AllEntries
  <2>6. Pending' /\ Passed' /\ Enough'
    BY <2>1 DEF Pending, Passed, Enough
  <2>7. Dst' = table
    BY <2>1 DEF Dst
  <2>8. NothingLeaks' /\ NoAbort'
    BY <1>1, <1>2, <2>1, <2>2, <2>3, <2>7, NoTableIs DEF NothingLeaks, NoAbort
  <2>9. QED
    BY <2>4, <2>5, <2>6, <2>8 DEF HashInv
<1>6. QED
  BY <1>1, <1>3, <1>4, <1>5 DEF Moving

LEMMA InitInv ==
    ASSUME Init
    PROVE  HashInv
<1> DEFINE n == compute_bucket_size(Candidate)
<1>1. n \in 0 .. MaxSize /\ n >= 1
  BY SizesAssumption, TableAssumption DEF SizesAssumption, TableAssumption
<1>2. /\ hasher \in Hashers /\ pc = "ready" /\ at = 0 /\ nodes = 0 /\ ~aborted
      /\ storage = NoTable
      /\ table = [bucket |-> EmptyBuckets(n), n_buckets |-> n,
                  n_buckets_used |-> 0, n_entries |-> 0, free |-> 0]
  BY DEF Init
<1> HIDE DEF n
<1>3. /\ table.n_buckets = n /\ table.bucket = EmptyBuckets(n)
      /\ table.n_buckets_used = 0 /\ table.n_entries = 0 /\ table.free = 0
      /\ Members(table)
  BY <1>2 DEF Members
<1>4. /\ Chains(table) /\ Cardinality(Places(table)) = 0
      /\ Cardinality(Heads(table, 0)) = 0
  BY <1>1, <1>3, FreshIs
<1>5. HashTypeOK
  BY <1>1, <1>2, <1>3, <1>4, NoTableIs DEF HashTypeOK, TableOK
<1>6. Counted
  BY <1>2, <1>3, <1>4, NoTableIs DEF Counted
<1>7. Pending /\ Passed /\ Enough /\ NoAbort
  BY <1>2 DEF Pending, Passed, Enough, NoAbort
<1>8. NothingLeaks
  BY <1>2, <1>3, NoTableIs DEF NothingLeaks, Dst
<1>9. QED
  BY <1>5, <1>6, <1>7, <1>8 DEF HashInv

\* In a step that keeps the tables the memory is accounted for as before,
\* provided the same table is being filled.
LEMMA SameMemory ==
    ASSUME HashInv, UNCHANGED <<hasher, table, storage, nodes>>,
           pc # "transfer", pc' # "transfer"
    PROVE  NothingLeaks'
<1>1. /\ table' = table /\ storage' = storage /\ nodes' = nodes
      /\ Dst = table /\ Dst' = table /\ NothingLeaks
  BY PartsOfInv DEF Dst
<1>2. QED
  BY <1>1 DEF NothingLeaks

\* The operation is over and the tables are as they were.
LEMMA OverInv ==
    ASSUME HashInv, UNCHANGED <<hasher, table, storage, nodes, aborted, at>>,
           pc \in {"ready", "insert"}, pc' = "ready"
    PROVE  HashInv' /\ AllEntries' = AllEntries
<1>1. at \in Nat /\ Pending /\ ~aborted
  BY PartsOfInv
<1>2. HashTypeOK' /\ Counted' /\ AllEntries' = AllEntries
  BY <1>1, SameTables
<1>3. NothingLeaks'
  BY SameMemory
<1>4. Pending' /\ Passed' /\ Enough' /\ NoAbort'
  BY <1>1 DEF Pending, Passed, Enough, NoAbort
<1>5. QED
  BY <1>2, <1>3, <1>4 DEF HashInv

\* Every head is in its home.
LEMMA HeadsHaveHomes ==
    ASSUME HashInv
    PROVE  /\ Heads(table, 0) \subseteq Homes
           /\ Cardinality(Heads(table, 0)) <= Cardinality(Homes)
<1>1. Chains(table)
  BY PartsOfInv DEF TableOK
<1>2. ASSUME NEW i \in Heads(table, 0)
      PROVE  i \in Homes
  <2>1. i \in 0 .. table.n_buckets - 1 /\ table.bucket[i] # <<>>
    BY <1>1, <1>2, HeadsAre
  <2>2. table.bucket[i] \in Seq(Entries)
    BY <1>1, <2>1 DEF Chains
  <2>3. 1 \in 1 .. Len(table.bucket[i])
    BY <2>1, <2>2, EmptySeq, LenProperties
  <2>4. table.bucket[i][1] \in Range(table.bucket[i])
    BY <2>2, <2>3, RangeIs
  <2>5. table.bucket[i][1] \in AllEntries
    BY <1>1, <2>1, <2>4, ContentsIs DEF AllEntries
  <2>6. safe_hasher(table, table.bucket[i][1].key) = i
    BY <1>1, <2>1, <2>4 DEF Chains
  <2>7. QED
    BY <2>5, <2>6 DEF Homes
<1>3. QED
  BY <1>2, HomesAre, FS_Subset

\* An insertion of a key that is not in the table begins.
LEMMA AbsentInv ==
    ASSUME HashInv, Ready, NEW k \in Keys, NEW v \in Values,
           hash_lookup(table, k) = NULL, Absent(k, v),
           UNCHANGED <<hasher, table, nodes, aborted>>
    PROVE  HashInv' /\ AllEntries' = AllEntries
<1> DEFINE e == [key |-> k, value |-> v, bucket |-> safe_hasher(table, k)]
           size == compute_bucket_size(Larger(table.n_buckets))
<1>1. /\ pc = "ready" /\ ~aborted /\ storage = NoTable /\ at \in Nat
      /\ hasher \in Hashers /\ Chains(table) /\ table.n_buckets >= 1
      /\ Members(table) /\ TableOK(table)
      /\ hasher' = hasher /\ table' = table /\ nodes' = nodes /\ aborted' = aborted
  BY PartsOfInv DEF Ready, Pending, TableOK
<1>2. \A x \in Contents(table) : x.key # k
  BY <1>1, LookupIs
<1>3. AllEntries = Contents(table)
  BY <1>1, NoTableIs DEF AllEntries
<1>4. /\ e \in [key : Keys, value : Values, bucket : Int]
      /\ e.key = k /\ e.bucket = safe_hasher(table, k)
  <2>1. safe_hasher(table, k) \in 0 .. table.n_buckets - 1
    BY <1>1, LookupIs
  <2>2. QED
    BY <2>1
<1>5. ASSUME pc' = "insert", new' = e, storage' = NoTable, at' \in Nat
      PROVE  HashInv' /\ AllEntries' = AllEntries
  <2> HIDE DEF e
  <2>1. HashTypeOK' /\ Counted' /\ AllEntries' = AllEntries
    BY <1>1, <1>5, SameTables
  <2>2. NothingLeaks'
    BY <1>1, <1>5, SameMemory
  <2>3. safe_hasher(table, new.key)' = safe_hasher(table, k)
    BY <1>1, <1>4, <1>5 DEF safe_hasher
  <2>4. Pending'
    BY <1>2, <1>3, <1>4, <1>5, <2>1, <2>3 DEF Pending
  <2>5. Passed' /\ Enough' /\ NoAbort'
    BY <1>1, <1>5 DEF Passed, Enough, NoAbort
  <2>6. QED
    BY <2>1, <2>2, <2>4, <2>5 DEF HashInv
<1>6. CASE ~Growing /\ pc' = "insert" /\ new' = e /\ UNCHANGED <<storage, at, result>>
  BY <1>1, <1>5, <1>6
<1>7. CASE Growing /\ Return(NULL) /\ UNCHANGED <<storage, at>>
  BY <1>1, <1>7, OverInv DEF Return
<1>8. CASE /\ Growing /\ size <= MaxSize
           /\ pc' = IF size = table.n_buckets THEN "insert" ELSE "transfer"
           /\ storage' = IF size = table.n_buckets THEN NoTable
                         ELSE [bucket |-> EmptyBuckets(size), n_buckets |-> size,
                               n_buckets_used |-> 0, n_entries |-> 0,
                               free |-> table.free]
           /\ at' = 0 /\ new' = e
  <2>1. CASE size = table.n_buckets
    BY <1>5, <1>8, <2>1
  <2>2. CASE size # table.n_buckets
    <3>1. /\ pc' = "transfer" /\ at' = 0 /\ new' = e
          /\ storage' = [bucket |-> EmptyBuckets(size), n_buckets |-> size,
                         n_buckets_used |-> 0, n_entries |-> 0,
                         free |-> table.free]
      BY <1>8, <2>2
    <3>2. size \in 0 .. MaxSize /\ size >= 1
      <4>1. table.n_buckets \in 1 .. MaxSize
        BY <1>1, SizeIsInt DEF Chains
      <4>2. size \in Nat \ {0}
        BY <4>1, SizesAssumption DEF SizesAssumption
      <4>3. QED
        BY <1>8, <4>2, TableAssumption DEF TableAssumption
    <3> HIDE DEF size, e
    <3>3. /\ storage'.n_buckets = size /\ storage'.bucket = EmptyBuckets(size)
          /\ storage'.n_buckets_used = 0 /\ storage'.free = table.free
          /\ Members(storage')
      BY <1>1, <3>1 DEF Members
    <3>4. /\ Chains(storage') /\ Contents(storage') = {}
          /\ Cardinality(Places(storage')) = 0
          /\ Cardinality(Heads(storage', 0)) = 0
      BY <3>2, <3>3, FreshIs
    <3>5. TableOK(storage') /\ Apart(table, storage')
      BY <3>3, <3>4 DEF TableOK, Apart
    <3>6. HashTypeOK'
      BY <1>1, <3>1, <3>5, PartsOfInv, PrimesAre DEF HashTypeOK
    <3>7. table.n_entries = Cardinality(Places(table)) /\ Counted'
      <4>1. Cardinality(Places(table)) \in Nat
        BY <1>1, HeadsAre
      <4>2. table.n_entries = Cardinality(Places(table))
        BY <1>1, <4>1, PartsOfInv, NoTableIs DEF Counted
      <4>3. QED
        BY <1>1, <3>4, <4>1, <4>2, PrimesAre
    <3>8. AllEntries' = AllEntries
      BY <1>1, <1>3, <3>4, PrimesAre
    <3>9. \A l : safe_hasher(table, l)' = safe_hasher(table, l)
      BY <1>1 DEF safe_hasher
    <3>10. Pending'
      BY <1>2, <1>3, <1>4, <3>1, <3>8 DEF Pending
    <3>11. Src' = table /\ Dst' = storage'
      BY <1>1, <3>1 DEF Src, Dst
    <3>12. Passed'
      BY <1>1, <3>1, <3>2, <3>3, <3>11, SizeIsInt DEF Passed, Chains
    <3>13. /\ nodes = table.free + table.n_entries - table.n_buckets_used - 0
           /\ table.free \in Nat /\ table.n_entries \in Int /\ nodes \in Int
           /\ table.n_buckets_used = Cardinality(Heads(table, 0))
           /\ Cardinality(Heads(table, 0)) \in Nat
      <4>1. storage.n_buckets_used = 0 /\ Dst = table /\ NothingLeaks
        BY <1>1, NoTableIs, PartsOfInv DEF Dst
      <4>2. QED
        BY <1>1, <4>1, PartsOfInv, HeadsAre DEF NothingLeaks, Members, TableOK
    <3>14. Enough'
      <4>1. Homes' = Homes
        BY <3>8, <3>9 DEF Homes
      <4>2. nodes >= table.n_entries - Cardinality(Homes)
        BY <3>13, HeadsHaveHomes, HomesAre
      <4>3. QED
        BY <1>1, <4>1, <4>2 DEF Enough
    <3>15. NothingLeaks' /\ NoAbort'
      BY <1>1, <3>3, <3>11, <3>13 DEF NothingLeaks, NoAbort
    <3>16. QED
      BY <3>6, <3>7, <3>8, <3>10, <3>12, <3>14, <3>15 DEF HashInv
  <2>3. QED
    BY <2>1, <2>2
<1>9. QED
  BY <1>6, <1>7, <1>8 DEF Absent

LEMMA InsertInv ==
    ASSUME HashInv, NEW k \in Keys, NEW v \in Values, kvhash_insert(k, v)
    PROVE  HashInv' /\ AllEntries' = AllEntries
<1>1. /\ Ready /\ pc = "ready"
      /\ hasher' = hasher /\ table' = table /\ nodes' = nodes /\ aborted' = aborted
  BY DEF kvhash_insert, Ready
<1>2. CASE Return(hash_lookup(table, k)) /\ UNCHANGED <<storage, at, walk>>
  BY <1>1, <1>2, OverInv DEF Return
<1>3. CASE hash_lookup(table, k) = NULL /\ Absent(k, v)
  BY <1>1, <1>3, AbsentInv
<1>4. QED
  BY <1>2, <1>3 DEF kvhash_insert

\* An entry comes in.
LEMMA PutInInv ==
    ASSUME HashInv, pc = "insert", NEW e \in Entries,
           e = [key |-> new.key, value |-> new.value],
           table'.bucket = [table.bucket EXCEPT ![new.bucket] =
                               With(table.bucket[new.bucket], e)],
           table'.n_buckets = table.n_buckets,
           table'.n_entries = table.n_entries + 1,
           table'.n_buckets_used = table.n_buckets_used
              + (IF table.bucket[new.bucket] = <<>> THEN 1 ELSE 0),
           Members(table'),
           pc' = "ready", nodes' \in Int,
           nodes' - table'.free = nodes - table.free
              + (IF table.bucket[new.bucket] = <<>> THEN 0 ELSE 1),
           UNCHANGED <<hasher, storage, at, aborted>>
    PROVE  HashInv' /\ AllEntries' = AllEntries \cup {e}
<1> DEFINE i == new.bucket
<1>1. /\ hasher \in Hashers /\ TableOK(table) /\ Chains(table) /\ Members(table)
      /\ table.n_buckets >= 1 /\ ~aborted /\ at \in Nat /\ storage = NoTable
      /\ new \in [key : Keys, value : Values, bucket : Int]
      /\ \A x \in AllEntries : x.key # new.key
      /\ i = safe_hasher(table, new.key) /\ nodes \in Int
      /\ hasher' = hasher /\ storage' = storage /\ aborted' = aborted
      /\ table.n_entries = Cardinality(Places(table)) + Cardinality(Places(storage))
  BY PartsOfInv DEF Pending, TableOK, Counted
<1>2. e.key = new.key /\ new.key \in Keys
  BY <1>1
<1>3. i \in 0 .. table.n_buckets - 1 /\ safe_hasher(table, e.key) = i
  BY <1>1, <1>2, LookupIs
<1>4. \A x \in Contents(table) : x.key # e.key
  BY <1>1, <1>2 DEF AllEntries
<1>5. table'.bucket = [table.bucket EXCEPT ![i] = With(table.bucket[i], e)]
  OBVIOUS
<1> HIDE DEF i
<1>6. /\ Chains(table')
      /\ Contents(table') = Contents(table) \cup {e}
      /\ Cardinality(Places(table')) = Cardinality(Places(table)) + 1
      /\ Cardinality(Heads(table', 0)) = Cardinality(Heads(table, 0))
            + (IF table.bucket[i] = <<>> THEN 1 ELSE 0)
  BY <1>1, <1>3, <1>4, <1>5, PutIn
<1>7. /\ table.n_buckets_used = Cardinality(Heads(table, 0))
      /\ table.n_buckets_used \in Int /\ table.n_entries \in Int
      /\ table.free \in Nat /\ Cardinality(Places(table)) \in Nat
      /\ table'.free \in Nat
  BY <1>1, HeadsAre DEF TableOK, Members
<1>8. TableOK(table')
  BY <1>6, <1>7 DEF TableOK, i
<1>9. HashTypeOK'
  BY <1>1, <1>8, NoTableIs, PrimesAre DEF HashTypeOK
<1>10. Cardinality(Places(storage)) = 0 /\ Contents(storage) = {}
       /\ storage.n_buckets_used = 0
  BY <1>1, NoTableIs
<1>11. Counted'
  BY <1>1, <1>6, <1>7, <1>10, PrimesAre
<1>12. AllEntries' = AllEntries \cup {e}
  BY <1>1, <1>6, <1>10, PrimesAre DEF AllEntries
<1>13. Pending' /\ Passed' /\ Enough' /\ NoAbort'
  BY <1>1 DEF Pending, Passed, Enough, NoAbort
<1>14. NothingLeaks'
  <2>1. nodes = table.free + table.n_entries - table.n_buckets_used - 0
    BY <1>10, PartsOfInv DEF NothingLeaks, Dst
  <2>2. nodes' = table'.free + table'.n_entries - table'.n_buckets_used - 0
    <3>1. /\ nodes' - table'.free = nodes - table.free
                + (IF table.bucket[i] = <<>> THEN 0 ELSE 1)
          /\ table'.n_entries = table.n_entries + 1
          /\ table'.n_buckets_used = table.n_buckets_used
                + (IF table.bucket[i] = <<>> THEN 1 ELSE 0)
          /\ nodes' \in Int
      BY DEF i
    <3> DEFINE x == IF table.bucket[i] = <<>> THEN 1 ELSE 0
               y == IF table.bucket[i] = <<>> THEN 0 ELSE 1
    <3>3. /\ x \in Int /\ y \in Int /\ x + y = 1
          /\ nodes' - table'.free = nodes - table.free + y
          /\ table'.n_entries = table.n_entries + 1
          /\ table'.n_buckets_used = table.n_buckets_used + x
      BY <3>1
    <3>4. /\ nodes \in Int /\ table.free \in Int /\ table.n_entries \in Int
          /\ table.n_buckets_used \in Int /\ nodes' \in Int /\ table'.free \in Int
          /\ table'.n_entries \in Int /\ table'.n_buckets_used \in Int
      BY <1>1, <1>7, <1>8 DEF TableOK, Members
    <3> HIDE DEF x, y
    <3>5. QED
      BY ONLY <2>1, <3>3, <3>4
  <2>3. Dst' = table'
    BY DEF Dst
  <2>4. QED
    BY <1>1, <1>10, <2>2, <2>3 DEF NothingLeaks
<1>15. QED
  BY <1>9, <1>11, <1>12, <1>13, <1>14 DEF HashInv

\* The new table, whether its bucket was empty, and what memory it took.
LEMMA InsertNewIs ==
    ASSUME HashInv, InsertNew
    PROVE  \/ HashInv' /\ AllEntries' = AllEntries /\ result' = NULL
           \/ /\ HashInv'
              /\ AllEntries' = AllEntries \cup {[key |-> new.key, value |-> new.value]}
              /\ result' = new.value
<1> DEFINE i == new.bucket
           e == [key |-> new.key, value |-> new.value]
           b == table.bucket[i]
<1>1. /\ pc = "insert" /\ ~aborted /\ Members(table) /\ table.free \in Nat
      /\ hasher' = hasher /\ storage' = storage /\ at' = at /\ aborted' = aborted
      /\ table.n_entries \in Int /\ table.n_buckets_used \in Int /\ nodes \in Int
      /\ new \in [key : Keys, value : Values, bucket : Int]
      /\ i = safe_hasher(table, new.key) /\ at \in Nat
      /\ table.n_buckets >= 1 /\ Chains(table) /\ hasher \in Hashers
  BY PartsOfInv DEF InsertNew, TableOK, Members, Pending
<1>2. e \in Entries /\ e.value = new.value
  BY <1>1 DEF Entries
<1>3. i \in 0 .. table.n_buckets - 1 /\ DOMAIN table.bucket = 0 .. table.n_buckets - 1
  BY <1>1, LookupIs DEF Chains
<1>4. ASSUME NEW f \in Nat,
             NEW u \in Int, u = table.n_buckets_used + (IF b = <<>> THEN 1 ELSE 0),
             table' = [table EXCEPT !.n_entries = table.n_entries + 1,
                          !.bucket = [table.bucket EXCEPT ![i] = With(b, e)],
                          !.free = f, !.n_buckets_used = u],
             nodes' \in Int,
             nodes' - f = nodes - table.free + (IF b = <<>> THEN 0 ELSE 1),
             pc' = "ready", result' = new.value
      PROVE  /\ HashInv' /\ AllEntries' = AllEntries \cup {e}
             /\ result' = new.value
  <2> HIDE DEF e
  <2>1. /\ table'.bucket = [table.bucket EXCEPT ![i] = With(b, e)]
        /\ table'.n_buckets = table.n_buckets
        /\ table'.n_entries = table.n_entries + 1
        /\ table'.n_buckets_used = u /\ table'.free = f
        /\ Members(table')
    BY <1>1, <1>4 DEF Members
  <2>2. e = [key |-> new.key, value |-> new.value]
    BY DEF e
  <2>3. QED
    BY <1>1, <1>2, <1>4, <2>1, <2>2, PutInInv
<1>5. CASE /\ b = <<>>
           /\ table' = [[table EXCEPT !.n_entries = @ + 1]
                           EXCEPT !.bucket[i] = <<e>>, !.n_buckets_used = @ + 1]
           /\ Return(e.value) /\ UNCHANGED nodes
  <2>1. With(b, e) = <<e>>
    BY <1>5 DEF With
  <2>2. table' = [table EXCEPT !.n_entries = table.n_entries + 1,
                     !.bucket = [table.bucket EXCEPT ![i] = <<e>>],
                     !.free = table.free,
                     !.n_buckets_used = table.n_buckets_used + 1]
    BY <1>1, <1>5 DEF Members
  <2>3. /\ table.free \in Nat /\ table.n_buckets_used + 1 \in Int
        /\ table.n_buckets_used + 1 =
              table.n_buckets_used + (IF b = <<>> THEN 1 ELSE 0)
        /\ nodes' \in Int
        /\ nodes' - (table.free) =
              nodes - table.free + (IF b = <<>> THEN 0 ELSE 1)
        /\ pc' = "ready" /\ result' = new.value
    BY <1>1, <1>2, <1>5 DEF Return
  <2>4. table' = [table EXCEPT !.n_entries = table.n_entries + 1,
                     !.bucket = [table.bucket EXCEPT ![i] = With(b, e)],
                     !.free = table.free,
                     !.n_buckets_used = table.n_buckets_used + 1]
    BY <2>1, <2>2, Zenon
  <2>5. /\ HashInv' /\ AllEntries' = AllEntries \cup {e}
        /\ result' = new.value
    <3> HIDE DEF b, e, i
    <3>1. QED
      BY <1>4, <2>3, <2>4, Zenon
  <2>6. QED
    BY <2>5, Zenon
<1>6. CASE /\ b # <<>> /\ table.free > 0
           /\ table' = [[table EXCEPT !.n_entries = @ + 1]
                           EXCEPT !.bucket[i] = Chained(@, e), !.free = @ - 1]
           /\ Return(e.value) /\ UNCHANGED nodes
  <2>1. With(b, e) = Chained(b, e)
    BY <1>6 DEF With
  <2>2. table' = [table EXCEPT !.n_entries = table.n_entries + 1,
                     !.bucket = [table.bucket EXCEPT ![i] = Chained(b, e)],
                     !.free = table.free - 1,
                     !.n_buckets_used = table.n_buckets_used]
    BY <1>1, <1>6 DEF Members
  <2>3. /\ table.free - 1 \in Nat /\ table.n_buckets_used \in Int
        /\ table.n_buckets_used =
              table.n_buckets_used + (IF b = <<>> THEN 1 ELSE 0)
        /\ nodes' \in Int
        /\ nodes' - (table.free - 1) =
              nodes - table.free + (IF b = <<>> THEN 0 ELSE 1)
        /\ pc' = "ready" /\ result' = new.value
    BY <1>1, <1>2, <1>6 DEF Return
  <2>4. table' = [table EXCEPT !.n_entries = table.n_entries + 1,
                     !.bucket = [table.bucket EXCEPT ![i] = With(b, e)],
                     !.free = table.free - 1,
                     !.n_buckets_used = table.n_buckets_used]
    BY <2>1, <2>2, Zenon
  <2>5. /\ HashInv' /\ AllEntries' = AllEntries \cup {e}
        /\ result' = new.value
    <3> HIDE DEF b, e, i
    <3>1. QED
      BY <1>4, <2>3, <2>4, Zenon
  <2>6. QED
    BY <2>5, Zenon
<1>7. CASE /\ b # <<>> /\ table.free = 0
           /\ table' = [[table EXCEPT !.n_entries = @ + 1]
                           EXCEPT !.bucket[i] = Chained(@, e)]
           /\ nodes' = nodes + 1 /\ Return(e.value)
  <2>1. With(b, e) = Chained(b, e)
    BY <1>7 DEF With
  <2>2. table' = [table EXCEPT !.n_entries = table.n_entries + 1,
                     !.bucket = [table.bucket EXCEPT ![i] = Chained(b, e)],
                     !.free = table.free,
                     !.n_buckets_used = table.n_buckets_used]
    BY <1>1, <1>7 DEF Members
  <2>3. /\ table.free \in Nat /\ table.n_buckets_used \in Int
        /\ table.n_buckets_used =
              table.n_buckets_used + (IF b = <<>> THEN 1 ELSE 0)
        /\ nodes' \in Int
        /\ nodes' - (table.free) =
              nodes - table.free + (IF b = <<>> THEN 0 ELSE 1)
        /\ pc' = "ready" /\ result' = new.value
    BY <1>1, <1>2, <1>7 DEF Return
  <2>4. table' = [table EXCEPT !.n_entries = table.n_entries + 1,
                     !.bucket = [table.bucket EXCEPT ![i] = With(b, e)],
                     !.free = table.free,
                     !.n_buckets_used = table.n_buckets_used]
    BY <2>1, <2>2, Zenon
  <2>5. /\ HashInv' /\ AllEntries' = AllEntries \cup {e}
        /\ result' = new.value
    <3> HIDE DEF b, e, i
    <3>1. QED
      BY <1>4, <2>3, <2>4, Zenon
  <2>6. QED
    BY <2>5, Zenon
<1>8. CASE Return(NULL) /\ UNCHANGED <<table, nodes>>
  <2>1. HashInv' /\ pc' = "ready"
    BY <1>1, <1>8, OverInv DEF Return
  <2>2. AllEntries' = AllEntries
    BY <1>1, <1>8, <2>1, SameTables DEF HashInv, HashTypeOK
  <2>3. QED
    BY <1>8, <2>1, <2>2 DEF Return
<1>9. QED
  BY <1>5, <1>6, <1>7, <1>8 DEF InsertNew

----------------------------------------------------------------------------
\* Deleting: the table is as it was, or one entry is gone.
LEMMA DeleteIs ==
    ASSUME HashInv, NEW k \in Keys, kvhash_delete(k)
    PROVE  /\ HashInv'
           /\ AllEntries' = {e \in AllEntries : e.key # k}
           /\ result' = hash_lookup(table, k)
<1>1. /\ pc = "ready" /\ pc' = "ready" /\ at' = at /\ ~aborted /\ aborted' = aborted
      /\ hasher' = hasher /\ storage' = storage /\ nodes' = nodes
      /\ new' = new /\ result' = hash_lookup(table, k)
      /\ table' = IF Place(table, k) = 0 THEN table ELSE Unlinked(table, k)
      /\ hasher \in Hashers /\ TableOK(table) /\ Chains(table) /\ Members(table)
      /\ table.n_buckets >= 1 /\ at \in Nat /\ nodes \in Int /\ storage = NoTable
      /\ AllEntries = Contents(table)
  BY PartsOfInv, NoTableIs DEF kvhash_delete, Ready, TableOK, Pending, AllEntries
<1>2. CASE Place(table, k) = 0
  <2>1. \A e \in Contents(table) : e.key # k
    BY <1>1, <1>2, LookupIs
  <2>2. table' = table
    BY <1>1, <1>2
  <2>3. HashInv'
    BY <1>1, <2>2, OverInv
  <2>4. AllEntries' = AllEntries
    BY <1>1, <2>2, SameTables
  <2>5. QED
    BY <1>1, <2>1, <2>3, <2>4
<1>3. CASE Place(table, k) # 0
  <2> DEFINE d == safe_hasher(table, k)
             p == Place(table, k)
             s == table.bucket[d]
             b == RemoveAt(s, p)
             f == IF b = <<>> THEN table.free ELSE table.free + 1
             u == IF b = <<>> THEN table.n_buckets_used - 1
                  ELSE table.n_buckets_used
  <2>1. /\ d \in 0 .. table.n_buckets - 1 /\ p \in 1 .. Len(s)
        /\ s[p] \in Contents(table) /\ s[p].key = k
        /\ s = Bucket(table, k)
    BY <1>1, <1>3, LookupIs DEF Bucket
  <2>2. /\ table.n_entries \in Int /\ table.n_buckets_used \in Int
        /\ table.free \in Nat /\ Len(s) \in Nat
    BY <1>1, <2>1, LenProperties DEF Members, Chains
  <2>3. table' = [table EXCEPT !.bucket = [table.bucket EXCEPT ![d] = b],
                     !.free = f, !.n_buckets_used = u,
                     !.n_entries = table.n_entries - 1]
    <3>1. table' = Unlinked(table, k) /\ b = RemoveAt(Bucket(table, k), Place(table, k))
      BY <1>1, <1>3, <2>1
    <3>2. DOMAIN table.bucket = 0 .. table.n_buckets - 1
      BY <1>1 DEF Chains
    <3> HIDE DEF b, d, p, s
    <3>3. d = safe_hasher(table, k)
      BY DEF d
    <3>4. QED
      BY <1>1, <3>1, <3>2, <3>3 DEF Unlinked, Members
  <2> HIDE DEF b
  <2>4. /\ table'.bucket = [table.bucket EXCEPT ![d] = b]
        /\ table'.n_buckets = table.n_buckets
        /\ table'.free = IF b = <<>> THEN table.free ELSE table.free + 1
        /\ table'.n_buckets_used = IF b = <<>> THEN table.n_buckets_used - 1
                                   ELSE table.n_buckets_used
        /\ table'.n_entries = table.n_entries - 1
        /\ Members(table')
    <3>1. f \in Nat /\ u \in Int /\ table.n_entries \in Int /\ Members(table)
      BY <1>1, <2>2
    <3> HIDE DEF f, u
    <3>2. /\ table'.bucket = [table.bucket EXCEPT ![d] = b]
          /\ table'.n_buckets = table.n_buckets
          /\ table'.free = f /\ table'.n_buckets_used = u
          /\ table'.n_entries = table.n_entries - 1
          /\ Members(table')
      BY ONLY <2>3, <3>1 DEF Members
    <3>3. QED
      BY <3>2 DEF f, u
  <2>5. Without(table, table', d, p)
    BY <1>1, <2>1, <2>4 DEF Without, b
  <2>6. /\ Chains(table')
        /\ Contents(table') = Contents(table) \ {s[p]}
        /\ Cardinality(Places(table')) = Cardinality(Places(table)) - 1
        /\ Cardinality(Heads(table', 0)) = Cardinality(Heads(table, 0))
              - (IF Len(s) = 1 THEN 1 ELSE 0)
        /\ table'.bucket[d] = RemoveAt(s, p)
        /\ table'.bucket[d] = <<>> <=> Len(s) = 1
    BY ONLY <2>5, TakeOut
  <2>7. b = <<>> <=> Len(s) = 1
    BY <2>6 DEF b
  <2>8. /\ table.n_buckets_used = Cardinality(Heads(table, 0))
        /\ Cardinality(Places(table)) \in Nat
    BY <1>1, HeadsAre DEF TableOK
  <2> HIDE DEF d, p, s
  <2>9. TableOK(table')
    BY <2>2, <2>4, <2>6, <2>7, <2>8 DEF TableOK
  <2>10. HashTypeOK'
    BY <1>1, <2>4, <2>9, NoTableIs, PrimesAre DEF HashTypeOK
  <2>11. /\ Cardinality(Places(storage)) = 0 /\ Contents(storage) = {}
         /\ storage.n_buckets_used = 0
    BY <1>1, NoTableIs
  <2>12. Counted'
    <3>1. table.n_entries = Cardinality(Places(table)) + Cardinality(Places(storage))
      BY PartsOfInv DEF Counted
    <3>2. QED
      BY <1>1, <2>4, <2>6, <2>8, <2>11, <3>1, PrimesAre
  <2>13. AllEntries' = {e \in AllEntries : e.key # k}
    <3>1. AllEntries' = Contents(table) \ {s[p]}
      BY <1>1, <2>6, <2>11, PrimesAre
    <3>2. \A e \in Contents(table) : e.key = k => e = s[p]
      BY <1>1, <2>1, OneOfAKey DEF s, d, p
    <3>3. s[p].key = k
      BY <2>1 DEF s, d, p
    <3>4. QED
      BY <1>1, <3>1, <3>2, <3>3
  <2>14. Pending' /\ Passed' /\ Enough' /\ NoAbort'
    BY <1>1 DEF Pending, Passed, Enough, NoAbort
  <2>15. NothingLeaks'
    <3>1. nodes = table.free + table.n_entries - table.n_buckets_used - 0
      BY <1>1, <2>11, PartsOfInv DEF NothingLeaks, Dst
    <3>2. nodes = table'.free + table'.n_entries - table'.n_buckets_used - 0
      <4>1. CASE b = <<>>
        BY <1>1, <2>2, <2>4, <3>1, <4>1
      <4>2. CASE b # <<>>
        BY <1>1, <2>2, <2>4, <3>1, <4>2, SMTT(30)
      <4>3. QED
        BY <4>1, <4>2
    <3>3. Dst' = table'
      BY <1>1 DEF Dst
    <3>4. QED
      BY <1>1, <2>11, <3>2, <3>3 DEF NothingLeaks
  <2>16. QED
    BY <1>1, <2>10, <2>12, <2>13, <2>14, <2>15 DEF HashInv
<1>4. QED
  BY <1>2, <1>3

----------------------------------------------------------------------------
(* Walking. *)

\* A walk finds an entry in a table that counts one.
LEMMA WalkInv ==
    ASSUME HashInv, hash_get_first \/ hash_get_next
    PROVE  HashInv' /\ AllEntries' = AllEntries /\ result' = result
<1>1. /\ pc = "ready" /\ pc' = "ready"
      /\ UNCHANGED <<hasher, table, storage, nodes, at, new>> /\ result' = result
  BY DEF hash_get_first, hash_get_next, Ready
<1>2. ~aborted'
  <2>1. CASE hash_get_next
    BY <2>1, PartsOfInv DEF hash_get_next
  <2>2. CASE hash_get_first
    <3>1. /\ table.n_entries > 0 /\ aborted' = (FirstFrom(table, 0) = NULL)
          /\ Chains(table) /\ storage = NoTable /\ Counted
      BY <1>1, <2>2, PartsOfInv DEF hash_get_first, TableOK, Pending
    <3>2. Places(table) # {}
      <4>1. ASSUME Places(table) = {}
            PROVE  FALSE
        <5>1. table.n_entries = 0
          BY <3>1, <4>1, FS_EmptySet, NoTableIs DEF Counted
        <5>2. QED
          BY <3>1, <5>1
      <4>2. QED
        BY <4>1
    <3>3. PICK i \in 0 .. table.n_buckets - 1 : \E j \in 1 .. Len(table.bucket[i]) : TRUE
      BY <3>1, <3>2, PlacesIs
    <3>4. table.bucket[i] # <<>>
      <4>1. table.bucket[i] \in Seq(Entries)
        BY <3>1 DEF Chains
      <4>2. Len(table.bucket[i]) # 0
        BY <3>3, <4>1, LenProperties
      <4>3. QED
        BY <4>1, <4>2, EmptySeq
    <3>5. Heads(table, 0) # {}
      BY <3>1, <3>4, HeadsAre
    <3>6. FirstFrom(table, 0) # NULL
      BY <3>1, <3>5, FirstIs, TableAssumption DEF TableAssumption
    <3>7. QED
      BY <3>1, <3>6
  <2>3. QED
    BY <2>1, <2>2
<1>3. HashTypeOK' /\ Counted' /\ AllEntries' = AllEntries
  <2>1. at' \in Nat
    BY <1>1, PartsOfInv
  <2>2. QED
    BY <1>1, <2>1, SameTables
<1>4. NothingLeaks'
  BY <1>1, SameMemory
<1>5. Pending' /\ Passed' /\ Enough' /\ NoAbort'
  BY <1>1, <1>2, PartsOfInv DEF Pending, Passed, Enough, NoAbort
<1>6. QED
  BY <1>1, <1>3, <1>4, <1>5 DEF HashInv

----------------------------------------------------------------------------
(* The map the tables stand for. *)

\* What ValueOf finds in a set of entries.
ValueIn(S, k) ==
    LET found == {e \in S : e.key = k}
    IN  IF found = {} THEN NULL ELSE (CHOOSE e \in found : TRUE).value

LEMMA ValueOfIs ==
    \A k : ValueOf(k) = ValueIn(AllEntries, k) /\ ValueOf(k)' = ValueIn(AllEntries', k)
  BY DEF ValueOf, ValueIn, AllEntries

LEMMA ValueInIs ==
    ASSUME NEW S, NEW k
    PROVE  /\ (\A e \in S : e.key # k) => ValueIn(S, k) = NULL
           /\ \A e \in S : e.key = k /\ (\A f \in S : f.key = k => f = e)
                 => ValueIn(S, k) = e.value
<1> DEFINE found == {e \in S : e.key = k}
<1>1. ValueIn(S, k) = IF found = {} THEN NULL ELSE (CHOOSE e \in found : TRUE).value
  BY DEF ValueIn
<1>2. ASSUME \A e \in S : e.key # k
      PROVE  ValueIn(S, k) = NULL
  <2>1. found = {}
    BY <1>2
  <2>2. QED
    BY <1>1, <2>1
<1>3. ASSUME NEW e \in S, e.key = k, \A f \in S : f.key = k => f = e
      PROVE  ValueIn(S, k) = e.value
  <2>1. found = {e}
    BY <1>3
  <2> HIDE DEF found
  <2>2. (CHOOSE f \in found : TRUE) = e /\ found # {}
    BY <2>1
  <2>3. QED
    BY <1>1, <2>2
<1>4. QED
  BY <1>2, <1>3

LEMMA SameFound ==
    ASSUME NEW S, NEW T, NEW k,
           {f \in S : f.key = k} = {f \in T : f.key = k}
    PROVE  ValueIn(S, k) = ValueIn(T, k)
<1> DEFINE s == {f \in S : f.key = k}
           t == {f \in T : f.key = k}
<1>1. /\ ValueIn(S, k) = IF s = {} THEN NULL ELSE (CHOOSE e \in s : TRUE).value
      /\ ValueIn(T, k) = IF t = {} THEN NULL ELSE (CHOOSE e \in t : TRUE).value
  BY DEF ValueIn
<1>2. s = t
  OBVIOUS
<1> HIDE DEF s, t
<1>3. QED
  BY <1>1, <1>2

\* No key is in the tables twice.
LEMMA UniqueKeys ==
    ASSUME HashInv, NEW e \in AllEntries, NEW f \in AllEntries, e.key = f.key
    PROVE  e = f
<1>1. Chains(table) /\ Chains(storage) /\ Apart(table, storage)
  BY PartsOfInv DEF TableOK
<1>2. CASE e \in Contents(table) /\ f \in Contents(table)
  BY <1>1, <1>2, OneOfAKey
<1>3. CASE e \in Contents(storage) /\ f \in Contents(storage)
  BY <1>1, <1>3, OneOfAKey
<1>4. CASE e \in Contents(table) /\ f \in Contents(storage)
  BY <1>1, <1>4 DEF Apart
<1>5. CASE e \in Contents(storage) /\ f \in Contents(table)
  BY <1>1, <1>5 DEF Apart
<1>6. QED
  BY <1>2, <1>3, <1>4, <1>5 DEF AllEntries

\* Between two operations a lookup finds what is in the tables.
LEMMA FoundIs ==
    ASSUME HashInv, pc = "ready", NEW k \in Keys
    PROVE  hash_lookup(table, k) = ValueIn(AllEntries, k)
<1>1. /\ hasher \in Hashers /\ Chains(table) /\ table.n_buckets >= 1
      /\ AllEntries = Contents(table)
  BY PartsOfInv, NoTableIs DEF TableOK, Pending, AllEntries
<1>2. CASE hash_lookup(table, k) = NULL /\ \A e \in Contents(table) : e.key # k
  BY <1>1, <1>2, ValueInIs
<1>3. CASE \E e \in Contents(table) : e.key = k /\ e.value = hash_lookup(table, k)
  <2>1. PICK e \in Contents(table) : e.key = k /\ e.value = hash_lookup(table, k)
    BY <1>3
  <2>2. \A f \in AllEntries : f.key = k => f = e
    BY <1>1, <2>1, UniqueKeys
  <2>3. QED
    BY <1>1, <2>1, <2>2, ValueInIs
<1>4. QED
  BY <1>1, <1>2, <1>3, LookupIs

\* What a step does, seen from outside: nothing, an insertion that keeps the
\* value that is there or fails, an insertion, a deletion.
StepIs ==
    \/ AllEntries' = AllEntries /\ result' = result
    \/ \E k \in Keys : /\ AllEntries' = AllEntries
                       /\ result' = ValueIn(AllEntries, k)
    \/ \E k \in Keys : \E v \in Values :
          /\ \A e \in AllEntries : e.key # k
          /\ AllEntries' = AllEntries \cup {[key |-> k, value |-> v]}
          /\ result' = v
    \/ \E k \in Keys :
          /\ AllEntries' = {e \in AllEntries : e.key # k}
          /\ result' = ValueIn(AllEntries, k)

LEMMA InsertIs ==
    ASSUME HashInv, NEW k \in Keys, NEW v \in Values, kvhash_insert(k, v)
    PROVE  StepIs
<1>1. AllEntries' = AllEntries /\ pc = "ready"
  BY InsertInv DEF kvhash_insert, Ready
<1>2. hash_lookup(table, k) = ValueIn(AllEntries, k)
  BY <1>1, FoundIs
<1>3. result' = hash_lookup(table, k) \/ result' = result
  BY DEF kvhash_insert, Absent, Return
<1>4. QED
  BY <1>1, <1>2, <1>3 DEF StepIs

LEMMA TransferIs ==
    ASSUME HashInv, Transfer
    PROVE  HashInv' /\ StepIs
<1>1. HashInv' /\ AllEntries' = AllEntries
  BY MoveOverflowInv, MoveHeadInv, PassBucketInv, NoMemoryInv, TransferredInv
  DEF Transfer
<1>2. CASE result' = result
  BY <1>1, <1>2 DEF StepIs
<1>3. CASE Transferred /\ result' # result
  <2>1. pc = "heads" /\ result' = NULL
    BY <1>3 DEF Transferred, Return
  <2>2. new.key \in Keys /\ \A e \in AllEntries : e.key # new.key
    BY <2>1, PartsOfInv DEF Pending
  <2>3. ValueIn(AllEntries, new.key) = NULL
    BY <2>2, ValueInIs
  <2>4. QED
    BY <1>1, <2>1, <2>2, <2>3 DEF StepIs
<1>4. QED
  BY <1>2, <1>3 DEF Transfer, MoveOverflow, MoveHead, PassBucket, NoMemory

LEMMA InsertNewStep ==
    ASSUME HashInv, InsertNew
    PROVE  HashInv' /\ StepIs
<1>1. /\ pc = "insert" /\ new.key \in Keys /\ new.value \in Values
      /\ \A e \in AllEntries : e.key # new.key
  BY PartsOfInv DEF InsertNew, Pending
<1>2. ValueIn(AllEntries, new.key) = NULL
  BY <1>1, ValueInIs
<1>3. CASE HashInv' /\ AllEntries' = AllEntries /\ result' = NULL
  BY <1>1, <1>2, <1>3 DEF StepIs
<1>4. CASE /\ HashInv' /\ result' = new.value
           /\ AllEntries' = AllEntries \cup {[key |-> new.key, value |-> new.value]}
  BY <1>1, <1>4, Zenon DEF StepIs
<1>5. QED
  BY <1>3, <1>4, InsertNewIs

LEMMA DeleteStep ==
    ASSUME HashInv, NEW k \in Keys, kvhash_delete(k)
    PROVE  HashInv' /\ StepIs
<1>1. /\ HashInv' /\ AllEntries' = {e \in AllEntries : e.key # k}
      /\ result' = hash_lookup(table, k) /\ pc = "ready"
  BY DeleteIs DEF kvhash_delete, Ready
<1>2. hash_lookup(table, k) = ValueIn(AllEntries, k)
  BY <1>1, FoundIs
<1>3. QED
  BY <1>1, <1>2, Zenon DEF StepIs

LEMMA HashStep ==
    ASSUME HashInv, [Next]_vars
    PROVE  HashInv' /\ StepIs
<1>1. CASE Next
  <2>1. ASSUME NEW k \in Keys, NEW v \in Values, kvhash_insert(k, v)
        PROVE  HashInv' /\ StepIs
    BY <2>1, InsertInv, InsertIs
  <2>2. ASSUME NEW k \in Keys, kvhash_delete(k)
        PROVE  HashInv' /\ StepIs
    BY <2>2, DeleteStep
  <2>3. CASE Transfer
    BY <2>3, TransferIs
  <2>4. CASE InsertNew
    BY <2>4, InsertNewStep
  <2>5. CASE hash_get_first \/ hash_get_next
    BY <2>5, WalkInv DEF StepIs
  <2>6. QED
    BY <1>1, <2>1, <2>2, <2>3, <2>4, <2>5 DEF Next
<1>2. CASE UNCHANGED vars
  <2>1. /\ hasher' = hasher /\ table' = table /\ storage' = storage /\ pc' = pc
        /\ at' = at /\ new' = new /\ nodes' = nodes /\ aborted' = aborted
        /\ result' = result
    BY <1>2 DEF vars
  <2>2. HashTypeOK' /\ Counted' /\ AllEntries' = AllEntries /\ Homes' = Homes
    BY <2>1, SameTables, PartsOfInv
  <2>3. Src' = Src /\ Dst' = Dst
    BY <2>1 DEF Src, Dst
  <2>4. safe_hasher(table, new.key)' = safe_hasher(table, new.key)
    BY <2>1 DEF safe_hasher
  <2>5. Pending' /\ Passed' /\ Enough' /\ NothingLeaks' /\ NoAbort'
    BY <2>1, <2>2, <2>3, <2>4, PartsOfInv
    DEF Pending, Passed, Enough, NothingLeaks, NoAbort
  <2>6. QED
    BY <2>1, <2>2, <2>5 DEF HashInv, StepIs
<1>3. QED
  BY <1>1, <1>2

LEMMA HashInvAlways == Spec => []HashInv
<1>1. Init => HashInv
  BY InitInv
<1>2. HashInv /\ [Next]_vars => HashInv'
  BY HashStep
<1>3. QED
  BY <1>1, <1>2, PTL DEF Spec

----------------------------------------------------------------------------
(* The theorems. *)

\* hash_table_ok holds in every state, also while entries are moved: the
\* counts of entries and of used buckets are those of the buckets.
THEOREM TableAlwaysOk == Spec => []hash_table_ok
<1>1. HashInv => hash_table_ok
  BY PartsOfInv DEF hash_table_ok, Counted, TableOK
<1>2. QED
  BY <1>1, HashInvAlways, PTL

\* hash_rehash and transfer_entries never lose an overflow entry: each one
\* malloc gave is in a chain or on the free list.
THEOREM NeverLeaks == Spec => []NothingLeaks
<1>1. HashInv => NothingLeaks
  BY DEF HashInv
<1>2. QED
  BY <1>1, HashInvAlways, PTL

\* hash_rehash never calls abort: what was moved when memory ran out can be
\* moved back without memory.
THEOREM NeverAborts == Spec => []NoAbort
<1>1. HashInv => NoAbort
  BY DEF HashInv
<1>2. QED
  BY <1>1, HashInvAlways, PTL

LEMMA MapInit ==
    ASSUME Init
    PROVE  Map!Init
<1>1. HashInv
  BY InitInv
<1>2. AllEntries = {}
  <2>1. /\ storage = NoTable /\ table.n_buckets = compute_bucket_size(Candidate)
        /\ table.bucket = EmptyBuckets(compute_bucket_size(Candidate))
    BY DEF Init
  <2>2. compute_bucket_size(Candidate) \in 0 .. MaxSize
    BY SizesAssumption, TableAssumption DEF SizesAssumption, TableAssumption
  <2>3. Contents(table) = {}
    BY <2>1, <2>2, FreshIs
  <2>4. QED
    BY <2>1, <2>3, NoTableIs DEF AllEntries
<1>3. \A k \in Keys : ValueOf(k) = NULL
  BY <1>2, ValueInIs, ValueOfIs
<1>4. [k \in Keys |-> ValueOf(k)] = [k \in Keys |-> NULL]
  BY <1>3
<1>5. QED
  BY <1>4 DEF Map!Init, Init

\* What the map was and what it becomes.
LEMMA MapStep ==
    ASSUME HashInv, StepIs
    PROVE  \/ Map!Next
           \/ UNCHANGED <<[k \in Keys |-> ValueOf(k)], result>>
<1> DEFINE m == [k \in Keys |-> ValueIn(AllEntries, k)]
           n == [k \in Keys |-> ValueIn(AllEntries', k)]
<1>1. /\ m = [k \in Keys |-> ValueOf(k)]
      /\ n = [k \in Keys |-> ValueOf(k)]'
  BY ValueOfIs
<1>2. CASE AllEntries' = AllEntries /\ result' = result
  <2>1. n = m
    BY <1>2
  <2>2. QED
    BY <1>1, <1>2, <2>1
<1>3. ASSUME NEW k \in Keys, AllEntries' = AllEntries,
             result' = ValueIn(AllEntries, k)
      PROVE  Map!Next
  <2>1. n = m /\ result' = m[k]
    BY <1>3
  <2> HIDE DEF m, n
  <2>2. Map!Keep(k)
    BY <1>1, <2>1 DEF Map!Keep
  <2>3. QED
    BY <2>2 DEF Map!Next
<1>4. ASSUME NEW k \in Keys, NEW v \in Values,
             \A e \in AllEntries : e.key # k,
             AllEntries' = AllEntries \cup {[key |-> k, value |-> v]},
             result' = v
      PROVE  Map!Next
  <2> DEFINE e == [key |-> k, value |-> v]
  <2>0. e.key = k /\ e.value = v
    OBVIOUS
  <2>1. AllEntries' = AllEntries \cup {e}
    BY <1>4
  <2> HIDE DEF e
  <2>2. ValueIn(AllEntries, k) = NULL
    BY <1>4, ValueInIs
  <2>3. ValueIn(AllEntries', k) = v
    <3>1. e \in AllEntries' /\ \A f \in AllEntries' : f.key = k => f = e
      BY <1>4, <2>1
    <3>2. QED
      BY <2>0, <3>1, ValueInIs
  <2>4. ASSUME NEW l \in Keys, l # k
        PROVE  ValueIn(AllEntries', l) = ValueIn(AllEntries, l)
    <3>1. {f \in AllEntries' : f.key = l} = {f \in AllEntries : f.key = l}
      BY <2>0, <2>1, <2>4
    <3>2. QED
      BY ONLY <3>1, SameFound
  <2>5. m[k] = NULL /\ n = [m EXCEPT ![k] = v]
    BY <2>2, <2>3, <2>4
  <2> HIDE DEF m, n
  <2>6. Map!Insert(k, v)
    BY <1>1, <1>4, <2>5 DEF Map!Insert
  <2>7. QED
    BY <2>6 DEF Map!Next
<1>5. ASSUME NEW k \in Keys,
             AllEntries' = {e \in AllEntries : e.key # k},
             result' = ValueIn(AllEntries, k)
      PROVE  Map!Next
  <2>1. ValueIn(AllEntries', k) = NULL
    BY <1>5, ValueInIs
  <2>2. ASSUME NEW l \in Keys, l # k
        PROVE  ValueIn(AllEntries', l) = ValueIn(AllEntries, l)
    <3>1. {f \in AllEntries' : f.key = l} = {f \in AllEntries : f.key = l}
      BY <1>5, <2>2
    <3>2. QED
      BY ONLY <3>1, SameFound
  <2>3. result' = m[k] /\ n = [m EXCEPT ![k] = NULL]
    BY <1>5, <2>1, <2>2
  <2> HIDE DEF m, n
  <2>4. Map!Delete(k)
    BY <1>1, <2>3 DEF Map!Delete
  <2>5. QED
    BY <2>4 DEF Map!Next
<1>6. QED
  BY <1>2, <1>3, <1>4, <1>5 DEF StepIs

\* The table is a map for kvhash.c, whatever grows, fails to grow or is
\* moved back in between: every step of hash.c is a step of the map of
\* KeyValue or leaves the map and the last result as they are.
THEOREM TableImplementsMap == Spec => ImplementsMap
<1>1. Init => Map!Init
  BY MapInit
<1>2. HashInv /\ [Next]_vars
         => [Map!Next]_<<[k \in Keys |-> ValueOf(k)], result>>
  BY HashStep, MapStep
<1>3. QED
  BY <1>1, <1>2, HashInvAlways, PTL DEF Spec, ImplementsMap, Map!Spec

----------------------------------------------------------------------------
(***************************************************************************)
(* What a walk has passed.  The places of a table are ordered by bucket    *)
(* and place in the bucket; the walk is at one of them, what comes before  *)
(* has been passed if it was there at the start, what comes after has not. *)
(***************************************************************************)
Precedes(i, j, a, b) == i < a \/ (i = a /\ j < b)

\* The walk w is at the b-th entry of the a-th chain.
WalkAt(t, w, a, b) ==
    /\ a \in 0 .. t.n_buckets - 1 /\ b \in 1 .. Len(t.bucket[a])
    /\ t.bucket[a][b].key = w.at /\ w.seen[w.at] = 1
    /\ \A i \in 0 .. t.n_buckets - 1 : \A j \in 1 .. Len(t.bucket[i]) :
          LET k == t.bucket[i][j].key IN
          /\ Precedes(i, j, a, b) /\ k \in w.stay => w.seen[k] = 1
          /\ Precedes(a, b, i, j) => w.seen[k] = 0

\* What is not in the table has not been seen and need not be.
WalkMisses(t, w) ==
    \A k \in Keys : (\A e \in Contents(t) : e.key # k)
                       => w.seen[k] = 0 /\ k \notin w.stay

WalkTypeOK(w) ==
    /\ DOMAIN w = {"at", "stay", "seen", "moved"}
    /\ w.at \in Keys \cup {NULL} /\ w.stay \subseteq Keys
    /\ w.seen \in [Keys -> 0 .. 1] /\ w.moved \in BOOLEAN

WalkSound(t, w) == WalkMisses(t, w) /\ \E a, b \in Int : WalkAt(t, w, a, b)

WalkTracked ==
    /\ WalkTypeOK(walk)
    /\ Walking /\ ~walk.moved =>
          pc \in {"ready", "insert"} /\ WalkSound(table, walk)

\* An entry is in one place.
LEMMA OnePlace ==
    ASSUME NEW t, Chains(t),
           NEW i \in 0 .. t.n_buckets - 1, NEW j \in 1 .. Len(t.bucket[i]),
           NEW a \in 0 .. t.n_buckets - 1, NEW b \in 1 .. Len(t.bucket[a]),
           t.bucket[i][j].key = t.bucket[a][b].key
    PROVE  i = a /\ j = b
<1>1. /\ t.bucket[i] \in Seq(Entries) /\ t.bucket[a] \in Seq(Entries)
      /\ Distinct(t.bucket[i])
  BY DEF Chains
<1>2. t.bucket[i][j] \in Range(t.bucket[i]) /\ t.bucket[a][b] \in Range(t.bucket[a])
  BY <1>1, RangeIs
<1>3. i = a
  BY <1>2 DEF Chains
<1>4. QED
  BY <1>1, <1>3 DEF Distinct

LEMMA PlaceOf ==
    ASSUME hasher \in Hashers, NEW t, Chains(t), t.n_buckets >= 1,
           NEW i \in 0 .. t.n_buckets - 1, NEW j \in 1 .. Len(t.bucket[i])
    PROVE  LET e == t.bucket[i][j] IN
           /\ e \in Contents(t) /\ e \in Entries /\ e.key \in Keys
           /\ safe_hasher(t, e.key) = i /\ Place(t, e.key) = j
           /\ Bucket(t, e.key) = t.bucket[i]
<1> DEFINE e == t.bucket[i][j]
<1>1. t.bucket[i] \in Seq(Entries)
  BY DEF Chains
<1>2. e \in Range(t.bucket[i])
  BY <1>1, RangeIs
<1>3. e \in Contents(t) /\ e \in Entries
  BY <1>2, ContentsIs
<1>4. e.key \in Keys
  BY <1>3 DEF Entries
<1>5. safe_hasher(t, e.key) = i
  BY <1>2 DEF Chains
<1>6. Bucket(t, e.key) = t.bucket[i]
  BY <1>5 DEF Bucket
<1>7. Place(t, e.key) \in 1 .. Len(t.bucket[i]) /\ t.bucket[i][Place(t, e.key)].key = e.key
  BY <1>3, <1>4, <1>6, LookupIs
<1>8. Place(t, e.key) = j
  BY <1>7, OnePlace
<1>9. QED
  BY <1>3, <1>4, <1>5, <1>6, <1>8


LEMMA FirstFromIs ==
    ASSUME NEW t, Chains(t), NEW from \in Nat
    PROVE  \/ /\ FirstFrom(t, from) = NULL
              /\ \A i \in from .. t.n_buckets - 1 : t.bucket[i] = <<>>
           \/ \E m \in from .. t.n_buckets - 1 :
                 /\ m \in 0 .. t.n_buckets - 1 /\ 1 \in 1 .. Len(t.bucket[m])
                 /\ FirstFrom(t, from) = t.bucket[m][1].key
                 /\ \A i \in from .. m - 1 : t.bucket[i] = <<>>
<1>1. t.n_buckets \in Nat
  BY SizeIsInt DEF Chains
<1>2. CASE Heads(t, from) = {}
  BY <1>2 DEF Heads, FirstFrom
<1>3. CASE Heads(t, from) # {}
  <2>1. Heads(t, from) \subseteq Nat
    BY <1>1 DEF Heads
  <2>2. \E m \in Heads(t, from) : \A n \in Heads(t, from) : m <= n
    BY <1>3, <2>1, LeastOf
  <2> DEFINE m == CHOOSE j \in Heads(t, from) : \A n \in Heads(t, from) : j <= n
  <2>3. m \in Heads(t, from) /\ \A n \in Heads(t, from) : m <= n
    BY <2>2
  <2>4. FirstFrom(t, from) = Head(t.bucket[m]).key
    BY <1>3 DEF FirstFrom
  <2> HIDE DEF m
  <2>5. m \in from .. t.n_buckets - 1 /\ m \in 0 .. t.n_buckets - 1
        /\ t.bucket[m] # <<>>
    BY <1>1, <2>3 DEF Heads
  <2>6. t.bucket[m] \in Seq(Entries)
    BY <2>5 DEF Chains
  <2>7. 1 \in 1 .. Len(t.bucket[m]) /\ Head(t.bucket[m]) = t.bucket[m][1]
    BY <2>5, <2>6, EmptySeq, LenProperties
  <2>8. ASSUME NEW i \in from .. m - 1
        PROVE  t.bucket[i] = <<>>
    <3>1. i \in from .. t.n_buckets - 1 /\ ~(m <= i)
      BY <1>1, <2>5
    <3>2. QED
      BY <2>3, <3>1 DEF Heads
  <2>9. QED
    BY <2>4, <2>5, <2>7, <2>8
<1>4. QED
  BY <1>2, <1>3

\* WalkStep, of a walk that goes from w to x.
WalkGoes(w, x) ==
    /\ \A k \in Keys : x.seen[k] <= 1
    /\ w.at # NULL /\ ~w.moved /\ x.at = NULL => \A k \in w.stay : w.seen[k] = 1

LEMMA SeenOnce ==
    ASSUME NEW w, WalkTypeOK(w)
    PROVE  \A k \in Keys : w.seen[k] \in {0, 1} /\ w.seen[k] <= 1
<1>1. \A k \in Keys : w.seen[k] \in 0 .. 1
  BY DEF WalkTypeOK
<1>2. QED
  BY <1>1

LEMMA NoWalkIs ==
    /\ WalkTypeOK(NoWalk) /\ NoWalk.at = NULL
    /\ \A k \in Keys : NoWalk.seen[k] = 0
  BY DEF WalkTypeOK, NoWalk

\* hash_get_first.
LEMMA WalkBegins ==
    ASSUME HashInv, hash_get_first
    PROVE  WalkTracked' /\ WalkGoes(walk, walk')
<1> DEFINE k == FirstFrom(table, 0)
<1>1. /\ pc = "ready" /\ pc' = "ready" /\ table' = table /\ hasher' = hasher
      /\ walk.at = NULL
      /\ walk' = IF k = NULL THEN NoWalk
                 ELSE [NoWalk EXCEPT !.at = k, !.stay = Stored(table), !.seen[k] = 1]
      /\ hasher \in Hashers /\ Chains(table) /\ table.n_buckets >= 1
  BY PartsOfInv DEF hash_get_first, Ready, Walking, TableOK
<1>2. CASE k = NULL
  <2>1. walk' = NoWalk
    BY <1>1, <1>2
  <2>2. WalkTypeOK(walk') /\ walk'.at = NULL
    BY <2>1, NoWalkIs
  <2>3. WalkTracked'
    BY <2>2 DEF WalkTracked, WalkTypeOK, Walking
  <2>4. QED
    BY <1>1, <2>2, <2>3, SeenOnce DEF WalkGoes
<1>3. CASE k # NULL
  <2>1. PICK m \in 0 .. table.n_buckets - 1 :
           /\ 1 \in 1 .. Len(table.bucket[m]) /\ k = table.bucket[m][1].key
           /\ \A i \in 0 .. m - 1 : table.bucket[i] = <<>>
    BY <1>1, <1>3, FirstFromIs
  <2>2. k \in Keys
    BY <1>1, <2>1, PlaceOf
  <2> HIDE DEF k
  <2>3. /\ walk'.at = k /\ walk'.stay = Stored(table) /\ walk'.moved = FALSE
        /\ walk'.seen = [[l \in Keys |-> 0] EXCEPT ![k] = 1]
        /\ DOMAIN walk' = {"at", "stay", "seen", "moved"}
    BY <1>1, <1>3 DEF NoWalk
  <2>4. walk'.seen[k] = 1 /\ \A l \in Keys : l # k => walk'.seen[l] = 0
    BY <2>2, <2>3
  <2>5. WalkTypeOK(walk')
    <3>1. [[l \in Keys |-> 0] EXCEPT ![k] = 1] \in [Keys -> 0 .. 1]
      BY <2>2
    <3>2. walk'.seen \in [Keys -> 0 .. 1] /\ walk'.stay \subseteq Keys
      BY <2>3, <3>1 DEF Stored
    <3>3. QED
      BY <2>2, <2>3, <3>2 DEF WalkTypeOK
  <2>6. \A l \in Keys : (\A e \in Contents(table) : e.key # l) => l \notin Stored(table)
    BY <1>1, LookupIs DEF Stored
  <2>7. \E e \in Contents(table) : e.key = k
    BY <1>1, <2>1, PlaceOf
  <2>8. WalkMisses(table, walk')
    BY <2>3, <2>4, <2>6, <2>7 DEF WalkMisses
  <2>9. WalkAt(table, walk', m, 1)
    <3>1. ASSUME NEW i \in 0 .. table.n_buckets - 1,
                 NEW j \in 1 .. Len(table.bucket[i])
          PROVE  /\ ~Precedes(i, j, m, 1)
                 /\ Precedes(m, 1, i, j) => walk'.seen[table.bucket[i][j].key] = 0
      <4>1. table.bucket[i] \in Seq(Entries) /\ table.bucket[i] # <<>>
        BY <1>1, <3>1, EmptySeq DEF Chains
      <4>2. ~(i < m) /\ j \in Int /\ j >= 1 /\ i \in Int /\ m \in Int
        BY <2>1, <3>1, <4>1, LenProperties
      <4>3. table.bucket[i][j].key \in Keys
        BY <1>1, PlaceOf
      <4>4. ASSUME Precedes(m, 1, i, j)
            PROVE  table.bucket[i][j].key # k
        <5>1. ~(i = m /\ j = 1)
          BY <4>4 DEF Precedes
        <5>2. QED
          BY <1>1, <2>1, <5>1, OnePlace
      <4>5. QED
        BY <2>4, <4>2, <4>3, <4>4 DEF Precedes
    <3>2. QED
      BY <2>1, <2>3, <2>4, <3>1 DEF WalkAt
  <2>10. WalkSound(table, walk')
    BY <2>8, <2>9 DEF WalkSound
  <2>11. WalkSound(table, walk)' <=> WalkSound(table, walk')
    BY <1>1 DEF WalkSound, WalkMisses, WalkAt, Contents
  <2>12. WalkTypeOK(walk)' <=> WalkTypeOK(walk')
    BY DEF WalkTypeOK
  <2>13. WalkTracked'
    BY <1>1, <2>5, <2>10, <2>11, <2>12 DEF WalkTracked
  <2>14. QED
    BY <1>1, <2>5, <2>13, SeenOnce DEF WalkGoes
<1>4. QED
  BY <1>2, <1>3


LEMMA KeyOf ==
    ASSUME NEW t, Chains(t), NEW i \in 0 .. t.n_buckets - 1,
           NEW j \in 1 .. Len(t.bucket[i])
    PROVE  t.bucket[i][j].key \in Keys /\ t.bucket[i][j].key # NULL
<1>1. t.bucket[i][j] \in Entries
  BY LenProperties DEF Chains
<1>2. t.bucket[i][j].key \in Keys
  BY <1>1 DEF Entries
<1>3. QED
  BY <1>2, TableAssumption DEF TableAssumption

LEMMA AfterIn ==
    ASSUME hasher \in Hashers, NEW t, Chains(t), t.n_buckets >= 1, NEW k \in Keys
    PROVE  After(t, k) \in Keys \cup {NULL}
<1> DEFINE d == safe_hasher(t, k)
<1>1. d \in 0 .. t.n_buckets - 1 /\ Bucket(t, k) = t.bucket[d]
  BY LookupIs DEF Bucket
<1>2. t.bucket[d] \in Seq(Entries) /\ Len(t.bucket[d]) \in Nat
  BY <1>1, LenProperties DEF Chains
<1>3. Place(t, k) \in 0 .. Len(t.bucket[d])
  BY <1>1, <1>2, LookupIs
<1> HIDE DEF d
<1>4. CASE Place(t, k) < Len(t.bucket[d])
  <2>1. Place(t, k) + 1 \in 1 .. Len(t.bucket[d])
    BY <1>2, <1>3, <1>4
  <2>2. t.bucket[d][Place(t, k) + 1].key \in Keys
    BY <1>1, <2>1, PlaceOf
  <2>3. QED
    BY <1>1, <1>4, <2>2 DEF After
<1>5. CASE ~(Place(t, k) < Len(t.bucket[d]))
  <2>1. After(t, k) = FirstFrom(t, d + 1) /\ d + 1 \in Nat
    BY <1>1, <1>5 DEF After, d
  <2>2. ASSUME NEW m \in 0 .. t.n_buckets - 1, 1 \in 1 .. Len(t.bucket[m])
        PROVE  t.bucket[m][1].key \in Keys
    BY ONLY Chains(t), <2>2, KeyOf, Zenon
  <2>3. QED
    BY <2>1, <2>2, FirstFromIs
<1>6. QED
  BY <1>4, <1>5

\* The d-th entry of the c-th chain is the next after the b-th of the a-th.
NextPlace(t, a, b, c, d) ==
    /\ c \in 0 .. t.n_buckets - 1 /\ d \in 1 .. Len(t.bucket[c])
    /\ Precedes(a, b, c, d)
    /\ \A i \in 0 .. t.n_buckets - 1 : \A j \in 1 .. Len(t.bucket[i]) :
          /\ Precedes(i, j, c, d) => Precedes(i, j, a, b) \/ (i = a /\ j = b)
          /\ Precedes(c, d, i, j) => Precedes(a, b, i, j)

Onto(w, k) == [w EXCEPT !.at = k, !.seen[k] = @ + 1]

\* The walk goes on to the next place.
LEMMA WalkMoves ==
    ASSUME hasher \in Hashers, NEW t, Chains(t), t.n_buckets >= 1,
           NEW w, WalkTypeOK(w), ~w.moved, WalkMisses(t, w),
           NEW a \in Int, NEW b \in Int, WalkAt(t, w, a, b),
           NEW c, NEW d, NextPlace(t, a, b, c, d),
           NEW k, k = t.bucket[c][d].key, NEW x, x = Onto(w, k)
    PROVE  WalkTypeOK(x) /\ ~x.moved /\ WalkSound(t, x)
<1>0. /\ c \in 0 .. t.n_buckets - 1 /\ d \in 1 .. Len(t.bucket[c])
      /\ Precedes(a, b, c, d)
      /\ \A i \in 0 .. t.n_buckets - 1 : \A j \in 1 .. Len(t.bucket[i]) :
            /\ Precedes(i, j, c, d) => Precedes(i, j, a, b) \/ (i = a /\ j = b)
            /\ Precedes(c, d, i, j) => Precedes(a, b, i, j)
  BY DEF NextPlace
<1>1. k \in Keys /\ t.bucket[c][d] \in Contents(t) /\ w.seen[k] = 0
  BY <1>0, PlaceOf DEF WalkAt
<1>2. /\ x.at = k /\ x.stay = w.stay /\ x.moved = w.moved
      /\ x.seen = [w.seen EXCEPT ![k] = w.seen[k] + 1]
      /\ DOMAIN x = {"at", "stay", "seen", "moved"}
  BY DEF WalkTypeOK, Onto
<1>3. x.seen = [w.seen EXCEPT ![k] = 1] /\ w.seen \in [Keys -> 0 .. 1]
  BY <1>1, <1>2 DEF WalkTypeOK
<1>4. x.seen[k] = 1 /\ \A l \in Keys : l # k => x.seen[l] = w.seen[l]
  BY <1>1, <1>3
<1>5. WalkTypeOK(x)
  <2>1. x.seen \in [Keys -> 0 .. 1]
    BY <1>1, <1>3
  <2>2. QED
    BY <1>1, <1>2, <2>1 DEF WalkTypeOK
<1>6. WalkMisses(t, x)
  BY <1>1, <1>2, <1>4 DEF WalkMisses
<1>7. WalkAt(t, x, c, d)
  <2>1. ASSUME NEW i \in 0 .. t.n_buckets - 1, NEW j \in 1 .. Len(t.bucket[i])
        PROVE  LET l == t.bucket[i][j].key IN
               /\ Precedes(i, j, c, d) /\ l \in x.stay => x.seen[l] = 1
               /\ Precedes(c, d, i, j) => x.seen[l] = 0
    <3> DEFINE l == t.bucket[i][j].key
    <3>1. l \in Keys
      BY PlaceOf
    <3>2. l = k => i = c /\ j = d
      BY <1>0, OnePlace
    <3>3. i \in Int /\ c \in Int /\ j \in Int /\ d \in Int
      <4>1. t.bucket[i] \in Seq(Entries) /\ t.bucket[c] \in Seq(Entries)
        BY <1>0 DEF Chains
      <4>2. QED
        BY <1>0, <4>1, LenProperties
    <3>4. i = c /\ j = d => ~Precedes(i, j, c, d) /\ ~Precedes(c, d, i, j)
      BY <3>3 DEF Precedes
    <3>5. ASSUME Precedes(i, j, c, d), l \in x.stay
          PROVE  x.seen[l] = 1
      <4>1. l # k
        BY <3>2, <3>4, <3>5
      <4>2. Precedes(i, j, a, b) => w.seen[l] = 1
        BY <1>2, <3>5 DEF WalkAt
      <4>3. i = a /\ j = b => w.seen[l] = 1
        BY DEF WalkAt
      <4>4. w.seen[l] = 1
        BY <1>0, <3>5, <4>2, <4>3
      <4>5. QED
        BY <1>4, <3>1, <4>1, <4>4
    <3>6. ASSUME Precedes(c, d, i, j)
          PROVE  x.seen[l] = 0
      <4>1. l # k
        BY <3>2, <3>4, <3>6
      <4>2. w.seen[l] = 0
        BY <1>0, <3>6 DEF WalkAt
      <4>3. QED
        BY <1>4, <3>1, <4>1, <4>2
    <3>7. QED
      BY <3>5, <3>6
  <2>2. QED
    BY <1>0, <1>2, <1>4, <2>1 DEF WalkAt
<1>8. c \in Int /\ d \in Int
  <2>1. t.bucket[c] \in Seq(Entries)
    BY <1>0 DEF Chains
  <2>2. QED
    BY <1>0, <2>1, LenProperties
<1>9. QED
  BY <1>2, <1>5, <1>6, <1>7, <1>8 DEF WalkSound

\* Without a change of the table, and with the walk x in the place of walk.
LEMMA WalkPrimes ==
    ASSUME table' = table, hasher' = hasher, NEW x, walk' = x
    PROVE  /\ WalkTypeOK(walk)' <=> WalkTypeOK(x)
           /\ WalkSound(table, walk)' <=> WalkSound(table, x)
           /\ Walking' <=> x.at # NULL
  BY DEF WalkTypeOK, WalkSound, WalkMisses, WalkAt, Contents, Walking

\* hash_get_next.
LEMMA WalkContinues ==
    ASSUME HashInv, WalkTracked, hash_get_next
    PROVE  WalkTracked' /\ WalkGoes(walk, walk')
<1> DEFINE k == After(table, walk.at)
           on == [walk EXCEPT !.at = k]
           next == Onto(walk, k)
<1>1. /\ pc = "ready" /\ pc' = "ready" /\ table' = table /\ hasher' = hasher
      /\ walk.at # NULL /\ walk.at \in Keys /\ WalkTypeOK(walk)
      /\ walk' = IF k = NULL THEN NoWalk ELSE IF walk.moved THEN on ELSE next
      /\ hasher \in Hashers /\ Chains(table) /\ table.n_buckets >= 1
  BY PartsOfInv DEF hash_get_next, Ready, Walking, TableOK, WalkTracked, WalkTypeOK,
                    Onto
<1>2. k \in Keys \cup {NULL}
  BY <1>1, AfterIn
<1> HIDE DEF k
<1>3. \A l \in Keys : walk.seen[l] <= 1
  BY <1>1, SeenOnce
<1>4. CASE k = NULL
  <2>1. walk' = NoWalk
    BY <1>1, <1>4
  <2>2. WalkTracked'
    BY <1>1, <2>1, NoWalkIs, WalkPrimes DEF WalkTracked
  <2>3. ASSUME ~walk.moved, NEW l \in walk.stay
        PROVE  walk.seen[l] = 1
    <3>1. WalkSound(table, walk)
      BY <1>1, <2>3 DEF WalkTracked, Walking
    <3>2. PICK a \in Int, b \in Int : WalkAt(table, walk, a, b)
      BY <3>1 DEF WalkSound
    <3>3. l \in Keys
      BY <1>1 DEF WalkTypeOK
    <3>4. PICK e \in Contents(table) : e.key = l
      BY <3>1, <3>3 DEF WalkSound, WalkMisses
    <3>5. PICK i \in 0 .. table.n_buckets - 1 : e \in Range(table.bucket[i])
      BY <1>1, ContentsIs
    <3>6. PICK j \in 1 .. Len(table.bucket[i]) : e = table.bucket[i][j]
      BY <1>1, <3>5, RangeIs DEF Chains
    <3>7. /\ a \in 0 .. table.n_buckets - 1 /\ b \in 1 .. Len(table.bucket[a])
          /\ table.bucket[a][b].key = walk.at /\ walk.seen[walk.at] = 1
      BY <3>2 DEF WalkAt
    <3>8. /\ safe_hasher(table, walk.at) = a /\ Place(table, walk.at) = b
          /\ Bucket(table, walk.at) = table.bucket[a]
      BY <1>1, <3>7, PlaceOf
    <3>9. Len(table.bucket[a]) \in Nat /\ Len(table.bucket[i]) \in Nat
      BY <1>1, <3>7, LenProperties DEF Chains
    <3>10. ~(b < Len(table.bucket[a])) /\ FirstFrom(table, a + 1) = NULL
      <4>1. CASE b < Len(table.bucket[a])
        <5>1. b + 1 \in 1 .. Len(table.bucket[a])
          BY <3>7, <3>9, <4>1
        <5>2. k = table.bucket[a][b+1].key
          BY <3>8, <4>1 DEF After, k
        <5>3. k \in Keys
          BY <1>1, <3>7, <5>1, <5>2, PlaceOf
        <5>4. QED
          BY <1>4, <5>3, TableAssumption DEF TableAssumption
      <4>2. CASE ~(b < Len(table.bucket[a]))
        BY <1>4, <3>8, <4>2 DEF After, k
      <4>3. QED
        BY <4>1, <4>2
    <3>11. \A m \in a + 1 .. table.n_buckets - 1 : table.bucket[m] = <<>>
      <4>1. a + 1 \in Nat
        BY <3>7
      <4>2. ASSUME NEW m \in a + 1 .. table.n_buckets - 1,
                   m \in 0 .. table.n_buckets - 1, 1 \in 1 .. Len(table.bucket[m])
            PROVE  table.bucket[m][1].key # NULL
        BY ONLY <1>1, <4>2, KeyOf, Zenon
      <4>3. QED
        BY <1>1, <3>10, <4>1, <4>2, FirstFromIs
    <3>12. ~(i > a)
      <4>1. table.bucket[i] # <<>>
        BY <3>5 DEF Range
      <4>2. table.n_buckets \in Nat
        BY <1>1, SizeIsInt DEF Chains
      <4>3. QED
        BY <3>7, <3>11, <4>1, <4>2
    <3>13. Precedes(i, j, a, b) \/ (i = a /\ j = b)
      BY <3>6, <3>7, <3>9, <3>10, <3>12 DEF Precedes
    <3>14. QED
      BY <3>2, <3>4, <3>6, <3>7, <3>13 DEF WalkAt
  <2>4. QED
    BY <2>1, <2>2, <2>3, NoWalkIs DEF WalkGoes
<1>5. CASE k # NULL /\ walk.moved
  <2>1. walk' = on
    BY <1>1, <1>5
  <2>2. WalkTypeOK(on) /\ on.moved /\ on.at = k /\ on.seen = walk.seen
    BY <1>1, <1>2, <1>5 DEF WalkTypeOK
  <2> HIDE DEF on
  <2>3. WalkTracked'
    BY <1>1, <2>1, <2>2, WalkPrimes DEF WalkTracked
  <2>4. QED
    BY <1>3, <1>5, <2>1, <2>2, <2>3 DEF WalkGoes
<1>6. CASE k # NULL /\ ~walk.moved
  <2>1. walk' = next
    BY <1>1, <1>6
  <2>2. WalkMisses(table, walk)
    BY <1>1, <1>6 DEF WalkTracked, Walking, WalkSound
  <2>3. PICK a \in Int, b \in Int : WalkAt(table, walk, a, b)
    BY <1>1, <1>6 DEF WalkTracked, Walking, WalkSound
  <2>4. /\ a \in 0 .. table.n_buckets - 1 /\ b \in 1 .. Len(table.bucket[a])
        /\ table.bucket[a][b].key = walk.at
    BY <2>3 DEF WalkAt
  <2>5. /\ safe_hasher(table, walk.at) = a /\ Place(table, walk.at) = b
        /\ Bucket(table, walk.at) = table.bucket[a]
    BY <1>1, <2>4, PlaceOf
  <2>6. \A i \in 0 .. table.n_buckets - 1 :
           table.bucket[i] \in Seq(Entries) /\ Len(table.bucket[i]) \in Nat
    BY <1>1, LenProperties DEF Chains
  <2>7. \E c, d : k = table.bucket[c][d].key /\ NextPlace(table, a, b, c, d)
    <3>1. CASE b < Len(table.bucket[a])
      <4>1. b + 1 \in 1 .. Len(table.bucket[a]) /\ k = table.bucket[a][b+1].key
        BY <2>4, <2>5, <2>6, <3>1 DEF After, k
      <4>2. Precedes(a, b, a, b + 1)
        BY <2>3 DEF Precedes
      <4>3. ASSUME NEW i \in 0 .. table.n_buckets - 1,
                   NEW j \in 1 .. Len(table.bucket[i])
            PROVE  /\ Precedes(i, j, a, b+1) => Precedes(i, j, a, b) \/ (i = a /\ j = b)
                   /\ Precedes(a, b+1, i, j) => Precedes(a, b, i, j)
        BY <2>6 DEF Precedes
      <4>4. NextPlace(table, a, b, a, b + 1)
        BY <2>4, <4>1, <4>2, <4>3 DEF NextPlace
      <4>5. QED
        BY <4>1, <4>4, Zenon
    <3>2. CASE ~(b < Len(table.bucket[a]))
      <4>1. k = FirstFrom(table, a + 1) /\ a + 1 \in Nat
        BY <2>4, <2>5, <3>2 DEF After, k
      <4>2. PICK m \in a + 1 .. table.n_buckets - 1 :
               /\ m \in 0 .. table.n_buckets - 1 /\ 1 \in 1 .. Len(table.bucket[m])
               /\ k = table.bucket[m][1].key
               /\ \A i \in a + 1 .. m - 1 : table.bucket[i] = <<>>
        BY <1>1, <1>6, <4>1, FirstFromIs
      <4>3. Precedes(a, b, m, 1)
        BY <4>2 DEF Precedes
      <4>4. ASSUME NEW i \in 0 .. table.n_buckets - 1,
                   NEW j \in 1 .. Len(table.bucket[i])
            PROVE  /\ Precedes(i, j, m, 1) => Precedes(i, j, a, b) \/ (i = a /\ j = b)
                   /\ Precedes(m, 1, i, j) => Precedes(a, b, i, j)
        <5>1. table.bucket[i] # <<>>
          BY <2>6, EmptySeq
        <5>2. ~(a < i /\ i < m)
          BY <4>2, <5>1
        <5>3. j \in Int /\ j >= 1 /\ Len(table.bucket[a]) \in Nat
          BY <2>4, <2>6
        <5>4. i = a => j <= b
          BY <2>4, <3>2, <5>3
        <5>5. QED
          BY <4>2, <5>2, <5>3, <5>4 DEF Precedes
      <4>5. NextPlace(table, a, b, m, 1)
        BY <4>2, <4>3, <4>4 DEF NextPlace
      <4>6. QED
        BY <4>2, <4>5, Zenon
    <3>3. QED
      BY <3>1, <3>2
  <2>8. next = Onto(walk, k) /\ next.at = k
    BY <1>1 DEF WalkTypeOK, Onto
  <2> HIDE DEF next
  <2>9. WalkTypeOK(next) /\ ~next.moved /\ WalkSound(table, next)
    <3>1. PICK c, d : k = table.bucket[c][d].key /\ NextPlace(table, a, b, c, d)
      BY <2>7, Zenon
    <3>2. QED
      BY ONLY <1>1, <1>6, <2>2, <2>3, <2>8, <3>1, WalkMoves
  <2>11. WalkTracked'
    BY <1>1, <2>1, <2>9, WalkPrimes DEF WalkTracked
  <2>12. QED
    BY <1>6, <2>1, <2>8, <2>9, <2>11, SeenOnce DEF WalkGoes
<1>7. QED
  BY <1>4, <1>5, <1>6

\* The chain b is s with e at the q-th place.
PutAt(s, b, e, q) ==
    /\ q \in 1 .. 2 /\ Len(b) = Len(s) + 1 /\ q <= Len(b) /\ b[q] = e
    /\ \A j \in 1 .. Len(s) : b[IF j < q THEN j ELSE j + 1] = s[j]

LEMMA WithPlaces ==
    ASSUME NEW s \in Seq(Entries), NEW e \in Entries, NEW b, b = With(s, e)
    PROVE  \E q \in 1 .. 2 : PutAt(s, b, e, q)
<1>1. CASE s = <<>>
  <2>1. b = <<e>> /\ Len(s) = 0
    BY <1>1 DEF With
  <2>2. Len(b) = 1 /\ b[1] = e
    BY <2>1
  <2>3. PutAt(s, b, e, 1)
    BY <2>1, <2>2 DEF PutAt
  <2>4. QED
    BY <2>3
<1>2. CASE s # <<>>
  <2>1. b = InsertAt(s, 2, e)
    BY <1>2 DEF Chained, With
  <2>2. Len(s) >= 1 /\ Len(s) \in Nat
    BY <1>2, EmptySeq
  <2>3. /\ Len(b) = Len(s) + 1
        /\ \A j \in 1 .. Len(s) + 1 :
              b[j] = IF j = 1 THEN s[1] ELSE IF j = 2 THEN e ELSE s[j-1]
    <3>1. /\ Len(InsertAt(s, 2, e)) = Len(s) + 1
          /\ \A j \in 1 .. Len(s) + 1 :
                InsertAt(s, 2, e)[j] =
                   IF j = 1 THEN s[1] ELSE IF j = 2 THEN e ELSE s[j-1]
      BY <2>2, InsertAtIs
    <3>2. QED
      BY <2>1, <3>1, Zenon
  <2> HIDE <2>1
  <2>4. b[2] = e /\ b[1] = s[1]
    BY <2>2, <2>3
  <2>5. ASSUME NEW j \in 1 .. Len(s)
        PROVE  b[IF j < 2 THEN j ELSE j + 1] = s[j]
    <3>1. CASE j < 2
      <4>1. j = 1
        BY <3>1
      <4>2. QED
        BY <2>4, <3>1, <4>1
    <3>2. CASE ~(j < 2)
      <4>1. j + 1 \in 1 .. Len(s) + 1 /\ j + 1 # 1 /\ j + 1 # 2 /\ (j + 1) - 1 = j
        BY <2>2, <3>2
      <4>2. b[j+1] = s[j]
        BY <2>3, <4>1
      <4>3. QED
        BY <3>2, <4>2
    <3>3. QED
      BY <3>1, <3>2
  <2>6. PutAt(s, b, e, 2)
    BY <2>2, <2>3, <2>4, <2>5 DEF PutAt
  <2>7. QED
    BY <2>6
<1>3. QED
  BY <1>1, <1>2

\* Where the j-th entry of the i-th chain is when the d-th has a new entry at q.
Shifted(i, j, d, q) == IF i = d /\ j >= q THEN j + 1 ELSE j

\* The buckets of u are those of t, with e at the q-th place of the d-th.
PutInto(t, u, d, e, q) ==
    /\ PutAt(t.bucket[d], u.bucket[d], e, q)
    /\ \A i \in 0 .. t.n_buckets - 1 : i # d => u.bucket[i] = t.bucket[i]

\* The entries of the i-th chain of u are those of t, and e.
ChainShifts(t, u, d, e, q, i) ==
    /\ \A j \in 1 .. Len(t.bucket[i]) :
          /\ Shifted(i, j, d, q) \in 1 .. Len(u.bucket[i])
          /\ u.bucket[i][Shifted(i, j, d, q)] = t.bucket[i][j]
    /\ \A j \in 1 .. Len(u.bucket[i]) :
          \/ i = d /\ j = q /\ u.bucket[i][j] = e
          \/ \E l \in 1 .. Len(t.bucket[i]) : j = Shifted(i, l, d, q)

LEMMA ShiftedFrom ==
    ASSUME NEW t, Chains(t), NEW d \in 0 .. t.n_buckets - 1, NEW e,
           NEW u, NEW q, PutInto(t, u, d, e, q),
           NEW i \in 0 .. t.n_buckets - 1
    PROVE  ChainShifts(t, u, d, e, q, i)
<1>1. /\ DOMAIN t.bucket = 0 .. t.n_buckets - 1
      /\ t.bucket[i] \in Seq(Entries) /\ t.bucket[d] \in Seq(Entries)
  BY DEF Chains
<1>2. Len(t.bucket[i]) \in Nat /\ Len(t.bucket[d]) \in Nat
  BY <1>1, LenProperties
<1>3. CASE i # d
  <2>1. u.bucket[i] = t.bucket[i]
    BY <1>3 DEF PutInto
  <2>2. QED
    BY <1>2, <1>3, <2>1 DEF Shifted, ChainShifts
<1>4. CASE i = d
  <2> DEFINE b == u.bucket[d]
  <2>1. u.bucket[i] = b
    BY <1>4
  <2>2. /\ Len(b) = Len(t.bucket[d]) + 1 /\ q <= Len(b) /\ b[q] = e
        /\ \A j \in 1 .. Len(t.bucket[d]) :
              b[IF j < q THEN j ELSE j + 1] = t.bucket[d][j]
        /\ q \in 1 .. 2
    BY DEF PutInto, PutAt
  <2> HIDE DEF b
  <2>3. ASSUME NEW j \in 1 .. Len(t.bucket[i])
        PROVE  /\ Shifted(i, j, d, q) \in 1 .. Len(u.bucket[i])
               /\ u.bucket[i][Shifted(i, j, d, q)] = t.bucket[i][j]
    <3>1. Shifted(i, j, d, q) = IF j < q THEN j ELSE j + 1
      BY <1>2, <1>4, <2>2 DEF Shifted
    <3>2. CASE j < q
      BY <1>2, <1>4, <2>1, <2>2, <3>1, <3>2
    <3>3. CASE ~(j < q)
      BY <1>2, <1>4, <2>1, <2>2, <3>1, <3>3
    <3>4. QED
      BY <3>2, <3>3
  <2>4. ASSUME NEW j \in 1 .. Len(u.bucket[i]), j # q
        PROVE  \E l \in 1 .. Len(t.bucket[i]) : j = Shifted(i, l, d, q)
    <3>1. CASE j < q
      <4>1. j \in 1 .. Len(t.bucket[i]) /\ j = Shifted(i, j, d, q)
        BY <1>2, <1>4, <2>1, <2>2, <3>1 DEF Shifted
      <4>2. QED
        BY <4>1
    <3>2. CASE j > q
      <4>1. j - 1 \in 1 .. Len(t.bucket[i]) /\ j = Shifted(i, j - 1, d, q)
        BY <1>2, <1>4, <2>1, <2>2, <3>2 DEF Shifted
      <4>2. QED
        BY <4>1
    <3>3. QED
      BY <1>2, <1>4, <2>1, <2>2, <2>4, <3>1, <3>2
  <2>5. QED
    BY <1>4, <2>1, <2>2, <2>3, <2>4 DEF ChainShifts
<1>5. QED
  BY <1>3, <1>4

\* An insertion that does not grow the table leaves the walk sound.
LEMMA WalkStays ==
    ASSUME NEW t, Chains(t), NEW d \in 0 .. t.n_buckets - 1,
           NEW e \in Entries, \A x \in Contents(t) : x.key # e.key,
           NEW u, u.n_buckets = t.n_buckets,
           u.bucket = [t.bucket EXCEPT ![d] = With(t.bucket[d], e)],
           Contents(u) = Contents(t) \cup {e},
           NEW w, WalkSound(t, w)
    PROVE  WalkSound(u, w)
<1>0. d \in 0 .. t.n_buckets - 1
  OBVIOUS
<1>1. e.key \in Keys
  BY DEF Entries
<1>2. w.seen[e.key] = 0 /\ e.key \notin w.stay
  BY <1>1 DEF WalkSound, WalkMisses
<1>3. WalkMisses(u, w)
  BY DEF WalkSound, WalkMisses
<1>4. PICK a \in Int, b \in Int : WalkAt(t, w, a, b)
  BY DEF WalkSound
<1>5. t.bucket[d] \in Seq(Entries)
  BY DEF Chains
<1>6. PICK q \in 1 .. 2 : PutAt(t.bucket[d], With(t.bucket[d], e), e, q)
  BY <1>5, WithPlaces
<1>7. PutInto(t, u, d, e, q)
  <2>1. DOMAIN t.bucket = 0 .. t.n_buckets - 1
    BY DEF Chains
  <2>2. u.bucket[d] = With(t.bucket[d], e)
    BY <2>1
  <2>3. ASSUME NEW i \in 0 .. t.n_buckets - 1, i # d
        PROVE  u.bucket[i] = t.bucket[i]
    BY <2>1, <2>3
  <2>4. QED
    BY <1>6, <2>2, <2>3 DEF PutInto
<1>8. ASSUME NEW i \in 0 .. t.n_buckets - 1
      PROVE  ChainShifts(t, u, d, e, q, i)
  <2>1. i \in 0 .. t.n_buckets - 1 /\ Chains(t)
    OBVIOUS
  <2>2. QED
    BY ONLY <1>0, <1>7, <2>1, ShiftedFrom, Zenon
<1>9. /\ a \in 0 .. t.n_buckets - 1 /\ b \in 1 .. Len(t.bucket[a])
      /\ t.bucket[a][b].key = w.at /\ w.seen[w.at] = 1
      /\ \A i \in 0 .. t.n_buckets - 1 : \A j \in 1 .. Len(t.bucket[i]) :
            LET k == t.bucket[i][j].key IN
            /\ Precedes(i, j, a, b) /\ k \in w.stay => w.seen[k] = 1
            /\ Precedes(a, b, i, j) => w.seen[k] = 0
  BY <1>4 DEF WalkAt
<1> DEFINE g == Shifted(a, b, d, q)
<1>10. g \in 1 .. Len(u.bucket[a]) /\ u.bucket[a][g] = t.bucket[a][b] /\ g \in Int
  BY <1>8, <1>9 DEF Shifted, ChainShifts
<1>11. ASSUME NEW i \in 0 .. u.n_buckets - 1, NEW j \in 1 .. Len(u.bucket[i])
       PROVE  LET k == u.bucket[i][j].key IN
              /\ Precedes(i, j, a, g) /\ k \in w.stay => w.seen[k] = 1
              /\ Precedes(a, g, i, j) => w.seen[k] = 0
  <2>1. CASE u.bucket[i][j] = e
    BY <1>2, <2>1
  <2>2. CASE u.bucket[i][j] # e
    <3>1. PICK l \in 1 .. Len(t.bucket[i]) : j = Shifted(i, l, d, q)
      BY <1>8, <2>2 DEF ChainShifts
    <3>2. u.bucket[i][j] = t.bucket[i][l]
      BY <1>8, <3>1 DEF ChainShifts
    <3>3. t.bucket[i] \in Seq(Entries)
      BY DEF Chains
    <3>4. l \in Int /\ i \in Int
      BY <3>1, <3>3, LenProperties
    <3>5. /\ Precedes(i, j, a, g) => Precedes(i, l, a, b)
          /\ Precedes(a, g, i, j) => Precedes(a, b, i, l)
      BY <3>1, <3>4 DEF Precedes, Shifted
    <3>6. LET k == t.bucket[i][l].key IN
          /\ Precedes(i, l, a, b) /\ k \in w.stay => w.seen[k] = 1
          /\ Precedes(a, b, i, l) => w.seen[k] = 0
      BY <1>9
    <3>7. QED
      BY <3>2, <3>5, <3>6, Zenon
  <2>3. QED
    BY <2>1, <2>2
<1>12. WalkAt(u, w, a, g)
  <2> HIDE DEF g
  <2>1. u.bucket[a][g].key = w.at
    BY <1>9, <1>10
  <2>2. QED
    BY <1>9, <1>10, <1>11, <2>1 DEF WalkAt
<1>13. QED
  BY <1>3, <1>10, <1>12 DEF WalkSound

\* An insertion puts its entry into a bucket, or changes nothing.
LEMMA InsertPuts ==
    ASSUME HashInv, InsertNew
    PROVE  /\ pc = "insert" /\ pc' = "ready" /\ walk' = walk /\ hasher' = hasher
           /\ \/ table' = table
              \/ /\ table'.n_buckets = table.n_buckets
                 /\ table'.bucket = [table.bucket EXCEPT ![new.bucket] =
                       With(table.bucket[new.bucket],
                            [key |-> new.key, value |-> new.value])]
<1> DEFINE i == new.bucket
           e == [key |-> new.key, value |-> new.value]
           b == table.bucket[i]
           more == [table EXCEPT !.n_entries = @ + 1]
<1>1. Members(table) /\ pc = "insert" /\ walk' = walk /\ hasher' = hasher
  BY PartsOfInv DEF InsertNew, TableOK
<1>2. more.bucket = table.bucket /\ more.n_buckets = table.n_buckets
      /\ DOMAIN more = {"bucket", "n_buckets", "n_buckets_used", "n_entries", "free"}
  BY <1>1 DEF Members
<1>3. CASE /\ b = <<>>
           /\ table' = [more EXCEPT !.bucket[i] = <<e>>, !.n_buckets_used = @ + 1]
           /\ Return(e.value)
  <2>1. With(b, e) = <<e>>
    BY <1>3 DEF With
  <2> HIDE DEF more, e
  <2>2. table'.n_buckets = table.n_buckets
        /\ table'.bucket = [table.bucket EXCEPT ![i] = <<e>>]
    BY <1>2, <1>3
  <2>3. QED
    BY <1>1, <1>3, <2>1, <2>2 DEF Return, e
<1>4. CASE /\ b # <<>> /\ Return(e.value)
           /\ \/ table' = [more EXCEPT !.bucket[i] = Chained(@, e), !.free = @ - 1]
              \/ table' = [more EXCEPT !.bucket[i] = Chained(@, e)]
  <2>1. With(b, e) = Chained(b, e)
    BY <1>4 DEF With
  <2> HIDE DEF more, e
  <2>2. table'.n_buckets = table.n_buckets
        /\ table'.bucket = [table.bucket EXCEPT ![i] = Chained(b, e)]
    BY <1>2, <1>4
  <2>3. QED
    BY <1>1, <1>4, <2>1, <2>2 DEF Return, e
<1>5. CASE Return(NULL) /\ UNCHANGED table
  BY <1>1, <1>5 DEF Return
<1>6. QED
  BY <1>3, <1>4, <1>5 DEF InsertNew

LEMMA InsertNewWalk ==
    ASSUME HashInv, WalkTracked, InsertNew
    PROVE  WalkTracked' /\ WalkGoes(walk, walk')
<1>1. /\ pc = "insert" /\ pc' = "ready" /\ walk' = walk /\ hasher' = hasher
      /\ Chains(table) /\ hasher \in Hashers /\ table.n_buckets >= 1
      /\ Pending /\ WalkTypeOK(walk)
  BY InsertPuts, PartsOfInv DEF TableOK, WalkTracked
<1>2. WalkTypeOK(walk)' /\ (Walking' <=> Walking)
  BY <1>1 DEF WalkTypeOK, Walking
<1>3. WalkGoes(walk, walk')
  BY <1>1, SeenOnce DEF WalkGoes
<1>4. WalkSound(table, walk)' <=> WalkSound(table', walk)
  BY <1>1 DEF WalkSound, WalkMisses, WalkAt, Contents
<1>5. ASSUME Walking, ~walk.moved
      PROVE  WalkSound(table', walk)
  <2>1. WalkSound(table, walk)
    BY <1>5 DEF WalkTracked
  <2>2. CASE table' = table
    BY <2>1, <2>2
  <2>3. CASE /\ table'.n_buckets = table.n_buckets
             /\ table'.bucket = [table.bucket EXCEPT ![new.bucket] =
                   With(table.bucket[new.bucket],
                        [key |-> new.key, value |-> new.value])]
    <3> DEFINE e == [key |-> new.key, value |-> new.value]
               d == new.bucket
    <3>1. e \in Entries /\ e.key = new.key
      BY <1>1 DEF Pending, Entries
    <3>2. e.key \in Keys /\ d = safe_hasher(table, e.key)
      BY <1>1, <3>1 DEF Pending, Entries
    <3>3. \A x \in Contents(table) : x.key # e.key
      BY <1>1, <3>1 DEF Pending, AllEntries
    <3>4. d \in 0 .. table.n_buckets - 1
      BY <1>1, <3>2, LookupIs
    <3>5. table'.bucket = [table.bucket EXCEPT ![d] = With(table.bucket[d], e)]
      BY <2>3
    <3> HIDE DEF e, d
    <3>6. Contents(table') = Contents(table) \cup {e}
      BY ONLY <1>1, <2>3, <3>1, <3>2, <3>3, <3>4, <3>5, PutIn
    <3>7. QED
      BY ONLY <1>1, <2>1, <2>3, <3>1, <3>3, <3>4, <3>5, <3>6, WalkStays
  <2>4. QED
    BY <2>2, <2>3, InsertPuts
<1>6. QED
  BY <1>1, <1>2, <1>3, <1>4, <1>5 DEF WalkTracked

\* A walk an insertion that grows the table has disturbed.
LEMMA Disturbed ==
    ASSUME WalkTypeOK(walk), Walking, walk' = [NoWalk EXCEPT !.at = walk.at, !.moved = TRUE]
    PROVE  WalkTracked' /\ WalkGoes(walk, walk')
<1>1. WalkTypeOK(NoWalk) /\ \A k \in Keys : NoWalk.seen[k] = 0
  BY NoWalkIs
<1>2. /\ walk'.at = walk.at /\ walk'.moved = TRUE /\ walk'.seen = NoWalk.seen
      /\ walk'.stay = NoWalk.stay /\ DOMAIN walk' = {"at", "stay", "seen", "moved"}
  BY <1>1 DEF WalkTypeOK
<1>3. WalkTypeOK(walk')
  BY <1>1, <1>2 DEF WalkTypeOK
<1>4. WalkTypeOK(walk)'
  BY <1>3 DEF WalkTypeOK
<1>5. WalkTracked'
  BY <1>2, <1>4 DEF WalkTracked
<1>6. QED
  BY <1>2, <1>3, <1>5, SeenOnce DEF WalkGoes, Walking

\* The walk is as it was.
LEMMA WalkRests ==
    ASSUME WalkTracked, UNCHANGED <<hasher, walk>>,
           Walking /\ ~walk.moved => table' = table /\ pc' \in {"ready", "insert"}
    PROVE  WalkTracked' /\ WalkGoes(walk, walk')
<1>1. WalkTypeOK(walk) /\ walk' = walk /\ hasher' = hasher
  BY DEF WalkTracked
<1>2. WalkTypeOK(walk)' /\ (Walking' <=> Walking)
  BY <1>1 DEF WalkTypeOK, Walking
<1>3. WalkGoes(walk, walk')
  BY <1>1, SeenOnce DEF WalkGoes
<1>4. table' = table => (WalkSound(table, walk)' <=> WalkSound(table, walk))
  BY <1>1, WalkPrimes
<1>5. QED
  BY <1>1, <1>2, <1>3, <1>4 DEF WalkTracked

\* kvhash_insert, until the bucket is found or a larger table is made.
LEMMA InsertWalk ==
    ASSUME HashInv, WalkTracked, NEW k \in Keys, NEW v \in Values, kvhash_insert(k, v)
    PROVE  WalkTracked' /\ WalkGoes(walk, walk')
<1>1. hasher' = hasher /\ table' = table /\ WalkTypeOK(walk)
  BY DEF kvhash_insert, WalkTracked
<1>2. CASE Return(hash_lookup(table, k)) /\ walk' = walk
  BY <1>1, <1>2, WalkRests DEF Return
<1>3. CASE Absent(k, v) /\ Walking /\ Growing
           /\ walk' = [NoWalk EXCEPT !.at = walk.at, !.moved = TRUE]
  BY <1>1, <1>3, Disturbed
<1>4. CASE Absent(k, v) /\ ~(Walking /\ Growing) /\ walk' = walk
  <2>1. Walking => pc' = "insert"
    BY <1>4 DEF Absent
  <2>2. QED
    BY <1>1, <1>4, <2>1, WalkRests
<1>5. QED
  BY <1>2, <1>3, <1>4 DEF kvhash_insert

LEMMA TrackedInit ==
    ASSUME Init
    PROVE  WalkTracked
  BY NoWalkIs DEF Init, WalkTracked, Walking

LEMMA TrackedStep ==
    ASSUME HashInv, WalkTracked, [Next]_vars
    PROVE  WalkTracked' /\ WalkGoes(walk, walk')
<1>1. ASSUME NEW k \in Keys, NEW v \in Values, kvhash_insert(k, v)
      PROVE  WalkTracked' /\ WalkGoes(walk, walk')
  BY <1>1, InsertWalk
<1>2. ASSUME NEW k \in Keys, kvhash_delete(k)
      PROVE  WalkTracked' /\ WalkGoes(walk, walk')
  <2>1. ~Walking /\ walk' = walk /\ hasher' = hasher
    BY <1>2 DEF kvhash_delete
  <2>2. QED
    BY <2>1, WalkRests
<1>3. CASE Transfer
  <2>1. pc \in {"transfer", "undo", "heads"} /\ walk' = walk /\ hasher' = hasher
    BY <1>3 DEF Transfer, MoveOverflow, MoveHead, PassBucket, NoMemory, Transferred,
                Moving
  <2>2. ~(Walking /\ ~walk.moved)
    BY <2>1 DEF WalkTracked
  <2>3. QED
    BY <2>1, <2>2, WalkRests
<1>4. CASE InsertNew
  BY <1>4, InsertNewWalk
<1>5. CASE hash_get_first
  BY <1>5, WalkBegins
<1>6. CASE hash_get_next
  BY <1>6, WalkContinues
<1>7. CASE UNCHANGED vars
  <2>1. walk' = walk /\ hasher' = hasher /\ table' = table /\ pc' = pc
    BY <1>7 DEF vars
  <2>2. QED
    BY <2>1, WalkRests DEF WalkTracked
<1>8. QED
  BY <1>1, <1>2, <1>3, <1>4, <1>5, <1>6, <1>7 DEF Next

\* A walk passes every entry that was there at its start once, and none
\* twice: what act_enable inserts beside its walk over the formats costs it
\* no format, unless the table grows.
THEOREM WalksPassAll == Spec => WalkPassesAll
<1> DEFINE I == HashInv /\ WalkTracked
<1>1. Init => I
  BY InitInv, TrackedInit
<1>2. I /\ [Next]_vars => I' /\ WalkGoes(walk, walk')
  BY HashStep, TrackedStep
<1>3. I /\ [Next]_vars => [WalkStep]_vars
  BY <1>2 DEF WalkGoes, WalkStep, Walking
<1> HIDE DEF I
<1>4. Spec => [][WalkStep]_vars
  BY <1>1, <1>2, <1>3, PTL DEF Spec
<1>5. QED
  BY <1>4 DEF WalkPassesAll
=============================================================================
