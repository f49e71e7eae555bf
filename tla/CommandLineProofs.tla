------------------------- MODULE CommandLineProofs -------------------------
(***************************************************************************)
(* Every command line means the same to getopt, argp and parse_opt, which  *)
(* move its arguments and take them in turns, as it does to a reader that  *)
(* goes through it once.  The invariant says where the reader stands when  *)
(* argp is at its next step; the lemmas before it say what exchange does   *)
(* to the arguments, what the reader has read after them, and what one     *)
(* call of getopt and one of parse_opt make of that.                       *)
(***************************************************************************)
EXTENDS MCInputs, DataProofs

\* Induction over the integers from a to n, for a set.
LEMMA Upwards ==
    ASSUME NEW a \in Int, NEW n \in Int, NEW T,
           a <= n => a \in T,
           \A k \in a .. n - 1 : k \in T => k + 1 \in T
    PROVE  a .. n \subseteq T
<1> DEFINE U == {k \in Nat : a + k <= n /\ a + k \notin T}
<1>1. U = {}
  <2>1. SUFFICES ASSUME U # {}
                 PROVE  FALSE
    OBVIOUS
  <2>2. U \subseteq Nat
    OBVIOUS
  <2> HIDE DEF U
  <2>3. PICK m \in U : \A k \in U : ~(k < m)
    BY <2>1, <2>2, Least, Zenon
  <2> USE DEF U
  <2>4. m \in Nat /\ a + m <= n /\ a + m \notin T
    BY <2>3
  <2>5. m # 0
    BY <2>4
  <2>6. m - 1 \in Nat /\ a + (m - 1) <= n /\ m - 1 < m
        /\ a + (m - 1) \in a .. n - 1 /\ (a + (m - 1)) + 1 = a + m
    BY <2>4, <2>5
  <2>7. a + (m - 1) \in T
    BY <2>3, <2>6
  <2>8. QED
    BY <2>4, <2>6, <2>7
<1>2. ASSUME NEW k \in a .. n
      PROVE  k \in T
  <2>1. k - a \in Nat /\ a + (k - a) = k /\ k <= n
    OBVIOUS
  <2>2. QED
    BY <1>1, <2>1
<1>3. QED
  BY <1>2

----------------------------------------------------------------------------
(***************************************************************************)
(* exchange turns the two parts of the arguments around.                   *)
(***************************************************************************)
Turned(s, bottom, middle, top) ==
    [k \in DOMAIN s |->
        IF k \notin bottom .. top - 1 THEN s[k]
        ELSE IF k < bottom + (top - middle) THEN s[k + (middle - bottom)]
        ELSE s[k - (top - middle)]]

\* A round leaves what has still to be turned such that the result is the same.
InLoop(x, s, bottom, middle, top) ==
    /\ x.bottom \in bottom .. middle /\ x.top \in middle .. top
    /\ x.s = [k \in DOMAIN s |-> x.s[k]]
    /\ Turned(x.s, x.bottom, middle, x.top) = Turned(s, bottom, middle, top)

Finished(x, middle) == x.top = middle \/ x.bottom = middle

\* Turning r from c to d comes to the same as turning s from b to t.
SameTurn(r, c, d, s, b, m, t) ==
    /\ r = [k \in DOMAIN s |-> r[k]]
    /\ Turned(r, c, m, d) = Turned(s, b, m, t)

\* A round with a short part at the bottom.
LEMMA RoundUp ==
    ASSUME NEW s, NEW b \in Int, NEW m \in Int, NEW t \in Int,
           b < m, m < t, b .. t - 1 \subseteq DOMAIN s, DOMAIN s \subseteq Int,
           t - m > m - b
    PROVE  LET u == t - (m - b)
           IN  SameTurn(SwapParts(s, b, u, m - b), b, u, s, b, m, t)
<1> DEFINE u == t - (m - b)
           r == SwapParts(s, b, u, m - b)
<1>1. DOMAIN r = DOMAIN s /\ r = [k \in DOMAIN s |-> r[k]]
  BY DEF SwapParts
<1>2. /\ u \in Int /\ m < u /\ u < t /\ u + (m - b) = t
      /\ b + (t - m) = u /\ b + (u - m) < u
  OBVIOUS
<1>3. /\ \A k \in b .. m - 1 : r[k] = s[k - b + u]
      /\ \A k \in u .. t - 1 : r[k] = s[k - u + b]
      /\ \A k \in DOMAIN s : k \notin b .. m - 1 /\ k \notin u .. t - 1 =>
            r[k] = s[k]
  BY <1>2 DEF SwapParts
<1> HIDE DEF r
<1>4. ASSUME NEW k \in DOMAIN s
      PROVE  Turned(r, b, m, u)[k] = Turned(s, b, m, t)[k]
  <2>1. CASE k \notin b .. t - 1
    BY <1>1, <1>2, <1>3, <2>1 DEF Turned
  <2>2. CASE k \in u .. t - 1
    <3>1. k \notin b .. u - 1 /\ k \in b .. t - 1 /\ ~(k < b + (t - m))
          /\ k - u + b = k - (t - m)
      BY <1>2, <2>2
    <3>2. QED
      BY <1>1, <1>3, <2>2, <3>1 DEF Turned
  <2>3. CASE k \in b .. b + (u - m) - 1
    <3>1. /\ k \in b .. u - 1 /\ k < b + (u - m)
          /\ k \in b .. t - 1 /\ k < b + (t - m)
          /\ k + (m - b) \in m .. u - 1 /\ k + (m - b) \in b .. t - 1
      BY <1>2, <2>3
    <3>2. r[k + (m - b)] = s[k + (m - b)]
      BY <1>2, <1>3, <3>1
    <3>3. QED
      BY <1>1, <3>1, <3>2 DEF Turned
  <2>4. CASE k \in b + (u - m) .. u - 1
    <3>1. /\ k \in b .. u - 1 /\ ~(k < b + (u - m))
          /\ k \in b .. t - 1 /\ k < b + (t - m)
          /\ k - (u - m) \in b .. m - 1
          /\ (k - (u - m)) - b + u = k + (m - b)
      BY <1>2, <2>4
    <3>2. r[k - (u - m)] = s[k + (m - b)]
      BY <1>3, <3>1
    <3>3. QED
      BY <1>1, <3>1, <3>2 DEF Turned
  <2>5. QED
    BY <1>2, <2>1, <2>2, <2>3, <2>4
<1>5. Turned(r, b, m, u) = Turned(s, b, m, t)
  BY <1>1, <1>4 DEF Turned
<1>6. QED
  BY <1>1, <1>5 DEF r, SameTurn

\* A round with a short part at the top.
LEMMA RoundDown ==
    ASSUME NEW s, NEW b \in Int, NEW m \in Int, NEW t \in Int,
           b < m, m < t, b .. t - 1 \subseteq DOMAIN s, DOMAIN s \subseteq Int,
           ~(t - m > m - b)
    PROVE  LET u == b + (t - m)
           IN  SameTurn(SwapParts(s, b, m, t - m), u, t, s, b, m, t)
<1> DEFINE u == b + (t - m)
           r == SwapParts(s, b, m, t - m)
<1>1. DOMAIN r = DOMAIN s /\ r = [k \in DOMAIN s |-> r[k]]
  BY DEF SwapParts
<1>2. /\ u \in Int /\ b < u /\ u <= m /\ m + (t - m) = t
  OBVIOUS
<1>3. /\ \A k \in b .. u - 1 : r[k] = s[k - b + m]
      /\ \A k \in m .. t - 1 : r[k] = s[k - m + b]
      /\ \A k \in DOMAIN s : k \notin b .. u - 1 /\ k \notin m .. t - 1 =>
            r[k] = s[k]
  BY <1>2 DEF SwapParts
<1> HIDE DEF r
<1>4. ASSUME NEW k \in DOMAIN s
      PROVE  Turned(r, u, m, t)[k] = Turned(s, b, m, t)[k]
  <2>1. CASE k \notin b .. t - 1
    BY <1>1, <1>2, <1>3, <2>1 DEF Turned
  <2>2. CASE k \in b .. u - 1
    <3>1. k \notin u .. t - 1 /\ k \in b .. t - 1 /\ k < b + (t - m)
          /\ k - b + m = k + (m - b)
      BY <1>2, <2>2
    <3>2. QED
      BY <1>1, <1>3, <2>2, <3>1 DEF Turned
  <2>3. CASE k \in u .. u + (t - m) - 1
    <3>1. /\ k \in u .. t - 1 /\ k < u + (t - m)
          /\ k \in b .. t - 1 /\ ~(k < b + (t - m))
          /\ k + (m - u) \in m .. t - 1
          /\ (k + (m - u)) - m + b = k - (t - m)
      BY <1>2, <2>3
    <3>2. r[k + (m - u)] = s[k - (t - m)]
      BY <1>3, <3>1
    <3>3. QED
      BY <1>1, <3>1, <3>2 DEF Turned
  <2>4. CASE k \in u + (t - m) .. t - 1
    <3>1. /\ k \in u .. t - 1 /\ ~(k < u + (t - m))
          /\ k \in b .. t - 1 /\ ~(k < b + (t - m))
          /\ k - (t - m) \in u .. m - 1 /\ k - (t - m) \in b .. t - 1
      BY <1>2, <2>4
    <3>2. r[k - (t - m)] = s[k - (t - m)]
      BY <1>2, <1>3, <3>1
    <3>3. QED
      BY <1>1, <3>1, <3>2 DEF Turned
  <2>5. QED
    BY <1>2, <2>1, <2>2, <2>3, <2>4
<1>5. Turned(r, u, m, t) = Turned(s, b, m, t)
  BY <1>1, <1>4 DEF Turned
<1>6. QED
  BY <1>1, <1>5 DEF r, SameTurn

\* What a round does.
LEMMA Round ==
    ASSUME NEW s, NEW b \in Int, NEW m \in Int, NEW t \in Int,
           b .. t - 1 \subseteq DOMAIN s, DOMAIN s \subseteq Int,
           NEW x, InLoop(x, s, b, m, t)
    PROVE  LET y == SwapShorter(x, m)
           IN  /\ InLoop(y, s, b, m, t)
               /\ Finished(x, m) => y = x
               /\ ~Finished(x, m) => y.top - y.bottom < x.top - x.bottom
<1> DEFINE y == SwapShorter(x, m)
<1>1. /\ x.bottom \in Int /\ x.top \in Int
      /\ b <= x.bottom /\ x.bottom <= m /\ m <= x.top /\ x.top <= t
      /\ DOMAIN x.s = DOMAIN s
      /\ Turned(x.s, x.bottom, m, x.top) = Turned(s, b, m, t)
  BY DEF InLoop
<1>2. CASE Finished(x, m)
  <2>1. y = x
    BY <1>1, <1>2 DEF Finished, SwapShorter
  <2>2. QED
    BY <1>2, <2>1
<1>3. ASSUME ~Finished(x, m), x.top - m > m - x.bottom
      PROVE  InLoop(y, s, b, m, t) /\ y.top - y.bottom < x.top - x.bottom
  <2>1. x.bottom < m /\ m < x.top
    BY <1>1, <1>3 DEF Finished
  <2> DEFINE u == x.top - (m - x.bottom)
  <2>2. y = [s |-> SwapParts(x.s, x.bottom, u, m - x.bottom),
             bottom |-> x.bottom, top |-> u]
    BY <1>3, <2>1 DEF SwapShorter
  <2>3. /\ y.s = SwapParts(x.s, x.bottom, u, m - x.bottom)
        /\ y.bottom = x.bottom /\ y.top = u
    BY <2>2
  <2>4. x.bottom .. x.top - 1 \subseteq DOMAIN x.s /\ DOMAIN x.s \subseteq Int
    BY <1>1
  <2>5. y.s = [k \in DOMAIN x.s |-> y.s[k]]
        /\ Turned(y.s, x.bottom, m, u) = Turned(x.s, x.bottom, m, x.top)
    <3>1. SameTurn(SwapParts(x.s, x.bottom, u, m - x.bottom), x.bottom, u,
                   x.s, x.bottom, m, x.top)
      BY <1>1, <1>3, <2>1, <2>4, RoundUp
    <3>2. SameTurn(y.s, x.bottom, u, x.s, x.bottom, m, x.top)
      BY ONLY <2>3, <3>1
    <3> HIDE DEF y, u
    <3>3. QED
      BY ONLY <3>2 DEF SameTurn
  <2>6. u \in m .. t /\ u < x.top
    BY <1>1, <1>3, <2>1
  <2>7. InLoop(y, s, b, m, t)
    <3>1. y.s = [k \in DOMAIN s |-> y.s[k]]
      BY ONLY <1>1, <2>5
    <3>2. Turned(y.s, y.bottom, m, y.top) = Turned(s, b, m, t)
      BY ONLY <1>1, <2>3, <2>5
    <3>3. y.bottom \in b .. m /\ y.top \in m .. t
      BY ONLY <1>1, <2>3, <2>6
    <3>4. QED
      BY ONLY <3>1, <3>2, <3>3 DEF InLoop
  <2>8. QED
    BY <1>1, <2>3, <2>6, <2>7
<1>4. ASSUME ~Finished(x, m), ~(x.top - m > m - x.bottom)
      PROVE  InLoop(y, s, b, m, t) /\ y.top - y.bottom < x.top - x.bottom
  <2>1. x.bottom < m /\ m < x.top
    BY <1>1, <1>4 DEF Finished
  <2> DEFINE u == x.bottom + (x.top - m)
  <2>2. y = [s |-> SwapParts(x.s, x.bottom, m, x.top - m),
             bottom |-> u, top |-> x.top]
    BY <1>4, <2>1 DEF SwapShorter
  <2>3. /\ y.s = SwapParts(x.s, x.bottom, m, x.top - m)
        /\ y.bottom = u /\ y.top = x.top
    BY <2>2
  <2>4. x.bottom .. x.top - 1 \subseteq DOMAIN x.s /\ DOMAIN x.s \subseteq Int
    BY <1>1
  <2>5. y.s = [k \in DOMAIN x.s |-> y.s[k]]
        /\ Turned(y.s, u, m, x.top) = Turned(x.s, x.bottom, m, x.top)
    <3>1. SameTurn(SwapParts(x.s, x.bottom, m, x.top - m), u, x.top,
                   x.s, x.bottom, m, x.top)
      BY <1>1, <1>4, <2>1, <2>4, RoundDown
    <3>2. SameTurn(y.s, u, x.top, x.s, x.bottom, m, x.top)
      BY ONLY <2>3, <3>1
    <3> HIDE DEF y, u
    <3>3. QED
      BY ONLY <3>2 DEF SameTurn
  <2>6. u \in b .. m /\ x.bottom < u
    BY <1>1, <1>4, <2>1
  <2>7. InLoop(y, s, b, m, t)
    <3>1. y.s = [k \in DOMAIN s |-> y.s[k]]
      BY ONLY <1>1, <2>5
    <3>2. Turned(y.s, y.bottom, m, y.top) = Turned(s, b, m, t)
      BY ONLY <1>1, <2>3, <2>5
    <3>3. y.bottom \in b .. m /\ y.top \in m .. t
      BY ONLY <1>1, <2>3, <2>6
    <3>4. QED
      BY ONLY <3>1, <3>2, <3>3 DEF InLoop
  <2>8. QED
    BY <1>1, <2>3, <2>6, <2>7
<1>5. QED
  BY <1>2, <1>3, <1>4

\* The rounds of the loop, from x on.
Rounds(f, x, middle, n) ==
    f = [i \in 0 .. n |-> IF i = 0 THEN x ELSE SwapShorter(f[i-1], middle)]

LEMMA RoundsExist ==
    ASSUME NEW x, NEW m, NEW n \in Nat
    PROVE  \E f : Rounds(f, x, m, n)
<1> DEFINE T == {k \in 0 .. n : \E f : Rounds(f, x, m, k)}
<1>1. 0 \in T
  <2> DEFINE f == [i \in 0 .. 0 |-> x]
  <2>1. f = [i \in 0 .. 0 |-> IF i = 0 THEN x ELSE SwapShorter(f[i-1], m)]
    OBVIOUS
  <2> HIDE DEF f
  <2>2. QED
    BY <2>1 DEF Rounds
<1>2. ASSUME NEW k \in 0 .. n - 1, k \in T
      PROVE  k + 1 \in T
  <2>1. PICK f : Rounds(f, x, m, k)
    BY <1>2
  <2> DEFINE g == [i \in 0 .. k + 1 |-> IF i = k + 1 THEN SwapShorter(f[k], m)
                                        ELSE f[i]]
  <2>2. /\ k \in 0 .. k /\ k + 1 \in 0 .. n /\ k + 1 \in 0 .. k + 1
        /\ k + 1 # 0 /\ (k + 1) - 1 = k
        /\ \A i \in 0 .. k + 1 : i # k + 1 => i \in 0 .. k
        /\ \A i \in 0 .. k : i \in 0 .. k + 1 /\ i # k + 1
        /\ \A i \in 0 .. k : i # 0 => i - 1 \in 0 .. k
    OBVIOUS
  <2>3. /\ \A i \in 0 .. k : g[i] = f[i]
        /\ g[k + 1] = SwapShorter(f[k], m)
    BY <2>2
  <2>4. \A i \in 0 .. k :
           f[i] = IF i = 0 THEN x ELSE SwapShorter(f[i-1], m)
    BY <2>1 DEF Rounds
  <2>5. DOMAIN g = 0 .. k + 1 /\ g = [i \in 0 .. k + 1 |-> g[i]]
    OBVIOUS
  <2> HIDE DEF g
  <2>6. ASSUME NEW i \in 0 .. k + 1
        PROVE  g[i] = IF i = 0 THEN x ELSE SwapShorter(g[i-1], m)
    <3>1. CASE i = k + 1
      BY <2>2, <2>3, <3>1
    <3>2. CASE i \in 0 .. k
      BY <2>2, <2>3, <2>4, <3>2
    <3>3. QED
      BY <2>2, <3>1, <3>2
  <2>7. Rounds(g, x, m, k + 1)
    BY <2>5, <2>6 DEF Rounds
  <2>8. QED
    BY <2>2, <2>7
<1> HIDE DEF T
<1>3. n \in T
  <2>1. 0 .. n \subseteq T
    BY <1>1, <1>2, Upwards
  <2>2. QED
    BY <2>1
<1>4. QED
  BY <1>3 DEF T

\* exchange turns the parts.
LEMMA SwapTurns ==
    ASSUME NEW s, NEW b \in Int, NEW m \in Int, NEW t \in Int,
           b <= m, m <= t,
           b .. t - 1 \subseteq DOMAIN s, DOMAIN s \subseteq Int,
           s = [k \in DOMAIN s |-> s[k]]
    PROVE  Swap(s, b, m, t) = Turned(s, b, m, t)
<1> DEFINE n == t - b
           x == [s |-> s, bottom |-> b, top |-> t]
           f == CHOOSE f : Rounds(f, x, m, n)
<1>1. n \in Nat
  OBVIOUS
<1>2. Rounds(f, x, m, n)
  BY <1>1, RoundsExist
<1>3. Swap(s, b, m, t) = f[n].s
  BY DEF Swap, Rounds
<1> HIDE DEF f
<1>4. \A i \in 0 .. n : f[i] = IF i = 0 THEN x ELSE SwapShorter(f[i-1], m)
  BY <1>2 DEF Rounds
<1> DEFINE T == {i \in 0 .. n :
                   /\ InLoop(f[i], s, b, m, t)
                   /\ Finished(f[i], m) \/ f[i].top - f[i].bottom <= n - i}
<1>5. 0 \in T
  <2>1. 0 \in 0 .. n /\ f[0] = x
    BY <1>1, <1>4
  <2>2. InLoop(x, s, b, m, t)
    BY DEF InLoop
  <2>3. x.top - x.bottom <= n - 0
    OBVIOUS
  <2>4. QED
    BY <2>1, <2>2, <2>3
<1>6. ASSUME NEW i \in 0 .. n - 1, i \in T
      PROVE  i + 1 \in T
  <2>1. i + 1 \in 0 .. n /\ i + 1 # 0 /\ (i + 1) - 1 = i
    BY <1>1
  <2>2. f[i + 1] = SwapShorter(f[i], m)
    BY <1>4, <2>1
  <2>3. InLoop(f[i], s, b, m, t)
        /\ (Finished(f[i], m) \/ f[i].top - f[i].bottom <= n - i)
    BY <1>6
  <2>4. /\ InLoop(f[i+1], s, b, m, t)
        /\ Finished(f[i], m) => f[i+1] = f[i]
        /\ ~Finished(f[i], m) =>
              f[i+1].top - f[i+1].bottom < f[i].top - f[i].bottom
    BY <2>2, <2>3, Round
  <2>5. /\ f[i].top \in Int /\ f[i].bottom \in Int
        /\ f[i+1].top \in Int /\ f[i+1].bottom \in Int
    BY <2>3, <2>4 DEF InLoop
  <2>6. Finished(f[i+1], m) \/ f[i+1].top - f[i+1].bottom <= n - (i + 1)
    <3>1. CASE Finished(f[i], m)
      BY <2>4, <3>1
    <3>2. CASE ~Finished(f[i], m)
      BY <1>1, <2>3, <2>4, <2>5, <3>2
    <3>3. QED
      BY <3>1, <3>2
  <2>7. QED
    BY <2>1, <2>4, <2>6
<1>7. n \in T
  <2> HIDE DEF T
  <2>1. 0 .. n \subseteq T
    BY <1>1, <1>5, <1>6, Upwards
  <2>2. QED
    BY <1>1, <2>1
<1>8. InLoop(f[n], s, b, m, t) /\ Finished(f[n], m)
  <2>1. /\ InLoop(f[n], s, b, m, t)
        /\ Finished(f[n], m) \/ f[n].top - f[n].bottom <= n - n
    BY <1>7
  <2>2. Finished(f[n], m)
    BY <2>1 DEF InLoop, Finished
  <2>3. QED
    BY <2>1, <2>2
<1> DEFINE r == f[n].s
           c == f[n].bottom
           d == f[n].top
<1>9. /\ c \in Int /\ d \in Int /\ c <= m /\ m <= d /\ (d = m \/ c = m)
      /\ DOMAIN r = DOMAIN s /\ Turned(r, c, m, d) = Turned(s, b, m, t)
  BY <1>8 DEF InLoop, Finished
<1>10. r = [k \in DOMAIN r |-> r[k]]
  BY <1>8, <1>9 DEF InLoop
<1> HIDE DEF r, c, d
<1>11. \A k \in DOMAIN r : Turned(r, c, m, d)[k] = r[k]
  BY <1>9 DEF Turned
<1>12. Turned(r, c, m, d) = r
  BY <1>10, <1>11 DEF Turned
<1>13. QED
  BY <1>3, <1>9, <1>12 DEF r

----------------------------------------------------------------------------
(***************************************************************************)
(* The reader.                                                             *)
(***************************************************************************)
Words == {given[i] : i \in DOMAIN given}

\* The arguments are a sequence.
GivenOK ==
    /\ given \in Seq(Words)
    /\ \A i \in DOMAIN given :
          /\ given[i].dashes \in 0..2
          /\ given[i].dashes = 1 => given[i].value = NULL

LEMMA GivenIs ==
    ASSUME GivenOK
    PROVE  /\ Len(given) \in Nat /\ DOMAIN given = 1 .. Len(given)
           /\ Argc = Len(given) + 1 /\ Argc \in Nat
           /\ \A i \in 1 .. Len(given) : given[i] \in Words
           /\ given = [i \in DOMAIN given |-> given[i]]
<1>1. Len(given) \in Nat /\ DOMAIN given = 1 .. Len(given)
      /\ given \in [1 .. Len(given) -> Words]
  BY LenProperties DEF GivenOK
<1>2. QED
  BY <1>1 DEF Argc, Words

Readings(f, n) ==
    f = [i \in 0 .. n |-> IF i = 0 THEN Reader ELSE Reads(f[i-1], given[i])]

LEMMA ReadingsExist ==
    ASSUME NEW n \in Nat
    PROVE  \E f : Readings(f, n)
<1> DEFINE T == {k \in 0 .. n : \E f : Readings(f, k)}
<1>1. 0 \in T
  <2> DEFINE f == [i \in 0 .. 0 |-> Reader]
  <2>1. f = [i \in 0 .. 0 |-> IF i = 0 THEN Reader ELSE Reads(f[i-1], given[i])]
    OBVIOUS
  <2> HIDE DEF f
  <2>2. QED
    BY <2>1 DEF Readings
<1>2. ASSUME NEW k \in 0 .. n - 1, k \in T
      PROVE  k + 1 \in T
  <2>1. PICK f : Readings(f, k)
    BY <1>2
  <2> DEFINE g == [i \in 0 .. k + 1 |-> IF i = k + 1 THEN Reads(f[k], given[k+1])
                                        ELSE f[i]]
  <2>2. /\ k \in 0 .. k /\ k + 1 \in 0 .. n /\ k + 1 \in 0 .. k + 1
        /\ k + 1 # 0 /\ (k + 1) - 1 = k
        /\ \A i \in 0 .. k + 1 : i # k + 1 => i \in 0 .. k
        /\ \A i \in 0 .. k : i \in 0 .. k + 1 /\ i # k + 1
        /\ \A i \in 0 .. k : i # 0 => i - 1 \in 0 .. k
    OBVIOUS
  <2>3. /\ \A i \in 0 .. k : g[i] = f[i]
        /\ g[k + 1] = Reads(f[k], given[k+1])
    BY <2>2
  <2>4. \A i \in 0 .. k :
           f[i] = IF i = 0 THEN Reader ELSE Reads(f[i-1], given[i])
    BY <2>1 DEF Readings
  <2>5. DOMAIN g = 0 .. k + 1 /\ g = [i \in 0 .. k + 1 |-> g[i]]
    OBVIOUS
  <2> HIDE DEF g
  <2>6. ASSUME NEW i \in 0 .. k + 1
        PROVE  g[i] = IF i = 0 THEN Reader ELSE Reads(g[i-1], given[i])
    <3>1. CASE i = k + 1
      BY <2>2, <2>3, <3>1
    <3>2. CASE i \in 0 .. k
      BY <2>2, <2>3, <2>4, <3>2
    <3>3. QED
      BY <2>2, <3>1, <3>2
  <2>7. Readings(g, k + 1)
    BY <2>5, <2>6 DEF Readings
  <2>8. QED
    BY <2>2, <2>7
<1> HIDE DEF T
<1>3. n \in T
  <2>1. 0 .. n \subseteq T
    BY <1>1, <1>2, Upwards
  <2>2. QED
    BY <2>1
<1>4. QED
  BY <1>3 DEF T

\* The reader takes one argument after the other.
LEMMA ReadOn ==
    ASSUME GivenOK
    PROVE  /\ ReadTo(0) = Reader
           /\ \A n \in 1 .. Len(given) :
                 ReadTo(n) = Reads(ReadTo(n - 1), given[n])
<1> DEFINE f == CHOOSE f : Readings(f, Len(given))
<1>1. Len(given) \in Nat
  BY GivenIs
<1>2. Readings(f, Len(given))
  BY <1>1, ReadingsExist
<1>3. \A n : ReadTo(n) = f[n]
  BY DEF ReadTo, Readings
<1> HIDE DEF f
<1>4. \A i \in 0 .. Len(given) :
         f[i] = IF i = 0 THEN Reader ELSE Reads(f[i-1], given[i])
  BY <1>2 DEF Readings
<1>5. /\ 0 \in 0 .. Len(given)
      /\ \A n \in 1 .. Len(given) : n \in 0 .. Len(given) /\ n # 0
  BY <1>1
<1>6. QED
  BY <1>3, <1>4, <1>5

\* The reader with nothing wanted but what "want" says, before it ends.
Reading(want, s, loose, plain) ==
    [want |-> want, set |-> s, loose |-> loose, plain |-> plain, exit |-> "none"]

\* The arguments passed over are those from first up to upto.
Loose(loose, argv, first, upto) ==
    /\ loose \in Seq(Words) /\ Len(loose) = upto - first
    /\ \A k \in 1 .. upto - first : loose[k] = argv[first + k - 1]

\* Once the end is clear, the rest of the line does not change it.
LEMMA ReadsNoMore ==
    ASSUME GivenOK, NEW n \in 0 .. Len(given), ReadTo(n).exit # "none"
    PROVE  Read = ReadTo(n)
<1> DEFINE T == {k \in n .. Len(given) : ReadTo(k) = ReadTo(n)}
<1>1. Len(given) \in Nat /\ Len(given) \in Int /\ n \in Int /\ n <= Len(given)
  BY GivenIs
<1>2. n \in T
  BY <1>1
<1>3. ASSUME NEW k \in n .. Len(given) - 1, k \in T
      PROVE  k + 1 \in T
  <2>1. k + 1 \in n .. Len(given) /\ k + 1 \in 1 .. Len(given) /\ (k + 1) - 1 = k
    BY <1>1
  <2>2. ReadTo(k + 1) = Reads(ReadTo(k), given[k+1])
    BY <2>1, ReadOn
  <2>3. ReadTo(k + 1) = ReadTo(n)
    BY <1>3, <2>2 DEF Reads
  <2>4. QED
    BY <2>1, <2>3
<1>4. Len(given) \in T
  <2> HIDE DEF T
  <2>1. n .. Len(given) \subseteq T
    BY <1>1, <1>2, <1>3, Upwards
  <2>2. QED
    BY <1>1, <2>1
<1>5. QED
  BY <1>4 DEF Read

LEMMA LooseMore ==
    ASSUME NEW argv, NEW first \in Int, NEW k \in Int, first <= k,
           argv[k] \in Words, NEW m, Loose(m, argv, first, k)
    PROVE  Loose(Append(m, argv[k]), argv, first, k + 1)
<1> DEFINE w == argv[k]
           m2 == Append(m, w)
<1>1. m \in Seq(Words) /\ Len(m) = k - first
      /\ \A i \in 1 .. k - first : m[i] = argv[first + i - 1]
  BY DEF Loose
<1>2. /\ m2 \in Seq(Words) /\ Len(m2) = Len(m) + 1
      /\ \A i \in 1 .. Len(m) : m2[i] = m[i]
      /\ m2[Len(m) + 1] = w
  BY <1>1, AppendProperties
<1> HIDE DEF m2
<1>3. Len(m2) = (k + 1) - first
  BY <1>1, <1>2
<1>4. ASSUME NEW i \in 1 .. (k + 1) - first
      PROVE  m2[i] = argv[first + i - 1]
  <2>1. CASE i = k - first + 1
    <3>1. first + i - 1 = k
      BY <2>1
    <3>2. QED
      BY <1>1, <1>2, <2>1, <3>1
  <2>2. CASE i # k - first + 1
    <3>1. i \in 1 .. k - first
      BY <2>2
    <3>2. QED
      BY <1>1, <1>2, <3>1
  <2>3. QED
    BY <2>1, <2>2
<1>5. Loose(m2, argv, first, k + 1)
  BY <1>2, <1>3, <1>4 DEF Loose
<1>6. QED
  BY <1>5 DEF m2

\* Arguments that are passed over: those that are no options, and all of them
\* after "--".
Passed(n, stop, argv, first, plain) ==
    /\ n \in 1 .. Argc /\ stop \in n .. Argc /\ first \in 1 .. n
    /\ plain \in BOOLEAN
    /\ plain \/ (~posix /\ program # "run-detectors")
    /\ \A k \in n .. stop - 1 :
          argv[k] = given[k] /\ (plain \/ ~IsOption(given[k]))

ReadUpTo(n, argv, first, s, plain) ==
    \E m : /\ Loose(m, argv, first, n)
           /\ ReadTo(n - 1) = Reading(<<>>, s, m, plain)

LEMMA PassOver ==
    ASSUME GivenOK, posix \in BOOLEAN,
           NEW n, NEW stop, NEW argv, NEW first, NEW s, NEW plain,
           Passed(n, stop, argv, first, plain),
           ReadUpTo(n, argv, first, s, plain)
    PROVE  ReadUpTo(stop, argv, first, s, plain)
<1> DEFINE P(k) == ReadUpTo(k, argv, first, s, plain)
           T == {k \in n .. stop : P(k)}
<1>1. /\ Len(given) \in Nat /\ Argc = Len(given) + 1
      /\ n \in Int /\ stop \in Int /\ n <= stop /\ stop <= Argc /\ 1 <= n
      /\ first \in Int /\ first <= n
      /\ plain \in BOOLEAN /\ (plain \/ (~posix /\ program # "run-detectors"))
  BY GivenIs DEF Passed
<1>2. n \in T
  BY <1>1
<1>3. ASSUME NEW k \in n .. stop - 1, k \in T
      PROVE  k + 1 \in T
  <2>1. /\ k \in Int /\ k + 1 \in n .. stop /\ k \in 1 .. Len(given)
        /\ (k + 1) - 1 = k /\ first <= k
    BY <1>1
  <2>2. PICK m : Loose(m, argv, first, k)
                 /\ ReadTo(k - 1) = Reading(<<>>, s, m, plain)
    BY <1>3 DEF ReadUpTo
  <2> DEFINE w == given[k]
             m2 == Append(m, w)
  <2>3. w \in Words /\ argv[k] = w /\ (plain \/ ~IsOption(w))
    BY <2>1, GivenIs DEF Passed
  <2>4. ReadTo(k) = Reading(<<>>, s, m2, plain)
    <3>1. ReadTo(k) = Reads(Reading(<<>>, s, m, plain), w)
      BY <2>1, <2>2, ReadOn
    <3> HIDE DEF w
    <3>2. QED
      BY <1>1, <2>3, <3>1 DEF Reads, Reading
  <2>5. Loose(m2, argv, first, k + 1)
    BY <1>1, <2>1, <2>2, <2>3, LooseMore
  <2>6. P(k + 1)
    BY <2>1, <2>4, <2>5 DEF ReadUpTo
  <2> HIDE DEF P
  <2>7. QED
    BY <2>1, <2>6
<1>4. stop \in T
  <2> HIDE DEF T
  <2>1. n .. stop \subseteq T
    BY <1>1, <1>2, <1>3, Upwards
  <2>2. QED
    BY <1>1, <2>1
<1>5. QED
  BY <1>4

----------------------------------------------------------------------------
(***************************************************************************)
(* getopt between two options.  What is not read is as it was given, and   *)
(* the arguments that were passed over lie from first up to last.          *)
(***************************************************************************)
Data(argv, optind, first, last) ==
    [argv |-> argv, optind |-> optind, first |-> first, last |-> last]

Held(argv, first, last, n) ==
    /\ argv = [i \in DOMAIN given |-> argv[i]]
    /\ n \in 1 .. Argc /\ last \in 1 .. n /\ first \in 1 .. last
    /\ \A i \in n .. Len(given) : argv[i] = given[i]
    /\ Ordering # "PERMUTE" => first = last

Between(argv, first, last, n, s, want) ==
    /\ Held(argv, first, last, n)
    /\ \E l : /\ Loose(l, argv, first, last)
              /\ ReadTo(n - 1) = Reading(want, s, l, FALSE)
    /\ want = <<>> \/ (want = <<"name?">> /\ n = Argc)

\* The members of the data, and what an assignment to one of them makes of it.
LEMMA DataIs ==
    ASSUME NEW argv, NEW n, NEW f, NEW l
    PROVE  LET d == Data(argv, n, f, l)
           IN  /\ d.argv = argv /\ d.optind = n /\ d.first = f /\ d.last = l
               /\ \A x : [d EXCEPT !.argv = x] = Data(x, n, f, l)
               /\ \A x : [d EXCEPT !.optind = x] = Data(argv, x, f, l)
               /\ \A x : [d EXCEPT !.first = x] = Data(argv, n, x, l)
               /\ \A x : [d EXCEPT !.last = x] = Data(argv, n, f, x)
BY SMT DEF Data

LEMMA HeldIs ==
    ASSUME GivenOK, NEW argv, NEW f, NEW l, NEW n, Held(argv, f, l, n)
    PROVE  /\ f \in Int /\ l \in Int /\ n \in Int /\ Argc \in Int
           /\ Len(given) \in Int /\ Argc = Len(given) + 1
           /\ 1 <= f /\ f <= l /\ l <= n /\ n <= Argc
           /\ DOMAIN argv = 1 .. Len(given) /\ DOMAIN given = 1 .. Len(given)
BY GivenIs DEF Held

\* After exchange the arguments that were passed over come last.
LEMMA Exchanged ==
    ASSUME GivenOK, NEW argv, NEW f, NEW l, NEW n, Held(argv, f, l, n),
           f # l, l # n
    PROVE  \E a, g :
              /\ exchange(Data(argv, n, f, l)) = Data(a, n, g, n)
              /\ Held(a, g, n, n)
              /\ \A m : Loose(m, argv, f, l) => Loose(m, a, g, n)
<1> DEFINE a == Turned(argv, f, l, n)
           g == f + (n - l)
<1>1. /\ f \in Int /\ l \in Int /\ n \in Int /\ Argc \in Int
      /\ Len(given) \in Int /\ Argc = Len(given) + 1
      /\ 1 <= f /\ f < l /\ l < n /\ n <= Argc
      /\ DOMAIN argv = 1 .. Len(given) /\ DOMAIN given = 1 .. Len(given)
  BY HeldIs
<1>2. argv = [i \in DOMAIN argv |-> argv[i]]
  BY <1>1 DEF Held
<1>3. f .. n - 1 \subseteq DOMAIN argv /\ DOMAIN argv \subseteq Int
      /\ f <= l /\ l <= n
  BY <1>1
<1>4. Swap(argv, f, l, n) = a
  BY <1>1, <1>2, <1>3, SwapTurns
<1> HIDE DEF a
<1>5. exchange(Data(argv, n, f, l)) = Data(a, n, g, n)
  <2> DEFINE d == Data(argv, n, f, l)
  <2>1. d.argv = argv /\ d.optind = n /\ d.first = f /\ d.last = l
    BY DataIs
  <2> HIDE DEF d
  <2>2. exchange(d) = [d EXCEPT !.argv = a, !.first = g, !.last = n]
    BY <1>4, <2>1 DEF exchange
  <2>3. /\ [d EXCEPT !.argv = a] = Data(a, n, f, l)
        /\ [Data(a, n, f, l) EXCEPT !.first = g] = Data(a, n, g, l)
        /\ [Data(a, n, g, l) EXCEPT !.last = n] = Data(a, n, g, n)
    BY DataIs DEF d
  <2>4. [d EXCEPT !.argv = a, !.first = g, !.last = n] = Data(a, n, g, n)
    BY <2>3, Zenon
  <2>5. QED
    BY <2>2, <2>4 DEF d
<1>6. DOMAIN a = DOMAIN given /\ a = [i \in DOMAIN given |-> a[i]]
  BY <1>1 DEF a, Turned
<1>7. \A i \in n .. Len(given) : a[i] = argv[i]
  BY <1>1 DEF a, Turned
<1>8. Held(a, g, n, n)
  <2>1. g \in 1 .. n /\ n \in 1 .. n /\ n \in 1 .. Argc
    BY <1>1
  <2>2. Ordering = "PERMUTE" /\ \A i \in n .. Len(given) : argv[i] = given[i]
    BY <1>1 DEF Held
  <2>3. QED
    BY <1>6, <1>7, <2>1, <2>2 DEF Held
<1>9. ASSUME NEW m, Loose(m, argv, f, l)
      PROVE  Loose(m, a, g, n)
  <2>1. m \in Seq(Words) /\ Len(m) = l - f
        /\ \A k \in 1 .. l - f : m[k] = argv[f + k - 1]
    BY <1>9 DEF Loose
  <2>2. n - g = l - f
    BY <1>1
  <2>3. ASSUME NEW k \in 1 .. l - f
        PROVE  a[g + k - 1] = argv[f + k - 1]
    <3>1. /\ g + k - 1 \in DOMAIN argv /\ g + k - 1 \in f .. n - 1
          /\ ~(g + k - 1 < f + (n - l))
          /\ (g + k - 1) - (n - l) = f + k - 1
      BY <1>1
    <3>2. QED
      BY <3>1 DEF a, Turned
  <2>4. QED
    BY <2>1, <2>2, <2>3 DEF Loose
<1>10. QED
  BY <1>5, <1>8, <1>9

\* The first part of PERMUTE: nothing lies between the arguments that were
\* passed over and the next one.
Gathered(d) ==
    IF d.first # d.last /\ d.last # d.optind THEN exchange(d)
    ELSE IF d.last # d.optind THEN [d EXCEPT !.first = d.optind]
    ELSE d

LEMMA Gathers ==
    ASSUME GivenOK, NEW argv, NEW f, NEW l, NEW n, NEW s, NEW want,
           Between(argv, f, l, n, s, want)
    PROVE  \E a, g, k : /\ Gathered(Data(argv, n, f, l)) = Data(a, n, g, k)
                        /\ Between(a, g, n, n, s, want)
<1> DEFINE d == Data(argv, n, f, l)
           moved == Gathered(d)
<1>1. d.argv = argv /\ d.first = f /\ d.last = l /\ d.optind = n
  BY DEF Data
<1>2. PICK m : Loose(m, argv, f, l) /\ ReadTo(n - 1) = Reading(want, s, m, FALSE)
  BY DEF Between
<1>3. Held(argv, f, l, n) /\ (want = <<>> \/ (want = <<"name?">> /\ n = Argc))
  BY DEF Between
<1>4. CASE f # l /\ l # n
  <2>1. PICK a, g : /\ exchange(d) = Data(a, n, g, n)
                    /\ Held(a, g, n, n)
                    /\ \A o : Loose(o, argv, f, l) => Loose(o, a, g, n)
    BY <1>3, <1>4, Exchanged
  <2>2. moved = Data(a, n, g, n)
    BY <1>1, <1>4, <2>1 DEF Gathered
  <2>3. Between(a, g, n, n, s, want)
    BY <1>2, <1>3, <2>1 DEF Between
  <2>4. QED
    BY <2>2, <2>3
<1>5. CASE f = l /\ l # n
  <2>1. moved = Data(argv, n, n, l)
    BY <1>1, <1>5 DEF Data, Gathered
  <2>2. Held(argv, n, n, n)
    BY <1>3, HeldIs DEF Held
  <2>3. Loose(m, argv, n, n)
    BY <1>2, <1>3, <1>5, HeldIs DEF Loose
  <2>4. Between(argv, n, n, n, s, want)
    BY <1>2, <1>3, <2>2, <2>3 DEF Between
  <2>5. QED
    BY <2>1, <2>4
<1>6. CASE l = n
  <2>1. moved = Data(argv, n, f, l)
    BY <1>1, <1>6 DEF Gathered
  <2>2. QED
    BY <1>6, <2>1
<1>7. QED
  BY <1>4, <1>5, <1>6

\* PERMUTE goes to the next option, or to the end.
LEMMA Permutes ==
    ASSUME GivenOK, posix \in BOOLEAN, Ordering = "PERMUTE",
           NEW argv, NEW f, NEW l, NEW n, NEW s, NEW want,
           Between(argv, f, l, n, s, want)
    PROVE  \E a, g, k, v : /\ Permute(Data(argv, n, f, l)) = Data(a, k, g, k)
                           /\ Between(a, g, k, k, s, v)
                           /\ k = Argc \/ IsOption(a[k])
<1>1. PICK a, g, h : /\ Gathered(Data(argv, n, f, l)) = Data(a, n, g, h)
                     /\ Between(a, g, n, n, s, want)
  BY Gathers
<1> DEFINE Stops(i) == /\ i = Argc \/ IsOption(a[i])
                       /\ \A j \in n .. i - 1 : ~IsOption(a[j])
           k == CHOOSE i \in n .. Argc : Stops(i)
<1>2. /\ n \in Int /\ g \in Int /\ Argc \in Int /\ 1 <= g /\ g <= n
      /\ n <= Argc /\ 1 <= n /\ Argc = Len(given) + 1
      /\ Held(a, g, n, n)
  BY <1>1, HeldIs DEF Between
<1>3. PICK m : Loose(m, a, g, n) /\ ReadTo(n - 1) = Reading(want, s, m, FALSE)
  BY <1>1 DEF Between
<1>4. \E i \in n .. Argc : Stops(i)
  <2> DEFINE T == {i \in Nat : i \in n .. Argc /\ (i = Argc \/ IsOption(a[i]))}
  <2>1. T \subseteq Nat /\ T # {}
    BY <1>2
  <2> HIDE DEF T
  <2>2. PICK i \in T : \A j \in T : ~(j < i)
    BY <2>1, Least, Zenon
  <2> USE DEF T
  <2>3. i \in n .. Argc /\ (i = Argc \/ IsOption(a[i]))
    BY <2>2
  <2>4. ASSUME NEW j \in n .. i - 1
        PROVE  ~IsOption(a[j])
    <3>1. j \in Nat /\ j \in n .. Argc /\ j < i
      BY <1>2, <2>3
    <3>2. QED
      BY <2>2, <3>1
  <2>5. QED
    BY <2>3, <2>4
<1>5. k \in n .. Argc /\ Stops(k)
  BY <1>4
<1>6. Permute(Data(argv, n, f, l))
         = [Data(a, n, g, h) EXCEPT !.optind = k, !.last = k]
  <2> DEFINE d == Data(argv, n, f, l)
             e == Data(a, n, g, h)
  <2>1. d.optind = n /\ e.argv = a
    BY DataIs
  <2> HIDE DEF d, e
  <2>2. Gathered(d) = e
    BY <1>1 DEF d, e
  <2>3. Permute(d) =
          LET moved == Gathered(d)
              stop  == CHOOSE i \in d.optind .. Argc :
                          /\ i = Argc \/ IsOption(moved.argv[i])
                          /\ \A j \in d.optind .. i - 1 : ~IsOption(moved.argv[j])
          IN  [moved EXCEPT !.optind = stop, !.last = stop]
    BY DEF Permute, Gathered
  <2>4. QED
    BY <2>1, <2>2, <2>3 DEF d, e
<1> HIDE DEF k
<1>7. Permute(Data(argv, n, f, l)) = Data(a, k, g, k)
  <2>1. /\ [Data(a, n, g, h) EXCEPT !.optind = k] = Data(a, k, g, h)
        /\ [Data(a, k, g, h) EXCEPT !.last = k] = Data(a, k, g, k)
    BY DataIs
  <2>2. QED
    BY <1>6, <2>1, Zenon
<1>8. Held(a, g, k, k)
  <2>1. /\ a = [i \in DOMAIN given |-> a[i]]
        /\ \A i \in n .. Len(given) : a[i] = given[i]
    BY <1>2 DEF Held
  <2>2. k \in 1 .. Argc /\ k \in 1 .. k /\ g \in 1 .. k
        /\ \A i \in k .. Len(given) : i \in n .. Len(given)
    BY <1>2, <1>5
  <2>3. QED
    BY <2>1, <2>2 DEF Held
<1>9. CASE want = <<>>
  <2>1. \A i \in n .. k - 1 : a[i] = given[i] /\ ~IsOption(given[i])
    <3>1. \A i \in n .. k - 1 : i \in n .. Len(given)
      BY <1>2, <1>5
    <3>2. QED
      BY <1>2, <1>5, <3>1 DEF Held
  <2>2. ~posix /\ program # "run-detectors"
    BY DEF Ordering
  <2>3. PICK o : Loose(o, a, g, k) /\ ReadTo(k - 1) = Reading(<<>>, s, o, FALSE)
    <3>1. Passed(n, k, a, g, FALSE)
      BY <1>2, <1>5, <2>1, <2>2 DEF Passed
    <3>2. ReadUpTo(n, a, g, s, FALSE)
      BY <1>3, <1>9 DEF ReadUpTo
    <3>3. QED
      <4>1. ReadUpTo(k, a, g, s, FALSE)
        BY <3>1, <3>2, PassOver, Zenon
      <4>2. QED
        BY <4>1 DEF ReadUpTo
  <2>4. Between(a, g, k, k, s, <<>>)
    BY <1>8, <2>3 DEF Between
  <2>5. QED
    BY <1>5, <1>7, <2>4
<1>10. CASE want # <<>>
  <2>1. n = Argc /\ k = n
    BY <1>1, <1>2, <1>5, <1>10 DEF Between
  <2>2. QED
    BY <1>1, <1>5, <1>7, <2>1
<1>11. QED
  BY <1>9, <1>10

\* The end of the line: the arguments from first on were passed over.
Over(argv, first, s, want, plain) ==
    /\ first \in 1 .. Argc /\ DOMAIN argv = DOMAIN given
    /\ \E m : Loose(m, argv, first, Argc) /\ Read = Reading(want, s, m, plain)
    /\ want \in {<<>>, <<"name?">>}

\* "--" makes all the rest arguments that are passed over.
Joined(d) ==
    IF d.first # d.last /\ d.last # d.optind THEN exchange(d)
    ELSE IF d.first = d.last THEN [d EXCEPT !.first = d.optind]
    ELSE d

LEMMA QuoteIsOption == IsOption(Quote)
BY DEF IsOption, Quote

LEMMA SkipQuoteIs ==
    ASSUME NEW d, d.optind # Argc, d.argv[d.optind] = Quote
    PROVE  SkipQuote(d) =
              [Joined([d EXCEPT !.optind = @ + 1])
                 EXCEPT !.last = Argc, !.optind = Argc]
BY DEF SkipQuote, Joined

QuoteEnds(d, s) ==
    \E a, g : /\ SkipQuote(d) = Data(a, Argc, g, Argc)
              /\ Over(a, g, s, <<>>, TRUE)

LEMMA Quoted ==
    ASSUME GivenOK, posix \in BOOLEAN, NEW argv, NEW f, NEW l, NEW n, NEW s,
           Between(argv, f, l, n, s, <<>>), n # Argc, argv[n] = Quote
    PROVE  QuoteEnds(Data(argv, n, f, l), s)
<1> DEFINE over == Data(argv, n + 1, f, l)
           moved == Joined(over)
<1> HIDE DEF over, moved
<1>1. /\ f \in Int /\ l \in Int /\ n \in Int /\ Argc \in Int
      /\ Len(given) \in Int /\ Argc = Len(given) + 1
      /\ 1 <= f /\ f <= l /\ l <= n /\ n < Argc
      /\ DOMAIN argv = 1 .. Len(given) /\ DOMAIN given = 1 .. Len(given)
      /\ Held(argv, f, l, n)
  BY HeldIs DEF Between
<1>2. PICK m : Loose(m, argv, f, l) /\ ReadTo(n - 1) = Reading(<<>>, s, m, FALSE)
  BY DEF Between
<1>3. ReadTo(n) = Reading(<<>>, s, m, TRUE)
  <2>1. n \in 1 .. Len(given) /\ given[n] = Quote
    <3>1. n \in 1 .. Len(given) /\ n \in n .. Len(given)
      BY <1>1
    <3>2. argv[n] = given[n]
      BY <1>1, <3>1 DEF Held
    <3>3. QED
      BY <3>1, <3>2
  <2>2. ReadTo(n) = Reads(Reading(<<>>, s, m, FALSE), Quote)
    BY <1>2, <2>1, ReadOn
  <2>3. QED
    BY <2>2, QuoteIsOption DEF Reads, Reading
<1>4. SkipQuote(Data(argv, n, f, l)) = [moved EXCEPT !.last = Argc, !.optind = Argc]
  <2> DEFINE d == Data(argv, n, f, l)
  <2>1. d.optind = n /\ d.argv = argv /\ [d EXCEPT !.optind = n + 1] = over
    BY DataIs DEF over
  <2> HIDE DEF d
  <2>2. [d EXCEPT !.optind = @ + 1] = over
    BY <2>1
  <2>3. SkipQuote(d) = [moved EXCEPT !.last = Argc, !.optind = Argc]
    BY <2>1, <2>2, SkipQuoteIs DEF moved
  <2>4. QED
    BY <2>3 DEF d
<1>5. Held(argv, f, l, n + 1)
  <2>1. n + 1 \in 1 .. Argc /\ l \in 1 .. n + 1
        /\ \A i \in n + 1 .. Len(given) : i \in n .. Len(given)
    BY <1>1
  <2>2. QED
    BY <1>1, <2>1 DEF Held
<1>6. \E a, g, h : /\ moved = Data(a, n + 1, g, h)
                   /\ Held(a, g, n + 1, n + 1) /\ Loose(m, a, g, n + 1)
  <2>1. over.first = f /\ over.last = l /\ over.optind = n + 1
    BY DataIs DEF over
  <2>2. l # n + 1
    BY <1>1
  <2>3. CASE f # l
    <3>1. moved = exchange(over)
      BY <2>1, <2>2, <2>3 DEF moved, Joined
    <3>2. QED
      BY <1>2, <1>5, <2>2, <2>3, <3>1, Exchanged DEF over
  <2>4. CASE f = l
    <3>1. moved = Data(argv, n + 1, n + 1, l)
      <4>1. [over EXCEPT !.first = n + 1] = Data(argv, n + 1, n + 1, l)
        BY DataIs DEF over
      <4>2. QED
        BY <2>1, <2>4, <4>1 DEF moved, Joined
    <3>2. Held(argv, n + 1, n + 1, n + 1)
      <4>1. n + 1 \in 1 .. n + 1
        BY <1>1
      <4>2. QED
        BY ONLY <1>5, <4>1 DEF Held
    <3>3. Loose(m, argv, n + 1, n + 1)
      BY <1>1, <1>2, <2>4 DEF Loose
    <3>4. QED
      BY <3>1, <3>2, <3>3
  <2>5. QED
    BY <2>3, <2>4
<1>7. PICK a, g, h : /\ moved = Data(a, n + 1, g, h)
                     /\ Held(a, g, n + 1, n + 1) /\ Loose(m, a, g, n + 1)
  BY <1>6
<1>8. SkipQuote(Data(argv, n, f, l)) = Data(a, Argc, g, Argc)
  <2>1. /\ [Data(a, n + 1, g, h) EXCEPT !.last = Argc] = Data(a, n + 1, g, Argc)
        /\ [Data(a, n + 1, g, Argc) EXCEPT !.optind = Argc]
              = Data(a, Argc, g, Argc)
    BY DataIs
  <2>2. QED
    BY <1>4, <1>7, <2>1, Zenon
<1>9. PICK o : Loose(o, a, g, Argc) /\ ReadTo(Argc - 1) = Reading(<<>>, s, o, TRUE)
  <2>1. n + 1 \in 1 .. Argc /\ Argc \in n + 1 .. Argc /\ (n + 1) - 1 = n
    BY <1>1
  <2>2. g \in 1 .. n + 1
        /\ \A k \in n + 1 .. Len(given) : a[k] = given[k]
    BY ONLY <1>7 DEF Held
  <2>3. Passed(n + 1, Argc, a, g, TRUE)
    BY <1>1, <2>1, <2>2 DEF Passed
  <2>4. ReadUpTo(n + 1, a, g, s, TRUE)
    BY <1>3, <1>7, <2>1 DEF ReadUpTo
  <2>5. QED
    <3>1. ReadUpTo(Argc, a, g, s, TRUE)
      BY <2>3, <2>4, PassOver, Zenon
    <3>2. QED
      BY <3>1 DEF ReadUpTo
<1>10. Over(a, g, s, <<>>, TRUE)
  <2>1. g \in 1 .. Argc /\ DOMAIN a = DOMAIN given /\ Argc - 1 = Len(given)
    BY <1>1, <1>7, HeldIs DEF Held
  <2>2. QED
    BY <1>9, <2>1 DEF Over, Read
<1>11. QED
  BY <1>8, <1>10 DEF QuoteEnds

\* Where options and arguments are not exchanged, the first argument that is no
\* option ends the options.
LEMMA OneTooMany ==
    ASSUME GivenOK, posix \in BOOLEAN, NEW argv, NEW f, NEW l, NEW n, NEW s,
           Between(argv, f, l, n, s, <<>>), n # Argc, ~IsOption(argv[n]),
           Ordering # "PERMUTE"
    PROVE  Over(argv, n, s, <<>>, TRUE)
<1>1. /\ n \in Int /\ Argc \in Int /\ Len(given) \in Int
      /\ Argc = Len(given) + 1 /\ 1 <= n /\ n < Argc /\ f = l /\ f \in Int
      /\ DOMAIN argv = DOMAIN given
      /\ Held(argv, f, l, n)
  <2>1. Held(argv, f, l, n)
    BY DEF Between
  <2>2. f = l
    BY <2>1 DEF Held
  <2>3. QED
    BY <2>1, <2>2, HeldIs
<1>2. PICK m : Loose(m, argv, f, l) /\ ReadTo(n - 1) = Reading(<<>>, s, m, FALSE)
  BY DEF Between
<1>3. Loose(m, argv, n, n)
  BY <1>1, <1>2 DEF Loose
<1>4. /\ n \in 1 .. Len(given) /\ argv[n] = given[n] /\ given[n] \in Words
      /\ \A i \in n + 1 .. Len(given) : argv[i] = given[i]
  <2>1. n \in 1 .. Len(given) /\ n \in n .. Len(given)
        /\ \A i \in n + 1 .. Len(given) : i \in n .. Len(given)
    BY <1>1
  <2>2. \A i \in n .. Len(given) : argv[i] = given[i]
    BY ONLY <1>1 DEF Held
  <2>3. QED
    BY <2>1, <2>2, GivenIs
<1>5. posix \/ program = "run-detectors"
  BY DEF Ordering
<1>6. ReadTo(n) = Reading(<<>>, s, Append(m, argv[n]), TRUE)
  <2>1. ReadTo(n) = Reads(Reading(<<>>, s, m, FALSE), argv[n])
    BY <1>2, <1>4, ReadOn
  <2>2. QED
    BY <1>5, <2>1 DEF Reads, Reading
<1>7. Loose(Append(m, argv[n]), argv, n, n + 1)
  BY <1>1, <1>3, <1>4, LooseMore
<1>8. (n + 1) - 1 = n /\ Argc - 1 = Len(given) /\ n \in 1 .. Argc
  BY <1>1
<1>9. ReadUpTo(n + 1, argv, n, s, TRUE)
  BY <1>6, <1>7, <1>8 DEF ReadUpTo
<1>10. Passed(n + 1, Argc, argv, n, TRUE)
  BY <1>1, <1>4, <1>8 DEF Passed
<1>11. ReadUpTo(Argc, argv, n, s, TRUE)
  BY <1>9, <1>10, PassOver, Zenon
<1>12. QED
  BY <1>1, <1>8, <1>11 DEF Over, ReadUpTo, Read

\* Nothing is left to read: the arguments that were passed over are to be moved
\* to the end, where they are already.
Ends(a, g, h, s) ==
    /\ g \in 1 .. Argc /\ h \in g .. Argc
    /\ \E want, plain : Over(a, IF g # h THEN g ELSE Argc, s, want, plain)

\* An option, or an argument that is none where that ends the options.
Finds(a, g, h, k, s) ==
    /\ Between(a, g, h, k, s, <<>>)
    /\ k # Argc /\ a[k] # Quote
    /\ IsOption(a[k]) \/ Ordering # "PERMUTE"

LEMMA StartIs ==
    ASSUME NEW argv, NEW f \in Int, NEW l \in Int, NEW n \in Int,
           1 <= f, f <= l, l <= n
    PROVE  Advance(Data(argv, n, f, l)) =
              SkipQuote(IF Ordering = "PERMUTE" THEN Permute(Data(argv, n, f, l))
                        ELSE Data(argv, n, f, l))
<1> DEFINE d == Data(argv, n, f, l)
           start == [d EXCEPT !.last = Lower(@, d.optind),
                              !.first = Lower(@, d.optind)]
<1>1. /\ d.optind = n /\ d.first = f /\ d.last = l
      /\ [d EXCEPT !.last = l] = d /\ [d EXCEPT !.first = f] = d
  BY DataIs
<1>2. n # 0 /\ Lower(l, n) = l /\ Lower(f, n) = f
  BY DEF Lower
<1> HIDE DEF d
<1>3. start = [[d EXCEPT !.last = l] EXCEPT !.first = f]
  BY <1>1, <1>2
<1>4. start = d
  BY <1>1, <1>3, Zenon
<1>5. Advance(d) = SkipQuote(IF Ordering = "PERMUTE" THEN Permute(start) ELSE start)
  BY <1>1, <1>2 DEF Advance
<1>6. QED
  BY <1>4, <1>5 DEF d

LEMMA Advances ==
    ASSUME GivenOK, posix \in BOOLEAN,
           NEW argv, NEW f, NEW l, NEW n, NEW s, NEW want,
           Between(argv, f, l, n, s, want)
    PROVE  \E a, g, h, k :
              /\ Advance(Data(argv, n, f, l)) = Data(a, k, g, h)
              /\ (k = Argc /\ Ends(a, g, h, s)) \/ Finds(a, g, h, k, s)
<1> DEFINE e == IF Ordering = "PERMUTE" THEN Permute(Data(argv, n, f, l))
                ELSE Data(argv, n, f, l)
<1>1. Advance(Data(argv, n, f, l)) = SkipQuote(e)
  <2>1. f \in Int /\ l \in Int /\ n \in Int /\ 1 <= f /\ f <= l /\ l <= n
    BY HeldIs DEF Between
  <2>2. QED
    BY <2>1, StartIs
<1>2. \E a, g, h, k, v :
         /\ e = Data(a, k, g, h) /\ Between(a, g, h, k, s, v)
         /\ Ordering = "PERMUTE" => h = k /\ (k = Argc \/ IsOption(a[k]))
  <2>1. CASE Ordering = "PERMUTE"
    <3>1. PICK a, g, k, v : /\ Permute(Data(argv, n, f, l)) = Data(a, k, g, k)
                            /\ Between(a, g, k, k, s, v)
                            /\ k = Argc \/ IsOption(a[k])
      BY <2>1, Permutes
    <3>2. e = Data(a, k, g, k)
      BY <2>1, <3>1
    <3> HIDE DEF e
    <3>3. QED
      BY <3>1, <3>2
  <2>2. CASE Ordering # "PERMUTE"
    <3>1. e = Data(argv, n, f, l)
      BY <2>2
    <3> HIDE DEF e
    <3>2. QED
      BY <2>2, <3>1
  <2>3. QED
    BY <2>1, <2>2
<1> HIDE DEF e
<1>3. PICK a, g, h, k, v :
         /\ e = Data(a, k, g, h) /\ Between(a, g, h, k, s, v)
         /\ Ordering = "PERMUTE" => h = k /\ (k = Argc \/ IsOption(a[k]))
  BY <1>2
<1>4. Held(a, g, h, k)
  BY <1>3 DEF Between
<1>5. /\ g \in Int /\ h \in Int /\ k \in Int /\ Argc \in Int
      /\ Argc = Len(given) + 1 /\ Argc - 1 = Len(given)
      /\ 1 <= g /\ g <= h /\ h <= k /\ k <= Argc
      /\ DOMAIN a = DOMAIN given
  BY <1>4, HeldIs
<1>6. e.optind = k /\ e.argv = a
  BY <1>3, DataIs
<1>7. CASE k = Argc
  <2>1. SkipQuote(e) = e
    BY <1>6, <1>7 DEF SkipQuote
  <2>2. PICK m : Loose(m, a, g, h) /\ ReadTo(k - 1) = Reading(v, s, m, FALSE)
    BY <1>3 DEF Between
  <2>3. Read = Reading(v, s, m, FALSE)
    BY <1>5, <1>7, <2>2 DEF Read
  <2> DEFINE end == IF g # h THEN g ELSE Argc
  <2>4. Loose(m, a, end, Argc) /\ end \in 1 .. Argc
    <3>1. CASE g = h
      BY <1>5, <2>2, <3>1 DEF Loose
    <3>2. CASE g # h
      <4>1. h = k
        BY <1>3, <1>4, <3>2 DEF Held
      <4>2. QED
        BY <1>5, <1>7, <2>2, <3>2, <4>1
    <3>3. QED
      BY <3>1, <3>2
  <2> HIDE DEF end
  <2>5. v \in {<<>>, <<"name?">>}
    BY <1>3 DEF Between
  <2>6. Over(a, end, s, v, FALSE)
    BY <1>5, <2>3, <2>4, <2>5 DEF Over
  <2>7. Ends(a, g, h, s)
    <3>1. g \in 1 .. Argc /\ h \in g .. Argc
      BY <1>5
    <3>2. Over(a, IF g # h THEN g ELSE Argc, s, v, FALSE)
      BY <2>6 DEF end
    <3>3. QED
      BY <3>1, <3>2 DEF Ends
  <2>8. QED
    BY <1>1, <1>3, <1>7, <2>1, <2>7
<1>8. CASE k # Argc /\ a[k] = Quote
  <2>1. Between(a, g, h, k, s, <<>>)
    BY <1>3, <1>8 DEF Between
  <2>2. PICK b, j : /\ SkipQuote(e) = Data(b, Argc, j, Argc)
                    /\ Over(b, j, s, <<>>, TRUE)
    <3>1. SkipQuote(e) = SkipQuote(Data(a, k, g, h))
      BY <1>3
    <3>2. k # Argc /\ a[k] = Quote
      BY <1>8
    <3>3. QED
      <4>1. QuoteEnds(Data(a, k, g, h), s)
        BY <2>1, <3>2, Quoted, Zenon
      <4>2. QED
        BY <3>1, <4>1 DEF QuoteEnds
  <2>3. j \in 1 .. Argc
    BY <2>2 DEF Over
  <2>4. (IF j # Argc THEN j ELSE Argc) = j /\ Argc \in j .. Argc
    BY <1>5, <2>3
  <2>5. Ends(b, j, Argc, s)
    BY <2>2, <2>3, <2>4 DEF Ends
  <2>6. QED
    BY <1>1, <2>2, <2>5
<1>9. CASE k # Argc /\ a[k] # Quote
  <2>1. SkipQuote(e) = e
    BY <1>6, <1>9 DEF SkipQuote
  <2>2. v = <<>>
    BY <1>3, <1>9 DEF Between
  <2>3. Finds(a, g, h, k, s)
    BY <1>3, <1>9, <2>2 DEF Finds
  <2>4. QED
    BY <1>1, <1>3, <2>1, <2>3
<1>10. QED
  BY <1>7, <1>8, <1>9

----------------------------------------------------------------------------
(***************************************************************************)
(* Options.  After an option and its argument the reader has done what     *)
(* parse_opt will do.                                                      *)
(***************************************************************************)
Parting == {"help", "usage", "version"}

After(r, o, arg) ==
    IF o \in Parting THEN [r EXCEPT !.exit = "0"]
    ELSE IF o \in ModeOptions
    THEN IF r.set["mode"] # NULL THEN [r EXCEPT !.exit = "2"]
         ELSE [r EXCEPT !.set["mode"] = o, !.want = Wants(o)]
    ELSE IF o \in ValueOptions THEN Gives(r, o, arg)
    ELSE IF o = "test" THEN [r EXCEPT !.set["test"] = Quote]
    ELSE r

AllOptions == ArgpOptions \cup ModeOptions \cup ValueOptions \cup {"test"}

\* The kinds of options do not overlap.
LEMMA OptionKinds ==
    ASSUME NEW o \in AllOptions
    PROVE  /\ o \notin {"error", "end", "argument", "name?", "name"}
           /\ o \in Parting => o \in ArgpOptions /\ ~TakesValue(o) /\ ~NeedsValue(o)
           /\ o \in ModeOptions => /\ o \notin Parting /\ o \notin ArgpOptions
                                   /\ o \notin ValueOptions /\ o # "test"
                                   /\ ~TakesValue(o) /\ ~NeedsValue(o)
                                   /\ o \in Settings
           /\ o \in ValueOptions => /\ o \notin ArgpOptions /\ o \notin Parting
                                    /\ o # "test"
                                    /\ o \in Settings /\ NeedsValue(o)
                                    /\ TakesValue(o) /\ o # "mode" /\ o # "type"
           /\ o \in ArgpOptions => /\ o \notin Settings /\ o \notin OnceOptions
                                   /\ o \notin TypeOptions /\ o # "offset"
                                   /\ o \notin Parting =>
                                         o \in {"HANG", "program-name"}
           /\ o = "test" => /\ o \notin ArgpOptions /\ o \notin Parting
                            /\ ~TakesValue(o) /\ ~NeedsValue(o)
           /\ NeedsValue(o) => /\ o \in ValueOptions \cup {"program-name"}
                               /\ TakesValue(o) /\ Wants(o) = <<o>>
           /\ o \notin ModeOptions /\ ~NeedsValue(o) => Wants(o) = <<>>
BY DEF AllOptions, ArgpOptions, ModeOptions, ValueOptions, TypeOptions,
       OnceOptions, Parting, NeedsValue, TakesValue, Settings, Wants

\* What an option of the command line means is one of the options.
LEMMA MeantIs ==
    ASSUME NEW t
    PROVE  Meant(t) \in AllOptions \cup {"error"}
<1> DEFINE names == Begins[t] \cap LongOptions(program)
<1>1. names \subseteq AllOptions
  BY DEF LongOptions, AllOptions, ArgpOptions, ValueOptions, TypeOptions,
         OnceOptions, ModeOptions
<1>2. CASE t \in names
  BY <1>1, <1>2 DEF Meant
<1>3. CASE t \notin names /\ Cardinality(names) = 1
  <2>1. names # {}
    BY <1>3, FS_EmptySet
  <2>2. Meant(t) = CHOOSE o \in names : TRUE
    BY <1>3 DEF Meant
  <2> HIDE DEF names
  <2>3. Meant(t) \in names
    BY <2>1, <2>2
  <2>4. QED
    BY <1>1, <2>3
<1>4. CASE t \notin names /\ Cardinality(names) # 1
  BY <1>4 DEF Meant
<1>5. QED
  BY <1>2, <1>3, <1>4

\* So is that of an argument.
LEMMA OptionIs ==
    ASSUME NEW w
    PROVE  Option(w) \in AllOptions \cup {"error"}
BY MeantIs DEF Option, AllOptions, ArgpOptions

LEMMA ReadingWants ==
    ASSUME NEW v, NEW s, NEW m, NEW plain, NEW x
    PROVE  /\ [Reading(v, s, m, plain) EXCEPT !.want = x] = Reading(x, s, m, plain)
           /\ Reading(v, s, m, plain).want = v
           /\ Reading(v, s, m, plain).exit = "none"
BY SMT DEF Reading

\* What the reader does at an option, depending on its value.
LEMMA OpensWrong ==
    ASSUME NEW w, NEW r, NEW o, o = Option(w),
           o = "error" \/ (w.value # NULL /\ ~TakesValue(o))
    PROVE  Opens(r, w) = [r EXCEPT !.exit = "2"]
BY DEF Opens

LEMMA OpensWithValue ==
    ASSUME NEW w, NEW r, NEW o \in AllOptions, o = Option(w),
           w.value # NULL, TakesValue(o)
    PROVE  Opens(r, w) = After(r, o, Plain(w.value))
<1>1. o # "error" /\ o \notin ModeOptions /\ o \notin Parting /\ o # "test"
  BY OptionKinds
<1>2. Opens(r, w) = Gives(r, o, Plain(w.value))
  BY <1>1 DEF Opens, Parting
<1>3. CASE o \in ValueOptions
  BY <1>1, <1>2, <1>3 DEF After
<1>4. CASE o \notin ValueOptions
  <2>1. o \in ArgpOptions
    BY <1>1, <1>4 DEF AllOptions
  <2>2. o \notin Settings /\ o \notin OnceOptions /\ o \notin TypeOptions
        /\ o # "offset"
    BY <2>1, OptionKinds
  <2>3. Gives(r, o, Plain(w.value)) = r
    BY <2>2 DEF Gives
  <2>4. QED
    BY <1>1, <1>2, <1>4, <2>3 DEF After
<1>5. QED
  BY <1>3, <1>4

LEMMA OpensAlone ==
    ASSUME NEW w, NEW s, NEW m, NEW o \in AllOptions, o = Option(w),
           w.value = NULL, ~NeedsValue(o)
    PROVE  Opens(Reading(<<>>, s, m, FALSE), w)
              = After(Reading(<<>>, s, m, FALSE), o, NULL)
<1> DEFINE r == Reading(<<>>, s, m, FALSE)
<1>1. [r EXCEPT !.want = <<>>] = r
  <2>1. PICK v, plain : v = <<>> /\ plain = FALSE
    OBVIOUS
  <2>2. [Reading(v, s, m, plain) EXCEPT !.want = v] = Reading(v, s, m, plain)
    BY ReadingWants
  <2>3. QED
    BY <2>1, <2>2
<1> HIDE DEF r
<1>2. o # "error" /\ (o \in ModeOptions => o \notin Parting)
  BY OptionKinds
<1>3. CASE o \in Parting
  BY <1>2, <1>3 DEF Opens, After, Parting, r
<1>4. CASE o \in ModeOptions
  BY <1>2, <1>4 DEF Opens, After, Parting, r
<1>5. CASE o = "test"
  BY <1>2, <1>5, OptionKinds DEF Opens, After, Parting, r
<1>6. CASE o \notin Parting /\ o \notin ModeOptions /\ o # "test"
  <2>1. o \notin ValueOptions /\ Wants(o) = <<>>
    BY <1>6, OptionKinds
  <2>2. Opens(r, w) = [r EXCEPT !.want = <<>>]
    BY <1>2, <1>6, <2>1 DEF Opens, Parting
  <2>3. After(r, o, NULL) = r
    BY <1>6, <2>1 DEF After
  <2>4. QED
    BY <1>1, <2>2, <2>3 DEF r
<1>7. QED
  BY <1>3, <1>4, <1>5, <1>6

LEMMA OpensWanting ==
    ASSUME NEW w, NEW s, NEW m, NEW o \in AllOptions, o = Option(w),
           w.value = NULL, NeedsValue(o)
    PROVE  Opens(Reading(<<>>, s, m, FALSE), w) = Reading(<<o>>, s, m, FALSE)
<1> DEFINE r == Reading(<<>>, s, m, FALSE)
<1>1. [r EXCEPT !.want = <<o>>] = Reading(<<o>>, s, m, FALSE)
  <2>1. PICK v, x, plain : v = <<>> /\ x = <<o>> /\ plain = FALSE
    OBVIOUS
  <2>2. [Reading(v, s, m, plain) EXCEPT !.want = x] = Reading(x, s, m, plain)
    BY ReadingWants
  <2>3. QED
    BY <2>1, <2>2
<1> HIDE DEF r
<1>2. o # "error" /\ o \notin ModeOptions /\ o # "test" /\ o \notin Parting
      /\ Wants(o) = <<o>>
  BY OptionKinds
<1>3. Opens(r, w) = [r EXCEPT !.want = <<o>>]
  BY <1>2 DEF Opens, Parting
<1>4. QED
  BY <1>1, <1>3 DEF r

LEMMA ReadsValue ==
    ASSUME NEW w, NEW s, NEW m, NEW o \in AllOptions, NeedsValue(o)
    PROVE  Reads(Reading(<<o>>, s, m, FALSE), w)
              = After(Reading(<<>>, s, m, FALSE), o, w)
<1> DEFINE r == Reading(<<o>>, s, m, FALSE)
           e == Reading(<<>>, s, m, FALSE)
<1>1. r.want = <<o>> /\ r.exit = "none" /\ [r EXCEPT !.want = <<>>] = e
  <2>1. PICK v, x, plain : v = <<o>> /\ x = <<>> /\ plain = FALSE
    OBVIOUS
  <2>2. /\ [Reading(v, s, m, plain) EXCEPT !.want = x] = Reading(x, s, m, plain)
        /\ Reading(v, s, m, plain).want = v
        /\ Reading(v, s, m, plain).exit = "none"
    BY ReadingWants
  <2>3. QED
    BY <2>1, <2>2
<1> HIDE DEF r, e
<1>2. /\ o \notin ModeOptions /\ o # "test" /\ o \notin Parting /\ o # "name?"
      /\ o \in ValueOptions \cup {"program-name"}
  BY OptionKinds
<1>3. <<o>> # <<>> /\ Head(<<o>>) = o /\ Tail(<<o>>) = <<>>
  OBVIOUS
<1>4. [r EXCEPT !.want = Tail(@)] = e
  BY <1>1, <1>3
<1>5. Reads(r, w) = Gives(e, o, w)
  BY <1>1, <1>2, <1>3, <1>4 DEF Reads
<1>6. CASE o \in ValueOptions
  BY <1>2, <1>5, <1>6 DEF After, r, e
<1>7. CASE o \notin ValueOptions
  <2>1. o \in ArgpOptions
    BY <1>2, <1>7 DEF ArgpOptions
  <2>2. o \notin Settings /\ o \notin OnceOptions /\ o \notin TypeOptions
        /\ o # "offset"
    BY <2>1, OptionKinds
  <2>3. Gives(e, o, w) = e
    BY <2>2 DEF Gives
  <2>4. QED
    BY <1>2, <1>5, <1>7, <2>3 DEF After, r, e
<1>8. QED
  BY <1>6, <1>7

LEMMA HeldOn ==
    ASSUME GivenOK, NEW a, NEW g, NEW h, NEW k, Held(a, g, h, k),
           NEW n \in k .. Argc
    PROVE  Held(a, g, h, n)
<1>1. /\ g \in Int /\ h \in Int /\ k \in Int /\ Argc \in Int /\ Len(given) \in Int
      /\ 1 <= g /\ g <= h /\ h <= k /\ k <= Argc
  BY HeldIs
<1>2. n \in 1 .. Argc /\ h \in 1 .. n /\ g \in 1 .. h
      /\ \A i \in n .. Len(given) : i \in k .. Len(given)
  BY <1>1
<1>3. QED
  BY <1>2 DEF Held

\* A line that ends the program says so.
LEMMA ExitMeans ==
    ASSUME GivenOK, NEW n \in 0 .. Len(given), NEW r, NEW e \in {"0", "2"},
           ReadTo(n) = r, r.exit = e
    PROVE  Meaning(Read) = e
<1>1. Read = r
  BY ReadsNoMore
<1>2. QED
  BY <1>1 DEF Meaning

LEMMA ExitIs ==
    ASSUME NEW v, NEW s, NEW m, NEW plain, NEW e
    PROVE  [Reading(v, s, m, plain) EXCEPT !.exit = e].exit = e
BY SMT DEF Reading

LEMMA ReadingExit ==
    ASSUME NEW s, NEW m, NEW e
    PROVE  [Reading(<<>>, s, m, FALSE) EXCEPT !.exit = e].exit = e
<1>1. PICK v, plain : v = <<>> /\ plain = FALSE
  OBVIOUS
<1>2. [Reading(v, s, m, plain) EXCEPT !.exit = e].exit = e
  BY ExitIs
<1>3. QED
  BY <1>1, <1>2

\* getopt has returned an option, with its argument.
Took(a, g, h, n, s, o, arg) ==
    /\ o \in AllOptions
    /\ \E m : /\ Loose(m, a, g, h)
              /\ ReadTo(n - 1) = After(Reading(<<>>, s, m, FALSE), o, arg)

Outcome(x, a, g, h, s) ==
    \E n : /\ x.d = Data(a, n, g, h) /\ Held(a, g, h, n)
           /\ \/ x.option = "error" /\ Meaning(Read) = "2"
              \/ Took(a, g, h, n, s, x.option, x.arg)

LEMMA ReturnedIs ==
    ASSUME NEW d, NEW o, NEW arg
    PROVE  LET x == Returned(d, o, arg)
           IN  x.d = d /\ x.option = o /\ x.arg = arg
BY DEF Returned

\* What the reader does at an option.
Opened(a, g, h, k, s) ==
    \E m : /\ Loose(m, a, g, h)
           /\ ReadTo(k) = Opens(Reading(<<>>, s, m, FALSE), a[k])

LEMMA OptionRead ==
    ASSUME GivenOK, NEW a, NEW g, NEW h, NEW k, NEW s,
           Finds(a, g, h, k, s), IsOption(a[k])
    PROVE  /\ k \in 1 .. Len(given) /\ a[k] = given[k] /\ Held(a, g, h, k)
           /\ Opened(a, g, h, k, s)
<1>1. Held(a, g, h, k) /\ k # Argc /\ a[k] # Quote
  BY DEF Finds, Between
<1>2. k \in 1 .. Len(given) /\ k \in k .. Len(given)
  BY <1>1, HeldIs
<1>3. a[k] = given[k]
  BY <1>1, <1>2 DEF Held
<1>4. PICK m : Loose(m, a, g, h) /\ ReadTo(k - 1) = Reading(<<>>, s, m, FALSE)
  BY DEF Finds, Between
<1>5. ReadTo(k) = Reads(Reading(<<>>, s, m, FALSE), a[k])
  BY <1>2, <1>3, <1>4, ReadOn
<1>6. Reads(Reading(<<>>, s, m, FALSE), a[k])
         = Opens(Reading(<<>>, s, m, FALSE), a[k])
  <2>1. PICK v, plain : v = <<>> /\ plain = FALSE
    OBVIOUS
  <2> DEFINE r == Reading(v, s, m, plain)
  <2>2. r.exit = "none" /\ r.want = v /\ r.plain = plain
    BY DEF Reading
  <2> HIDE DEF r
  <2>3. Reads(r, a[k]) = Opens(r, a[k])
    BY <1>1, <2>1, <2>2 DEF Reads
  <2>4. QED
    BY <2>1, <2>3 DEF r
<1>7. QED
  BY <1>1, <1>2, <1>3, <1>4, <1>5, <1>6 DEF Opened

LEMMA LongOptionIs ==
    ASSUME NEW d, NEW w, NEW o, NEW past,
           w = d.argv[d.optind], o = Meant(w.text),
           past = [d EXCEPT !.optind = @ + 1]
    PROVE  LongOption(d) =
              IF o = "error" \/ (w.value # NULL /\ ~TakesValue(o))
              THEN Returned(past, "error", NULL)
              ELSE IF w.value # NULL THEN Returned(past, o, Plain(w.value))
              ELSE IF ~NeedsValue(o) THEN Returned(past, o, NULL)
              ELSE IF past.optind = Argc THEN Returned(past, "error", NULL)
              ELSE Returned([past EXCEPT !.optind = @ + 1], o,
                            d.argv[past.optind])
BY DEF LongOption

LEMMA LongIs ==
    ASSUME GivenOK, NEW a, NEW g, NEW h, NEW k, NEW s,
           Finds(a, g, h, k, s), IsOption(a[k]), a[k].dashes = 2
    PROVE  Outcome(LongOption(Data(a, k, g, h)), a, g, h, s)
<1> DEFINE w == a[k]
           o == Meant(w.text)
           d == Data(a, k, g, h)
           past == Data(a, k + 1, g, h)
           x == LongOption(d)
<1>1. k \in 1 .. Len(given) /\ Held(a, g, h, k) /\ Opened(a, g, h, k, s)
  BY OptionRead
<1>2. PICK m : /\ Loose(m, a, g, h)
               /\ ReadTo(k) = Opens(Reading(<<>>, s, m, FALSE), w)
  BY <1>1 DEF Opened
<1>3. o = Option(w) /\ (o = "error" \/ o \in AllOptions)
  BY MeantIs DEF Option
<1>4. /\ d.optind = k /\ d.argv = a /\ past.optind = k + 1
      /\ [d EXCEPT !.optind = k + 1] = past
      /\ [past EXCEPT !.optind = (k + 1) + 1] = Data(a, (k + 1) + 1, g, h)
  BY DataIs
<1> HIDE DEF past, d, o
<1>5. [d EXCEPT !.optind = @ + 1] = past
      /\ [past EXCEPT !.optind = @ + 1] = Data(a, (k + 1) + 1, g, h)
  BY <1>4
<1>6. x = IF o = "error" \/ (w.value # NULL /\ ~TakesValue(o))
          THEN Returned(past, "error", NULL)
          ELSE IF w.value # NULL THEN Returned(past, o, Plain(w.value))
          ELSE IF ~NeedsValue(o) THEN Returned(past, o, NULL)
          ELSE IF k + 1 = Argc THEN Returned(past, "error", NULL)
          ELSE Returned(Data(a, (k + 1) + 1, g, h), o, a[k + 1])
  <2>1. w = d.argv[d.optind]
    BY <1>4
  <2>2. past = [d EXCEPT !.optind = @ + 1] /\ o = Meant(w.text)
    BY <1>5 DEF o
  <2> HIDE DEF w
  <2>3. x = IF o = "error" \/ (w.value # NULL /\ ~TakesValue(o))
            THEN Returned(past, "error", NULL)
            ELSE IF w.value # NULL THEN Returned(past, o, Plain(w.value))
            ELSE IF ~NeedsValue(o) THEN Returned(past, o, NULL)
            ELSE IF past.optind = Argc THEN Returned(past, "error", NULL)
            ELSE Returned([past EXCEPT !.optind = @ + 1], o,
                          d.argv[past.optind])
    BY <2>1, <2>2, LongOptionIs
  <2>4. QED
    BY <1>4, <1>5, <2>3
<1>7. /\ k \in Int /\ Argc \in Int /\ Argc = Len(given) + 1
      /\ k \in 0 .. Len(given) /\ k + 1 \in k .. Argc /\ (k + 1) - 1 = k
      /\ k + 1 # Argc => /\ (k + 1) + 1 \in k .. Argc /\ k + 1 \in 1 .. Len(given)
                         /\ k + 1 \in k .. Len(given)
                         /\ ((k + 1) + 1) - 1 = k + 1
      /\ k + 1 = Argc => k = Len(given)
  BY <1>1, HeldIs
<1>8. Held(a, g, h, k + 1)
  BY <1>1, <1>7, HeldOn
<1> HIDE DEF x
<1>9. CASE o = "error" \/ (w.value # NULL /\ ~TakesValue(o))
  <2>1. ReadTo(k) = [Reading(<<>>, s, m, FALSE) EXCEPT !.exit = "2"]
    BY <1>2, <1>3, <1>9, OpensWrong
  <2>2. ReadTo(k).exit = "2"
    BY <2>1, ReadingExit
  <2>3. Meaning(Read) = "2"
    BY <1>7, <2>2, ExitMeans
  <2>4. x.option = "error" /\ x.d = past
    BY <1>6, <1>9, ReturnedIs
  <2>5. QED
    BY <1>8, <2>3, <2>4 DEF Outcome, past, x, d
<1>10. CASE o # "error" /\ w.value # NULL /\ TakesValue(o)
  <2>1. ReadTo(k) = After(Reading(<<>>, s, m, FALSE), o, Plain(w.value))
    BY <1>2, <1>3, <1>10, OpensWithValue
  <2>2. x.option = o /\ x.arg = Plain(w.value) /\ x.d = past
    BY <1>6, <1>10, ReturnedIs
  <2>3. Took(a, g, h, k + 1, s, x.option, x.arg)
    BY <1>2, <1>3, <1>7, <1>10, <2>1, <2>2 DEF Took
  <2>4. QED
    BY <1>8, <2>2, <2>3 DEF Outcome, past, x, d
<1>11. CASE o # "error" /\ w.value = NULL /\ ~NeedsValue(o)
  <2>1. ReadTo(k) = After(Reading(<<>>, s, m, FALSE), o, NULL)
    BY <1>2, <1>3, <1>11, OpensAlone
  <2>2. x.option = o /\ x.arg = NULL /\ x.d = past
    BY <1>6, <1>11, ReturnedIs
  <2>3. Took(a, g, h, k + 1, s, x.option, x.arg)
    BY <1>2, <1>3, <1>7, <1>11, <2>1, <2>2 DEF Took
  <2>4. QED
    BY <1>8, <2>2, <2>3 DEF Outcome, past, x, d
<1>12. CASE o # "error" /\ w.value = NULL /\ NeedsValue(o) /\ k + 1 = Argc
  <2>1. ReadTo(k) = Reading(<<o>>, s, m, FALSE)
    BY <1>2, <1>3, <1>12, OpensWanting
  <2>2. Read = Reading(<<o>>, s, m, FALSE)
    BY <1>7, <1>12, <2>1 DEF Read
  <2>3. <<o>> \notin {<<>>, <<"name?">>}
    BY <1>3, <1>12, OptionKinds
  <2>4. Read.exit = "none" /\ Read.want = <<o>>
    BY <2>2 DEF Reading
  <2>5. Meaning(Read) = "2"
    BY <2>3, <2>4 DEF Meaning
  <2>6. x.option = "error" /\ x.d = past
    BY <1>6, <1>12, ReturnedIs
  <2>7. QED
    BY <1>8, <2>5, <2>6 DEF Outcome, past, x, d
<1>13. CASE o # "error" /\ w.value = NULL /\ NeedsValue(o) /\ k + 1 # Argc
  <2>1. ReadTo(k) = Reading(<<o>>, s, m, FALSE)
    BY <1>2, <1>3, <1>13, OpensWanting
  <2>2. a[k + 1] = given[k + 1]
    BY <1>1, <1>7, <1>13 DEF Held
  <2>3. ReadTo(k + 1) = Reads(Reading(<<o>>, s, m, FALSE), a[k + 1])
    BY <1>7, <1>13, <2>1, <2>2, ReadOn
  <2>4. ReadTo(k + 1) = After(Reading(<<>>, s, m, FALSE), o, a[k + 1])
    BY <1>3, <1>13, <2>3, ReadsValue
  <2>5. /\ x.option = o /\ x.arg = a[k + 1]
        /\ x.d = Data(a, (k + 1) + 1, g, h)
    BY <1>6, <1>13, ReturnedIs
  <2>6. Took(a, g, h, (k + 1) + 1, s, x.option, x.arg)
    BY <1>2, <1>3, <1>7, <1>13, <2>4, <2>5 DEF Took
  <2>7. Held(a, g, h, (k + 1) + 1)
    BY <1>1, <1>7, <1>13, HeldOn
  <2>8. QED
    BY <2>5, <2>6, <2>7 DEF Outcome, x, d
<1>14. QED
  BY <1>3, <1>9, <1>10, <1>11, <1>12, <1>13

LEMMA ShortIs ==
    ASSUME GivenOK, NEW a, NEW g, NEW h, NEW k, NEW s,
           Finds(a, g, h, k, s), IsOption(a[k]), a[k].dashes # 2
    PROVE  Outcome(ShortOption(Data(a, k, g, h)), a, g, h, s)
<1> DEFINE w == a[k]
           o == Option(w)
           d == Data(a, k, g, h)
           past == Data(a, k + 1, g, h)
           x == ShortOption(d)
<1>1. k \in 1 .. Len(given) /\ Held(a, g, h, k) /\ Opened(a, g, h, k, s)
      /\ w = given[k]
  BY OptionRead
<1>2. PICK m : /\ Loose(m, a, g, h)
               /\ ReadTo(k) = Opens(Reading(<<>>, s, m, FALSE), w)
  BY <1>1 DEF Opened
<1>3. w.value = NULL
  <2>1. w.dashes \in 0..2 /\ (w.dashes = 1 => w.value = NULL)
    BY <1>1, GivenIs DEF GivenOK
  <2>2. w.dashes > 0 /\ w.dashes # 2
    BY DEF IsOption
  <2>3. QED
    BY <2>1, <2>2
<1>4. d.optind = k /\ d.argv = a /\ [d EXCEPT !.optind = k + 1] = past
  BY DataIs
<1> HIDE DEF past, d
<1>5. [d EXCEPT !.optind = @ + 1] = past
  BY <1>4
<1>6. x = Returned(past, o, NULL)
  BY <1>4, <1>5 DEF ShortOption, Option
<1>7. o \in {"version", "help", "error"}
  BY DEF Option
<1>8. /\ k \in 0 .. Len(given) /\ k + 1 \in k .. Argc /\ (k + 1) - 1 = k
  BY <1>1, HeldIs
<1>9. Held(a, g, h, k + 1)
  BY <1>1, <1>8, HeldOn
<1>10. x.option = o /\ x.arg = NULL /\ x.d = past
  BY <1>6, ReturnedIs
<1> HIDE DEF x, o
<1>11. CASE o = "error"
  <2>1. ReadTo(k) = [Reading(<<>>, s, m, FALSE) EXCEPT !.exit = "2"]
    BY <1>2, <1>11, OpensWrong DEF o
  <2>2. ReadTo(k).exit = "2"
    BY <2>1, ReadingExit
  <2>3. Meaning(Read) = "2"
    BY <1>8, <2>2, ExitMeans
  <2>4. QED
    BY <1>9, <1>10, <1>11, <2>3 DEF Outcome, past, x, d
<1>12. CASE o # "error"
  <2>1. o \in AllOptions /\ ~NeedsValue(o)
    BY <1>7, <1>12 DEF AllOptions, ArgpOptions, NeedsValue, ValueOptions,
                       TypeOptions, OnceOptions
  <2>2. ReadTo(k) = After(Reading(<<>>, s, m, FALSE), o, NULL)
    BY <1>2, <1>3, <2>1, OpensAlone DEF o
  <2>3. Took(a, g, h, k + 1, s, x.option, x.arg)
    BY <1>2, <1>8, <1>10, <2>1, <2>2 DEF Took
  <2>4. QED
    BY <1>9, <1>10, <2>3 DEF Outcome, past, x, d
<1>13. QED
  BY <1>11, <1>12

\* What getopt returns, when the reader has set s: the end, with the arguments
\* left from n on; an argument of run-detectors, which will be put back; or an
\* option, unless it is wrong.
AtEnd(a, g, h, n, s) ==
    /\ g \in 1 .. Argc /\ h \in g .. Argc
    /\ \E want, plain : Over(a, n, s, want, plain)

AtArgument(a, g, h, n, s) ==
    /\ Held(a, g, h, n) /\ n - 1 \in 1 .. Len(given)
    /\ program = "run-detectors" /\ Over(a, n - 1, s, <<>>, TRUE)

Gets(x, s) ==
    \/ \E a, g, h, n : /\ x.d = Data(a, n, g, h) /\ x.option = "end"
                       /\ AtEnd(a, g, h, n, s)
    \/ \E a, g, h, n : /\ x.d = Data(a, n, g, h) /\ x.option = "argument"
                       /\ AtArgument(a, g, h, n, s)
    \/ \E a, g, h : Outcome(x, a, g, h, s)

LEMMA GetoptAt ==
    ASSUME NEW d0, NEW a, NEW g, NEW h, NEW k, Advance(d0) = Data(a, k, g, h)
    PROVE  getopt_long(d0) =
              IF k = Argc
              THEN Returned(Data(a, IF g # h THEN g ELSE k, g, h), "end", NULL)
              ELSE IF ~IsOption(a[k])
              THEN IF Ordering = "REQUIRE_ORDER"
                   THEN Returned(Data(a, k, g, h), "end", NULL)
                   ELSE Returned(Data(a, k + 1, g, h), "argument", a[k])
              ELSE IF a[k].dashes = 2 THEN LongOption(Data(a, k, g, h))
              ELSE ShortOption(Data(a, k, g, h))
<1> DEFINE d == Data(a, k, g, h)
<1>1. /\ d.optind = k /\ d.argv = a /\ d.first = g /\ d.last = h
      /\ [d EXCEPT !.optind = k + 1] = Data(a, k + 1, g, h)
      /\ [d EXCEPT !.optind = g] = Data(a, g, g, h)
  BY DataIs
<1> HIDE DEF d
<1>2. [d EXCEPT !.optind = @ + 1] = Data(a, k + 1, g, h)
      /\ [d EXCEPT !.optind = d.first] = Data(a, g, g, h)
  BY <1>1
<1>3. Advance(d0) = d
  BY DEF d
<1>4. CASE k = Argc
  <2>1. getopt_long(d0) =
          Returned(IF d.first # d.last THEN [d EXCEPT !.optind = d.first] ELSE d,
                   "end", NULL)
    BY <1>1, <1>3, <1>4 DEF getopt_long
  <2>2. (IF d.first # d.last THEN [d EXCEPT !.optind = d.first] ELSE d)
           = Data(a, IF g # h THEN g ELSE k, g, h)
    BY <1>1, <1>2 DEF d
  <2>3. QED
    BY <1>4, <2>1, <2>2
<1>5. CASE k # Argc /\ ~IsOption(a[k])
  <2>1. getopt_long(d0) =
          IF Ordering = "REQUIRE_ORDER" THEN Returned(d, "end", NULL)
          ELSE Returned([d EXCEPT !.optind = @ + 1], "argument", a[k])
    BY <1>1, <1>3, <1>5 DEF getopt_long
  <2>2. QED
    BY <1>2, <1>5, <2>1 DEF d
<1>6. CASE k # Argc /\ IsOption(a[k])
  <2>1. getopt_long(d0) =
          IF a[k].dashes = 2 THEN LongOption(d) ELSE ShortOption(d)
    BY <1>1, <1>3, <1>6 DEF getopt_long
  <2>2. QED
    BY <1>6, <2>1 DEF d
<1>7. QED
  BY <1>4, <1>5, <1>6

LEMMA GetoptIs ==
    ASSUME GivenOK, posix \in BOOLEAN, NEW d0, NEW s,
           NEW argv, NEW f, NEW l, NEW n, NEW want,
           Advance(d0) = Advance(Data(argv, n, f, l)),
           Between(argv, f, l, n, s, want)
    PROVE  Gets(getopt_long(d0), s)
<1> DEFINE x == getopt_long(d0)
<1>1. PICK a, g, h, k :
         /\ Advance(d0) = Data(a, k, g, h)
         /\ (k = Argc /\ Ends(a, g, h, s)) \/ Finds(a, g, h, k, s)
  BY Advances
<1>2. x = IF k = Argc
          THEN Returned(Data(a, IF g # h THEN g ELSE k, g, h), "end", NULL)
          ELSE IF ~IsOption(a[k])
          THEN IF Ordering = "REQUIRE_ORDER"
               THEN Returned(Data(a, k, g, h), "end", NULL)
               ELSE Returned(Data(a, k + 1, g, h), "argument", a[k])
          ELSE IF a[k].dashes = 2 THEN LongOption(Data(a, k, g, h))
          ELSE ShortOption(Data(a, k, g, h))
  BY <1>1, GetoptAt
<1> HIDE DEF x
<1>3. CASE k = Argc
  <2> DEFINE e == IF g # h THEN g ELSE k
  <2>1. Ends(a, g, h, s)
    BY <1>1, <1>3 DEF Finds
  <2>2. AtEnd(a, g, h, e, s)
    BY <1>3, <2>1 DEF Ends, AtEnd
  <2>3. x.d = Data(a, e, g, h) /\ x.option = "end"
    BY <1>2, <1>3, ReturnedIs
  <2> HIDE DEF e
  <2>4. QED
    BY <2>2, <2>3 DEF Gets, x
<1>4. ASSUME k # Argc
      PROVE  /\ Finds(a, g, h, k, s) /\ Between(a, g, h, k, s, <<>>)
             /\ Held(a, g, h, k)
  BY <1>1, <1>4 DEF Finds, Between
<1>5. ASSUME k # Argc
      PROVE  /\ k \in 1 .. Len(given) /\ k \in 1 .. Argc /\ (k + 1) - 1 = k
             /\ k + 1 \in k .. Argc /\ g \in 1 .. Argc /\ h \in g .. Argc
  BY <1>4, <1>5, HeldIs
<1>6. CASE k # Argc /\ ~IsOption(a[k])
  <2>1. Ordering # "PERMUTE"
    BY <1>4, <1>6 DEF Finds
  <2>2. Over(a, k, s, <<>>, TRUE)
    BY <1>4, <1>6, <2>1, OneTooMany, Zenon
  <2>3. CASE Ordering = "REQUIRE_ORDER"
    <3>1. x.d = Data(a, k, g, h) /\ x.option = "end"
      BY <1>2, <1>6, <2>3, ReturnedIs
    <3>2. AtEnd(a, g, h, k, s)
      BY <1>5, <1>6, <2>2 DEF AtEnd
    <3>3. QED
      BY <3>1, <3>2 DEF Gets, x
  <2>4. CASE Ordering # "REQUIRE_ORDER"
    <3>1. x.d = Data(a, k + 1, g, h) /\ x.option = "argument"
      BY <1>2, <1>6, <2>4, ReturnedIs
    <3>2. program = "run-detectors"
      BY <2>1, <2>4 DEF Ordering
    <3>3. Held(a, g, h, k + 1)
      BY <1>4, <1>5, <1>6, HeldOn
    <3>4. AtArgument(a, g, h, k + 1, s)
      BY <1>5, <1>6, <2>2, <3>2, <3>3 DEF AtArgument
    <3>5. QED
      BY <3>1, <3>4 DEF Gets, x
  <2>5. QED
    BY <2>3, <2>4
<1>7. CASE k # Argc /\ IsOption(a[k])
  <2>1. Outcome(x, a, g, h, s)
    <3>1. CASE a[k].dashes = 2
      BY <1>2, <1>4, <1>7, <3>1, LongIs
    <3>2. CASE a[k].dashes # 2
      BY <1>2, <1>4, <1>7, <3>2, ShortIs
    <3>3. QED
      BY <3>1, <3>2
  <2>2. QED
    BY <2>1 DEF Gets, x
<1>8. QED
  BY <1>3, <1>6, <1>7

----------------------------------------------------------------------------
(***************************************************************************)
(* What parse_opt stores is what the reader stores.                        *)
(***************************************************************************)
Total(s) == s = [k \in Settings |-> s[k]]

Rejected(s, o, arg) ==
    \/ o \in OnceOptions /\ s[o] # NULL
    \/ o \in TypeOptions /\ s["type"] # NULL
    \/ o = "offset" /\ arg \notin WholeNumbers

LEMMA GivesRefused ==
    ASSUME NEW v, NEW s, NEW m, NEW p, NEW o, NEW arg, Rejected(s, o, arg)
    PROVE  Gives(Reading(v, s, m, p), o, arg)
              = [Reading(v, s, m, p) EXCEPT !.exit = "2"]
<1> DEFINE r == Reading(v, s, m, p)
<1>1. r.set = s
  BY DEF Reading
<1> HIDE DEF r
<1>2. Gives(r, o, arg) = [r EXCEPT !.exit = "2"]
  BY <1>1 DEF Gives, Rejected
<1>3. QED
  BY <1>2 DEF r

LEMMA GivesStored ==
    ASSUME NEW v, NEW s, NEW m, NEW p, NEW o \in Settings, NEW arg,
           ~Rejected(s, o, arg)
    PROVE  Gives(Reading(v, s, m, p), o, arg)
              = Reading(v, Stored(s, o, arg), m, p)
<1> DEFINE r == Reading(v, s, m, p)
<1>1. r.set = s /\ \A x : [r EXCEPT !.set = x] = Reading(v, x, m, p)
  BY SMT DEF Reading
<1> HIDE DEF r
<1>2. Gives(r, o, arg) = [r EXCEPT !.set = Stored(r.set, o, arg)]
  BY <1>1 DEF Gives, Rejected
<1>3. QED
  BY <1>1, <1>2 DEF r

LEMMA StoredTotal ==
    ASSUME NEW s, NEW o, NEW arg
    PROVE  Total(Stored(s, o, arg))
BY DEF Total, Stored

\* The reader takes what it wants.
LEMMA ReadsWanted ==
    ASSUME NEW v, NEW s, NEW m, NEW p, NEW w, v # <<>>
    PROVE  Reads(Reading(v, s, m, p), w)
              = Gives(Reading(Tail(v), s, m, p),
                      IF Head(v) = "name?" THEN "name" ELSE Head(v), w)
<1> DEFINE r == Reading(v, s, m, p)
<1>1. r.exit = "none" /\ r.want = v
      /\ \A x : [r EXCEPT !.want = x] = Reading(x, s, m, p)
  BY SMT DEF Reading
<1> HIDE DEF r
<1>2. [r EXCEPT !.want = Tail(@)] = Reading(Tail(v), s, m, p)
  BY <1>1
<1>3. Reads(r, w) = Gives([r EXCEPT !.want = Tail(@)],
                          IF Head(v) = "name?" THEN "name" ELSE Head(v), w)
  BY <1>1 DEF Reads
<1>4. QED
  BY <1>2, <1>3 DEF r

\* The arguments of a mode are never refused.
ModeArguments == {"name", "interpreter", "executable"}

LEMMA ModeArgument ==
    ASSUME NEW o \in ModeArguments, NEW v, NEW s, NEW m, NEW p, NEW arg
    PROVE  Gives(Reading(v, s, m, p), o, arg)
              = Reading(v, Stored(s, o, arg), m, p)
<1>1. o \in Settings /\ o # "type" /\ ~Rejected(s, o, arg)
  BY DEF ModeArguments, Settings, Rejected, OnceOptions, TypeOptions
<1>2. QED
  BY <1>1, GivesStored

LEMMA ModeSet ==
    ASSUME NEW v, NEW s, NEW m, NEW p, NEW o, o \in ModeOptions, Total(s),
           s["mode"] = NULL, NEW arg
    PROVE  After(Reading(v, s, m, p), o, arg)
              = Reading(Wants(o), Stored(s, "mode", o), m, p)
<1> DEFINE r == Reading(v, s, m, p)
           t == [s EXCEPT !["mode"] = o]
           e == Reading(v, t, m, p)
<1>1. r.set = s /\ \A x : [r EXCEPT !.set = x] = Reading(v, x, m, p)
  BY SMT DEF Reading
<1> HIDE DEF r, t
<1>2. [e EXCEPT !.want = Wants(o)] = Reading(Wants(o), t, m, p)
  BY ReadingWants
<1> HIDE DEF e
<1>3. o \notin Parting
  BY OptionKinds DEF AllOptions
<1>4. [r EXCEPT !.set["mode"] = o] = e
  BY <1>1 DEF e, t
<1>5. After(r, o, arg) = [r EXCEPT !.set["mode"] = o, !.want = Wants(o)]
  BY <1>1, <1>3 DEF After
<1>6. After(r, o, arg) = [e EXCEPT !.want = Wants(o)]
  BY <1>4, <1>5, Zenon
<1>7. t = Stored(s, "mode", o)
  <2>1. DOMAIN s = Settings /\ "mode" \in Settings /\ "mode" \notin TypeOptions
    BY DEF Total, Settings, TypeOptions
  <2>2. DOMAIN t = Settings /\ t = [k \in Settings |-> t[k]]
    BY <2>1 DEF t
  <2>3. ASSUME NEW k \in Settings
        PROVE  t[k] = Stored(s, "mode", o)[k]
    BY <2>1 DEF Stored, t
  <2> HIDE DEF t
  <2>4. QED
    BY <2>2, <2>3 DEF Stored
<1>8. QED
  BY <1>2, <1>6, <1>7 DEF r

----------------------------------------------------------------------------
(***************************************************************************)
(* parse_opt.  The reader has read the option; parse_opt does the rest of  *)
(* it, the arguments of a mode included.                                   *)
(***************************************************************************)
Goes(a, g, h, n, s) ==
    Total(s) /\ \E want : Between(a, g, h, n, s, want)

\* The reader has read an option, and wants v.
Wanting(a, g, h, n, s, v) ==
    /\ Held(a, g, h, n) /\ Total(s)
    /\ \E m : Loose(m, a, g, h) /\ ReadTo(n - 1) = Reading(v, s, m, FALSE)

LEMMA WantingGoes ==
    ASSUME NEW a, NEW g, NEW h, NEW n, NEW s, NEW v, Wanting(a, g, h, n, s, v),
           v = <<>> \/ (v = <<"name?">> /\ n = Argc)
    PROVE  Goes(a, g, h, n, s)
BY DEF Wanting, Goes, Between

\* Arguments that are missing.
LEMMA WantingEnds ==
    ASSUME NEW a, NEW g, NEW h, NEW s, NEW v, GivenOK,
           Wanting(a, g, h, Argc, s, v), v # <<>>, v # <<"name?">>
    PROVE  Meaning(Read) = "2"
<1>1. PICK m, p : ReadTo(Argc - 1) = Reading(v, s, m, p)
  BY DEF Wanting
<1>2. Argc - 1 = Len(given)
  BY GivenIs
<1>3. Read = Reading(v, s, m, p)
  BY <1>1, <1>2 DEF Read
<1>4. Read.exit = "none" /\ Read.want = v
  BY <1>3, ReadingWants
<1>5. QED
  BY <1>4 DEF Meaning

\* An argument of a mode.
LEMMA WantingTakes ==
    ASSUME NEW a, NEW g, NEW h, NEW n, NEW s, NEW v, NEW o \in ModeArguments,
           GivenOK, Wanting(a, g, h, n, s, v), v # <<>>, n # Argc,
           o = IF Head(v) = "name?" THEN "name" ELSE Head(v)
    PROVE  Wanting(a, g, h, n + 1, Stored(s, o, a[n]), Tail(v))
<1>1. PICK m : Loose(m, a, g, h) /\ ReadTo(n - 1) = Reading(v, s, m, FALSE)
  BY DEF Wanting
<1>2. Held(a, g, h, n)
  BY DEF Wanting
<1>3. n \in 1 .. Len(given) /\ n \in n .. Len(given) /\ n + 1 \in n .. Argc
      /\ (n + 1) - 1 = n
  BY <1>2, HeldIs
<1>4. Held(a, g, h, n + 1)
  BY <1>2, <1>3, HeldOn
<1>5. a[n] = given[n]
  BY <1>2, <1>3 DEF Held
<1>6. ReadTo(n) = Reads(Reading(v, s, m, FALSE), a[n])
  BY <1>1, <1>3, <1>5, ReadOn
<1>7. Reads(Reading(v, s, m, FALSE), a[n])
         = Reading(Tail(v), Stored(s, o, a[n]), m, FALSE)
  <2>1. PICK p : p = FALSE
    OBVIOUS
  <2>2. Reads(Reading(v, s, m, p), a[n]) = Gives(Reading(Tail(v), s, m, p), o, a[n])
    BY ReadsWanted
  <2>3. Gives(Reading(Tail(v), s, m, p), o, a[n])
           = Reading(Tail(v), Stored(s, o, a[n]), m, p)
    BY ModeArgument
  <2>4. QED
    BY <2>1, <2>2, <2>3
<1>8. QED
  BY <1>1, <1>3, <1>4, <1>6, <1>7, StoredTotal DEF Wanting

LEMMA TookWanting ==
    ASSUME NEW a, NEW g, NEW h, NEW n, NEW s, NEW o, NEW arg, NEW s2, NEW v,
           Took(a, g, h, n, s, o, arg), Held(a, g, h, n), Total(s2),
           \A m : After(Reading(<<>>, s, m, FALSE), o, arg)
                     = Reading(v, s2, m, FALSE)
    PROVE  Wanting(a, g, h, n, s2, v)
BY DEF Took, Wanting

LEMMA TookEnds ==
    ASSUME NEW a, NEW g, NEW h, NEW n, NEW s, NEW o, NEW arg, NEW e \in {"0", "2"},
           GivenOK, Took(a, g, h, n, s, o, arg), Held(a, g, h, n),
           \A m : After(Reading(<<>>, s, m, FALSE), o, arg)
                     = [Reading(<<>>, s, m, FALSE) EXCEPT !.exit = e]
    PROVE  Meaning(Read) = e
<1>1. PICK m : ReadTo(n - 1) = [Reading(<<>>, s, m, FALSE) EXCEPT !.exit = e]
  BY DEF Took
<1>2. ReadTo(n - 1).exit = e
  <2>1. [Reading(<<>>, s, m, FALSE) EXCEPT !.exit = e].exit = e
    BY ReadingExit, Zenon
  <2>2. QED
    BY <1>1, <2>1, Zenon
<1>3. n - 1 \in 0 .. Len(given)
  BY HeldIs
<1>4. QED
  BY <1>2, <1>3, ExitMeans

LEMMA ModeWanting ==
    ASSUME NEW a, NEW g, NEW h, NEW n, NEW s, NEW o \in ModeOptions, NEW arg,
           Took(a, g, h, n, s, o, arg), Held(a, g, h, n), Total(s),
           s["mode"] = NULL
    PROVE  Wanting(a, g, h, n, Stored(s, "mode", o), Wants(o))
<1>1. ASSUME NEW m
      PROVE  After(Reading(<<>>, s, m, FALSE), o, arg)
                = Reading(Wants(o), Stored(s, "mode", o), m, FALSE)
  <2>1. PICK v, p : v = <<>> /\ p = FALSE
    OBVIOUS
  <2>2. After(Reading(v, s, m, p), o, arg)
           = Reading(Wants(o), Stored(s, "mode", o), m, p)
    BY ModeSet
  <2>3. QED
    BY <2>1, <2>2
<1>2. Total(Stored(s, "mode", o))
  BY StoredTotal
<1>3. QED
  BY <1>1, <1>2, TookWanting

LEMMA ModeTwice ==
    ASSUME NEW a, NEW g, NEW h, NEW n, NEW s, NEW o \in ModeOptions, NEW arg,
           GivenOK, Took(a, g, h, n, s, o, arg), Held(a, g, h, n),
           s["mode"] # NULL
    PROVE  Meaning(Read) = "2"
<1>1. o \notin Parting
  BY OptionKinds DEF AllOptions
<1>2. ASSUME NEW m
      PROVE  After(Reading(<<>>, s, m, FALSE), o, arg)
                = [Reading(<<>>, s, m, FALSE) EXCEPT !.exit = "2"]
  <2> DEFINE r == Reading(<<>>, s, m, FALSE)
  <2>1. r.set = s
    BY DEF Reading
  <2> HIDE DEF r
  <2>2. After(r, o, arg) = [r EXCEPT !.exit = "2"]
    BY <1>1, <2>1 DEF After
  <2>3. QED
    BY <2>2 DEF r
<1>3. QED
  BY <1>2, TookEnds

\* --install and --remove
LEMMA TwoArguments ==
    ASSUME NEW a, NEW g, NEW h, NEW n, NEW s, NEW o \in {"install", "remove"},
           NEW arg, GivenOK, Took(a, g, h, n, s, o, arg), Held(a, g, h, n),
           Total(s), s["mode"] = NULL
    PROVE  /\ n > Argc - 2 => Meaning(Read) = "2"
           /\ n <= Argc - 2 =>
                 Goes(a, g, h, n + 2,
                      Stored(Stored(Stored(s, "mode", o), "name", a[n]),
                             "interpreter", a[n+1]))
<1> DEFINE s1 == Stored(s, "mode", o)
           s2 == Stored(s1, "name", a[n])
           s3 == Stored(s2, "interpreter", a[n+1])
<1>1. PICK v, v2, v3 : /\ v = <<"name", "interpreter">> /\ v2 = <<"interpreter">>
                       /\ v3 = <<>>
  OBVIOUS
<1>2. /\ v # <<>> /\ v # <<"name?">> /\ Head(v) = "name" /\ Tail(v) = v2
      /\ v2 # <<>> /\ v2 # <<"name?">> /\ Head(v2) = "interpreter" /\ Tail(v2) = v3
  BY <1>1
<1>3. Wants(o) = v /\ o \in ModeOptions
  BY <1>1 DEF Wants, ModeOptions
<1>4. Wanting(a, g, h, n, s1, v)
  BY <1>3, ModeWanting
<1>5. n \in Int /\ Argc \in Int /\ n <= Argc
  BY HeldIs
<1> HIDE DEF s1, s2, s3
<1>6. CASE n = Argc
  BY <1>2, <1>4, <1>5, <1>6, WantingEnds
<1>7. CASE n # Argc
  <2>1. Wanting(a, g, h, n + 1, s2, v2)
    <3>1. "name" \in ModeArguments
          /\ "name" = IF Head(v) = "name?" THEN "name" ELSE Head(v)
      BY <1>2 DEF ModeArguments
    <3>2. QED
      BY <1>2, <1>4, <1>7, <3>1, WantingTakes DEF s2
  <2>2. CASE n + 1 = Argc
    BY <1>2, <1>5, <2>1, <2>2, WantingEnds
  <2>3. CASE n + 1 # Argc
    <3>1. "interpreter" \in ModeArguments
          /\ "interpreter" = IF Head(v2) = "name?" THEN "name" ELSE Head(v2)
      BY <1>2 DEF ModeArguments
    <3>2. Wanting(a, g, h, (n + 1) + 1, s3, v3)
      BY <1>2, <2>1, <2>3, <3>1, WantingTakes DEF s3
    <3>3. Goes(a, g, h, (n + 1) + 1, s3)
      BY <1>1, <3>2, WantingGoes
    <3>4. (n + 1) + 1 = n + 2 /\ ~(n > Argc - 2)
      BY <1>5, <1>7, <2>3
    <3>5. QED
      BY <3>3, <3>4 DEF s1, s2, s3
  <2>4. QED
    BY <2>2, <2>3
<1>8. QED
  BY <1>6, <1>7

\* --find
LEMMA OneArgument ==
    ASSUME NEW a, NEW g, NEW h, NEW n, NEW s, NEW arg,
           GivenOK, Took(a, g, h, n, s, "find", arg), Held(a, g, h, n),
           Total(s), s["mode"] = NULL
    PROVE  /\ n >= Argc => Meaning(Read) = "2"
           /\ n < Argc =>
                 Goes(a, g, h, n + 1,
                      Stored(Stored(s, "mode", "find"), "executable", a[n]))
<1> DEFINE s1 == Stored(s, "mode", "find")
           s2 == Stored(s1, "executable", a[n])
<1>1. PICK v, v2 : v = <<"executable">> /\ v2 = <<>>
  OBVIOUS
<1>2. v # <<>> /\ v # <<"name?">> /\ Head(v) = "executable" /\ Tail(v) = v2
  BY <1>1
<1>3. Wants("find") = v /\ "find" \in ModeOptions
  BY <1>1 DEF Wants, ModeOptions
<1>4. Wanting(a, g, h, n, s1, v)
  BY <1>3, ModeWanting
<1>5. n \in Int /\ Argc \in Int /\ n <= Argc
  BY HeldIs
<1> HIDE DEF s1, s2
<1>6. CASE n = Argc
  BY <1>2, <1>4, <1>5, <1>6, WantingEnds
<1>7. CASE n # Argc
  <2>1. "executable" \in ModeArguments
        /\ "executable" = IF Head(v) = "name?" THEN "name" ELSE Head(v)
    BY <1>2 DEF ModeArguments
  <2>2. Wanting(a, g, h, n + 1, s2, v2)
    BY <1>2, <1>4, <1>7, <2>1, WantingTakes DEF s2
  <2>3. Goes(a, g, h, n + 1, s2)
    BY <1>1, <2>2, WantingGoes
  <2>4. QED
    BY <1>5, <1>7, <2>3 DEF s1, s2
<1>8. QED
  BY <1>6, <1>7

\* --import, --display, --enable and --disable
LEMMA MaybeArgument ==
    ASSUME NEW a, NEW g, NEW h, NEW n, NEW s, NEW o \in ModeOptions, NEW arg,
           o \notin {"install", "remove", "find"},
           GivenOK, Took(a, g, h, n, s, o, arg), Held(a, g, h, n),
           Total(s), s["mode"] = NULL
    PROVE  /\ n = Argc => Goes(a, g, h, n, Stored(s, "mode", o))
           /\ n < Argc =>
                 Goes(a, g, h, n + 1,
                      Stored(Stored(s, "mode", o), "name", a[n]))
<1> DEFINE s1 == Stored(s, "mode", o)
           s2 == Stored(s1, "name", a[n])
<1>1. PICK v, v2 : v = <<"name?">> /\ v2 = <<>>
  OBVIOUS
<1>2. v # <<>> /\ Head(v) = "name?" /\ Tail(v) = v2
  BY <1>1
<1>3. Wants(o) = v
  BY <1>1 DEF Wants
<1>4. Wanting(a, g, h, n, s1, v)
  BY <1>3, ModeWanting
<1>5. n \in Int /\ Argc \in Int /\ n <= Argc
  BY HeldIs
<1> HIDE DEF s1, s2
<1>6. CASE n = Argc
  <2>1. Goes(a, g, h, n, s1)
    BY <1>1, <1>4, <1>6, WantingGoes
  <2>2. QED
    BY <1>5, <1>6, <2>1 DEF s1
<1>7. CASE n # Argc
  <2>1. "name" \in ModeArguments
        /\ "name" = IF Head(v) = "name?" THEN "name" ELSE Head(v)
    BY <1>2 DEF ModeArguments
  <2>2. Wanting(a, g, h, n + 1, s2, v2)
    BY <1>2, <1>4, <1>7, <2>1, WantingTakes DEF s2
  <2>3. Goes(a, g, h, n + 1, s2)
    BY <1>1, <2>2, WantingGoes
  <2>4. QED
    BY <1>7, <2>3 DEF s1, s2
<1>8. QED
  BY <1>6, <1>7

\* The options with values, and the others.
LEMMA ValueRead ==
    ASSUME NEW a, NEW g, NEW h, NEW n, NEW s, NEW o \in ValueOptions, NEW arg,
           GivenOK, Took(a, g, h, n, s, o, arg), Held(a, g, h, n), Total(s)
    PROVE  /\ Rejected(s, o, arg) => Meaning(Read) = "2"
           /\ ~Rejected(s, o, arg) => Goes(a, g, h, n, Stored(s, o, arg))
<1>1. o \notin Parting /\ o \notin ModeOptions /\ o \in Settings /\ o # "type"
  BY OptionKinds DEF AllOptions
<1>2. \A r : After(r, o, arg) = Gives(r, o, arg)
  BY <1>1 DEF After
<1>3. PICK v, p : v = <<>> /\ p = FALSE
  OBVIOUS
<1>4. CASE Rejected(s, o, arg)
  <2>1. ASSUME NEW m
        PROVE  After(Reading(<<>>, s, m, FALSE), o, arg)
                  = [Reading(<<>>, s, m, FALSE) EXCEPT !.exit = "2"]
    <3>1. Gives(Reading(v, s, m, p), o, arg)
             = [Reading(v, s, m, p) EXCEPT !.exit = "2"]
      BY <1>4, GivesRefused
    <3>2. After(Reading(v, s, m, p), o, arg)
             = [Reading(v, s, m, p) EXCEPT !.exit = "2"]
      BY <1>2, <3>1, Zenon
    <3>3. QED
      BY <1>3, <3>2
  <2>2. Meaning(Read) = "2"
    BY <2>1, TookEnds
  <2>3. QED
    BY <1>4, <2>2
<1>5. CASE ~Rejected(s, o, arg)
  <2>1. ASSUME NEW m
        PROVE  After(Reading(<<>>, s, m, FALSE), o, arg)
                  = Reading(v, Stored(s, o, arg), m, FALSE)
    <3>1. Gives(Reading(v, s, m, p), o, arg) = Reading(v, Stored(s, o, arg), m, p)
      BY <1>1, <1>5, GivesStored
    <3>2. After(Reading(v, s, m, p), o, arg) = Reading(v, Stored(s, o, arg), m, p)
      BY <1>2, <3>1, Zenon
    <3>3. QED
      BY <1>3, <3>2
  <2>2. Wanting(a, g, h, n, Stored(s, o, arg), v)
    BY <2>1, StoredTotal, TookWanting
  <2>3. Goes(a, g, h, n, Stored(s, o, arg))
    BY <1>3, <2>2, WantingGoes
  <2>4. QED
    BY <1>5, <2>3
<1>6. QED
  BY <1>4, <1>5

LEMMA TestRead ==
    ASSUME NEW a, NEW g, NEW h, NEW n, NEW s, NEW arg,
           Took(a, g, h, n, s, "test", arg), Held(a, g, h, n), Total(s)
    PROVE  Goes(a, g, h, n, Stored(s, "test", Quote))
<1> DEFINE t == [s EXCEPT !["test"] = Quote]
<1>1. /\ "test" \notin Parting /\ "test" \notin ModeOptions
      /\ "test" \notin ValueOptions /\ "test" \in Settings
      /\ "test" \notin TypeOptions
  BY DEF Parting, ModeOptions, ValueOptions, TypeOptions, OnceOptions, Settings
<1>2. t = Stored(s, "test", Quote)
  <2>1. DOMAIN s = Settings
    BY DEF Total
  <2>2. DOMAIN t = Settings /\ t = [k \in Settings |-> t[k]]
    BY <2>1
  <2>3. ASSUME NEW k \in Settings
        PROVE  t[k] = Stored(s, "test", Quote)[k]
    BY <1>1, <2>1 DEF Stored
  <2> HIDE DEF t
  <2>4. QED
    BY <2>2, <2>3 DEF Stored
<1>3. PICK v, p : v = <<>> /\ p = FALSE
  OBVIOUS
<1>4. ASSUME NEW m
      PROVE  After(Reading(v, s, m, p), "test", arg)
                = Reading(v, Stored(s, "test", Quote), m, p)
  <2> DEFINE r == Reading(v, s, m, p)
  <2>1. r.set = s /\ \A x : [r EXCEPT !.set = x] = Reading(v, x, m, p)
    BY SMT DEF Reading
  <2> HIDE DEF r
  <2>2. After(r, "test", arg) = [r EXCEPT !.set["test"] = Quote]
    BY <1>1 DEF After
  <2>3. After(r, "test", arg) = [r EXCEPT !.set = t]
    BY <2>1, <2>2
  <2> HIDE DEF t
  <2>4. QED
    BY <1>2, <2>1, <2>3 DEF r
<1>5. \A m : After(Reading(<<>>, s, m, FALSE), "test", arg)
                = Reading(v, Stored(s, "test", Quote), m, FALSE)
  BY <1>3, <1>4
<1>6. Wanting(a, g, h, n, Stored(s, "test", Quote), v)
  BY <1>5, StoredTotal, TookWanting
<1>7. QED
  BY <1>3, <1>6, WantingGoes

LEMMA ArgpRead ==
    ASSUME NEW a, NEW g, NEW h, NEW n, NEW s, NEW o \in ArgpOptions, NEW arg,
           GivenOK, Took(a, g, h, n, s, o, arg), Held(a, g, h, n), Total(s)
    PROVE  /\ o \in Parting => Meaning(Read) = "0"
           /\ o \notin Parting => Goes(a, g, h, n, s)
<1>1. CASE o \in Parting
  <2>1. \A m : After(Reading(<<>>, s, m, FALSE), o, arg)
                  = [Reading(<<>>, s, m, FALSE) EXCEPT !.exit = "0"]
    BY <1>1 DEF After
  <2>2. Meaning(Read) = "0"
    BY <2>1, TookEnds
  <2>3. QED
    BY <1>1, <2>2
<1>2. CASE o \notin Parting
  <2>1. o \notin ModeOptions /\ o \notin ValueOptions /\ o # "test"
    BY OptionKinds DEF AllOptions
  <2>2. PICK v : v = <<>>
    OBVIOUS
  <2>3. \A r : After(r, o, arg) = r
    BY <1>2, <2>1 DEF After
  <2>4. \A m : After(Reading(<<>>, s, m, FALSE), o, arg) = Reading(v, s, m, FALSE)
    BY <2>2, <2>3
  <2>5. Wanting(a, g, h, n, s, v)
    BY <2>4, TookWanting
  <2>6. QED
    BY <1>2, <2>2, <2>5, WantingGoes
<1>3. QED
  BY <1>1, <1>2

\* The assignments of parse_opt, one after the other.
LEMMA StoresAre ==
    ASSUME NEW s, NEW o, NEW x, NEW y, Total(s)
    PROVE  LET Put(f) == [k \in Settings |-> IF k \in DOMAIN f THEN f[k] ELSE s[k]]
           IN  /\ Put([mode |-> o]) = Stored(s, "mode", o)
               /\ Put([mode |-> o, name |-> x])
                     = Stored(Stored(s, "mode", o), "name", x)
               /\ Put([mode |-> o, executable |-> x])
                     = Stored(Stored(s, "mode", o), "executable", x)
               /\ Put([mode |-> o, name |-> x, interpreter |-> y])
                     = Stored(Stored(Stored(s, "mode", o), "name", x),
                              "interpreter", y)
               /\ Put([test |-> x]) = Stored(s, "test", x)
<1>1. /\ "mode" \notin TypeOptions /\ "name" \notin TypeOptions
      /\ "executable" \notin TypeOptions /\ "interpreter" \notin TypeOptions
      /\ "test" \notin TypeOptions
  BY DEF TypeOptions
<1>2. \A k \in Settings : Stored(s, "mode", o)[k] = IF k = "mode" THEN o ELSE s[k]
  BY <1>1 DEF Stored
<1>3. \A t, k : k \in Settings =>
         /\ Stored(t, "name", x)[k] = IF k = "name" THEN x ELSE t[k]
         /\ Stored(t, "executable", x)[k] = IF k = "executable" THEN x ELSE t[k]
         /\ Stored(t, "interpreter", y)[k] = IF k = "interpreter" THEN y ELSE t[k]
         /\ Stored(t, "test", x)[k] = IF k = "test" THEN x ELSE t[k]
  BY <1>1 DEF Stored
<1>4. \A t, p, v : /\ DOMAIN Stored(t, p, v) = Settings
                   /\ Stored(t, p, v) = [k \in Settings |-> Stored(t, p, v)[k]]
  BY DEF Stored
<1>5. [k \in Settings |-> IF k \in DOMAIN [mode |-> o] THEN [mode |-> o][k] ELSE s[k]]
         = Stored(s, "mode", o)
  BY <1>2, <1>4
<1>6. [k \in Settings |-> IF k \in DOMAIN [mode |-> o, name |-> x]
                          THEN [mode |-> o, name |-> x][k] ELSE s[k]]
         = Stored(Stored(s, "mode", o), "name", x)
  BY <1>2, <1>3, <1>4
<1>7. [k \in Settings |-> IF k \in DOMAIN [mode |-> o, executable |-> x]
                          THEN [mode |-> o, executable |-> x][k] ELSE s[k]]
         = Stored(Stored(s, "mode", o), "executable", x)
  BY <1>2, <1>3, <1>4
<1>8. [k \in Settings |-> IF k \in DOMAIN [mode |-> o, name |-> x, interpreter |-> y]
                          THEN [mode |-> o, name |-> x, interpreter |-> y][k]
                          ELSE s[k]]
         = Stored(Stored(Stored(s, "mode", o), "name", x), "interpreter", y)
  BY <1>2, <1>3, <1>4
<1>9. [k \in Settings |-> IF k \in DOMAIN [test |-> x] THEN [test |-> x][k] ELSE s[k]]
         = Stored(s, "test", x)
  BY <1>3, <1>4
<1>10. QED
  BY <1>5, <1>6, <1>7, <1>8, <1>9

LEMMA StoresValue ==
    ASSUME NEW s, NEW o \in ValueOptions, NEW arg, Total(s)
    PROVE  LET f == [k \in {o} \cup (IF o \in TypeOptions THEN {"type"} ELSE {}) |->
                        IF k = "type" THEN o ELSE arg]
           IN  [k \in Settings |-> IF k \in DOMAIN f THEN f[k] ELSE s[k]]
                  = Stored(s, o, arg)
<1>1. o # "type"
  BY OptionKinds DEF AllOptions
<1> DEFINE f == [k \in {o} \cup (IF o \in TypeOptions THEN {"type"} ELSE {}) |->
                    IF k = "type" THEN o ELSE arg]
<1>2. DOMAIN f = {o} \cup (IF o \in TypeOptions THEN {"type"} ELSE {})
      /\ \A k \in DOMAIN f : f[k] = IF k = "type" THEN o ELSE arg
  OBVIOUS
<1> HIDE DEF f
<1>3. ASSUME NEW k \in Settings
      PROVE  (IF k \in DOMAIN f THEN f[k] ELSE s[k])
                = IF k = o THEN arg
                  ELSE IF k = "type" /\ o \in TypeOptions THEN o ELSE s[k]
  BY <1>1, <1>2
<1>4. [k \in Settings |-> IF k \in DOMAIN f THEN f[k] ELSE s[k]] = Stored(s, o, arg)
  BY <1>3 DEF Stored
<1>5. QED
  BY <1>4 DEF f

\* A step of parse_opt ends the program as the line says, or leaves the reader
\* where argp goes on.
LEMMA ParseOptIs ==
    ASSUME NEW a, NEW g, NEW h, NEW n, NEW s, GivenOK,
           getopt.argv = a, next = n, set = s, Held(a, g, h, n), Total(s),
           Took(a, g, h, n, s, found.option, found.arg), ParseOpt
    PROVE  \/ /\ pc' \in {"0", "2"} /\ Meaning(Read) = pc'
              /\ next' = n /\ set' = s
           \/ /\ pc' = "next"
              /\ \E n2, s2 : next' = n2 /\ set' = s2 /\ Goes(a, g, h, n2, s2)
<1> DEFINE Put(f) == [k \in Settings |-> IF k \in DOMAIN f THEN f[k] ELSE s[k]]
<1>1. \A f : Store(f) => set' = Put(f) /\ pc' = "next"
  BY DEF Store
<1>2. \A o, x, y :
          /\ Put([mode |-> o]) = Stored(s, "mode", o)
          /\ Put([mode |-> o, name |-> x]) = Stored(Stored(s, "mode", o), "name", x)
          /\ Put([mode |-> o, executable |-> x])
                = Stored(Stored(s, "mode", o), "executable", x)
          /\ Put([mode |-> o, name |-> x, interpreter |-> y])
                = Stored(Stored(Stored(s, "mode", o), "name", x), "interpreter", y)
          /\ Put([test |-> x]) = Stored(s, "test", x)
  BY StoresAre
<1> HIDE DEF Put
<1>3. n \in Int /\ Argc \in Int /\ n <= Argc
  BY HeldIs
<1>4. PICK o, arg : o = found.option /\ arg = found.arg
  OBVIOUS
<1>5. Took(a, g, h, n, s, o, arg)
  BY <1>4
<1>6. CASE Mode(o)
  <2>1. o \in ModeOptions
    BY <1>6 DEF Mode
  <2>2. CASE s["mode"] # NULL
    <3>1. Refuse
      BY <1>6, <2>2 DEF Mode
    <3>2. Meaning(Read) = "2"
      BY <1>5, <2>1, <2>2, ModeTwice
    <3>3. QED
      BY <3>1, <3>2 DEF Refuse
  <2>3. CASE s["mode"] = NULL /\ o \in {"install", "remove"}
    <3>1. CASE n > Argc - 2
      <4>1. Refuse
        BY <1>6, <2>3, <3>1 DEF Mode
      <4>2. Meaning(Read) = "2"
        BY <1>5, <2>3, <3>1, TwoArguments
      <4>3. QED
        BY <4>1, <4>2 DEF Refuse
    <3>2. CASE ~(n > Argc - 2)
      <4>1. /\ Store([mode |-> o, name |-> a[n], interpreter |-> a[n+1]])
            /\ next' = n + 2
        BY <1>6, <2>3, <3>2 DEF Mode
      <4>2. set' = Stored(Stored(Stored(s, "mode", o), "name", a[n]),
                          "interpreter", a[n+1]) /\ pc' = "next"
        <5>1. /\ set' = Put([mode |-> o, name |-> a[n], interpreter |-> a[n+1]])
              /\ pc' = "next"
          BY <1>1, <4>1
        <5>2. Put([mode |-> o, name |-> a[n], interpreter |-> a[n+1]])
                 = Stored(Stored(Stored(s, "mode", o), "name", a[n]),
                          "interpreter", a[n+1])
          BY <1>2
        <5>3. QED
          BY <5>1, <5>2
      <4>3. Goes(a, g, h, n + 2,
                 Stored(Stored(Stored(s, "mode", o), "name", a[n]),
                        "interpreter", a[n+1]))
        BY <1>3, <1>5, <2>3, <3>2, TwoArguments
      <4>4. QED
        BY <4>1, <4>2, <4>3
    <3>3. QED
      BY <3>1, <3>2
  <2>4. CASE s["mode"] = NULL /\ o = "find"
    <3>1. CASE n >= Argc
      <4>1. Refuse
        BY <1>6, <2>4, <3>1 DEF Mode
      <4>2. Meaning(Read) = "2"
        BY <1>5, <2>4, <3>1, OneArgument
      <4>3. QED
        BY <4>1, <4>2 DEF Refuse
    <3>2. CASE ~(n >= Argc)
      <4>1. Store([mode |-> o, executable |-> a[n]]) /\ next' = n + 1
        BY <1>6, <2>4, <3>2 DEF Mode
      <4>2. set' = Stored(Stored(s, "mode", o), "executable", a[n]) /\ pc' = "next"
        <5>1. set' = Put([mode |-> o, executable |-> a[n]]) /\ pc' = "next"
          BY <1>1, <4>1
        <5>2. Put([mode |-> o, executable |-> a[n]])
                 = Stored(Stored(s, "mode", o), "executable", a[n])
          BY <1>2
        <5>3. QED
          BY <5>1, <5>2
      <4>3. Goes(a, g, h, n + 1,
                 Stored(Stored(s, "mode", o), "executable", a[n]))
        BY <1>3, <1>5, <2>4, <3>2, OneArgument
      <4>4. QED
        BY <4>1, <4>2, <4>3
    <3>3. QED
      BY <3>1, <3>2
  <2>5. CASE s["mode"] = NULL /\ o \notin {"install", "remove", "find"}
    <3>1. CASE n < Argc
      <4>1. Store([mode |-> o, name |-> a[n]]) /\ next' = n + 1
        BY <1>6, <2>5, <3>1 DEF Mode, TakenIfThere
      <4>2. set' = Stored(Stored(s, "mode", o), "name", a[n]) /\ pc' = "next"
        <5>1. set' = Put([mode |-> o, name |-> a[n]]) /\ pc' = "next"
          BY <1>1, <4>1
        <5>2. Put([mode |-> o, name |-> a[n]])
                 = Stored(Stored(s, "mode", o), "name", a[n])
          BY <1>2
        <5>3. QED
          BY <5>1, <5>2
      <4>3. Goes(a, g, h, n + 1, Stored(Stored(s, "mode", o), "name", a[n]))
        BY <1>5, <2>1, <2>5, <3>1, MaybeArgument
      <4>4. QED
        BY <4>1, <4>2, <4>3
    <3>2. CASE ~(n < Argc)
      <4>1. Store([mode |-> o]) /\ next' = n
        BY <1>6, <2>5, <3>2 DEF Mode, TakenIfThere
      <4>2. set' = Stored(s, "mode", o) /\ pc' = "next"
        BY <1>1, <1>2, <4>1, Zenon
      <4>3. Goes(a, g, h, n, Stored(s, "mode", o))
        BY <1>3, <1>5, <2>1, <2>5, <3>2, MaybeArgument
      <4>4. QED
        BY <4>1, <4>2, <4>3
    <3>3. QED
      BY <3>1, <3>2
  <2>6. QED
    BY <2>2, <2>3, <2>4, <2>5
<1>7. CASE Value(o, arg)
  <2>1. o \in ValueOptions
    BY <1>7 DEF Value
  <2>2. CASE Rejected(s, o, arg)
    <3>1. Refuse
      BY <1>7, <2>2 DEF Value, Rejected
    <3>2. Meaning(Read) = "2"
      BY <1>5, <2>1, <2>2, ValueRead
    <3>3. QED
      BY <3>1, <3>2 DEF Refuse
  <2>3. CASE ~Rejected(s, o, arg)
    <3> DEFINE f == [k \in {o} \cup (IF o \in TypeOptions THEN {"type"} ELSE {}) |->
                        IF k = "type" THEN o ELSE arg]
    <3>1. Store(f) /\ next' = n
      BY <1>7, <2>3 DEF Value, Rejected
    <3>2. Put(f) = Stored(s, o, arg)
      BY <2>1, StoresValue DEF Put
    <3> HIDE DEF f
    <3>3. set' = Stored(s, o, arg) /\ pc' = "next"
      BY <1>1, <3>1, <3>2
    <3>4. Goes(a, g, h, n, Stored(s, o, arg))
      BY <1>5, <2>1, <2>3, ValueRead
    <3>5. QED
      BY <3>1, <3>3, <3>4
  <2>4. QED
    BY <2>2, <2>3
<1>8. CASE Test(o)
  <2>1. o = "test" /\ Store([test |-> Quote]) /\ next' = n
    BY <1>8 DEF Test
  <2>2. set' = Stored(s, "test", Quote) /\ pc' = "next"
    BY <1>1, <1>2, <2>1, Zenon
  <2>3. Goes(a, g, h, n, Stored(s, "test", Quote))
    BY <1>5, <2>1, TestRead
  <2>4. QED
    BY <2>1, <2>2, <2>3
<1>9. CASE ArgpOption(o)
  <2>1. /\ o \in ArgpOptions /\ next' = n /\ set' = s
        /\ pc' = IF o \in Parting THEN "0" ELSE "next"
    BY <1>9 DEF ArgpOption, Parting
  <2>2. /\ o \in Parting => Meaning(Read) = "0"
        /\ o \notin Parting => Goes(a, g, h, n, s)
    BY <1>5, <2>1, ArgpRead
  <2>3. QED
    BY <2>1, <2>2
<1>10. QED
  BY <1>4, <1>6, <1>7, <1>8, <1>9 DEF ParseOpt

----------------------------------------------------------------------------
(***************************************************************************)
(* The inductive invariant of CLSpec.  It says where in the line the       *)
(* reader stands: at the next option after what is passed over, behind the *)
(* option parse_opt is about to act on, or at the end.                     *)
(***************************************************************************)
AtNext(a, n, g, h, s) ==
    \E f, l, i : /\ Advance(Data(a, n, g, h)) = Advance(Data(a, i, f, l))
                 /\ Goes(a, f, l, i, s)
                 /\ i = n \/ (n = 0 /\ i = 1)

AtOption(a, n, g, h, s) ==
    /\ Held(a, g, h, n)
    /\ \/ found.option = "argument" /\ AtArgument(a, g, h, n, s)
       \/ Took(a, g, h, n, s, found.option, found.arg)

\* The data of getopt, the index argp is at and the settings.
Stands(a, k, g, h, n, s) ==
    /\ getopt = Data(a, k, g, h) /\ next = n /\ set = s
    /\ DOMAIN a = DOMAIN given /\ Total(s)
    /\ h \in 0 .. Argc /\ g \in 0 .. h /\ k \in 0 .. Argc /\ n \in 0 .. Argc

CLPhase(a, g, h, n, s) ==
    /\ pc = "next" => AtNext(a, n, g, h, s)
    /\ pc = "option" => AtOption(a, n, g, h, s)
    /\ pc \in {"finalize", "main"} => AtEnd(a, g, h, n, s)
    /\ pc \in {"main", "0", "2"} => Meaning(Read) = pc

CLInv ==
    /\ GivenOK /\ program \in Programs /\ posix \in BOOLEAN
    /\ pc \in {"next", "option", "finalize", "main", "0", "2"}
    /\ \E a, k, g, h, n, s : Stands(a, k, g, h, n, s) /\ CLPhase(a, g, h, n, s)

\* The line, the program and its environment do not change.
LEMMA Frozen ==
    ASSUME UNCHANGED <<program, posix, given>>,
           NEW a, NEW g, NEW h, NEW n, NEW s
    PROVE  /\ GivenOK' <=> GivenOK
           /\ Argc' = Argc
           /\ Read' = Read
           /\ Meaning(Read)' = Meaning(Read)
           /\ Held(a, g, h, n)' <=> Held(a, g, h, n)
           /\ Goes(a, g, h, n, s)' <=> Goes(a, g, h, n, s)
           /\ AtNext(a, n, g, h, s)' <=> AtNext(a, n, g, h, s)
           /\ AtEnd(a, g, h, n, s)' <=> AtEnd(a, g, h, n, s)
           /\ AtArgument(a, g, h, n, s)' <=> AtArgument(a, g, h, n, s)
           /\ \A o, arg : Took(a, g, h, n, s, o, arg)' <=> Took(a, g, h, n, s, o, arg)
<1>1. \A i : ReadTo(i)' = ReadTo(i)
  BY DEF ReadTo, Reads, Opens, Option, Meant, LongOptions
<1>2. Read' = Read
  BY DEF Read, ReadTo, Reads, Opens, Option, Meant, LongOptions
<1>3. \A r : Meaning(r)' = Meaning(r)
  BY DEF Meaning
<1>4. Meaning(Read)' = Meaning(Read)
  BY <1>2 DEF Meaning
<1>5. Argc' = Argc /\ (GivenOK' <=> GivenOK) /\ Ordering' = Ordering
  BY DEF Argc, GivenOK, Words, Ordering
<1>6. \A c, f, l, i : Held(c, f, l, i)' <=> Held(c, f, l, i)
  BY DEF Argc, Held, Ordering
<1>7. \A m, c, f, l : Loose(m, c, f, l)' <=> Loose(m, c, f, l)
  BY DEF Loose, Words
<1>8. \A c, f, l, i, t, v : Between(c, f, l, i, t, v)' <=> Between(c, f, l, i, t, v)
  <2> TAKE c, f, l, i, t, v
  <2>1. \A m : (Loose(m, c, f, l) /\ ReadTo(i - 1) = Reading(v, t, m, FALSE))'
               <=> Loose(m, c, f, l) /\ ReadTo(i - 1) = Reading(v, t, m, FALSE)
    BY <1>1, <1>7
  <2>2. QED
    BY <1>5, <1>6, <2>1 DEF Between
<1>9. \A c, f, l, i, t : Goes(c, f, l, i, t)' <=> Goes(c, f, l, i, t)
  BY <1>8 DEF Goes
<1>10. \A d : Advance(d)' = Advance(d)
  <2>1. \A d : Permute(d)' = Permute(d)
    BY DEF Permute, Argc
  <2>2. \A d : SkipQuote(d)' = SkipQuote(d)
    BY DEF SkipQuote, Argc
  <2>3. QED
    BY <1>5, <2>1, <2>2 DEF Advance
<1>11. AtNext(a, n, g, h, s)' <=> AtNext(a, n, g, h, s)
  BY <1>9, <1>10 DEF AtNext
<1>12. \A c, i, t, v, p : Over(c, i, t, v, p)' <=> Over(c, i, t, v, p)
  BY <1>2, <1>5, <1>7 DEF Over
<1>13. AtEnd(a, g, h, n, s)' <=> AtEnd(a, g, h, n, s)
  BY <1>5, <1>12 DEF AtEnd
<1>14. AtArgument(a, g, h, n, s)' <=> AtArgument(a, g, h, n, s)
  BY <1>6, <1>12 DEF AtArgument
<1>15. \A o, arg : Took(a, g, h, n, s, o, arg)' <=> Took(a, g, h, n, s, o, arg)
  BY <1>1, <1>7 DEF Took
<1>16. QED
  BY <1>2, <1>4, <1>5, <1>6, <1>9, <1>11, <1>13, <1>14, <1>15

LEMMA CLInvNext ==
    ASSUME CLInv, UNCHANGED <<program, posix, given>>,
           NEW a, NEW k, NEW g, NEW h, NEW n, NEW s,
           getopt' = Data(a, k, g, h), next' = n, set' = s,
           DOMAIN a = DOMAIN given, Total(s),
           h \in 0 .. Argc, g \in 0 .. h, k \in 0 .. Argc, n \in 0 .. Argc,
           pc' \in {"next", "option", "finalize", "main", "0", "2"},
           pc' = "next" => AtNext(a, n, g, h, s),
           pc' = "option" =>
              /\ Held(a, g, h, n)
              /\ \/ found'.option = "argument" /\ AtArgument(a, g, h, n, s)
                 \/ Took(a, g, h, n, s, found'.option, found'.arg),
           pc' \in {"finalize", "main"} => AtEnd(a, g, h, n, s),
           pc' \in {"main", "0", "2"} => Meaning(Read) = pc'
    PROVE  CLInv'
<1>1. GivenOK' /\ program' \in Programs /\ posix' \in BOOLEAN
  BY Frozen DEF CLInv
<1>2. Stands(a, k, g, h, n, s)'
  <2>1. Argc' = Argc /\ (DOMAIN given)' = DOMAIN given
    BY Frozen
  <2>2. Data(a, k, g, h)' = Data(a, k, g, h) /\ (Total(s)' <=> Total(s))
    BY DEF Data, Total
  <2>3. QED
    BY <2>1, <2>2 DEF Stands
<1>3. CLPhase(a, g, h, n, s)'
  <2>1. pc' = "next" => AtNext(a, n, g, h, s)'
    BY Frozen
  <2>2. pc' = "option" => AtOption(a, n, g, h, s)'
    <3>1. PICK o, arg : o = found'.option /\ arg = found'.arg
      OBVIOUS
    <3>2. Took(a, g, h, n, s, o, arg)' <=> Took(a, g, h, n, s, o, arg)
      BY Frozen
    <3>3. Held(a, g, h, n)' <=> Held(a, g, h, n)
      BY Frozen
    <3>4. AtArgument(a, g, h, n, s)' <=> AtArgument(a, g, h, n, s)
      BY Frozen
    <3>5. QED
      BY <3>1, <3>2, <3>3, <3>4 DEF AtOption
  <2>3. pc' \in {"finalize", "main"} => AtEnd(a, g, h, n, s)'
    BY Frozen
  <2>4. pc' \in {"main", "0", "2"} => Meaning(Read)' = pc'
    BY Frozen
  <2>5. QED
    BY <2>1, <2>2, <2>3, <2>4 DEF CLPhase
<1>4. QED
  BY <1>1, <1>2, <1>3 DEF CLInv

LEMMA CLInitInv == CLInit => CLInv
<1> SUFFICES ASSUME CLInit PROVE CLInv
  OBVIOUS
<1>1. GivenOK
  BY CommandLinesAssumption DEF CLInit, GivenOK, Words
<1>2. /\ Len(given) \in Nat /\ Argc = Len(given) + 1
      /\ DOMAIN given = 1 .. Len(given)
      /\ given = [i \in DOMAIN given |-> given[i]]
  BY <1>1, GivenIs
<1> DEFINE s == [o \in Settings |-> NULL]
           d == Data(given, 0, 0, 0)
           e == Data(given, 1, 1, 1)
<1>3. Total(s)
  BY DEF Total
<1>4. Goes(given, 1, 1, 1, s)
  <2>1. Held(given, 1, 1, 1)
    BY <1>2 DEF Held
  <2>2. PICK m, v, p : m = <<>> /\ v = <<>> /\ p = FALSE
    OBVIOUS
  <2>3. Loose(m, given, 1, 1)
    BY <2>2 DEF Loose
  <2>4. Reader = Reading(v, s, m, p)
    BY <2>2 DEF Reader, Reading
  <2>5. ReadTo(1 - 1) = Reading(v, s, m, p)
    BY <1>1, <2>4, ReadOn
  <2>6. Between(given, 1, 1, 1, s, v)
    BY <2>1, <2>2, <2>3, <2>5 DEF Between
  <2>7. QED
    BY <1>3, <2>6 DEF Goes
<1>5. Advance(d) = Advance(e)
  <2>1. Advance(e) = SkipQuote(IF Ordering = "PERMUTE" THEN Permute(e) ELSE e)
    BY StartIs
  <2>2. d.optind = 0
    BY DEF Data
  <2>3. [d EXCEPT !.optind = 1, !.first = 1, !.last = 1] = e
    <3>1. PICK z, u : z = 0 /\ u = 1
      OBVIOUS
    <3>2. [Data(given, z, z, z) EXCEPT !.optind = u] = Data(given, u, z, z)
      BY DataIs
    <3>3. [Data(given, u, z, z) EXCEPT !.first = u] = Data(given, u, u, z)
      BY DataIs
    <3>4. [Data(given, u, u, z) EXCEPT !.last = u] = Data(given, u, u, u)
      BY DataIs
    <3>5. [[[Data(given, z, z, z) EXCEPT !.optind = u]
              EXCEPT !.first = u] EXCEPT !.last = u] = Data(given, u, u, u)
      BY <3>2, <3>3, <3>4, Zenon
    <3>6. [Data(given, z, z, z) EXCEPT !.optind = u, !.first = u, !.last = u]
             = Data(given, u, u, u)
      BY <3>5
    <3>7. QED
      BY <3>1, <3>6
  <2> HIDE DEF d, e
  <2>4. QED
    BY <2>1, <2>2, <2>3 DEF Advance
<1>6. AtNext(given, 0, 0, 0, s)
  BY <1>4, <1>5 DEF AtNext
<1>7. Stands(given, 0, 0, 0, 0, s)
  BY <1>2, <1>3 DEF Stands, CLInit, Data
<1>8. CLPhase(given, 0, 0, 0, s)
  BY <1>6 DEF CLPhase, CLInit
<1> HIDE DEF s
<1>9. QED
  BY <1>1, <1>7, <1>8 DEF CLInv, CLInit

LEMMA ParseArgInv ==
    ASSUME CLInv, ParseArg
    PROVE  CLInv'
<1>1. PICK a, k, g, h, n, s : Stands(a, k, g, h, n, s) /\ CLPhase(a, g, h, n, s)
  BY DEF CLInv
<1>2. /\ UNCHANGED <<program, posix, given>> /\ getopt' = Data(a, k, g, h)
      /\ next' = n - 1 /\ set' = s /\ pc' = "finalize"
      /\ found.option = "argument" /\ pc = "option"
  BY <1>1 DEF ParseArg, Stands
<1>3. GivenOK
  BY DEF CLInv
<1>4. AtArgument(a, g, h, n, s)
  <2>1. ~Took(a, g, h, n, s, found.option, found.arg)
    BY <1>2, OptionKinds DEF Took
  <2>2. QED
    BY <1>1, <1>2, <2>1 DEF CLPhase, AtOption
<1>5. AtEnd(a, g, h, n - 1, s)
  <2>1. Held(a, g, h, n) /\ Over(a, n - 1, s, <<>>, TRUE)
    BY <1>4 DEF AtArgument
  <2>2. g \in 1 .. Argc /\ h \in g .. Argc
    BY <1>3, <2>1, HeldIs
  <2>3. QED
    BY <2>1, <2>2 DEF AtEnd
<1>6. n - 1 \in 0 .. Argc
  BY <1>3, <1>4, GivenIs DEF AtArgument
<1>7. QED
  BY <1>1, <1>2, <1>5, <1>6, CLInvNext DEF Stands

LEMMA ParseOptInv ==
    ASSUME CLInv, ParseOpt
    PROVE  CLInv'
<1>1. PICK a, k, g, h, n, s : Stands(a, k, g, h, n, s) /\ CLPhase(a, g, h, n, s)
  BY DEF CLInv
<1>2. /\ UNCHANGED <<program, posix, given>> /\ getopt' = Data(a, k, g, h)
      /\ getopt.argv = a /\ next = n /\ set = s /\ pc = "option"
  BY <1>1, DataIs DEF ParseOpt, Stands
<1>3. GivenOK /\ Total(s)
  BY <1>1 DEF CLInv, Stands
<1>4. Held(a, g, h, n) /\ Took(a, g, h, n, s, found.option, found.arg)
  <2>1. found.option # "argument"
    BY DEF ParseOpt, Mode, Value, Test, ArgpOption, ModeOptions, ValueOptions,
           TypeOptions, OnceOptions, ArgpOptions
  <2>2. QED
    BY <1>1, <1>2, <2>1 DEF CLPhase, AtOption
<1>5. CASE pc' \in {"0", "2"} /\ Meaning(Read) = pc' /\ next' = n /\ set' = s
  BY <1>1, <1>2, <1>5, CLInvNext DEF Stands
<1>6. CASE /\ pc' = "next"
           /\ \E n2, s2 : next' = n2 /\ set' = s2 /\ Goes(a, g, h, n2, s2)
  <2>1. PICK n2, s2 : next' = n2 /\ set' = s2 /\ Goes(a, g, h, n2, s2)
    BY <1>6
  <2>2. AtNext(a, n2, g, h, s2)
    BY <2>1 DEF AtNext
  <2>3. n2 \in 0 .. Argc /\ Total(s2)
    BY <1>3, <2>1, HeldIs DEF Goes, Between
  <2>4. QED
    BY <1>1, <1>2, <1>6, <2>1, <2>2, <2>3, CLInvNext DEF Stands
<1>7. QED
  BY <1>2, <1>3, <1>4, <1>5, <1>6, ParseOptIs

LEMMA ParseNextInv ==
    ASSUME CLInv, ParseNext
    PROVE  CLInv'
<1>1. PICK a, k, g, h, n, s : Stands(a, k, g, h, n, s) /\ CLPhase(a, g, h, n, s)
  BY DEF CLInv
<1>2. GivenOK /\ posix \in BOOLEAN /\ Total(s) /\ Argc \in Nat
  BY <1>1, GivenIs DEF CLInv, Stands
<1>3. [getopt EXCEPT !.optind = next] = Data(a, n, g, h)
  <2>1. [Data(a, k, g, h) EXCEPT !.optind = n] = Data(a, n, g, h)
    BY DataIs
  <2>2. QED
    BY <1>1, <2>1 DEF Stands
<1> DEFINE r == getopt_long(Data(a, n, g, h))
<1>4. /\ UNCHANGED <<program, posix, given>> /\ set' = s
      /\ getopt' = r.d /\ next' = r.d.optind
      /\ found' = [option |-> r.option, arg |-> r.arg]
      /\ pc' = IF r.option = "error" THEN "2"
               ELSE IF r.option = "end" THEN "finalize" ELSE "option"
  BY <1>1, <1>3 DEF ParseNext, Stands
<1>5. Gets(r, s)
  <2>1. AtNext(a, n, g, h, s)
    BY <1>1 DEF CLPhase, ParseNext
  <2>2. PICK f, l, i, want : /\ Advance(Data(a, n, g, h)) = Advance(Data(a, i, f, l))
                             /\ Between(a, f, l, i, s, want)
    BY <2>1 DEF AtNext, Goes
  <2>3. QED
    BY <1>2, <2>2, GetoptIs
<1> HIDE DEF r
<1>6. found'.option = r.option /\ found'.arg = r.arg
  BY <1>4
<1>7. \A b, i, f, l : r.d = Data(b, i, f, l) =>
         getopt' = Data(b, i, f, l) /\ next' = i
  BY <1>4, DataIs
<1>8. CASE \E b, f, l, i : r.d = Data(b, i, f, l) /\ r.option = "end"
                           /\ AtEnd(b, f, l, i, s)
  <2>1. PICK b, f, l, i : r.d = Data(b, i, f, l) /\ r.option = "end"
                          /\ AtEnd(b, f, l, i, s)
    BY <1>8
  <2>2. pc' = "finalize" /\ getopt' = Data(b, i, f, l) /\ next' = i
    BY <1>4, <1>7, <2>1
  <2>3. /\ DOMAIN b = DOMAIN given /\ l \in 0 .. Argc /\ f \in 0 .. l
        /\ i \in 0 .. Argc
    BY <1>2, <2>1 DEF AtEnd, Over
  <2>4. QED
    BY <1>2, <1>4, <2>1, <2>2, <2>3, CLInvNext
<1>9. ASSUME NEW b, NEW f, NEW l, NEW i, Held(b, f, l, i)
      PROVE  /\ DOMAIN b = DOMAIN given /\ l \in 0 .. Argc /\ f \in 0 .. l
             /\ i \in 0 .. Argc
  BY <1>2, <1>9, HeldIs
<1>10. CASE \E b, f, l, i : r.d = Data(b, i, f, l) /\ r.option = "argument"
                            /\ AtArgument(b, f, l, i, s)
  <2>1. PICK b, f, l, i : r.d = Data(b, i, f, l) /\ r.option = "argument"
                          /\ AtArgument(b, f, l, i, s)
    BY <1>10
  <2>2. pc' = "option" /\ getopt' = Data(b, i, f, l) /\ next' = i
    BY <1>4, <1>7, <2>1
  <2>3. Held(b, f, l, i)
    BY <2>1 DEF AtArgument
  <2>4. QED
    BY <1>2, <1>4, <1>6, <1>9, <2>1, <2>2, <2>3, CLInvNext
<1>11. CASE \E b, f, l : Outcome(r, b, f, l, s)
  <2>1. PICK b, f, l, i :
           /\ r.d = Data(b, i, f, l) /\ Held(b, f, l, i)
           /\ \/ r.option = "error" /\ Meaning(Read) = "2"
              \/ Took(b, f, l, i, s, r.option, r.arg)
    BY <1>11 DEF Outcome
  <2>2. getopt' = Data(b, i, f, l) /\ next' = i
    BY <1>7, <2>1
  <2>3. CASE r.option = "error" /\ Meaning(Read) = "2"
    <3>1. pc' = "2"
      BY <1>4, <2>3
    <3>2. QED
      BY <1>2, <1>4, <1>9, <2>1, <2>2, <2>3, <3>1, CLInvNext
  <2>4. CASE Took(b, f, l, i, s, r.option, r.arg)
    <3>1. r.option \in AllOptions
      BY <2>4 DEF Took
    <3>2. pc' = "option"
      BY <1>4, <3>1, OptionKinds
    <3>3. QED
      BY <1>2, <1>4, <1>6, <1>9, <2>1, <2>2, <2>4, <3>2, CLInvNext
  <2>5. QED
    BY <2>1, <2>3, <2>4
<1>12. QED
  BY <1>5, <1>8, <1>10, <1>11 DEF Gets

\* At the end nothing may be left for update-binfmts, and something must be for
\* run-detectors.
LEMMA FinalizeInv ==
    ASSUME CLInv, Finalize
    PROVE  CLInv'
<1>1. PICK a, k, g, h, n, s : Stands(a, k, g, h, n, s) /\ CLPhase(a, g, h, n, s)
  BY DEF CLInv
<1>2. /\ UNCHANGED <<program, posix, given>> /\ getopt' = Data(a, k, g, h)
      /\ next' = n /\ set' = s /\ next = n /\ set = s
  BY <1>1 DEF Finalize, Stands
<1>3. GivenOK /\ AtEnd(a, g, h, n, s) /\ n \in Int /\ Argc \in Int
  BY <1>1, GivenIs DEF CLInv, CLPhase, Finalize, Stands
<1>4. PICK want, plain, m :
         /\ n \in 1 .. Argc /\ Loose(m, a, n, Argc)
         /\ Read = Reading(want, s, m, plain) /\ want \in {<<>>, <<"name?">>}
  BY <1>3 DEF AtEnd, Over
<1>5. (m = <<>>) <=> (n = Argc)
  <2>1. m \in Seq(Words) /\ Len(m) = Argc - n
    BY <1>4 DEF Loose
  <2>2. QED
    BY <1>3, <2>1, EmptySeq, SeqEqual
<1>6. /\ Read.exit = "none" /\ Read.want = want /\ Read.loose = m /\ Read.set = s
  BY <1>4 DEF Reading
<1>7. Meaning(Read) = pc'
  BY <1>2, <1>3, <1>4, <1>5, <1>6 DEF Finalize, Complete, Meaning
<1>8. pc' \in {"main", "2"}
  BY DEF Finalize
<1>9. QED
  BY <1>1, <1>2, <1>3, <1>7, <1>8, CLInvNext DEF Stands

LEMMA CLInvStep ==
    ASSUME CLInv, [CLNext]_clvars
    PROVE  CLInv'
<1>1. CASE CLNext
  BY <1>1, ParseNextInv, ParseArgInv, ParseOptInv, FinalizeInv DEF CLNext
<1>2. CASE UNCHANGED clvars
  <2>1. PICK a, k, g, h, n, s : Stands(a, k, g, h, n, s) /\ CLPhase(a, g, h, n, s)
    BY DEF CLInv
  <2>2. /\ UNCHANGED <<program, posix, given>> /\ getopt' = Data(a, k, g, h)
        /\ next' = n /\ set' = s /\ pc' = pc
        /\ found'.option = found.option /\ found'.arg = found.arg
    BY <1>2, <2>1 DEF clvars, Stands
  <2>3. pc \in {"next", "option", "finalize", "main", "0", "2"}
    BY DEF CLInv
  <2>4. QED
    BY <2>1, <2>2, <2>3, CLInvNext DEF Stands, CLPhase, AtOption
<1>3. QED
  BY <1>1, <1>2

LEMMA CLInvAlways == CLSpec => []CLInv
<1>1. CLInv /\ [CLNext]_clvars => CLInv'
  BY CLInvStep
<1>2. QED
  BY CLInitInv, <1>1, PTL DEF CLSpec

----------------------------------------------------------------------------
\* The members of getopt's data and the index argp keeps stay in range,
\* whatever the arguments are and however they are moved.
THEOREM CLTypeCorrect == CLSpec => []CLTypeOK
<1>1. CLInv => CLTypeOK
  <2> SUFFICES ASSUME CLInv PROVE CLTypeOK
    OBVIOUS
  <2>1. PICK a, k, g, h, n, s : Stands(a, k, g, h, n, s)
    BY DEF CLInv
  <2>2. getopt.argv = a /\ getopt.optind = k /\ getopt.first = g /\ getopt.last = h
    BY <2>1, DataIs DEF Stands
  <2>3. DOMAIN set = Settings
    BY <2>1 DEF Stands, Total
  <2>4. QED
    BY <2>1, <2>2, <2>3 DEF CLTypeOK, CLInv, Stands
<1>2. QED
  BY CLInvAlways, <1>1, PTL

\* For every command line: what getopt, argp and parse_opt make of it together
\* is what it says read once from left to right, and it ends the same way.
THEOREM MeansTheSameAlways == CLSpec => []MeansTheSame
<1>1. CLInv => MeansTheSame
  <2> SUFFICES ASSUME CLInv, pc \in {"main", "0", "2"}
               PROVE  pc = Meaning(Read) /\ (pc = "main" => set = Read.set)
    BY DEF MeansTheSame
  <2>1. PICK a, k, g, h, n, s : Stands(a, k, g, h, n, s) /\ CLPhase(a, g, h, n, s)
    BY DEF CLInv
  <2>2. pc = Meaning(Read)
    BY <2>1 DEF CLPhase
  <2>3. ASSUME pc = "main"
        PROVE  set = Read.set
    <3>1. PICK m, want, plain : Read = Reading(want, s, m, plain)
      BY <2>1, <2>3 DEF CLPhase, AtEnd, Over
    <3>2. QED
      BY <2>1, <3>1 DEF Reading, Stands
  <2>4. QED
    BY <2>2, <2>3
<1>2. QED
  BY CLInvAlways, <1>1, PTL

\* For every command line: what is not read yet stays in its place, and what is
\* left at the end are the arguments passed over, in their order.
THEOREM LeftInOrderAlways == CLSpec => []LeftInOrder
<1>1. CLInv => LeftInOrder
  <2> SUFFICES ASSUME CLInv PROVE LeftInOrder
    OBVIOUS
  <2>1. PICK a, k, g, h, n, s : Stands(a, k, g, h, n, s) /\ CLPhase(a, g, h, n, s)
    BY DEF CLInv
  <2>2. getopt.argv = a /\ next = n /\ n \in Int
    BY <2>1, DataIs DEF Stands
  <2>3. /\ Len(given) \in Int /\ Argc = Len(given) + 1 /\ Argc \in Int
        /\ DOMAIN given = 1 .. Len(given)
    BY GivenIs DEF CLInv
  <2>4. ASSUME pc \in {"next", "option"}, NEW i \in DOMAIN given, i >= n
        PROVE  a[i] = given[i]
    <3>1. PICK f, l, j : Held(a, f, l, j) /\ (j = n \/ (n = 0 /\ j = 1))
      BY <2>1, <2>4 DEF CLPhase, AtNext, AtOption, Goes, Between
    <3>2. i \in j .. Len(given)
      BY <2>2, <2>3, <2>4, <3>1
    <3>3. QED
      BY <3>1, <3>2 DEF Held
  <2>5. ASSUME pc \in {"finalize", "main"}
        PROVE  SubSeq(a, n, Len(given)) = Read.loose
    <3>1. PICK m, want, plain : /\ n \in 1 .. Argc /\ Loose(m, a, n, Argc)
                                /\ Read = Reading(want, s, m, plain)
      BY <2>1, <2>5 DEF CLPhase, AtEnd, Over
    <3>2. /\ m \in Seq(Words) /\ Len(m) = Argc - n
          /\ \A i \in 1 .. Argc - n : m[i] = a[n + i - 1]
      BY <3>1 DEF Loose
    <3>3. \A i \in 1 .. Argc - n : m[i] \in Words
      BY <3>2, ElementOfSeq
    <3>4. ASSUME NEW i \in n .. Len(given)
          PROVE  a[i] \in Words
      <4>1. i - n + 1 \in 1 .. Argc - n /\ n + (i - n + 1) - 1 = i
        BY <2>2, <2>3
      <4>2. QED
        BY <3>2, <3>3, <4>1
    <3> DEFINE t == SubSeq(a, n, Len(given))
    <3>5. /\ t \in Seq(Words)
          /\ Len(t) = IF n <= Len(given) THEN Len(given) - n + 1 ELSE 0
          /\ \A i \in 1 .. Len(given) - n + 1 : t[i] = a[n + i - 1]
      BY <2>2, <2>3, <3>4, SubSeqProperties
    <3> HIDE DEF t
    <3>6. Len(t) = Len(m) /\ \A i \in 1 .. Len(t) : t[i] = m[i]
      BY <2>2, <2>3, <3>1, <3>2, <3>5
    <3>7. t = m
      BY <3>2, <3>5, <3>6, SeqEqual
    <3>8. QED
      BY <3>1, <3>7 DEF Reading, t
  <2>6. QED
    BY <2>2, <2>4, <2>5 DEF LeftInOrder
<1>2. QED
  BY CLInvAlways, <1>1, PTL

\* The texts that are typed are bytes, so expand_hex makes of them what the
\* kernel makes of them, whatever their length.
THEOREM ExpandsAlikeAlways == Spec => []ExpandsAlike
<1> DEFINE TextOK == text \in Bytes
<1>1. Init => TextOK
  BY DEF Init, Bytes
<1>2. TextOK /\ [Next]_ivars => TextOK'
  <2> SUFFICES ASSUME TextOK, [Next]_ivars PROVE TextOK'
    OBVIOUS
  <2>1. CASE TypeMagic
    <3>1. PICK c \in Alphabet : text' = Append(text, c)
      BY <2>1 DEF TypeMagic
    <3>2. c \in 0..255
      BY AlphabetAssumption
    <3>3. QED
      BY <3>1, <3>2, AppendProperties DEF Bytes
  <2>2. CASE UNCHANGED text
    BY <2>2
  <2>3. QED
    BY <2>1, <2>2 DEF Next, ivars
<1>3. TextOK => ExpandsAlike
  BY SameExpansion DEF ExpandsAlike
<1> HIDE DEF TextOK
<1>4. QED
  BY <1>1, <1>2, <1>3, PTL DEF Spec
=============================================================================
