------------------------------ MODULE ExpandHex ------------------------------
(***************************************************************************)
(* expand_hex and atoi of src/find.c: from the text of a magic, a mask or  *)
(* an offset to the bytes or the number it stands for.  A text is the      *)
(* sequence of its character codes, without the NUL at its end; a result   *)
(* of expand_hex may contain NULs, which is why the code keeps its size.   *)
(***************************************************************************)
EXTENDS Integers, Sequences, FiniteSets

Backslash == 92
Blanks    == {9, 10, 11, 12, 13, 32}
Signs     == {43, 45}
Digits    == 48..57
HexDigits == Digits \cup (65..70) \cup (97..102)

HexValue(c) == IF c \in Digits THEN c - 48
               ELSE IF c \in 65..70 THEN c - 55 ELSE c - 87

\* strtol (in, &end, 16) with two characters reads both when the second is a
\* digit and the first a digit, a blank or a sign.
ReadsBoth(a, b) == a \in HexDigits \cup Blanks \cup Signs /\ b \in HexDigits

strtol(a, b) ==
    LET low == HexValue(b) IN
    IF a \in HexDigits THEN 16 * HexValue(a) + low
    ELSE IF a = 45 THEN -low ELSE low

\* Mutant: the last escape of a text is missed ("<" for "<=").
EscapeNotLast(s, i) ==
    /\ i + 3 < Len(s)
    /\ s[i] = Backslash /\ s[i+1] = 120
    /\ ReadsBoth(s[i+2], s[i+3])

Escape(s, i) ==
    /\ i + 3 <= Len(s)
    /\ s[i] = Backslash /\ s[i+1] = 120
    /\ ReadsBoth(s[i+2], s[i+3])

\* The loop: the rest of the text from character i on.
expand_hex(s) ==
    LET rest[i \in 1 .. Len(s) + 1] ==
            IF i > Len(s) THEN <<>>
            ELSE IF Escape(s, i)
                 THEN <<strtol(s[i+2], s[i+3]) % 256>> \o rest[i+4]
                 ELSE <<s[i]>> \o rest[i+1]
    IN  rest[1]

\* The kernel's own expansion, as the emulator of the test suite does it
\* (parse_arg in tests/binfmt_misc.py): it refuses a text in which \x is not
\* followed by two digits.
EscapeStarts(s) ==
    {i \in 1 .. Len(s) - 1 : s[i] = Backslash /\ s[i+1] = 120}

Refused(s) ==
    \E i \in EscapeStarts(s) :
        i + 3 > Len(s) \/ ~({s[i+2], s[i+3]} \subseteq HexDigits)

parse_arg(s) ==
    LET start == EscapeStarts(s)
        kept  == {i \in 1 .. Len(s) : start \cap (i-3 .. i-1) = {}}
        byte(i) == IF i \in start
                   THEN 16 * HexValue(s[i+2]) + HexValue(s[i+3]) ELSE s[i]
        nth[i \in kept] == Cardinality({j \in kept : j <= i})
    IN  [k \in 1 .. Cardinality(kept) |->
            byte(CHOOSE i \in kept : nth[i] = k)]

----------------------------------------------------------------------------
\* atoi: blanks, a sign, digits; the rest does not count.  The number is
\* assumed to fit an int.
atoi(s) ==
    LET blank[i \in 0 .. Len(s)] == i = 0 \/ (blank[i-1] /\ s[i] \in Blanks)
        signed  == \E i \in 1 .. Len(s) : blank[i-1] /\ s[i] \in Signs
        minus   == \E i \in 1 .. Len(s) : blank[i-1] /\ s[i] = 45
        first   == Cardinality({i \in 1 .. Len(s) : blank[i]})
                       + (IF signed THEN 1 ELSE 0)
        upto[i \in first .. Len(s)] ==
            IF i = first THEN [num |-> 0, on |-> TRUE]
            ELSE IF upto[i-1].on /\ s[i] \in Digits
                 THEN [num |-> 10 * upto[i-1].num + (s[i] - 48), on |-> TRUE]
                 ELSE [num |-> upto[i-1].num, on |-> FALSE]
    IN  IF minus THEN -upto[Len(s)].num ELSE upto[Len(s)].num

=============================================================================
