------------------------------ MODULE MCInputs ------------------------------
(***************************************************************************)
(* What reaches update-binfmts from outside: small instances of            *)
(* CommandLine, sequences of pieces of command lines, and of ExpandHex,    *)
(* the texts an accepted --magic may have, typed one character at a time.  *)
(***************************************************************************)
EXTENDS CommandLine, ExpandHex

CONSTANTS MaxPieces, MaxFew, Alphabet, MaxLen

ASSUME AlphabetAssumption == Alphabet \subseteq 0..255

VARIABLE text

ivars == <<clvars, text>>

Long(t) == [dashes |-> 2, text |-> t, value |-> NULL]
LongWith(t, v) == [dashes |-> 2, text |-> t, value |-> v]
Short(t) == [dashes |-> 1, text |-> t, value |-> NULL]

MCBegins ==
    [t \in {"install", "i", "imp", "enable", "d", "find", "magic", "ext", "mask",
            "off", "test", "version", "program-name", "HANG", "pack", "admin",
            "x"} |->
       CASE t = "i"     -> {"install", "import", "importdir"}
         [] t = "imp"   -> {"import", "importdir"}
         [] t = "d"     -> {"display", "disable", "detector"}
         [] t = "ext"   -> {"extension"}
         [] t = "off"   -> {"offset"}
         [] t = "pack"  -> {"package"}
         [] t = "admin" -> {"admindir"}
         [] t = "x"     -> {}
         [] OTHER       -> {t}]

MCWholeNumbers == {Plain("1")}
MCReserved == {Plain("status")}

Pieces == { <<Long("install"), Plain("a"), Plain("i1")>>,
            <<Long("install"), Plain("status")>>, <<Long("install")>>,
            <<LongWith("magic", "m")>>, <<Long("ext")>>, <<Long("mask")>>,
            <<LongWith("off", "1")>>, <<LongWith("off", "x")>>,
            <<Long("enable")>>, <<LongWith("enable", "a")>>, <<Long("find")>>,
            <<Long("imp")>>, <<Long("d")>>, <<Long("x")>>,
            <<Long("test")>>, <<Long("version")>>, <<Short("V")>>,
            <<Short("x")>>, <<Long("pack"), Plain("p1")>>,
            <<LongWith("HANG", "0")>>, <<Long("HANG")>>,
            <<Long("program-name")>>, <<Quote>>, <<Plain("a")>>,
            <<Plain("i1"), Plain("1")>> }

Other == { <<Long("admin")>>, <<LongWith("admin", "1")>>, <<Long("magic")>>,
           <<Long("test")>>, <<Short("?")>>, <<Quote>>, <<Plain("a")>>,
           <<Plain("i1"), Plain("1")>> }

Few == { <<Long("install"), Plain("a"), Plain("i1")>>, <<LongWith("magic", "m")>>,
         <<LongWith("mask", "m")>>, <<Long("enable")>>, <<Quote>>, <<Plain("a")>>,
         <<Long("test")>> }

Lines(pieces, max) ==
    LET upto[n \in 0 .. max] ==
            IF n = 0 THEN {<<>>}
            ELSE upto[n-1] \cup {l \o p : l \in upto[n-1], p \in pieces}
    IN  upto[max]

MCCommandLines == [prog \in Programs |->
                     IF prog = "run-detectors" THEN Lines(Other, MaxPieces)
                     ELSE Lines(Pieces, MaxPieces) \cup Lines(Few, MaxFew)]

----------------------------------------------------------------------------
MagicLine == << Long("install"), Plain("a"), Plain("i1"), LongWith("magic", "m") >>

TypeMagic ==
    /\ pc = "main" /\ given = MagicLine /\ ~posix
    /\ Len(text) < MaxLen
    /\ \E c \in Alphabet : text' = Append(text, c)
    /\ UNCHANGED clvars

Init == CLInit /\ text = <<>>

Next == (CLNext /\ UNCHANGED text) \/ TypeMagic

Spec == Init /\ [][Next]_ivars

\* What the kernel accepts for a magic, update-binfmts expands to the same
\* bytes: the lookahead of four characters, strtol's ideas of a number and the
\* end of the text do not make a difference.
ExpandsAlike == Refused(text) \/ expand_hex(text) = parse_arg(text)
=============================================================================
