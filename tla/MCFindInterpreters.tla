------------------------- MODULE MCFindInterpreters -------------------------
(***************************************************************************)
(* Small instances of FindInterpreters: two formats, files of three bytes. *)
(***************************************************************************)
EXTENDS FindInterpreters

MCNames == {"a", "b"}
MCFormatNames == {"a", "b", "a.tmp", "b.tmp"}
MCTmp == [n \in MCNames |-> IF n = "a" THEN "a.tmp" ELSE "b.tmp"]

\* The texts with their characters: offsets; \x41 (A); \xff\x00 and \x00\xff;
\* A\x00 and \x00A; an extension; words, of which two characters will do.
MCchars ==
    [t \in {"", "0", "1", "-9", "hexA", "ff00", "00ff", "A00", "0041", "a", "magic",
            "extension", ":", "yes", "p1", "i1", "i2", "i3", "det", "no",
            "run-detectors"} |->
       CASE t = ""     -> <<>>
         [] t = "0"    -> <<48>>
         [] t = "1"    -> <<49>>
         [] t = "-9"   -> <<45, 57>>
         [] t = "hexA" -> <<92, 120, 52, 49>>
         [] t = "ff00" -> <<92, 120, 102, 102, 92, 120, 48, 48>>
         [] t = "00ff" -> <<92, 120, 48, 48, 92, 120, 102, 102>>
         [] t = "A00"  -> <<65, 92, 120, 48, 48>>
         [] t = "0041" -> <<92, 120, 48, 48, 65>>
         [] t = "a"    -> <<97>>
         [] t = "magic" -> <<109, 97>>     [] t = "extension" -> <<101, 120>>
         [] t = ":"     -> <<58>>          [] t = "yes"       -> <<121, 101>>
         [] t = "p1"    -> <<112, 49>>     [] t = "i1"        -> <<105, 49>>
         [] t = "i2"    -> <<105, 50>>     [] t = "i3"        -> <<105, 51>>
         [] t = "det"   -> <<100, 101>>    [] t = "no"        -> <<110, 111>>
         [] t = "run-detectors" -> <<114, 117>>]
MCText == DOMAIN MCchars
MCrtrim == [t \in MCText |-> t]

File3(dot, x, y, z) == [dot |-> dot, data |-> <<x, y, z>>]
Short(dot, x) == [dot |-> dot, data |-> <<x>>]
\* The last may be executed only.
MCReadable == {File3(NULL, 65, 66, 65), File3("a", 66, 65, 90), Short("a", 65)}
MCTargets == MCReadable \cup {File3("a", 65, 66, 90)}
MCAccepts == [d \in {"det", "no"} |->
                 IF d = "no" THEN {}
                 ELSE MCTargets \ {File3("a", 66, 65, 90)}]
MCExecutable == {"i1", "i2"}

Magic(m, k, o, i) == [package |-> "p1", type |-> "magic", magic |-> m,
                      mask |-> k, offset |-> o, interpreter |-> i]
Extension(e, i) == [package |-> "p1", type |-> "extension", extension |-> e,
                    interpreter |-> i]
With(args, key, value) == [k \in DOMAIN args \cup {key} |->
                              IF k = key THEN value ELSE args[k]]

MCFindArgs == {Magic("hexA", "", "", "i1"),
               With(Magic("hexA", "", "", "i2"), "detector", "det"),
               With(Magic("hexA", "", "", "i3"), "detector", "det"),
               With(Extension("a", "i2"), "detector", "no"),
               Magic("A00", "ff00", "1", "i1"), Extension("a", "i3")}
\* Only --import lets an offset with a sign pass.
MCFindImports ==
    [n \in {"b"} |-> {<< <<"package", "p1">>, <<"magic", "hexA">>,
                        <<"offset", "-9">>, <<"interpreter", "i1">> >>}]
MCFindModes == [p \in Procs |-> {"install", "import", "disable", "enable"}]
MCInstallOnly == [p \in Procs |-> {"install"}]
MCNoFiles == <<>>
MCAllWrites == [p \in Procs |-> MCNames]

MCZeroMask == {Magic("0041", "00ff", "", "i1")}
=============================================================================
