-------------------------- MODULE MCUpdateBinfmts --------------------------
(***************************************************************************)
(* Small instances of UpdateBinfmts for TLC: two formats a and b.          *)
(***************************************************************************)
EXTENDS Claims, RegistryRefinement

MCNames == {"a", "b"}
MCFormatNames == {"a", "b", "a.tmp", "b.tmp"}
MCTmp == [n \in MCNames |-> IF n = "a" THEN "a.tmp" ELSE "b.tmp"]
MCReserved == {"register"}

\* Texts: the fixed ones, packages p1 p2, magics m m2, the same with a blank
\* at its end, interpreters i1 i2, a detector, and one with a newline.
MCText == {"", "0", "magic", "extension", ":", "yes", "p1", "p2",
           "m", "m2", "m ", "i1", "i2", "det", "run-detectors", "x\ny"}
MCMultiline == {"x\ny"}
MCrtrim == [t \in MCText |-> IF t = "m " THEN "m" ELSE t]

\* One kernel specification m: plain, and with a detector.
Plain(pkg) == [package |-> pkg, type |-> "magic", magic |-> "m",
               interpreter |-> "i1"]
Detected(pkg) == [package |-> pkg, type |-> "magic", magic |-> "m",
                  interpreter |-> "i2", detector |-> "det"]

MCSerialArgs == {Plain("p1"), Detected("p1"), Detected("p2")}
MCManual == {[type |-> "M", offset |-> "0", magic |-> "m2", mask |-> "",
              interpreter |-> "i1", flags |-> {}]}
MCNoFiles == <<>>
MCPackages == {"p1", "p2"}
MCAllWrites == [p \in Procs |-> MCNames]

\* serial
MCSerialModes == [p \in Procs |-> {"install", "remove", "enableall",
                                    "disableall", "enable", "disable"}]
MCSerialFaults == {"kill", "reboot", "mount", "umount", "register", "rename"}

\* failures: one format, everything that can go wrong
MCOneName == {"a"}
MCOneFormatNames == {"a", "a.tmp"}
MCOneTmp == [n \in MCOneName |-> "a.tmp"]
MCOneWrites == [p \in Procs |-> MCOneName]
Flagged == [package |-> "p2", type |-> "extension", extension |-> "m2",
            interpreter |-> "i1", credentials |-> "yes", preserve |-> "yes"]
Newline == [package |-> "p1", type |-> "magic", magic |-> "x\ny",
            interpreter |-> "i1"]
Blank == [package |-> ":", type |-> "magic", magic |-> "m ",
          interpreter |-> "i1", offset |-> ""]
Masked == [package |-> "p1", type |-> "extension", extension |-> "m",
           mask |-> "m", interpreter |-> "i1"]
MCFailureArgs == {Plain("p1"), Flagged, Newline, Blank, Masked}
MCFailureFaults == AllFaults
MCAllModes == [p \in Procs |-> AllModes]

\* imports
Lines(pkg, interp) ==
    << <<"package", pkg>>, <<"magic", "m">>, <<"interpreter", interp>> >>
MCImportFiles ==
    [n \in {"a", "b", "register"} |->
       CASE n = "a" -> {Lines("p1", "i1"),
                        Append(Lines("p1", "i2"), <<"detector", "det">>)}
         [] n = "b" -> {<<>>, Lines("p1", "i1"), Lines(":", "i2"),
                        << <<"magic", "m">> >>, << <<"package", NULL>> >>,
                        << <<"package", NULL>>, <<"magic", "m">> >>,
                        << <<"package", "p1">>, <<"type", "magic">> >>,
                        Append(Lines("p2", "i2"), <<"package", "p1">>)}
         [] OTHER   -> {}]
MCImportArgs == {Plain(":"), Plain("p1")}
MCImportModes == [p \in Procs |-> {"install", "remove", "import",
                                    "importall", "enableall"}]
MCImportFaults == {"mount", "opendir"}

\* concurrent: each process has a format of its own, the second works on
\* them all too
MCOwnWrites == [p \in Procs |-> IF p = "p1" THEN {"a"} ELSE {"b"}]
MCConcurrentArgs == {Plain("p1")}
MCConcurrentModes ==
    [p \in Procs |-> IF p = "p1" THEN {"install", "remove"}
                      ELSE {"install", "enableall", "disableall"}]
MCConcurrentFaults == {"unregister"}

\* claims: one invocation at a time, or two, and the commands each needs
Other(pkg) == [package |-> pkg, type |-> "magic", magic |-> "m",
               interpreter |-> "i2"]
MCUpgradeArgs == {Plain("p1"), Other("p1")}
MCPairArgs == {Plain("p1"), Detected("p1")}
MCInstallOnly == [p \in Procs |-> {"install"}]
MCInstallEnableAll == [p \in Procs |-> {"install", "enableall"}]
=============================================================================
