--------------------------- MODULE UpdateBinfmts ---------------------------
(***************************************************************************)
(* The program update-binfmts (src/update-binfmts.c): invocations that run *)
(* as processes over the administrative directory and the kernel's         *)
(* binfmt_misc.                                                            *)
(*                                                                         *)
(* A process runs one command.  Its steps are cut where it touches state   *)
(* that others see: the scan of the directory and the registration that    *)
(* relies on it, the test of procdir and the write to an entry, the open,  *)
(* the write and the rename of a database file are separate steps.  One    *)
(* step, although the code looks more than once: the pass over the         *)
(* directory (a stat, an open and a read per file), and is_file with the   *)
(* load_format that follows in act_install (531, 557) and act_remove (622, *)
(* 631).  Faults of the environment are switched on by the constant        *)
(* Faults.                                                                 *)
(***************************************************************************)
EXTENDS BinfmtMisc

CONSTANTS
    Procs,         \* invocations of update-binfmts
    Names,         \* the names of formats
    Tmp,           \* Tmp[n]: the name n.tmp
    Reserved,      \* ".", "..", "register", "status"
    RunDetectors,  \* the path of run-detectors
    Yes,           \* the text "yes"
    InstallArgs,   \* the tables main builds for --install
    ImportFiles,   \* ImportFiles[n]: the contents the file n of importdir may
                   \* have; the empty sequence is an empty or unreadable file
    ManualEntries, \* what somebody may write to "register" by hand
    Packages,      \* the values of --package
    Modes,         \* Modes[p]: the commands p may run
    Tests,         \* {FALSE}, or BOOLEAN when --test is used too
    Writes,        \* Writes[p]: the formats p may install, import or remove
    Serial,        \* TRUE when the callers run one invocation at a time
    Faults         \* what may go wrong

Loops == {"enableall", "disableall", "importall"}
Imports == {"import", "importall"}
Installs == Imports \cup {"install"}
AllModes == Installs \cup Loops \cup
            {"remove", "enable", "disable", "display", "displayall"}

AllFaults == {"kill", "reboot", "manual", "switch", "mount", "umount",
              "register", "unregister", "write", "rename", "unlink",
              "opendir"}

ASSUME NamesAssumption ==
    /\ Names \subseteq FormatNames
    /\ Tmp \in [Names -> FormatNames \ Names]
    /\ \A m, n \in Names : Tmp[m] = Tmp[n] => m = n
    /\ NULL \notin FormatNames \cup Reserved

ASSUME TextsAssumption ==
    /\ RunDetectors \in Text \ {""}
    /\ Packages \subseteq Text
    /\ {Yes, ":"} \subseteq Text

ArgKeys == {"package", "type", "offset", "magic", "mask", "extension",
            "interpreter", "detector", "credentials", "preserve"}

ASSUME InputsAssumption ==
    /\ \A args \in InstallArgs :
          /\ args \in [DOMAIN args -> Text \cup {NULL}]
          /\ {"package", "type"} \subseteq DOMAIN args
          /\ args["package"] # NULL
          /\ args["type"] \in {"magic", "extension"}
    /\ ImportFiles \in [DOMAIN ImportFiles ->
          SUBSET Seq(ArgKeys \X ((Text \ Multiline) \cup {NULL}))]
    /\ DOMAIN ImportFiles \subseteq Names \cup Reserved
    /\ ManualEntries \subseteq Regstring

ASSUME RunAssumption ==
    /\ Modes \in [Procs -> SUBSET AllModes]
    /\ Tests \subseteq BOOLEAN
    /\ Writes \in [Procs -> SUBSET Names]
    /\ Serial \in BOOLEAN
    /\ Faults \subseteq AllFaults

VARIABLES
    admin,    \* admin[f]: the lines of the file f of admindir, NULL if none
    proc      \* proc[p]: the state of the invocation p

vars == <<procfs, active, entry, behind, manual, admin, proc>>

----------------------------------------------------------------------------
(***************************************************************************)
(* The state of an invocation.                                             *)
(***************************************************************************)
Labels == {"idle", "install", "manual", "open", "fill", "rename",
           "misc", "mount", "exists", "scan", "register",
           "disable", "diswrite", "discheck", "remove", "unlink",
           "import", "loadall", "loop", "unload", "display"}

Statuses == {"none", "0", "2", "segv", "killed"}

File == Seq(Text) \cup {NULL}
Cache == [FormatNames -> Binfmt \cup {NULL}]

Process == [pc      : Labels,
            mode    : AllModes \cup {"none"},
            name    : FormatNames \cup Reserved \cup {NULL},
            package : Text,
            test    : BOOLEAN,
            new     : Binfmt \cup {NULL},   \* the argument of act_install
            formats : Cache,                \* the table "formats"
            todo    : SUBSET (FormatNames \cup Reserved),
            worked  : BOOLEAN,
            reg     : Regstring \cup {NULL},
            fd      : FormatNames \cup {NULL},  \* the name of the open file
            status  : Statuses]

Idle == [pc |-> "idle", mode |-> "none", name |-> NULL, package |-> ":",
         test |-> FALSE, new |-> NULL,
         formats |-> [n \in FormatNames |-> NULL], todo |-> {},
         worked |-> TRUE, reg |-> NULL, fd |-> NULL, status |-> "none"]

TypeOK ==
    /\ KernelTypeOK
    /\ admin \in [FormatNames -> File]
    /\ proc \in [Procs -> Process]

Init ==
    /\ KernelInit
    /\ admin = [f \in FormatNames |-> NULL]
    /\ proc = [p \in Procs |-> Idle]

----------------------------------------------------------------------------
(***************************************************************************)
(* Reading the administrative directory.  load_format inserts what it read *)
(* into the table, where an older entry stays.  A file without enough      *)
(* lines is skipped when quiet and ends the program otherwise.             *)
(***************************************************************************)
is_file(f) == admin[f] # NULL

Loaded(f) == IF is_file(f) THEN binfmt_load(admin[f]) ELSE NULL

Corrupt(f) == is_file(f) /\ Loaded(f) = NULL

kvhash_insert(table, name, value) ==
    IF table[name] # NULL THEN table ELSE [table EXCEPT ![name] = value]

\* Mutants: the file, or the directory, is not read.
ForgetsFile(table, name) == table
ForgetsDirectory(table) == table

load_format(table, name) == kvhash_insert(table, name, Loaded(name))

load_all_formats(table) ==
    [f \in FormatNames |-> IF table[f] # NULL THEN table[f] ELSE Loaded(f)]

Keys(table) == {f \in FormatNames : table[f] # NULL}

----------------------------------------------------------------------------
(***************************************************************************)
(* Control.  ActReturn(q, ok) is the return of an action function to main, *)
(* or to the loop over all formats that called it with a name; act_import  *)
(* ignores what act_install returns.                                       *)
(***************************************************************************)
Become(p, q) == proc' = [proc EXCEPT ![p] = q]

At(p, label) == proc[p].pc = label

Goto(q, label) == [q EXCEPT !.pc = label]

Exited(st) == [Idle EXCEPT !.status = st]

Finish(ok) == Exited(IF ok THEN "0" ELSE "2")

\* Mutant: the last format alone decides ("worked = ..." for "worked &= ...").
LastDecides(q, ok) ==
    IF q.mode \in Loops /\ q.name # NULL
    THEN [q EXCEPT !.pc = "loop", !.worked = ok, !.name = NULL,
                   !.new = NULL, !.reg = NULL, !.fd = NULL]
    ELSE Finish(ok)

ActReturn(q, ok) ==
    IF q.mode \in Loops /\ q.name # NULL
    THEN [q EXCEPT !.pc = "loop", !.worked = @ /\ ok, !.name = NULL,
                   !.new = NULL, !.reg = NULL, !.fd = NULL]
    ELSE Finish(ok)

Return(q, ok) == ActReturn(q, ok \/ q.mode \in Imports)

\* Mutant: the callers go on when act_disable fails.
DisabledAnyway(q, ok) ==
    IF q.mode \in Installs THEN Goto(q, "manual")
    ELSE IF q.mode = "remove" THEN Goto(q, "unlink")
    ELSE Return(q, ok)

\* act_disable is called by main, by its own loop, by act_install and by
\* act_remove.
Disabled(q, ok) ==
    IF ok /\ q.mode \in Installs THEN Goto(q, "manual")
    ELSE IF ok /\ q.mode = "remove" THEN Goto(q, "unlink")
    ELSE Return(q, ok)

Fault(f) == f \in Faults

----------------------------------------------------------------------------
(***************************************************************************)
(* main: an invocation starts.                                             *)
(***************************************************************************)
CanStart(p, m) ==
    /\ At(p, "idle")
    /\ m \in Modes[p]
    /\ Serial => \A r \in Procs : At(r, "idle")

Command(m, label, n, t) ==
    [Idle EXCEPT !.pc = label, !.mode = m, !.name = n, !.test = t]

\* A newline in an argument makes binfmt_new quit.
StartInstall(p) ==
    /\ CanStart(p, "install")
    /\ \E n \in Writes[p], args \in InstallArgs, t \in Tests :
          Become(p, IF HasNewline(args) THEN Exited("2")
                    ELSE [Command("install", "install", n, t) EXCEPT
                             !.new = binfmt_new(args)])
    /\ UNCHANGED <<kernelVars, admin>>

StartRemove(p) ==
    /\ CanStart(p, "remove")
    /\ \E n \in Writes[p], pkg \in Packages, t \in Tests :
          Become(p, [Command("remove", "remove", n, t) EXCEPT
                        !.package = pkg])
    /\ UNCHANGED <<kernelVars, admin>>

StartImport(p) ==
    /\ CanStart(p, "import")
    /\ \E n \in DOMAIN ImportFiles \cap (Writes[p] \cup Reserved), t \in Tests :
          Become(p, Command("import", "import", n, t))
    /\ UNCHANGED <<kernelVars, admin>>

StartNamed(p) ==
    /\ \E n \in Names, t \in Tests :
          \/ /\ CanStart(p, "enable")
             /\ Become(p, Command("enable", "misc", n, t))
          \/ /\ CanStart(p, "disable")
             /\ Become(p, Command("disable", "disable", n, t))
          \/ /\ CanStart(p, "display")
             /\ Become(p, Command("display", "display", n, t))
    /\ UNCHANGED <<kernelVars, admin>>

StartAll(p) ==
    /\ \E t \in Tests :
          \/ /\ CanStart(p, "enableall")
             /\ Become(p, Command("enableall", "misc", NULL, t))
          \/ /\ CanStart(p, "disableall")
             /\ Become(p, Command("disableall", "disable", NULL, t))
          \/ /\ CanStart(p, "displayall")
             /\ Become(p, Command("displayall", "display", NULL, t))
    /\ UNCHANGED <<kernelVars, admin>>

\* act_import without a name: the files of importdir, in any order.
StartImportAll(p) ==
    /\ CanStart(p, "importall")
    /\ DOMAIN ImportFiles \subseteq Writes[p] \cup Reserved
    /\ \/ \E t \in Tests :
             Become(p, [Command("importall", "loop", NULL, t) EXCEPT
                           !.todo = DOMAIN ImportFiles])
       \/ Fault("opendir") /\ Become(p, Exited("2"))
    /\ UNCHANGED <<kernelVars, admin>>

----------------------------------------------------------------------------
(***************************************************************************)
(* act_enable.                                                             *)
(***************************************************************************)

\* load_binfmt_misc succeeded: one format, or all of them.
MiscLoaded(q) == Goto(q, IF q.name = NULL THEN "loadall" ELSE "exists")

\* load_binfmt_misc as far as the mount.  act_enable returns 1 when it fails.
load_binfmt_misc(p) ==
    LET q == proc[p] IN
    /\ At(p, "misc")
    /\ \/ /\ q.test
          /\ Become(p, MiscLoaded(q))
          /\ UNCHANGED kernelVars
       \/ /\ ~q.test
          /\ KernelSwitchOn
          /\ Become(p, MiscLoaded(q))
       \/ /\ ~q.test
          /\ KernelModprobe
          /\ Become(p, Goto(q, "mount"))
       \/ /\ ~q.test
          /\ procfs = "dir"
          /\ Become(p, Goto(q, "mount"))
          /\ UNCHANGED kernelVars
       \/ /\ ~q.test
          /\ procfs = "absent" /\ Fault("mount")
          /\ Become(p, Return(q, TRUE))
          /\ UNCHANGED kernelVars
    /\ UNCHANGED admin

\* The mount.  It fails too when another process was first.
MountBinfmtMisc(p) ==
    LET q == proc[p] IN
    /\ At(p, "mount")
    /\ \/ /\ KernelMount
          /\ Become(p, MiscLoaded(q))
       \/ /\ procfs # "dir" \/ Fault("mount")
          /\ Become(p, Return(q, TRUE))
          /\ UNCHANGED kernelVars
    /\ UNCHANGED admin

EnableExists(p) ==
    LET q == proc[p] IN
    /\ At(p, "exists")
    /\ Become(p, IF ProcEntry(q.name) THEN Return(q, TRUE)
                 ELSE Goto(q, "scan"))
    /\ UNCHANGED <<kernelVars, admin>>

regstring(b, need_detector) ==
    [type        |-> IF b.type = "magic" THEN "M" ELSE "E",
     offset      |-> Printed(b.offset),
     magic       |-> Printed(b.magic),
     mask        |-> Printed(b.mask),
     interpreter |-> IF need_detector THEN RunDetectors
                     ELSE Printed(b.interpreter),
     flags       |-> (IF b.credentials = Yes THEN {"C"} ELSE {}) \cup
                     (IF b.preserve = Yes THEN {"P"} ELSE {})]

HasDetector(b) == b.detector \notin {NULL, ""}

\* The scan of the table for another format with the same specification.
\* strcmp may meet a null magic before an equal format ends the scan.
Others(table, n) == Keys(table) \ {n}

Equal(table, n) ==
    \E o \in Others(table, n) : /\ binfmt_equals(table[n], table[o])
                                /\ ~EqualsCrashes(table[n], table[o])

ScanCrashes(table, n) ==
    \E o \in Others(table, n) : EqualsCrashes(table[n], table[o])

Scanned(q, table, need_detector) ==
    [q EXCEPT !.pc = "register", !.formats = table,
              !.reg = regstring(table[q.name], need_detector)]

EnableScan(p) ==
    LET q     == proc[p]
        n     == q.name
        table == load_format(q.formats, n)
        all   == load_all_formats(table)
        fresh == IF q.mode = "enableall" THEN Keys(all) \ Keys(q.formats)
                 ELSE {}
    IN
    /\ At(p, "scan")
    /\ \/ /\ Corrupt(n)
          /\ Become(p, Exited("2"))
       \/ /\ ~Corrupt(n) /\ table[n] = NULL
          /\ Become(p, IF q.test THEN Exited("segv") ELSE Return(q, FALSE))
       \/ /\ ~Corrupt(n) /\ table[n] # NULL
          /\ HasDetector(table[n])
          /\ Become(p, Scanned(q, table, TRUE))
       \/ /\ ~Corrupt(n) /\ table[n] # NULL
          /\ ~HasDetector(table[n])
          /\ \/ Fault("opendir") /\ Become(p, Exited("2"))
             \/ ScanCrashes(all, n) /\ Become(p, Exited("segv"))
             \/ /\ Equal(all, n) \/ ~ScanCrashes(all, n)
                \* The loop of act_enable may meet keys that are inserted now.
                /\ \E more \in SUBSET fresh :
                      Become(p, [Scanned(q, all, Equal(all, n)) EXCEPT
                                    !.todo = @ \cup more])
    /\ UNCHANGED <<kernelVars, admin>>

EnableRegister(p) ==
    LET q == proc[p] IN
    /\ At(p, "register")
    /\ \/ /\ q.test
          /\ Become(p, Return(q, TRUE))
          /\ UNCHANGED kernelVars
       \/ /\ ~q.test
          /\ KernelRegister(q.name, q.reg)
          /\ UNCHANGED manual
          /\ Become(p, Return(q, TRUE))
       \/ /\ ~q.test
          /\ \/ procfs # "mounted"
             \/ ~Acceptable(q.name, q.reg)
             \/ Fault("register")
          /\ Become(p, Return(q, FALSE))
          /\ UNCHANGED kernelVars
    /\ UNCHANGED admin

----------------------------------------------------------------------------
(***************************************************************************)
(* act_disable.                                                            *)
(***************************************************************************)
DisableExists(p) ==
    LET q == proc[p] IN
    /\ At(p, "disable")
    /\ \/ /\ procfs = "absent"
          /\ Become(p, Disabled(q, TRUE))
       \/ /\ procfs # "absent" /\ q.name = NULL
          /\ Become(p, Goto(q, "loadall"))
       \/ /\ procfs # "absent" /\ q.name # NULL
          /\ q.test \/ ~ProcEntry(q.name)
          /\ Become(p, Disabled(q, TRUE))
       \/ /\ q.name # NULL /\ ~q.test
          /\ ProcEntry(q.name)
          /\ Become(p, Goto(q, "diswrite"))
    /\ UNCHANGED <<kernelVars, admin>>

DisableWrite(p) ==
    LET q == proc[p] IN
    /\ At(p, "diswrite")
    /\ \/ /\ KernelUnregister(q.name)
          /\ Become(p, Goto(q, "discheck"))
       \/ /\ ~ProcEntry(q.name) \/ Fault("unregister")
          /\ Become(p, Disabled(q, FALSE))
          /\ UNCHANGED kernelVars
    /\ UNCHANGED admin

\* Mutant: the removal is tried again until the kernel has heard.
DisableRetries(p) ==
    LET q == proc[p] IN
    /\ At(p, "discheck")
    /\ Become(p, IF ProcEntry(q.name) THEN Goto(q, "diswrite")
                 ELSE Disabled(q, TRUE))
    /\ UNCHANGED <<kernelVars, admin>>

DisableCheck(p) ==
    LET q == proc[p] IN
    /\ At(p, "discheck")
    /\ Become(p, Disabled(q, ~ProcEntry(q.name)))
    /\ UNCHANGED <<kernelVars, admin>>

----------------------------------------------------------------------------
(***************************************************************************)
(* The loops over all formats.                                             *)
(***************************************************************************)
LoadAll(p) ==
    LET q     == proc[p]
        table == load_all_formats(q.formats)
    IN
    /\ At(p, "loadall")
    /\ \/ /\ Fault("opendir") \/ \E f \in FormatNames : Corrupt(f)
          /\ Become(p, Exited("2"))
       \/ /\ \A f \in FormatNames : ~Corrupt(f)
          /\ Become(p, [q EXCEPT !.pc = "loop", !.formats = table,
                                 !.todo = Keys(table)])
    /\ UNCHANGED <<kernelVars, admin>>

\* The act_* function the loop calls for a format, if it calls it at all.
LoopBody(q, n) ==
    IF q.mode = "importall" THEN "import"
    ELSE IF q.mode = "enableall" /\ ~ProcEntry(n) THEN "misc"
    ELSE IF q.mode = "disableall" /\ ProcEntry(n) THEN "disable"
    ELSE "loop"

Loop(p) ==
    LET q == proc[p] IN
    /\ At(p, "loop")
    /\ \/ \E n \in q.todo :
             Become(p, [q EXCEPT !.pc = LoopBody(q, n), !.todo = @ \ {n},
                                 !.name = IF LoopBody(q, n) = "loop" THEN NULL
                                          ELSE n])
       \/ /\ q.todo = {}
          /\ Become(p, IF q.mode = "disableall" THEN Goto(q, "unload")
                       ELSE Finish(q.worked))
    /\ UNCHANGED <<kernelVars, admin>>

\* Mutant: --test unmounts.
UnloadsInTest(p) ==
    LET q == proc[p] IN
    /\ At(p, "unload")
    /\ Become(p, Finish(q.worked))
    /\ \/ KernelUmount
       \/ procfs # "mounted" /\ UNCHANGED kernelVars
    /\ UNCHANGED admin

\* Errors are ignored; without the module there is nothing to unmount.
unload_binfmt_misc(p) ==
    LET q == proc[p] IN
    /\ At(p, "unload")
    /\ Become(p, Finish(q.worked))
    /\ \/ ~q.test /\ KernelUmount
       \/ /\ q.test \/ procfs # "mounted" \/ Fault("umount")
          /\ UNCHANGED kernelVars
    /\ UNCHANGED admin

----------------------------------------------------------------------------
(***************************************************************************)
(* act_install.                                                            *)
(***************************************************************************)

\* Mutants: the file is written in place; one temporary file serves them all.
InPlace(n) == n
OneForAll(n) == CHOOSE f \in {Tmp[m] : m \in Names} : TRUE

\* The name act_install writes to first.
TmpName(n) == Tmp[n]

\* The file that had the name "from" has the name "to" now (NULL: none).
Relinked(from, to) ==
    [r \in Procs |-> IF proc[r].fd = from THEN [proc[r] EXCEPT !.fd = to]
                     ELSE proc[r]]

InstallLoad(p) ==
    LET q     == proc[p]
        table == load_format(q.formats, q.name)
        old   == table[q.name]
    IN
    /\ At(p, "install")
    /\ Become(p,
          IF old # NULL /\ (q.new = NULL \/ q.new.package = NULL)
          THEN Exited("segv")
          ELSE IF old # NULL /\ q.new.package # old.package
          THEN Return(q, FALSE)
          ELSE [q EXCEPT !.formats = table,
                         !.pc = IF is_file(q.name) THEN "disable"
                                ELSE "manual"])
    /\ UNCHANGED <<kernelVars, admin>>

\* An entry the database does not account for is left alone.  With --test
\* the description is printed, which reads it, and nothing is written.
InstallManual(p) ==
    LET q == proc[p] IN
    /\ At(p, "manual")
    /\ \/ /\ ~q.test
          /\ Become(p, IF ProcEntry(q.name) THEN Return(q, TRUE)
                       ELSE Goto(q, "open"))
       \/ /\ q.test
          /\ Become(p, IF q.new = NULL THEN Exited("segv")
                       ELSE [q EXCEPT !.pc = "misc",
                                !.formats = kvhash_insert(@, q.name, q.new)])
    /\ UNCHANGED <<kernelVars, admin>>

\* binfmt_write: a new empty file.
WriteOpen(p) ==
    LET q   == proc[p]
        tmp == TmpName(q.name)
    IN
    /\ At(p, "open")
    /\ \/ /\ admin' = [admin EXCEPT ![tmp] = <<>>]
          /\ proc' = [Relinked(tmp, NULL) EXCEPT
                         ![p] = [q EXCEPT !.pc = "fill", !.fd = tmp]]
       \/ /\ Fault("write")
          /\ Become(p, Return(q, FALSE))
          /\ UNCHANGED admin
       \/ /\ Fault("write")
          /\ admin' = [admin EXCEPT ![tmp] = NULL]
          /\ proc' = [Relinked(tmp, NULL) EXCEPT ![p] = Return(q, FALSE)]
    /\ UNCHANGED kernelVars

\* binfmt_write: the lines reach the file when it is closed.  A full disk
\* leaves a prefix of them (here: none, or the mandatory ones).
Contents(fd, lines) ==
    IF fd = NULL THEN admin ELSE [admin EXCEPT ![fd] = lines]

WriteFill(p) ==
    LET q == proc[p] IN
    /\ At(p, "fill")
    /\ \/ /\ q.new = NULL
          /\ Become(p, Exited("segv"))
          /\ UNCHANGED admin
       \/ /\ q.new # NULL
          /\ admin' = Contents(q.fd, binfmt_write(q.new))
          /\ Become(p, [q EXCEPT !.pc = "rename", !.fd = NULL])
       \/ /\ q.new # NULL /\ Fault("write")
          /\ \E k \in {0, Mandatory} :
                admin' = Contents(q.fd, SubSeq(binfmt_write(q.new), 1, k))
          /\ Become(p, Return(q, FALSE))
    /\ UNCHANGED kernelVars

\* rename_mv, and the insertion into the table, where an old version stays.
RenameTmp(p) ==
    LET q   == proc[p]
        n   == q.name
        tmp == TmpName(n)
        relinked == [r \in Procs |->
                       IF proc[r].fd = tmp THEN [proc[r] EXCEPT !.fd = n]
                       ELSE IF proc[r].fd = n THEN [proc[r] EXCEPT !.fd = NULL]
                       ELSE proc[r]]
    IN
    /\ At(p, "rename")
    /\ \/ /\ is_file(tmp)
          /\ admin' = [admin EXCEPT ![n] = admin[tmp], ![tmp] = NULL]
          /\ proc' = [relinked EXCEPT
                         ![p] = [q EXCEPT !.pc = "misc",
                                    !.formats = kvhash_insert(@, n, q.new)]]
       \/ /\ ~is_file(tmp) \/ Fault("rename")
          /\ Become(p, Return(q, FALSE))
          /\ UNCHANGED admin
    /\ UNCHANGED kernelVars

----------------------------------------------------------------------------
(***************************************************************************)
(* act_remove, act_import, act_display.                                    *)
(***************************************************************************)
\* Mutant: the file is removed without disabling the format first.
RemovesOnly(p) ==
    LET q     == proc[p]
        table == load_format(q.formats, q.name)
        old   == table[q.name]
    IN
    /\ At(p, "remove")
    /\ Become(p, IF ~is_file(q.name) \/ (old # NULL /\ old.package # q.package)
                 THEN Return(q, TRUE)
                 ELSE [q EXCEPT !.pc = "unlink", !.formats = table])
    /\ UNCHANGED <<kernelVars, admin>>

RemoveLoad(p) ==
    LET q     == proc[p]
        table == load_format(q.formats, q.name)
        old   == table[q.name]
    IN
    /\ At(p, "remove")
    /\ Become(p, IF ~is_file(q.name) \/ (old # NULL /\ old.package # q.package)
                 THEN Return(q, TRUE)
                 ELSE [q EXCEPT !.pc = "disable", !.formats = table])
    /\ UNCHANGED <<kernelVars, admin>>

RemoveUnlink(p) ==
    LET q == proc[p] IN
    /\ At(p, "unlink")
    /\ \/ /\ q.test
          /\ Become(p, Return(q, TRUE))
          /\ UNCHANGED admin
       \/ /\ ~q.test /\ is_file(q.name)
          /\ admin' = [admin EXCEPT ![q.name] = NULL]
          /\ proc' = [Relinked(q.name, NULL) EXCEPT ![p] = Return(q, TRUE)]
       \/ /\ ~q.test
          /\ ~is_file(q.name) \/ Fault("unlink")
          /\ Become(p, Return(q, FALSE))
          /\ UNCHANGED admin
    /\ UNCHANGED kernelVars

\* Mutant: the package is compared with the name it has in messages.
LocalInMessages(table, n) == table[n] # NULL /\ table[n].package = "<local>"

\* A format that was installed by hand (package ":") is kept.
Local(table, n) == table[n] # NULL /\ table[n].package = ":"

Import(p) ==
    LET q     == proc[p]
        table == load_format(q.formats, q.name)
        local == Local(table, q.name)
    IN
    /\ At(p, "import")
    /\ \/ /\ q.name \in Reserved
          /\ Become(p, ActReturn(q, FALSE))
       \/ /\ q.name \notin Reserved
          /\ \E lines \in ImportFiles[q.name] :
                LET args == get_import(lines) IN
                \/ /\ lines = <<>>
                   /\ Become(p, ActReturn(q, FALSE))
                \/ /\ lines # <<>> /\ local
                   /\ Become(p, ActReturn([q EXCEPT !.formats = table], TRUE))
                \/ /\ lines # <<>> /\ ~local
                   /\ Become(p,
                         IF kvhash_exists(args, "package")
                         THEN [q EXCEPT !.pc = "install", !.formats = table,
                                        !.new = binfmt_new(args)]
                         ELSE ActReturn([q EXCEPT !.formats = table], FALSE))
    /\ UNCHANGED <<kernelVars, admin>>

Display(p) ==
    LET n == proc[p].name IN
    /\ At(p, "display")
    /\ Become(p, Finish(IF n = NULL THEN \A f \in FormatNames : ~Corrupt(f)
                        ELSE Loaded(n) # NULL))
    /\ UNCHANGED <<kernelVars, admin>>

----------------------------------------------------------------------------
(***************************************************************************)
(* The environment: an invocation is killed, the machine restarts with the *)
(* administrative directory as it is, somebody uses binfmt_misc directly.  *)
(***************************************************************************)
Kill(p) ==
    /\ Fault("kill")
    /\ ~At(p, "idle")
    /\ Become(p, Exited("killed"))
    /\ UNCHANGED <<kernelVars, admin>>

Reboot ==
    /\ Fault("reboot")
    /\ procfs' = "absent"
    /\ active' = FALSE
    /\ KernelForgets
    /\ proc' = [p \in Procs |-> IF At(p, "idle") THEN proc[p]
                                ELSE Exited("killed")]
    /\ UNCHANGED admin

ManualRegister(n) ==
    /\ Fault("manual")
    /\ \E r \in ManualEntries : KernelRegister(n, r)
    /\ manual' = manual \cup {n}
    /\ UNCHANGED <<admin, proc>>

ManualSwitchOff ==
    /\ Fault("switch")
    /\ procfs = "mounted"
    /\ active' = FALSE
    /\ UNCHANGED <<procfs, entry, behind, manual, admin, proc>>

----------------------------------------------------------------------------
Start(p) ==
    \/ StartInstall(p) \/ StartRemove(p) \/ StartImport(p)
    \/ StartNamed(p) \/ StartAll(p) \/ StartImportAll(p)

Step(p) ==
    \/ load_binfmt_misc(p) \/ MountBinfmtMisc(p) \/ EnableExists(p)
    \/ EnableScan(p) \/ EnableRegister(p)
    \/ DisableExists(p) \/ DisableWrite(p) \/ DisableCheck(p)
    \/ LoadAll(p) \/ Loop(p) \/ unload_binfmt_misc(p)
    \/ InstallLoad(p) \/ InstallManual(p)
    \/ WriteOpen(p) \/ WriteFill(p) \/ RenameTmp(p)
    \/ RemoveLoad(p) \/ RemoveUnlink(p) \/ Import(p) \/ Display(p)

Next ==
    \/ \E p \in Procs : Start(p) \/ Step(p) \/ Kill(p)
    \/ Reboot
    \/ \E n \in Names : ManualRegister(n)
    \/ ManualSwitchOff

Spec == Init /\ [][Next]_vars

\* An invocation that runs is scheduled, and no call it makes blocks.
FairSpec == Spec /\ \A p \in Procs : WF_vars(Step(p))

----------------------------------------------------------------------------
(***************************************************************************)
(* Properties.                                                             *)
(***************************************************************************)

\* At no time two running invocations work on the same format: the callers
\* run one at a time, or each has formats of its own.
Exclusive ==
    \/ Serial
    \/ \A p, r \in Procs : p # r => Writes[p] \cap Writes[r] = {}

\* The database never holds a torn file: whatever is killed, fails or runs
\* beside it, a file of admindir has all the lines binfmt_write writes,
\* because act_install goes through a temporary file and rename.
DatabaseIntegrity ==
    \A n \in Names : is_file(n) => Len(admin[n]) = Len(Fields)

\* A format changes hands only by being removed first: act_install replaces
\* a file only by one of the same package, and act_remove unlinks only for
\* the package the file names ("rely on the calling logic to check that the
\* entry in admindir belongs to the same package").
OwnershipKept ==
    \A n \in Names :
        is_file(n) /\ admin'[n] # admin[n] =>
            \/ is_file(n)' /\ Loaded(n)'.package = Loaded(n).package
            \/ /\ ~is_file(n)'
               /\ \E p \in Procs : /\ At(p, "unlink") /\ proc[p].name = n
                                   /\ proc[p].package = Loaded(n).package

OwnershipPreserved == [][OwnershipKept]_vars

\* A format the administrator installed (package ":") survives imports: only
\* --install or --remove touches its file.
LocalKept ==
    \A n \in Names :
        is_file(n) /\ Loaded(n).package = ":" /\ admin'[n] # admin[n] =>
            \E p \in Procs : proc[p].name = n /\ proc[p].mode \notin Imports
                             /\ proc[p].pc \in {"rename", "unlink"}

LocalPreserved == [][LocalKept]_vars

\* The kernel never holds an entry that update-binfmts made for a format the
\* database does not know any more: act_remove and act_install deal with the
\* kernel before the file, and a failure in between stops them.
NoOrphan ==
    \A n \in Names : entry[n] # NULL /\ n \notin manual => is_file(n)

\* A format with a detector is not shadowed: no entry that the kernel tries
\* before it matches the same files and bypasses run-detectors.  "If any
\* detectors are present for a given kernel-level format, then [...]
\* run-detectors (or similar) is called instead of the usual interpreter"
\* (doc/detectors).
NoShadowedDetector ==
    \A a \in FormatNames, d \in Names :
        /\ entry[a] # NULL /\ a \notin manual
        /\ entry[d] # NULL /\ d \notin manual
        /\ d \in behind[a]
        /\ SameSpec(entry[a], entry[d])
        /\ Loaded(d) # NULL
        /\ HasDetector(Loaded(d))
        /\ SameSpec(regstring(Loaded(d), TRUE), entry[d])
        => entry[a].interpreter = RunDetectors

\* --test: "Don't do anything, just demonstrate what would be done."
TestStep ==
    \A p \in Procs : proc[p].test /\ Step(p) => UNCHANGED <<kernelVars, admin>>

TestInert == [][TestStep]_vars

\* What exit status 0 promises of a command that was really run.  An entry
\* somebody made by hand, and a binfmt_misc that cannot be mounted, excuse.
Succeeds(p, m) ==
    /\ ~At(p, "idle") /\ proc[p].mode = m /\ ~proc[p].test
    /\ proc'[p].pc = "idle" /\ proc'[p].status = "0"

InstallDone(n, new) ==
    \/ n \in manual'
    \/ admin'[n] = binfmt_write(new) /\ (procfs' = "mounted" => ProcEntry(n)')

NamedDone(p, n) ==
    /\ Succeeds(p, "install") => InstallDone(n, proc[p].new)
    /\ Succeeds(p, "remove") =>
          IF is_file(n)' THEN Loaded(n)'.package # proc[p].package
          ELSE ProcEntry(n)' => n \in manual'
    /\ Succeeds(p, "enable") => (procfs' = "mounted" => ProcEntry(n)')
    /\ Succeeds(p, "disable") => (ProcEntry(n)' => n \in manual')

SuccessStep ==
    \A p \in Procs :
        /\ \A n \in Names : proc[p].name = n => NamedDone(p, n)
        /\ Succeeds(p, "enableall") =>
              \A f \in FormatNames :
                  is_file(f)' /\ procfs' = "mounted" => ProcEntry(f)'
        /\ Succeeds(p, "disableall") =>
              \A f \in FormatNames :
                  is_file(f)' /\ ProcEntry(f)' => f \in manual'

SuccessMeansDone == [][SuccessStep]_vars

\* Every command ends.
Terminates == \A p \in Procs : ~At(p, "idle") ~> At(p, "idle")
=============================================================================
