------------------------- MODULE UpdateBinfmtsProofs -------------------------
(***************************************************************************)
(* What holds of update-binfmts for every set of formats and processes,    *)
(* every input, and every fault.                                           *)
(***************************************************************************)
EXTENDS UpdateBinfmts, DataProofs

(***************************************************************************)
(* Facts about the operators of Format: what a description is made of      *)
(* wherever it comes from.                                                 *)
(***************************************************************************)

\* get_import yields a table over the keys of the file (kvhash_insert keeps
\* the first value of a key).
LEMMA ImportType ==
    ASSUME NEW K, NEW V, NEW lines \in Seq(K \X V)
    PROVE  /\ get_import(lines) \in [DOMAIN get_import(lines) -> V]
           /\ DOMAIN get_import(lines) \subseteq K
<1> DEFINE keys == {lines[i][1] : i \in DOMAIN lines}
<1> DEFINE first(k) == CHOOSE i \in DOMAIN lines :
                          /\ lines[i][1] = k
                          /\ \A j \in 1..(i-1) : lines[j][1] # k
<1>1. /\ DOMAIN lines = 1..Len(lines)
      /\ Len(lines) \in Nat
      /\ \A i \in DOMAIN lines : lines[i] \in K \X V
  OBVIOUS
<1>2. ASSUME NEW k \in keys
      PROVE  first(k) \in DOMAIN lines
  <2> DEFINE T == {i \in DOMAIN lines : lines[i][1] = k}
  <2>1. T \subseteq Nat /\ T # {}
    BY <1>1
  <2>2. PICK m \in T : \A j \in T : ~(j < m)
    BY <2>1, Least
  <2>3. \A j \in 1..(m-1) : lines[j][1] # k
    BY <1>1, <2>2
  <2>4. QED
    BY <2>2, <2>3
<1>3. get_import(lines) = [k \in keys |-> lines[first(k)][2]]
  BY DEF get_import
<1> HIDE DEF first
<1>4. \A k \in keys : lines[first(k)][2] \in V
  BY <1>1, <1>2
<1>5. keys \subseteq K
  BY <1>1
<1>6. QED
  BY <1>3, <1>4, <1>5

----------------------------------------------------------------------------
\* binfmt_new yields a description or the null pointer.
LEMMA NewType ==
    ASSUME NEW args, args \in [DOMAIN args -> Text \cup {NULL}]
    PROVE  binfmt_new(args) \in Binfmt \cup {NULL}
<1>1. \A k : kvhash_lookup(args, k) \in Text \cup {NULL}
  BY DEF kvhash_lookup
<1>2. TypeGiven(args) \in Text \cup {NULL}
  BY <1>1, TextAssumption DEF TypeGiven
<1>3. Described(args) \in Binfmt
  BY <1>1, <1>2, TextAssumption DEF Described, Binfmt
<1>4. QED
  BY <1>3 DEF binfmt_new

\* binfmt_write writes one line for every field, and only texts.
LEMMA WriteType ==
    ASSUME NEW b \in Binfmt
    PROVE  /\ binfmt_write(b) \in Seq(Text)
           /\ Len(binfmt_write(b)) = 9
<1>1. /\ Line(b.package) \in Text /\ Line(b.type) \in Text
      /\ Line(b.offset) \in Text /\ Line(b.magic) \in Text
      /\ Line(b.mask) \in Text /\ Line(b.interpreter) \in Text
      /\ Line(b.detector) \in Text /\ Line(b.credentials) \in Text
      /\ Line(b.preserve) \in Text
  BY TextAssumption DEF Line, Binfmt
<1>2. QED
  BY <1>1 DEF binfmt_write

\* binfmt_load yields a description without null fields, or the null pointer.
LEMMA ReadLineType ==
    ASSUME NEW file \in Seq(Text), NEW i \in Nat \ {0}
    PROVE  ReadLine(file, i) \in Text
<1>1. i <= Len(file) => file[i] \in Text
  OBVIOUS
<1>2. QED
  BY <1>1, TextAssumption, RtrimAssumption DEF ReadLine

LEMMA LoadType ==
    ASSUME NEW file \in Seq(Text)
    PROVE  /\ binfmt_load(file) \in Binfmt \cup {NULL}
           /\ binfmt_load(file) # NULL => binfmt_load(file).package \in Text
           /\ Len(file) >= Mandatory => binfmt_load(file) \in Binfmt
<1>1. \A i \in 1..9 : ReadLine(file, i) \in Text
  BY ReadLineType
<1>2. CASE Len(file) < Mandatory
  BY <1>2 DEF binfmt_load, Mandatory
<1>3. CASE ~(Len(file) < Mandatory)
  <2>1. binfmt_load(file) \in Binfmt /\ binfmt_load(file).package \in Text
    BY <1>1, <1>3 DEF binfmt_load, Binfmt
  <2>2. QED
    BY <2>1
<1>4. QED
  BY <1>2, <1>3

\* A file with all its lines is a description; what is read from a file has
\* been trimmed already; and what was written is read back, trimmed.
LEMMA LoadTrimmed ==
    ASSUME NEW file \in Seq(Text), Len(file) >= Mandatory
    PROVE  /\ binfmt_load(file) # NULL
           /\ binfmt_load(file).package \in Text
           /\ rtrim[binfmt_load(file).package] = binfmt_load(file).package
<1>1. Len(file) \in Nat /\ 1 <= Len(file) /\ ~(Len(file) < Mandatory)
  BY DEF Mandatory
<1>2. binfmt_load(file) \in Binfmt
  BY LoadType
<1>3. binfmt_load(file).package = rtrim[file[1]] /\ file[1] \in Text
  BY <1>1 DEF binfmt_load, ReadLine
<1>4. QED
  BY <1>2, <1>3, NullAssumption, RtrimAssumption

LEMMA WriteLoad ==
    ASSUME NEW b \in Binfmt
    PROVE  binfmt_load(binfmt_write(b)).package = rtrim[Line(b.package)]
<1>1. Len(binfmt_write(b)) = 9 /\ binfmt_write(b)[1] = Line(b.package)
  BY DEF binfmt_write
<1>2. QED
  BY <1>1 DEF binfmt_load, ReadLine, Mandatory

----------------------------------------------------------------------------
(***************************************************************************)
(* Control(p, q): where an invocation p in state q is, which format it may *)
(* be working on and what it still has to do.  The types depend on it: the *)
(* open file, for one, has a name only because the format has one.         *)
(***************************************************************************)
Writers == Installs \cup {"remove"}

Control(p, q) ==
    /\ q.pc \in {"misc", "mount", "disable"} => q.name \in FormatNames \cup {NULL}
    /\ q.pc \in {"exists", "scan", "register", "diswrite", "discheck"} =>
          q.name \in FormatNames
    /\ q.pc = "register" => q.reg \in Regstring
    /\ q.mode \in Writers /\ q.pc \notin {"import", "loop"} =>
          q.name \in Writes[p]
    /\ q.pc \in {"install", "manual", "open", "fill", "rename"} =>
          q.mode \in Installs
    /\ q.pc \in {"remove", "unlink"} => q.mode = "remove"
    /\ q.pc = "import" => /\ q.mode \in Imports
                          /\ q.name \in DOMAIN ImportFiles
                          /\ q.name \in Writes[p] \cup Reserved
    /\ q.pc = "loadall" => q.name = NULL
    /\ q.mode = "importall" =>
          q.todo \subseteq DOMAIN ImportFiles \cap (Writes[p] \cup Reserved)
    /\ q.mode # "importall" => q.todo \subseteq FormatNames
    /\ q.fd # NULL => q.pc = "fill"

Sound(p, q) == q \in Process /\ Control(p, q)

Inv == TypeOK /\ \A p \in Procs : Control(p, proc[p])

----------------------------------------------------------------------------
(***************************************************************************)
(* The states a process may go to.                                         *)
(***************************************************************************)
LEMMA IdleSound ==
    ASSUME NEW p, NEW st \in Statuses
    PROVE  Sound(p, Exited(st)) /\ Sound(p, Idle)
<1>1. Idle \in Process
  BY TextsAssumption DEF Idle, Process, Labels, Cache, Statuses
<1>2. Exited(st) \in Process
  BY <1>1 DEF Exited, Process, Idle
<1>3. Control(p, Exited(st)) /\ Control(p, Idle)
  BY DEF Control, Exited, Idle, Writers, Installs, Imports
<1>4. QED
  BY <1>1, <1>2, <1>3 DEF Sound

LEMMA FinishSound ==
    ASSUME NEW p, NEW ok \in BOOLEAN
    PROVE  Sound(p, Finish(ok))
BY IdleSound DEF Finish, Statuses

\* Moving to another label keeps the type.
LEMMA GotoType ==
    ASSUME NEW q \in Process, NEW label \in Labels
    PROVE  Goto(q, label) \in Process
BY DEF Goto, Process

\* So does moving on with another table, or with another format.
LEMMA TableGotoType ==
    ASSUME NEW q \in Process, NEW label \in Labels, NEW table \in Cache
    PROVE  /\ [q EXCEPT !.formats = table, !.pc = label] \in Process
           /\ [q EXCEPT !.pc = label, !.formats = table] \in Process
BY DEF Process

LEMMA NameGotoType ==
    ASSUME NEW q \in Process, NEW label \in Labels,
           NEW rest \in SUBSET (FormatNames \cup Reserved),
           NEW name \in FormatNames \cup Reserved \cup {NULL}
    PROVE  [q EXCEPT !.pc = label, !.todo = rest, !.name = name] \in Process
BY DEF Process

\* A return from an action function, to main or to the loop.
LEMMA ReturnSound ==
    ASSUME NEW p, NEW q, Sound(p, q), NEW ok \in BOOLEAN
    PROVE  Sound(p, ActReturn(q, ok)) /\ Sound(p, Return(q, ok))
<1>1. ASSUME NEW b \in BOOLEAN
      PROVE  Sound(p, ActReturn(q, b))
  <2> DEFINE worked == q.worked /\ b
  <2> DEFINE loop == [q EXCEPT !.pc = "loop", !.worked = worked,
                               !.name = NULL, !.new = NULL, !.reg = NULL,
                               !.fd = NULL]
  <2>0. worked \in BOOLEAN
    OBVIOUS
  <2> HIDE DEF worked
  <2>1. loop \in Process
    BY <2>0 DEF Sound, Process, Labels
  <2>2. /\ loop.pc = "loop" /\ loop.mode = q.mode /\ loop.todo = q.todo
        /\ loop.fd = NULL
    <3>1. q \in Process
      BY DEF Sound
    <3>2. QED
      BY <3>1 DEF Process
  <2> HIDE DEF loop
  <2>3. Control(p, loop)
    BY <2>2 DEF Sound, Control
  <2> USE DEF loop, worked
  <2>4. QED
    BY <2>1, <2>3, FinishSound DEF ActReturn, Sound
<1>2. (ok \/ q.mode \in Imports) \in BOOLEAN
  OBVIOUS
<1>3. QED
  BY <1>1, <1>2 DEF Return

\* A return from act_disable.
LEMMA DisabledSound ==
    ASSUME NEW p \in Procs, NEW q, Sound(p, q), NEW ok \in BOOLEAN,
           q.pc \in {"disable", "diswrite", "discheck"}
    PROVE  Sound(p, Disabled(q, ok))
<1>1. ASSUME q.mode \in Installs
      PROVE  Sound(p, Goto(q, "manual"))
  <2>1. Goto(q, "manual") \in Process
    BY GotoType DEF Sound, Labels
  <2>2. Control(p, Goto(q, "manual"))
    BY <1>1 DEF Sound, Control, Process, Goto, Writers
  <2>3. QED
    BY <2>1, <2>2 DEF Sound
<1>2. ASSUME q.mode = "remove"
      PROVE  Sound(p, Goto(q, "unlink"))
  <2>1. Goto(q, "unlink") \in Process
    BY GotoType DEF Sound, Labels
  <2>2. Control(p, Goto(q, "unlink"))
    BY <1>2 DEF Sound, Control, Process, Goto, Writers
  <2>3. QED
    BY <2>1, <2>2 DEF Sound
<1>3. QED
  BY <1>1, <1>2, ReturnSound DEF Disabled

\* The return of load_binfmt_misc.
LEMMA MiscLoadedSound ==
    ASSUME NEW p \in Procs, NEW q, Sound(p, q), q.pc \in {"misc", "mount"}
    PROVE  Sound(p, MiscLoaded(q))
<1>1. MiscLoaded(q) \in Process
  BY GotoType DEF MiscLoaded, Sound, Labels
<1>2. Control(p, MiscLoaded(q))
  BY DEF Sound, Control, Process, MiscLoaded, Goto
<1>3. QED
  BY <1>1, <1>2 DEF Sound

\* One process moves, the others stay.
LEMMA BecomeSound ==
    ASSUME Inv, NEW p \in Procs, NEW q, Sound(p, q), Become(p, q)
    PROVE  proc' \in [Procs -> Process] /\ \A r \in Procs : Control(r, proc'[r])
BY DEF Inv, TypeOK, Sound, Become

----------------------------------------------------------------------------
\* What is read from the administrative directory.
LEMMA TableType ==
    ASSUME TypeOK, NEW table \in Cache
    PROVE  /\ \A f \in FormatNames : Loaded(f) \in Binfmt \cup {NULL}
           /\ load_all_formats(table) \in Cache
           /\ \A n : load_format(table, n) \in Cache
           /\ \A n : \A b \in Binfmt \cup {NULL} :
                 kvhash_insert(table, n, b) \in Cache
<1>1. \A f \in FormatNames : Loaded(f) \in Binfmt \cup {NULL}
  BY LoadType DEF TypeOK, File, Loaded, is_file
<1>2. load_all_formats(table) \in Cache
  BY <1>1 DEF load_all_formats, Cache
<1>3. \A n : load_format(table, n) \in Cache
  BY <1>1 DEF load_format, kvhash_insert, Cache
<1>4. \A n : \A b \in Binfmt \cup {NULL} : kvhash_insert(table, n, b) \in Cache
  BY DEF kvhash_insert, Cache
<1>5. QED
  BY <1>1, <1>2, <1>3, <1>4

LEMMA RegstringType ==
    ASSUME NEW b \in Binfmt, NEW need \in BOOLEAN
    PROVE  regstring(b, need) \in Regstring
BY TextsAssumption DEF regstring, Regstring, Printed, Binfmt

----------------------------------------------------------------------------
(***************************************************************************)
(* What is common to the steps: one process moves to a sound state, and    *)
(* the kernel and the directory keep their types.                          *)
(***************************************************************************)
LEMMA InvSound ==
    ASSUME Inv, NEW p \in Procs
    PROVE  Sound(p, proc[p])
BY DEF Inv, TypeOK, Sound

LEMMA Moves ==
    ASSUME Inv, NEW p \in Procs, NEW q, Sound(p, q), Become(p, q),
           KernelTypeOK', admin' \in [FormatNames -> File]
    PROVE  Inv'
BY BecomeSound DEF Inv, TypeOK

LEMMA MovesAlone ==
    ASSUME Inv, NEW p \in Procs, NEW q, Sound(p, q), Become(p, q),
           UNCHANGED <<kernelVars, admin>>
    PROVE  Inv'
<1>1. KernelTypeOK' /\ admin' \in [FormatNames -> File]
  BY DEF Inv, TypeOK, KernelTypeOK, kernelVars
<1>2. QED
  BY <1>1, Moves

LEMMA KernelType ==
    ASSUME Inv
    PROVE  /\ UNCHANGED kernelVars => KernelTypeOK'
           /\ KernelModprobe => KernelTypeOK'
           /\ KernelMount => KernelTypeOK'
           /\ KernelSwitchOn => KernelTypeOK'
           /\ KernelUmount => KernelTypeOK'
           /\ \A n : KernelUnregister(n) => KernelTypeOK'
           /\ \A n : \A r \in Regstring :
                 KernelRegister(n, r) /\ manual' \subseteq FormatNames
                    => KernelTypeOK'
<1> USE DEF KernelTypeOK
<1>1. KernelTypeOK
  BY DEF Inv, TypeOK
<1>2. UNCHANGED kernelVars => KernelTypeOK'
  BY <1>1 DEF kernelVars
<1>3. KernelModprobe => KernelTypeOK'
  BY <1>1 DEF KernelModprobe
<1>4. KernelMount => KernelTypeOK'
  BY <1>1 DEF KernelMount
<1>5. KernelSwitchOn => KernelTypeOK'
  BY <1>1 DEF KernelSwitchOn
<1>6. KernelUmount => KernelTypeOK'
  BY <1>1 DEF KernelUmount, KernelForgets
<1>7. ASSUME NEW n, KernelUnregister(n)
      PROVE  KernelTypeOK'
  <2>1. entry' \in [FormatNames -> Regstring \cup {NULL}]
    BY <1>1, <1>7 DEF KernelUnregister
  <2>2. behind' \in [FormatNames -> SUBSET FormatNames]
    <3>1. \A m \in FormatNames : behind[m] \ {n} \in SUBSET FormatNames
      BY <1>1
    <3>2. QED
      BY <3>1, <1>7 DEF KernelUnregister
  <2>3. manual' \subseteq FormatNames /\ UNCHANGED <<procfs, active>>
    BY <1>1, <1>7 DEF KernelUnregister
  <2>4. QED
    BY <1>1, <2>1, <2>2, <2>3
<1>8. ASSUME NEW n, NEW r \in Regstring, KernelRegister(n, r),
             manual' \subseteq FormatNames
      PROVE  KernelTypeOK'
  <2>1. entry' \in [FormatNames -> Regstring \cup {NULL}]
    BY <1>1, <1>8 DEF KernelRegister
  <2>2. behind' \in [FormatNames -> SUBSET FormatNames]
    BY <1>1, <1>8 DEF KernelRegister, Registered
  <2>3. UNCHANGED <<procfs, active>>
    BY <1>8 DEF KernelRegister
  <2>4. QED
    BY <1>1, <1>8, <2>1, <2>2, <2>3
<1>9. QED
  BY <1>2, <1>3, <1>4, <1>5, <1>6, <1>7, <1>8

----------------------------------------------------------------------------
(***************************************************************************)
(* main.                                                                   *)
(***************************************************************************)
LEMMA CommandType ==
    ASSUME NEW m \in AllModes, NEW label \in Labels, NEW t \in BOOLEAN,
           NEW n \in FormatNames \cup Reserved \cup {NULL}
    PROVE  /\ Command(m, label, n, t) \in Process
           /\ Command(m, label, n, t).pc = label
           /\ Command(m, label, n, t).mode = m
           /\ Command(m, label, n, t).name = n
           /\ Command(m, label, n, t).todo = {}
           /\ Command(m, label, n, t).fd = NULL
<1>1. Idle \in Process
  BY IdleSound DEF Sound, Statuses
<1>2. Idle.todo = {} /\ Idle.fd = NULL
  BY DEF Idle
<1>3. QED
  BY <1>1, <1>2 DEF Command, Process

LEMMA StartStep ==
    ASSUME Inv, NEW p \in Procs, Start(p)
    PROVE  Inv'
<1>0. UNCHANGED <<kernelVars, admin>>
  BY DEF Start, StartInstall, StartRemove, StartImport, StartNamed, StartAll,
         StartImportAll
<1>9. /\ Writes[p] \subseteq Names
      /\ Names \subseteq FormatNames
      /\ Tests \subseteq BOOLEAN
      /\ NULL \notin FormatNames \cup Reserved
  BY RunAssumption, NamesAssumption
<1>1. CASE StartInstall(p)
  <2>1. PICK n \in Writes[p], args \in InstallArgs, t \in Tests :
          Become(p, IF HasNewline(args) THEN Exited("2")
                    ELSE [Command("install", "install", n, t) EXCEPT
                             !.new = binfmt_new(args)])
    BY <1>1 DEF StartInstall
  <2> DEFINE c == Command("install", "install", n, t)
  <2>2. /\ c \in Process /\ c.pc = "install" /\ c.mode = "install"
        /\ c.name = n /\ c.todo = {} /\ c.fd = NULL
    <3>1. /\ n \in FormatNames \cup Reserved \cup {NULL} /\ t \in BOOLEAN
          /\ "install" \in AllModes /\ "install" \in Labels
      BY <1>9 DEF Labels, AllModes, Installs
    <3>2. QED
      BY <3>1, CommandType
  <2> HIDE DEF c
  <2>3. binfmt_new(args) \in Binfmt \cup {NULL}
    BY InputsAssumption, NewType
  <2> DEFINE q == [c EXCEPT !.new = binfmt_new(args)]
  <2>4. q \in Process /\ q.pc = "install" /\ q.mode = "install"
        /\ q.name = n /\ q.todo = {} /\ q.fd = NULL
    BY <2>2, <2>3 DEF Process
  <2> HIDE DEF q
  <2>5. Sound(p, q)
    BY <1>9, <2>4 DEF Sound, Control, Installs
  <2>6. Sound(p, Exited("2"))
    BY IdleSound DEF Statuses
  <2>7. QED
    BY <1>0, <2>1, <2>5, <2>6, MovesAlone DEF q, c
<1>2. CASE StartRemove(p)
  <2>1. PICK n \in Writes[p], pkg \in Packages, t \in Tests :
          Become(p, [Command("remove", "remove", n, t) EXCEPT !.package = pkg])
    BY <1>2 DEF StartRemove
  <2> DEFINE c == Command("remove", "remove", n, t)
  <2>2. /\ c \in Process /\ c.pc = "remove" /\ c.mode = "remove"
        /\ c.name = n /\ c.todo = {} /\ c.fd = NULL
    <3>1. /\ n \in FormatNames \cup Reserved \cup {NULL} /\ t \in BOOLEAN
          /\ "remove" \in AllModes /\ "remove" \in Labels
      BY <1>9 DEF Labels, AllModes
    <3>2. QED
      BY <3>1, CommandType
  <2> HIDE DEF c
  <2> DEFINE q == [c EXCEPT !.package = pkg]
  <2>3. q \in Process /\ q.pc = "remove" /\ q.mode = "remove"
        /\ q.name = n /\ q.todo = {} /\ q.fd = NULL
    BY <2>2, TextsAssumption DEF Process
  <2> HIDE DEF q
  <2>4. Sound(p, q)
    BY <1>9, <2>3 DEF Sound, Control, Installs
  <2>5. QED
    BY <1>0, <2>1, <2>4, MovesAlone DEF q, c
<1>3. CASE StartImport(p)
  <2>1. PICK n \in DOMAIN ImportFiles \cap (Writes[p] \cup Reserved), t \in Tests :
          Become(p, Command("import", "import", n, t))
    BY <1>3 DEF StartImport
  <2> DEFINE q == Command("import", "import", n, t)
  <2>2. /\ q \in Process /\ q.pc = "import" /\ q.mode = "import"
        /\ q.name = n /\ q.todo = {} /\ q.fd = NULL
    BY <1>9, CommandType DEF Labels, AllModes, Installs, Imports
  <2> HIDE DEF q
  <2>3. Sound(p, q)
    BY <1>9, <2>2 DEF Sound, Control, Installs, Imports
  <2>4. QED
    BY <1>0, <2>1, <2>3, MovesAlone DEF q
<1>4. ASSUME NEW m \in {"enable", "disable", "display",
                        "enableall", "disableall", "displayall"},
             NEW label \in {"misc", "disable", "display"},
             NEW n \in Names \cup {NULL}, NEW t \in Tests,
             Become(p, Command(m, label, n, t))
      PROVE  Inv'
  <2> DEFINE q == Command(m, label, n, t)
  <2>1. /\ q \in Process /\ q.pc = label /\ q.mode = m
        /\ q.name = n /\ q.todo = {} /\ q.fd = NULL
    <3>1. /\ n \in FormatNames \cup Reserved \cup {NULL} /\ t \in BOOLEAN
          /\ m \in AllModes /\ label \in Labels
      BY <1>9 DEF Labels, AllModes, Loops
    <3>2. QED
      BY <3>1, CommandType
  <2> HIDE DEF q
  <2>2. Sound(p, q)
    BY <1>9, <2>1 DEF Sound, Control, Writers, Installs, Imports
  <2>3. QED
    BY <1>0, <1>4, <2>2, MovesAlone DEF q
<1>5. CASE StartNamed(p)
  BY <1>4, <1>5 DEF StartNamed
<1>6. CASE StartAll(p)
  BY <1>4, <1>6 DEF StartAll
<1>7. CASE StartImportAll(p)
  <2>1. CASE Become(p, Exited("2"))
    BY <1>0, <2>1, IdleSound, MovesAlone DEF Statuses
  <2>2. CASE \E t \in Tests :
               Become(p, [Command("importall", "loop", NULL, t) EXCEPT
                             !.todo = DOMAIN ImportFiles])
    <3>1. PICK t \in Tests :
               Become(p, [Command("importall", "loop", NULL, t) EXCEPT
                             !.todo = DOMAIN ImportFiles])
      BY <2>2
    <3> DEFINE c == Command("importall", "loop", NULL, t)
    <3>2. /\ c \in Process /\ c.pc = "loop" /\ c.mode = "importall"
          /\ c.name = NULL /\ c.fd = NULL
      BY <1>9, CommandType DEF Labels, AllModes, Installs, Imports
    <3> HIDE DEF c
    <3> DEFINE q == [c EXCEPT !.todo = DOMAIN ImportFiles]
    <3>3. DOMAIN ImportFiles \subseteq Writes[p] \cup Reserved
      BY <1>7 DEF StartImportAll
    <3>4. q \in Process /\ q.pc = "loop" /\ q.mode = "importall"
          /\ q.name = NULL /\ q.todo = DOMAIN ImportFiles /\ q.fd = NULL
      BY <1>9, <3>2, <3>3 DEF Process
    <3> HIDE DEF q
    <3>5. Sound(p, q)
      BY <3>3, <3>4 DEF Sound, Control
    <3>6. QED
      BY <1>0, <3>1, <3>5, MovesAlone DEF q, c
  <2>3. QED
    BY <1>7, <2>1, <2>2 DEF StartImportAll
<1>8. QED
  BY <1>1, <1>2, <1>3, <1>5, <1>6, <1>7 DEF Start

----------------------------------------------------------------------------
(***************************************************************************)
(* act_enable.                                                             *)
(***************************************************************************)
LEMMA MiscStep ==
    ASSUME Inv, NEW p \in Procs, load_binfmt_misc(p)
    PROVE  Inv'
<1> DEFINE q == proc[p]
<1>1. Sound(p, q) /\ q.pc = "misc"
  BY InvSound DEF load_binfmt_misc, At
<1>2. Sound(p, MiscLoaded(q)) /\ Sound(p, Return(q, TRUE))
  BY <1>1, MiscLoadedSound, ReturnSound
<1>3. Sound(p, Goto(q, "mount"))
  <2>1. Goto(q, "mount") \in Process
    BY <1>1, GotoType DEF Sound, Labels
  <2>2. Control(p, Goto(q, "mount"))
    BY <1>1 DEF Sound, Control, Process, Goto
  <2>3. QED
    BY <2>1, <2>2 DEF Sound
<1>4. KernelTypeOK'
  BY KernelType DEF load_binfmt_misc
<1>5. admin' \in [FormatNames -> File]
  BY DEF load_binfmt_misc, Inv, TypeOK
<1>6. \/ Become(p, MiscLoaded(q)) \/ Become(p, Return(q, TRUE))
      \/ Become(p, Goto(q, "mount"))
  BY DEF load_binfmt_misc
<1>7. QED
  BY <1>2, <1>3, <1>4, <1>5, <1>6, Moves

LEMMA MountStep ==
    ASSUME Inv, NEW p \in Procs, MountBinfmtMisc(p)
    PROVE  Inv'
<1> DEFINE q == proc[p]
<1>1. Sound(p, q) /\ q.pc = "mount"
  BY InvSound DEF MountBinfmtMisc, At
<1>2. Sound(p, MiscLoaded(q)) /\ Sound(p, Return(q, TRUE))
  BY <1>1, MiscLoadedSound, ReturnSound
<1>3. KernelTypeOK'
  BY KernelType DEF MountBinfmtMisc
<1>4. admin' \in [FormatNames -> File]
  BY DEF MountBinfmtMisc, Inv, TypeOK
<1>5. Become(p, MiscLoaded(q)) \/ Become(p, Return(q, TRUE))
  BY DEF MountBinfmtMisc
<1>6. QED
  BY <1>2, <1>3, <1>4, <1>5, Moves

LEMMA ExistsStep ==
    ASSUME Inv, NEW p \in Procs, EnableExists(p)
    PROVE  Inv'
<1> DEFINE q == proc[p]
<1>1. Sound(p, q) /\ q.pc = "exists"
  BY InvSound DEF EnableExists, At
<1>2. Sound(p, Return(q, TRUE))
  BY <1>1, ReturnSound
<1>3. Sound(p, Goto(q, "scan"))
  <2>1. Goto(q, "scan") \in Process
    BY <1>1, GotoType DEF Sound, Labels
  <2>2. Control(p, Goto(q, "scan"))
    BY <1>1 DEF Sound, Control, Process, Goto
  <2>3. QED
    BY <2>1, <2>2 DEF Sound
<1>4. Become(p, Return(q, TRUE)) \/ Become(p, Goto(q, "scan"))
  BY DEF EnableExists
<1>5. QED
  BY <1>2, <1>3, <1>4, MovesAlone DEF EnableExists

\* After the scan a process has a table, a line for "register", and, in the
\* loop over all formats, perhaps more formats to do.
LEMMA ScannedSound ==
    ASSUME NEW p \in Procs, NEW q, Sound(p, q), q.pc = "scan",
           NEW table \in Cache, table[q.name] # NULL, NEW need \in BOOLEAN,
           NEW more, more \subseteq FormatNames,
           q.mode # "enableall" => more = {}
    PROVE  Sound(p, [Scanned(q, table, need) EXCEPT !.todo = @ \cup more])
<1> DEFINE r == regstring(table[q.name], need)
<1> DEFINE new == [q EXCEPT !.pc = "register", !.formats = table, !.reg = r]
<1> DEFINE full == [new EXCEPT !.todo = @ \cup more]
<1>1. q \in Process /\ q.name \in FormatNames
  BY DEF Sound, Control
<1>2. r \in Regstring
  BY <1>1, RegstringType DEF Cache
<1> HIDE DEF r
<1>3. new \in Process
  BY <1>1, <1>2 DEF Process, Labels
<1>4. /\ new.pc = "register" /\ new.mode = q.mode /\ new.todo = q.todo
      /\ new.name = q.name /\ new.fd = q.fd /\ new.reg = r
  BY <1>1 DEF Process
<1> HIDE DEF new
<1>5. full \in Process
  BY <1>3 DEF Process
<1>6. /\ full.pc = "register" /\ full.mode = q.mode
      /\ full.todo = q.todo \cup more
      /\ full.name = q.name /\ full.fd = q.fd /\ full.reg = r
  BY <1>3, <1>4 DEF Process
<1> HIDE DEF full
<1>7. Control(p, full)
  <2>1. q.fd = NULL
    BY DEF Sound, Control
  <2>2. q.mode # "importall" => q.todo \cup more \subseteq FormatNames
    BY DEF Sound, Control
  <2>3. q.mode = "importall" =>
          q.todo \cup more
             \subseteq DOMAIN ImportFiles \cap (Writes[p] \cup Reserved)
    BY DEF Sound, Control
  <2>4. q.mode \in Writers => q.name \in Writes[p]
    BY DEF Sound, Control
  <2>5. QED
    BY <1>1, <1>2, <1>6, <2>1, <2>2, <2>3, <2>4 DEF Control
<1>8. QED
  BY <1>5, <1>7 DEF Sound, Scanned, full, new, r

LEMMA ScanStep ==
    ASSUME Inv, NEW p \in Procs, EnableScan(p)
    PROVE  Inv'
<1> DEFINE q == proc[p]
           n == q.name
           table == load_format(q.formats, n)
           all == load_all_formats(table)
           fresh == IF q.mode = "enableall" THEN Keys(all) \ Keys(q.formats)
                    ELSE {}
<1>1. Sound(p, q) /\ q.pc = "scan"
  BY InvSound DEF EnableScan, At
<1>2. q.formats \in Cache /\ n \in FormatNames
  BY <1>1 DEF Sound, Process, Control
<1>3. table \in Cache
  BY <1>2, TableType DEF Inv
<1>4. all \in Cache
  BY <1>3, TableType DEF Inv
<1>5. table[n] # NULL => all[n] # NULL
  BY <1>2 DEF load_all_formats
<1>6. fresh \subseteq FormatNames /\ (q.mode # "enableall" => fresh = {})
  BY DEF Keys
<1>7. UNCHANGED <<kernelVars, admin>>
  BY DEF EnableScan
<1>8. /\ Sound(p, Exited("2")) /\ Sound(p, Exited("segv"))
      /\ Sound(p, Return(q, FALSE))
  BY <1>1, IdleSound, ReturnSound DEF Statuses
<1>9. ASSUME table[n] # NULL, Become(p, Scanned(q, table, TRUE))
      PROVE  Inv'
  <2>1. Sound(p, [Scanned(q, table, TRUE) EXCEPT !.todo = @ \cup {}])
    BY <1>1, <1>3, <1>9, ScannedSound
  <2>2. [Scanned(q, table, TRUE) EXCEPT !.todo = @ \cup {}]
          = Scanned(q, table, TRUE)
    BY <1>1 DEF Scanned, Sound, Process
  <2>3. QED
    BY <1>7, <1>9, <2>1, <2>2, MovesAlone
<1>10. ASSUME table[n] # NULL, NEW more \in SUBSET fresh,
              Become(p, [Scanned(q, all, Equal(all, n)) EXCEPT
                            !.todo = @ \cup more])
       PROVE  Inv'
  <2>1. Equal(all, n) \in BOOLEAN
    BY DEF Equal
  <2>2. Sound(p, [Scanned(q, all, Equal(all, n)) EXCEPT !.todo = @ \cup more])
    BY <1>1, <1>4, <1>5, <1>6, <1>10, <2>1, ScannedSound
  <2>3. QED
    BY <1>7, <1>10, <2>2, MovesAlone
<1>11. \/ Become(p, Exited("2"))
       \/ Become(p, IF q.test THEN Exited("segv") ELSE Return(q, FALSE))
       \/ table[n] # NULL /\ Become(p, Scanned(q, table, TRUE))
       \/ Become(p, Exited("segv"))
       \/ /\ table[n] # NULL
          /\ \E more \in SUBSET fresh :
                Become(p, [Scanned(q, all, Equal(all, n)) EXCEPT
                              !.todo = @ \cup more])
  BY Zenon DEF EnableScan
<1> HIDE DEF q, n, table, all, fresh
<1>12. QED
  BY <1>7, <1>8, <1>9, <1>10, <1>11, MovesAlone

LEMMA RegisterStep ==
    ASSUME Inv, NEW p \in Procs, EnableRegister(p)
    PROVE  Inv'
<1> DEFINE q == proc[p]
<1>1. Sound(p, q) /\ q.pc = "register"
  BY InvSound DEF EnableRegister, At
<1>2. Sound(p, Return(q, TRUE)) /\ Sound(p, Return(q, FALSE))
  BY <1>1, ReturnSound
<1>3. admin' \in [FormatNames -> File]
  BY DEF EnableRegister, Inv, TypeOK
<1>5. ASSUME KernelRegister(q.name, q.reg), UNCHANGED manual
      PROVE  KernelTypeOK'
  <2>1. q.reg \in Regstring
    BY <1>1 DEF Sound, Control
  <2>2. manual' \subseteq FormatNames
    BY <1>5 DEF Inv, TypeOK, KernelTypeOK
  <2>3. QED
    BY <1>5, <2>1, <2>2, KernelType
<1>6. KernelTypeOK'
  BY <1>5, KernelType DEF EnableRegister
<1>7. Become(p, Return(q, TRUE)) \/ Become(p, Return(q, FALSE))
  BY DEF EnableRegister
<1>8. QED
  BY <1>2, <1>3, <1>6, <1>7, Moves

----------------------------------------------------------------------------
(***************************************************************************)
(* act_disable and the loops.                                              *)
(***************************************************************************)
LEMMA DisableStep ==
    ASSUME Inv, NEW p \in Procs, DisableExists(p)
    PROVE  Inv'
<1> DEFINE q == proc[p]
<1>1. Sound(p, q) /\ q.pc = "disable"
  BY InvSound DEF DisableExists, At
<1>2. Sound(p, Disabled(q, TRUE))
  BY <1>1, DisabledSound
<1>3. q.name = NULL => Sound(p, Goto(q, "loadall"))
  <2>1. Goto(q, "loadall") \in Process
    BY <1>1, GotoType DEF Sound, Labels
  <2>2. q.name = NULL => Control(p, Goto(q, "loadall"))
    BY <1>1 DEF Sound, Control, Process, Goto
  <2>3. QED
    BY <2>1, <2>2 DEF Sound
<1>4. q.name # NULL => Sound(p, Goto(q, "diswrite"))
  <2>1. Goto(q, "diswrite") \in Process
    BY <1>1, GotoType DEF Sound, Labels
  <2>2. q.name # NULL => Control(p, Goto(q, "diswrite"))
    BY <1>1 DEF Sound, Control, Process, Goto
  <2>3. QED
    BY <2>1, <2>2 DEF Sound
<1>5. \/ Become(p, Disabled(q, TRUE))
      \/ q.name = NULL /\ Become(p, Goto(q, "loadall"))
      \/ q.name # NULL /\ Become(p, Goto(q, "diswrite"))
  BY DEF DisableExists
<1>6. QED
  BY <1>2, <1>3, <1>4, <1>5, MovesAlone DEF DisableExists

LEMMA DisableWriteStep ==
    ASSUME Inv, NEW p \in Procs, DisableWrite(p)
    PROVE  Inv'
<1> DEFINE q == proc[p]
<1>1. Sound(p, q) /\ q.pc = "diswrite"
  BY InvSound DEF DisableWrite, At
<1>2. Sound(p, Disabled(q, FALSE))
  BY <1>1, DisabledSound
<1>3. Sound(p, Goto(q, "discheck"))
  <2>1. Goto(q, "discheck") \in Process
    BY <1>1, GotoType DEF Sound, Labels
  <2>2. Control(p, Goto(q, "discheck"))
    BY <1>1 DEF Sound, Control, Process, Goto
  <2>3. QED
    BY <2>1, <2>2 DEF Sound
<1>4. KernelTypeOK'
  BY KernelType DEF DisableWrite
<1>5. admin' \in [FormatNames -> File]
  BY DEF DisableWrite, Inv, TypeOK
<1>6. Become(p, Disabled(q, FALSE)) \/ Become(p, Goto(q, "discheck"))
  BY DEF DisableWrite
<1>7. QED
  BY <1>2, <1>3, <1>4, <1>5, <1>6, Moves

LEMMA DisableCheckStep ==
    ASSUME Inv, NEW p \in Procs, DisableCheck(p)
    PROVE  Inv'
<1>1. Sound(p, proc[p]) /\ proc[p].pc = "discheck"
  BY InvSound DEF DisableCheck, At
<1>2. (~ProcEntry(proc[p].name)) \in BOOLEAN
  OBVIOUS
<1>3. Sound(p, Disabled(proc[p], ~ProcEntry(proc[p].name)))
  BY <1>1, <1>2, DisabledSound
<1>4. QED
  BY <1>3, MovesAlone DEF DisableCheck

LEMMA LoadAllStep ==
    ASSUME Inv, NEW p \in Procs, LoadAll(p)
    PROVE  Inv'
<1> DEFINE q == proc[p]
           table == load_all_formats(q.formats)
           keys == Keys(table)
           new == [q EXCEPT !.pc = "loop", !.formats = table, !.todo = keys]
<1>1. Sound(p, q) /\ q.pc = "loadall"
  BY InvSound DEF LoadAll, At
<1>2. q \in Process /\ q.name = NULL /\ q.fd = NULL
  BY <1>1 DEF Sound, Control
<1>3. table \in Cache /\ keys \subseteq FormatNames
  BY <1>2, TableType DEF Inv, Process, Keys
<1> HIDE DEF table, keys
<1>4. new \in Process
  BY <1>2, <1>3 DEF Process, Labels
<1>5. q.mode \notin Writers
  BY <1>1, <1>2, NamesAssumption, RunAssumption DEF Sound, Control
<1>6. Control(p, new)
  <2>1. /\ new.pc = "loop" /\ new.mode = q.mode /\ new.todo = keys
        /\ new.fd = NULL /\ new.name = NULL
    BY <1>2 DEF Process
  <2>2. q.mode # "importall"
    BY <1>5 DEF Writers, Installs, Imports
  <2> HIDE DEF new
  <2>3. QED
    BY <1>3, <1>5, <2>1, <2>2 DEF Control
<1>7. Sound(p, new) /\ Sound(p, Exited("2"))
  BY <1>4, <1>6, IdleSound DEF Sound, Statuses
<1>8. Become(p, Exited("2")) \/ Become(p, new)
  BY DEF LoadAll, table, keys
<1> HIDE DEF q, new
<1>9. QED
  BY <1>7, <1>8, MovesAlone DEF LoadAll

LEMMA LoopStep ==
    ASSUME Inv, NEW p \in Procs, Loop(p)
    PROVE  Inv'
<1> DEFINE q == proc[p]
<1>1. Sound(p, q) /\ q.pc = "loop"
  BY InvSound DEF Loop, At
<1>2. q \in Process /\ q.fd = NULL
  BY <1>1 DEF Sound, Control
<1>3. Sound(p, Finish(q.worked))
  BY <1>2, FinishSound DEF Process
<1>4. q.mode = "disableall" => Sound(p, Goto(q, "unload"))
  <2>1. Goto(q, "unload") \in Process
    BY <1>1, GotoType DEF Sound, Labels
  <2>2. q.mode = "disableall" => Control(p, Goto(q, "unload"))
    BY <1>1 DEF Sound, Control, Process, Goto, Writers, Installs, Imports
  <2>3. QED
    BY <2>1, <2>2 DEF Sound
<1>5. ASSUME NEW n \in q.todo
      PROVE  Sound(p, [q EXCEPT !.pc = LoopBody(q, n), !.todo = @ \ {n},
                                !.name = IF LoopBody(q, n) = "loop" THEN NULL
                                         ELSE n])
  <2> DEFINE label == LoopBody(q, n)
             name == IF label = "loop" THEN NULL ELSE n
             rest == q.todo \ {n}
             new == [q EXCEPT !.pc = label, !.todo = rest, !.name = name]
  <2>1. n \in FormatNames \cup Reserved
    BY <1>2 DEF Process
  <2>2. /\ label \in {"import", "misc", "disable", "loop"}
        /\ label = "import" <=> q.mode = "importall"
        /\ label = "misc" => q.mode = "enableall"
        /\ label = "disable" => q.mode = "disableall"
    BY DEF LoopBody
  <2> HIDE DEF label
  <2>3. name \in FormatNames \cup Reserved \cup {NULL}
        /\ (label # "loop" => name = n)
    BY <2>1
  <2>0. rest \subseteq q.todo /\ rest \subseteq FormatNames \cup Reserved
    BY <1>2 DEF Process
  <2> HIDE DEF name, rest
  <2>4. new \in Process
    <3>1. label \in Labels
      BY <2>2 DEF Labels
    <3>2. QED
      BY <1>2, <2>0, <2>3, <3>1, NameGotoType
  <2>5. /\ new.pc = label /\ new.mode = q.mode /\ new.todo = rest
        /\ new.name = name /\ new.fd = NULL
    BY <1>2 DEF Process
  <2> HIDE DEF new
  <2>6. CASE q.mode = "importall"
    <3>1. /\ q.todo \subseteq DOMAIN ImportFiles \cap (Writes[p] \cup Reserved)
      BY <1>1, <2>6 DEF Sound, Control
    <3>2. Control(p, new)
      BY <2>0, <2>2, <2>3, <2>5, <2>6, <3>1 DEF Control, Imports
    <3>3. QED
      BY <2>4, <3>2 DEF Sound, new, name, label, rest
  <2>7. CASE q.mode # "importall"
    <3>1. q.todo \subseteq FormatNames
      BY <1>1, <2>7 DEF Sound, Control
    <3>2. label # "loop" => q.mode \notin Writers
      BY <2>2, <2>7 DEF Writers, Installs, Imports
    <3>3. Control(p, new)
      BY <2>0, <2>2, <2>3, <2>5, <2>7, <3>1, <3>2 DEF Control
    <3>4. QED
      BY <2>4, <3>3 DEF Sound, new, name, label, rest
  <2>8. QED
    BY <2>6, <2>7
<1>6. \/ \E n \in q.todo :
           Become(p, [q EXCEPT !.pc = LoopBody(q, n), !.todo = @ \ {n},
                               !.name = IF LoopBody(q, n) = "loop" THEN NULL
                                        ELSE n])
      \/ q.mode = "disableall" /\ Become(p, Goto(q, "unload"))
      \/ Become(p, Finish(q.worked))
  BY DEF Loop
<1>7. UNCHANGED <<kernelVars, admin>>
  BY DEF Loop
<1> HIDE DEF q
<1>8. QED
  BY <1>3, <1>4, <1>5, <1>6, <1>7, MovesAlone

LEMMA UnloadStep ==
    ASSUME Inv, NEW p \in Procs, unload_binfmt_misc(p)
    PROVE  Inv'
<1>1. Sound(p, Finish(proc[p].worked))
  BY FinishSound DEF Inv, TypeOK, Process
<1>2. KernelTypeOK'
  BY KernelType DEF unload_binfmt_misc
<1>3. admin' \in [FormatNames -> File]
  BY DEF unload_binfmt_misc, Inv, TypeOK
<1>4. QED
  BY <1>1, <1>2, <1>3, Moves DEF unload_binfmt_misc

----------------------------------------------------------------------------
(***************************************************************************)
(* act_install.                                                            *)
(***************************************************************************)
LEMMA InstallLoadStep ==
    ASSUME Inv, NEW p \in Procs, InstallLoad(p)
    PROVE  Inv'
<1> DEFINE q == proc[p]
           table == load_format(q.formats, q.name)
           label == IF is_file(q.name) THEN "disable" ELSE "manual"
           new == [q EXCEPT !.formats = table, !.pc = label]
<1>1. Sound(p, q) /\ q.pc = "install"
  BY InvSound DEF InstallLoad, At
<1>2. /\ q \in Process /\ q.fd = NULL
      /\ q.mode \in Installs /\ q.name \in Writes[p]
      /\ q.name \in FormatNames
  BY <1>1, RunAssumption, NamesAssumption DEF Sound, Control, Writers
<1>3. table \in Cache
  BY <1>2, TableType DEF Inv, Process
<1>4. label \in {"disable", "manual"}
  OBVIOUS
<1> HIDE DEF table, label
<1>5. new \in Process
  <2>1. label \in Labels
    BY <1>4 DEF Labels
  <2>2. QED
    BY <1>2, <1>3, <2>1, TableGotoType
<1>6. /\ new.pc = label /\ new.mode = q.mode /\ new.name = q.name
      /\ new.todo = q.todo /\ new.fd = NULL
  BY <1>2 DEF Process
<1> HIDE DEF new
<1>7. Control(p, new)
  <2>1. /\ q.mode = "importall" =>
              q.todo \subseteq DOMAIN ImportFiles \cap (Writes[p] \cup Reserved)
        /\ q.mode # "importall" => q.todo \subseteq FormatNames
    BY <1>1 DEF Sound, Control
  <2>2. QED
    BY <1>2, <1>4, <1>6, <2>1 DEF Control
<1>8. /\ Sound(p, new) /\ Sound(p, Exited("segv"))
      /\ Sound(p, Return(q, FALSE))
  BY <1>1, <1>5, <1>7, IdleSound, ReturnSound DEF Sound, Statuses
<1>9. \/ Become(p, new) \/ Become(p, Exited("segv"))
      \/ Become(p, Return(q, FALSE))
  BY DEF InstallLoad, new, table, label
<1> HIDE DEF q
<1>10. QED
  BY <1>8, <1>9, MovesAlone DEF InstallLoad

LEMMA ManualStep ==
    ASSUME Inv, NEW p \in Procs, InstallManual(p)
    PROVE  Inv'
<1> DEFINE q == proc[p]
           table == kvhash_insert(q.formats, q.name, q.new)
           new == [q EXCEPT !.pc = "misc", !.formats = table]
<1>1. Sound(p, q) /\ q.pc = "manual"
  BY InvSound DEF InstallManual, At
<1>2. /\ q \in Process /\ q.fd = NULL
      /\ q.mode \in Installs /\ q.name \in Writes[p]
      /\ q.name \in FormatNames
  BY <1>1, RunAssumption, NamesAssumption DEF Sound, Control, Writers
<1>3. table \in Cache
  BY <1>2, TableType DEF Inv, Process
<1> HIDE DEF table
<1>4. new \in Process
  <2>1. "misc" \in Labels
    BY DEF Labels
  <2>2. QED
    BY <1>2, <1>3, <2>1, TableGotoType
<1>5. /\ new.pc = "misc" /\ new.mode = q.mode /\ new.name = q.name
      /\ new.todo = q.todo /\ new.fd = NULL
  BY <1>2 DEF Process
<1> HIDE DEF new
<1>6. Control(p, new)
  <2>1. /\ q.mode = "importall" =>
              q.todo \subseteq DOMAIN ImportFiles \cap (Writes[p] \cup Reserved)
        /\ q.mode # "importall" => q.todo \subseteq FormatNames
    BY <1>1 DEF Sound, Control
  <2>2. QED
    BY <1>2, <1>5, <2>1 DEF Control
<1>7. Sound(p, Goto(q, "open"))
  <2>1. Goto(q, "open") \in Process
    BY <1>2, GotoType DEF Labels
  <2>2. Control(p, Goto(q, "open"))
    BY <1>1, <1>2 DEF Sound, Control, Process, Goto
  <2>3. QED
    BY <2>1, <2>2 DEF Sound
<1>8. /\ Sound(p, new) /\ Sound(p, Exited("segv"))
      /\ Sound(p, Return(q, TRUE))
  BY <1>1, <1>4, <1>6, IdleSound, ReturnSound DEF Sound, Statuses
<1>9. \/ Become(p, Exited("segv")) \/ Become(p, Return(q, TRUE))
      \/ Become(p, Goto(q, "open")) \/ Become(p, new)
  BY DEF InstallManual, new, table
<1> HIDE DEF q
<1>10. QED
  BY <1>7, <1>8, <1>9, MovesAlone DEF InstallManual

\* A file changes its name: the processes that have it open see that.
LEMMA RelinkedSound ==
    ASSUME Inv, NEW from \in FormatNames, NEW to \in FormatNames \cup {NULL}
    PROVE  /\ Relinked(from, to) \in [Procs -> Process]
           /\ \A r \in Procs : Control(r, Relinked(from, to)[r])
<1>1. ASSUME NEW r \in Procs
      PROVE  /\ [proc[r] EXCEPT !.fd = to] \in Process
             /\ proc[r].fd = from => Control(r, [proc[r] EXCEPT !.fd = to])
  <2>1. Sound(r, proc[r])
    BY InvSound
  <2>2. from # NULL
    BY NamesAssumption
  <2> DEFINE new == [proc[r] EXCEPT !.fd = to]
  <2>3. new \in Process
    BY <2>1 DEF Sound, Process
  <2>4. /\ new.pc = proc[r].pc /\ new.mode = proc[r].mode
        /\ new.name = proc[r].name /\ new.todo = proc[r].todo
        /\ new.reg = proc[r].reg
    BY <2>1 DEF Sound, Process
  <2> HIDE DEF new
  <2>5. proc[r].fd = from => Control(r, new)
    BY <2>1, <2>2, <2>4 DEF Sound, Control
  <2>6. QED
    BY <2>3, <2>5 DEF new
<1>2. QED
  BY <1>1 DEF Relinked, Inv, TypeOK

\* A step that also changes names of open files.
LEMMA MovesRelinked ==
    ASSUME Inv, NEW p \in Procs, NEW q, Sound(p, q),
           NEW others \in [Procs -> Process],
           \A r \in Procs : Control(r, others[r]),
           proc' = [others EXCEPT ![p] = q],
           UNCHANGED kernelVars, admin' \in [FormatNames -> File]
    PROVE  Inv'
<1>1. KernelTypeOK'
  BY KernelType
<1>2. proc' \in [Procs -> Process]
  BY DEF Sound
<1>3. \A r \in Procs : Control(r, proc'[r])
  BY DEF Sound
<1>4. QED
  BY <1>1, <1>2, <1>3 DEF Inv, TypeOK

LEMMA OpenStep ==
    ASSUME Inv, NEW p \in Procs, WriteOpen(p)
    PROVE  Inv'
<1> DEFINE q == proc[p]
           tmp == TmpName(q.name)
           new == [q EXCEPT !.pc = "fill", !.fd = tmp]
<1>1. Sound(p, q) /\ q.pc = "open"
  BY InvSound DEF WriteOpen, At
<1>2. /\ q \in Process /\ q.mode \in Installs /\ q.name \in Writes[p]
      /\ tmp \in FormatNames
  BY <1>1, RunAssumption, NamesAssumption DEF Sound, Control, Writers, TmpName
<1> HIDE DEF tmp
<1>3. new \in Process
  BY <1>2 DEF Process, Labels
<1>4. /\ new.pc = "fill" /\ new.mode = q.mode /\ new.name = q.name
      /\ new.todo = q.todo
  BY <1>2 DEF Process
<1> HIDE DEF new
<1>5. Control(p, new)
  <2>1. /\ q.mode = "importall" =>
              q.todo \subseteq DOMAIN ImportFiles \cap (Writes[p] \cup Reserved)
        /\ q.mode # "importall" => q.todo \subseteq FormatNames
    BY <1>1 DEF Sound, Control
  <2>2. QED
    BY <1>2, <1>4, <2>1 DEF Control
<1>6. Sound(p, new) /\ Sound(p, Return(q, FALSE))
  BY <1>1, <1>3, <1>5, ReturnSound DEF Sound
<1>7. /\ Relinked(tmp, NULL) \in [Procs -> Process]
      /\ \A r \in Procs : Control(r, Relinked(tmp, NULL)[r])
  BY <1>2, RelinkedSound
<1>8. <<>> \in File /\ NULL \in File
  BY DEF File
<1>9. admin' \in [FormatNames -> File] /\ UNCHANGED kernelVars
  BY <1>8 DEF WriteOpen, Inv, TypeOK
<1>10. \/ proc' = [Relinked(tmp, NULL) EXCEPT ![p] = new]
       \/ Become(p, Return(q, FALSE))
       \/ proc' = [Relinked(tmp, NULL) EXCEPT ![p] = Return(q, FALSE)]
  BY DEF WriteOpen, new, tmp
<1>11. KernelTypeOK'
  BY <1>9, KernelType
<1> HIDE DEF q
<1>12. QED
  BY <1>6, <1>7, <1>9, <1>10, <1>11, Moves, MovesRelinked

LEMMA FillStep ==
    ASSUME Inv, NEW p \in Procs, WriteFill(p)
    PROVE  Inv'
<1> DEFINE q == proc[p]
           new == [q EXCEPT !.pc = "rename", !.fd = NULL]
<1>1. Sound(p, q) /\ q.pc = "fill"
  BY InvSound DEF WriteFill, At
<1>2. q \in Process /\ q.mode \in Installs /\ q.name \in Writes[p]
  BY <1>1 DEF Sound, Control, Writers
<1>3. new \in Process
  BY <1>2 DEF Process, Labels
<1>4. /\ new.pc = "rename" /\ new.mode = q.mode /\ new.name = q.name
      /\ new.todo = q.todo /\ new.fd = NULL
  BY <1>2 DEF Process
<1> HIDE DEF new
<1>5. Control(p, new)
  <2>1. /\ q.mode = "importall" =>
              q.todo \subseteq DOMAIN ImportFiles \cap (Writes[p] \cup Reserved)
        /\ q.mode # "importall" => q.todo \subseteq FormatNames
    BY <1>1 DEF Sound, Control
  <2>2. QED
    BY <1>2, <1>4, <2>1 DEF Control
<1>6. /\ Sound(p, new) /\ Sound(p, Exited("segv"))
      /\ Sound(p, Return(q, FALSE))
  BY <1>1, <1>3, <1>5, IdleSound, ReturnSound DEF Sound, Statuses
<1>7. admin' \in [FormatNames -> File]
  <2>1. admin \in [FormatNames -> File]
    BY DEF Inv, TypeOK
  <2>2. ASSUME NEW lines \in Seq(Text)
        PROVE  Contents(q.fd, lines) \in [FormatNames -> File]
    BY <2>1 DEF Contents, File
  <2>3. q.new # NULL =>
          /\ binfmt_write(q.new) \in Seq(Text)
          /\ \A k \in {0, Mandatory} :
                SubSeq(binfmt_write(q.new), 1, k) \in Seq(Text)
    <3>1. q.new # NULL => q.new \in Binfmt
      BY <1>2 DEF Process
    <3>2. q.new # NULL => /\ binfmt_write(q.new) \in Seq(Text)
                          /\ Len(binfmt_write(q.new)) = 9
      BY <3>1, WriteType
    <3>3. QED
      BY <3>2 DEF Mandatory
  <2>4. QED
    BY <2>1, <2>2, <2>3 DEF WriteFill
<1>8. \/ Become(p, new) \/ Become(p, Exited("segv"))
      \/ Become(p, Return(q, FALSE))
  BY DEF WriteFill, new
<1>9. KernelTypeOK'
  BY KernelType DEF WriteFill
<1> HIDE DEF q
<1>10. QED
  BY <1>6, <1>7, <1>8, <1>9, Moves

LEMMA RenameStep ==
    ASSUME Inv, NEW p \in Procs, RenameTmp(p)
    PROVE  Inv'
<1> DEFINE q == proc[p]
           n == q.name
           tmp == TmpName(n)
           relinked == [r \in Procs |->
                          IF proc[r].fd = tmp THEN [proc[r] EXCEPT !.fd = n]
                          ELSE IF proc[r].fd = n THEN [proc[r] EXCEPT !.fd = NULL]
                          ELSE proc[r]]
           table == kvhash_insert(q.formats, n, q.new)
           new == [q EXCEPT !.pc = "misc", !.formats = table]
<1>1. Sound(p, q) /\ q.pc = "rename"
  BY InvSound DEF RenameTmp, At
<1>2. /\ q \in Process /\ q.mode \in Installs /\ n \in Writes[p]
      /\ n \in FormatNames /\ tmp \in FormatNames /\ q.fd = NULL
  BY <1>1, RunAssumption, NamesAssumption DEF Sound, Control, Writers, TmpName
<1>3. table \in Cache
  BY <1>2, TableType DEF Inv, Process
<1> HIDE DEF tmp, table
<1>4. new \in Process
  <2>1. "misc" \in Labels
    BY DEF Labels
  <2>2. QED
    BY <1>2, <1>3, <2>1, TableGotoType
<1>5. /\ new.pc = "misc" /\ new.mode = q.mode /\ new.name = q.name
      /\ new.todo = q.todo /\ new.fd = NULL
  BY <1>2 DEF Process
<1> HIDE DEF new
<1>6. Control(p, new)
  <2>1. /\ q.mode = "importall" =>
              q.todo \subseteq DOMAIN ImportFiles \cap (Writes[p] \cup Reserved)
        /\ q.mode # "importall" => q.todo \subseteq FormatNames
    BY <1>1 DEF Sound, Control
  <2>2. QED
    BY <1>2, <1>5, <2>1 DEF Control
<1>7. Sound(p, new) /\ Sound(p, Return(q, FALSE))
  BY <1>1, <1>4, <1>6, ReturnSound DEF Sound
<1>8. /\ relinked \in [Procs -> Process]
      /\ \A r \in Procs : Control(r, relinked[r])
  <2>1. ASSUME NEW r \in Procs
        PROVE  relinked[r] \in Process /\ Control(r, relinked[r])
    <3>1. /\ Relinked(tmp, n)[r] \in Process
          /\ Control(r, Relinked(tmp, n)[r])
      BY <1>2, RelinkedSound
    <3>2. /\ Relinked(n, NULL)[r] \in Process
          /\ Control(r, Relinked(n, NULL)[r])
      BY <1>2, RelinkedSound
    <3>3. \/ relinked[r] = Relinked(tmp, n)[r]
          \/ relinked[r] = Relinked(n, NULL)[r]
      BY DEF Relinked
    <3> HIDE DEF relinked
    <3>4. QED
      BY <3>1, <3>2, <3>3
  <2>2. QED
    BY <2>1
<1>9. admin' \in [FormatNames -> File]
  <2>1. admin \in [FormatNames -> File] /\ NULL \in File
    BY DEF Inv, TypeOK, File
  <2>2. \/ UNCHANGED admin
        \/ admin' = [admin EXCEPT ![n] = admin[tmp], ![tmp] = NULL]
    BY DEF RenameTmp, tmp
  <2>3. QED
    BY <1>2, <2>1, <2>2
<1> HIDE DEF relinked
<1>10. \/ proc' = [relinked EXCEPT ![p] = new]
       \/ Become(p, Return(q, FALSE))
  BY DEF RenameTmp, new, table, relinked, tmp
<1>11. UNCHANGED kernelVars /\ KernelTypeOK'
  BY KernelType DEF RenameTmp
<1> HIDE DEF q
<1>12. QED
  BY <1>7, <1>8, <1>9, <1>10, <1>11, Moves, MovesRelinked

----------------------------------------------------------------------------
(***************************************************************************)
(* act_remove, act_import, act_display.                                    *)
(***************************************************************************)
LEMMA RemoveLoadStep ==
    ASSUME Inv, NEW p \in Procs, RemoveLoad(p)
    PROVE  Inv'
<1> DEFINE q == proc[p]
           table == load_format(q.formats, q.name)
           new == [q EXCEPT !.pc = "disable", !.formats = table]
<1>1. Sound(p, q) /\ q.pc = "remove"
  BY InvSound DEF RemoveLoad, At
<1>2. /\ q \in Process /\ q.mode = "remove" /\ q.name \in Writes[p]
      /\ q.name \in FormatNames /\ q.fd = NULL
  BY <1>1, RunAssumption, NamesAssumption DEF Sound, Control, Writers
<1>3. table \in Cache
  BY <1>2, TableType DEF Inv, Process
<1> HIDE DEF table
<1>4. new \in Process
  <2>1. "disable" \in Labels
    BY DEF Labels
  <2>2. QED
    BY <1>2, <1>3, <2>1, TableGotoType
<1>5. /\ new.pc = "disable" /\ new.mode = q.mode /\ new.name = q.name
      /\ new.todo = q.todo /\ new.fd = NULL
  BY <1>2 DEF Process
<1> HIDE DEF new
<1>6. Control(p, new)
  <2>1. q.todo \subseteq FormatNames
    BY <1>1, <1>2 DEF Sound, Control
  <2>2. QED
    BY <1>2, <1>5, <2>1 DEF Control
<1>7. Sound(p, new) /\ Sound(p, Return(q, TRUE))
  BY <1>1, <1>4, <1>6, ReturnSound DEF Sound
<1>8. Become(p, new) \/ Become(p, Return(q, TRUE))
  BY DEF RemoveLoad, new, table
<1> HIDE DEF q
<1>9. QED
  BY <1>7, <1>8, MovesAlone DEF RemoveLoad

LEMMA RemoveUnlinkStep ==
    ASSUME Inv, NEW p \in Procs, RemoveUnlink(p)
    PROVE  Inv'
<1> DEFINE q == proc[p]
           others == Relinked(q.name, NULL)
<1>1. Sound(p, q) /\ q.pc = "unlink"
  BY InvSound DEF RemoveUnlink, At
<1>2. q.name \in FormatNames
  BY <1>1, RunAssumption, NamesAssumption DEF Sound, Control, Writers
<1>3. Sound(p, Return(q, TRUE)) /\ Sound(p, Return(q, FALSE))
  BY <1>1, ReturnSound
<1>4. /\ others \in [Procs -> Process]
      /\ \A r \in Procs : Control(r, others[r])
  BY <1>2, RelinkedSound
<1>5. admin' \in [FormatNames -> File] /\ UNCHANGED kernelVars
  BY DEF RemoveUnlink, Inv, TypeOK, File
<1>6. KernelTypeOK'
  BY <1>5, KernelType
<1>7. \/ Become(p, Return(q, TRUE)) \/ Become(p, Return(q, FALSE))
      \/ proc' = [others EXCEPT ![p] = Return(q, TRUE)]
  BY DEF RemoveUnlink
<1> HIDE DEF q, others
<1>8. QED
  BY <1>3, <1>4, <1>5, <1>6, <1>7, Moves, MovesRelinked

LEMMA ImportStep ==
    ASSUME Inv, NEW p \in Procs, Import(p)
    PROVE  Inv'
<1> DEFINE q == proc[p]
           table == load_format(q.formats, q.name)
           loaded == [q EXCEPT !.formats = table]
<1>1. Sound(p, q) /\ q.pc = "import"
  BY InvSound DEF Import, At
<1>2. /\ q \in Process /\ q.fd = NULL /\ q.mode \in Imports
      /\ q.name \in DOMAIN ImportFiles /\ q.name \in Writes[p] \cup Reserved
  BY <1>1 DEF Sound, Control
<1>3. /\ q.mode = "importall" =>
            q.todo \subseteq DOMAIN ImportFiles \cap (Writes[p] \cup Reserved)
      /\ q.mode # "importall" => q.todo \subseteq FormatNames
  BY <1>1 DEF Sound, Control
<1>4. table \in Cache
  BY <1>2, TableType DEF Inv, Process
<1> HIDE DEF table
<1>5. Sound(p, loaded)
  <2>1. loaded \in Process
    BY <1>2, <1>4 DEF Process
  <2>2. /\ loaded.pc = "import" /\ loaded.mode = q.mode /\ loaded.name = q.name
        /\ loaded.todo = q.todo /\ loaded.fd = NULL
    BY <1>1, <1>2 DEF Process
  <2> HIDE DEF loaded
  <2>3. Control(p, loaded)
    BY <1>2, <1>3, <2>2 DEF Control
  <2>4. QED
    BY <2>1, <2>3 DEF Sound
<1>6. ASSUME NEW b \in Binfmt \cup {NULL}, q.name \notin Reserved
      PROVE  Sound(p, [loaded EXCEPT !.pc = "install", !.new = b])
  <2> DEFINE new == [loaded EXCEPT !.pc = "install", !.new = b]
  <2>1. loaded \in Process
    BY <1>5 DEF Sound
  <2>2. /\ loaded.mode = q.mode /\ loaded.name = q.name
        /\ loaded.todo = q.todo /\ loaded.fd = NULL
    BY <1>2 DEF Process
  <2> HIDE DEF loaded
  <2>3. new \in Process
    BY <2>1 DEF Process, Labels
  <2>4. /\ new.pc = "install" /\ new.mode = q.mode /\ new.name = q.name
        /\ new.todo = q.todo /\ new.fd = NULL
    BY <2>1, <2>2 DEF Process
  <2> HIDE DEF new
  <2>5. Control(p, new)
    BY <1>2, <1>3, <1>6, <2>4 DEF Control, Installs
  <2>6. QED
    BY <2>3, <2>5 DEF Sound, new
<1>7. ASSUME NEW lines \in ImportFiles[q.name]
      PROVE  binfmt_new(get_import(lines)) \in Binfmt \cup {NULL}
  <2>1. lines \in Seq(ArgKeys \X ((Text \ Multiline) \cup {NULL}))
    BY <1>2, InputsAssumption
  <2> DEFINE args == get_import(lines)
  <2>2. args \in [DOMAIN args -> (Text \ Multiline) \cup {NULL}]
    BY <2>1, ImportType
  <2> HIDE DEF args
  <2>3. args \in [DOMAIN args -> Text \cup {NULL}]
    BY <2>2
  <2>4. QED
    BY <2>3, NewType DEF args
<1>8. /\ Sound(p, ActReturn(q, FALSE)) /\ Sound(p, ActReturn(loaded, TRUE))
      /\ Sound(p, ActReturn(loaded, FALSE))
  BY <1>1, <1>5, ReturnSound
<1>9. \/ Become(p, ActReturn(q, FALSE)) \/ Become(p, ActReturn(loaded, TRUE))
      \/ Become(p, ActReturn(loaded, FALSE))
      \/ /\ q.name \notin Reserved
         /\ \E lines \in ImportFiles[q.name] :
               Become(p, [q EXCEPT !.pc = "install", !.formats = table,
                                   !.new = binfmt_new(get_import(lines))])
  BY DEF Import, table
<1>10. \A b : [q EXCEPT !.pc = "install", !.formats = table, !.new = b]
               = [loaded EXCEPT !.pc = "install", !.new = b]
  BY <1>2 DEF Process
<1> HIDE DEF q, loaded
<1>11. UNCHANGED <<kernelVars, admin>>
  BY DEF Import
<1>12. QED
  BY <1>6, <1>7, <1>8, <1>9, <1>10, <1>11, MovesAlone

LEMMA DisplayStep ==
    ASSUME Inv, NEW p \in Procs, Display(p)
    PROVE  Inv'
<1>1. PICK ok \in BOOLEAN : Become(p, Finish(ok))
  <2>1. (IF proc[p].name = NULL THEN \A f \in FormatNames : ~Corrupt(f)
         ELSE Loaded(proc[p].name) # NULL) \in BOOLEAN
    OBVIOUS
  <2>2. QED
    BY <2>1 DEF Display
<1>2. QED
  BY <1>1, FinishSound, MovesAlone DEF Display

----------------------------------------------------------------------------
(***************************************************************************)
(* The environment.                                                        *)
(***************************************************************************)
LEMMA EnvironmentStep ==
    ASSUME Inv,
           \/ \E p \in Procs : Kill(p)
           \/ Reboot
           \/ \E n \in Names : ManualRegister(n)
           \/ ManualSwitchOff
    PROVE  Inv'
<1>1. ASSUME NEW p \in Procs, Kill(p)
      PROVE  Inv'
  BY <1>1, IdleSound, MovesAlone DEF Kill, Statuses
<1>2. CASE Reboot
  <2>1. KernelTypeOK'
    BY <1>2 DEF Reboot, KernelForgets, KernelTypeOK
  <2>2. \A p \in Procs : Sound(p, proc'[p])
    BY <1>2, InvSound, IdleSound DEF Reboot, Statuses
  <2>3. proc' \in [Procs -> Process]
    <3>1. \A p \in Procs : proc[p] \in Process /\ Exited("killed") \in Process
      BY InvSound, IdleSound DEF Sound, Statuses
    <3>2. QED
      BY <1>2, <3>1 DEF Reboot
  <2>4. admin' \in [FormatNames -> File]
    BY <1>2 DEF Reboot, Inv, TypeOK
  <2>5. QED
    BY <2>1, <2>2, <2>3, <2>4 DEF Inv, TypeOK, Sound
<1>3. ASSUME NEW n \in Names, ManualRegister(n)
      PROVE  Inv'
  <2>1. PICK r \in ManualEntries : KernelRegister(n, r)
    BY <1>3 DEF ManualRegister
  <2>2. manual' \subseteq FormatNames
    BY <1>3, NamesAssumption DEF ManualRegister, Inv, TypeOK, KernelTypeOK
  <2>3. r \in Regstring
    BY InputsAssumption
  <2>4. KernelTypeOK'
    BY <2>1, <2>2, <2>3, KernelType
  <2>5. QED
    BY <1>3, <2>4 DEF ManualRegister, Inv, TypeOK
<1>4. CASE ManualSwitchOff
  <2>1. KernelTypeOK'
    BY <1>4 DEF ManualSwitchOff, KernelTypeOK, Inv, TypeOK
  <2>2. QED
    BY <1>4, <2>1 DEF ManualSwitchOff, Inv, TypeOK
<1>5. QED
  BY <1>1, <1>2, <1>3, <1>4

----------------------------------------------------------------------------
LEMMA InitSound == Init => Inv
<1> SUFFICES ASSUME Init
             PROVE  Inv
  OBVIOUS
<1>1. KernelTypeOK
  BY DEF Init, KernelInit, KernelTypeOK
<1>2. admin \in [FormatNames -> File]
  BY DEF Init, File
<1>3. \A p \in Procs : Sound(p, Idle)
  BY IdleSound DEF Statuses
<1>4. proc \in [Procs -> Process]
  BY <1>3 DEF Init, Sound
<1>5. \A p \in Procs : Control(p, proc[p])
  BY <1>3 DEF Init, Sound
<1>6. QED
  BY <1>1, <1>2, <1>4, <1>5 DEF Inv, TypeOK

LEMMA StepSound ==
    ASSUME Inv, NEW p \in Procs, Step(p)
    PROVE  Inv'
BY MiscStep, MountStep, ExistsStep, ScanStep, RegisterStep, DisableStep,
   DisableWriteStep, DisableCheckStep, LoadAllStep, LoopStep, UnloadStep,
   InstallLoadStep, ManualStep, OpenStep, FillStep, RenameStep,
   RemoveLoadStep, RemoveUnlinkStep, ImportStep, DisplayStep DEF Step

LEMMA NextSound == Inv /\ [Next]_vars => Inv'
<1> SUFFICES ASSUME Inv, [Next]_vars
             PROVE  Inv'
  OBVIOUS
<1>1. CASE UNCHANGED vars
  BY <1>1 DEF vars, Inv, TypeOK, KernelTypeOK
<1>2. ASSUME NEW p \in Procs, Start(p) \/ Step(p)
      PROVE  Inv'
  BY <1>2, StartStep, StepSound
<1>3. QED
  BY <1>1, <1>2, EnvironmentStep DEF Next

\* Every variable keeps its type: what update-binfmts reads back from its
\* directory and writes to "register" has the shape its code relies on, an
\* invocation in the middle of a command works on a format of its own, and it
\* holds a file open only while it writes one.
THEOREM TypeCorrect == Spec => []TypeOK
<1>1. Spec => []Inv
  BY InitSound, NextSound, PTL DEF Spec
<1>2. Inv => TypeOK
  BY DEF Inv
<1>3. QED
  BY <1>1, <1>2, PTL
=============================================================================
