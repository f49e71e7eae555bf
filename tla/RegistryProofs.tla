--------------------------- MODULE RegistryProofs ---------------------------
(***************************************************************************)
(* The kernel never has what the database has not, and update-binfmts      *)
(* implements the registry of module Registry, if its callers run one      *)
(* command at a time.  The argument: what an invocation that really works  *)
(* has in its table for a name of the database is a file; act_install and  *)
(* act_remove come to the file only where the kernel does not have the     *)
(* format; and the loop of --disable, before it unmounts, still has to     *)
(* visit every format the kernel has.                                      *)
(***************************************************************************)
EXTENDS StepProofs, RegistryRefinement

\* Linux keeps the entries over an unmount.  act_disable unmounts even when
\* it could not remove them all: then nothing shows that they are still
\* there, and the next --remove takes the file from under them.
Heard == EntriesSurviveUmount => ~Fault("unregister")

Visible == procfs # "mounted" => Ours = {}

\* The table holds nothing of the database that is not there.
TableFiles(q) ==
    ~q.test => \A n \in Names : q.formats[n] # NULL => is_file(n)

\* The places at which the kernel does not have the format any more.
Clear == {"discheck", "manual", "open", "fill", "rename", "unlink"}

Cleared(q) == ~q.test /\ q.pc \in Clear => q.name \notin Ours

Turns(q) ==
    /\ q.pc \in {"loop", "unload"} => q.name = NULL
    /\ q.pc = "unload" => q.mode = "disableall" /\ q.todo = {}
    /\ q.mode = "disableall" => q.pc \in {"disable", "diswrite", "discheck",
                                          "loadall", "loop", "unload"}

\* The loop of --disable misses no format that outlives the unmount.
Swept(q) ==
    /\ EntriesSurviveUmount
    /\ q.mode = "disableall" /\ ~q.test
    /\ q.name # NULL \/ q.pc \in {"loop", "unload"}
    => Ours \subseteq q.todo \cup {q.name}

Accounted(q) ==
    /\ q.pc = "idle" => q.mode = "none" /\ q.formats = NoTable
    /\ q.pc = "register" => q.formats[q.name] # NULL
    /\ TableFiles(q)
    /\ Cleared(q)
    /\ Turns(q)
    /\ Swept(q)

RegistryInv ==
    /\ OwnershipInv
    /\ DryInv
    /\ NoOrphan
    /\ Visible
    /\ \A p \in Procs : Accounted(proc[p])

----------------------------------------------------------------------------
(***************************************************************************)
(* What the kernel's operations do to the formats of the database.         *)
(***************************************************************************)
LEMMA OursFiles == NoOrphan <=> \A n \in Ours : is_file(n)
BY DEF NoOrphan, Ours

LEMMA KernelOurs ==
    ASSUME Inv
    PROVE  /\ UNCHANGED kernelVars => Ours' = Ours
           /\ KernelModprobe => Ours' = Ours
           /\ KernelMount => Ours' = Ours
           /\ KernelSwitchOn => Ours' = Ours
           /\ KernelUmount => \/ EntriesSurviveUmount /\ Ours' = Ours
                              \/ Ours' = {}
           /\ KernelForgets => Ours' = {}
           /\ \A n : KernelUnregister(n) => Ours' = Ours \ {n}
<1>1. entry \in [FormatNames -> Regstring \cup {NULL}] /\ Names \subseteq FormatNames
  BY NamesAssumption DEF Inv, TypeOK, KernelTypeOK
<1>2. UNCHANGED <<entry, manual>> => Ours' = Ours
  BY DEF Ours
<1>3. KernelForgets => Ours' = {}
  BY <1>1 DEF KernelForgets, Ours
<1>4. ASSUME NEW n, KernelUnregister(n)
      PROVE  Ours' = Ours \ {n}
  <2>1. /\ \A m \in Names : entry'[m] = IF m = n THEN NULL ELSE entry[m]
        /\ manual' = manual \ {n}
    BY <1>1, <1>4 DEF KernelUnregister
  <2>2. QED
    BY <2>1 DEF Ours
<1>5. QED
  BY <1>2, <1>3, <1>4
     DEF kernelVars, KernelModprobe, KernelMount, KernelSwitchOn, KernelUmount

LEMMA RegisterOurs ==
    ASSUME Inv, NEW n, NEW r, KernelRegister(n, r)
    PROVE  /\ UNCHANGED manual =>
                Ours' = Ours \/ (n \in Names /\ Ours' = Ours \cup {n})
           /\ manual' = manual \cup {n} => Ours' = Ours
           /\ procfs' = "mounted"
<1>1. /\ entry \in [FormatNames -> Regstring \cup {NULL}]
      /\ Names \subseteq FormatNames
  BY NamesAssumption DEF Inv, TypeOK, KernelTypeOK
<1>2. /\ entry[n] = NULL /\ procfs' = "mounted"
      /\ \A m \in Names : entry'[m] = IF m = n THEN r ELSE entry[m]
  BY <1>1 DEF KernelRegister, Acceptable
<1>3. UNCHANGED manual => \A m \in Names \ {n} : m \in Ours' <=> m \in Ours
  BY <1>2 DEF Ours
<1>4. n \notin Ours /\ Ours \subseteq Names /\ Ours' \subseteq Names
  BY <1>2 DEF Ours
<1>5. ASSUME UNCHANGED manual
      PROVE  Ours' = Ours \/ (n \in Names /\ Ours' = Ours \cup {n})
  <2>1. CASE n \in Ours'
    BY <1>3, <1>4, <1>5, <2>1
  <2>2. CASE n \notin Ours'
    BY <1>3, <1>4, <1>5, <2>2
  <2>3. QED
    BY <2>1, <2>2
<1>6. manual' = manual \cup {n} => Ours' = Ours
  BY <1>2 DEF Ours
<1>7. QED
  BY <1>2, <1>5, <1>6

----------------------------------------------------------------------------
(***************************************************************************)
(* The states an invocation goes to.                                       *)
(***************************************************************************)
LEMMA EndedAccounted ==
    ASSUME NEW p \in Procs, Ended(proc'[p])
    PROVE  Accounted(proc[p])'
<1>1. \A n \in Names : proc'[p].formats[n] = NULL
  BY NamesAssumption DEF Ended, NoTable
<1>2. QED
  BY <1>1 DEF Ended, Accounted, TableFiles, Cleared, Clear, Turns, Swept

LEMMA LeftAccounted ==
    ASSUME NEW p \in Procs, NEW q, Left(q, proc'[p]),
           ~q.test => \A n \in Names : q.formats[n] # NULL => is_file(n)',
           EntriesSurviveUmount /\ q.mode = "disableall" /\ ~q.test
              /\ q.name # NULL => Ours' \subseteq q.todo
    PROVE  Accounted(proc[p])'
<1>1. CASE Ended(proc'[p])
  BY <1>1, EndedAccounted
<1>2. CASE Back(q, proc'[p])
  <2>1. /\ proc'[p].pc = "loop" /\ proc'[p].name = NULL /\ q.name # NULL
        /\ proc'[p].formats = q.formats /\ proc'[p].todo = q.todo
        /\ proc'[p].mode = q.mode /\ proc'[p].test = q.test
    BY <1>2 DEF Back, Goes
  <2>2. TableFiles(proc[p])'
    BY <2>1 DEF TableFiles
  <2>3. Swept(proc[p])'
    BY <2>1 DEF Swept
  <2>4. QED
    BY <2>1, <2>2, <2>3 DEF Accounted, Cleared, Clear, Turns
<1>3. QED
  BY <1>1, <1>2 DEF Left

LEMMA GoesAccounted ==
    ASSUME NEW p \in Procs, NEW q, NEW label, NEW name, NEW new, NEW table,
           NEW todo,
           Goes(q, proc'[p], label, name, new, table, todo),
           label # "idle",
           label = "register" => table[name] # NULL,
           ~q.test => \A n \in Names : table[n] # NULL => is_file(n)',
           ~q.test /\ label \in Clear => name \notin Ours',
           label \in {"loop", "unload"} => name = NULL,
           label = "unload" => q.mode = "disableall" /\ todo = {},
           q.mode = "disableall" =>
              /\ label \in {"disable", "diswrite", "discheck", "loadall",
                            "loop", "unload"}
              /\ EntriesSurviveUmount /\ ~q.test
                 /\ (name # NULL \/ label \in {"loop", "unload"})
                    => Ours' \subseteq todo \cup {name}
    PROVE  Accounted(proc[p])'
<1>1. /\ proc'[p].pc = label /\ proc'[p].name = name
      /\ proc'[p].formats = table /\ proc'[p].todo = todo
      /\ proc'[p].mode = q.mode /\ proc'[p].test = q.test
  BY DEF Goes
<1>2. TableFiles(proc[p])'
  BY <1>1 DEF TableFiles
<1>3. Cleared(proc[p])'
  BY <1>1 DEF Cleared
<1>4. Turns(proc[p])'
  BY <1>1 DEF Turns
<1>5. Swept(proc[p])'
  BY <1>1 DEF Swept
<1>6. QED
  BY <1>1, <1>2, <1>3, <1>4, <1>5 DEF Accounted

\* What is read from the files is there.
LEMMA ReadsFiles ==
    ASSUME NEW q, TableFiles(q), NEW table, Reads(q, table), UNCHANGED admin
    PROVE  ~q.test => \A n \in Names : table[n] # NULL => is_file(n)'
BY NamesAssumption DEF TableFiles, Reads, Loaded, is_file

\* A format without an entry in procdir is not one of ours.
LEMMA NoEntry ==
    ASSUME Visible, NEW n, procfs # "mounted" \/ ~ProcEntry(n)
    PROVE  n \notin Ours
BY DEF Visible, ProcEntry, Ours

----------------------------------------------------------------------------
(***************************************************************************)
(* The steps of act_enable.                                                *)
(***************************************************************************)
LEMMA EnableAccounted ==
    ASSUME RegistryInv, NEW p \in Procs,
           \/ load_binfmt_misc(p) \/ MountBinfmtMisc(p) \/ EnableExists(p)
           \/ EnableScan(p) \/ EnableRegister(p)
    PROVE  Accounted(proc[p])'
<1> DEFINE q == proc[p]
<1>0. Inv /\ Accounted(q) /\ TableFiles(q) /\ Turns(q)
  BY DEF RegistryInv, DryInv, Accounted
<1>1. /\ UNCHANGED admin
      /\ q.pc \in {"misc", "mount", "exists", "scan", "register"}
  BY DEF load_binfmt_misc, MountBinfmtMisc, EnableExists, EnableScan,
         EnableRegister, At
<1>2. q.mode # "disableall"
  BY <1>0, <1>1 DEF Turns
<1>3. ~q.test => \A n \in Names : q.formats[n] # NULL => is_file(n)'
  BY <1>0, <1>1 DEF TableFiles, is_file
<1>4. ASSUME Left(q, proc'[p])
      PROVE  Accounted(proc[p])'
  BY <1>2, <1>3, <1>4, LeftAccounted
<1>5. ASSUME NEW label \in {"mount", "loadall", "exists", "scan"},
             Moved(q, proc'[p], label)
      PROVE  Accounted(proc[p])'
  <2>1. Goes(q, proc'[p], label, q.name, q.new, q.formats, q.todo)
    BY <1>5 DEF Moved, Tabled
  <2> HIDE DEF q
  <2>2. QED
    BY <1>2, <1>3, <2>1, GoesAccounted DEF Clear
<1>6. CASE load_binfmt_misc(p) \/ MountBinfmtMisc(p)
  BY <1>0, <1>4, <1>5, <1>6, MiscAfter
<1>7. CASE EnableExists(p)
  BY <1>0, <1>4, <1>5, <1>7, ExistsAfter
<1>8. CASE EnableScan(p)
  <2>1. ASSUME NEW table, NEW todo,
               Goes(q, proc'[p], "register", q.name, q.new, table, todo),
               Reads(q, table), table[q.name] # NULL
        PROVE  Accounted(proc[p])'
    <3>1. ~q.test => \A n \in Names : table[n] # NULL => is_file(n)'
      BY <1>0, <1>1, <2>1, ReadsFiles
    <3> HIDE DEF q
    <3>2. QED
      BY <1>2, <2>1, <3>1, GoesAccounted DEF Clear
  <2>2. QED
    BY <1>0, <1>4, <1>8, <2>1, ScanAfter
<1>9. CASE EnableRegister(p)
  BY <1>0, <1>4, <1>9, RegisterAfter
<1>10. QED
  BY <1>6, <1>7, <1>8, <1>9

----------------------------------------------------------------------------
(***************************************************************************)
(* The steps of act_disable and of the loops.                              *)
(***************************************************************************)
LEMMA AfterDisableAccounted ==
    ASSUME RegistryInv, NEW p \in Procs, UNCHANGED <<kernelVars, admin>>,
           proc[p].pc \in {"disable", "diswrite", "discheck"},
           AfterDisable(proc[p], proc'[p]),
           \/ proc[p].test \/ proc[p].name \notin Ours
           \/ proc[p].mode = "disableall" /\ ~EntriesSurviveUmount
           \/ proc[p].mode # "disableall" /\ Left(proc[p], proc'[p])
    PROVE  Accounted(proc[p])'
<1> DEFINE q == proc[p]
<1>0. Inv /\ Accounted(q) /\ TableFiles(q) /\ Turns(q) /\ Swept(q)
  BY DEF RegistryInv, DryInv, Accounted
<1>1. Ours' = Ours
  BY <1>0, KernelOurs
<1>2. ~q.test => \A n \in Names : q.formats[n] # NULL => is_file(n)'
  BY <1>0 DEF TableFiles, is_file
<1>3. CASE Left(q, proc'[p])
  <2>1. EntriesSurviveUmount /\ q.mode = "disableall" /\ ~q.test
           /\ q.name # NULL => Ours' \subseteq q.todo
    BY <1>0, <1>1 DEF Swept
  <2>2. QED
    BY <1>2, <1>3, <2>1, LeftAccounted
<1>4. ASSUME NEW label \in {"manual", "unlink"}, Moved(q, proc'[p], label),
             q.mode # "disableall"
      PROVE  Accounted(proc[p])'
  <2>1. CASE Left(q, proc'[p])
    BY <1>3, <2>1
  <2>2. CASE q.test \/ q.name \notin Ours
    <3>1. Goes(q, proc'[p], label, q.name, q.new, q.formats, q.todo)
      BY <1>4 DEF Moved, Tabled
    <3> HIDE DEF q
    <3>2. QED
      BY <1>1, <1>2, <1>4, <2>2, <3>1, GoesAccounted
  <2>3. QED
    BY <1>4, <2>1, <2>2
<1>5. QED
  BY <1>3, <1>4 DEF AfterDisable, Installs, Imports

LEMMA DisableAccounted ==
    ASSUME RegistryInv, Heard, NEW p \in Procs,
           DisableExists(p) \/ DisableWrite(p) \/ DisableCheck(p)
    PROVE  Accounted(proc[p])'
<1> DEFINE q == proc[p]
<1>0. /\ Inv /\ Accounted(q) /\ TableFiles(q) /\ Turns(q) /\ Swept(q)
      /\ Cleared(q) /\ Visible
  BY DEF RegistryInv, DryInv, Accounted
<1>1. UNCHANGED admin /\ q.pc \in {"disable", "diswrite", "discheck"}
  BY DEF DisableExists, DisableWrite, DisableCheck, At
<1>2. ~q.test => \A n \in Names : q.formats[n] # NULL => is_file(n)'
  BY <1>0, <1>1 DEF TableFiles, is_file
<1>3. CASE DisableExists(p)
  <2>1. UNCHANGED <<kernelVars, admin>> /\ Ours' = Ours
    BY <1>0, <1>3, DisableAfter, KernelOurs
  <2>2. CASE q.name = NULL /\ Moved(q, proc'[p], "loadall")
    <3>1. Goes(q, proc'[p], "loadall", q.name, q.new, q.formats, q.todo)
      BY <2>2 DEF Moved, Tabled
    <3> HIDE DEF q
    <3>2. QED
      BY <1>2, <2>2, <3>1, GoesAccounted DEF Clear
  <2>3. CASE q.name # NULL /\ Moved(q, proc'[p], "diswrite")
    <3>1. Goes(q, proc'[p], "diswrite", q.name, q.new, q.formats, q.todo)
      BY <2>3 DEF Moved, Tabled
    <3>2. EntriesSurviveUmount /\ q.mode = "disableall" /\ ~q.test =>
             Ours' \subseteq q.todo \cup {q.name}
      BY <1>0, <2>1, <2>3 DEF Swept
    <3> HIDE DEF q
    <3>3. QED
      BY <1>2, <3>1, <3>2, GoesAccounted DEF Clear
  <2>4. CASE /\ procfs = "absent" \/ q.test \/ ~ProcEntry(q.name)
             /\ AfterDisable(q, proc'[p])
    <3>1. q.test \/ q.name \notin Ours
      BY <1>0, <2>4, NoEntry
    <3>2. QED
      BY <1>1, <2>1, <2>4, <3>1, AfterDisableAccounted
  <2>5. QED
    BY <1>0, <1>3, <2>2, <2>3, <2>4, DisableAfter
<1>4. CASE DisableWrite(p)
  <2>1. CASE KernelUnregister(q.name) /\ Moved(q, proc'[p], "discheck")
    <3>1. Goes(q, proc'[p], "discheck", q.name, q.new, q.formats, q.todo)
      BY <2>1 DEF Moved, Tabled
    <3>2. q.name \notin Ours' /\ Ours' \subseteq Ours
      BY <1>0, <2>1, KernelOurs
    <3>3. q.pc = "diswrite" /\ q.name # NULL
      BY <1>0, <1>4, NamesAssumption DEF DisableWrite, At, Inv, Control
    <3>4. EntriesSurviveUmount /\ q.mode = "disableall" /\ ~q.test =>
             Ours' \subseteq q.todo \cup {q.name}
      BY <1>0, <3>2, <3>3 DEF Swept
    <3> HIDE DEF q
    <3>5. QED
      BY <1>2, <3>1, <3>2, <3>4, GoesAccounted
  <2>2. CASE /\ UNCHANGED kernelVars
             /\ ~ProcEntry(q.name) \/ Fault("unregister")
             /\ Left(q, proc'[p])
    <3>1. AfterDisable(q, proc'[p]) /\ UNCHANGED <<kernelVars, admin>>
      BY <1>1, <2>2 DEF AfterDisable
    <3>2. q.name \notin Ours \/ ~EntriesSurviveUmount
      BY <1>0, <2>2, NoEntry DEF Heard
    <3>3. QED
      BY <1>1, <2>2, <3>1, <3>2, AfterDisableAccounted
  <2>3. QED
    BY <1>0, <1>4, <2>1, <2>2, DisableWriteAfter
<1>5. CASE DisableCheck(p)
  <2>1. UNCHANGED <<kernelVars, admin>> /\ AfterDisable(q, proc'[p])
    BY <1>0, <1>5, DisableCheckAfter DEF AfterDisable
  <2>2. q.test \/ q.name \notin Ours
    BY <1>0, <1>5 DEF DisableCheck, At, Cleared, Clear
  <2>3. QED
    BY <1>1, <2>1, <2>2, AfterDisableAccounted
<1>6. QED
  BY <1>3, <1>4, <1>5

\* The loop starts from the files, which is all the kernel can have, and
\* skips only formats that procdir does not have.
LEMMA LoopAccounted ==
    ASSUME RegistryInv, NEW p \in Procs,
           LoadAll(p) \/ Loop(p) \/ unload_binfmt_misc(p)
    PROVE  Accounted(proc[p])'
<1> DEFINE q == proc[p]
<1>0. /\ IntegrityInv /\ Inv /\ Control(p, q) /\ NoOrphan
      /\ Accounted(q) /\ TableFiles(q) /\ Turns(q) /\ Swept(q) /\ Visible
      /\ q \in Process
  BY InvSound DEF RegistryInv, OwnershipInv, DryInv, Accounted, Inv, Sound
<1>1. UNCHANGED admin
  BY DEF LoadAll, Loop, unload_binfmt_misc
<1>2. ~q.test => \A n \in Names : q.formats[n] # NULL => is_file(n)'
  BY <1>0, <1>1 DEF TableFiles, is_file
<1>3. CASE LoadAll(p)
  <2> DEFINE table == load_all_formats(q.formats)
  <2>1. q.name = NULL /\ UNCHANGED <<kernelVars, admin>> /\ Ours' = Ours
    BY <1>0, <1>3, LoadAllAfter, KernelOurs
  <2>2. ASSUME Goes(q, proc'[p], "loop", NULL, q.new, table, Keys(table))
        PROVE  Accounted(proc[p])'
    <3>1. ~q.test => \A n \in Names : table[n] # NULL => is_file(n)'
      BY <1>0, <2>1, TableReads, ReadsFiles
    <3>2. Ours \subseteq Keys(table)
      <4>1. \A n \in Ours : n \in FormatNames /\ Loaded(n) # NULL
        BY <1>0, OursFiles, FileOwned, NamesAssumption DEF Ours
      <4>2. \A n \in FormatNames : Loaded(n) # NULL => table[n] # NULL
        BY DEF load_all_formats
      <4>3. QED
        BY <4>1, <4>2 DEF Keys
    <3>3. Turns(q) /\ (q.mode = "disableall" => Ours' \subseteq Keys(table) \cup {NULL})
      BY <1>0, <2>1, <3>2
    <3> HIDE DEF q, table
    <3>4. QED
      BY <2>2, <3>1, <3>3, GoesAccounted DEF Clear
  <2>3. QED
    BY <1>0, <1>3, <2>2, LoadAllAfter, EndedAccounted
<1>4. CASE Loop(p)
  <2>1. UNCHANGED <<kernelVars, admin>> /\ Ours' = Ours /\ q.pc = "loop"
    BY <1>0, <1>4, LoopAfter, KernelOurs
  <2>2. EntriesSurviveUmount /\ q.mode = "disableall" /\ ~q.test =>
           Ours \subseteq q.todo \cup {NULL}
    BY <1>0, <2>1 DEF Swept, Turns
  <2>3. q.name = NULL
    BY <1>0, <2>1 DEF Turns
  <2>4. CASE /\ q.mode = "disableall" /\ q.todo = {}
             /\ Moved(q, proc'[p], "unload")
    <3>1. Goes(q, proc'[p], "unload", q.name, q.new, q.formats, q.todo)
      BY <2>4 DEF Moved, Tabled
    <3> HIDE DEF q
    <3>2. QED
      BY <1>2, <2>1, <2>2, <2>3, <2>4, <3>1, GoesAccounted DEF Clear
  <2>5. ASSUME NEW n \in q.todo, NEW label, label = LoopBody(q, n),
               NEW name, name = IF label = "loop" THEN NULL ELSE n,
               Goes(q, proc'[p], label, name, q.new, q.formats, q.todo \ {n})
        PROVE  Accounted(proc[p])'
    <3>1. /\ label \in {"import", "misc", "disable", "loop"}
          /\ q.mode = "disableall" =>
                \/ label = "disable"
                \/ label = "loop" /\ ~ProcEntry(n)
      <4>1. LoopBody(q, n) \in {"import", "misc", "disable", "loop"}
        BY DEF LoopBody
      <4>2. q.mode = "disableall" /\ ProcEntry(n) => LoopBody(q, n) = "disable"
        BY DEF LoopBody
      <4>3. q.mode = "disableall" /\ ~ProcEntry(n) => LoopBody(q, n) = "loop"
        BY DEF LoopBody
      <4>4. QED
        BY <2>5, <4>1, <4>2, <4>3
    <3>2. ASSUME EntriesSurviveUmount, q.mode = "disableall", ~q.test
          PROVE  Ours \subseteq (q.todo \ {n}) \cup {name}
      <4>1. CASE label = "disable"
        <5>1. NULL \notin Ours
          BY NamesAssumption DEF Ours
        <5>2. QED
          BY <2>2, <2>5, <3>2, <4>1, <5>1
      <4>2. CASE label = "loop" /\ ~ProcEntry(n)
        <5>1. n \notin Ours
          BY <1>0, <4>2, NoEntry
        <5>2. QED
          BY <2>2, <2>5, <3>2, <4>2, <5>1
      <4>3. QED
        BY <3>1, <3>2, <4>1, <4>2
    <3> HIDE DEF q
    <3>3. label \notin Clear \cup {"idle", "register", "unload"}
      BY <3>1 DEF Clear
    <3>4. QED
      BY <1>2, <2>1, <2>5, <3>1, <3>2, <3>3, GoesAccounted
  <2>6. QED
    BY <1>0, <1>4, <2>4, <2>5, LoopAfter, EndedAccounted
<1>5. CASE unload_binfmt_misc(p)
  BY <1>0, <1>5, UnloadAfter, EndedAccounted
<1>6. QED
  BY <1>3, <1>4, <1>5

----------------------------------------------------------------------------
(***************************************************************************)
(* The steps of act_install, act_import, act_remove and act_display.       *)
(***************************************************************************)
LEMMA ReadAccounted ==
    ASSUME RegistryInv, NEW p \in Procs,
           \/ InstallLoad(p) \/ RemoveLoad(p) \/ Import(p) \/ Display(p)
    PROVE  Accounted(proc[p])'
<1> DEFINE q == proc[p]
           table == load_format(q.formats, q.name)
<1>0. /\ Inv /\ NoOrphan /\ Accounted(q) /\ TableFiles(q) /\ Turns(q)
      /\ q \in Process
  BY InvSound DEF RegistryInv, DryInv, Accounted, Sound
<1>1. /\ UNCHANGED <<kernelVars, admin>> /\ Ours' = Ours
      /\ q.pc \in {"install", "remove", "import", "display"}
  BY <1>0, KernelOurs DEF InstallLoad, RemoveLoad, Import, Display, At
<1>2. q.mode # "disableall"
  BY <1>0, <1>1 DEF Turns
<1>3. ~q.test => \A n \in Names : q.formats[n] # NULL => is_file(n)'
  BY <1>0, <1>1 DEF TableFiles, is_file
<1>4. ~q.test => \A n \in Names : table[n] # NULL => is_file(n)'
  BY <1>0, <1>1, TableReads, ReadsFiles
<1> HIDE DEF table
<1>5. ASSUME Left(q, proc'[p])
      PROVE  Accounted(proc[p])'
  BY <1>2, <1>3, <1>5, LeftAccounted
<1>6. ASSUME NEW label \in {"disable", "manual", "install"}, NEW new,
             Goes(q, proc'[p], label, q.name, new, table, q.todo),
             label = "manual" => ~is_file(q.name)
      PROVE  Accounted(proc[p])'
  <2>1. label = "manual" => q.name \notin Ours
    BY <1>0, <1>6, OursFiles
  <2>2. label \in Clear => label = "manual"
    BY DEF Clear
  <2> HIDE DEF q
  <2>3. QED
    BY <1>1, <1>2, <1>4, <1>6, <2>1, <2>2, GoesAccounted
<1>7. CASE InstallLoad(p)
  <2>1. \/ Left(q, proc'[p])
        \/ is_file(q.name) /\ Tabled(q, proc'[p], "disable", table)
        \/ ~is_file(q.name) /\ Tabled(q, proc'[p], "manual", table)
    BY <1>0, <1>7, InstallLoadAfter DEF table
  <2>2. QED
    BY <1>5, <1>6, <2>1 DEF Tabled
<1>8. CASE RemoveLoad(p)
  <2>1. Left(q, proc'[p]) \/ Tabled(q, proc'[p], "disable", table)
    BY <1>0, <1>8, RemoveLoadAfter DEF table
  <2>2. QED
    BY <1>5, <1>6, <2>1 DEF Tabled
<1>9. CASE Import(p)
  <2>1. \/ Left(q, proc'[p])
        \/ \E r : Tabled(q, r, "import", table) /\ Left(r, proc'[p])
        \/ \E new : Goes(q, proc'[p], "install", q.name, new, table, q.todo)
    BY <1>0, <1>9, ImportAfter DEF table
  <2>2. ASSUME NEW r, Tabled(q, r, "import", table), Left(r, proc'[p])
        PROVE  Accounted(proc[p])'
    <3>1. r.mode = q.mode /\ r.test = q.test /\ r.formats = table
      BY <2>2 DEF Tabled, Goes
    <3>2. QED
      BY <1>2, <1>4, <2>2, <3>1, LeftAccounted
  <2>3. QED
    BY <1>5, <1>6, <2>1, <2>2
<1>10. CASE Display(p)
  BY <1>0, <1>10, DisplayAfter, EndedAccounted
<1>11. QED
  BY <1>7, <1>8, <1>9, <1>10

LEMMA WriteAccounted ==
    ASSUME RegistryInv, NEW p \in Procs,
           \/ InstallManual(p) \/ WriteOpen(p) \/ WriteFill(p)
           \/ RenameTmp(p) \/ RemoveUnlink(p)
    PROVE  Accounted(proc[p])'
<1> DEFINE q == proc[p]
           n == q.name
           table == kvhash_insert(q.formats, n, q.new)
<1>0. /\ OwnershipInv /\ IntegrityInv /\ Inv /\ Control(p, q)
      /\ Accounted(q) /\ TableFiles(q) /\ Cleared(q) /\ Dry(q)
      /\ q \in Process /\ admin \in [FormatNames -> File]
  BY InvSound DEF RegistryInv, OwnershipInv, IntegrityInv, DryInv, Inv, TypeOK,
                  Accounted, Sound
<1>1. q.pc \in {"manual", "open", "fill", "rename", "unlink"}
  BY DEF InstallManual, WriteOpen, WriteFill, RenameTmp, RemoveUnlink, At
<1>2. /\ UNCHANGED kernelVars /\ Ours' = Ours
      /\ q.mode \in Installs \cup {"remove"} /\ n \in Names /\ n \in FormatNames
      /\ Tmp[n] \in FormatNames \ Names
  BY <1>0, <1>1, KernelOurs, RunAssumption, NamesAssumption
     DEF InstallManual, WriteOpen, WriteFill, RenameTmp, RemoveUnlink, Control,
         Writers
<1>3. q.mode # "disableall" /\ (q.mode = "remove" => q.mode \notin Loops)
  BY <1>2 DEF Installs, Imports, Loops
<1>4. ~q.test => n \notin Ours
  BY <1>0, <1>1 DEF Cleared, Clear
<1>5. ASSUME Left(q, proc'[p]), \A m \in Names : admin'[m] = admin[m]
      PROVE  Accounted(proc[p])'
  <2>1. ~q.test => \A m \in Names : q.formats[m] # NULL => is_file(m)'
    BY <1>0, <1>5 DEF TableFiles, is_file
  <2>2. QED
    BY <1>3, <1>5, <2>1, LeftAccounted
<1>6. ASSUME NEW label \in {"open", "fill", "rename"}, Moved(q, proc'[p], label),
             \A m \in Names : admin'[m] = admin[m]
      PROVE  Accounted(proc[p])'
  <2>1. Goes(q, proc'[p], label, n, q.new, q.formats, q.todo)
    BY <1>6 DEF Moved, Tabled
  <2>2. ~q.test => \A m \in Names : q.formats[m] # NULL => is_file(m)'
    BY <1>0, <1>6 DEF TableFiles, is_file
  <2> HIDE DEF q, n
  <2>3. QED
    BY <1>2, <1>3, <1>4, <2>1, <2>2, GoesAccounted
<1>7. ASSUME Goes(q, proc'[p], "misc", n, q.new, table, q.todo),
             ~q.test => \A m \in Names : table[m] # NULL => is_file(m)'
      PROVE  Accounted(proc[p])'
  <2> HIDE DEF q, n, table
  <2>1. QED
    BY <1>3, <1>7, GoesAccounted DEF Clear
<1>8. CASE InstallManual(p)
  <2>1. \A m \in Names : admin'[m] = admin[m]
    BY <1>8 DEF InstallManual
  <2>2. CASE q.test /\ Tabled(q, proc'[p], "misc", table)
    BY <1>7, <2>2 DEF Tabled
  <2>3. QED
    BY <1>0, <1>5, <1>6, <1>8, <2>1, <2>2, ManualAfter
<1>9. CASE WriteOpen(p) \/ WriteFill(p)
  <2>1. OnlyFile(Tmp[n])
    BY <1>0, <1>9, OpenAfter, FillAfter
  <2>2. \A m \in Names : admin'[m] = admin[m]
    BY <1>2, <2>1, NamesAssumption DEF OnlyFile
  <2>3. QED
    BY <1>0, <1>5, <1>6, <1>9, <2>2, OpenAfter, FillMoves
<1>10. CASE RenameTmp(p)
  <2>1. CASE Left(q, proc'[p]) /\ UNCHANGED admin
    BY <1>5, <2>1
  <2>2. CASE /\ is_file(Tmp[n])
             /\ admin' = [admin EXCEPT ![n] = admin[Tmp[n]], ![Tmp[n]] = NULL]
             /\ Tabled(q, proc'[p], "misc", table)
    <3>1. /\ admin'[n] = admin[Tmp[n]] /\ admin[Tmp[n]] # NULL
          /\ \A m \in Names \ {n} : admin'[m] = admin[m]
      BY <1>0, <1>2, <2>2, NamesAssumption DEF is_file
    <3>2. \A m \in Names \ {n} : table[m] = q.formats[m]
      BY <1>0 DEF kvhash_insert, Process, Cache
    <3> HIDE DEF n, table
    <3>3. ~q.test => \A m \in Names : table[m] # NULL => is_file(m)'
      BY <1>0, <3>1, <3>2 DEF TableFiles, is_file
    <3>4. QED
      BY <1>7, <2>2, <3>3 DEF Tabled, n
  <2>3. QED
    BY <1>0, <1>10, <2>1, <2>2, RenameAfter
<1>11. CASE RemoveUnlink(p)
  <2>1. CASE UNCHANGED admin
    BY <1>0, <1>5, <1>11, <2>1, UnlinkAfter
  <2>2. CASE Ended(proc'[p])
    BY <2>2, EndedAccounted
  <2>3. q.mode = "remove" /\ Left(q, proc'[p])
    BY <1>0, <1>11, UnlinkAfter DEF Control
  <2>4. QED
    BY <1>3, <2>2, <2>3 DEF Left, Back
<1>12. QED
  BY <1>8, <1>9, <1>10, <1>11

LEMMA StepAccounted ==
    ASSUME RegistryInv, Heard, NEW p \in Procs, Step(p)
    PROVE  Accounted(proc[p])'
BY EnableAccounted, DisableAccounted, LoopAccounted, ReadAccounted,
   WriteAccounted DEF Step

----------------------------------------------------------------------------
(***************************************************************************)
(* What a step does to the kernel's formats: one of the database is added, *)
(* one goes, or all go.                                                    *)
(***************************************************************************)
KernelStep ==
    \/ Ours' = Ours
    \/ \E n \in Names : is_file(n) /\ Ours' = Ours \cup {n}
    \/ \E n \in Names : Ours' = Ours \ {n}
    \/ Ours' = {}

LEMMA SameKernel ==
    ASSUME Inv, Visible, UNCHANGED kernelVars
    PROVE  KernelStep /\ Visible'
BY KernelOurs DEF KernelStep, Visible, kernelVars

LEMMA EnableKernel ==
    ASSUME RegistryInv, NEW p \in Procs,
           load_binfmt_misc(p) \/ MountBinfmtMisc(p) \/ EnableRegister(p)
    PROVE  KernelStep /\ Visible'
<1>0. Inv /\ Visible /\ Accounted(proc[p])
  BY DEF RegistryInv, DryInv
<1>1. CASE KernelModprobe \/ KernelMount \/ KernelSwitchOn
  <2>1. Ours' = Ours
    BY <1>0, <1>1, KernelOurs
  <2>2. Visible'
    BY <1>0, <1>1, <2>1
       DEF KernelModprobe, KernelMount, KernelSwitchOn, Visible
  <2>3. QED
    BY <2>1, <2>2 DEF KernelStep
<1>2. CASE UNCHANGED kernelVars
  BY <1>0, <1>2, SameKernel
<1>3. CASE EnableRegister(p)
  <2>1. CASE /\ ~proc[p].test /\ KernelRegister(proc[p].name, proc[p].reg)
             /\ UNCHANGED manual
    <3>1. proc[p].formats[proc[p].name] # NULL
      BY <1>0, <1>3 DEF EnableRegister, At, Accounted
    <3>2. proc[p].name \in Names => is_file(proc[p].name)
      BY <1>0, <2>1, <3>1 DEF Accounted, TableFiles
    <3>3. KernelStep
      BY <1>0, <2>1, <3>2, RegisterOurs DEF KernelStep
    <3>4. procfs' = "mounted"
      BY <1>0, <2>1, RegisterOurs
    <3>5. QED
      BY <3>3, <3>4 DEF Visible
  <2>2. QED
    BY <1>0, <1>2, <1>3, <2>1, RegisterAfter
<1>4. CASE load_binfmt_misc(p) \/ MountBinfmtMisc(p)
  BY <1>1, <1>2, <1>4 DEF load_binfmt_misc, MountBinfmtMisc
<1>5. QED
  BY <1>3, <1>4

LEMMA DisableKernel ==
    ASSUME RegistryInv, NEW p \in Procs, DisableWrite(p) \/ unload_binfmt_misc(p)
    PROVE  KernelStep /\ Visible'
<1>0. Inv /\ Visible /\ Accounted(proc[p])
  BY DEF RegistryInv, DryInv
<1>1. CASE UNCHANGED kernelVars
  BY <1>0, <1>1, SameKernel
<1>2. CASE KernelUnregister(proc[p].name)
  <2>1. Ours' = Ours \ {proc[p].name} /\ Ours \subseteq Names
    BY <1>0, <1>2, KernelOurs DEF Ours
  <2>2. KernelStep
    BY <2>1 DEF KernelStep
  <2>3. procfs' = "mounted"
    BY <1>2 DEF KernelUnregister, ProcEntry
  <2>4. QED
    BY <2>2, <2>3 DEF Visible
<1>3. CASE unload_binfmt_misc(p) /\ ~proc[p].test /\ KernelUmount
  <2>1. EntriesSurviveUmount => Ours = {}
    <3>1. /\ proc[p].mode = "disableall" /\ proc[p].todo = {}
          /\ proc[p].name = NULL /\ proc[p].pc = "unload"
      BY <1>0, <1>3 DEF unload_binfmt_misc, At, Accounted, Turns
    <3>2. EntriesSurviveUmount => Ours \subseteq {NULL}
      BY <1>0, <1>3, <3>1 DEF Accounted, Swept
    <3>3. NULL \notin Ours
      BY NamesAssumption DEF Ours
    <3>4. QED
      BY <3>2, <3>3
  <2>2. Ours' = {}
    BY <1>0, <1>3, <2>1, KernelOurs
  <2>3. QED
    BY <2>2 DEF KernelStep, Visible
<1>4. QED
  BY <1>0, <1>1, <1>2, <1>3, DisableWriteAfter, UnloadAfter

LEMMA NextKernel ==
    ASSUME RegistryInv, [Next]_vars
    PROVE  KernelStep /\ Visible'
<1>0. Inv /\ Visible
  BY DEF RegistryInv, DryInv
<1>1. CASE UNCHANGED kernelVars
  BY <1>0, <1>1, SameKernel
<1>2. CASE Reboot
  BY <1>0, <1>2, KernelOurs DEF Reboot, KernelStep, Visible
<1>3. ASSUME NEW n \in Names, ManualRegister(n)
      PROVE  KernelStep /\ Visible'
  <2>1. Ours' = Ours /\ procfs' = "mounted"
    BY <1>0, <1>3, RegisterOurs DEF ManualRegister
  <2>2. QED
    BY <2>1 DEF KernelStep, Visible
<1>4. CASE ManualSwitchOff
  <2>1. Ours' = Ours /\ procfs' = "mounted"
    BY <1>4 DEF ManualSwitchOff, Ours
  <2>2. QED
    BY <2>1 DEF KernelStep, Visible
<1>5. ASSUME NEW p \in Procs, Step(p)
      PROVE  \/ UNCHANGED kernelVars
             \/ load_binfmt_misc(p) \/ MountBinfmtMisc(p) \/ EnableRegister(p)
             \/ DisableWrite(p) \/ unload_binfmt_misc(p)
  BY <1>5
     DEF Step, EnableExists, EnableScan, DisableExists, DisableCheck, LoadAll,
         Loop, InstallLoad, InstallManual, WriteOpen, WriteFill, RenameTmp,
         RemoveLoad, RemoveUnlink, Import, Display
<1>6. ASSUME NEW p \in Procs, Start(p) \/ Kill(p)
      PROVE  UNCHANGED kernelVars
  BY <1>0, <1>6, StartAfter DEF Kill
<1>7. QED
  BY <1>1, <1>2, <1>3, <1>4, <1>5, <1>6, EnableKernel, DisableKernel
     DEF Next, vars, kernelVars

----------------------------------------------------------------------------
(***************************************************************************)
(* What a step does to the database: one description appears or changes,   *)
(* or one goes, and the kernel does not have that format then.             *)
(***************************************************************************)
OneFile(n) == n \notin Ours /\ Ours' = Ours
                 /\ \A m \in Names \ {n} : admin'[m] = admin[m]

Puts(n) ==
    /\ OneFile(n)
    /\ is_file(n)' /\ Loaded(n)' # NULL
    /\ is_file(n) => Loaded(n)'.package = Loaded(n).package

Takes(n) == OneFile(n) /\ is_file(n) /\ ~is_file(n)'

LEMMA NextFiles ==
    ASSUME RegistryInv, [Next]_vars
    PROVE  \/ \A n \in Names : admin'[n] = admin[n]
           \/ \E n \in Names : Puts(n)
           \/ \E n \in Names : Takes(n)
<1>0. OwnershipInv /\ Inv
  BY DEF RegistryInv, DryInv
<1>1. ASSUME NEW p \in Procs, RenameTmp(p), NEW n \in Names, Renames(p, n)
      PROVE  Puts(n)
  <2>1. Ours' = Ours
    BY <1>0, <1>1, RenameAfter, KernelOurs
  <2>2. n \notin Ours
    BY <1>1 DEF RegistryInv, DryInv, Dry, Accounted, Cleared, Clear, Renames, At
  <2>3. QED
    BY <1>1, <2>1, <2>2 DEF Renames, Puts, OneFile
<1>2. ASSUME NEW p \in Procs, RemoveUnlink(p), NEW n \in Names, Unlinks(p, n)
      PROVE  Takes(n)
  <2>1. Ours' = Ours
    BY <1>0, <1>2, UnlinkAfter, KernelOurs
  <2>2. ~proc[p].test
    BY <1>0, <1>2, UnlinkAfter DEF Unlinks, is_file
  <2>3. n \notin Ours
    BY <1>2, <2>2 DEF RegistryInv, Accounted, Cleared, Clear, Unlinks, At
  <2>4. QED
    BY <1>2, <2>1, <2>3 DEF Unlinks, Takes, OneFile
<1>3. QED
  BY <1>0, <1>1, <1>2, DatabaseChanges

LEMMA NextOrphan ==
    ASSUME RegistryInv, [Next]_vars
    PROVE  NoOrphan'
<1>1. \A n \in Ours : is_file(n)
  BY OursFiles DEF RegistryInv
<1>2. ASSUME NEW n \in Ours', n \in Names
      PROVE  is_file(n)'
  <2>1. CASE \A m \in Names : admin'[m] = admin[m]
    <3>1. is_file(n)
      BY <1>1, <1>2, NextKernel DEF KernelStep
    <3>2. QED
      BY <1>2, <2>1, <3>1 DEF is_file
  <2>2. ASSUME NEW m \in Names, Puts(m)
        PROVE  is_file(n)'
    BY <1>1, <1>2, <2>2 DEF Puts, OneFile, is_file
  <2>3. ASSUME NEW m \in Names, Takes(m)
        PROVE  is_file(n)'
    BY <1>1, <1>2, <2>3 DEF Takes, OneFile, is_file
  <2>4. QED
    BY <2>1, <2>2, <2>3, NextFiles
<1>3. QED
  BY <1>2 DEF NoOrphan, Ours

----------------------------------------------------------------------------
\* The other invocations: there is none, or it is idle.
LEMMA IdleAccounted ==
    ASSUME RegistryInv, NEW r \in Procs, proc[r].pc = "idle",
           Moved(proc[r], proc'[r], "idle")
    PROVE  Accounted(proc[r])'
<1>1. /\ proc'[r].pc = "idle" /\ proc'[r].mode = "none"
      /\ \A n \in Names : proc'[r].formats[n] = NULL
      /\ proc'[r].formats = NoTable
  BY NamesAssumption
     DEF RegistryInv, Accounted, Moved, Tabled, Goes, NoTable
<1>2. QED
  BY <1>1 DEF Accounted, TableFiles, Cleared, Clear, Turns, Swept

LEMMA StartAccounted ==
    ASSUME RegistryInv, NEW p \in Procs, Start(p)
    PROVE  Accounted(proc[p])'
<1>1. Ended(proc'[p]) \/ Started(proc'[p])
  BY StartAfter DEF RegistryInv, DryInv
<1>2. CASE Started(proc'[p])
  <2>1. \A n \in Names : proc'[p].formats[n] = NULL
    BY <1>2, NamesAssumption DEF Started, NoTable
  <2>2. TableFiles(proc[p])'
    BY <2>1 DEF TableFiles
  <2>3. /\ proc'[p].pc \notin Clear \cup {"idle", "register", "unload"}
        /\ Turns(proc[p])'
    BY <1>2 DEF Started, OtherModes, Clear, Turns
  <2>4. Swept(proc[p])'
    BY <1>2 DEF Started, OtherModes, Swept
  <2>5. QED
    BY <2>2, <2>3, <2>4 DEF Accounted, Cleared
<1>3. QED
  BY <1>1, <1>2, EndedAccounted

LEMMA InitRegistry == Init => RegistryInv
<1> SUFFICES ASSUME Init
             PROVE  RegistryInv
  OBVIOUS
<1>1. \A n \in Names : entry[n] = NULL
  BY NamesAssumption DEF Init, KernelInit
<1>2. NoOrphan /\ Visible
  BY <1>1 DEF NoOrphan, Visible, Ours
<1>3. \A p \in Procs : Ended(proc[p])
  BY ExitedFields DEF Init
<1>4. \A p \in Procs : \A n \in Names : proc[p].formats[n] = NULL
  BY <1>3, NamesAssumption DEF Ended, NoTable
<1>5. \A p \in Procs : Accounted(proc[p])
  BY <1>3, <1>4
     DEF Ended, Accounted, TableFiles, Cleared, Clear, Turns, Swept
<1>6. QED
  BY <1>2, <1>5, InitOwned, InitDry DEF RegistryInv

LEMMA NextRegistry ==
    Serial /\ Heard /\ RegistryInv /\ [Next]_vars => RegistryInv'
<1> SUFFICES ASSUME Serial, Heard, RegistryInv, [Next]_vars
             PROVE  RegistryInv'
  OBVIOUS
<1>1. /\ OwnershipInv' /\ DryInv' /\ NoOrphan' /\ Visible'
      /\ Inv /\ Alone
  BY NextOwned, NextDry, NextOrphan, NextKernel
     DEF RegistryInv, OwnershipInv, IntegrityInv, Exclusive
<1>2. ASSUME NEW p \in Procs, Accounted(proc[p])', OthersStay(p), OthersIdle(p)
      PROVE  RegistryInv'
  <2>1. ASSUME NEW r \in Procs, r # p
        PROVE  Accounted(proc[r])'
    <3>1. proc[r].pc = "idle" /\ Moved(proc[r], proc'[r], "idle")
      BY <1>2, <2>1 DEF OthersIdle, OthersStay, At
    <3>2. QED
      BY <3>1, IdleAccounted
  <2>2. QED
    BY <1>1, <1>2, <2>1 DEF RegistryInv
<1>3. ASSUME NEW p \in Procs, Start(p)
      PROVE  RegistryInv'
  <2>1. OthersStay(p) /\ OthersIdle(p)
    BY <1>3, StartOwned DEF RegistryInv
  <2>2. QED
    BY <1>2, <1>3, <2>1, StartAccounted
<1>4. ASSUME NEW p \in Procs, Step(p)
      PROVE  RegistryInv'
  <2>1. OthersStay(p) /\ OthersIdle(p)
    BY <1>1, <1>4, StepStays, RunsAlone DEF At
  <2>2. QED
    BY <1>2, <1>4, <2>1, StepAccounted
<1>5. ASSUME NEW p \in Procs, Kill(p)
      PROVE  RegistryInv'
  <2>1. Become(p, Exited("killed")) /\ OthersIdle(p)
    BY <1>1, <1>5, RunsAlone DEF Kill
  <2>2. OthersStay(p) /\ Ended(proc'[p])
    BY <1>1, <2>1, BecomeStay, BecomeFields, ExitedFields
  <2>3. QED
    BY <1>2, <2>1, <2>2, EndedAccounted
<1>6. CASE Reboot
  <2>1. ASSUME NEW p \in Procs
        PROVE  Accounted(proc[p])'
    <3>1. CASE proc[p].pc = "idle"
      <4>1. proc'[p] = proc[p]
        BY <1>6, <3>1 DEF Reboot, At
      <4>2. Moved(proc[p], proc'[p], "idle")
        BY <3>1, <4>1 DEF Moved, Tabled, Goes
      <4>3. QED
        BY <3>1, <4>2, IdleAccounted
    <3>2. CASE proc[p].pc # "idle"
      <4>1. Ended(proc'[p])
        BY <1>6, <3>2, ExitedFields DEF Reboot, At
      <4>2. QED
        BY <4>1, EndedAccounted
    <3>3. QED
      BY <3>1, <3>2
  <2>2. QED
    BY <1>1, <2>1 DEF RegistryInv
<1>7. ASSUME UNCHANGED <<admin, proc>>, Ours' = Ours
      PROVE  RegistryInv'
  <2>1. \A p \in Procs : Accounted(proc[p])
    BY DEF RegistryInv
  <2>2. ASSUME NEW p \in Procs
        PROVE  Accounted(proc[p])'
    <3>1. TableFiles(proc[p])'
      BY <1>7, <2>1 DEF Accounted, TableFiles, is_file
    <3>2. Cleared(proc[p])' /\ Turns(proc[p])' /\ Swept(proc[p])'
      BY <1>7, <2>1 DEF Accounted, Cleared, Turns, Swept
    <3>3. QED
      BY <1>7, <2>1, <3>1, <3>2 DEF Accounted
  <2>3. QED
    BY <1>1, <2>2 DEF RegistryInv
<1>8. ASSUME NEW n \in Names, ManualRegister(n)
      PROVE  RegistryInv'
  BY <1>1, <1>7, <1>8, RegisterOurs DEF ManualRegister
<1>9. CASE ManualSwitchOff
  BY <1>7, <1>9 DEF ManualSwitchOff, Ours
<1>10. CASE UNCHANGED vars
  BY <1>7, <1>10 DEF vars, Ours
<1>11. QED
  BY <1>3, <1>4, <1>5, <1>6, <1>8, <1>9, <1>10 DEF Next

----------------------------------------------------------------------------
\* The kernel has no entry of ours for a format that the database has lost,
\* for every number of formats, every input, and every fault, if the callers
\* run one command at a time, and, where entries outlive an unmount, no
\* removal of an entry fails: act_remove and act_install deal with the kernel
\* before the file and stop when that fails.
THEOREM KernelHasNoOrphan ==
    ASSUME Serial, Heard
    PROVE  Spec => []NoOrphan
<1>1. Serial /\ Heard
  OBVIOUS
<1>2. RegistryInv /\ [Next]_vars => RegistryInv'
  BY <1>1, NextRegistry
<1>3. Spec => []RegistryInv
  BY <1>2, InitRegistry, PTL DEF Spec
<1>4. RegistryInv => NoOrphan
  BY DEF RegistryInv
<1>5. QED
  BY <1>3, <1>4, PTL

\* Every step of update-binfmts is one of the registry, or one it does not see.
LEMMA StepImplements ==
    ASSUME RegistryInv, [Next]_vars
    PROVE  [Abstract!Next]_(Abstract!vars)
<1> DEFINE formats == [n \in Names |-> Loaded(n)]
<1>0. IntegrityInv /\ Inv /\ \A n \in Ours : is_file(n)
  BY OursFiles DEF RegistryInv, OwnershipInv, IntegrityInv
<1>1. \A n \in Names : formats[n] = Loaded(n) /\ formats'[n] = Loaded(n)'
  OBVIOUS
<1>2. ASSUME \A n \in Names : admin'[n] = admin[n]
      PROVE  formats' = formats
  BY <1>2, SameFile
<1>3. \A n \in Names : /\ Loaded(n) # NULL => is_file(n)
                       /\ is_file(n) => Loaded(n) # NULL
  BY <1>0, FileOwned DEF Loaded
<1>4. CASE \A n \in Names : admin'[n] = admin[n]
  <2>1. formats' = formats
    BY <1>2, <1>4
  <2>2. CASE Ours' = Ours
    BY <2>1, <2>2 DEF Abstract!vars
  <2>3. ASSUME NEW n \in Names, is_file(n), Ours' = Ours \cup {n}
        PROVE  Abstract!Enable(n)
    BY <1>1, <1>3, <2>1, <2>3 DEF Abstract!Enable
  <2>4. ASSUME NEW n \in Names, Ours' = Ours \ {n}
        PROVE  Abstract!Disable(n)
    BY <2>1, <2>4 DEF Abstract!Disable
  <2>5. ASSUME Ours' = {}
        PROVE  Abstract!Forget
    BY <2>1, <2>5 DEF Abstract!Forget
  <2>6. QED
    BY <2>2, <2>3, <2>4, <2>5, NextKernel DEF Abstract!Next, KernelStep
<1>5. ASSUME NEW n \in Names, Puts(n)
      PROVE  Abstract!Install(n)
  BY <1>1, <1>3, <1>5, SameFile
     DEF Puts, OneFile, Abstract!Install, Abstract!Changes
<1>6. ASSUME NEW n \in Names, Takes(n)
      PROVE  Abstract!Remove(n)
  <2>1. Loaded(n)' = NULL
    BY <1>6 DEF Takes, Loaded
  <2>2. QED
    BY <1>1, <1>3, <1>6, <2>1, SameFile
       DEF Takes, OneFile, Abstract!Remove, Abstract!Changes
<1>7. QED
  BY <1>4, <1>5, <1>6, NextFiles DEF Abstract!Next

LEMMA InitImplements == Init => Abstract!Init
<1> SUFFICES ASSUME Init
             PROVE  Abstract!Init
  OBVIOUS
<1>1. \A n \in Names : Loaded(n) = NULL /\ n \notin Ours
  BY NamesAssumption DEF Init, KernelInit, Loaded, is_file, Ours
<1>2. Ours = {}
  BY <1>1 DEF Ours
<1>3. QED
  BY <1>1, <1>2 DEF Abstract!Init

\* update-binfmts implements the registry: rename, unlink and register are the
\* only steps a reader of the database and of procdir sees; a description
\* changes whole, within its package, and only while the kernel does not have
\* the format.  Under the same hypotheses.
THEOREM RegistryImplemented ==
    ASSUME Serial, Heard
    PROVE  Spec => ImplementsRegistry
<1>1. Serial /\ Heard
  OBVIOUS
<1>2. RegistryInv /\ [Next]_vars => RegistryInv'
  BY <1>1, NextRegistry
<1>3. Spec => []RegistryInv
  BY <1>2, InitRegistry, PTL DEF Spec
<1>4. RegistryInv /\ [Next]_vars => [Abstract!Next]_(Abstract!vars)
  BY StepImplements
<1>5. Spec => Abstract!Spec
  BY <1>3, <1>4, InitImplements, PTL DEF Spec, Abstract!Spec
<1>6. QED
  BY <1>5 DEF ImplementsRegistry

----------------------------------------------------------------------------
(***************************************************************************)
(* No format's entry bypasses the detector of another.  The argument: when *)
(* act_enable has scanned the formats, its table holds each one that the   *)
(* kernel has, as its file describes it or as it was registered; so the    *)
(* line it is about to write names run-detectors if one of them has a      *)
(* detector and the same specification, and with one caller at a time that *)
(* is still so when the line is written.  binfmt_equals sees it only if    *)
(* the types are right, which is why they come first.                      *)
(***************************************************************************)
\* What the kernel sees of a description.
SpecOf(b) == regstring(b, TRUE)

\* The type is one of the two the documents know; an extension is looked for
\* at offset "0".
Typed(b) == /\ b.type \in {"magic", "extension"}
            /\ b.type = "extension" => b.offset = "0"

\* An import file leaves the type out, as the manual page's FORMAT FILES has
\* it, or gives it right: binfmt_new does not look at a type it is given, and
\* writes any but "magic" to the kernel as an extension.
TypesKnown ==
    \A n \in DOMAIN ImportFiles : \A lines \in ImportFiles[n] :
        kvhash_lookup(get_import(lines), "type")
            \in {NULL, "magic", "extension"}

\* Every file that parses has a type of the two.
FilesTyped == \A f \in FormatNames : Loaded(f) # NULL => Typed(Loaded(f))

\* So has every description an invocation holds.
TableTyped(q) ==
    /\ q.new # NULL => Typed(q.new)
    /\ \A f \in FormatNames : q.formats[f] # NULL => Typed(q.formats[f])

\* A file with detector whose entry is for what the file says now.
Marked(d) ==
    /\ Loaded(d) # NULL /\ HasDetector(Loaded(d))
    /\ SameSpec(SpecOf(Loaded(d)), entry[d])

\* What the table holds of a format that the kernel has is what the file
\* says, or what was registered.
Known(q) ==
    ~q.test => \A d \in Ours : q.formats[d] # NULL =>
        q.formats[d] = Loaded(d) \/ SameSpec(SpecOf(q.formats[d]), entry[d])

\* The line about to be written to register: the scan has seen every format
\* with a detector that the kernel has.
LineReady(q) ==
    ~q.test /\ q.pc = "register" =>
        /\ SameSpec(q.reg, SpecOf(q.formats[q.name]))
        /\ \A d \in Ours \ {q.name} :
              Marked(d) /\ SameSpec(q.reg, entry[d])
                  => q.reg.interpreter = RunDetectors

\* The kernel's order is one of entries it has.
BehindRegistered == \A m \in FormatNames : behind[m] \subseteq Registered

\* The inductive invariant.
DetectorInv ==
    /\ RegistryInv
    /\ FilesTyped
    /\ BehindRegistered
    /\ NoShadowedDetector
    /\ \A p \in Procs : TableTyped(proc[p]) /\ Known(proc[p]) /\ LineReady(proc[p])

----------------------------------------------------------------------------
(***************************************************************************)
(* Specifications.                                                         *)
(***************************************************************************)
\* The interpreter is no part of the specification.
LEMMA SpecFields ==
    ASSUME NEW b, NEW detector
    PROVE  SameSpec(regstring(b, detector), SpecOf(b))
BY DEF SameSpec, SpecOf, regstring

\* To have one specification is symmetric and transitive.
LEMMA SpecTransfer ==
    ASSUME NEW r, NEW s, NEW t, SameSpec(r, s)
    PROVE  /\ SameSpec(s, r)
           /\ SameSpec(s, t) <=> SameSpec(r, t)
           /\ SameSpec(t, s) <=> SameSpec(t, r)
BY DEF SameSpec

\* No text prints as the null pointer does.
LEMMA PrintedOnce ==
    ASSUME NEW s \in Text \cup {NULL}, NEW t \in Text \cup {NULL},
           Printed(s) = Printed(t)
    PROVE  s = t
BY TextAssumption DEF Printed

\* binfmt_equals compares what the kernel compares.
LEMMA SameSpecEquals ==
    ASSUME NEW x \in Binfmt, NEW y \in Binfmt, Typed(x), Typed(y),
           SameSpec(SpecOf(x), SpecOf(y))
    PROVE  binfmt_equals(x, y)
<1>1. /\ x.magic \in Text \cup {NULL} /\ y.magic \in Text \cup {NULL}
      /\ x.mask \in Text \cup {NULL} /\ y.mask \in Text \cup {NULL}
      /\ x.offset \in Text \cup {NULL} /\ y.offset \in Text \cup {NULL}
  BY DEF Binfmt
<1>2. /\ (IF x.type = "magic" THEN "M" ELSE "E")
            = (IF y.type = "magic" THEN "M" ELSE "E")
      /\ Printed(x.magic) = Printed(y.magic)
      /\ Printed(x.mask) = Printed(y.mask)
      /\ x.type = "magic" => Printed(x.offset) = Printed(y.offset)
  BY DEF SameSpec, SpecOf, regstring
<1>3. x.type = y.type
  BY <1>2 DEF Typed
<1>4. x.magic = y.magic /\ x.mask = y.mask
  BY <1>1, <1>2, PrintedOnce
<1>5. x.offset = y.offset
  BY <1>1, <1>2, <1>3, PrintedOnce DEF Typed
<1>6. QED
  BY <1>3, <1>4, <1>5 DEF binfmt_equals

\* A specification with a magic that is a text has no null pointer in it.
LEMMA SameSpecMagic ==
    ASSUME NEW x, NEW y, y.magic \in Text, SameSpec(SpecOf(x), SpecOf(y))
    PROVE  x.magic # NULL
<1>1. Printed(x.magic) = Printed(y.magic)
  BY DEF SameSpec, SpecOf, regstring
<1>2. QED
  BY <1>1, TextAssumption DEF Printed

\* What is written and read back is typed when the description was, also
\* when only the mandatory lines came out.
LEMMA WrittenTyped ==
    ASSUME NEW b \in Binfmt, Typed(b), NEW lines,
           \/ lines = binfmt_write(b)
           \/ \E k \in {0, Mandatory} : lines = SubSeq(binfmt_write(b), 1, k)
    PROVE  /\ lines \in Seq(Text)
           /\ binfmt_load(lines) # NULL => Typed(binfmt_load(lines))
<1>1. /\ binfmt_write(b) \in Seq(Text) /\ Len(binfmt_write(b)) = 9
      /\ binfmt_write(b)[2] = Line(b.type) /\ binfmt_write(b)[3] = Line(b.offset)
  BY WriteType DEF binfmt_write
<1>2. lines \in Seq(Text)
  <2>1. ASSUME NEW s \in Seq(Text), NEW k \in 0..Len(s)
        PROVE  SubSeq(s, 1, k) \in Seq(Text)
    OBVIOUS
  <2>2. Len(binfmt_write(b)) = 9 /\ {0, Mandatory} \subseteq 0..9
    BY <1>1 DEF Mandatory
  <2>3. QED
    BY <1>1, <2>1, <2>2
<1>3. CASE Len(lines) < Mandatory
  BY <1>2, <1>3 DEF binfmt_load
<1>4. CASE ~(Len(lines) < Mandatory)
  <2>1. Len(lines) >= 6 /\ lines[2] = Line(b.type) /\ lines[3] = Line(b.offset)
    BY <1>1, <1>2, <1>4 DEF Mandatory
  <2>2. Line(b.type) = b.type /\ (b.type = "extension" => Line(b.offset) = "0")
    BY TextAssumption DEF Typed, Line
  <2>3. /\ binfmt_load(lines).type = rtrim[Line(b.type)]
        /\ binfmt_load(lines).offset = rtrim[Line(b.offset)]
    <3>1. ReadLine(lines, 2) = rtrim[lines[2]] /\ ReadLine(lines, 3) = rtrim[lines[3]]
      <4>1. 2 <= Len(lines) /\ 3 <= Len(lines)
        BY <1>2, <2>1
      <4>2. QED
        BY <4>1 DEF ReadLine
    <3>2. /\ binfmt_load(lines).type = ReadLine(lines, 2)
          /\ binfmt_load(lines).offset = ReadLine(lines, 3)
      BY <1>4 DEF binfmt_load
    <3>3. QED
      BY <2>1, <3>1, <3>2
  <2>4. QED
    BY <1>2, <2>2, <2>3, RtrimAssumption DEF Typed
<1>5. QED
  BY <1>3, <1>4

\* binfmt_new fills in the type, and the offset of an extension.
LEMMA NewTyped ==
    ASSUME NEW args, args \in [DOMAIN args -> Text \cup {NULL}],
           kvhash_lookup(args, "type") \in {NULL, "magic", "extension"}
    PROVE  binfmt_new(args) # NULL => Typed(binfmt_new(args))
<1>1. ~BadSpec(args) => TypeGiven(args) \in {"magic", "extension"}
  BY DEF BadSpec, TypeGiven
<1>2. ASSUME ~BadSpec(args)
      PROVE  Typed(Described(args))
  BY <1>1, <1>2 DEF BadSpec, Described, Typed
<1>3. QED
  BY <1>2 DEF binfmt_new

----------------------------------------------------------------------------
(***************************************************************************)
(* The table after a step.                                                 *)
(***************************************************************************)
\* A step of an invocation leaves of its table what was there or what it read
\* from the files.
Keeps(q, r) ==
    \/ Ended(r)
    \/ /\ r.test = q.test
       /\ \A n \in FormatNames : r.formats[n] \in {q.formats[n], Loaded(n)}

\* The ways a step may end keep the table.
LEMMA GoesKeeps ==
    ASSUME NEW q, NEW r
    PROVE  /\ Left(q, r) => Keeps(q, r)
           /\ AfterDisable(q, r) => Keeps(q, r)
           /\ \A label : Moved(q, r, label) => Keeps(q, r)
           /\ \A label, name, new, table, todo :
                 Goes(q, r, label, name, new, table, todo) /\ Reads(q, table)
                    => Keeps(q, r)
           /\ \A label, name, todo :
                 Goes(q, r, label, name, q.new, q.formats, todo) => Keeps(q, r)
BY DEF Left, Back, AfterDisable, Moved, Tabled, Goes, Reads, Keeps

\* Only the insertion of act_install puts anything else there, and that with
\* the rename, but for --test.
LEMMA StepTable ==
    ASSUME Inv, NEW p \in Procs, Step(p)
    PROVE  \/ Keeps(proc[p], proc'[p])
           \/ LET q == proc[p] IN
              /\ q.test \/ RenameTmp(p)
              /\ proc'[p].test = q.test
              /\ proc'[p].formats = kvhash_insert(q.formats, q.name, q.new)
<1> DEFINE q == proc[p]
           r == proc'[p]
<1>0. q \in Process /\ Reads(q, load_format(q.formats, q.name))
      /\ Reads(q, load_all_formats(q.formats))
  BY InvSound, TableReads DEF Sound
<1>1. CASE load_binfmt_misc(p) \/ MountBinfmtMisc(p)
  <2>1. \/ Left(q, r) \/ Moved(q, r, "mount") \/ Moved(q, r, "loadall")
        \/ Moved(q, r, "exists")
    BY <1>1, MiscAfter
  <2>2. QED
    BY <2>1, GoesKeeps
<1>2. CASE EnableExists(p)
  BY <1>2, ExistsAfter, GoesKeeps
<1>3. CASE EnableScan(p)
  BY <1>3, ScanAfter, GoesKeeps
<1>4. CASE EnableRegister(p)
  BY <1>4, RegisterAfter, GoesKeeps
<1>5. CASE DisableExists(p)
  BY <1>5, DisableAfter, GoesKeeps
<1>6. CASE DisableWrite(p)
  BY <1>6, DisableWriteAfter, GoesKeeps
<1>7. CASE DisableCheck(p)
  BY <1>7, DisableCheckAfter, GoesKeeps
<1>8. CASE LoadAll(p)
  <2>1. \/ Ended(r)
        \/ Goes(q, r, "loop", NULL, q.new, load_all_formats(q.formats),
                Keys(load_all_formats(q.formats)))
    BY <1>8, LoadAllAfter
  <2>2. QED
    BY <1>0, <2>1, GoesKeeps DEF Keeps
<1>9. CASE Loop(p)
  <2>1. \/ Ended(r) \/ Moved(q, r, "unload")
        \/ \E label, name, todo : Goes(q, r, label, name, q.new, q.formats, todo)
    BY <1>9, LoopAfter
  <2>2. QED
    BY <2>1, GoesKeeps DEF Keeps
<1>10. CASE unload_binfmt_misc(p)
  BY <1>10, UnloadAfter DEF Keeps
<1>11. CASE InstallLoad(p)
  <2> DEFINE table == load_format(q.formats, q.name)
  <2>1. Left(q, r) \/ \E label : Tabled(q, r, label, table)
    BY <1>11, InstallLoadAfter
  <2> HIDE DEF q, r, table
  <2>2. QED
    BY <1>0, <2>1, GoesKeeps DEF Tabled, table, q, r
<1>12. CASE InstallManual(p)
  <2>1. \/ Left(q, r) \/ Moved(q, r, "open")
        \/ /\ q.test
           /\ Tabled(q, r, "misc", kvhash_insert(q.formats, q.name, q.new))
    BY <1>12, ManualAfter
  <2>2. QED
    BY <2>1, GoesKeeps DEF Tabled, Goes
<1>13. CASE WriteOpen(p)
  BY <1>13, OpenAfter, GoesKeeps
<1>14. CASE WriteFill(p)
  BY <1>14, FillMoves, GoesKeeps
<1>15. CASE RenameTmp(p)
  <2>1. \/ Left(q, r)
        \/ Tabled(q, r, "misc", kvhash_insert(q.formats, q.name, q.new))
    BY <1>15, RenameAfter
  <2>2. QED
    BY <1>15, <2>1, GoesKeeps DEF Tabled, Goes
<1>16. CASE RemoveLoad(p)
  <2> DEFINE table == load_format(q.formats, q.name)
  <2>1. Left(q, r) \/ \E label : Tabled(q, r, label, table)
    BY <1>16, RemoveLoadAfter
  <2> HIDE DEF q, r, table
  <2>2. QED
    BY <1>0, <2>1, GoesKeeps DEF Tabled, table, q, r
<1>17. CASE RemoveUnlink(p)
  BY <1>17, UnlinkAfter, GoesKeeps
<1>18. CASE Import(p)
  <2> DEFINE table == load_format(q.formats, q.name)
  <2>1. \/ Left(q, r)
        \/ \E s : Tabled(q, s, "import", table) /\ Left(s, r)
        \/ \E new : Goes(q, r, "install", q.name, new, table, q.todo)
    BY <1>18, ImportAfter
  <2> HIDE DEF q, r, table
  <2>2. ASSUME NEW s, Tabled(q, s, "import", table), Left(s, r)
        PROVE  Keeps(q, r)
    <3>1. Reads(q, table)
      BY <1>0 DEF table
    <3>2. QED
      BY <2>2, <3>1 DEF Tabled, Goes, Left, Back, Keeps, Reads
  <2>3. QED
    BY <1>0, <2>1, <2>2, GoesKeeps DEF Tabled, table, q, r
<1>19. CASE Display(p)
  BY <1>19, DisplayAfter DEF Keeps
<1>20. QED
  BY <1>1, <1>2, <1>3, <1>4, <1>5, <1>6, <1>7, <1>8, <1>9, <1>10, <1>11, <1>12,
     <1>13, <1>14, <1>15, <1>16, <1>17, <1>18, <1>19 DEF Step

----------------------------------------------------------------------------
(***************************************************************************)
(* Descriptions have one of the two types, wherever they are kept.         *)
(***************************************************************************)
\* The description act_install is called with.
LEMMA ImportNew ==
    ASSUME Inv, TypesKnown, NEW p \in Procs, Import(p)
    PROVE  \/ proc'[p].new \in {NULL, proc[p].new}
           \/ proc'[p].new # NULL => Typed(proc'[p].new)
<1> DEFINE q == proc[p]
           table == load_format(q.formats, q.name)
           loaded == [q EXCEPT !.formats = table]
           Describing(new) == [q EXCEPT !.pc = "install", !.formats = table,
                                        !.new = new]
<1>1. q \in Process /\ Control(p, q) /\ At(p, "import")
  BY InvSound DEF Import, Sound
<1>2. \/ Become(p, ActReturn(q, FALSE)) \/ Become(p, ActReturn(loaded, TRUE))
      \/ Become(p, ActReturn(loaded, FALSE))
      \/ \E lines \in ImportFiles[q.name] :
            Become(p, Describing(binfmt_new(get_import(lines))))
  BY DEF Import
<1>3. table \in Cache
  BY <1>1, TableType DEF Inv, Process
<1> HIDE DEF table
<1>4. loaded \in Process /\ loaded.new = q.new
  BY <1>1, <1>3 DEF Process
<1>5. \A ok : /\ Left(q, ActReturn(q, ok))
              /\ Left(loaded, ActReturn(loaded, ok))
  BY <1>1, <1>4, ReturnFields
<1>6. \A new : Describing(new).new = new
  BY <1>1 DEF Process
<1>7. ASSUME NEW lines \in ImportFiles[q.name]
      PROVE  LET new == binfmt_new(get_import(lines)) IN
             new # NULL => Typed(new)
  <2>1. q.name \in DOMAIN ImportFiles
    BY <1>1 DEF Control, At
  <2>2. lines \in Seq(ArgKeys \X ((Text \ Multiline) \cup {NULL}))
    BY <1>7, <2>1, InputsAssumption
  <2> DEFINE args == get_import(lines)
  <2>3. args \in [DOMAIN args -> (Text \ Multiline) \cup {NULL}]
    BY <2>2, ImportType
  <2>4. kvhash_lookup(args, "type") \in {NULL, "magic", "extension"}
    BY <1>7, <2>1 DEF TypesKnown
  <2> HIDE DEF args
  <2>5. args \in [DOMAIN args -> Text \cup {NULL}]
    BY <2>3
  <2>6. QED
    BY <2>4, <2>5, NewTyped DEF args
<1> HIDE DEF q, loaded, Describing
<1>8. \/ proc'[p] = ActReturn(q, FALSE) \/ proc'[p] = ActReturn(loaded, TRUE)
      \/ proc'[p] = ActReturn(loaded, FALSE)
      \/ \E lines \in ImportFiles[q.name] :
            proc'[p] = Describing(binfmt_new(get_import(lines)))
  BY <1>2, BecomeFields
<1>9. CASE \/ proc'[p] = ActReturn(q, FALSE) \/ proc'[p] = ActReturn(loaded, TRUE)
           \/ proc'[p] = ActReturn(loaded, FALSE)
  <2>1. Left(q, proc'[p]) \/ Left(loaded, proc'[p])
    BY <1>5, <1>9
  <2>2. proc'[p].new = NULL
    BY <2>1 DEF Left, Ended, Back, Goes
  <2>3. QED
    BY <2>2
<1>10. QED
  BY <1>6, <1>7, <1>8, <1>9

\* Only an import makes a new description after the start.
LEMMA StepNew ==
    ASSUME Inv, NEW p \in Procs, Step(p), ~Import(p)
    PROVE  proc'[p].new \in {NULL, proc[p].new}
<1> DEFINE q == proc[p]
           r == proc'[p]
           Kept == r.new \in {NULL, q.new}
<1>0. /\ Left(q, r) => Kept
      /\ Ended(r) => Kept
      /\ AfterDisable(q, r) => Kept
      /\ \A label : Moved(q, r, label) => Kept
      /\ \A label, table : Tabled(q, r, label, table) => Kept
      /\ \A label, name, table, todo :
            Goes(q, r, label, name, q.new, table, todo) => Kept
  BY DEF Left, Back, Ended, AfterDisable, Moved, Tabled, Goes
<1> HIDE DEF Kept
<1>1. CASE \/ load_binfmt_misc(p) \/ MountBinfmtMisc(p) \/ EnableExists(p)
           \/ EnableRegister(p)
  BY <1>0, <1>1, MiscAfter, ExistsAfter, RegisterAfter DEF Kept
<1>2. CASE EnableScan(p)
  BY <1>0, <1>2, ScanAfter DEF Kept
<1>3. CASE DisableExists(p) \/ DisableWrite(p) \/ DisableCheck(p)
  BY <1>0, <1>3, DisableAfter, DisableWriteAfter, DisableCheckAfter DEF Kept
<1>4. CASE LoadAll(p) \/ unload_binfmt_misc(p)
  BY <1>0, <1>4, LoadAllAfter, UnloadAfter DEF Kept
<1>5. CASE Loop(p)
  <2>1. \/ Ended(r) \/ Moved(q, r, "unload")
        \/ \E label, name, table, todo :
              Goes(q, r, label, name, q.new, table, todo)
    BY <1>5, LoopAfter
  <2>2. QED
    BY <1>0, <2>1 DEF Kept
<1>6. CASE InstallLoad(p) \/ RemoveLoad(p)
  <2>1. Left(q, r) \/ \E label, table : Tabled(q, r, label, table)
    BY <1>6, InstallLoadAfter, RemoveLoadAfter
  <2>2. QED
    BY <1>0, <2>1 DEF Kept
<1>7. CASE InstallManual(p) \/ RenameTmp(p)
  <2>1. Left(q, r) \/ \E label, table : Tabled(q, r, label, table)
    BY <1>7, ManualAfter, RenameAfter DEF Moved
  <2>2. QED
    BY <1>0, <2>1 DEF Kept
<1>8. CASE WriteOpen(p) \/ WriteFill(p) \/ RemoveUnlink(p) \/ Display(p)
  BY <1>0, <1>8, OpenAfter, FillMoves, UnlinkAfter, DisplayAfter DEF Kept
<1>9. QED
  BY <1>1, <1>2, <1>3, <1>4, <1>5, <1>6, <1>7, <1>8 DEF Step, Kept

\* The tables and arguments after a step.
LEMMA StepTyped ==
    ASSUME Inv, TypesKnown, FilesTyped, NEW p \in Procs, TableTyped(proc[p]),
           Step(p)
    PROVE  TableTyped(proc'[p])
<1> DEFINE q == proc[p]
           r == proc'[p]
<1>1. r.new # NULL => Typed(r.new)
  BY ImportNew, StepNew DEF TableTyped
<1>2. ASSUME NEW f \in FormatNames, r.formats[f] # NULL
      PROVE  Typed(r.formats[f])
  <2>1. CASE Ended(r)
    BY <1>2, <2>1 DEF Ended, NoTable
  <2>2. CASE r.formats[f] \in {q.formats[f], Loaded(f)}
    BY <1>2, <2>2 DEF TableTyped, FilesTyped
  <2>3. CASE r.formats = kvhash_insert(q.formats, q.name, q.new)
    <3>1. q.formats \in Cache
      BY InvSound DEF Sound, Process
    <3>2. r.formats[f] \in {q.formats[f], q.new}
      BY <2>3, <3>1 DEF kvhash_insert, Cache
    <3>3. QED
      BY <1>2, <3>2 DEF TableTyped
  <2>4. QED
    BY <1>2, <2>1, <2>2, <2>3, StepTable DEF Keeps
<1>3. QED
  BY <1>1, <1>2 DEF TableTyped

\* main starts with an empty table and a description of a type of the two.
LEMMA StartTyped ==
    ASSUME Inv, NEW p \in Procs, Start(p)
    PROVE  TableTyped(proc'[p])
<1>1. proc'[p].formats = NoTable
  BY StartAfter DEF Ended, Started
<1>2. CASE StartInstall(p)
  <2>1. ASSUME NEW args \in InstallArgs
        PROVE  binfmt_new(args) # NULL => Typed(binfmt_new(args))
    <3>1. /\ args \in [DOMAIN args -> Text \cup {NULL}]
          /\ "type" \in DOMAIN args /\ args["type"] \in {"magic", "extension"}
      BY InputsAssumption
    <3>2. QED
      BY <3>1, NewTyped DEF kvhash_lookup
  <2>2. PICK n \in Writes[p], args \in InstallArgs, t \in Tests :
           Become(p, IF HasNewline(args) THEN Exited("2")
                     ELSE [Command("install", "install", n, t) EXCEPT
                              !.new = binfmt_new(args)])
    BY <1>2 DEF StartInstall
  <2>3. proc'[p].new \in {NULL, binfmt_new(args)}
    <3>1. Exited("2").new = NULL
      BY DEF Exited, Idle
    <3>2. [Command("install", "install", n, t) EXCEPT
              !.new = binfmt_new(args)].new = binfmt_new(args)
      BY DEF Command, Idle
    <3>3. QED
      BY <2>2, <3>1, <3>2, BecomeFields
  <2>4. QED
    BY <1>1, <2>1, <2>3 DEF TableTyped, NoTable
<1>3. CASE ~StartInstall(p)
  <2> DEFINE Plain(m, label, n, t) == Command(m, label, n, t)
             From(n, t, pkg) ==
                [Command("remove", "remove", n, t) EXCEPT !.package = pkg]
             Todo(t) == [Command("importall", "loop", NULL, t) EXCEPT
                            !.todo = DOMAIN ImportFiles]
  <2>1. /\ \A m, label, n, t : Plain(m, label, n, t).new = NULL
        /\ \A n, t, pkg : From(n, t, pkg).new = NULL
        /\ \A t : Todo(t).new = NULL
        /\ \A st : Exited(st).new = NULL
    BY DEF Command, Exited, Idle
  <2>2. \/ \E m, label, n, t : Become(p, Plain(m, label, n, t))
        \/ \E n, t, pkg : Become(p, From(n, t, pkg))
        \/ \E t : Become(p, Todo(t))
        \/ Become(p, Exited("2"))
    <3>1. CASE StartRemove(p)
      BY <3>1 DEF StartRemove
    <3>2. CASE StartImport(p) \/ StartNamed(p) \/ StartAll(p)
      BY <3>2 DEF StartImport, StartNamed, StartAll
    <3>3. CASE StartImportAll(p)
      BY <3>3 DEF StartImportAll
    <3>4. QED
      BY <1>3, <3>1, <3>2, <3>3 DEF Start
  <2> HIDE DEF Plain, From, Todo
  <2>3. proc'[p].new = NULL
    BY <2>1, <2>2, BecomeFields
  <2>4. QED
    BY <1>1, <2>3 DEF TableTyped, NoTable
<1>4. QED
  BY <1>2, <1>3

\* The files after a step.
LEMMA FilesAfter ==
    ASSUME Inv, FilesTyped, NEW p \in Procs, TableTyped(proc[p]), Step(p)
    PROVE  FilesTyped'
<1> DEFINE q == proc[p]
<1>0. /\ admin \in [FormatNames -> File] /\ q \in Process
      /\ \A n \in Names : n \in FormatNames /\ Tmp[n] \in FormatNames
  BY InvSound, NamesAssumption DEF Inv, TypeOK, Sound
<1>1. ASSUME \A f \in FormatNames :
                \/ \E g \in FormatNames : admin'[f] = admin[g]
                \/ admin'[f] = NULL \/ admin'[f] = <<>>
      PROVE  FilesTyped'
  <2>1. binfmt_load(<<>>) = NULL
    BY DEF binfmt_load, Mandatory
  <2>2. QED
    BY <1>1, <2>1 DEF FilesTyped, Loaded, is_file
<1>2. CASE UNCHANGED admin
  BY <1>1, <1>2
<1>3. CASE WriteOpen(p)
  BY <1>0, <1>1, <1>3 DEF WriteOpen, TmpName
<1>4. CASE WriteFill(p)
  <2>1. CASE q.new # NULL
    <3>1. q.new \in Binfmt /\ Typed(q.new)
      BY <1>0, <2>1 DEF Process, TableTyped
    <3>2. PICK lines : /\ admin' = Contents(q.fd, lines)
                       /\ \/ lines = binfmt_write(q.new)
                          \/ \E k \in {0, Mandatory} :
                                lines = SubSeq(binfmt_write(q.new), 1, k)
      BY <1>4, <2>1 DEF WriteFill
    <3>3. binfmt_load(lines) # NULL => Typed(binfmt_load(lines))
      BY <3>1, <3>2, WrittenTyped
    <3>4. \A f \in FormatNames : admin'[f] = admin[f] \/ admin'[f] = lines
      BY <1>0, <3>2 DEF Contents
    <3>5. QED
      BY <3>3, <3>4 DEF FilesTyped, Loaded, is_file
  <2>2. CASE q.new = NULL
    BY <1>2, <1>4, <2>2 DEF WriteFill
  <2>3. QED
    BY <2>1, <2>2
<1>5. CASE RenameTmp(p)
  <2>1. UNCHANGED admin
        \/ admin' = [admin EXCEPT ![q.name] = admin[Tmp[q.name]],
                                  ![Tmp[q.name]] = NULL]
    BY <1>5, RenameAfter
  <2>2. Tmp[q.name] \in FormatNames
    BY <1>0, <1>5, InvSound, RunAssumption, NamesAssumption
       DEF RenameTmp, At, Sound, Control, Writers
  <2>3. QED
    BY <1>0, <1>1, <1>2, <2>1, <2>2
<1>6. CASE RemoveUnlink(p)
  BY <1>0, <1>1, <1>6, UnlinkAfter
<1>7. QED
  BY <1>2, <1>3, <1>4, <1>5, <1>6, MiscAfter, ExistsAfter, ScanAfter,
     RegisterAfter, DisableAfter, DisableWriteAfter, DisableCheckAfter,
     LoadAllAfter, LoopAfter, UnloadAfter, InstallLoadAfter, ManualAfter,
     RemoveLoadAfter, ImportAfter, DisplayAfter DEF Step

----------------------------------------------------------------------------
(***************************************************************************)
(* What a step does to the kernel's entries and their order.               *)
(***************************************************************************)
\* What a step of the system may do to the kernel's entries.
KernelChanges ==
    \/ UNCHANGED <<entry, behind, manual>>
    \/ KernelForgets
    \/ \E n \in FormatNames : KernelUnregister(n)
    \/ \E n \in Names, r \in ManualEntries :
          KernelRegister(n, r) /\ manual' = manual \cup {n}
    \/ \E p \in Procs : /\ EnableRegister(p) /\ ~proc[p].test
                        /\ KernelRegister(proc[p].name, proc[p].reg)
                        /\ UNCHANGED manual

\* It does nothing else.
LEMMA NextEntries ==
    ASSUME Inv, [Next]_vars
    PROVE  KernelChanges
<1>1. CASE UNCHANGED kernelVars
  BY <1>1 DEF KernelChanges, kernelVars
<1>2. CASE Reboot
  BY <1>2 DEF Reboot, KernelChanges
<1>3. ASSUME NEW n \in Names, ManualRegister(n)
      PROVE  KernelChanges
  BY <1>3 DEF ManualRegister, KernelChanges
<1>4. CASE ManualSwitchOff
  BY <1>4 DEF ManualSwitchOff, KernelChanges
<1>5. ASSUME NEW p \in Procs, Step(p)
      PROVE  KernelChanges
  <2>1. CASE load_binfmt_misc(p) \/ MountBinfmtMisc(p)
    <3>1. UNCHANGED kernelVars \/ KernelModprobe \/ KernelMount
          \/ KernelSwitchOn
      BY <2>1 DEF load_binfmt_misc, MountBinfmtMisc
    <3>2. QED
      BY <3>1, <1>1
         DEF KernelChanges, KernelModprobe, KernelMount, KernelSwitchOn
  <2>2. CASE EnableRegister(p)
    BY <1>1, <2>2 DEF EnableRegister, KernelChanges
  <2>3. CASE DisableWrite(p)
    <3>1. proc[p].name \in FormatNames
      BY <2>3, InvSound DEF DisableWrite, At, Sound, Control
    <3>2. QED
      BY <1>1, <2>3, <3>1, DisableWriteAfter DEF KernelChanges
  <2>4. CASE unload_binfmt_misc(p)
    BY <1>1, <2>4, UnloadAfter DEF KernelUmount, KernelChanges
  <2>5. QED
    BY <1>1, <1>5, <2>1, <2>2, <2>3, <2>4
       DEF Step, EnableExists, EnableScan, DisableExists, DisableCheck,
           LoadAll, Loop, InstallLoad, InstallManual, WriteOpen, WriteFill,
           RenameTmp, RemoveLoad, RemoveUnlink, Import, Display
<1>6. ASSUME NEW p \in Procs, Start(p) \/ Kill(p)
      PROVE  UNCHANGED kernelVars
  BY <1>6, StartAfter DEF Kill
<1>7. QED
  BY <1>1, <1>2, <1>3, <1>4, <1>5, <1>6 DEF Next, vars, kernelVars

\* An entry of ours that stays is the same entry, of the same file.
LEMMA OursStay ==
    ASSUME RegistryInv, [Next]_vars
    PROVE  \A d \in Ours : /\ Loaded(d)' = Loaded(d)
                           /\ d \in Ours' => entry'[d] = entry[d]
<1>0. /\ Inv /\ entry \in [FormatNames -> Regstring \cup {NULL}]
      /\ Names \subseteq FormatNames
  BY NamesAssumption DEF RegistryInv, DryInv, Inv, TypeOK, KernelTypeOK
<1>1. ASSUME NEW d \in Ours
      PROVE  Loaded(d)' = Loaded(d)
  <2>1. admin'[d] = admin[d]
    BY <1>1, NextFiles DEF Puts, Takes, OneFile, Ours
  <2>2. QED
    BY <2>1 DEF Loaded, is_file
<1>2. ASSUME NEW d \in Ours, d \in Ours'
      PROVE  entry'[d] = entry[d]
  <2>0. d \in FormatNames /\ entry[d] # NULL /\ entry'[d] # NULL
    BY <1>0, <1>2 DEF Ours
  <2>1. CASE KernelForgets
    BY <2>0, <2>1 DEF KernelForgets
  <2>2. ASSUME NEW n \in FormatNames, KernelUnregister(n)
        PROVE  entry'[d] = entry[d]
    BY <1>0, <2>0, <2>2 DEF KernelUnregister
  <2>3. ASSUME NEW n, NEW r, KernelRegister(n, r)
        PROVE  entry'[d] = entry[d]
    BY <1>0, <2>0, <2>3 DEF KernelRegister, Acceptable
  <2>4. QED
    BY <1>0, <2>1, <2>2, <2>3, NextEntries DEF KernelChanges
<1>3. QED
  BY <1>1, <1>2

\* The order stays one of entries the kernel has.
LEMMA NextBehind ==
    ASSUME Inv, BehindRegistered, [Next]_vars
    PROVE  BehindRegistered'
<1>0. /\ entry \in [FormatNames -> Regstring \cup {NULL}]
      /\ behind \in [FormatNames -> SUBSET FormatNames]
  BY DEF Inv, TypeOK, KernelTypeOK
<1>1. CASE UNCHANGED <<entry, behind, manual>>
  BY <1>1 DEF BehindRegistered, Registered
<1>2. CASE KernelForgets
  BY <1>2 DEF KernelForgets, BehindRegistered
<1>3. ASSUME NEW n \in FormatNames, KernelUnregister(n)
      PROVE  BehindRegistered'
  BY <1>0, <1>3 DEF KernelUnregister, BehindRegistered, Registered
<1>4. ASSUME NEW n, NEW r, KernelRegister(n, r)
      PROVE  BehindRegistered'
  <2>1. Registered \subseteq Registered'
    BY <1>0, <1>4 DEF KernelRegister, Acceptable, Registered
  <2>2. \A m \in FormatNames : behind'[m] \in {behind[m], Registered}
    BY <1>0, <1>4 DEF KernelRegister
  <2>3. QED
    BY <2>1, <2>2 DEF BehindRegistered
<1>5. QED
  BY <1>1, <1>2, <1>3, <1>4, NextEntries DEF KernelChanges

\* No entry comes before that of a format with a detector but to pass it on.
LEMMA NextShadowed ==
    ASSUME DetectorInv, [Next]_vars
    PROVE  NoShadowedDetector'
<1>0. /\ RegistryInv /\ Inv /\ BehindRegistered /\ NoShadowedDetector
      /\ entry \in [FormatNames -> Regstring \cup {NULL}]
      /\ behind \in [FormatNames -> SUBSET FormatNames]
      /\ Names \subseteq FormatNames
  BY NamesAssumption
     DEF DetectorInv, RegistryInv, DryInv, Inv, TypeOK, KernelTypeOK
<1> SUFFICES ASSUME NEW a \in FormatNames, NEW d \in Names,
                    entry'[a] # NULL, a \notin manual',
                    entry'[d] # NULL, d \notin manual',
                    d \in behind'[a], SameSpec(entry'[a], entry'[d]),
                    Loaded(d)' # NULL, HasDetector(Loaded(d)'),
                    SameSpec(regstring(Loaded(d)', TRUE), entry'[d])
             PROVE  entry'[a].interpreter = RunDetectors
  BY DEF NoShadowedDetector
<1>1. ASSUME d \in Ours, a \notin manual, d \in behind[a],
             entry'[a] = entry[a]
      PROVE  entry'[a].interpreter = RunDetectors
  <2>1. d \in Ours' /\ entry[d] # NULL /\ d \notin manual
    BY <1>1 DEF Ours
  <2>2. Loaded(d)' = Loaded(d) /\ entry'[d] = entry[d]
    BY <1>0, <1>1, <2>1, OursStay
  <2>3. QED
    BY <1>0, <1>1, <2>1, <2>2 DEF NoShadowedDetector
<1>2. CASE UNCHANGED <<entry, behind, manual>>
  BY <1>1, <1>2 DEF Ours
<1>3. CASE KernelForgets
  BY <1>3 DEF KernelForgets
<1>4. ASSUME NEW n \in FormatNames, KernelUnregister(n)
      PROVE  entry'[a].interpreter = RunDetectors
  <2>1. a # n /\ d # n /\ entry'[a] = entry[a] /\ entry'[d] = entry[d]
    BY <1>0, <1>4 DEF KernelUnregister
  <2>2. manual' = manual \ {n} /\ d \in behind[a]
    BY <1>0, <1>4, <2>1 DEF KernelUnregister
  <2>3. QED
    BY <1>1, <2>1, <2>2 DEF Ours
<1>5. ASSUME NEW n \in Names, NEW r, KernelRegister(n, r),
             manual' = manual \cup {n}
      PROVE  entry'[a].interpreter = RunDetectors
  <2>1. a # n /\ d # n
    BY <1>5
  <2>2. entry'[a] = entry[a] /\ entry'[d] = entry[d] /\ behind'[a] = behind[a]
    BY <1>0, <1>5, <2>1 DEF KernelRegister
  <2>3. QED
    BY <1>1, <1>5, <2>2 DEF Ours
<1>6. ASSUME NEW p \in Procs, EnableRegister(p), ~proc[p].test,
             KernelRegister(proc[p].name, proc[p].reg), UNCHANGED manual
      PROVE  entry'[a].interpreter = RunDetectors
  <2> DEFINE n == proc[p].name
             reg == proc[p].reg
  <2>1. /\ n \in FormatNames /\ proc[p].pc = "register" /\ LineReady(proc[p])
        /\ entry[n] = NULL
    BY <1>0, <1>6, InvSound
       DEF EnableRegister, At, Sound, Control, DetectorInv, KernelRegister,
           Acceptable
  <2>2. /\ entry'[n] = reg /\ behind'[n] = Registered
        /\ \A m \in FormatNames \ {n} : /\ entry'[m] = entry[m]
                                        /\ behind'[m] = behind[m]
    BY <1>0, <1>6, <2>1 DEF KernelRegister
  <2>3. d # n
    BY <1>0, <2>1, <2>2 DEF BehindRegistered, Registered
  <2>4. d \in Ours \ {n} /\ d \in Ours' /\ Loaded(d)' = Loaded(d)
        /\ entry'[d] = entry[d]
    <3>1. d \in Ours \ {n} /\ d \in Ours'
      BY <1>0, <1>6, <2>2, <2>3 DEF Ours
    <3>2. QED
      BY <1>0, <3>1, OursStay
  <2>5. CASE a = n
    <3>1. Marked(d) /\ SameSpec(reg, entry[d])
      BY <2>2, <2>4, <2>5 DEF Marked, SpecOf
    <3>2. QED
      BY <1>6, <2>1, <2>2, <2>4, <2>5, <3>1 DEF LineReady
  <2>6. CASE a # n
    BY <1>1, <1>6, <2>2, <2>4, <2>6
  <2>7. QED
    BY <2>5, <2>6
<1>7. QED
  BY <1>0, <1>2, <1>3, <1>4, <1>5, <1>6, NextEntries DEF KernelChanges

----------------------------------------------------------------------------
(***************************************************************************)
(* What an invocation knows of the kernel's formats.                       *)
(***************************************************************************)
\* What is known stays so while no format of the database comes to the kernel.
LEMMA StaysKnown ==
    ASSUME RegistryInv, [Next]_vars, NEW q, NEW r, Known(q), Keeps(q, r),
           Ours' \subseteq Ours
    PROVE  ~r.test => \A d \in Ours' : r.formats[d] # NULL =>
              \/ r.formats[d] = Loaded(d)'
              \/ SameSpec(SpecOf(r.formats[d]), entry'[d])
<1> SUFFICES ASSUME ~r.test, NEW d \in Ours', r.formats[d] # NULL
             PROVE  \/ r.formats[d] = Loaded(d)'
                    \/ SameSpec(SpecOf(r.formats[d]), entry'[d])
  OBVIOUS
<1>1. /\ d \in Ours /\ d \in FormatNames
      /\ Loaded(d)' = Loaded(d) /\ entry'[d] = entry[d]
  BY OursStay, NamesAssumption DEF Ours
<1>2. ~Ended(r)
  BY <1>1 DEF Ended, NoTable
<1>3. r.test = q.test /\ r.formats[d] \in {q.formats[d], Loaded(d)}
  BY <1>1, <1>2 DEF Keeps
<1>4. QED
  BY <1>1, <1>3 DEF Known

\* Only a registration adds to the formats of the database the kernel has.
LEMMA StepOurs ==
    ASSUME Inv, NEW p \in Procs, Step(p),
           ~(/\ EnableRegister(p) /\ ~proc[p].test
             /\ KernelRegister(proc[p].name, proc[p].reg) /\ UNCHANGED manual)
    PROVE  Ours' \subseteq Ours
<1>1. CASE load_binfmt_misc(p) \/ MountBinfmtMisc(p)
  <2>1. UNCHANGED kernelVars \/ KernelModprobe \/ KernelMount
        \/ KernelSwitchOn
    BY <1>1 DEF load_binfmt_misc, MountBinfmtMisc
  <2>2. QED
    BY <2>1, KernelOurs
<1>2. CASE EnableRegister(p)
  BY <1>2, KernelOurs DEF EnableRegister
<1>3. CASE DisableWrite(p)
  <2>1. \/ Ours' = Ours \/ Ours' = Ours \ {proc[p].name}
    BY <1>3, DisableWriteAfter, KernelOurs
  <2>2. QED
    BY <2>1
<1>4. CASE unload_binfmt_misc(p)
  BY <1>4, UnloadAfter, KernelOurs
<1>5. CASE UNCHANGED kernelVars
  BY <1>5, KernelOurs
<1>6. QED
  BY <1>1, <1>2, <1>3, <1>4, <1>5
     DEF Step, EnableExists, EnableScan, DisableExists, DisableCheck,
         LoadAll, Loop, InstallLoad, InstallManual, WriteOpen, WriteFill,
         RenameTmp, RemoveLoad, RemoveUnlink, Import, Display

\* act_enable registers what its table says, so that is known afterwards too.
LEMMA StepKnown ==
    ASSUME DetectorInv, NEW p \in Procs, Step(p)
    PROVE  Known(proc[p])'
<1> DEFINE q == proc[p]
           r == proc'[p]
<1>0. /\ RegistryInv /\ Inv /\ Known(q) /\ LineReady(q) /\ Accounted(q)
      /\ [Next]_vars
  BY DEF DetectorInv, RegistryInv, DryInv, Next
<1>1. CASE EnableRegister(p) /\ ~q.test /\ KernelRegister(q.name, q.reg)
           /\ UNCHANGED manual
  <2>1. /\ Left(q, r) /\ UNCHANGED admin /\ q.pc = "register"
        /\ q.name \in FormatNames
    BY <1>0, <1>1, RegisterAfter, InvSound DEF Sound, Control
  <2>2. SUFFICES ASSUME ~r.test, NEW d \in Ours', r.formats[d] # NULL
                 PROVE  \/ r.formats[d] = Loaded(d)'
                        \/ SameSpec(SpecOf(r.formats[d]), entry'[d])
    BY DEF Known
  <2>3. d \in FormatNames
    BY NamesAssumption DEF Ours
  <2>4. r.test = q.test /\ r.formats[d] = q.formats[d]
    BY <2>1, <2>2, <2>3 DEF Left, Ended, NoTable, Back, Goes
  <2>5. CASE d = q.name
    <3>1. entry'[d] = q.reg
      BY <1>0, <1>1, <2>3, <2>5
         DEF KernelRegister, Inv, TypeOK, KernelTypeOK
    <3>2. SameSpec(q.reg, SpecOf(q.formats[d]))
      BY <1>0, <1>1, <2>1, <2>5 DEF LineReady
    <3>3. QED
      BY <2>4, <3>1, <3>2 DEF SameSpec
  <2>6. CASE d # q.name
    <3>1. d \in Ours
      BY <1>0, <1>1, <2>6, RegisterOurs
    <3>2. Loaded(d)' = Loaded(d) /\ entry'[d] = entry[d]
      BY <1>0, <2>2, <3>1, OursStay
    <3>3. QED
      BY <1>0, <1>1, <2>2, <2>4, <3>1, <3>2 DEF Known
  <2>7. QED
    BY <2>5, <2>6
<1>2. CASE ~(EnableRegister(p) /\ ~q.test /\ KernelRegister(q.name, q.reg)
             /\ UNCHANGED manual)
  <2>1. Ours' \subseteq Ours
    BY <1>0, <1>2, StepOurs
  <2>2. CASE Keeps(q, r)
    BY <1>0, <2>1, <2>2, StaysKnown DEF Known
  <2>3. CASE ~Keeps(q, r) /\ q.test
    BY <1>0, <2>3, StepTable DEF Known
  <2>4. CASE ~Keeps(q, r) /\ ~q.test
    <3>1. /\ RenameTmp(p) /\ r.test = q.test
          /\ r.formats = kvhash_insert(q.formats, q.name, q.new)
      BY <1>0, <2>4, StepTable
    <3>2. q.name \notin Ours /\ q.formats \in Cache
      BY <1>0, <2>4, <3>1, RenameAfter, InvSound
         DEF Accounted, Cleared, Clear, Sound, Process
    <3>3. ASSUME NEW d \in Ours'
          PROVE  /\ r.formats[d] = q.formats[d] /\ d \in Ours
                 /\ Loaded(d)' = Loaded(d) /\ entry'[d] = entry[d]
      <4>1. d # q.name /\ d \in Ours /\ d \in FormatNames
        BY <2>1, <3>2, <3>3, NamesAssumption DEF Ours
      <4>2. QED
        BY <1>0, <3>1, <3>2, <3>3, <4>1, OursStay DEF kvhash_insert, Cache
    <3>4. QED
      BY <1>0, <3>1, <3>3 DEF Known
  <2>5. QED
    BY <2>2, <2>3, <2>4
<1>3. QED
  BY <1>1, <1>2

\* The scan: a format with a detector that the kernel has is in the table by
\* then, so a line of the same specification names run-detectors.
LEMMA ScanReady ==
    ASSUME DetectorInv, NEW p \in Procs, EnableScan(p)
    PROVE  LineReady(proc[p])'
<1> DEFINE q == proc[p]
           n == q.name
           table == load_format(q.formats, n)
           all == load_all_formats(table)
           scanned(t, need) == Scanned(q, t, need)
           walked(t, need, more) ==
               [scanned(t, need) EXCEPT !.todo = @ \cup more]
<1>0. /\ RegistryInv /\ Inv /\ Known(q) /\ TableTyped(q) /\ FilesTyped
      /\ q \in Process /\ n \in FormatNames /\ q.formats \in Cache
      /\ UNCHANGED <<kernelVars, admin>> /\ Ours' = Ours
      /\ Names \subseteq FormatNames
  BY InvSound, NamesAssumption, KernelOurs
     DEF DetectorInv, RegistryInv, DryInv, EnableScan, At, Sound, Control,
         Process
<1>1. /\ table \in Cache /\ all \in Cache
      /\ all[n] = table[n] \/ table[n] = NULL
      /\ Reads(q, table) /\ Reads(q, all)
  <2>1. table \in Cache /\ Reads(q, table) /\ Reads(q, all)
    BY <1>0, TableType, TableReads DEF Inv
  <2>2. all \in Cache
    BY <1>0, <2>1, TableType DEF Inv
  <2>3. all[n] = table[n] \/ table[n] = NULL
    BY <1>0 DEF load_all_formats
  <2>4. QED
    BY <2>1, <2>2, <2>3
<1>2. ASSUME NEW t, t \in {table, all}, NEW f \in FormatNames, t[f] # NULL
      PROVE  Typed(t[f]) /\ t[f] \in Binfmt
  <2>1. t[f] \in {q.formats[f], Loaded(f)}
    BY <1>1, <1>2 DEF Reads
  <2>2. Typed(t[f])
    BY <1>0, <1>2, <2>1 DEF FilesTyped, TableTyped
  <2>3. t[f] \in Binfmt
    BY <1>1, <1>2 DEF Cache
  <2>4. QED
    BY <2>2, <2>3
<1> HIDE DEF table, all
<1>3. ASSUME table[n] # NULL, ~q.test, ~Equal(all, n), ~ScanCrashes(all, n),
             NEW d \in Ours \ {n}, Marked(d),
             SameSpec(SpecOf(table[n]), entry[d])
      PROVE  FALSE
  <2>1. d \in FormatNames /\ Loaded(d) # NULL
        /\ SameSpec(SpecOf(Loaded(d)), entry[d])
    BY <1>0, <1>3 DEF Marked, Ours
  <2>2. all[d] # NULL /\ all[n] = table[n]
    BY <1>1, <1>3, <2>1 DEF all, load_all_formats
  <2>3. all[d] = q.formats[d] \/ all[d] = Loaded(d)
    BY <1>1, <2>1 DEF Reads
  <2>4. SameSpec(SpecOf(all[d]), entry[d])
    BY <1>0, <1>3, <2>1, <2>2, <2>3 DEF Known
  <2>5. /\ SameSpec(SpecOf(all[n]), SpecOf(all[d]))
        /\ SameSpec(SpecOf(all[n]), SpecOf(Loaded(d)))
        /\ SameSpec(SpecOf(all[d]), SpecOf(Loaded(d)))
    BY <1>3, <2>1, <2>2, <2>4 DEF SameSpec
  <2>6. Loaded(d).magic \in Text
    <3>1. is_file(d) /\ Loaded(d) = binfmt_load(admin[d]) /\ d \in Names
          /\ admin[d] \in Seq(Text)
      BY <1>0, <1>3, <2>1
         DEF Loaded, is_file, Inv, TypeOK, File, Ours
    <3>2. Loaded(d).magic = ReadLine(admin[d], 4)
      BY <2>1, <3>1 DEF binfmt_load
    <3>3. QED
      BY <3>1, <3>2, ReadLineType
  <2>7. all[d].magic # NULL /\ all[n].magic # NULL
    BY <2>5, <2>6, SameSpecMagic
  <2>8. binfmt_equals(all[n], all[d])
    BY <1>0, <1>2, <1>3, <2>1, <2>2, <2>5, SameSpecEquals
  <2>9. d \in Others(all, n)
    BY <1>3, <2>1, <2>2 DEF Others, Keys
  <2>10. ~EqualsCrashes(all[n], all[d])
    BY <2>7 DEF EqualsCrashes
  <2>11. QED
    BY <1>3, <2>8, <2>9, <2>10 DEF Equal
<1>4. ASSUME NEW t \in Cache, NEW need
      PROVE  LET r == scanned(t, need) IN
             r.reg = regstring(t[n], need) /\ r.formats = t /\ r.name = n
             /\ r.test = q.test
  BY <1>0 DEF Scanned, Process
<1>5. ASSUME NEW t \in Cache, NEW need, NEW more
      PROVE  LET r == walked(t, need, more) IN
             r.reg = regstring(t[n], need) /\ r.formats = t /\ r.name = n
             /\ r.test = q.test
  BY <1>0 DEF Scanned, Process
<1>6. ASSUME NEW r, r = proc'[p], NEW t \in Cache, NEW need,
             r.reg = regstring(t[n], need), r.formats = t, r.name = n,
             r.test = q.test, t[n] = table[n], table[n] # NULL,
             need \/ (~need /\ ~Equal(all, n) /\ ~ScanCrashes(all, n))
      PROVE  LineReady(proc[p])'
  <2>1. SameSpec(r.reg, SpecOf(t[n]))
    BY <1>6, SpecFields
  <2>2. ASSUME ~r.test, NEW d \in Ours' \ {n}, Marked(d)',
               SameSpec(r.reg, entry'[d])
        PROVE  r.reg.interpreter = RunDetectors
    <3>1. CASE need
      BY <1>6, <3>1 DEF regstring
    <3>2. CASE ~need /\ ~Equal(all, n) /\ ~ScanCrashes(all, n)
      <4>1. d \in Ours \ {n} /\ entry'[d] = entry[d] /\ Loaded(d)' = Loaded(d)
        BY <1>0, <2>2 DEF kernelVars, Loaded, is_file
      <4>2. Marked(d) /\ SameSpec(SpecOf(table[n]), entry[d])
        BY <1>6, <2>1, <2>2, <4>1 DEF Marked, SameSpec
      <4>3. QED
        BY <1>3, <1>6, <2>2, <3>2, <4>1, <4>2
    <3>3. QED
      BY <1>6, <3>1, <3>2
  <2>3. QED
    BY <1>6, <2>1, <2>2 DEF LineReady
<1>7. ASSUME NEW r, Left(q, r), r = proc'[p]
      PROVE  LineReady(proc[p])'
  BY <1>7 DEF Left, Ended, Back, Goes, LineReady
<1>8. \/ \E st : Become(p, Exited(st))
      \/ \E ok : Become(p, Return(q, ok))
      \/ /\ table[n] # NULL
         /\ \/ Become(p, scanned(table, TRUE))
            \/ /\ Equal(all, n) \/ ~ScanCrashes(all, n)
               /\ \E more : Become(p, walked(all, Equal(all, n), more))
  BY DEF EnableScan, table, all
<1> HIDE DEF scanned, walked
<1>9. CASE \/ \E st : Become(p, Exited(st))
           \/ \E ok : Become(p, Return(q, ok))
  <2>1. \/ \E st : proc'[p] = Exited(st)
        \/ \E ok : proc'[p] = Return(q, ok)
    BY <1>0, <1>9, BecomeFields
  <2>2. Left(q, proc'[p])
    BY <1>0, <2>1, ReturnFields, ExitedFields DEF Left
  <2>3. QED
    BY <1>7, <2>2
<1>10. CASE table[n] # NULL /\ Become(p, scanned(table, TRUE))
  <2> DEFINE need == TRUE
  <2>1. need /\ need \in BOOLEAN
    OBVIOUS
  <2> HIDE DEF need
  <2>2. need \/ (~need /\ ~Equal(all, n) /\ ~ScanCrashes(all, n))
    BY <2>1
  <2>3. /\ proc'[p].reg = regstring(table[n], need)
        /\ proc'[p].formats = table
        /\ proc'[p].name = n
        /\ proc'[p].test = q.test
    <3>1. proc'[p] = scanned(table, need)
      BY <1>0, <1>10, BecomeFields DEF need
    <3>2. QED
      BY <1>1, <1>4, <3>1
  <2>4. QED
    BY <1>1, <1>6, <1>10, <2>2, <2>3
<1>11. ASSUME table[n] # NULL, Equal(all, n) \/ ~ScanCrashes(all, n),
              NEW more, Become(p, walked(all, Equal(all, n), more))
       PROVE  LineReady(proc[p])'
  <2>1. proc'[p] = walked(all, Equal(all, n), more)
    BY <1>0, <1>11, BecomeFields
  <2> DEFINE need == Equal(all, n)
  <2>2. need \/ (~need /\ ~Equal(all, n) /\ ~ScanCrashes(all, n))
    BY <1>11
  <2> HIDE DEF need
  <2>3. proc'[p] = walked(all, need, more)
    BY <2>1 DEF need
  <2>4. QED
    BY <1>1, <1>5, <1>6, <1>11, <2>2, <2>3
<1>12. QED
  BY <1>8, <1>9, <1>10, <1>11

\* Only the scan leads to register.
LEMMA LabelChanges ==
    ASSUME Inv, NEW p \in Procs, Step(p), ~EnableScan(p)
    PROVE  proc'[p].pc # "register"
<1> DEFINE q == proc[p]
           r == proc'[p]
           Fine == r.pc # "register"
<1>0. /\ Left(q, r) => Fine
      /\ Ended(r) => Fine
      /\ AfterDisable(q, r) => Fine
      /\ \A label : Moved(q, r, label) /\ label # "register" => Fine
      /\ \A label, table : Tabled(q, r, label, table) /\ label # "register"
            => Fine
      /\ \A label, name, new, table, todo :
            Goes(q, r, label, name, new, table, todo) /\ label # "register"
               => Fine
  BY DEF Left, Back, Ended, AfterDisable, Moved, Tabled, Goes
<1> HIDE DEF Fine
<1>1. CASE \/ load_binfmt_misc(p) \/ MountBinfmtMisc(p) \/ EnableExists(p)
           \/ EnableRegister(p)
  BY <1>0, <1>1, MiscAfter, ExistsAfter, RegisterAfter DEF Fine
<1>2. CASE DisableExists(p) \/ DisableWrite(p) \/ DisableCheck(p)
  BY <1>0, <1>2, DisableAfter, DisableWriteAfter, DisableCheckAfter DEF Fine
<1>3. CASE LoadAll(p) \/ unload_binfmt_misc(p)
  BY <1>0, <1>3, LoadAllAfter, UnloadAfter DEF Fine
<1>4. CASE Loop(p)
  <2>1. \A n : LoopBody(q, n) # "register"
    BY DEF LoopBody
  <2>2. \/ Ended(r) \/ Moved(q, r, "unload")
        \/ \E label, name, new, table, todo :
              /\ Goes(q, r, label, name, new, table, todo)
              /\ label # "register"
    BY <1>4, <2>1, LoopAfter
  <2>3. QED
    BY <1>0, <2>2 DEF Fine
<1>5. CASE InstallLoad(p) \/ RemoveLoad(p)
  <2>1. \/ Left(q, r)
        \/ \E table : \/ Tabled(q, r, "disable", table)
                      \/ Tabled(q, r, "manual", table)
    BY <1>5, InstallLoadAfter, RemoveLoadAfter
  <2>2. QED
    BY <1>0, <2>1 DEF Fine
<1>6. CASE InstallManual(p) \/ RenameTmp(p)
  <2>1. \/ Left(q, r) \/ Moved(q, r, "open")
        \/ \E table : Tabled(q, r, "misc", table)
    BY <1>6, ManualAfter, RenameAfter
  <2>2. QED
    BY <1>0, <2>1 DEF Fine
<1>7. CASE WriteOpen(p) \/ WriteFill(p) \/ RemoveUnlink(p) \/ Display(p)
  BY <1>0, <1>7, OpenAfter, FillMoves, UnlinkAfter, DisplayAfter DEF Fine
<1>8. CASE Import(p)
  <2>1. \/ Left(q, r)
        \/ \E s : Left(s, r)
        \/ \E new, table : Goes(q, r, "install", q.name, new, table, q.todo)
    BY <1>8, ImportAfter
  <2>2. QED
    BY <1>0, <2>1 DEF Left, Ended, Back, Goes, Fine
<1>9. QED
  BY <1>1, <1>2, <1>3, <1>4, <1>5, <1>6, <1>7, <1>8 DEF Step, Fine

\* The line is ready at register, and nowhere else is there one.
LEMMA StepReady ==
    ASSUME DetectorInv, NEW p \in Procs, Step(p)
    PROVE  LineReady(proc[p])'
<1>0. RegistryInv /\ Inv
  BY DEF DetectorInv, RegistryInv, DryInv
<1>1. CASE EnableScan(p)
  BY <1>1, ScanReady
<1>2. CASE ~EnableScan(p)
  <2>1. proc'[p].pc # "register"
    BY <1>0, <1>2, LabelChanges
  <2>2. QED
    BY <2>1 DEF LineReady
<1>3. QED
  BY <1>1, <1>2

----------------------------------------------------------------------------
\* An invocation that is not started yet, or over, knows nothing.
LEMMA NothingKnown ==
    ASSUME NEW r \in Procs, proc'[r].formats = NoTable, proc'[r].pc # "register"
    PROVE  Known(proc[r])' /\ LineReady(proc[r])'
<1>1. \A d \in Ours' : proc'[r].formats[d] = NULL
  BY NamesAssumption DEF Ours, NoTable
<1>2. QED
  BY <1>1 DEF Known, LineReady

\* An empty database and a kernel without entries.
LEMMA InitDetector == Init => DetectorInv
<1> SUFFICES ASSUME Init
             PROVE  DetectorInv
  OBVIOUS
<1>1. \A f \in FormatNames : Loaded(f) = NULL /\ entry[f] = NULL /\ behind[f] = {}
  BY DEF Init, KernelInit, Loaded, is_file
<1>2. FilesTyped /\ BehindRegistered /\ NoShadowedDetector
  BY <1>1 DEF FilesTyped, BehindRegistered, NoShadowedDetector
<1>3. Ours = {}
  BY <1>1, NamesAssumption DEF Ours
<1>4. \A p \in Procs : Ended(proc[p])
  BY ExitedFields DEF Init
<1>5. \A p \in Procs : TableTyped(proc[p]) /\ Known(proc[p]) /\ LineReady(proc[p])
  BY <1>3, <1>4 DEF Ended, NoTable, TableTyped, Known, LineReady
<1>6. QED
  BY <1>2, <1>5, InitRegistry DEF DetectorInv

\* The invariant is kept by every step: of the invocation that runs, of the
\* others, none of which is under way, and of the surroundings.
LEMMA NextDetector ==
    Serial /\ Heard /\ TypesKnown /\ DetectorInv /\ [Next]_vars => DetectorInv'
<1> SUFFICES ASSUME Serial, Heard, TypesKnown, DetectorInv, [Next]_vars
             PROVE  DetectorInv'
  OBVIOUS
<1>1. /\ RegistryInv /\ RegistryInv' /\ BehindRegistered' /\ NoShadowedDetector'
      /\ Inv /\ Alone /\ FilesTyped
      /\ \A p \in Procs : TableTyped(proc[p])
  BY NextRegistry, NextBehind, NextShadowed
     DEF DetectorInv, RegistryInv, DryInv, OwnershipInv, IntegrityInv
<1>2. UNCHANGED admin => FilesTyped'
  BY <1>1 DEF FilesTyped, Loaded, is_file
<1>3. ASSUME NEW p \in Procs, TableTyped(proc'[p]), Known(proc[p])',
             LineReady(proc[p])', FilesTyped', OthersStay(p), OthersIdle(p)
      PROVE  DetectorInv'
  <2>1. ASSUME NEW r \in Procs, r # p
        PROVE  TableTyped(proc'[r]) /\ Known(proc[r])' /\ LineReady(proc[r])'
    <3>1. proc[r].pc = "idle" /\ Moved(proc[r], proc'[r], "idle")
      BY <1>3, <2>1 DEF OthersIdle, OthersStay, At
    <3>2. proc[r].formats = NoTable
      BY <1>1, <3>1 DEF RegistryInv, Accounted
    <3>3. proc'[r].pc = "idle" /\ proc'[r].formats = NoTable
          /\ proc'[r].new = proc[r].new
      BY <3>1, <3>2 DEF Moved, Tabled, Goes
    <3>4. QED
      BY <1>1, <3>2, <3>3, NothingKnown DEF TableTyped
  <2>2. QED
    BY <1>1, <1>3, <2>1 DEF DetectorInv
<1>4. ASSUME NEW p \in Procs, Ended(proc'[p])
      PROVE  TableTyped(proc'[p]) /\ Known(proc[p])' /\ LineReady(proc[p])'
  BY <1>4, NothingKnown DEF Ended, TableTyped, NoTable
<1>5. ASSUME NEW p \in Procs, Start(p)
      PROVE  DetectorInv'
  <2>1. OthersStay(p) /\ OthersIdle(p) /\ UNCHANGED admin
    BY <1>1, <1>5, StartOwned DEF RegistryInv
  <2>2. proc'[p].formats = NoTable /\ proc'[p].pc # "register"
    BY <1>1, <1>5, StartAfter DEF Ended, Started
  <2>3. QED
    BY <1>1, <1>2, <1>3, <1>5, <2>1, <2>2, StartTyped, NothingKnown
<1>6. ASSUME NEW p \in Procs, Step(p)
      PROVE  DetectorInv'
  <2>1. OthersStay(p) /\ OthersIdle(p)
    BY <1>1, <1>6, StepStays, RunsAlone DEF At
  <2>2. QED
    BY <1>1, <1>3, <1>6, <2>1, StepTyped, FilesAfter, StepKnown, StepReady
<1>7. ASSUME NEW p \in Procs, Kill(p)
      PROVE  DetectorInv'
  <2>1. Become(p, Exited("killed")) /\ OthersIdle(p) /\ UNCHANGED admin
    BY <1>1, <1>7, RunsAlone DEF Kill
  <2>2. OthersStay(p) /\ Ended(proc'[p])
    BY <1>1, <2>1, BecomeStay, BecomeFields, ExitedFields
  <2>3. QED
    BY <1>2, <1>3, <1>4, <2>1, <2>2
<1>8. CASE Reboot
  <2>1. ASSUME NEW p \in Procs
        PROVE  TableTyped(proc'[p]) /\ Known(proc[p])' /\ LineReady(proc[p])'
    <3>1. CASE proc[p].pc = "idle"
      <4>1. proc'[p] = proc[p]
        BY <1>8, <3>1 DEF Reboot, At
      <4>2. proc'[p].formats = NoTable /\ proc'[p].pc # "register"
        BY <1>1, <3>1, <4>1 DEF RegistryInv, Accounted
      <4>3. QED
        BY <1>1, <4>1, <4>2, NothingKnown
    <3>2. CASE proc[p].pc # "idle"
      BY <1>4, <1>8, <3>2, ExitedFields DEF Reboot, At
    <3>3. QED
      BY <3>1, <3>2
  <2>2. QED
    BY <1>1, <1>2, <1>8, <2>1 DEF Reboot, DetectorInv
<1>9. ASSUME UNCHANGED <<admin, proc>>, Ours' = Ours
      PROVE  DetectorInv'
  <2>1. \A d \in Ours : Loaded(d)' = Loaded(d) /\ entry'[d] = entry[d]
    BY <1>1, <1>9, OursStay
  <2>2. ASSUME NEW p \in Procs
        PROVE  Known(proc[p])' /\ LineReady(proc[p])'
    <3>1. Known(proc[p]) /\ LineReady(proc[p]) /\ proc'[p] = proc[p]
      BY <1>9, <2>2 DEF DetectorInv
    <3>2. Known(proc[p])'
      BY <1>9, <2>1, <3>1 DEF Known
    <3>3. LineReady(proc[p])'
      BY <1>9, <2>1, <3>1 DEF LineReady, Marked
    <3>4. QED
      BY <3>2, <3>3
  <2>3. QED
    BY <1>1, <1>2, <1>9, <2>2 DEF DetectorInv
<1>10. ASSUME NEW n \in Names, ManualRegister(n)
       PROVE  DetectorInv'
  BY <1>1, <1>9, <1>10, RegisterOurs DEF ManualRegister
<1>11. CASE ManualSwitchOff
  BY <1>9, <1>11 DEF ManualSwitchOff, Ours
<1>12. CASE UNCHANGED vars
  BY <1>9, <1>12 DEF vars, Ours
<1>13. QED
  BY <1>5, <1>6, <1>7, <1>8, <1>10, <1>11, <1>12 DEF Next

\* No entry of update-binfmts that the kernel tries before that of a format
\* with a detector, and for the same specification, names anything but
\* run-detectors: an interpreter with a detector is always asked.  With one
\* caller at a time (two that enable at once each miss the other's entry), a
\* kernel that removes entries when told to where they outlive an unmount, and
\* import files that know the types.
THEOREM DetectorsHeard ==
    ASSUME Serial, Heard, TypesKnown
    PROVE  Spec => []NoShadowedDetector
<1>1. Serial /\ Heard /\ TypesKnown
  OBVIOUS
<1>2. DetectorInv /\ [Next]_vars => DetectorInv'
  BY <1>1, NextDetector
<1>3. Spec => []DetectorInv
  BY <1>2, InitDetector, PTL DEF Spec
<1>4. DetectorInv => NoShadowedDetector
  BY DEF DetectorInv
<1>5. QED
  BY <1>3, <1>4, PTL

(***************************************************************************)
(* Exit status 0 means that the command was carried out.  The argument:    *)
(* the places a command can be at, what holds of the mount and of the file *)
(* at each, and, in the loops over all formats, that every file was        *)
(* visited, is being visited, has still to be, or needs no visit, unless   *)
(* "worked" is lost; so wherever 0 is returned the work is done.           *)
(***************************************************************************)

\* The labels of act_enable for one format, and of act_disable.
Enabling == {"misc", "mount", "exists", "scan", "register"}
Disabling == {"disable", "diswrite", "discheck"}

\* Where a command can be.
Placed(q) ==
    /\ q.mode = "install" => q.pc \in Replacing \cup Enabling \cup {"install"}
    /\ q.mode = "remove" => q.pc \in Removing \cup {"remove"}
    /\ q.mode = "enable" => q.pc \in Enabling /\ q.name # NULL
    /\ q.mode = "disable" => q.pc \in Disabling /\ q.name # NULL
    /\ q.mode = "enableall" => q.pc \in Enabling \cup {"loadall", "loop"}

\* In the middle of the loop over all formats.
Looping(q) == q.pc = "loop" \/ q.name # NULL

\* Imports ignore what act_install returns, and --test changes nothing.
Counts(q) == ~q.test /\ q.mode \notin Imports

\* act_enable goes on only when binfmt_misc is mounted.
Mounted(q) ==
    Counts(q) =>
        /\ q.pc \in {"exists", "scan", "register"} => procfs = "mounted"
        /\ q.pc = "mount" => procfs # "mounted"
        /\ q.mode = "enableall" /\ (q.pc = "loadall" \/ Looping(q)) =>
              procfs = "mounted"

\* From the rename on, the file is what binfmt_write makes of the argument.
Landed(q) ==
    ~q.test /\ q.mode = "install" /\ q.pc \in Enabling =>
        admin[q.name] = binfmt_write(q.new)

\* While "worked" holds the loops have dealt with every file they are done with.
Visited(q) ==
    ~q.test /\ q.worked =>
        /\ q.mode = "enableall" /\ Looping(q) =>
              \A f \in FormatNames : is_file(f) =>
                  f \in q.todo \/ f = q.name \/ entry[f] # NULL
        /\ q.mode = "disableall" /\ (Looping(q) \/ q.pc = "unload") =>
              \A f \in FormatNames : is_file(f) =>
                  f \in q.todo \/ f = q.name \/ (ProcEntry(f) => f \in manual)

Succeeding(q) == Placed(q) /\ Mounted(q) /\ Landed(q) /\ Visited(q)

\* The inductive invariant.
SuccessInv == RegistryInv /\ \A p \in Procs : Succeeding(proc[p])

\* SuccessStep, of one invocation.
Achieved(p) ==
    /\ \A n \in Names : proc[p].name = n => NamedDone(p, n)
    /\ Succeeds(p, "enableall") =>
          \A f \in FormatNames :
              is_file(f)' /\ procfs' = "mounted" => ProcEntry(f)'
    /\ Succeeds(p, "disableall") =>
          \A f \in FormatNames :
              is_file(f)' /\ ProcEntry(f)' => f \in manual'

----------------------------------------------------------------------------
(***************************************************************************)
(* How a step goes on or returns, with the exit status and "worked".       *)
(***************************************************************************)
\* To another label, perhaps with another table; "worked" stays.
Onward(q, r, label, table) == Tabled(q, r, label, table) /\ r.worked = q.worked

Steady(q, r, label) == Onward(q, r, label, q.formats)

\* The program has ended, and not with status 0.
Failed(r) == Ended(r) /\ r.status # "0"

\* The return of an action function to main or to the loop.
Returned(q, r, ok) ==
    \/ Back(q, r) /\ (r.worked => q.worked /\ ok)
    \/ /\ Ended(r) /\ ~(q.mode \in Loops /\ q.name # NULL)
       /\ r.status = "0" => ok

\* The return of act_disable.
Disables(q, r, ok) ==
    \/ Returned(q, r, ok) /\ (ok => q.mode \notin {"install", "remove"})
    \/ ok /\ q.mode = "install" /\ Steady(q, r, "manual")
    \/ ok /\ q.mode = "remove" /\ Steady(q, r, "unlink")

\* Only "0" is 0.
LEMMA ExitedFails ==
    ASSUME NEW st \in {"2", "segv", "killed"}
    PROVE  Failed(Exited(st))
BY ExitedFields DEF Failed, Exited, Idle

\* main's exit status: 0 only for an action function that returned success.
LEMMA FinishStatus ==
    ASSUME NEW ok
    PROVE  Ended(Finish(ok)) /\ (Finish(ok).status = "0" => ok)
BY ExitedFields DEF Finish, Exited, Idle

\* What a step to another label leaves alone.
LEMMA OnwardFields ==
    ASSUME NEW q \in Process
    PROVE  /\ \A label : Steady(q, Goto(q, label), label)
           /\ \A label, table :
                 /\ Onward(q, [q EXCEPT !.pc = label, !.formats = table],
                           label, table)
                 /\ Onward(q, [q EXCEPT !.formats = table, !.pc = label],
                           label, table)
<1>1. ASSUME NEW label
      PROVE  Goto(q, label).worked = q.worked
  BY DEF Goto, Process
<1>2. ASSUME NEW label, NEW table
      PROVE  /\ [q EXCEPT !.pc = label, !.formats = table].worked = q.worked
             /\ [q EXCEPT !.formats = table, !.pc = label].worked = q.worked
  BY DEF Process
<1>3. QED
  BY <1>1, <1>2, GotoFields DEF Onward, Steady, Moved

\* A return, whether to main or to the loop, carries what was returned.
LEMMA ReturnedFields ==
    ASSUME NEW q \in Process, NEW ok, q.mode \notin Imports
    PROVE  Returned(q, Return(q, ok), ok)
<1> DEFINE worked == q.worked /\ (ok \/ q.mode \in Imports)
           r == [q EXCEPT !.pc = "loop", !.worked = worked, !.name = NULL,
                          !.new = NULL, !.reg = NULL, !.fd = NULL]
           end == Finish(ok \/ q.mode \in Imports)
<1>1. worked => q.worked /\ ok
  OBVIOUS
<1>2. Ended(end) /\ (end.status = "0" => ok)
  BY FinishStatus
<1> HIDE DEF worked
<1>3. /\ Goes(q, r, "loop", NULL, NULL, q.formats, q.todo)
      /\ r.worked = worked
  BY DEF Process, Goes
<1> HIDE DEF r, end
<1>4. \/ q.mode \in Loops /\ q.name # NULL /\ Return(q, ok) = r
      \/ ~(q.mode \in Loops /\ q.name # NULL) /\ Return(q, ok) = end
  BY DEF Return, ActReturn, r, end, worked
<1>5. r.worked => q.worked /\ ok
  BY <1>1, <1>3
<1>6. QED
  BY <1>2, <1>3, <1>4, <1>5 DEF Returned, Back

\* act_disable returns to its caller or to the code of act_install and
\* act_remove behind the call.
LEMMA DisablesFields ==
    ASSUME NEW q \in Process, NEW ok, q.mode \notin Imports
    PROVE  Disables(q, Disabled(q, ok), ok)
<1>1. \/ ok /\ q.mode = "install" /\ Disabled(q, ok) = Goto(q, "manual")
      \/ ok /\ q.mode = "remove" /\ Disabled(q, ok) = Goto(q, "unlink")
      \/ /\ ok => q.mode \notin {"install", "remove"}
         /\ Disabled(q, ok) = Return(q, ok)
  BY DEF Disabled, Installs, Imports
<1>2. QED
  BY <1>1, OnwardFields, ReturnedFields DEF Disables


----------------------------------------------------------------------------
(***************************************************************************)
(* act_enable, step by step.                                               *)
(***************************************************************************)
\* Nothing to do under --test, the mount, or the next step; or a failure.
LEMMA MiscDone ==
    ASSUME Inv, NEW p \in Procs, load_binfmt_misc(p) \/ MountBinfmtMisc(p),
           Mounted(proc[p]), ~proc[p].test, proc[p].mode \notin Imports
    PROVE  LET q == proc[p]
               r == proc'[p] IN
           /\ UNCHANGED <<admin, entry, manual>>
           /\ q.pc \in {"misc", "mount"}
           /\ procfs = "mounted" => procfs' = "mounted"
           /\ \/ procfs' # "mounted" /\ Steady(q, r, "mount")
              \/ procfs' # "mounted" /\ Returned(q, r, TRUE)
              \/ /\ procfs' = "mounted"
                 /\ Steady(q, r, IF q.name = NULL THEN "loadall" ELSE "exists")
<1> DEFINE q == proc[p]
<1>1. q \in Process
  BY InvSound DEF Sound
<1>2. /\ UNCHANGED <<admin, entry, manual>>
      /\ q.pc \in {"misc", "mount"}
      /\ procfs = "mounted" => procfs' = "mounted"
      /\ \/ procfs' # "mounted" /\ Become(p, Goto(q, "mount"))
         \/ procfs' # "mounted" /\ Become(p, Return(q, TRUE))
         \/ procfs' = "mounted" /\ Become(p, MiscLoaded(q))
  <2>1. CASE load_binfmt_misc(p)
    BY <2>1 DEF load_binfmt_misc, At, KernelSwitchOn, KernelModprobe, kernelVars
  <2>2. CASE MountBinfmtMisc(p)
    <3>1. procfs # "mounted" /\ q.pc = "mount"
      BY <2>2 DEF Mounted, Counts, MountBinfmtMisc, At
    <3>2. QED
      BY <2>2, <3>1 DEF MountBinfmtMisc, KernelMount, kernelVars
  <2>3. QED
    BY <2>1, <2>2
<1>3. /\ Steady(q, Goto(q, "mount"), "mount")
      /\ Returned(q, Return(q, TRUE), TRUE)
      /\ Steady(q, MiscLoaded(q), IF q.name = NULL THEN "loadall" ELSE "exists")
  BY <1>1, OnwardFields, ReturnedFields DEF MiscLoaded
<1> HIDE DEF q
<1>4. \/ procfs' # "mounted" /\ proc'[p] = Goto(q, "mount")
      \/ procfs' # "mounted" /\ proc'[p] = Return(q, TRUE)
      \/ procfs' = "mounted" /\ proc'[p] = MiscLoaded(q)
  BY <1>2, BecomeFields
<1>5. QED
  BY <1>2, <1>3, <1>4 DEF q

\* The format has an entry, or the scan begins.
LEMMA ExistsDone ==
    ASSUME Inv, NEW p \in Procs, EnableExists(p), proc[p].mode \notin Imports
    PROVE  /\ UNCHANGED <<kernelVars, admin>> /\ proc[p].pc = "exists"
           /\ \/ /\ ProcEntry(proc[p].name)
                 /\ Returned(proc[p], proc'[p], TRUE)
              \/ Steady(proc[p], proc'[p], "scan")
<1> DEFINE q == proc[p]
<1>1. q \in Process
  BY InvSound DEF Sound
<1>2. /\ UNCHANGED <<kernelVars, admin>> /\ q.pc = "exists"
      /\ \/ ProcEntry(q.name) /\ Become(p, Return(q, TRUE))
         \/ Become(p, Goto(q, "scan"))
  BY DEF EnableExists, At
<1>3. Returned(q, Return(q, TRUE), TRUE) /\ Steady(q, Goto(q, "scan"), "scan")
  BY <1>1, OnwardFields, ReturnedFields
<1> HIDE DEF q
<1>4. \/ ProcEntry(q.name) /\ proc'[p] = Return(q, TRUE)
      \/ proc'[p] = Goto(q, "scan")
  BY <1>2, BecomeFields
<1>5. QED
  BY <1>2, <1>3, <1>4 DEF q

\* The loop over all formats may be given more to do, never less.
LEMMA ScanDone ==
    ASSUME Inv, NEW p \in Procs, EnableScan(p), proc[p].mode \notin Imports
    PROVE  LET q == proc[p]
               r == proc'[p] IN
           /\ UNCHANGED <<kernelVars, admin>> /\ q.pc = "scan"
           /\ \/ Failed(r) \/ Returned(q, r, FALSE)
              \/ /\ r.pc = "register" /\ r.name = q.name /\ r.new = q.new
                 /\ r.mode = q.mode /\ r.test = q.test
                 /\ r.worked = q.worked /\ q.todo \subseteq r.todo
<1> DEFINE q == proc[p]
           table == load_format(q.formats, q.name)
           all == load_all_formats(table)
           detected == regstring(table[q.name], TRUE)
           compared == regstring(all[q.name], Equal(all, q.name))
           scanned(t, reg) == [q EXCEPT !.pc = "register", !.formats = t,
                                        !.reg = reg]
           walked(t, reg, more) == [scanned(t, reg) EXCEPT !.todo = @ \cup more]
           Registers(r) == /\ r.pc = "register"
                           /\ r.name = q.name /\ r.new = q.new
                           /\ r.mode = q.mode /\ r.test = q.test
                           /\ r.worked = q.worked /\ q.todo \subseteq r.todo
<1>1. q \in Process
  BY InvSound DEF Sound
<1>2. /\ UNCHANGED <<kernelVars, admin>> /\ q.pc = "scan"
      /\ \/ \E st \in {"2", "segv"} : Become(p, Exited(st))
         \/ Become(p, Return(q, FALSE))
         \/ Become(p, scanned(table, detected))
         \/ \E more : Become(p, walked(all, compared, more))
  BY DEF EnableScan, At, Scanned
<1>3. ASSUME NEW t, NEW reg, NEW more
      PROVE  Registers(scanned(t, reg)) /\ Registers(walked(t, reg, more))
  BY <1>1 DEF Process
<1>4. Returned(q, Return(q, FALSE), FALSE)
  BY <1>1, ReturnedFields
<1>5. \A st \in {"2", "segv"} : Failed(Exited(st))
  BY ExitedFails
<1> HIDE DEF table, all, detected, compared, scanned, walked
<1>6. \/ \E st \in {"2", "segv"} : proc'[p] = Exited(st)
      \/ proc'[p] = Return(q, FALSE)
      \/ proc'[p] = scanned(table, detected)
      \/ \E more : proc'[p] = walked(all, compared, more)
  BY <1>2, BecomeFields
<1> HIDE DEF Registers
<1>7. Failed(proc'[p]) \/ Returned(q, proc'[p], FALSE) \/ Registers(proc'[p])
  BY <1>3, <1>4, <1>5, <1>6
<1>8. QED
  BY <1>2, <1>7 DEF Registers

\* The write to register: an error, or the entry is there and no other
\* changed.
LEMMA RegisterDone ==
    ASSUME Inv, NEW p \in Procs, EnableRegister(p), ~proc[p].test,
           proc[p].mode \notin Imports
    PROVE  LET q == proc[p]
               r == proc'[p] IN
           /\ UNCHANGED admin /\ q.pc = "register"
           /\ \/ Returned(q, r, FALSE) /\ UNCHANGED kernelVars
              \/ /\ Returned(q, r, TRUE) /\ UNCHANGED <<procfs, manual>>
                 /\ entry'[q.name] # NULL
                 /\ \A f \in FormatNames \ {q.name} : entry'[f] = entry[f]
<1> DEFINE q == proc[p]
<1>1. /\ q \in Process /\ q.pc = "register"
      /\ q.name \in FormatNames /\ q.reg \in Regstring
      /\ entry \in [FormatNames -> Regstring \cup {NULL}]
  BY InvSound DEF Sound, Control, EnableRegister, At, Inv, TypeOK, KernelTypeOK
<1>2. /\ UNCHANGED admin
      /\ \/ Become(p, Return(q, FALSE)) /\ UNCHANGED kernelVars
         \/ /\ Become(p, Return(q, TRUE))
            /\ KernelRegister(q.name, q.reg) /\ UNCHANGED manual
  BY DEF EnableRegister
<1>3. Returned(q, Return(q, TRUE), TRUE) /\ Returned(q, Return(q, FALSE), FALSE)
  BY <1>1, ReturnedFields
<1>4. q.reg # NULL
  BY <1>1, LineAssumption
<1> HIDE DEF q
<1>5. \/ proc'[p] = Return(q, FALSE) /\ UNCHANGED kernelVars
      \/ /\ proc'[p] = Return(q, TRUE)
         /\ KernelRegister(q.name, q.reg) /\ UNCHANGED manual
  BY <1>2, BecomeFields
<1>6. QED
  BY <1>1, <1>2, <1>3, <1>4, <1>5 DEF q, KernelRegister

----------------------------------------------------------------------------
(***************************************************************************)
(* act_disable and the loops, step by step.                                *)
(***************************************************************************)
\* act_disable begins: nothing to disable, all formats, or one.
LEMMA DisableDone ==
    ASSUME Inv, NEW p \in Procs, DisableExists(p), ~proc[p].test,
           proc[p].mode \notin Imports
    PROVE  LET q == proc[p]
               r == proc'[p] IN
           /\ UNCHANGED <<kernelVars, admin>> /\ q.pc = "disable"
           /\ \/ procfs = "absent" /\ Disables(q, r, TRUE)
              \/ q.name # NULL /\ ~ProcEntry(q.name) /\ Disables(q, r, TRUE)
              \/ q.name = NULL /\ Steady(q, r, "loadall")
              \/ q.name # NULL /\ Steady(q, r, "diswrite")
<1> DEFINE q == proc[p]
<1>1. q \in Process
  BY InvSound DEF Sound
<1>2. /\ UNCHANGED <<kernelVars, admin>> /\ q.pc = "disable"
      /\ \/ procfs = "absent" /\ Become(p, Disabled(q, TRUE))
         \/ q.name # NULL /\ ~ProcEntry(q.name) /\ Become(p, Disabled(q, TRUE))
         \/ q.name = NULL /\ Become(p, Goto(q, "loadall"))
         \/ q.name # NULL /\ Become(p, Goto(q, "diswrite"))
  BY DEF DisableExists, At
<1>3. /\ Disables(q, Disabled(q, TRUE), TRUE)
      /\ Steady(q, Goto(q, "loadall"), "loadall")
      /\ Steady(q, Goto(q, "diswrite"), "diswrite")
  BY <1>1, OnwardFields, DisablesFields
<1> HIDE DEF q
<1>4. \/ procfs = "absent" /\ proc'[p] = Disabled(q, TRUE)
      \/ q.name # NULL /\ ~ProcEntry(q.name) /\ proc'[p] = Disabled(q, TRUE)
      \/ q.name = NULL /\ proc'[p] = Goto(q, "loadall")
      \/ q.name # NULL /\ proc'[p] = Goto(q, "diswrite")
  BY <1>2, BecomeFields
<1>5. QED
  BY <1>2, <1>3, <1>4 DEF q

\* The -1: what the kernel does with it, or a write that fails.
LEMMA DisableWriteDone ==
    ASSUME Inv, NEW p \in Procs, DisableWrite(p), proc[p].mode \notin Imports
    PROVE  LET q == proc[p]
               r == proc'[p] IN
           /\ UNCHANGED admin /\ q.pc = "diswrite"
           /\ \/ KernelUnregister(q.name) /\ Steady(q, r, "discheck")
              \/ UNCHANGED kernelVars /\ Disables(q, r, FALSE)
<1> DEFINE q == proc[p]
<1>1. q \in Process
  BY InvSound DEF Sound
<1>2. /\ UNCHANGED admin /\ q.pc = "diswrite"
      /\ \/ KernelUnregister(q.name) /\ Become(p, Goto(q, "discheck"))
         \/ UNCHANGED kernelVars /\ Become(p, Disabled(q, FALSE))
  BY DEF DisableWrite, At
<1>3. /\ Steady(q, Goto(q, "discheck"), "discheck")
      /\ Disables(q, Disabled(q, FALSE), FALSE)
  BY <1>1, OnwardFields, DisablesFields
<1> HIDE DEF q
<1>4. \/ KernelUnregister(q.name) /\ proc'[p] = Goto(q, "discheck")
      \/ UNCHANGED kernelVars /\ proc'[p] = Disabled(q, FALSE)
  BY <1>2, BecomeFields
<1>5. QED
  BY <1>2, <1>3, <1>4 DEF q

\* The last look at the entry decides what act_disable returns.
LEMMA DisableCheckDone ==
    ASSUME Inv, NEW p \in Procs, DisableCheck(p), proc[p].mode \notin Imports
    PROVE  /\ UNCHANGED <<kernelVars, admin>> /\ proc[p].pc = "discheck"
           /\ Disables(proc[p], proc'[p], ~ProcEntry(proc[p].name))
<1> DEFINE q == proc[p]
           gone == ~ProcEntry(q.name)
<1>1. q \in Process
  BY InvSound DEF Sound
<1>2. /\ UNCHANGED <<kernelVars, admin>> /\ q.pc = "discheck"
      /\ Become(p, Disabled(q, gone))
  BY DEF DisableCheck, At
<1> HIDE DEF gone
<1>3. Disables(q, Disabled(q, gone), gone)
  BY <1>1, DisablesFields
<1>4. proc'[p] = Disabled(q, gone)
  BY <1>2, BecomeFields
<1>5. Disables(q, proc'[p], gone)
  BY <1>3, <1>4
<1>6. QED
  BY <1>2, <1>5 DEF gone

\* After load_all_formats no file is left out of the loop.
LEMMA LoadAllDone ==
    ASSUME Inv, NEW p \in Procs, LoadAll(p)
    PROVE  LET q == proc[p]
               r == proc'[p] IN
           /\ UNCHANGED <<kernelVars, admin>>
           /\ q.pc = "loadall" /\ q.name = NULL
           /\ \/ Failed(r)
              \/ /\ \A f \in FormatNames : is_file(f) => f \in r.todo
                 /\ r.worked = q.worked
                 /\ Goes(q, r, "loop", NULL, q.new, r.formats, r.todo)
<1> DEFINE q == proc[p]
           table == load_all_formats(q.formats)
           new == [q EXCEPT !.pc = "loop", !.formats = table,
                            !.todo = Keys(table)]
<1>1. q \in Process /\ q.pc = "loadall" /\ q.name = NULL
  BY InvSound DEF Sound, Control, LoadAll, At
<1>2. /\ UNCHANGED <<kernelVars, admin>>
      /\ \/ Become(p, Exited("2"))
         \/ (\A f \in FormatNames : ~Corrupt(f)) /\ Become(p, new)
  BY DEF LoadAll
<1>3. Failed(Exited("2"))
  BY ExitedFails
<1>4. ASSUME \A f \in FormatNames : ~Corrupt(f)
      PROVE  \A f \in FormatNames : is_file(f) => f \in Keys(table)
  BY <1>4 DEF Corrupt, Keys, load_all_formats
<1>5. ASSUME NEW t, NEW todo
      PROVE  LET s == [q EXCEPT !.pc = "loop", !.formats = t, !.todo = todo] IN
             /\ s.todo = todo /\ s.worked = q.worked
             /\ Goes(q, s, "loop", NULL, q.new, s.formats, s.todo)
  BY <1>1 DEF Process, Goes
<1> HIDE DEF table
<1>6. /\ new.todo = Keys(table) /\ new.worked = q.worked
      /\ Goes(q, new, "loop", NULL, q.new, new.formats, new.todo)
  BY <1>5
<1> HIDE DEF new
<1>7. \/ proc'[p] = Exited("2")
      \/ (\A f \in FormatNames : ~Corrupt(f)) /\ proc'[p] = new
  BY <1>2, BecomeFields
<1>8. QED
  BY <1>1, <1>2, <1>3, <1>4, <1>6, <1>7

\* One turn of the loop, or its end.
LEMMA LoopDone ==
    ASSUME Inv, NEW p \in Procs, Loop(p)
    PROVE  LET q == proc[p]
               r == proc'[p] IN
           /\ UNCHANGED <<kernelVars, admin>> /\ q.pc = "loop"
           /\ \/ \E n \in q.todo :
                    LET label == LoopBody(q, n) IN
                    /\ Goes(q, r, label, IF label = "loop" THEN NULL ELSE n,
                            q.new, q.formats, q.todo \ {n})
                    /\ r.worked = q.worked
              \/ q.todo = {} /\ q.mode = "disableall" /\ Steady(q, r, "unload")
              \/ /\ q.todo = {} /\ q.mode # "disableall"
                 /\ Ended(r) /\ (r.status = "0" => q.worked)
<1> DEFINE q == proc[p]
           turned(n, label) ==
               [q EXCEPT !.pc = label, !.todo = @ \ {n},
                         !.name = IF label = "loop" THEN NULL ELSE n]
<1>1. q \in Process /\ q.pc = "loop"
  BY InvSound DEF Sound, Loop, At
<1>2. /\ UNCHANGED <<kernelVars, admin>>
      /\ \/ \E n \in q.todo : Become(p, turned(n, LoopBody(q, n)))
         \/ q.todo = {} /\ q.mode = "disableall" /\ Become(p, Goto(q, "unload"))
         \/ q.todo = {} /\ q.mode # "disableall" /\ Become(p, Finish(q.worked))
  BY DEF Loop
<1>3. ASSUME NEW n, NEW label
      PROVE  /\ Goes(q, turned(n, label), label,
                     IF label = "loop" THEN NULL ELSE n,
                     q.new, q.formats, q.todo \ {n})
             /\ turned(n, label).worked = q.worked
  BY <1>1 DEF Process, Goes
<1>4. Steady(q, Goto(q, "unload"), "unload")
  BY <1>1, OnwardFields
<1>5. /\ Ended(Finish(q.worked))
      /\ Finish(q.worked).status = "0" => q.worked
  BY FinishStatus
<1> HIDE DEF turned
<1>6. \/ \E n \in q.todo : proc'[p] = turned(n, LoopBody(q, n))
      \/ q.todo = {} /\ q.mode = "disableall" /\ proc'[p] = Goto(q, "unload")
      \/ q.todo = {} /\ q.mode # "disableall" /\ proc'[p] = Finish(q.worked)
  BY <1>2, BecomeFields
<1>7. CASE \E n \in q.todo : proc'[p] = turned(n, LoopBody(q, n))
  <2>1. PICK n \in q.todo : proc'[p] = turned(n, LoopBody(q, n))
    BY <1>7
  <2> DEFINE label == LoopBody(q, n)
  <2>2. /\ Goes(q, proc'[p], label, IF label = "loop" THEN NULL ELSE n,
                q.new, q.formats, q.todo \ {n})
        /\ proc'[p].worked = q.worked
    BY <1>3, <2>1
  <2>3. QED
    BY <1>1, <1>2, <2>2
<1>8. CASE ~(\E n \in q.todo : proc'[p] = turned(n, LoopBody(q, n)))
  BY <1>1, <1>2, <1>4, <1>5, <1>6, <1>8
<1>9. QED
  BY <1>7, <1>8

\* The unmount after the loop of act_disable.
LEMMA UnloadDone ==
    ASSUME Inv, NEW p \in Procs, unload_binfmt_misc(p)
    PROVE  /\ UNCHANGED admin /\ proc[p].pc = "unload"
           /\ KernelUmount \/ UNCHANGED kernelVars
           /\ Ended(proc'[p])
           /\ proc'[p].status = "0" => proc[p].worked
<1>1. /\ Ended(Finish(proc[p].worked))
      /\ Finish(proc[p].worked).status = "0" => proc[p].worked
  BY FinishStatus
<1>2. /\ UNCHANGED admin /\ proc[p].pc = "unload"
      /\ KernelUmount \/ UNCHANGED kernelVars
      /\ Become(p, Finish(proc[p].worked))
  BY DEF unload_binfmt_misc, At
<1>3. proc'[p] = Finish(proc[p].worked)
  BY <1>2, BecomeFields
<1>4. QED
  BY <1>1, <1>2, <1>3

----------------------------------------------------------------------------
(***************************************************************************)
(* act_install and act_remove, step by step.                               *)
(***************************************************************************)
\* A process that replaces a file sets its own state as it likes.
LEMMA RelinkedState ==
    ASSUME Inv, NEW p \in Procs, NEW q, NEW f,
           proc' = [Relinked(f, NULL) EXCEPT ![p] = q]
    PROVE  proc'[p] = q
BY RelinkedStay

\* The file that is replaced is read; act_install goes on to disable it.
LEMMA InstallLoadDone ==
    ASSUME Inv, NEW p \in Procs, InstallLoad(p), proc[p].mode \notin Imports
    PROVE  /\ UNCHANGED <<kernelVars, admin>> /\ proc[p].pc = "install"
           /\ \/ Failed(proc'[p]) \/ Returned(proc[p], proc'[p], FALSE)
              \/ \E table : \/ Onward(proc[p], proc'[p], "disable", table)
                             \/ Onward(proc[p], proc'[p], "manual", table)
<1> DEFINE q == proc[p]
           table == load_format(q.formats, q.name)
           next(label) == [q EXCEPT !.formats = table, !.pc = label]
<1>1. q \in Process
  BY InvSound DEF Sound
<1>2. /\ UNCHANGED <<kernelVars, admin>> /\ q.pc = "install"
      /\ \/ Become(p, Exited("segv")) \/ Become(p, Return(q, FALSE))
         \/ Become(p, next("disable")) \/ Become(p, next("manual"))
  BY DEF InstallLoad, At
<1>3. /\ Returned(q, Return(q, FALSE), FALSE) /\ Failed(Exited("segv"))
      /\ \A label : Onward(q, next(label), label, table)
  BY <1>1, ReturnedFields, OnwardFields, ExitedFails
<1> HIDE DEF q, table, next
<1>4. \/ proc'[p] = Exited("segv") \/ proc'[p] = Return(q, FALSE)
      \/ proc'[p] = next("disable") \/ proc'[p] = next("manual")
  BY <1>2, BecomeFields
<1>5. QED
  BY <1>2, <1>3, <1>4 DEF q

\* An entry that is still there ends act_install with success.
LEMMA ManualDone ==
    ASSUME Inv, NEW p \in Procs, InstallManual(p), ~proc[p].test,
           proc[p].mode \notin Imports
    PROVE  /\ UNCHANGED <<kernelVars, admin>> /\ proc[p].pc = "manual"
           /\ \/ /\ ProcEntry(proc[p].name)
                 /\ Returned(proc[p], proc'[p], TRUE)
              \/ Steady(proc[p], proc'[p], "open")
<1> DEFINE q == proc[p]
<1>1. q \in Process
  BY InvSound DEF Sound
<1>2. /\ UNCHANGED <<kernelVars, admin>> /\ q.pc = "manual"
      /\ \/ ProcEntry(q.name) /\ Become(p, Return(q, TRUE))
         \/ Become(p, Goto(q, "open"))
  BY DEF InstallManual, At
<1>3. Returned(q, Return(q, TRUE), TRUE) /\ Steady(q, Goto(q, "open"), "open")
  BY <1>1, OnwardFields, ReturnedFields
<1> HIDE DEF q
<1>4. \/ ProcEntry(q.name) /\ proc'[p] = Return(q, TRUE)
      \/ proc'[p] = Goto(q, "open")
  BY <1>2, BecomeFields
<1>5. QED
  BY <1>2, <1>3, <1>4 DEF q

\* binfmt_write returns success to nobody: the rename comes after it.
LEMMA WriteDone ==
    ASSUME Inv, NEW p \in Procs, WriteOpen(p) \/ WriteFill(p),
           proc[p].mode \notin Imports
    PROVE  /\ UNCHANGED kernelVars /\ proc[p].pc \in {"open", "fill"}
           /\ \/ Failed(proc'[p]) \/ Returned(proc[p], proc'[p], FALSE)
              \/ \E label \in {"fill", "rename"} :
                    Moved(proc[p], proc'[p], label)
<1> DEFINE q == proc[p]
           tmp == TmpName(q.name)
           opened == [q EXCEPT !.pc = "fill", !.fd = tmp]
           filled == [q EXCEPT !.pc = "rename", !.fd = NULL]
<1>1. q \in Process
  BY InvSound DEF Sound
<1>2. /\ Returned(q, Return(q, FALSE), FALSE) /\ Failed(Exited("segv"))
      /\ Moved(q, opened, "fill") /\ Moved(q, filled, "rename")
  <2>1. ASSUME NEW label, NEW fd
        PROVE  Moved(q, [q EXCEPT !.pc = label, !.fd = fd], label)
    BY <1>1 DEF Process, Moved, Tabled, Goes
  <2>2. QED
    BY <1>1, <2>1, ReturnedFields, ExitedFails
<1> HIDE DEF tmp, opened, filled
<1>3. CASE WriteOpen(p)
  <2>1. /\ UNCHANGED kernelVars /\ q.pc = "open"
        /\ \/ Become(p, Return(q, FALSE))
           \/ proc' = [Relinked(tmp, NULL) EXCEPT ![p] = opened]
           \/ proc' = [Relinked(tmp, NULL) EXCEPT ![p] = Return(q, FALSE)]
    BY <1>3 DEF WriteOpen, At, tmp, opened
  <2>2. proc'[p] \in {opened, Return(q, FALSE)}
    BY <2>1, BecomeFields, RelinkedState
  <2>3. QED
    BY <1>2, <2>1, <2>2
<1>4. CASE WriteFill(p)
  <2>1. /\ UNCHANGED kernelVars /\ q.pc = "fill"
        /\ \/ Become(p, Return(q, FALSE)) \/ Become(p, Exited("segv"))
           \/ Become(p, filled)
    BY <1>4 DEF WriteFill, At, filled
  <2>2. proc'[p] \in {filled, Return(q, FALSE), Exited("segv")}
    BY <2>1, BecomeFields
  <2>3. QED
    BY <1>2, <2>1, <2>2
<1>5. QED
  BY <1>3, <1>4

\* The new description is in place.
LEMMA RenameDone ==
    ASSUME OwnershipInv, NEW p \in Procs, RenameTmp(p),
           proc[p].mode \notin Imports
    PROVE  LET q == proc[p]
               r == proc'[p] IN
           /\ UNCHANGED kernelVars /\ q.pc = "rename"
           /\ \/ Returned(q, r, FALSE)
              \/ /\ admin'[q.name] = binfmt_write(q.new)
                 /\ \E table : Tabled(q, r, "misc", table)
<1> DEFINE q == proc[p]
           n == q.name
           table == kvhash_insert(q.formats, n, q.new)
           new == [q EXCEPT !.pc = "misc", !.formats = table]
           linked(r, f) ==
               IF r.fd = f THEN [r EXCEPT !.fd = n]
               ELSE IF r.fd = n THEN [r EXCEPT !.fd = NULL] ELSE r
<1>0. Inv /\ Ownership(p, q)
  BY DEF OwnershipInv, IntegrityInv
<1>1. /\ q \in Process /\ q.pc = "rename" /\ n \in Names
      /\ n \in FormatNames /\ Tmp[n] \in FormatNames /\ Tmp[n] # n
      /\ admin \in [FormatNames -> File]
  BY <1>0, InvSound, RunAssumption, NamesAssumption
     DEF RenameTmp, At, Sound, Control, Writers, Inv, TypeOK
<1>2. /\ UNCHANGED kernelVars
      /\ \/ Become(p, Return(q, FALSE))
         \/ /\ is_file(Tmp[n])
            /\ admin' = [admin EXCEPT ![n] = admin[Tmp[n]], ![Tmp[n]] = NULL]
            /\ proc' = [[r \in Procs |-> linked(proc[r], Tmp[n])]
                           EXCEPT ![p] = new]
  BY DEF RenameTmp, TmpName
<1>3. Returned(q, Return(q, FALSE), FALSE) /\ Tabled(q, new, "misc", table)
  BY <1>1, ReturnedFields, GotoFields
<1> HIDE DEF new, table, linked
<1>4. CASE Become(p, Return(q, FALSE))
  <2>1. proc'[p] = Return(q, FALSE)
    BY <1>0, <1>4, BecomeFields
  <2>2. QED
    BY <1>1, <1>2, <1>3, <2>1
<1>5. CASE ~Become(p, Return(q, FALSE))
  <2>1. proc'[p] = new /\ admin'[n] = admin[Tmp[n]]
    BY <1>1, <1>2, <1>5
  <2>2. admin[Tmp[n]] = binfmt_write(q.new)
    BY <1>0, <1>1, <1>2, <1>5 DEF Ownership, Written
  <2>3. QED
    BY <1>1, <1>2, <1>3, <2>1, <2>2
<1>6. QED
  BY <1>4, <1>5

\* The table is empty when act_remove looks: it sees the file.
LEMMA RemoveLoadDone ==
    ASSUME OwnershipInv, NEW p \in Procs, RemoveLoad(p)
    PROVE  LET q == proc[p]
               r == proc'[p] IN
           /\ UNCHANGED <<kernelVars, admin>> /\ q.pc = "remove"
           /\ \/ /\ ~is_file(q.name) \/ Loaded(q.name).package # q.package
                 /\ Returned(q, r, TRUE)
              \/ \E table : Onward(q, r, "disable", table)
<1> DEFINE q == proc[p]
           n == q.name
           table == load_format(q.formats, n)
           new == [q EXCEPT !.pc = "disable", !.formats = table]
<1>0. Inv /\ Ownership(p, q)
  BY DEF OwnershipInv, IntegrityInv
<1>1. /\ q \in Process /\ q.pc = "remove" /\ n \in FormatNames
      /\ q.mode = "remove" /\ q.formats = NoTable
  BY <1>0, InvSound, RunAssumption, NamesAssumption
     DEF RemoveLoad, At, Sound, Control, Writers, Ownership
<1>2. table[n] = Loaded(n)
  BY <1>1 DEF load_format, kvhash_insert, NoTable
<1>3. /\ Returned(q, Return(q, TRUE), TRUE)
      /\ Onward(q, new, "disable", table)
  BY <1>1, ReturnedFields, OnwardFields DEF Imports
<1>4. /\ UNCHANGED <<kernelVars, admin>>
      /\ \/ /\ ~is_file(n) \/ table[n].package # q.package
            /\ Become(p, Return(q, TRUE))
         \/ Become(p, new)
  BY DEF RemoveLoad
<1> HIDE DEF q, n, table, new
<1>5. \/ /\ ~is_file(n) \/ table[n].package # q.package
         /\ proc'[p] = Return(q, TRUE)
      \/ proc'[p] = new
  BY <1>0, <1>4, BecomeFields
<1>6. QED
  BY <1>1, <1>2, <1>3, <1>4, <1>5 DEF q, n

\* The file is gone, or act_remove fails.
LEMMA UnlinkDone ==
    ASSUME Inv, NEW p \in Procs, RemoveUnlink(p), ~proc[p].test
    PROVE  LET q == proc[p]
               r == proc'[p] IN
           /\ UNCHANGED kernelVars /\ q.pc = "unlink"
           /\ \/ admin'[q.name] = NULL /\ Returned(q, r, TRUE)
              \/ Returned(q, r, FALSE)
<1> DEFINE q == proc[p]
<1>1. /\ q \in Process /\ q.pc = "unlink" /\ q.mode = "remove"
      /\ q.name \in FormatNames /\ admin \in [FormatNames -> File]
  BY InvSound, RunAssumption, NamesAssumption
     DEF RemoveUnlink, At, Sound, Control, Writers, Inv, TypeOK
<1>2. /\ UNCHANGED kernelVars
      /\ \/ /\ admin' = [admin EXCEPT ![q.name] = NULL]
            /\ proc' = [Relinked(q.name, NULL) EXCEPT ![p] = Return(q, TRUE)]
         \/ Become(p, Return(q, FALSE))
  BY DEF RemoveUnlink
<1>3. Returned(q, Return(q, TRUE), TRUE) /\ Returned(q, Return(q, FALSE), FALSE)
  BY <1>1, ReturnedFields DEF Imports
<1>4. \/ admin'[q.name] = NULL /\ proc'[p] = Return(q, TRUE)
      \/ proc'[p] = Return(q, FALSE)
  <2>1. ASSUME admin' = [admin EXCEPT ![q.name] = NULL]
        PROVE  admin'[q.name] = NULL
    BY <1>1, <2>1
  <2> HIDE DEF q
  <2>2. QED
    BY <1>2, <2>1, BecomeFields, RelinkedState
<1>5. QED
  BY <1>1, <1>2, <1>3, <1>4

----------------------------------------------------------------------------
(***************************************************************************)
(* The place a command is at.                                              *)
(***************************************************************************)
\* A step keeps the command in its places, and ends it or goes on with it.
Stays(q, r) == Placed(r) /\ (Ended(r) \/ (r.mode = q.mode /\ r.test = q.test))

\* Leaving a place for the loop or the end is fine wherever one is.
LEMMA LeftPlaced ==
    ASSUME NEW q, NEW r, Left(q, r)
    PROVE  Stays(q, r)
<1>1. CASE Ended(r)
  BY <1>1 DEF Ended, Placed, Stays
<1>2. CASE Back(q, r)
  BY <1>2 DEF Back, Goes, Placed, Loops, Stays
<1>3. QED
  BY <1>1, <1>2 DEF Left

\* A step to a place of the same command.
LEMMA GoesPlaced ==
    ASSUME NEW q, NEW r, NEW label, NEW name, NEW new, NEW table, NEW todo,
           Goes(q, r, label, name, new, table, todo), Placed(q),
           q.mode = "install" => label \in Replacing \cup Enabling,
           q.mode = "remove" => label \in Removing,
           q.mode = "enable" => label \in Enabling /\ name # NULL,
           q.mode = "disable" => label \in Disabling /\ name # NULL,
           q.mode = "enableall" => label \in Enabling \cup {"loadall", "loop"}
    PROVE  Stays(q, r)
BY DEF Goes, Placed, Stays

\* No step leaves the places of its command.
LEMMA StepPlaced ==
    ASSUME RegistryInv, NEW p \in Procs, Placed(proc[p]), Step(p)
    PROVE  Stays(proc[p], proc'[p])
<1> DEFINE q == proc[p]
           r == proc'[p]
<1>0. /\ OwnershipInv /\ Inv /\ Sound(p, q) /\ Turns(q)
      /\ q.mode \in {"install", "remove"} /\ q.pc \notin {"import", "loop"} =>
            q.name # NULL
  BY InvSound, RunAssumption, NamesAssumption
     DEF RegistryInv, DryInv, Accounted, Sound, Control, Writers, Installs
<1>1. Left(q, r) => Stays(q, r)
  BY LeftPlaced
<1>2. CASE load_binfmt_misc(p) \/ MountBinfmtMisc(p)
  <2>1. /\ q.pc \in {"misc", "mount"}
        /\ \/ Left(q, r) \/ Moved(q, r, "mount")
           \/ q.name = NULL /\ Moved(q, r, "loadall")
           \/ q.name # NULL /\ Moved(q, r, "exists")
    BY <1>0, <1>2, MiscAfter
  <2>2. QED
    BY <1>0, <1>1, <2>1, GoesPlaced
       DEF Moved, Tabled, Placed, Replacing, Removing, Enabling, Disabling
<1>3. CASE EnableExists(p) \/ EnableScan(p) \/ EnableRegister(p)
  <2>1. /\ q.pc \in {"exists", "scan", "register"}
        /\ \/ Left(q, r) \/ Moved(q, r, "scan")
           \/ \E table, todo :
                 Goes(q, r, "register", q.name, q.new, table, todo)
    BY <1>0, <1>3, ExistsAfter, ScanAfter, RegisterAfter
  <2>2. QED
    BY <1>0, <1>1, <2>1, GoesPlaced
       DEF Moved, Tabled, Placed, Replacing, Removing, Enabling, Disabling
<1>4. CASE DisableExists(p) \/ DisableWrite(p) \/ DisableCheck(p)
  <2>1. /\ q.pc \in Disabling
        /\ \/ Left(q, r)
           \/ q.name = NULL /\ Moved(q, r, "loadall")
           \/ q.name # NULL /\ Moved(q, r, "diswrite")
           \/ q.pc = "diswrite" /\ Moved(q, r, "discheck")
           \/ q.mode \in Installs /\ Moved(q, r, "manual")
           \/ q.mode = "remove" /\ Moved(q, r, "unlink")
    BY <1>0, <1>4, DisableAfter, DisableWriteAfter, DisableCheckAfter
       DEF AfterDisable, Disabling
  <2>2. q.pc \in {"diswrite", "discheck"} => q.name # NULL
    BY <1>0, NamesAssumption DEF Sound, Control
  <2>3. QED
    BY <1>0, <1>1, <2>1, <2>2, GoesPlaced
       DEF Moved, Tabled, Placed, Replacing, Removing, Enabling, Disabling,
           Installs, Imports
<1>5. CASE LoadAll(p) \/ unload_binfmt_misc(p) \/ Display(p)
  <2>1. \/ Ended(r)
        \/ /\ q.pc = "loadall"
           /\ \E table, todo : Goes(q, r, "loop", NULL, q.new, table, todo)
    BY <1>0, <1>5, LoadAllAfter, UnloadAfter, DisplayAfter
  <2>2. QED
    BY <1>0, <1>1, <2>1, GoesPlaced
       DEF Left, Placed, Replacing, Removing, Enabling, Disabling
<1>6. CASE Loop(p)
  <2>1. /\ q.pc = "loop"
        /\ \/ Ended(r)
           \/ q.mode = "disableall" /\ Moved(q, r, "unload")
           \/ \E n \in q.todo : \E name :
                 Goes(q, r, LoopBody(q, n), name, q.new, q.formats,
                      q.todo \ {n})
    BY <1>0, <1>6, LoopAfter
  <2>2. \A n : q.mode = "enableall" => LoopBody(q, n) \in {"misc", "loop"}
    BY DEF LoopBody
  <2>3. q.mode \notin {"install", "remove", "enable", "disable"}
    BY <2>1 DEF Placed, Replacing, Removing, Enabling, Disabling
  <2>4. QED
    BY <1>0, <1>1, <2>1, <2>2, <2>3, GoesPlaced
       DEF Left, Moved, Tabled, Enabling
<1>7. CASE InstallLoad(p) \/ InstallManual(p)
  <2>1. /\ q.pc \in {"install", "manual"} /\ q.mode \in Installs
        /\ \/ Left(q, r)
           \/ \E label \in {"disable", "manual", "open", "misc"} : \E table :
                 Tabled(q, r, label, table)
    BY <1>0, <1>7, InstallLoadAfter, ManualAfter DEF Moved, Sound, Control
  <2>2. QED
    BY <1>0, <1>1, <2>1, GoesPlaced
       DEF Tabled, Replacing, Enabling, Installs, Imports
<1>8. CASE WriteOpen(p) \/ WriteFill(p) \/ RenameTmp(p)
  <2>1. /\ q.pc \in {"open", "fill", "rename"} /\ q.mode \in Installs
        /\ \/ Left(q, r)
           \/ \E label \in {"fill", "rename", "misc"} : \E table :
                 Tabled(q, r, label, table)
    BY <1>0, <1>8, OpenAfter, FillMoves, RenameAfter DEF Moved, Sound, Control
  <2>2. QED
    BY <1>0, <1>1, <2>1, GoesPlaced
       DEF Tabled, Replacing, Enabling, Installs, Imports
<1>9. CASE RemoveLoad(p) \/ RemoveUnlink(p)
  <2>1. /\ q.pc \in {"remove", "unlink"} /\ q.mode = "remove"
        /\ Left(q, r) \/ \E table : Tabled(q, r, "disable", table)
    BY <1>0, <1>9, RemoveLoadAfter, UnlinkAfter DEF Sound, Control
  <2>2. QED
    BY <1>0, <1>1, <2>1, GoesPlaced DEF Tabled, Removing
<1>10. CASE Import(p)
  <2>1. /\ q.mode \in Imports
        /\ \/ Ended(r)
           \/ /\ r.mode = q.mode /\ r.test = q.test
    BY <1>0, <1>10, ImportAfter
       DEF Sound, Control, Left, Back, Tabled, Goes
  <2>2. Ended(r) => Stays(q, r)
    BY <1>1 DEF Left
  <2>3. QED
    BY <2>1, <2>2 DEF Stays, Placed, Imports
<1>11. QED
  BY <1>2, <1>3, <1>4, <1>5, <1>6, <1>7, <1>8, <1>9, <1>10 DEF Step

----------------------------------------------------------------------------
(***************************************************************************)
(* What holds after a step, and what a step that ends the command has      *)
(* achieved.                                                               *)
(***************************************************************************)
\* The invariant after the step of p, but for its place, and the property.
Right(p) ==
    /\ Mounted(proc[p])' /\ Landed(proc[p])' /\ Visited(proc[p])'
    /\ Achieved(p)

\* A command that goes on has promised nothing yet.
LEMMA OnwardRight ==
    ASSUME NEW p \in Procs, proc'[p].pc # "idle",
           Mounted(proc[p])', Landed(proc[p])', Visited(proc[p])'
    PROVE  Right(p)
BY DEF Right, Achieved, NamedDone, Succeeds

\* One that is over keeps nothing.
LEMMA EndedRight ==
    ASSUME NEW p \in Procs, Ended(proc'[p]), Achieved(p)
    PROVE  Right(p)
BY DEF Right, Ended, Mounted, Landed, Visited, Looping

\* One that fails has promised nothing.
LEMMA FailedRight ==
    ASSUME NEW p \in Procs, Failed(proc'[p])
    PROVE  Right(p)
BY EndedRight DEF Failed, Achieved, NamedDone, Succeeds

\* What does not count promises nothing.
LEMMA UncountedRight ==
    ASSUME NEW p \in Procs, ~Counts(proc[p]), Stays(proc[p], proc'[p])
    PROVE  Right(p)
<1>1. Achieved(p)
  BY DEF Achieved, NamedDone, Succeeds, Counts, Imports
<1>2. CASE Ended(proc'[p])
  BY <1>1, <1>2, EndedRight
<1>3. CASE /\ proc'[p].mode = proc[p].mode /\ proc'[p].test = proc[p].test
  BY <1>1, <1>3
     DEF Right, Counts, Mounted, Landed, Visited, Imports
<1>4. QED
  BY <1>2, <1>3 DEF Stays

\* What the invariant says of the command whose step it is.
LEMMA SuccessFacts ==
    ASSUME SuccessInv, NEW p \in Procs
    PROVE  LET q == proc[p] IN
           /\ RegistryInv /\ OwnershipInv /\ Inv /\ NoOrphan
           /\ Sound(p, q) /\ q \in Process /\ Cleared(q) /\ Turns(q)
           /\ Placed(q) /\ Mounted(q) /\ Landed(q) /\ Visited(q)
           /\ NULL \notin FormatNames
BY InvSound, NamesAssumption
   DEF SuccessInv, Succeeding, RegistryInv, DryInv, Accounted, Sound

\* A turn of the loop that failed, or the whole command.
LEMMA FalseRight ==
    ASSUME SuccessInv, NEW p \in Procs, Counts(proc[p]),
           Returned(proc[p], proc'[p], FALSE) \/ Failed(proc'[p]),
           procfs = "mounted" => procfs' = "mounted"
    PROVE  Right(p)
<1> DEFINE q == proc[p]
           r == proc'[p]
<1>0. Mounted(q) /\ Counts(q)
  BY SuccessFacts
<1>1. CASE Back(q, r) /\ (r.worked => q.worked /\ FALSE)
  <2>1. /\ r.pc = "loop" /\ r.mode = q.mode /\ q.mode \in Loops
        /\ q.name # NULL /\ ~r.worked
    BY <1>1 DEF Back, Goes
  <2>2. Mounted(proc[p])'
    BY <1>0, <2>1 DEF Mounted, Looping
  <2>3. Landed(proc[p])' /\ Visited(proc[p])'
    BY <2>1 DEF Landed, Visited, Enabling
  <2>4. QED
    BY <2>1, <2>2, <2>3, OnwardRight
<1>2. CASE Ended(r) /\ r.status # "0"
  BY <1>2, FailedRight DEF Failed
<1>3. QED
  BY <1>1, <1>2 DEF Returned, Failed

----------------------------------------------------------------------------
(***************************************************************************)
(* act_enable.                                                             *)
(***************************************************************************)
\* From place to place in act_enable.
LEMMA EnableKeeps ==
    ASSUME NEW p \in Procs,
           Landed(proc[p]), Visited(proc[p]), proc[p].pc \in Enabling,
           proc'[p].pc \in Enabling \cup {"loadall"},
           proc'[p].name = proc[p].name, proc'[p].new = proc[p].new,
           proc'[p].mode = proc[p].mode, proc'[p].test = proc[p].test,
           proc'[p].worked = proc[p].worked,
           proc[p].todo \subseteq proc'[p].todo,
           proc[p].mode # "disableall", UNCHANGED <<admin, entry>>
    PROVE  Landed(proc[p])' /\ Visited(proc[p])'
BY DEF Landed, Visited, Looping, is_file, Enabling

\* A step of act_enable that returns success: the format is there, or
\* binfmt_misc could not be mounted.
LEMMA EnabledRight ==
    ASSUME SuccessInv, NEW p \in Procs, Counts(proc[p]),
           proc[p].pc \in Enabling, Returned(proc[p], proc'[p], TRUE),
           UNCHANGED <<admin, manual>>,
           procfs = "mounted" => procfs' = "mounted",
           \A f \in FormatNames : entry[f] # NULL => entry'[f] # NULL,
           \/ procfs' # "mounted"
           \/ proc[p].name \in FormatNames /\ entry'[proc[p].name] # NULL
    PROVE  Right(p)
<1> DEFINE q == proc[p]
           r == proc'[p]
<1>0. /\ Mounted(q) /\ Landed(q) /\ Visited(q) /\ Placed(q) /\ Turns(q)
      /\ NULL \notin FormatNames
  BY SuccessFacts
<1>1. q.mode \notin {"remove", "disable", "disableall"}
  BY <1>0 DEF Placed, Turns, Enabling, Removing, Disabling
<1>2. CASE Back(q, r) /\ (r.worked => q.worked /\ TRUE)
  <2>1. /\ r.pc = "loop" /\ r.mode = q.mode /\ q.mode = "enableall"
        /\ q.name # NULL /\ (r.worked => q.worked) /\ r.todo = q.todo
        /\ r.name = NULL /\ r.test = q.test
    BY <1>1, <1>2 DEF Back, Goes, Counts, Loops, Imports
  <2>2. procfs' = "mounted"
    BY <1>0, <2>1 DEF Mounted, Looping
  <2>3. Mounted(proc[p])'
    BY <2>1, <2>2 DEF Mounted
  <2>4. Landed(proc[p])'
    BY <2>1 DEF Landed
  <2>5. Visited(proc[p])'
    BY <1>0, <2>1, <2>2 DEF Visited, Looping, is_file
  <2>6. QED
    BY <2>1, <2>3, <2>4, <2>5, OnwardRight
<1>3. CASE Ended(r) /\ ~(q.mode \in Loops /\ q.name # NULL)
  <2>1. q.mode = "install" => admin'[q.name] = binfmt_write(q.new)
    BY <1>0 DEF Landed, Counts
  <2>2. q.mode = "enableall" => procfs' # "mounted"
    BY <1>0, <1>3 DEF Loops
  <2>3. Achieved(p)
    BY <1>1, <2>1, <2>2
       DEF Achieved, NamedDone, InstallDone, Succeeds, ProcEntry
  <2>4. QED
    BY <1>3, <2>3, EndedRight
<1>4. QED
  BY <1>2, <1>3 DEF Returned

\* The steps of act_enable.
LEMMA EnableRight ==
    ASSUME SuccessInv, NEW p \in Procs, Counts(proc[p]),
           \/ load_binfmt_misc(p) \/ MountBinfmtMisc(p) \/ EnableExists(p)
           \/ EnableScan(p) \/ EnableRegister(p)
    PROVE  Right(p)
<1> DEFINE q == proc[p]
           r == proc'[p]
<1>0. /\ Inv /\ Mounted(q) /\ Landed(q) /\ Visited(q) /\ Placed(q) /\ Turns(q)
      /\ NULL \notin FormatNames /\ Sound(p, q)
      /\ ~q.test /\ q.mode \notin Imports
  BY SuccessFacts DEF Counts
<1>1. q.pc \in Enabling => q.mode # "disableall"
  BY <1>0 DEF Turns, Enabling
<1>2. CASE load_binfmt_misc(p) \/ MountBinfmtMisc(p)
  <2>1. /\ UNCHANGED <<admin, entry, manual>>
        /\ q.pc \in {"misc", "mount"}
        /\ procfs = "mounted" => procfs' = "mounted"
        /\ \/ procfs' # "mounted" /\ Steady(q, r, "mount")
           \/ procfs' # "mounted" /\ Returned(q, r, TRUE)
           \/ /\ procfs' = "mounted"
              /\ Steady(q, r, IF q.name = NULL THEN "loadall" ELSE "exists")
    BY <1>0, <1>2, MiscDone
  <2>2. CASE procfs' # "mounted" /\ Returned(q, r, TRUE)
    BY <2>1, <2>2, EnabledRight DEF Enabling
  <2>3. ASSUME NEW label \in {"mount", "loadall", "exists"},
               Steady(q, r, label),
               label # "mount" => procfs' = "mounted",
               label = "mount" => procfs' # "mounted"
        PROVE  Right(p)
    <3>1. /\ r.pc = label /\ r.name = q.name /\ r.new = q.new
          /\ r.mode = q.mode /\ r.test = q.test /\ r.todo = q.todo
          /\ r.worked = q.worked
      BY <2>3 DEF Steady, Onward, Tabled, Goes
    <3>2. Landed(proc[p])' /\ Visited(proc[p])'
      BY <1>0, <1>1, <2>1, <2>3, <3>1, EnableKeeps DEF Enabling
    <3>3. Mounted(proc[p])'
      BY <1>0, <2>1, <2>3, <3>1 DEF Mounted, Counts, Looping
    <3>4. QED
      BY <2>3, <3>1, <3>2, <3>3, OnwardRight
  <2>4. QED
    BY <2>1, <2>2, <2>3
<1>3. CASE EnableExists(p)
  <2>1. /\ UNCHANGED <<kernelVars, admin>> /\ q.pc = "exists"
        /\ \/ ProcEntry(q.name) /\ Returned(q, r, TRUE)
           \/ Steady(q, r, "scan")
    BY <1>0, <1>3, ExistsDone
  <2>2. q.name \in FormatNames /\ procfs' = procfs /\ entry' = entry
        /\ manual' = manual
    BY <1>0, <2>1 DEF Sound, Control, kernelVars
  <2>3. CASE ProcEntry(q.name) /\ Returned(q, r, TRUE)
    BY <2>1, <2>2, <2>3, EnabledRight DEF Enabling, ProcEntry
  <2>4. CASE Steady(q, r, "scan")
    <3>1. /\ r.pc = "scan" /\ r.name = q.name /\ r.new = q.new
          /\ r.mode = q.mode /\ r.test = q.test /\ r.todo = q.todo
          /\ r.worked = q.worked
      BY <2>4 DEF Steady, Onward, Tabled, Goes
    <3>2. Landed(proc[p])' /\ Visited(proc[p])'
      BY <1>0, <1>1, <2>1, <2>2, <3>1, EnableKeeps DEF Enabling
    <3>3. Mounted(proc[p])'
      BY <1>0, <2>1, <2>2, <3>1 DEF Mounted, Counts
    <3>4. QED
      BY <3>1, <3>2, <3>3, OnwardRight
  <2>5. QED
    BY <2>1, <2>3, <2>4
<1>4. CASE EnableScan(p)
  <2>1. /\ UNCHANGED <<kernelVars, admin>> /\ q.pc = "scan"
        /\ \/ Failed(r) \/ Returned(q, r, FALSE)
           \/ /\ r.pc = "register" /\ r.name = q.name /\ r.new = q.new
              /\ r.mode = q.mode /\ r.test = q.test
              /\ r.worked = q.worked /\ q.todo \subseteq r.todo
    BY <1>0, <1>4, ScanDone
  <2>2. procfs' = procfs /\ entry' = entry
    BY <2>1 DEF kernelVars
  <2>3. CASE Failed(r) \/ Returned(q, r, FALSE)
    BY <2>2, <2>3, FalseRight
  <2>4. CASE /\ r.pc = "register" /\ r.name = q.name /\ r.new = q.new
             /\ r.mode = q.mode /\ r.test = q.test
             /\ r.worked = q.worked /\ q.todo \subseteq r.todo
    <3>1. Landed(proc[p])' /\ Visited(proc[p])'
      BY <1>0, <1>1, <2>1, <2>2, <2>4, EnableKeeps DEF Enabling
    <3>2. Mounted(proc[p])'
      BY <1>0, <2>1, <2>2, <2>4 DEF Mounted, Counts
    <3>3. QED
      BY <2>4, <3>1, <3>2, OnwardRight
  <2>5. QED
    BY <2>1, <2>3, <2>4
<1>5. CASE EnableRegister(p)
  <2>1. /\ UNCHANGED admin /\ q.pc = "register"
        /\ \/ Returned(q, r, FALSE) /\ UNCHANGED kernelVars
           \/ /\ Returned(q, r, TRUE) /\ UNCHANGED <<procfs, manual>>
              /\ entry'[q.name] # NULL
              /\ \A f \in FormatNames \ {q.name} : entry'[f] = entry[f]
    BY <1>0, <1>5, RegisterDone
  <2>2. q.name \in FormatNames
    BY <1>0, <2>1 DEF Sound, Control
  <2>3. CASE Returned(q, r, FALSE) /\ UNCHANGED kernelVars
    BY <2>3, FalseRight DEF kernelVars
  <2>4. CASE /\ Returned(q, r, TRUE) /\ UNCHANGED <<procfs, manual>>
             /\ entry'[q.name] # NULL
             /\ \A f \in FormatNames \ {q.name} : entry'[f] = entry[f]
    BY <2>1, <2>2, <2>4, EnabledRight DEF Enabling
  <2>5. QED
    BY <2>1, <2>3, <2>4
<1>6. QED
  BY <1>2, <1>3, <1>4, <1>5

----------------------------------------------------------------------------
(***************************************************************************)
(* act_disable and the loops.                                              *)
(***************************************************************************)
\* act_disable returns success: the kernel does not have the format, or there
\* is no binfmt_misc.
LEMMA DisabledRight ==
    ASSUME SuccessInv, NEW p \in Procs, Counts(proc[p]),
           proc[p].pc \in Disabling, Disables(proc[p], proc'[p], TRUE),
           UNCHANGED <<kernelVars, admin>>,
           \/ procfs = "absent"
           \/ proc[p].name # NULL /\ ~ProcEntry(proc[p].name)
    PROVE  Right(p)
<1> DEFINE q == proc[p]
           r == proc'[p]
<1>0. /\ Mounted(q) /\ Visited(q) /\ Placed(q) /\ Turns(q)
      /\ UNCHANGED <<procfs, entry, manual>>
      /\ NULL \notin FormatNames
  BY SuccessFacts DEF kernelVars
<1>1. q.mode \notin {"enable", "enableall"}
  BY <1>0 DEF Placed, Enabling, Disabling
<1>2. CASE /\ q.mode \in {"install", "remove"}
           /\ Steady(q, r, "manual") \/ Steady(q, r, "unlink")
  <2>1. r.pc \in {"manual", "unlink"} /\ r.mode \in {"install", "remove"}
    BY <1>2 DEF Steady, Onward, Tabled, Goes
  <2>2. Mounted(proc[p])' /\ Landed(proc[p])' /\ Visited(proc[p])'
    BY <2>1 DEF Mounted, Landed, Visited, Enabling
  <2>3. QED
    BY <2>1, <2>2, OnwardRight
<1>3. CASE /\ q.mode \notin {"install", "remove"}
           /\ Back(q, r) /\ (r.worked => q.worked /\ TRUE)
  <2>1. /\ r.pc = "loop" /\ r.mode = q.mode /\ q.mode = "disableall"
        /\ q.name # NULL /\ (r.worked => q.worked) /\ r.todo = q.todo
        /\ r.name = NULL /\ r.test = q.test
    BY <1>1, <1>3 DEF Back, Goes, Counts, Loops, Imports
  <2>2. Mounted(proc[p])' /\ Landed(proc[p])'
    BY <2>1 DEF Mounted, Landed
  <2>3. Visited(proc[p])'
    BY <1>0, <2>1 DEF Visited, Looping, is_file, ProcEntry
  <2>4. QED
    BY <2>1, <2>2, <2>3, OnwardRight
<1>4. CASE /\ q.mode \notin {"install", "remove"}
           /\ Ended(r) /\ ~(q.mode \in Loops /\ q.name # NULL)
  <2>1. q.mode = "disableall" => procfs = "absent"
    BY <1>4 DEF Loops
  <2>2. q.mode = "disable" => \A n : q.name = n => ~ProcEntry(n)'
    BY <1>0 DEF ProcEntry
  <2>3. Achieved(p)
    BY <1>0, <1>1, <1>4, <2>1, <2>2
       DEF Achieved, NamedDone, Succeeds, ProcEntry
  <2>4. QED
    BY <1>4, <2>3, EndedRight
<1>5. QED
  BY <1>2, <1>3, <1>4 DEF Disables, Returned

\* The steps of act_disable.
LEMMA DisableRight ==
    ASSUME SuccessInv, NEW p \in Procs, Counts(proc[p]),
           DisableExists(p) \/ DisableWrite(p) \/ DisableCheck(p)
    PROVE  Right(p)
<1> DEFINE q == proc[p]
           r == proc'[p]
<1>0. /\ Inv /\ Mounted(q) /\ Landed(q) /\ Visited(q) /\ Placed(q) /\ Turns(q)
      /\ NULL \notin FormatNames /\ Sound(p, q)
      /\ ~q.test /\ q.mode \notin Imports
      /\ entry \in [FormatNames -> Regstring \cup {NULL}]
  BY SuccessFacts DEF Counts, Inv, TypeOK, KernelTypeOK
<1>1. q.pc \in Disabling => q.mode \notin {"enable", "enableall"}
  BY <1>0 DEF Placed, Enabling, Disabling
<1>2. ASSUME q.pc \in Disabling,
             NEW label \in {"loadall", "diswrite", "discheck"},
             Steady(q, r, label), label = "loadall" => q.name = NULL,
             UNCHANGED admin,
             \A f \in FormatNames \ {q.name} :
                 ProcEntry(f)' =>
                    ProcEntry(f) /\ (f \in manual => f \in manual')
      PROVE  Right(p)
  <2>1. /\ r.pc = label /\ r.name = q.name /\ r.mode = q.mode
        /\ r.test = q.test /\ r.todo = q.todo /\ r.worked = q.worked
    BY <1>2 DEF Steady, Onward, Tabled, Goes
  <2>2. Mounted(proc[p])' /\ Landed(proc[p])'
    BY <1>1, <1>2, <2>1 DEF Mounted, Landed, Enabling
  <2>3. Visited(proc[p])'
    BY <1>0, <1>1, <1>2, <2>1 DEF Visited, Looping, is_file, Disabling
  <2>4. QED
    BY <1>2, <2>1, <2>2, <2>3, OnwardRight
<1>3. CASE DisableExists(p)
  <2>1. /\ UNCHANGED <<kernelVars, admin>> /\ q.pc = "disable"
        /\ \/ procfs = "absent" /\ Disables(q, r, TRUE)
           \/ q.name # NULL /\ ~ProcEntry(q.name) /\ Disables(q, r, TRUE)
           \/ q.name = NULL /\ Steady(q, r, "loadall")
           \/ q.name # NULL /\ Steady(q, r, "diswrite")
    BY <1>0, <1>3, DisableDone
  <2>2. \A f : ProcEntry(f)' => ProcEntry(f) /\ (f \in manual => f \in manual')
    BY <2>1 DEF kernelVars, ProcEntry
  <2>3. CASE Disables(q, r, TRUE)
             /\ (procfs = "absent" \/ (q.name # NULL /\ ~ProcEntry(q.name)))
    BY <2>1, <2>3, DisabledRight DEF Disabling
  <2>4. CASE q.name = NULL /\ Steady(q, r, "loadall")
    BY <1>2, <2>1, <2>2, <2>4 DEF Disabling
  <2>5. CASE Steady(q, r, "diswrite")
    BY <1>2, <2>1, <2>2, <2>5 DEF Disabling
  <2>6. QED
    BY <2>1, <2>3, <2>4, <2>5
<1>4. ASSUME Disables(q, r, FALSE), procfs' = procfs
      PROVE  Right(p)
  BY <1>4, FalseRight DEF Disables
<1>5. CASE DisableWrite(p)
  <2>1. /\ UNCHANGED admin /\ q.pc = "diswrite"
        /\ \/ KernelUnregister(q.name) /\ Steady(q, r, "discheck")
           \/ UNCHANGED kernelVars /\ Disables(q, r, FALSE)
    BY <1>0, <1>5, DisableWriteDone
  <2>2. CASE KernelUnregister(q.name) /\ Steady(q, r, "discheck")
    <3>1. \A f \in FormatNames \ {q.name} :
             ProcEntry(f)' => ProcEntry(f) /\ (f \in manual => f \in manual')
      BY <1>0, <2>2 DEF KernelUnregister, ProcEntry
    <3>2. QED
      BY <1>2, <2>1, <2>2, <3>1 DEF Disabling
  <2>3. CASE UNCHANGED kernelVars /\ Disables(q, r, FALSE)
    BY <1>4, <2>3 DEF kernelVars
  <2>4. QED
    BY <2>1, <2>2, <2>3
<1>6. CASE DisableCheck(p)
  <2>1. /\ UNCHANGED <<kernelVars, admin>> /\ q.pc = "discheck"
        /\ Disables(q, r, ~ProcEntry(q.name))
    BY <1>0, <1>6, DisableCheckDone
  <2>2. q.name # NULL
    BY <1>0, <2>1 DEF Sound, Control
  <2>3. CASE ProcEntry(q.name)
    <3>1. Disables(q, r, FALSE)
      BY <2>1, <2>3 DEF Disables, Returned
    <3>2. QED
      BY <1>4, <2>1, <3>1 DEF kernelVars
  <2>4. CASE ~ProcEntry(q.name)
    <3>1. Disables(q, r, TRUE)
      BY <2>1, <2>4 DEF Disables, Returned
    <3>2. QED
      BY <2>1, <2>2, <2>4, <3>1, DisabledRight DEF Disabling
  <2>5. QED
    BY <2>3, <2>4
<1>7. QED
  BY <1>3, <1>5, <1>6

\* The steps of the loops over all formats.
LEMMA LoopRight ==
    ASSUME SuccessInv, NEW p \in Procs, Counts(proc[p]),
           LoadAll(p) \/ Loop(p) \/ unload_binfmt_misc(p)
    PROVE  Right(p)
<1> DEFINE q == proc[p]
           r == proc'[p]
<1>0. /\ Inv /\ Mounted(q) /\ Visited(q) /\ Placed(q) /\ Turns(q)
      /\ NULL \notin FormatNames /\ Sound(p, q) /\ q \in Process
      /\ Counts(q)
  BY SuccessFacts
<1>1. q.pc \in {"loadall", "loop", "unload"} =>
         /\ q.mode \notin {"install", "remove", "enable", "disable"}
         /\ q.mode = "enableall" => q.pc # "unload"
  BY <1>0 DEF Placed, Enabling, Disabling, Replacing, Removing
<1>2. CASE LoadAll(p)
  <2>1. /\ UNCHANGED <<kernelVars, admin>> /\ q.pc = "loadall"
        /\ \/ Failed(r)
           \/ /\ \A f \in FormatNames : is_file(f) => f \in r.todo
              /\ Goes(q, r, "loop", NULL, q.new, r.formats, r.todo)
    BY <1>0, <1>2, LoadAllDone
  <2>2. CASE Failed(r)
    BY <2>2, FailedRight
  <2>3. CASE /\ \A f \in FormatNames : is_file(f) => f \in r.todo
             /\ Goes(q, r, "loop", NULL, q.new, r.formats, r.todo)
    <3>1. r.pc = "loop" /\ r.mode = q.mode /\ r.test = q.test
      BY <2>3 DEF Goes
    <3>2. Mounted(proc[p])' /\ Landed(proc[p])'
      BY <1>0, <2>1, <3>1 DEF Mounted, Counts, Landed, Enabling, kernelVars
    <3>3. Visited(proc[p])'
      BY <2>1, <2>3 DEF Visited, is_file
    <3>4. QED
      BY <3>1, <3>2, <3>3, OnwardRight
  <2>4. QED
    BY <2>1, <2>2, <2>3
<1>3. CASE Loop(p)
  <2>1. /\ UNCHANGED <<kernelVars, admin>> /\ q.pc = "loop"
        /\ \/ \E n \in q.todo :
                 LET label == LoopBody(q, n) IN
                 /\ Goes(q, r, label, IF label = "loop" THEN NULL ELSE n,
                         q.new, q.formats, q.todo \ {n})
                 /\ r.worked = q.worked
           \/ q.todo = {} /\ q.mode = "disableall" /\ Steady(q, r, "unload")
           \/ /\ q.todo = {} /\ q.mode # "disableall"
              /\ Ended(r) /\ (r.status = "0" => q.worked)
    BY <1>0, <1>3, LoopDone
  <2>2. /\ UNCHANGED <<procfs, entry, manual, admin>> /\ q.name = NULL
        /\ q.mode # "importall"
    BY <1>0, <2>1 DEF kernelVars, Turns, Counts, Imports
  <2>3. ASSUME NEW n \in q.todo, NEW label, label = LoopBody(q, n),
               Goes(q, r, label, IF label = "loop" THEN NULL ELSE n,
                    q.new, q.formats, q.todo \ {n}),
               r.worked = q.worked
        PROVE  Right(p)
    <3>1. /\ r.pc = label /\ r.mode = q.mode /\ r.test = q.test
          /\ r.name = IF label = "loop" THEN NULL ELSE n
          /\ r.todo = q.todo \ {n} /\ r.worked = q.worked
      BY <2>3 DEF Goes
    <3>2. \/ label = "misc" /\ q.mode = "enableall"
          \/ label = "disable" /\ q.mode = "disableall"
          \/ /\ label = "loop"
             /\ q.mode = "enableall" => ProcEntry(n)
             /\ q.mode = "disableall" => ~ProcEntry(n)
      BY <2>2, <2>3 DEF LoopBody
    <3>3. Mounted(proc[p])'
      BY <1>0, <2>1, <2>2, <3>1, <3>2 DEF Mounted, Counts, Looping
    <3>4. Landed(proc[p])'
      BY <1>1, <2>1, <3>1 DEF Landed
    <3>5. Visited(proc[p])'
      BY <1>0, <2>1, <2>2, <3>1, <3>2
         DEF Visited, Looping, is_file, ProcEntry
    <3>6. QED
      BY <3>1, <3>2, <3>3, <3>4, <3>5, OnwardRight
  <2>4. CASE q.todo = {} /\ q.mode = "disableall" /\ Steady(q, r, "unload")
    <3>1. /\ r.pc = "unload" /\ r.mode = q.mode /\ r.test = q.test
          /\ r.name = q.name /\ r.todo = q.todo /\ r.worked = q.worked
      BY <2>4 DEF Steady, Onward, Tabled, Goes
    <3>2. Mounted(proc[p])' /\ Landed(proc[p])'
      BY <2>4, <3>1 DEF Mounted, Landed
    <3>3. Visited(proc[p])'
      BY <1>0, <2>1, <2>2, <2>4, <3>1
         DEF Visited, Looping, is_file, ProcEntry
    <3>4. QED
      BY <3>1, <3>2, <3>3, OnwardRight
  <2>5. CASE /\ q.todo = {} /\ q.mode # "disableall"
             /\ Ended(r) /\ (r.status = "0" => q.worked)
    <3>1. q.mode = "enableall" /\ q.worked =>
             \A f \in FormatNames : is_file(f) => entry[f] # NULL
      BY <1>0, <2>1, <2>2, <2>5 DEF Visited, Looping, Counts
    <3>2. Achieved(p)
      BY <1>1, <2>1, <2>2, <2>5, <3>1
         DEF Achieved, NamedDone, Succeeds, ProcEntry, is_file
    <3>3. QED
      BY <2>5, <3>2, EndedRight
  <2>6. CASE \E n \in q.todo :
                LET label == LoopBody(q, n) IN
                /\ Goes(q, r, label, IF label = "loop" THEN NULL ELSE n,
                        q.new, q.formats, q.todo \ {n})
                /\ r.worked = q.worked
    BY <2>3, <2>6
  <2>7. QED
    BY <2>1, <2>4, <2>5, <2>6
<1>4. CASE unload_binfmt_misc(p)
  <2>1. /\ UNCHANGED admin /\ q.pc = "unload"
        /\ KernelUmount \/ UNCHANGED kernelVars
        /\ Ended(r) /\ (r.status = "0" => q.worked)
    BY <1>0, <1>4, UnloadDone
  <2>2. q.mode = "disableall" /\ q.todo = {} /\ q.name = NULL
    BY <1>0, <2>1 DEF Turns
  <2>3. q.worked => \A f \in FormatNames :
                        is_file(f) /\ ProcEntry(f) => f \in manual
    BY <1>0, <2>1, <2>2 DEF Visited, Counts
  <2>4. \A f : ProcEntry(f)' => ProcEntry(f) /\ manual' = manual
    BY <2>1 DEF KernelUmount, kernelVars, ProcEntry
  <2>5. Achieved(p)
    BY <2>1, <2>2, <2>3, <2>4 DEF Achieved, NamedDone, Succeeds, is_file
  <2>6. QED
    BY <2>1, <2>5, EndedRight
<1>5. QED
  BY <1>2, <1>3, <1>4

----------------------------------------------------------------------------
(***************************************************************************)
(* act_install and act_remove.                                             *)
(***************************************************************************)
\* A place that is neither in act_enable nor in a loop.
LEMMA ElsewhereRight ==
    ASSUME NEW p \in Procs, proc'[p].pc \notin Enabling \cup {"idle"},
           proc'[p].mode \in {"install", "remove"}
    PROVE  Right(p)
BY OnwardRight DEF Mounted, Landed, Visited, Enabling

\* The steps of act_install.
LEMMA InstallRight ==
    ASSUME SuccessInv, NEW p \in Procs, Counts(proc[p]),
           \/ InstallLoad(p) \/ InstallManual(p)
           \/ WriteOpen(p) \/ WriteFill(p) \/ RenameTmp(p)
    PROVE  Right(p)
<1> DEFINE q == proc[p]
           r == proc'[p]
<1>0. /\ Inv /\ OwnershipInv /\ Cleared(q) /\ Sound(p, q)
      /\ ~q.test /\ q.mode \notin Imports
      /\ KernelTypeOK
  BY SuccessFacts DEF Counts, Inv, TypeOK
<1>1. q.pc \in {"install", "manual", "open", "fill", "rename"} =>
         q.mode = "install" /\ q.name \in Names
  BY <1>0, RunAssumption DEF Sound, Control, Installs, Writers
<1>2. CASE InstallLoad(p)
  <2>1. /\ UNCHANGED <<kernelVars, admin>> /\ q.pc = "install"
        /\ \/ Failed(r) \/ Returned(q, r, FALSE)
           \/ \E table : \/ Onward(q, r, "disable", table)
                         \/ Onward(q, r, "manual", table)
    BY <1>0, <1>2, InstallLoadDone
  <2>2. CASE Failed(r) \/ Returned(q, r, FALSE)
    BY <2>1, <2>2, FalseRight DEF kernelVars
  <2>3. CASE \E table : \/ Onward(q, r, "disable", table)
                        \/ Onward(q, r, "manual", table)
    <3>1. r.pc \in {"disable", "manual"} /\ r.mode = "install"
      BY <1>1, <2>1, <2>3 DEF Onward, Tabled, Goes
    <3>2. QED
      BY <3>1, ElsewhereRight DEF Enabling
  <2>4. QED
    BY <2>1, <2>2, <2>3
<1>3. CASE InstallManual(p)
  <2>1. /\ UNCHANGED <<kernelVars, admin>> /\ q.pc = "manual"
        /\ \/ ProcEntry(q.name) /\ Returned(q, r, TRUE)
           \/ Steady(q, r, "open")
    BY <1>0, <1>3, ManualDone
  <2>2. CASE ProcEntry(q.name) /\ Returned(q, r, TRUE)
    <3>1. Ended(r)
      BY <1>1, <2>1, <2>2 DEF Returned, Back, Loops
    <3>2. q.name \in manual'
      BY <1>0, <1>1, <2>1, <2>2 DEF Cleared, Clear, Ours, ProcEntry, kernelVars
    <3>3. Achieved(p)
      BY <1>1, <2>1, <3>2 DEF Achieved, NamedDone, InstallDone, Succeeds
    <3>4. QED
      BY <3>1, <3>3, EndedRight
  <2>3. CASE Steady(q, r, "open")
    <3>1. r.pc = "open" /\ r.mode = "install"
      BY <1>1, <2>1, <2>3 DEF Steady, Onward, Tabled, Goes
    <3>2. QED
      BY <3>1, ElsewhereRight DEF Enabling
  <2>4. QED
    BY <2>1, <2>2, <2>3
<1>4. CASE WriteOpen(p) \/ WriteFill(p)
  <2>1. /\ UNCHANGED kernelVars /\ q.pc \in {"open", "fill"}
        /\ \/ Failed(r) \/ Returned(q, r, FALSE)
           \/ \E label \in {"fill", "rename"} : Moved(q, r, label)
    BY <1>0, <1>4, WriteDone
  <2>2. CASE Failed(r) \/ Returned(q, r, FALSE)
    BY <2>1, <2>2, FalseRight DEF kernelVars
  <2>3. CASE \E label \in {"fill", "rename"} : Moved(q, r, label)
    <3>1. r.pc \in {"fill", "rename"} /\ r.mode = "install"
      BY <1>1, <2>1, <2>3 DEF Moved, Tabled, Goes
    <3>2. QED
      BY <3>1, ElsewhereRight DEF Enabling
  <2>4. QED
    BY <2>1, <2>2, <2>3
<1>5. CASE RenameTmp(p)
  <2>1. /\ UNCHANGED kernelVars /\ q.pc = "rename"
        /\ \/ Returned(q, r, FALSE)
           \/ /\ admin'[q.name] = binfmt_write(q.new)
              /\ \E table : Tabled(q, r, "misc", table)
    BY <1>0, <1>5, RenameDone
  <2>2. CASE Returned(q, r, FALSE)
    BY <2>1, <2>2, FalseRight DEF kernelVars
  <2>3. CASE /\ admin'[q.name] = binfmt_write(q.new)
             /\ \E table : Tabled(q, r, "misc", table)
    <3>1. /\ r.pc = "misc" /\ r.mode = "install"
          /\ r.name = q.name /\ r.new = q.new
      BY <1>1, <2>1, <2>3 DEF Tabled, Goes
    <3>2. Mounted(proc[p])' /\ Landed(proc[p])' /\ Visited(proc[p])'
      BY <2>3, <3>1 DEF Mounted, Landed, Visited
    <3>3. QED
      BY <3>1, <3>2, OnwardRight
  <2>4. QED
    BY <2>1, <2>2, <2>3
<1>6. QED
  BY <1>2, <1>3, <1>4, <1>5

\* The steps of act_remove.
LEMMA RemoveRight ==
    ASSUME SuccessInv, NEW p \in Procs, Counts(proc[p]),
           RemoveLoad(p) \/ RemoveUnlink(p)
    PROVE  Right(p)
<1> DEFINE q == proc[p]
           r == proc'[p]
<1>0. /\ Inv /\ OwnershipInv /\ Cleared(q) /\ Sound(p, q) /\ NoOrphan
      /\ ~q.test
  BY SuccessFacts DEF Counts
<1>1. q.pc \in {"remove", "unlink"} => q.mode = "remove" /\ q.name \in Names
  BY <1>0, RunAssumption DEF Sound, Control, Writers
<1>2. CASE RemoveLoad(p)
  <2>1. /\ UNCHANGED <<kernelVars, admin>> /\ q.pc = "remove"
        /\ \/ /\ ~is_file(q.name) \/ Loaded(q.name).package # q.package
              /\ Returned(q, r, TRUE)
           \/ \E table : Onward(q, r, "disable", table)
    BY <1>0, <1>2, RemoveLoadDone
  <2>2. CASE /\ ~is_file(q.name) \/ Loaded(q.name).package # q.package
             /\ Returned(q, r, TRUE)
    <3>1. Ended(r)
      BY <1>1, <2>1, <2>2 DEF Returned, Back, Loops
    <3>2. ASSUME NEW n \in Names, n = q.name
          PROVE  IF is_file(n)' THEN Loaded(n)'.package # q.package
                 ELSE ProcEntry(n)' => n \in manual'
      <4>1. (is_file(n)' <=> is_file(n)) /\ Loaded(n)' = Loaded(n)
        BY <2>1, SameFile
      <4>2. CASE is_file(n)
        BY <2>2, <3>2, <4>1, <4>2
      <4>3. CASE ~is_file(n)
        BY <1>0, <2>1, <4>1, <4>3 DEF NoOrphan, ProcEntry, kernelVars
      <4>4. QED
        BY <4>2, <4>3
    <3>3. Achieved(p)
      BY <1>1, <2>1, <3>2 DEF Achieved, NamedDone, Succeeds
    <3>4. QED
      BY <3>1, <3>3, EndedRight
  <2>3. CASE \E table : Onward(q, r, "disable", table)
    <3>1. r.pc = "disable" /\ r.mode = "remove"
      BY <1>1, <2>1, <2>3 DEF Onward, Tabled, Goes
    <3>2. QED
      BY <3>1, ElsewhereRight DEF Enabling
  <2>4. QED
    BY <2>1, <2>2, <2>3
<1>3. CASE RemoveUnlink(p)
  <2>1. /\ UNCHANGED kernelVars /\ q.pc = "unlink"
        /\ \/ admin'[q.name] = NULL /\ Returned(q, r, TRUE)
           \/ Returned(q, r, FALSE)
    BY <1>0, <1>3, UnlinkDone
  <2>2. CASE Returned(q, r, FALSE)
    BY <2>1, <2>2, FalseRight DEF kernelVars
  <2>3. CASE admin'[q.name] = NULL /\ Returned(q, r, TRUE)
    <3>1. Ended(r)
      BY <1>1, <2>1, <2>3 DEF Returned, Back, Loops
    <3>2. ASSUME NEW n \in Names, n = q.name
          PROVE  ~is_file(n)' /\ (ProcEntry(n)' => n \in manual')
      BY <1>0, <2>1, <2>3, <3>2
         DEF Cleared, Clear, Ours, ProcEntry, kernelVars, is_file
    <3>3. Achieved(p)
      BY <1>1, <2>1, <3>2 DEF Achieved, NamedDone, Succeeds
    <3>4. QED
      BY <3>1, <3>3, EndedRight
  <2>4. QED
    BY <2>1, <2>2, <2>3
<1>4. QED
  BY <1>2, <1>3

----------------------------------------------------------------------------
(***************************************************************************)
(* The invariant, and the theorem.                                         *)
(***************************************************************************)
\* Every step of an invocation.
LEMMA StepSucceeds ==
    ASSUME SuccessInv, NEW p \in Procs, Step(p)
    PROVE  Succeeding(proc[p])' /\ Achieved(p)
<1> DEFINE q == proc[p]
<1>0. RegistryInv /\ Inv /\ Placed(q) /\ Turns(q)
  BY SuccessFacts
<1>1. Stays(q, proc'[p])
  BY <1>0, StepPlaced
<1>2. ASSUME Counts(q), Import(p)
      PROVE  FALSE
  BY <1>0, <1>2, InvSound DEF Sound, Control, Import, At, Counts
<1>3. ASSUME Display(p)
      PROVE  Right(p)
  <2>1. Ended(proc'[p]) /\ q.pc = "display"
    BY <1>0, <1>3, DisplayAfter
  <2>2. q.mode \notin {"install", "remove", "enable", "disable", "enableall",
                       "disableall"}
    BY <1>0, <2>1
       DEF Placed, Turns, Replacing, Removing, Enabling, Disabling
  <2>3. Achieved(p)
    BY <2>2 DEF Achieved, NamedDone, Succeeds
  <2>4. QED
    BY <2>1, <2>3, EndedRight
<1>4. Right(p)
  <2>1. CASE ~Counts(q)
    BY <1>1, <2>1, UncountedRight
  <2>2. CASE Counts(q)
    BY <1>2, <1>3, <2>2, EnableRight, DisableRight, LoopRight, InstallRight,
       RemoveRight DEF Step
  <2>3. QED
    BY <2>1, <2>2
<1>5. QED
  BY <1>1, <1>4 DEF Succeeding, Stays, Right

\* An invocation that is not running has nothing to show.
LEMMA IdleSucceeding ==
    ASSUME NEW r \in Procs, proc'[r].pc = "idle", proc'[r].mode = "none"
    PROVE  Succeeding(proc[r])'
BY DEF Succeeding, Placed, Mounted, Landed, Visited

\* Status 0 is promised only by a step that ends a command.
LEMMA IdleAchieved ==
    ASSUME NEW r \in Procs,
           proc[r].pc = "idle" \/ proc'[r].pc # "idle" \/ proc'[r].status # "0"
    PROVE  Achieved(r)
BY DEF Achieved, NamedDone, Succeeds, At

\* A command starts in one of its places.
LEMMA StartPlaced ==
    ASSUME Inv, NEW p \in Procs, Start(p)
    PROVE  Placed(proc[p])'
<1> DEFINE r == proc'[p]
<1>1. CASE StartNamed(p)
  <2>1. PICK n \in Names, t \in Tests :
           \/ Become(p, Command("enable", "misc", n, t))
           \/ Become(p, Command("disable", "disable", n, t))
           \/ Become(p, Command("display", "display", n, t))
    BY <1>1 DEF StartNamed
  <2>2. \/ r = Command("enable", "misc", n, t)
        \/ r = Command("disable", "disable", n, t)
        \/ r = Command("display", "display", n, t)
    BY <2>1, BecomeFields
  <2>3. \/ r.pc = "misc" /\ r.mode = "enable" /\ r.name = n
        \/ r.pc = "disable" /\ r.mode = "disable" /\ r.name = n
        \/ r.mode = "display"
    BY <2>2 DEF Command, Idle
  <2>4. n # NULL
    BY NamesAssumption
  <2>5. QED
    BY <2>3, <2>4 DEF Placed, Enabling, Disabling
<1>2. CASE StartAll(p)
  <2>1. PICK t \in Tests :
           \/ Become(p, Command("enableall", "misc", NULL, t))
           \/ Become(p, Command("disableall", "disable", NULL, t))
           \/ Become(p, Command("displayall", "display", NULL, t))
    BY <1>2 DEF StartAll
  <2>2. \/ r = Command("enableall", "misc", NULL, t)
        \/ r = Command("disableall", "disable", NULL, t)
        \/ r = Command("displayall", "display", NULL, t)
    BY <2>1, BecomeFields
  <2>3. \/ r.pc = "misc" /\ r.mode = "enableall"
        \/ r.mode \in {"disableall", "displayall"}
    BY <2>2 DEF Command, Idle
  <2>4. QED
    BY <2>3 DEF Placed, Enabling
<1>3. CASE StartInstall(p)
  <2>1. PICK n \in Writes[p], args \in InstallArgs, t \in Tests :
           Become(p, IF HasNewline(args) THEN Exited("2")
                     ELSE [Command("install", "install", n, t) EXCEPT
                              !.new = binfmt_new(args)])
    BY <1>3 DEF StartInstall
  <2>2. r = IF HasNewline(args) THEN Exited("2")
            ELSE [Command("install", "install", n, t) EXCEPT
                     !.new = binfmt_new(args)]
    BY <2>1, BecomeFields
  <2>3. r.mode = "none" \/ (r.mode = "install" /\ r.pc = "install")
    BY <2>2 DEF Command, Idle, Exited
  <2>4. QED
    BY <2>3 DEF Placed
<1>4. CASE StartRemove(p)
  <2>1. PICK n \in Writes[p], pkg \in Packages, t \in Tests :
           Become(p, [Command("remove", "remove", n, t) EXCEPT
                         !.package = pkg])
    BY <1>4 DEF StartRemove
  <2>2. r = [Command("remove", "remove", n, t) EXCEPT !.package = pkg]
    BY <2>1, BecomeFields
  <2>3. r.mode = "remove" /\ r.pc = "remove"
    BY <2>2 DEF Command, Idle
  <2>4. QED
    BY <2>3 DEF Placed
<1>5. CASE StartImport(p)
  <2>1. PICK n \in DOMAIN ImportFiles, t \in Tests :
           Become(p, Command("import", "import", n, t))
    BY <1>5 DEF StartImport
  <2>2. r = Command("import", "import", n, t)
    BY <2>1, BecomeFields
  <2>3. r.mode = "import"
    BY <2>2 DEF Command, Idle
  <2>4. QED
    BY <2>3 DEF Placed
<1>6. CASE StartImportAll(p)
  <2>1. CASE Become(p, Exited("2"))
    BY <2>1, BecomeFields DEF Exited, Idle, Placed
  <2>2. ASSUME NEW t,
               Become(p, [Command("importall", "loop", NULL, t) EXCEPT
                             !.todo = DOMAIN ImportFiles])
        PROVE  Placed(r)
    <3>1. r = [Command("importall", "loop", NULL, t) EXCEPT
                  !.todo = DOMAIN ImportFiles]
      BY <2>2, BecomeFields
    <3>2. r.mode = "importall"
      BY <3>1 DEF Command, Idle
    <3>3. QED
      BY <3>2 DEF Placed
  <2>3. QED
    BY <1>6, <2>1, <2>2 DEF StartImportAll
<1>7. QED
  BY <1>1, <1>2, <1>3, <1>4, <1>5, <1>6 DEF Start

\* A command that starts has promised nothing yet.
LEMMA StartSucceeds ==
    ASSUME Inv, NEW p \in Procs, Start(p)
    PROVE  Succeeding(proc[p])' /\ Achieved(p)
<1> DEFINE r == proc'[p]
<1>1. proc[p].pc = "idle" /\ (Ended(r) \/ Started(r))
  BY StartAfter
<1>2. Placed(proc[p])'
  BY StartPlaced
<1>3. CASE Ended(r)
  BY <1>1, <1>3, IdleSucceeding, IdleAchieved DEF Ended
<1>4. CASE Started(r)
  <2>1. /\ r.pc \notin {"exists", "scan", "register", "mount", "loadall"}
        /\ r.mode \in {"enableall", "disableall"} =>
              r.name = NULL /\ r.pc \notin {"loop", "unload"}
        /\ r.mode = "install" => r.pc \notin Enabling
    BY <1>4 DEF Started, OtherModes, Enabling
  <2>2. Mounted(proc[p])' /\ Landed(proc[p])' /\ Visited(proc[p])'
    BY <2>1 DEF Mounted, Landed, Visited, Looping
  <2>3. QED
    BY <1>1, <1>2, <2>2, IdleAchieved DEF Succeeding
<1>5. QED
  BY <1>1, <1>3, <1>4

\* Nothing happens to the invocations but that the kernel may get entries made
\* by hand.
LEMMA StillSucceeding ==
    ASSUME SuccessInv, UNCHANGED <<procfs, admin, proc>>,
           \A f \in FormatNames :
              \/ entry'[f] = entry[f] /\ (f \in manual => f \in manual')
              \/ entry'[f] # NULL /\ f \in manual'
    PROVE  \A p \in Procs : Succeeding(proc[p])' /\ Achieved(p)
<1> SUFFICES ASSUME NEW p \in Procs
             PROVE  Succeeding(proc[p])' /\ Achieved(p)
  OBVIOUS
<1>1. Succeeding(proc[p]) /\ proc'[p] = proc[p]
  BY DEF SuccessInv
<1>2. Placed(proc[p])' /\ Mounted(proc[p])' /\ Landed(proc[p])'
  BY <1>1 DEF Succeeding, Placed, Mounted, Landed
<1>3. Visited(proc[p])'
  BY <1>1 DEF Succeeding, Visited, is_file, ProcEntry
<1>4. QED
  BY <1>1, <1>2, <1>3, IdleAchieved DEF Succeeding

\* Before the first command nothing is promised.
LEMMA InitSuccess == Init => SuccessInv
<1> SUFFICES ASSUME Init
             PROVE  SuccessInv
  OBVIOUS
<1>1. ASSUME NEW p \in Procs
      PROVE  Succeeding(proc[p])
  <2>1. proc[p].pc = "idle" /\ proc[p].mode = "none"
    BY DEF Init, Idle
  <2>2. QED
    BY <2>1 DEF Succeeding, Placed, Mounted, Landed, Visited
<1>2. QED
  BY <1>1, InitRegistry DEF SuccessInv

\* Every step preserves the invariant and gives what status 0 promises.
LEMMA NextSuccess ==
    Serial /\ Heard /\ SuccessInv /\ [Next]_vars => SuccessInv' /\ SuccessStep
<1> SUFFICES ASSUME Serial, Heard, SuccessInv, [Next]_vars
             PROVE  SuccessInv' /\ SuccessStep
  OBVIOUS
<1>1. /\ RegistryInv /\ RegistryInv' /\ Inv /\ Alone
      /\ KernelTypeOK
      /\ \A p \in Procs : proc[p].pc = "idle" => proc[p].mode = "none"
  BY NextRegistry
     DEF SuccessInv, RegistryInv, DryInv, Accounted, OwnershipInv, IntegrityInv,
         Inv, TypeOK
<1>2. SUFFICES \A p \in Procs : Succeeding(proc[p])' /\ Achieved(p)
  BY <1>1 DEF SuccessInv, SuccessStep, Achieved
<1>3. ASSUME NEW p \in Procs, Succeeding(proc[p])', Achieved(p),
             OthersStay(p), OthersIdle(p)
      PROVE  \A r \in Procs : Succeeding(proc[r])' /\ Achieved(r)
  <2>1. ASSUME NEW r \in Procs, r # p
        PROVE  Succeeding(proc[r])' /\ Achieved(r)
    <3>1. /\ proc[r].pc = "idle" /\ proc'[r].pc = "idle"
          /\ proc'[r].mode = "none"
      BY <1>1, <1>3, <2>1 DEF OthersIdle, OthersStay, At, Moved, Tabled, Goes
    <3>2. QED
      BY <3>1, IdleSucceeding, IdleAchieved
  <2>2. QED
    BY <1>3, <2>1
<1>4. ASSUME NEW p \in Procs, Start(p)
      PROVE  \A r \in Procs : Succeeding(proc[r])' /\ Achieved(r)
  <2>1. OthersStay(p) /\ OthersIdle(p)
    BY <1>1, <1>4, StartOwned DEF RegistryInv
  <2>2. QED
    BY <1>1, <1>3, <1>4, <2>1, StartSucceeds
<1>5. ASSUME NEW p \in Procs, Step(p)
      PROVE  \A r \in Procs : Succeeding(proc[r])' /\ Achieved(r)
  <2>1. OthersStay(p) /\ OthersIdle(p)
    BY <1>1, <1>5, StepStays, RunsAlone DEF At
  <2>2. QED
    BY <1>3, <1>5, <2>1, StepSucceeds
<1>6. ASSUME NEW p \in Procs, Kill(p)
      PROVE  \A r \in Procs : Succeeding(proc[r])' /\ Achieved(r)
  <2>1. Become(p, Exited("killed")) /\ OthersIdle(p)
    BY <1>1, <1>6, RunsAlone DEF Kill
  <2>2. OthersStay(p) /\ Failed(proc'[p])
    BY <1>1, <2>1, BecomeStay, BecomeFields, ExitedFails
  <2>3. QED
    BY <1>3, <2>1, <2>2, IdleSucceeding, IdleAchieved DEF Failed, Ended
<1>7. CASE Reboot
  <2>1. ASSUME NEW p \in Procs
        PROVE  Succeeding(proc[p])' /\ Achieved(p)
    <3>1. CASE proc[p].pc = "idle"
      <4>1. proc'[p] = proc[p]
        BY <1>7, <3>1 DEF Reboot, At
      <4>2. QED
        BY <1>1, <3>1, <4>1, IdleSucceeding, IdleAchieved
    <3>2. CASE proc[p].pc # "idle"
      <4>1. Failed(proc'[p])
        BY <1>7, <3>2, ExitedFails DEF Reboot, At
      <4>2. QED
        BY <4>1, IdleSucceeding, IdleAchieved DEF Failed, Ended
    <3>3. QED
      BY <3>1, <3>2
  <2>2. QED
    BY <2>1
<1>8. ASSUME NEW n \in Names, ManualRegister(n)
      PROVE  \A p \in Procs : Succeeding(proc[p])' /\ Achieved(p)
  <2>1. PICK s \in ManualEntries : KernelRegister(n, s)
    BY <1>8 DEF ManualRegister
  <2>2. s # NULL
    BY <2>1, InputsAssumption, LineAssumption
  <2>3. /\ UNCHANGED <<procfs, admin, proc>>
        /\ \A f \in FormatNames :
              \/ entry'[f] = entry[f] /\ (f \in manual => f \in manual')
              \/ entry'[f] # NULL /\ f \in manual'
    BY <1>1, <1>8, <2>1, <2>2
       DEF ManualRegister, KernelRegister, KernelTypeOK
  <2>4. QED
    BY <2>3, StillSucceeding
<1>9. CASE ManualSwitchOff \/ UNCHANGED vars
  BY <1>9, StillSucceeding DEF ManualSwitchOff, vars
<1>10. QED
  BY <1>4, <1>5, <1>6, <1>7, <1>8, <1>9 DEF Next

\* Exit status 0 of a command that was really run means that it was carried
\* out: the description is in the database and the kernel has the format, or
\* both are gone, or all are; a format somebody registered by hand, and a
\* binfmt_misc that is not mounted, excuse.  With one caller at a time (another
\* could undo what is done before the exit), and, where entries outlive an
\* unmount, a kernel that removes entries when told to (else --remove can find
\* the file gone and an entry left).
THEOREM SuccessHolds ==
    ASSUME Serial, Heard
    PROVE  Spec => SuccessMeansDone
<1>1. Serial /\ Heard
  OBVIOUS
<1>2. SuccessInv /\ [Next]_vars => SuccessInv' /\ SuccessStep
  BY <1>1, NextSuccess
<1>3. SuccessInv /\ [Next]_vars => [SuccessStep]_vars
  BY <1>2
<1>4. Spec => [][SuccessStep]_vars
  BY <1>2, <1>3, InitSuccess, PTL DEF Spec
<1>5. QED
  BY <1>4 DEF SuccessMeansDone
=============================================================================
