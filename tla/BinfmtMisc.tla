----------------------------- MODULE BinfmtMisc -----------------------------
(***************************************************************************)
(* The kernel's binfmt_misc facility as update-binfmts uses it: the        *)
(* directory procdir, the file "register", one file per registered format, *)
(* and the order in which the kernel tries the formats when it executes a  *)
(* file.  Registration and removal follow the emulator the test suite      *)
(* mounts (src/tests/binfmt_misc.py); module loading, mounting and the     *)
(* search order are the kernel's and are modelled from how the code and    *)
(* its comments use them.                                                  *)
(***************************************************************************)
EXTENDS Format

CONSTANTS
    FormatNames,            \* the names a registered format may have
    EntriesSurviveUmount    \* TRUE: Linux, registered formats outlive the
                            \* mount; FALSE: the emulator, they die with it

ASSUME UmountAssumption == EntriesSurviveUmount \in BOOLEAN

VARIABLES
    procfs,     \* "absent" (no module), "dir" (procdir exists) or "mounted"
    active,     \* the switch in the file "status"
    entry,      \* entry[n]: what is registered under n, or NULL
    behind,     \* behind[n]: the formats the kernel tries only after n
    manual      \* names registered by somebody other than update-binfmts
                \* (a history variable)

kernelVars == <<procfs, active, entry, behind, manual>>

\* The line written to "register", field by field.
Regstring == [type : {"M", "E"},
              offset : Text \cup {"(null)"}, magic : Text \cup {"(null)"},
              mask : Text \cup {"(null)"},
              interpreter : Text \cup {"(null)"},
              flags : SUBSET {"C", "P"}]

\* The null pointer is no line.
ASSUME LineAssumption == NULL \notin Regstring

KernelTypeOK ==
    /\ procfs \in {"absent", "dir", "mounted"}
    /\ active \in BOOLEAN
    /\ entry \in [FormatNames -> Regstring \cup {NULL}]
    /\ behind \in [FormatNames -> SUBSET FormatNames]
    /\ manual \subseteq FormatNames

KernelInit ==
    /\ procfs = "absent"
    /\ active = FALSE
    /\ entry = [n \in FormatNames |-> NULL]
    /\ behind = [n \in FormatNames |-> {}]
    /\ manual = {}

----------------------------------------------------------------------------
Registered == {n \in FormatNames : entry[n] # NULL}

\* exists (procdir_name), and is_file (path_register)
ProcEntry(n) == procfs = "mounted" /\ entry[n] # NULL

\* modprobe makes procdir appear; mount puts "register" in it, and the write
\* to "status" that follows switches the facility on.
KernelModprobe ==
    /\ procfs = "absent"
    /\ procfs' = "dir"
    /\ UNCHANGED <<active, entry, behind, manual>>

KernelMount ==
    /\ procfs = "dir"
    /\ procfs' = "mounted"
    /\ active' = TRUE
    /\ UNCHANGED <<entry, behind, manual>>

KernelSwitchOn ==
    /\ procfs = "mounted"
    /\ active' = TRUE
    /\ UNCHANGED <<procfs, entry, behind, manual>>

\* A registration needs a magic and an interpreter, and a new name.
Acceptable(n, r) == entry[n] = NULL /\ r.magic # "" /\ r.interpreter # ""

\* The newest registration is tried first.
KernelRegister(n, r) ==
    /\ procfs = "mounted"
    /\ Acceptable(n, r)
    /\ entry' = [entry EXCEPT ![n] = r]
    /\ behind' = [behind EXCEPT ![n] = Registered]
    /\ UNCHANGED <<procfs, active>>

KernelUnregister(n) ==
    /\ ProcEntry(n)
    /\ entry' = [entry EXCEPT ![n] = NULL]
    /\ behind' = [m \in FormatNames |->
                    IF m = n THEN {} ELSE behind[m] \ {n}]
    /\ manual' = manual \ {n}
    /\ UNCHANGED <<procfs, active>>

KernelForgets ==
    /\ entry' = [n \in FormatNames |-> NULL]
    /\ behind' = [n \in FormatNames |-> {}]
    /\ manual' = {}

KernelUmount ==
    /\ procfs = "mounted"
    /\ procfs' = "dir"
    /\ UNCHANGED active
    /\ IF EntriesSurviveUmount THEN UNCHANGED <<entry, behind, manual>>
       ELSE KernelForgets

\* Two registrations the kernel cannot tell apart when it looks at a file.
SameSpec(r, s) ==
    /\ r.type = s.type
    /\ r.magic = s.magic
    /\ r.mask = s.mask
    /\ r.type = "M" => r.offset = s.offset
=============================================================================
