------------------------------- MODULE Claims -------------------------------
(***************************************************************************)
(* What the manual page, the documentation and the comments say of         *)
(* update-binfmts and the code does not do.  Each is checked by a run that *)
(* TLC ends with a counterexample; PROJECT.json quotes the lines.          *)
(***************************************************************************)
EXTENDS UpdateBinfmts

\* --install: "After registration, this format will be used when the kernel
\* tries to execute a file matching spec".  An upgrade registers the version
\* it replaces: act_install finds the old description in the table, and
\* kvhash_insert keeps it.
UpgradeStep ==
    \A p \in Procs, n \in Names :
        /\ proc[p].name = n /\ Succeeds(p, "install")
        /\ ProcEntry(n)' /\ n \notin manual'
        => /\ entry'[n].magic = Printed(proc[p].new.magic)
           /\ entry'[n].interpreter \in
                 {RunDetectors, Printed(proc[p].new.interpreter)}

UpgradeTakesEffect == [][UpgradeStep]_vars

\* --enable without a name: "all known binary formats".  A temporary file an
\* interrupted installation left is enabled too, under its own name.
OnlyFormatsEnabled == \A f \in FormatNames \ Names : entry[f] = NULL
=============================================================================
