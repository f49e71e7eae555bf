------------------------------ MODULE Registry ------------------------------
(***************************************************************************)
(* What update-binfmts promises its callers when they run it one command   *)
(* at a time: a database of formats, each owned by a package, and the      *)
(* formats of the database that the kernel has enabled.  A description     *)
(* appears, changes and disappears in one step, whole; it changes only     *)
(* within its package; and a format is never enabled while that happens,   *)
(* so that the kernel never has what the database has not.                 *)
(***************************************************************************)
CONSTANTS Names, NULL

VARIABLES
    formats,    \* formats[n]: the description of n, with its package, or NULL
    enabled     \* the names the kernel has from the database

vars == <<formats, enabled>>

Init ==
    /\ formats = [n \in Names |-> NULL]
    /\ enabled = {}

\* Only the description of n changes, and the kernel does not have n.
Changes(n) ==
    /\ n \notin enabled
    /\ \A m \in Names \ {n} : formats'[m] = formats[m]
    /\ UNCHANGED enabled

Install(n) ==
    /\ Changes(n)
    /\ formats'[n] # NULL
    /\ formats[n] # NULL => formats'[n].package = formats[n].package

Remove(n) ==
    /\ Changes(n)
    /\ formats[n] # NULL
    /\ formats'[n] = NULL

Enable(n) ==
    /\ formats[n] # NULL
    /\ enabled' = enabled \cup {n}
    /\ UNCHANGED formats

Disable(n) ==
    /\ enabled' = enabled \ {n}
    /\ UNCHANGED formats

\* The machine restarts, or the mount takes the entries with it.
Forget ==
    /\ enabled' = {}
    /\ UNCHANGED formats

Next ==
    \/ \E n \in Names : Install(n) \/ Remove(n) \/ Enable(n) \/ Disable(n)
    \/ Forget

Spec == Init /\ [][Next]_vars
=============================================================================
