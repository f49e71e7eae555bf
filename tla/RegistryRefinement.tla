------------------------- MODULE RegistryRefinement -------------------------
(***************************************************************************)
(* update-binfmts implements the registry: temporary files, tables, the    *)
(* steps of a command and the entries somebody else made are not visible.  *)
(***************************************************************************)
EXTENDS UpdateBinfmts

Ours == {n \in Names : entry[n] # NULL /\ n \notin manual}

Abstract == INSTANCE Registry
                WITH formats <- [n \in Names |-> Loaded(n)], enabled <- Ours

\* Whatever is killed, fails or restarts, a description appears, changes and
\* goes in one step, within its package, and only while the kernel does not
\* have the format: rename, unlink and register are the only steps that a
\* reader of the database and of procdir sees.
ImplementsRegistry == Abstract!Spec
=============================================================================
