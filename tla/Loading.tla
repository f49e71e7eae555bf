------------------------------- MODULE Loading -------------------------------
(***************************************************************************)
(* load_binfmt_misc and unload_binfmt_misc, one step for every look at the *)
(* system and every program they run, on the two kinds of kernels they are *)
(* written for: "the traditional (obsolete) interface", where the module   *)
(* brings the file register, and the file system, which is mounted         *)
(* separately.  Any number of invocations load and unload at the same      *)
(* time.                                                                   *)
(*                                                                         *)
(* UpdateBinfmts has the same two functions in fewer steps, for the newer  *)
(* kind of kernel.                                                         *)
(***************************************************************************)
EXTENDS Naturals, FiniteSets

CONSTANTS
    Procs,      \* the invocations
    Styles,     \* the kinds of kernels, of {"procfs", "filesystem"}
    Faults,     \* what may fail: "filesystems" (reading /proc/filesystems),
                \* "modprobe", "directory" (a module without procdir),
                \* "mount", "status" (opening or writing it), "fusermount",
                \* "umount"
    MaxCalls    \* bound: the calls an invocation makes

ASSUME StylesAssumption == Styles \subseteq {"procfs", "filesystem"}
ASSUME CallsAssumption == MaxCalls \in Nat

VARIABLES
    style,      \* the kind of the kernel
    module,     \* binfmt_misc is loaded
    procdir,    \* the directory exists
    mounted,    \* "nothing", "binfmt_misc" or "fuse", the test suite's
    status,     \* the facility is switched on
    call        \* call[p]: where the invocation p is, what it has learnt,
                \* and, for the properties, what has happened since it began

kernel == <<style, module, procdir, mounted, status>>
vars == <<style, module, procdir, mounted, status, call>>

Points == {"ready", "style", "register", "modprobe", "directory", "restyle",
           "remount", "mount", "check", "status", "unstyle", "statfs",
           "fusermount", "umount"}

\* failed: something failed under the call; undone: it was unmounted or
\* switched off since; redone: it was mounted or loaded since; unset: its
\* write to status failed.
Call == [pc : Points, what : {"none", "load", "unload"}, test : BOOLEAN,
         answer : {0, 1}, left : 0 .. MaxCalls,
         failed : BOOLEAN, undone : BOOLEAN, redone : BOOLEAN,
         unset : BOOLEAN]

LoadingTypeOK ==
    /\ style \in Styles
    /\ module \in BOOLEAN /\ procdir \in BOOLEAN /\ status \in BOOLEAN
    /\ mounted \in {"nothing", "binfmt_misc", "fuse"}
    /\ call \in [Procs -> Call]

\* A machine that has booted, with or without the test suite's emulator.
Init ==
    /\ style \in Styles
    /\ module \in BOOLEAN
    /\ procdir = (module \/ style = "filesystem")
    /\ mounted \in {"nothing", "fuse"}
    /\ mounted = "fuse" => procdir
    /\ status = TRUE
    /\ call = [p \in Procs |->
                 [pc |-> "ready", what |-> "none", test |-> FALSE,
                  answer |-> 0, left |-> MaxCalls,
                  failed |-> FALSE, undone |-> FALSE, redone |-> FALSE,
                  unset |-> FALSE]]

----------------------------------------------------------------------------
\* A line of /proc/filesystems ends in binfmt_misc.
Listed == style = "filesystem" /\ module

\* is_file (path_register)
Register == mounted # "nothing" \/ (style = "procfs" /\ module)

At(p, pc) == call[p].pc = pc

\* The invocation p goes on at pc; the kernel changes or not beside it.
Goto(p, pc) == call' = [call EXCEPT ![p].pc = pc]

Answer(p, a) ==
    call' = [call EXCEPT ![p] = [@ EXCEPT !.pc = "ready", !.answer = a]]

\* Something fails under p: it goes on at pc, or answers a.
Fault(p, f, pc) ==
    /\ f \in Faults
    /\ call' = [call EXCEPT ![p] = [@ EXCEPT !.pc = pc, !.failed = TRUE]]
    /\ UNCHANGED kernel

Refused(p, f, a) ==
    /\ f \in Faults
    /\ call' = [call EXCEPT ![p] =
                  [@ EXCEPT !.pc = "ready", !.answer = a, !.failed = TRUE]]
    /\ UNCHANGED kernel

\* All invocations are told that the facility came or went; p goes on at
\* pc, or answers a.
Came(p, pc) ==
    call' = [r \in Procs |->
               IF r = p THEN [call[r] EXCEPT !.redone = TRUE, !.pc = pc]
               ELSE [call[r] EXCEPT !.redone = TRUE]]
Went(p, a) ==
    call' = [r \in Procs |->
               IF r = p THEN [call[r] EXCEPT !.undone = TRUE, !.pc = "ready",
                                             !.answer = a]
               ELSE [call[r] EXCEPT !.undone = TRUE]]

\* get_binfmt_style: what cannot be read is taken for the old interface.
GetStyle(p, pc, filesystem, old) ==
    /\ At(p, pc)
    /\ \/ Goto(p, IF Listed THEN filesystem ELSE old) /\ UNCHANGED kernel
       \/ Fault(p, "filesystems", old)

----------------------------------------------------------------------------
\* act_enable calls load_binfmt_misc, act_disable unload_binfmt_misc; with
\* --test both return at once, unload after a look at the style.
Begin(p, what, test) ==
    /\ At(p, "ready") /\ call[p].left > 0
    /\ what = "unload" => procdir
    /\ call' = [call EXCEPT ![p] =
                  [pc |-> IF test THEN "ready"
                          ELSE IF what = "load" THEN "style" ELSE "unstyle",
                   what |-> what, test |-> test,
                   answer |-> IF test THEN 1 ELSE 0, left |-> @.left - 1,
                   failed |-> FALSE, undone |-> FALSE, redone |-> FALSE,
                  unset |-> FALSE]]
    /\ UNCHANGED kernel

FirstStyle(p) == GetStyle(p, "style", "directory", "register")

FirstRegister(p) ==
    /\ At(p, "register")
    /\ Goto(p, IF Register THEN "directory" ELSE "modprobe")
    /\ UNCHANGED kernel

Modprobe(p) ==
    /\ At(p, "modprobe")
    /\ \/ /\ module' = TRUE /\ procdir' = TRUE
          /\ status' = IF module THEN status ELSE TRUE
          /\ IF module THEN Goto(p, "directory") ELSE Came(p, "directory")
          /\ UNCHANGED <<style, mounted>>
       \/ Refused(p, "modprobe", 0)

Directory(p) ==
    /\ At(p, "directory")
    /\ \/ procdir /\ Goto(p, "restyle") /\ UNCHANGED kernel
       \/ ~procdir /\ Answer(p, 0) /\ UNCHANGED kernel
       \/ Refused(p, "directory", 0)

\* A mutant: the style is the one that was found first.
FirstStyleStays(p) ==
    /\ At(p, "restyle") /\ Goto(p, "check") /\ UNCHANGED kernel

\* "Find out what the style looks like now."
SecondStyle(p) == GetStyle(p, "restyle", "remount", "check")

SecondRegister(p) ==
    /\ At(p, "remount")
    /\ Goto(p, IF Register THEN "check" ELSE "mount")
    /\ UNCHANGED kernel

\* The kernel refuses a second mount in the same place.
Mount(p) ==
    /\ At(p, "mount")
    /\ \/ /\ mounted = "nothing"
          /\ mounted' = "binfmt_misc"
          /\ Came(p, "check")
          /\ UNCHANGED <<style, module, procdir, status>>
       \/ mounted # "nothing" /\ Answer(p, 0) /\ UNCHANGED kernel
       \/ Refused(p, "mount", 0)

LastRegister(p) ==
    /\ At(p, "check")
    /\ IF Register THEN Goto(p, "status") ELSE Answer(p, 0)
    /\ UNCHANGED kernel

\* A mutant: the facility is taken for switched on once it is there.
LeavesStatus(p) ==
    /\ At(p, "status") /\ Answer(p, 1) /\ UNCHANGED kernel

\* p's write to status fails, and it answers yes.
Unset(p) ==
    call' = [call EXCEPT ![p] = [@ EXCEPT !.pc = "ready", !.answer = 1,
                                          !.failed = TRUE, !.unset = TRUE]]

\* When status cannot be opened the code only warns, and it does not look
\* whether what it writes arrives.
WriteStatus(p) ==
    /\ At(p, "status")
    /\ \/ Register /\ status' = TRUE /\ Answer(p, 1)
       \/ ~Register /\ status' = status /\ Unset(p)
       \/ "status" \in Faults /\ status' = status /\ Unset(p)
    /\ UNCHANGED <<style, module, procdir, mounted>>

----------------------------------------------------------------------------
UnloadStyle(p) ==
    /\ At(p, "unstyle")
    /\ \/ Listed /\ Goto(p, "statfs") /\ UNCHANGED kernel
       \/ ~Listed /\ Answer(p, 1) /\ UNCHANGED kernel
       \/ Refused(p, "filesystems", 1)

\* Is it the emulator of the test suite?
Statfs(p) ==
    /\ At(p, "statfs")
    /\ Goto(p, IF mounted = "fuse" THEN "fusermount" ELSE "umount")
    /\ UNCHANGED kernel

\* fusermount -u, and umount when it fails.
Fusermount(p) ==
    /\ At(p, "fusermount")
    /\ \/ /\ mounted = "fuse"
          /\ mounted' = "nothing"
          /\ Went(p, 1)
          /\ UNCHANGED <<style, module, procdir, status>>
       \/ mounted # "fuse" /\ Goto(p, "umount") /\ UNCHANGED kernel
       \/ Fault(p, "fusermount", "umount")

\* Mutants: a failed umount is taken for nothing to unmount; its exit
\* status is returned.
AlwaysUnmounted(p) ==
    /\ At(p, "umount")
    /\ \/ /\ mounted # "nothing"
          /\ mounted' = "nothing"
          /\ Went(p, 1)
          /\ UNCHANGED <<style, module, procdir, status>>
       \/ mounted = "nothing" /\ Answer(p, 1) /\ UNCHANGED kernel
       \/ Answer(p, 1) /\ UNCHANGED kernel

ReturnsStatus(p) ==
    At(p, "umount") /\ Answer(p, 32) /\ UNCHANGED kernel

Umount(p) ==
    /\ At(p, "umount")
    /\ \/ /\ mounted # "nothing"
          /\ mounted' = "nothing"
          /\ Went(p, 1)
          /\ UNCHANGED <<style, module, procdir, status>>
       \/ mounted = "nothing" /\ Answer(p, 0) /\ UNCHANGED kernel
       \/ Refused(p, "umount", 0)

\* Somebody writes 0 to status.
SwitchOff ==
    /\ Register /\ status
    /\ status' = FALSE
    /\ call' = [r \in Procs |-> [call[r] EXCEPT !.undone = TRUE]]
    /\ UNCHANGED <<style, module, procdir, mounted>>

Step(p) ==
    \/ FirstStyle(p) \/ FirstRegister(p) \/ Modprobe(p) \/ Directory(p)
    \/ SecondStyle(p) \/ SecondRegister(p) \/ Mount(p) \/ LastRegister(p)
    \/ WriteStatus(p)
    \/ UnloadStyle(p) \/ Statfs(p) \/ Fusermount(p) \/ Umount(p)

Next ==
    \/ \E p \in Procs :
          \/ Step(p)
          \/ \E what \in {"load", "unload"}, test \in BOOLEAN :
                Begin(p, what, test)
    \/ SwitchOff

Spec == Init /\ [][Next]_vars

----------------------------------------------------------------------------
\* The calls that have ended and were not made with --test.
Ended(p, what) ==
    At(p, "ready") /\ call[p].what = what /\ ~call[p].test

\* When load_binfmt_misc says yes, formats can be registered: register is
\* there, on which the caller, act_enable, relies when it opens it, unless it
\* was unmounted or switched off by somebody since the call began.  And they
\* will be used: the facility is switched on, unless the call's own write to
\* status failed, of which it only warns.
YesMeansReady ==
    \A p \in Procs :
        Ended(p, "load") /\ call[p].answer = 1 /\ ~call[p].undone
            => Register /\ (status \/ call[p].unset)

\* load_binfmt_misc says no without a failure only to the loser of a race:
\* somebody else mounted it, or unmounted it, meanwhile.  act_enable takes
\* the no for a system that has no binfmt_misc, and reports success.
NoMeansRace ==
    \A p \in Procs :
        Ended(p, "load") /\ call[p].answer = 0 /\ ~call[p].failed
            => call[p].undone \/ (call[p].redone /\ Register)

\* When unload_binfmt_misc says yes and nothing failed, the file system is
\* gone unless it was mounted meanwhile; the obsolete interface and an
\* emulator on a kernel without the module stay.
UnloadMeansGone ==
    \A p \in Procs :
        Ended(p, "unload") /\ call[p].answer = 1 /\ ~call[p].failed
            /\ ~call[p].redone
            => ~Listed \/ mounted = "nothing"
=============================================================================
