---------------------------- MODULE LoadingProofs ----------------------------
(***************************************************************************)
(* What load_binfmt_misc and unload_binfmt_misc promise their callers,     *)
(* proved for any number of invocations and calls, both kinds of kernels   *)
(* and any set of faults.  The inductive invariant says what a call still  *)
(* may rely on, at each of its points, of what it saw earlier.             *)
(***************************************************************************)
EXTENDS Loading, TLAPS

LoadPoints == {"style", "register", "modprobe", "directory", "restyle",
               "remount", "mount", "check", "status"}
UnloadPoints == {"unstyle", "statfs", "fusermount", "umount"}

KernelSane == module \/ mounted # "nothing" => procdir

\* What the call p knows.
Knows(p) ==
    /\ call[p].pc \in LoadPoints => call[p].what = "load" /\ ~call[p].test
    /\ call[p].pc \in UnloadPoints => call[p].what = "unload" /\ ~call[p].test
    /\ call[p].pc \in {"directory", "restyle"} =>
          procdir /\ (call[p].undone \/ Listed \/ Register)
    /\ call[p].pc \in {"remount", "mount"} => procdir
    /\ call[p].pc = "mount" => call[p].redone \/ mounted = "nothing"
    /\ call[p].pc = "check" => call[p].undone \/ call[p].failed \/ Register
    /\ call[p].pc = "status" => call[p].undone \/ Register

\* The three properties, call by call.
Yes(p) ==
    Ended(p, "load") /\ call[p].answer = 1 /\ ~call[p].undone
        => Register /\ (status \/ call[p].unset)
No(p) ==
    Ended(p, "load") /\ call[p].answer = 0 /\ ~call[p].failed
        => call[p].undone \/ (call[p].redone /\ Register)
Gone(p) ==
    Ended(p, "unload") /\ call[p].answer = 1 /\ ~call[p].failed
        /\ ~call[p].redone
        => ~Listed \/ mounted = "nothing"

LoadingInv ==
    /\ LoadingTypeOK
    /\ KernelSane
    /\ \A p \in Procs : Knows(p) /\ Yes(p) /\ No(p) /\ Gone(p)

----------------------------------------------------------------------------
LEMMA LoadingInvInit == Init => LoadingInv
  BY StylesAssumption, CallsAssumption
     DEF Init, LoadingInv, LoadingTypeOK, KernelSane, Knows, Yes, No, Gone,
         Ended, At, LoadPoints, UnloadPoints, Call, Points

(***************************************************************************)
(* What the ways to go on do to the calls, field by field.                 *)
(***************************************************************************)
LEMMA CallUndone ==
    ASSUME NEW c \in Call
    PROVE  [c EXCEPT !.undone = TRUE] \in Call
  BY DEF Call

LEMMA CallRedone ==
    ASSUME NEW c \in Call
    PROVE  [c EXCEPT !.redone = TRUE] \in Call
  BY DEF Call

CameTo(r, p, pc) ==
    /\ call'[r].pc = IF r = p THEN pc ELSE call[r].pc
    /\ call'[r].redone
    /\ call'[r].what = call[r].what
    /\ call'[r].test = call[r].test
    /\ call'[r].answer = call[r].answer
    /\ call'[r].failed = call[r].failed
    /\ call'[r].undone = call[r].undone
    /\ call'[r].unset = call[r].unset

LEMMA CameEffect ==
    ASSUME LoadingTypeOK, NEW p \in Procs, NEW pc \in Points, Came(p, pc)
    PROVE  /\ call' \in [Procs -> Call]
           /\ \A r \in Procs : CameTo(r, p, pc)
  <1>1. \A r \in Procs : call[r] \in Call
    BY DEF LoadingTypeOK
  <1>2. call'[p] = [call[p] EXCEPT !.redone = TRUE, !.pc = pc]
    BY DEF Came
  <1>3. \A r \in Procs \ {p} : call'[r] = [call[r] EXCEPT !.redone = TRUE]
    BY DEF Came
  <1>4. call'[p] \in Call
    BY <1>1, <1>2 DEF Call, Points
  <1>5. \A r \in Procs \ {p} : call'[r] \in Call
    BY <1>1, <1>3, CallRedone
  <1>6. call' \in [Procs -> Call]
    BY <1>4, <1>5 DEF Came
  <1>7. CameTo(p, p, pc)
    BY <1>1, <1>2 DEF Call, CameTo
  <1>8. \A r \in Procs \ {p} : CameTo(r, p, pc)
    BY <1>1, <1>3 DEF Call, CameTo
  <1> QED
    BY <1>6, <1>7, <1>8

WentTo(r, p, a) ==
    /\ call'[r].pc = IF r = p THEN "ready" ELSE call[r].pc
    /\ call'[r].answer = IF r = p THEN a ELSE call[r].answer
    /\ call'[r].undone
    /\ call'[r].what = call[r].what
    /\ call'[r].test = call[r].test
    /\ call'[r].failed = call[r].failed
    /\ call'[r].redone = call[r].redone
    /\ call'[r].unset = call[r].unset

LEMMA WentEffect ==
    ASSUME LoadingTypeOK, NEW p \in Procs, NEW a \in {0, 1}, Went(p, a)
    PROVE  /\ call' \in [Procs -> Call]
           /\ \A r \in Procs : WentTo(r, p, a)
  <1>1. \A r \in Procs : call[r] \in Call
    BY DEF LoadingTypeOK
  <1>2. call'[p] = [call[p] EXCEPT !.undone = TRUE, !.pc = "ready",
                                  !.answer = a]
    BY DEF Went
  <1>3. \A r \in Procs \ {p} : call'[r] = [call[r] EXCEPT !.undone = TRUE]
    BY DEF Went
  <1>4. call'[p] \in Call
    BY <1>1, <1>2 DEF Call, Points
  <1>5. \A r \in Procs \ {p} : call'[r] \in Call
    BY <1>1, <1>3, CallUndone
  <1>6. call' \in [Procs -> Call]
    BY <1>4, <1>5 DEF Went
  <1>7. WentTo(p, p, a)
    BY <1>1, <1>2 DEF Call, WentTo
  <1>8. \A r \in Procs \ {p} : WentTo(r, p, a)
    BY <1>1, <1>3 DEF Call, WentTo
  <1> QED
    BY <1>6, <1>7, <1>8

LEMMA SwitchOffEffect ==
    ASSUME LoadingTypeOK, SwitchOff
    PROVE  /\ call' \in [Procs -> Call]
           /\ \A r \in Procs :
                 /\ call'[r].undone
                 /\ call'[r].pc = call[r].pc
                 /\ call'[r].what = call[r].what
                 /\ call'[r].test = call[r].test
                 /\ call'[r].answer = call[r].answer
                 /\ call'[r].failed = call[r].failed
                 /\ call'[r].redone = call[r].redone
                 /\ call'[r].unset = call[r].unset
  <1>1. call' = [r \in Procs |-> [call[r] EXCEPT !.undone = TRUE]]
    BY DEF SwitchOff
  <1>2. \A r \in Procs : call[r] \in Call
    BY DEF LoadingTypeOK
  <1>3. \A r \in Procs : call'[r] = [call[r] EXCEPT !.undone = TRUE]
    BY <1>1
  <1>4. \A r \in Procs : call'[r] \in Call
    BY <1>2, <1>3, CallUndone
  <1> QED
    BY <1>1, <1>2, <1>3, <1>4 DEF Call

\* Goto, Answer, Fault and Refused change the call p alone.
Alone(p, pc, answer, failed) ==
    /\ call' \in [Procs -> Call]
    /\ \A r \in Procs \ {p} : call'[r] = call[r]
    /\ call'[p].pc = pc
    /\ call'[p].answer = answer
    /\ call'[p].failed = failed
    /\ call'[p].what = call[p].what
    /\ call'[p].test = call[p].test
    /\ call'[p].undone = call[p].undone
    /\ call'[p].redone = call[p].redone
    /\ call'[p].unset = call[p].unset

LEMMA GotoEffect ==
    ASSUME LoadingTypeOK, NEW p \in Procs, NEW pc \in Points, Goto(p, pc)
    PROVE  Alone(p, pc, call[p].answer, call[p].failed)
  BY DEF LoadingTypeOK, Call, Goto, Alone

LEMMA AnswerEffect ==
    ASSUME LoadingTypeOK, NEW p \in Procs, NEW a \in {0, 1}, Answer(p, a)
    PROVE  Alone(p, "ready", a, call[p].failed)
  <1>1. call \in [Procs -> Call]
    BY DEF LoadingTypeOK
  <1>2. call'[p] = [call[p] EXCEPT !.pc = "ready", !.answer = a]
    BY <1>1 DEF Answer
  <1>3. /\ DOMAIN call' = Procs /\ call' = [r \in Procs |-> call'[r]]
        /\ \A r \in Procs \ {p} : call'[r] = call[r]
    BY <1>1 DEF Answer
  <1>4. call[p] \in Call
    BY <1>1
  <1>5. call'[p] \in Call
    BY <1>2, <1>4 DEF Call, Points
  <1>6. call' \in [Procs -> Call]
    BY <1>1, <1>3, <1>5
  <1> QED
    BY <1>2, <1>3, <1>4, <1>6 DEF Call, Alone

LEMMA FaultEffect ==
    ASSUME LoadingTypeOK, NEW p \in Procs, NEW f, NEW pc \in Points,
           Fault(p, f, pc)
    PROVE  Alone(p, pc, call[p].answer, TRUE)
  BY DEF LoadingTypeOK, Call, Fault, Alone

LEMMA RefusedEffect ==
    ASSUME LoadingTypeOK, NEW p \in Procs, NEW f, NEW a \in {0, 1},
           Refused(p, f, a)
    PROVE  Alone(p, "ready", a, TRUE)
  <1>1. call \in [Procs -> Call]
    BY DEF LoadingTypeOK
  <1>2. call'[p] = [call[p] EXCEPT !.pc = "ready", !.answer = a,
                                  !.failed = TRUE]
    BY <1>1 DEF Refused
  <1>3. /\ DOMAIN call' = Procs /\ call' = [r \in Procs |-> call'[r]]
        /\ \A r \in Procs \ {p} : call'[r] = call[r]
    BY <1>1 DEF Refused
  <1>4. call[p] \in Call
    BY <1>1
  <1>5. call'[p] \in Call
    BY <1>2, <1>4 DEF Call, Points
  <1>6. call' \in [Procs -> Call]
    BY <1>1, <1>3, <1>5
  <1>7. /\ call'[p].pc = "ready" /\ call'[p].answer = a
        /\ call'[p].failed = TRUE
        /\ call'[p].what = call[p].what /\ call'[p].test = call[p].test
        /\ call'[p].undone = call[p].undone
        /\ call'[p].redone = call[p].redone
        /\ call'[p].unset = call[p].unset
    BY <1>2, <1>4 DEF Call
  <1> QED
    BY <1>3, <1>6, <1>7 DEF Alone

LEMMA UnsetEffect ==
    ASSUME LoadingTypeOK, NEW p \in Procs, Unset(p)
    PROVE  /\ call' \in [Procs -> Call]
           /\ \A r \in Procs \ {p} : call'[r] = call[r]
           /\ call'[p].pc = "ready" /\ call'[p].answer = 1
           /\ call'[p].failed /\ call'[p].unset
           /\ call'[p].what = call[p].what /\ call'[p].test = call[p].test
           /\ call'[p].undone = call[p].undone
  <1>1. call \in [Procs -> Call]
    BY DEF LoadingTypeOK
  <1>2. call'[p] = [call[p] EXCEPT !.pc = "ready", !.answer = 1,
                                  !.failed = TRUE, !.unset = TRUE]
    BY <1>1 DEF Unset
  <1>3. /\ DOMAIN call' = Procs /\ call' = [r \in Procs |-> call'[r]]
        /\ \A r \in Procs \ {p} : call'[r] = call[r]
    BY <1>1 DEF Unset
  <1>4. call[p] \in Call
    BY <1>1
  <1>5. call'[p] \in Call
    BY <1>2, <1>4 DEF Call, Points
  <1>6. call' \in [Procs -> Call]
    BY <1>1, <1>3, <1>5
  <1> QED
    BY <1>2, <1>3, <1>4, <1>6 DEF Call

Mine(p) == Knows(p) /\ Yes(p) /\ No(p) /\ Gone(p)

\* A step that leaves the kernel alone need only be looked at for p.
LEMMA OnlyMine ==
    ASSUME LoadingInv, NEW p \in Procs, NEW pc, NEW a, NEW f,
           UNCHANGED kernel, Alone(p, pc, a, f), Mine(p)'
    PROVE  LoadingInv'
  <1>1. LoadingTypeOK'
    BY DEF LoadingInv, LoadingTypeOK, kernel, Alone
  <1>2. KernelSane'
    BY DEF LoadingInv, KernelSane, kernel
  <1>3. ASSUME NEW r \in Procs \ {p} PROVE Mine(r)'
    <2>1. call'[r] = call[r]
      BY DEF Alone
    <2>2. Mine(r)
      BY DEF LoadingInv, Mine
    <2> QED
      BY <2>1, <2>2 DEF Mine, Knows, Yes, No, Gone, Ended, At, Listed,
         Register, kernel
  <1> QED
    BY <1>1, <1>2, <1>3 DEF LoadingInv, Mine

LEMMA FirstStyleInv ==
    ASSUME LoadingInv, NEW p \in Procs, FirstStyle(p) PROVE LoadingInv'
  <1> USE DEF LoadingInv, KernelSane, Mine, Knows, Yes, No, Gone, Ended, At,
          LoadPoints, UnloadPoints, Listed, Register
  <1>1. LoadingTypeOK /\ At(p, "style") /\ Mine(p)
    BY DEF FirstStyle, GetStyle
  <1>2. CASE Goto(p, IF Listed THEN "directory" ELSE "register")
             /\ UNCHANGED kernel
    <2> DEFINE pc == IF Listed THEN "directory" ELSE "register"
    <2>1. Alone(p, pc, call[p].answer, call[p].failed)
      BY <1>1, <1>2, GotoEffect DEF Points
    <2>2. Mine(p)'
      BY <1>1, <1>2, <2>1 DEF Alone, kernel, LoadingTypeOK
    <2> QED
      BY <1>2, <2>1, <2>2, OnlyMine
  <1>3. CASE Fault(p, "filesystems", "register")
    <2>1. Alone(p, "register", call[p].answer, TRUE) /\ UNCHANGED kernel
      BY <1>1, <1>3, FaultEffect DEF Points, Fault
    <2>2. Mine(p)'
      BY <1>1, <2>1 DEF Alone, kernel
    <2> QED
      BY <2>1, <2>2, OnlyMine
  <1> QED
    BY <1>2, <1>3 DEF FirstStyle, GetStyle

LEMMA FirstRegisterInv ==
    ASSUME LoadingInv, NEW p \in Procs, FirstRegister(p) PROVE LoadingInv'
  <1> USE DEF LoadingInv, KernelSane, Mine, Knows, Yes, No, Gone, Ended, At,
          LoadPoints, UnloadPoints, Listed, Register
  <1>1. LoadingTypeOK /\ At(p, "register") /\ Mine(p)
    BY DEF FirstRegister
  <1>2. CASE Register /\ Goto(p, "directory") /\ UNCHANGED kernel
    <2>1. Alone(p, "directory", call[p].answer, call[p].failed)
      BY <1>1, <1>2, GotoEffect DEF Points
    <2>2. Mine(p)'
      BY <1>1, <1>2, <2>1 DEF Alone, kernel
    <2> QED
      BY <1>2, <2>1, <2>2, OnlyMine
  <1>3. CASE ~Register /\ Goto(p, "modprobe") /\ UNCHANGED kernel
    <2>1. Alone(p, "modprobe", call[p].answer, call[p].failed)
      BY <1>1, <1>3, GotoEffect DEF Points
    <2>2. Mine(p)'
      BY <1>1, <1>3, <2>1 DEF Alone, kernel
    <2> QED
      BY <1>3, <2>1, <2>2, OnlyMine
  <1> QED
    BY <1>1, <1>2, <1>3 DEF FirstRegister

LEMMA DirectoryInv ==
    ASSUME LoadingInv, NEW p \in Procs, Directory(p) PROVE LoadingInv'
  <1> USE DEF LoadingInv, KernelSane, Mine, Knows, Yes, No, Gone, Ended, At,
          LoadPoints, UnloadPoints, Listed, Register
  <1>1. LoadingTypeOK /\ At(p, "directory") /\ Mine(p)
    BY DEF Directory
  <1>2. CASE procdir /\ Goto(p, "restyle") /\ UNCHANGED kernel
    <2>1. Alone(p, "restyle", call[p].answer, call[p].failed)
      BY <1>1, <1>2, GotoEffect DEF Points
    <2>2. Mine(p)'
      BY <1>1, <1>2, <2>1 DEF Alone, kernel
    <2> QED
      BY <1>2, <2>1, <2>2, OnlyMine
  <1>3. CASE ~procdir /\ Answer(p, 0) /\ UNCHANGED kernel
    <2>1. Alone(p, "ready", 0, call[p].failed)
      BY <1>1, <1>3, AnswerEffect
    <2>2. Mine(p)'
      BY <1>1, <1>3, <2>1 DEF Alone, kernel
    <2> QED
      BY <1>3, <2>1, <2>2, OnlyMine
  <1>4. CASE Refused(p, "directory", 0)
    <2>1. Alone(p, "ready", 0, TRUE) /\ UNCHANGED kernel
      BY <1>1, <1>4, RefusedEffect DEF Refused
    <2>2. Mine(p)'
      BY <1>1, <2>1 DEF Alone, kernel
    <2> QED
      BY <2>1, <2>2, OnlyMine
  <1> QED
    BY <1>1, <1>2, <1>3, <1>4 DEF Directory

LEMMA SecondStyleInv ==
    ASSUME LoadingInv, NEW p \in Procs, SecondStyle(p) PROVE LoadingInv'
  <1> USE DEF LoadingInv, KernelSane, Mine, Knows, Yes, No, Gone, Ended, At,
          LoadPoints, UnloadPoints, Listed, Register
  <1>1. LoadingTypeOK /\ At(p, "restyle") /\ Mine(p)
    BY DEF SecondStyle, GetStyle
  <1>2. CASE Listed /\ Goto(p, "remount") /\ UNCHANGED kernel
    <2>1. Alone(p, "remount", call[p].answer, call[p].failed)
      BY <1>1, <1>2, GotoEffect DEF Points
    <2>2. Mine(p)'
      BY <1>1, <1>2, <2>1 DEF Alone, kernel
    <2> QED
      BY <1>2, <2>1, <2>2, OnlyMine
  <1>3. CASE ~Listed /\ Goto(p, "check") /\ UNCHANGED kernel
    <2>1. Alone(p, "check", call[p].answer, call[p].failed)
      BY <1>1, <1>3, GotoEffect DEF Points
    <2>2. Mine(p)'
      BY <1>1, <1>3, <2>1 DEF Alone, kernel
    <2> QED
      BY <1>3, <2>1, <2>2, OnlyMine
  <1>4. CASE Fault(p, "filesystems", "check")
    <2>1. Alone(p, "check", call[p].answer, TRUE) /\ UNCHANGED kernel
      BY <1>1, <1>4, FaultEffect DEF Points, Fault
    <2>2. Mine(p)'
      BY <1>1, <2>1 DEF Alone, kernel
    <2> QED
      BY <2>1, <2>2, OnlyMine
  <1> QED
    BY <1>1, <1>2, <1>3, <1>4 DEF SecondStyle, GetStyle

LEMMA SecondRegisterInv ==
    ASSUME LoadingInv, NEW p \in Procs, SecondRegister(p) PROVE LoadingInv'
  <1> USE DEF LoadingInv, KernelSane, Mine, Knows, Yes, No, Gone, Ended, At,
          LoadPoints, UnloadPoints, Listed, Register
  <1>1. LoadingTypeOK /\ At(p, "remount") /\ Mine(p)
    BY DEF SecondRegister
  <1>2. CASE Register /\ Goto(p, "check") /\ UNCHANGED kernel
    <2>1. Alone(p, "check", call[p].answer, call[p].failed)
      BY <1>1, <1>2, GotoEffect DEF Points
    <2>2. Mine(p)'
      BY <1>1, <1>2, <2>1 DEF Alone, kernel
    <2> QED
      BY <1>2, <2>1, <2>2, OnlyMine
  <1>3. CASE ~Register /\ Goto(p, "mount") /\ UNCHANGED kernel
    <2>1. Alone(p, "mount", call[p].answer, call[p].failed)
      BY <1>1, <1>3, GotoEffect DEF Points
    <2>2. Mine(p)'
      BY <1>1, <1>3, <2>1 DEF Alone, kernel
    <2> QED
      BY <1>3, <2>1, <2>2, OnlyMine
  <1> QED
    BY <1>1, <1>2, <1>3 DEF SecondRegister

LEMMA LastRegisterInv ==
    ASSUME LoadingInv, NEW p \in Procs, LastRegister(p) PROVE LoadingInv'
  <1> USE DEF LoadingInv, KernelSane, Mine, Knows, Yes, No, Gone, Ended, At,
          LoadPoints, UnloadPoints, Listed, Register
  <1>1. LoadingTypeOK /\ At(p, "check") /\ Mine(p)
    BY DEF LastRegister
  <1>2. CASE Register /\ Goto(p, "status") /\ UNCHANGED kernel
    <2>1. Alone(p, "status", call[p].answer, call[p].failed)
      BY <1>1, <1>2, GotoEffect DEF Points
    <2>2. Mine(p)'
      BY <1>1, <1>2, <2>1 DEF Alone, kernel
    <2> QED
      BY <1>2, <2>1, <2>2, OnlyMine
  <1>3. CASE ~Register /\ Answer(p, 0) /\ UNCHANGED kernel
    <2>1. Alone(p, "ready", 0, call[p].failed)
      BY <1>1, <1>3, AnswerEffect
    <2>2. Mine(p)'
      BY <1>1, <1>3, <2>1 DEF Alone, kernel
    <2> QED
      BY <1>3, <2>1, <2>2, OnlyMine
  <1> QED
    BY <1>1, <1>2, <1>3 DEF LastRegister

LEMMA UnloadStyleInv ==
    ASSUME LoadingInv, NEW p \in Procs, UnloadStyle(p) PROVE LoadingInv'
  <1> USE DEF LoadingInv, KernelSane, Mine, Knows, Yes, No, Gone, Ended, At,
          LoadPoints, UnloadPoints, Listed, Register
  <1>1. LoadingTypeOK /\ At(p, "unstyle") /\ Mine(p)
    BY DEF UnloadStyle
  <1>2. CASE Listed /\ Goto(p, "statfs") /\ UNCHANGED kernel
    <2>1. Alone(p, "statfs", call[p].answer, call[p].failed)
      BY <1>1, <1>2, GotoEffect DEF Points
    <2>2. Mine(p)'
      BY <1>1, <1>2, <2>1 DEF Alone, kernel
    <2> QED
      BY <1>2, <2>1, <2>2, OnlyMine
  <1>3. CASE ~Listed /\ Answer(p, 1) /\ UNCHANGED kernel
    <2>1. Alone(p, "ready", 1, call[p].failed)
      BY <1>1, <1>3, AnswerEffect
    <2>2. Mine(p)'
      BY <1>1, <1>3, <2>1 DEF Alone, kernel
    <2> QED
      BY <1>3, <2>1, <2>2, OnlyMine
  <1>4. CASE Refused(p, "filesystems", 1)
    <2>1. Alone(p, "ready", 1, TRUE) /\ UNCHANGED kernel
      BY <1>1, <1>4, RefusedEffect DEF Refused
    <2>2. Mine(p)'
      BY <1>1, <2>1 DEF Alone, kernel
    <2> QED
      BY <2>1, <2>2, OnlyMine
  <1> QED
    BY <1>1, <1>2, <1>3, <1>4 DEF UnloadStyle

LEMMA StatfsInv ==
    ASSUME LoadingInv, NEW p \in Procs, Statfs(p) PROVE LoadingInv'
  <1> USE DEF LoadingInv, KernelSane, Mine, Knows, Yes, No, Gone, Ended, At,
          LoadPoints, UnloadPoints, Listed, Register
  <1>1. LoadingTypeOK /\ At(p, "statfs") /\ Mine(p)
    BY DEF Statfs
  <1>2. CASE mounted = "fuse" /\ Goto(p, "fusermount") /\ UNCHANGED kernel
    <2>1. Alone(p, "fusermount", call[p].answer, call[p].failed)
      BY <1>1, <1>2, GotoEffect DEF Points
    <2>2. Mine(p)'
      BY <1>1, <1>2, <2>1 DEF Alone, kernel
    <2> QED
      BY <1>2, <2>1, <2>2, OnlyMine
  <1>3. CASE mounted # "fuse" /\ Goto(p, "umount") /\ UNCHANGED kernel
    <2>1. Alone(p, "umount", call[p].answer, call[p].failed)
      BY <1>1, <1>3, GotoEffect DEF Points
    <2>2. Mine(p)'
      BY <1>1, <1>3, <2>1 DEF Alone, kernel
    <2> QED
      BY <1>3, <2>1, <2>2, OnlyMine
  <1> QED
    BY <1>1, <1>2, <1>3 DEF Statfs

LEMMA ModprobeInv ==
    ASSUME LoadingInv, NEW p \in Procs, Modprobe(p) PROVE LoadingInv'
  <1> USE DEF LoadingInv, KernelSane, Mine, Knows, Yes, No, Gone, Ended, At,
          LoadPoints, UnloadPoints, Listed, Register
  <1>1. LoadingTypeOK /\ At(p, "modprobe") /\ Mine(p)
    BY DEF Modprobe
  <1>2. CASE /\ module /\ module' = TRUE /\ procdir' = TRUE
             /\ status' = status /\ UNCHANGED <<style, mounted>>
             /\ Goto(p, "directory")
    <2>1. Alone(p, "directory", call[p].answer, call[p].failed)
      BY <1>1, <1>2, GotoEffect DEF Points
    <2>2. UNCHANGED kernel
      BY <1>1, <1>2 DEF LoadingTypeOK, kernel
    <2>3. Mine(p)'
      BY <1>1, <1>2, <2>1, StylesAssumption DEF Alone, LoadingTypeOK
    <2> QED
      BY <2>1, <2>2, <2>3, OnlyMine
  <1>3. CASE /\ ~module /\ module' = TRUE /\ procdir' = TRUE
             /\ status' = TRUE /\ UNCHANGED <<style, mounted>>
             /\ Came(p, "directory")
    <2>1. call' \in [Procs -> Call] /\ \A r \in Procs : CameTo(r, p, "directory")
      BY <1>1, <1>3, CameEffect DEF Points
    <2>2. LoadingTypeOK' /\ KernelSane'
      BY <1>1, <1>3, <2>1 DEF LoadingTypeOK
    <2>3. ASSUME NEW r \in Procs PROVE Mine(r)'
      BY <1>1, <1>3, <2>1, StylesAssumption DEF CameTo, LoadingTypeOK
    <2> QED
      BY <2>2, <2>3
  <1>4. CASE Refused(p, "modprobe", 0)
    <2>1. Alone(p, "ready", 0, TRUE) /\ UNCHANGED kernel
      BY <1>1, <1>4, RefusedEffect DEF Refused
    <2>2. Mine(p)'
      BY <1>1, <2>1 DEF Alone, kernel
    <2> QED
      BY <2>1, <2>2, OnlyMine
  <1> QED
    BY <1>1, <1>2, <1>3, <1>4 DEF Modprobe

LEMMA MountInv ==
    ASSUME LoadingInv, NEW p \in Procs, Mount(p) PROVE LoadingInv'
  <1> USE DEF LoadingInv, KernelSane, Mine, Knows, Yes, No, Gone, Ended, At,
          LoadPoints, UnloadPoints, Listed, Register
  <1>1. LoadingTypeOK /\ At(p, "mount") /\ Mine(p)
    BY DEF Mount
  <1>2. CASE /\ mounted = "nothing" /\ mounted' = "binfmt_misc"
             /\ Came(p, "check")
             /\ UNCHANGED <<style, module, procdir, status>>
    <2>1. call' \in [Procs -> Call] /\ \A r \in Procs : CameTo(r, p, "check")
      BY <1>1, <1>2, CameEffect DEF Points
    <2>2. LoadingTypeOK' /\ KernelSane'
      BY <1>1, <1>2, <2>1 DEF LoadingTypeOK
    <2>3. ASSUME NEW r \in Procs PROVE Mine(r)'
      BY <1>1, <1>2, <2>1 DEF CameTo
    <2> QED
      BY <2>2, <2>3
  <1>3. CASE mounted # "nothing" /\ Answer(p, 0) /\ UNCHANGED kernel
    <2>1. Alone(p, "ready", 0, call[p].failed)
      BY <1>1, <1>3, AnswerEffect
    <2>2. Mine(p)'
      BY <1>1, <1>3, <2>1 DEF Alone, kernel
    <2> QED
      BY <1>3, <2>1, <2>2, OnlyMine
  <1>4. CASE Refused(p, "mount", 0)
    <2>1. Alone(p, "ready", 0, TRUE) /\ UNCHANGED kernel
      BY <1>1, <1>4, RefusedEffect DEF Refused
    <2>2. Mine(p)'
      BY <1>1, <2>1 DEF Alone, kernel
    <2> QED
      BY <2>1, <2>2, OnlyMine
  <1> QED
    BY <1>1, <1>2, <1>3, <1>4 DEF Mount

LEMMA FusermountInv ==
    ASSUME LoadingInv, NEW p \in Procs, Fusermount(p) PROVE LoadingInv'
  <1> USE DEF LoadingInv, KernelSane, Mine, Knows, Yes, No, Gone, Ended, At,
          LoadPoints, UnloadPoints, Listed, Register
  <1>1. LoadingTypeOK /\ At(p, "fusermount") /\ Mine(p)
    BY DEF Fusermount
  <1>2. CASE /\ mounted = "fuse" /\ mounted' = "nothing" /\ Went(p, 1)
             /\ UNCHANGED <<style, module, procdir, status>>
    <2>1. call' \in [Procs -> Call] /\ \A r \in Procs : WentTo(r, p, 1)
      BY <1>1, <1>2, WentEffect
    <2>2. LoadingTypeOK' /\ KernelSane'
      BY <1>1, <1>2, <2>1 DEF LoadingTypeOK
    <2>3. ASSUME NEW r \in Procs PROVE Mine(r)'
      BY <1>1, <1>2, <2>1 DEF WentTo
    <2> QED
      BY <2>2, <2>3
  <1>3. CASE mounted # "fuse" /\ Goto(p, "umount") /\ UNCHANGED kernel
    <2>1. Alone(p, "umount", call[p].answer, call[p].failed)
      BY <1>1, <1>3, GotoEffect DEF Points
    <2>2. Mine(p)'
      BY <1>1, <1>3, <2>1 DEF Alone, kernel
    <2> QED
      BY <1>3, <2>1, <2>2, OnlyMine
  <1>4. CASE Fault(p, "fusermount", "umount")
    <2>1. Alone(p, "umount", call[p].answer, TRUE) /\ UNCHANGED kernel
      BY <1>1, <1>4, FaultEffect DEF Points, Fault
    <2>2. Mine(p)'
      BY <1>1, <2>1 DEF Alone, kernel
    <2> QED
      BY <2>1, <2>2, OnlyMine
  <1> QED
    BY <1>1, <1>2, <1>3, <1>4 DEF Fusermount

LEMMA UmountInv ==
    ASSUME LoadingInv, NEW p \in Procs, Umount(p) PROVE LoadingInv'
  <1> USE DEF LoadingInv, KernelSane, Mine, Knows, Yes, No, Gone, Ended, At,
          LoadPoints, UnloadPoints, Listed, Register
  <1>1. LoadingTypeOK /\ At(p, "umount") /\ Mine(p)
    BY DEF Umount
  <1>2. CASE /\ mounted # "nothing" /\ mounted' = "nothing" /\ Went(p, 1)
             /\ UNCHANGED <<style, module, procdir, status>>
    <2>1. call' \in [Procs -> Call] /\ \A r \in Procs : WentTo(r, p, 1)
      BY <1>1, <1>2, WentEffect
    <2>2. LoadingTypeOK' /\ KernelSane'
      BY <1>1, <1>2, <2>1 DEF LoadingTypeOK
    <2>3. ASSUME NEW r \in Procs PROVE Mine(r)'
      BY <1>1, <1>2, <2>1 DEF WentTo
    <2> QED
      BY <2>2, <2>3
  <1>3. CASE mounted = "nothing" /\ Answer(p, 0) /\ UNCHANGED kernel
    <2>1. Alone(p, "ready", 0, call[p].failed)
      BY <1>1, <1>3, AnswerEffect
    <2>2. Mine(p)'
      BY <1>1, <1>3, <2>1 DEF Alone, kernel
    <2> QED
      BY <1>3, <2>1, <2>2, OnlyMine
  <1>4. CASE Refused(p, "umount", 0)
    <2>1. Alone(p, "ready", 0, TRUE) /\ UNCHANGED kernel
      BY <1>1, <1>4, RefusedEffect DEF Refused
    <2>2. Mine(p)'
      BY <1>1, <2>1 DEF Alone, kernel
    <2> QED
      BY <2>1, <2>2, OnlyMine
  <1> QED
    BY <1>1, <1>2, <1>3, <1>4 DEF Umount

LEMMA WriteStatusInv ==
    ASSUME LoadingInv, NEW p \in Procs, WriteStatus(p) PROVE LoadingInv'
  <1> USE DEF LoadingInv, KernelSane, Mine, Knows, Yes, No, Gone, Ended, At,
          LoadPoints, UnloadPoints, Listed, Register
  <1>1. LoadingTypeOK /\ At(p, "status") /\ Mine(p)
    BY DEF WriteStatus
  <1>2. UNCHANGED <<style, module, procdir, mounted>>
    BY DEF WriteStatus
  <1>3. CASE Register /\ status' = TRUE /\ Answer(p, 1)
    <2>1. Alone(p, "ready", 1, call[p].failed)
      BY <1>1, <1>3, AnswerEffect
    <2>2. LoadingTypeOK' /\ KernelSane'
      BY <1>1, <1>2, <1>3, <2>1 DEF LoadingTypeOK, Alone
    <2>3. Mine(p)'
      BY <1>1, <1>2, <1>3, <2>1 DEF Alone
    <2>4. ASSUME NEW r \in Procs \ {p} PROVE Mine(r)'
      BY <1>1, <1>2, <1>3, <2>1 DEF Alone
    <2> QED
      BY <2>2, <2>3, <2>4
  <1>4. CASE status' = status /\ Unset(p)
    <2>1. LoadingTypeOK' /\ KernelSane'
      BY <1>1, <1>2, <1>4, UnsetEffect DEF LoadingTypeOK
    <2>2. Mine(p)'
      BY <1>1, <1>2, <1>4, UnsetEffect
    <2>3. ASSUME NEW r \in Procs \ {p} PROVE Mine(r)'
      BY <1>1, <1>2, <1>4, UnsetEffect
    <2> QED
      BY <2>1, <2>2, <2>3
  <1> QED
    BY <1>3, <1>4 DEF WriteStatus

LEMMA SwitchOffInv ==
    ASSUME LoadingInv, SwitchOff PROVE LoadingInv'
  <1> USE DEF LoadingInv, KernelSane, Mine, Knows, Yes, No, Gone, Ended, At,
          LoadPoints, UnloadPoints, Listed, Register
  <1>1. /\ UNCHANGED <<style, module, procdir, mounted>>
        /\ status' = FALSE
    BY DEF SwitchOff
  <1>2. LoadingTypeOK' /\ KernelSane'
    BY <1>1, SwitchOffEffect DEF LoadingTypeOK
  <1>3. ASSUME NEW r \in Procs PROVE Mine(r)'
    BY <1>1, SwitchOffEffect
  <1> QED
    BY <1>2, <1>3

LEMMA BeginInv ==
    ASSUME LoadingInv, NEW p \in Procs, NEW what \in {"load", "unload"},
           NEW test \in BOOLEAN, Begin(p, what, test)
    PROVE  LoadingInv'
  <1> USE DEF LoadingInv, KernelSane, Mine, Knows, Yes, No, Gone, Ended, At,
          LoadPoints, UnloadPoints, Listed, Register
  <1> DEFINE new == [pc |-> IF test THEN "ready"
                            ELSE IF what = "load" THEN "style" ELSE "unstyle",
                     what |-> what, test |-> test,
                     answer |-> IF test THEN 1 ELSE 0,
                     left |-> call[p].left - 1,
                     failed |-> FALSE, undone |-> FALSE, redone |-> FALSE,
                     unset |-> FALSE]
  <1>1. UNCHANGED kernel /\ call' = [call EXCEPT ![p] = new]
    BY DEF Begin
  <1>2. call[p] \in Call /\ call[p].left > 0
    BY DEF Begin, LoadingTypeOK
  <1>3. new \in Call
    BY <1>2, CallsAssumption DEF Call, Points
  <1>4. call' \in [Procs -> Call] /\ call'[p] = new
    BY <1>1, <1>3 DEF LoadingTypeOK
  <1>5. \A r \in Procs \ {p} : call'[r] = call[r]
    BY <1>1 DEF LoadingTypeOK
  <1>6. LoadingTypeOK' /\ KernelSane'
    BY <1>1, <1>4 DEF LoadingTypeOK, kernel
  <1>7. Mine(p)'
    BY <1>4
  <1>8. ASSUME NEW r \in Procs \ {p} PROVE Mine(r)'
    BY <1>1, <1>5 DEF kernel
  <1> QED
    BY <1>6, <1>7, <1>8

----------------------------------------------------------------------------
LEMMA LoadingInvNext == LoadingInv /\ [Next]_vars => LoadingInv'
  <1> SUFFICES ASSUME LoadingInv, [Next]_vars PROVE LoadingInv'
    OBVIOUS
  <1>1. ASSUME NEW p \in Procs, Step(p) PROVE LoadingInv'
    BY <1>1, FirstStyleInv, FirstRegisterInv, ModprobeInv, DirectoryInv,
       SecondStyleInv, SecondRegisterInv, MountInv, LastRegisterInv,
       WriteStatusInv, UnloadStyleInv, StatfsInv, FusermountInv, UmountInv
       DEF Step
  <1>2. ASSUME NEW p \in Procs, NEW what \in {"load", "unload"},
               NEW test \in BOOLEAN, Begin(p, what, test)
        PROVE  LoadingInv'
    BY <1>2, BeginInv
  <1>3. CASE UNCHANGED vars
    BY <1>3 DEF vars, LoadingInv, LoadingTypeOK, KernelSane, Knows, Yes, No,
       Gone, Ended, At, Listed, Register
  <1> QED
    BY <1>1, <1>2, <1>3, SwitchOffInv DEF Next

LEMMA LoadingInvAlways == Spec => []LoadingInv
  BY LoadingInvInit, LoadingInvNext, PTL DEF Spec

\* The state of the kernel and of every call keeps its type.
THEOREM LoadingTypeCorrect == Spec => []LoadingTypeOK
  <1>1. LoadingInv => LoadingTypeOK
    BY DEF LoadingInv
  <1> QED
    BY LoadingInvAlways, <1>1, PTL

\* load_binfmt_misc says yes only when register is there and the facility is
\* on or its own write to status failed, or when somebody took it away since
\* the call began; with any number of invocations that load and unload, any
\* faults, on both kinds of kernels.
THEOREM YesIsReady == Spec => []YesMeansReady
  <1>1. LoadingInv => YesMeansReady
    BY DEF LoadingInv, YesMeansReady, Yes
  <1> QED
    BY LoadingInvAlways, <1>1, PTL

\* load_binfmt_misc says no without a failure only when somebody else mounted
\* or unmounted the file system meanwhile.
THEOREM NoIsRace == Spec => []NoMeansRace
  <1>1. LoadingInv => NoMeansRace
    BY DEF LoadingInv, NoMeansRace, No
  <1> QED
    BY LoadingInvAlways, <1>1, PTL

\* unload_binfmt_misc that says yes has unmounted the file system, unless it
\* was mounted again.
THEOREM UnloadIsGone == Spec => []UnloadMeansGone
  <1>1. LoadingInv => UnloadMeansGone
    BY DEF LoadingInv, UnloadMeansGone, Gone
  <1> QED
    BY LoadingInvAlways, <1>1, PTL
=============================================================================
