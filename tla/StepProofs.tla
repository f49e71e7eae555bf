----------------------------- MODULE StepProofs -----------------------------
(***************************************************************************)
(* What a step of an invocation does.  First to the files: those of the    *)
(* database stay whole.  Then to the invocation itself: the label it goes  *)
(* to, the format it works on, its table and what it still has to do; the  *)
(* first use of that is --test.  Last to what a file says: a format does   *)
(* not pass from one package to another.  The proofs about the kernel's    *)
(* entries and about the exit status look at a step through these facts.   *)
(***************************************************************************)
EXTENDS UpdateBinfmtsProofs

(***************************************************************************)
(* The files of the database are whole: act_install writes a temporary     *)
(* file and renames it.  The argument: an invocation that fills a file has *)
(* the temporary file of its format open, an invocation about to rename    *)
(* has filled it, and no other invocation has that temporary file, because *)
(* no two of them work on the same format (Exclusive).                     *)
(***************************************************************************)
\* Callers that run one invocation at a time do so.
Alone ==
    Serial => \A p, r \in Procs : p # r => At(p, "idle") \/ At(r, "idle")

Writing(p) ==
    /\ At(p, "fill") => proc[p].fd = Tmp[proc[p].name]
    /\ At(p, "rename") =>
          LET tmp == Tmp[proc[p].name] IN
          is_file(tmp) => Len(admin[tmp]) = Len(Fields)

IntegrityInv ==
    /\ Inv
    /\ Alone
    /\ DatabaseIntegrity
    /\ \A p \in Procs : Writing(p)

----------------------------------------------------------------------------
\* The label a process has after the return of a function.
LEMMA LabelAfter ==
    ASSUME NEW q \in Process, NEW ok \in BOOLEAN
    PROVE  /\ \A label : Goto(q, label).pc = label
           /\ \A st : Exited(st).pc = "idle"
           /\ ActReturn(q, ok).pc \in {"idle", "loop"}
           /\ Return(q, ok).pc \in {"idle", "loop"}
           /\ Disabled(q, ok).pc \in {"idle", "loop", "manual", "unlink"}
           /\ MiscLoaded(q).pc \in {"loadall", "exists"}
<1>1. \A label : Goto(q, label).pc = label
  BY DEF Goto, Process
<1>2. \A st : Exited(st).pc = "idle"
  BY DEF Exited, Idle
<1>3. ASSUME NEW b
      PROVE  ActReturn(q, b).pc \in {"idle", "loop"}
  <2>1. Finish(b).pc = "idle"
    BY <1>2 DEF Finish
  <2>2. [q EXCEPT !.pc = "loop", !.worked = @ /\ b, !.name = NULL,
                  !.new = NULL, !.reg = NULL, !.fd = NULL].pc = "loop"
    <3> DEFINE worked == q.worked /\ b
    <3> HIDE DEF worked
    <3>1. [q EXCEPT !.pc = "loop", !.worked = worked, !.name = NULL,
                    !.new = NULL, !.reg = NULL, !.fd = NULL].pc = "loop"
      BY DEF Process
    <3>2. QED
      BY <3>1 DEF worked
  <2>3. QED
    BY <2>1, <2>2 DEF ActReturn
<1>4. \A b : Return(q, b).pc \in {"idle", "loop"}
  BY <1>3 DEF Return
<1>5. Disabled(q, ok).pc \in {"idle", "loop", "manual", "unlink"}
  BY <1>1, <1>4 DEF Disabled
<1>6. MiscLoaded(q).pc \in {"loadall", "exists"}
  BY <1>1 DEF MiscLoaded
<1>7. QED
  BY <1>1, <1>2, <1>3, <1>4, <1>5, <1>6

\* A step that leaves the files alone and does not lead to "fill" or "rename".
Undisturbing(p) ==
    /\ UNCHANGED admin
    /\ \E q : Become(p, q) /\ q.pc \notin {"fill", "rename"}

LEMMA QuietStep ==
    ASSUME Inv, NEW p \in Procs,
           \/ load_binfmt_misc(p) \/ MountBinfmtMisc(p) \/ EnableExists(p)
           \/ EnableRegister(p) \/ DisableExists(p) \/ DisableWrite(p)
           \/ DisableCheck(p) \/ unload_binfmt_misc(p) \/ Display(p)
    PROVE  Undisturbing(p)
<1> DEFINE q == proc[p]
<1>1. q \in Process
  BY InvSound DEF Sound
<1>2. /\ \A label : Goto(q, label).pc = label
      /\ \A st : Exited(st).pc = "idle"
      /\ \A ok \in BOOLEAN :
            /\ Return(q, ok).pc \in {"idle", "loop"}
            /\ Disabled(q, ok).pc \in {"idle", "loop", "manual", "unlink"}
      /\ MiscLoaded(q).pc \in {"loadall", "exists"}
  BY <1>1, LabelAfter
<1>3. \A ok : Finish(ok).pc = "idle"
  BY <1>2 DEF Finish
<1>4. ASSUME UNCHANGED admin,
             \/ \E ok \in BOOLEAN : Become(p, Return(q, ok))
             \/ \E ok \in BOOLEAN : Become(p, Disabled(q, ok))
             \/ \E ok : Become(p, Finish(ok))
             \/ Become(p, MiscLoaded(q))
             \/ \E label : /\ label \notin {"fill", "rename"}
                           /\ Become(p, Goto(q, label))
      PROVE  Undisturbing(p)
  BY <1>2, <1>3, <1>4 DEF Undisturbing
<1> HIDE DEF q
<1>5. CASE load_binfmt_misc(p)
  BY <1>4, <1>5 DEF load_binfmt_misc, q
<1>6. CASE MountBinfmtMisc(p)
  BY <1>4, <1>6 DEF MountBinfmtMisc, q
<1>7. CASE EnableExists(p)
  <2>1. Become(p, Return(q, TRUE)) \/ Become(p, Goto(q, "scan"))
    BY <1>7 DEF EnableExists, q
  <2>2. QED
    BY <1>4, <1>7, <2>1 DEF EnableExists
<1>8. CASE EnableRegister(p)
  BY <1>4, <1>8 DEF EnableRegister, q
<1>9. CASE DisableExists(p)
  <2>1. \/ Become(p, Disabled(q, TRUE)) \/ Become(p, Goto(q, "loadall"))
        \/ Become(p, Goto(q, "diswrite"))
    BY <1>9 DEF DisableExists, q
  <2>2. QED
    BY <1>4, <1>9, <2>1 DEF DisableExists
<1>10. CASE DisableWrite(p)
  <2>1. Become(p, Disabled(q, FALSE)) \/ Become(p, Goto(q, "discheck"))
    BY <1>10 DEF DisableWrite, q
  <2>2. QED
    BY <1>4, <1>10, <2>1 DEF DisableWrite
<1>11. CASE DisableCheck(p)
  <2>1. PICK ok \in BOOLEAN : Become(p, Disabled(q, ok))
    BY <1>11 DEF DisableCheck, q
  <2>2. QED
    BY <1>4, <1>11, <2>1 DEF DisableCheck
<1>12. CASE unload_binfmt_misc(p)
  BY <1>4, <1>12 DEF unload_binfmt_misc, q
<1>13. CASE Display(p)
  BY <1>4, <1>13 DEF Display, q
<1>14. QED
  BY <1>5, <1>6, <1>7, <1>8, <1>9, <1>10, <1>11, <1>12, <1>13

\* The steps that read the directory, the loop, the start and the kill.
LEMMA QuietRead ==
    ASSUME Inv, NEW p \in Procs,
           \/ EnableScan(p) \/ LoadAll(p) \/ Loop(p) \/ InstallLoad(p)
           \/ InstallManual(p) \/ RemoveLoad(p) \/ Import(p)
    PROVE  Undisturbing(p)
<1> DEFINE q == proc[p]
<1>1. q \in Process
  BY InvSound DEF Sound
<1>2. ASSUME UNCHANGED admin, NEW r, r.pc \notin {"fill", "rename"}, Become(p, r)
      PROVE  Undisturbing(p)
  BY <1>2 DEF Undisturbing
<1>3. /\ \A label : Goto(q, label).pc = label
      /\ \A st : Exited(st).pc = "idle"
      /\ Return(q, TRUE).pc \in {"idle", "loop"}
      /\ Return(q, FALSE).pc \in {"idle", "loop"}
  BY <1>1, LabelAfter
<1> DEFINE Tabled(table, label) == [q EXCEPT !.formats = table, !.pc = label]
           Labelled(label, table) == [q EXCEPT !.pc = label, !.formats = table]
           Doing(label, table, todo) ==
              [q EXCEPT !.pc = label, !.formats = table, !.todo = todo]
           Naming(label, todo, name) ==
              [q EXCEPT !.pc = label, !.todo = todo, !.name = name]
           Describing(label, table, new) ==
              [q EXCEPT !.pc = label, !.formats = table, !.new = new]
<1>4. /\ \A label, table : Tabled(table, label).pc = label
      /\ \A label, table : Labelled(label, table).pc = label
      /\ \A label, table, x :
         /\ Doing(label, table, x).pc = label
         /\ Naming(label, table, x).pc = label
         /\ Describing(label, table, x).pc = label
  BY <1>1 DEF Process
<1> HIDE DEF Tabled, Labelled, Doing, Naming, Describing
<1>5. CASE EnableScan(p)
  <2>1. ASSUME NEW table, NEW need, NEW more
        PROVE  /\ Scanned(q, table, need).pc = "register"
               /\ [Scanned(q, table, need) EXCEPT !.todo = @ \cup more].pc
                    = "register"
    <3> DEFINE r == regstring(table[q.name], need)
               new == [q EXCEPT !.pc = "register", !.formats = table, !.reg = r]
    <3> HIDE DEF r
    <3>1. new.pc = "register"
          /\ [new EXCEPT !.todo = @ \cup more].pc = "register"
      BY <1>1 DEF Process
    <3>2. QED
      BY <3>1 DEF Scanned, r
  <2>2. \/ \E st : Become(p, Exited(st))
        \/ Become(p, Return(q, FALSE))
        \/ \E table, need : Become(p, Scanned(q, table, need))
        \/ \E table, need, more :
              Become(p, [Scanned(q, table, need) EXCEPT !.todo = @ \cup more])
    BY <1>5, Zenon DEF EnableScan, q
  <2>3. UNCHANGED admin
    BY <1>5 DEF EnableScan
  <2> HIDE DEF q
  <2>4. QED
    BY <1>2, <1>3, <2>1, <2>2, <2>3
<1>6. CASE LoadAll(p)
  <2>1. \/ Become(p, Exited("2"))
        \/ \E table, keys : Become(p, Doing("loop", table, keys))
    BY <1>6 DEF LoadAll, q, Doing
  <2>2. UNCHANGED admin
    BY <1>6 DEF LoadAll
  <2> HIDE DEF q
  <2>3. QED
    BY <1>2, <1>3, <1>4, <2>1, <2>2
<1>7. CASE Loop(p)
  <2>1. \/ \E n, rest, name :
              Become(p, Naming(LoopBody(q, n), rest, name))
        \/ Become(p, Goto(q, "unload"))
        \/ Become(p, Finish(q.worked))
    BY <1>7, Zenon DEF Loop, q, Naming
  <2>2. \A n : LoopBody(q, n) \notin {"fill", "rename"}
    BY DEF LoopBody
  <2>3. UNCHANGED admin
    BY <1>7 DEF Loop
  <2>4. Finish(q.worked).pc = "idle"
    BY <1>3 DEF Finish
  <2> HIDE DEF q
  <2>5. QED
    BY <1>2, <1>3, <1>4, <2>1, <2>2, <2>3, <2>4
<1>8. CASE InstallLoad(p)
  <2>1. \/ Become(p, Exited("segv")) \/ Become(p, Return(q, FALSE))
        \/ \E table, label : /\ Become(p, Tabled(table, label))
                             /\ label \in {"disable", "manual"}
    BY <1>8 DEF InstallLoad, q, Tabled
  <2>2. UNCHANGED admin
    BY <1>8 DEF InstallLoad
  <2> HIDE DEF q
  <2>3. QED
    BY <1>2, <1>3, <1>4, <2>1, <2>2
<1>9. CASE InstallManual(p)
  <2>1. \/ Become(p, Exited("segv")) \/ Become(p, Return(q, TRUE))
        \/ Become(p, Goto(q, "open"))
        \/ \E table : Become(p, Labelled("misc", table))
    BY <1>9 DEF InstallManual, q, Labelled
  <2>2. UNCHANGED admin
    BY <1>9 DEF InstallManual
  <2> HIDE DEF q
  <2>3. ASSUME Become(p, Return(q, TRUE))
        PROVE  Undisturbing(p)
    BY <1>2, <1>3, <2>2, <2>3
  <2>4. ASSUME NEW table, Become(p, Labelled("misc", table))
        PROVE  Undisturbing(p)
    BY <1>2, <1>4, <2>2, <2>4
  <2>5. ASSUME Become(p, Goto(q, "open"))
        PROVE  Undisturbing(p)
    BY <1>2, <1>3, <2>2, <2>5
  <2>6. ASSUME Become(p, Exited("segv"))
        PROVE  Undisturbing(p)
    BY <1>2, <1>3, <2>2, <2>6
  <2>7. QED
    BY <2>1, <2>3, <2>4, <2>5, <2>6
<1>10. CASE RemoveLoad(p)
  <2>1. \/ Become(p, Return(q, TRUE))
        \/ \E table : Become(p, Labelled("disable", table))
    BY <1>10 DEF RemoveLoad, q, Labelled
  <2>2. UNCHANGED admin
    BY <1>10 DEF RemoveLoad
  <2> HIDE DEF q
  <2>3. ASSUME Become(p, Return(q, TRUE))
        PROVE  Undisturbing(p)
    BY <1>2, <1>3, <2>2, <2>3
  <2>4. ASSUME NEW table, Become(p, Labelled("disable", table))
        PROVE  Undisturbing(p)
    BY <1>2, <1>4, <2>2, <2>4
  <2>5. QED
    BY <2>1, <2>3, <2>4
<1>11. CASE Import(p)
  <2>1. \/ Become(p, ActReturn(q, FALSE))
        \/ \E table : Become(p, ActReturn([q EXCEPT !.formats = table], TRUE))
        \/ \E table : Become(p, ActReturn([q EXCEPT !.formats = table], FALSE))
        \/ \E table, new : Become(p, Describing("install", table, new))
    BY <1>11 DEF Import, q, Describing
  <2> HIDE DEF q
  <2>2. ASSUME NEW table, NEW ok \in BOOLEAN,
               \/ Become(p, ActReturn(q, ok))
               \/ Become(p, ActReturn([q EXCEPT !.formats = table], ok))
        PROVE  Undisturbing(p)
    <3> DEFINE r == [q EXCEPT !.formats = table]
    <3>1. [r EXCEPT !.pc = "loop", !.worked = r.worked /\ ok, !.name = NULL,
                    !.new = NULL, !.reg = NULL, !.fd = NULL].pc = "loop"
      <4> DEFINE worked == r.worked /\ ok
      <4> HIDE DEF worked
      <4>1. [r EXCEPT !.pc = "loop", !.worked = worked, !.name = NULL,
                      !.new = NULL, !.reg = NULL, !.fd = NULL].pc = "loop"
        BY <1>1 DEF Process
      <4>2. QED
        BY <4>1 DEF worked
    <3>2. Finish(ok).pc = "idle"
      BY <1>3 DEF Finish
    <3> HIDE DEF r
    <3>3. ActReturn(r, ok).pc \in {"idle", "loop"}
      BY <3>1, <3>2 DEF ActReturn
    <3>4. ActReturn(q, ok).pc \in {"idle", "loop"}
      BY <1>1, LabelAfter
    <3>5. UNCHANGED admin
      BY <1>11 DEF Import
    <3>6. QED
      BY <1>2, <2>2, <3>3, <3>4, <3>5 DEF r
  <2>3. ASSUME NEW table, NEW new, Become(p, Describing("install", table, new))
        PROVE  Undisturbing(p)
    <3>1. UNCHANGED admin
      BY <1>11 DEF Import
    <3>2. QED
      BY <1>2, <1>4, <2>3, <3>1
  <2>4. QED
    BY <2>1, <2>2, <2>3
<1>12. QED
  BY <1>5, <1>6, <1>7, <1>8, <1>9, <1>10, <1>11

----------------------------------------------------------------------------
\* With callers that run one invocation at a time, the one that runs is alone.
OthersIdle(p) == Serial => \A r \in Procs : r # p => At(r, "idle")

LEMMA RunsAlone ==
    ASSUME Alone, NEW p \in Procs, ~At(p, "idle")
    PROVE  OthersIdle(p)
BY DEF Alone, OthersIdle

LEMMA QuietSound ==
    ASSUME IntegrityInv, Inv', NEW p \in Procs, Undisturbing(p), OthersIdle(p)
    PROVE  IntegrityInv'
<1>1. PICK q : Become(p, q) /\ q.pc \notin {"fill", "rename"}
  BY DEF Undisturbing
<1>2. UNCHANGED admin
  BY DEF Undisturbing
<1>3. proc'[p] = q /\ \A r \in Procs : r # p => proc'[r] = proc[r]
  BY <1>1 DEF Become, IntegrityInv, Inv, TypeOK
<1>4. Alone'
  BY <1>3 DEF OthersIdle, Alone, At
<1>5. DatabaseIntegrity'
  BY <1>2 DEF IntegrityInv, DatabaseIntegrity, is_file
<1>6. ASSUME NEW r \in Procs
      PROVE  Writing(r)'
  <2>1. CASE r = p
    BY <1>1, <1>3, <2>1 DEF Writing, At
  <2>2. CASE r # p
    BY <1>2, <1>3, <2>2 DEF IntegrityInv, Writing, At, is_file
  <2>3. QED
    BY <2>1, <2>2
<1>7. QED
  BY <1>4, <1>5, <1>6 DEF IntegrityInv

\* Two invocations in the middle of an installation have different formats.
LEMMA OwnFormat ==
    ASSUME Inv, Exclusive, NEW p \in Procs, NEW r \in Procs, p # r,
           OthersIdle(p),
           proc[p].name \in Writes[p],
           proc[r].pc \in {"fill", "rename"}
    PROVE  /\ proc[r].name \in Names
           /\ proc[r].name # proc[p].name
           /\ Tmp[proc[r].name] \notin Names \cup {Tmp[proc[p].name]}
<1>1. Control(r, proc[r])
  BY DEF Inv
<1>2. proc[r].name \in Writes[r]
  BY <1>1 DEF Control, Writers
<1>3. proc[r].name \in Names /\ proc[p].name \in Names
  BY <1>2, RunAssumption
<1>4. ~Serial
  BY DEF OthersIdle, At
<1>5. proc[r].name # proc[p].name
  BY <1>2, <1>4 DEF Exclusive
<1>6. QED
  BY <1>3, <1>5, NamesAssumption

\* A step of p that changes files of its own format leaves the others alone.
LEMMA OthersSound ==
    ASSUME IntegrityInv, Exclusive, NEW p \in Procs, OthersIdle(p),
           proc[p].name \in Writes[p],
           NEW touched \in SUBSET (Names \cup {Tmp[proc[p].name]}),
           \A f \in FormatNames \ touched : admin'[f] = admin[f],
           \A r \in Procs \ {p} :
              /\ proc'[r].pc = proc[r].pc /\ proc'[r].name = proc[r].name
              /\ proc[r].fd \notin touched => proc'[r].fd = proc[r].fd
    PROVE  Alone' /\ \A r \in Procs \ {p} : Writing(r)'
<1>1. Alone'
  BY DEF OthersIdle, Alone, At
<1>2. ASSUME NEW r \in Procs \ {p}
      PROVE  Writing(r)'
  <2>1. CASE proc[r].pc \in {"fill", "rename"}
    <3> DEFINE tmp == Tmp[proc[r].name]
    <3>1. /\ tmp \notin touched
          /\ tmp \in FormatNames
      BY <2>1, OwnFormat, NamesAssumption DEF IntegrityInv
    <3>2. admin'[tmp] = admin[tmp]
      BY <3>1
    <3>3. Writing(r)
      BY DEF IntegrityInv
    <3>4. QED
      BY <2>1, <3>1, <3>2, <3>3 DEF Writing, At, is_file
  <2>2. CASE proc[r].pc \notin {"fill", "rename"}
    BY <2>2 DEF Writing, At
  <2>3. QED
    BY <2>1, <2>2
<1>3. QED
  BY <1>1, <1>2

LEMMA RelinkedFields ==
    ASSUME Inv, NEW from, NEW to, NEW r \in Procs
    PROVE  /\ Relinked(from, to)[r].pc = proc[r].pc
           /\ Relinked(from, to)[r].name = proc[r].name
           /\ proc[r].fd # from => Relinked(from, to)[r].fd = proc[r].fd
<1>1. proc[r] \in Process
  BY InvSound DEF Sound
<1>2. /\ [proc[r] EXCEPT !.fd = to].pc = proc[r].pc
      /\ [proc[r] EXCEPT !.fd = to].name = proc[r].name
  BY <1>1 DEF Process
<1>3. QED
  BY <1>2 DEF Relinked

LEMMA OpenIntegrity ==
    ASSUME IntegrityInv, Exclusive, Inv', NEW p \in Procs, WriteOpen(p)
    PROVE  IntegrityInv'
<1> DEFINE q == proc[p]
           tmp == Tmp[q.name]
           new == [q EXCEPT !.pc = "fill", !.fd = tmp]
<1>1. q \in Process /\ q.pc = "open" /\ Control(p, q)
  BY InvSound DEF WriteOpen, At, Sound, IntegrityInv
<1>2. q.name \in Writes[p] /\ q.name \in Names
  BY <1>1, RunAssumption DEF Control, Writers
<1>3. tmp \in FormatNames \ Names
  BY <1>2, NamesAssumption
<1>4. OthersIdle(p)
  BY <1>1, RunsAlone DEF IntegrityInv, At
<1>5. /\ new.pc = "fill" /\ new.name = q.name /\ new.fd = tmp
      /\ Return(q, FALSE).pc \in {"idle", "loop"}
  <2>1. Return(q, FALSE).pc \in {"idle", "loop"}
    BY <1>1, LabelAfter
  <2>2. QED
    BY <1>1, <2>1 DEF Process
<1>6. \/ proc' = [Relinked(tmp, NULL) EXCEPT ![p] = new]
      \/ Become(p, Return(q, FALSE))
      \/ proc' = [Relinked(tmp, NULL) EXCEPT ![p] = Return(q, FALSE)]
  BY DEF WriteOpen, TmpName
<1>7. \A f \in FormatNames \ {tmp} : admin'[f] = admin[f]
  <2>1. admin \in [FormatNames -> File]
    BY DEF IntegrityInv, Inv, TypeOK
  <2>2. \/ admin' = [admin EXCEPT ![tmp] = <<>>] \/ UNCHANGED admin
        \/ admin' = [admin EXCEPT ![tmp] = NULL]
    BY DEF WriteOpen, TmpName
  <2>3. QED
    BY <2>1, <2>2
<1>8. \A r \in Procs \ {p} :
         /\ proc'[r].pc = proc[r].pc /\ proc'[r].name = proc[r].name
         /\ proc[r].fd \notin {tmp} => proc'[r].fd = proc[r].fd
  <2> SUFFICES ASSUME NEW r \in Procs \ {p}
               PROVE  /\ proc'[r].pc = proc[r].pc
                      /\ proc'[r].name = proc[r].name
                      /\ proc[r].fd # tmp => proc'[r].fd = proc[r].fd
    OBVIOUS
  <2>1. proc'[r] = proc[r] \/ proc'[r] = Relinked(tmp, NULL)[r]
    BY <1>6 DEF Become, Relinked, IntegrityInv, Inv, TypeOK
  <2>2. QED
    BY <2>1, RelinkedFields DEF IntegrityInv
<1>9. Alone' /\ \A r \in Procs \ {p} : Writing(r)'
  <2>1. {tmp} \in SUBSET (Names \cup {Tmp[proc[p].name]})
    OBVIOUS
  <2> HIDE DEF tmp
  <2>2. QED
    BY <1>2, <1>4, <1>7, <1>8, <2>1, OthersSound
<1>10. Writing(p)'
  <2>1. proc'[p] = new \/ proc'[p] = Return(q, FALSE)
    BY <1>6 DEF Become, Relinked, IntegrityInv, Inv, TypeOK
  <2> HIDE DEF q, new
  <2>2. QED
    BY <1>5, <2>1 DEF Writing, At
<1>11. DatabaseIntegrity'
  BY <1>3, <1>7, NamesAssumption DEF IntegrityInv, DatabaseIntegrity, is_file
<1>12. QED
  BY <1>9, <1>10, <1>11 DEF IntegrityInv

LEMMA FillIntegrity ==
    ASSUME IntegrityInv, Exclusive, Inv', NEW p \in Procs, WriteFill(p)
    PROVE  IntegrityInv'
<1> DEFINE q == proc[p]
           tmp == Tmp[q.name]
           new == [q EXCEPT !.pc = "rename", !.fd = NULL]
<1>1. q \in Process /\ q.pc = "fill" /\ Control(p, q) /\ q.fd = tmp
  BY InvSound DEF WriteFill, At, Sound, IntegrityInv, Writing
<1>2. q.name \in Writes[p] /\ q.name \in Names
  BY <1>1, RunAssumption DEF Control, Writers
<1>3. tmp \in FormatNames \ Names
  BY <1>2, NamesAssumption
<1>4. OthersIdle(p)
  BY <1>1, RunsAlone DEF IntegrityInv, At
<1>5. /\ new.pc = "rename" /\ new.name = q.name
      /\ Return(q, FALSE).pc \in {"idle", "loop"}
      /\ Exited("segv").pc = "idle"
  <2>1. Return(q, FALSE).pc \in {"idle", "loop"} /\ Exited("segv").pc = "idle"
    BY <1>1, LabelAfter
  <2>2. QED
    BY <1>1, <2>1 DEF Process
<1>6. \/ /\ q.new # NULL
         /\ admin' = [admin EXCEPT ![tmp] = binfmt_write(q.new)]
         /\ Become(p, new)
      \/ /\ \/ UNCHANGED admin
            \/ \E lines : admin' = [admin EXCEPT ![tmp] = lines]
         /\ Become(p, Exited("segv")) \/ Become(p, Return(q, FALSE))
  BY <1>1, <1>3, NamesAssumption DEF WriteFill, Contents
<1>7. \A f \in FormatNames \ {tmp} : admin'[f] = admin[f]
  <2>1. admin \in [FormatNames -> File]
    BY DEF IntegrityInv, Inv, TypeOK
  <2>2. QED
    BY <1>6, <2>1
<1>8. \A r \in Procs \ {p} : proc'[r] = proc[r]
  BY <1>6 DEF Become, IntegrityInv, Inv, TypeOK
<1>9. Alone' /\ \A r \in Procs \ {p} : Writing(r)'
  <2>1. {tmp} \in SUBSET (Names \cup {Tmp[proc[p].name]})
    OBVIOUS
  <2> HIDE DEF tmp
  <2>2. QED
    BY <1>2, <1>4, <1>7, <1>8, <2>1, OthersSound
<1>10. Writing(p)'
  <2>1. CASE /\ q.new # NULL
             /\ admin' = [admin EXCEPT ![tmp] = binfmt_write(q.new)]
             /\ Become(p, new)
    <3>1. proc'[p] = new
      BY <2>1 DEF Become, IntegrityInv, Inv, TypeOK
    <3>2. admin'[tmp] = binfmt_write(q.new)
      BY <1>3, <2>1 DEF IntegrityInv, Inv, TypeOK
    <3>3. Len(binfmt_write(q.new)) = 9 /\ Len(Fields) = 9
      <4>1. q.new \in Binfmt
        BY <1>1, <2>1 DEF Process
      <4>2. QED
        BY <4>1, WriteType DEF Fields
    <3> HIDE DEF q, new
    <3>4. proc'[p].pc = "rename" /\ Tmp[proc'[p].name] = tmp
      BY <1>5, <3>1
    <3> HIDE DEF tmp
    <3>5. QED
      BY <3>2, <3>3, <3>4 DEF Writing, At, is_file
  <2>2. CASE Become(p, Exited("segv")) \/ Become(p, Return(q, FALSE))
    <3>1. proc'[p] = Exited("segv") \/ proc'[p] = Return(q, FALSE)
      BY <2>2 DEF Become, IntegrityInv, Inv, TypeOK
    <3> HIDE DEF q
    <3>2. QED
      BY <1>5, <3>1 DEF Writing, At
  <2>3. QED
    BY <1>6, <2>1, <2>2
<1>11. DatabaseIntegrity'
  BY <1>3, <1>7, NamesAssumption DEF IntegrityInv, DatabaseIntegrity, is_file
<1>12. QED
  BY <1>9, <1>10, <1>11 DEF IntegrityInv

LEMMA UnlinkIntegrity ==
    ASSUME IntegrityInv, Exclusive, Inv', NEW p \in Procs, RemoveUnlink(p)
    PROVE  IntegrityInv'
<1> DEFINE q == proc[p]
           n == q.name
<1>1. q \in Process /\ q.pc = "unlink" /\ Control(p, q)
  BY InvSound DEF RemoveUnlink, At, Sound, IntegrityInv
<1>2. n \in Writes[p] /\ n \in Names
  BY <1>1, RunAssumption DEF Control, Writers
<1>3. OthersIdle(p)
  BY <1>1, RunsAlone DEF IntegrityInv, At
<1>4. Return(q, TRUE).pc \in {"idle", "loop"}
      /\ Return(q, FALSE).pc \in {"idle", "loop"}
  BY <1>1, LabelAfter
<1>5. \/ UNCHANGED admin /\ Become(p, Return(q, TRUE))
      \/ UNCHANGED admin /\ Become(p, Return(q, FALSE))
      \/ /\ admin' = [admin EXCEPT ![n] = NULL]
         /\ proc' = [Relinked(n, NULL) EXCEPT ![p] = Return(q, TRUE)]
  BY DEF RemoveUnlink
<1>6. \A f \in FormatNames \ {n} : admin'[f] = admin[f]
  BY <1>5 DEF IntegrityInv, Inv, TypeOK
<1>7. \A r \in Procs \ {p} :
         /\ proc'[r].pc = proc[r].pc /\ proc'[r].name = proc[r].name
         /\ proc[r].fd \notin {n} => proc'[r].fd = proc[r].fd
  <2> SUFFICES ASSUME NEW r \in Procs \ {p}
               PROVE  /\ proc'[r].pc = proc[r].pc
                      /\ proc'[r].name = proc[r].name
                      /\ proc[r].fd # n => proc'[r].fd = proc[r].fd
    OBVIOUS
  <2>1. proc'[r] = proc[r] \/ proc'[r] = Relinked(n, NULL)[r]
    BY <1>5 DEF Become, Relinked, IntegrityInv, Inv, TypeOK
  <2>2. QED
    BY <2>1, RelinkedFields DEF IntegrityInv
<1>8. Alone' /\ \A r \in Procs \ {p} : Writing(r)'
  <2>1. {n} \in SUBSET (Names \cup {Tmp[proc[p].name]})
    BY <1>2
  <2>2. proc[p].name \in Writes[p]
    BY <1>2
  <2> HIDE DEF n
  <2>3. QED
    BY <1>3, <1>6, <1>7, <2>1, <2>2, OthersSound
<1>9. Writing(p)'
  <2>1. proc'[p] = Return(q, TRUE) \/ proc'[p] = Return(q, FALSE)
    BY <1>5 DEF Become, Relinked, IntegrityInv, Inv, TypeOK
  <2> HIDE DEF q
  <2>2. QED
    BY <1>4, <2>1 DEF Writing, At
<1>10. DatabaseIntegrity'
  <2>1. admin'[n] = admin[n] \/ admin'[n] = NULL
    BY <1>5 DEF IntegrityInv, Inv, TypeOK
  <2> HIDE DEF n
  <2>2. QED
    BY <1>6, <2>1, NamesAssumption
       DEF IntegrityInv, DatabaseIntegrity, is_file
<1>11. QED
  BY <1>8, <1>9, <1>10 DEF IntegrityInv

LEMMA RenameIntegrity ==
    ASSUME IntegrityInv, Exclusive, Inv', NEW p \in Procs, RenameTmp(p)
    PROVE  IntegrityInv'
<1> DEFINE q == proc[p]
           n == q.name
           tmp == Tmp[n]
           new == [q EXCEPT !.pc = "misc",
                            !.formats = kvhash_insert(@, n, q.new)]
           relinked == [r \in Procs |->
                          IF proc[r].fd = tmp THEN [proc[r] EXCEPT !.fd = n]
                          ELSE IF proc[r].fd = n THEN [proc[r] EXCEPT !.fd = NULL]
                          ELSE proc[r]]
<1>1. q \in Process /\ q.pc = "rename" /\ Control(p, q)
  BY InvSound DEF RenameTmp, At, Sound, IntegrityInv
<1>2. n \in Writes[p] /\ n \in Names
  BY <1>1, RunAssumption DEF Control, Writers
<1>3. tmp \in FormatNames \ Names /\ n \in FormatNames
  BY <1>2, NamesAssumption
<1>4. OthersIdle(p)
  BY <1>1, RunsAlone DEF IntegrityInv, At
<1>5. new.pc = "misc" /\ Return(q, FALSE).pc \in {"idle", "loop"}
  <2>1. Return(q, FALSE).pc \in {"idle", "loop"}
    BY <1>1, LabelAfter
  <2> DEFINE table == kvhash_insert(q.formats, n, q.new)
  <2> HIDE DEF table
  <2>2. [q EXCEPT !.pc = "misc", !.formats = table].pc = "misc"
    BY <1>1 DEF Process
  <2>3. QED
    BY <2>1, <2>2 DEF table
<1>6. \/ /\ is_file(tmp)
         /\ admin' = [admin EXCEPT ![n] = admin[tmp], ![tmp] = NULL]
         /\ proc' = [relinked EXCEPT ![p] = new]
      \/ UNCHANGED admin /\ Become(p, Return(q, FALSE))
  BY DEF RenameTmp, TmpName
<1>7. \A f \in FormatNames \ {n, tmp} : admin'[f] = admin[f]
  BY <1>6 DEF IntegrityInv, Inv, TypeOK
<1>8. \A r \in Procs \ {p} :
         /\ proc'[r].pc = proc[r].pc /\ proc'[r].name = proc[r].name
         /\ proc[r].fd \notin {n, tmp} => proc'[r].fd = proc[r].fd
  <2> SUFFICES ASSUME NEW r \in Procs \ {p}
               PROVE  /\ proc'[r].pc = proc[r].pc
                      /\ proc'[r].name = proc[r].name
                      /\ proc[r].fd \notin {n, tmp} => proc'[r].fd = proc[r].fd
    OBVIOUS
  <2>1. \/ proc'[r] = proc[r]
        \/ proc[r].fd = tmp /\ proc'[r] = [proc[r] EXCEPT !.fd = n]
        \/ proc[r].fd = n /\ proc'[r] = [proc[r] EXCEPT !.fd = NULL]
    BY <1>6 DEF Become, IntegrityInv, Inv, TypeOK
  <2>2. proc[r] \in Process
    BY InvSound DEF IntegrityInv, Sound
  <2>3. \A to : /\ [proc[r] EXCEPT !.fd = to].pc = proc[r].pc
                /\ [proc[r] EXCEPT !.fd = to].name = proc[r].name
    BY <2>2 DEF Process
  <2> HIDE DEF n, tmp
  <2>4. QED
    BY <2>1, <2>3
<1>9. Alone' /\ \A r \in Procs \ {p} : Writing(r)'
  <2>1. {n, tmp} \in SUBSET (Names \cup {Tmp[proc[p].name]})
    BY <1>2
  <2>2. proc[p].name \in Writes[p]
    BY <1>2
  <2> HIDE DEF n, tmp
  <2>3. QED
    BY <1>4, <1>7, <1>8, <2>1, <2>2, OthersSound
<1>10. Writing(p)'
  <2>1. proc'[p] = new \/ proc'[p] = Return(q, FALSE)
    BY <1>6 DEF Become, IntegrityInv, Inv, TypeOK
  <2> HIDE DEF q, new
  <2>2. QED
    BY <1>5, <2>1 DEF Writing, At
<1>11. DatabaseIntegrity'
  <2>1. \/ UNCHANGED admin
        \/ is_file(tmp) /\ admin'[n] = admin[tmp]
    BY <1>2, <1>3, <1>6 DEF IntegrityInv, Inv, TypeOK
  <2>2. is_file(tmp) => Len(admin[tmp]) = Len(Fields)
    BY <1>1 DEF IntegrityInv, Writing, At
  <2>3. \A m \in Names \ {n} : admin'[m] = admin[m]
    BY <1>3, <1>7, NamesAssumption
  <2> HIDE DEF n, tmp
  <2>4. QED
    BY <2>1, <2>2, <2>3 DEF IntegrityInv, DatabaseIntegrity, is_file
<1>12. QED
  BY <1>9, <1>10, <1>11 DEF IntegrityInv

----------------------------------------------------------------------------
LEMMA StartQuiet ==
    ASSUME Inv, NEW p \in Procs, Start(p)
    PROVE  Undisturbing(p) /\ OthersIdle(p)
<1>1. OthersIdle(p)
  BY DEF Start, StartInstall, StartRemove, StartImport, StartNamed, StartAll,
         StartImportAll, CanStart, OthersIdle
<1>2. UNCHANGED admin
  BY DEF Start, StartInstall, StartRemove, StartImport, StartNamed, StartAll,
         StartImportAll
<1>3. \A st : Exited(st).pc = "idle"
  BY DEF Exited, Idle
<1> DEFINE Given(m, label, n, t, new) ==
              [Command(m, label, n, t) EXCEPT !.new = new]
           From(m, label, n, t, pkg) ==
              [Command(m, label, n, t) EXCEPT !.package = pkg]
           Todo(m, label, n, t, todo) ==
              [Command(m, label, n, t) EXCEPT !.todo = todo]
<1>4. /\ \A m, label, n, t : Command(m, label, n, t).pc = label
      /\ \A m, label, n, t, x : Given(m, label, n, t, x).pc = label
      /\ \A m, label, n, t, x : From(m, label, n, t, x).pc = label
      /\ \A m, label, n, t, x : Todo(m, label, n, t, x).pc = label
  BY DEF Command, Idle
<1> HIDE DEF Given, From, Todo
<1>5. ASSUME NEW q, Become(p, q), q.pc \notin {"fill", "rename"}
      PROVE  Undisturbing(p)
  BY <1>2, <1>5 DEF Undisturbing
<1>6. CASE StartInstall(p)
  <2>1. PICK n, args, t :
          \/ Become(p, Exited("2"))
          \/ Become(p, Given("install", "install", n, t, binfmt_new(args)))
    BY <1>6 DEF StartInstall, Given
  <2>2. QED
    BY <1>1, <1>3, <1>4, <1>5, <2>1
<1>7. CASE StartRemove(p)
  <2>1. PICK n, pkg, t : Become(p, From("remove", "remove", n, t, pkg))
    BY <1>7 DEF StartRemove, From
  <2>2. QED
    BY <1>1, <1>4, <1>5, <2>1
<1>8. CASE StartImport(p) \/ StartNamed(p) \/ StartAll(p)
  <2>1. PICK m, label, n, t :
          /\ label \in {"import", "misc", "disable", "display"}
          /\ Become(p, Command(m, label, n, t))
    BY <1>8 DEF StartImport, StartNamed, StartAll
  <2>2. QED
    BY <1>1, <1>4, <1>5, <2>1
<1>9. CASE StartImportAll(p)
  <2>1. \/ Become(p, Exited("2"))
        \/ \E t : Become(p, Todo("importall", "loop", NULL, t,
                                 DOMAIN ImportFiles))
    BY <1>9 DEF StartImportAll, Todo
  <2>2. QED
    BY <1>1, <1>3, <1>4, <1>5, <2>1
<1>10. QED
  BY <1>1, <1>6, <1>7, <1>8, <1>9 DEF Start

LEMMA StepIntegrity ==
    ASSUME IntegrityInv, Exclusive, Inv', NEW p \in Procs, Step(p)
    PROVE  IntegrityInv'
<1>1. ~At(p, "idle")
  BY DEF Step, At, load_binfmt_misc, MountBinfmtMisc, EnableExists, EnableScan,
         EnableRegister, DisableExists, DisableWrite, DisableCheck, LoadAll,
         Loop, unload_binfmt_misc, InstallLoad, InstallManual, WriteOpen,
         WriteFill, RenameTmp, RemoveLoad, RemoveUnlink, Import, Display
<1>2. OthersIdle(p)
  BY <1>1, RunsAlone DEF IntegrityInv
<1>3. Inv
  BY DEF IntegrityInv
<1>4. CASE Undisturbing(p)
  BY <1>2, <1>4, QuietSound
<1>5. QED
  BY <1>3, <1>4, QuietStep, QuietRead, OpenIntegrity, FillIntegrity,
     RenameIntegrity, UnlinkIntegrity DEF Step

LEMMA EnvironmentIntegrity ==
    ASSUME IntegrityInv, Inv',
           \/ \E p \in Procs : Kill(p)
           \/ Reboot
           \/ \E n \in Names : ManualRegister(n)
           \/ ManualSwitchOff
    PROVE  IntegrityInv'
<1>1. ASSUME NEW p \in Procs, Kill(p)
      PROVE  IntegrityInv'
  <2>1. OthersIdle(p)
    BY <1>1, RunsAlone DEF IntegrityInv, Kill
  <2>2. Exited("killed").pc = "idle"
    BY DEF Exited, Idle
  <2>3. Undisturbing(p)
    BY <1>1, <2>2 DEF Kill, Undisturbing
  <2>4. QED
    BY <2>1, <2>3, QuietSound
<1>2. CASE Reboot
  <2>1. \A p \in Procs : proc'[p].pc = "idle"
    BY <1>2 DEF Reboot, Exited, Idle, At
  <2>2. UNCHANGED admin
    BY <1>2 DEF Reboot
  <2>3. QED
    BY <2>1, <2>2 DEF IntegrityInv, Alone, Writing, DatabaseIntegrity, At, is_file
<1>3. ASSUME UNCHANGED <<admin, proc>>
      PROVE  IntegrityInv'
  BY <1>3 DEF IntegrityInv, Alone, Writing, DatabaseIntegrity, At, is_file
<1>4. QED
  BY <1>1, <1>2, <1>3 DEF ManualRegister, ManualSwitchOff

LEMMA InitIntegrity == Init => IntegrityInv
<1> SUFFICES ASSUME Init
             PROVE  IntegrityInv
  OBVIOUS
<1>1. Inv
  BY InitSound
<1>2. \A p \in Procs : proc[p].pc = "idle"
  BY DEF Init, Idle
<1>3. DatabaseIntegrity
  BY NamesAssumption DEF Init, DatabaseIntegrity, is_file
<1>4. QED
  BY <1>1, <1>2, <1>3 DEF IntegrityInv, Alone, Writing, At

LEMMA NextIntegrity == Exclusive /\ IntegrityInv /\ [Next]_vars => IntegrityInv'
<1> SUFFICES ASSUME Exclusive, IntegrityInv, [Next]_vars
             PROVE  IntegrityInv'
  OBVIOUS
<1>1. Inv'
  BY NextSound DEF IntegrityInv
<1>2. CASE UNCHANGED vars
  BY <1>1, <1>2
     DEF vars, IntegrityInv, Alone, Writing, DatabaseIntegrity, At, is_file
<1>3. ASSUME NEW p \in Procs, Start(p)
      PROVE  IntegrityInv'
  BY <1>1, <1>3, StartQuiet, QuietSound DEF IntegrityInv
<1>4. ASSUME NEW p \in Procs, Step(p)
      PROVE  IntegrityInv'
  BY <1>1, <1>4, StepIntegrity
<1>5. QED
  BY <1>1, <1>2, <1>3, <1>4, EnvironmentIntegrity DEF Next

\* The database holds no torn file, for every number of formats and of
\* invocations, every input and every fault, as long as no two invocations
\* work on the same format at a time: act_install writes to <name>.tmp and
\* renames it.
THEOREM FilesWhole ==
    ASSUME Exclusive
    PROVE  Spec => []DatabaseIntegrity
<1>1. Exclusive
  OBVIOUS
<1>2. IntegrityInv /\ [Next]_vars => IntegrityInv'
  BY <1>1, NextIntegrity
<1>3. Spec => []IntegrityInv
  BY <1>2, InitIntegrity, PTL DEF Spec
<1>4. IntegrityInv => DatabaseIntegrity
  BY DEF IntegrityInv
<1>5. QED
  BY <1>3, <1>4, PTL

----------------------------------------------------------------------------
(***************************************************************************)
(* What a step makes of the invocation that takes it: the label it goes    *)
(* to, the format it works on, its table and what it still has to do.      *)
(***************************************************************************)
NoTable == [n \in FormatNames |-> NULL]

\* From q to r within one command.
Goes(q, r, label, name, new, table, todo) ==
    /\ r.pc = label /\ r.name = name /\ r.new = new
    /\ r.formats = table /\ r.todo = todo
    /\ r.mode = q.mode /\ r.package = q.package /\ r.test = q.test

\* Another label, perhaps another table, and nothing else.
Tabled(q, r, label, table) ==
    Goes(q, r, label, q.name, q.new, table, q.todo)

Moved(q, r, label) == Tabled(q, r, label, q.formats)

\* The command is over, or one turn of a loop over all formats.
Ended(r) ==
    /\ r.pc = "idle" /\ r.mode = "none" /\ r.name = NULL /\ r.new = NULL
    /\ r.formats = NoTable /\ r.todo = {} /\ r.test = FALSE

Back(q, r) ==
    /\ q.mode \in Loops /\ q.name # NULL
    /\ Goes(q, r, "loop", NULL, NULL, q.formats, q.todo)

Left(q, r) == Ended(r) \/ Back(q, r)

\* What act_disable returns to: the replacement, the removal, or the loop.
AfterDisable(q, r) ==
    \/ Left(q, r)
    \/ q.mode \in Installs /\ Moved(q, r, "manual")
    \/ q.mode = "remove" /\ Moved(q, r, "unlink")

----------------------------------------------------------------------------
LEMMA ExitedFields ==
    /\ \A st : Ended(Exited(st))
    /\ \A ok : Ended(Finish(ok))
    /\ Ended(Idle)
BY DEF Finish, Exited, Idle, Ended, NoTable

LEMMA GotoFields ==
    ASSUME NEW q \in Process
    PROVE  /\ \A label : Moved(q, Goto(q, label), label)
           /\ \A label, table :
                 /\ Tabled(q, [q EXCEPT !.pc = label, !.formats = table],
                           label, table)
                 /\ Tabled(q, [q EXCEPT !.formats = table, !.pc = label],
                           label, table)
<1>1. \A label : Moved(q, Goto(q, label), label)
  BY DEF Process, Goto, Moved, Tabled, Goes
<1>2. ASSUME NEW label, NEW table
      PROVE  /\ Tabled(q, [q EXCEPT !.pc = label, !.formats = table],
                       label, table)
             /\ Tabled(q, [q EXCEPT !.formats = table, !.pc = label],
                       label, table)
  BY DEF Process, Tabled, Goes
<1>3. QED
  BY <1>1, <1>2

LEMMA ReturnFields ==
    ASSUME NEW q \in Process
    PROVE  \A ok : Left(q, ActReturn(q, ok)) /\ Left(q, Return(q, ok))
<1>1. ASSUME NEW ok
      PROVE  Left(q, ActReturn(q, ok))
  <2> DEFINE worked == q.worked /\ ok
             r == [q EXCEPT !.pc = "loop", !.worked = worked, !.name = NULL,
                            !.new = NULL, !.reg = NULL, !.fd = NULL]
  <2> HIDE DEF worked
  <2>1. Goes(q, r, "loop", NULL, NULL, q.formats, q.todo)
    BY DEF Process, Goes
  <2> HIDE DEF r
  <2>2. \/ q.mode \in Loops /\ q.name # NULL /\ ActReturn(q, ok) = r
        \/ ActReturn(q, ok) = Finish(ok)
    BY DEF ActReturn, r, worked
  <2>3. QED
    BY <2>1, <2>2, ExitedFields DEF Left, Back
<1>2. QED
  BY <1>1 DEF Return

LEMMA DisabledFields ==
    ASSUME NEW q \in Process
    PROVE  \A ok : AfterDisable(q, Disabled(q, ok))
BY GotoFields, ReturnFields DEF Disabled, AfterDisable

\* Only one invocation moves.
LEMMA BecomeFields ==
    ASSUME Inv, NEW p \in Procs, NEW q, Become(p, q)
    PROVE  proc'[p] = q /\ \A r \in Procs \ {p} : proc'[r] = proc[r]
BY DEF Become, Inv, TypeOK

----------------------------------------------------------------------------
(***************************************************************************)
(* main.                                                                   *)
(***************************************************************************)
OtherModes == {"enable", "disable", "display",
           "enableall", "disableall", "displayall"}

\* The commands an invocation may start with.
Started(r) ==
    /\ r.formats = NoTable
    /\ \/ r.pc = "install" /\ r.mode = "install" /\ r.todo = {}
       \/ r.pc = "remove" /\ r.mode = "remove" /\ r.todo = {}
       \/ r.pc = "import" /\ r.mode = "import" /\ r.todo = {}
       \/ /\ r.pc \in {"misc", "disable", "display"} /\ r.mode \in OtherModes
          /\ r.mode \in {"enableall", "disableall", "displayall"} =>
                r.name = NULL
          /\ r.mode = "disableall" => r.pc = "disable"
          /\ r.todo = {}
       \/ /\ r.pc = "loop" /\ r.mode = "importall" /\ r.name = NULL
          /\ r.todo = DOMAIN ImportFiles

LEMMA StartAfter ==
    ASSUME Inv, NEW p \in Procs, Start(p)
    PROVE  /\ \E q : Become(p, q)
           /\ UNCHANGED <<kernelVars, admin>>
           /\ proc[p].pc = "idle"
           /\ Ended(proc'[p]) \/ Started(proc'[p])
<1>1. UNCHANGED <<kernelVars, admin>> /\ proc[p].pc = "idle"
  BY DEF Start, StartInstall, StartRemove, StartImport, StartNamed, StartAll,
         StartImportAll, CanStart, At
<1>2. ASSUME NEW q, Become(p, q), Ended(q) \/ Started(q)
      PROVE  (\E s : Become(p, s)) /\ (Ended(proc'[p]) \/ Started(proc'[p]))
  BY <1>2, BecomeFields
<1> DEFINE Given(m, label, n, t, new) ==
              [Command(m, label, n, t) EXCEPT !.new = new]
           From(m, label, n, t, pkg) ==
              [Command(m, label, n, t) EXCEPT !.package = pkg]
           Todo(m, label, n, t, todo) ==
              [Command(m, label, n, t) EXCEPT !.todo = todo]
           Plain(r, m, label, n) == /\ r.pc = label /\ r.mode = m
                                    /\ r.name = n /\ r.formats = NoTable
<1>0. ASSUME NEW m, NEW label, NEW n, NEW t
      PROVE  /\ Plain(Command(m, label, n, t), m, label, n)
             /\ Command(m, label, n, t).todo = {}
  BY DEF Command, Idle, NoTable
<1>3. ASSUME NEW m, NEW label, NEW n, NEW t, NEW x
      PROVE  /\ Plain(Given(m, label, n, t, x), m, label, n)
             /\ Given(m, label, n, t, x).todo = {}
             /\ Plain(From(m, label, n, t, x), m, label, n)
             /\ From(m, label, n, t, x).todo = {}
             /\ Plain(Todo(m, label, n, t, x), m, label, n)
             /\ Todo(m, label, n, t, x).todo = x
  BY DEF Command, Idle, NoTable
<1> HIDE DEF Given, From, Todo
<1>4. CASE StartInstall(p)
  <2>1. PICK n, args, t :
          \/ Become(p, Exited("2"))
          \/ Become(p, Given("install", "install", n, t, binfmt_new(args)))
    BY <1>4 DEF StartInstall, Given
  <2>2. Started(Given("install", "install", n, t, binfmt_new(args)))
    BY <1>3 DEF Started
  <2>3. QED
    BY <1>1, <1>2, <2>1, <2>2, ExitedFields
<1>5. CASE StartRemove(p)
  <2>1. PICK n, pkg, t : Become(p, From("remove", "remove", n, t, pkg))
    BY <1>5 DEF StartRemove, From
  <2> DEFINE r == From("remove", "remove", n, t, pkg)
  <2>2. Plain(r, "remove", "remove", n) /\ r.todo = {}
    BY <1>3
  <2> HIDE DEF r
  <2>3. Started(r)
    BY <2>2 DEF Started
  <2>4. QED
    BY <1>1, <1>2, <2>1, <2>3 DEF r
<1>6. CASE StartImport(p)
  <2>1. PICK n, t : Become(p, Command("import", "import", n, t))
    BY <1>6 DEF StartImport
  <2> DEFINE r == Command("import", "import", n, t)
  <2>2. Plain(r, "import", "import", n) /\ r.todo = {}
    BY <1>0
  <2> HIDE DEF r
  <2>3. Started(r)
    BY <2>2 DEF Started
  <2>4. QED
    BY <1>1, <1>2, <2>1, <2>3 DEF r
<1>7. CASE StartNamed(p) \/ StartAll(p)
  <2>1. PICK m, label, n, t :
          /\ m \in OtherModes /\ label \in {"misc", "disable", "display"}
          /\ m \in {"enableall", "disableall", "displayall"} => n = NULL
          /\ m = "disableall" => label = "disable"
          /\ Become(p, Command(m, label, n, t))
    BY <1>7 DEF StartNamed, StartAll, OtherModes
  <2>2. Started(Command(m, label, n, t))
    BY <1>0, <2>1 DEF Started
  <2>3. QED
    BY <1>1, <1>2, <2>1, <2>2
<1>8. CASE StartImportAll(p)
  <2>1. \/ Become(p, Exited("2"))
        \/ \E t : Become(p, Todo("importall", "loop", NULL, t,
                                 DOMAIN ImportFiles))
    BY <1>8 DEF StartImportAll, Todo
  <2>2. \A t : Started(Todo("importall", "loop", NULL, t, DOMAIN ImportFiles))
    BY <1>3 DEF Started
  <2>3. QED
    BY <1>1, <1>2, <2>1, <2>2, ExitedFields
<1>9. QED
  BY <1>4, <1>5, <1>6, <1>7, <1>8 DEF Start

----------------------------------------------------------------------------
(***************************************************************************)
(* act_enable.                                                             *)
(***************************************************************************)
LEMMA MiscLoadedFields ==
    ASSUME NEW q \in Process
    PROVE  \/ q.name = NULL /\ Moved(q, MiscLoaded(q), "loadall")
           \/ q.name # NULL /\ Moved(q, MiscLoaded(q), "exists")
BY GotoFields DEF MiscLoaded

LEMMA MiscAfter ==
    ASSUME Inv, NEW p \in Procs, load_binfmt_misc(p) \/ MountBinfmtMisc(p)
    PROVE  /\ UNCHANGED admin
           /\ \E q : Become(p, q)
           /\ proc[p].pc \in {"misc", "mount"}
           /\ \/ Left(proc[p], proc'[p])
              \/ ~proc[p].test /\ Moved(proc[p], proc'[p], "mount")
              \/ proc[p].name = NULL /\ Moved(proc[p], proc'[p], "loadall")
              \/ proc[p].name # NULL /\ Moved(proc[p], proc'[p], "exists")
<1> DEFINE q == proc[p]
<1>1. q \in Process
  BY InvSound DEF Sound
<1>2. /\ UNCHANGED admin
      /\ q.pc \in {"misc", "mount"}
      /\ \/ Become(p, MiscLoaded(q)) \/ Become(p, Return(q, TRUE))
         \/ ~q.test /\ Become(p, Goto(q, "mount"))
  BY DEF load_binfmt_misc, MountBinfmtMisc, At
<1> HIDE DEF q
<1>3. \/ proc'[p] = MiscLoaded(q) \/ proc'[p] = Return(q, TRUE)
      \/ ~q.test /\ proc'[p] = Goto(q, "mount")
  BY <1>2, BecomeFields
<1>4. QED
  BY <1>1, <1>2, <1>3, MiscLoadedFields, ReturnFields, GotoFields DEF q

LEMMA ExistsAfter ==
    ASSUME Inv, NEW p \in Procs, EnableExists(p)
    PROVE  /\ UNCHANGED <<kernelVars, admin>>
           /\ \E q : Become(p, q)
           /\ proc[p].pc = "exists"
           /\ \/ Left(proc[p], proc'[p])
              \/ Moved(proc[p], proc'[p], "scan")
<1> DEFINE q == proc[p]
<1>1. q \in Process
  BY InvSound DEF Sound
<1>2. /\ UNCHANGED <<kernelVars, admin>> /\ q.pc = "exists"
      /\ Become(p, Return(q, TRUE)) \/ Become(p, Goto(q, "scan"))
  BY DEF EnableExists, At
<1> HIDE DEF q
<1>3. proc'[p] = Return(q, TRUE) \/ proc'[p] = Goto(q, "scan")
  BY <1>2, BecomeFields
<1>4. QED
  BY <1>1, <1>2, <1>3, ReturnFields, GotoFields DEF q

\* What the scan has read: the table holds what it held, or the files.
Reads(q, table) ==
    \A n \in FormatNames :
        \/ table[n] = q.formats[n]
        \/ q.formats[n] = NULL /\ table[n] = Loaded(n)

LEMMA TableReads ==
    ASSUME Inv, NEW q \in Process
    PROVE  /\ \A n : Reads(q, load_format(q.formats, n))
           /\ Reads(q, load_all_formats(q.formats))
           /\ \A n : Reads(q, load_all_formats(load_format(q.formats, n)))
<1>1. q.formats \in Cache
  BY DEF Process
<1>2. ASSUME NEW n
      PROVE  Reads(q, load_format(q.formats, n))
  BY <1>1 DEF Reads, load_format, kvhash_insert, Cache
<1>3. Reads(q, load_all_formats(q.formats))
  BY <1>1 DEF Reads, load_all_formats
<1>4. ASSUME NEW n
      PROVE  Reads(q, load_all_formats(load_format(q.formats, n)))
  <2> DEFINE table == load_format(q.formats, n)
  <2>1. Reads(q, table)
    BY <1>2
  <2> HIDE DEF table
  <2>2. \A f \in FormatNames :
           \/ load_all_formats(table)[f] = table[f]
           \/ table[f] = NULL /\ load_all_formats(table)[f] = Loaded(f)
    BY DEF load_all_formats
  <2>3. QED
    BY <2>1, <2>2 DEF Reads, table
<1>5. QED
  BY <1>2, <1>3, <1>4

LEMMA ScanAfter ==
    ASSUME Inv, NEW p \in Procs, EnableScan(p)
    PROVE  /\ UNCHANGED <<kernelVars, admin>>
           /\ \E q : Become(p, q)
           /\ proc[p].pc = "scan"
           /\ \/ Left(proc[p], proc'[p])
              \/ \E table, todo :
                    /\ Goes(proc[p], proc'[p], "register", proc[p].name,
                            proc[p].new, table, todo)
                    /\ Reads(proc[p], table)
                    /\ table[proc[p].name] # NULL
                    /\ proc[p].mode # "enableall" => todo = proc[p].todo
<1> DEFINE q == proc[p]
           n == q.name
           table == load_format(q.formats, n)
           all == load_all_formats(table)
           fresh == IF q.mode = "enableall" THEN Keys(all) \ Keys(q.formats)
                    ELSE {}
<1>1. q \in Process /\ q.pc = "scan" /\ n \in FormatNames
  BY InvSound DEF EnableScan, At, Sound, Control
<1>2. UNCHANGED <<kernelVars, admin>>
  BY DEF EnableScan
<1>3. Reads(q, table) /\ Reads(q, all)
  BY <1>1, TableReads
<1>4. table[n] # NULL => all[n] # NULL
  BY <1>1 DEF load_all_formats
<1>5. ASSUME NEW t, NEW need, NEW more
      PROVE  /\ Goes(q, Scanned(q, t, need), "register", q.name, q.new, t,
                     q.todo)
             /\ Goes(q, [Scanned(q, t, need) EXCEPT !.todo = @ \cup more],
                     "register", q.name, q.new, t, q.todo \cup more)
  <2> DEFINE r == regstring(t[q.name], need)
             new == [q EXCEPT !.pc = "register", !.formats = t, !.reg = r]
  <2> HIDE DEF r
  <2>1. /\ Goes(q, new, "register", q.name, q.new, t, q.todo)
        /\ Goes(q, [new EXCEPT !.todo = @ \cup more], "register", q.name,
                q.new, t, q.todo \cup more)
    BY <1>1 DEF Process, Goes
  <2>2. QED
    BY <2>1 DEF Scanned, r
<1>6. \/ Become(p, Exited("2")) \/ Become(p, Exited("segv"))
      \/ Become(p, Return(q, FALSE))
      \/ table[n] # NULL /\ Become(p, Scanned(q, table, TRUE))
      \/ /\ table[n] # NULL
         /\ \E more \in SUBSET fresh :
               Become(p, [Scanned(q, all, Equal(all, n)) EXCEPT
                             !.todo = @ \cup more])
  BY Zenon DEF EnableScan
<1>7. q.mode # "enableall" => \A more \in SUBSET fresh : q.todo \cup more = q.todo
  OBVIOUS
<1> HIDE DEF q, n, table, all, fresh
<1>8. \/ proc'[p] = Exited("2") \/ proc'[p] = Exited("segv")
      \/ proc'[p] = Return(q, FALSE)
      \/ table[n] # NULL /\ proc'[p] = Scanned(q, table, TRUE)
      \/ /\ table[n] # NULL
         /\ \E more \in SUBSET fresh :
               proc'[p] = [Scanned(q, all, Equal(all, n)) EXCEPT
                              !.todo = @ \cup more]
  BY <1>6, BecomeFields
<1>9. \E s : Become(p, s)
  BY <1>6
<1>10. CASE \/ proc'[p] = Exited("2") \/ proc'[p] = Exited("segv")
            \/ proc'[p] = Return(q, FALSE)
  <2>1. Left(q, proc'[p])
    BY <1>1, <1>10, ReturnFields, ExitedFields DEF Left
  <2>2. QED
    BY <1>1, <1>2, <1>9, <2>1 DEF q
<1>11. CASE table[n] # NULL /\ proc'[p] = Scanned(q, table, TRUE)
  BY <1>1, <1>2, <1>3, <1>5, <1>9, <1>11 DEF q, n
<1>12. ASSUME table[n] # NULL, NEW more \in SUBSET fresh,
              proc'[p] = [Scanned(q, all, Equal(all, n)) EXCEPT
                            !.todo = @ \cup more]
       PROVE  /\ Goes(q, proc'[p], "register", n, q.new, all, q.todo \cup more)
              /\ Reads(q, all) /\ all[n] # NULL
              /\ q.mode # "enableall" => q.todo \cup more = q.todo
  BY <1>3, <1>4, <1>5, <1>7, <1>12 DEF n
<1>13. QED
  BY <1>1, <1>2, <1>8, <1>9, <1>10, <1>11, <1>12 DEF q, n

LEMMA RegisterAfter ==
    ASSUME Inv, NEW p \in Procs, EnableRegister(p)
    PROVE  /\ UNCHANGED admin
           /\ \E q : Become(p, q)
           /\ proc[p].pc = "register"
           /\ Left(proc[p], proc'[p])
           /\ \/ UNCHANGED kernelVars
              \/ /\ ~proc[p].test
                 /\ KernelRegister(proc[p].name, proc[p].reg)
                 /\ UNCHANGED manual
<1> DEFINE q == proc[p]
<1>1. q \in Process
  BY InvSound DEF Sound
<1>2. Become(p, Return(q, TRUE)) \/ Become(p, Return(q, FALSE))
  BY DEF EnableRegister
<1>3. /\ UNCHANGED admin /\ q.pc = "register"
      /\ \/ UNCHANGED kernelVars
         \/ ~q.test /\ KernelRegister(q.name, q.reg) /\ UNCHANGED manual
  BY DEF EnableRegister, At
<1>4. proc'[p] = Return(q, TRUE) \/ proc'[p] = Return(q, FALSE)
  BY <1>2, BecomeFields
<1>5. Left(q, proc'[p])
  BY <1>1, <1>4, ReturnFields
<1>6. QED
  BY <1>2, <1>3, <1>5

----------------------------------------------------------------------------
(***************************************************************************)
(* act_disable and the loops.                                              *)
(***************************************************************************)
LEMMA DisableAfter ==
    ASSUME Inv, NEW p \in Procs, DisableExists(p)
    PROVE  /\ UNCHANGED <<kernelVars, admin>>
           /\ \E q : Become(p, q)
           /\ proc[p].pc = "disable"
           /\ \/ /\ proc[p].name = NULL /\ procfs # "absent"
                 /\ Moved(proc[p], proc'[p], "loadall")
              \/ /\ ~proc[p].test /\ proc[p].name # NULL
                 /\ Moved(proc[p], proc'[p], "diswrite")
              \/ /\ \/ procfs = "absent"
                    \/ proc[p].test \/ ~ProcEntry(proc[p].name)
                 /\ AfterDisable(proc[p], proc'[p])
<1> DEFINE q == proc[p]
<1>1. q \in Process
  BY InvSound DEF Sound
<1>2. /\ UNCHANGED <<kernelVars, admin>> /\ q.pc = "disable"
      /\ \/ /\ q.name = NULL /\ procfs # "absent"
            /\ Become(p, Goto(q, "loadall"))
         \/ /\ ~q.test /\ q.name # NULL /\ Become(p, Goto(q, "diswrite"))
         \/ /\ procfs = "absent" \/ q.test \/ ~ProcEntry(q.name)
            /\ Become(p, Disabled(q, TRUE))
  BY DEF DisableExists, At
<1> HIDE DEF q
<1>3. \/ /\ q.name = NULL /\ procfs # "absent"
         /\ proc'[p] = Goto(q, "loadall")
      \/ ~q.test /\ q.name # NULL /\ proc'[p] = Goto(q, "diswrite")
      \/ /\ procfs = "absent" \/ q.test \/ ~ProcEntry(q.name)
         /\ proc'[p] = Disabled(q, TRUE)
  BY <1>2, BecomeFields
<1>4. QED
  BY <1>1, <1>2, <1>3, GotoFields, DisabledFields DEF q

LEMMA DisableWriteAfter ==
    ASSUME Inv, NEW p \in Procs, DisableWrite(p)
    PROVE  /\ UNCHANGED admin
           /\ \E q : Become(p, q)
           /\ proc[p].pc = "diswrite"
           /\ \/ /\ KernelUnregister(proc[p].name)
                 /\ Moved(proc[p], proc'[p], "discheck")
              \/ /\ UNCHANGED kernelVars
                 /\ ~ProcEntry(proc[p].name) \/ Fault("unregister")
                 /\ Left(proc[p], proc'[p])
<1> DEFINE q == proc[p]
<1>1. q \in Process
  BY InvSound DEF Sound
<1>2. /\ UNCHANGED admin /\ q.pc = "diswrite"
      /\ \/ KernelUnregister(q.name) /\ Become(p, Goto(q, "discheck"))
         \/ /\ UNCHANGED kernelVars
            /\ ~ProcEntry(q.name) \/ Fault("unregister")
            /\ Become(p, Return(q, FALSE))
  BY DEF DisableWrite, Disabled, At
<1> HIDE DEF q
<1>3. \/ KernelUnregister(q.name) /\ proc'[p] = Goto(q, "discheck")
      \/ /\ UNCHANGED kernelVars
         /\ ~ProcEntry(q.name) \/ Fault("unregister")
         /\ proc'[p] = Return(q, FALSE)
  BY <1>2, BecomeFields
<1>4. QED
  BY <1>1, <1>2, <1>3, GotoFields, ReturnFields DEF q

LEMMA DisableCheckAfter ==
    ASSUME Inv, NEW p \in Procs, DisableCheck(p)
    PROVE  /\ UNCHANGED <<kernelVars, admin>>
           /\ \E q : Become(p, q)
           /\ proc[p].pc = "discheck"
           /\ \/ Left(proc[p], proc'[p])
              \/ /\ ~ProcEntry(proc[p].name)
                 /\ AfterDisable(proc[p], proc'[p])
<1> DEFINE q == proc[p]
<1>1. q \in Process
  BY InvSound DEF Sound
<1>2. /\ UNCHANGED <<kernelVars, admin>> /\ q.pc = "discheck"
      /\ \/ Become(p, Return(q, FALSE))
         \/ ~ProcEntry(q.name) /\ Become(p, Disabled(q, TRUE))
  <2>1. CASE ProcEntry(q.name)
    BY <2>1 DEF DisableCheck, Disabled, At
  <2>2. CASE ~ProcEntry(q.name)
    <3>1. (~ProcEntry(q.name)) = TRUE
      BY <2>2
    <3>2. QED
      BY <2>2, <3>1 DEF DisableCheck, At
  <2>3. QED
    BY <2>1, <2>2
<1> HIDE DEF q
<1>3. \/ proc'[p] = Return(q, FALSE)
      \/ ~ProcEntry(q.name) /\ proc'[p] = Disabled(q, TRUE)
  BY <1>2, BecomeFields
<1>4. QED
  BY <1>1, <1>2, <1>3, ReturnFields, DisabledFields DEF q

LEMMA LoadAllAfter ==
    ASSUME Inv, NEW p \in Procs, LoadAll(p)
    PROVE  /\ UNCHANGED <<kernelVars, admin>>
           /\ \E q : Become(p, q)
           /\ proc[p].pc = "loadall" /\ proc[p].name = NULL
           /\ \/ Ended(proc'[p])
              \/ LET table == load_all_formats(proc[p].formats) IN
                 Goes(proc[p], proc'[p], "loop", NULL, proc[p].new, table,
                      Keys(table))
<1> DEFINE q == proc[p]
           table == load_all_formats(q.formats)
           keys == Keys(table)
           new == [q EXCEPT !.pc = "loop", !.formats = table, !.todo = keys]
<1>1. q \in Process /\ q.pc = "loadall" /\ q.name = NULL
  BY InvSound DEF LoadAll, At, Sound, Control
<1>2. UNCHANGED <<kernelVars, admin>>
  BY DEF LoadAll
<1>3. Become(p, Exited("2")) \/ Become(p, new)
  BY DEF LoadAll
<1> HIDE DEF table, keys
<1>4. Goes(q, new, "loop", NULL, q.new, table, keys)
  BY <1>1 DEF Process, Goes
<1> HIDE DEF new
<1>5. proc'[p] = Exited("2") \/ proc'[p] = new
  BY <1>3, BecomeFields
<1>6. Ended(proc'[p]) \/ Goes(q, proc'[p], "loop", NULL, q.new, table, keys)
  BY <1>4, <1>5, ExitedFields
<1>7. QED
  BY <1>1, <1>2, <1>3, <1>6 DEF table, keys

LEMMA LoopAfter ==
    ASSUME Inv, NEW p \in Procs, Loop(p)
    PROVE  /\ UNCHANGED <<kernelVars, admin>>
           /\ \E q : Become(p, q)
           /\ proc[p].pc = "loop"
           /\ \/ Ended(proc'[p])
              \/ /\ proc[p].mode = "disableall" /\ proc[p].todo = {}
                 /\ Moved(proc[p], proc'[p], "unload")
              \/ \E n \in proc[p].todo :
                    LET label == LoopBody(proc[p], n) IN
                    Goes(proc[p], proc'[p], label,
                         IF label = "loop" THEN NULL ELSE n, proc[p].new,
                         proc[p].formats, proc[p].todo \ {n})
<1> DEFINE q == proc[p]
           Turn(n) == [q EXCEPT !.pc = LoopBody(q, n), !.todo = @ \ {n},
                                !.name = IF LoopBody(q, n) = "loop" THEN NULL
                                         ELSE n]
<1>1. q \in Process /\ q.pc = "loop"
  BY InvSound DEF Loop, At, Sound
<1>2. UNCHANGED <<kernelVars, admin>>
  BY DEF Loop
<1>3. \/ \E n \in q.todo : Become(p, Turn(n))
      \/ Become(p, Finish(q.worked))
      \/ /\ q.mode = "disableall" /\ q.todo = {}
         /\ Become(p, Goto(q, "unload"))
  BY Zenon DEF Loop
<1>4. ASSUME NEW n
      PROVE  Goes(q, Turn(n), LoopBody(q, n),
                  IF LoopBody(q, n) = "loop" THEN NULL ELSE n, q.new,
                  q.formats, q.todo \ {n})
  <2> DEFINE label == LoopBody(q, n)
             name == IF label = "loop" THEN NULL ELSE n
  <2> HIDE DEF label, name
  <2>1. Goes(q, [q EXCEPT !.pc = label, !.todo = @ \ {n}, !.name = name],
             label, name, q.new, q.formats, q.todo \ {n})
    BY <1>1 DEF Process, Goes
  <2>2. QED
    BY <2>1 DEF label, name
<1> HIDE DEF Turn, q
<1>5. \/ \E n \in q.todo : proc'[p] = Turn(n)
      \/ proc'[p] = Finish(q.worked)
      \/ /\ q.mode = "disableall" /\ q.todo = {}
         /\ proc'[p] = Goto(q, "unload")
  BY <1>3, BecomeFields
<1>6. \E s : Become(p, s)
  BY <1>3
<1>7. CASE \E n \in q.todo : proc'[p] = Turn(n)
  BY <1>1, <1>2, <1>4, <1>6, <1>7 DEF q
<1>8. CASE proc'[p] = Finish(q.worked)
  BY <1>1, <1>2, <1>6, <1>8, ExitedFields DEF q
<1>9. CASE /\ q.mode = "disableall" /\ q.todo = {}
           /\ proc'[p] = Goto(q, "unload")
  BY <1>1, <1>2, <1>6, <1>9, GotoFields DEF q
<1>10. QED
  BY <1>5, <1>7, <1>8, <1>9

LEMMA UnloadAfter ==
    ASSUME Inv, NEW p \in Procs, unload_binfmt_misc(p)
    PROVE  /\ UNCHANGED admin
           /\ \E q : Become(p, q)
           /\ proc[p].pc = "unload"
           /\ Ended(proc'[p])
           /\ \/ UNCHANGED kernelVars
              \/ ~proc[p].test /\ KernelUmount
<1>1. Become(p, Finish(proc[p].worked))
  BY DEF unload_binfmt_misc
<1>2. proc'[p] = Finish(proc[p].worked)
  BY <1>1, BecomeFields
<1>3. Ended(proc'[p])
  BY <1>2, ExitedFields
<1>4. QED
  BY <1>1, <1>3 DEF unload_binfmt_misc, At

----------------------------------------------------------------------------
(***************************************************************************)
(* act_install.  Its steps take the names of files away from the others,   *)
(* and nothing else.                                                       *)
(***************************************************************************)
OthersStay(p) ==
    \A r \in Procs \ {p} : Moved(proc[r], proc'[r], proc[r].pc)

OnlyFile(f) == \A g \in FormatNames \ {f} : admin'[g] = admin[g]

LEMMA BecomeStay ==
    ASSUME Inv, NEW p \in Procs, NEW q, Become(p, q)
    PROVE  OthersStay(p)
BY BecomeFields DEF OthersStay, Moved, Tabled, Goes

LEMMA RelinkStay ==
    ASSUME Inv, NEW p \in Procs,
           \A r \in Procs \ {p} :
              proc'[r] = proc[r] \/ \E to : proc'[r] = [proc[r] EXCEPT !.fd = to]
    PROVE  OthersStay(p)
<1> SUFFICES ASSUME NEW r \in Procs \ {p}
             PROVE  Moved(proc[r], proc'[r], proc[r].pc)
  BY DEF OthersStay
<1>1. proc[r] \in Process
  BY InvSound DEF Sound
<1>2. \A to : Moved(proc[r], [proc[r] EXCEPT !.fd = to], proc[r].pc)
  BY <1>1 DEF Process, Moved, Tabled, Goes
<1>3. Moved(proc[r], proc[r], proc[r].pc)
  BY DEF Moved, Tabled, Goes
<1>4. QED
  BY <1>2, <1>3

LEMMA RelinkedStay ==
    ASSUME Inv, NEW p \in Procs, NEW q, NEW from, NEW to,
           proc' = [Relinked(from, to) EXCEPT ![p] = q]
    PROVE  OthersStay(p) /\ proc'[p] = q
<1>1. \A r \in Procs \ {p} :
         proc'[r] = proc[r] \/ proc'[r] = [proc[r] EXCEPT !.fd = to]
  BY DEF Relinked
<1>2. proc'[p] = q
  BY DEF Relinked
<1>3. QED
  BY <1>1, <1>2, RelinkStay

LEMMA InstallLoadAfter ==
    ASSUME Inv, NEW p \in Procs, InstallLoad(p)
    PROVE  LET table == load_format(proc[p].formats, proc[p].name)
               old == table[proc[p].name] IN
           /\ UNCHANGED <<kernelVars, admin>>
           /\ \E q : Become(p, q)
           /\ proc[p].pc = "install"
           /\ \/ Left(proc[p], proc'[p])
              \/ /\ old # NULL => /\ proc[p].new # NULL
                                  /\ proc[p].new.package = old.package
                 /\ IF is_file(proc[p].name)
                    THEN Tabled(proc[p], proc'[p], "disable", table)
                    ELSE Tabled(proc[p], proc'[p], "manual", table)
<1> DEFINE q == proc[p]
           table == load_format(q.formats, q.name)
           old == table[q.name]
           new(label) == [q EXCEPT !.formats = table, !.pc = label]
<1>1. q \in Process
  BY InvSound DEF Sound
<1>2. UNCHANGED <<kernelVars, admin>> /\ q.pc = "install"
  BY DEF InstallLoad, At
<1>3. \/ Become(p, Exited("segv")) \/ Become(p, Return(q, FALSE))
      \/ /\ old # NULL => q.new # NULL /\ q.new.package = old.package
         /\ Become(p, new(IF is_file(q.name) THEN "disable" ELSE "manual"))
  BY DEF InstallLoad
<1> HIDE DEF table
<1>4. \A label : Tabled(q, new(label), label, table)
  BY <1>1, GotoFields
<1> HIDE DEF new, old, q
<1>5. \E s : Become(p, s)
  BY <1>3
<1>6. CASE Become(p, Exited("segv")) \/ Become(p, Return(q, FALSE))
  <2>1. Left(q, proc'[p])
    BY <1>1, <1>6, BecomeFields, ExitedFields, ReturnFields DEF Left
  <2>2. QED
    BY <1>2, <1>5, <2>1 DEF q
<1>7. CASE /\ old # NULL => q.new # NULL /\ q.new.package = old.package
           /\ Become(p, new(IF is_file(q.name) THEN "disable" ELSE "manual"))
  <2>1. proc'[p] = new(IF is_file(q.name) THEN "disable" ELSE "manual")
    BY <1>7, BecomeFields
  <2>2. IF is_file(q.name) THEN Tabled(q, proc'[p], "disable", table)
        ELSE Tabled(q, proc'[p], "manual", table)
    BY <1>4, <2>1
  <2>3. QED
    BY <1>2, <1>5, <1>7, <2>2 DEF q, table, old
<1>8. QED
  BY <1>3, <1>6, <1>7

LEMMA ManualAfter ==
    ASSUME Inv, NEW p \in Procs, InstallManual(p)
    PROVE  /\ UNCHANGED <<kernelVars, admin>>
           /\ \E q : Become(p, q)
           /\ proc[p].pc = "manual"
           /\ \/ Left(proc[p], proc'[p])
              \/ /\ ~proc[p].test /\ ~ProcEntry(proc[p].name)
                 /\ Moved(proc[p], proc'[p], "open")
              \/ /\ proc[p].test
                 /\ Tabled(proc[p], proc'[p], "misc",
                           kvhash_insert(proc[p].formats, proc[p].name,
                                         proc[p].new))
<1> DEFINE q == proc[p]
           table == kvhash_insert(q.formats, q.name, q.new)
           new == [q EXCEPT !.pc = "misc", !.formats = table]
<1>1. q \in Process
  BY InvSound DEF Sound
<1>2. UNCHANGED <<kernelVars, admin>> /\ q.pc = "manual"
  BY DEF InstallManual, At
<1>3. \/ Become(p, Exited("segv")) \/ Become(p, Return(q, TRUE))
      \/ ~q.test /\ ~ProcEntry(q.name) /\ Become(p, Goto(q, "open"))
      \/ q.test /\ Become(p, new)
  <2>1. [q EXCEPT !.pc = "misc",
                  !.formats = kvhash_insert(@, q.name, q.new)] = new
    OBVIOUS
  <2>2. QED
    BY <2>1 DEF InstallManual
<1> HIDE DEF table
<1>4. Tabled(q, new, "misc", table)
  BY <1>1, GotoFields
<1> HIDE DEF new, q
<1>5. \E s : Become(p, s)
  BY <1>3
<1>6. \/ proc'[p] = Exited("segv") \/ proc'[p] = Return(q, TRUE)
      \/ ~q.test /\ ~ProcEntry(q.name) /\ proc'[p] = Goto(q, "open")
      \/ q.test /\ proc'[p] = new
  BY <1>3, BecomeFields
<1>7. \/ Left(q, proc'[p])
      \/ ~q.test /\ ~ProcEntry(q.name) /\ Moved(q, proc'[p], "open")
      \/ q.test /\ Tabled(q, proc'[p], "misc", table)
  BY <1>1, <1>4, <1>6, ExitedFields, ReturnFields, GotoFields DEF Left
<1>8. QED
  BY <1>2, <1>5, <1>7 DEF q, table

LEMMA OpenAfter ==
    ASSUME Inv, NEW p \in Procs, WriteOpen(p)
    PROVE  /\ UNCHANGED kernelVars /\ OthersStay(p)
           /\ proc[p].pc = "open"
           /\ OnlyFile(Tmp[proc[p].name])
           /\ \/ Left(proc[p], proc'[p])
              \/ Moved(proc[p], proc'[p], "fill")
<1> DEFINE q == proc[p]
           tmp == Tmp[q.name]
           new == [q EXCEPT !.pc = "fill", !.fd = tmp]
<1>1. q \in Process /\ q.pc = "open" /\ UNCHANGED kernelVars
  BY InvSound DEF WriteOpen, At, Sound
<1>2. OnlyFile(tmp)
  <2>1. admin \in [FormatNames -> File]
    BY DEF Inv, TypeOK
  <2>2. \/ admin' = [admin EXCEPT ![tmp] = <<>>] \/ UNCHANGED admin
        \/ admin' = [admin EXCEPT ![tmp] = NULL]
    BY DEF WriteOpen, TmpName
  <2>3. QED
    BY <2>1, <2>2 DEF OnlyFile
<1>3. Moved(q, new, "fill")
  BY <1>1 DEF Process, Moved, Tabled, Goes
<1>4. Left(q, Return(q, FALSE))
  BY <1>1, ReturnFields
<1>5. \/ proc' = [Relinked(tmp, NULL) EXCEPT ![p] = new]
      \/ Become(p, Return(q, FALSE))
      \/ proc' = [Relinked(tmp, NULL) EXCEPT ![p] = Return(q, FALSE)]
  BY DEF WriteOpen, TmpName
<1> HIDE DEF new, q, tmp
<1>6. OthersStay(p) /\ (proc'[p] = new \/ proc'[p] = Return(q, FALSE))
  <2>1. ASSUME NEW s, proc' = [Relinked(tmp, NULL) EXCEPT ![p] = s]
        PROVE  OthersStay(p) /\ proc'[p] = s
    BY <2>1, RelinkedStay
  <2>2. ASSUME NEW s, Become(p, s)
        PROVE  OthersStay(p) /\ proc'[p] = s
    BY <2>2, BecomeStay, BecomeFields
  <2>3. QED
    BY <1>5, <2>1, <2>2
<1>7. QED
  BY <1>1, <1>2, <1>3, <1>4, <1>6 DEF q, tmp

LEMMA FillMoves ==
    ASSUME Inv, NEW p \in Procs, WriteFill(p)
    PROVE  /\ UNCHANGED kernelVars /\ \E q : Become(p, q)
           /\ proc[p].pc = "fill"
           /\ \/ Left(proc[p], proc'[p])
              \/ Moved(proc[p], proc'[p], "rename")
<1> DEFINE q == proc[p]
           new == [q EXCEPT !.pc = "rename", !.fd = NULL]
<1>1. q \in Process /\ q.pc = "fill" /\ UNCHANGED kernelVars
  BY InvSound DEF WriteFill, At, Sound
<1>2. Become(p, new) \/ Become(p, Exited("segv")) \/ Become(p, Return(q, FALSE))
  BY DEF WriteFill
<1>3. Moved(q, new, "rename")
  BY <1>1 DEF Process, Moved, Tabled, Goes
<1> HIDE DEF new
<1>4. \/ proc'[p] = new \/ proc'[p] = Exited("segv")
      \/ proc'[p] = Return(q, FALSE)
  BY <1>2, BecomeFields
<1>5. Left(q, proc'[p]) \/ Moved(q, proc'[p], "rename")
  BY <1>1, <1>3, <1>4, ExitedFields, ReturnFields DEF Left
<1>6. QED
  BY <1>1, <1>2, <1>5

LEMMA FillAfter ==
    ASSUME IntegrityInv, NEW p \in Procs, WriteFill(p)
    PROVE  /\ UNCHANGED kernelVars /\ \E q : Become(p, q)
           /\ proc[p].pc = "fill"
           /\ OnlyFile(Tmp[proc[p].name])
           /\ \/ Left(proc[p], proc'[p])
              \/ /\ proc[p].new # NULL
                 /\ admin'[Tmp[proc[p].name]] = binfmt_write(proc[p].new)
                 /\ Moved(proc[p], proc'[p], "rename")
<1> DEFINE q == proc[p]
           tmp == Tmp[q.name]
           new == [q EXCEPT !.pc = "rename", !.fd = NULL]
<1>0. Inv
  BY DEF IntegrityInv
<1>1. /\ q \in Process /\ q.pc = "fill" /\ Control(p, q) /\ q.fd = tmp
      /\ UNCHANGED kernelVars
  BY InvSound DEF WriteFill, At, Sound, IntegrityInv, Writing
<1>2. tmp \in FormatNames
  BY <1>1, RunAssumption, NamesAssumption DEF Control, Writers
<1>3. \/ /\ q.new # NULL
         /\ admin' = [admin EXCEPT ![tmp] = binfmt_write(q.new)]
         /\ Become(p, new)
      \/ /\ \/ UNCHANGED admin
            \/ \E lines : admin' = [admin EXCEPT ![tmp] = lines]
         /\ Become(p, Exited("segv")) \/ Become(p, Return(q, FALSE))
  BY <1>1, <1>2, NamesAssumption DEF WriteFill, Contents
<1>4. OnlyFile(tmp)
  <2>1. admin \in [FormatNames -> File]
    BY DEF IntegrityInv, Inv, TypeOK
  <2>2. QED
    BY <1>3, <2>1 DEF OnlyFile
<1>5. Moved(q, new, "rename")
  BY <1>1 DEF Process, Moved, Tabled, Goes
<1>6. \E s : Become(p, s)
  BY <1>3
<1>7. CASE /\ q.new # NULL
           /\ admin' = [admin EXCEPT ![tmp] = binfmt_write(q.new)]
           /\ Become(p, new)
  <2>1. admin'[tmp] = binfmt_write(q.new)
    BY <1>2, <1>7 DEF IntegrityInv, Inv, TypeOK
  <2> HIDE DEF new
  <2>2. proc'[p] = new
    BY <1>0, <1>7, BecomeFields
  <2>3. QED
    BY <1>1, <1>4, <1>5, <1>6, <1>7, <2>1, <2>2
<1>8. CASE Become(p, Exited("segv")) \/ Become(p, Return(q, FALSE))
  <2>1. proc'[p] = Exited("segv") \/ proc'[p] = Return(q, FALSE)
    BY <1>0, <1>8, BecomeFields
  <2>2. Left(q, proc'[p])
    BY <1>1, <2>1, ExitedFields, ReturnFields DEF Left
  <2>3. QED
    BY <1>1, <1>4, <1>6, <2>2
<1>9. QED
  BY <1>3, <1>7, <1>8

LEMMA RenameAfter ==
    ASSUME Inv, NEW p \in Procs, RenameTmp(p)
    PROVE  LET n == proc[p].name IN
           /\ UNCHANGED kernelVars /\ OthersStay(p)
           /\ proc[p].pc = "rename"
           /\ \/ Left(proc[p], proc'[p]) /\ UNCHANGED admin
              \/ /\ is_file(Tmp[n])
                 /\ admin' = [admin EXCEPT ![n] = admin[Tmp[n]], ![Tmp[n]] = NULL]
                 /\ Tabled(proc[p], proc'[p], "misc",
                           kvhash_insert(proc[p].formats, n, proc[p].new))
<1> DEFINE q == proc[p]
           n == q.name
           tmp == Tmp[n]
           table == kvhash_insert(q.formats, n, q.new)
           new == [q EXCEPT !.pc = "misc", !.formats = table]
           relinked == [r \in Procs |->
                          IF proc[r].fd = tmp THEN [proc[r] EXCEPT !.fd = n]
                          ELSE IF proc[r].fd = n THEN [proc[r] EXCEPT !.fd = NULL]
                          ELSE proc[r]]
<1>1. q \in Process /\ q.pc = "rename" /\ UNCHANGED kernelVars
  BY InvSound DEF RenameTmp, At, Sound
<1>2. \/ /\ is_file(tmp)
         /\ admin' = [admin EXCEPT ![n] = admin[tmp], ![tmp] = NULL]
         /\ proc' = [relinked EXCEPT ![p] = new]
      \/ UNCHANGED admin /\ Become(p, Return(q, FALSE))
  <2>1. [q EXCEPT !.pc = "misc", !.formats = kvhash_insert(@, n, q.new)] = new
    OBVIOUS
  <2>2. QED
    BY <2>1 DEF RenameTmp, TmpName
<1> HIDE DEF table
<1>3. Tabled(q, new, "misc", table)
  BY <1>1, GotoFields
<1>4. Left(q, Return(q, FALSE))
  BY <1>1, ReturnFields
<1> HIDE DEF new
<1>5. CASE /\ is_file(tmp)
           /\ admin' = [admin EXCEPT ![n] = admin[tmp], ![tmp] = NULL]
           /\ proc' = [relinked EXCEPT ![p] = new]
  <2>1. \A r \in Procs \ {p} :
           proc'[r] = proc[r] \/ \E to : proc'[r] = [proc[r] EXCEPT !.fd = to]
    <3> SUFFICES ASSUME NEW r \in Procs \ {p}
                 PROVE  \/ proc'[r] = proc[r]
                        \/ \E to : proc'[r] = [proc[r] EXCEPT !.fd = to]
      OBVIOUS
    <3>1. proc'[r] = relinked[r]
      BY <1>5
    <3>2. \/ relinked[r] = [proc[r] EXCEPT !.fd = n]
          \/ relinked[r] = [proc[r] EXCEPT !.fd = NULL]
          \/ relinked[r] = proc[r]
      OBVIOUS
    <3> HIDE DEF relinked
    <3>3. QED
      BY <3>1, <3>2, Zenon
  <2>2. OthersStay(p)
    BY <2>1, RelinkStay
  <2>3. proc'[p] = new
    BY <1>5
  <2>4. QED
    BY <1>1, <1>3, <1>5, <2>2, <2>3 DEF table
<1>6. CASE UNCHANGED admin /\ Become(p, Return(q, FALSE))
  <2>1. OthersStay(p) /\ proc'[p] = Return(q, FALSE)
    BY <1>6, BecomeFields, BecomeStay
  <2>2. QED
    BY <1>1, <1>4, <1>6, <2>1
<1>7. QED
  BY <1>2, <1>5, <1>6


----------------------------------------------------------------------------
(***************************************************************************)
(* act_remove, act_import, act_display.                                    *)
(***************************************************************************)
LEMMA RemoveLoadAfter ==
    ASSUME Inv, NEW p \in Procs, RemoveLoad(p)
    PROVE  LET table == load_format(proc[p].formats, proc[p].name)
               old == table[proc[p].name] IN
           /\ UNCHANGED <<kernelVars, admin>>
           /\ \E q : Become(p, q)
           /\ proc[p].pc = "remove"
           /\ \/ Left(proc[p], proc'[p])
              \/ /\ is_file(proc[p].name)
                 /\ old # NULL => old.package = proc[p].package
                 /\ Tabled(proc[p], proc'[p], "disable", table)
<1> DEFINE q == proc[p]
           table == load_format(q.formats, q.name)
           old == table[q.name]
           new == [q EXCEPT !.pc = "disable", !.formats = table]
<1>1. q \in Process /\ q.pc = "remove" /\ UNCHANGED <<kernelVars, admin>>
  BY InvSound DEF RemoveLoad, At, Sound
<1>2. \/ Become(p, Return(q, TRUE))
      \/ /\ is_file(q.name) /\ (old # NULL => old.package = q.package)
         /\ Become(p, new)
  BY DEF RemoveLoad
<1> HIDE DEF table
<1>3. Tabled(q, new, "disable", table)
  BY <1>1, GotoFields
<1>4. Left(q, Return(q, TRUE))
  BY <1>1, ReturnFields
<1> HIDE DEF new, old, q
<1>5. \E s : Become(p, s)
  BY <1>2
<1>6. \/ proc'[p] = Return(q, TRUE)
      \/ /\ is_file(q.name) /\ (old # NULL => old.package = q.package)
         /\ proc'[p] = new
  BY <1>2, BecomeFields
<1>7. QED
  BY <1>1, <1>3, <1>4, <1>5, <1>6 DEF q, old, table

LEMMA UnlinkAfter ==
    ASSUME Inv, NEW p \in Procs, RemoveUnlink(p)
    PROVE  /\ UNCHANGED kernelVars /\ OthersStay(p)
           /\ proc[p].pc = "unlink"
           /\ Left(proc[p], proc'[p])
           /\ \/ UNCHANGED admin
              \/ /\ ~proc[p].test /\ is_file(proc[p].name)
                 /\ admin' = [admin EXCEPT ![proc[p].name] = NULL]
<1> DEFINE q == proc[p]
           n == q.name
<1>1. q \in Process /\ q.pc = "unlink" /\ UNCHANGED kernelVars
  BY InvSound DEF RemoveUnlink, At, Sound
<1>2. \/ UNCHANGED admin /\ Become(p, Return(q, TRUE))
      \/ UNCHANGED admin /\ Become(p, Return(q, FALSE))
      \/ /\ ~q.test /\ is_file(n)
         /\ admin' = [admin EXCEPT ![n] = NULL]
         /\ proc' = [Relinked(n, NULL) EXCEPT ![p] = Return(q, TRUE)]
  BY DEF RemoveUnlink
<1>3. \A ok : Left(q, Return(q, ok))
  BY <1>1, ReturnFields
<1> HIDE DEF q, n
<1>4. ASSUME NEW s, proc' = [Relinked(n, NULL) EXCEPT ![p] = s]
      PROVE  OthersStay(p) /\ proc'[p] = s
  BY <1>4, RelinkedStay
<1>5. ASSUME NEW s, Become(p, s)
      PROVE  OthersStay(p) /\ proc'[p] = s
  BY <1>5, BecomeStay, BecomeFields
<1>6. OthersStay(p) /\ Left(q, proc'[p])
  BY <1>2, <1>3, <1>4, <1>5
<1>7. QED
  BY <1>1, <1>2, <1>6 DEF q, n

LEMMA ImportAfter ==
    ASSUME Inv, NEW p \in Procs, Import(p)
    PROVE  LET table == load_format(proc[p].formats, proc[p].name) IN
           /\ UNCHANGED <<kernelVars, admin>>
           /\ \E q : Become(p, q)
           /\ proc[p].pc = "import"
           /\ \/ Left(proc[p], proc'[p])
              \/ \E q : /\ Tabled(proc[p], q, "import", table)
                        /\ Left(q, proc'[p])
              \/ /\ ~Local(table, proc[p].name) /\ proc[p].name \notin Reserved
                 /\ \E new : Goes(proc[p], proc'[p], "install", proc[p].name,
                                  new, table, proc[p].todo)
<1> DEFINE q == proc[p]
           table == load_format(q.formats, q.name)
           loaded == [q EXCEPT !.formats = table]
           Describing(new) == [q EXCEPT !.pc = "install", !.formats = table,
                                        !.new = new]
<1>1. q \in Process /\ q.pc = "import" /\ UNCHANGED <<kernelVars, admin>>
  BY InvSound DEF Import, At, Sound
<1>2. \/ Become(p, ActReturn(q, FALSE)) \/ Become(p, ActReturn(loaded, TRUE))
      \/ Become(p, ActReturn(loaded, FALSE))
      \/ /\ ~Local(table, q.name) /\ q.name \notin Reserved
         /\ \E new : Become(p, Describing(new))
  BY DEF Import
<1>3. table \in Cache
  BY <1>1, TableType DEF Inv, Process
<1> HIDE DEF table
<1>4. loaded \in Process /\ Tabled(q, loaded, "import", table)
  BY <1>1, <1>3 DEF Process, Tabled, Goes
<1>5. \A new : Goes(q, Describing(new), "install", q.name, new, table, q.todo)
  BY <1>1 DEF Process, Goes
<1>6. \A ok : Left(q, ActReturn(q, ok)) /\ Left(loaded, ActReturn(loaded, ok))
  BY <1>1, <1>4, ReturnFields
<1> HIDE DEF q, loaded, Describing
<1>7. \E s : Become(p, s)
  BY <1>2
<1>8. \/ proc'[p] = ActReturn(q, FALSE) \/ proc'[p] = ActReturn(loaded, TRUE)
      \/ proc'[p] = ActReturn(loaded, FALSE)
      \/ /\ ~Local(table, q.name) /\ q.name \notin Reserved
         /\ \E new : proc'[p] = Describing(new)
  BY <1>2, BecomeFields
<1>9. \/ Left(q, proc'[p])
      \/ Tabled(q, loaded, "import", table) /\ Left(loaded, proc'[p])
      \/ /\ ~Local(table, q.name) /\ q.name \notin Reserved
         /\ \E new : Goes(q, proc'[p], "install", q.name, new, table, q.todo)
  BY <1>4, <1>5, <1>6, <1>8
<1>10. QED
  BY <1>1, <1>7, <1>9 DEF q, table

LEMMA DisplayAfter ==
    ASSUME Inv, NEW p \in Procs, Display(p)
    PROVE  /\ UNCHANGED <<kernelVars, admin>>
           /\ \E q : Become(p, q)
           /\ proc[p].pc = "display"
           /\ Ended(proc'[p])
<1>1. \E ok : Become(p, Finish(ok))
  BY DEF Display
<1>2. Ended(proc'[p])
  BY <1>1, BecomeFields, ExitedFields
<1>3. QED
  BY <1>1, <1>2 DEF Display, At

----------------------------------------------------------------------------
(***************************************************************************)
(* --test.  An invocation that only demonstrates never comes to a place    *)
(* where something is written: modprobe and mount, the removal of an       *)
(* entry, the temporary file and the rename are behind tests of the flag;  *)
(* the remaining steps test it where they write.                           *)
(***************************************************************************)
Dry(q) ==
    q.test => q.pc \notin {"mount", "diswrite", "discheck",
                           "open", "fill", "rename"}

DryInv == Inv /\ \A p \in Procs : Dry(proc[p])

\* The return of a function is dry.
LEMMA LeftDry ==
    ASSUME NEW q, NEW r, Left(q, r)
    PROVE  Dry(r)
BY DEF Left, Ended, Back, Goes, Dry

LEMMA EnableDry ==
    ASSUME DryInv, NEW p \in Procs,
           \/ load_binfmt_misc(p) \/ MountBinfmtMisc(p) \/ EnableExists(p)
           \/ EnableScan(p) \/ EnableRegister(p)
    PROVE  /\ Dry(proc'[p]) /\ OthersStay(p)
           /\ proc[p].test => UNCHANGED <<kernelVars, admin>>
<1>0. Inv /\ Dry(proc[p])
  BY DEF DryInv
<1>1. CASE load_binfmt_misc(p) \/ MountBinfmtMisc(p)
  <2>1. Dry(proc'[p]) /\ OthersStay(p) /\ UNCHANGED admin
    BY <1>0, <1>1, MiscAfter, LeftDry, BecomeStay
       DEF Dry, Moved, Tabled, Goes
  <2>2. proc[p].test => UNCHANGED kernelVars
    BY <1>0, <1>1 DEF load_binfmt_misc, MountBinfmtMisc, Dry, At
  <2>3. QED
    BY <2>1, <2>2
<1>2. CASE EnableExists(p)
  BY <1>0, <1>2, ExistsAfter, LeftDry, BecomeStay DEF Dry, Moved, Tabled, Goes
<1>3. CASE EnableScan(p)
  BY <1>0, <1>3, ScanAfter, LeftDry, BecomeStay DEF Dry, Goes
<1>4. CASE EnableRegister(p)
  BY <1>0, <1>4, RegisterAfter, LeftDry, BecomeStay DEF Dry
<1>5. QED
  BY <1>1, <1>2, <1>3, <1>4

LEMMA AfterDisableDry ==
    ASSUME NEW q, NEW r, AfterDisable(q, r)
    PROVE  Dry(r)
BY LeftDry DEF AfterDisable, Moved, Tabled, Goes, Dry

LEMMA DisableDry ==
    ASSUME DryInv, NEW p \in Procs,
           \/ DisableExists(p) \/ DisableWrite(p) \/ DisableCheck(p)
           \/ LoadAll(p) \/ Loop(p) \/ unload_binfmt_misc(p)
    PROVE  /\ Dry(proc'[p]) /\ OthersStay(p)
           /\ proc[p].test => UNCHANGED <<kernelVars, admin>>
<1>0. Inv /\ Dry(proc[p])
  BY DEF DryInv
<1>1. CASE DisableExists(p)
  BY <1>0, <1>1, DisableAfter, AfterDisableDry, BecomeStay
     DEF Dry, Moved, Tabled, Goes
<1>2. CASE DisableWrite(p)
  BY <1>0, <1>2, DisableWriteAfter, LeftDry, BecomeStay
     DEF Dry, Moved, Tabled, Goes
<1>3. CASE DisableCheck(p)
  BY <1>0, <1>3, DisableCheckAfter, LeftDry, AfterDisableDry, BecomeStay
<1>4. CASE LoadAll(p)
  BY <1>0, <1>4, LoadAllAfter, BecomeStay DEF Dry, Goes, Ended
<1>5. CASE Loop(p)
  <2>1. \A q, n : LoopBody(q, n) \in {"import", "misc", "disable", "loop"}
    BY DEF LoopBody
  <2>2. QED
    BY <1>0, <1>5, <2>1, LoopAfter, BecomeStay
       DEF Dry, Moved, Tabled, Goes, Ended
<1>6. CASE unload_binfmt_misc(p)
  BY <1>0, <1>6, UnloadAfter, BecomeStay DEF Dry, Ended
<1>7. QED
  BY <1>1, <1>2, <1>3, <1>4, <1>5, <1>6

LEMMA InstallDry ==
    ASSUME DryInv, NEW p \in Procs,
           \/ InstallLoad(p) \/ InstallManual(p)
           \/ WriteOpen(p) \/ WriteFill(p) \/ RenameTmp(p)
           \/ RemoveLoad(p) \/ RemoveUnlink(p) \/ Import(p) \/ Display(p)
    PROVE  /\ Dry(proc'[p]) /\ OthersStay(p)
           /\ proc[p].test => UNCHANGED <<kernelVars, admin>>
<1>0. Inv /\ Dry(proc[p])
  BY DEF DryInv
<1>1. CASE InstallLoad(p)
  BY <1>0, <1>1, InstallLoadAfter, LeftDry, BecomeStay DEF Dry, Tabled, Goes
<1>2. CASE InstallManual(p)
  BY <1>0, <1>2, ManualAfter, LeftDry, BecomeStay DEF Dry, Moved, Tabled, Goes
<1>3. CASE WriteOpen(p)
  BY <1>0, <1>3, OpenAfter, LeftDry DEF Dry, Moved, Tabled, Goes
<1>4. CASE WriteFill(p)
  BY <1>0, <1>4, FillMoves, LeftDry, BecomeStay DEF Dry, Moved, Tabled, Goes
<1>5. CASE RenameTmp(p)
  BY <1>0, <1>5, RenameAfter, LeftDry DEF Dry, Tabled, Goes
<1>6. CASE RemoveLoad(p)
  BY <1>0, <1>6, RemoveLoadAfter, LeftDry, BecomeStay DEF Dry, Tabled, Goes
<1>7. CASE RemoveUnlink(p)
  BY <1>0, <1>7, UnlinkAfter, LeftDry
<1>8. CASE Import(p)
  BY <1>0, <1>8, ImportAfter, LeftDry, BecomeStay DEF Dry, Goes
<1>9. CASE Display(p)
  BY <1>0, <1>9, DisplayAfter, BecomeStay DEF Dry, Ended
<1>10. QED
  BY <1>1, <1>2, <1>3, <1>4, <1>5, <1>6, <1>7, <1>8, <1>9

LEMMA StepDry ==
    ASSUME DryInv, NEW p \in Procs, Step(p)
    PROVE  /\ Dry(proc'[p]) /\ OthersStay(p)
           /\ proc[p].test => UNCHANGED <<kernelVars, admin>>
BY EnableDry, DisableDry, InstallDry DEF Step

LEMMA NextDry == DryInv /\ [Next]_vars => DryInv'
<1> SUFFICES ASSUME DryInv, [Next]_vars
             PROVE  DryInv'
  OBVIOUS
<1>1. Inv /\ Inv'
  BY NextSound DEF DryInv
<1>2. ASSUME NEW p \in Procs, OthersStay(p), Dry(proc'[p])
      PROVE  DryInv'
  BY <1>1, <1>2 DEF DryInv, OthersStay, Moved, Tabled, Goes, Dry
<1>3. ASSUME NEW p \in Procs, Start(p)
      PROVE  DryInv'
  <2>1. OthersStay(p)
    BY <1>1, <1>3, StartAfter, BecomeStay
  <2>2. Dry(proc'[p])
    BY <1>1, <1>3, StartAfter DEF Ended, Started, Dry
  <2>3. QED
    BY <1>2, <2>1, <2>2
<1>4. ASSUME NEW p \in Procs, Step(p)
      PROVE  DryInv'
  BY <1>2, <1>4, StepDry
<1>5. ASSUME NEW p \in Procs, Kill(p)
      PROVE  DryInv'
  <2>1. Become(p, Exited("killed"))
    BY <1>5 DEF Kill
  <2>2. Ended(proc'[p]) /\ OthersStay(p)
    BY <1>1, <2>1, BecomeFields, BecomeStay, ExitedFields
  <2>3. QED
    BY <1>2, <2>2 DEF Ended, Dry
<1>6. CASE Reboot
  <2>1. \A p \in Procs : proc'[p] = proc[p] \/ Ended(proc'[p])
    BY <1>6, ExitedFields DEF Reboot
  <2>2. QED
    BY <1>1, <2>1 DEF DryInv, Dry, Ended
<1>7. ASSUME UNCHANGED proc
      PROVE  DryInv'
  BY <1>1, <1>7 DEF DryInv, Dry
<1>8. QED
  BY <1>3, <1>4, <1>5, <1>6, <1>7 DEF Next, ManualRegister, ManualSwitchOff, vars

LEMMA InitDry == Init => DryInv
BY InitSound DEF Init, Idle, DryInv, Dry

\* --test changes nothing, neither a file nor the kernel, whatever command
\* it demonstrates, whatever else runs and fails: every write in act_enable,
\* act_disable, act_install and act_remove is behind the flag.
THEOREM TestChangesNothing == Spec => TestInert
<1>1. DryInv /\ [Next]_vars => TestStep
  <2> SUFFICES ASSUME DryInv, NEW p \in Procs, proc[p].test, Step(p)
               PROVE  UNCHANGED <<kernelVars, admin>>
    BY DEF TestStep
  <2>1. QED
    BY StepDry
<1>2. Spec => []DryInv
  BY InitDry, NextDry, PTL DEF Spec
<1>3. QED
  BY <1>1, <1>2, PTL DEF Spec, TestInert

----------------------------------------------------------------------------
(***************************************************************************)
(* A format belongs to the package its file names, and only a removal ends *)
(* that.  act_install and act_remove compare packages long before they     *)
(* touch the file, and with a table in memory rather than with the file:   *)
(* between the comparison and the rename or unlink lie the calls of        *)
(* act_disable.  The argument: what an invocation has in its table for a   *)
(* format that it may still replace agrees with the file, the description  *)
(* it has compared stays of the file's package until it is renamed into    *)
(* place, and no other invocation touches that file meanwhile (Exclusive). *)
(***************************************************************************)
\* Where act_install has compared the packages, and act_remove.
Replacing == {"disable", "diswrite", "discheck",
              "manual", "open", "fill", "rename"}

Removing == {"disable", "diswrite", "discheck", "unlink"}

\* The formats for which an invocation will look into its table: the one it
\* installs, and those --import has still to do.
Pending(q, n) ==
    \/ q.mode = "importall" /\ n \in q.todo
    \/ q.pc \in {"import", "install"} /\ n = q.name

Agrees(q, n) ==
    q.formats[n] # NULL /\ is_file(n) =>
        q.formats[n].package = Loaded(n).package

\* What the comparison in act_install has established, and that in act_import:
\* the description is of the file's package, which is not ":" in an import.
Replaces(q) ==
    is_file(q.name) =>
        /\ q.new # NULL
        /\ q.new.package = Loaded(q.name).package
        /\ q.mode \in Imports => Loaded(q.name).package # ":"

Written(q) ==
    is_file(Tmp[q.name]) =>
        q.new # NULL /\ admin[Tmp[q.name]] = binfmt_write(q.new)

Ownership(p, q) ==
    /\ q.pc = "idle" => q.mode = "none"
    /\ q.pc = "remove" => q.formats = NoTable
    /\ q.mode = "importall" => q.name \notin q.todo
    /\ \A n \in Writes[p] : Pending(q, n) => Agrees(q, n)
    /\ q.pc = "install" /\ q.mode \in Imports =>
          (is_file(q.name) => Loaded(q.name).package # ":")
    /\ q.pc \in Replacing /\ q.mode \in Installs => Replaces(q)
    /\ q.pc \in Removing /\ q.mode = "remove" =>
          (is_file(q.name) => Loaded(q.name).package = q.package)
    /\ q.pc = "rename" => Written(q)

OwnershipInv == IntegrityInv /\ \A p \in Procs : Ownership(p, proc[p])

----------------------------------------------------------------------------
\* A file of the database is a description, of a package that is a text.
LEMMA FileOwned ==
    ASSUME IntegrityInv, NEW n \in Names, is_file(n)
    PROVE  /\ Loaded(n) # NULL
           /\ Loaded(n).package \in Text
           /\ rtrim[Loaded(n).package] = Loaded(n).package
<1>1. admin[n] \in Seq(Text) /\ Len(admin[n]) = Len(Fields)
  BY NamesAssumption
     DEF IntegrityInv, Inv, TypeOK, File, DatabaseIntegrity, is_file
<1>2. Len(admin[n]) >= Mandatory
  BY <1>1 DEF Fields, Mandatory
<1>3. QED
  BY <1>1, <1>2, LoadTrimmed DEF Loaded

\* A file that a step does not touch reads as it did.
LEMMA SameFile ==
    ASSUME NEW f, admin'[f] = admin[f]
    PROVE  (is_file(f)' <=> is_file(f)) /\ Loaded(f)' = Loaded(f)
BY DEF is_file, Loaded

\* Nothing holds of an invocation that has ended.
LEMMA EndedOwned ==
    ASSUME NEW p \in Procs, Ended(proc'[p])
    PROVE  Ownership(p, proc[p])'
BY DEF Ended, Ownership, Pending, Replacing, Removing

\* At the labels at which no file is at stake, what matters is the table for
\* the formats --import has still to do.
LEMMA QuietOwned ==
    ASSUME OwnershipInv, NEW p \in Procs,
           proc'[p].pc \notin Replacing \cup Removing
              \cup {"idle", "import", "install", "remove"},
           proc'[p].mode = "importall" =>
              /\ proc[p].mode = "importall"
              /\ proc'[p].name \notin proc'[p].todo
              /\ \A n \in proc'[p].todo \cap Writes[p] :
                    /\ n \in proc[p].todo
                    /\ admin'[n] = admin[n]
                    /\ \/ proc'[p].formats[n] = proc[p].formats[n]
                       \/ proc'[p].formats[n] = Loaded(n)
    PROVE  Ownership(p, proc[p])'
<1>1. ASSUME NEW n \in Writes[p], proc'[p].mode = "importall",
             n \in proc'[p].todo
      PROVE  Agrees(proc[p], n)'
  <2>1. Agrees(proc[p], n)
    BY <1>1 DEF OwnershipInv, Ownership, Pending
  <2>2. (is_file(n)' <=> is_file(n)) /\ Loaded(n)' = Loaded(n)
    BY <1>1, SameFile
  <2>3. QED
    BY <1>1, <2>1, <2>2 DEF Agrees
<1>2. \A n \in Writes[p] : Pending(proc[p], n)' => Agrees(proc[p], n)'
  BY <1>1 DEF Pending
<1>3. proc'[p].mode = "importall" => proc'[p].name \notin proc'[p].todo
  OBVIOUS
<1>4. QED
  BY <1>2, <1>3 DEF Ownership, Replacing, Removing

\* The return of a function.
LEMMA LeftOwned ==
    ASSUME OwnershipInv, NEW p \in Procs, NEW q,
           Left(q, proc'[p]), proc[p].pc # "idle",
           q.mode = proc[p].mode, q.todo = proc[p].todo,
           proc[p].mode = "importall" =>
              \A n \in proc[p].todo \cap Writes[p] :
                 /\ admin'[n] = admin[n]
                 /\ \/ q.formats[n] = proc[p].formats[n]
                    \/ q.formats[n] = Loaded(n)
    PROVE  Ownership(p, proc[p])'
<1>1. CASE Ended(proc'[p])
  BY <1>1, EndedOwned
<1>2. CASE Back(q, proc'[p])
  <2>1. proc[p].todo \subseteq FormatNames \cup Reserved
    BY InvSound DEF OwnershipInv, IntegrityInv, Sound, Process
  <2>2. proc'[p].name \notin proc'[p].todo
    BY <1>2, <2>1, NamesAssumption DEF Back, Goes
  <2>3. proc'[p].pc = "loop"
    BY <1>2 DEF Back, Goes
  <2>4. /\ proc'[p].mode = proc[p].mode /\ proc'[p].todo = proc[p].todo
        /\ proc'[p].formats = q.formats
    BY <1>2 DEF Back, Goes
  <2>5. QED
    BY <2>2, <2>3, <2>4, QuietOwned DEF Replacing, Removing
<1>3. QED
  BY <1>1, <1>2 DEF Left

\* The other commands have no file at stake.
LEMMA ReaderOwned ==
    ASSUME NEW p \in Procs, proc'[p].mode \notin Writers,
           proc'[p].pc \notin {"idle", "import", "install", "remove"},
           proc'[p].pc = "rename" => Written(proc[p])'
    PROVE  Ownership(p, proc[p])'
BY DEF Ownership, Pending, Writers, Installs, Imports

\* Within act_disable and act_install nothing is read again: what has been
\* compared stays compared as long as the file stays.
LEMMA MovedOwned ==
    ASSUME OwnershipInv, NEW p \in Procs, NEW label,
           Moved(proc[p], proc'[p], label),
           proc[p].pc \in Replacing, proc[p].pc # "rename",
           label \in Replacing \cup Removing,
           label = "unlink" => proc[p].mode = "remove",
           label = "rename" => Written(proc[p])',
           OnlyFile(Tmp[proc[p].name])
    PROVE  Ownership(p, proc[p])'
<1> DEFINE q == proc[p]
           r == proc'[p]
<1>1. /\ r.pc = label /\ r.name = q.name /\ r.new = q.new /\ r.mode = q.mode
      /\ r.formats = q.formats /\ r.todo = q.todo /\ r.package = q.package
  BY DEF Moved, Tabled, Goes
<1>2. Ownership(p, q) /\ Control(p, q)
  BY DEF OwnershipInv, IntegrityInv, Inv
<1>3. CASE q.mode \notin Writers
  BY <1>1, <1>3, ReaderOwned DEF Replacing, Removing
<1>4. CASE q.mode \in Writers
  <2>1. q.name \in Writes[p] /\ q.name \in Names
    BY <1>2, <1>4, RunAssumption DEF Control, Replacing
  <2>2. \A n \in Names : admin'[n] = admin[n]
    BY <2>1, NamesAssumption DEF OnlyFile
  <2>3. \A n \in Names : (is_file(n)' <=> is_file(n)) /\ Loaded(n)' = Loaded(n)
    BY <2>2, SameFile
  <2>4. \A n \in Writes[p] : Pending(proc[p], n)' => Agrees(proc[p], n)'
    <3> SUFFICES ASSUME NEW n \in Writes[p], Pending(proc[p], n)'
                 PROVE  Agrees(proc[p], n)'
      OBVIOUS
    <3>1. q.mode = "importall" /\ n \in q.todo
      BY <1>1 DEF Pending, Replacing, Removing
    <3>2. Agrees(q, n)
      BY <1>2, <3>1 DEF Ownership, Pending
    <3>3. n \in Names
      BY RunAssumption
    <3>4. QED
      BY <1>1, <2>3, <3>2, <3>3 DEF Agrees
  <2>5. r.pc \in Replacing /\ r.mode \in Installs => Replaces(proc[p])'
    BY <1>1, <1>2, <2>1, <2>3 DEF Ownership, Replaces
  <2>6. r.pc \in Removing /\ r.mode = "remove" =>
           (is_file(proc[p].name) =>
              Loaded(proc[p].name).package = proc[p].package)'
    <3>1. q.mode = "remove" => q.pc \in Removing
      BY <1>2 DEF Control, Replacing, Removing, Installs, Imports
    <3>2. QED
      BY <1>1, <1>2, <2>1, <2>3, <3>1 DEF Ownership
  <2>7. r.mode = "importall" => r.name \notin r.todo
    BY <1>1, <1>2 DEF Ownership
  <2>8. r.pc \notin {"idle", "remove", "install"}
    BY <1>1 DEF Replacing, Removing
  <2>9. QED
    BY <1>1, <2>4, <2>5, <2>6, <2>7, <2>8 DEF Ownership
<1>5. QED
  BY <1>3, <1>4

LEMMA AfterDisableOwned ==
    ASSUME OwnershipInv, NEW p \in Procs, UNCHANGED admin,
           AfterDisable(proc[p], proc'[p]),
           proc[p].pc \in {"disable", "diswrite", "discheck"}
    PROVE  Ownership(p, proc[p])'
<1>1. CASE Left(proc[p], proc'[p])
  BY <1>1, LeftOwned
<1>2. OnlyFile(Tmp[proc[p].name])
  BY DEF OnlyFile
<1>3. CASE Moved(proc[p], proc'[p], "manual")
  BY <1>2, <1>3, MovedOwned DEF Replacing, Removing
<1>4. CASE proc[p].mode = "remove" /\ Moved(proc[p], proc'[p], "unlink")
  BY <1>2, <1>4, MovedOwned DEF Replacing, Removing
<1>5. QED
  BY <1>1, <1>3, <1>4 DEF AfterDisable

----------------------------------------------------------------------------
(***************************************************************************)
(* The steps, as the invocation that takes them sees them.                 *)
(***************************************************************************)
LEMMA EnableOwned ==
    ASSUME OwnershipInv, NEW p \in Procs,
           \/ load_binfmt_misc(p) \/ MountBinfmtMisc(p) \/ EnableExists(p)
           \/ EnableScan(p) \/ EnableRegister(p)
    PROVE  Ownership(p, proc[p])'
<1>0. Inv /\ Ownership(p, proc[p]) /\ Control(p, proc[p])
  BY DEF OwnershipInv, IntegrityInv, Inv
<1>1. ASSUME UNCHANGED admin, NEW label, Moved(proc[p], proc'[p], label),
             label \in {"mount", "loadall", "exists", "scan"}
      PROVE  Ownership(p, proc[p])'
  <2>1. /\ proc'[p].pc = label /\ proc'[p].name = proc[p].name
        /\ proc'[p].mode = proc[p].mode /\ proc'[p].todo = proc[p].todo
        /\ proc'[p].formats = proc[p].formats
    BY <1>1 DEF Moved, Tabled, Goes
  <2>2. proc'[p].mode = "importall" => proc'[p].name \notin proc'[p].todo
    BY <1>0, <2>1 DEF Ownership
  <2>3. QED
    BY <1>1, <2>1, <2>2, QuietOwned DEF Replacing, Removing
<1>2. ASSUME UNCHANGED admin, Left(proc[p], proc'[p]), proc[p].pc # "idle"
      PROVE  Ownership(p, proc[p])'
  BY <1>2, LeftOwned
<1>3. CASE load_binfmt_misc(p) \/ MountBinfmtMisc(p)
  BY <1>0, <1>1, <1>2, <1>3, MiscAfter
<1>4. CASE EnableExists(p)
  BY <1>0, <1>1, <1>2, <1>4, ExistsAfter
<1>5. CASE EnableScan(p)
  <2>1. CASE Left(proc[p], proc'[p])
    BY <1>0, <1>2, <1>5, <2>1, ScanAfter
  <2>2. ASSUME NEW table, NEW todo,
               Goes(proc[p], proc'[p], "register", proc[p].name,
                    proc[p].new, table, todo),
               Reads(proc[p], table),
               proc[p].mode # "enableall" => todo = proc[p].todo
        PROVE  Ownership(p, proc[p])'
    <3>1. /\ proc'[p].pc = "register" /\ proc'[p].name = proc[p].name
          /\ proc'[p].mode = proc[p].mode /\ proc'[p].todo = todo
          /\ proc'[p].formats = table
      BY <2>2 DEF Goes
    <3>2. UNCHANGED admin
      BY <1>5 DEF EnableScan
    <3>3. proc[p].mode = "importall" => proc[p].name \notin proc[p].todo
      BY <1>0 DEF Ownership
    <3>4. Writes[p] \subseteq FormatNames
      BY RunAssumption, NamesAssumption
    <3>5. \A n \in Writes[p] :
             proc'[p].formats[n] = proc[p].formats[n]
             \/ proc'[p].formats[n] = Loaded(n)
      BY <2>2, <3>1, <3>4 DEF Reads
    <3>6. proc'[p].mode = "importall" =>
             /\ proc[p].mode = "importall"
             /\ proc'[p].todo = proc[p].todo
             /\ proc'[p].name \notin proc'[p].todo
      BY <2>2, <3>1, <3>3
    <3>7. QED
      BY <3>1, <3>2, <3>5, <3>6, QuietOwned DEF Replacing, Removing
  <2>3. QED
    BY <1>0, <1>5, <2>1, <2>2, ScanAfter
<1>6. CASE EnableRegister(p)
  BY <1>0, <1>2, <1>6, RegisterAfter
<1>7. QED
  BY <1>3, <1>4, <1>5, <1>6

LEMMA DisableOwned ==
    ASSUME OwnershipInv, NEW p \in Procs,
           \/ DisableExists(p) \/ DisableWrite(p) \/ DisableCheck(p)
           \/ LoadAll(p) \/ Loop(p) \/ unload_binfmt_misc(p) \/ Display(p)
    PROVE  Ownership(p, proc[p])'
<1>0. Inv /\ Ownership(p, proc[p]) /\ Control(p, proc[p])
  BY DEF OwnershipInv, IntegrityInv, Inv
<1>1. ASSUME UNCHANGED admin, Left(proc[p], proc'[p]), proc[p].pc # "idle"
      PROVE  Ownership(p, proc[p])'
  BY <1>1, LeftOwned
<1>2. ASSUME UNCHANGED admin, NEW label, Moved(proc[p], proc'[p], label),
             proc[p].pc \in {"disable", "diswrite"},
             label \in {"diswrite", "discheck"}
      PROVE  Ownership(p, proc[p])'
  <2>1. OnlyFile(Tmp[proc[p].name])
    BY <1>2 DEF OnlyFile
  <2>2. QED
    BY <1>2, <2>1, MovedOwned DEF Replacing, Removing
<1>3. ASSUME proc[p].name = NULL, proc[p].pc \in {"disable", "loadall"}
      PROVE  proc[p].mode \notin Writers
  BY <1>0, <1>3, RunAssumption, NamesAssumption DEF Control
<1>4. CASE DisableExists(p)
  <2>1. CASE proc[p].name = NULL /\ Moved(proc[p], proc'[p], "loadall")
    <3>1. proc[p].mode \notin Writers
      BY <1>0, <1>3, <1>4, <2>1, DisableAfter
    <3>2. proc'[p].mode = proc[p].mode /\ proc'[p].pc = "loadall"
      BY <2>1 DEF Moved, Tabled, Goes
    <3>3. QED
      BY <3>1, <3>2, ReaderOwned
  <2>2. CASE Moved(proc[p], proc'[p], "diswrite")
    BY <1>0, <1>2, <1>4, <2>2, DisableAfter
  <2>3. CASE AfterDisable(proc[p], proc'[p])
    BY <1>0, <1>4, <2>3, DisableAfter, AfterDisableOwned
  <2>4. QED
    BY <1>0, <1>4, <2>1, <2>2, <2>3, DisableAfter
<1>5. CASE DisableWrite(p)
  BY <1>0, <1>1, <1>2, <1>5, DisableWriteAfter
<1>6. CASE DisableCheck(p)
  BY <1>0, <1>1, <1>6, DisableCheckAfter, AfterDisableOwned
<1>7. CASE LoadAll(p)
  <2>1. CASE Ended(proc'[p])
    BY <2>1, EndedOwned
  <2>2. CASE \E table, keys :
               Goes(proc[p], proc'[p], "loop", NULL, proc[p].new, table, keys)
    <3>1. proc[p].mode \notin Writers
      BY <1>0, <1>3, <1>7, LoadAllAfter
    <3>2. proc'[p].mode = proc[p].mode /\ proc'[p].pc = "loop"
      BY <2>2 DEF Goes
    <3>3. QED
      BY <3>1, <3>2, ReaderOwned
  <2>3. QED
    BY <1>0, <1>7, <2>1, <2>2, LoadAllAfter
<1>8. CASE Loop(p)
  <2>1. CASE Ended(proc'[p])
    BY <2>1, EndedOwned
  <2>2. CASE proc[p].mode = "disableall" /\ Moved(proc[p], proc'[p], "unload")
    <3>1. proc'[p].mode = "disableall" /\ proc'[p].pc = "unload"
      BY <2>2 DEF Moved, Tabled, Goes
    <3>2. QED
      BY <3>1, ReaderOwned DEF Writers, Installs, Imports
  <2>3. ASSUME NEW n \in proc[p].todo,
               Goes(proc[p], proc'[p], LoopBody(proc[p], n),
                    IF LoopBody(proc[p], n) = "loop" THEN NULL ELSE n,
                    proc[p].new, proc[p].formats, proc[p].todo \ {n})
        PROVE  Ownership(p, proc[p])'
    <3>1. CASE proc[p].mode = "importall"
      <4>1. LoopBody(proc[p], n) = "import"
        BY <3>1 DEF LoopBody
      <4>2. /\ proc'[p].pc = "import" /\ proc'[p].name = n
            /\ proc'[p].mode = "importall"
            /\ proc'[p].formats = proc[p].formats
            /\ proc'[p].todo = proc[p].todo \ {n}
        BY <2>3, <3>1, <4>1 DEF Goes
      <4>3. \A m : (is_file(m)' <=> is_file(m)) /\ Loaded(m)' = Loaded(m)
        BY <1>8, SameFile DEF Loop
      <4>4. ASSUME NEW m \in Writes[p], Pending(proc[p], m)'
            PROVE  Agrees(proc[p], m)'
        <5>1. m \in proc[p].todo
          BY <4>2, <4>4 DEF Pending
        <5>2. Agrees(proc[p], m)
          BY <1>0, <3>1, <5>1 DEF Ownership, Pending
        <5>3. QED
          BY <4>2, <4>3, <5>2 DEF Agrees
      <4>5. QED
        BY <4>2, <4>4 DEF Ownership, Replacing, Removing
    <3>2. CASE proc[p].mode # "importall"
      <4>1. proc'[p].pc \in {"misc", "disable", "loop"}
        BY <2>3, <3>2 DEF Goes, LoopBody
      <4>2. /\ proc'[p].mode = proc[p].mode
            /\ proc'[p].pc = "disable" => proc[p].mode = "disableall"
        BY <2>3, <3>2 DEF Goes, LoopBody
      <4>3. CASE proc'[p].pc = "disable"
        BY <4>2, <4>3, ReaderOwned DEF Writers, Installs, Imports
      <4>4. CASE proc'[p].pc # "disable"
        BY <3>2, <4>1, <4>2, <4>4, QuietOwned DEF Replacing, Removing
      <4>5. QED
        BY <4>3, <4>4
    <3>3. QED
      BY <3>1, <3>2
  <2>4. QED
    BY <1>0, <1>8, <2>1, <2>2, <2>3, LoopAfter
<1>9. CASE unload_binfmt_misc(p) \/ Display(p)
  BY <1>0, <1>9, UnloadAfter, DisplayAfter, EndedOwned
<1>10. QED
  BY <1>4, <1>5, <1>6, <1>7, <1>8, <1>9

\* What a command that looks up its format finds: the file's package.
LEMMA LookupOwned ==
    ASSUME OwnershipInv, NEW p \in Procs, proc[p].name \in Writes[p],
           Agrees(proc[p], proc[p].name)
    PROVE  LET n == proc[p].name
               table == load_format(proc[p].formats, n) IN
           /\ is_file(n) => /\ table[n] # NULL
                            /\ table[n].package = Loaded(n).package
           /\ \A m \in Writes[p] \ {n} : table[m] = proc[p].formats[m]
<1> DEFINE n == proc[p].name
           table == load_format(proc[p].formats, n)
<1>1. n \in Names /\ n \in FormatNames
  BY RunAssumption, NamesAssumption
<1>2. proc[p].formats \in Cache
  BY InvSound DEF OwnershipInv, IntegrityInv, Sound, Process
<1>3. is_file(n) => Loaded(n) # NULL
  BY <1>1, FileOwned DEF OwnershipInv
<1>4. table[n] = IF proc[p].formats[n] # NULL THEN proc[p].formats[n]
                 ELSE Loaded(n)
  BY <1>1, <1>2 DEF load_format, kvhash_insert, Cache
<1>5. \A m \in Writes[p] \ {n} : table[m] = proc[p].formats[m]
  BY <1>2, RunAssumption, NamesAssumption DEF load_format, kvhash_insert, Cache
<1>6. is_file(n) => table[n] # NULL /\ table[n].package = Loaded(n).package
  BY <1>3, <1>4 DEF Agrees
<1>7. QED
  BY <1>5, <1>6

\* act_import compares with ":", act_install with its own package.
LEMMA ImportOwned ==
    ASSUME OwnershipInv, NEW p \in Procs, Import(p)
    PROVE  Ownership(p, proc[p])'
<1> DEFINE n == proc[p].name
           table == load_format(proc[p].formats, n)
<1>0. Inv /\ Ownership(p, proc[p]) /\ Control(p, proc[p])
  BY DEF OwnershipInv, IntegrityInv, Inv
<1>1. /\ proc[p].pc = "import" /\ UNCHANGED admin
      /\ proc[p].mode \in Imports /\ n \in Writes[p] \cup Reserved
  BY <1>0 DEF Import, At, Control
<1>2. \A m \in Writes[p] : table[m] = proc[p].formats[m] \/ table[m] = Loaded(m)
  <2>1. proc[p] \in Process
    BY <1>0, InvSound DEF Sound
  <2>2. Reads(proc[p], table)
    BY <1>0, <2>1, TableReads
  <2>3. QED
    BY <2>2, RunAssumption, NamesAssumption DEF Reads
<1>3. CASE Left(proc[p], proc'[p])
  BY <1>1, <1>3, LeftOwned
<1>4. ASSUME NEW q, Tabled(proc[p], q, "import", table), Left(q, proc'[p])
      PROVE  Ownership(p, proc[p])'
  <2>1. /\ q.mode = proc[p].mode /\ q.todo = proc[p].todo
        /\ q.formats = table
    BY <1>4 DEF Tabled, Goes
  <2> HIDE DEF table
  <2>2. QED
    BY <1>1, <1>2, <1>4, <2>1, LeftOwned
<1>5. ASSUME ~Local(table, n), n \notin Reserved,
             NEW new, Goes(proc[p], proc'[p], "install", n, new, table,
                           proc[p].todo)
      PROVE  Ownership(p, proc[p])'
  <2>1. n \in Writes[p]
    BY <1>1, <1>5
  <2>2. Agrees(proc[p], n)
    BY <1>0, <1>1, <2>1 DEF Ownership, Pending
  <2>3. /\ is_file(n) => /\ table[n] # NULL
                         /\ table[n].package = Loaded(n).package
        /\ \A m \in Writes[p] \ {n} : table[m] = proc[p].formats[m]
    BY <2>1, <2>2, LookupOwned
  <2> HIDE DEF table
  <2>4. is_file(n) => Loaded(n).package # ":"
    BY <1>5, <2>3 DEF Local
  <2>5. \A m : (is_file(m)' <=> is_file(m)) /\ Loaded(m)' = Loaded(m)
    BY <1>1, SameFile
  <2> HIDE DEF n
  <2>6. /\ proc'[p].pc = "install" /\ proc'[p].name = n
        /\ proc'[p].mode = proc[p].mode /\ proc'[p].formats = table
        /\ proc'[p].todo = proc[p].todo
    BY <1>5 DEF Goes
  <2>7. ASSUME NEW m \in Writes[p], Pending(proc[p], m)'
        PROVE  Agrees(proc[p], m)'
    <3>1. CASE m = n
      BY <2>3, <2>5, <2>6, <3>1 DEF Agrees
    <3>2. CASE m # n
      <4>1. proc[p].mode = "importall" /\ m \in proc[p].todo
        BY <2>6, <2>7, <3>2 DEF Pending
      <4>2. Agrees(proc[p], m)
        BY <1>0, <4>1 DEF Ownership, Pending
      <4>3. table[m] = proc[p].formats[m]
        BY <2>3, <3>2
      <4>4. QED
        BY <2>5, <2>6, <4>2, <4>3 DEF Agrees
    <3>3. QED
      BY <3>1, <3>2
  <2>8. proc'[p].mode = "importall" => proc'[p].name \notin proc'[p].todo
    BY <1>0, <2>6 DEF Ownership, n
  <2>9. (is_file(proc[p].name) => Loaded(proc[p].name).package # ":")'
    BY <2>4, <2>5, <2>6
  <2>10. QED
    BY <2>6, <2>7, <2>8, <2>9 DEF Ownership, Replacing, Removing
<1>6. QED
  BY <1>0, <1>3, <1>4, <1>5, ImportAfter

LEMMA InstallOwned ==
    ASSUME OwnershipInv, NEW p \in Procs, InstallLoad(p)
    PROVE  Ownership(p, proc[p])'
<1> DEFINE n == proc[p].name
           table == load_format(proc[p].formats, n)
<1>0. Inv /\ Ownership(p, proc[p]) /\ Control(p, proc[p])
  BY DEF OwnershipInv, IntegrityInv, Inv
<1>1. proc[p].pc = "install" /\ UNCHANGED admin
  BY DEF InstallLoad, At
<1>2. proc[p].mode \in Installs /\ n \in Writes[p]
  BY <1>0, <1>1 DEF Control, Writers
<1>3. CASE Left(proc[p], proc'[p])
  BY <1>1, <1>3, LeftOwned
<1>4. ASSUME table[n] # NULL => /\ proc[p].new # NULL
                                /\ proc[p].new.package = table[n].package,
             NEW label \in {"disable", "manual"},
             Tabled(proc[p], proc'[p], label, table)
      PROVE  Ownership(p, proc[p])'
  <2>1. Agrees(proc[p], n)
    BY <1>0, <1>1, <1>2 DEF Ownership, Pending
  <2>2. /\ is_file(n) => /\ table[n] # NULL
                         /\ table[n].package = Loaded(n).package
        /\ \A m \in Writes[p] \ {n} : table[m] = proc[p].formats[m]
    BY <1>2, <2>1, LookupOwned
  <2> HIDE DEF table
  <2>3. \A m : (is_file(m)' <=> is_file(m)) /\ Loaded(m)' = Loaded(m)
    BY <1>1, SameFile
  <2>4. Replaces(proc[p])
    BY <1>0, <1>1, <1>4, <2>2 DEF Replaces, Ownership
  <2>5. /\ proc'[p].pc = label /\ proc'[p].name = n
        /\ proc'[p].mode = proc[p].mode /\ proc'[p].formats = table
        /\ proc'[p].todo = proc[p].todo /\ proc'[p].new = proc[p].new
    BY <1>4 DEF Tabled, Goes
  <2>6. proc[p].mode = "importall" => n \notin proc[p].todo
    BY <1>0 DEF Ownership
  <2>7. Replaces(proc[p])'
    BY <2>3, <2>4, <2>5 DEF Replaces
  <2> HIDE DEF n
  <2>8. ASSUME NEW m \in Writes[p], Pending(proc[p], m)'
        PROVE  Agrees(proc[p], m)'
    <3>1. proc[p].mode = "importall" /\ m \in proc[p].todo
      BY <2>5, <2>8 DEF Pending
    <3>2. Agrees(proc[p], m)
      BY <1>0, <3>1 DEF Ownership, Pending
    <3>3. table[m] = proc[p].formats[m]
      BY <2>2, <2>6, <3>1
    <3>4. QED
      BY <2>3, <2>5, <3>2, <3>3 DEF Agrees
  <2>9. proc'[p].mode # "remove"
    BY <1>2, <2>5 DEF Installs, Imports
  <2>10. proc'[p].mode = "importall" => proc'[p].name \notin proc'[p].todo
    BY <2>5, <2>6
  <2>11. QED
    BY <2>5, <2>7, <2>8, <2>9, <2>10 DEF Ownership
<1>5. QED
  BY <1>0, <1>3, <1>4, InstallLoadAfter

\* act_remove has read the file itself: its table was empty.
LEMMA RemoveOwned ==
    ASSUME OwnershipInv, NEW p \in Procs, RemoveLoad(p)
    PROVE  Ownership(p, proc[p])'
<1> DEFINE n == proc[p].name
           table == load_format(proc[p].formats, n)
<1>0. Inv /\ Ownership(p, proc[p]) /\ Control(p, proc[p])
  BY DEF OwnershipInv, IntegrityInv, Inv
<1>1. proc[p].pc = "remove" /\ UNCHANGED admin
  BY DEF RemoveLoad, At
<1>2. /\ proc[p].mode = "remove" /\ n \in Writes[p] /\ n \in FormatNames
      /\ proc[p].formats = NoTable
  BY <1>0, <1>1, RunAssumption, NamesAssumption DEF Control, Writers, Ownership
<1>3. CASE Left(proc[p], proc'[p])
  BY <1>1, <1>3, LeftOwned
<1>4. ASSUME is_file(n),
             table[n] # NULL => table[n].package = proc[p].package,
             Tabled(proc[p], proc'[p], "disable", table)
      PROVE  Ownership(p, proc[p])'
  <2>1. Agrees(proc[p], n)
    BY <1>2 DEF Agrees, NoTable
  <2>2. table[n] # NULL /\ table[n].package = Loaded(n).package
    BY <1>2, <1>4, <2>1, LookupOwned
  <2> HIDE DEF table
  <2>3. \A m : (is_file(m)' <=> is_file(m)) /\ Loaded(m)' = Loaded(m)
    BY <1>1, SameFile
  <2>4. /\ proc'[p].pc = "disable" /\ proc'[p].name = n
        /\ proc'[p].mode = "remove" /\ proc'[p].package = proc[p].package
    BY <1>2, <1>4 DEF Tabled, Goes
  <2>5. (is_file(proc[p].name) =>
           Loaded(proc[p].name).package = proc[p].package)'
    BY <1>4, <2>2, <2>3, <2>4
  <2>6. QED
    BY <2>4, <2>5 DEF Ownership, Pending, Installs, Imports
<1>5. QED
  BY <1>0, <1>3, <1>4, RemoveLoadAfter

\* The steps of act_install that touch the temporary file.
LEMMA ManualOwned ==
    ASSUME OwnershipInv, NEW p \in Procs,
           InstallManual(p) \/ WriteOpen(p) \/ WriteFill(p)
    PROVE  Ownership(p, proc[p])'
<1> DEFINE n == proc[p].name
<1>0. IntegrityInv /\ Inv /\ Ownership(p, proc[p]) /\ Control(p, proc[p])
  BY DEF OwnershipInv, IntegrityInv, Inv
<1>1. proc[p].pc \in {"manual", "open", "fill"}
  BY DEF InstallManual, WriteOpen, WriteFill, At
<1>2. n \in Names /\ Tmp[n] \in FormatNames \ Names
  BY <1>0, <1>1, RunAssumption, NamesAssumption DEF Control, Writers
<1>3. OnlyFile(Tmp[n]) /\ \A m \in Names : admin'[m] = admin[m]
  <2>1. OnlyFile(Tmp[n])
    <3>1. CASE InstallManual(p)
      BY <3>1 DEF InstallManual, OnlyFile
    <3>2. QED
      BY <1>0, <3>1, OpenAfter, FillAfter
  <2>2. QED
    BY <1>2, <2>1, NamesAssumption DEF OnlyFile
<1>4. CASE Left(proc[p], proc'[p])
  BY <1>1, <1>3, <1>4, LeftOwned, RunAssumption
<1>5. ASSUME NEW label \in {"open", "fill"}, Moved(proc[p], proc'[p], label)
      PROVE  Ownership(p, proc[p])'
  BY <1>1, <1>3, <1>5, MovedOwned DEF Replacing, Removing
<1>6. CASE InstallManual(p)
  <2>1. CASE Tabled(proc[p], proc'[p], "misc",
                    kvhash_insert(proc[p].formats, n, proc[p].new))
    <3> DEFINE table == kvhash_insert(proc[p].formats, n, proc[p].new)
    <3>1. \A m : m # n => table[m] = proc[p].formats[m]
      <4>1. proc[p].formats \in Cache
        BY <1>0, InvSound DEF Sound, Process
      <4>2. QED
        BY <4>1 DEF kvhash_insert, Cache
    <3> HIDE DEF table
    <3>2. /\ proc'[p].pc = "misc" /\ proc'[p].name = n
          /\ proc'[p].mode = proc[p].mode /\ proc'[p].formats = table
          /\ proc'[p].todo = proc[p].todo
      BY <2>1 DEF Tabled, Goes, table
    <3>3. proc[p].mode = "importall" => n \notin proc[p].todo
      BY <1>0 DEF Ownership
    <3> HIDE DEF n
    <3>4. proc'[p].mode = "importall" =>
             /\ proc[p].mode = "importall"
             /\ proc'[p].name \notin proc'[p].todo
             /\ \A m \in proc'[p].todo \cap Writes[p] :
                   /\ m \in proc[p].todo
                   /\ admin'[m] = admin[m]
                   /\ proc'[p].formats[m] = proc[p].formats[m]
      BY <1>3, <3>1, <3>2, <3>3, RunAssumption
    <3>5. QED
      BY <3>2, <3>4, QuietOwned DEF Replacing, Removing
  <2>2. QED
    BY <1>0, <1>4, <1>5, <1>6, <2>1, ManualAfter
<1>7. CASE WriteOpen(p)
  BY <1>0, <1>4, <1>5, <1>7, OpenAfter
<1>8. CASE WriteFill(p)
  <2>1. CASE /\ proc[p].new # NULL
             /\ admin'[Tmp[n]] = binfmt_write(proc[p].new)
             /\ Moved(proc[p], proc'[p], "rename")
    <3>1. /\ proc'[p].name = n /\ proc'[p].new = proc[p].new
      BY <2>1 DEF Moved, Tabled, Goes
    <3> HIDE DEF n
    <3>2. Written(proc[p])'
      BY <2>1, <3>1 DEF Written
    <3> USE DEF n
    <3>3. proc[p].pc = "fill"
      BY <1>8 DEF WriteFill, At
    <3>4. QED
      BY <1>3, <2>1, <3>2, <3>3, MovedOwned DEF Replacing, Removing
  <2>2. QED
    BY <1>0, <1>4, <1>8, <2>1, FillAfter
<1>9. QED
  BY <1>6, <1>7, <1>8

\* After the rename, and after the removal, no file is at stake any more.
LEMMA RenameOwned ==
    ASSUME OwnershipInv, NEW p \in Procs, RenameTmp(p)
    PROVE  Ownership(p, proc[p])'
<1> DEFINE n == proc[p].name
           table == kvhash_insert(proc[p].formats, n, proc[p].new)
<1>0. Inv /\ Ownership(p, proc[p]) /\ Control(p, proc[p])
  BY DEF OwnershipInv, IntegrityInv, Inv
<1>1. proc[p].pc = "rename" /\ proc[p].mode \in Installs
  BY <1>0 DEF RenameTmp, At, Control
<1>2. n \in Names /\ Tmp[n] \in FormatNames \ Names
  BY <1>0, <1>1, RunAssumption, NamesAssumption DEF Control, Writers
<1>3. CASE Left(proc[p], proc'[p]) /\ UNCHANGED admin
  BY <1>1, <1>3, LeftOwned
<1>4. CASE /\ admin' = [admin EXCEPT ![n] = admin[Tmp[n]], ![Tmp[n]] = NULL]
           /\ Tabled(proc[p], proc'[p], "misc", table)
  <2>1. \A m : m # n => table[m] = proc[p].formats[m]
    <3>1. proc[p].formats \in Cache
      BY <1>0, InvSound DEF Sound, Process
    <3>2. QED
      BY <3>1 DEF kvhash_insert, Cache
  <2> HIDE DEF table
  <2>2. /\ proc'[p].pc = "misc" /\ proc'[p].name = n
        /\ proc'[p].mode = proc[p].mode /\ proc'[p].formats = table
        /\ proc'[p].todo = proc[p].todo
    BY <1>4 DEF Tabled, Goes
  <2>3. proc[p].mode = "importall" => n \notin proc[p].todo
    BY <1>0 DEF Ownership
  <2>4. \A m \in Names \ {n} : admin'[m] = admin[m]
    <3>1. admin \in [FormatNames -> File]
      BY <1>0 DEF Inv, TypeOK
    <3>2. QED
      BY <1>2, <1>4, <3>1, NamesAssumption
  <2> HIDE DEF n
  <2>5. proc'[p].mode = "importall" =>
           /\ proc[p].mode = "importall"
           /\ proc'[p].name \notin proc'[p].todo
           /\ \A m \in proc'[p].todo \cap Writes[p] :
                 /\ m \in proc[p].todo
                 /\ admin'[m] = admin[m]
                 /\ proc'[p].formats[m] = proc[p].formats[m]
    BY <2>1, <2>2, <2>3, <2>4, RunAssumption
  <2>6. QED
    BY <2>2, <2>5, QuietOwned DEF Replacing, Removing
<1>5. QED
  BY <1>0, <1>3, <1>4, RenameAfter

LEMMA UnlinkOwned ==
    ASSUME OwnershipInv, NEW p \in Procs, RemoveUnlink(p)
    PROVE  Ownership(p, proc[p])'
<1>0. Inv /\ Control(p, proc[p])
  BY DEF OwnershipInv, IntegrityInv, Inv
<1>1. proc[p].pc = "unlink" /\ proc[p].mode = "remove"
  BY <1>0 DEF RemoveUnlink, At, Control
<1>2. Left(proc[p], proc'[p])
  BY <1>0, UnlinkAfter
<1>3. QED
  BY <1>1, <1>2, LeftOwned

LEMMA StepOwned ==
    ASSUME OwnershipInv, NEW p \in Procs, Step(p)
    PROVE  Ownership(p, proc[p])'
BY EnableOwned, DisableOwned, ImportOwned, InstallOwned, RemoveOwned,
   ManualOwned, RenameOwned, UnlinkOwned DEF Step

----------------------------------------------------------------------------
(***************************************************************************)
(* The other invocations, and the files.                                   *)
(***************************************************************************)
\* Only three steps touch files, and only those of their format.
LEMMA StepFiles ==
    ASSUME IntegrityInv, NEW p \in Procs, Step(p)
    PROVE  \/ UNCHANGED admin
           \/ /\ proc[p].name \in Writes[p]
              /\ \A f \in FormatNames \ {proc[p].name, Tmp[proc[p].name]} :
                    admin'[f] = admin[f]
<1> DEFINE n == proc[p].name
<1>0. Inv /\ Control(p, proc[p]) /\ admin \in [FormatNames -> File]
  BY DEF IntegrityInv, Inv, TypeOK
<1>1. CASE WriteOpen(p) \/ WriteFill(p)
  <2>1. proc[p].pc \in {"open", "fill"}
    BY <1>1 DEF WriteOpen, WriteFill, At
  <2>2. n \in Writes[p]
    BY <1>0, <2>1 DEF Control, Writers
  <2>3. OnlyFile(Tmp[n])
    BY <1>0, <1>1, OpenAfter, FillAfter
  <2>4. QED
    BY <2>2, <2>3 DEF OnlyFile
<1>2. CASE RenameTmp(p)
  <2>1. n \in Writes[p]
    BY <1>0, <1>2 DEF RenameTmp, At, Control, Writers
  <2>2. \/ UNCHANGED admin
        \/ admin' = [admin EXCEPT ![n] = admin[Tmp[n]], ![Tmp[n]] = NULL]
    BY <1>0, <1>2, RenameAfter
  <2>3. QED
    BY <1>0, <2>1, <2>2
<1>3. CASE RemoveUnlink(p)
  <2>1. n \in Writes[p]
    BY <1>0, <1>3 DEF RemoveUnlink, At, Control, Writers
  <2>2. UNCHANGED admin \/ admin' = [admin EXCEPT ![n] = NULL]
    BY <1>0, <1>3, UnlinkAfter
  <2>3. QED
    BY <1>0, <2>1, <2>2
<1>4. \/ WriteOpen(p) \/ WriteFill(p) \/ RenameTmp(p) \/ RemoveUnlink(p)
      \/ UNCHANGED admin
  BY DEF Step, load_binfmt_misc, MountBinfmtMisc, EnableExists, EnableScan,
         EnableRegister, DisableExists, DisableWrite, DisableCheck, LoadAll,
         Loop, unload_binfmt_misc, InstallLoad, InstallManual, RemoveLoad,
         Import, Display
<1>5. QED
  BY <1>1, <1>2, <1>3, <1>4

\* An invocation whose files are left alone keeps what it has.
LEMMA StaysOwned ==
    ASSUME OwnershipInv, NEW r \in Procs,
           Moved(proc[r], proc'[r], proc[r].pc),
           \A n \in Writes[r] : /\ admin'[n] = admin[n]
                                /\ admin'[Tmp[n]] = admin[Tmp[n]]
    PROVE  Ownership(r, proc[r])'
<1> DEFINE q == proc[r]
<1>1. /\ proc'[r].pc = q.pc /\ proc'[r].name = q.name /\ proc'[r].new = q.new
      /\ proc'[r].formats = q.formats /\ proc'[r].todo = q.todo
      /\ proc'[r].mode = q.mode /\ proc'[r].package = q.package
  BY DEF Moved, Tabled, Goes
<1>2. Ownership(r, q) /\ Control(r, q)
  BY DEF OwnershipInv, IntegrityInv, Inv
<1>3. \A n \in Writes[r] : (is_file(n)' <=> is_file(n)) /\ Loaded(n)' = Loaded(n)
  BY SameFile
<1>4. \A n \in Writes[r] : Pending(proc[r], n)' => Agrees(proc[r], n)'
  BY <1>1, <1>2, <1>3 DEF Ownership, Pending, Agrees
<1>5. q.pc \in Replacing \cup Removing \cup {"install"} /\ q.mode \in Writers
         => q.name \in Writes[r]
  BY <1>2 DEF Control, Replacing, Removing
<1>6. (proc[r].pc = "install" /\ proc[r].mode \in Imports =>
         (is_file(proc[r].name) => Loaded(proc[r].name).package # ":"))'
  BY <1>1, <1>2, <1>3, <1>5 DEF Ownership, Writers, Installs
<1>7. (proc[r].pc \in Replacing /\ proc[r].mode \in Installs =>
         Replaces(proc[r]))'
  BY <1>1, <1>2, <1>3, <1>5 DEF Ownership, Writers, Replaces
<1>8. (proc[r].pc \in Removing /\ proc[r].mode = "remove" =>
         (is_file(proc[r].name) =>
            Loaded(proc[r].name).package = proc[r].package))'
  BY <1>1, <1>2, <1>3, <1>5 DEF Ownership, Writers
<1>9. (proc[r].pc = "rename" => Written(proc[r]))'
  <2>1. ASSUME q.pc = "rename"
        PROVE  /\ admin'[Tmp[q.name]] = admin[Tmp[q.name]]
               /\ Written(q)
    BY <1>2, <1>5, <2>1 DEF Ownership, Control, Replacing, Writers
  <2>2. QED
    BY <1>1, <2>1 DEF Written, is_file
<1>10. QED
  BY <1>1, <1>2, <1>4, <1>6, <1>7, <1>8, <1>9 DEF Ownership

LEMMA OthersOwned ==
    ASSUME OwnershipInv, Exclusive, NEW p \in Procs, OthersIdle(p),
           OthersStay(p),
           \/ UNCHANGED admin
           \/ /\ proc[p].name \in Writes[p]
              /\ \A f \in FormatNames \ {proc[p].name, Tmp[proc[p].name]} :
                    admin'[f] = admin[f]
    PROVE  \A r \in Procs \ {p} : Ownership(r, proc[r])'
<1> SUFFICES ASSUME NEW r \in Procs \ {p}
             PROVE  Ownership(r, proc[r])'
  OBVIOUS
<1>1. Moved(proc[r], proc'[r], proc[r].pc)
  BY DEF OthersStay
<1>2. CASE Serial
  <2>1. proc[r].pc = "idle"
    BY <1>2 DEF OthersIdle, At
  <2>2. proc'[r].pc = "idle" /\ proc'[r].mode = "none"
    BY <1>1, <2>1 DEF Moved, Tabled, Goes, OwnershipInv, Ownership
  <2>3. QED
    BY <2>2 DEF Ownership, Pending, Replacing, Removing
<1>3. CASE ~Serial
  <2>1. \A n \in Writes[r] : admin'[n] = admin[n] /\ admin'[Tmp[n]] = admin[Tmp[n]]
    <3>1. CASE UNCHANGED admin
      BY <3>1
    <3>2. CASE /\ proc[p].name \in Writes[p]
               /\ \A f \in FormatNames \ {proc[p].name, Tmp[proc[p].name]} :
                     admin'[f] = admin[f]
      <4>1. proc[p].name \in Names /\ Writes[r] \subseteq Names
        BY <3>2, RunAssumption
      <4>2. proc[p].name \notin Writes[r]
        BY <1>3, <3>2 DEF Exclusive
      <4>3. \A n \in Writes[r] :
               /\ n \in FormatNames \ {proc[p].name, Tmp[proc[p].name]}
               /\ Tmp[n] \in FormatNames \ {proc[p].name, Tmp[proc[p].name]}
        BY <4>1, <4>2, NamesAssumption
      <4>4. QED
        BY <3>2, <4>3
    <3>3. QED
      BY <3>1, <3>2
  <2>2. QED
    BY <1>1, <2>1, StaysOwned
<1>4. QED
  BY <1>2, <1>3

\* A step moves one invocation; of the others it takes at most the name of
\* the file they have open.
LEMMA StepStays ==
    ASSUME Inv, NEW p \in Procs, Step(p)
    PROVE  OthersStay(p) /\ proc[p].pc # "idle"
<1>1. CASE \/ load_binfmt_misc(p) \/ MountBinfmtMisc(p) \/ EnableExists(p)
           \/ EnableScan(p) \/ EnableRegister(p)
  <2>1. (\E q : Become(p, q)) /\ proc[p].pc # "idle"
    BY <1>1, MiscAfter, ExistsAfter, ScanAfter, RegisterAfter
  <2>2. QED
    BY <2>1, BecomeStay
<1>2. CASE \/ DisableExists(p) \/ DisableWrite(p) \/ DisableCheck(p)
           \/ LoadAll(p) \/ Loop(p) \/ unload_binfmt_misc(p)
  <2>1. (\E q : Become(p, q)) /\ proc[p].pc # "idle"
    BY <1>2, DisableAfter, DisableWriteAfter, DisableCheckAfter, LoadAllAfter,
       LoopAfter, UnloadAfter
  <2>2. QED
    BY <2>1, BecomeStay
<1>3. CASE \/ InstallLoad(p) \/ InstallManual(p) \/ WriteFill(p)
           \/ RemoveLoad(p) \/ Import(p) \/ Display(p)
  <2>1. (\E q : Become(p, q)) /\ proc[p].pc # "idle"
    BY <1>3, InstallLoadAfter, ManualAfter, FillMoves, RemoveLoadAfter,
       ImportAfter, DisplayAfter
  <2>2. QED
    BY <2>1, BecomeStay
<1>4. CASE WriteOpen(p) \/ RenameTmp(p) \/ RemoveUnlink(p)
  BY <1>4, OpenAfter, RenameAfter, UnlinkAfter
<1>5. QED
  BY <1>1, <1>2, <1>3, <1>4 DEF Step

\* A command starts with an empty table.
LEMMA StartOwned ==
    ASSUME OwnershipInv, NEW p \in Procs, Start(p)
    PROVE  Ownership(p, proc[p])' /\ UNCHANGED admin /\ OthersStay(p)
           /\ OthersIdle(p)
<1>0. Inv
  BY DEF OwnershipInv, IntegrityInv
<1>1. /\ UNCHANGED admin /\ OthersStay(p) /\ OthersIdle(p)
      /\ Ended(proc'[p]) \/ Started(proc'[p])
  BY <1>0, StartAfter, StartQuiet, BecomeStay
<1>2. CASE Ended(proc'[p])
  BY <1>1, <1>2, EndedOwned
<1>3. CASE Started(proc'[p])
  <2>1. NULL \notin DOMAIN ImportFiles
    BY InputsAssumption, NamesAssumption
  <2>2. Ownership(p, proc[p])'
    <3>1. \A n \in Writes[p] : Agrees(proc[p], n)'
      BY <1>3, RunAssumption, NamesAssumption DEF Started, NoTable, Agrees
    <3>2. /\ proc'[p].pc # "idle"
          /\ (proc[p].pc = "remove" => proc[p].formats = NoTable)'
          /\ proc'[p].mode = "importall" => proc'[p].name \notin proc'[p].todo
      BY <1>3, <2>1 DEF Started, OtherModes
    <3>3. /\ ~(proc'[p].pc = "install" /\ proc'[p].mode \in Imports)
          /\ ~(proc'[p].pc \in Replacing /\ proc'[p].mode \in Installs)
          /\ ~(proc'[p].pc \in Removing /\ proc'[p].mode = "remove")
          /\ proc'[p].pc # "rename"
      BY <1>3 DEF Started, OtherModes, Installs, Imports, Replacing, Removing
    <3>4. QED
      BY <3>1, <3>2, <3>3 DEF Ownership
  <2>3. QED
    BY <1>1, <2>2
<1>4. QED
  BY <1>1, <1>2, <1>3

LEMMA InitOwned == Init => OwnershipInv
<1> SUFFICES ASSUME Init
             PROVE  OwnershipInv
  OBVIOUS
<1>1. \A p \in Procs : Ended(proc[p])
  BY ExitedFields DEF Init
<1>2. QED
  BY <1>1, InitIntegrity
     DEF OwnershipInv, Ownership, Ended, Pending, Replacing, Removing

LEMMA NextOwned == Exclusive /\ OwnershipInv /\ [Next]_vars => OwnershipInv'
<1> SUFFICES ASSUME Exclusive, OwnershipInv, [Next]_vars
             PROVE  OwnershipInv'
  OBVIOUS
<1>1. IntegrityInv /\ IntegrityInv' /\ Inv /\ Alone
  BY NextIntegrity DEF OwnershipInv, IntegrityInv
<1>2. ASSUME NEW p \in Procs, Ownership(p, proc[p])',
             \A r \in Procs \ {p} : Ownership(r, proc[r])'
      PROVE  OwnershipInv'
  BY <1>1, <1>2 DEF OwnershipInv
<1>3. ASSUME NEW p \in Procs, Start(p)
      PROVE  OwnershipInv'
  <2>1. Ownership(p, proc[p])' /\ UNCHANGED admin /\ OthersStay(p) /\ OthersIdle(p)
    BY <1>3, StartOwned
  <2>2. \A r \in Procs \ {p} : Ownership(r, proc[r])'
    BY <2>1, OthersOwned
  <2>3. QED
    BY <1>2, <2>1, <2>2
<1>4. ASSUME NEW p \in Procs, Step(p)
      PROVE  OwnershipInv'
  <2>1. Ownership(p, proc[p])'
    BY <1>4, StepOwned
  <2>2. OthersStay(p) /\ OthersIdle(p)
    BY <1>1, <1>4, StepStays, RunsAlone DEF At
  <2>3. \A r \in Procs \ {p} : Ownership(r, proc[r])'
    BY <1>1, <1>4, <2>2, StepFiles, OthersOwned
  <2>4. QED
    BY <1>2, <2>1, <2>3
<1>5. ASSUME NEW p \in Procs, Kill(p)
      PROVE  OwnershipInv'
  <2>1. Become(p, Exited("killed")) /\ UNCHANGED admin /\ OthersIdle(p)
    BY <1>1, <1>5, RunsAlone DEF Kill
  <2>2. OthersStay(p) /\ Ended(proc'[p])
    BY <1>1, <2>1, BecomeStay, BecomeFields, ExitedFields
  <2>3. Ownership(p, proc[p])' /\ \A r \in Procs \ {p} : Ownership(r, proc[r])'
    BY <2>1, <2>2, EndedOwned, OthersOwned
  <2>4. QED
    BY <1>2, <2>3
<1>6. ASSUME UNCHANGED admin,
             \A p \in Procs : proc'[p] = proc[p] \/ Ended(proc'[p])
      PROVE  OwnershipInv'
  <2>1. ASSUME NEW p \in Procs
        PROVE  Ownership(p, proc[p])'
    <3>1. CASE Ended(proc'[p])
      BY <3>1, EndedOwned
    <3>2. CASE proc'[p] = proc[p]
      <4>1. Moved(proc[p], proc'[p], proc[p].pc)
        BY <3>2 DEF Moved, Tabled, Goes
      <4>2. QED
        BY <1>6, <4>1, StaysOwned
    <3>3. QED
      BY <1>6, <3>1, <3>2
  <2>2. QED
    BY <1>1, <2>1 DEF OwnershipInv
<1>7. CASE Reboot
  BY <1>6, <1>7, ExitedFields DEF Reboot
<1>8. CASE UNCHANGED <<admin, proc>>
  BY <1>6, <1>8
<1>9. QED
  BY <1>3, <1>4, <1>5, <1>7, <1>8 DEF Next, ManualRegister, ManualSwitchOff, vars

----------------------------------------------------------------------------
(***************************************************************************)
(* What a step does to the files of the database: rename puts the new      *)
(* description there, unlink takes the old one away.                       *)
(***************************************************************************)
Renames(p, n) ==
    /\ At(p, "rename") /\ proc[p].mode \in Installs /\ proc[p].name = n
    /\ \A m \in Names \ {n} : admin'[m] = admin[m]
    /\ is_file(n)' /\ Loaded(n)' # NULL
    /\ is_file(n) => /\ Loaded(n)'.package = Loaded(n).package
                     /\ proc[p].mode \in Imports => Loaded(n).package # ":"

Unlinks(p, n) ==
    /\ At(p, "unlink") /\ proc[p].mode = "remove" /\ proc[p].name = n
    /\ \A m \in Names \ {n} : admin'[m] = admin[m]
    /\ is_file(n) /\ ~is_file(n)'
    /\ Loaded(n).package = proc[p].package

\* The file that rename puts in place names the package of the one it
\* replaces: it is what binfmt_write wrote, and what binfmt_load reads of it.
LEMMA RenamedFile ==
    ASSUME OwnershipInv, NEW p \in Procs, RenameTmp(p)
    PROVE  UNCHANGED admin \/ \E n \in Names : Renames(p, n)
<1> DEFINE new == proc[p].new
<1>0. /\ IntegrityInv /\ Inv /\ Control(p, proc[p]) /\ Ownership(p, proc[p])
      /\ admin \in [FormatNames -> File]
  BY DEF OwnershipInv, IntegrityInv, Inv, TypeOK
<1>1. proc[p].pc = "rename" /\ proc[p].mode \in Installs
  BY <1>0 DEF RenameTmp, At, Control
<1>2. PICK n \in Names : n = proc[p].name
  BY <1>0, <1>1, RunAssumption DEF Control, Writers
<1>3. n \in FormatNames /\ Tmp[n] \in FormatNames \ Names
  BY NamesAssumption
<1>4. CASE /\ is_file(Tmp[n])
           /\ admin' = [admin EXCEPT ![n] = admin[Tmp[n]], ![Tmp[n]] = NULL]
  <2>1. new # NULL /\ admin[Tmp[n]] = binfmt_write(new)
    BY <1>0, <1>1, <1>2, <1>4 DEF Ownership, Written
  <2>2. /\ admin'[n] = admin[Tmp[n]]
        /\ \A m \in Names \ {n} : admin'[m] = admin[m]
    BY <1>0, <1>3, <1>4, NamesAssumption
  <2>3. new \in Binfmt
    BY <1>0, <2>1, InvSound DEF Sound, Process
  <2>4. /\ is_file(n) => /\ new.package = Loaded(n).package
                         /\ proc[p].mode \in Imports => Loaded(n).package # ":"
    BY <1>0, <1>1, <1>2 DEF Ownership, Replaces, Replacing
  <2> HIDE DEF new
  <2>5. is_file(n)' /\ Loaded(n)' = binfmt_load(binfmt_write(new))
    <3>1. admin'[n] # NULL /\ admin'[n] = binfmt_write(new)
      BY <1>4, <2>1, <2>2 DEF is_file
    <3>2. QED
      BY <3>1 DEF is_file, Loaded
  <2>6. Loaded(n)' # NULL
    <3> DEFINE file == binfmt_write(new)
    <3>1. file \in Seq(Text) /\ Len(file) = 9
      BY <2>3, WriteType
    <3> HIDE DEF file
    <3>2. Len(file) >= Mandatory
      BY <3>1 DEF Mandatory
    <3>3. binfmt_load(file) # NULL
      BY <3>1, <3>2, LoadTrimmed
    <3>4. QED
      BY <2>5, <3>3 DEF file
  <2>7. ASSUME is_file(n)
        PROVE  Loaded(n)'.package = Loaded(n).package
    <3>1. Loaded(n).package \in Text /\ rtrim[Loaded(n).package] = Loaded(n).package
      BY <1>0, <2>7, FileOwned
    <3>2. Loaded(n)'.package = rtrim[Line(new.package)]
      BY <2>3, <2>5, WriteLoad
    <3>3. Line(new.package) = Loaded(n).package
      BY <2>4, <2>7, <3>1, TextAssumption DEF Line
    <3>4. QED
      BY <3>1, <3>2, <3>3
  <2>8. QED
    BY <1>1, <1>2, <2>2, <2>4, <2>5, <2>6, <2>7 DEF Renames, At
<1>5. QED
  BY <1>0, <1>2, <1>4, RenameAfter

LEMMA UnlinkedFile ==
    ASSUME OwnershipInv, NEW p \in Procs, RemoveUnlink(p)
    PROVE  UNCHANGED admin \/ \E n \in Names : Unlinks(p, n)
<1>0. /\ Inv /\ Control(p, proc[p]) /\ Ownership(p, proc[p])
      /\ admin \in [FormatNames -> File]
  BY DEF OwnershipInv, IntegrityInv, Inv, TypeOK
<1>1. proc[p].pc = "unlink" /\ proc[p].mode = "remove"
  BY <1>0 DEF RemoveUnlink, At, Control
<1>2. PICK n \in Names : n = proc[p].name
  BY <1>0, <1>1, RunAssumption DEF Control, Writers
<1>3. CASE is_file(n) /\ admin' = [admin EXCEPT ![n] = NULL]
  <2>1. /\ admin'[n] = NULL
        /\ \A m \in Names \ {n} : admin'[m] = admin[m]
    BY <1>0, <1>3, NamesAssumption
  <2>2. Loaded(n).package = proc[p].package
    BY <1>0, <1>1, <1>2, <1>3 DEF Ownership, Removing
  <2>3. QED
    BY <1>1, <1>2, <1>3, <2>1, <2>2 DEF Unlinks, At, is_file
<1>4. QED
  BY <1>0, <1>2, <1>3, UnlinkAfter

\* No other step changes a file of the database.
LEMMA DatabaseChanges ==
    ASSUME OwnershipInv, [Next]_vars
    PROVE  \/ \A n \in Names : admin'[n] = admin[n]
           \/ \E p \in Procs : RenameTmp(p) /\ \E n \in Names : Renames(p, n)
           \/ \E p \in Procs : RemoveUnlink(p) /\ \E n \in Names : Unlinks(p, n)
<1>1. IntegrityInv /\ Inv /\ \A p \in Procs : Control(p, proc[p])
  BY DEF OwnershipInv, IntegrityInv, Inv
<1>2. ASSUME NEW p \in Procs, WriteOpen(p) \/ WriteFill(p)
      PROVE  \A n \in Names : admin'[n] = admin[n]
  <2>1. proc[p].pc \in {"open", "fill"} /\ OnlyFile(Tmp[proc[p].name])
    BY <1>1, <1>2, OpenAfter, FillAfter
  <2>2. proc[p].name \in Names
    BY <1>1, <2>1, RunAssumption DEF Control, Writers
  <2>3. QED
    BY <2>1, <2>2, NamesAssumption DEF OnlyFile
<1>3. ASSUME NEW p \in Procs, Step(p)
      PROVE  \/ WriteOpen(p) \/ WriteFill(p) \/ RenameTmp(p) \/ RemoveUnlink(p)
             \/ UNCHANGED admin
  BY <1>3
     DEF Step, load_binfmt_misc, MountBinfmtMisc, EnableExists, EnableScan,
         EnableRegister, DisableExists, DisableWrite, DisableCheck, LoadAll,
         Loop, unload_binfmt_misc, InstallLoad, InstallManual, RemoveLoad,
         Import, Display
<1>4. ASSUME NEW p \in Procs, Start(p)
      PROVE  UNCHANGED admin
  BY <1>1, <1>4, StartAfter
<1>5. \/ UNCHANGED admin
      \/ \E p \in Procs : \/ WriteOpen(p) \/ WriteFill(p)
                           \/ RenameTmp(p) \/ RemoveUnlink(p)
  BY <1>3, <1>4 DEF Next, Kill, Reboot, ManualRegister, ManualSwitchOff, vars
<1>6. QED
  BY <1>2, <1>5, RenamedFile, UnlinkedFile

\* A format never passes to another package while it is installed, for any
\* number of invocations and formats, any inputs and faults, if no two
\* invocations work on one format at a time: act_install replaces a file only
\* by one of the same package, although it compares with its table, and lets
\* act_disable run before it writes; and act_remove unlinks only for the
\* package the file names.
THEOREM OwnersKept ==
    ASSUME Exclusive
    PROVE  Spec => OwnershipPreserved
<1>1. OwnershipInv /\ [Next]_vars => OwnershipKept
  <2> SUFFICES ASSUME OwnershipInv, [Next]_vars, NEW n \in Names,
                      is_file(n), admin'[n] # admin[n]
               PROVE  \/ is_file(n)' /\ Loaded(n)'.package = Loaded(n).package
                      \/ /\ ~is_file(n)'
                         /\ \E p \in Procs :
                               /\ At(p, "unlink") /\ proc[p].name = n
                               /\ proc[p].package = Loaded(n).package
    BY DEF OwnershipKept
  <2>1. CASE \E p \in Procs : \E m \in Names : Renames(p, m)
    BY <2>1 DEF Renames
  <2>2. CASE \E p \in Procs : \E m \in Names : Unlinks(p, m)
    BY <2>2 DEF Unlinks
  <2>3. QED
    BY <2>1, <2>2, DatabaseChanges
<1>2. OwnershipInv /\ [Next]_vars => OwnershipInv'
  BY NextOwned
<1>3. Spec => []OwnershipInv
  BY <1>2, InitOwned, PTL DEF Spec
<1>4. QED
  BY <1>1, <1>3, PTL DEF Spec, OwnershipPreserved

\* A format the administrator installed (package ":") is replaced or removed
\* by --install and --remove only: act_import looks at the package before it
\* calls act_install, and what it has seen stays true until the rename.
THEOREM LocalsKept ==
    ASSUME Exclusive
    PROVE  Spec => LocalPreserved
<1>1. OwnershipInv /\ [Next]_vars => LocalKept
  <2> SUFFICES ASSUME OwnershipInv, [Next]_vars, NEW n \in Names,
                      is_file(n), Loaded(n).package = ":", admin'[n] # admin[n]
               PROVE  \E p \in Procs :
                         /\ proc[p].name = n /\ proc[p].mode \notin Imports
                         /\ proc[p].pc \in {"rename", "unlink"}
    BY DEF LocalKept
  <2>1. CASE \E p \in Procs : \E m \in Names : Renames(p, m)
    BY <2>1 DEF Renames, At
  <2>2. CASE \E p \in Procs : \E m \in Names : Unlinks(p, m)
    BY <2>2 DEF Unlinks, At, Imports
  <2>3. QED
    BY <2>1, <2>2, DatabaseChanges
<1>2. OwnershipInv /\ [Next]_vars => OwnershipInv'
  BY NextOwned
<1>3. Spec => []OwnershipInv
  BY <1>2, InitOwned, PTL DEF Spec
<1>4. QED
  BY <1>1, <1>3, PTL DEF Spec, LocalPreserved
=============================================================================
