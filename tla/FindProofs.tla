----------------------------- MODULE FindProofs -----------------------------
(***************************************************************************)
(* run-detectors and --find answer as the kernel does.  The argument: what *)
(* has been read of the directory so far is, as a set, the descriptions    *)
(* the kernel has among the entries passed (a file is loaded in the step   *)
(* after the one that looked for it in the kernel, and nothing changes     *)
(* between them); the buffer is as long as the furthest magic reaches; a   *)
(* description matches in the buffer what its entry matches in the file,   *)
(* because expand_hex yields what the kernel's expansion yields; so what   *)
(* is tried is what the kernel matched, less what the detectors refuse,    *)
(* and it is tried in the order of a list that begins with the detectors'. *)
(* That run-detectors is asked at all is the kernel's choice: of two       *)
(* entries one always comes before the other (Ranked), and of those with   *)
(* one specification, one of them with a detector, those that come before  *)
(* its own lead to run-detectors (NoShadowedDetector).                     *)
(***************************************************************************)
EXTENDS FindInterpreters, RegistryProofs

\* A format as find_interpreters has it.
Candidates == [extension : BOOLEAN, offset : Int, magic : Bytes, mask : Bytes,
               interpreter : Text, detector : Text]

Stages == {"idle", "readdir", "load", "open", "match", "exec"}
EndStates == {"none", "0", "1", "2", "unreadable"}

Runs == [pc : Stages,
         find : BOOLEAN, target : Targets \cup {NULL},
         via : FormatNames \cup {NULL}, todo : SUBSET FormatNames,
         name : FormatNames \cup {NULL}, formats : Seq(Candidates),
         buf : Seq(0..255), tried : SUBSET Candidates,
         interpreters : Seq(Candidates),
         ran : Text \cup {"(null)", NULL},
         status : EndStates]

\* What comes of the names D of the directory.
Entries(D) == {n \in D : ProcEntry(n) /\ Fitting(Candidate(Loaded(n)))}
FormatsOf(D) == {Candidate(Loaded(n)) : n \in Entries(D)}

\* They have been read into the list.
Listed(list, D) ==
    /\ \A n \in D : ProcEntry(n) => Loaded(n) # NULL
    /\ Range(list) = FormatsOf(D)

Reading(r) ==
    /\ r.pc \in {"readdir", "load"} =>
          /\ r.todo \subseteq DirEntries
          /\ Listed(r.formats, DirEntries \ (r.todo \cup {r.name}))
    /\ r.pc = "load" => r.name \in DirEntries \ r.todo /\ ProcEntry(r.name)
    /\ r.pc # "load" => r.name = NULL
    /\ r.pc \in {"open", "match"} => Listed(r.formats, DirEntries)

\* The buffer holds the beginning of the file, as far as any format needs it.
Buffered(r) ==
    r.pc = "match" =>
        /\ r.target \in Readable
        /\ \A c \in Range(r.formats) : ~c.extension => SizeRead(c) <= Len(r.buf)
        /\ \A i \in 1 .. Len(r.buf) : r.buf[i] = ByteAt(r.target, i)

\* What is executed, and the format the kernel chose.
Chose(r) ==
    /\ r.pc # "idle" \/ r.status \in {"0", "1", "2"} =>
          /\ r.target \in Targets
          /\ ~r.find => /\ r.via \in Matching(r.target)
                        /\ \A m \in Matching(r.target) : r.via \notin behind[m]
    /\ r.pc # "idle" /\ ~r.find => entry[r.via].interpreter = RunDetectors

\* The state FindAgrees, TriesAll and DetectorHeard speak of.
AsUsual == InStep /\ \A n \in Registered : Usual(Loaded(n))

\* The formats that the kernel and the detectors say the file has.
Answer(f) == {Candidate(Loaded(n)) : n \in Agreeing(f)}

CanRun(c) == c.interpreter \in Executable

\* What --find prints, and what run-detectors tries, detectors first.
Answered(r) == AsUsual => r.tried = Answer(r.target)

Trying(r) ==
    r.pc = "exec" =>
        /\ ~r.find /\ r.target \in Readable /\ Answered(r)
        /\ Range(r.interpreters) \subseteq r.tried
        /\ \A c \in r.tried \ Range(r.interpreters) : ~CanRun(c)
        /\ \A i, j \in DOMAIN r.interpreters :
              i < j /\ r.interpreters[j].detector # ""
                  => r.interpreters[i].detector # ""

\* What it comes to.
Finished(r) ==
    r.pc = "idle" =>
        /\ r.status = "1" => ~InStep
        /\ r.find /\ r.status = "0" => r.target \in Readable /\ Answered(r)
        /\ r.find /\ r.status = "2" => r.target \notin Readable \/ ~InStep
        /\ /\ ~r.find /\ r.status \in {"0", "2"}
           /\ entry[r.via].interpreter # RunDetectors
           => r.ran = entry[r.via].interpreter
        /\ /\ ~r.find /\ AsUsual /\ r.status \in {"0", "2"}
           /\ entry[r.via].interpreter = RunDetectors
           => IF r.status = "2"
              THEN \/ r.target \notin Readable
                   \/ \A c \in Answer(r.target) : ~CanRun(c)
              ELSE \E c \in Answer(r.target) :
                      /\ CanRun(c) /\ r.ran = c.interpreter
                      /\ c.detector = "" =>
                            \A d \in Answer(r.target) :
                               d.detector # "" => ~CanRun(d)

Facts(r) ==
    /\ r \in Runs
    /\ Reading(r) /\ Buffered(r) /\ Chose(r) /\ Trying(r) /\ Finished(r)

FindInv == Inv /\ Facts(run)

----------------------------------------------------------------------------
(***************************************************************************)
(* The operators.                                                          *)
(***************************************************************************)
\* Bytes of a text.
LEMMA CharsType ==
    /\ \A t \in Text : chars[t] \in Bytes
    /\ chars[""] = <<>> /\ "" \in Text
    /\ \A t \in Text : expand_hex(chars[t]) \in Bytes
    /\ \A t \in Text : atoi(chars[t]) \in Int
<1>1. ASSUME NEW t \in Text
      PROVE  chars[t] \in Bytes
  <2>1. chars[t] \in Seq(1..255)
    BY TargetsAssumption
  <2>2. 1..255 \subseteq 0..255
    OBVIOUS
  <2>3. QED
    BY <2>1, <2>2, SeqMonotonic DEF Bytes
<1>2. chars[""] = <<>> /\ "" \in Text
  BY TargetsAssumption, TextAssumption
<1>3. QED
  BY <1>1, <1>2, ExpandType, AtoiType

\* A file that parses has texts in all its lines.
LEMMA LoadedTexts ==
    ASSUME TypeOK, NEW n \in FormatNames, Loaded(n) # NULL
    PROVE  LET b == Loaded(n)
           IN  /\ n \in DirEntries
               /\ b.type \in Text /\ b.offset \in Text /\ b.magic \in Text
               /\ b.mask \in Text /\ b.interpreter \in Text
               /\ b.detector \in Text
<1>1. is_file(n) /\ Loaded(n) = binfmt_load(admin[n])
  BY DEF Loaded
<1>2. admin[n] \in Seq(Text)
  BY <1>1 DEF is_file, TypeOK, File
<1>3. \A i \in 1..9 : ReadLine(admin[n], i) \in Text
  BY <1>2, ReadLineType
<1>4. Loaded(n) = [package |-> ReadLine(admin[n], 1),
                   type |-> ReadLine(admin[n], 2),
                   offset |-> ReadLine(admin[n], 3),
                   magic |-> ReadLine(admin[n], 4),
                   mask |-> ReadLine(admin[n], 5),
                   interpreter |-> ReadLine(admin[n], 6),
                   detector |-> ReadLine(admin[n], 7),
                   credentials |-> ReadLine(admin[n], 8),
                   preserve |-> ReadLine(admin[n], 9)]
  BY <1>1 DEF binfmt_load
<1>5. n \in DirEntries
  BY <1>1 DEF DirEntries
<1>6. QED
  BY <1>3, <1>4, <1>5

\* load_format yields a format of the list.
LEMMA CandidateType ==
    ASSUME TypeOK, NEW n \in FormatNames, Loaded(n) # NULL
    PROVE  Candidate(Loaded(n)) \in Candidates
<1> DEFINE b == Loaded(n)
<1>1. /\ b.type \in Text /\ b.offset \in Text /\ b.magic \in Text
      /\ b.mask \in Text /\ b.interpreter \in Text /\ b.detector \in Text
  BY LoadedTexts
<1> HIDE DEF b
<1> DEFINE ext == b.type # "magic"
           off == IF b.offset = "" THEN 0 ELSE atoi(chars[b.offset])
           magic == expand_hex(chars[b.magic])
           mask == expand_hex(chars[b.mask])
<1>2. ext \in BOOLEAN
  OBVIOUS
<1>3. off \in Int
  <2>1. CASE b.offset = ""
    <3>1. off = 0
      BY <2>1, Zenon
    <3> HIDE DEF off
    <3>2. QED
      BY <3>1
  <2>2. CASE b.offset # ""
    <3>1. off = atoi(chars[b.offset])
      BY <2>2
    <3>2. atoi(chars[b.offset]) \in Int
      BY <1>1, CharsType
    <3> HIDE DEF off
    <3>3. QED
      BY <3>1, <3>2
  <2>3. QED
    BY <2>1, <2>2
<1>4. magic \in Bytes /\ mask \in Bytes
  BY <1>1, CharsType
<1>5. Candidate(b) = [extension |-> ext, offset |-> off, magic |-> magic,
                      mask |-> mask, interpreter |-> b.interpreter,
                      detector |-> b.detector]
  BY DEF Candidate
<1> HIDE DEF ext, off, magic, mask
<1>6. Candidate(b) \in Candidates
  BY <1>1, <1>2, <1>3, <1>4, <1>5 DEF Candidates
<1>7. QED
  BY <1>6 DEF b

\* Appending to a list.
LEMMA RangeAppend ==
    ASSUME NEW S, NEW s \in Seq(S), NEW c \in S
    PROVE  /\ Append(s, c) \in Seq(S)
           /\ Range(Append(s, c)) = Range(s) \cup {c}
<1>1. Append(s, c) \in Seq(S) /\ Len(Append(s, c)) = Len(s) + 1
      /\ Append(s, c)[Len(s) + 1] = c
      /\ \A i \in 1 .. Len(s) : Append(s, c)[i] = s[i]
  OBVIOUS
<1>2. Len(s) \in Nat /\ DOMAIN s = 1 .. Len(s)
      /\ DOMAIN Append(s, c) = 1 .. Len(s) + 1
  BY <1>1, LenProperties
<1>3. 1 .. Len(s) + 1 = (1 .. Len(s)) \cup {Len(s) + 1}
  BY <1>2
<1>4. QED
  BY <1>1, <1>2, <1>3 DEF Range

\* Joining two lists.
LEMMA RangeJoin ==
    ASSUME NEW S, NEW s \in Seq(S), NEW t \in Seq(S)
    PROVE  s \o t \in Seq(S) /\ Range(s \o t) = Range(s) \cup Range(t)
<1>1. /\ s \o t \in Seq(S)
      /\ Len(s \o t) = Len(s) + Len(t)
      /\ \A i \in 1 .. Len(s) + Len(t) :
            (s \o t)[i] = IF i <= Len(s) THEN s[i] ELSE t[i - Len(s)]
  BY ConcatProperties
<1>2. /\ Len(s) \in Nat /\ DOMAIN s = 1 .. Len(s)
      /\ Len(t) \in Nat /\ DOMAIN t = 1 .. Len(t)
      /\ DOMAIN (s \o t) = 1 .. Len(s) + Len(t)
  BY <1>1, LenProperties
<1> DEFINE u == s \o t
<1> HIDE DEF u
<1>3. ASSUME NEW i \in DOMAIN u
      PROVE  u[i] \in Range(s) \cup Range(t)
  <2>1. i \in 1 .. Len(s) \/ (i - Len(s) \in 1 .. Len(t) /\ ~(i <= Len(s)))
    BY <1>2 DEF u
  <2>2. QED
    BY <1>1, <1>2, <2>1 DEF u, Range
<1>4. ASSUME NEW i \in DOMAIN s
      PROVE  i \in DOMAIN u /\ u[i] = s[i]
  BY <1>1, <1>2 DEF u
<1>5. ASSUME NEW i \in DOMAIN t
      PROVE  i + Len(s) \in DOMAIN u /\ u[i + Len(s)] = t[i]
  <2>1. /\ i + Len(s) \in 1 .. Len(s) + Len(t) /\ ~(i + Len(s) <= Len(s))
        /\ i + Len(s) - Len(s) = i
    BY <1>2
  <2>2. QED
    BY <1>1, <1>2, <2>1 DEF u
<1>6. Range(u) = Range(s) \cup Range(t)
  BY <1>3, <1>4, <1>5 DEF Range
<1>7. QED
  BY <1>1, <1>6 DEF u

\* The loop takes those it is told to take.
LEMMA ChosenIs ==
    ASSUME NEW S, NEW list \in Seq(S), NEW taken
    PROVE  /\ Chosen(list, taken) \in Seq(S)
           /\ Range(Chosen(list, taken)) = Range(list) \cap taken
<1> DEFINE n == Len(list)
           Next0(f, i) == IF i = 0 THEN <<>>
                          ELSE IF list[i] \in taken
                          THEN Append(f[i-1], list[i])
                          ELSE f[i-1]
           U(f) == f = [i \in 0 .. n |-> Next0(f, i)]
           upto == CHOOSE f : U(f)
           Good(t, i) == /\ t \in Seq(S)
                         /\ Range(t) = {list[j] : j \in 1 .. i} \cap taken
           Begun(k) == \E f \in [0 .. k -> Seq(S)] :
                          \A i \in 0 .. k : f[i] = Next0(f, i)
           T == {k \in 0 .. n : ~Begun(k)}
           X == {k \in 0 .. n : ~Good(upto[k], k)}
<1>1. n \in Nat /\ DOMAIN list = 1 .. n /\ \A i \in 1 .. n : list[i] \in S
  BY LenProperties, ElementOfSeq
<1>2. Chosen(list, taken) = upto[n]
  BY DEF Chosen
<1> HIDE DEF upto, n
<1>3. Begun(0)
  <2> DEFINE f == [i \in 0 .. 0 |-> <<>>]
  <2>1. f \in [0 .. 0 -> Seq(S)]
    OBVIOUS
  <2>2. \A i \in 0 .. 0 : f[i] = Next0(f, i)
    OBVIOUS
  <2>3. QED
    BY <2>1, <2>2
<1>4. ASSUME NEW m \in 0 .. n, m # 0, Begun(m - 1)
      PROVE  Begun(m)
  <2>1. PICK f \in [0 .. m-1 -> Seq(S)] :
                \A i \in 0 .. m-1 : f[i] = Next0(f, i)
    BY <1>4
  <2> DEFINE g == [i \in 0 .. m |-> IF i = m THEN Next0(f, m) ELSE f[i]]
  <2>2. /\ m - 1 \in 0 .. m-1 /\ m \in 1 .. n
        /\ \A i \in 0 .. m : i # m => i \in 0 .. m-1
        /\ \A i \in 0 .. m : i # 0 => i-1 \in 0 .. m-1 /\ i-1 # m
                                      /\ i-1 \in 0 .. m
    <3>1. m \in Nat /\ m # 0 /\ m <= n
      BY <1>1, <1>4
    <3> HIDE DEF g, Begun, T, X, Good
    <3>2. QED
      BY <1>1, <3>1
  <2>3. Next0(f, m) \in Seq(S)
    <3>1. f[m-1] \in Seq(S) /\ list[m] \in S
      BY <1>1, <2>1, <2>2
    <3>2. QED
      BY <3>1
  <2>4. g \in [0 .. m -> Seq(S)]
    BY <2>1, <2>2, <2>3
  <2>5. ASSUME NEW i \in 0 .. m
        PROVE  g[i] = Next0(g, i)
    <3>1. i # 0 => g[i-1] = f[i-1]
      BY <2>2
    <3>2. g[i] = Next0(f, i)
      BY <2>1, <2>2
    <3>3. QED
      BY <3>1, <3>2
  <2>6. QED
    BY <2>4, <2>5
<1> HIDE DEF Begun
<1>5. T = {}
  <2>1. SUFFICES ASSUME T # {}
                 PROVE  FALSE
    OBVIOUS
  <2>2. T \subseteq Nat
    BY <1>1
  <2> HIDE DEF T
  <2>3. PICK k \in T : \A x \in T : ~(x < k)
    BY <2>1, <2>2, Least, Zenon
  <2> USE DEF T
  <2>4. k # 0
    BY <1>3, <2>3
  <2>5. k - 1 \in 0 .. n /\ k - 1 \notin T
    BY <1>1, <2>3, <2>4
  <2>6. QED
    BY <1>4, <2>3, <2>4, <2>5
<1>6. U(upto)
  <2>1. Begun(n)
    BY <1>1, <1>5
  <2>2. PICK f \in [0 .. n -> Seq(S)] : \A i \in 0 .. n : f[i] = Next0(f, i)
    BY <2>1 DEF Begun
  <2>3. U(f)
    BY <2>2
  <2>4. QED
    BY <2>3 DEF upto
<1>7. \A i \in 0 .. n : upto[i] = Next0(upto, i)
  BY <1>6
<1>8. Good(<<>>, 0)
  BY DEF Range
<1>9. ASSUME NEW m \in 0 .. n, m # 0, Good(upto[m-1], m-1)
      PROVE  Good(upto[m], m)
  <2>1. 1 .. m = (1 .. m-1) \cup {m} /\ list[m] \in S
    BY <1>1, <1>9
  <2>2. {list[j] : j \in 1 .. m} = {list[j] : j \in 1 .. m-1} \cup {list[m]}
    BY <2>1
  <2>3. CASE list[m] \in taken
    <3>1. upto[m] = Append(upto[m-1], list[m])
      BY <1>7, <1>9, <2>3
    <3>2. QED
      BY <1>9, <2>1, <2>2, <2>3, <3>1, RangeAppend
  <2>4. CASE list[m] \notin taken
    <3>1. upto[m] = upto[m-1]
      BY <1>7, <1>9, <2>4
    <3>2. QED
      BY <1>9, <2>2, <2>4, <3>1
  <2>5. QED
    BY <2>3, <2>4
<1> HIDE DEF Good
<1>10. X = {}
  <2>1. SUFFICES ASSUME X # {}
                 PROVE  FALSE
    OBVIOUS
  <2>2. X \subseteq Nat
    BY <1>1
  <2> HIDE DEF X
  <2>3. PICK k \in X : \A x \in X : ~(x < k)
    BY <2>1, <2>2, Least, Zenon
  <2> USE DEF X
  <2>4. k # 0
    BY <1>1, <1>7, <1>8, <2>3
  <2>5. k - 1 \in 0 .. n /\ k - 1 \notin X
    BY <1>1, <2>3, <2>4
  <2>6. QED
    BY <1>9, <2>3, <2>4, <2>5
<1>11. Good(upto[n], n)
  BY <1>1, <1>10
<1>12. Range(list) = {list[j] : j \in 1 .. n}
  BY <1>1 DEF Range
<1>13. QED
  BY <1>2, <1>11, <1>12 DEF Good

----------------------------------------------------------------------------
(***************************************************************************)
(* While a run is under way update-binfmts does nothing.                   *)
(***************************************************************************)
LEMMA SameState ==
    ASSUME UNCHANGED vars
    PROVE  /\ DirEntries' = DirEntries /\ Registered' = Registered
           /\ \A n : Loaded(n)' = Loaded(n)
           /\ \A n : ProcEntry(n)' <=> ProcEntry(n)
           /\ \A f : Matching(f)' = Matching(f) /\ Answer(f)' = Answer(f)
           /\ InStep' <=> InStep
           /\ AsUsual' <=> AsUsual
           /\ \A list, D : Listed(list, D)' <=> Listed(list, D)
<1>1. procfs' = procfs /\ entry' = entry /\ manual' = manual /\ admin' = admin
  BY DEF vars
<1>2. DirEntries' = DirEntries /\ Registered' = Registered
  BY <1>1 DEF DirEntries, Registered, is_file
<1>3. \A n : Loaded(n)' = Loaded(n)
  BY <1>1 DEF Loaded, is_file
<1>4. \A n : ProcEntry(n)' <=> ProcEntry(n)
  BY <1>1 DEF ProcEntry
<1>5. \A f : Matching(f)' = Matching(f)
  BY <1>1, <1>2 DEF Matching
<1>6. \A f : Agreeing(f)' = Agreeing(f)
  BY <1>3, <1>5 DEF Agreeing, Detecting
<1>7. \A f : Answer(f)' = Answer(f)
  BY <1>3, <1>6 DEF Answer
<1>8. InStep' <=> InStep
  BY <1>1, <1>2, <1>3 DEF InStep
<1>9. AsUsual' <=> AsUsual
  BY <1>2, <1>3, <1>8 DEF AsUsual
<1>10. \A D : Entries(D)' = Entries(D)
  BY <1>3, <1>4 DEF Entries
<1>11. \A D : FormatsOf(D)' = FormatsOf(D)
  BY <1>3, <1>10 DEF FormatsOf
<1>12. \A list, D : Listed(list, D)' <=> Listed(list, D)
  BY <1>3, <1>4, <1>11 DEF Listed
<1>13. QED
  BY <1>2, <1>3, <1>4, <1>5, <1>7, <1>8, <1>9, <1>12

\* So what holds of the new record in the old state holds in the new one.
LEMMA FactsStay ==
    ASSUME UNCHANGED vars, Facts(run')
    PROVE  Facts(run)'
<1>1. behind' = behind /\ entry' = entry
  BY DEF vars
<1>2. Reading(run')
  BY DEF Facts
<1>3. Reading(run)'
  BY <1>2, SameState DEF Reading
<1>4. Buffered(run)'
  BY DEF Facts, Buffered
<1>5. Chose(run)'
  BY <1>1, SameState DEF Facts, Chose
<1>6. Trying(run)'
  BY SameState DEF Facts, Trying, Answered
<1>7. Finished(run)'
  BY <1>1, SameState DEF Facts, Finished, Answered
<1>8. QED
  BY <1>3, <1>4, <1>5, <1>6, <1>7 DEF Facts

\* A run that has read nothing yet.
Unread(pc, find, target, via, todo, ran, status) ==
    [pc |-> pc, find |-> find, target |-> target, via |-> via,
     todo |-> todo, name |-> NULL, formats |-> <<>>, buf |-> <<>>,
     tried |-> {}, interpreters |-> <<>>, ran |-> ran, status |-> status]

\* A run that has read nothing is a run.
LEMMA UnreadType ==
    ASSUME NEW pc \in {"idle", "readdir"}, NEW find \in BOOLEAN,
           NEW target \in Targets \cup {NULL},
           NEW via \in FormatNames \cup {NULL}, NEW todo \in SUBSET FormatNames,
           NEW ran \in Text \cup {"(null)", NULL},
           NEW status \in EndStates
    PROVE  Unread(pc, find, target, via, todo, ran, status) \in Runs
BY DEF Unread, Runs, Stages

\* Nothing is under way before a run begins.
LEMMA ReadyFacts ==
    ASSUME NEW st \in {"none", "unreadable"}
    PROVE  Facts(Unread("idle", FALSE, NULL, NULL, {}, NULL, st))
<1> DEFINE r == Unread("idle", FALSE, NULL, NULL, {}, NULL, st)
<1>2. r.pc = "idle" /\ r.find = FALSE /\ r.name = NULL /\ r.status = st
  BY DEF Unread
<1>3. r \in Runs
  <2>1. /\ "idle" \in {"idle", "readdir"} /\ FALSE \in BOOLEAN
        /\ NULL \in Targets \cup {NULL} /\ NULL \in FormatNames \cup {NULL}
        /\ {} \in SUBSET FormatNames /\ NULL \in Text \cup {"(null)", NULL}
        /\ st \in EndStates
    BY DEF EndStates
  <2>2. QED
    BY <2>1, UnreadType, Zenon
<1> HIDE DEF r
<1>4. Reading(r)
  BY <1>2 DEF Reading
<1>5. Buffered(r) /\ Chose(r) /\ Trying(r) /\ Finished(r)
  BY <1>2 DEF Buffered, Chose, Trying, Finished
<1>6. QED
  BY <1>3, <1>4, <1>5 DEF Facts, r

\* No run is under way: nothing has been read.
LEMMA ReadyIs ==
    /\ Ready = Unread("idle", FALSE, NULL, NULL, {}, NULL, "none")
    /\ [Ready EXCEPT !.status = "unreadable"]
          = Unread("idle", FALSE, NULL, NULL, {}, NULL, "unreadable")
<1>1. Ready = Unread("idle", FALSE, NULL, NULL, {}, NULL, "none")
  BY Zenon DEF Ready, Unread
<1>2. ASSUME NEW f, NEW u, NEW l
      PROVE  [Unread("idle", f, u, u, l, u, "none")
                 EXCEPT !.status = "unreadable"]
              = Unread("idle", f, u, u, l, u, "unreadable")
  BY DEF Unread
<1>3. QED
  BY <1>1, <1>2

\* Nothing has been read before the first entry.
LEMMA NothingListed == Listed(<<>>, DirEntries \ (DirEntries \cup {NULL}))
<1>1. DirEntries \ (DirEntries \cup {NULL}) = {} /\ Range(<<>>) = {}
  BY DEF Range
<1>2. FormatsOf({}) = {}
  BY DEF FormatsOf, Entries
<1>3. QED
  BY <1>1, <1>2 DEF Listed

\* A run begins at the first entry of the directory.
LEMMA BeginsReading ==
    ASSUME NEW r \in Runs, r.pc = "readdir", r.todo = DirEntries,
           r.name = NULL, r.formats = <<>>
    PROVE  Reading(r) /\ Buffered(r) /\ Trying(r) /\ Finished(r)
<1>1. Reading(r)
  BY NothingListed DEF Reading
<1>2. QED
  BY <1>1 DEF Buffered, Trying, Finished

\* --find begins to read the directory.
LEMMA FindBegins ==
    ASSUME FindInv, NEW f \in Targets, act_find(f)
    PROVE  Facts(run')
<1> DEFINE r == Unread("readdir", TRUE, f, NULL, DirEntries, NULL, "none")
<1>1. run' = r
  BY DEF act_find, Ready, Unread
<1>2. DirEntries \in SUBSET FormatNames
  BY DEF DirEntries
<1>3. /\ r.pc = "readdir" /\ r.find = TRUE /\ r.target = f
      /\ r.todo = DirEntries /\ r.name = NULL /\ r.formats = <<>>
  BY DEF Unread
<1>4. r \in Runs
  <2>1. /\ "readdir" \in {"idle", "readdir"} /\ TRUE \in BOOLEAN
        /\ f \in Targets \cup {NULL} /\ NULL \in FormatNames \cup {NULL}
        /\ NULL \in Text \cup {"(null)", NULL}
        /\ "none" \in EndStates
    BY DEF EndStates
  <2>2. QED
    BY <1>2, <2>1, UnreadType, Zenon
<1> HIDE DEF r
<1>5. Chose(r)
  BY <1>3 DEF Chose
<1>6. QED
  BY <1>1, <1>3, <1>4, <1>5, BeginsReading DEF Facts

\* The kernel chooses an entry, and run-detectors begins if it leads there.
LEMMA ExecuteBegins ==
    ASSUME FindInv, NEW f \in Targets, Execute(f)
    PROVE  Facts(run')
<1>1. TypeOK
  BY DEF FindInv, Inv
<1>2. PICK n \in Matching(f) :
         /\ \A m \in Matching(f) : n \notin behind[m]
         /\ LET new  == [Ready EXCEPT !.target = f, !.via = n]
                prog == entry[n].interpreter
            IN run' = IF prog = RunDetectors
                      THEN [new EXCEPT !.pc = "readdir", !.todo = DirEntries]
                      ELSE [new EXCEPT !.ran = prog,
                               !.status = IF prog \in Executable
                                          THEN "0" ELSE "2"]
  BY DEF Execute
<1>3. n \in FormatNames /\ entry[n] # NULL
  BY DEF Matching, Registered
<1> DEFINE prog == entry[n].interpreter
<1>4. prog \in Text \cup {"(null)"}
  <2>1. entry[n] \in Regstring
    BY <1>1, <1>3 DEF TypeOK, KernelTypeOK
  <2>2. QED
    BY <2>1 DEF Regstring
<1>5. CASE prog = RunDetectors
  <2> DEFINE r == Unread("readdir", FALSE, f, n, DirEntries, NULL, "none")
  <2>1. run' = r
    BY <1>2, <1>5 DEF Ready, Unread
  <2>2. DirEntries \in SUBSET FormatNames
    BY DEF DirEntries
  <2>3. /\ r.pc = "readdir" /\ r.find = FALSE /\ r.target = f
        /\ r.via = n /\ r.todo = DirEntries /\ r.name = NULL
        /\ r.formats = <<>>
    BY DEF Unread
  <2>4. r \in Runs
    <3>1. /\ "readdir" \in {"idle", "readdir"} /\ FALSE \in BOOLEAN
          /\ f \in Targets \cup {NULL} /\ n \in FormatNames \cup {NULL}
          /\ NULL \in Text \cup {"(null)", NULL}
          /\ "none" \in EndStates
      BY <1>3 DEF EndStates
    <3>2. QED
      BY <2>2, <3>1, UnreadType, Zenon
  <2> HIDE DEF r
  <2>5. Chose(r)
    BY <1>2, <1>5, <2>3 DEF Chose
  <2>6. QED
    BY <2>1, <2>3, <2>4, <2>5, BeginsReading DEF Facts
<1>6. CASE prog # RunDetectors
  <2> DEFINE st == IF prog \in Executable THEN "0" ELSE "2"
             r == Unread("idle", FALSE, f, n, {}, prog, st)
  <2>1. run' = r
    BY <1>2, <1>6 DEF Ready, Unread
  <2>2. st \in {"0", "2"}
    OBVIOUS
  <2> HIDE DEF st
  <2>3. /\ r.pc = "idle" /\ r.find = FALSE /\ r.target = f
        /\ r.via = n /\ r.name = NULL /\ r.ran = entry[n].interpreter
        /\ r.status \in {"0", "2"}
    BY <2>2 DEF Unread
  <2>4. r \in Runs
    <3>1. /\ "idle" \in {"idle", "readdir"} /\ FALSE \in BOOLEAN
          /\ f \in Targets \cup {NULL} /\ n \in FormatNames \cup {NULL}
          /\ {} \in SUBSET FormatNames
          /\ prog \in Text \cup {"(null)", NULL}
          /\ st \in EndStates
      BY <1>3, <1>4, <2>2 DEF EndStates
    <3>2. QED
      BY <3>1, UnreadType, Zenon
  <2> HIDE DEF r
  <2>5. Chose(r)
    BY <1>2, <2>3 DEF Chose
  <2>6. Reading(r) /\ Buffered(r) /\ Trying(r)
    BY <2>3 DEF Reading, Buffered, Trying
  <2>7. Finished(r)
    BY <1>6, <2>3 DEF Finished
  <2>8. QED
    BY <2>1, <2>4, <2>5, <2>6, <2>7 DEF Facts
<1>7. QED
  BY <1>5, <1>6

----------------------------------------------------------------------------
(***************************************************************************)
(* Reading the directory.                                                  *)
(***************************************************************************)
\* The parts of a run.
LEMMA RunFields ==
    ASSUME NEW r \in Runs
    PROVE  /\ r.find \in BOOLEAN /\ r.target \in Targets \cup {NULL}
           /\ r.via \in FormatNames \cup {NULL} /\ r.todo \in SUBSET FormatNames
           /\ r.name \in FormatNames \cup {NULL}
           /\ r.formats \in Seq(Candidates) /\ r.buf \in Seq(0..255)
           /\ r.tried \in SUBSET Candidates
           /\ r.interpreters \in Seq(Candidates)
           /\ r.ran \in Text \cup {"(null)", NULL}
           /\ r.status \in EndStates /\ r.pc \in Stages
BY DEF Runs

\* What the steps make of a run is a run.
LEMMA StageChanges ==
    ASSUME NEW r \in Runs, NEW pc \in Stages
    PROVE  [r EXCEPT !.pc = pc] \in Runs
BY DEF Runs

\* A run stays a run when the fields that a step assigns keep their types.
LEMMA TodoChanges ==
    ASSUME NEW r \in Runs, NEW todo \in SUBSET FormatNames
    PROVE  [r EXCEPT !.todo = todo] \in Runs
BY DEF Runs

LEMMA InterpretersChange ==
    ASSUME NEW r \in Runs, NEW interpreters \in Seq(Candidates)
    PROVE  [r EXCEPT !.interpreters = interpreters] \in Runs
BY DEF Runs

LEMMA NameChanges ==
    ASSUME NEW r \in Runs, NEW pc \in Stages,
           NEW name \in FormatNames \cup {NULL},
           NEW todo \in SUBSET FormatNames, NEW status \in EndStates,
           NEW formats \in Seq(Candidates)
    PROVE  /\ [r EXCEPT !.pc = pc, !.name = name, !.todo = todo] \in Runs
           /\ [r EXCEPT !.pc = pc, !.name = name, !.status = status] \in Runs
           /\ [r EXCEPT !.pc = pc, !.name = name, !.formats = formats] \in Runs
<1>1. [r EXCEPT !.pc = pc, !.name = name, !.todo = todo] \in Runs
  BY DEF Runs
<1>2. [r EXCEPT !.pc = pc, !.name = name, !.status = status] \in Runs
  BY DEF Runs
<1>3. [r EXCEPT !.pc = pc, !.name = name, !.formats = formats] \in Runs
  BY DEF Runs
<1>4. QED
  BY <1>1, <1>2, <1>3

LEMMA BufferChanges ==
    ASSUME NEW r \in Runs, NEW pc \in Stages, NEW buf \in Seq(0..255)
    PROVE  [r EXCEPT !.pc = pc, !.buf = buf] \in Runs
BY DEF Runs

LEMMA RanChanges ==
    ASSUME NEW r \in Runs, NEW pc \in Stages, NEW status \in EndStates,
           NEW ran \in Text \cup {"(null)", NULL}
    PROVE  [r EXCEPT !.pc = pc, !.status = status, !.ran = ran] \in Runs
BY DEF Runs

LEMMA AnswerChanges ==
    ASSUME NEW r \in Runs, NEW pc \in Stages, NEW status \in EndStates,
           NEW formats \in Seq(Candidates), NEW buf \in Seq(0..255),
           NEW interpreters \in Seq(Candidates),
           NEW tried \in SUBSET Candidates
    PROVE  [r EXCEPT !.pc = pc, !.status = status, !.formats = formats,
                     !.buf = buf, !.interpreters = interpreters,
                     !.tried = tried] \in Runs
BY DEF Runs

\* The labels and the answers, one by one.
LEMMA StagesAre ==
    /\ "idle" \in Stages /\ "readdir" \in Stages /\ "load" \in Stages
    /\ "open" \in Stages /\ "match" \in Stages /\ "exec" \in Stages
    /\ "none" \in EndStates /\ "0" \in EndStates /\ "1" \in EndStates
    /\ "2" \in EndStates /\ "unreadable" \in EndStates
BY DEF Stages, EndStates

\* The list of all names but those of T and one more of them.
LEMMA ListedSame ==
    ASSUME NEW list, NEW D, NEW n, Listed(list, D), ~ProcEntry(n)
    PROVE  Listed(list, D \cup {n})
<1>1. Entries(D \cup {n}) = Entries(D)
  BY DEF Entries
<1>2. FormatsOf(D \cup {n}) = FormatsOf(D)
  BY <1>1 DEF FormatsOf
<1>3. QED
  BY <1>2 DEF Listed

\* A file of /proc that has been loaded is in the list, if it is fitting.
LEMMA ListedMore ==
    ASSUME TypeOK, NEW list \in Seq(Candidates), NEW D, NEW n \in FormatNames,
           Listed(list, D), ProcEntry(n), Loaded(n) # NULL,
           NEW c, c = Candidate(Loaded(n))
    PROVE  /\ Fitting(c) => /\ Append(list, c) \in Seq(Candidates)
                            /\ Listed(Append(list, c), D \cup {n})
           /\ ~Fitting(c) => Listed(list, D \cup {n})
<1>1. c \in Candidates
  BY CandidateType
<1>2. Append(list, c) \in Seq(Candidates)
      /\ Range(Append(list, c)) = Range(list) \cup {c}
  BY <1>1, RangeAppend
<1>3. CASE Fitting(c)
  <2>1. Entries(D \cup {n}) = Entries(D) \cup {n}
    BY <1>3 DEF Entries
  <2>2. FormatsOf(D \cup {n}) = FormatsOf(D) \cup {c}
    BY <2>1 DEF FormatsOf
  <2>3. QED
    BY <1>2, <1>3, <2>2 DEF Listed
<1>4. CASE ~Fitting(c)
  <2>1. Entries(D \cup {n}) = Entries(D)
    BY <1>4 DEF Entries
  <2>2. FormatsOf(D \cup {n}) = FormatsOf(D)
    BY <2>1 DEF FormatsOf
  <2>3. QED
    BY <1>4, <2>2 DEF Listed
<1>5. QED
  BY <1>3, <1>4

\* Names taken from what is to be done are done.
LEMMA DoneMore ==
    ASSUME NEW D, NEW T, NEW n \in T, T \subseteq D
    PROVE  D \ (T \ {n}) = (D \ T) \cup {n} /\ D \ ((T \ {n}) \cup {n}) = D \ T
OBVIOUS

\* No name is NULL.
LEMMA NoName == NULL \notin FormatNames /\ NULL \notin DirEntries
BY NamesAssumption DEF DirEntries

\* The file and the format the kernel chose stay as they are.
LEMMA ChoseStays ==
    ASSUME NEW r, Chose(r), r.pc # "idle", NEW t,
           t.target = r.target, t.find = r.find, t.via = r.via
    PROVE  Chose(t)
BY DEF Chose

\* A step of the loop over the directory.
LEMMA ReadEntryFacts ==
    ASSUME FindInv, ReadEntry
    PROVE  Facts(run')
<1> DEFINE r == run
           t == run'
           D == DirEntries
<1>1. /\ r \in Runs /\ r.pc = "readdir" /\ r.todo \subseteq D /\ r.name = NULL
      /\ Listed(r.formats, D \ r.todo) /\ Chose(r)
  <2>1. Facts(r) /\ r.pc = "readdir"
    BY DEF FindInv, ReadEntry
  <2>2. r.name = NULL /\ r.todo \subseteq D
        /\ Listed(r.formats, D \ (r.todo \cup {r.name}))
    BY <2>1 DEF Facts, Reading
  <2>3. D \ (r.todo \cup {NULL}) = D \ r.todo
    BY NoName
  <2>4. QED
    BY <2>1, <2>2, <2>3 DEF Facts
<1>2. D \subseteq FormatNames
  BY DEF DirEntries
<1> HIDE DEF r, D
<1>3. ASSUME NEW n \in r.todo, ProcEntry(n),
             t = [r EXCEPT !.pc = "load", !.name = n, !.todo = @ \ {n}]
      PROVE  Facts(t)
  <2>1. n \in D /\ n \in FormatNames /\ r.todo \ {n} \in SUBSET FormatNames
    BY <1>1, <1>2
  <2>2. t \in Runs
    <3>1. n \in FormatNames \cup {NULL}
      BY <2>1
    <3>2. [r EXCEPT !.pc = "load", !.name = n, !.todo = r.todo \ {n}] \in Runs
      <4>1. r.status \in EndStates /\ r.formats \in Seq(Candidates)
        BY <1>1, RunFields
      <4>2. QED
        BY <1>1, <2>1, <3>1, <4>1, StagesAre, NameChanges, Zenon
    <3>3. QED
      BY <1>3, <3>2
  <2>3. /\ t.pc = "load" /\ t.name = n /\ t.todo = r.todo \ {n}
        /\ t.formats = r.formats /\ t.target = r.target /\ t.find = r.find
        /\ t.via = r.via
    BY <1>1, <1>3 DEF Runs
  <2> HIDE DEF t
  <2>4. Listed(t.formats, D \ (t.todo \cup {t.name}))
    <3>1. D \ ((r.todo \ {n}) \cup {n}) = D \ r.todo
      BY <1>1, DoneMore
    <3>2. QED
      BY <1>1, <2>3, <3>1
  <2>5. Reading(t)
    BY <1>1, <1>3, <2>1, <2>3, <2>4 DEF Reading, D
  <2>6. Chose(t)
    BY <1>1, <2>3, ChoseStays
  <2>7. QED
    BY <2>2, <2>3, <2>5, <2>6 DEF Facts, Buffered, Trying, Finished
<1>4. ASSUME NEW n \in r.todo, ~ProcEntry(n), t = [r EXCEPT !.todo = @ \ {n}]
      PROVE  Facts(t)
  <2>1. n \in D /\ n \in FormatNames /\ r.todo \ {n} \in SUBSET FormatNames
    BY <1>1, <1>2
  <2>2. t \in Runs
    <3>1. [r EXCEPT !.todo = r.todo \ {n}] \in Runs
      BY <1>1, <2>1, TodoChanges, Zenon
    <3>2. QED
      BY <1>4, <3>1
  <2>3. /\ t.pc = "readdir" /\ t.name = NULL /\ t.todo = r.todo \ {n}
        /\ t.formats = r.formats /\ t.target = r.target /\ t.find = r.find
        /\ t.via = r.via
    BY <1>1, <1>4 DEF Runs
  <2> HIDE DEF t
  <2>4. Listed(t.formats, D \ (t.todo \cup {t.name}))
    <3>1. D \ (r.todo \ {n}) = (D \ r.todo) \cup {n}
      BY <1>1, DoneMore
    <3>2. D \ (t.todo \cup {t.name}) = D \ (r.todo \ {n})
      BY <2>3, NoName DEF D
    <3>3. Listed(r.formats, (D \ r.todo) \cup {n})
      BY <1>1, <1>4, ListedSame
    <3>4. QED
      BY <2>3, <3>1, <3>2, <3>3
  <2>5. Reading(t)
    BY <1>1, <2>1, <2>3, <2>4 DEF Reading, D
  <2>6. Chose(t)
    BY <1>1, <2>3, ChoseStays
  <2>7. QED
    BY <2>2, <2>3, <2>5, <2>6 DEF Facts, Buffered, Trying, Finished
<1>5. ASSUME r.todo = {}, t = [r EXCEPT !.pc = "open"]
      PROVE  Facts(t)
  <2>1. t \in Runs
    BY <1>1, <1>5, StagesAre, StageChanges
  <2>2. /\ t.pc = "open" /\ t.name = NULL /\ t.formats = r.formats
        /\ t.target = r.target /\ t.find = r.find /\ t.via = r.via
    BY <1>1, <1>5 DEF Runs
  <2> HIDE DEF t
  <2>3. D \ r.todo = D
    BY <1>5
  <2>4. Reading(t)
    BY <1>1, <2>2, <2>3 DEF Reading, D
  <2>5. Chose(t)
    BY <1>1, <2>2, ChoseStays
  <2>6. QED
    BY <2>1, <2>2, <2>4, <2>5 DEF Facts, Buffered, Trying, Finished
<1>6. CASE t = [Ready EXCEPT !.status = "unreadable"]
  <2>1. t = Unread("idle", FALSE, NULL, NULL, {}, NULL, "unreadable")
    BY <1>6, ReadyIs, Zenon
  <2>2. QED
    BY <2>1, ReadyFacts
<1>7. QED
  BY <1>3, <1>4, <1>5, <1>6 DEF ReadEntry, r

\* The program ends with a diagnostic, or for want of memory.
LEMMA QuitIs ==
    ASSUME NEW r \in Runs, NEW t,
           t = [r EXCEPT !.pc = "idle", !.name = NULL, !.status = "2"]
    PROVE  /\ t \in Runs /\ t.pc = "idle" /\ t.name = NULL /\ t.status = "2"
           /\ t.target = r.target /\ t.find = r.find /\ t.via = r.via
<1>1. t \in Runs
  <2>1. NULL \in FormatNames \cup {NULL}
    OBVIOUS
  <2>2. r.todo \in SUBSET FormatNames /\ r.formats \in Seq(Candidates)
    BY RunFields
  <2>3. QED
    BY <2>1, <2>2, StagesAre, NameChanges, Zenon
<1>2. QED
  BY <1>1 DEF Runs

LEMMA DieIs ==
    ASSUME NEW r \in Runs, NEW t,
           t = [r EXCEPT !.pc = "idle", !.name = NULL, !.status = "1"]
    PROVE  /\ t \in Runs /\ t.pc = "idle" /\ t.name = NULL /\ t.status = "1"
           /\ t.target = r.target /\ t.find = r.find /\ t.via = r.via
<1>1. t \in Runs
  <2>1. NULL \in FormatNames \cup {NULL}
    OBVIOUS
  <2>2. r.todo \in SUBSET FormatNames /\ r.formats \in Seq(Candidates)
    BY RunFields
  <2>3. QED
    BY <2>1, <2>2, StagesAre, NameChanges, Zenon
<1>2. QED
  BY <1>1 DEF Runs

\* A file is loaded into the list.
LEMMA LoadEntryFacts ==
    ASSUME FindInv, LoadEntry
    PROVE  Facts(run')
<1> DEFINE r == run
           t == run'
           D == DirEntries
           n == run.name
<1>1. /\ r \in Runs /\ r.pc = "load" /\ r.todo \subseteq D
      /\ n \in D \ r.todo /\ ProcEntry(n)
      /\ Listed(r.formats, D \ (r.todo \cup {n})) /\ Chose(r)
      /\ r.formats \in Seq(Candidates)
  <2>1. Facts(r) /\ r.pc = "load"
    BY DEF FindInv, LoadEntry
  <2>2. QED
    BY <2>1, RunFields DEF Facts, Reading
<1>2. D \subseteq FormatNames /\ TypeOK
  BY DEF DirEntries, FindInv, Inv
<1>3. \/ /\ Loaded(n) = NULL
         /\ t = [r EXCEPT !.pc = "idle", !.name = NULL, !.status = "2"]
      \/ /\ Loaded(n) # NULL
         /\ LET c == Candidate(Loaded(n)) IN
            t = [r EXCEPT !.pc = "readdir", !.name = NULL,
                          !.formats = IF Fitting(c) THEN Append(@, c) ELSE @]
  BY DEF LoadEntry, Quit, Ends
<1> HIDE DEF r, D, n
<1>4. CASE Loaded(n) = NULL
  <2>1. t = [r EXCEPT !.pc = "idle", !.name = NULL, !.status = "2"]
    BY <1>3, <1>4
  <2> HIDE DEF t
  <2>2. /\ t \in Runs /\ t.pc = "idle" /\ t.name = NULL /\ t.status = "2"
        /\ t.target = r.target /\ t.find = r.find /\ t.via = r.via
    BY <1>1, <2>1, QuitIs
  <2>3. ~InStep
    <3>1. n \in Registered
      BY <1>1, <1>2 DEF ProcEntry, Registered
    <3>2. QED
      BY <1>4, <3>1 DEF InStep
  <2>4. Chose(t)
    BY <1>1, <2>2, ChoseStays
  <2>5. Finished(t)
    BY <1>1, <2>2, <2>3 DEF Finished, AsUsual, Chose
  <2>6. Reading(t) /\ Buffered(t) /\ Trying(t)
    BY <2>2 DEF Reading, Buffered, Trying
  <2>7. Facts(t)
    BY <2>2, <2>4, <2>5, <2>6 DEF Facts
  <2>8. QED
    BY <2>7 DEF t
<1>5. CASE Loaded(n) # NULL
  <2> DEFINE c == Candidate(Loaded(n))
             list == IF Fitting(c) THEN Append(r.formats, c) ELSE r.formats
  <2>1. t = [r EXCEPT !.pc = "readdir", !.name = NULL, !.formats = list]
    BY <1>3, <1>5
  <2>2. (D \ (r.todo \cup {n})) \cup {n} = D \ r.todo /\ n \in FormatNames
    BY <1>1, <1>2
  <2>3. list \in Seq(Candidates) /\ Listed(list, D \ r.todo)
    <3>1. /\ Fitting(c) => /\ Append(r.formats, c) \in Seq(Candidates)
                           /\ Listed(Append(r.formats, c), D \ r.todo)
          /\ ~Fitting(c) => Listed(r.formats, D \ r.todo)
      <4> HIDE DEF c
      <4>1. c = Candidate(Loaded(n))
        BY DEF c
      <4> DEFINE E == D \ (r.todo \cup {n})
      <4>2. Listed(r.formats, E)
        BY <1>1
      <4> HIDE DEF E
      <4>3. /\ Fitting(c) => /\ Append(r.formats, c) \in Seq(Candidates)
                             /\ Listed(Append(r.formats, c), E \cup {n})
            /\ ~Fitting(c) => Listed(r.formats, E \cup {n})
        BY <1>1, <1>2, <1>5, <2>2, <4>1, <4>2, ListedMore, Zenon
      <4>4. E \cup {n} = D \ r.todo
        BY <2>2 DEF E
      <4>5. QED
        BY <4>3, <4>4, Zenon
    <3>2. CASE Fitting(c)
      <4>1. list = Append(r.formats, c)
        BY <3>2, Zenon
      <4> HIDE DEF list, c
      <4>2. QED
        BY <3>1, <3>2, <4>1, Zenon
    <3>3. CASE ~Fitting(c)
      <4>1. list = r.formats
        BY <3>3, Zenon
      <4> HIDE DEF list, c
      <4>2. QED
        BY <1>1, <3>1, <3>3, <4>1, Zenon
    <3>4. QED
      BY <3>2, <3>3
  <2> HIDE DEF list
  <2>4. t \in Runs
    <3>1. NULL \in FormatNames \cup {NULL}
      OBVIOUS
    <3>2. [r EXCEPT !.pc = "readdir", !.name = NULL, !.formats = list] \in Runs
      <4>1. r.status \in EndStates /\ r.todo \in SUBSET FormatNames
        BY <1>1, RunFields
      <4>2. QED
        BY <1>1, <2>3, <3>1, <4>1, StagesAre, NameChanges, Zenon
    <3>3. QED
      BY <2>1, <3>2
  <2>5. /\ t.pc = "readdir" /\ t.name = NULL /\ t.formats = list
        /\ t.todo = r.todo
        /\ t.target = r.target /\ t.find = r.find /\ t.via = r.via
    BY <1>1, <2>1 DEF Runs
  <2> HIDE DEF t
  <2>6. Reading(t)
    <3>1. D \ (t.todo \cup {t.name}) = D \ r.todo
      BY <2>5, NoName DEF D
    <3>2. QED
      BY <1>1, <2>3, <2>5, <3>1 DEF Reading, D
  <2>7. Chose(t)
    BY <1>1, <2>5, ChoseStays
  <2>8. Facts(t)
    BY <2>4, <2>5, <2>6, <2>7 DEF Facts, Buffered, Trying, Finished
  <2>9. QED
    BY <2>8 DEF t
<1>6. QED
  BY <1>4, <1>5

----------------------------------------------------------------------------
(***************************************************************************)
(* The buffer.                                                             *)
(***************************************************************************)
LEMMA CandidateParts ==
    ASSUME NEW c \in Candidates
    PROVE  /\ c.offset \in Int /\ Len(c.magic) \in Nat /\ SizeRead(c) \in Int
           /\ c.magic \in Bytes /\ c.mask \in Bytes /\ c.extension \in BOOLEAN
           /\ c.interpreter \in Text /\ c.detector \in Text
<1>1. /\ c.offset \in Int /\ c.magic \in Bytes /\ c.mask \in Bytes
      /\ c.extension \in BOOLEAN /\ c.interpreter \in Text
      /\ c.detector \in Text
  BY DEF Candidates
<1>2. Len(c.magic) \in Nat
  BY <1>1, LenProperties DEF Bytes
<1>3. QED
  BY <1>1, <1>2 DEF SizeRead

\* What is read of a file is bytes.
LEMMA ByteAtType ==
    ASSUME NEW f \in Targets, NEW i \in Nat \ {0}
    PROVE  ByteAt(f, i) \in 0..255
<1>1. f.data \in Seq(0..255)
  BY TargetsAssumption
<1>2. Len(f.data) \in Nat
      /\ \A k \in 1 .. Len(f.data) : f.data[k] \in 0..255
  BY <1>1, LenProperties, ElementOfSeq
<1>3. QED
  BY <1>2 DEF ByteAt

\* The loop that looks for the largest size finds it.
LEMMA LargestSize ==
    ASSUME run.formats \in Seq(Candidates)
    PROVE  LET sizes == {0} \cup {SizeRead(c) : c \in Magics}
               toread == CHOOSE s \in sizes : \A r \in sizes : r <= s
           IN  toread \in Nat /\ \A c \in Magics : SizeRead(c) <= toread
<1> DEFINE list == run.formats
           n == Len(list)
           sizes == {0} \cup {SizeRead(c) : c \in Magics}
           toread == CHOOSE s \in sizes : \A r \in sizes : r <= s
           f == [i \in 1 .. n |-> IF list[i].extension THEN 0
                                  ELSE SizeRead(list[i])]
           all == {0} \cup {f[i] : i \in 1 .. n}
<1>1. /\ n \in Nat /\ DOMAIN list = 1 .. n
      /\ \A i \in 1 .. n : list[i] \in Candidates
  BY LenProperties, ElementOfSeq
<1>2. \A i \in 1 .. n : SizeRead(list[i]) \in Int
  BY <1>1, CandidateParts
<1> HIDE DEF n
<1>3. f \in [1 .. n -> Int]
  BY <1>2
<1>4. \A i \in 1 .. n : f[i] = IF list[i].extension THEN 0
                               ELSE SizeRead(list[i])
  OBVIOUS
<1>5. Magics = {c \in {list[i] : i \in 1 .. n} : ~c.extension}
  BY <1>1 DEF Magics, Range
<1> HIDE DEF f
<1>6. all = sizes
  <2>1. all \subseteq sizes
    BY <1>4, <1>5
  <2>2. sizes \subseteq all
    BY <1>4, <1>5
  <2>3. QED
    BY <2>1, <2>2
<1>7. \E m \in all : \A k \in all : k <= m
  BY <1>1, <1>3, Largest, Zenon
<1>8. all \subseteq Int /\ 0 \in all
  BY <1>3
<1> HIDE DEF all
<1>9. toread \in sizes /\ \A r \in sizes : r <= toread
  <2>1. \E s \in sizes : \A r \in sizes : r <= s
    BY <1>6, <1>7
  <2> HIDE DEF sizes
  <2>2. QED
    BY <2>1
<1>10. \A c \in Magics : SizeRead(c) \in sizes
  OBVIOUS
<1> HIDE DEF toread, sizes
<1>11. toread \in Int /\ 0 <= toread
  BY <1>6, <1>8, <1>9
<1>12. toread \in Nat /\ \A c \in Magics : SizeRead(c) <= toread
  <2>1. toread \in Nat
    BY <1>11
  <2>2. \A c \in Magics : SizeRead(c) <= toread
    BY <1>9, <1>10, Zenon
  <2>3. QED
    BY <2>1, <2>2
<1>13. QED
  BY <1>12 DEF toread, sizes

----------------------------------------------------------------------------
(***************************************************************************)
(* A description matches in the buffer what its entry matches in the file. *)
(***************************************************************************)
\* What the kernel has of a format is what its file says, and both expand it
\* to the same bytes.
LEMMA SameAsEntry ==
    ASSUME TypeOK, InStep, NEW n \in Registered
    PROVE  LET b == Loaded(n)
               c == Candidate(b)
               e == entry[n]
           IN  /\ n \in DirEntries /\ ProcEntry(n) /\ b # NULL
               /\ c \in Candidates
               /\ c.interpreter = b.interpreter /\ c.detector = b.detector
               /\ e.type \in {"M", "E"} /\ (e.type = "M" <=> ~c.extension)
               /\ e.magic = b.magic /\ b.magic \in Text
               /\ e.type = "M" => /\ c.offset = atoi(chars[e.offset])
                                  /\ c.offset >= 0
                                  /\ c.magic = parse_arg(chars[e.magic])
                                  /\ c.mask = parse_arg(chars[e.mask])
                                  /\ Fitting(c)
<1> DEFINE b == Loaded(n)
           c == Candidate(b)
           e == entry[n]
<1>1. /\ n \in FormatNames /\ e # NULL /\ ProcEntry(n) /\ b # NULL
      /\ SameSpec(e, regstring(b, TRUE)) /\ Accepted(e)
  BY DEF Registered, InStep, ProcEntry
<1>2. /\ n \in DirEntries
      /\ b.type \in Text /\ b.offset \in Text /\ b.magic \in Text
      /\ b.mask \in Text /\ b.interpreter \in Text /\ b.detector \in Text
  BY <1>1, LoadedTexts
<1>3. c \in Candidates
  BY <1>1, CandidateType
<1> HIDE DEF b
<1>4. /\ c.extension = (b.type # "magic")
      /\ c.offset = IF b.offset = "" THEN 0 ELSE atoi(chars[b.offset])
      /\ c.magic = expand_hex(chars[b.magic])
      /\ c.mask = expand_hex(chars[b.mask])
      /\ c.interpreter = b.interpreter /\ c.detector = b.detector
  BY DEF Candidate
<1> HIDE DEF c
<1>5. \A t \in Text : Printed(t) = t
  BY TextAssumption DEF Printed
<1>6. /\ e.type = IF b.type = "magic" THEN "M" ELSE "E"
      /\ e.magic = b.magic /\ e.mask = b.mask
      /\ e.type = "M" => e.offset = b.offset
  BY <1>1, <1>2, <1>5 DEF SameSpec, regstring
<1> HIDE DEF e
<1>7. e.type \in {"M", "E"} /\ (e.type = "M" <=> ~c.extension)
  BY <1>4, <1>6
<1>8. ASSUME e.type = "M"
      PROVE  /\ c.offset = atoi(chars[e.offset]) /\ c.offset >= 0
             /\ c.magic = parse_arg(chars[e.magic])
             /\ c.mask = parse_arg(chars[e.mask])
             /\ Fitting(c)
  <2>1. /\ ~Refused(chars[e.magic]) /\ ~Refused(chars[e.mask])
        /\ Len(parse_arg(chars[e.mask]))
              \in {0, Len(parse_arg(chars[e.magic]))}
        /\ atoi(chars[e.offset]) >= 0
    BY <1>1, <1>8 DEF Accepted
  <2>2. chars[b.magic] \in Bytes /\ chars[b.mask] \in Bytes
    BY <1>2, CharsType
  <2>3. c.magic = parse_arg(chars[e.magic]) /\ c.mask = parse_arg(chars[e.mask])
    BY <1>4, <1>6, <2>1, <2>2, SameExpansion
  <2>4. c.offset = atoi(chars[e.offset])
    <3>1. CASE b.offset = ""
      BY <1>4, <1>6, <1>8, <3>1, CharsType, AtoiEmpty
    <3>2. CASE b.offset # ""
      BY <1>4, <1>6, <1>8, <3>2
    <3>3. QED
      BY <3>1, <3>2
  <2>5. Len(c.mask) = 0 \/ Len(c.mask) = Len(c.magic)
    BY <2>1, <2>3
  <2>6. Fitting(c)
    <3>1. CASE Len(c.mask) = 0
      <4>1. c.mask \in Seq(0..255)
        BY <1>3, CandidateParts DEF Bytes
      <4>2. c.mask = <<>>
        BY <3>1, <4>1, EmptySeq
      <4>3. QED
        BY <4>2 DEF Fitting
    <3>2. CASE Len(c.mask) = Len(c.magic)
      BY <3>2 DEF Fitting
    <3>3. QED
      BY <2>5, <3>1, <3>2
  <2>7. QED
    BY <2>1, <2>3, <2>4, <2>6
<1>9. QED
  BY <1>1, <1>2, <1>3, <1>4, <1>6, <1>7, <1>8, Zenon DEF b, c, e

\* The comparison with the bytes in the buffer.
LEMMA SameBytes ==
    ASSUME run.target \in Targets, NEW c \in Candidates, ~c.extension,
           c.offset >= 0, Fitting(c), c.mask # <<>> => c.mask[1] # 0,
           SizeRead(c) <= Len(run.buf), Len(run.buf) \in Nat,
           \A i \in 1 .. Len(run.buf) : run.buf[i] = ByteAt(run.target, i)
    PROVE  FormatMatches(c) <=>
              \A j \in DOMAIN c.magic :
                 (IF c.mask = <<>> THEN ByteAt(run.target, c.offset + j)
                  ELSE ByteAnd(ByteAt(run.target, c.offset + j), c.mask[j]))
                    = c.magic[j]
<1>1. FormatMatches(c) <=> Segment(c) = c.magic
  BY DEF FormatMatches
<1>2. c.offset \in Int /\ Len(c.magic) \in Nat /\ c.magic \in Seq(0..255)
      /\ DOMAIN c.magic = 1 .. Len(c.magic)
  BY CandidateParts, LenProperties DEF Bytes
<1>3. ASSUME NEW j \in DOMAIN c.magic
      PROVE  run.buf[c.offset + j] = ByteAt(run.target, c.offset + j)
  <2>1. c.offset + j \in 1 .. Len(run.buf)
    BY <1>2 DEF SizeRead
  <2>2. QED
    BY <2>1
<1>4. Masked(c) <=> c.mask # <<>>
  BY DEF Masked
<1>5. ASSUME NEW j \in DOMAIN c.magic
      PROVE  Segment(c)[j] =
                IF c.mask = <<>> THEN ByteAt(run.target, c.offset + j)
                ELSE ByteAnd(ByteAt(run.target, c.offset + j), c.mask[j])
  BY <1>3, <1>4, Zenon DEF Segment
<1>6. Segment(c) = [j \in DOMAIN c.magic |-> Segment(c)[j]]
  BY Zenon DEF Segment
<1>7. c.magic = [j \in DOMAIN c.magic |-> c.magic[j]]
  BY <1>2
<1> DEFINE s == Segment(c)
           m == c.magic
<1>8. s = m <=> \A j \in DOMAIN m : s[j] = m[j]
  <2> HIDE DEF s, m
  <2>1. s = [j \in DOMAIN m |-> s[j]] /\ m = [j \in DOMAIN m |-> m[j]]
    BY <1>6, <1>7, Zenon DEF s, m
  <2>2. QED
    BY <2>1
<1>9. QED
  BY <1>1, <1>5, <1>8, Zenon

\* A description matches in the buffer exactly when its entry matches in the
\* file: both read the same bytes, from the same offset, under the same mask.
LEMMA SameMatch ==
    ASSUME TypeOK, AsUsual, NEW n \in Registered, run.target \in Targets,
           run.buf \in Seq(0..255),
           \A i \in 1 .. Len(run.buf) : run.buf[i] = ByteAt(run.target, i),
           LET c == Candidate(Loaded(n))
           IN  ~c.extension => SizeRead(c) <= Len(run.buf)
    PROVE  FormatMatches(Candidate(Loaded(n)))
              <=> EntryMatches(entry[n], run.target)
<1> DEFINE b == Loaded(n)
           c == Candidate(b)
           e == entry[n]
           f == run.target
<1>1. /\ c \in Candidates
      /\ e.type \in {"M", "E"} /\ (e.type = "M" <=> ~c.extension)
      /\ e.magic = b.magic /\ b.magic \in Text
      /\ e.type = "M" => /\ c.offset = atoi(chars[e.offset])
                         /\ c.offset >= 0
                         /\ c.magic = parse_arg(chars[e.magic])
                         /\ c.mask = parse_arg(chars[e.mask])
                         /\ Fitting(c)
  BY SameAsEntry DEF AsUsual
<1>2. IF c.extension THEN c.magic = chars[b.magic] /\ c.mask = <<>>
      ELSE c.mask # <<>> => c.mask[1] # 0
  BY DEF AsUsual, Usual
<1>3. f.dot \in Text \cup {NULL}
  BY TargetsAssumption
<1>4. Len(run.buf) \in Nat
  BY LenProperties
<1>5. ~c.extension => SizeRead(c) <= Len(run.buf)
  OBVIOUS
<1> HIDE DEF b, c, e
<1>6. CASE c.extension
  <2>1. FormatMatches(c) <=> f.dot # NULL /\ chars[f.dot] = chars[b.magic]
    BY <1>2, <1>6 DEF FormatMatches
  <2>2. EntryMatches(e, f) <=> f.dot = b.magic
    BY <1>1, <1>6 DEF EntryMatches
  <2>3. f.dot # NULL /\ chars[f.dot] = chars[b.magic] <=> f.dot = b.magic
    BY <1>1, <1>3, TargetsAssumption, TextAssumption
  <2>4. FormatMatches(c) <=> EntryMatches(e, f)
    BY <2>1, <2>2, <2>3
  <2>5. QED
    BY <2>4 DEF b, c, e
<1>7. CASE ~c.extension
  <2>1. FormatMatches(c) <=>
           \A j \in DOMAIN c.magic :
              (IF c.mask = <<>> THEN ByteAt(f, c.offset + j)
               ELSE ByteAnd(ByteAt(f, c.offset + j), c.mask[j])) = c.magic[j]
    BY <1>1, <1>2, <1>4, <1>5, <1>7, SameBytes
  <2>2. EntryMatches(e, f) <=>
           \A j \in DOMAIN c.magic :
              (IF c.mask = <<>> THEN ByteAt(f, c.offset + j)
               ELSE ByteAnd(ByteAt(f, c.offset + j), c.mask[j])) = c.magic[j]
    BY <1>1, <1>7 DEF EntryMatches
  <2>3. FormatMatches(c) <=> EntryMatches(e, f)
    BY <2>1, <2>2
  <2>4. QED
    BY <2>3 DEF b, c, e
<1>8. QED
  BY <1>6, <1>7

\* Those whose detector says yes, then those without one.
LEMMA InOrder ==
    ASSUME NEW ok \in Seq(Candidates)
    PROVE  LET found == DetectorsFirst(ok)
           IN  /\ found \in Seq(Candidates)
               /\ Range(found) =
                     {c \in Range(ok) :
                         c.detector # "" => run.target \in Accepts[c.detector]}
               /\ \A i, j \in DOMAIN found :
                     i < j /\ found[j].detector # "" => found[i].detector # ""
<1> DEFINE s == Chosen(ok, SaidYes(ok))
           t == Chosen(ok, Plain(ok))
           found == DetectorsFirst(ok)
<1>1. s \in Seq(Candidates) /\ Range(s) = SaidYes(ok)
  <2>1. Range(s) = Range(ok) \cap SaidYes(ok) /\ s \in Seq(Candidates)
    BY ChosenIs, Zenon
  <2>2. SaidYes(ok) \subseteq Range(ok)
    BY DEF SaidYes
  <2> HIDE DEF s
  <2>3. QED
    BY <2>1, <2>2
<1>2. t \in Seq(Candidates) /\ Range(t) = Plain(ok)
  <2>1. Range(t) = Range(ok) \cap Plain(ok) /\ t \in Seq(Candidates)
    BY ChosenIs, Zenon
  <2>2. Plain(ok) \subseteq Range(ok)
    BY DEF Plain
  <2> HIDE DEF t
  <2>3. QED
    BY <2>1, <2>2
<1>3. found = s \o t
  BY Zenon DEF DetectorsFirst
<1> HIDE DEF s, t, found
<1>4. found \in Seq(Candidates) /\ Range(found) = Range(s) \cup Range(t)
  BY <1>1, <1>2, <1>3, RangeJoin
<1>5. SaidYes(ok) \cup Plain(ok) =
         {c \in Range(ok) : c.detector # ""
                               => run.target \in Accepts[c.detector]}
  BY DEF SaidYes, Plain
<1>6. ASSUME NEW i \in DOMAIN found, NEW j \in DOMAIN found, i < j,
             found[j].detector # ""
      PROVE  found[i].detector # ""
  <2>1. /\ Len(s) \in Nat /\ DOMAIN s = 1 .. Len(s)
        /\ Len(t) \in Nat /\ DOMAIN t = 1 .. Len(t)
        /\ DOMAIN found = 1 .. Len(s) + Len(t)
        /\ \A k \in 1 .. Len(s) + Len(t) :
              found[k] = IF k <= Len(s) THEN s[k] ELSE t[k - Len(s)]
    BY <1>1, <1>2, <1>3, LenProperties, ConcatProperties
  <2>2. j <= Len(s)
    <3>1. SUFFICES ASSUME ~(j <= Len(s))
                   PROVE  FALSE
      OBVIOUS
    <3>2. j - Len(s) \in DOMAIN t /\ found[j] = t[j - Len(s)]
      BY <2>1, <3>1
    <3>3. found[j] \in Plain(ok)
      BY <1>2, <3>2 DEF Range
    <3>4. QED
      BY <1>6, <3>3 DEF Plain
  <2>3. i \in DOMAIN s /\ found[i] = s[i]
    <3>1. i \in 1 .. Len(s) + Len(t) /\ j \in 1 .. Len(s) + Len(t)
      BY <2>1
    <3>2. i <= Len(s) /\ i \in 1 .. Len(s)
      <4>1. Len(s) \in Nat /\ Len(t) \in Nat /\ i < j
        BY <1>6, <2>1
      <4>2. QED
        BY <2>2, <3>1, <4>1
    <3>3. QED
      BY <2>1, <3>1, <3>2
  <2>4. found[i] \in Range(s)
    BY <2>3, Zenon DEF Range
  <2>5. found[i] \in SaidYes(ok)
    BY <1>1, <2>4
  <2>6. QED
    BY <2>5 DEF SaidYes
<1>7. QED
  BY <1>1, <1>2, <1>4, <1>5, <1>6 DEF found

\* The formats read are those the kernel has, when the two are in step.
LEMMA ListedAll ==
    ASSUME TypeOK, AsUsual
    PROVE  FormatsOf(DirEntries) = {Candidate(Loaded(n)) : n \in Registered}
<1>1. Entries(DirEntries) = Registered
  <2>1. ASSUME NEW n \in Registered
        PROVE  n \in Entries(DirEntries)
    <3> DEFINE c == Candidate(Loaded(n))
               e == entry[n]
    <3>1. /\ n \in DirEntries /\ ProcEntry(n)
          /\ e.type \in {"M", "E"} /\ (e.type = "M" <=> ~c.extension)
          /\ e.type = "M" => Fitting(c)
      BY SameAsEntry DEF AsUsual
    <3>2. c.extension => c.mask = <<>>
      BY DEF AsUsual, Usual
    <3> HIDE DEF c, e
    <3>3. Fitting(c)
      BY <3>1, <3>2 DEF Fitting
    <3>4. QED
      BY <3>1, <3>3 DEF Entries, c
  <2>2. ASSUME NEW n \in Entries(DirEntries)
        PROVE  n \in Registered
    BY DEF Entries, DirEntries, ProcEntry, Registered
  <2>3. QED
    BY <2>1, <2>2
<1>2. QED
  BY <1>1 DEF FormatsOf

\* What is tried is what the kernel matches, less what the detectors refuse.
LEMMA FoundIs ==
    ASSUME TypeOK, AsUsual, run \in Runs, run.target \in Targets,
           Listed(run.formats, DirEntries),
           \A c \in Range(run.formats) :
              ~c.extension => SizeRead(c) <= Len(run.buf),
           \A i \in 1 .. Len(run.buf) : run.buf[i] = ByteAt(run.target, i)
    PROVE  LET ok == {c \in Range(run.formats) : FormatMatches(c)}
           IN  Range(DetectorsFirst(Chosen(run.formats, ok)))
                  = Answer(run.target)
<1> DEFINE f == run.target
           ok == {c \in Range(run.formats) : FormatMatches(c)}
           list == Chosen(run.formats, ok)
           found == DetectorsFirst(list)
           C(n) == Candidate(Loaded(n))
           no(c) == c.detector # "" /\ f \notin Accepts[c.detector]
<1>1. run.formats \in Seq(Candidates) /\ run.buf \in Seq(0..255)
  BY RunFields
<1>2. Range(run.formats) = {C(n) : n \in Registered}
  BY ListedAll DEF Listed
<1>3. list \in Seq(Candidates) /\ Range(list) = ok
  <2>1. /\ list \in Seq(Candidates)
        /\ Range(list) = Range(run.formats) \cap ok
    BY <1>1, ChosenIs, Zenon
  <2>2. ok \subseteq Range(run.formats)
    OBVIOUS
  <2> HIDE DEF list, ok
  <2>3. QED
    BY <2>1, <2>2
<1>4. ASSUME NEW n \in Registered
      PROVE  FormatMatches(C(n)) <=> EntryMatches(entry[n], f)
  <2>1. C(n) \in Range(run.formats)
    BY <1>2
  <2>2. ~C(n).extension => SizeRead(C(n)) <= Len(run.buf)
    BY <2>1
  <2>3. QED
    BY <1>1, <2>2, SameMatch, Zenon
<1>5. ok = {C(n) : n \in Matching(f)}
  BY <1>2, <1>4 DEF Matching
<1> HIDE DEF list, ok
<1>6. Range(found) = {c \in Range(list) : ~no(c)}
  BY <1>3, InOrder
<1>7. ASSUME NEW n \in Matching(f)
      PROVE  ~no(C(n)) <=> n \in Agreeing(f)
  <2>1. n \in Registered
    BY DEF Matching
  <2>2. C(n).detector = Loaded(n).detector /\ C(n) \in Candidates
    BY <2>1, SameAsEntry DEF AsUsual
  <2>3. C(n).detector \in Text
    BY <2>2, CandidateParts
  <2>4. HasDetector(Loaded(n)) <=> C(n).detector # ""
    BY <2>2, <2>3, TextAssumption DEF HasDetector
  <2> HIDE DEF C
  <2>5. Detecting(n, f)
           <=> HasDetector(Loaded(n)) /\ f \in Accepts[C(n).detector]
    BY <2>2 DEF Detecting
  <2>6. QED
    BY <2>4, <2>5 DEF Agreeing
<1>8. Agreeing(f) \subseteq Matching(f)
  BY DEF Agreeing
<1>9. Answer(f) = {C(n) : n \in Agreeing(f)}
  BY DEF Answer
<1> HIDE DEF C, found, no
<1>10. Range(found) = Answer(f)
  BY <1>3, <1>5, <1>6, <1>7, <1>8, <1>9
<1>11. QED
  BY <1>10 DEF found, list, ok

\* No size wraps round while the kernel has what the database says.
LEMMA OffsetsAreNatural ==
    ASSUME TypeOK, InStep, NEW c \in FormatsOf(DirEntries), ~c.extension
    PROVE  c \in Candidates /\ c.offset >= 0
<1>1. PICK n \in Entries(DirEntries) : c = Candidate(Loaded(n))
  BY DEF FormatsOf
<1>2. n \in Registered
  BY <1>1 DEF Entries, DirEntries, ProcEntry, Registered
<1>3. /\ Candidate(Loaded(n)) \in Candidates
      /\ entry[n].type = "M" <=> ~Candidate(Loaded(n)).extension
      /\ entry[n].type = "M" => Candidate(Loaded(n)).offset >= 0
  BY <1>2, SameAsEntry
<1>4. QED
  BY <1>1, <1>3

\* The file is read as far as a format may look.
LEMMA FileReadFacts ==
    ASSUME FindInv, ReadTarget, ~Wraps, run.target \in Readable
    PROVE  Facts(run')
<1> DEFINE r == run
           t == run'
           sizes == {0} \cup {SizeRead(c) : c \in Magics}
           toread == CHOOSE s \in sizes : \A x \in sizes : x <= s
           buf == [i \in 1 .. toread |-> ByteAt(r.target, i)]
<1>1. r \in Runs /\ r.pc = "open" /\ r.name = NULL /\ Chose(r)
      /\ Listed(r.formats, DirEntries) /\ r.formats \in Seq(Candidates)
      /\ r.target \in Targets
  <2>1. Facts(r) /\ r.pc = "open"
    BY DEF FindInv, ReadTarget
  <2>2. QED
    BY <2>1, RunFields DEF Facts, Reading, Chose
<1>2. t = [r EXCEPT !.pc = "match", !.buf = buf]
  BY DEF ReadTarget
<1>3. toread \in Nat /\ \A c \in Magics : SizeRead(c) <= toread
  BY <1>1, LargestSize
<1> HIDE DEF toread
<1>4. buf \in Seq(0..255) /\ Len(buf) = toread
      /\ \A i \in 1 .. Len(buf) : buf[i] = ByteAt(r.target, i)
  <2>1. \A i \in 1 .. toread : ByteAt(r.target, i) \in 0..255
    <3>1. 1 .. toread \subseteq Nat \ {0}
      BY <1>3
    <3>2. QED
      BY <1>1, <3>1, ByteAtType
  <2>2. buf \in [1 .. toread -> 0..255]
    BY <2>1
  <2> HIDE DEF buf
  <2>3. buf \in Seq(0..255)
    BY <1>3, <2>2
  <2>4. Len(buf) = toread
    BY <1>3, <2>2, <2>3, LenProperties
  <2>5. QED
    BY <2>3, <2>4 DEF buf
<1> HIDE DEF buf
<1>5. t \in Runs
  BY <1>1, <1>2, <1>4, StagesAre, BufferChanges, Zenon
<1>6. /\ t.pc = "match" /\ t.name = NULL /\ t.formats = r.formats
      /\ t.buf = buf /\ t.target = r.target /\ t.find = r.find
      /\ t.via = r.via
  BY <1>1, <1>2 DEF Runs
<1> HIDE DEF t
<1>7. Reading(t)
  BY <1>1, <1>6 DEF Reading
<1>8. Chose(t)
  BY <1>1, <1>6, ChoseStays
<1>9. Buffered(t)
  <2>1. \A c \in Range(t.formats) : ~c.extension => SizeRead(c) <= Len(t.buf)
    BY <1>3, <1>4, <1>6 DEF Magics, r
  <2>2. QED
    BY <1>4, <1>6, <2>1 DEF Buffered, r
<1>10. Facts(t)
  BY <1>5, <1>6, <1>7, <1>8, <1>9 DEF Facts, Trying, Finished
<1>11. QED
  BY <1>10 DEF t

\* The file is read, or the program ends without it.
LEMMA ReadTargetFacts ==
    ASSUME FindInv, ReadTarget
    PROVE  Facts(run')
<1> DEFINE r == run
           t == run'
<1>1. /\ r \in Runs /\ r.pc = "open" /\ Chose(r) /\ TypeOK
      /\ Listed(r.formats, DirEntries)
  BY DEF FindInv, Inv, ReadTarget, Facts, Reading
<1>2. CASE ~Wraps /\ r.target \in Readable
  BY <1>2, FileReadFacts
<1>3. ASSUME NEW st \in {"1", "2"}, st = "1" => ~InStep,
             st = "2" => r.target \notin Readable,
             t \in Runs, t.pc = "idle", t.name = NULL, t.status = st,
             t.target = r.target, t.find = r.find, t.via = r.via
      PROVE  Facts(t)
  <2> HIDE DEF r, t
  <2>1. Chose(t)
    BY <1>1, <1>3, ChoseStays
  <2>2. entry[t.via].interpreter = RunDetectors \/ t.find
    BY <1>1, <1>3 DEF Chose
  <2>3. Finished(t)
    BY <1>3, <2>2 DEF Finished, AsUsual
  <2>4. Reading(t) /\ Buffered(t) /\ Trying(t)
    BY <1>3 DEF Reading, Buffered, Trying
  <2>5. QED
    BY <1>3, <2>1, <2>3, <2>4 DEF Facts
<1>4. CASE Wraps
  <2>1. t = [r EXCEPT !.pc = "idle", !.name = NULL, !.status = "1"]
    BY <1>4 DEF ReadTarget, Ends
  <2>2. ~InStep
    <3>1. PICK c \in Magics : SizeRead(c) < 0
      BY <1>4 DEF Wraps
    <3>2. c \in FormatsOf(DirEntries) /\ ~c.extension
      BY <1>1, <3>1 DEF Magics, Listed
    <3>3. SUFFICES ASSUME InStep PROVE FALSE
      OBVIOUS
    <3>4. c \in Candidates /\ c.offset >= 0
      BY <1>1, <3>2, <3>3, OffsetsAreNatural
    <3>5. c.offset \in Int /\ c.magic \in Seq(0..255)
      BY <3>4 DEF Candidates, Bytes
    <3>6. Len(c.magic) \in Nat
      BY <3>5, LenProperties
    <3>7. QED
      BY <3>1, <3>4, <3>5, <3>6 DEF SizeRead
  <2> DEFINE u == t
  <2>3. u = [r EXCEPT !.pc = "idle", !.name = NULL, !.status = "1"]
    BY <2>1
  <2> HIDE DEF r, u
  <2>4. /\ u \in Runs /\ u.pc = "idle" /\ u.name = NULL /\ u.status = "1"
        /\ u.target = r.target /\ u.find = r.find /\ u.via = r.via
    BY <1>1, <2>3, DieIs
  <2>5. QED
    BY <1>3, <2>2, <2>4 DEF r, u
<1>5. CASE ~Wraps /\ r.target \notin Readable
  <2>1. t = [r EXCEPT !.pc = "idle", !.name = NULL, !.status = "2"]
    BY <1>5 DEF ReadTarget, Quit, Ends
  <2> DEFINE u == t
  <2>2. u = [r EXCEPT !.pc = "idle", !.name = NULL, !.status = "2"]
    BY <2>1
  <2> HIDE DEF r, u
  <2>3. /\ u \in Runs /\ u.pc = "idle" /\ u.name = NULL /\ u.status = "2"
        /\ u.target = r.target /\ u.find = r.find /\ u.via = r.via
    BY <1>1, <2>2, QuitIs
  <2>4. QED
    BY <1>3, <1>5, <2>3 DEF r, u
<1>6. QED
  BY <1>2, <1>4, <1>5

\* The answer is found and is tried, or printed.
LEMMA MatchFacts ==
    ASSUME FindInv, MatchAndDetect
    PROVE  Facts(run')
<1> DEFINE r == run
           t == run'
           ok == {c \in Range(r.formats) : FormatMatches(c)}
           found == DetectorsFirst(Chosen(r.formats, ok))
           pc == IF r.find THEN "idle" ELSE "exec"
           st == IF r.find THEN "0" ELSE r.status
           tried == Range(found)
<1>1. /\ r \in Runs /\ r.pc = "match" /\ r.name = NULL /\ Chose(r)
      /\ Listed(r.formats, DirEntries) /\ Buffered(r)
      /\ r.formats \in Seq(Candidates) /\ r.target \in Targets
      /\ r.find \in BOOLEAN /\ r.status \in EndStates /\ TypeOK
      /\ r.target \in Readable
  <2>1. Facts(r) /\ r.pc = "match" /\ TypeOK
    BY DEF FindInv, MatchAndDetect, Inv
  <2>2. QED
    BY <2>1, RunFields DEF Facts, Reading, Chose, Buffered
<1>2. t = [r EXCEPT !.pc = pc, !.status = st, !.formats = <<>>, !.buf = <<>>,
                    !.interpreters = found, !.tried = tried]
  BY Zenon DEF MatchAndDetect
<1>3. Chosen(r.formats, ok) \in Seq(Candidates)
  BY <1>1, ChosenIs, Zenon
<1>4. /\ found \in Seq(Candidates)
      /\ \A i, j \in DOMAIN found :
            i < j /\ found[j].detector # "" => found[i].detector # ""
  <2> DEFINE list == Chosen(r.formats, ok)
  <2>1. list \in Seq(Candidates)
    BY <1>3
  <2> HIDE DEF list
  <2>2. /\ DetectorsFirst(list) \in Seq(Candidates)
        /\ \A i, j \in DOMAIN DetectorsFirst(list) :
              /\ i < j /\ DetectorsFirst(list)[j].detector # ""
              => DetectorsFirst(list)[i].detector # ""
    BY <2>1, InOrder, Zenon
  <2>3. QED
    BY <2>2, Zenon DEF list
<1>5. AsUsual => Range(found) = Answer(r.target)
  BY <1>1, FoundIs DEF Buffered
<1> HIDE DEF found
<1>6. tried \in SUBSET Candidates
  <2>1. \A i \in DOMAIN found : found[i] \in Candidates
    BY <1>4, LenProperties, ElementOfSeq
  <2>2. QED
    BY <2>1 DEF Range
<1>7. pc \in Stages /\ st \in EndStates
  BY <1>1, StagesAre
<1>8. r.find => pc = "idle" /\ st = "0"
  OBVIOUS
<1>9. ~r.find => pc = "exec" /\ st = r.status
  OBVIOUS
<1> HIDE DEF pc, st, tried
<1>10. t \in Runs
  <2>1. <<>> \in Seq(Candidates) /\ <<>> \in Seq(0..255)
    OBVIOUS
  <2>2. QED
    BY <1>1, <1>2, <1>4, <1>6, <1>7, <2>1, AnswerChanges, Zenon
<1>11. /\ t.pc = pc /\ t.status = st /\ t.interpreters = found
       /\ t.tried = tried /\ t.name = NULL
       /\ t.target = r.target /\ t.find = r.find /\ t.via = r.via
  BY <1>1, <1>2 DEF Runs
<1> HIDE DEF t
<1>12. Answered(t)
  BY <1>5, <1>11 DEF Answered, tried
<1>13. Chose(t)
  BY <1>1, <1>11, ChoseStays
<1>14. pc = "idle" \/ pc = "exec"
  BY <1>1, <1>8, <1>9
<1>15. Reading(t) /\ Buffered(t)
  BY <1>11, <1>14 DEF Reading, Buffered
<1>16. Trying(t)
  BY <1>1, <1>4, <1>8, <1>11, <1>12 DEF Trying, tried
<1>17. Finished(t)
  BY <1>1, <1>8, <1>9, <1>11, <1>12 DEF Finished
<1>18. Facts(t)
  BY <1>10, <1>13, <1>15, <1>16, <1>17 DEF Facts
<1>19. QED
  BY <1>18 DEF t

\* The first that can be executed is.
LEMMA ExecFacts ==
    ASSUME FindInv, ExecNext
    PROVE  Facts(run')
<1> DEFINE r == run
           t == run'
           list == r.interpreters
           c == Head(list)
<1>1. /\ r \in Runs /\ r.pc = "exec" /\ ~r.find /\ Chose(r) /\ Answered(r)
      /\ r.target \in Readable
      /\ list \in Seq(Candidates) /\ r.name = NULL
      /\ Range(list) \subseteq r.tried
      /\ \A d \in r.tried \ Range(list) : ~CanRun(d)
      /\ \A i, j \in DOMAIN list :
            i < j /\ list[j].detector # "" => list[i].detector # ""
  <2>1. Facts(r) /\ r.pc = "exec"
    BY DEF FindInv, ExecNext
  <2>2. QED
    BY <2>1, RunFields DEF Facts, Reading, Trying
<1>2. \/ list = <<>> /\ t = [r EXCEPT !.pc = "idle", !.name = NULL,
                                      !.status = "2"]
      \/ /\ list # <<>>
         /\ t = IF c.interpreter \in Executable
                THEN [r EXCEPT !.pc = "idle", !.status = "0",
                               !.ran = c.interpreter]
                ELSE [r EXCEPT !.interpreters = Tail(list)]
  BY Zenon DEF ExecNext, Quit, Ends
<1>3. AsUsual => r.tried = Answer(r.target)
  BY <1>1 DEF Answered
<1> HIDE DEF r, list
<1>4. CASE list = <<>>
  <2>1. t = [r EXCEPT !.pc = "idle", !.name = NULL, !.status = "2"]
    BY <1>2, <1>4
  <2> HIDE DEF t
  <2>2. /\ t \in Runs /\ t.pc = "idle" /\ t.name = NULL /\ t.status = "2"
        /\ t.target = r.target /\ t.find = r.find /\ t.via = r.via
    BY <1>1, <2>1, QuitIs
  <2>3. Range(list) = {}
    BY <1>4 DEF Range
  <2>4. Finished(t)
    BY <1>1, <1>3, <2>2, <2>3 DEF Finished, Chose
  <2>5. Chose(t)
    BY <1>1, <2>2, ChoseStays
  <2>6. Facts(t)
    BY <2>2, <2>4, <2>5 DEF Facts, Reading, Buffered, Trying
  <2>7. QED
    BY <2>6 DEF t
<1>5. CASE list # <<>>
  <2>1. /\ Len(list) \in Nat \ {0} /\ DOMAIN list = 1 .. Len(list)
        /\ c = list[1] /\ Tail(list) \in Seq(Candidates)
        /\ Len(Tail(list)) = Len(list) - 1
        /\ DOMAIN Tail(list) = 1 .. Len(list) - 1
        /\ \A i \in 1 .. Len(list) - 1 : Tail(list)[i] = list[i + 1]
    <3>1. Len(list) \in Nat \ {0} /\ DOMAIN list = 1 .. Len(list)
      BY <1>1, <1>5, LenProperties, EmptySeq
    <3>2. /\ c = list[1] /\ Tail(list) \in Seq(Candidates)
          /\ Len(Tail(list)) = Len(list) - 1
          /\ \A i \in 1 .. Len(Tail(list)) : Tail(list)[i] = list[i + 1]
      <4>1. list \in Seq(Candidates) /\ list # <<>>
        BY <1>1, <1>5
      <4>2. Head(list) = list[1]
        BY <4>1
      <4>3. QED
        BY <4>1, <4>2, HeadTailProperties
    <3>3. DOMAIN Tail(list) = 1 .. Len(Tail(list))
      BY <3>2, LenProperties
    <3>4. QED
      BY <3>1, <3>2, <3>3
  <2>2. c \in Range(list) /\ c \in Candidates
    <3>1. 1 \in DOMAIN list
      BY <2>1
    <3>2. list[1] \in Range(list)
      BY <3>1, Zenon DEF Range
    <3>3. list[1] \in Candidates
      BY <1>1, <2>1, <3>1, ElementOfSeq
    <3>4. QED
      BY <2>1, <3>2, <3>3
  <2>3. CASE CanRun(c)
    <3>1. t = [r EXCEPT !.pc = "idle", !.status = "0",
                        !.ran = c.interpreter]
      BY <1>2, <1>5, <2>3 DEF CanRun
    <3>2. t \in Runs
      <4>1. c.interpreter \in Text \cup {"(null)", NULL}
        BY <2>2, CandidateParts
      <4>2. QED
        BY <1>1, <3>1, <4>1, StagesAre, RanChanges, Zenon
    <3>3. /\ t.pc = "idle" /\ t.status = "0" /\ t.ran = c.interpreter
          /\ t.name = NULL
          /\ t.target = r.target /\ t.find = r.find /\ t.via = r.via
      BY <1>1, <3>1 DEF Runs
    <3> HIDE DEF t
    <3>4. ASSUME c.detector = "", NEW d \in r.tried, d.detector # ""
          PROVE  ~CanRun(d)
      <4>1. SUFFICES ASSUME d \in Range(list)
                     PROVE  FALSE
        BY <1>1
      <4>2. PICK j \in DOMAIN list : d = list[j]
        BY <4>1 DEF Range
      <4>3. 1 \in DOMAIN list /\ (j = 1 \/ 1 < j)
        BY <2>1
      <4> HIDE DEF c
      <4>4. j # 1
        BY <2>1, <3>4, <4>2
      <4>5. QED
        BY <1>1, <2>1, <3>4, <4>2, <4>3, <4>4
    <3>5. Finished(t)
      <4>1. AsUsual => c \in Answer(r.target)
        BY <1>1, <1>3, <2>2
      <4> HIDE DEF c
      <4>2. QED
        BY <1>1, <1>3, <2>3, <3>3, <3>4, <4>1 DEF Finished, Chose
    <3>6. Chose(t)
      BY <1>1, <3>3, ChoseStays
    <3>7. Facts(t)
      BY <3>2, <3>3, <3>5, <3>6 DEF Facts, Reading, Buffered, Trying
    <3>8. QED
      BY <3>7 DEF t
  <2>4. CASE ~CanRun(c)
    <3>1. t = [r EXCEPT !.interpreters = Tail(list)]
      BY <1>2, <1>5, <2>4 DEF CanRun
    <3>2. t \in Runs
      BY <1>1, <2>1, <3>1, InterpretersChange, Zenon
    <3>3. /\ t.pc = "exec" /\ t.interpreters = Tail(list)
          /\ t.name = NULL /\ t.tried = r.tried
          /\ t.target = r.target /\ t.find = r.find /\ t.via = r.via
      BY <1>1, <3>1 DEF Runs
    <3> HIDE DEF t
    <3> DEFINE rest == Tail(list)
    <3>4. Range(list) = Range(rest) \cup {c}
      <4>1. ASSUME NEW i \in DOMAIN list
            PROVE  list[i] \in Range(rest) \cup {c}
        <5>1. CASE i = 1
          BY <2>1, <5>1
        <5>2. CASE i # 1
          <6>1. i - 1 \in DOMAIN rest /\ rest[i-1] = list[i]
            BY <2>1, <5>2
          <6>2. rest[i-1] \in Range(rest)
            BY <6>1, Zenon DEF Range
          <6>3. QED
            BY <6>1, <6>2
        <5>3. QED
          BY <5>1, <5>2
      <4>2. ASSUME NEW i \in DOMAIN rest
            PROVE  rest[i] \in Range(list)
        <5>1. i + 1 \in DOMAIN list /\ rest[i] = list[i + 1]
          BY <2>1
        <5>2. list[i + 1] \in Range(list)
          BY <5>1, Zenon DEF Range
        <5>3. QED
          BY <5>1, <5>2
      <4> HIDE DEF rest, c
      <4>3. QED
        BY <2>2, <4>1, <4>2 DEF Range
    <3>5. ASSUME NEW i \in DOMAIN rest, NEW j \in DOMAIN rest, i < j,
                 rest[j].detector # ""
          PROVE  rest[i].detector # ""
      <4>1. /\ i + 1 \in DOMAIN list /\ j + 1 \in DOMAIN list /\ i + 1 < j + 1
            /\ rest[i] = list[i + 1] /\ rest[j] = list[j + 1]
        <5> DEFINE n == Len(list)
        <5>1. \A k \in 1 .. n - 1 : k + 1 \in 1 .. n
          BY <2>1
        <5>2. /\ i \in 1 .. n - 1 /\ j \in 1 .. n - 1 /\ DOMAIN list = 1 .. n
              /\ n \in Nat /\ \A k \in 1 .. n - 1 : rest[k] = list[k + 1]
          BY <2>1
        <5> HIDE DEF n, rest
        <5>3. i + 1 < j + 1
          <6>1. n \in Nat /\ i \in 1 .. n - 1 /\ j \in 1 .. n - 1 /\ i < j
            BY <3>5, <5>2
          <6>2. i \in Int /\ j \in Int
            BY <6>1
          <6>3. QED
            BY <6>1, <6>2
        <5>4. QED
          BY <5>1, <5>2, <5>3
      <4>2. QED
        BY <1>1, <3>5, <4>1
    <3>6. Trying(t)
      <4>1. Answered(t)
        BY <1>1, <3>3 DEF Answered
      <4> HIDE DEF c
      <4>2. Range(rest) \subseteq r.tried
        BY <1>1, <3>4
      <4>3. \A d \in r.tried \ Range(rest) : ~CanRun(d)
        BY <1>1, <2>4, <3>4
      <4>4. QED
        BY <1>1, <3>3, <3>5, <4>1, <4>2, <4>3 DEF Trying
    <3>7. Chose(t)
      BY <1>1, <3>3, ChoseStays
    <3>8. Facts(t)
      BY <3>2, <3>3, <3>6, <3>7 DEF Facts, Reading, Buffered, Finished
    <3>9. QED
      BY <3>8 DEF t
  <2>5. QED
    BY <2>3, <2>4
<1>6. QED
  BY <1>4, <1>5

----------------------------------------------------------------------------
(***************************************************************************)
(* The invariant, and what it comes to.                                    *)
(***************************************************************************)
\* A step of update-binfmts leaves nothing under way.
LEMMA UpdateFacts ==
    ASSUME Update
    PROVE  Facts(run)'
<1>1. Ready \in Runs
  BY ReadyIs, ReadyFacts DEF Facts
<1>2. run' = Ready
  BY DEF Update
<1>3. /\ run'.pc = "idle" /\ run'.find = FALSE /\ run'.name = NULL
      /\ run'.status = "none"
  BY <1>2 DEF Ready
<1>4. Reading(run)' /\ Buffered(run)'
  BY <1>3 DEF Reading, Buffered
<1>5. Chose(run)' /\ Trying(run)' /\ Finished(run)'
  BY <1>3 DEF Chose, Trying, Finished
<1>6. QED
  BY <1>1, <1>2, <1>4, <1>5 DEF Facts

\* No run is under way at first.
LEMMA InitFind == RunInit => FindInv
<1> SUFFICES ASSUME RunInit
             PROVE  FindInv
  OBVIOUS
<1>1. Inv
  BY InitSound DEF RunInit
<1>2. Facts(Ready)
  BY ReadyIs, ReadyFacts
<1>3. QED
  BY <1>1, <1>2 DEF FindInv, RunInit

\* Every step of a run is between two states of the database and the kernel
\* that are the same.
LEMMA NextIsNext == [RunNext]_fvars => [Next]_vars
BY DEF RunNext, fvars, Execute, act_find, RunStep, ReadEntry, LoadEntry,
       ReadTarget, MatchAndDetect, ExecNext, Update

\* FindInv is inductive.
LEMMA NextFind == FindInv /\ [RunNext]_fvars => FindInv'
<1> SUFFICES ASSUME FindInv, [RunNext]_fvars
             PROVE  FindInv'
  OBVIOUS
<1>1. Inv'
  BY NextIsNext, NextSound DEF FindInv
<1>2. CASE Update
  BY <1>1, <1>2, UpdateFacts DEF FindInv
<1>3. CASE UNCHANGED vars /\ Facts(run')
  BY <1>1, <1>3, FactsStay DEF FindInv
<1>4. CASE UNCHANGED fvars
  BY <1>3, <1>4 DEF fvars, FindInv
<1>5. ASSUME NEW f \in Targets, Execute(f)
      PROVE  FindInv'
  BY <1>3, <1>5, ExecuteBegins DEF Execute
<1>6. ASSUME NEW f \in Targets, act_find(f)
      PROVE  FindInv'
  BY <1>3, <1>6, FindBegins DEF act_find
<1>7. CASE ReadEntry
  BY <1>3, <1>7, ReadEntryFacts DEF ReadEntry
<1>8. CASE LoadEntry
  BY <1>3, <1>8, LoadEntryFacts DEF LoadEntry
<1>9. CASE ReadTarget
  BY <1>3, <1>9, ReadTargetFacts DEF ReadTarget
<1>10. CASE MatchAndDetect
  BY <1>3, <1>10, MatchFacts DEF MatchAndDetect
<1>11. CASE ExecNext
  BY <1>3, <1>11, ExecFacts DEF ExecNext
<1>12. QED
  BY <1>2, <1>4, <1>5, <1>6, <1>7, <1>8, <1>9, <1>10, <1>11
     DEF RunNext, RunStep

\* FindInv holds always.
LEMMA FindInvAlways == RunSpec => []FindInv
BY InitFind, NextFind, PTL DEF RunSpec

\* The parts of a run are what they should be.
THEOREM RunTypeCorrect == RunSpec => []RunTypeOK
<1>1. FindInv => RunTypeOK
  <2> SUFFICES ASSUME FindInv
               PROVE  RunTypeOK
    OBVIOUS
  <2>1. TypeOK /\ run \in Runs /\ Reading(run)
    BY DEF FindInv, Inv, Facts
  <2>2. /\ run.pc \in Stages /\ run.todo \in SUBSET FormatNames
        /\ run.via \in FormatNames \cup {NULL}
        /\ run.name \in FormatNames \cup {NULL}
    BY <2>1, RunFields
  <2>3. run.pc = "load" => run.name \in FormatNames
    BY <2>1 DEF Reading, DirEntries
  <2>4. run.pc # "load" => run.name = NULL
    BY <2>1 DEF Reading
  <2>5. QED
    BY <2>1, <2>2, <2>3, <2>4 DEF RunTypeOK, Stages
<1>2. QED
  BY <1>1, FindInvAlways, PTL

\* Every byte of the file that a magic is compared with has been read.
THEOREM ReadsInBuffer == RunSpec => []InBuffer
<1>1. FindInv => InBuffer
  <2> SUFFICES ASSUME FindInv, run.pc = "match", NEW c \in Magics
               PROVE  /\ c.offset + Len(c.magic) <= Len(run.buf)
                      /\ InStep => c.offset >= 0
    BY DEF InBuffer
  <2>1. /\ TypeOK /\ run \in Runs /\ Buffered(run)
        /\ Range(run.formats) = FormatsOf(DirEntries)
    BY DEF FindInv, Inv, Facts, Reading, Listed
  <2>2. c \in Range(run.formats) /\ ~c.extension
    BY DEF Magics
  <2>3. c.offset + Len(c.magic) <= Len(run.buf)
    BY <2>1, <2>2 DEF Buffered, SizeRead
  <2>4. ASSUME InStep
        PROVE  c.offset >= 0
    BY <2>1, <2>2, <2>4, OffsetsAreNatural
  <2>5. QED
    BY <2>3, <2>4
<1>2. QED
  BY <1>1, FindInvAlways, PTL

\* What an answer says of the formats' interpreters.
LEMMA AnswerIs ==
    ASSUME TypeOK, InStep, NEW f
    PROVE  \A n \in Agreeing(f) :
              LET c == Candidate(Loaded(n))
              IN  /\ n \in Registered /\ c \in Answer(f)
                  /\ c.interpreter = Loaded(n).interpreter
                  /\ c.detector = Loaded(n).detector
                  /\ HasDetector(Loaded(n)) <=> c.detector # ""
<1> SUFFICES ASSUME NEW n \in Agreeing(f)
             PROVE  LET c == Candidate(Loaded(n))
                    IN  /\ n \in Registered /\ c \in Answer(f)
                        /\ c.interpreter = Loaded(n).interpreter
                        /\ c.detector = Loaded(n).detector
                        /\ HasDetector(Loaded(n)) <=> c.detector # ""
  OBVIOUS
<1> DEFINE c == Candidate(Loaded(n))
<1>1. n \in Registered
  BY DEF Agreeing, Matching
<1>2. c \in Answer(f)
  BY DEF Answer
<1>3. c.interpreter = Loaded(n).interpreter
      /\ c.detector = Loaded(n).detector /\ c \in Candidates
  BY <1>1, SameAsEntry
<1>4. c.detector \in Text
  BY <1>3, CandidateParts
<1>5. HasDetector(Loaded(n)) <=> c.detector # ""
  BY <1>3, <1>4, TextAssumption DEF HasDetector
<1>6. QED
  BY <1>1, <1>2, <1>3, <1>5

\* --find prints what the kernel and the detectors together say, and fails
\* only on a file it cannot open.
THEOREM FindAgreesAlways == RunSpec => []FindAgrees
<1>1. FindInv => FindAgrees
  <2> SUFFICES ASSUME FindInv, OverAsUsual, run.find
               PROVE  IF run.target \notin Readable THEN run.status = "2"
                      ELSE /\ run.status = "0"
                           /\ {c.interpreter : c \in run.tried} =
                                 {Loaded(n).interpreter :
                                     n \in Agreeing(run.target)}
    BY DEF FindAgrees
  <2>1. /\ TypeOK /\ InStep /\ AsUsual /\ run.pc = "idle"
        /\ run.status \in {"0", "1", "2"}
    BY DEF FindInv, Inv, OverAsUsual, Over, AsUsual
  <2>2. /\ run.status # "1"
        /\ run.status = "0" => run.target \in Readable /\ Answered(run)
        /\ run.status = "2" => run.target \notin Readable
    BY <2>1 DEF FindInv, Facts, Finished
  <2>3. CASE run.target \notin Readable
    BY <2>1, <2>2, <2>3
  <2>4. CASE run.target \in Readable
    <3>1. run.status = "0" /\ run.tried = Answer(run.target)
      BY <2>1, <2>2, <2>4 DEF Answered
    <3>2. \A n \in Agreeing(run.target) :
             Candidate(Loaded(n)).interpreter = Loaded(n).interpreter
      BY <2>1, AnswerIs
    <3>3. Answer(run.target)
             = {Candidate(Loaded(n)) : n \in Agreeing(run.target)}
      BY DEF Answer
    <3>4. QED
      BY <2>4, <3>1, <3>2, <3>3
  <2>5. QED
    BY <2>3, <2>4
<1>2. QED
  BY <1>1, FindInvAlways, PTL

\* run-detectors gives up only when it cannot open the file, or nothing it may
\* run can be executed.
THEOREM TriesAllAlways == RunSpec => []TriesAll
<1>1. FindInv => TriesAll
  <2> SUFFICES ASSUME FindInv, OverAsUsual, ~run.find, run.status # "0",
                      entry[run.via].interpreter = RunDetectors,
                      run.target \in Readable,
                      NEW n \in Agreeing(run.target)
               PROVE  Loaded(n).interpreter \notin Executable
    BY DEF TriesAll
  <2>1. /\ TypeOK /\ InStep /\ AsUsual /\ run.pc = "idle"
        /\ run.status \in {"1", "2"}
    BY DEF FindInv, Inv, OverAsUsual, Over, AsUsual
  <2>2. run.status = "2"
    BY <2>1 DEF FindInv, Facts, Finished
  <2>3. \A c \in Answer(run.target) : ~CanRun(c)
    BY <2>1, <2>2 DEF FindInv, Facts, Finished
  <2>4. LET c == Candidate(Loaded(n))
        IN  c \in Answer(run.target)
            /\ c.interpreter = Loaded(n).interpreter
    BY <2>1, AnswerIs
  <2>5. QED
    BY <2>3, <2>4 DEF CanRun
<1>2. QED
  BY <1>1, FindInvAlways, PTL

----------------------------------------------------------------------------
(***************************************************************************)
(* Who is asked first.  The kernel chose a format that is behind none that *)
(* matches.  The format with the detector matches too; so either it is the *)
(* one, or its entry is behind that of the one, and then, as no detector   *)
(* is shadowed, the one passes the file to run-detectors.                  *)
(***************************************************************************)
\* Of two entries the kernel tries one first.
Ranked == \A m, n \in Registered : m # n => m \in behind[n] \/ n \in behind[m]

\* An entry that is registered comes before all that are there.
LEMMA NextRanked ==
    ASSUME Inv, Ranked, [Next]_vars
    PROVE  Ranked'
<1>0. /\ entry \in [FormatNames -> Regstring \cup {NULL}]
      /\ behind \in [FormatNames -> SUBSET FormatNames]
  BY DEF Inv, TypeOK, KernelTypeOK
<1>1. CASE UNCHANGED <<entry, behind, manual>>
  BY <1>1 DEF Ranked, Registered
<1>2. CASE KernelForgets
  <2>1. Registered' = {}
    BY <1>2 DEF KernelForgets, Registered
  <2>2. QED
    BY <2>1 DEF Ranked
<1>3. ASSUME NEW k \in FormatNames, KernelUnregister(k)
      PROVE  Ranked'
  <2>1. /\ Registered' = Registered \ {k}
        /\ \A m \in Registered' : behind'[m] = behind[m] \ {k}
    BY <1>0, <1>3 DEF KernelUnregister, Registered
  <2>2. QED
    BY <2>1 DEF Ranked
<1>4. ASSUME NEW k, NEW r, KernelRegister(k, r)
      PROVE  Ranked'
  <2>1. /\ k \notin Registered /\ Registered' \subseteq Registered \cup {k}
        /\ k \in FormatNames => behind'[k] = Registered
        /\ \A m \in Registered : behind'[m] = behind[m]
    BY <1>0, <1>4 DEF KernelRegister, Acceptable, Registered
  <2>2. Registered' \subseteq FormatNames
    BY DEF Registered
  <2>3. ASSUME NEW m \in Registered', NEW n \in Registered', m # n
        PROVE  m \in behind'[n] \/ n \in behind'[m]
    <3>1. CASE m \in Registered /\ n \in Registered
      BY <2>1, <2>3, <3>1 DEF Ranked
    <3>2. CASE m = k \/ n = k
      BY <2>1, <2>2, <2>3, <3>2
    <3>3. QED
      BY <2>1, <3>1, <3>2
  <2>4. QED
    BY <2>3 DEF Ranked
<1>5. QED
  BY <1>1, <1>2, <1>3, <1>4, NextEntries DEF KernelChanges

HeardInv == FindInv /\ Ranked /\ DetectorInv

\* HeardInv holds always, when one command runs at a time.
LEMMA HeardInvAlways ==
    ASSUME Serial, Heard, TypesKnown
    PROVE  RunSpec => []HeardInv
<1>1. Serial /\ Heard /\ TypesKnown
  OBVIOUS
<1>2. RunInit => HeardInv
  <2>1. Init => Ranked
    BY DEF Init, KernelInit, Ranked, Registered
  <2>2. QED
    BY <2>1, InitFind, InitDetector DEF RunInit, HeardInv
<1>3. HeardInv /\ [RunNext]_fvars => HeardInv'
  BY <1>1, NextFind, NextIsNext, NextRanked, NextDetector
     DEF HeardInv, FindInv
<1>4. QED
  BY <1>2, <1>3, PTL DEF RunSpec

\* The kernel passes the file to run-detectors, or executes the interpreter
\* that goes with the detector itself.
LEMMA PassedOn ==
    ASSUME HeardInv, InStep, NEW via \in Registered, NEW d \in Names,
           d \in Registered, HasDetector(Loaded(d)),
           SameSpec(entry[d], entry[via]), via \notin behind[d]
    PROVE  entry[via].interpreter \in {RunDetectors, Loaded(d).interpreter}
<1>1. CASE via = d
  BY <1>1 DEF InStep
<1>2. CASE via # d
  <2>1. d \in behind[via]
    BY <1>2 DEF HeardInv, Ranked
  <2>2. /\ entry[via] # NULL /\ via \notin manual /\ via \in FormatNames
        /\ entry[d] # NULL /\ d \notin manual /\ Loaded(d) # NULL
        /\ SameSpec(entry[d], regstring(Loaded(d), TRUE))
    BY DEF InStep, Registered
  <2>3. /\ SameSpec(entry[via], entry[d])
        /\ SameSpec(regstring(Loaded(d), TRUE), entry[d])
    BY <2>2, SpecTransfer
  <2>4. NoShadowedDetector
    BY DEF HeardInv, DetectorInv
  <2>5. QED
    BY <2>1, <2>2, <2>3, <2>4 DEF NoShadowedDetector
<1>3. QED
  BY <1>1, <1>2

\* A format with a detector that says yes is heard before any without one
\* that has the same specification, if the file can be read.  With one caller at a time, a kernel that
\* removes entries when told to where they outlive an unmount, and import
\* files that know the types.
THEOREM DetectorHeardAlways ==
    ASSUME Serial, Heard, TypesKnown
    PROVE  RunSpec => []DetectorHeard
<1>1. HeardInv => DetectorHeard
  <2> DEFINE f == run.target
             via == run.via
  <2> SUFFICES ASSUME HeardInv, OverAsUsual, ~run.find, f \in Readable,
                      NEW d \in Agreeing(f) \cap Names,
                      HasDetector(Loaded(d)), SameSpec(entry[d], entry[via]),
                      Loaded(d).interpreter \in Executable
               PROVE  \E n \in Agreeing(f) : /\ HasDetector(Loaded(n))
                                             /\ run.ran = Loaded(n).interpreter
    BY DEF DetectorHeard
  <2>1. /\ FindInv /\ TypeOK /\ InStep /\ AsUsual /\ run.pc = "idle"
        /\ run.status \in {"0", "1", "2"} /\ Chose(run) /\ Finished(run)
    BY DEF HeardInv, FindInv, Inv, OverAsUsual, Over, AsUsual, Facts
  <2>2. /\ via \in Matching(f) /\ run.status \in {"0", "2"}
        /\ \A m \in Matching(f) : via \notin behind[m]
    BY <2>1 DEF Chose, Finished
  <2>3. d \in Matching(f) /\ d \in Names
    BY DEF Agreeing
  <2>4. via \in Registered /\ d \in Registered
    BY <2>2, <2>3 DEF Matching
  <2>5. entry[via].interpreter \in {RunDetectors, Loaded(d).interpreter}
    BY <2>1, <2>2, <2>3, <2>4, PassedOn
  <2>6. CASE entry[via].interpreter # RunDetectors
    <3>1. run.ran = Loaded(d).interpreter
      BY <2>1, <2>2, <2>5, <2>6 DEF Finished
    <3>2. QED
      BY <3>1
  <2>7. CASE entry[via].interpreter = RunDetectors
    <3> DEFINE C(n) == Candidate(Loaded(n))
    <3>1. /\ C(d) \in Answer(f) /\ C(d).detector # ""
          /\ CanRun(C(d))
      BY <2>1, AnswerIs DEF CanRun
    <3>2. IF run.status = "2" THEN \A c \in Answer(f) : ~CanRun(c)
          ELSE \E c \in Answer(f) :
                  /\ CanRun(c) /\ run.ran = c.interpreter
                  /\ c.detector = "" =>
                        \A x \in Answer(f) : x.detector # "" => ~CanRun(x)
      BY <2>1, <2>2, <2>7 DEF Finished
    <3> HIDE DEF C
    <3>3. PICK c \in Answer(f) : run.ran = c.interpreter /\ c.detector # ""
      BY <3>1, <3>2
    <3>4. PICK n \in Agreeing(f) : c = C(n)
      BY DEF Answer, C
    <3>5. HasDetector(Loaded(n)) /\ run.ran = Loaded(n).interpreter
      BY <2>1, <3>3, <3>4, AnswerIs DEF C
    <3>6. QED
      BY <3>5
  <2>8. QED
    BY <2>6, <2>7
<1>2. RunSpec => []HeardInv
  BY HeardInvAlways
<1>3. QED
  BY <1>1, <1>2, PTL
=============================================================================
