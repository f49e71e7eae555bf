-------------------------- MODULE FindInterpreters --------------------------
(***************************************************************************)
(* How a file is executed: the kernel looks for a registered format that   *)
(* matches it, and runs that format's interpreter, or run-detectors, which *)
(* does the kernel's search again over the database (src/find.c), runs the *)
(* detectors and then executes the first interpreter it can                *)
(* (src/run-detectors.c).  update-binfmts --find prints what run-detectors *)
(* would try.  This module adds executions and searches to UpdateBinfmts,  *)
(* one at a time and between two commands of update-binfmts, in whatever   *)
(* state those left the database and the kernel.                           *)
(***************************************************************************)
EXTENDS UpdateBinfmts, ExpandHex, Functions

CONSTANTS
    chars,        \* chars[t]: the character codes of the text t
    Targets,      \* files: the extension (NULL: no dot) and the first bytes
    Readable,     \* the files fopen can open; others are not there (--find) or
                  \* may be executed only
    Accepts,      \* Accepts[d]: the files the detector d says yes to
    Executable    \* the interpreters execvp can run

ASSUME TargetsAssumption ==
    /\ Targets \subseteq [dot : Text \cup {NULL}, data : Seq(0..255)]
    /\ chars \in [Text -> Seq(1..255)]
    /\ chars[""] = <<>>
    /\ \A s, t \in Text : chars[s] = chars[t] => s = t
    /\ Executable \subseteq Text

VARIABLE run    \* the execution, or the --find, under way

fvars == <<vars, run>>

\* What is known of one format: struct binfmt with magic and mask expanded.
Candidate(b) ==
    [extension |-> b.type # "magic",
     offset |-> IF b.offset = "" THEN 0 ELSE atoi(chars[b.offset]),
     magic |-> expand_hex(chars[b.magic]), mask |-> expand_hex(chars[b.mask]),
     interpreter |-> b.interpreter, detector |-> b.detector]

Ready == [pc |-> "idle", find |-> FALSE, target |-> NULL, via |-> NULL,
          todo |-> {}, name |-> NULL, formats |-> <<>>, buf |-> <<>>,
          tried |-> {}, interpreters |-> <<>>,
          ran |-> NULL, status |-> "none"]

RunTypeOK ==
    /\ TypeOK
    /\ run.pc \in {"idle", "readdir", "load", "open", "match", "exec"}
    /\ run.todo \subseteq FormatNames
    /\ run.via \in FormatNames \cup {NULL}
    /\ run.name \in IF run.pc = "load" THEN FormatNames ELSE {NULL}

\* C's & of two bytes.
ByteAnd(a, b) ==
    LET bit(i) == ((a \div 2^i) % 2) * ((b \div 2^i) % 2) * 2^i
    IN  bit(0) + bit(1) + bit(2) + bit(3) + bit(4) + bit(5) + bit(6) + bit(7)

----------------------------------------------------------------------------
(***************************************************************************)
(* The kernel: the newest registration that matches.                       *)
(***************************************************************************)
ByteAt(f, i) == IF i <= Len(f.data) THEN f.data[i] ELSE 0

EntryMatches(r, f) ==
    \/ r.type = "E" /\ f.dot = r.magic
    \/ /\ r.type = "M" /\ atoi(chars[r.offset]) >= 0
       /\ LET magic == parse_arg(chars[r.magic])
              mask  == parse_arg(chars[r.mask])
          IN  \A j \in DOMAIN magic :
                 (IF mask = <<>> THEN ByteAt(f, atoi(chars[r.offset]) + j)
                  ELSE ByteAnd(ByteAt(f, atoi(chars[r.offset]) + j), mask[j]))
                    = magic[j]

Matching(f) == {n \in Registered : EntryMatches(entry[n], f)}

Quiet == run.pc = "idle" /\ \A p \in Procs : At(p, "idle")

DirEntries == {g \in FormatNames : is_file(g)}

Execute(f) ==
    /\ Quiet
    /\ active
    /\ \E n \in Matching(f) :
          /\ \A m \in Matching(f) : n \notin behind[m]
          /\ LET new  == [Ready EXCEPT !.target = f, !.via = n]
                 prog == entry[n].interpreter
             IN run' = IF prog = RunDetectors
                       THEN [new EXCEPT !.pc = "readdir", !.todo = DirEntries]
                       ELSE [new EXCEPT !.ran = prog,
                                !.status = IF prog \in Executable
                                           THEN "0" ELSE "2"]
    /\ UNCHANGED vars

\* update-binfmts --find
act_find(f) ==
    /\ Quiet
    /\ run' = [Ready EXCEPT !.pc = "readdir", !.find = TRUE, !.target = f,
                            !.todo = DirEntries]
    /\ UNCHANGED vars

----------------------------------------------------------------------------
(***************************************************************************)
(* find_interpreters.  load_all_formats passes over what the kernel does   *)
(* not have, quits on a file it cannot open or that is corrupt, and drops  *)
(* a format whose mask is not as long as its magic.  A directory that      *)
(* cannot be read ends the program too ("unreadable": exit status 2).      *)
(***************************************************************************)
Ends(st) == run' = [run EXCEPT !.pc = "idle", !.name = NULL, !.status = st]

Quit == Ends("2")

ReadEntry ==
    /\ run.pc = "readdir"
    /\ \/ \E n \in run.todo :
             run' = IF ProcEntry(n)
                    THEN [run EXCEPT !.pc = "load", !.name = n,
                                     !.todo = @ \ {n}]
                    ELSE [run EXCEPT !.todo = @ \ {n}]
       \/ run.todo = {} /\ run' = [run EXCEPT !.pc = "open"]
       \/ Fault("opendir") /\ run' = [Ready EXCEPT !.status = "unreadable"]
    /\ UNCHANGED vars

Fitting(c) == c.mask = <<>> \/ Len(c.mask) = Len(c.magic)

\* Mutant: the name of the format before stays.
LoadKeepsName ==
    /\ run.pc = "load"
    /\ IF Loaded(run.name) = NULL THEN Quit
       ELSE LET c == Candidate(Loaded(run.name)) IN
            run' = [run EXCEPT !.pc = "readdir",
                       !.formats = IF Fitting(c) THEN Append(@, c) ELSE @]
    /\ UNCHANGED vars

LoadEntry ==
    /\ run.pc = "load"
    /\ IF Loaded(run.name) = NULL THEN Quit
       ELSE LET c == Candidate(Loaded(run.name)) IN
            run' = [run EXCEPT !.pc = "readdir", !.name = NULL,
                       !.formats = IF Fitting(c) THEN Append(@, c) ELSE @]
    /\ UNCHANGED vars

\* How much of the file must be read, and reading it into a zeroed buffer.
Magics == {c \in Range(run.formats) : ~c.extension}

\* Mutant: the offset does not count.
SizeOfMagic(c) == Len(c.magic)

SizeRead(c) == c.offset + Len(c.magic)

\* A sum below zero is, as a size_t, more than there is memory: xzalloc ends
\* the program.
Wraps == \E c \in Magics : SizeRead(c) < 0

ReadTarget ==
    LET sizes  == {0} \cup {SizeRead(c) : c \in Magics}
        toread == CHOOSE s \in sizes : \A r \in sizes : r <= s
    IN
    /\ run.pc = "open"
    /\ \/ Wraps /\ Ends("1")
       \/ ~Wraps /\ run.target \notin Readable /\ Quit
       \/ /\ ~Wraps /\ run.target \in Readable
          /\ run' = [run EXCEPT !.pc = "match",
                        !.buf = [i \in 1 .. toread |-> ByteAt(run.target, i)]]
    /\ UNCHANGED vars

\* A mask that begins with a NUL is taken for none: the code tests *mask.
Masked(c) == c.mask # <<>> /\ c.mask[1] # 0

Segment(c) ==
    [i \in DOMAIN c.magic |->
        IF Masked(c) THEN ByteAnd(run.buf[c.offset + i], c.mask[i])
        ELSE run.buf[c.offset + i]]

\* Mutant: the mask is forgotten.
SegmentOnly(c) ==
    IF c.extension
    THEN run.target.dot # NULL /\ chars[run.target.dot] = c.magic
    ELSE [i \in DOMAIN c.magic |-> run.buf[c.offset + i]] = c.magic

FormatMatches(c) ==
    IF c.extension
    THEN run.target.dot # NULL /\ chars[run.target.dot] = c.magic
    ELSE Segment(c) = c.magic

\* A loop over a list that appends to another those it takes.
Chosen(list, taken) ==
    LET upto[i \in 0 .. Len(list)] ==
            IF i = 0 THEN <<>>
            ELSE IF list[i] \in taken THEN Append(upto[i-1], list[i])
                 ELSE upto[i-1]
    IN  upto[Len(list)]

Plain(ok) == {c \in Range(ok) : c.detector = ""}
SaidYes(ok) == {c \in Range(ok) : /\ c.detector # ""
                                 /\ run.target \in Accepts[c.detector]}

\* Mutant: in the order of the table.
TableOrder(ok) == Chosen(ok, SaidYes(ok) \cup Plain(ok))

\* Those whose detector says yes, then those without one.
DetectorsFirst(ok) == Chosen(ok, SaidYes(ok)) \o Chosen(ok, Plain(ok))

MatchAndDetect ==
    LET ok    == {c \in Range(run.formats) : FormatMatches(c)}
        found == DetectorsFirst(Chosen(run.formats, ok))
    IN
    /\ run.pc = "match"
    /\ run' = [run EXCEPT
                  !.pc = IF run.find THEN "idle" ELSE "exec",
                  !.status = IF run.find THEN "0" ELSE @,
                  !.formats = <<>>, !.buf = <<>>,
                  !.interpreters = found,
                  !.tried = Range(found)]
    /\ UNCHANGED vars

\* Mutant: run-detectors gives up when an interpreter cannot be executed.
ExecOnce ==
    /\ run.pc = "exec"
    /\ IF run.interpreters = <<>> THEN Quit
       ELSE LET c == Head(run.interpreters) IN
            IF c.interpreter \in Executable
            THEN run' = [run EXCEPT !.pc = "idle", !.status = "0",
                                    !.ran = c.interpreter]
            ELSE Quit
    /\ UNCHANGED vars

\* run-detectors executes the first interpreter it can.
ExecNext ==
    /\ run.pc = "exec"
    /\ IF run.interpreters = <<>> THEN Quit
       ELSE LET c == Head(run.interpreters) IN
            run' = IF c.interpreter \in Executable
                   THEN [run EXCEPT !.pc = "idle", !.status = "0",
                                    !.ran = c.interpreter]
                   ELSE [run EXCEPT !.interpreters = Tail(@)]
    /\ UNCHANGED vars

----------------------------------------------------------------------------
RunInit == Init /\ run = Ready

RunStep == ReadEntry \/ LoadEntry \/ ReadTarget \/ MatchAndDetect \/ ExecNext

\* update-binfmts takes a step, between two executions.
Update == Next /\ run.pc = "idle" /\ run' = Ready

RunNext ==
    \/ \E f \in Targets : Execute(f) \/ act_find(f)
    \/ RunStep
    \/ Update

RunSpec == RunInit /\ [][RunNext]_fvars

----------------------------------------------------------------------------
(***************************************************************************)
(* Properties.  They speak of an execution that is over, with a kernel     *)
(* that has what the database says.                                        *)
(***************************************************************************)

\* What a kernel accepts: it refuses other escapes, a mask that is longer or
\* shorter than the magic, and an offset that is no number (the emulator lets
\* a sign pass, Linux does not).
Accepted(r) ==
    r.type = "M" =>
        LET magic == chars[r.magic]
            mask  == chars[r.mask]
        IN  /\ ~Refused(magic) /\ ~Refused(mask)
            /\ Len(parse_arg(mask)) \in {0, Len(parse_arg(magic))}
            /\ atoi(chars[r.offset]) >= 0

InStep ==
    /\ procfs = "mounted"
    /\ \A n \in Registered :
          /\ n \notin manual
          /\ Loaded(n) # NULL
          /\ SameSpec(entry[n], regstring(Loaded(n), TRUE))
          /\ entry[n].interpreter \in {RunDetectors, Loaded(n).interpreter}
          /\ Accepted(entry[n])

Over == run.pc = "idle" /\ run.status \in {"0", "1", "2"} /\ InStep

\* An extension is letters and has no mask; a mask begins with a byte that is
\* not 0 (see MaskApplies).
Usual(b) ==
    LET c == Candidate(b) IN
    IF c.extension THEN c.magic = chars[b.magic] /\ c.mask = <<>>
    ELSE c.mask # <<>> => c.mask[1] # 0

OverAsUsual == Over /\ \A n \in Registered : Usual(Loaded(n))

Detecting(n, f) == HasDetector(Loaded(n)) /\ f \in Accepts[Loaded(n).detector]

\* The formats the kernel and the detectors together say the file has.
Agreeing(f) ==
    {n \in Matching(f) : HasDetector(Loaded(n)) => Detecting(n, f)}

\* Every read of the file's bytes stays in the buffer, whose size is computed
\* in another loop, over formats with other offsets and sizes.
InBuffer ==
    run.pc = "match" =>
        \A c \in Magics : /\ c.offset + Len(c.magic) <= Len(run.buf)
                          /\ InStep => c.offset >= 0

\* --find and run-detectors redo the kernel's search from the database; they
\* find the formats the kernel finds, less those whose detector says no.
\* --find fails only on a file that cannot be opened.
FindAgrees ==
    OverAsUsual /\ run.find =>
        IF run.target \notin Readable THEN run.status = "2"
        ELSE /\ run.status = "0"
             /\ {c.interpreter : c \in run.tried} =
                   {Loaded(n).interpreter : n \in Agreeing(run.target)}

\* A format with a detector that says yes is heard before any format without
\* one that has the same specification, whichever of their entries the kernel
\* meets first, if the file can be read.  (What an interrupted installation
\* left under another name is no format of anybody's.)
DetectorHeard ==
    OverAsUsual /\ ~run.find /\ run.target \in Readable =>
        \A d \in Agreeing(run.target) \cap Names :
            /\ HasDetector(Loaded(d))
            /\ SameSpec(entry[d], entry[run.via])
            /\ Loaded(d).interpreter \in Executable
            => \E n \in Agreeing(run.target) :
                  HasDetector(Loaded(n)) /\ run.ran = Loaded(n).interpreter

\* run-detectors gives up only when it cannot open the file, or no format it
\* may use can be executed.
TriesAll ==
    /\ OverAsUsual /\ ~run.find /\ run.status # "0"
    /\ entry[run.via].interpreter = RunDetectors
    => \/ run.target \notin Readable
       \/ \A n \in Agreeing(run.target) : Loaded(n).interpreter \notin Executable

----------------------------------------------------------------------------
\* What the manual page says and the code does not do: "This mask will be
\* logically-ANDed with the string to be checked against the magic number",
\* for all masks.
MaskApplies ==
    Over /\ run.find /\ run.status = "0" =>
        \A n \in Agreeing(run.target) :
            Loaded(n).mask # "" =>
                Loaded(n).interpreter \in {c.interpreter : c \in run.tried}
=============================================================================
