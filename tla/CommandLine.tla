---------------------------- MODULE CommandLine ----------------------------
(***************************************************************************)
(* The command lines of update-binfmts and run-detectors: parse_opt of     *)
(* both programs, argp_parse (argp-parse.c) and getopt_long (getopt.c),    *)
(* which moves the arguments around while parse_opt takes some of them     *)
(* itself by moving state->next.                                           *)
(*                                                                         *)
(* An argument is a record: its dashes, the text after them up to "=", and *)
(* the text after "=" or NULL.  Of an argument with one dash only the      *)
(* first letter counts, since every short option ends the parsing.         *)
(***************************************************************************)
EXTENDS Integers, Sequences, FiniteSets

CONSTANTS
    NULL,
    CommandLines,   \* CommandLines[prog]: the argument vectors, without argv[0]
    Begins,         \* Begins[t]: the names of options that begin with the text t
    WholeNumbers,   \* the arguments that are digits only
    ReservedNames   \* the arguments ".", "..", "register" and "status"

Programs == {"update-binfmts", "run-detectors"}
ModeOptions == {"install", "remove", "import", "display", "enable", "disable",
                "find"}
TypeOptions == {"magic", "extension"}
OnceOptions == {"mask", "offset", "detector", "package"}
ValueOptions == TypeOptions \cup OnceOptions \cup
                {"credentials", "preserve", "admindir", "importdir", "procdir"}
ArgpOptions == {"help", "usage", "program-name", "HANG", "version"}

\* The long options argp makes of the programs' tables and of its own.
LongOptions(prog) ==
    ArgpOptions \cup
    (IF prog = "run-detectors" THEN {"admindir", "procdir"}
     ELSE ModeOptions \cup ValueOptions \cup {"test"})

NeedsValue(o) == o \in ValueOptions \cup {"program-name"}
TakesValue(o) == NeedsValue(o) \/ o = "HANG"

Settings == ModeOptions \cup ValueOptions \cup
            {"mode", "type", "name", "interpreter", "executable", "test"}

Plain(t) == [dashes |-> 0, text |-> t, value |-> NULL]
Quote == [dashes |-> 2, text |-> "", value |-> NULL]
IsOption(w) == w.dashes > 0

ASSUME CommandLinesAssumption ==
    /\ DOMAIN CommandLines = Programs
    /\ \A prog \in Programs : \A line \in CommandLines[prog] :
          /\ line \in Seq({line[i] : i \in DOMAIN line})
          /\ \A i \in DOMAIN line :
                /\ line[i].dashes \in 0..2
                /\ line[i].dashes = 1 => line[i].value = NULL
                /\ line[i].dashes = 2 /\ line[i] # Quote =>
                      line[i].text \in DOMAIN Begins

VARIABLES
    program,   \* the program that runs
    posix,     \* POSIXLY_CORRECT is in its environment
    given,     \* the arguments as they were given
    getopt,    \* _getopt_data, with the arguments in their order of now
    next,      \* state.next
    found,     \* what getopt returned: option and argument
    options,   \* TRUE while getopt is asked (try_getopt and not quoted)
    set,       \* the variables parse_opt sets
    pc         \* "next", "option", "finalize"; then "main" or an exit status

clvars == <<program, posix, given, getopt, next, found, options, set, pc>>

Argc == Len(given) + 1

----------------------------------------------------------------------------
(***************************************************************************)
(* getopt.                                                                 *)
(***************************************************************************)
Lower(i, j) == IF i < j THEN i ELSE j

\* Exchanging two sequences of equal length, at i and at j.
SwapParts(s, i, j, len) ==
    [k \in DOMAIN s |->
        IF k \in i .. i + len - 1 THEN s[k - i + j]
        ELSE IF k \in j .. j + len - 1 THEN s[k - j + i]
        ELSE s[k]]

\* Mutant: one exchange of the shorter part is enough.
SwapOnce(s, bottom, middle, top) ==
    LET len == Lower(top - middle, middle - bottom)
    IN  SwapParts(s, bottom, top - len, len)

\* One round of the loop of exchange: the shorter of the parts bottom to middle
\* and middle to top goes to its place at the far end of the longer one.
SwapShorter(x, middle) ==
    IF ~(x.top > middle /\ middle > x.bottom) THEN x
    ELSE IF x.top - middle > middle - x.bottom
    THEN LET len == middle - x.bottom
         IN  [s |-> SwapParts(x.s, x.bottom, x.top - len, len),
              bottom |-> x.bottom, top |-> x.top - len]
    ELSE LET len == x.top - middle
         IN  [s |-> SwapParts(x.s, x.bottom, middle, len),
              bottom |-> x.bottom + len, top |-> x.top]

\* The loop of exchange, until one of the parts is empty: every round shortens
\* what is left.
Swap(s, bottom, middle, top) ==
    LET after[n \in 0 .. top - bottom] ==
            IF n = 0 THEN [s |-> s, bottom |-> bottom, top |-> top]
            ELSE SwapShorter(after[n-1], middle)
    IN  after[top - bottom].s

exchange(d) ==
    [d EXCEPT !.argv = Swap(d.argv, d.first, d.last, d.optind),
              !.first = @ + (d.optind - d.last), !.last = d.optind]

\* PERMUTE: the options that were processed go before the arguments that were
\* passed over, and further arguments are passed over.
Permute(d) ==
    LET moved == IF d.first # d.last /\ d.last # d.optind THEN exchange(d)
                 ELSE IF d.last # d.optind THEN [d EXCEPT !.first = d.optind]
                 ELSE d
        stop  == CHOOSE i \in d.optind .. Argc :
                    /\ i = Argc \/ IsOption(moved.argv[i])
                    /\ \A j \in d.optind .. i - 1 : ~IsOption(moved.argv[j])
    IN  [moved EXCEPT !.optind = stop, !.last = stop]

\* "--": everything after it is passed over.
SkipQuote(d) ==
    IF d.optind = Argc \/ d.argv[d.optind] # Quote THEN d
    ELSE LET over  == [d EXCEPT !.optind = @ + 1]
             moved == IF over.first # over.last /\ over.last # over.optind
                      THEN exchange(over)
                      ELSE IF over.first = over.last
                      THEN [over EXCEPT !.first = over.optind]
                      ELSE over
         IN  [moved EXCEPT !.last = Argc, !.optind = Argc]

Ordering == IF program = "run-detectors" THEN "RETURN_IN_ORDER"
            ELSE IF posix THEN "REQUIRE_ORDER" ELSE "PERMUTE"

\* optind may be 0, the request to start over; and FIRST_NONOPT and
\* LAST_NONOPT must not be beyond it.
Advance(d) ==
    LET start == IF d.optind = 0
                 THEN [d EXCEPT !.optind = 1, !.first = 1, !.last = 1]
                 ELSE [d EXCEPT !.last = Lower(@, d.optind),
                                !.first = Lower(@, d.optind)]
    IN  SkipQuote(IF Ordering = "PERMUTE" THEN Permute(start) ELSE start)

Returned(d, option, arg) == [d |-> d, option |-> option, arg |-> arg]

\* Exact names come before abbreviations, which must be unique.
Meant(text) ==
    LET names == Begins[text] \cap LongOptions(program)
    IN  IF text \in names THEN text
        ELSE IF Cardinality(names) = 1 THEN CHOOSE o \in names : TRUE
        ELSE "error"

LongOption(d) ==
    LET w    == d.argv[d.optind]
        o    == Meant(w.text)
        past == [d EXCEPT !.optind = @ + 1]
    IN  IF o = "error" \/ (w.value # NULL /\ ~TakesValue(o))
        THEN Returned(past, "error", NULL)
        ELSE IF w.value # NULL THEN Returned(past, o, Plain(w.value))
        ELSE IF ~NeedsValue(o) THEN Returned(past, o, NULL)
        ELSE IF past.optind = Argc THEN Returned(past, "error", NULL)
        ELSE Returned([past EXCEPT !.optind = @ + 1], o, d.argv[past.optind])

ShortOption(d) ==
    LET w    == d.argv[d.optind]
        past == [d EXCEPT !.optind = @ + 1]
    IN  Returned(past, IF w.text = "V" THEN "version"
                       ELSE IF w.text = "?" THEN "help" ELSE "error", NULL)

getopt_long(d0) ==
    LET d == Advance(d0) IN
    IF d.optind = Argc
    THEN Returned(IF d.first # d.last THEN [d EXCEPT !.optind = d.first] ELSE d,
                  "end", NULL)
    ELSE IF ~IsOption(d.argv[d.optind])
    THEN IF Ordering = "REQUIRE_ORDER" THEN Returned(d, "end", NULL)
         ELSE Returned([d EXCEPT !.optind = @ + 1], "argument",
                       d.argv[d.optind])
    ELSE IF d.argv[d.optind].dashes = 2 THEN LongOption(d)
    ELSE ShortOption(d)

----------------------------------------------------------------------------
(***************************************************************************)
(* parse_opt.  An option of argp's own ends the program or changes nothing *)
(* that matters here.                                                      *)
(***************************************************************************)
Refuse == pc' = "2" /\ UNCHANGED <<next, set>>

Store(f) == /\ set' = [o \in Settings |-> IF o \in DOMAIN f THEN f[o] ELSE set[o]]
            /\ pc' = "next"

\* Mutant: the argument is taken although there is none.
TakenAlways == next + 1

\* --import, --display, --enable and --disable take the next argument, if any.
TakenIfThere == IF next < Argc THEN next + 1 ELSE next

\* A mode takes its arguments itself, whatever they look like.
Mode(o) ==
    /\ o \in ModeOptions
    /\ IF set["mode"] # NULL \/ (o \in {"install", "remove"} /\ next > Argc - 2)
                             \/ (o = "find" /\ next >= Argc)
       THEN Refuse
       ELSE \/ /\ o \in {"install", "remove"}
               /\ Store([mode |-> o, name |-> getopt.argv[next],
                         interpreter |-> getopt.argv[next + 1]])
               /\ next' = next + 2
            \/ /\ o = "find"
               /\ Store([mode |-> o, executable |-> getopt.argv[next]])
               /\ next' = next + 1
            \/ /\ o \notin {"install", "remove", "find"}
               /\ Store(IF next < Argc THEN [mode |-> o, name |-> getopt.argv[next]]
                        ELSE [mode |-> o])
               /\ next' = TakenIfThere

Value(o, arg) ==
    /\ o \in ValueOptions
    /\ IF \/ o \in TypeOptions /\ set["type"] # NULL
          \/ o \in OnceOptions /\ set[o] # NULL
          \/ o = "offset" /\ arg \notin WholeNumbers
       THEN Refuse
       ELSE /\ UNCHANGED next
            /\ Store([k \in {o} \cup (IF o \in TypeOptions THEN {"type"} ELSE {}) |->
                        IF k = "type" THEN o ELSE arg])

Test(o) == o = "test" /\ Store([test |-> Quote]) /\ UNCHANGED next

ArgpOption(o) ==
    /\ o \in ArgpOptions
    /\ UNCHANGED <<next, set>>
    /\ pc' = IF o \in {"help", "usage", "version"} THEN "0" ELSE "next"

----------------------------------------------------------------------------
(***************************************************************************)
(* argp_parse.                                                             *)
(***************************************************************************)
\* parser_parse_next, as far as the call of getopt: state.next goes to it and
\* comes back.  At the end of the options a "--" just before is remembered.
ParseNext ==
    /\ pc = "next" /\ options
    /\ LET r == getopt_long([getopt EXCEPT !.optind = next]) IN
       /\ getopt' = r.d
       /\ next' = r.d.optind
       /\ found' = [option |-> r.option, arg |-> r.arg]
       /\ options' = (r.option # "end")
       /\ pc' = IF r.option = "error" THEN "2"
                ELSE IF r.option = "end" THEN "finalize" ELSE "option"
    /\ UNCHANGED <<program, posix, given, set>>

\* parser_parse_arg: no parser of these programs takes an argument, so it is
\* put back.
ParseArg ==
    /\ pc = "option" /\ found.option = "argument"
    /\ next' = next - 1
    /\ pc' = "finalize"
    /\ UNCHANGED <<program, posix, given, getopt, found, options, set>>

\* parser_parse_opt
ParseOpt ==
    /\ pc = "option"
    /\ \/ Mode(found.option) \/ Value(found.option, found.arg)
       \/ Test(found.option) \/ ArgpOption(found.option)
    /\ UNCHANGED <<program, posix, given, getopt, found, options>>

\* Mutant: the reserved names are forgotten.
NoReserved ==
    /\ set["mode"] # NULL
    /\ set["mode"] = "install" => set["type"] # NULL

\* parse_opt with ARGP_KEY_SUCCESS
Complete ==
    /\ set["mode"] # NULL
    /\ set["mode"] = "install" =>
          set["type"] # NULL /\ set["name"] \notin ReservedNames

\* parser_finalize.  Only run-detectors asks for the index of what is left,
\* and main quits when nothing is.
Finalize ==
    /\ pc = "finalize"
    /\ pc' = IF program = "run-detectors"
             THEN IF next < Argc THEN "main" ELSE "2"
             ELSE IF next = Argc /\ Complete THEN "main" ELSE "2"
    /\ UNCHANGED <<program, posix, given, getopt, next, found, options, set>>

CLInit ==
    /\ program \in Programs /\ posix \in BOOLEAN
    /\ given \in CommandLines[program]
    /\ getopt = [argv |-> given, optind |-> 0, first |-> 0, last |-> 0]
    /\ next = 0 /\ options = TRUE
    /\ found = [option |-> "none", arg |-> NULL]
    /\ set = [o \in Settings |-> NULL]
    /\ pc = "next"

CLNext == ParseNext \/ ParseArg \/ ParseOpt \/ Finalize

CLSpec == CLInit /\ [][CLNext]_clvars

----------------------------------------------------------------------------
(***************************************************************************)
(* What a command line means: it is read once, from left to right.  A      *)
(* reader wants something (the value of an option or the arguments of a    *)
(* mode), or takes the next argument as an option or as one too many.      *)
(***************************************************************************)
Reader == [want |-> <<>>, set |-> [o \in Settings |-> NULL], loose |-> <<>>,
           plain |-> FALSE, exit |-> "none"]

Option(w) == IF w.dashes = 2 THEN Meant(w.text)
             ELSE IF w.text = "V" THEN "version"
             ELSE IF w.text = "?" THEN "help" ELSE "error"

Wants(o) == IF o \in {"install", "remove"} THEN <<"name", "interpreter">>
            ELSE IF o = "find" THEN <<"executable">>
            ELSE IF o \in ModeOptions THEN <<"name?">>
            ELSE IF NeedsValue(o) THEN <<o>> ELSE <<>>

\* The settings s, with the argument of o; --magic and --extension are types.
Stored(s, o, arg) ==
    [k \in Settings |-> IF k = o THEN arg
                        ELSE IF k = "type" /\ o \in TypeOptions THEN o
                        ELSE s[k]]

Gives(r, o, arg) ==
    IF \/ o \in OnceOptions /\ r.set[o] # NULL
       \/ o \in TypeOptions /\ r.set["type"] # NULL
       \/ o = "offset" /\ arg \notin WholeNumbers
    THEN [r EXCEPT !.exit = "2"]
    ELSE IF o \notin Settings THEN r
    ELSE [r EXCEPT !.set = Stored(@, o, arg)]

Opens(r, w) ==
    LET o == Option(w) IN
    IF \/ o = "error" \/ (w.value # NULL /\ ~TakesValue(o))
       \/ o \in ModeOptions /\ r.set["mode"] # NULL
    THEN [r EXCEPT !.exit = "2"]
    ELSE IF o \in {"help", "usage", "version"} THEN [r EXCEPT !.exit = "0"]
    ELSE IF w.value # NULL THEN Gives(r, o, Plain(w.value))
    ELSE IF o \in ModeOptions
    THEN [r EXCEPT !.set["mode"] = o, !.want = Wants(o)]
    ELSE IF o = "test" THEN [r EXCEPT !.set["test"] = Quote]
    ELSE [r EXCEPT !.want = Wants(o)]

Reads(r, w) ==
    IF r.exit # "none" THEN r
    ELSE IF r.want # <<>>
    THEN Gives([r EXCEPT !.want = Tail(@)],
               IF Head(r.want) = "name?" THEN "name" ELSE Head(r.want), w)
    ELSE IF r.plain \/ ~IsOption(w)
    THEN [r EXCEPT !.loose = Append(@, w),
                   !.plain = @ \/ posix \/ program = "run-detectors"]
    ELSE IF w = Quote THEN [r EXCEPT !.plain = TRUE]
    ELSE Opens(r, w)

\* What the first n arguments say.
ReadTo(n) ==
    LET upto[i \in 0 .. Len(given)] ==
            IF i = 0 THEN Reader ELSE Reads(upto[i-1], given[i])
    IN  upto[n]

Read == ReadTo(Len(given))

\* How it ends: nothing is wanted any more, nothing is too much, and what the
\* action needs is there.
Meaning(r) ==
    IF r.exit # "none" THEN r.exit
    ELSE IF r.want \notin {<<>>, <<"name?">>} THEN "2"
    ELSE IF program = "run-detectors"
    THEN IF r.loose = <<>> THEN "2" ELSE "main"
    ELSE IF /\ r.loose = <<>> /\ r.set["mode"] # NULL
            /\ r.set["mode"] = "install" =>
                  r.set["type"] # NULL /\ r.set["name"] \notin ReservedNames
    THEN "main" ELSE "2"

----------------------------------------------------------------------------
(***************************************************************************)
(* Properties.                                                             *)
(***************************************************************************)
CLTypeOK ==
    /\ getopt.first \in 0 .. getopt.last /\ getopt.last \in 0 .. Argc
    /\ getopt.optind \in 0 .. Argc /\ next \in 0 .. Argc
    /\ DOMAIN getopt.argv = DOMAIN given
    /\ DOMAIN set = Settings
    /\ pc \in {"next", "option", "finalize", "main", "0", "2"}

\* What getopt, argp and parse_opt make of a command line together, each of
\* them moving the index of the next argument and getopt moving the arguments,
\* is what the line says read from left to right: the same settings, and the
\* same end.
MeansTheSame ==
    pc \in {"main", "0", "2"} =>
        LET r == Read IN pc = Meaning(r) /\ (pc = "main" => set = r.set)

\* getopt moves only what it has dealt with: what is not read yet is where it
\* was, and in the end the arguments that are left are those passed over, in
\* the order in which they were given.
LeftInOrder ==
    /\ pc \in {"next", "option"} =>
          \A i \in DOMAIN given : i >= next => getopt.argv[i] = given[i]
    /\ pc \in {"finalize", "main"} =>
          SubSeq(getopt.argv, next, Len(given)) = Read.loose
=============================================================================
