------------------------------- MODULE Format -------------------------------
(***************************************************************************)
(* Binary format descriptions: struct binfmt and the operations of         *)
(* src/format.c on it, with the two places that build their arguments      *)
(* (get_import in update-binfmts.c and the ADD_SPEC block of main).        *)
(*                                                                         *)
(* A description is a record of nine texts.  A text is opaque: all the     *)
(* code does with one is compare it, ask whether it holds a newline, and   *)
(* drop the white space at its end when it reads it back from a file.      *)
(* A file in the administrative directory is the sequence of its lines.    *)
(***************************************************************************)
EXTENDS Naturals, Sequences

CONSTANTS
    NULL,          \* C's null pointer
    Text,          \* the character strings that occur
    Multiline,     \* the texts that contain a newline character
    rtrim          \* rtrim[t]: t without its trailing white space

ASSUME TextAssumption ==
    /\ NULL \notin Text
    /\ {"", "0", "magic", "extension"} \subseteq Text
    /\ "(null)" \notin Text
    /\ Multiline \subseteq Text

ASSUME RtrimAssumption ==
    /\ rtrim \in [Text -> Text]
    /\ \A t \in Text : rtrim[rtrim[t]] = rtrim[t]
    /\ \A t \in {"", "0", "magic", "extension"} : rtrim[t] = t

----------------------------------------------------------------------------
\* The fields of struct binfmt, in the order in which files hold them.
Fields == << "package", "type", "offset", "magic", "mask", "interpreter",
             "detector", "credentials", "preserve" >>

\* READ_LINE treats the fields from detector on as optional.
Mandatory == 6

Binfmt == [package : Text \cup {NULL}, type : Text \cup {NULL},
           offset : Text \cup {NULL}, magic : Text \cup {NULL},
           mask : Text \cup {NULL}, interpreter : Text \cup {NULL},
           detector : Text \cup {NULL}, credentials : Text \cup {NULL},
           preserve : Text \cup {NULL}]

\* The null pointer is not a description.
ASSUME NullAssumption == NULL \notin Binfmt

\* What printf's "%s" makes of a pointer, with the C library the code uses.
Printed(v) == IF v = NULL THEN "(null)" ELSE v

----------------------------------------------------------------------------
(***************************************************************************)
(* Argument tables.  A table maps the keys that were given to their        *)
(* values; a key given without a value maps to NULL.                       *)
(***************************************************************************)
kvhash_exists(table, key) == key \in DOMAIN table
kvhash_lookup(table, key) == IF key \in DOMAIN table THEN table[key] ELSE NULL

\* A format file is a sequence of <<key, value>> lines.  kvhash_insert never
\* replaces an entry, so the first line of a key wins.
get_import(lines) ==
    LET keys == {lines[i][1] : i \in DOMAIN lines}
        first(k) == CHOOSE i \in DOMAIN lines :
                       /\ lines[i][1] = k
                       /\ \A j \in 1..(i-1) : lines[j][1] # k
    IN  [k \in keys |-> lines[first(k)][2]]

----------------------------------------------------------------------------
(***************************************************************************)
(* binfmt_new: a description from an argument table.  It quits the program *)
(* on a newline ("quit"), refuses a bad combination with a warning and a   *)
(* null result, and otherwise fills in the defaults.                       *)
(***************************************************************************)
TypeGiven(args) ==
    LET given == kvhash_lookup(args, "type")
        magic == kvhash_lookup(args, "magic")
        ext   == kvhash_exists(args, "extension")
    IN  IF given # NULL THEN given
        ELSE IF magic # NULL /\ ~ext THEN "magic"
        ELSE IF magic = NULL /\ ext THEN "extension"
        ELSE NULL

HasNewline(args) ==
    \/ \E i \in DOMAIN Fields : kvhash_lookup(args, Fields[i]) \in Multiline
    \/ /\ TypeGiven(args) = "extension"
       /\ kvhash_lookup(args, "extension") \in Multiline

BadSpec(args) ==
    \/ TypeGiven(args) = NULL
    \/ /\ TypeGiven(args) = "extension"
       /\ \/ kvhash_lookup(args, "mask") # NULL
          \/ kvhash_lookup(args, "offset") # NULL

Described(args) ==
    LET get(f) == kvhash_lookup(args, f)
        type   == TypeGiven(args)
    IN  [package     |-> get("package"),
         type        |-> type,
         offset      |-> IF get("offset") \in {NULL, ""} THEN "0"
                         ELSE get("offset"),
         magic       |-> IF type = "extension" THEN get("extension")
                         ELSE get("magic"),
         mask        |-> IF get("mask") = NULL THEN "" ELSE get("mask"),
         interpreter |-> get("interpreter"),
         detector    |-> get("detector"),
         credentials |-> get("credentials"),
         preserve    |-> get("preserve")]

\* NULL when the combination is refused; HasNewline is tested by the caller,
\* because it ends the program rather than the function.
binfmt_new(args) == IF BadSpec(args) THEN NULL ELSE Described(args)

----------------------------------------------------------------------------
\* Mutant: a null field is printed as it is.
LineOfNull(v) == Printed(v)

\* binfmt_write: one line per field, an empty one for a null field.
Line(v) == IF v = NULL THEN "" ELSE v

binfmt_write(b) ==
    << Line(b.package), Line(b.type), Line(b.offset), Line(b.magic),
       Line(b.mask), Line(b.interpreter), Line(b.detector),
       Line(b.credentials), Line(b.preserve) >>

\* binfmt_load: NULL when the file is out of data before the interpreter.
ReadLine(file, i) == IF i <= Len(file) THEN rtrim[file[i]] ELSE ""

binfmt_load(file) ==
    IF Len(file) < Mandatory THEN NULL
    ELSE [package     |-> ReadLine(file, 1), type     |-> ReadLine(file, 2),
          offset      |-> ReadLine(file, 3), magic    |-> ReadLine(file, 4),
          mask        |-> ReadLine(file, 5),
          interpreter |-> ReadLine(file, 6), detector |-> ReadLine(file, 7),
          credentials |-> ReadLine(file, 8), preserve |-> ReadLine(file, 9)]

\* Mutant: the interpreter is compared as well.
EqualsToo(l, r) ==
    /\ l.type = r.type
    /\ l.offset = r.offset
    /\ l.magic = r.magic
    /\ l.mask = r.mask
    /\ l.interpreter = r.interpreter

\* binfmt_equals compares the kernel-level specification only.  strcmp of a
\* null pointer crashes; it is reached when type and offset are equal.
binfmt_equals(l, r) ==
    /\ l.type = r.type
    /\ l.offset = r.offset
    /\ l.magic = r.magic
    /\ l.mask = r.mask

EqualsCrashes(l, r) ==
    /\ l.type = r.type
    /\ l.offset = r.offset
    /\ NULL \in {l.magic, r.magic}
=============================================================================
