# A formal model of binfmt-support

binfmt-support registers interpreters for executable formats with the Linux
kernel.  `update-binfmts` keeps a database of formats, one file per format in
an administrative directory, and copies it to and from the kernel's
`binfmt_misc` file system.  Packages call it from their maintainer scripts, the
boot scripts call it when the machine starts and stops, administrators call it
by hand; nothing is locked, every call may fail or be killed.  When several
formats have one specification and some have detectors, the kernel executes
`run-detectors`, which searches the database again and decides.

Line numbers refer to `src/src/update-binfmts.c` unless another file is named.

## Inventory

| Part | State it keeps | Operations | Correct when |
|---|---|---|---|
| Format descriptions: `format.c` | `struct binfmt`, files of admindir | `binfmt_new`, `binfmt_load`, `binfmt_write`, `binfmt_equals` | a description survives the round trip through a file; a bad one is refused |
| Actions: 352-793 | the files of admindir; per process the table `formats`, the format in work, the result so far | `act_enable`, `act_disable`, `act_install`, `act_remove`, `act_import`, `act_display`, the dispatch in `main` | files whole, owners kept, kernel and database agree, the exit status is honest, `--test` changes nothing |
| Loading `binfmt_misc`: 166-316 | is the module there, is the file system mounted, is it switched on | `get_binfmt_style`, `load_binfmt_misc`, `unload_binfmt_misc` | the answer means what callers take it for, whoever else loads and unloads |
| The kernel's `binfmt_misc` (external; emulated in `tests/binfmt_misc.py`) | registered formats, their order, the switch | write to `register`, to an entry, to `status`; mount, umount; execute | (environment) |
| The hash table: gnulib's `hash.c` behind `kvhash.c` | buckets, overflow entries, a free list, counts | lookup, insert, delete, grow, walk | is a map; nothing leaks, also when memory runs out; a walk passes everything |
| `--find`: `find.c` | the formats it has read, a buffer with the file's head | `expand_hex`, `load_all_formats`, `find_interpreters`, `act_find` | finds what the kernel finds, less what detectors refuse; those with detectors first |
| `run-detectors.c` | the list of interpreters | run detectors, execute the first interpreter that can be | tries all of them |
| Command line: `parse_opt` 925-1068 over gnulib's `argp-parse.c`, `getopt.c` | mode, name, type, the fields of the specification; argv, which getopt permutes | one call per option; `parser_finalize` | reads what the line says from left to right; refuses what `main` cannot handle |
| Boot scripts: `init/` | none | `--enable` at start, `--disable` at stop | what is in the database is enabled after boot |
| Rest of gnulib, build system, messages | | | vendored or without state of their own |

How they interact: an action reads a file of admindir (`load_format`), tests and
writes files of `binfmt_misc`, writes admindir; `act_install` calls
`act_disable` and `act_enable`; `act_remove` calls `act_disable`;
`act_import` calls `act_install` and ignores what it returns (729); without a
name, `act_enable`, `act_disable` and `act_import` loop over all formats and
call themselves.  `act_find` and `run-detectors` call `find_interpreters`, which
reads admindir and the names in `binfmt_misc`.  Processes meet only in the two
directories.

What is hard: a process tests a file and uses the result later (scan at
401-410, registration at 441; owner at 539, rename at 596); an operation
consists of several calls of which each can fail or be the last one before a
kill or reboot; the table is a cache that never replaces an entry (`kvhash.c`
73-88), so it can be out of date; the loops insert into the table they walk;
two searches, the kernel's and `find_interpreters`', must agree although they
are written twice; `parse_opt` takes arguments from an array getopt reorders.
`PROJECT.json` lists the hazards with their lines.

## Modules

| Module | What it models |
|---|---|
| `Format` | descriptions as records of opaque texts, a file as the sequence of its lines, `get_import`, `binfmt_new`, `binfmt_write`, `binfmt_load`, `binfmt_equals` as operators; assumptions about texts and about `rtrim`, which drops white space at the end of a line read back |
| `BinfmtMisc` | the kernel's side: `procfs` (module absent, directory there, mounted), `entry` (what is registered), `behind` (who is tried after whom), `active` (the switch), `manual` (history: entries others made) |
| `UpdateBinfmts` | processes running commands over `admin` (the files) and the kernel, the environment's faults, the properties |
| `Registry` | the abstract promise: a map from names to descriptions and the set of enabled names |
| `RegistryRefinement` | the mapping under which `UpdateBinfmts` implements `Registry` |
| `Claims` | what documents and comments say of `UpdateBinfmts` and the code does not do |
| `Loading` | `load_binfmt_misc` and `unload_binfmt_misc`, a step for every look at the system and every program they run, on both kinds of kernels |
| `ExpandHex` | `expand_hex` and `atoi` on character codes, and the expansion the kernel does |
| `FindInterpreters` | executions and searches over the states `UpdateBinfmts` reaches: the kernel's choice, `find_interpreters`, `run-detectors` |
| `CommandLine` | getopt's permutation, argp's dispatch and `parse_opt` over the words of a command line |
| `KeyValue` | the map the rest of the program takes its tables for |
| `HashTable` | `hash.c`: buckets, overflow chains, the free list, growing and undoing it, walks |
| `MCUpdateBinfmts`, `MCFindInterpreters`, `MCInputs`, `MCHashTable`, `MCLoading` | the instances for TLC |
| `DataProofs`, `UpdateBinfmtsProofs`, `StepProofs`, `RegistryProofs`, `FindProofs`, `CommandLineProofs`, `LoadingProofs`, `HashProofs` | theorems |

### State and steps of `UpdateBinfmts`

`admin[f]` is the sequence of the lines of file `f`, or `NULL`.  `proc[p]` is one
invocation: `pc` says where it is, `mode` which command it runs, `name` the
format in work, `new` the argument of `act_install`, `formats` the table,
`todo` what is left of a loop, `worked` its result, `reg` the line for
`register`, `fd` the open file, `status` how the last command ended.

A step ends where the code touches state others see, with the exceptions named
under "What is abstracted".  In the order of a command:

| pc | action | code |
|---|---|---|
| misc, mount | `load_binfmt_misc`, `MountBinfmtMisc` | 211-273 |
| exists, scan, register | `EnableExists`, `EnableScan`, `EnableRegister` | 367-442 |
| disable, diswrite, discheck | `DisableExists`, `DisableWrite`, `DisableCheck` | 459-511 |
| loadall, loop, unload | `LoadAll`, `Loop`, `unload_binfmt_misc` | 443-455, 511-525, 275-316 |
| install, manual, open, fill, rename | `InstallLoad`, `InstallManual`, `WriteOpen`, `WriteFill`, `RenameTmp` | 527-612, `format.c` 158-194 |
| remove, unlink | `RemoveLoad`, `RemoveUnlink` | 617-664 |
| import | `Import` | 669-731 |
| display | `Display` | 757-793 |

`Return` and `Disabled` are the returns of an action to whoever called it:
`main`, a loop (`worked &= ...`), `act_install`, `act_remove`, or `act_import`.
`Exited("segv")` is the end by a null pointer, `"2"` the end by `quit` or by
`main`, `"killed"` the end by a signal or a restart.

An open file is followed through renames and removals by `fd` (`Relinked`): a
process that writes to a file that has been renamed in the meantime writes to
its new name.  The constant `Faults` switches on what may go wrong: kills,
reboots, failed mounts, writes (which leave nothing or a part of the file),
renames, unlinks, registrations the kernel refuses and removals it ignores,
directories that cannot be opened, somebody who uses `binfmt_misc` directly.

`Writes[p]` are the formats process `p` installs, imports or removes; `Serial` says that the
callers run one invocation at a time.  `Exclusive` is what the package manager
provides: one at a time, or no two of them on the same format.

The boot scripts are the commands `enableall` and `disableall`.

### The other state machines

`Loading`: `call[p].pc` is the look or the program a call to `load_binfmt_misc`
or `unload_binfmt_misc` comes to next (`style`, `register`, `modprobe`, ... in the
order of 211-316).  `failed`, `undone` and `redone` are history: whether
something failed under the call, and whether others unmounted or mounted since
it began; `unset` is that its write to `status` failed, of which
`load_binfmt_misc` only warns (267), or not even that (263-264).
`UpdateBinfmts` has the same functions in fewer steps and for the newer kernel,
and the write to `status` never fails there: only executions look at the switch.

`FindInterpreters` adds `run`, the one execution or `--find` under way:
`readdir` and `load` are `load_all_formats` (78-126 of `find.c`), `open` the computation
of the buffer, the opening of the file and its filling (143-170), `match` the comparison and the
detectors (183-237), `exec` the loop of `run-detectors.c` (79-117).  Executions
take place between commands, in whatever state these left.  `Readable` are the
files that can be opened; on another one (a file that may be executed only, or
for `--find` one that is not there) the search ends with status 2.  An offset
below zero, which only `--import` lets pass, makes the size wrap, and `xzalloc`
ends the program with status 1 (`Wraps`); when the sum of such an offset and the magic's size
is not negative, the code reads before its buffer, and what it finds there is
unspecified (`run.buf` outside its domain; no instance has such an offset).  A detector is a
set of files it accepts; `execvp` works for the interpreters in `Executable`.
`Chosen` is the loop that passes over a list and appends what it takes to
another; `DetectorsFirst` does it twice.

Its properties speak of an execution that is over and a kernel that has what the
database says (`InStep`): nobody has registered or removed an entry by hand or
failed to, and every entry is one the kernel accepts (`Accepted`: escapes that
are whole, a mask as long as the magic, an offset that is a number).
`FindAgrees`, `DetectorHeard` and `TriesAll` leave out two kinds of descriptions,
on which the two searches differ (`Usual`; see the divergences below): masks
that begin with a zero byte, which `ZeroMask` is about, and extensions that
have a mask or an escape.

`CommandLine`: `getopt` is `struct _getopt_data` (the permuted array, `optind` and
the borders of the part passed over), `next` is `state->next`, `options` whether
argp still asks getopt, `set` what `parse_opt` has stored.  A word of the command line is its number
of dashes, its text and what follows `=`.  The
second half of the module, `Read` and `Meaning`, is written from the manual
page's description: a reader who goes through the line once, from left to right.

`HashTable`: `table` is `struct hash_table`, each bucket the sequence of its head
and its overflow entries; `nodes` counts entries got from `malloc`.  An insertion
into a table that is not crowded goes from `ready` to `insert` and back.  One that makes the table grow first
moves the entries one by one (`pc = "transfer"`) to `storage`, the larger table; when
`malloc` fails on the way, `storage` holds what has to come back, overflow first
(`undo`), then heads (`heads`), as in `hash_rehash`.  `at` is the bucket
`transfer_entries` has come to, `new` the entry to insert with the bucket
`hash_find_entry` found for it.  Memory may fail at any allocation.  `walk` is a
`HASH_FOR_EACH` (60-61) under way: the entry it is at, what was there when it
began (`stay`), how often it has passed each key (`seen`).

### What is abstracted

* Reading a file (`load_format`) is one step; so is the `unlink` with the
  `fopen` at the start of `binfmt_write`, and a file that is unlinked between
  `is_file` and `fopen` is not modelled.
* `load_all_formats` (333-347: a `stat`, an `open` and a read per file) is one
  step with the rest of `EnableScan` or `LoadAll`, so a pass over the directory sees it as it is
  at one moment.  In `InstallLoad` the `is_file` of 557 and in `RemoveLoad` that of 622 are one step with
  the `load_format` (531, 631).  Nobody else writes that file in between under `Exclusive`.
* The switch of a machine that has booted is off, as in the emulator
  (`binfmt_misc.py` 43; Linux starts with it on): every enabling writes to it first.
* A partial write leaves no lines or the mandatory six.
* `mv`, the second attempt of `rename_mv`, is part of the rename, which
  succeeds or fails.
* The kernel refuses a registration without magic or interpreter and a name it
  has; its other reasons are the fault `register`.
* Keys inserted into the table while a loop walks it may or may not be
  visited.  `HashTable` says when: always passed once, unless the table grows
  under the walk.  Then it may pass entries twice or miss some, which
  `hash.c` 282-283 forbids its callers to risk; that takes more than 18 formats
  and one installed by another invocation during `--enable`, and is not modelled.
* `type` is magic or extension on the command line (parse_opt); an import file
  may leave it out, and the instances use no other value.
* `EntriesSurviveUmount` tells Linux, where registered formats outlive the
  mount, from the test suite's emulator.
* `BinfmtMisc` orders formats by registration; executions see the newest that
  matches.
* The tuning of the hash table, 0.8 and 1.414, are fractions; floats round the
  same way for all sizes that occur.
* Abbreviated long options match by a table of beginnings (`Begins`).

## Refinements

`ImplementsRegistry` (`RegistryRefinement`, runs `Failures` and `Imports`): under
`formats <- [n |-> Loaded(n)]` and `enabled <-` the entries update-binfmts made,
every behaviour of `UpdateBinfmts` with one caller at a time is one of
`Registry!Spec`, whatever fails, is killed or restarts.  `rename`, `unlink` and
the writes to `register` and to an entry are the visible steps, the rest
stutters.  So a description appears, changes within its package and goes in
one step, whole, and only while the kernel does not have the format.
`RegistryImplemented` proves it.

`ImplementsMap` (`HashTable`): lookups in the table are `KeyValue!map`, insertions,
failures for want of memory and deletions are its steps; growing, and going back,
are invisible.  `TableImplementsMap` proves it.

## Runs

| Run (module) | Instance | Distinct states | Shows |
|---|---|---|---|
| `Serial` (`MCUpdateBinfmts`) | 1 process at a time, formats a and b with one kernel specification, three descriptions (plain, with detector, another package's), install, remove, enable, disable with and without name; kill, reboot, failed mount, unmount, registration, rename | 1,247,675 | `TypeOK`; no entry without a file (`NoOrphan`); no entry tried earlier bypasses run-detectors (`NoShadowedDetector`); a format changes hands only by being removed (`OwnershipPreserved`); status 0 means done (`SuccessMeansDone`) |
| `Failures` (`MCUpdateBinfmts`) | 1 process, one format, all commands, with and without `--test`, all faults, entries die with the mount, descriptions with flags, a newline, a blank at the end, and a refused combination | 64,889 | `DatabaseIntegrity`, `NoOrphan`, `SuccessMeansDone` and `ImplementsRegistry` under every fault; `--test` changes nothing (`TestInert`) |
| `Imports` (`MCUpdateBinfmts`) | 1 process, imports of two formats and a reserved name, nine files: good, empty, without package, with a value missing, a repeated key | 57,502 | `LocalPreserved`, `OwnershipPreserved`, `NoShadowedDetector`, `ImplementsRegistry` |
| `Concurrent` (`MCUpdateBinfmts`) | 2 processes interleaved at every step, each writing its own format, the first also removing it, the second enabling and disabling all; the kernel may ignore removals | 246,325 | `DatabaseIntegrity`; every command ends (`Terminates`) |
| `Loading` (`MCLoading`) | 3 interchangeable processes, two calls each, both kinds of kernels, reading `/proc/filesystems`, every program and the write to `status` may fail, somebody writes 0 to status | 2,826,455 | yes means `register` is there, and the facility on unless the write failed (`YesMeansReady`); no without a failure means a race (`NoMeansRace`); unloaded means gone (`UnloadMeansGone`); each unless others undid or redid it meanwhile |
| `Find` (`MCFindInterpreters`) | two formats, six specifications (magic, extension, mask that ends in zero, offset; detectors that accept some or no files; an interpreter that cannot be executed), four files, of which one may be executed but not read, install, import (with an offset below zero), enable and disable before each execution or search; admindir unreadable | 461,471 | the buffer is large enough (`InBuffer`); `--find` agrees with the kernel and the detectors, and fails only on a file it cannot open (`FindAgrees`); of a file that can be read a detector's format is heard first, whichever entry the kernel met (`DetectorHeard`); no executable candidate of it is given up (`TriesAll`) |
| `Inputs` (`MCInputs`) | lines of three of 25 pieces and of five of seven for update-binfmts, of three of eight for run-detectors, with and without `POSIXLY_CORRECT`; texts of six of seven characters | 510,446 | what is parsed is what the line says (`MeansTheSame`); nothing is skipped or read twice (`LeftInOrder`); what the kernel accepts is expanded alike (`ExpandsAlike`) |
| `HashTable` (`MCHashTable`) | tables of 5 buckets growing to 7, in memory that holds 11; seven keys, three hash functions (spread, half and wholly colliding after growth); memory fails at any allocation; walks | 127,014 | counts and chains consistent, also half way through a move (`hash_table_ok`), no leak (`NothingLeaks`), never aborts (`NoAbort`), sizes prime and thresholds right (`SizesAreRight`), `ImplementsMap`, `WalkPassesAll` |

Two formats are enough: the properties speak of one format or of a pair, and
every interaction of more is a scan that meets one of them.  `Serial` needs two
because `NoShadowedDetector` and `worked` do.  Two processes are enough for
`Concurrent`, whose hazard is between two writers (with fairness the instance is too
large for kills beside a second writer; `Failures` kills one, and the theorem
`FilesWhole` covers any number), and three for `Loading`, one
whose answer is at stake, one that undoes and one that redoes; the theorems
cover any number.  Each invocation starts from the state its predecessors left,
so a run contains all sequences of commands, of any length.  Five pieces of a
command line are enough for getopt to swap two blocks around a third.  An
escape is four characters: six leave room for half of another.  Growing from
five buckets to seven happens in one insertion, with hash functions under which
the larger table needs more overflow entries than the smaller one gave back,
so that memory can run out at each of them.  The table's smallest size is 4
instead of 10 there.

Deadlock is checked except where the system really stops: in `Inputs`, when the
line is read, and in `Loading`, when the calls have been made.

### Findings

Four runs end with a counterexample.  Each states a sentence of a document or a
comment (`PROJECT.json` quotes it):

| Run | What the code does |
|---|---|
| `Upgrade` | `act_install` puts the old description into the table (531), `kvhash_insert` (606) keeps it, `act_enable` registers it: after an upgrade the kernel has the version that was replaced, until the next disable and enable |
| `Leftover` | `name.tmp`, left by an installation that was killed or whose rename failed, is taken for a format |
| `TwoInstallers` | two installations of one specification at a time: the plain one scans (401) before the one with the detector has its file in place and registers (441) after it, so the kernel meets the plain one's own interpreter first; `NoShadowedDetector` holds with one caller at a time |
| `ZeroMask` | `find_interpreters` takes a mask that begins with `\x00` for none (`find.c` 196) and does not find the format the kernel found |

`UpgradeTakesEffect` is why `SuccessMeansDone` promises of an installation only
that the file is the new one and the kernel has an entry.

The model has these divergences too, without a run of their own; the properties
above are stated around them:

* `act_enable` returns success when `binfmt_misc` cannot be loaded (356); the
  manual page (267-268) says the exit status tells.
* An import over another package's format reports success and replaces nothing
  (729; comment at 711-714).
* `--extension` with `--mask`: `binfmt_new` (`format.c` 140-147) returns a null
  pointer, which `main` (1143) passes on.  `Failures` contains it as the end `"segv"`.
* When `status` cannot be opened, `load_binfmt_misc` warns and says yes (267), and
  formats are registered that are not used.
* Extensions are expanded like magics (`find.c` 115), which the manual page
  (223-224) and the kernel do not do.
* A magic that ends in zero bytes matches a shorter file in `find_interpreters` (`find.c`
  165), as the kernel does with its own zeroed buffer; the comment at 166-168
  says it fails.
* Magics that overlap without being equal bypass each other's detectors (403;
  manual page 187-189), as do two spellings of one magic (`format.c` 218;
  comment at 395-397).
* `run-detectors` passes the arguments of the kernel's entry to the interpreter
  it chooses, whose `--preserve` may differ (`run-detectors.c` 107; manual
  page 236-240).

### Fairness

`FairSpec`, under which `Concurrent` runs, adds weak fairness of `Step(p)` for every process: one that has
started is scheduled, and no call blocks (the code waits for nothing but the
`modprobe`, `mount` and `umount` it runs).  Starting a command is not fair:
nobody has to.  Faults are not fair.

## Theorems

`TypeCorrect == Spec => []TypeOK` (`UpdateBinfmtsProofs`).  The types of a
process are not inductive: that the open file has a name needs that the format
in work has one, which depends on `pc` and `mode`.  `Control(p, q)` says which
format a process may have at each place and what its `todo` may contain;
`Inv == TypeOK /\ \A p : Control(p, proc[p])` is inductive.  Its lemmas follow
the code: one for each return (`ReturnSound`, `DisabledSound`), one for each
step.  Before them stand those about files and descriptions: what
`binfmt_new` builds, `binfmt_write` writes and `binfmt_load` reads.

`FilesWhole == ASSUME Exclusive PROVE Spec => []DatabaseIntegrity`
(`StepProofs`).  `IntegrityInv` adds that a process that fills a file has
the temporary file of its format open, that the temporary file of a process
about to rename, if there is one, is complete, and that serial callers are
alone.  Two processes with files open have different formats, hence different
temporary files (`OwnFormat`), so a step of one leaves the other's alone
(`OthersSound`).  All steps that leave the directory alone are dealt with at
once (`Undisturbing`).

The second half of `StepProofs` says of every action where it goes: to a label with a table, a name
and a `todo` (`Goes`), or back to the loop or to `main` (`Left`), one lemma per
action (`ScanAfter`, `RenameAfter`, ...), which the four theories below
share.  The first is `TestChangesNothing == Spec => TestInert`: with `--test` an
invocation does not reach the labels where the kernel or a file is written
(`Dry`), except `register` and `unlink`, which look at `test` themselves.

`OwnersKept` and `LocalsKept` (the end of `StepProofs`) prove `OwnershipPreserved` and
`LocalPreserved` under `Exclusive`.  `act_install` compares packages once, with
its table, and replaces the file five steps later.  `Ownership(p, q)` says what
stays true in between: the table holds for the format what the file says or
nothing where there is none (`Agrees`); from the check to the rename the new description has the package
of the installed one (`Replaces`); what is in the temporary file is what
`binfmt_write` makes of it (`Written`); an import that has come to `act_install`
has found no format of the administrator's.  That what is read back from the file is what was written
is a lemma about `Format` (`WriteLoad`): the package keeps its name because it
ends in no white space.  A step of another invocation touches two files, of
which neither is ours (`OthersOwned`).

`KernelHasNoOrphan` and `RegistryImplemented` (`RegistryProofs`) prove
`NoOrphan` and the refinement.  `RegistryInv` adds four facts about the caller
whose turn it is: what its table holds is a file (`TableFiles`); from the check
in `act_disable` to the rename or the `unlink` the kernel does not have the
format (`Cleared`); a place belongs to a mode (`Turns`); and the loop of
`--disable` still has to visit every entry that survives an unmount (`Swept`).
`NextKernel` and `NextFiles` are the two halves of the refinement: what a step does to
the kernel's formats and to the files.  They need one caller at a time
(`Serial`; nothing is locked, and an entry can be registered for a file that
has just been removed, 383-441) and `Heard`: where entries outlive an unmount,
the kernel obeys when an entry is told to go.  Without it `NoOrphan` is false, as TLC
shows: `--disable` ignores that an entry would not go, unmounts (522), and the
`--remove` that follows sees no entry and takes the file.

`DetectorsHeard` (`RegistryProofs`) proves `NoShadowedDetector` under the same
hypotheses and `TypesKnown`.  A line is safe to write when the scan has found
every format with a detector that the kernel has for the same specification
(`LineReady`).  It finds them if its table holds, of what the kernel has, what the
file says or what was registered (`Known`: `load_all_formats` keeps an entry
that it finds in the table), and if `binfmt_equals` agrees with the
kernel about what is the same (`SameSpecEquals`).  The latter needs that every
description has one of the two types, in the files, in the tables and in what
is about to be written (`FilesTyped`, `TableTyped`): `binfmt_new` does not look at the type an import
file gives, so an import with a type of its own would be registered as an
extension and compare different from one.  `TypesKnown` says that import files
have no such type; the manual page's FORMAT FILES section knows no `type` at all.

`SuccessHolds == ASSUME Serial, Heard PROVE Spec => SuccessMeansDone`
(`RegistryProofs`): exit status 0 of a command that was really run means that it
was carried out.  The property is about the last step of a command, and what it
promises was done long before, so `SuccessInv` carries it through the places in
between.  `Placed` says where each command can be.  `Mounted`: act_enable is
past the mount only when `binfmt_misc` is mounted.  `Landed`: from the rename on
the file is what `binfmt_write` makes of the argument.  `Visited`: while the
loop's `worked` holds, a file is still in `todo`, in work, or as it should be in
the kernel.  The lemmas `...Done` say of every step what it
returns or where it goes, with the kernel and the files as they are then;
`EnableRight`, `DisableRight`, `InstallRight`, `RemoveRight` and `LoopRight` give
the promise and the invariant from them.  Without `Serial` another invocation
can undo the work before the exit.  Without `Heard` a `--disable` can leave an
entry that the next `--remove` does not see; after a mount the kernel has an entry
without a file, against `NoOrphan`, on which the invariant stands, and one more
`--remove` finds no file and returns 0 with the entry there.  Imports and
`--test` are outside the property: imports ignore what `act_install` returns.

`LoadingTypeCorrect`, `YesIsReady`, `NoIsRace` and `UnloadIsGone`
(`LoadingProofs`): the three promises of `Loading` for any number of invocations
and calls, both kinds of kernels and any faults, a `status` that cannot be written among them.  None is inductive: an answer
depends on what an earlier look saw.  `Knows(p)` is what a call knows at each
place unless others undid it (after the second look at the style, the
directory is there; before the last look at `register`, the file system was
mounted by us or by somebody); `KernelSane` is that a loaded module or a
mounted file system has the directory.  `LoadingInv` joins them; its lemmas are
one per step, and `OnlyMine` deals with a step that changes nothing but
one call.

`SameExpansion` (`DataProofs`): `expand_hex(s) = parse_arg(s)` for every text `s`
that the kernel does not refuse.  The one is a loop that takes a character or
an escape and goes on; the other says which places of the text begin a byte
and counts them.  `RestAgrees(s, t, i)` says that `t`, what the loop makes of the
rest of the text from `i` on, is the bytes that begin there, in their order.  If it
failed somewhere it would fail at a last place (`Least`, from the library's
well-founded sets), but from the place after a byte it carries over to the byte
(`AgreesBefore`).  In the same way the module shows what type the loops return
(`ExpandType`, `AtoiType`) and that a list has a largest element (`Largest`).

`RunTypeCorrect`, `ReadsInBuffer`, `FindAgreesAlways` and `TriesAllAlways`
(`FindProofs`) prove `RunTypeOK`, `InBuffer`, `FindAgrees` and `TriesAll` of
`RunSpec`, without further hypotheses.  `FindInv` joins the invariant of
`UpdateBinfmts` and five facts about the execution under way.  `Reading`: the list
holds, as a set, the descriptions of the names that have been read.  `Buffered`: the buffer
reaches as far as every magic in the list and holds the file's bytes, then
zeros.  `Chose`: the entry the kernel took matches and no entry that matches
comes before it.  `Trying`: what is left to execute is part of the answer, and what
is not left could not be executed.  `Finished`: what the end says of the
answer, and that a file that cannot be opened has none.  The kernel's entries and the list are related by `SameMatch`: a
description matches in the buffer what its entry matches in the file.  It
rests on `SameExpansion`, on the buffer's length and on `Usual`.  An update
between executions keeps the facts because it forgets the last execution.

`DetectorHeardAlways` proves `DetectorHeard` under the hypotheses of
`DetectorsHeard`.  `HeardInv` adds to `FindInv` that of any two registered entries one
comes before the other (`Ranked`), and `DetectorInv`.  If a format of the
chosen specification has a detector that says yes, the kernel's choice is
its entry, or comes before it and by `NoShadowedDetector` leads to
`run-detectors` as well.  `run-detectors` finds the format (`SameMatch`) and tries
those with detectors first (`InOrder`), so it ends with one of them, unless
none can be executed; all that for a file it can open.

`CLTypeCorrect`, `MeansTheSameAlways` and `LeftInOrderAlways`
(`CommandLineProofs`) prove `CLTypeOK`, `MeansTheSame` and `LeftInOrder` for
command lines of any length, with any sets of words, abbreviations and reserved
names.  `CLInv` relates the state of argp to a reader who goes through the line
once.  Between two options (`Between`) the arguments passed over lie from `first`
to `last` in the order the reader laid them aside, and everything from
`next` on is as it was given (`Held`).  Behind an option (`Took`) the reader has
done what `parse_opt` is going to do.  At the end (`Over`) he has read the whole
line.  `Round` says that a round of getopt's loop in `exchange` brings the array
nearer to `Turned`, the two parts one after the other in the other order, and
`SwapTurns` that the loop ends there: every round shortens what is left.
`Advances` says what the part of getopt before the options does with the
state between two options, `GetoptIs` what one call returns, and `ParseOptIs` what
`parse_opt` makes of that, with a lemma for each kind of option: where it moves
`state->next`, the reader takes the same arguments (`WantingTakes`).
`CLInvNext` puts the pieces together again for each of the four actions.  Once the
end of a line is clear, what follows does not change it (`ReadsNoMore`): this is
why the program may stop where it does.

`ExpandsAlikeAlways` proves `ExpandsAlike` of the texts `MCInputs` types, of any
length, from `SameExpansion`.

`TableAlwaysOk`, `NeverLeaks` and `NeverAborts` (`HashProofs`): the three
invariants of `HashTable` for any keys, hash functions and sizes and
memory that fails anywhere.  `HashInv` joins them with what they need: every
entry is in the chain of its hash (`Chains`), in one of two tables without a
common key (`Apart`); the entry to insert is in neither, and its bucket is the one of the table as
it is now (`Pending`); the buckets `transfer_entries` has passed are empty, or
hold one head on the way back (`Passed`).  That the way back needs no
memory (`BackWithoutMemory`) is what the comment in `hash_rehash` claims.  The old
table with everything in it needs an overflow entry for every entry but one
per bucket it uses (`Homes`); `Enough` says that so many have been allocated.  It
holds when the move begins, because then they are in use, and no step frees one.
In the last pass back all overflow is back, what is left are heads, and a head that finds
its bucket taken finds one of these entries on the free list (`NothingLeaks`
says that what is in no chain is there).

`TableImplementsMap` proves `ImplementsMap`: a step leaves the set of all
entries, adds the new one or removes those of a key (`StepIs`), and a lookup by the chains gives what
that set says (`FoundIs`).

`WalksPassAll` proves `WalkPassesAll`.  The places of a table are ordered by bucket
and by place in it (`Precedes`).  `WalkTracked` says of a walk that nothing has
disturbed: what precedes its place has been passed if it was there at the start,
what follows has not been.  An insertion puts its entry behind a head and moves the rest of
that chain on by one (`Shifted`), so the order of all others is kept.

All hold for any sets of names, texts and processes, any inputs and all
faults, from the named assumptions of the modules: `name.tmp` is not itself the
name of a format and differs for different names, `rtrim` is a projection,
`NULL` is no description, `main` always passes a package and a type, import
files have no newline within a line, the null pointer is no line for
`register`, a text is determined by its characters and the empty one has none,
a hash function gives numbers below the number of buckets, a command line is a
sequence, whose long options are texts that `Begins` knows and whose short ones
have no value.  `MCInputs` assumes that a character is a byte.
`SizesAssumption` says that `compute_bucket_size` finds a size whenever it is
called; TLC checks that for tables of up to 100 buckets (`MoreSizesAssumption`), in general it is
Bertrand's postulate, which the library does not have.
Each invariant was an invariant of TLC's runs before its proof, except `CLInv`, whose
quantifiers range over all arrays; TLC checks the three invariants it implies.

Only model-checked:

* `Terminates`, which rests on fairness.
* `SizesAreRight`: it evaluates `compute_bucket_size` three times on the sizes an
  instance starts from.

## Not modelled

* Vendored code that formats text or stands in for another system's C library
  (`vasnprintf.c`, `argp-help.c`, the `*.in.h` headers, ...): about nine tenths of
  the lines of the repository.  It has no state that outlives a call, and
  the programs use a `printf` and a `getopt` of their system when it has them.
  A model of it would say what C's library says.
* What `update-binfmts` never calls of `hash.c`: clearing, `hash_do_for_each`,
  `hash_get_entries`, the statistics, tuning, tables that shrink; and of argp:
  children, groups of options, aliases, help.
* Printing (`binfmt_print`, messages), the exact words of errors.
* `fsync` and the order in which a file system writes to disk: `binfmt_write`
  closes the file without `fsync` (`format.c` 194), and what is on disk after a
  power failure is the file system's business.
* Executions beside a running `update-binfmts`: the product is too large for TLC, and
  `find_interpreters` promises nothing then (a file that is gone between
  `readdir` and `fopen` ends it with status 2).
* Conditions and messages of the boot scripts.

## Plan

Walks beside a table that grows.
