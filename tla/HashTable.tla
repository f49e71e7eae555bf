----------------------------- MODULE HashTable -----------------------------
(***************************************************************************)
(* The table behind kvhash.c: gnulib's hash.c with its default tuning, as  *)
(* update-binfmts uses it.  An array of buckets, each a head and a chain   *)
(* of overflow entries; entries that chains no longer need wait on a free  *)
(* list; an insertion into a crowded table first moves everything into a   *)
(* larger one, and back when memory runs out half way.  A walk             *)
(* (HASH_FOR_EACH) may be under way while act_enable inserts.              *)
(***************************************************************************)
EXTENDS Integers, FiniteSets, Sequences, SequencesExt

CONSTANTS
    Keys, Values, NULL,
    First,        \* the keys inserted before all others
    Inserted,     \* the pairs of a key and a value that are inserted
    Deleted,      \* the keys that are deleted
    Hashers,      \* the hash functions: hasher[n][k] is in 0 .. n - 1
    Candidate,    \* what kvhash_initialize is called with (16, 10 or 8)
    Smallest,     \* next_prime skips the primes below it (10)
    MaxSize       \* the number of buckets memory can hold

ASSUME TableAssumption ==
    /\ NULL \notin Values /\ NULL \notin Keys
    /\ Inserted \subseteq Keys \X Values /\ Deleted \subseteq Keys
    /\ Candidate \in Nat /\ Smallest \in Nat /\ MaxSize \in Nat
    /\ \A h \in Hashers :
          /\ h \in [1 .. MaxSize -> [Keys -> Nat]]
          /\ \A n \in 1 .. MaxSize : \A k \in Keys : h[n][k] < n

VARIABLES
    hasher,       \* the hash function, fixed
    table,        \* struct hash_table
    storage,      \* the larger one entries are moved to or back from
    pc,           \* where an insertion is
    at,           \* the bucket transfer_entries has come to
    new,          \* the entry that is inserted, and the bucket found for it
    nodes,        \* overflow entries got from malloc and not given back
    result,       \* what the last operation returned
    aborted,      \* the program called abort
    walk          \* the walk under way

vars == <<hasher, table, storage, pc, at, new, nodes, result, aborted, walk>>

Entries == [key : Keys, value : Values]

----------------------------------------------------------------------------
(***************************************************************************)
(* Sizes.  The tuning's 0.8 and 1.414 are fractions here; floats round the *)
(* same way for every size below 2^20.  Between a number and its double    *)
(* there is a prime, so a size is never wanting.                           *)
(***************************************************************************)

\* The loop over odd divisors ends at the first that divides the candidate
\* or whose square reaches it.
is_prime(c) ==
    LET odd  == {2 * i + 1 : i \in 1 .. c}
        last == CHOOSE d \in odd :
                   /\ d * d >= c \/ c % d = 0
                   /\ \A e \in odd : e < d => e * e < c /\ c % e # 0
    IN  c % last # 0

next_prime(candidate) ==
    LET c   == IF candidate < Smallest THEN Smallest ELSE candidate
        odd == IF c % 2 = 0 THEN c + 1 ELSE c
        up  == {odd + 2 * i : i \in 0 .. odd}
    IN  CHOOSE p \in up : is_prime(p) /\ \A r \in up : r < p => ~is_prime(r)

\* Mutant: the threshold is forgotten.
SizeAsGiven(candidate) == next_prime(candidate)

compute_bucket_size(candidate) == next_prime((candidate * 5) \div 4)

\* n_buckets_used > growth_threshold * n_buckets
Crowded(used, n) == 5 * used > 4 * n

\* The candidate of the next size: * growth_factor * growth_threshold.
Larger(n) == (n * 11312) \div 10000

ASSUME SizesAssumption ==
    /\ compute_bucket_size(Candidate) \in 1 .. MaxSize
    /\ \A n \in 1 .. MaxSize : compute_bucket_size(Larger(n)) \in Nat \ {0}

EmptyBuckets(n) == [i \in 0 .. n - 1 |-> <<>>]

----------------------------------------------------------------------------
(***************************************************************************)
(* Looking up.  A bucket is the sequence of its head and its overflow.     *)
(***************************************************************************)
safe_hasher(t, k) == hasher[t.n_buckets][k]

Bucket(t, k) == t.bucket[safe_hasher(t, k)]

\* Where the bucket of a key has it first (0: nowhere).
Place(t, k) ==
    LET at_k == {j \in DOMAIN Bucket(t, k) : Bucket(t, k)[j].key = k}
    IN  IF at_k = {} THEN 0 ELSE CHOOSE j \in at_k : \A i \in at_k : j <= i

hash_lookup(t, k) ==
    IF Place(t, k) = 0 THEN NULL ELSE Bucket(t, k)[Place(t, k)].value

Stored(t) == {k \in Keys : hash_lookup(t, k) # NULL}

\* The overflow grows right after the head.
Chained(bucket, e) == InsertAt(bucket, 2, e)

----------------------------------------------------------------------------
(***************************************************************************)
(* Inserting.  An insertion into a crowded table first makes another, then *)
(* moves the entries to it, the overflow of a bucket before its head; when *)
(* memory runs out they go back, first all overflow ("undo"), then the     *)
(* heads ("heads").  One list of free entries goes with the table that is  *)
(* being filled.                                                           *)
(***************************************************************************)
NoTable == [bucket |-> EmptyBuckets(0), n_buckets |-> 0, n_buckets_used |-> 0,
            n_entries |-> 0, free |-> 0]

NoWalk == [at |-> NULL, stay |-> {}, seen |-> [k \in Keys |-> 0],
           moved |-> FALSE]

Walking == walk.at # NULL

Ready == pc = "ready" /\ ~aborted

Init ==
    /\ hasher \in Hashers
    /\ LET n == compute_bucket_size(Candidate) IN
       table = [bucket |-> EmptyBuckets(n), n_buckets |-> n,
                n_buckets_used |-> 0, n_entries |-> 0, free |-> 0]
    /\ storage = NoTable
    /\ pc = "ready" /\ at = 0 /\ new = NULL
    /\ nodes = 0
    /\ result = NULL
    /\ aborted = FALSE
    /\ walk = NoWalk

\* The operation is over and returns v.
Return(v) == pc' = "ready" /\ new' = NULL /\ result' = v

Growing == Crowded(table.n_buckets_used, table.n_buckets)

\* hash_insert_if_absent of an entry that is not there.
Absent(k, v) ==
    LET e    == [key |-> k, value |-> v, bucket |-> safe_hasher(table, k)]
        size == compute_bucket_size(Larger(table.n_buckets))
    IN
    \/ ~Growing /\ pc' = "insert" /\ new' = e /\ UNCHANGED <<storage, at, result>>
    \/ /\ Growing /\ size <= MaxSize
       /\ pc' = IF size = table.n_buckets THEN "insert" ELSE "transfer"
       /\ storage' = IF size = table.n_buckets THEN NoTable
                     ELSE [bucket |-> EmptyBuckets(size), n_buckets |-> size,
                           n_buckets_used |-> 0, n_entries |-> 0,
                           free |-> table.free]
       /\ at' = 0 /\ new' = e /\ UNCHANGED result
    \* No memory for the buckets, or no such size.
    \/ Growing /\ Return(NULL) /\ UNCHANGED <<storage, at>>

kvhash_insert(k, v) ==
    /\ Ready
    /\ k \in First \/ First \subseteq Stored(table)
    /\ \/ /\ hash_lookup(table, k) # NULL
          /\ Return(hash_lookup(table, k))
          /\ UNCHANGED <<storage, at, walk>>
       \/ /\ hash_lookup(table, k) = NULL
          /\ Absent(k, v)
          /\ walk' = IF Walking /\ Growing
                     THEN [NoWalk EXCEPT !.at = walk.at, !.moved = TRUE]
                     ELSE walk
    /\ UNCHANGED <<hasher, table, nodes, aborted>>

\* transfer_entries: a step for every entry.
Moving == pc \in {"transfer", "undo", "heads"} /\ ~aborted

Dst == IF pc = "transfer" THEN storage ELSE table
Src == IF pc = "transfer" THEN table ELSE storage

Become(dst, src) ==
    IF pc = "transfer" THEN storage' = dst /\ table' = src
    ELSE table' = dst /\ storage' = src

\* An overflow entry is relinked, or becomes a head and is free.
MoveOverflow ==
    /\ Moving /\ at < Src.n_buckets /\ Len(Src.bucket[at]) > 1
    /\ LET e    == Src.bucket[at][2]
           d    == safe_hasher(Dst, e.key)
           left == [Src EXCEPT !.bucket[at] = RemoveAt(@, 2)]
       IN \/ /\ Dst.bucket[d] # <<>>
             /\ Become([Dst EXCEPT !.bucket[d] = Chained(@, e)], left)
          \/ /\ Dst.bucket[d] = <<>>
             /\ Become([Dst EXCEPT !.bucket[d] = <<e>>, !.free = @ + 1,
                                   !.n_buckets_used = @ + 1], left)
    /\ UNCHANGED <<hasher, pc, at, new, nodes, result, aborted, walk>>

\* A head becomes a head, or needs an entry: a free one, or a new one.
MoveHead ==
    /\ Moving /\ pc # "undo" /\ at < Src.n_buckets /\ Len(Src.bucket[at]) = 1
    /\ LET e    == Src.bucket[at][1]
           d    == safe_hasher(Dst, e.key)
           left == [Src EXCEPT !.bucket[at] = <<>>, !.n_buckets_used = @ - 1]
       IN \/ /\ Dst.bucket[d] = <<>>
             /\ Become([Dst EXCEPT !.bucket[d] = <<e>>,
                                   !.n_buckets_used = @ + 1], left)
             /\ UNCHANGED nodes
          \/ /\ Dst.bucket[d] # <<>> /\ Dst.free > 0
             /\ Become([Dst EXCEPT !.bucket[d] = Chained(@, e),
                                   !.free = @ - 1], left)
             /\ UNCHANGED nodes
          \/ /\ Dst.bucket[d] # <<>> /\ Dst.free = 0
             /\ Become([Dst EXCEPT !.bucket[d] = Chained(@, e)], left)
             /\ nodes' = nodes + 1
    /\ UNCHANGED <<hasher, pc, at, new, result, aborted, walk>>

PassBucket ==
    /\ Moving /\ at < Src.n_buckets
    /\ Src.bucket[at] = <<>> \/ (pc = "undo" /\ Len(Src.bucket[at]) = 1)
    /\ at' = at + 1
    /\ UNCHANGED <<hasher, table, storage, pc, new, nodes, result, aborted, walk>>

\* Mutant: the free list as it was before the attempt.
OldFreeList(t, s) == t

\* The free list goes back with the table.
WithFreeList(t, s) == [t EXCEPT !.free = s.free]

\* Mutant: back in one pass.
HeadsToo == "heads"

FirstPass == "undo"

\* An entry is needed and there is none.  A second time is the end.
NoMemory ==
    /\ Moving /\ pc # "undo" /\ at < Src.n_buckets /\ Len(Src.bucket[at]) = 1
    /\ Dst.bucket[safe_hasher(Dst, Src.bucket[at][1].key)] # <<>>
    /\ Dst.free = 0
    /\ aborted' = (pc = "heads")
    /\ IF pc = "heads" THEN UNCHANGED <<table, pc, at>>
       ELSE table' = WithFreeList(table, storage) /\ pc' = FirstPass /\ at' = 0
    /\ UNCHANGED <<hasher, storage, new, nodes, result, walk>>

\* Mutant: the bucket that was found before the table grew.
BucketBefore(t, e) == e

\* The bucket an entry goes to is looked up again after growing.
BucketAgain(t, e) == [e EXCEPT !.bucket = safe_hasher(t, e.key)]

\* hash_rehash after a loop: the new table takes the place of the old one,
\* the second pass begins, or the old one is as it was.
Transferred ==
    /\ Moving /\ at = Src.n_buckets
    /\ \/ /\ pc = "transfer"
          /\ table' = [storage EXCEPT !.n_entries = table.n_entries]
          /\ storage' = NoTable
          /\ pc' = "insert" /\ new' = BucketAgain(storage, new)
          /\ aborted' = (hash_lookup(storage, new.key) # NULL)
          /\ UNCHANGED <<at, result>>
       \/ /\ pc = "undo"
          /\ pc' = "heads" /\ at' = 0
          /\ UNCHANGED <<table, storage, new, aborted, result>>
       \/ /\ pc = "heads"
          /\ Return(NULL) /\ storage' = NoTable
          /\ UNCHANGED <<table, at, aborted>>
    /\ UNCHANGED <<hasher, nodes, walk>>

InsertNew ==
    LET i    == new.bucket
        e    == [key |-> new.key, value |-> new.value]
        more == [table EXCEPT !.n_entries = @ + 1]
    IN
    /\ pc = "insert" /\ ~aborted
    /\ \/ /\ table.bucket[i] = <<>>
          /\ table' = [more EXCEPT !.bucket[i] = <<e>>, !.n_buckets_used = @ + 1]
          /\ Return(e.value) /\ UNCHANGED nodes
       \/ /\ table.bucket[i] # <<>> /\ table.free > 0
          /\ table' = [more EXCEPT !.bucket[i] = Chained(@, e), !.free = @ - 1]
          /\ Return(e.value) /\ UNCHANGED nodes
       \/ /\ table.bucket[i] # <<>> /\ table.free = 0
          /\ table' = [more EXCEPT !.bucket[i] = Chained(@, e)]
          /\ nodes' = nodes + 1
          /\ Return(e.value)
       \/ /\ table.bucket[i] # <<>> /\ table.free = 0
          /\ Return(NULL) /\ UNCHANGED <<table, nodes>>
    /\ UNCHANGED <<hasher, storage, at, aborted, walk>>

----------------------------------------------------------------------------
\* Mutant: a bucket that is emptied still counts as used.
KeepsUsed(t, k) ==
    LET b == RemoveAt(Bucket(t, k), Place(t, k)) IN
    [t EXCEPT !.bucket[safe_hasher(t, k)] = b,
              !.free = IF b = <<>> THEN @ ELSE @ + 1,
              !.n_entries = @ - 1]

\* The entry leaves its bucket; one overflow entry is free, if there was any.
Unlinked(t, k) ==
    LET b == RemoveAt(Bucket(t, k), Place(t, k)) IN
    [t EXCEPT !.bucket[safe_hasher(t, k)] = b,
              !.free = IF b = <<>> THEN @ ELSE @ + 1,
              !.n_buckets_used = IF b = <<>> THEN @ - 1 ELSE @,
              !.n_entries = @ - 1]

\* With the default tuning the table never shrinks.  act_remove deletes,
\* and never within a walk.
kvhash_delete(k) ==
    /\ Ready /\ ~Walking
    /\ result' = hash_lookup(table, k)
    /\ table' = IF Place(table, k) = 0 THEN table ELSE Unlinked(table, k)
    /\ UNCHANGED <<hasher, storage, pc, at, new, nodes, aborted, walk>>

----------------------------------------------------------------------------
(***************************************************************************)
(* HASH_FOR_EACH.                                                          *)
(***************************************************************************)
Heads(t, from) == {i \in from .. t.n_buckets - 1 : t.bucket[i] # <<>>}

FirstFrom(t, from) ==
    IF Heads(t, from) = {} THEN NULL
    ELSE Head(t.bucket[CHOOSE i \in Heads(t, from) :
                          \A j \in Heads(t, from) : i <= j]).key

hash_get_first ==
    /\ Ready /\ ~Walking
    /\ table.n_entries > 0 /\ First \subseteq Stored(table)
    /\ LET k == FirstFrom(table, 0) IN
       /\ aborted' = (k = NULL)
       /\ walk' = IF k = NULL THEN NoWalk
                  ELSE [NoWalk EXCEPT !.at = k, !.stay = Stored(table),
                                      !.seen[k] = 1]
    /\ UNCHANGED <<hasher, table, storage, pc, at, new, nodes, result>>

\* Mutant: the overflow is passed over.
NextHead(t, k) == FirstFrom(t, safe_hasher(t, k) + 1)

\* The next entry of the same bucket, or the next head.
After(t, k) ==
    IF Place(t, k) < Len(Bucket(t, k)) THEN Bucket(t, k)[Place(t, k) + 1].key
    ELSE FirstFrom(t, safe_hasher(t, k) + 1)

hash_get_next ==
    /\ Ready /\ Walking
    /\ LET k == After(table, walk.at) IN
       walk' = IF k = NULL THEN NoWalk
               ELSE IF walk.moved THEN [walk EXCEPT !.at = k]
               ELSE [walk EXCEPT !.at = k, !.seen[k] = @ + 1]
    /\ UNCHANGED <<hasher, table, storage, pc, at, new, nodes, result, aborted>>

Transfer == MoveOverflow \/ MoveHead \/ PassBucket \/ NoMemory \/ Transferred

Next ==
    \/ \E k \in Keys :
          \/ \E v \in Values : <<k, v>> \in Inserted /\ kvhash_insert(k, v)
          \/ k \in Deleted /\ kvhash_delete(k)
    \/ Transfer \/ InsertNew
    \/ hash_get_first
    \/ hash_get_next

Spec == Init /\ [][Next]_vars

----------------------------------------------------------------------------
(***************************************************************************)
(* Properties.                                                             *)
(***************************************************************************)

Places(t) == UNION {{i} \X DOMAIN t.bucket[i] : i \in DOMAIN t.bucket}

\* hash_table_ok: the counters agree with the buckets, of the table and, while
\* entries are moved or moved back, of the table they are moved to.
hash_table_ok ==
    /\ table.n_entries = Cardinality(Places(table)) + Cardinality(Places(storage))
    /\ \A t \in {table, storage} : t.n_buckets_used = Cardinality(Heads(t, 0))

\* Memory that runs out while the table grows never costs an overflow entry:
\* at any moment each one allocated is in a chain or on the free list.
NothingLeaks ==
    nodes = Dst.free + table.n_entries
               - table.n_buckets_used - storage.n_buckets_used

\* The program does not abort: when memory runs out half way, what has been
\* moved can be moved back without any ("The only way to get into this
\* situation is if new_table uses fewer buckets than the old table, so we
\* will reclaim some free entries").
NoAbort == ~aborted

\* What is in a table.
Contents(t) == UNION {Range(t.bucket[i]) : i \in DOMAIN t.bucket}

\* The table can be used as a map: an entry that was inserted is found
\* until it is deleted, whatever grew or failed to grow in between, and a
\* failed insertion changes nothing.
ValueOf(k) ==
    LET found == {e \in Contents(table) \cup Contents(storage) : e.key = k}
    IN  IF found = {} THEN NULL ELSE (CHOOSE e \in found : TRUE).value

Map == INSTANCE KeyValue WITH map <- [k \in Keys |-> ValueOf(k)]

ImplementsMap == Map!Spec

\* A walk passes every entry that was there at its start once, and none
\* twice, whatever is inserted beside it, unless an insertion tries to grow
\* the table.  (One that fails to is enough: what is moved and moved back
\* may change places in its bucket.)
WalkStep ==
    /\ \A k \in Keys : walk'.seen[k] <= 1
    /\ Walking /\ ~walk.moved /\ walk'.at = NULL =>
          \A k \in walk.stay : walk.seen[k] = 1

WalkPassesAll == [][WalkStep]_vars

\* The next three times the table grows: every size is a prime,
\* the nearest to what was asked for, larger than the one before, and big
\* enough for "at least CANDIDATE different user entries before any growth".
Prime(n) == \A d \in 2 .. n - 1 : n % d # 0

SizesAreRight ==
    LET size[i \in 0 .. 3] ==
            IF i = 0 THEN table.n_buckets
            ELSE compute_bucket_size(Larger(size[i-1]))
    IN  \A i \in 1 .. 3 :
            LET c == Larger(size[i-1]) IN
            /\ Prime(size[i]) /\ size[i] > size[i-1]
            /\ ~Crowded(c - 1, size[i])
            /\ \A m \in (c * 5) \div 4 .. size[i] - 1 : ~Prime(m)
=============================================================================
