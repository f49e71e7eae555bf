---------------------------- MODULE MCHashTable ----------------------------
(***************************************************************************)
(* Tables of five buckets that grow to seven: the smallest size is 4       *)
(* instead of 10, so that an insertion into five used buckets makes the    *)
(* table grow.                                                             *)
(***************************************************************************)
EXTENDS HashTable

Letters == <<"a", "b", "c", "d", "e", "f", "g">>
MCKeys == {Letters[i] : i \in 1 .. 7}
MCValues == {"v", "w"}
MCFirst == {"c", "d", "e"}
MCDeleted == {"a"}
MCInserted == (MCKeys \X {"v"}) \cup {<<"a", "w">>}

\* A hash function: the buckets of a, b, ... in a table of 5 and of 7.
Hash(five, seven) ==
    [n \in 1 .. 11 |->
        [k \in MCKeys |->
            LET i == CHOOSE j \in 1 .. 7 : Letters[j] = k
            IN  IF n = 5 THEN five[i] ELSE IF n = 7 THEN seven[i] ELSE i % n]]

\* With 5 buckets a and f share the first, b and g the second; with 7 nothing
\* is shared, or everything is, or b, c, d and e share one, which takes
\* overflow entries that the smaller table did not need.
MCHashers == {Hash(<<0, 1, 2, 3, 4, 0, 1>>, seven) :
                 seven \in {<<0, 1, 2, 3, 4, 5, 6>>, <<1, 6, 6, 6, 6, 0, 2>>,
                           <<5, 5, 5, 5, 5, 5, 5>>}}

\* SizesAssumption for tables of up to a hundred buckets: next_prime finds a
\* prime.
ASSUME MoreSizesAssumption ==
    \A n \in 1 .. 100 : compute_bucket_size(Larger(n)) \in Nat \ {0}
=============================================================================
