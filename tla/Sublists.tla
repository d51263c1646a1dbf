------------------------------ MODULE Sublists ------------------------------
(***************************************************************************)
(* Sequences taken apart by their positions.  What the pages do with       *)
(* filter, flatMap, find and sort is written with these: a proof can       *)
(* follow their recursion from left to right, which that of SelectSeq and  *)
(* the choice of a permutation in SortSeq hide.                            *)
(***************************************************************************)
EXTENDS Naturals, Sequences

Elements(s) == {s[i] : i \in DOMAIN s}

\* What s holds at the positions in I, in order.
At(s, I) ==
    LET upTo[i \in 0 .. Len(s)] ==
            IF i = 0 THEN <<>>
            ELSE IF i \in I THEN Append(upTo[i - 1], s[i]) ELSE upTo[i - 1]
    IN upTo[Len(s)]

Filter(s, Test(_)) == At(s, {i \in DOMAIN s : Test(s[i])})

Flatten(s) ==
    LET upTo[i \in 0 .. Len(s)] == IF i = 0 THEN <<>> ELSE upTo[i - 1] \o s[i]
    IN upTo[Len(s)]

\* Each element where it occurs first.
Distinct(s) == At(s, {i \in DOMAIN s : \A j \in 1 .. i - 1 : s[j] # s[i]})

\* x behind the last one of list whose key is no greater.
Inserted(list, x, key) ==
    LET before == {i \in DOMAIN list : key[list[i]] <= key[x]}
    IN At(list, before) \o <<x>> \o At(list, DOMAIN list \ before)

\* s in the order of the numbers key[x], those with the same number as they were.
SortedBy(s, key) ==
    LET upTo[i \in 0 .. Len(s)] == IF i = 0 THEN <<>> ELSE Inserted(upTo[i - 1], s[i], key)
    IN upTo[Len(s)]
=============================================================================
