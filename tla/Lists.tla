------------------------------ MODULE Lists ------------------------------
(***************************************************************************)
(* Python's [x for x in s if ...], by the indices that are kept, and its   *)
(* sum.  They are SelectSeq and a fold written as recursive functions,     *)
(* which the provers can reason about: they know nothing of those.         *)
(***************************************************************************)
EXTENDS Naturals, Sequences

\* What is kept of the first n elements of s, by n.
KeptUpTo(s, indices) ==
    LET kept[n \in 0 .. Len(s)] ==
            IF n = 0 THEN <<>>
            ELSE IF n \in indices THEN Append(kept[n - 1], s[n]) ELSE kept[n - 1]
    IN kept

Sublist(s, indices) == KeptUpTo(s, indices)[Len(s)]

\* What the first elements of f add up to, by their number.
SumsUpTo(f, n) ==
    LET sum[i \in 0 .. n] == IF i = 0 THEN 0 ELSE sum[i - 1] + f[i]
    IN sum

SumOf(f, n) == SumsUpTo(f, n)[n]

=============================================================================
