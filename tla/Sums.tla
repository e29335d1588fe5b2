-------------------------------- MODULE Sums --------------------------------
(***************************************************************************)
(* Sums over a sequence of numbers, as recursive functions: the provers    *)
(* expand these, while they know the folds of the community modules and    *)
(* SelectSeq by name only.                                                 *)
(***************************************************************************)
EXTENDS Integers, Sequences

Total(s) ==
    LET sum[k \in 0..Len(s)] == IF k = 0 THEN 0 ELSE sum[k - 1] + s[k]
    IN sum[Len(s)]
=============================================================================
