------------------------------- MODULE Filters -------------------------------
(***************************************************************************)
(* The elements of a sequence that belong to a set, in their order, and    *)
(* the sum of a sequence of numbers.                                       *)
(***************************************************************************)
EXTENDS Naturals, Sequences, Functions

Only(s, S) ==
  LET kept[n \in 0..Len(s)] ==
        IF n = 0 THEN <<>>
        ELSE IF s[n] \in S THEN Append(kept[n - 1], s[n]) ELSE kept[n - 1]
  IN  kept[Len(s)]

Without(s, x) == Only(s, Range(s) \ {x})

SumSeq(w) ==
  LET sum[n \in 0..Len(w)] == IF n = 0 THEN 0 ELSE sum[n - 1] + w[n]
  IN  sum[Len(w)]

=============================================================================
