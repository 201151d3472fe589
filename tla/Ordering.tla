------------------------------- MODULE Ordering -------------------------------
(***************************************************************************)
(* Python's sorted() and its filtering comprehensions, as AssistantGraphs  *)
(* and ResearchContext use them.  The operators SetToSortSeq and SelectSeq *)
(* say the same; these are definitions a proof can expand.                 *)
(***************************************************************************)
EXTENDS Integers, Sequences, FiniteSets

\* sorted(S): the elements of a finite set of numbers, increasing.
Sorted(S) ==
    CHOOSE s \in [1..Cardinality(S) -> S] : \A i, j \in 1..Cardinality(S) : i < j => s[i] < s[j]

\* [x for x in seq if x in S]
Filtered(seq, S) ==
    LET chosen[n \in 0..Len(seq)] ==
          IF n = 0 THEN <<>>
          ELSE IF seq[n] \in S THEN Append(chosen[n - 1], seq[n]) ELSE chosen[n - 1]
    IN  chosen[Len(seq)]
=============================================================================
