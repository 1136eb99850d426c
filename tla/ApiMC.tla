---- MODULE ApiMC ----
(* Requests are interchangeable: every property of Api is one of safety. *)
EXTENDS Api

Symmetry == Permutations(Request)

\* Ranked is Python's sorted(samples)[k], on short lists.
ASSUME RankedIsSorted ==
    \A n \in 1 .. 5 : \A list \in [1 .. n -> 0 .. 3], k \in 0 .. n - 1 :
        Ranked(list, k) = SortSeq(list, <)[k + 1]
====
