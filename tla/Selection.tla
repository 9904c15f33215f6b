------------------------------ MODULE Selection -----------------------------
(***************************************************************************)
(* What a comprehension with a condition keeps of a sequence.              *)
(***************************************************************************)
EXTENDS Naturals, Sequences

\* The elements of a sequence at some of its places, in their order.
At(s, places) ==
  LET kept[n \in 0..Len(s)] ==
        IF n = 0 THEN <<>>
        ELSE IF n \in places THEN Append(kept[n - 1], s[n]) ELSE kept[n - 1]
  IN kept[Len(s)]
=============================================================================
