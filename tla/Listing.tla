------------------------------- MODULE Listing ------------------------------
(***************************************************************************)
(* A list cut down to some of its entries, as a Python comprehension with  *)
(* a condition does.  It is SelectSeq with a set in place of the operator, *)
(* because the prover knows no operator that takes operators.              *)
(***************************************************************************)
EXTENDS Naturals, Sequences

Kept(s, T) ==
  LET kept[i \in 0 .. Len(s)] ==
        IF i = 0 THEN <<>>
        ELSE IF s[i] \in T THEN Append(kept[i - 1], s[i]) ELSE kept[i - 1]
  IN  kept[Len(s)]
=============================================================================
