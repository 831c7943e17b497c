------------------------------- MODULE Filters -------------------------------
(***************************************************************************)
(* `filter` of the code's arrays: what SelectSeq computes, written with a  *)
(* recursive function so that theorems can say what it returns.            *)
(***************************************************************************)
EXTENDS Naturals, Sequences

\* The elements of s that are in K, in their order.
Filter(s, K) ==
    LET kept[i \in 0..Len(s)] ==
            IF i = 0 THEN <<>>
            ELSE IF s[i] \in K THEN Append(kept[i - 1], s[i]) ELSE kept[i - 1]
    IN  kept[Len(s)]
=============================================================================
