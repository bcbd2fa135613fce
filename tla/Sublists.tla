------------------------------- MODULE Sublists -------------------------------
(* Filtering a sequence, written as a recursive function so that its          *)
(* properties can be proved (TunProofs).                                      *)
EXTENDS Naturals, Sequences

(* The elements of p that are in S, in the order they have in p.              *)
Only(p, S) ==
    LET kept[i \in 0..Len(p)] ==
            IF i = 0 THEN <<>>
            ELSE IF p[i] \in S THEN Append(kept[i - 1], p[i]) ELSE kept[i - 1]
    IN  kept[Len(p)]
===============================================================================
