------------------------- MODULE SequenceSelection --------------------------
(* SelectSeq by positions, as a recursive function: the elements of a        *)
(* sequence at the positions of a set, in their order (retain and filter of  *)
(* the code).                                                                *)
EXTENDS Naturals, Sequences

Select(s, P) ==
    LET part[i \in 0..Len(s)] ==
            IF i = 0 THEN <<>>
            ELSE IF i \in P THEN Append(part[i - 1], s[i]) ELSE part[i - 1]
    IN  part[Len(s)]
=============================================================================
