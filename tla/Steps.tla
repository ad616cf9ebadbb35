-------------------------------- MODULE Steps --------------------------------
(* Applying one step after another to a state.                             *)
EXTENDS Integers, Sequences

(* A fold from the left; the bound x has TLC evaluate each step once.      *)
Through(op(_, _), base, s) ==
    LET f[i \in 0..Len(s)] ==
            IF i = 0 THEN base ELSE CHOOSE y \in {op(x, s[i]) : x \in {f[i - 1]}} : TRUE
    IN f[Len(s)]
=============================================================================
