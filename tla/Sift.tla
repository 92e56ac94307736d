-------------------------------- MODULE Sift --------------------------------
(***************************************************************************)
(* Taking the elements of a list that are in a set, in their order.  The   *)
(* code writes this as a loop that skips the others, or as filter; it is a *)
(* recursive function here, which can be reasoned about.                   *)
(***************************************************************************)
EXTENDS Integers, Sequences

Sifted(s, S) ==
    LET upto[n \in 0..Len(s)] ==
            IF n = 0 THEN <<>>
            ELSE IF s[n] \in S THEN Append(upto[n - 1], s[n]) ELSE upto[n - 1]
    IN  upto[Len(s)]
=============================================================================
