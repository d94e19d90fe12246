------------------------------ MODULE Selections ------------------------------
(***************************************************************************)
(* Parts of a sequence, chosen by positions: what a comprehension with a   *)
(* condition makes of a list, and the pieces a loop cuts it into. They are *)
(* recursive functions, not SelectSeq or a fold, because the provers know  *)
(* nothing of an operator that takes an operator.                          *)
(***************************************************************************)
EXTENDS Naturals, Sequences, SequencesExt

\* The elements of s at the positions of I, in their order.
Picked(s, I) ==
  LET upTo[i \in 0..Len(s)] ==
        IF i = 0 THEN <<>> ELSE IF i \in I THEN Append(upTo[i - 1], s[i]) ELSE upTo[i - 1]
  IN  upTo[Len(s)]

\* s in consecutive pieces: an element at a position of joined goes with the one before.
Pieces(s, joined) ==
  LET upTo[i \in 0..Len(s)] ==
        IF i = 0 THEN <<>>
        ELSE IF i \in joined /\ i > 1
        THEN Append(Front(upTo[i - 1]), Append(Last(upTo[i - 1]), s[i]))
        ELSE Append(upTo[i - 1], <<s[i]>>)
  IN  upTo[Len(s)]
===============================================================================
