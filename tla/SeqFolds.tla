-------------------------------- MODULE SeqFolds --------------------------------
(***************************************************************************)
(* Two recursions along a sequence that several models take.               *)
(***************************************************************************)
EXTENDS Integers, Sequences

(* The members of a sequence that are in the set "on", in their order.     *)
Those(seq, on) ==
    LET among[n \in 0..Len(seq)] ==
            IF n = 0 THEN <<>>
            ELSE IF seq[n] \in on THEN Append(among[n - 1], seq[n]) ELSE among[n - 1]
    IN  among[Len(seq)]

(* The sum of a sequence of numbers.                                       *)
SumOf(seq) ==
    LET upTo[n \in 0..Len(seq)] == IF n = 0 THEN 0 ELSE upTo[n - 1] + seq[n]
    IN  upTo[Len(seq)]
=============================================================================
