-------------------------------- MODULE Loops --------------------------------
(***************************************************************************)
(* What a loop over a sequence has collected: the elements at a set of     *)
(* places, in the order of the sequence, where it skips the others; the    *)
(* sum or the product of numbers.  SelectSeq and the folds take an         *)
(* operator, which no prover here can reason about.                        *)
(***************************************************************************)
EXTENDS Integers, Sequences

IsSequence(s) == s \in Seq({s[i] : i \in DOMAIN s})

\* After the first n elements
PickedUpTo(s, places) ==
  LET upTo[n \in 0..Len(s)] ==
        IF n = 0 THEN << >>
        ELSE IF n \in places THEN Append(upTo[n - 1], s[n]) ELSE upTo[n - 1]
  IN upTo

Picked(s, places) == PickedUpTo(s, places)[Len(s)]

SumUpTo(s) ==
  LET upTo[n \in 0..Len(s)] == IF n = 0 THEN 0 ELSE upTo[n - 1] + s[n]
  IN upTo

Sum(s) == SumUpTo(s)[Len(s)]

ProductUpTo(s) ==
  LET upTo[n \in 0..Len(s)] == IF n = 0 THEN 1 ELSE upTo[n - 1] * s[n]
  IN upTo
=============================================================================
