-------------------------------- MODULE Lists --------------------------------
(***************************************************************************)
(* What the chain modules use of the community module SequencesExt, in a   *)
(* form the proofs can unfold: the fold is a recursive function.           *)
(***************************************************************************)
EXTENDS Integers, Sequences

ToSet(s) == {s[i] : i \in DOMAIN s}

Last(s) == s[Len(s)]

Reverse(s) == [i \in 1..Len(s) |-> s[Len(s) + 1 - i]]

RemoveAt(s, at) == SubSeq(s, 1, at - 1) \o SubSeq(s, at + 1, Len(s))

(* op(...op(op(base, s[1]), s[2])..., s[Len(s)]).                          *)
FoldLeft(op(_, _), base, s) ==
    LET After[i \in 0..Len(s)] == IF i = 0 THEN base ELSE op(After[i - 1], s[i])
    IN  After[Len(s)]
=============================================================================
