------------------------------ MODULE ListParts ------------------------------
(* Parts of lists, for the modules whose proofs need more of them than the   *)
(* provers know of SelectSeq().                                              *)
EXTENDS Integers, Sequences, SequencesExt

\* The members of a sequence at the places of K, in order.
Kept(s, K) == FlattenSeq([i \in DOMAIN s |-> IF i \in K THEN <<s[i]>> ELSE <<>>])
=============================================================================
