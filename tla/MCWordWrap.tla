---------------------------- MODULE MCWordWrap ----------------------------
(* Two windows, three rows in two caches; a row with no text in A, one that  *)
(* B does not have, and rows that need more lines in A or in B.              *)
EXTENDS WordWrap

CONSTANTS A, B

MCWins == {A, B}
MCTextLength == A :> <<2, 0, 0>> @@ B :> <<1, 2, -1>>
=============================================================================
