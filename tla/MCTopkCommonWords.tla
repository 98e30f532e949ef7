------------------------- MODULE MCTopkCommonWords -------------------------
(* Texts over three words and a stop word: without, with equal and with     *)
(* different counts, so that ties, cuts at kValue and empty results occur.  *)
EXTENDS TopkCommonWords

FewTexts ==
  LET Text(a, b, c, d) == [w \in 1 .. 4 |-> <<a, b, c, d>>[w]]
  IN {Text(0, 0, 0, 2), Text(1, 1, 1, 1), Text(3, 1, 0, 0), Text(0, 2, 3, 1), Text(2, 0, 2, 0)}
=============================================================================
