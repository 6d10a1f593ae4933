---------------------------- MODULE MCStateFiles ----------------------------
(***************************************************************************)
(* An instance of StateFiles for TLC: two processes, which are alike, and  *)
(* an empty watchlist and another one, to change from and back to.         *)
(***************************************************************************)
EXTENDS StateFiles, TLC

CONSTANTS p1, p2, none, some

TwoProcs == {p1, p2}
TwoLists == {none, some}

Alike == Permutations(TwoProcs)
=============================================================================
