----------------------------- MODULE MCTaskRequests -----------------------------
(***************************************************************************)
(* TaskRequests for one family: the rewards a parent submits are one that  *)
(* pays one currency, one that pays both, and one with a negative amount,  *)
(* which createTemplate and updateTemplate refuse.                         *)
(***************************************************************************)
EXTENDS TaskRequests, TLC

MCRewards ==
  {[XP |-> 1, COINS |-> 0], [XP |-> 1, COINS |-> 2], [XP |-> 1, COINS |-> -1]}
MCOneReward == {[XP |-> 1, COINS |-> 2]}

(* Connections are interchangeable; so are the two parents.  Only used where *)
(* no liveness property is checked.                                          *)
MCSymmetry == Permutations(Conns) \cup Permutations(Parents)

=============================================================================
