---------------------------- MODULE MCRewardRequests ----------------------------
(***************************************************************************)
(* RewardRequests for one family.  The amounts are one a child loses and   *)
(* one it gains: the sign is all the domain functions look at.             *)
(***************************************************************************)
EXTENDS RewardRequests, TLC

MCAmounts == {-1, 1}

(* Connections are interchangeable, and so are the attempts.               *)
MCSymmetry == Permutations(Conns) \cup Permutations(Attempts)

=============================================================================
