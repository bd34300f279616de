---------------------------- MODULE MCFamilyRequests ----------------------------
(***************************************************************************)
(* FamilyRequests for a family of two parents and a child.                 *)
(***************************************************************************)
EXTENDS FamilyRequests, TLC

(* Only the owner is told apart from the other parents.                    *)
MCSymmetry ==
  Permutations(Conns) \cup Permutations(Sessions) \cup Permutations(Codes)
    \cup Permutations(Tokens) \cup Permutations(Parents \ {Owner})

=============================================================================
