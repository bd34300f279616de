--------------------------------- MODULE MCSignIn ---------------------------------
(***************************************************************************)
(* SignIn with a block of two ticks, so that a failure can be recorded     *)
(* before, in and after it.                                                *)
(***************************************************************************)
EXTENDS SignIn, TLC

MCSymmetry == Permutations(Requests)

=============================================================================
