--------------------------------- MODULE Mirror ---------------------------------
(***************************************************************************)
(* What a page that shows a row of the server promises: it shows nothing,  *)
(* or a version the row has had since the version it showed before.  It    *)
(* never shows one that is yet to come and never goes back to an older     *)
(* one, and left alone by its reader it catches up with the row.           *)
(***************************************************************************)
EXTENDS Naturals

VARIABLES
  current,  \* the version of the row
  shown     \* the version on the screen, 0 for none

MirrorInit == current \in Nat /\ shown = 0

RowChanges == current' \in Nat /\ current' > current /\ shown' = shown

Refresh == shown' \in shown .. current /\ current' = current

(* The page is opened, at this row or another, or left. *)
Turn == shown' = 0 /\ current' \in Nat

MirrorNext == RowChanges \/ Refresh \/ Turn

MirrorSpec == MirrorInit /\ [][MirrorNext]_<<current, shown>>

=============================================================================
