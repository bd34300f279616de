------------------------------ MODULE MCTaskPages ------------------------------
(***************************************************************************)
(* TaskPages for one family: the parent's taps find a draft for the child  *)
(* of the family, or one that the page must not send.                      *)
(***************************************************************************)
EXTENDS TaskPages

MCRewards == {[XP |-> 1, COINS |-> 0], [XP |-> 1, COINS |-> -1]}

MCDraft(child, reward, filled) ==
  [child |-> child, reward |-> reward, filled |-> filled, strategy |-> "PHOTO_PROOF"]

MCDrafts ==
  {MCDraft(child, reward, TRUE) : child \in FamilyChildren \cup {None}, reward \in Rewards}
  \cup {MCDraft(child, reward, FALSE) : child \in FamilyChildren, reward \in Rewards}

=============================================================================
