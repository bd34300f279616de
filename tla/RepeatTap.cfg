SPECIFICATION PagesSpec
CONSTANTS
  Templates = {t1}
  Assignments = {a1, a2}
  Children = {k1}
  FamilyChildren = {k1}
  Rewards <- MCRewards
  None = none
  MaxFaults = 0
  Drafts <- MCDrafts
  MaxFlows = 2
  Cards = {a1}
  MaxRejections = 0
INVARIANTS
  OneAssignmentPerDraft
