SPECIFICATION FairPages
CONSTANTS
  Templates = {t1, t2, t3}
  Assignments = {a1, a2}
  Children = {k1}
  FamilyChildren = {k1}
  Rewards <- MCRewards
  None = none
  MaxFaults = 2
  Drafts <- MCDrafts
  MaxFlows = 2
  Cards = {a1}
  MaxRejections = 1
INVARIANTS
  PagesTypeOK
  SuccessIsTrue
  TemplatesAccountedFor
  ScreenOffersTheNextStep
PROPERTIES
  PageMirrorsRow
  EveryTapIsAnswered
  EveryDraftArrives
  AssignedTaskGetsDone

