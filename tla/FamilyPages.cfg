SPECIFICATION FairPages
CONSTANTS
  Families = {f1, f2, f3}
  Children = {k1, k2, k3}
  Sessions = {s1, s2, s3, s4}
  Codes = {c1, c2, c3}
  None = none
  MaxFaults = 1
  Tabs = {tab1, tab2}
  Devices = {d1}
INVARIANTS
  FamilyPagesTypeOK
  FamiliesAccountedFor
  PairingStaysInTheFamily
  ShownCodeWorks
PROPERTIES
  SessionNeverMovesFamily
  SetupReachesTheDevice
CHECK_DEADLOCK FALSE
