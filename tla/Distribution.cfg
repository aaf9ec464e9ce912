SPECIFICATION Spec
CONSTANTS
  h1 = h1
  h2 = h2
  h3 = h3
  control = control
  one = one
  two = two
  status = status
  Session = {one, two}
  Viewer = {status}
  HostOf <- MCHostOf
  Absent = Absent
  Torn = Torn
  IoFaults = {two}
  Hosts <- MCHosts
  Control = control
  MayAge = {"model"}
  Scenario <- MCScenario
  CrossUser = FALSE
  BareName = FALSE
  MaxVersion = 2
  MaxFaults = 2
CHECK_DEADLOCK FALSE
INVARIANTS
  TypeOK
  SuccessMeansAgreement
  ForceIsFresh
  ModelComplete
  HeldLockStays
  LockEndsWithOwner
