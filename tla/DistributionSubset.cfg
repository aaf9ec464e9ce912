SPECIFICATION Spec
CONSTANTS
  h1 = h1
  h2 = h2
  h3 = h3
  control = control
  one = one
  two = two
  status = status
  Session = {one}
  Viewer = {}
  HostOf <- MCHostOf
  Absent = Absent
  Torn = Torn
  IoFaults = {}
  MayAge = {}
  Hosts <- MCHosts
  Control = control
  Scenario <- SubsetScenario
  CrossUser = FALSE
  BareName = FALSE
  MaxVersion = 1
  MaxFaults = 1
CHECK_DEADLOCK FALSE
INVARIANT
  EmptyMeansSuccess
