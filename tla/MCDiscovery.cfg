CONSTANTS
  myProject = myProject
  otherProject = otherProject
  network = network
  autoscaler = autoscaler
  tagbinding = tagbinding
  n1 = n1
  n2 = n2
  a1 = a1
  b1 = b1
  Projects <- TwoProjects
  Asked <- NoTypes
  Defaults <- ThreeTypes
  Listable <- TwoTypes
  Resources <- What
  ProjectOf <- Projected
  TypeOf <- Typed
  Attributable <- Named
  Identifiable <- What
  LastPage = 2
SPECIFICATION FairSpec
INVARIANTS EachOnce FailsOpen
PROPERTY DiscoverReturns
CHECK_DEADLOCK FALSE
