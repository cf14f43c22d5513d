\* An application that waits for the answer to its registration.
CONSTANTS
  a1 = a1
  n1 = n1
  p1 = p1
  NoApp = NoApp
  NoCall = NoCall
  Apps = {a1}
  Names = {n1}
  Home <- HomeOfOne
  Proxies = {p1}
  Sync = {a1}
  Modes = {TRUE, FALSE}
  Filters = {TRUE, FALSE}
  MaxChanges = 3
  MaxFailures = 1
  MaxEchoes = 2
SPECIFICATION Spec
INVARIANT
  NoMutualWait
CHECK_DEADLOCK FALSE
