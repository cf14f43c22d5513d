\* Two items of one path: whose signal is it?
CONSTANTS
  i1 = i1
  i2 = i2
  Items = {i1, i2}
  Paths = {"std"}
  StdPath = "std"
  Icons = {"red", "odd"}
  Rendered = {"red"}
  NoIcon = NoIcon
  Modes = {TRUE, FALSE}
  MaxCalls = 0
  MaxChanges = 1
SPECIFICATION Spec
PROPERTY
  SignalGoesToItsItem
CHECK_DEADLOCK FALSE
