\* One item in both modes, with an icon the theme does not have.
CONSTANTS
  i1 = i1
  i2 = i2
  Items = {i1}
  Paths = {"std", "own"}
  StdPath = "std"
  Icons = {"red", "odd"}
  Rendered = {"red"}
  NoIcon = NoIcon
  Modes = {TRUE, FALSE}
  MaxCalls = 2
  MaxChanges = 1
SPECIFICATION FairSpec
INVARIANTS
  TypeOK
  AnsweredOnce
  ClicksInOrder
  IconFresh
PROPERTIES
  CallsAnswered
  ClickDelivered
CHECK_DEADLOCK FALSE
