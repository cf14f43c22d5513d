\* Both kinds of service, three changes, one failed call, restarts.
CONSTANTS
  Root = Root
  node = node
  leaf = leaf
  OM = OM
  i1 = i1
  i2 = i2
  NoIface = NoIface
  NoSignal = NoSignal
  Paths = {Root, node, leaf}
  Subtree <- TreeOfThree
  Prefixed = {}
  Ifaces = {OM, i1, i2}
  InitialServices <- Both
  MaxChanges = 3
  MaxFailures = 1
SPECIFICATION FairSpec
INVARIANTS
  TypeOK
  TablesAgree
  MirrorConverges
PROPERTIES
  AnnouncedIsExported
  DroppedIsGone
  StartupEnds
  VanishedExits
CHECK_DEADLOCK FALSE
