\* Two sinks, two streams of one VM, a recording stream, two clients of which one is served.
CONSTANTS
  s1 = s1
  s2 = s2
  i1 = i1
  i2 = i2
  o1 = o1
  vm = vm
  None = None
  c1 = c1
  c2 = c2
  Devs = {s1, s2, i1, i2, o1}
  KindOf <- KindsOfDevs
  Vms = {vm}
  VmOf <- OneVm
  Volumes = {32700, 98304}
  Levels = {80}
  Clients = {c1, c2}
  MaxClients = 1
  MaxChanges = 2
SPECIFICATION Spec
INVARIANTS
  TypeOK
  DevicesConverge
  ViewsMatch
  GroupsHoldStreams
  StreamsFollowVm
CHECK_DEADLOCK FALSE
