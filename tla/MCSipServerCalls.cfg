CONSTANTS
  i1 = i1
  i2 = i2
  o1 = o1
  o2 = o2
  o3 = o3
  r1 = r1
  r2 = r2
  Caller <- MCCaller
  Callee = {o1}
  NoCallId = None
  Receiver = {r1, r2}
  Stack = Stack
  Port = {4}
  Service = {"forward"}
SPECIFICATION FairSpec
INVARIANTS TypeOK NoGhostPair PortsReturn EveryCallRecorded
PROPERTY BothLegsEnd
CHECK_DEADLOCK FALSE
