CONSTANTS
  i1 = i1
  i2 = i2
  o1 = o1
  o2 = o2
  o3 = o3
  r1 = r1
  r2 = r2
  Caller <- MCCaller
  Callee = {o1, o2, o3}
  NoCallId = None
  Receiver = {r1}
  Stack = Stack
  Port = {4, 8}
  Service = {"forward", "pickup", "blind", "attended"}
SPECIFICATION Spec
INVARIANTS NoOrphanLeg PairHasPort
CHECK_DEADLOCK FALSE
