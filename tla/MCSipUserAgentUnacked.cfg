CONSTANTS
  c1 = c1
  Call <- MCCall
  Receiver = {r1}
  App = {a1, a2}
  Stack = Stack
  Status = {180, 200, 401, 486}
  MaxInvites = 2
SPECIFICATION Spec
INVARIANT UnackedCallEnds
CHECK_DEADLOCK FALSE
