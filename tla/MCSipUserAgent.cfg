CONSTANTS
  c1 = c1
  Call <- MCCall
  Receiver = {r1}
  App = {a1, a2}
  Stack = Stack
  Status = {200, 401, 486}
  MaxInvites = 3
SPECIFICATION FairSpec
INVARIANTS TypeOK NothingAfterEnd CancelHasInvite CancelAnswered StopTakesEffect OneAnswer
PROPERTIES EveryCallReported ConnectedEndsWithBye NoInviteAfterCancel
CHECK_DEADLOCK FALSE
