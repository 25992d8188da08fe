CONSTANTS
  m1 = m1
  m2 = m2
  a1 = a1
  Message <- MCMessage
  Resent <- MCResent
  Address = {a1}
  AddressOf <- MCAddressOf
  Sender = {t1, t2}
  Client = {c1, c2}
  Socket = {h1, h2}
  NoSocket = None
  MaxSocketPerThread = 1
  MaxUseCount = 2
SPECIFICATION Spec
SYMMETRY MCSymmetry
INVARIANTS TypeOK MessagesLiveWhileUsed NoneWaitsInVain SocketsAccounted
CHECK_DEADLOCK FALSE
