CONSTANTS
  i1 = i1
  i2 = i2
  c1 = c1
  b1 = b1
  a1 = a1
  None = None
  Request = {i1, i2, c1}
  Calls = {{i1, i2, c1}}
  Method <- Methods
  Cancels <- CancelSecond
  Accounts = {}
  MaxQueue = 2
  MayFail = {}
SPECIFICATION Spec
INVARIANTS CancelReleasesCallee
CHECK_DEADLOCK FALSE
