CONSTANTS
  i1 = i1
  i2 = i2
  c1 = c1
  b1 = b1
  a1 = a1
  None = None
  Request = {i1, c1, b1, a1}
  Calls = {{i1, c1, b1}, {i1, a1}}
  Method <- Methods
  Cancels <- CancelFirst
  Accounts = {i1}
  MaxQueue = 2
  MayFail = {i1}
SPECIFICATION Spec
INVARIANTS TypeOK AnswersItsRequest CancelLostOnlyAfterEnd  NoEntryLeaks InviteAnswered
CHECK_DEADLOCK FALSE
