CONSTANTS
  c1 = c1
  c2 = c2
  trying = trying
  ok = ok
  uncoded = uncoded
  NoMessage = NoMessage
  Call = {c1, c2}
  Message = {trying, ok, uncoded}
  Provisional = {trying}
  Uncoded = {uncoded}
  PoolSize = 1
SPECIFICATION FairSpec
INVARIANTS TypeOK OnlyTheseAreDeaf NoEntryLeaks
PROPERTIES KeepsPromise Served
CHECK_DEADLOCK FALSE
