CONSTANTS
  t1 = t1
  t2 = t2
  Absent = Absent
  NoMessage = NoMessage
  NoEntry = NoEntry
  Trunk = {t1, t2}
  Interval = 2
  DEFAULT_EXPIRES = 6
  MaxRound = 3
  Answers <- SomeFail
SPECIFICATION Spec
SYMMETRY TrunkSymmetry
INVARIANTS TypeOK 
CHECK_DEADLOCK FALSE
