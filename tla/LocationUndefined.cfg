CONSTANTS
  a1 = a1
  a2 = a2
  d1 = d1
  d2 = d2
  d3 = d3
  u1 = u1
  u2 = u2
  x = x
  c1 = c1
  c2 = c2
  f1 = f1
  Handler = {h1}
  Aor = {a1}
  SupportedAor = {a1}
  Addr = {d1, d2}
  User = {u1}
  Label = {}
  CallId = {c1}
  Ref = {}
  BackendRef = {}
  Contact <- TwoContacts
  Expires = {1, 2}
  MaxContacts <- NoLimit
  FindRequests <- UnbalancedLookups
  Remote = TRUE
  MaxCyclesBeforeCleanup = 2
  MaxTime = 2
  NoCall = NoCall
  NoRef = NoRef
  NoReq = NoReq
  NaN = NaN
SPECIFICATION Spec
INVARIANTS
  LocatesRoute
