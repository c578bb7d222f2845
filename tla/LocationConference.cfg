CONSTANTS
  a1 = a1
  a2 = a2
  d1 = d1
  d2 = d2
  d3 = d3
  u1 = u1
  u2 = u2
  x = x
  c1 = c1
  c2 = c2
  f1 = f1
  Handler = {h1, h2}
  Aor = {a1}
  SupportedAor = {a1}
  Addr = {d1, d2, d3}
  User = {u1}
  Label = {}
  CallId = {c1, c2}
  Ref = {f1}
  BackendRef = {}
  Contact <- ThreeContacts
  Expires = {1}
  MaxContacts <- NoLimit
  FindRequests <- ConferenceLookups
  Remote = FALSE
  MaxCyclesBeforeCleanup = 2
  MaxTime = 0
  NoCall = NoCall
  NoRef = NoRef
  NoReq = NoReq
  NaN = NaN
SPECIFICATION Spec
SYMMETRY HandlerSymmetry
INVARIANTS
  AffinityFanoutBounded
