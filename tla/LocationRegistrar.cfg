CONSTANTS
  a1 = a1
  a2 = a2
  d1 = d1
  d2 = d2
  d3 = d3
  u1 = u1
  u2 = u2
  x = x
  c1 = c1
  c2 = c2
  f1 = f1
  Handler = {h1, h2}
  Aor = {a1, a2}
  SupportedAor = {a1}
  Addr = {d1, d2, d3}
  User = {u1}
  Label = {x}
  CallId = {c1}
  Ref = {}
  BackendRef = {}
  Contact <- Registrations
  Expires = {1}
  MaxContacts <- Limit1
  FindRequests <- AorLookups
  Remote = FALSE
  MaxCyclesBeforeCleanup = 2
  MaxTime = 1
  NoCall = NoCall
  NoRef = NoRef
  NoReq = NoReq
  NaN = NaN
SPECIFICATION Spec
SYMMETRY HandlerSymmetry
INVARIANTS
  NoDuplicateContacts
  ContactOvershootBounded
  RegisterNeverBreaks
  OwnContactsOnly
  CallFanoutBounded
