CONSTANTS
    j1 = j1
    j2 = j2
    None = None
    Jobs = {j1, j2}
    Middlewares <- MCMiddlewares
    Methods = {"INVITE", "ACK", "BYE", "CANCEL"}
    AuthMethods = {"INVITE"}
    Allowlist = {"guest"}
    Kinds = {"INVITE", "RINGING", "OK", "BUSY_HERE", "ACK", "BYE", "CANCEL", "INFO"}
    MaxRetries = 1
    MaxFaults = 1
    Legs <- MCLegs
SPECIFICATION Spec
SYMMETRY JobSymmetry
INVARIANTS
    ResponsesAreNotChallenged
CHECK_DEADLOCK FALSE
