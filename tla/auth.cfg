SPECIFICATION Spec
CONSTANTS
    p1 = p1
    p2 = p2
    r1 = r1
    r2 = r2
    Processes <- TwoProcesses
    Requests <- TwoRequests
    MaxLogins = 2
    Irregular <- EachKind
SYMMETRY AuthSymmetry
INVARIANTS
    TypeOK
    LoginKept
    NewestLogin
    StartServed
