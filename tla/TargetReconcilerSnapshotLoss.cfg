SPECIFICATION Spec
CONSTANTS
    k1 = k1
    k2 = k2
    Keys = {k1, k2}
    NoKey = NoKey
    MaxReplicas = 1
    a1 = a1
    a2 = a2
    a3 = a3
    AuditIDs = {a1, a2, a3}
    NoAuditID = NoAuditID
    MaxFaults = 0
    MaxOutside = 0
    MaxFlips = 1
SYMMETRY Symmetry
INVARIANT Recoverable
