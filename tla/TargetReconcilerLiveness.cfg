SPECIFICATION FairSpec
CONSTANTS
    k1 = k1
    Keys = {k1}
    NoKey = NoKey
    MaxReplicas = 1
    a1 = a1
    a2 = a2
    a3 = a3
    AuditIDs = {a1, a2, a3}
    NoAuditID = NoAuditID
    MaxFaults = 1
    MaxOutside = 0
    MaxFlips = 1
PROPERTIES PendingAuditRecorded Settles
