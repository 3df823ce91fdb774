SPECIFICATION Spec
CONSTANTS
    MaxReplicas = 1
    MaxUIDs = 2
    MaxEdits = 1
INVARIANT TypeOK
PROPERTY LossNeedsStaleEvidence
