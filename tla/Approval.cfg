SPECIFICATION Spec
CONSTANTS
    alice = alice
    bob = bob
    carol = carol
    nobody = nobody
    Users = {alice, bob, carol}
    Requester = carol
    NoUser = nobody
    s1 = s1
    s2 = s2
    Specs = {s1, s2}
    MaxFaults = 2
    MaxEdits = 1
SYMMETRY Symmetry
CHECK_DEADLOCK FALSE
INVARIANTS
    ApprovedTruthful
    AtMostOnce
    RepetitionNeedsRemoval
    ReversalNeedsCause
PROPERTIES
    OwnerKept
    ImplementsChangeRequest
