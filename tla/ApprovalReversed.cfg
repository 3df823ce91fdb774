SPECIFICATION Spec
CONSTANTS
    alice = alice
    bob = bob
    carol = carol
    nobody = nobody
    Users = {alice, bob, carol}
    Requester = carol
    NoUser = nobody
    s1 = s1
    s2 = s2
    Specs = {s1, s2}
    MaxFaults = 1
    MaxEdits = 0
SYMMETRY Symmetry
CHECK_DEADLOCK FALSE
INVARIANT AppliedNotReversed
