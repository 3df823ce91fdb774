SPECIFICATION FairSpec
CONSTANTS
    Namespaces = {"team", "lab"}
    SystemNamespaces = {}
    ScheduleNames = {"builtin", "custom"}
    BuiltIns = {"builtin"}
    Specs = {"hours", "bad"}
    BuiltInSpec <- MCBuiltInSpec
    Admitted = {"hours"}
    NoSpec = NoSpec
    NoSchedule = NoSchedule
    ByHand = ByHand
    InitialAnnotations <- MCInitialAnnotations
    InitialKinds <- MCInitialKinds
    PriorityTexts = {0, 1, 3}
    MaxPriority = 2
    MaxEdits = 2
    MaxRecounts = 1
    MaxFaults = 1
INVARIANT TypeOK
PROPERTIES EditsKept AnnotationsFollowed ComesToRest BuiltInsReturn
