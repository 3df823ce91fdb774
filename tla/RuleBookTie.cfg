SPECIFICATION Spec
CONSTANTS
    Workloads = {1, 2}
    Namespaces = {"team", "system"}
    NamespaceOf <- MCNamespaceOf
    SystemNamespaces = {"system"}
    Groups = {"g"}
    Labels = {}
    Names = {1, 2}
    Signals = {}
    MaxPriority = 1
    MaxTime = 1
    Scopes <- MCOneScope
    Schedules <- MCConstantSchedules
    FactSets <- MCPlainFacts
    GroupSets <- MCGroupSets
    MaxRules = 2
INVARIANT OverrideWinsTies
