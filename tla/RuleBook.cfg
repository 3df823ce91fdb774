SPECIFICATION Spec
CONSTANTS
    Workloads = {1, 2}
    Namespaces = {"team", "system"}
    NamespaceOf <- MCNamespaceOf
    SystemNamespaces = {"system"}
    Groups = {"g"}
    Labels = {"l"}
    Names = {1, 2}
    Signals = {"HPA"}
    MaxPriority = 1
    MaxTime = 1
    Scopes <- MCScopes
    Schedules <- MCSchedules
    FactSets <- MCFacts
    GroupSets <- MCGroupSets
    MaxRules = 2
INVARIANTS
    TypeOK
    SafetyFirst
    GuardrailsHold
PROPERTIES
    GroupRemovalNarrows
    ChangeStaysInScope
    RulePreviewed
