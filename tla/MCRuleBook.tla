----------------------------- MODULE MCRuleBook -----------------------------
(* Instances of RuleBook for TLC: workload 1 in namespace "team", workload 2 *)
(* in the protected namespace "system".                                      *)
EXTENDS RuleBook

Everywhere ==
    [groups |-> {}, namespaces |-> {}, namespaceLabels |-> {},
     workloads |-> {}, workloadLabels |-> {}]

MCNamespaceOf == [w \in Workloads |-> IF w = 1 THEN "team" ELSE "system"]

MCScopes ==
    {Everywhere,
     [Everywhere EXCEPT !.groups = Groups],
     [Everywhere EXCEPT !.groups = Groups, !.namespaces = {"system"},
                        !.workloads = {1}, !.workloadLabels = Labels]}

MCOneScope == {Everywhere}

Always(state) == [t \in Time |-> state]
OffFrom(start) == [t \in Time |-> IF t >= start THEN "off" ELSE "on"]

MCSchedules == {Always("on"), OffFrom(1)}
MCConstantSchedules == {Always("on"), Always("off")}

Plain ==
    [exempt |-> FALSE, optedIn |-> FALSE, signals |-> {}, labels |-> {},
     namespaceLabels |-> {}]

MCPlainFacts == {Plain}

MCFacts ==
    {Plain,
     [Plain EXCEPT !.exempt = TRUE],
     [Plain EXCEPT !.signals = Signals],
     [Plain EXCEPT !.signals = Signals, !.optedIn = TRUE, !.labels = Labels]}

MCGroupSets == {{"team"}}
=============================================================================
