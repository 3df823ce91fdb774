---------------------------- MODULE PowerEngine ----------------------------
(***************************************************************************)
(* The decision engine, a pure function of a target, the rules and a time: *)
(*                                                                         *)
(*   internal/core/domain/{engine,scope,guardrails,preview}.go             *)
(*   internal/adapters/selection/scope.go                                  *)
(*                                                                         *)
(* policies and overrides are functions from rule names to specifications, *)
(* groups a function from the names of the PowerNamespaceGroups that exist *)
(* to the namespaces they list.                                            *)
(*                                                                         *)
(* Abstracted: a rule name is its rank in alphabetical order among the     *)
(* names that Kubernetes admits, of bounded length; a label is a key with  *)
(* its value; targetRefs and workloadNames, which both list workloads, are *)
(* one selector; a schedule is the power state it yields at *)
(* each time (module Schedule has the windows); ownership signals are the  *)
(* ones that are not opted in.                                             *)
(***************************************************************************)
EXTENDS Integers

CONSTANTS
    Workloads,         \* the targets
    Namespaces,        \* the namespaces of the cluster
    NamespaceOf,       \* where each workload lives
    SystemNamespaces,  \* SystemNamespaces and CustomBlocklist of the config
    Groups,            \* names of PowerNamespaceGroups
    Labels,            \* labels of workloads and namespaces
    Names,             \* names of rules
    Signals,           \* the ownership signals that occur
    MaxPriority,       \* bound: priorities are 0..MaxPriority
    MaxTime            \* bound: time is 0..MaxTime

\* The ownership signals that an opt-in waives.
Waivable == {"ArgoCD", "Flux", "Helm", "HPA"}

ASSUME EngineAssumption ==
    /\ NamespaceOf \in [Workloads -> Namespaces]
    /\ SystemNamespaces \subseteq Namespaces
    /\ Names \subseteq Nat
    /\ Signals \subseteq Waivable
    /\ MaxPriority \in Nat
    /\ MaxTime \in Nat

Power == {"on", "off"}
Time == 0..MaxTime

Scope ==
    [groups : SUBSET Groups, namespaces : SUBSET Namespaces,
     namespaceLabels : SUBSET Labels, workloads : SUBSET Workloads,
     workloadLabels : SUBSET Labels]

PolicySpec ==
    [scope : Scope, schedule : [Time -> Power], priority : 0..MaxPriority,
     created : Time]

OverrideSpec ==
    [scope : Scope, state : Power, priority : 0..MaxPriority, created : Time,
     expires : Time]

\* What the PowerTarget of a workload says: its own annotations (exempt,
\* optedIn), and the owners and labels that discovery wrote into its status.
Facts ==
    [exempt : BOOLEAN, optedIn : BOOLEAN, signals : SUBSET Signals,
     labels : SUBSET Labels, namespaceLabels : SUBSET Labels]

\* EvaluatedRule
Rule ==
    [kind : {"PowerPolicy", "PowerOverride"}, name : Names,
     priority : 0..MaxPriority, state : Power, specificity : 0..2,
     created : Time]

-----------------------------------------------------------------------------
(* Scopes *)

\* Mutant: a missing group is passed over and the others are resolved.
ResolvableAnyway(scope, groups) == TRUE

\* ResolveScope returns an error when a group does not exist.
Resolvable(scope, groups) == scope.groups \subseteq DOMAIN groups

\* The namespaces of the groups join the explicit ones.
ResolveScope(scope, groups) ==
    [scope EXCEPT
        !.groups = {},
        !.namespaces = @ \cup UNION {groups[g] : g \in scope.groups \cap DOMAIN groups}]

\* Mutant: the labels of the workload are not looked at.
MatchesUnlabelled(w, facts, scope) ==
    /\ scope.groups = {}
    /\ scope.workloads # {} => w \in scope.workloads
    /\ scope.namespaces # {} => NamespaceOf[w] \in scope.namespaces
    /\ scope.namespaceLabels \subseteq facts.namespaceLabels

\* Every selector that is present must match.
MatchesScope(w, facts, scope) ==
    /\ scope.groups = {}
    /\ scope.workloads # {} => w \in scope.workloads
    /\ scope.namespaces # {} => NamespaceOf[w] \in scope.namespaces
    /\ scope.namespaceLabels \subseteq facts.namespaceLabels
    /\ scope.workloadLabels \subseteq facts.labels

ComputeSpecificity(scope) ==
    IF scope.workloads # {} \/ scope.workloadLabels # {} THEN 2
    ELSE IF scope.namespaces # {} \/ scope.groups # {}
            \/ scope.namespaceLabels # {} THEN 1
    ELSE 0

-----------------------------------------------------------------------------
(* Applicable rules *)

IsExpired(override, now) == now >= override.expires

\* loadPolicies, loadOverrides: a rule whose scope does not resolve is skipped.
Loaded(rules, groups) == {n \in DOMAIN rules : Resolvable(rules[n].scope, groups)}

PolicyRule(n, policy, scope, now) ==
    [kind |-> "PowerPolicy", name |-> n, priority |-> policy.priority,
     state |-> policy.schedule[now], specificity |-> ComputeSpecificity(scope),
     created |-> policy.created]

OverrideRule(n, override, scope) ==
    [kind |-> "PowerOverride", name |-> n, priority |-> override.priority,
     state |-> override.state, specificity |-> ComputeSpecificity(scope),
     created |-> override.created]

CollectApplicableRules(w, facts, policies, overrides, groups, now) ==
    LET Resolved(r) == ResolveScope(r.scope, groups)
    IN  {PolicyRule(n, policies[n], Resolved(policies[n]), now) :
            n \in {m \in Loaded(policies, groups) :
                      MatchesScope(w, facts, Resolved(policies[m]))}}
        \cup
        {OverrideRule(n, overrides[n], Resolved(overrides[n])) :
            n \in {m \in Loaded(overrides, groups) :
                      /\ ~IsExpired(overrides[m], now)
                      /\ MatchesScope(w, facts, Resolved(overrides[m]))}}

-----------------------------------------------------------------------------
(* Priority *)

\* Mutant: the power state takes no part in the comparison.
PrecedesWhateverState(a, b) ==
    \/ a.priority > b.priority
    \/ /\ a.priority = b.priority
       /\ \/ a.specificity > b.specificity
          \/ /\ a.specificity = b.specificity
             /\ \/ a.created > b.created
                \/ a.created = b.created /\ a.name < b.name

\* The comparison of ResolvePriority: a is sorted before b.
Precedes(a, b) ==
    \/ a.priority > b.priority
    \/ /\ a.priority = b.priority
       /\ \/ a.state # b.state /\ a.state = "on"
          \/ /\ a.state = b.state
             /\ \/ a.specificity > b.specificity
                \/ /\ a.specificity = b.specificity
                   /\ \/ a.created > b.created
                      \/ a.created = b.created /\ a.name < b.name

\* The rules that may be sorted first.  There may be two, a policy and an
\* override of the same name: the comparison does not look at the kind, and
\* slices.SortFunc is not stable.
Winners(rules) == {r \in rules : \A q \in rules : ~Precedes(q, r)}

-----------------------------------------------------------------------------
(* Guardrails and the decision *)

\* Mutant: the opt-in waives the protection of system namespaces too.
GuardrailsWaived(w, facts) ==
    IF facts.exempt \/ facts.optedIn THEN {}
    ELSE facts.signals \cup (IF NamespaceOf[w] \in SystemNamespaces
                             THEN {"SystemNamespace"} ELSE {})

\* All the reasons not to power down; an opt-in leaves those it cannot waive.
EvaluateGuardrails(w, facts) ==
    LET system == IF NamespaceOf[w] \in SystemNamespaces
                  THEN {"SystemNamespace"} ELSE {}
        reasons == system \cup facts.signals
    IN  IF facts.exempt THEN {}
        ELSE IF facts.optedIn THEN reasons \ Waivable ELSE reasons

Unmanaged == [desired |-> "none", blocked |-> FALSE]

\* The decisions that the order of the rules leaves open.
ComputeDecisions(w, facts, policies, overrides, groups, now) ==
    LET rules == CollectApplicableRules(w, facts, policies, overrides, groups, now)
    IN  IF facts.exempt \/ rules = {} THEN {Unmanaged}
        ELSE {[desired |-> r.state,
               blocked |-> r.state = "off" /\ EvaluateGuardrails(w, facts) # {}] :
                  r \in Winners(rules)}

ComputeDecision(w, facts, policies, overrides, groups, now) ==
    CHOOSE d \in ComputeDecisions(w, facts, policies, overrides, groups, now) : TRUE
-----------------------------------------------------------------------------
(* Preview *)

\* Mutant: the change is looked at before the guardrails.
ImpactUnguarded(current, new) ==
    IF new.desired = "none" THEN "none"
    ELSE IF current.desired # new.desired THEN new.desired
    ELSE IF new.blocked THEN "blocked" ELSE "none"

\* Impact of one target: its new decision against its current one.
Impact(current, new) ==
    IF new.desired = "none" THEN "none"
    ELSE IF new.blocked THEN "blocked"
    ELSE IF current.desired # new.desired THEN new.desired ELSE "none"

\* handlePreviewPolicy and handlePreviewOverride answer only if every scope
\* resolves, the proposed one and those of the other rules.
Previewable(policies, overrides, groups) ==
    /\ Loaded(policies, groups) = DOMAIN policies
    /\ Loaded(overrides, groups) = DOMAIN overrides

Without(rules, n) == [m \in DOMAIN rules \ {n} |-> rules[m]]

With(rules, n, rule) ==
    [m \in DOMAIN rules \cup {n} |-> IF m = n THEN rule ELSE rules[m]]

\* A stored policy of the proposed name takes no part in either decision; the
\* proposed one counts as created now.
PreviewPolicy(n, policy, w, facts, policies, overrides, groups, now) ==
    LET others == Without(policies, n)
        proposed == [policy EXCEPT !.created = now]
    IN  Impact(ComputeDecision(w, facts, others, overrides, groups, now),
               ComputeDecision(w, facts, With(others, n, proposed), overrides,
                               groups, now))

PreviewOverride(n, override, w, facts, policies, overrides, groups, now) ==
    LET others == Without(overrides, n)
        proposed == [override EXCEPT !.created = now]
    IN  Impact(ComputeDecision(w, facts, policies, others, groups, now),
               ComputeDecision(w, facts, policies, With(others, n, proposed),
                               groups, now))
=============================================================================
