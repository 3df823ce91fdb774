------------------------------ MODULE RuleBook ------------------------------
(***************************************************************************)
(* The life of the objects a decision is computed from: policies,          *)
(* overrides and namespace groups, created, changed and deleted through    *)
(* the API or kubectl, admitted by the validating webhooks, while time     *)
(* passes and discovery rewrites what is known of the workloads.           *)
(*                                                                         *)
(*   internal/adapters/driving/webhook/{policy,override}_validator.go      *)
(*   internal/adapters/driving/api/handlers.go (CRUD and preview)          *)
(***************************************************************************)
EXTENDS PowerEngine, FiniteSets

CONSTANTS
    Scopes,      \* the scopes rules are written with
    Schedules,   \* the schedules policies are written with
    FactSets,    \* what discovery may find out about a workload
    GroupSets,   \* the namespaces a group may list
    MaxRules     \* bound: rules that exist at the same time

ASSUME RuleBookAssumption ==
    /\ Scopes \subseteq Scope
    /\ Schedules \subseteq [Time -> Power]
    /\ FactSets \subseteq Facts
    /\ GroupSets \subseteq (SUBSET Namespaces) \ {{}}
    /\ MaxRules \in Nat

VARIABLES
    policies,   \* the PowerPolicies, by name
    overrides,  \* the PowerOverrides, by name
    groups,     \* the PowerNamespaceGroups, by name
    facts,      \* what each PowerTarget says about its workload
    now         \* the time

vars == <<policies, overrides, groups, facts, now>>

Submitted == -1..MaxPriority

\* Mutant: the priority is not looked at.
PolicyAccepted(p) == TRUE

\* The priority is refused below zero; state and windows are valid by type.
PolicyValid(p) == p.priority >= 0

\* The expiration must lie in the future.
OverrideValid(o) == o.priority >= 0 /\ o.expires > now

Room == Cardinality(DOMAIN policies) + Cardinality(DOMAIN overrides) < MaxRules

-----------------------------------------------------------------------------
(* The handlers of the API refuse a scope that names a missing group; kubectl,  *)
(* GitOps and an approved request do not pass through them.  An action stands   *)
(* for every way in, so it only insists on what the webhook insists on.         *)

CreatePolicy(n) ==
    /\ n \notin DOMAIN policies
    /\ Room
    /\ \E p \in [scope : Scopes, schedule : Schedules, priority : Submitted,
                 created : {now}] :
          /\ PolicyValid(p)
          /\ policies' = With(policies, n, p)
    /\ UNCHANGED <<overrides, groups, facts, now>>

\* handleUpdatePolicy replaces the spec and keeps the creation time.
UpdatePolicy(n) ==
    /\ n \in DOMAIN policies
    /\ \E p \in [scope : Scopes, schedule : Schedules, priority : Submitted,
                 created : {policies[n].created}] :
          /\ PolicyValid(p)
          /\ policies' = With(policies, n, p)
    /\ UNCHANGED <<overrides, groups, facts, now>>

DeletePolicy(n) ==
    /\ n \in DOMAIN policies
    /\ policies' = Without(policies, n)
    /\ UNCHANGED <<overrides, groups, facts, now>>

CreateOverride(n) ==
    /\ n \notin DOMAIN overrides
    /\ Room
    /\ \E o \in [scope : Scopes, state : Power, priority : Submitted,
                 created : {now}, expires : Time] :
          /\ OverrideValid(o)
          /\ overrides' = With(overrides, n, o)
    /\ UNCHANGED <<policies, groups, facts, now>>

\* The API has no handler for it: kubectl, or an approved request.
UpdateOverride(n) ==
    /\ n \in DOMAIN overrides
    /\ \E o \in [scope : Scopes, state : Power, priority : Submitted,
                 created : {overrides[n].created}, expires : Time] :
          /\ OverrideValid(o)
          /\ overrides' = With(overrides, n, o)
    /\ UNCHANGED <<policies, groups, facts, now>>

DeleteOverride(n) ==
    /\ n \in DOMAIN overrides
    /\ overrides' = Without(overrides, n)
    /\ UNCHANGED <<policies, groups, facts, now>>

\* Created through the API or edited with kubectl; the CRD schema refuses a
\* group without namespaces.
PutNamespaceGroup(g) ==
    /\ \E s \in GroupSets : groups' = With(groups, g, s)
    /\ UNCHANGED <<policies, overrides, facts, now>>

\* Nothing keeps a group that rules refer to from being deleted.
DeleteNamespaceGroup(g) ==
    /\ g \in DOMAIN groups
    /\ groups' = Without(groups, g)
    /\ UNCHANGED <<policies, overrides, facts, now>>

\* Discovery finds changed labels or owners, or the PowerTarget is annotated.
RefreshTarget(w) ==
    /\ \E f \in FactSets \ {facts[w]} : facts' = [facts EXCEPT ![w] = f]
    /\ UNCHANGED <<policies, overrides, groups, now>>

Tick ==
    /\ now < MaxTime
    /\ now' = now + 1
    /\ UNCHANGED <<policies, overrides, groups, facts>>

Init ==
    /\ policies = [n \in {} |-> 0]
    /\ overrides = [n \in {} |-> 0]
    /\ groups = [g \in {} |-> {}]
    /\ facts \in [Workloads -> FactSets]
    /\ now = 0

Next ==
    \/ \E n \in Names :
          \/ CreatePolicy(n) \/ UpdatePolicy(n) \/ DeletePolicy(n)
          \/ CreateOverride(n) \/ UpdateOverride(n) \/ DeleteOverride(n)
    \/ \E g \in Groups : PutNamespaceGroup(g) \/ DeleteNamespaceGroup(g)
    \/ \E w \in Workloads : RefreshTarget(w)
    \/ Tick

Spec == Init /\ [][Next]_vars

-----------------------------------------------------------------------------
(* Properties *)

\* Rules, groups and facts stay within their types; a rule with a negative
\* priority is never admitted.
TypeOK ==
    /\ DOMAIN policies \subseteq Names
    /\ \A n \in DOMAIN policies : policies[n] \in PolicySpec
    /\ DOMAIN overrides \subseteq Names
    /\ \A n \in DOMAIN overrides : overrides[n] \in OverrideSpec
    /\ DOMAIN groups \subseteq Groups
    /\ \A g \in DOMAIN groups : groups[g] \in (SUBSET Namespaces) \ {{}}
    /\ facts \in [Workloads -> Facts]
    /\ now \in Time

Applicable(w) ==
    CollectApplicableRules(w, facts[w], policies, overrides, groups, now)

\* What the engine may decide for w at this moment, and what it does decide.
Possible(w) == ComputeDecisions(w, facts[w], policies, overrides, groups, now)
Effective(w) == ComputeDecision(w, facts[w], policies, overrides, groups, now)

\* The meaning of a scope, as the CRD documentation gives it: the workload lives
\* in a namespace that the scope or one of its groups names, if it names any,
\* and it is one of the workloads and has the labels that it asks for.
Covers(scope, w) ==
    /\ \A g \in scope.groups : g \in DOMAIN groups
    /\ \/ scope.groups = {} /\ scope.namespaces = {}
       \/ NamespaceOf[w] \in scope.namespaces
       \/ \E g \in scope.groups : NamespaceOf[w] \in groups[g]
    /\ scope.workloads = {} \/ w \in scope.workloads
    /\ \A l \in scope.workloadLabels : l \in facts[w].labels
    /\ \A l \in scope.namespaceLabels : l \in facts[w].namespaceLabels

PolicyDemands(P, w) ==
    {[priority |-> P[n].priority, state |-> P[n].schedule[now]] :
        n \in {m \in DOMAIN P : Covers(P[m].scope, w)}}

OverrideDemands(O, w) ==
    {[priority |-> O[n].priority, state |-> O[n].state] :
        n \in {m \in DOMAIN O : now < O[m].expires /\ Covers(O[m].scope, w)}}

\* The demands of the highest priority among the policies P and the overrides O.
TopDemands(P, O, w) ==
    LET demands == PolicyDemands(P, w) \cup OverrideDemands(O, w)
    IN  {d \in demands : \A e \in demands : e.priority <= d.priority}

\* The state that they ask for: "on" if one of those with the highest priority
\* asks for it.
Asked(P, O, w) ==
    LET top == TopDemands(P, O, w)
    IN  IF facts[w].exempt \/ top = {} THEN "none"
        ELSE IF \E d \in top : d.state = "on" THEN "on"
        ELSE "off"

\* What the rules in force ask for.
Demanded(w) == Asked(policies, overrides, w)

\* w is not to be powered down: its namespace is a system namespace, or somebody
\* else owns it and it has not opted in.
Protected(w) ==
    \/ NamespaceOf[w] \in SystemNamespaces
    \/ facts[w].signals # {} /\ ~facts[w].optedIn

\* Scope resolution, expiry, schedules and the five-level comparison come down
\* to one rule: a workload is off only if every rule in force with the highest
\* priority wants it off, and unmanaged only if it is exempt or no rule is in
\* force.  The decision is one and the same in whatever order the informer lists
\* the rules, although the comparison leaves some of them tied and the sort is
\* not stable (ComputeDecision, ResolvePriority).
SafetyFirst ==
    \A w \in Workloads : \E d \in Possible(w) :
        /\ Possible(w) = {d}
        /\ d.desired = Demanded(w)

\* A power-down goes through exactly when the namespace is not protected and
\* nobody else owns the workload without an opt-in; no opt-in opens a system
\* namespace (EvaluateGuardrails).
GuardrailsHold ==
    \A w \in Workloads : \A d \in Possible(w) :
        d.desired = "off" => (d.blocked <=> Protected(w))

\* What the documentation says of a tie: an override wins over a policy of the
\* same priority.  The code compares the state right after the priority, and
\* never the kind: a policy that asks for "on" wins over an override that asks
\* for "off" (ResolvePriority).
OverrideWinsTies ==
    \A w \in Workloads :
        LET tied == OverrideDemands(overrides, w)
                        \cap TopDemands(policies, overrides, w)
        IN  ~facts[w].exempt /\ tied # {} =>
                \E d \in tied : Effective(w).desired = d.state

GroupsOnlyRemoved ==
    /\ groups' # groups
    /\ DOMAIN groups' \subseteq DOMAIN groups
    /\ \A g \in DOMAIN groups' : groups'[g] = groups[g]

\* Deleting a namespace group takes rules away from workloads and never brings
\* one to a workload it did not cover: a group-only rule cannot become
\* cluster-wide (ResolveScope fails, loadPolicies and loadOverrides skip).
GroupRemovalNarrows ==
    [][GroupsOnlyRemoved =>
          \A w \in Workloads : Applicable(w)' \subseteq Applicable(w)]_vars

Changed(old, new) ==
    {n \in DOMAIN old \cup DOMAIN new :
        n \in DOMAIN old /\ n \in DOMAIN new => old[n] # new[n]}

\* Whether w is in the scope of rule n.
Reaches(rules, n, w) == n \in DOMAIN rules /\ Covers(rules[n].scope, w)

\* Creating, changing or deleting a rule changes the decision of no workload but
\* those in the scope that the rule has or had: a rule that does not apply takes
\* no part in the sort, however the ties among the others fall
\* (collectApplicableRules, ResolvePriority).
ChangeStaysInScope ==
    [][policies' # policies \/ overrides' # overrides =>
          \A w \in Workloads :
              \/ \E n \in Changed(policies, policies') :
                    Reaches(policies, n, w) \/ Reaches(policies', n, w)
              \/ \E n \in Changed(overrides, overrides') :
                    Reaches(overrides, n, w) \/ Reaches(overrides', n, w)
              \/ Effective(w)' = Effective(w)]_vars

\* What the preview may say of w when the rules ask for `before` without the
\* proposed rule and for `after` with it: a workload is listed under the state it
\* is to go to, or as blocked whenever it is to be off and may not be, changed or
\* not.
PreviewHolds(said, before, after, w) ==
    \E s \in {said}, old \in {before}, new \in {after} :
        /\ s = "on" <=> old # "on" /\ new = "on"
        /\ s = "off" <=> old # "off" /\ new = "off" /\ ~Protected(w)
        /\ s = "blocked" <=> new = "off" /\ Protected(w)

\* The preview of a rule, shown right before the rule is created or changed, is
\* right about the decision that each workload then gets, and lists under "on" and
\* "off" exactly those that the rules without it, of any version, leave otherwise
\* (handlePreviewPolicy, handlePreviewOverride, computePreview).  For a rule that
\* exists this is not the change from what is in force: a workload that the old
\* version keeps on and the new one switches off goes unlisted when the other
\* rules want it off anyway.
RulePreviewed ==
    [][/\ \A n \in Changed(policies, policies') \cap DOMAIN policies',
             w \in Workloads :
             Previewable(policies', overrides, groups) =>
                 PreviewHolds(PreviewPolicy(n, policies'[n], w, facts[w], policies,
                                            overrides, groups, now),
                              Asked(Without(policies, n), overrides, w),
                              Demanded(w)', w)
       /\ \A n \in Changed(overrides, overrides') \cap DOMAIN overrides',
             w \in Workloads :
             Previewable(policies, overrides', groups) =>
                 PreviewHolds(PreviewOverride(n, overrides'[n], w, facts[w], policies,
                                              overrides, groups, now),
                              Asked(policies, Without(overrides, n), w),
                              Demanded(w)', w)]_vars
=============================================================================
