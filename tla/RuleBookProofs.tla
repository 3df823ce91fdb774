--------------------------- MODULE RuleBookProofs ---------------------------
(***************************************************************************)
(* Proofs about RuleBook, for every cluster, every set of rules and every  *)
(* bound: type correctness, and what the engine decides in terms of the    *)
(* rules in force.  The type invariant is needed for one fact in           *)
(* particular: a namespace group that exists lists a namespace, without    *)
(* which a group-only scope would resolve to the whole cluster.            *)
(***************************************************************************)
EXTENDS RuleBook, WellFoundedInduction, TLAPS

-----------------------------------------------------------------------------
(* Type correctness *)

\* The initial state is well typed.
LEMMA InitTyped == Init => TypeOK
  BY EngineAssumption, RuleBookAssumption DEF Init, TypeOK, Time

\* Creating and updating a policy keep the types.
LEMMA CreatePolicyTyped ==
    ASSUME TypeOK, NEW n \in Names, CreatePolicy(n) \/ UpdatePolicy(n)
    PROVE  TypeOK'
<1>1. PICK p : /\ p \in [scope : Scopes, schedule : Schedules,
                         priority : Submitted, created : Time]
               /\ p.priority >= 0
               /\ policies' = With(policies, n, p)
  BY DEF CreatePolicy, UpdatePolicy, PolicyValid, TypeOK, PolicySpec
<1>2. p \in PolicySpec
  BY <1>1, EngineAssumption, RuleBookAssumption DEF PolicySpec, Submitted
<1>3. /\ DOMAIN policies' \subseteq Names
      /\ \A m \in DOMAIN policies' : policies'[m] \in PolicySpec
  BY <1>1, <1>2 DEF With, TypeOK
<1> QED
  BY <1>3 DEF CreatePolicy, UpdatePolicy, TypeOK

\* Creating and updating an override keep the types.
LEMMA CreateOverrideTyped ==
    ASSUME TypeOK, NEW n \in Names, CreateOverride(n) \/ UpdateOverride(n)
    PROVE  TypeOK'
<1>1. PICK o : /\ o \in [scope : Scopes, state : Power, priority : Submitted,
                         created : Time, expires : Time]
               /\ o.priority >= 0
               /\ overrides' = With(overrides, n, o)
  <2>1. CASE CreateOverride(n)
    BY <2>1 DEF CreateOverride, OverrideValid, TypeOK
  <2>2. CASE UpdateOverride(n)
    <3>1. overrides[n].created \in Time
      BY <2>2 DEF UpdateOverride, TypeOK, OverrideSpec
    <3> QED
      BY <2>2, <3>1 DEF UpdateOverride, OverrideValid
  <2> QED
    BY <2>1, <2>2
<1>2. o \in OverrideSpec
  BY <1>1, EngineAssumption, RuleBookAssumption DEF OverrideSpec, Submitted
<1>3. /\ DOMAIN overrides' \subseteq Names
      /\ \A m \in DOMAIN overrides' : overrides'[m] \in OverrideSpec
  BY <1>1, <1>2 DEF With, TypeOK
<1> QED
  BY <1>3 DEF CreateOverride, UpdateOverride, TypeOK

\* Every step keeps the types.
LEMMA StepTyped == TypeOK /\ [Next]_vars => TypeOK'
<1> SUFFICES ASSUME TypeOK, [Next]_vars PROVE TypeOK'
  OBVIOUS
<1>1. ASSUME NEW n \in Names, CreatePolicy(n) \/ UpdatePolicy(n) PROVE TypeOK'
  BY <1>1, CreatePolicyTyped
<1>2. ASSUME NEW n \in Names, CreateOverride(n) \/ UpdateOverride(n)
      PROVE TypeOK'
  BY <1>2, CreateOverrideTyped
<1>3. ASSUME NEW n \in Names, DeletePolicy(n) PROVE TypeOK'
  <2>1. /\ DOMAIN policies' \subseteq Names
        /\ \A m \in DOMAIN policies' : policies'[m] \in PolicySpec
    BY <1>3 DEF Without, DeletePolicy, TypeOK
  <2> QED
    BY <1>3, <2>1 DEF DeletePolicy, TypeOK
<1>4. ASSUME NEW n \in Names, DeleteOverride(n) PROVE TypeOK'
  <2>1. /\ DOMAIN overrides' \subseteq Names
        /\ \A m \in DOMAIN overrides' : overrides'[m] \in OverrideSpec
    BY <1>4 DEF Without, DeleteOverride, TypeOK
  <2> QED
    BY <1>4, <2>1 DEF DeleteOverride, TypeOK
<1>5. ASSUME NEW g \in Groups, PutNamespaceGroup(g) PROVE TypeOK'
  <2>1. PICK s \in GroupSets : groups' = With(groups, g, s)
    BY <1>5 DEF PutNamespaceGroup
  <2>2. /\ DOMAIN groups' \subseteq Groups
        /\ \A h \in DOMAIN groups' : groups'[h] \in (SUBSET Namespaces) \ {{}}
    BY <2>1, RuleBookAssumption DEF With, TypeOK
  <2> QED
    BY <1>5, <2>2 DEF PutNamespaceGroup, TypeOK
<1>6. ASSUME NEW g \in Groups, DeleteNamespaceGroup(g) PROVE TypeOK'
  <2>1. /\ DOMAIN groups' \subseteq Groups
        /\ \A h \in DOMAIN groups' : groups'[h] \in (SUBSET Namespaces) \ {{}}
    BY <1>6 DEF Without, DeleteNamespaceGroup, TypeOK
  <2> QED
    BY <1>6, <2>1 DEF DeleteNamespaceGroup, TypeOK
<1>7. ASSUME NEW w \in Workloads, RefreshTarget(w) PROVE TypeOK'
  BY <1>7, RuleBookAssumption DEF RefreshTarget, TypeOK
<1>8. CASE Tick
  BY <1>8, EngineAssumption DEF Tick, TypeOK, Time
<1>9. CASE UNCHANGED vars
  BY <1>9 DEF vars, TypeOK
<1> QED
  BY <1>1, <1>2, <1>3, <1>4, <1>5, <1>6, <1>7, <1>8, <1>9 DEF Next

\* Every behaviour keeps rules, groups and facts within their types: negative
\* priorities never pass the webhooks (Handle of both validators).
THEOREM TypeCorrect == Spec => []TypeOK
  BY InitTyped, StepTyped, PTL DEF Spec

-----------------------------------------------------------------------------
(* What the engine decides *)

\* Resolving a scope and matching it selects the workloads that the scope
\* covers, and a scope that does not resolve selects none.
LEMMA ScopeResolution ==
    ASSUME TypeOK, NEW w \in Workloads, NEW scope \in Scope
    PROVE  Covers(scope, w) <=>
              /\ Resolvable(scope, groups)
              /\ MatchesScope(w, facts[w], ResolveScope(scope, groups))
<1>1. CASE ~Resolvable(scope, groups)
  BY <1>1 DEF Resolvable, Covers
<1>2. CASE Resolvable(scope, groups)
  <2> DEFINE named == UNION {groups[g] : g \in scope.groups \cap DOMAIN groups}
             r == ResolveScope(scope, groups)
  <2>1. /\ r.groups = {}
        /\ r.namespaces = scope.namespaces \cup named
        /\ r.namespaceLabels = scope.namespaceLabels
        /\ r.workloads = scope.workloads
        /\ r.workloadLabels = scope.workloadLabels
    BY DEF ResolveScope, Scope
  <2>2. \A g \in scope.groups : g \in DOMAIN groups /\ groups[g] # {}
    BY <1>2 DEF Resolvable, TypeOK
  <2>3. scope.groups # {} => named # {}
    BY <2>2
  <2>4. NamespaceOf[w] \in named
            <=> \E g \in scope.groups : NamespaceOf[w] \in groups[g]
    BY <2>2
  <2>5. (r.namespaces # {} => NamespaceOf[w] \in r.namespaces)
            <=> \/ scope.groups = {} /\ scope.namespaces = {}
                \/ NamespaceOf[w] \in scope.namespaces
                \/ \E g \in scope.groups : NamespaceOf[w] \in groups[g]
    <3>1. scope.groups = {} => named = {}
      OBVIOUS
    <3> HIDE DEF named, r
    <3> QED
      BY <2>1, <2>3, <2>4, <3>1
  <2> HIDE DEF named, r
  <2>6. MatchesScope(w, facts[w], r) <=> Covers(scope, w)
    BY <2>1, <2>2, <2>5 DEF MatchesScope, Covers
  <2> QED
    BY <1>2, <2>6 DEF r
<1> QED
  BY <1>1, <1>2

\* Policies and overrides of the right type, whether they are stored or proposed.
Policies == UNION {[D -> PolicySpec] : D \in SUBSET Names}
Overrides == UNION {[D -> OverrideSpec] : D \in SUBSET Names}

\* The rules that apply to w among P and O, and what they demand.
Gathered(P, O, w) == CollectApplicableRules(w, facts[w], P, O, groups, now)
Demands(P, O, w) == PolicyDemands(P, w) \cup OverrideDemands(O, w)

\* The rules that collectApplicableRules gathers ask for exactly the demands.
LEMMA RulesAreDemands ==
    ASSUME TypeOK, NEW w \in Workloads, NEW P \in Policies, NEW O \in Overrides
    PROVE  /\ \A r \in Gathered(P, O, w) :
                 /\ r.priority \in Int
                 /\ r.state \in Power
                 /\ [priority |-> r.priority, state |-> r.state] \in Demands(P, O, w)
           /\ \A d \in Demands(P, O, w) : \E r \in Gathered(P, O, w) :
                 r.priority = d.priority /\ r.state = d.state
<1> DEFINE Resolved(x) == ResolveScope(x.scope, groups)
           MP == {m \in Loaded(P, groups) :
                    MatchesScope(w, facts[w], Resolved(P[m]))}
           MO == {m \in Loaded(O, groups) :
                    /\ ~IsExpired(O[m], now)
                    /\ MatchesScope(w, facts[w], Resolved(O[m]))}
<1>p. \A n \in DOMAIN P : P[n] \in PolicySpec
  BY DEF Policies
<1>o. \A n \in DOMAIN O : O[n] \in OverrideSpec
  BY DEF Overrides
<1>1. MP = {m \in DOMAIN P : Covers(P[m].scope, w)}
  <2>1. \A m \in DOMAIN P : P[m].scope \in Scope
    BY <1>p DEF PolicySpec
  <2> QED
    BY <2>1, ScopeResolution DEF Loaded
<1>2. MO = {m \in DOMAIN O : now < O[m].expires /\ Covers(O[m].scope, w)}
  <2>1. \A m \in DOMAIN O : O[m].scope \in Scope /\ O[m].expires \in Time
    BY <1>o DEF OverrideSpec
  <2>2. \A m \in DOMAIN O : ~IsExpired(O[m], now) <=> now < O[m].expires
    BY <2>1, EngineAssumption DEF TypeOK, IsExpired, Time
  <2> QED
    BY <2>1, <2>2, ScopeResolution DEF Loaded
<1>3. Gathered(P, O, w) =
         {PolicyRule(n, P[n], Resolved(P[n]), now) : n \in MP}
         \cup {OverrideRule(n, O[n], Resolved(O[n])) : n \in MO}
  BY DEF Gathered, CollectApplicableRules
<1>4. PolicyDemands(P, w) =
         {[priority |-> P[n].priority, state |-> P[n].schedule[now]] : n \in MP}
  BY <1>1 DEF PolicyDemands
<1>5. OverrideDemands(O, w) =
         {[priority |-> O[n].priority, state |-> O[n].state] : n \in MO}
  BY <1>2 DEF OverrideDemands
<1>6. \A n \in MP : P[n].priority \in Int /\ P[n].schedule[now] \in Power
  BY <1>1, <1>p, EngineAssumption DEF TypeOK, PolicySpec
<1>7. \A n \in MO : O[n].priority \in Int /\ O[n].state \in Power
  BY <1>2, <1>o, EngineAssumption DEF TypeOK, OverrideSpec
<1> HIDE DEF MP, MO
<1>8. ASSUME NEW r \in Gathered(P, O, w)
      PROVE  /\ r.priority \in Int
             /\ r.state \in Power
             /\ [priority |-> r.priority, state |-> r.state] \in Demands(P, O, w)
  <2>1. CASE \E n \in MP : r = PolicyRule(n, P[n], Resolved(P[n]), now)
    BY <2>1, <1>4, <1>6 DEF PolicyRule, Demands
  <2>2. CASE \E n \in MO : r = OverrideRule(n, O[n], Resolved(O[n]))
    BY <2>2, <1>5, <1>7 DEF OverrideRule, Demands
  <2> QED
    BY <1>3, <2>1, <2>2
<1>9. ASSUME NEW d \in Demands(P, O, w)
      PROVE  \E r \in Gathered(P, O, w) : r.priority = d.priority /\ r.state = d.state
  <2>1. CASE d \in PolicyDemands(P, w)
    <3>1. PICK n \in MP : d = [priority |-> P[n].priority,
                               state |-> P[n].schedule[now]]
      BY <2>1, <1>4
    <3>2. PolicyRule(n, P[n], Resolved(P[n]), now) \in Gathered(P, O, w)
      BY <1>3
    <3>3. /\ PolicyRule(n, P[n], Resolved(P[n]), now).priority = d.priority
          /\ PolicyRule(n, P[n], Resolved(P[n]), now).state = d.state
      BY <3>1 DEF PolicyRule
    <3> QED
      BY <3>2, <3>3
  <2>2. CASE d \in OverrideDemands(O, w)
    <3>1. PICK n \in MO : d = [priority |-> O[n].priority, state |-> O[n].state]
      BY <2>2, <1>5
    <3>2. OverrideRule(n, O[n], Resolved(O[n])) \in Gathered(P, O, w)
      BY <1>3
    <3>3. /\ OverrideRule(n, O[n], Resolved(O[n])).priority = d.priority
          /\ OverrideRule(n, O[n], Resolved(O[n])).state = d.state
      BY <3>1 DEF OverrideRule
    <3> QED
      BY <3>2, <3>3
  <2> QED
    BY <2>1, <2>2 DEF Demands
<1> QED
  BY <1>8, <1>9

\* No rule outranks a winner, and a winner that is off ties with no rule that
\* is on.
LEMMA WinnerIsSafest ==
    ASSUME NEW rules,
           \A r \in rules : r.priority \in Int /\ r.state \in Power,
           NEW r \in Winners(rules), NEW q \in rules
    PROVE  /\ r \in rules
           /\ q.priority <= r.priority
           /\ q.priority = r.priority /\ q.state = "on" => r.state = "on"
  BY DEF Winners, Precedes, Power

\* The comparison of ResolvePriority is what slices.SortFunc asks for, a strict
\* weak order: no rule precedes itself, precedence is transitive, and so is being
\* tied.  Rules that are tied agree in all that the comparison looks at, the state
\* among it; only the kind may differ.
THEOREM ComparisonSorts ==
    ASSUME NEW a \in Rule, NEW b \in Rule, NEW c \in Rule
    PROVE  /\ ~Precedes(a, a)
           /\ Precedes(a, b) /\ Precedes(b, c) => Precedes(a, c)
           /\ ~Precedes(a, b) /\ ~Precedes(b, a) <=>
                 /\ a.priority = b.priority /\ a.state = b.state
                 /\ a.specificity = b.specificity /\ a.created = b.created
                 /\ a.name = b.name
<1>1. ASSUME NEW r \in Rule
      PROVE  /\ r.priority \in Int /\ r.specificity \in Int /\ r.created \in Int
             /\ r.name \in Int /\ r.state \in Power
  <2>1. /\ r.priority \in 0..MaxPriority /\ r.specificity \in 0..2
        /\ r.created \in 0..MaxTime /\ r.name \in Names /\ r.state \in Power
    BY DEF Rule, Time
  <2>2. r.name \in Nat
    BY <2>1, EngineAssumption
  <2> QED
    BY <2>1, <2>2
<1>2. ~Precedes(a, a)
  BY <1>1 DEF Precedes
<1>3. Precedes(a, b) /\ Precedes(b, c) => Precedes(a, c)
  BY <1>1 DEF Precedes, Power
<1>4. ~Precedes(a, b) /\ ~Precedes(b, a) <=>
         /\ a.priority = b.priority /\ a.state = b.state
         /\ a.specificity = b.specificity /\ a.created = b.created
         /\ a.name = b.name
  BY <1>1 DEF Precedes, Power
<1> QED
  BY <1>2, <1>3, <1>4

\* A nonempty set of natural numbers has a least element.
LEMMA LeastNatural ==
    ASSUME NEW T \in SUBSET Nat, T # {}
    PROVE  \E x \in T : \A y \in T : x <= y
<1> DEFINE Less == {ss \in Nat \X Nat : ss[1] < ss[2]}
<1>1. IsWellFoundedOn(Less, Nat)
  BY NatLessThanWellFounded DEF OpToRel
<1>2. \A x, y \in Nat : <<y, x>> \in Less <=> y < x
  OBVIOUS
<1> HIDE DEF Less
<1>3. PICK x \in T : \A y \in T : <<y, x>> \notin Less
  BY <1>1, WFMin
<1>4. \A y \in T : x <= y
  <2> TAKE y \in T
  <2>1. x \in Nat /\ y \in Nat /\ ~(y < x)
    BY <1>2, <1>3
  <2> QED
    BY <2>1
<1> QED
  BY <1>4

\* A measure of the members of a nonempty set is least somewhere.
LEMMA LeastMeasure ==
    ASSUME NEW S, S # {}, NEW f, \A r \in S : f[r] \in Nat
    PROVE  \E r \in S : \A q \in S : f[r] <= f[q]
<1> DEFINE T == {f[r] : r \in S}
<1>1. T \in SUBSET Nat /\ T # {}
  OBVIOUS
<1>2. PICK x \in T : \A y \in T : x <= y
  <2> HIDE DEF T
  <2> QED
    BY <1>1, LeastNatural
<1>3. PICK r \in S : x = f[r]
  OBVIOUS
<1>4. \A q \in S : f[q] \in T
  OBVIOUS
<1> QED
  BY <1>2, <1>3, <1>4

\* The same for a numeric field whose greatest value counts.
LEMMA GreatestMeasure ==
    ASSUME NEW S, S # {}, NEW f, NEW max \in Nat, \A r \in S : f[r] \in 0..max
    PROVE  \E r \in S : \A q \in S : f[q] <= f[r]
<1> DEFINE g == [r \in S |-> max - f[r]]
<1>1. \A r \in S : g[r] \in Nat /\ g[r] = max - f[r]
  OBVIOUS
<1>2. PICK r \in S : \A q \in S : g[r] <= g[q]
  <2> HIDE DEF g
  <2> QED
    BY <1>1, LeastMeasure
<1>3. \A q \in S : f[q] <= f[r]
  <2> TAKE q \in S
  <2>1. max - f[r] <= max - f[q] /\ f[r] \in Int /\ f[q] \in Int
    BY <1>1, <1>2
  <2> QED
    BY <2>1
<1> QED
  BY <1>3

\* Some rule comes first, however many there are: the comparison of
\* ResolvePriority, level by level, leaves a rule that no other precedes.
LEMMA WinnersExist ==
    ASSUME NEW rules, rules \subseteq Rule, rules # {}
    PROVE  Winners(rules) # {}
<1> DEFINE byPriority == [r \in rules |-> r.priority]
           bySpecificity == [r \in rules |-> r.specificity]
           byCreated == [r \in rules |-> r.created]
           byName == [r \in rules |-> r.name]
<1>1. \A r \in rules :
          /\ byPriority[r] = r.priority /\ r.priority \in 0..MaxPriority
          /\ bySpecificity[r] = r.specificity /\ r.specificity \in 0..2
          /\ byCreated[r] = r.created /\ r.created \in 0..MaxTime
          /\ byName[r] = r.name /\ r.name \in Nat
          /\ r.state \in Power
  BY EngineAssumption DEF Rule, Time
<1>2. MaxPriority \in Nat /\ MaxTime \in Nat
  BY EngineAssumption
<1> HIDE DEF byPriority, bySpecificity, byCreated, byName
<1>3. PICK top \in rules : \A q \in rules : q.priority <= top.priority
  <2>1. \E r \in rules : \A q \in rules : byPriority[q] <= byPriority[r]
    BY <1>1, <1>2, GreatestMeasure
  <2> QED
    BY <1>1, <2>1
<1> DEFINE A == {r \in rules : r.priority = top.priority}
           B == IF \E r \in A : r.state = "on" THEN {r \in A : r.state = "on"} ELSE A
<1>4. /\ B # {} /\ B \subseteq A /\ A \subseteq rules
      /\ \A r \in B, q \in A : q.state = r.state \/ (r.state = "on" /\ q.state = "off")
      /\ \A r \in B, q \in A : q.state = r.state => q \in B
  BY <1>1 DEF Power
<1> HIDE DEF B
<1>5. PICK spec \in B : \A q \in B : q.specificity <= spec.specificity
  <2>1. \A r \in B : bySpecificity[r] \in 0..2
    BY <1>1, <1>4
  <2>2. \E r \in B : \A q \in B : bySpecificity[q] <= bySpecificity[r]
    <3>1. 2 \in Nat
      OBVIOUS
    <3> QED
      BY <1>4, <2>1, <3>1, GreatestMeasure
  <2> QED
    BY <1>1, <1>4, <2>2
<1> DEFINE C == {r \in B : r.specificity = spec.specificity}
<1>6. PICK young \in C : \A q \in C : q.created <= young.created
  <2>1. C # {} /\ \A r \in C : byCreated[r] \in 0..MaxTime /\ byCreated[r] = r.created
    BY <1>1, <1>4, <1>5
  <2> HIDE DEF C
  <2>2. \E r \in C : \A q \in C : byCreated[q] <= byCreated[r]
    BY <1>2, <2>1, GreatestMeasure
  <2> QED
    BY <2>1, <2>2
<1> DEFINE D == {r \in C : r.created = young.created}
<1>7. PICK first \in D : \A q \in D : first.name <= q.name
  <2>1. D # {} /\ \A r \in D : byName[r] \in Nat /\ byName[r] = r.name
    BY <1>1, <1>4, <1>6
  <2> HIDE DEF D
  <2>2. \E r \in D : \A q \in D : byName[r] <= byName[q]
    BY <2>1, LeastMeasure
  <2> QED
    BY <2>1, <2>2
<1>8. first \in rules /\ first \in A /\ first \in B /\ first \in C
  BY <1>4, <1>7
<1>9. ASSUME NEW q \in rules PROVE ~Precedes(q, first)
  <2> USE <1>1, <1>8
  <2>1. q.priority <= first.priority
    BY <1>3
  <2>2. CASE q.priority < first.priority
    BY <2>2 DEF Precedes
  <2>3. CASE q.priority = first.priority /\ q.state # first.state
    BY <1>4, <2>3 DEF Precedes
  <2>4. CASE q.priority = first.priority /\ q.state = first.state
    <3>1. q \in B
      BY <1>4, <2>4
    <3>2. q.specificity <= first.specificity
      BY <1>5, <3>1
    <3>3. q.specificity = first.specificity => q.created <= first.created
      BY <1>6, <1>7, <3>1
    <3>4. q.specificity = first.specificity /\ q.created = first.created
             => first.name <= q.name
      BY <1>7, <3>1
    <3> QED
      BY <2>4, <3>2, <3>3, <3>4 DEF Precedes
  <2> QED
    BY <2>1, <2>2, <2>3, <2>4
<1> QED
  BY <1>8, <1>9 DEF Winners

\* What collectApplicableRules gathers are rules.
LEMMA GatheredTyped ==
    ASSUME TypeOK, NEW w \in Workloads, NEW P \in Policies, NEW O \in Overrides
    PROVE  Gathered(P, O, w) \subseteq Rule
<1> DEFINE Resolved(x) == ResolveScope(x.scope, groups)
<1>1. \A s : ComputeSpecificity(s) \in 0..2
  BY DEF ComputeSpecificity
<1>2. ASSUME NEW n \in DOMAIN P
      PROVE  PolicyRule(n, P[n], Resolved(P[n]), now) \in Rule
  <2>1. n \in Names /\ P[n] \in PolicySpec /\ now \in Time
    BY DEF TypeOK, Policies
  <2>2. ComputeSpecificity(Resolved(P[n])) \in 0..2
    BY <1>1
  <2> QED
    BY <2>1, <2>2 DEF PolicyRule, Rule, PolicySpec
<1>3. ASSUME NEW n \in DOMAIN O
      PROVE  OverrideRule(n, O[n], Resolved(O[n])) \in Rule
  <2>1. n \in Names /\ O[n] \in OverrideSpec
    BY DEF TypeOK, Overrides
  <2>2. ComputeSpecificity(Resolved(O[n])) \in 0..2
    BY <1>1
  <2> QED
    BY <2>1, <2>2 DEF OverrideRule, Rule, OverrideSpec
<1> QED
  BY <1>2, <1>3 DEF Gathered, CollectApplicableRules, Loaded

\* What the engine may decide, and the decision for a state: the guardrails depend
\* on nothing else.
Decisions(P, O, w) == ComputeDecisions(w, facts[w], P, O, groups, now)
Decision(state, w) ==
    [desired |-> state, blocked |-> state = "off" /\ EvaluateGuardrails(w, facts[w]) # {}]

\* Every possible decision is the one for the state of a rule that may come first.
LEMMA DecisionsOfWinners ==
    ASSUME NEW w, NEW P, NEW O
    PROVE  Decisions(P, O, w) =
              IF facts[w].exempt \/ Gathered(P, O, w) = {} THEN {Decision("none", w)}
              ELSE {Decision(r.state, w) : r \in Winners(Gathered(P, O, w))}
<1>1. Unmanaged = Decision("none", w)
  BY DEF Unmanaged, Decision
<1> QED
  BY <1>1 DEF Decisions, ComputeDecisions, Gathered, Decision

\* A rule that may come first has the state that the rules ask for.
LEMMA WinnersAsAsked ==
    ASSUME TypeOK, NEW w \in Workloads, NEW P \in Policies, NEW O \in Overrides,
           ~facts[w].exempt, NEW r \in Winners(Gathered(P, O, w))
    PROVE  r.state = Asked(P, O, w)
<1> DEFINE rules == Gathered(P, O, w)
<1>1. /\ \A q \in rules : /\ q.priority \in Int
                          /\ q.state \in Power
                          /\ [priority |-> q.priority, state |-> q.state]
                                \in Demands(P, O, w)
      /\ \A e \in Demands(P, O, w) : \E q \in rules :
            q.priority = e.priority /\ q.state = e.state
  BY RulesAreDemands
<1>2. TopDemands(P, O, w) =
         {e \in Demands(P, O, w) :
             \A f \in Demands(P, O, w) : f.priority <= e.priority}
  BY DEF TopDemands, Demands
<1> HIDE DEF rules
<1>3. /\ r \in rules
      /\ \A q \in rules :
            /\ q.priority <= r.priority
            /\ q.priority = r.priority /\ q.state = "on" => r.state = "on"
  <2>1. \A q \in rules : q.priority \in Int /\ q.state \in Power
    BY <1>1
  <2>2. r \in Winners(rules)
    BY DEF rules
  <2>3. ASSUME NEW q \in rules
        PROVE  /\ r \in rules /\ q.priority <= r.priority
               /\ q.priority = r.priority /\ q.state = "on" => r.state = "on"
    BY <2>1, <2>2, WinnerIsSafest
  <2>4. r \in rules
    BY <2>2 DEF Winners
  <2> QED
    BY <2>3, <2>4
<1> DEFINE own == [priority |-> r.priority, state |-> r.state]
<1>4. own \in TopDemands(P, O, w)
  <2>1. own \in Demands(P, O, w)
    BY <1>1, <1>3
  <2>2. ASSUME NEW f \in Demands(P, O, w) PROVE f.priority <= own.priority
    BY <1>1, <1>3
  <2> QED
    BY <1>2, <2>1, <2>2
<1>5. ASSUME NEW e \in TopDemands(P, O, w), e.state = "on" PROVE r.state = "on"
  <2>1. PICK q \in rules : q.priority = e.priority /\ q.state = e.state
    BY <1>1, <1>2
  <2>2. own.priority <= e.priority
    BY <1>1, <1>2, <1>3
  <2>3. q.priority = r.priority
    <3>1. q.priority \in Int /\ r.priority \in Int
      BY <1>1, <1>3
    <3>2. r.priority <= q.priority
      BY <2>1, <2>2
    <3> QED
      BY <1>3, <3>1, <3>2
  <2> QED
    BY <1>3, <1>5, <2>1, <2>3
<1>6. r.state \in Power
  BY <1>1, <1>3
<1>7. own.state = r.state
  OBVIOUS
<1> HIDE DEF own
<1> QED
  BY <1>4, <1>5, <1>6, <1>7 DEF Asked, Power

\* Any rules of the right type lead to one decision, that for the state which they
\* ask for, in whatever order they are listed.
LEMMA DecisionUnique ==
    ASSUME TypeOK, NEW w \in Workloads, NEW P \in Policies, NEW O \in Overrides
    PROVE  Decisions(P, O, w) = {Decision(Asked(P, O, w), w)}
<1> DEFINE rules == Gathered(P, O, w)
<1>1. CASE facts[w].exempt \/ rules = {}
  <2>1. rules = {} => Demands(P, O, w) = {}
    BY RulesAreDemands
  <2>2. facts[w].exempt \/ TopDemands(P, O, w) = {}
    BY <1>1, <2>1 DEF TopDemands, Demands
  <2>3. Asked(P, O, w) = "none"
    BY <2>2 DEF Asked
  <2> QED
    BY <1>1, <2>3, DecisionsOfWinners
<1>2. CASE ~(facts[w].exempt \/ rules = {})
  <2>1. Winners(rules) # {}
    BY <1>2, GatheredTyped, WinnersExist
  <2>2. \A r \in Winners(rules) : r.state = Asked(P, O, w)
    BY <1>2, WinnersAsAsked
  <2>3. Decisions(P, O, w) = {Decision(r.state, w) : r \in Winners(rules)}
    BY <1>2, DecisionsOfWinners
  <2> HIDE DEF rules
  <2> QED
    BY <2>1, <2>2, <2>3
<1> QED
  BY <1>1, <1>2

\* A workload that is to be off is held back exactly if it is protected.
LEMMA GuardedIsProtected ==
    ASSUME TypeOK, NEW w \in Workloads, ~facts[w].exempt
    PROVE  EvaluateGuardrails(w, facts[w]) # {} <=> Protected(w)
<1>1. facts[w].signals \subseteq Waivable
  BY EngineAssumption DEF TypeOK, Facts
<1> QED
  BY <1>1 DEF EvaluateGuardrails, Waivable, Protected

\* The rules are kept by name.
RulesByName ==
    /\ policies = [m \in DOMAIN policies |-> policies[m]]
    /\ overrides = [m \in DOMAIN overrides |-> overrides[m]]

\* Every step keeps them so.
LEMMA RulesStayByName == RulesByName /\ [Next]_vars => RulesByName'
<1> SUFFICES ASSUME RulesByName, [Next]_vars PROVE RulesByName'
  OBVIOUS
<1>1. \/ policies' = policies
      \/ \E n, p : policies' = With(policies, n, p)
      \/ \E n : policies' = Without(policies, n)
  BY DEF Next, vars, CreatePolicy, UpdatePolicy, DeletePolicy, CreateOverride,
         UpdateOverride, DeleteOverride, PutNamespaceGroup, DeleteNamespaceGroup,
         RefreshTarget, Tick
<1>2. \/ overrides' = overrides
      \/ \E n, o : overrides' = With(overrides, n, o)
      \/ \E n : overrides' = Without(overrides, n)
  BY DEF Next, vars, CreatePolicy, UpdatePolicy, DeletePolicy, CreateOverride,
         UpdateOverride, DeleteOverride, PutNamespaceGroup, DeleteNamespaceGroup,
         RefreshTarget, Tick
<1>3. policies' = [m \in DOMAIN policies' |-> policies'[m]]
  <2>1. CASE policies' = policies
    BY <2>1 DEF RulesByName
  <2>2. ASSUME NEW n, NEW r, policies' = With(policies, n, r)
        PROVE  policies' = [m \in DOMAIN policies' |-> policies'[m]]
    BY <2>2 DEF With
  <2>3. ASSUME NEW n, policies' = Without(policies, n)
        PROVE  policies' = [m \in DOMAIN policies' |-> policies'[m]]
    BY <2>3 DEF Without
  <2> QED
    BY <1>1, <2>1, <2>2, <2>3
<1>4. overrides' = [m \in DOMAIN overrides' |-> overrides'[m]]
  <2>1. CASE overrides' = overrides
    BY <2>1 DEF RulesByName
  <2>2. ASSUME NEW n, NEW r, overrides' = With(overrides, n, r)
        PROVE  overrides' = [m \in DOMAIN overrides' |-> overrides'[m]]
    BY <2>2 DEF With
  <2>3. ASSUME NEW n, overrides' = Without(overrides, n)
        PROVE  overrides' = [m \in DOMAIN overrides' |-> overrides'[m]]
    BY <2>3 DEF Without
  <2> QED
    BY <1>2, <2>1, <2>2, <2>3
<1> QED
  BY <1>3, <1>4 DEF RulesByName

\* The stored rules are always of the right type.
LEMMA StoredRules == Spec => [](TypeOK /\ RulesByName)
<1>1. Init => RulesByName
  BY DEF Init, RulesByName
<1> QED
  BY <1>1, RulesStayByName, TypeCorrect, PTL DEF Spec

\* Types and names together make the stored rules functions of the right type.
LEMMA StoredTyped ==
    TypeOK /\ RulesByName => policies \in Policies /\ overrides \in Overrides
<1> SUFFICES ASSUME TypeOK, RulesByName
             PROVE  policies \in Policies /\ overrides \in Overrides
  OBVIOUS
<1>1. policies \in [DOMAIN policies -> PolicySpec]
  BY DEF TypeOK, RulesByName
<1>2. overrides \in [DOMAIN overrides -> OverrideSpec]
  BY DEF TypeOK, RulesByName
<1>3. DOMAIN policies \in SUBSET Names /\ DOMAIN overrides \in SUBSET Names
  BY DEF TypeOK
<1> QED
  BY <1>1, <1>2, <1>3 DEF Policies, Overrides

\* In every reachable state, and in whatever order the rules are listed, the
\* engine (ComputeDecision with ResolveScope, EvaluateSchedule, IsExpired and
\* ResolvePriority) reaches exactly one decision, and wants a workload off only if
\* all the rules in force with the highest priority do.
THEOREM SafetyFirstHolds == Spec => []SafetyFirst
<1>1. TypeOK /\ RulesByName => SafetyFirst
  <2> SUFFICES ASSUME TypeOK, RulesByName, NEW w \in Workloads
               PROVE  \E d \in Possible(w) : Possible(w) = {d} /\ d.desired = Demanded(w)
    BY DEF SafetyFirst
  <2>1. Possible(w) = {Decision(Demanded(w), w)}
    BY StoredTyped, DecisionUnique DEF Possible, Decisions, Demanded
  <2>2. Decision(Demanded(w), w).desired = Demanded(w)
    BY DEF Decision
  <2> QED
    BY <2>1, <2>2
<1> QED
  BY <1>1, StoredRules, PTL

\* In every reachable state a power-down is blocked exactly for protected
\* namespaces and for owned workloads without an opt-in (EvaluateGuardrails).
THEOREM GuardrailsHoldAlways == Spec => []GuardrailsHold
<1>1. TypeOK /\ RulesByName => GuardrailsHold
  <2> SUFFICES ASSUME TypeOK, RulesByName, NEW w \in Workloads, NEW d \in Possible(w),
                      d.desired = "off"
               PROVE  d.blocked <=> Protected(w)
    BY DEF GuardrailsHold
  <2>1. d = Decision(Demanded(w), w)
    BY StoredTyped, DecisionUnique DEF Possible, Decisions, Demanded
  <2>2. Demanded(w) = "off"
    BY <2>1 DEF Decision
  <2>3. ~facts[w].exempt
    BY <2>2 DEF Demanded, Asked
  <2>4. d.blocked <=> EvaluateGuardrails(w, facts[w]) # {}
    BY <2>1, <2>2 DEF Decision
  <2> QED
    BY <2>3, <2>4, GuardedIsProtected
<1> QED
  BY <1>1, StoredRules, PTL

\* When groups only disappear, a scope that still resolves did so before, and
\* to the same namespaces.
LEMMA ResolutionOfTheRest ==
    ASSUME GroupsOnlyRemoved, NEW scope, Resolvable(scope, groups')
    PROVE  /\ Resolvable(scope, groups)
           /\ ResolveScope(scope, groups') = ResolveScope(scope, groups)
<1>1. /\ scope.groups \cap DOMAIN groups' = scope.groups
      /\ scope.groups \cap DOMAIN groups = scope.groups
      /\ \A g \in scope.groups : groups'[g] = groups[g]
  BY DEF GroupsOnlyRemoved, Resolvable
<1>2. {groups'[g] : g \in scope.groups \cap DOMAIN groups'}
          = {groups[g] : g \in scope.groups \cap DOMAIN groups}
  BY <1>1
<1>3. Resolvable(scope, groups)
  BY <1>1 DEF Resolvable
<1> QED
  BY <1>2, <1>3 DEF ResolveScope

\* Deleting a namespace group never brings a rule to a workload that it did not
\* cover (ResolveScope returns an error, loadPolicies and loadOverrides skip the
\* rule): no rule becomes cluster-wide.
THEOREM GroupRemovalNarrowsHolds == Spec => GroupRemovalNarrows
<1>1. [Next]_vars =>
          [GroupsOnlyRemoved =>
              \A w \in Workloads : Applicable(w)' \subseteq Applicable(w)]_vars
  <2> SUFFICES ASSUME [Next]_vars, GroupsOnlyRemoved, NEW w \in Workloads
               PROVE  Applicable(w)' \subseteq Applicable(w)
    OBVIOUS
  <2>1. UNCHANGED <<policies, overrides, facts, now>>
    BY DEF GroupsOnlyRemoved, Next, vars, CreatePolicy, UpdatePolicy,
           DeletePolicy, CreateOverride, UpdateOverride, DeleteOverride, PutNamespaceGroup,
           DeleteNamespaceGroup, RefreshTarget, Tick
  <2>2. \A m \in Loaded(policies, groups') :
            /\ m \in Loaded(policies, groups)
            /\ ResolveScope(policies[m].scope, groups')
                  = ResolveScope(policies[m].scope, groups)
    BY ResolutionOfTheRest DEF Loaded
  <2>3. \A m \in Loaded(overrides, groups') :
            /\ m \in Loaded(overrides, groups)
            /\ ResolveScope(overrides[m].scope, groups')
                  = ResolveScope(overrides[m].scope, groups)
    BY ResolutionOfTheRest DEF Loaded
  <2> DEFINE Collected(g) ==
                 CollectApplicableRules(w, facts[w], policies, overrides, g, now)
  <2>4. Collected(groups') \subseteq Collected(groups)
    BY <2>2, <2>3 DEF CollectApplicableRules
  <2>5. Applicable(w)' = Collected(groups') /\ Applicable(w) = Collected(groups)
    BY <2>1 DEF Applicable
  <2> QED
    BY <2>4, <2>5
<1> QED
  BY <1>1, PTL DEF Spec, GroupRemovalNarrows

\* A rule that neither has nor had a workload in its scope changes nothing in
\* the rules that apply to it.
LEMMA OutOfScope ==
    ASSUME TypeOK, TypeOK', UNCHANGED <<groups, facts, now>>, NEW w \in Workloads,
           \A n \in Changed(policies, policies') :
               ~Reaches(policies, n, w) /\ ~Reaches(policies', n, w),
           \A n \in Changed(overrides, overrides') :
               ~Reaches(overrides, n, w) /\ ~Reaches(overrides', n, w)
    PROVE  Applicable(w)' = Applicable(w)
<1> DEFINE Matching(rules) ==
               {m \in Loaded(rules, groups) :
                   MatchesScope(w, facts[w], ResolveScope(rules[m].scope, groups))}
<1>1. ASSUME NEW rules, \A n \in DOMAIN rules : rules[n].scope \in Scope
      PROVE  Matching(rules) = {n \in DOMAIN rules : Reaches(rules, n, w)}
  BY <1>1, ScopeResolution DEF Loaded, Reaches
<1>2. /\ \A n \in DOMAIN policies : policies[n].scope \in Scope
      /\ \A n \in DOMAIN policies' : policies'[n].scope \in Scope
      /\ \A n \in DOMAIN overrides : overrides[n].scope \in Scope
      /\ \A n \in DOMAIN overrides' : overrides'[n].scope \in Scope
  BY DEF TypeOK, PolicySpec, OverrideSpec
<1>3. /\ Matching(policies') = Matching(policies)
      /\ \A n \in Matching(policies) : policies'[n] = policies[n]
  <2>1. Matching(policies) = {n \in DOMAIN policies : Reaches(policies, n, w)}
    BY <1>1, <1>2
  <2>2. Matching(policies') = {n \in DOMAIN policies' : Reaches(policies', n, w)}
    BY <1>1, <1>2
  <2> HIDE DEF Matching
  <2>3. \A n \in DOMAIN policies : Reaches(policies, n, w) =>
            n \in DOMAIN policies' /\ policies'[n] = policies[n]
    BY DEF Changed
  <2>4. \A n \in DOMAIN policies' : Reaches(policies', n, w) =>
            n \in DOMAIN policies /\ policies'[n] = policies[n]
    BY DEF Changed
  <2> QED
    BY <2>1, <2>2, <2>3, <2>4 DEF Reaches
<1>4. /\ Matching(overrides') = Matching(overrides)
      /\ \A n \in Matching(overrides) : overrides'[n] = overrides[n]
  <2>1. Matching(overrides) = {n \in DOMAIN overrides : Reaches(overrides, n, w)}
    BY <1>1, <1>2
  <2>2. Matching(overrides') = {n \in DOMAIN overrides' : Reaches(overrides', n, w)}
    BY <1>1, <1>2
  <2> HIDE DEF Matching
  <2>3. \A n \in DOMAIN overrides : Reaches(overrides, n, w) =>
            n \in DOMAIN overrides' /\ overrides'[n] = overrides[n]
    BY DEF Changed
  <2>4. \A n \in DOMAIN overrides' : Reaches(overrides', n, w) =>
            n \in DOMAIN overrides /\ overrides'[n] = overrides[n]
    BY DEF Changed
  <2> QED
    BY <2>1, <2>2, <2>3, <2>4 DEF Reaches
<1> DEFINE Collected(p, o) == CollectApplicableRules(w, facts[w], p, o, groups, now)
<1>5. \A p, o : Collected(p, o) =
         {PolicyRule(n, p[n], ResolveScope(p[n].scope, groups), now) :
             n \in Matching(p)}
         \cup
         {OverrideRule(n, o[n], ResolveScope(o[n].scope, groups)) :
             n \in {m \in Matching(o) : ~IsExpired(o[m], now)}}
  BY DEF CollectApplicableRules
<1>6. /\ Applicable(w)' = Collected(policies', overrides')
      /\ Applicable(w) = Collected(policies, overrides)
  BY DEF Applicable
<1> HIDE DEF Matching, Collected
<1>7. {PolicyRule(n, policies'[n], ResolveScope(policies'[n].scope, groups), now) :
          n \in Matching(policies')}
      = {PolicyRule(n, policies[n], ResolveScope(policies[n].scope, groups), now) :
          n \in Matching(policies)}
  BY <1>3
<1>8. {m \in Matching(overrides') : ~IsExpired(overrides'[m], now)}
      = {m \in Matching(overrides) : ~IsExpired(overrides[m], now)}
  BY <1>4
<1>9. {OverrideRule(n, overrides'[n], ResolveScope(overrides'[n].scope, groups)) :
          n \in {m \in Matching(overrides') : ~IsExpired(overrides'[m], now)}}
      = {OverrideRule(n, overrides[n], ResolveScope(overrides[n].scope, groups)) :
          n \in {m \in Matching(overrides) : ~IsExpired(overrides[m], now)}}
  BY <1>4, <1>8
<1> QED
  BY <1>5, <1>6, <1>7, <1>9

\* A rule that is created, changed or deleted reaches no decision outside the
\* scope it has or had.
THEOREM ChangeStaysInScopeHolds == Spec => ChangeStaysInScope
<1> DEFINE Reached(w) ==
               \/ \E n \in Changed(policies, policies') :
                     Reaches(policies, n, w) \/ Reaches(policies', n, w)
               \/ \E n \in Changed(overrides, overrides') :
                     Reaches(overrides, n, w) \/ Reaches(overrides', n, w)
<1>1. ASSUME TypeOK, TypeOK', [Next]_vars,
             policies' # policies \/ overrides' # overrides,
             NEW w \in Workloads, ~Reached(w)
      PROVE  Effective(w)' = Effective(w)
  <2>1. UNCHANGED <<groups, facts, now>>
    BY <1>1 DEF Next, vars, CreatePolicy, UpdatePolicy, DeletePolicy, CreateOverride,
       UpdateOverride, DeleteOverride, PutNamespaceGroup, DeleteNamespaceGroup,
       RefreshTarget, Tick
  <2>2. Applicable(w)' = Applicable(w)
    BY <1>1, <2>1, OutOfScope
  <2> DEFINE Decided(rules) ==
                 IF facts[w].exempt \/ rules = {} THEN {Unmanaged}
                 ELSE {[desired |-> r.state,
                        blocked |-> r.state = "off"
                                    /\ EvaluateGuardrails(w, facts[w]) # {}] :
                           r \in Winners(rules)}
  <2>3. /\ Effective(w)' = CHOOSE d \in Decided(Applicable(w)') : TRUE
        /\ Effective(w) = CHOOSE d \in Decided(Applicable(w)) : TRUE
    BY <2>1 DEF Effective, ComputeDecision, ComputeDecisions, Applicable
  <2> QED
    BY <2>2, <2>3
<1>2. TypeOK /\ TypeOK' /\ [Next]_vars
      => [policies' # policies \/ overrides' # overrides =>
             \A w \in Workloads : Reached(w) \/ Effective(w)' = Effective(w)]_vars
  BY <1>1
<1>3. TypeOK /\ TypeOK' /\ [Next]_vars
      => [policies' # policies \/ overrides' # overrides =>
             \A w \in Workloads :
                 \/ \E n \in Changed(policies, policies') :
                       Reaches(policies, n, w) \/ Reaches(policies', n, w)
                 \/ \E n \in Changed(overrides, overrides') :
                       Reaches(overrides, n, w) \/ Reaches(overrides', n, w)
                 \/ Effective(w)' = Effective(w)]_vars
  BY <1>2
<1> QED
  BY <1>3, TypeCorrect, PTL DEF Spec, ChangeStaysInScope

-----------------------------------------------------------------------------
(* The preview *)

\* Impact reads the decisions the way the property does.
LEMMA ImpactHolds ==
    ASSUME TypeOK, NEW w \in Workloads,
           NEW before \in {"none", "on", "off"}, NEW after \in {"none", "on", "off"},
           facts[w].exempt => after = "none"
    PROVE  PreviewHolds(Impact(Decision(before, w), Decision(after, w)),
                        before, after, w)
<1> DEFINE guarded == EvaluateGuardrails(w, facts[w]) # {}
           said == Impact(Decision(before, w), Decision(after, w))
<1>1. said = IF after = "none" THEN "none"
             ELSE IF after = "off" /\ guarded THEN "blocked"
             ELSE IF before # after THEN after ELSE "none"
  BY DEF Impact, Decision
<1>2. after # "none" => (guarded <=> Protected(w))
  BY GuardedIsProtected
<1> HIDE DEF guarded, said
<1>3. PreviewHolds(said, before, after, w)
  BY <1>1, <1>2 DEF PreviewHolds
<1> QED
  BY <1>3 DEF said

\* The rules ask for one of three things.
LEMMA AskedTyped ==
    ASSUME NEW P, NEW O, NEW w
    PROVE  /\ Asked(P, O, w) \in {"none", "on", "off"}
           /\ facts[w].exempt => Asked(P, O, w) = "none"
  BY DEF Asked

\* The rules with and without one of them are of the right type.
LEMMA PoliciesTyped ==
    ASSUME NEW P \in Policies, NEW n \in Names, NEW p \in PolicySpec
    PROVE  Without(P, n) \in Policies /\ With(P, n, p) \in Policies
<1>1. /\ DOMAIN P \in SUBSET Names
      /\ \A m \in DOMAIN P : P[m] \in PolicySpec
  BY DEF Policies
<1>2. Without(P, n) \in [DOMAIN P \ {n} -> PolicySpec]
  BY <1>1 DEF Without
<1>3. With(P, n, p) \in [DOMAIN P \cup {n} -> PolicySpec]
  BY <1>1 DEF With
<1>4. DOMAIN P \ {n} \in SUBSET Names /\ DOMAIN P \cup {n} \in SUBSET Names
  BY <1>1
<1> QED
  BY <1>2, <1>3, <1>4 DEF Policies

\* The same of overrides.
LEMMA OverridesTyped ==
    ASSUME NEW O \in Overrides, NEW n \in Names, NEW o \in OverrideSpec
    PROVE  Without(O, n) \in Overrides /\ With(O, n, o) \in Overrides
<1>1. /\ DOMAIN O \in SUBSET Names
      /\ \A m \in DOMAIN O : O[m] \in OverrideSpec
  BY DEF Overrides
<1>2. Without(O, n) \in [DOMAIN O \ {n} -> OverrideSpec]
  BY <1>1 DEF Without
<1>3. With(O, n, o) \in [DOMAIN O \cup {n} -> OverrideSpec]
  BY <1>1 DEF With
<1>4. DOMAIN O \ {n} \in SUBSET Names /\ DOMAIN O \cup {n} \in SUBSET Names
  BY <1>1
<1> QED
  BY <1>2, <1>3, <1>4 DEF Overrides

\* What a preview says is right for any rules and any proposed policy.
LEMMA PolicyPreview ==
    ASSUME TypeOK, NEW w \in Workloads, NEW P \in Policies, NEW O \in Overrides,
           NEW n \in Names, NEW p \in PolicySpec
    PROVE  PreviewHolds(PreviewPolicy(n, p, w, facts[w], P, O, groups, now),
                        Asked(Without(P, n), O, w),
                        Asked(With(P, n, p), O, w), w)
<1> DEFINE others == Without(P, n)
           proposed == [p EXCEPT !.created = now]
           hypothetical == With(others, n, proposed)
<1>1. proposed \in PolicySpec
  BY DEF PolicySpec, TypeOK
<1>2. others \in Policies /\ hypothetical \in Policies
  BY <1>1, PoliciesTyped
<1>3. Asked(hypothetical, O, w) = Asked(With(P, n, p), O, w)
  <2>1. /\ DOMAIN hypothetical = DOMAIN P \cup {n}
        /\ DOMAIN With(P, n, p) = DOMAIN P \cup {n}
    BY DEF With, Without
  <2>2. \A m \in DOMAIN P \cup {n} :
            /\ hypothetical[m].scope = With(P, n, p)[m].scope
            /\ hypothetical[m].priority = With(P, n, p)[m].priority
            /\ hypothetical[m].schedule = With(P, n, p)[m].schedule
    BY DEF With, Without, PolicySpec
  <2> HIDE DEF hypothetical
  <2>3. PolicyDemands(hypothetical, w) = PolicyDemands(With(P, n, p), w)
    BY <2>1, <2>2 DEF PolicyDemands
  <2>4. TopDemands(hypothetical, O, w) = TopDemands(With(P, n, p), O, w)
    BY <2>3 DEF TopDemands
  <2> QED
    BY <2>4 DEF Asked
<1> HIDE DEF others, hypothetical
<1>4. /\ Decisions(others, O, w) = {Decision(Asked(others, O, w), w)}
      /\ Decisions(hypothetical, O, w) = {Decision(Asked(hypothetical, O, w), w)}
  BY <1>2, DecisionUnique
<1>5. PreviewPolicy(n, p, w, facts[w], P, O, groups, now)
         = Impact(CHOOSE d \in Decisions(others, O, w) : TRUE,
                  CHOOSE d \in Decisions(hypothetical, O, w) : TRUE)
  BY DEF PreviewPolicy, ComputeDecision, Decisions, others, hypothetical
<1>6. PreviewPolicy(n, p, w, facts[w], P, O, groups, now)
         = Impact(Decision(Asked(others, O, w), w),
                  Decision(Asked(hypothetical, O, w), w))
  BY <1>4, <1>5
<1>7. PreviewHolds(Impact(Decision(Asked(others, O, w), w),
                          Decision(Asked(hypothetical, O, w), w)),
                   Asked(others, O, w), Asked(hypothetical, O, w), w)
  BY AskedTyped, ImpactHolds
<1> QED
  BY <1>3, <1>6, <1>7 DEF others

\* The same of a proposed override.
LEMMA OverridePreview ==
    ASSUME TypeOK, NEW w \in Workloads, NEW P \in Policies, NEW O \in Overrides,
           NEW n \in Names, NEW o \in OverrideSpec
    PROVE  PreviewHolds(PreviewOverride(n, o, w, facts[w], P, O, groups, now),
                        Asked(P, Without(O, n), w),
                        Asked(P, With(O, n, o), w), w)
<1> DEFINE others == Without(O, n)
           proposed == [o EXCEPT !.created = now]
           hypothetical == With(others, n, proposed)
<1>1. proposed \in OverrideSpec
  BY DEF OverrideSpec, TypeOK
<1>2. others \in Overrides /\ hypothetical \in Overrides
  BY <1>1, OverridesTyped
<1>3. Asked(P, hypothetical, w) = Asked(P, With(O, n, o), w)
  <2>1. /\ DOMAIN hypothetical = DOMAIN O \cup {n}
        /\ DOMAIN With(O, n, o) = DOMAIN O \cup {n}
    BY DEF With, Without
  <2>2. \A m \in DOMAIN O \cup {n} :
            /\ hypothetical[m].scope = With(O, n, o)[m].scope
            /\ hypothetical[m].priority = With(O, n, o)[m].priority
            /\ hypothetical[m].state = With(O, n, o)[m].state
            /\ hypothetical[m].expires = With(O, n, o)[m].expires
    BY DEF With, Without, OverrideSpec
  <2> HIDE DEF hypothetical
  <2>3. OverrideDemands(hypothetical, w) = OverrideDemands(With(O, n, o), w)
    BY <2>1, <2>2 DEF OverrideDemands
  <2>4. TopDemands(P, hypothetical, w) = TopDemands(P, With(O, n, o), w)
    BY <2>3 DEF TopDemands
  <2> QED
    BY <2>4 DEF Asked
<1> HIDE DEF others, hypothetical
<1>4. /\ Decisions(P, others, w) = {Decision(Asked(P, others, w), w)}
      /\ Decisions(P, hypothetical, w) = {Decision(Asked(P, hypothetical, w), w)}
  BY <1>2, DecisionUnique
<1>5. PreviewOverride(n, o, w, facts[w], P, O, groups, now)
         = Impact(CHOOSE d \in Decisions(P, others, w) : TRUE,
                  CHOOSE d \in Decisions(P, hypothetical, w) : TRUE)
  BY DEF PreviewOverride, ComputeDecision, Decisions, others, hypothetical
<1>6. PreviewOverride(n, o, w, facts[w], P, O, groups, now)
         = Impact(Decision(Asked(P, others, w), w),
                  Decision(Asked(P, hypothetical, w), w))
  BY <1>4, <1>5
<1>7. PreviewHolds(Impact(Decision(Asked(P, others, w), w),
                          Decision(Asked(P, hypothetical, w), w)),
                   Asked(P, others, w), Asked(P, hypothetical, w), w)
  BY AskedTyped, ImpactHolds
<1> QED
  BY <1>3, <1>6, <1>7 DEF others

\* A policy that is new or changed after a step is the one that the step stored.
LEMMA PolicyStored ==
    ASSUME TypeOK, TypeOK', Next, NEW n \in Changed(policies, policies') \cap DOMAIN policies'
    PROVE  /\ UNCHANGED <<overrides, groups, facts, now>>
           /\ n \in Names /\ policies'[n] \in PolicySpec
           /\ policies' = With(policies, n, policies'[n])
<1>1. PICK m \in Names : CreatePolicy(m) \/ UpdatePolicy(m)
  BY DEF Next, DeletePolicy, CreateOverride, UpdateOverride, DeleteOverride,
         PutNamespaceGroup, DeleteNamespaceGroup, RefreshTarget, Tick, Without, Changed
<1>2. PICK p : policies' = With(policies, m, p)
  BY <1>1 DEF CreatePolicy, UpdatePolicy
<1>3. n = m /\ policies'[n] = p
  BY <1>2 DEF With, Changed
<1>4. n \in Names /\ policies'[n] \in PolicySpec
  BY DEF TypeOK
<1> QED
  BY <1>1, <1>2, <1>3, <1>4 DEF CreatePolicy, UpdatePolicy

\* The same of an override.
LEMMA OverrideStored ==
    ASSUME TypeOK, TypeOK', Next,
           NEW n \in Changed(overrides, overrides') \cap DOMAIN overrides'
    PROVE  /\ UNCHANGED <<policies, groups, facts, now>>
           /\ n \in Names /\ overrides'[n] \in OverrideSpec
           /\ overrides' = With(overrides, n, overrides'[n])
<1>1. PICK m \in Names : CreateOverride(m) \/ UpdateOverride(m)
  BY DEF Next, CreatePolicy, UpdatePolicy, DeletePolicy, DeleteOverride,
         PutNamespaceGroup, DeleteNamespaceGroup, RefreshTarget, Tick, Without, Changed
<1>2. PICK o : overrides' = With(overrides, m, o)
  BY <1>1 DEF CreateOverride, UpdateOverride
<1>3. n = m /\ overrides'[n] = o
  BY <1>2 DEF With, Changed
<1>4. n \in Names /\ overrides'[n] \in OverrideSpec
  BY DEF TypeOK
<1> QED
  BY <1>1, <1>2, <1>3, <1>4 DEF CreateOverride, UpdateOverride

\* When nothing but the rules changes, the next state asks for what its rules ask
\* for now.
LEMMA AskedNext ==
    ASSUME UNCHANGED <<groups, facts, now>>, NEW w \in Workloads
    PROVE  Demanded(w)' = Asked(policies', overrides', w)
<1>1. PolicyDemands(policies, w)' = PolicyDemands(policies', w)
  BY DEF PolicyDemands, Covers
<1>2. OverrideDemands(overrides, w)' = OverrideDemands(overrides', w)
  BY DEF OverrideDemands, Covers
<1>3. TopDemands(policies, overrides, w)' = TopDemands(policies', overrides', w)
  BY <1>1, <1>2 DEF TopDemands
<1> QED
  BY <1>3 DEF Demanded, Asked

\* The preview of a rule is right about what each workload is asked for once the
\* rule is created or changed, and lists those that the other rules leave otherwise
\* (PreviewPolicy, PreviewOverride), for any rules, groups and workloads: neither
\* the creation time that the preview makes up nor the order of the rules matters.
THEOREM RulePreviewedHolds == Spec => RulePreviewed
<1> DEFINE P ==
      \A n \in Changed(policies, policies') \cap DOMAIN policies',
         w \in Workloads :
             Previewable(policies', overrides, groups) =>
                 PreviewHolds(PreviewPolicy(n, policies'[n], w, facts[w], policies,
                                            overrides, groups, now),
                              Asked(Without(policies, n), overrides, w),
                              Demanded(w)', w)
    O ==
      \A n \in Changed(overrides, overrides') \cap DOMAIN overrides',
         w \in Workloads :
             Previewable(policies, overrides', groups) =>
                 PreviewHolds(PreviewOverride(n, overrides'[n], w, facts[w], policies,
                                              overrides, groups, now),
                              Asked(policies, Without(overrides, n), w),
                              Demanded(w)', w)
<1>1. ASSUME TypeOK, TypeOK', RulesByName, Next PROVE P
  <2> TAKE n \in Changed(policies, policies') \cap DOMAIN policies', w \in Workloads
  <2>1. /\ UNCHANGED <<overrides, groups, facts, now>>
        /\ n \in Names /\ policies'[n] \in PolicySpec
        /\ policies' = With(policies, n, policies'[n])
    BY <1>1, PolicyStored
  <2>2. policies \in Policies /\ overrides \in Overrides
    BY <1>1, StoredTyped
  <2>3. Demanded(w)' = Asked(With(policies, n, policies'[n]), overrides, w)
    BY <2>1, AskedNext
  <2>4. PreviewHolds(PreviewPolicy(n, policies'[n], w, facts[w], policies,
                                   overrides, groups, now),
                     Asked(Without(policies, n), overrides, w),
                     Asked(With(policies, n, policies'[n]), overrides, w), w)
    BY <1>1, <2>1, <2>2, PolicyPreview
  <2> QED
    BY <2>3, <2>4
<1>2. ASSUME TypeOK, TypeOK', RulesByName, Next PROVE O
  <2> TAKE n \in Changed(overrides, overrides') \cap DOMAIN overrides', w \in Workloads
  <2>1. /\ UNCHANGED <<policies, groups, facts, now>>
        /\ n \in Names /\ overrides'[n] \in OverrideSpec
        /\ overrides' = With(overrides, n, overrides'[n])
    BY <1>2, OverrideStored
  <2>2. policies \in Policies /\ overrides \in Overrides
    BY <1>2, StoredTyped
  <2>3. Demanded(w)' = Asked(policies, With(overrides, n, overrides'[n]), w)
    BY <2>1, AskedNext
  <2>4. PreviewHolds(PreviewOverride(n, overrides'[n], w, facts[w], policies,
                                     overrides, groups, now),
                     Asked(policies, Without(overrides, n), w),
                     Asked(policies, With(overrides, n, overrides'[n]), w), w)
    BY <1>2, <2>1, <2>2, OverridePreview
  <2> QED
    BY <2>3, <2>4
<1>3. TypeOK /\ TypeOK' /\ RulesByName /\ [Next]_vars => [P /\ O]_vars
  BY <1>1, <1>2
<1> QED
  BY <1>3, StoredRules, PTL DEF Spec, RulePreviewed
=============================================================================
