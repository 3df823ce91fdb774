----------------------- MODULE ImplicitPoliciesProofs -----------------------
(***************************************************************************)
(* Proofs about ImplicitPolicies for every set of namespaces, schedules and *)
(* annotations.  Only a policy that the loop has read as its own, or as     *)
(* missing, is written, but it may have been taken over since; so the       *)
(* invariant says what a copy with the current revision is worth.           *)
(***************************************************************************)
EXTENDS ImplicitPolicies, TLAPS

\* A copy is not ahead of the policy, and with its revision it is the policy.
CopyOf(copy, policy) ==
    /\ copy.rev <= policy.rev
    /\ copy.rev = policy.rev => copy = policy

ViewAgrees ==
    \A ns \in Namespaces : CopyOf(view.policies[ns], policies[ns])

\* What the cycle is about to overwrite was its own or missing when it was read.
ReadAgrees ==
    pc = "write" =>
        /\ CopyOf(object.policy, policies[object.name])
        /\ object.policy.kind # "foreign"

Inv == TypeOK /\ ViewAgrees /\ ReadAgrees

-----------------------------------------------------------------------------
(* Operators *)

\* A priority is legal whatever the annotation says.
LEMMA LegalPriority ==
    ASSUME NEW text PROVE parseNamespacePriority(text) \in 0..MaxPriority
  BY ImplicitPoliciesAssumption DEF parseNamespacePriority

\* For a namespace that has gone on to its policy the desired one is defined.
LEMMA DesiredTyped ==
    ASSUME TypeOK, NEW ns \in Resolved(listed)
    PROVE  ns \in Namespaces /\ Desired(ns) \in Derived
<1> DEFINE a == listed.annotations[ns]
<1>1. ns \in Namespaces /\ a \in Annotations /\ a.schedule # NoSchedule
      /\ listed.schedules[a.schedule] # NoSpec
  BY DEF TypeOK, Resolved, Annotated
<1>2. a.schedule \in ScheduleNames
  BY <1>1 DEF Annotations
<1>3. listed.schedules[a.schedule] \in Specs
  BY <1>1, <1>2 DEF TypeOK
<1>4. parseNamespacePriority(a.priority) \in 0..MaxPriority
  BY LegalPriority
<1> QED
  BY <1>1, <1>2, <1>3, <1>4 DEF Desired, namespacePolicySpec, Derived

\* What stands for nothing is well typed.
LEMMA NothingTyped ==
    /\ NoObject \in [name : ScheduleNames \cup Namespaces \cup {NoSchedule},
                     policy : Policies]
    /\ Unlisted \in [annotations : [Namespaces -> Annotations],
                     schedules : [ScheduleNames -> Specs \cup {NoSpec}]]
  BY ImplicitPoliciesAssumption
     DEF NoObject, NoPolicy, Unlisted, Policies, Annotations

\* A count that has room stays within its bound.
LEMMA Counted ==
    /\ TypeOK /\ Fault => faults' \in 0..MaxFaults
    /\ TypeOK /\ Edit => edits' \in 0..MaxEdits
  BY ImplicitPoliciesAssumption DEF TypeOK, Fault, Edit

-----------------------------------------------------------------------------
(* The invariant *)

\* The loop is installed with informers that are in step.
LEMMA InitInv ==
    Init => Inv
<1> SUFFICES ASSUME Init PROVE Inv
  OBVIOUS
<1>1. annotations \in [Namespaces -> Annotations]
  BY ImplicitPoliciesAssumption DEF Init, Annotations
<1>2. policies \in [Namespaces -> Policies]
  BY ImplicitPoliciesAssumption DEF Init, Policies
<1>3. TypeOK
  BY <1>1, <1>2, NothingTyped, ImplicitPoliciesAssumption DEF Init, TypeOK
<1>4. \A ns \in Namespaces : policies[ns].rev \in Nat
  BY <1>2 DEF Policies
<1>5. view.policies = policies
  BY DEF Init
<1>6. ASSUME NEW ns \in Namespaces PROVE CopyOf(policies[ns], policies[ns])
  <2>1. policies[ns].rev <= policies[ns].rev
    BY <1>4
  <2> QED
    BY <2>1, Zenon DEF CopyOf
<1>7. ViewAgrees
  BY <1>5, <1>6, Zenon DEF ViewAgrees
<1> QED
  BY <1>3, <1>7 DEF Inv, ReadAgrees, Init

\* A step that leaves the policies and their copies alone, and is not about to
\* write, keeps the copies in order.
LEMMA AgreementKept ==
    ASSUME Inv, UNCHANGED <<policies, view>>,
           pc' = "write" => pc = "write" /\ object' = object
    PROVE  ViewAgrees' /\ ReadAgrees'
  BY DEF Inv, ViewAgrees, ReadAgrees

\* A cycle that ends leaves nothing to write.
LEMMA ReturnInv ==
    ASSUME Inv, Return, UNCHANGED <<stored, view, edits, recounts>>,
           faults' \in 0..MaxFaults
    PROVE  Inv'
<1>1. TypeOK'
  BY NothingTyped DEF Inv, TypeOK, Return, stored
<1>2. ViewAgrees' /\ ReadAgrees'
  BY AgreementKept DEF Return, stored
<1> QED
  BY <1>1, <1>2 DEF Inv

\* The steps of the seeding.
LEMMA SeedInv ==
    ASSUME Inv, StartCycle \/ (\E s \in BuiltIns : ReadBuiltIn(s)) \/ CreateBuiltIn
    PROVE  Inv'
<1>1. CASE StartCycle
  <2>1. TypeOK'
    BY <1>1 DEF Inv, TypeOK, StartCycle, stored
  <2> QED
    BY <1>1, <2>1, AgreementKept DEF Inv, StartCycle, stored
<1>2. ASSUME NEW s \in BuiltIns, ReadBuiltIn(s) PROVE Inv'
  <2>1. faults' \in 0..MaxFaults
    BY <1>2, Counted DEF Inv, TypeOK, ReadBuiltIn
  <2>2. s \in ScheduleNames
    BY ImplicitPoliciesAssumption
  <2>3. pc' \in {"seed", "create"}
    BY <1>2 DEF ReadBuiltIn
  <2>4. /\ object' \in [name : ScheduleNames \cup Namespaces \cup {NoSchedule},
                        policy : Policies]
        /\ pc' = "create" => object'.name \in BuiltIns
    BY <1>2, <2>2 DEF Inv, TypeOK, ReadBuiltIn
  <2>5. todo' \subseteq BuiltIns
    BY <1>2 DEF Inv, TypeOK, ReadBuiltIn
  <2>6. TypeOK'
    BY <1>2, <2>1, <2>3, <2>4, <2>5 DEF Inv, TypeOK, ReadBuiltIn, stored
  <2> QED
    BY <1>2, <2>3, <2>6, AgreementKept DEF Inv, ReadBuiltIn, stored
<1>3. CASE CreateBuiltIn
  <2>1. faults' \in 0..MaxFaults
    BY <1>3, Counted DEF Inv, TypeOK, CreateBuiltIn
  <2>2. object.name \in BuiltIns /\ object.name \in ScheduleNames
    BY <1>3, ImplicitPoliciesAssumption DEF Inv, TypeOK, CreateBuiltIn
  <2>3. schedules' \in [ScheduleNames -> Specs \cup {NoSpec}]
    BY <1>3, <2>2, ImplicitPoliciesAssumption DEF Inv, TypeOK, CreateBuiltIn
  <2>4. TypeOK'
    BY <1>3, <2>1, <2>3, NothingTyped DEF Inv, TypeOK, CreateBuiltIn
  <2> QED
    BY <1>3, <2>4, AgreementKept DEF Inv, CreateBuiltIn
<1> QED
  BY <1>1, <1>2, <1>3

\* The listings.
LEMMA ListInv ==
    ASSUME Inv, DiscoverAll \/ ListNamespaces \/ ListSchedules \/ EndCycle
    PROVE  Inv'
<1>1. CASE DiscoverAll
  <2>1. CASE Return /\ Fault
    BY <1>1, <2>1, ReturnInv, Counted DEF Inv, DiscoverAll
  <2>2. CASE pc' = "namespaces" /\ UNCHANGED <<todo, object, listed, faults>>
    <3>1. TypeOK'
      BY <1>1, <2>2 DEF Inv, TypeOK, DiscoverAll, stored
    <3> QED
      BY <1>1, <2>2, <3>1, AgreementKept DEF Inv, DiscoverAll, stored
  <2> QED
    BY <1>1, <2>1, <2>2 DEF DiscoverAll
<1>2. CASE ListNamespaces
  <2>1. CASE Return /\ Fault
    BY <1>2, <2>1, ReturnInv, Counted DEF Inv, ListNamespaces
  <2>2. CASE /\ pc' = "schedules"
             /\ listed' = [listed EXCEPT !.annotations = view.annotations]
             /\ UNCHANGED <<todo, object, faults>>
    <3>1. TypeOK'
      BY <1>2, <2>2 DEF Inv, TypeOK, ListNamespaces, stored
    <3> QED
      BY <1>2, <2>2, <3>1, AgreementKept DEF Inv, ListNamespaces, stored
  <2> QED
    BY <1>2, <2>1, <2>2 DEF ListNamespaces
<1>3. CASE ListSchedules
  <2>1. CASE Return /\ Fault
    BY <1>3, <2>1, ReturnInv, Counted DEF Inv, ListSchedules
  <2>2. CASE /\ pc' = "policies"
             /\ listed' = [listed EXCEPT !.schedules = view.schedules]
             /\ todo' = Resolved(listed')
             /\ UNCHANGED <<object, faults>>
    <3>1. TypeOK'
      BY <1>3, <2>2 DEF Inv, TypeOK, ListSchedules, stored
    <3> QED
      BY <1>3, <2>2, <3>1, AgreementKept DEF Inv, ListSchedules, stored
  <2> QED
    BY <1>3, <2>1, <2>2 DEF ListSchedules
<1>4. CASE EndCycle
  BY <1>4, ReturnInv DEF Inv, TypeOK, EndCycle
<1> QED
  BY <1>1, <1>2, <1>3, <1>4

\* Reading a policy: what is to be written is the informer's copy.
LEMMA GetPolicyInv ==
    ASSUME Inv, NEW ns \in Namespaces, GetPolicy(ns)
    PROVE  Inv'
<1>1. faults' \in 0..MaxFaults
  BY Counted DEF Inv, TypeOK, GetPolicy
<1>2. ns \in Resolved(listed) /\ todo' \subseteq Resolved(listed)
  BY DEF Inv, TypeOK, GetPolicy
<1>3. CASE pc' = "write" /\ object' = [name |-> ns, policy |-> view.policies[ns]]
           /\ view.policies[ns].kind # "foreign"
  <2>1. view.policies[ns] \in Policies
    BY DEF Inv, TypeOK
  <2>2. TypeOK'
    BY <1>1, <1>2, <1>3, <2>1 DEF Inv, TypeOK, GetPolicy, stored
  <2>3. ReadAgrees'
    BY <1>3 DEF Inv, ViewAgrees, ReadAgrees, GetPolicy, stored
  <2> QED
    BY <2>2, <2>3 DEF Inv, ViewAgrees, GetPolicy, stored
<1>4. CASE UNCHANGED <<pc, object>>
  <2>1. TypeOK'
    BY <1>1, <1>2, <1>4 DEF Inv, TypeOK, GetPolicy, stored
  <2> QED
    BY <1>4, <2>1, AgreementKept DEF Inv, GetPolicy, stored
<1> QED
  BY <1>3, <1>4 DEF GetPolicy, WriteDue, isOwnedNamespacePolicy

\* A write gives the policy a revision that no copy has.
LEMMA WritePolicyInv ==
    ASSUME Inv, WritePolicy
    PROVE  Inv'
<1> DEFINE ns == object.name
<1>1. faults' \in 0..MaxFaults
  BY Counted DEF Inv, TypeOK, WritePolicy
<1>2. ns \in Namespaces /\ Desired(ns) \in Derived
  BY DesiredTyped DEF Inv, TypeOK, WritePolicy
<1>3. policies[ns] \in Policies
  BY <1>2 DEF Inv, TypeOK
<1>4. CASE policies' = [policies EXCEPT ![ns] = Stored(@, Desired(ns))]
  <2>0. /\ Stored(policies[ns], Desired(ns)) \in Policies
        /\ \/ Stored(policies[ns], Desired(ns)) = policies[ns]
           \/ Stored(policies[ns], Desired(ns)).rev = policies[ns].rev + 1
    BY <1>2, <1>3 DEF Stored, Policies
  <2>1. policies' \in [Namespaces -> Policies]
    BY <1>2, <1>4, <2>0 DEF Inv, TypeOK
  <2>2. TypeOK'
    BY <1>1, <2>1, NothingTyped DEF Inv, TypeOK, WritePolicy
  <2>3. ViewAgrees'
    BY <1>2, <1>3, <1>4, <2>0
    DEF Inv, TypeOK, Policies, ViewAgrees, CopyOf, WritePolicy
  <2> QED
    BY <2>2, <2>3 DEF Inv, ReadAgrees, WritePolicy
<1>5. CASE UNCHANGED policies
  <2>1. TypeOK'
    BY <1>1, <1>5, NothingTyped DEF Inv, TypeOK, WritePolicy
  <2> QED
    BY <1>5, <2>1, AgreementKept DEF Inv, WritePolicy
<1> QED
  BY <1>4, <1>5 DEF WritePolicy

\* The informers.
LEMMA SyncInv ==
    ASSUME Inv, SyncNamespaces \/ SyncSchedules \/ SyncPolicies
    PROVE  Inv'
<1>1. TypeOK'
  BY DEF Inv, TypeOK, SyncNamespaces, SyncSchedules, SyncPolicies, stored, cycle
<1>2. ReadAgrees'
  BY DEF Inv, ReadAgrees, SyncNamespaces, SyncSchedules, SyncPolicies, stored,
         cycle
<1>3. view'.policies \in {view.policies, policies} /\ UNCHANGED policies
  BY DEF Inv, TypeOK, SyncNamespaces, SyncSchedules, SyncPolicies, stored
<1>4. ViewAgrees'
  BY <1>3 DEF Inv, TypeOK, Policies, ViewAgrees, CopyOf
<1> QED
  BY <1>1, <1>2, <1>4 DEF Inv

\* The other people.
LEMMA OthersInv ==
    ASSUME Inv, Others
    PROVE  Inv'
<1>1. ASSUME NEW ns \in Namespaces, Annotate(ns) PROVE Inv'
  <2>1. TypeOK'
    BY <1>1, Counted DEF Inv, TypeOK, Annotate, cycle
  <2> QED
    BY <1>1, <2>1, AgreementKept DEF Inv, Annotate, cycle
<1>2. ASSUME NEW s \in ScheduleNames, PutSchedule(s) PROVE Inv'
  <2>1. TypeOK'
    BY <1>2, Counted DEF Inv, TypeOK, PutSchedule, cycle
  <2> QED
    BY <1>2, <2>1, AgreementKept DEF Inv, PutSchedule, cycle
<1>3. ASSUME NEW ns \in Namespaces, PutPolicy(ns) PROVE Inv'
  <2>1. PICK k \in {"none", "own", "foreign"} :
           policies' = [policies EXCEPT ![ns] =
                           [kind |-> k, says |-> ByHand, rev |-> @.rev + 1]]
    BY <1>3 DEF PutPolicy
  <2>2. policies[ns] \in Policies /\ policies[ns].rev \in Nat
    BY DEF Inv, TypeOK, Policies
  <2>3. policies' \in [Namespaces -> Policies]
    BY <2>1, <2>2 DEF Inv, TypeOK, Policies
  <2>4. TypeOK'
    BY <1>3, <2>3, Counted DEF Inv, TypeOK, PutPolicy, cycle
  <2>5. ViewAgrees'
    BY <1>3, <2>1, <2>2 DEF Inv, TypeOK, Policies, ViewAgrees, CopyOf, PutPolicy
  <2>6. ReadAgrees'
    <3>1. CASE pc = "write"
      <4>1. object.policy.rev \in Nat /\ object.name \in Namespaces
        BY <3>1 DEF Inv, TypeOK, Policies, Resolved, Annotated
      <4> QED
        BY <1>3, <2>1, <2>2, <3>1, <4>1
           DEF Inv, TypeOK, Policies, ReadAgrees, CopyOf, PutPolicy, cycle
    <3>2. CASE pc # "write"
      BY <1>3, <3>2 DEF ReadAgrees, PutPolicy, cycle
    <3> QED
      BY <3>1, <3>2
  <2> QED
    BY <2>4, <2>5, <2>6 DEF Inv
<1> QED
  BY <1>1, <1>2, <1>3 DEF Others

\* The status writes: a new revision that no copy has.
LEMMA ReconcileInv ==
    ASSUME Inv, NEW ns \in Namespaces, ReconcilePolicy(ns)
    PROVE  Inv'
<1>1. policies[ns] \in Policies /\ policies[ns].rev \in Nat
  BY DEF Inv, TypeOK, Policies
<1>2. policies' = [policies EXCEPT ![ns].rev = @ + 1]
  BY DEF ReconcilePolicy
<1> DEFINE moved == [policies[ns] EXCEPT !.rev = @ + 1]
<1>3. policies' \in [Namespaces -> Policies]
  <2>1. moved \in Policies
    BY <1>1 DEF Policies
  <2>2. policies \in [Namespaces -> Policies]
    BY DEF Inv, TypeOK
  <2>3. policies' = [policies EXCEPT ![ns] = moved]
    BY <1>2
  <2> HIDE DEF moved
  <2> QED
    BY <2>1, <2>2, <2>3
<1>4. recounts' \in 0..MaxRecounts
  BY ImplicitPoliciesAssumption DEF Inv, TypeOK, ReconcilePolicy
<1>5. TypeOK'
  BY <1>3, <1>4 DEF Inv, TypeOK, ReconcilePolicy, cycle
<1>6. ViewAgrees'
  BY <1>1, <1>2 DEF Inv, TypeOK, Policies, ViewAgrees, CopyOf, ReconcilePolicy
<1>7. ReadAgrees'
  <2>1. CASE pc = "write"
    <3>1. object.policy.rev \in Nat /\ object.name \in Namespaces
      BY <2>1 DEF Inv, TypeOK, Policies, Resolved, Annotated
    <3> QED
      BY <1>1, <1>2, <2>1, <3>1
         DEF Inv, TypeOK, Policies, ReadAgrees, CopyOf, ReconcilePolicy, cycle
  <2>2. CASE pc # "write"
    BY <2>2 DEF ReadAgrees, ReconcilePolicy, cycle
  <2> QED
    BY <2>1, <2>2
<1> QED
  BY <1>5, <1>6, <1>7 DEF Inv

\* The inductive invariant.
THEOREM Invariance == Spec => []Inv
<1>1. Init => Inv
  BY InitInv
<1>2. Inv /\ [Next]_vars => Inv'
  <2> SUFFICES ASSUME Inv, [Next]_vars PROVE Inv'
    OBVIOUS
  <2>1. CASE Cycle
    BY <2>1, SeedInv, ListInv, GetPolicyInv, WritePolicyInv DEF Cycle
  <2>2. CASE Crash
    BY <2>2, ReturnInv, Counted DEF Inv, Crash
  <2>3. CASE SyncNamespaces \/ SyncSchedules \/ SyncPolicies
    BY <2>3, SyncInv
  <2>4. CASE Others \/ \E ns \in Namespaces : ReconcilePolicy(ns)
    BY <2>4, OthersInv, ReconcileInv
  <2>5. CASE UNCHANGED vars
    <3>1. TypeOK'
      BY <2>5 DEF Inv, TypeOK, vars, stored, cycle
    <3> QED
      BY <2>5, <3>1, AgreementKept DEF Inv, vars, stored, cycle
  <2> QED
    BY <2>1, <2>2, <2>3, <2>4, <2>5 DEF Next
<1> QED
  BY <1>1, <1>2, PTL DEF Spec

\* Objects, copies and the cycle are well typed, and a cycle writes only the
\* policies of namespaces that its lists resolve.
THEOREM TypeCorrect == Spec => []TypeOK
<1>1. Inv => TypeOK
  BY DEF Inv
<1> QED
  BY <1>1, Invariance, PTL

-----------------------------------------------------------------------------
(* What people have made their own *)

Kept ==
    edits' = edits =>
        /\ \A s \in ScheduleNames :
              schedules[s] # NoSpec => schedules'[s] = schedules[s]
        /\ \A ns \in Namespaces :
              policies[ns].kind = "foreign" =>
                  /\ policies'[ns].kind = "foreign"
                  /\ policies'[ns].says = policies[ns].says

\* Seeding fills gaps and nothing else.
LEMMA CreateKeeps ==
    ASSUME Inv, CreateBuiltIn PROVE Kept
<1>1. object.name \in ScheduleNames
  BY ImplicitPoliciesAssumption DEF Inv, TypeOK, CreateBuiltIn
<1> QED
  BY <1>1 DEF Inv, TypeOK, CreateBuiltIn, Kept

\* A write that is accepted replaces what was read, which was not foreign.
LEMMA WriteKeeps ==
    ASSUME Inv, WritePolicy PROVE Kept
<1> DEFINE ns == object.name
<1>1. ns \in Namespaces
  BY DEF Inv, TypeOK, WritePolicy, Resolved, Annotated
<1>2. Accepted(ns, object.policy) => policies[ns].kind # "foreign"
  BY DEF Inv, ReadAgrees, CopyOf, Accepted, WritePolicy
<1> QED
  BY <1>1, <1>2 DEF Inv, TypeOK, WritePolicy, Kept

\* The loop overwrites neither a schedule that exists nor a policy that is not
\* its own, however far its informers lag and whoever writes in between.
THEOREM EditsKeptHolds == Spec => EditsKept
<1>1. Inv /\ [Next]_vars => [Kept]_vars
  <2> SUFFICES ASSUME Inv, Next PROVE Kept
    OBVIOUS
  <2>1. CASE CreateBuiltIn
    BY <2>1, CreateKeeps
  <2>2. CASE WritePolicy
    BY <2>2, WriteKeeps
  <2>3. CASE UNCHANGED <<schedules, policies>>
    BY <2>3 DEF Kept
  <2>4. CASE Others
    BY <2>4, ImplicitPoliciesAssumption
       DEF Inv, TypeOK, Others, Annotate, PutSchedule, PutPolicy, Edit, Kept
  <2>r. ASSUME NEW ns \in Namespaces, ReconcilePolicy(ns) PROVE Kept
    BY <2>r DEF Inv, TypeOK, Policies, ReconcilePolicy, Kept
  <2>5. Cycle => CreateBuiltIn \/ WritePolicy \/ UNCHANGED <<schedules, policies>>
    BY DEF Cycle, StartCycle, ReadBuiltIn, DiscoverAll, ListNamespaces,
           ListSchedules, GetPolicy, EndCycle, stored
  <2>6. Crash \/ SyncNamespaces \/ SyncSchedules \/ SyncPolicies
        => UNCHANGED <<schedules, policies>>
    BY DEF Crash, SyncNamespaces, SyncSchedules, SyncPolicies, stored
  <2> QED
    BY <2>1, <2>2, <2>3, <2>4, <2>r, <2>5, <2>6 DEF Next
<1> QED
  BY <1>1, Invariance, PTL DEF EditsKept, Spec, Kept
=============================================================================
