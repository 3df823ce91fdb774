-------------------------- MODULE ImplicitPolicies --------------------------
(***************************************************************************)
(* What the discovery loop writes into the rule book by itself: the        *)
(* built-in schedules, and the policy of every namespace whose annotation  *)
(* aura.sh/default-schedule names a schedule.                              *)
(*                                                                         *)
(*   internal/adapters/driving/background/builtin_schedules.go             *)
(*   internal/adapters/driving/background/discovery.go                     *)
(*   internal/adapters/driving/reconciler/policy_reconciler.go             *)
(*                                                                         *)
(* The policy of namespace ns is called ns-default-<ns>, a name that       *)
(* anybody may use: it belongs to the loop only if it has its labels.  All *)
(* objects are read from informers; the answer to a write may be lost.     *)
(* What the loop does with workloads in between is module Discovery.       *)
(***************************************************************************)
EXTENDS Integers

CONSTANTS
    Namespaces,
    SystemNamespaces,  \* those the loop leaves alone
    ScheduleNames,
    BuiltIns,          \* the schedules it creates
    Specs,             \* what a schedule may say: state and windows
    BuiltInSpec,       \* what it says in a built-in schedule
    Admitted,          \* those a policy may say; all, if the webhook is off
    NoSpec,            \* there is no such schedule
    NoSchedule,        \* the namespace has no annotation
    ByHand,            \* what people write into a policy
    InitialAnnotations,  \* what the namespaces say when the loop is installed
    InitialKinds,      \* whose the policies are then
    PriorityTexts,     \* what aura.sh/power-priority says, 0 if it is missing
    MaxPriority,
    MaxEdits,          \* bound: changes by other people
    MaxRecounts,       \* bound: changes of the number of targets of a policy
    MaxFaults          \* bound: failed calls, lost answers and crashes

Derived ==
    [name : ScheduleNames, spec : Specs, priority : 0..MaxPriority]

ASSUME ImplicitPoliciesAssumption ==
    /\ SystemNamespaces \subseteq Namespaces
    /\ BuiltIns \subseteq ScheduleNames
    /\ BuiltInSpec \in [BuiltIns -> Specs]
    /\ Admitted \subseteq Specs
    /\ NoSpec \notin Specs
    /\ NoSchedule \notin ScheduleNames
    /\ ByHand \notin Derived
    /\ PriorityTexts \subseteq Int
    /\ 0 \in PriorityTexts
    /\ InitialAnnotations \subseteq
           [Namespaces -> [schedule : ScheduleNames \cup {NoSchedule},
                           priority : PriorityTexts]]
    /\ InitialKinds \subseteq [Namespaces -> {"none", "own", "foreign"}]
    /\ MaxPriority \in Nat
    /\ MaxEdits \in Nat
    /\ MaxRecounts \in Nat
    /\ MaxFaults \in Nat

(***************************************************************************)
(*  annotations, schedules, policies   the stored objects                  *)
(*  view     the informers' copies of them                                 *)
(*  pc, todo, object   the cycle: its next call, the names it still has to *)
(*           look at, and the name and policy it is looking at             *)
(*  listed   the namespaces and schedules as the cycle has listed them     *)
(*  edits, recounts, faults   how many there have been                     *)
(***************************************************************************)
VARIABLES annotations, schedules, policies, view, pc, todo, object, listed,
          edits, recounts, faults

stored == <<annotations, schedules, policies>>
cycle == <<pc, todo, object, listed>>
vars == <<stored, view, cycle, edits, recounts, faults>>

Annotations ==
    [schedule : ScheduleNames \cup {NoSchedule}, priority : PriorityTexts]

Policies ==
    [kind : {"none", "own", "foreign"}, says : Derived \cup {ByHand}, rev : Nat]

NoPolicy == [kind |-> "none", says |-> ByHand, rev |-> 0]
NoObject == [name |-> NoSchedule, policy |-> NoPolicy]

Unlisted ==
    [annotations |-> [ns \in Namespaces |->
                         [schedule |-> NoSchedule, priority |-> 0]],
     schedules |-> [s \in ScheduleNames |-> NoSpec]]

\* Mutant: the number is taken as it is.
parseUnchecked(text) == text

\* A text that is no number within the limits counts as 0.
parseNamespacePriority(text) == IF text \in 0..MaxPriority THEN text ELSE 0

namespacePolicySpec(a, spec) ==
    [name |-> a.schedule, spec |-> spec,
     priority |-> parseNamespacePriority(a.priority)]

\* Mutant: the name is taken for ownership.
ownedByName(policy) == policy.kind # "none"

isOwnedNamespacePolicy(policy) == policy.kind = "own"

Fault == faults < MaxFaults /\ faults' = faults + 1

\* The cycle ends; what it has read is forgotten.
Return ==
    /\ pc' = "idle"
    /\ todo' = {}
    /\ object' = NoObject
    /\ listed' = Unlisted

-----------------------------------------------------------------------------
(* SeedBuiltInSchedules *)

\* Mutant: the built-in schedules are left to the installation.
StartCycleUnseeded ==
    /\ pc = "idle"
    /\ pc' = "seed"
    /\ UNCHANGED <<stored, view, todo, object, listed, edits, recounts, faults>>

StartCycle ==
    /\ pc = "idle"
    /\ pc' = "seed"
    /\ todo' = BuiltIns
    /\ UNCHANGED <<stored, view, object, listed, edits, recounts, faults>>

\* A schedule that is there is left alone, and so is one that cannot be read.
ReadBuiltIn(s) ==
    /\ pc = "seed"
    /\ s \in todo
    /\ todo' = todo \ {s}
    /\ \/ /\ view.schedules[s] = NoSpec
          /\ pc' = "create"
          /\ object' = [object EXCEPT !.name = s]
          /\ UNCHANGED faults
       \/ /\ view.schedules[s] # NoSpec
          /\ UNCHANGED <<pc, object, faults>>
       \/ /\ Fault
          /\ UNCHANGED <<pc, object>>
    /\ UNCHANGED <<stored, view, listed, edits, recounts>>

\* The copy may be out of date: then the schedule already exists.
CreateBuiltIn ==
    /\ pc = "create"
    /\ pc' = "seed"
    /\ object' = NoObject
    /\ \/ /\ schedules[object.name] = NoSpec
          /\ schedules' = [schedules EXCEPT ![object.name] = BuiltInSpec[object.name]]
          /\ UNCHANGED faults \/ Fault
       \/ /\ schedules[object.name] # NoSpec
          /\ UNCHANGED <<schedules, faults>>
       \/ /\ Fault
          /\ UNCHANGED schedules
    /\ UNCHANGED <<annotations, policies, view, todo, listed, edits, recounts>>

\* Discovery proper.  When the workloads cannot be listed the cycle ends.
DiscoverAll ==
    /\ pc = "seed"
    /\ todo = {}
    /\ \/ pc' = "namespaces" /\ UNCHANGED <<todo, object, listed, faults>>
       \/ Return /\ Fault
    /\ UNCHANGED <<stored, view, edits, recounts>>

-----------------------------------------------------------------------------
(* processNamespaceAnnotations *)

ListNamespaces ==
    /\ pc = "namespaces"
    /\ \/ /\ pc' = "schedules"
          /\ listed' = [listed EXCEPT !.annotations = view.annotations]
          /\ UNCHANGED <<todo, object, faults>>
       \/ Return /\ Fault
    /\ UNCHANGED <<stored, view, edits, recounts>>

Annotated(l) ==
    {ns \in Namespaces \ SystemNamespaces :
        l.annotations[ns].schedule # NoSchedule}

\* Mutant: an unknown schedule ends the loop.
ResolvedOrReturn(l) ==
    IF \E ns \in Annotated(l) : l.schedules[l.annotations[ns].schedule] = NoSpec
    THEN {} ELSE Annotated(l)

\* The namespaces that go on to the policy: annotated, not protected, with a
\* schedule that exists.
Resolved(l) ==
    {ns \in Annotated(l) : l.schedules[l.annotations[ns].schedule] # NoSpec}

ListSchedules ==
    /\ pc = "schedules"
    /\ \/ /\ pc' = "policies"
          /\ listed' = [listed EXCEPT !.schedules = view.schedules]
          /\ todo' = Resolved(listed')
          /\ UNCHANGED <<object, faults>>
       \/ Return /\ Fault
    /\ UNCHANGED <<stored, view, edits, recounts>>

Desired(ns) ==
    LET a == listed.annotations[ns]
    IN  namespacePolicySpec(a, listed.schedules[a.schedule])

\* Mutant: a policy that already says what it should is written again.
WriteDueAnyway(ns, policy) ==
    policy.kind = "none" \/ isOwnedNamespacePolicy(policy)

\* A policy that is not the loop's, or that already says what it should, is left
\* alone.
WriteDue(ns, policy) ==
    \/ policy.kind = "none"
    \/ isOwnedNamespacePolicy(policy) /\ policy.says # Desired(ns)

\* A policy that cannot be read is left alone too.
GetPolicy(ns) ==
    /\ pc = "policies"
    /\ ns \in todo
    /\ todo' = todo \ {ns}
    /\ LET policy == view.policies[ns]
       IN  \/ /\ WriteDue(ns, policy)
              /\ pc' = "write"
              /\ object' = [name |-> ns, policy |-> policy]
              /\ UNCHANGED faults
           \/ /\ ~WriteDue(ns, policy)
              /\ UNCHANGED <<pc, object, faults>>
           \/ /\ Fault
              /\ UNCHANGED <<pc, object>>
    /\ UNCHANGED <<stored, view, listed, edits, recounts>>

\* What the API server takes: an admitted schedule, for a create a free name,
\* for an update the revision that was read.
Accepted(ns, read) ==
    /\ Desired(ns).spec \in Admitted
    /\ IF read.kind = "none" THEN policies[ns].kind = "none"
       ELSE policies[ns].kind # "none" /\ policies[ns].rev = read.rev

\* The API server stores a policy under a new revision, unless it says what it
\* said.
Stored(policy, says) ==
    IF policy.kind = "own" /\ policy.says = says THEN policy
    ELSE [kind |-> "own", says |-> says, rev |-> policy.rev + 1]

\* Whatever becomes of it, the loop goes on with the next namespace.
WritePolicy ==
    /\ pc = "write"
    /\ pc' = "policies"
    /\ object' = NoObject
    /\ LET ns == object.name
       IN  \/ /\ Accepted(ns, object.policy)
              /\ policies' = [policies EXCEPT ![ns] = Stored(@, Desired(ns))]
              /\ UNCHANGED faults \/ Fault
           \/ /\ ~Accepted(ns, object.policy)
              /\ UNCHANGED <<policies, faults>>
           \/ /\ Fault
              /\ UNCHANGED policies
    /\ UNCHANGED <<annotations, schedules, view, todo, listed, edits, recounts>>

EndCycle ==
    /\ pc = "policies"
    /\ todo = {}
    /\ Return
    /\ UNCHANGED <<stored, view, edits, recounts, faults>>

\* The process dies, or another one becomes the leader.
Crash ==
    /\ pc # "idle"
    /\ Fault
    /\ Return
    /\ UNCHANGED <<stored, view, edits, recounts>>

-----------------------------------------------------------------------------
(* The informers, and the people who edit the objects *)

SyncNamespaces ==
    /\ view.annotations # annotations
    /\ view' = [view EXCEPT !.annotations = annotations]
    /\ UNCHANGED <<stored, cycle, edits, recounts, faults>>

SyncSchedules ==
    /\ view.schedules # schedules
    /\ view' = [view EXCEPT !.schedules = schedules]
    /\ UNCHANGED <<stored, cycle, edits, recounts, faults>>

SyncPolicies ==
    /\ view.policies # policies
    /\ view' = [view EXCEPT !.policies = policies]
    /\ UNCHANGED <<stored, cycle, edits, recounts, faults>>

Edit == edits < MaxEdits /\ edits' = edits + 1

Annotate(ns) ==
    /\ Edit
    /\ \E a \in Annotations : annotations' = [annotations EXCEPT ![ns] = a]
    /\ UNCHANGED <<schedules, policies, view, cycle, recounts, faults>>

\* A schedule is created, changed or deleted; nothing validates its windows.
PutSchedule(s) ==
    /\ Edit
    /\ \E x \in Specs \cup {NoSpec} : schedules' = [schedules EXCEPT ![s] = x]
    /\ UNCHANGED <<annotations, policies, view, cycle, recounts, faults>>

\* The policy with the name that the loop uses is deleted, created, taken over
\* by removing the labels, or given to the loop.
PutPolicy(ns) ==
    /\ Edit
    /\ \E k \in {"none", "own", "foreign"} :
          policies' = [policies EXCEPT ![ns] =
                          [kind |-> k, says |-> ByHand, rev |-> @.rev + 1]]
    /\ UNCHANGED <<annotations, schedules, view, cycle, recounts, faults>>

\* PolicyReconciler writes the number of targets that the policy applies to into
\* its status when that has changed, which gives it a new revision; a write that
\* fails is forgotten.
ReconcilePolicy(ns) ==
    /\ policies[ns].kind # "none"
    /\ recounts < MaxRecounts
    /\ recounts' = recounts + 1
    /\ policies' = [policies EXCEPT ![ns].rev = @ + 1]
    /\ UNCHANGED <<annotations, schedules, view, cycle, edits, faults>>

-----------------------------------------------------------------------------

\* Annotations and policies may be older than the installation.
Init ==
    /\ annotations \in InitialAnnotations
    /\ schedules = [s \in ScheduleNames |-> NoSpec]
    /\ \E kinds \in InitialKinds :
          policies = [ns \in Namespaces |->
                         [kind |-> kinds[ns], says |-> ByHand, rev |-> 0]]
    /\ view = [annotations |-> annotations, schedules |-> schedules,
               policies |-> policies]
    /\ pc = "idle" /\ todo = {} /\ object = NoObject /\ listed = Unlisted
    /\ edits = 0 /\ recounts = 0 /\ faults = 0

Cycle ==
    \/ StartCycle
    \/ \E s \in BuiltIns : ReadBuiltIn(s)
    \/ CreateBuiltIn
    \/ DiscoverAll
    \/ ListNamespaces
    \/ ListSchedules
    \/ \E ns \in Namespaces : GetPolicy(ns)
    \/ WritePolicy
    \/ EndCycle

Others ==
    \/ \E ns \in Namespaces : Annotate(ns) \/ PutPolicy(ns)
    \/ \E s \in ScheduleNames : PutSchedule(s)

Next ==
    \/ Cycle
    \/ Crash
    \/ SyncNamespaces \/ SyncSchedules \/ SyncPolicies
    \/ \E ns \in Namespaces : ReconcilePolicy(ns)
    \/ Others

Spec == Init /\ [][Next]_vars

\* The ticker starts a cycle again and again, each call returns, and the
\* informers deliver.
FairSpec ==
    /\ Spec
    /\ WF_vars(Cycle)
    /\ WF_vars(SyncNamespaces)
    /\ WF_vars(SyncSchedules)
    /\ WF_vars(SyncPolicies)

-----------------------------------------------------------------------------
(* Properties *)

\* The objects and their copies are well typed, and the cycle writes only where
\* its lists say so.
TypeOK ==
    /\ annotations \in [Namespaces -> Annotations]
    /\ schedules \in [ScheduleNames -> Specs \cup {NoSpec}]
    /\ policies \in [Namespaces -> Policies]
    /\ view \in [annotations : [Namespaces -> Annotations],
                 schedules : [ScheduleNames -> Specs \cup {NoSpec}],
                 policies : [Namespaces -> Policies]]
    /\ pc \in {"idle", "seed", "create", "namespaces", "schedules", "policies",
              "write"}
    /\ listed \in [annotations : [Namespaces -> Annotations],
                   schedules : [ScheduleNames -> Specs \cup {NoSpec}]]
    /\ object \in [name : ScheduleNames \cup Namespaces \cup {NoSchedule},
                   policy : Policies]
    /\ todo \subseteq IF pc \in {"policies", "write"} THEN Resolved(listed)
                     ELSE BuiltIns
    /\ pc = "create" => object.name \in BuiltIns
    /\ pc = "write" => object.name \in Resolved(listed)
    /\ edits \in 0..MaxEdits
    /\ recounts \in 0..MaxRecounts
    /\ faults \in 0..MaxFaults

\* What people have made their own stays theirs: the loop overwrites neither a
\* schedule that exists, though its informer may not know of it, nor a policy
\* without its labels, though they may have been removed after it was read
\* (SeedBuiltInSchedules, isOwnedNamespacePolicy).
EditsKept ==
    [][edits' = edits =>
          /\ \A s \in ScheduleNames :
                schedules[s] # NoSpec => schedules'[s] = schedules[s]
          /\ \A ns \in Namespaces :
                policies[ns].kind = "foreign" =>
                    /\ policies'[ns].kind = "foreign"
                    /\ policies'[ns].says = policies[ns].says]_vars

\* The namespaces that ask for a schedule they can have.
Due(ns) ==
    /\ ns \notin SystemNamespaces
    /\ annotations[ns].schedule # NoSchedule
    /\ schedules[annotations[ns].schedule] \in Admitted
    /\ policies[ns].kind # "foreign"

\* Once people let it be, every namespace that can have the schedule of its
\* annotation has a policy that says just that, with a legal priority, whatever
\* is wrong with other namespaces and whichever calls failed
\* (processNamespaceAnnotations).
AnnotationsFollowed ==
    <>[](\A ns \in Namespaces :
            Due(ns) => /\ policies[ns].kind = "own"
                       /\ policies[ns].says =
                             namespacePolicySpec(annotations[ns],
                                 schedules[annotations[ns].schedule]))

\* Once people let it be, the loop comes to rest: it writes no policy of such a
\* namespace any more, although the status writes of the reconciler and its own
\* lagging copies may have made it write, fail and try again for a while
\* (processNamespaceAnnotations, the comparison with what is stored).
ComesToRest ==
    <>[](\A ns \in Namespaces : Due(ns) => ~(pc = "write" /\ object.name = ns))

\* A failed call, a crash or a deletion does not leave a built-in schedule absent
\* for ever (runDiscovery seeds in every cycle).
BuiltInsReturn ==
    \A s \in BuiltIns : []<>(schedules[s] # NoSpec)
=============================================================================
