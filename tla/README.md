# Aura Power: TLA+ models and proofs

Aura Power switches Kubernetes workloads off and on. Policies (recurring
schedules) and overrides (temporary exceptions) say which state a workload
should be in; a controller scales it to zero, remembers how many replicas it
had, and scales it back. This directory models the parts of it that decide, act
and remember, checks them with TLC on small instances, and proves the most
important properties with TLAPS for every instance. Paths below are relative to
the root of the repository.

## 1. Inventory

| Component | Source | State | Operations | Correct if |
|---|---|---|---|---|
| PowerTarget reconciler | `internal/adapters/driving/reconciler/target_reconciler.go` | status of a PowerTarget: snapshot, action (phase, audit phase), observed state | one `Reconcile` pass: resume action, capture, admit, begin, execute, complete, audit | nothing is mutated without stored intent and snapshot; what was taken away can be given back; audits are not lost; it settles |
| Workload executor | `internal/adapters/driven/kubernetes/executor.go` | the workload | `CaptureSnapshot`, `PowerDown`, `Restore` | scales exactly the revision and identity it was told |
| Discovery loop | `internal/adapters/driving/background/discovery.go`, `internal/adapters/driven/kubernetes/discovery.go` | the set of PowerTargets, observed states | list, create or refresh targets, exempt, migrate, clean up orphans | the observation converges; no target with the only snapshot is deleted |
| Built-in schedules, namespace annotations | `internal/adapters/driving/background/{builtin_schedules,discovery}.go` | PowerSchedules, implicit policies | seed, list, derive the policy of every annotated namespace | what people wrote is not overwritten; annotations are followed, whatever is wrong elsewhere; built-in schedules come back |
| Decision engine | `internal/core/domain/{engine,scope,guardrails,types}.go`, `internal/adapters/selection/scope.go` | none | `ComputeDecision` and what it calls | off only if the strongest rules agree; guardrails block |
| Schedules | `internal/core/domain/timewindow.go` | none | `EvaluateSchedule`, `IsInWindow` | a window is the interval it names |
| Admission webhooks | `internal/adapters/driving/webhook` | none | validate policies and overrides | nothing ill-formed is stored |
| Rule and group API, preview | `internal/adapters/driving/api/{handlers,preview}.go`, `internal/core/domain/preview.go` | policies, overrides, namespace groups | create, update, delete, preview | the preview is what happens; deletion of a group never widens a rule |
| Approval workflow | `internal/adapters/driving/api/auth_handlers.go`, `internal/adapters/driven/auth/sqlite_store.go` | row in SQLite, resource in Kubernetes, audit event | request, approve, reject; lease, apply, verify, audit, finalise | the three stores agree in the end; a change is applied once; nobody decides in another's name |
| Informer cache client | `internal/adapters/driven/kubernetes/cached_client.go` | a copy that lags | reads from the copy, writes to the server | (environment of the above) |
| Audit recorder | `internal/adapters/driven/kubernetes/audit.go` | audit events | record under an identifier, hand over to notifications, retention | one event per identifier; what a durable caller records is handed over in the end |
| Notification dispatcher | `internal/adapters/driven/notifications` | queue and throttle in memory; attempts and counters in the status of a channel | enqueue, collect a batch, filter, group, throttle, begin, post, finish, recover | nothing is posted without a stored attempt; an event is not sent twice; an unfinished attempt is closed and counted once |
| Override and policy reconcilers | `internal/adapters/driving/reconciler/{override,policy}_reconciler.go` | phase and counters in a status | recompute the status | the phase follows the clock |
| Users, sessions; savings and metrics; CLI; wiring; CRD types; web panel; Helm chart | `internal/adapters/driven/auth`, `internal/core/domain/savings.go`, `internal/cli`, `cmd`, `api/v1alpha1`, `web`, `charts` | | | not modelled, see section 7 |

How they interact. The controller process runs the reconcilers, the discovery
loop and the dispatcher; the server process runs the API. The reconcilers and
discovery hand their audit events to the recorder, the recorder to the dispatcher's
queue; the API server has no recorder, and its approval handlers create the event of a
decision themselves (`recordApprovalDecision`). The processes share nothing
but objects in the Kubernetes API server, written under optimistic concurrency
(a write with an old `resourceVersion` is refused) and read through informer
caches that lag. Discovery writes the observed state that the reconciler decides
by; the reconciler writes the snapshot that restoring needs; users, GitOps and
autoscalers write the workloads meanwhile; any call may fail, or succeed with its
answer lost; the process may die between any two calls.

What is hard, and hence what the properties are for, is the list `hazards` of
`PROJECT.json`. In short: crashes between intent, mutation, checkpoint and audit;
retries of what has already been done; decisions taken from observations that are
out of date; writers that race each other; rule sets that nobody drew up as a
whole (ties, expiry, deleted groups); windows across midnight and across the
week; and three stores without a transaction.

## 2. Modules

| Module | Models | Extends |
|---|---|---|
| `TargetReconciler` | reconciler, executor, observation by discovery, for one target | |
| `PowerCycle` | the abstract protocol of one workload: snapshot, intent, mutation, outcome, audit | |
| `TargetReconcilerProofs` | the inductive invariant and theorems of the reconciler | `TargetReconciler` |
| `PowerCycleProofs` | `TargetReconciler` implements `PowerCycle` | `TargetReconcilerProofs` |
| `PowerEngine` | the decision engine and the preview as operators | |
| `RuleBook` | the life of rules, groups and target facts; webhooks; API | `PowerEngine` |
| `RuleBookProofs` | theorems on the engine and the rule book | `RuleBook` |
| `Schedule` | time windows against the running clock | |
| `ScheduleProofs` | windows are intervals, for every length of day and week | `Schedule` |
| `Approval` | one change request | |
| `ChangeRequest` | the abstract workflow of one request: row, event, writes of the resource | |
| `ApprovalProofs` | the invariants and theorems of the workflow; `Approval` implements `ChangeRequest` | `Approval` |
| `Discovery` | the discovery cycle for one workload, its UID-bound and its legacy target, with the reconciler as the other writer | |
| `DiscoveryProofs` | its inductive invariant and theorems | `Discovery` |
| `ImplicitPolicies` | the rules that the discovery loop writes itself: built-in schedules and the policies of annotated namespaces | |
| `ImplicitPoliciesProofs` | its inductive invariant and theorems | `ImplicitPolicies` |
| `Dispatcher` | audit recorder, notification queue, dispatcher and channel histories | |
| `DispatcherProofs` | its inductive invariant and theorems | `Dispatcher` |
| `MC...` | scopes, schedules and symmetry for TLC | |

### TargetReconciler

State: the workload (`live`: replicas and revision) and the executor's copy of it
(`wcache`); the PowerTarget in the server (`stored`), its informer copy (`cache`)
and whether that is current (`cacheCur`); the running pass (`pc`, its in-memory
target `loc`, whether `loc` still has the stored revision, `cur`, and its
decision `dec`); the winning decision at this moment (`decision`); what discovery
has listed (`seen`); the recorded audit events. One action is one call to the API
server with the local computation after it:

| Action | Code |
|---|---|
| `StartReconcile`, `PersistStateLabel` | `Reconcile` steps 1 to 4: read from the cache, compute the decision, write the state label (the response overwrites the in-memory status) |
| `RecordPendingAudit`, `CheckpointAudit` | `reconcilePendingAudit`: create the event, then store that it is recorded |
| `RecoverOutcome`, `ObserveConvergence`, `AwaitConvergence`, `ReportContention`, `Diverged` | the five outcomes of `reconcileExistingAction` |
| `CaptureAndPersistSnapshot`, `AdmitLiveHPA`, `BeginAction` | the three durable steps before a power-down (the last one before a restore too) |
| `ExecutePowerDown`, `ExecuteRestore` | the executor's call and what the pass makes of its result |
| `PersistCompletion`, `PersistFailure`, `PersistStatus` | the closing status writes |
| `DiscoverWorkload`, `UpdateObservedState` | one discovery cycle for this workload: the list, and later the write |
| `SyncTargetCache`, `SyncWorkloadCache` | the informers catch up, at any time |
| `ChangeDecision`, `ScaleWorkload`, `TouchWorkload`, `RequestRetry`, `TouchTarget`, `Crash` | rules and clock; operators and GitOps; other writers; the retry annotation; the process |

Every write may be refused because its revision is old, fail, or fail with its
effect in place (`WriteFails`). Abstracted: the three workload kinds are one (a
CronJob has one replica, suspended is zero); a blocked decision and an unmanaged
target are one (`"none"`), since the pass mutates in neither case; a missing snapshot and
an unavailable one are one; time is "the grace may have elapsed"; audit
identifiers, which the code hashes from a time stamp, are taken from a finite
set, and one may be used again once no copy of the target names it. A restore that finds
its copy as the snapshot says writes nothing (`RestoredAlready`, which only `restoreCronJob`
does). Left out: what a release without these fields has stored, that is an action
without an audit identifier or without the suppression marker (`target_reconciler.go:277-283`,
`410-422`), and an action kind the code does not know (`432-433`); the
next leader after a crash starts with caches that are up to date.

### PowerCycle

What all of this amounts to, seen only from what survives a crash: the replicas of
the workload, the count that is `saved` in the snapshot, the `intent` in progress,
the state of the `audit`, and how often `others` have written. There are no passes,
copies or failures in it. A snapshot is taken only where there is none; an intent
is stored only when the last action is audited, and for a power-down only with a
snapshot; a mutation needs an intent, a power-down an exact snapshot, a restore
returns to the snapshot; an outcome owes an audit; the snapshot is given up only
between two actions or by a power-down that failed. The refinement mapping reads
these five from `stored`, `live`, the audit events and the bound on outside writes
(`SavedCount`, `IntentState`, `AuditState`; `Cycle == INSTANCE PowerCycle WITH ...`),
and `ImplementsPowerCycle` is `Cycle!Spec`. Begin, complete, audit and checkpoint
are separate abstract steps, so a pass that skipped or reordered one of them
would not be a step or a stutter. That a power-down that failed may drop a snapshot
which is still needed is allowed here: it is finding 1.

### PowerEngine and RuleBook

`PowerEngine` follows the code function by function: `ResolveScope`,
`MatchesScope`, `ComputeSpecificity`, `CollectApplicableRules`, `Precedes` and
`Winners` (`ResolvePriority`), `EvaluateGuardrails`, `ComputeDecision`,
`PreviewPolicy`, `PreviewOverride`. `Winners` is a set because the comparison
leaves a policy and an override of the same name tied and the sort is not stable.
A rule name is its rank in alphabetical order; a schedule is the function from
time to state that module `Schedule` is about. `RuleBook` is the state machine
around it. Its actions stand for every way a rule can come in (API, kubectl,
an approved request), so they insist on what the webhooks insist on and not on
the extra check of the API handlers. The webhooks are taken to be on; the flag that
enables them is off by default (`cmd/controller/main.go:78`), and then a rule with a
negative priority or an expired override can be stored too.

### Schedule

`timewindow.go` function by function over a week whose length is a parameter. `Tick`
runs the clock, `ShiftClock` is daylight saving. `Open` is an independent
definition of a window as an interval on the circle of the week.

### Approval

State: the resource and the informer's copy (`obj`, `view`), the request, its row
(`status`, `reviewed_by`, lease), the audit event, who may review, and the handler
in progress (`pc`): there is one at a time, `AuthHandlers.mu` is held throughout.
`BeginDecision`, `CancelDecision` and `FinalizeDecision` are the SQL statements;
`ReadResource`, `WriteResource`, `VerifyResource` the three calls of
`applyPendingObject`; `RecordDecision` the audit event. `ExpireLease`,
`RevokeReviewer`, `EditResource`, `SyncView` and `Crash` are the environment. The
history variables `mutations`, `attained`, `misled` and `assumed` say how often the workflow
has written the resource, whether the resource itself, not its copy, has been as requested
at any time since the request was filed, whether a handler has acted on a read that
failed or that the informer answered from a copy out of date, and whether such a
copy showed the change in effect.

### ChangeRequest

The same request seen only from what survives a crash: its row, in whose name it is
decided, its audit event, how often the resource was written and whether it has been
as requested. There are no handlers, leases, copies or failures in it. A decision is
claimed from `pending`, an approval never by the requester; the resource is written
only under a claimed approval, and once if the change names a revision; the event is
written once, of an approval only when the change has been in effect or a handler
presumes so from a copy that is out of date (`Presume`); the row becomes final
only when the event agrees. A claim may be withdrawn at any time, also after the write:
that is finding 3. `Request == INSTANCE ChangeRequest WITH ...` in `Approval` reads these
from row, event and history variables, and `ImplementsChangeRequest` is
`Request!Spec`. A resumed decision, which renews the lease, is a stutter.

### Discovery

State: the workload (`wl`), its targets in the server (`objs`, by UID or `Legacy`)
and in the informer (`view`), the cycle (`pc`, the workload as listed `lst`, the
legacy status being migrated `held`), a pass of the reconciler between its stored
intent and its mutation (`pass`), and two history variables: what is owed to
the workload (`owed`), and whether all that the cycle has read was up to date
and nobody else has written since the list (`informed`).

| Action | Code |
|---|---|
| `List` | `runDiscovery` up to `DiscoverAll`, which reads the API server directly |
| `ResumeMigration`, `RefuseMigration`, `Observe`, `CreateTarget`, `WriteStatus`, `DropLegacy` | `ensurePowerTarget` and `newPowerTarget`, one action per write |
| `RestoreBeforeExemption`, `ExemptWithoutTarget` | `restoreBeforeExemption`, `restoreLegacyBeforeExemption` |
| `CleanupOrphans` | `cleanupOrphans`; each deletion may fail |
| `BeginPowerDown`, `PowerDown`, `PowerUp`, `RetireSnapshot` | the steps of `Reconcile` that write snapshot or workload |
| `SyncView`, `EditWorkload`, `DeleteWorkload`, `RecreateWorkload`, `Crash` | informer, operators, process |

Every write may fail, or succeed with its answer lost, and then the cycle goes on
to the cleanup. A status write is refused on an outdated copy; a deletion
carries no precondition. Not modelled: a target whose spec does not name the UID
it is named after (the rebinding branch, which a name that contains the UID
rules out), several workloads (a target belongs to one), and workload kinds.
The reconciler never repeats a power-down here while something is owed: that
loss is finding 1, and is kept apart.

### ImplicitPolicies

The first and the last part of a discovery cycle, which do not touch workloads. State:
annotations, schedules and policies in the server and in the informers (`view`), the
cycle (`pc`, the names still to look at, the policy that was read, the two lists). A
policy has the name `ns-default-<namespace>`, which anybody may use; its labels say
whether it is the loop's (`kind`).

| Action | Code |
|---|---|
| `StartCycle`, `DiscoverAll` | `Run` and `runDiscovery`; without the list of workloads the cycle ends |
| `ReadBuiltIn`, `CreateBuiltIn` | `SeedBuiltInSchedules` |
| `ListNamespaces`, `ListSchedules`, `GetPolicy`, `WritePolicy`, `EndCycle` | `processNamespaceAnnotations`, one action per call |
| `ReconcilePolicy` | the status write of `PolicyReconciler.Reconcile`, whenever the number of targets of a policy has changed: it moves the revision |
| `SyncNamespaces`, `SyncSchedules`, `SyncPolicies`, `Annotate`, `PutSchedule`, `PutPolicy`, `Crash` | informers, people, process |

Any call may fail and any answer may be lost. An update that changes nothing keeps the
revision (`Stored`), as in the API server. Admission refuses a policy whose windows
are malformed, and nothing keeps them out of a PowerSchedule (`Admitted`; with the
webhook off everything is admitted). Abstracted: what a schedule says is a value; what
people write into a policy is one value; the priority annotation is a number that may
be out of range, which a text that is no number is treated as. Policies, once they
exist, are rules of `RuleBook`.

### Dispatcher

State: the audit events and what the caller of each knows; the call of `Record` in
progress (`rec`); the queue; the channels in the server and in the informer
(`stored`, `cache`, `cacheCur`); the dispatcher's goroutine (`pc`, the batch, the
events still to be dealt with per channel, the attempt being made, the throttle,
the recovery in progress); and two history variables, the last attempt that posted an
event to a channel (`posted`) and whether the copy a batch was filtered by was
current (`fresh`).

| Action | Code |
|---|---|
| `CreateEvent`, `EnqueueEvent`, `Checkpoint` | `Record` with its read-back of an event that exists, `Enqueue`, and the caller's own durable note; a caller without one (discovery after a legacy restore, `discovery.go:281-285`) ignores an error |
| `CleanupExpired` | `CleanupExpired`, the retention of audit events |
| `StartRun`, `TickRecovery`, `RecoverChannel`, `EndRecovery` | `Run` and `recoverIncompleteAttempts`, one action per channel |
| `Collect`, `DispatchBatch`, `EndBatch` | the select loop of `Run` and the filters of `dispatchBatch` |
| `ServeChannel`, `TakeGroup`, `EndChannel` | `resolveWebhookURL` and the sender, `groupBatchEvents`, the throttle |
| `BeginAttempt`, `PostWebhook`, `FinishAttempt` | `beginAttempt`, one POST of `httpPostDetailed`, `finishAttempt` |
| `SyncCache`, `ExpireThrottle`, `EditChannel`, `Crash` | informer, clock, the owner of the channel, process |

A status update (`updateChannelStatus`) reads the informer's copy, changes it and
writes it under its revision, up to five times: it succeeds, or one try takes effect
with its answer lost and the next meets the effect, or it gives up with or without an
effect. Abstracted: an event is the reference of its audit event, from which all else
in it follows; the identifier of an attempt, a hash over a time stamp, is a serial
number; the durations of the throttle and of an attempt that is old enough to
recover; a POST is accepted, or it is refused or unanswered and repeated; a cancelled
context is a crash; an event that can never be recorded (an invalid or a conflicting
one, `audit.go:101-103`, `113-115`) is one more failed call; calls of `Record` come one
after the other; the next leader starts with caches that are up to date. `Run` dispatches batches only; the variant for single
events that its tests call is not modelled.

## 3. Runs

| Run | Expected | Checks | Bounds |
|---|---|---|---|
| `TargetReconciler` | pass | `TypeOK`, `WriteAhead`, `LossOnlyWhileLagging`, `PendingAuditSurvives`, `NoReissue`, `ImplementsPowerCycle` | 2 rules, 1 fault, 1 outside write, 1 change of the winner, 0..1 replicas; 1.1 million states |
| `TargetReconcilerLiveness` | pass | `PendingAuditRecorded`, `Settles` | 1 fault, 1 change; 175 000 states |
| `TargetReconcilerSnapshotLoss` | violation | `Recoverable` | no fault at all, 1 change |
| `RuleBook` | pass | `TypeOK`, `SafetyFirst`, `GuardrailsHold`, `GroupRemovalNarrows`, `ChangeStaysInScope`, `RulePreviewed` | 2 workloads that are plain, exempt, owned or owned and opted in, 2 rules of 3 scopes, 1 group, 2 priorities, 2 times; 91 000 states |
| `RuleBookTie` | violation | `OverrideWinsTies` | a policy and an override |
| `Schedule` | pass | `WindowsAreIntervals`, `SwitchesAtBoundaries` | days of 4 minutes, weeks of 3 days, every window, pairs of windows, 1 clock shift; 99 700 states |
| `Approval` | pass | `ApprovedTruthful`, `AtMostOnce`, `OwnerKept`, `RepetitionNeedsRemoval`, `ReversalNeedsCause`, `ImplementsChangeRequest` | 3 users, 2 specs, 2 faults, 1 foreign edit; 1 million states |
| `ApprovalReversed` | violation | `AppliedNotReversed` | 1 fault |
| `Discovery` | pass | `TypeOK`, `LossNeedsStaleEvidence` | 2 UIDs, 0..1 replicas, 1 edit of the workload; any number of failures and crashes; 2 million states |
| `DiscoveryOptOut` | violation | `OptOutKeepsSnapshot` | 1 UID, 2 edits |
| `Dispatcher` | pass | `TypeOK`, `AttemptBeforePost`, `CountersFollowAttempts`, `ReplayNeedsStaleHistory`, `AttemptsClosed`, `HandedOver` | 2 events (1 of a durable caller), 1 channel, queue of 1, history of 1, 2 POSTs per attempt, 1 fault; 149 000 states |
| `ImplicitPolicies` | pass | `TypeOK`, `EditsKept`, `AnnotationsFollowed`, `ComesToRest`, `BuiltInsReturn` | 2 namespaces, a built-in and another schedule, a priority that is legal and one that is not, 2 edits, 1 status write, 1 fault; 657 000 states |

Why the bounds suffice. In the reconciler the interesting cases need two
attempts that overlap (a lost answer or a new winner, then a retry), which one
fault plus one change gives; three audit identifiers are those of the stored
action, of an old cached one and of the new attempt, the most that are alive
at once; revisions are unbounded but can grow only with the other bounds. Two
rules are enough for the engine because its comparison is pairwise, and the
theorems of section 5 remove the bound. Four minutes leave room for windows
inside a day, across midnight and of length zero, three days for a first, a last and a
middle day of the week. In the approval workflow two faults allow a lost answer
followed by a crash of the retry. Discovery needs the second UID for a workload
that is deleted and created again, and one edit that may scale and annotate at
once; failures and crashes are not bounded. A queue and a history of one entry are full after the
first event, so refusal and eviction happen with two; the second POST is
the retry; one fault is a crash, a lost answer or an edit between any two steps, and
the lag of the informer is not bounded. The channels do not depend on each other
except by the order in which they are served. For the implicit policies
two edits are one that makes a policy due and one that takes it over before it is
written, and the second namespace is the one with something wrong. The theorems of section 5 remove these
bounds for everything but liveness. The properties were also checked with
wider bounds: two faults and 0..2 replicas without outside writes in the
reconciler, two edits, or one UID and three edits, in discovery.

Symmetry is used for rule keys, audit identifiers and specs, which are only
compared, and never in the liveness run. Deadlock is checked except for
`Approval`, where a decided request really is finished, and `Dispatcher`, which
really may wait for ever once every event is dealt with.

## 4. Fairness

`TargetReconcilerLiveness`, `Dispatcher` and `ImplicitPolicies` assume some. controller-runtime requeues each
target after every pass (`RequeueAfter` on every path), so passes start
again and each of their calls returns: weak fairness of `StartReconcile` and
`ContinueReconcile`. Discovery runs on a ticker and informers reconnect: weak
fairness of their actions. The convergence grace is a finite duration, so a pass
that finds the accepted mutation unobserved again and again reports contention
one day: strong fairness of `ReportContention`, which is not enabled between two
passes. Nothing is assumed about faults, operators, rules, or the time at which
caches catch up.

`Settles` has three outcomes because the code has: the workload is as decided,
contention is reported and left to an operator, or nothing can be restored for want
of a snapshot. It was also checked with other divisions of the bounds (an outside
write and a change of the winner; two outside writes; a fault and an outside
write), up to a million states each.

`Dispatcher`: the owner of a pending event comes back to it on every pass, though
others record theirs in between (strong fairness of `CreateEvent` while pending, per
event); the calls of `Record` return and the dispatcher's goroutine runs (weak
fairness); informers catch up (weak fairness); the recovery ticker never stops, `select`
chooses at random among what is ready, and every attempt is old enough one day, so
a recovery that includes the youngest attempt is taken if it is possible again and
again (strong fairness of `TickRecovery(lastId)`). Nothing is assumed about the
providers, the throttle, the owner of a channel, or crashes.

`ImplicitPolicies`: the ticker of `Run` starts a cycle again and again and its calls
return (weak fairness of `Cycle`), and informers catch up (weak fairness of each).
Edits, status writes and faults are finitely many, by their bounds: `AnnotationsFollowed`
and `ComesToRest` are about what remains when people and failures let up. `PolicyReconciler`
writes only when the count it has stored is another one, so its writes do end.

## 5. Proofs

`TargetReconcilerProofs`, from `ConstantsAssumption` alone (the sentinels differ
from the real values, the bounds are natural numbers):

- `TypeCorrect`: `Spec => []TypeOK`.
- `Invariance`: `Spec => []Inv`. The properties speak of `stored`, but the steps
  that write it use the copy `loc` of a pass, possibly begun long ago, so none of
  them is inductive. `Inv` ties the copies together: a copy of the workload with the live
  revision has the live replica count (`Copies`); replicas are owed only while the
  workload is down; a current cache equals the stored target (`CacheAgrees`); a
  pass whose revision is current holds the stored target up to the fields its
  position lets it have changed (`PassAgrees`); a pass on its way to the mutation
  has an observation, a snapshot and no pending audit (`OnTheWay`); and from the
  stored intent until the end of the pass nobody else touches action and snapshot
  (`Begun`), because discovery writes only the observation and a leader has only
  one pass per target.
- `WriteAheadHolds`, `PendingAuditSurvivesHolds`, `NoReissueHolds`,
  `LossOnlyWhileLaggingHolds`: the four action properties, from `Inv`.

`PowerCycleProofs`: `Refinement`, `Spec => ImplementsPowerCycle`. `Inv` alone is not
enough, because the abstract steps also say what precedes what. `Trail` adds it: the
audit event of an action in progress does not exist, and no older copy of the target
could create it (`IntentFresh`); what a pass is about to write differs from what it
replaces only by the step it stands for (`Replacement`). Then each action maps to one
abstract step or to none.

`ApprovalProofs`: `ApprovedTruthfulHolds`, `AtMostOnceHolds`, `OwnerKeptHolds`. The
first says that an approved request is audited so and has been in effect since it was
filed, unless a handler took a copy that was out of date for proof of it: a request for
what the resource was shortly before it was filed can be answered from such a copy
(`auth_handlers.go:593`), and then nothing is written. The
invariant adds what the handler in progress has established (`Progress`,
`SeenIsAttained`), that the row belongs to it (`RowHeld`), and that the first write
has spent the revision that the request names (`RevisionSpent`).

`ReversalNeedsCauseHolds`, `RepetitionNeedsRemovalHolds` and `ChangeRequestRefined`, in
the same module, need a second layer on top of that invariant (`Found`).
As long as no handler was misled and nobody else has written, the object
is what the workflow has made of it, so the next handler that looks for the effect of an earlier write finds it (`OwnWriteFound`) and
goes on to the audit instead of withdrawing; only approvals read and
write the resource (`ApprovalApplies`), and a request that is not filed has no reviewer
(`Unowned`). `RepetitionNeedsRemovalHolds` counts: a creation needs an empty place, so
the writes never outnumber the changes of others plus the object that is there
(`CreationsPaid`). The refinement is proved one action at a time (`RefinesFile`,
`RefinesClaim`, `RefinesEnd`, `RefinesWrite`, `RefinesRecord`, `RefinesEdit`,
`RefinesNothing`).

`DispatcherProofs`, from `DispatcherAssumption`: `TypeCorrect`,
`AttemptBeforePostHolds`, `CountersFollowAttemptsHold`,
`ReplayNeedsStaleHistoryHolds`. The lemmas on `StoreAttempt`, `Finished` and
`Recovered` say when a status remains a history: identifiers differ and none is
younger than the last one given out, the last attempt is among the recent ones (so it is
not counted apart), and an attempt that is missing is older than a full history. The
invariant says this of every channel and of its copies, what is stored of the attempt
being made, and that events that are still to be sent after a complete history was
seen have no attempt in it.

`DiscoveryProofs`, from `DiscoveryAssumption`: `TypeCorrect` and
`LossNeedsStaleEvidenceHolds`. The property speaks of one step, but dropping the
legacy target is harmless only because of the steps before it. The invariant says of
an informed cycle that its list still shows the workload (`ListCurrent`), that the
status it carries over is the legacy one and may be inherited (`StatusDue`), and that
the new target has the record when the old one goes (`LegacySpare`); and of the
stores that something is owed only to a workload that is down (`OwedWhileDown`)
and that a target without a status has no snapshot (`TargetsBound`).

`ImplicitPoliciesProofs`, from `ImplicitPoliciesAssumption`: `TypeCorrect` and
`EditsKeptHolds`. The loop checks the owner on a copy and writes later; the invariant
says that a copy with the current revision is the policy (`ViewAgrees`), also when
it is the one about to be overwritten (`ReadAgrees`), so an accepted write replaces
what was read.

`ScheduleProofs`, from `ScheduleAssumption`, hence for 1440 minutes and 7 days in
particular: `WindowsAreIntervalsHold` and `SwitchesAtBoundariesHolds`. The code splits
an instant into weekday and minute and treats the hours after midnight apart; the
reference measures the distance around the week from the opening of the window. The
lemma `Distance` computes that distance once, by cases, from the fact that quotient and
remainder are unique (`Division`, `Remainder`), and `WindowIsInterval` compares the two
definitions. That the answer changes only at a boundary follows with the step of one
minute (`NextMinute`, `WindowStays`).

`RuleBookProofs`, from `EngineAssumption` and `RuleBookAssumption`:

- `TypeCorrect`.
- `SafetyFirstHolds`: the applicable rules, as records, are exactly the demands
  of the rules that cover the workload (`ScopeResolution`, `RulesAreDemands`), and
  a rule that nothing precedes has the top priority and the state `"on"` if any
  top rule has it (`WinnerIsSafest`). That there is one at all (`WinnersExist`) is
  not obvious for a comparison of five levels over any set of rules: it follows level by
  level from the least-number principle (`LeastNatural`, from the well-foundedness of
  the natural numbers), which is why the names of rules are assumed to be natural
  numbers: names are of bounded length in Kubernetes, so each has a rank. All
  winners then make for the same decision (`DecisionUnique`).
- `ComparisonSorts`: the comparison is a strict weak order, which `slices.SortFunc`
  requires; without it the order of the result would be unspecified.
- `GuardrailsHoldAlways`, `GroupRemovalNarrowsHolds`.
- `ChangeStaysInScopeHolds`: a rule whose scope does not cover the workload is not among
  the applicable ones, neither before nor after the step, so the sort has the same
  input (`OutOfScope`).
- `RulePreviewedHolds`: `PreviewHolds` says what a preview may say in terms of the rules
  that cover a workload (`Asked`) and of its protection, not of the engine. The decisions
  that the preview computes are those (`WinnersAsAsked`, `GuardedIsProtected`), so the
  creation time that it makes up for the proposed rule does not matter (`ImpactHolds`,
  `PolicyPreview`, `OverridePreview`); and rules are kept by name (`RulesByName`), so
  what is stored is what was previewed (`PolicyStored`, `OverrideStored`).

Only model-checked are the liveness properties (`PendingAuditRecorded`, `Settles`,
`AttemptsClosed`, `HandedOver`, `AnnotationsFollowed`, `ComesToRest`, `BuiltInsReturn`), which are
beyond this prover. Every
invariant and action property of the passing runs has a theorem.

## 6. What the checks show

The passing runs and the theorems: the write-ahead discipline of the reconciler
holds against every interleaving of crashes, failed calls, stale caches and foreign
writers; pending audits survive; accepted writes are not repeated; the engine's
five-level comparison comes down to "the strongest rules, and on before off"; a
deleted group never widens a rule, and a changed rule changes nothing outside its
scope; the preview of a rule is right about what each workload is then asked for;
windows are intervals; an approved request has been in effect since it was filed, unless
a copy out of date made a handler believe so, is decided in the name of its
reviewer, who is not the requester, and is carried out at most once, unless it is a creation whose object somebody else has removed; discovery destroys the
record of a powered-down workload only if it has read something out of date or
somebody has written since it listed the workloads; a webhook is called only for an
attempt that the channel shows, every attempt is closed and counted once, an event
is posted in two attempts only if the copy of the channel was out of date or its
history has moved on, and a full queue delays an event of a durable caller but does not
lose it.

A mutation whose outcome is unknown may be issued again: `reconcileExistingAction`
repeats the intent under a new identifier if discovery does not show its effect.
`PowerCycle` has this as `Fail` or a second `Begin`; that it is nearly idempotent
follows from the revision in the snapshot, and where it is not, that is finding 1.

The discovery loop never overwrites a schedule or a policy that is somebody else's, and
each annotated namespace gets its policy in spite of the others; then it stops writing,
although the status writes of the reconciler move the revisions it works with. An annotation that is
removed leaves its policy in force: the code has no step that withdraws one.

Five disagreements between the code and what its documents, comments or tests say
(`findings` in `PROJECT.json`):

1. *A replica count can be lost* (`Recoverable`). When a second power-down is begun before
   discovery has seen the first (another rule that also says "off" wins, a retry is
   requested, or the first answer was lost), the executor refuses it as stale and
   the reconciler sets `Status.Snapshot = nil`, although the workload is down by
   the first. The next pass captures zero replicas, or there is nothing to restore.
   `LossOnlyWhileLagging` shows that this window is the only way to lose it.
2. *The preview of an edit compares with the wrong rules* (`RulePreviewed`, as a
   property that holds). Handler and simulation take every version of the policy out of
   the current rules, so the new one is compared with no policy at all: a workload that
   the old version keeps on, the other rules want off and the edit switches off is not
   listed. A workload that is blocked is listed whether or not anything changes for it
   (`preview.go:73-77`).
3. *An applied approval can be rejected* (`AppliedNotReversed`), because a lagging
   cache is taken for proof that a write did not happen. `ReversalNeedsCause` shows what
   it takes: a read that fails or is out of date, in the first attempt or in a retry,
   or somebody who has changed the resource since.
4. *Opting out can strand a workload* (`OptOutKeepsSnapshot`). A migration that is
   resumed for a workload that has opted out writes the snapshot to the new target,
   deletes the old one and then reads the new one back through the informer; a copy from
   before the write has no snapshot, and the target is deleted. A lag behind the
   reconciler's own write has the same effect.
5. *An override does not win a tie* (`OverrideWinsTies`). `docs/crds.md:259` says "If tied,
   `PowerOverride` wins over `PowerPolicy`", and `docs/architecture.md:150` agrees.
   `ResolvePriority` compares the state right after the priority and never the kind: an
   override that asks for "off" loses against a policy of the same priority that asks
   for "on". `SafetyFirst` is what the code does instead.

## 7. Not modelled

- The override reconciler, and what the policy reconciler counts: a phase, counters and
  next times in a status that no decision reads (that the status write moves the revision
  of a policy is in `ImplicitPolicies`). The expiry and the scopes that decisions do use
  are in `RuleBook`.
- Users, sessions and tokens (cryptography and cookies); of the users the models keep
  who may review.
- Savings and metrics: floating-point estimates that no decision reads.
- The check at start that the notification CRD is new enough: it keeps no state.
- The CLI, the web panel, the chart, the wiring of processes and the CRD types: no
  behaviour of their own, or generated. Handlers that only read or export.
- The payloads of the notification providers, and the single-event variant of the
  dispatcher that `Run` does not use.

## 8. What could follow

1. The composition of `RuleBook`'s decision with `TargetReconciler`, so that facts,
   rules and passes interleave; today the reconciler meets any sequence of
   decisions, which includes those the rules can produce.
2. The phase of an override against the engine's idea of expiry.
3. Several targets and the notification of each, so that `TargetReconciler` is the
   durable caller of `Dispatcher`.
4. An abstract specification of the dispatcher (one delivery per event and channel) and
   of discovery (one record per powered-down workload), and their refinement.
5. Liveness proofs, when the prover supports them.
