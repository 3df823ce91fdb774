-------------------------- MODULE TargetReconciler --------------------------
(***************************************************************************)
(* The power-down / restore protocol of one PowerTarget:                   *)
(*                                                                         *)
(*   internal/adapters/driving/reconciler/target_reconciler.go             *)
(*   internal/adapters/driven/kubernetes/executor.go                       *)
(*   internal/adapters/driving/background/discovery.go (observation only)  *)
(*                                                                         *)
(* The controller keeps no state of its own.  What it must not forget (the *)
(* replica count a workload had before it was scaled to zero, and which    *)
(* mutation it has begun) lives in the status of a PowerTarget object that *)
(* several actors write under optimistic concurrency, and that it reads    *)
(* through an informer cache that lags behind.                             *)
(*                                                                         *)
(* One action is one call to the API server together with the local        *)
(* computation that follows it.  Between two actions anything else may     *)
(* happen: a discovery write, a crash, an operator scaling the workload, a *)
(* policy change, a cache that has not caught up.                          *)
(*                                                                         *)
(* Abstracted: the workload kind (a CronJob is a workload with one replica *)
(* that suspending sets to zero); rules, schedules and guardrails (the     *)
(* winning decision is an input, see variable decision); time (the         *)
(* convergence grace either has elapsed or has not); error-audit events    *)
(* and metrics, which carry no identity and are never read back.           *)
(***************************************************************************)
EXTENDS Integers

CONSTANTS
    Keys,         \* powerDecisionKey of the rules that may win
    NoKey,        \* the key of a target no rule manages
    MaxReplicas,  \* replica counts are 0..MaxReplicas
    AuditIDs,     \* values of Action.AuditEventID
    NoAuditID,    \* an action without one
    MaxFaults,    \* bound: failed calls and crashes
    MaxOutside,   \* bound: writes by operators and other controllers
    MaxFlips      \* bound: changes of the winning decision

ASSUME ConstantsAssumption ==
    /\ NoKey \notin Keys
    /\ MaxReplicas \in Nat
    /\ NoAuditID \notin AuditIDs
    /\ MaxFaults \in Nat
    /\ MaxOutside \in Nat
    /\ MaxFlips \in Nat

(***************************************************************************)
(*  live      the workload: spec.replicas and resourceVersion              *)
(*  wcache    the executor's informer copy of it                           *)
(*  stored    the PowerTarget in the API server                            *)
(*  cache     the informer copy of it; cacheCur iff its resourceVersion is *)
(*            the stored one                                               *)
(*  decision  what ComputeDecision returns at this moment                  *)
(*  pc, loc, cur, dec   the pass of Reconcile in progress: the next API    *)
(*            call, its in-memory target, whether that still has the       *)
(*            stored resourceVersion, and its decision                     *)
(*  seen      the power state the running discovery cycle has listed       *)
(*  auditLog  the AuditEventIDs whose success event exists                 *)
(*  faults, outside, flips   what is left of the bounds                    *)
(*                                                                         *)
(* History variable, read by the properties alone:                         *)
(*  owed      the replicas the controller took away and nobody gave back   *)
(***************************************************************************)
VARIABLES live, wcache, stored, cache, cacheCur, decision, pc, loc, cur, dec,
          seen, auditLog, faults, outside, flips, owed

workloadVars == <<live, wcache, owed>>
targetVars   == <<stored, cache, cacheCur>>
passVars     == <<pc, loc, cur, dec>>
envVars      == <<decision, flips, outside, seen>>
vars == <<live, wcache, stored, cache, cacheCur, decision, pc, loc, cur, dec,
          seen, auditLog, faults, outside, flips, owed>>

-----------------------------------------------------------------------------
Power == {"on", "off"}

\* PowerStateFromObserved: zero replicas (a suspended CronJob) is off.
PowerOf(replicas) == IF replicas = 0 THEN "off" ELSE "on"

Replicas == 0..MaxReplicas
Workload == [replicas : Replicas, rv : Nat]

\* "none": no rule manages the target, or a guardrail blocks the decision.
NoDecision == [desired |-> "none", key |-> NoKey]
Decisions  == [desired : Power, key : Keys] \cup {NoDecision}

NoSnapshot == [available |-> FALSE, replicas |-> 0, rv |-> 0]
Snapshots  == [available : BOOLEAN, replicas : Replicas, rv : Nat]

Phases == {"None", "InProgress", "Applied", "Converged", "Contended", "Failed"}

NoAction ==
    [phase |-> "None", desired |-> "none", key |-> NoKey, token |-> 0,
     id |-> NoAuditID, audit |-> "None"]

Actions ==
    [phase : Phases, desired : Power \cup {"none"}, key : Keys \cup {NoKey},
     token : Nat, id : AuditIDs \cup {NoAuditID},
     audit : {"None", "Pending", "Recorded"}]

Labels == {"new", "none", "on", "off", "divergent"}

Targets ==
    [obs : Power, snap : Snapshots, act : Actions, token : Nat, label : Labels]

NewTarget(obs) ==
    [obs |-> obs, snap |-> NoSnapshot, act |-> NoAction, token |-> 0,
     label |-> "new"]

\* The label updateTargetStatus derives from the decision.
StateLabel(d, obs) ==
    IF d.desired \notin {"none", obs} THEN "divergent" ELSE d.desired

-----------------------------------------------------------------------------
(* Writes to the API server                                                *)

\* An Update whose resourceVersion is current.  Unless nothing changed, the
\* object gets a new resourceVersion, of which the cache has yet to hear.
Accepted(t) ==
    /\ cur
    /\ stored' = t
    /\ cacheCur' = (cacheCur /\ t = stored)
    /\ UNCHANGED cache

\* An Update of fields outside the model (BlockReasons, ConsecutiveFailures...).
AcceptedElsewhere ==
    /\ cur
    /\ cacheCur' = FALSE
    /\ UNCHANGED <<stored, cache>>

Fault == faults > 0 /\ faults' = faults - 1

\* An Update that returns an error: a conflict, a refused request, or a
\* request the server applied although the response was lost.
WriteFails(t) ==
    \/ ~cur /\ UNCHANGED <<targetVars, faults>>
    \/ Fault /\ UNCHANGED targetVars
    \/ Fault /\ Accepted(t)

\* Reconcile returns; whatever it held in memory is gone.
EndPass ==
    /\ pc' = "idle"
    /\ loc' = NewTarget("off")
    /\ cur' = FALSE
    /\ dec' = NoDecision

\* A status write after which the pass continues at next with t in memory.
PersistAndContinue(t, next) ==
    \/ /\ Accepted(t)
       /\ loc' = t
       /\ pc' = next
       /\ UNCHANGED <<cur, dec, faults>>
    \/ WriteFails(t) /\ EndPass

\* A status write that is the last call of the pass.
PersistAndEnd(t) ==
    /\ \/ Accepted(t) /\ UNCHANGED faults
       \/ WriteFails(t)
    /\ EndPass

-----------------------------------------------------------------------------
(* Reconcile, up to the pending audit                                      *)

StartReconcile ==
    /\ pc = "idle"
    /\ loc' = cache
    /\ cur' = cacheCur
    /\ dec' = decision
    /\ pc' = IF StateLabel(decision, cache.obs) = cache.label
             THEN "resume" ELSE "label"
    /\ UNCHANGED <<workloadVars, targetVars, auditLog, envVars, faults>>

\* Update writes metadata only: the response replaces the in-memory object, and
\* with it the status computed so far, by what the server holds.
PersistStateLabel ==
    /\ pc = "label"
    /\ PersistAndContinue(
           [stored EXCEPT !.label = StateLabel(dec, loc.obs)], "resume")
    /\ UNCHANGED <<workloadVars, auditLog, envVars>>

AuditPending(a) == a.audit = "Pending" /\ a.id # NoAuditID

\* Mutant: the checkpoint is prepared although the event was not created.
RecordPendingAuditUnchecked ==
    /\ pc = "resume"
    /\ AuditPending(loc.act)
    /\ loc' = [loc EXCEPT !.act.audit = "Recorded"]
    /\ pc' = "checkpoint"
    /\ UNCHANGED <<cur, dec, workloadVars, targetVars, envVars, auditLog, faults>>

\* Audit.Record creates the event under its AuditEventID; an event that exists
\* already is accepted as recorded.
RecordPendingAudit ==
    /\ pc = "resume"
    /\ AuditPending(loc.act)
    /\ \/ /\ auditLog' = auditLog \cup {loc.act.id}
          /\ loc' = [loc EXCEPT !.act.audit = "Recorded"]
          /\ pc' = "checkpoint"
          /\ UNCHANGED <<cur, dec, faults>>
       \/ /\ Fault
          /\ auditLog' \in {auditLog, auditLog \cup {loc.act.id}}
          /\ EndPass
    /\ UNCHANGED <<workloadVars, targetVars, envVars>>

\* Mutant: the recorded audit is remembered in memory only.
CheckpointAuditInMemory ==
    /\ pc = "checkpoint"
    /\ EndPass
    /\ UNCHANGED <<workloadVars, targetVars, auditLog, envVars, faults>>

CheckpointAudit ==
    /\ pc = "checkpoint"
    /\ PersistAndEnd(loc)
    /\ UNCHANGED <<workloadVars, auditLog, envVars>>

-----------------------------------------------------------------------------
(* reconcileExistingAction                                                 *)

\* Mutant: a restore whose outcome is not known yet counts as finished.
RestoredInProgress(t, d) ==
    /\ d.desired = "on"
    /\ t.obs = "on"
    /\ t.snap.available
    /\ \/ t.act.phase \in {"None", "Converged", "Contended"}
       \/ t.act.desired = "on" /\ t.act.audit # "Pending"

\* An operator or GitOps may have restored the workload already.
RestoredByOthers(t, d) ==
    /\ d.desired = "on"
    /\ t.obs = "on"
    /\ t.snap.available
    /\ \/ t.act.phase \in {"None", "Converged", "Contended"}
       \/ /\ t.act.desired = "on"
          /\ t.act.phase # "InProgress"
          /\ t.act.audit # "Pending"

\* The snapshot is then retired and the action replaced by a finished one.
RetireSnapshot(t, d) ==
    IF RestoredByOthers(t, d)
    THEN [t EXCEPT !.snap = NoSnapshot,
                   !.act = [NoAction EXCEPT !.phase = "Converged",
                                            !.desired = "on",
                                            !.key = d.key,
                                            !.token = t.token]]
    ELSE t

\* The stored action is this decision's, and no retry has been requested.
SameAction(t, d) ==
    /\ t.act.phase \notin {"None", "Failed"}
    /\ t.act.desired = d.desired
    /\ t.act.key = d.key
    /\ t.act.token = t.token

WithPhase(t, phase) == [t EXCEPT !.act.phase = phase]

\* completeAction and markActionAuditPending
Applied(t) == [t EXCEPT !.act.phase = "Applied", !.act.audit = "Pending"]

\* The pass has no audit to record and the decision asks for a power state.
Deciding ==
    /\ pc = "resume"
    /\ ~AuditPending(loc.act)
    /\ dec.desired \in Power

SkipUnmanaged ==
    /\ pc = "resume"
    /\ ~AuditPending(loc.act)
    /\ dec.desired = "none"
    /\ pc' = "final"
    /\ UNCHANGED <<loc, cur, dec, workloadVars, targetVars, auditLog, envVars,
                   faults>>

\* A mutation whose outcome was lost is seen to have happened.
RecoverOutcome ==
    /\ Deciding
    /\ loc.obs = dec.desired
    /\ SameAction(loc, dec)
    /\ loc.act.phase = "InProgress"
    /\ PersistAndEnd(Applied(loc))
    /\ UNCHANGED <<workloadVars, auditLog, envVars>>

ObserveConvergence ==
    /\ Deciding
    /\ loc.obs = dec.desired
    /\ ~(SameAction(loc, dec) /\ loc.act.phase = "InProgress")
    /\ LET t == RetireSnapshot(loc, dec)
       IN  loc' = IF SameAction(t, dec) THEN WithPhase(t, "Converged") ELSE t
    /\ pc' = "final"
    /\ UNCHANGED <<cur, dec, workloadVars, targetVars, auditLog, envVars, faults>>

\* The grace period of an accepted mutation is running, or its contention has
\* been reported: leave the workload alone.
AwaitConvergence ==
    /\ Deciding
    /\ loc.obs # dec.desired
    /\ SameAction(loc, dec)
    /\ loc.act.phase \in {"Applied", "Contended"}
    /\ EndPass
    /\ UNCHANGED <<workloadVars, targetVars, auditLog, envVars, faults>>

ReportContention ==
    /\ Deciding
    /\ loc.obs # dec.desired
    /\ SameAction(loc, dec)
    /\ loc.act.phase \in {"Applied", "Converged"}
    /\ PersistAndEnd(WithPhase(loc, "Contended"))
    /\ UNCHANGED <<workloadVars, auditLog, envVars>>

\* Mutant: the divergence of an accepted mutation is answered by a new one.
DivergedAgain ==
    /\ Deciding
    /\ loc.obs # dec.desired
    /\ pc' = IF dec.desired = "on" THEN "begin"
             ELSE IF loc.snap.available THEN "admit" ELSE "capture"
    /\ UNCHANGED <<loc, cur, dec, workloadVars, targetVars, auditLog, envVars,
                   faults>>

\* A new action, a failed one, an authorised retry, or an intent whose outcome
\* is unknown: go on to the mutation.
Diverged ==
    /\ Deciding
    /\ loc.obs # dec.desired
    /\ SameAction(loc, dec) => loc.act.phase = "InProgress"
    /\ pc' = IF dec.desired = "on" THEN "begin"
             ELSE IF loc.snap.available THEN "admit" ELSE "capture"
    /\ UNCHANGED <<loc, cur, dec, workloadVars, targetVars, auditLog, envVars,
                   faults>>

-----------------------------------------------------------------------------
(* The mutation                                                            *)

\* What the executor reads of the workload, from its cache.
Captured ==
    [available |-> TRUE, replicas |-> wcache.replicas, rv |-> wcache.rv]

\* If the read fails, only the failure is counted in the status.
CaptureAndPersistSnapshot ==
    /\ pc = "capture"
    /\ \/ PersistAndContinue([loc EXCEPT !.snap = Captured], "admit")
       \/ Fault /\ AcceptedElsewhere /\ EndPass
    /\ UNCHANGED <<workloadVars, auditLog, envVars>>

\* The live list of autoscalers may fail or show one without opt-in (both count
\* as faults); the block is then written to the target and the pass ends.
AdmitLiveHPA ==
    /\ pc = "admit"
    /\ \/ pc' = "begin" /\ UNCHANGED <<loc, cur, dec, targetVars, faults>>
       \/ /\ Fault
          /\ AcceptedElsewhere \/ UNCHANGED targetVars
          /\ EndPass
    /\ UNCHANGED <<workloadVars, auditLog, envVars>>

Intent(id) ==
    [loc EXCEPT !.act = [phase |-> "InProgress", desired |-> dec.desired,
                         key |-> dec.key, token |-> loc.token, id |-> id,
                         audit |-> "None"]]

\* The AuditEventID is a hash over the attempt's timestamp and so a new one.
\* An identifier that no copy of the target names any more may be used again.
BeginAction ==
    /\ pc = "begin"
    /\ \E id \in AuditIDs \ {stored.act.id, cache.act.id} :
          /\ PersistAndContinue(Intent(id), "execute")
          /\ auditLog' = auditLog \ {id}
    /\ UNCHANGED <<workloadVars, envVars>>

\* The executor reads the workload from its cache and updates that revision.
Scaled(n) ==
    [replicas |-> n, rv |-> IF n = live.replicas THEN live.rv ELSE live.rv + 1]

CacheIsLive == wcache.rv = live.rv

\* Mutant: verifySnapshotRevision is skipped.
RevisionUnchecked == CacheIsLive

\* verifySnapshotRevision, then the Update's own conflict check
RevisionUnchanged == loc.snap.rv = wcache.rv /\ CacheIsLive

ScaleToZero ==
    /\ RevisionUnchanged
    /\ live' = Scaled(0)
    /\ owed' = IF live.replicas > 0 THEN live.replicas ELSE owed

\* Mutant: one replica too many.
ScaleBeyondSnapshot ==
    /\ CacheIsLive
    /\ live' = Scaled(loc.snap.replicas + 1)
    /\ owed' = 0

\* Mutant: restore insists on the snapshot's revision as power-down does.
ScaleToSnapshotRevision ==
    /\ RevisionUnchanged
    /\ live' = Scaled(loc.snap.replicas)
    /\ owed' = IF loc.snap.replicas > 0 THEN 0 ELSE owed

ScaleToSnapshot ==
    /\ CacheIsLive
    /\ live' = Scaled(loc.snap.replicas)
    /\ owed' = IF loc.snap.replicas > 0 THEN 0 ELSE owed

NotApplied == UNCHANGED <<live, owed>>

\* restoreCronJob writes nothing if its copy says what the snapshot says.
RestoredAlready == wcache.replicas = loc.snap.replicas /\ NotApplied

\* PowerDown: accepted; ErrSnapshotStale, after which the snapshot is retired;
\* or another error, with or without the mutation having been applied.
ExecutePowerDown ==
    /\ pc = "execute"
    /\ dec.desired = "off"
    /\ \/ /\ ScaleToZero
          /\ loc' = Applied(loc)
          /\ pc' = "complete"
          /\ UNCHANGED faults
       \/ /\ ~RevisionUnchanged
          /\ NotApplied
          /\ loc' = [WithPhase(loc, "Failed") EXCEPT !.snap = NoSnapshot]
          /\ pc' = "failed"
          /\ UNCHANGED faults
       \/ /\ Fault
          /\ NotApplied \/ ScaleToZero
          /\ loc' = WithPhase(loc, "Failed")
          /\ pc' = "failed"
    /\ UNCHANGED <<wcache, cur, dec, targetVars, envVars, auditLog>>

\* Mutant: the snapshot is dropped with the write instead of at its observation.
ExecuteRestoreDropSnapshot ==
    /\ pc = "execute"
    /\ dec.desired = "on"
    /\ \/ /\ loc.snap.available
          /\ ScaleToSnapshot
          /\ loc' = [Applied(loc) EXCEPT !.snap = NoSnapshot]
          /\ pc' = "complete"
          /\ UNCHANGED faults
       \/ /\ ~(loc.snap.available /\ CacheIsLive)
          /\ NotApplied
          /\ loc' = [WithPhase(loc, "Failed") EXCEPT !.snap = NoSnapshot]
          /\ pc' = "failed"
          /\ UNCHANGED faults
    /\ UNCHANGED <<wcache, cur, dec, targetVars, envVars, auditLog>>

\* Restore refuses without a snapshot, and fails on a revision its cache has
\* not seen yet; it does not look at what it overwrites.
ExecuteRestore ==
    /\ pc = "execute"
    /\ dec.desired = "on"
    /\ \/ /\ loc.snap.available
          /\ ScaleToSnapshot \/ RestoredAlready
          /\ loc' = Applied(loc)
          /\ pc' = "complete"
          /\ UNCHANGED faults
       \/ /\ ~(loc.snap.available /\ CacheIsLive)
          /\ NotApplied
          /\ loc' = WithPhase(loc, "Failed")
          /\ pc' = "failed"
          /\ UNCHANGED faults
       \/ /\ loc.snap.available
          /\ Fault
          /\ NotApplied \/ ScaleToSnapshot
          /\ loc' = WithPhase(loc, "Failed")
          /\ pc' = "failed"
    /\ UNCHANGED <<wcache, cur, dec, targetVars, envVars, auditLog>>

PersistFailure ==
    /\ pc = "failed"
    /\ PersistAndEnd(loc)
    /\ UNCHANGED <<workloadVars, auditLog, envVars>>

\* The completion checkpoint; the pending audit is recorded next.
PersistCompletion ==
    /\ pc = "complete"
    /\ PersistAndContinue(loc, "resume")
    /\ UNCHANGED <<workloadVars, auditLog, envVars>>

\* Step 7 writes the status only if it differs from the one that was read.
PersistStatus ==
    /\ pc = "final"
    /\ PersistAndEnd(loc)
    /\ UNCHANGED <<workloadVars, auditLog, envVars>>

-----------------------------------------------------------------------------
(* Discovery                                                               *)

DiscoverWorkload ==
    /\ seen = "none"
    /\ seen' = PowerOf(live.replicas)
    /\ UNCHANGED <<workloadVars, targetVars, passVars, auditLog, decision, flips,
                   outside, faults>>

\* Get from the cache, Status().Update; an error is left to the next cycle.
UpdateObservedState ==
    /\ seen # "none"
    /\ seen' = "none"
    /\ \/ /\ cacheCur
          /\ stored' = [stored EXCEPT !.obs = seen]
          /\ cacheCur' = (seen = stored.obs)
          /\ cur' = (cur /\ seen = stored.obs)
          /\ UNCHANGED faults
       \/ /\ ~cacheCur
          /\ UNCHANGED <<stored, cacheCur, cur, faults>>
       \/ /\ Fault
          /\ UNCHANGED <<stored, cacheCur, cur>>
    /\ UNCHANGED <<workloadVars, cache, pc, loc, dec, auditLog, decision, flips,
                   outside>>

-----------------------------------------------------------------------------
(* Informer caches and the environment                                     *)

SyncTargetCache ==
    /\ ~cacheCur
    /\ cache' = stored
    /\ cacheCur' = TRUE
    /\ UNCHANGED <<workloadVars, stored, passVars, auditLog, envVars, faults>>

SyncWorkloadCache ==
    /\ ~CacheIsLive
    /\ wcache' = live
    /\ UNCHANGED <<live, owed, targetVars, passVars, auditLog, envVars, faults>>

\* A rule is created, changed, removed or expires, or a window opens or closes.
ChangeDecision ==
    /\ flips > 0
    /\ flips' = flips - 1
    /\ decision' \in Decisions \ {decision}
    /\ UNCHANGED <<workloadVars, targetVars, passVars, auditLog, seen, outside,
                   faults>>

Outside == outside > 0 /\ outside' = outside - 1

\* An operator, GitOps or an autoscaler sets the replica count.
ScaleWorkload ==
    /\ Outside
    /\ \E n \in Replicas \ {live.replicas} :
          /\ live' = Scaled(n)
          /\ owed' = IF n > 0 THEN 0 ELSE owed
    /\ UNCHANGED <<wcache, targetVars, passVars, auditLog, decision,
                   flips, seen, faults>>

\* Any other field of the workload changes, its status for instance.
TouchWorkload ==
    /\ Outside
    /\ live' = [live EXCEPT !.rv = @ + 1]
    /\ UNCHANGED <<wcache, owed, targetVars, passVars, auditLog, decision,
                   flips, seen, faults>>

\* The power.aura.sh/retry-action annotation is changed.
RequestRetry ==
    /\ Outside
    /\ stored' = [stored EXCEPT !.token = @ + 1]
    /\ cacheCur' = FALSE
    /\ cur' = FALSE
    /\ UNCHANGED <<workloadVars, cache, pc, loc, dec, auditLog, decision,
                   flips, seen, faults>>

\* A write of fields outside the model alone: the reconciler's five-minute
\* checkpoint, discovery copying changed labels, an edit of the PowerTarget.
TouchTarget ==
    /\ Outside
    /\ cacheCur' = FALSE
    /\ cur' = FALSE
    /\ UNCHANGED <<workloadVars, stored, cache, pc, loc, dec, auditLog, decision,
                   flips, seen, faults>>

\* The controller dies and a new leader starts with freshly listed caches.
Crash ==
    /\ Fault
    /\ EndPass
    /\ seen' = "none"
    /\ cache' = stored
    /\ cacheCur' = TRUE
    /\ wcache' = live
    /\ UNCHANGED <<live, owed, stored, auditLog, decision, flips,
                   outside>>

-----------------------------------------------------------------------------
\* A target just created has no observed state yet, which reads as off.
Init ==
    /\ live \in [replicas : Replicas, rv : {1}]
    /\ wcache = live
    /\ \E obs \in {"off", PowerOf(live.replicas)} : stored = NewTarget(obs)
    /\ cache = stored
    /\ cacheCur = TRUE
    /\ decision \in Decisions
    /\ pc = "idle"
    /\ loc = NewTarget("off")
    /\ cur = FALSE
    /\ dec = NoDecision
    /\ seen = "none"
    /\ auditLog = {}
    /\ faults = MaxFaults
    /\ outside = MaxOutside
    /\ flips = MaxFlips
    /\ owed = 0

\* The steps of one pass after it has started.
ContinueReconcile ==
    \/ PersistStateLabel \/ RecordPendingAudit \/ CheckpointAudit
    \/ SkipUnmanaged \/ RecoverOutcome \/ ObserveConvergence
    \/ AwaitConvergence \/ ReportContention \/ Diverged
    \/ CaptureAndPersistSnapshot \/ AdmitLiveHPA \/ BeginAction
    \/ ExecutePowerDown \/ ExecuteRestore
    \/ PersistFailure \/ PersistCompletion \/ PersistStatus

Environment ==
    \/ ChangeDecision \/ ScaleWorkload \/ TouchWorkload
    \/ RequestRetry \/ TouchTarget \/ Crash

Next ==
    \/ StartReconcile \/ ContinueReconcile
    \/ DiscoverWorkload \/ UpdateObservedState
    \/ SyncTargetCache \/ SyncWorkloadCache
    \/ Environment

Spec == Init /\ [][Next]_vars

(***************************************************************************)
(* controller-runtime requeues every target, so a pass always starts again *)
(* and each of its calls returns; discovery runs on a ticker; the informer *)
(* watches deliver.  The convergence grace is finite, so a pass that keeps *)
(* finding the accepted mutation unobserved reports it one day: strong     *)
(* fairness, because the report is not possible between two passes.        *)
(* Nothing is assumed of the environment, nor of when the caches catch up. *)
(***************************************************************************)
Fairness ==
    /\ WF_vars(StartReconcile)
    /\ WF_vars(ContinueReconcile)
    /\ SF_vars(ReportContention)
    /\ WF_vars(DiscoverWorkload)
    /\ WF_vars(UpdateObservedState)
    /\ WF_vars(SyncTargetCache)
    /\ WF_vars(SyncWorkloadCache)

FairSpec == Spec /\ Fairness

-----------------------------------------------------------------------------
(* Properties *)

\* Every variable stays within its type; in particular no step invents a replica
\* count outside 0..MaxReplicas.
TypeOK ==
    /\ live \in Workload
    /\ wcache \in Workload
    /\ stored \in Targets
    /\ cache \in Targets
    /\ cacheCur \in BOOLEAN
    /\ decision \in Decisions
    /\ pc \in {"idle", "label", "resume", "checkpoint", "capture", "admit",
               "begin", "execute", "complete", "failed", "final"}
    /\ loc \in Targets
    /\ cur \in BOOLEAN
    /\ dec \in Decisions
    /\ seen \in Power \cup {"none"}
    /\ auditLog \in SUBSET AuditIDs
    /\ faults \in Nat
    /\ outside \in Nat
    /\ flips \in Nat
    /\ owed \in Replicas

\* The executor's write to the workload.
ControllerMutates == pc = "execute" /\ pc' # pc /\ live' # live

\* Whenever PowerDown or Restore changes the workload, the API server already
\* holds the intent of exactly this attempt (beginAction) and a snapshot of
\* exactly the replicas that are taken away or given back
\* (captureAndPersistSnapshot, verifySnapshotRevision), whatever discovery,
\* operators and stale caches did since the pass began.
WriteAhead ==
    [][ControllerMutates =>
          /\ stored.act = loc.act
          /\ stored.act.phase = "InProgress"
          /\ stored.act.desired = dec.desired
          /\ stored.snap.available
          /\ stored.snap.replicas
                = IF dec.desired = "off" THEN live.replicas ELSE live'.replicas
      ]_vars

\* As long as a workload is down because the controller scaled it to zero, its
\* PowerTarget holds the replica count to restore.  The code does not keep this:
\* a second power-down attempt, made before discovery observes the first, is
\* refused with ErrSnapshotStale and retires the only copy.
Recoverable ==
    owed > 0 => stored.snap.available /\ stored.snap.replicas = owed

\* The only step that can lose the replica count of a powered-down workload is
\* one taken while the stored observation still says that it runs: outside the
\* discovery lag no failure, crash, retry or concurrent writer loses it.
LossOnlyWhileLagging ==
    [][Recoverable /\ ~Recoverable' => stored.obs = "on" /\ live.replicas = 0]_vars

\* A pending audit (markActionAuditPending) leaves the stored action only after
\* its event exists: not by a new decision, a retry, a restored workload or a
\* lost checkpoint (reconcilePendingAudit runs before everything else).
PendingAuditSurvives ==
    [][AuditPending(stored.act) /\ ~AuditPending(stored'.act)
          => stored.act.id \in auditLog]_vars

\* Two actions stand for the same write: same desired state, same rule and no
\* retry requested in between.
SameWrite(a, b) ==
    /\ a.desired = b.desired
    /\ a.key = b.key
    /\ a.token = b.token

\* Once the acceptance of a mutation has been stored, the same write is never
\* begun again, even if the workload is seen to diverge
\* (reconcileExistingAction: contention is reported instead).
NoReissue ==
    [][/\ stored.act.phase \in {"Applied", "Converged", "Contended"}
       /\ stored'.act.phase = "InProgress"
       => ~SameWrite(stored.act, stored'.act)]_vars

(***************************************************************************)
(* The protocol that a reader of the API server sees                       *)
(***************************************************************************)
SavedCount == IF stored.snap.available THEN {stored.snap.replicas} ELSE {}
IntentState == IF stored.act.phase = "InProgress" THEN stored.act.desired ELSE "none"
AuditState ==
    IF ~AuditPending(stored.act) THEN "none"
    ELSE IF stored.act.id \in auditLog THEN "written" ELSE "pending"

Cycle == INSTANCE PowerCycle WITH
            Counts <- Replicas,
            replicas <- live.replicas, saved <- SavedCount, intent <- IntentState,
            audit <- AuditState, others <- MaxOutside - outside

\* Whatever passes that die, fail, are retried or work on stale copies do, what is
\* durable goes through the steps of PowerCycle alone: snapshot, intent, mutation,
\* outcome, audit, and only then the next intent or the end of the snapshot.
ImplementsPowerCycle == Cycle!Spec

\* Every pending audit is recorded in the end, whatever fails on the way
\* (reconcilePendingAudit is retried by every later pass).
PendingAuditRecorded ==
    AuditPending(stored.act) ~> stored.act.audit = "Recorded"

\* If the winning rule stops changing, the workload reaches the power state it
\* asks for, or contention is reported, or there is nothing to restore from:
\* the controller is never stuck in a failed, begun or stale action.
Settles ==
    \A d \in Decisions \ {NoDecision} :
        <>[](decision = d) =>
            []<>(\/ PowerOf(live.replicas) = d.desired
                 \/ stored.act.phase = "Contended"
                 \/ d.desired = "on" /\ ~stored.snap.available)
=============================================================================
