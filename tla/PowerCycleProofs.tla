-------------------------- MODULE PowerCycleProofs --------------------------
(***************************************************************************)
(* TargetReconciler implements PowerCycle, for all constants.              *)
(*                                                                         *)
(* The abstract steps say what precedes what in the durable state, while   *)
(* a pass acts on what it remembers.  Inv ties its memory to the stored    *)
(* object; Trail adds what the order of the abstract steps depends on: the *)
(* audit event of an action in progress does not exist yet, and nothing    *)
(* but the pass that began it can move it on.                              *)
(***************************************************************************)
EXTENDS TargetReconcilerProofs

\* The stored intent is new: no event of its identifier exists, and no older copy
\* of the target would create one.
IntentFresh ==
    stored.act.phase = "InProgress" =>
        /\ stored.act.desired \in Power
        /\ stored.act.id \in AuditIDs \ auditLog
        /\ ~AuditPending(stored.act)
        /\ AuditPending(cache.act) => cache.act.id # stored.act.id
        /\ pc \in {"label", "resume"} /\ AuditPending(loc.act)
              => loc.act.id # stored.act.id

\* What the pass is about to write, compared with what it replaces.
Replacement ==
    /\ pc = "begin" => dec.desired \in Power
    /\ pc \in {"execute", "complete", "failed"}
          => stored.act.phase = "InProgress" /\ loc.act.id = stored.act.id
    /\ pc = "execute" => loc.act.audit = "None"
    /\ pc = "complete" => loc.act.audit = "Pending"
    /\ pc = "failed"
          => /\ loc.act.audit = "None"
             /\ \/ loc.snap = stored.snap
                \/ loc.snap = NoSnapshot /\ stored.act.desired = "off"
    /\ pc = "checkpoint" /\ cur
          => loc.act = [stored.act EXCEPT !.audit = "Recorded"]
    /\ pc = "final" /\ cur
          => \/ loc.act = stored.act /\ loc.snap = stored.snap
             \/ /\ stored.act.phase # "InProgress"
                /\ loc.act.phase = "Converged" /\ ~AuditPending(loc.act)
                /\ loc.snap \in {stored.snap, NoSnapshot}

Trail == IntentFresh /\ Replacement

-----------------------------------------------------------------------------
(* Trail is an invariant *)

\* A pass that is over has nothing to replace.
LEMMA TrailEnded ==
    ASSUME Trail, pc' = "idle", cache' = cache,
           stored'.act.phase = "InProgress" =>
               /\ stored.act.phase = "InProgress" /\ stored'.act.id = stored.act.id
               /\ stored'.act.desired = stored.act.desired
               /\ ~AuditPending(stored'.act) /\ stored.act.id \notin auditLog'
    PROVE  Trail'
  BY DEF Trail, IntentFresh, Replacement

\* A pass that ends with a write that does not begin anything.
LEMMA TrailWritten ==
    ASSUME Trail, NEW t, Ended(t), auditLog' = auditLog,
           cur => \/ t.act = stored.act
                  \/ t.act.phase # "InProgress"
    PROVE  Trail'
<1>1. pc' = "idle" /\ cache' = cache
  BY DEF Ended, EndPass
<1>2. stored'.act = stored.act \/ stored'.act.phase # "InProgress"
  BY DEF Ended
<1> QED
  BY <1>1, <1>2, TrailEnded DEF Trail, IntentFresh

\* The fields of an action that checkpointing its audit leaves alone.
LEMMA RecordedFields ==
    ASSUME NEW a \in Actions
    PROVE  LET b == [a EXCEPT !.audit = "Recorded"]
           IN  /\ b.phase = a.phase /\ b.desired = a.desired /\ b.id = a.id
               /\ ~AuditPending(b)
  BY DEF Actions, AuditPending

\* Applying an action keeps its identity and makes its audit pending.
LEMMA AppliedAction ==
    ASSUME NEW t \in Targets
    PROVE  /\ Applied(t).act.phase = "Applied" /\ Applied(t).act.audit = "Pending"
           /\ Applied(t).act.id = t.act.id /\ Applied(t).act.desired = t.act.desired
           /\ Applied(t).snap = t.snap
  BY DEF Applied, Targets, Actions

\* The identifier survives a change of the phase.
LEMMA PhaseAction ==
    ASSUME NEW t \in Targets, NEW p
    PROVE  /\ WithPhase(t, p).act.id = t.act.id
           /\ AuditPending(WithPhase(t, p).act) <=> AuditPending(t.act)
  BY DEF WithPhase, Targets, Actions, AuditPending

\* What retiring the snapshot leaves of the action.
LEMMA RetiredAction ==
    ASSUME NEW t \in Targets, NEW d \in Decisions
    PROVE  \/ RetireSnapshot(t, d) = t
           \/ /\ t.act.phase # "InProgress"
              /\ RetireSnapshot(t, d).snap = NoSnapshot
              /\ RetireSnapshot(t, d).act.phase = "Converged"
              /\ ~AuditPending(RetireSnapshot(t, d).act)
<1>1. CASE RestoredByOthers(t, d)
  <2> DEFINE act == [NoAction EXCEPT !.phase = "Converged", !.desired = "on",
                                     !.key = d.key, !.token = t.token]
  <2>1. act.phase = "Converged" /\ ~AuditPending(act)
    BY DEF NoAction, AuditPending
  <2>2. RetireSnapshot(t, d) = [t EXCEPT !.snap = NoSnapshot, !.act = act]
    BY <1>1 DEF RetireSnapshot
  <2>3. t.act.phase # "InProgress"
    BY <1>1 DEF RestoredByOthers
  <2> HIDE DEF act
  <2> QED
    BY <2>1, <2>2, <2>3 DEF Targets
<1>2. CASE ~RestoredByOthers(t, d)
  BY <1>2 DEF RetireSnapshot
<1> QED
  BY <1>1, <1>2

\* The steps of a pass up to the mutation.
LEMMA TrailBefore ==
    ASSUME Inv, Trail, \/ PersistStateLabel \/ RecordPendingAudit \/ SkipUnmanaged
                       \/ ObserveConvergence \/ AwaitConvergence \/ Diverged
                       \/ CaptureAndPersistSnapshot \/ AdmitLiveHPA \/ BeginAction
    PROVE  Trail'
<1> USE DEF targetVars
<1>0. /\ loc \in Targets /\ stored \in Targets /\ cache \in Targets /\ dec \in Decisions
      /\ loc.act \in Actions
  BY PassFacts, TargetFields DEF Inv, TypeOK
<1>1. CASE PersistStateLabel
  <2> DEFINE t == [stored EXCEPT !.label = StateLabel(dec, loc.obs)]
  <2>1. t.act = stored.act
    BY <1>0 DEF Targets
  <2>2. Ended(t) \/ Continued(t, "resume")
    BY <1>1, PersistOutcome DEF PersistStateLabel
  <2>3. auditLog' = auditLog
    BY <1>1 DEF PersistStateLabel
  <2>4. CASE Ended(t)
    BY <2>1, <2>3, <2>4, TrailWritten
  <2>5. CASE Continued(t, "resume")
    BY <2>1, <2>3, <2>5 DEF Continued, Trail, IntentFresh, Replacement
  <2> QED
    BY <2>2, <2>4, <2>5
<1>2. CASE RecordPendingAudit
  <2>1. /\ pc = "resume" /\ AuditPending(loc.act)
        /\ UNCHANGED <<stored, cache>>
        /\ auditLog' \subseteq auditLog \cup {loc.act.id}
    BY <1>2 DEF RecordPendingAudit
  <2>2. IntentFresh'
    BY <1>2, <2>1 DEF RecordPendingAudit, EndPass, Trail, IntentFresh
  <2>3. Replacement'
    <3>1. CASE EndPass
      BY <3>1 DEF EndPass, Replacement
    <3>2. CASE /\ loc' = [loc EXCEPT !.act.audit = "Recorded"] /\ cur' = cur
               /\ pc' = "checkpoint"
      <4>1. cur => loc = stored
        BY <2>1 DEF Inv, PassAgrees
      <4>2. loc'.act = [loc.act EXCEPT !.audit = "Recorded"]
        BY <1>0, <3>2 DEF Targets
      <4> QED
        BY <2>1, <3>2, <4>1, <4>2 DEF Replacement
    <3> QED
      BY <1>2, <3>1, <3>2 DEF RecordPendingAudit
  <2> QED
    BY <2>2, <2>3 DEF Trail
<1>3. CASE SkipUnmanaged
  <2>1. pc = "resume" /\ pc' = "final" /\ UNCHANGED <<loc, cur, stored, cache, auditLog>>
    BY <1>3 DEF SkipUnmanaged
  <2> QED
    BY <2>1 DEF Inv, PassAgrees, Trail, IntentFresh, Replacement
<1>4. CASE ObserveConvergence
  <2>1. /\ pc = "resume" /\ pc' = "final" /\ UNCHANGED <<cur, stored, cache, auditLog>>
        /\ ~AuditPending(loc.act)
        /\ ~(SameAction(loc, dec) /\ loc.act.phase = "InProgress")
    BY <1>4 DEF ObserveConvergence, Deciding
  <2> DEFINE t == RetireSnapshot(loc, dec)
  <2>2. /\ t \in Targets
        /\ \/ t = loc
           \/ /\ loc.act.phase # "InProgress" /\ t.snap = NoSnapshot
              /\ t.act.phase = "Converged" /\ ~AuditPending(t.act)
    BY <1>0, RetireType, RetiredAction
  <2>3. loc' = IF SameAction(t, dec) THEN WithPhase(t, "Converged") ELSE t
    BY <1>4 DEF ObserveConvergence
  <2> HIDE DEF t
  <2>4. \/ loc' = loc
        \/ /\ loc.act.phase # "InProgress" /\ loc'.act.phase = "Converged"
           /\ ~AuditPending(loc'.act) /\ loc'.snap \in {loc.snap, NoSnapshot}
    BY <1>0, <2>1, <2>2, <2>3, PhaseFields, PhaseAction
  <2>5. cur => loc = stored
    BY <2>1 DEF Inv, PassAgrees
  <2> QED
    BY <2>1, <2>4, <2>5 DEF Trail, IntentFresh, Replacement
<1>5. CASE AwaitConvergence
  BY <1>5, TrailEnded DEF AwaitConvergence, EndPass, Trail, IntentFresh
<1>6. CASE Diverged
  <2>1. /\ pc' \in {"begin", "admit", "capture"} /\ dec.desired \in Power
        /\ UNCHANGED <<stored, cache, auditLog, dec>>
    BY <1>6 DEF Diverged, Deciding
  <2> QED
    BY <2>1 DEF Trail, IntentFresh, Replacement
<1>7. CASE CaptureAndPersistSnapshot
  <2> DEFINE t == [loc EXCEPT !.snap = Captured]
  <2>1. pc = "capture" /\ auditLog' = auditLog
    BY <1>7 DEF CaptureAndPersistSnapshot
  <2>2. cur => t.act = stored.act
    BY <1>0, <2>1 DEF Inv, PassAgrees, Targets
  <2>3. Ended(t) \/ Continued(t, "admit") \/ (AcceptedElsewhere /\ EndPass)
    BY <1>7, PersistOutcome DEF CaptureAndPersistSnapshot
  <2> HIDE DEF t
  <2>4. CASE Ended(t)
    BY <2>1, <2>2, <2>4, TrailWritten
  <2>5. CASE Continued(t, "admit")
    BY <2>1, <2>2, <2>5 DEF Continued, Trail, IntentFresh, Replacement
  <2>6. CASE AcceptedElsewhere /\ EndPass
    BY <2>1, <2>6, TrailEnded DEF AcceptedElsewhere, EndPass, Trail, IntentFresh
  <2> QED
    BY <2>3, <2>4, <2>5, <2>6
<1>8. CASE AdmitLiveHPA
  <2>1. /\ pc = "admit" /\ UNCHANGED <<stored, cache, auditLog>>
        /\ (pc' = "begin" /\ dec' = dec) \/ EndPass
    BY <1>8 DEF AdmitLiveHPA, AcceptedElsewhere
  <2>2. dec.desired \in Power
    BY <2>1 DEF Inv, OnTheWay, Power
  <2> QED
    BY <2>1, <2>2 DEF EndPass, Trail, IntentFresh, Replacement
<1>9. CASE BeginAction
  <2>1. PICK id \in AuditIDs \ {stored.act.id, cache.act.id} :
            /\ PersistAndContinue(Intent(id), "execute")
            /\ auditLog' = auditLog \ {id}
    BY <1>9 DEF BeginAction
  <2> DEFINE t == Intent(id)
  <2>2. /\ t.act.phase = "InProgress" /\ t.act.id = id /\ t.act.audit = "None"
        /\ ~AuditPending(t.act) /\ t.act.desired \in Power
    BY <1>0, <1>9 DEF BeginAction, Intent, Targets, AuditPending, Trail, Replacement
  <2>3. Ended(t) \/ Continued(t, "execute")
    BY <2>1, PersistOutcome
  <2> HIDE DEF t
  <2>4. pc' \in {"idle", "execute"} /\ cache' = cache
    BY <2>3 DEF Ended, Continued, EndPass
  <2>5. IntentFresh'
    <3>1. stored' = stored \/ stored' = t
      BY <2>3 DEF Ended, Continued
    <3> QED
      BY <2>1, <2>2, <2>4, <3>1 DEF Trail, IntentFresh
  <2>6. Replacement'
    BY <2>2, <2>3 DEF Ended, Continued, EndPass, Replacement
  <2> QED
    BY <2>5, <2>6 DEF Trail
<1> QED
  BY <1>1, <1>2, <1>3, <1>4, <1>5, <1>6, <1>7, <1>8, <1>9

\* The mutation, its outcome and the other last calls of a pass.
LEMMA TrailAfter ==
    ASSUME Inv, Trail, \/ CheckpointAudit \/ RecoverOutcome \/ ReportContention
                       \/ ExecutePowerDown \/ ExecuteRestore
                       \/ PersistFailure \/ PersistCompletion \/ PersistStatus
    PROVE  Trail'
<1> USE DEF targetVars
<1>0. loc \in Targets /\ stored \in Targets /\ stored.act \in Actions
  BY PassFacts, TargetFields
<1>1. CASE CheckpointAudit
  <2>1. pc = "checkpoint" /\ Ended(loc) /\ auditLog' = auditLog
    BY <1>1, PersistOutcome DEF CheckpointAudit
  <2>2. cur => /\ loc.act.phase = stored.act.phase /\ loc.act.id = stored.act.id
               /\ loc.act.desired = stored.act.desired /\ ~AuditPending(loc.act)
    BY <1>0, <2>1, RecordedFields DEF Trail, Replacement
  <2>3. pc' = "idle" /\ cache' = cache /\ (stored' = stored \/ (cur /\ stored' = loc))
    BY <2>1 DEF Ended, EndPass
  <2> QED
    BY <2>1, <2>2, <2>3, TrailEnded DEF Trail, IntentFresh
<1>2. CASE RecoverOutcome
  <2>1. Ended(Applied(loc)) /\ auditLog' = auditLog
    BY <1>2, PersistOutcome DEF RecoverOutcome
  <2> QED
    BY <1>0, <2>1, AppliedAction, TrailWritten
<1>3. CASE ReportContention
  <2>1. Ended(WithPhase(loc, "Contended")) /\ auditLog' = auditLog
    BY <1>3, PersistOutcome DEF ReportContention
  <2> QED
    BY <1>0, <2>1, PhaseFields, TrailWritten
<1>4. CASE ExecutePowerDown \/ ExecuteRestore
  <2>1. /\ pc = "execute" /\ UNCHANGED <<stored, cache, auditLog>>
        /\ \/ pc' = "complete" /\ loc' = Applied(loc)
           \/ pc' = "failed" /\ loc' = WithPhase(loc, "Failed")
           \/ /\ pc' = "failed" /\ dec.desired = "off"
              /\ loc' = [WithPhase(loc, "Failed") EXCEPT !.snap = NoSnapshot]
    BY <1>4 DEF ExecutePowerDown, ExecuteRestore
  <2>2. /\ loc.act = stored.act /\ loc.snap = stored.snap
        /\ loc.act.desired = dec.desired /\ stored.act.phase = "InProgress"
        /\ loc.act.audit = "None"
    BY <2>1 DEF Inv, Begun, Trail, Replacement
  <2>3. IntentFresh'
    BY <2>1 DEF Trail, IntentFresh
  <2>4. CASE pc' = "complete" /\ loc' = Applied(loc)
    BY <1>0, <2>1, <2>2, <2>3, <2>4, AppliedAction DEF Trail, Replacement
  <2>5. CASE pc' = "failed" /\ loc' = WithPhase(loc, "Failed")
    BY <1>0, <2>1, <2>2, <2>3, <2>5, PhaseFields, PhaseAction DEF Trail, Replacement
  <2>6. CASE /\ pc' = "failed" /\ dec.desired = "off"
             /\ loc' = [WithPhase(loc, "Failed") EXCEPT !.snap = NoSnapshot]
    <3>1. WithPhase(loc, "Failed") \in Targets
      BY <1>0, PhaseType DEF Phases
    <3>2. loc'.snap = NoSnapshot /\ loc'.act = WithPhase(loc, "Failed").act
      BY <2>6, <3>1 DEF Targets
    <3> QED
      BY <1>0, <2>1, <2>2, <2>3, <2>6, <3>2, PhaseFields, PhaseAction
      DEF Trail, Replacement
  <2> QED
    BY <2>1, <2>4, <2>5, <2>6
<1>5. CASE PersistFailure
  <2>1. pc = "failed" /\ Ended(loc) /\ auditLog' = auditLog
    BY <1>5, PersistOutcome DEF PersistFailure
  <2> QED
    BY <2>1, TrailWritten DEF Inv, Begun
<1>6. CASE PersistCompletion
  <2>1. pc = "complete" /\ auditLog' = auditLog
        /\ (Ended(loc) \/ Continued(loc, "resume"))
    BY <1>6, PersistOutcome DEF PersistCompletion
  <2>2. loc.act.phase = "Applied"
    BY <2>1 DEF Inv, Begun
  <2>3. CASE Ended(loc)
    BY <2>1, <2>2, <2>3, TrailWritten
  <2>4. CASE Continued(loc, "resume")
    BY <2>2, <2>4 DEF Continued, Trail, IntentFresh, Replacement
  <2> QED
    BY <2>1, <2>3, <2>4
<1>7. CASE PersistStatus
  <2>1. pc = "final" /\ Ended(loc) /\ auditLog' = auditLog
    BY <1>7, PersistOutcome DEF PersistStatus
  <2>2. cur => loc.act = stored.act \/ loc.act.phase # "InProgress"
    BY <2>1 DEF Trail, Replacement
  <2> QED
    BY <2>1, <2>2, TrailWritten
<1> QED
  BY <1>1, <1>2, <1>3, <1>4, <1>5, <1>6, <1>7

\* Everything that is not a step of a pass.
LEMMA TrailRest ==
    ASSUME Inv, Trail, \/ StartReconcile \/ DiscoverWorkload \/ UpdateObservedState
                       \/ SyncTargetCache \/ SyncWorkloadCache \/ Environment
    PROVE  Trail'
<1> USE DEF targetVars, passVars
<1>0. stored \in Targets /\ cur \in BOOLEAN
  BY PassFacts DEF Inv, TypeOK
<1>1. CASE StartReconcile
  <2>1. /\ loc' = cache /\ pc' \in {"label", "resume"}
        /\ UNCHANGED <<stored, cache, auditLog>>
    BY <1>1 DEF StartReconcile
  <2> QED
    BY <2>1 DEF Trail, IntentFresh, Replacement
<1>2. CASE \/ DiscoverWorkload \/ SyncWorkloadCache \/ ChangeDecision
           \/ ScaleWorkload \/ TouchWorkload
  <2>1. UNCHANGED <<stored, cache, auditLog, pc, loc, cur, dec>>
    BY <1>2 DEF DiscoverWorkload, SyncWorkloadCache, ChangeDecision, ScaleWorkload,
       TouchWorkload
  <2> QED
    BY <2>1 DEF Trail, IntentFresh, Replacement
<1>3. CASE UpdateObservedState \/ RequestRetry \/ TouchTarget
  <2>1. UNCHANGED <<cache, auditLog, pc, loc, dec>> /\ (cur' => cur)
    <3>1. CASE UpdateObservedState
      BY <1>0, <3>1 DEF UpdateObservedState
    <3> QED
      BY <1>3, <3>1 DEF RequestRetry, TouchTarget
  <2>2. stored'.act = stored.act /\ stored'.snap = stored.snap
    BY <1>0, <1>3 DEF UpdateObservedState, RequestRetry, TouchTarget, Targets
  <2> QED
    BY <2>1, <2>2 DEF Trail, IntentFresh, Replacement
<1>4. CASE SyncTargetCache
  <2>1. cache' = stored /\ UNCHANGED <<stored, auditLog, pc, loc, cur, dec>>
    BY <1>4 DEF SyncTargetCache
  <2> QED
    BY <2>1 DEF Trail, IntentFresh, Replacement
<1>5. CASE Crash
  <2>1. cache' = stored /\ pc' = "idle" /\ UNCHANGED <<stored, auditLog>>
    BY <1>5 DEF Crash, EndPass
  <2> QED
    BY <2>1 DEF Trail, IntentFresh, Replacement
<1> QED
  BY <1>1, <1>2, <1>3, <1>4, <1>5 DEF Environment

\* Nothing is in progress at first.
LEMMA TrailInit == Init => Trail
  BY DEF Init, NewTarget, NoAction, Trail, IntentFresh, Replacement

\* The two invariants together are inductive.
LEMMA TrailNext == Inv /\ Trail /\ [Next]_vars => Trail'
<1> SUFFICES ASSUME Inv, Trail, [Next]_vars PROVE Trail'
  OBVIOUS
<1>1. CASE Next
  BY <1>1, TrailBefore, TrailAfter, TrailRest DEF Next, ContinueReconcile
<1>2. CASE UNCHANGED vars
  BY <1>2 DEF vars, Trail, IntentFresh, Replacement
<1> QED
  BY <1>1, <1>2

-----------------------------------------------------------------------------
(* Every step is a step of PowerCycle, or none *)

\* A step that leaves the durable state alone.
LEMMA Unseen ==
    ASSUME stored'.act = stored.act, stored'.snap = stored.snap,
           live'.replicas = live.replicas, outside' = outside,
           stored.act.id \in auditLog <=> stored.act.id \in auditLog'
    PROVE  UNCHANGED Cycle!cycle
  BY DEF Cycle!cycle, SavedCount, IntentState, AuditState, AuditPending

\* A pass that ends without having written has no effect.
LEMMA WroteNothing ==
    ASSUME NEW t, Ended(t), ~cur \/ (t.act = stored.act /\ t.snap = stored.snap)
    PROVE  stored'.act = stored.act /\ stored'.snap = stored.snap
  BY DEF Ended

\* The steps of a pass that write neither action nor snapshot nor workload.
LEMMA QuietSteps ==
    ASSUME Inv, \/ PersistStateLabel \/ SkipUnmanaged \/ ObserveConvergence
                \/ AwaitConvergence \/ Diverged \/ AdmitLiveHPA
    PROVE  UNCHANGED Cycle!cycle
<1> USE DEF targetVars, workloadVars, envVars
<1>0. stored \in Targets
  BY PassFacts
<1>1. UNCHANGED <<live, outside, auditLog>>
  BY DEF PersistStateLabel, SkipUnmanaged, ObserveConvergence, AwaitConvergence,
     Diverged, AdmitLiveHPA
<1>2. CASE PersistStateLabel
  <2> DEFINE t == [stored EXCEPT !.label = StateLabel(dec, loc.obs)]
  <2>1. t.act = stored.act /\ t.snap = stored.snap
    BY <1>0 DEF Targets
  <2>2. Ended(t) \/ Continued(t, "resume")
    BY <1>2, PersistOutcome DEF PersistStateLabel
  <2>3. stored'.act = stored.act /\ stored'.snap = stored.snap
    BY <2>1, <2>2 DEF Ended, Continued
  <2> QED
    BY <1>1, <2>3, Unseen
<1>3. CASE stored' = stored
  BY <1>1, <1>3, Unseen
<1> QED
  BY <1>2, <1>3 DEF SkipUnmanaged, ObserveConvergence, AwaitConvergence, Diverged,
     AdmitLiveHPA, AcceptedElsewhere

\* RecordPendingAudit writes the event of the stored action, or that of an older
\* one, which nobody waits for.
LEMMA RecordIsWrite ==
    ASSUME Inv, RecordPendingAudit
    PROVE  Cycle!Next \/ UNCHANGED Cycle!cycle
<1>1. /\ UNCHANGED <<stored, live, outside>>
      /\ auditLog' = auditLog \/ auditLog' = auditLog \cup {loc.act.id}
  BY DEF RecordPendingAudit, targetVars, workloadVars, envVars
<1>2. CASE stored.act.id \in auditLog <=> stored.act.id \in auditLog'
  BY <1>1, <1>2, Unseen
<1>3. CASE stored.act.id \notin auditLog /\ stored.act.id \in auditLog'
  BY <1>1, <1>3 DEF Cycle!Next, Cycle!WriteAudit, Cycle!cycle, SavedCount,
     IntentState, AuditState
<1> QED
  BY <1>1, <1>2, <1>3

\* CheckpointAudit, RecoverOutcome and ReportContention.
LEMMA OutcomeSteps ==
    ASSUME Inv, Trail, CheckpointAudit \/ RecoverOutcome \/ ReportContention
    PROVE  Cycle!Next \/ UNCHANGED Cycle!cycle
<1>0. /\ loc \in Targets /\ stored \in Targets /\ stored.act \in Actions
      /\ stored.act.id \in AuditIDs \cup {NoAuditID}
  BY PassFacts, TargetFields
<1>1. UNCHANGED <<live, outside, auditLog>>
  BY DEF CheckpointAudit, RecoverOutcome, ReportContention, workloadVars, envVars
<1>2. CASE stored' = stored
  BY <1>1, <1>2, Unseen
<1>3. CASE CheckpointAudit /\ cur /\ stored' = loc
  <2>1. loc.snap = stored.snap /\ loc.act.id \in auditLog
    BY <1>3 DEF CheckpointAudit, Inv, PassAgrees, Begun
  <2>2. /\ loc.act.phase = stored.act.phase /\ loc.act.desired = stored.act.desired
        /\ loc.act.id = stored.act.id /\ ~AuditPending(loc.act)
    BY <1>0, <1>3, RecordedFields DEF CheckpointAudit, Trail, Replacement
  <2> QED
    BY <1>1, <1>3, <2>1, <2>2 DEF Cycle!Next, Cycle!CheckpointAudit, Cycle!cycle,
       SavedCount, IntentState, AuditState
<1>4. CASE RecoverOutcome /\ cur /\ stored' = Applied(loc)
  <2>1. loc = stored /\ stored.act.phase = "InProgress"
    BY <1>4 DEF RecoverOutcome, Deciding, Inv, PassAgrees
  <2>2. /\ stored'.act.phase = "Applied" /\ stored'.act.audit = "Pending"
        /\ stored'.act.id = stored.act.id /\ stored'.snap = stored.snap
    BY <1>0, <1>4, <2>1, AppliedAction
  <2>3. /\ ~AuditPending(stored.act) /\ stored.act.id # NoAuditID
        /\ stored.act.id \notin auditLog
    BY <2>1, ConstantsAssumption DEF Trail, IntentFresh
  <2>4. stored.act.desired # "none"
    BY <1>4, <2>1, DecisionType DEF RecoverOutcome, Deciding, SameAction, Power
  <2>5. AuditState = "none" /\ AuditState' = "pending"
    BY <1>1, <2>2, <2>3 DEF AuditState, AuditPending
  <2> QED
    BY <1>1, <2>1, <2>2, <2>4, <2>5 DEF Cycle!Next, Cycle!Complete, SavedCount,
       IntentState
<1>5. CASE ReportContention /\ cur /\ stored' = WithPhase(loc, "Contended")
  <2>1. /\ loc = stored /\ stored.act.phase # "InProgress" /\ ~AuditPending(stored.act)
    BY <1>5 DEF ReportContention, Deciding, Inv, PassAgrees
  <2>2. /\ stored'.act.phase = "Contended" /\ ~AuditPending(stored'.act)
        /\ stored'.snap = stored.snap
    BY <1>0, <1>5, <2>1, PhaseFields, PhaseAction
  <2> QED
    BY <1>1, <2>1, <2>2 DEF Cycle!cycle, SavedCount, IntentState, AuditState
<1> QED
  BY <1>2, <1>3, <1>4, <1>5, PersistOutcome
  DEF CheckpointAudit, RecoverOutcome, ReportContention, Ended

\* The snapshot, then the intent.
LEMMA CaptureIsCapture ==
    ASSUME Inv, CaptureAndPersistSnapshot
    PROVE  Cycle!Next \/ UNCHANGED Cycle!cycle
<1> DEFINE t == [loc EXCEPT !.snap = Captured]
<1>1. pc = "capture" /\ UNCHANGED <<live, outside, auditLog>>
  BY DEF CaptureAndPersistSnapshot, workloadVars, envVars
<1>2. cur => loc = stored /\ ~stored.snap.available /\ ~AuditPending(stored.act)
  BY <1>1 DEF Inv, PassAgrees, OnTheWay
<1>3. t.snap = Captured /\ t.act = loc.act
  BY PassFacts DEF Targets
<1>4. stored' = stored \/ (cur /\ stored' = t)
  <2>1. Ended(t) \/ Continued(t, "admit") \/ AcceptedElsewhere
    BY PersistOutcome DEF CaptureAndPersistSnapshot
  <2> QED
    BY <2>1 DEF Ended, Continued, AcceptedElsewhere
<1> HIDE DEF t
<1>5. CASE stored' = stored
  BY <1>1, <1>5, Unseen
<1>6. CASE cur /\ stored' = t
  <2>1. stored'.snap.available /\ stored'.snap.replicas \in Replicas
    BY <1>3, <1>6 DEF Captured, Inv, TypeOK, Workload
  <2> QED
    BY <1>1, <1>2, <1>3, <1>6, <2>1 DEF Cycle!Next, Cycle!Capture, SavedCount,
       IntentState, AuditState
<1> QED
  BY <1>4, <1>5, <1>6

\* An intent is stored over an action that owes nothing.
LEMMA BeginIsBegin ==
    ASSUME Inv, Trail, BeginAction
    PROVE  Cycle!Next \/ UNCHANGED Cycle!cycle
<1>1. PICK id \in AuditIDs \ {stored.act.id, cache.act.id} :
          /\ PersistAndContinue(Intent(id), "execute")
          /\ auditLog' = auditLog \ {id}
  BY DEF BeginAction
<1>2. pc = "begin" /\ UNCHANGED <<live, outside>>
  BY DEF BeginAction, workloadVars, envVars
<1>3. /\ cur => loc = stored /\ ~AuditPending(stored.act)
      /\ dec.desired \in Power
      /\ cur /\ dec.desired = "off" => stored.snap.available
  BY <1>2 DEF Inv, PassAgrees, OnTheWay, Trail, Replacement
<1>4. /\ Intent(id).act.phase = "InProgress" /\ Intent(id).act.desired = dec.desired
      /\ ~AuditPending(Intent(id).act) /\ Intent(id).snap = loc.snap
  BY PassFacts DEF Intent, Targets, AuditPending
<1>5. stored' = stored \/ (cur /\ stored' = Intent(id))
  BY <1>1, PersistOutcome DEF Ended, Continued
<1>6. CASE stored' = stored
  BY <1>1, <1>2, <1>6, Unseen
<1>7. CASE cur /\ stored' = Intent(id)
  BY <1>2, <1>3, <1>4, <1>7 DEF Cycle!Next, Cycle!Begin, SavedCount, IntentState,
     AuditState, Power
<1> QED
  BY <1>5, <1>6, <1>7

\* The executor's write, or none.
LEMMA ExecuteIsMutate ==
    ASSUME Inv, Trail, ExecutePowerDown \/ ExecuteRestore
    PROVE  Cycle!Next \/ UNCHANGED Cycle!cycle
<1>1. pc = "execute" /\ UNCHANGED <<stored, auditLog, outside>>
  BY DEF ExecutePowerDown, ExecuteRestore, targetVars, envVars
<1>2. /\ loc.act = stored.act /\ loc.snap = stored.snap
      /\ stored.act.phase = "InProgress" /\ stored.act.desired = dec.desired
  BY <1>1 DEF Inv, Begun
<1>3. CASE live' = live
  BY <1>1, <1>3, Unseen
<1>4. CASE dec.desired = "off" /\ ScaleToZero
  <2>1. stored.snap.available /\ stored.snap.replicas = live.replicas
    BY <1>1, <1>2, <1>4, SnapshotIsLive DEF ScaleToZero
  <2>2. live'.replicas = 0
    BY <1>4 DEF ScaleToZero, Scaled
  <2> QED
    BY <1>1, <1>2, <1>4, <2>1, <2>2 DEF Cycle!Next, Cycle!Mutate, SavedCount,
       IntentState, AuditState
<1>5. CASE dec.desired = "on" /\ loc.snap.available /\ ScaleToSnapshot
  <2>1. live'.replicas = stored.snap.replicas
    BY <1>2, <1>5 DEF ScaleToSnapshot, Scaled
  <2> QED
    BY <1>1, <1>2, <1>5, <2>1 DEF Cycle!Next, Cycle!Mutate, SavedCount, IntentState,
       AuditState
<1> QED
  BY <1>3, <1>4, <1>5 DEF ExecutePowerDown, ExecuteRestore, RestoredAlready, NotApplied

\* The outcome, and the last write of a pass.
LEMMA ClosingSteps ==
    ASSUME Inv, Trail, PersistFailure \/ PersistCompletion \/ PersistStatus
    PROVE  Cycle!Next \/ UNCHANGED Cycle!cycle
<1>1. UNCHANGED <<live, outside, auditLog>>
  BY DEF PersistFailure, PersistCompletion, PersistStatus, workloadVars, envVars
<1>2. stored' = stored \/ (cur /\ stored' = loc)
  BY PersistOutcome DEF PersistFailure, PersistCompletion, PersistStatus, Ended, Continued
<1>3. CASE stored' = stored
  BY <1>1, <1>3, Unseen
<1>4. ASSUME pc \in {"failed", "complete"}
      PROVE  /\ stored.act.phase = "InProgress" /\ loc.act.id = stored.act.id
             /\ AuditState = "none" /\ stored.act.id # NoAuditID
             /\ stored.act.id \notin auditLog /\ stored.act.desired # "none"
  BY <1>4, ConstantsAssumption DEF Trail, Replacement, IntentFresh, AuditState, Power
<1>5. CASE PersistFailure /\ cur /\ stored' = loc
  <2>1. /\ pc = "failed" /\ loc.act.phase = "Failed" /\ ~AuditPending(loc.act)
        /\ \/ loc.snap = stored.snap
           \/ loc.snap = NoSnapshot /\ stored.act.desired = "off"
    BY <1>5 DEF PersistFailure, Inv, Begun, Trail, Replacement, AuditPending
  <2> QED
    BY <1>1, <1>4, <1>5, <2>1 DEF Cycle!Next, Cycle!Fail, SavedCount,
       IntentState, AuditState, NoSnapshot
<1>6. CASE PersistCompletion /\ cur /\ stored' = loc
  <2>1. /\ pc = "complete" /\ loc.act.phase = "Applied" /\ loc.act.audit = "Pending"
        /\ loc.snap = stored.snap
    BY <1>6 DEF PersistCompletion, Inv, Begun, Trail, Replacement
  <2>2. AuditState' = "pending"
    BY <1>1, <1>4, <1>6, <2>1 DEF AuditState, AuditPending
  <2> QED
    BY <1>1, <1>4, <1>6, <2>1, <2>2 DEF Cycle!Next, Cycle!Complete, SavedCount,
       IntentState
<1>7. CASE PersistStatus /\ cur /\ stored' = loc
  <2>1. pc = "final" /\ ~AuditPending(stored.act)
    BY <1>7 DEF PersistStatus, Inv, OnTheWay
  <2>2. CASE loc.act = stored.act /\ loc.snap = stored.snap
    BY <1>1, <1>7, <2>2, Unseen
  <2>3. CASE /\ stored.act.phase # "InProgress"
             /\ loc.act.phase = "Converged" /\ ~AuditPending(loc.act)
             /\ loc.snap \in {stored.snap, NoSnapshot}
    <3>1. /\ IntentState = "none" /\ IntentState' = "none"
          /\ AuditState = "none" /\ AuditState' = "none"
      BY <1>7, <2>1, <2>3 DEF IntentState, AuditState
    <3>2. SavedCount' = SavedCount \/ (SavedCount # {} /\ SavedCount' = {})
      BY <1>7, <2>3 DEF SavedCount, NoSnapshot
    <3> QED
      BY <1>1, <3>1, <3>2 DEF Cycle!Next, Cycle!Retire, Cycle!cycle
  <2> QED
    BY <1>7, <2>1, <2>2, <2>3 DEF Trail, Replacement
<1> QED
  BY <1>2, <1>3, <1>5, <1>6, <1>7

\* What is not a step of a pass changes the workload and the target only as
\* somebody else's write.
LEMMA RestIsOthers ==
    ASSUME Inv, \/ StartReconcile \/ DiscoverWorkload \/ UpdateObservedState
                \/ SyncTargetCache \/ SyncWorkloadCache \/ Environment
    PROVE  Cycle!Next \/ UNCHANGED Cycle!cycle
<1> USE DEF targetVars, workloadVars, envVars
<1>0. stored \in Targets /\ live \in Workload
  BY PassFacts DEF Inv, TypeOK
<1>1. auditLog' = auditLog
  BY DEF StartReconcile, DiscoverWorkload, UpdateObservedState, SyncTargetCache,
     SyncWorkloadCache, Environment, ChangeDecision, ScaleWorkload, TouchWorkload,
     RequestRetry, TouchTarget, Crash
<1>2. stored'.act = stored.act /\ stored'.snap = stored.snap
  <2>1. CASE stored' = stored
    BY <2>1
  <2>2. CASE UpdateObservedState \/ RequestRetry
    BY <1>0, <2>2 DEF UpdateObservedState, RequestRetry, Targets
  <2> QED
    BY <2>1, <2>2 DEF StartReconcile, DiscoverWorkload, SyncTargetCache,
       SyncWorkloadCache, Environment, ChangeDecision, ScaleWorkload, TouchWorkload,
       TouchTarget, Crash
<1>3. CASE UNCHANGED <<live, outside>>
  BY <1>1, <1>2, <1>3, Unseen
<1>4. CASE ScaleWorkload \/ TouchWorkload \/ RequestRetry \/ TouchTarget
  <2>1. outside \in Nat /\ outside' = outside - 1
    BY <1>4 DEF ScaleWorkload, TouchWorkload, RequestRetry, TouchTarget, Outside,
       Inv, TypeOK
  <2>2. MaxOutside - outside' = (MaxOutside - outside) + 1
    BY <2>1, ConstantsAssumption
  <2>3. live'.replicas \in Replicas
    BY <1>0, <1>4 DEF ScaleWorkload, TouchWorkload, RequestRetry, TouchTarget, Scaled,
       Workload
  <2> QED
    BY <1>1, <1>2, <2>2, <2>3 DEF Cycle!Next, Cycle!Intervene, SavedCount,
       IntentState, AuditState
<1> QED
  BY <1>3, <1>4 DEF StartReconcile, DiscoverWorkload, UpdateObservedState,
     SyncTargetCache, SyncWorkloadCache, Environment, ChangeDecision, Crash

\* The first states are first states of PowerCycle.
LEMMA InitIsInit == Init => Cycle!Init
<1> SUFFICES ASSUME Init PROVE Cycle!Init
  OBVIOUS
<1>1. ~stored.snap.available /\ stored.act.phase = "None" /\ stored.act.audit = "None"
  BY DEF Init, NewTarget, NoSnapshot, NoAction
<1>2. MaxOutside - outside = 0
  BY ConstantsAssumption DEF Init
<1>3. live.replicas \in Replicas
  BY DEF Init
<1> QED
  BY <1>1, <1>2, <1>3 DEF Cycle!Init, SavedCount, IntentState, AuditState,
     AuditPending

\* Each step maps to a step of PowerCycle, or to none.
LEMMA StepIsStep == Inv /\ Trail /\ [Next]_vars => [Cycle!Next]_(Cycle!cycle)
<1> SUFFICES ASSUME Inv, Trail, [Next]_vars
             PROVE  Cycle!Next \/ UNCHANGED Cycle!cycle
  OBVIOUS
<1>1. CASE Next
  BY <1>1, QuietSteps, RecordIsWrite, OutcomeSteps, CaptureIsCapture, BeginIsBegin,
     ExecuteIsMutate, ClosingSteps, RestIsOthers DEF Next, ContinueReconcile
<1>2. CASE UNCHANGED vars
  BY <1>2, Unseen DEF vars
<1> QED
  BY <1>1, <1>2

\* The reconciler, with its passes, caches, failures and retries, implements the
\* durable protocol: for any number of rules, replicas, faults and outside writes.
THEOREM Refinement == Spec => ImplementsPowerCycle
<1>1. Init => Inv /\ Trail /\ Cycle!Init
  BY InvInit, TrailInit, InitIsInit
<1>2. Inv /\ Trail /\ [Next]_vars => (Inv /\ Trail)' /\ [Cycle!Next]_(Cycle!cycle)
  BY InvNext, TrailNext, StepIsStep
<1> QED
  BY <1>1, <1>2, PTL DEF Spec, ImplementsPowerCycle, Cycle!Spec
=============================================================================
