----------------------- MODULE TargetReconcilerProofs -----------------------
(***************************************************************************)
(* What TargetReconciler guarantees for any number of rules, replicas,     *)
(* failures, outside writes and decision changes.                          *)
(*                                                                         *)
(* The safety properties are about the stored PowerTarget, but the steps   *)
(* that write it use the copy a pass holds in memory, so none of them is   *)
(* inductive.  Inv adds what ties that copy to the stored object: how far  *)
(* the pass has come decides which fields agree, and whether the agreement *)
(* needs the pass's resourceVersion to be current.                         *)
(***************************************************************************)
EXTENDS TargetReconciler, TLAPS

\* A copy of the workload of revision rv has its replicas exactly.
Exact(r, rv) == rv <= live.rv /\ (rv = live.rv => r = live.replicas)

\* Snapshots, wherever they are kept, are copies of the workload.
Copies ==
    /\ Exact(wcache.replicas, wcache.rv)
    /\ stored.snap.available => Exact(stored.snap.replicas, stored.snap.rv)
    /\ cache.snap.available => Exact(cache.snap.replicas, cache.snap.rv)
    /\ loc.snap.available => Exact(loc.snap.replicas, loc.snap.rv)

\* Only a workload that is down has replicas owed to it.
OwedWhileDown == owed > 0 => live.replicas = 0

CacheAgrees == cacheCur => cache = stored

\* The in-memory target of a pass whose resourceVersion is current.
PassAgrees ==
    /\ pc = "idle" => ~cur
    /\ pc \in {"label", "resume", "capture", "admit", "begin"} /\ cur
          => loc = stored
    /\ cur => loc.obs = stored.obs
    /\ cur => \/ loc.snap = stored.snap
              \/ pc \in {"failed", "final"} /\ loc.obs = "on"
    /\ pc = "checkpoint" /\ cur
          => /\ loc.act.id = stored.act.id
             /\ loc.act.phase = stored.act.phase
    /\ pc = "final" /\ cur
          => loc.act = stored.act \/ loc.act.phase = "Converged"

\* A pass on its way to the mutation has settled what came before.
OnTheWay ==
    /\ pc \in {"capture", "admit"} => dec.desired = "off" /\ loc.obs = "on"
    /\ pc = "capture" => ~loc.snap.available
    /\ pc = "admit" => loc.snap.available
    /\ pc \in {"begin", "execute"} /\ dec.desired = "off"
          => loc.obs = "on" /\ loc.snap.available
    /\ pc \in {"capture", "admit", "begin", "final"} /\ cur
          => ~AuditPending(stored.act)
    /\ pc \in {"capture", "admit", "begin"}
          => (SameAction(loc, dec) => loc.act.phase = "InProgress")

\* From the persisted intent on, nobody else writes the action or the snapshot.
Begun ==
    /\ pc = "execute"
          => /\ loc.act = stored.act
             /\ loc.snap = stored.snap
             /\ loc.act.phase = "InProgress"
             /\ loc.act.desired = dec.desired
    /\ pc \in {"execute", "complete", "failed"} => stored.act.audit = "None"
    /\ pc = "complete" => loc.act.phase = "Applied" /\ loc.snap = stored.snap
    /\ pc = "failed" => loc.act.phase = "Failed"
    /\ pc = "checkpoint" => loc.act.id \in auditLog

Inv ==
    /\ TypeOK
    /\ Copies
    /\ OwedWhileDown
    /\ CacheAgrees
    /\ PassAgrees
    /\ OnTheWay
    /\ Begun

-----------------------------------------------------------------------------
(* Type correctness *)

USE ConstantsAssumption

\* What the provers must know of the record sets.
LEMMA TargetFields ==
    ASSUME NEW t \in Targets
    PROVE  /\ t.obs \in Power /\ t.snap \in Snapshots /\ t.act \in Actions
           /\ t.token \in Nat /\ t.label \in Labels
           /\ t.snap.available \in BOOLEAN /\ t.snap.replicas \in Replicas
           /\ t.snap.rv \in Nat
           /\ t.act.phase \in Phases /\ t.act.desired \in Power \cup {"none"}
           /\ t.act.key \in Keys \cup {NoKey} /\ t.act.token \in Nat
           /\ t.act.id \in AuditIDs \cup {NoAuditID}
           /\ t.act.audit \in {"None", "Pending", "Recorded"}
  BY DEF Targets, Snapshots, Actions

\* A target that discovery has just created is well typed.
LEMMA NewTargetType == ASSUME NEW obs \in Power PROVE NewTarget(obs) \in Targets
  BY DEF NewTarget, Targets, NoSnapshot, Snapshots, NoAction, Actions, Labels,
         Phases, Replicas, Power

\* A decision is well typed.
LEMMA DecisionType ==
    /\ NoDecision \in Decisions
    /\ \A d \in Decisions : /\ d.desired \in Power \cup {"none"}
                            /\ d.key \in Keys \cup {NoKey}
                            /\ d.desired = "none" <=> d = NoDecision
  BY DEF Decisions, NoDecision, Power

\* Changing the phase keeps the type of a target.
LEMMA PhaseType ==
    ASSUME NEW t \in Targets, NEW p \in Phases
    PROVE  WithPhase(t, p) \in Targets /\ Applied(t) \in Targets
  BY DEF WithPhase, Applied, Targets, Actions, Phases

\* No snapshot is a value of the snapshot field.
LEMMA NoSnapshotType == NoSnapshot \in Snapshots
  BY DEF NoSnapshot, Snapshots, Replicas

\* Replacing a field keeps a target a target.
LEMMA SnapType ==
    ASSUME NEW t \in Targets, NEW s \in Snapshots
    PROVE  [t EXCEPT !.snap = s] \in Targets
  BY DEF Targets

\* Replacing the action keeps the type of a target.
LEMMA ActType ==
    ASSUME NEW t \in Targets, NEW a \in Actions
    PROVE  [t EXCEPT !.act = a] \in Targets
  BY DEF Targets

\* Replacing snapshot and action keeps the type of a target.
LEMMA SnapActType ==
    ASSUME NEW t \in Targets, NEW s \in Snapshots, NEW a \in Actions
    PROVE  [t EXCEPT !.snap = s, !.act = a] \in Targets
  BY DEF Targets

\* The state label is a label.
LEMMA LabelType ==
    ASSUME NEW d \in Decisions, NEW obs \in Power
    PROVE  StateLabel(d, obs) \in Labels
  BY DecisionType DEF StateLabel, Labels, Power

\* Retiring the snapshot keeps the type of a target.
LEMMA RetireType ==
    ASSUME NEW t \in Targets, NEW d \in Decisions
    PROVE  RetireSnapshot(t, d) \in Targets
<1> DEFINE act == [NoAction EXCEPT !.phase = "Converged", !.desired = "on",
                                   !.key = d.key, !.token = t.token]
<1>1. act \in Actions
  BY TargetFields, DecisionType DEF NoAction, Actions, Phases, Power
<1>2. [t EXCEPT !.snap = NoSnapshot, !.act = act] \in Targets
  BY <1>1, NoSnapshotType, SnapActType
<1> QED
  BY <1>2 DEF RetireSnapshot
\* A failed action without its snapshot is well typed.
LEMMA FailedWithoutSnapshotType ==
    ASSUME NEW t \in Targets
    PROVE  [WithPhase(t, "Failed") EXCEPT !.snap = NoSnapshot] \in Targets
  BY PhaseType, NoSnapshotType, SnapType DEF Phases

\* The intent of a new action is well typed.
LEMMA IntentType ==
    ASSUME loc \in Targets, dec \in Decisions, NEW id \in AuditIDs
    PROVE  Intent(id) \in Targets
<1>1. [phase |-> "InProgress", desired |-> dec.desired, key |-> dec.key,
       token |-> loc.token, id |-> id, audit |-> "None"] \in Actions
  BY TargetFields, DecisionType DEF Actions, Phases
<1> QED
  BY <1>1, ActType DEF Intent

\* Scaling keeps the type of a workload.
LEMMA ScaledType ==
    ASSUME live \in Workload, NEW n \in Replicas
    PROVE  Scaled(n) \in Workload
  BY DEF Scaled, Workload

\* Ending a pass keeps the types.
LEMMA EndPassType ==
    ASSUME EndPass
    PROVE  pc' = "idle" /\ loc' \in Targets /\ cur' = FALSE /\ dec' \in Decisions
  BY NewTargetType, DecisionType DEF EndPass, Power

\* The types that a write by the pass is concerned with.
TargetTypes ==
    /\ stored \in Targets /\ cache \in Targets /\ cacheCur \in BOOLEAN
    /\ faults \in Nat

PassTypes == loc \in Targets /\ cur \in BOOLEAN /\ dec \in Decisions

\* A write keeps the types, whether or not it succeeds.
LEMMA WriteTypes ==
    ASSUME TypeOK, NEW t \in Targets,
           (Accepted(t) /\ UNCHANGED faults) \/ WriteFails(t)
    PROVE  TargetTypes'
<1>1. CASE Accepted(t) /\ faults' \in Nat
  BY <1>1 DEF Accepted, TypeOK, TargetTypes
<1>2. CASE UNCHANGED targetVars /\ faults' \in Nat
  BY <1>2 DEF targetVars, TypeOK, TargetTypes
<1> QED
  BY <1>1, <1>2 DEF WriteFails, Fault, TypeOK

\* A write after which the pass goes on keeps the types.
LEMMA PersistAndContinueTypes ==
    ASSUME TypeOK, NEW t \in Targets, NEW next, PersistAndContinue(t, next)
    PROVE  TargetTypes' /\ PassTypes' /\ pc' \in {next, "idle"}
<1>1. CASE Accepted(t) /\ loc' = t /\ pc' = next /\ UNCHANGED <<cur, dec, faults>>
  <2>1. TargetTypes'
    BY <1>1, WriteTypes
  <2> QED
    BY <1>1, <2>1 DEF TypeOK, PassTypes
<1>2. CASE WriteFails(t) /\ EndPass
  <2>1. TargetTypes'
    BY <1>2, WriteTypes
  <2> QED
    BY <1>2, <2>1, EndPassType DEF PassTypes
<1> QED
  BY <1>1, <1>2 DEF PersistAndContinue

\* A write that ends the pass keeps the types.
LEMMA PersistAndEndTypes ==
    ASSUME TypeOK, NEW t \in Targets, PersistAndEnd(t)
    PROVE  TargetTypes' /\ PassTypes' /\ pc' = "idle"
<1>1. TargetTypes'
  BY WriteTypes DEF PersistAndEnd
<1> QED
  BY <1>1, EndPassType DEF PersistAndEnd, PassTypes


\* A fault keeps the types.
LEMMA FaultType == ASSUME TypeOK, Fault PROVE faults' \in Nat
  BY DEF Fault, TypeOK

\* An outside write keeps the types.
LEMMA OutsideType == ASSUME TypeOK, Outside PROVE outside' \in Nat
  BY DEF Outside, TypeOK

\* The initial states are well typed.
LEMMA TypeInit == Init => TypeOK
<1> SUFFICES ASSUME Init PROVE TypeOK
  OBVIOUS
<1>1. live \in Workload /\ wcache \in Workload
  BY DEF Init, Workload
<1>2. PowerOf(live.replicas) \in Power
  BY DEF PowerOf, Power
<1>3. stored \in Targets /\ cache \in Targets /\ loc \in Targets
  BY <1>2, NewTargetType DEF Init, Power
<1>4. owed \in Replicas /\ dec \in Decisions
  BY DecisionType DEF Init, Replicas
<1> QED
  BY <1>1, <1>3, <1>4 DEF Init, TypeOK

\* The steps of a pass.
LEMMA TypeContinue == TypeOK /\ ContinueReconcile => TypeOK'
<1> SUFFICES ASSUME TypeOK, ContinueReconcile PROVE TypeOK'
  OBVIOUS
<1> USE DEF workloadVars, targetVars, envVars
<1>0. /\ loc \in Targets /\ stored \in Targets /\ dec \in Decisions
      /\ loc.obs \in Power /\ loc.act \in Actions
  BY TargetFields DEF TypeOK
<1>1. CASE PersistStateLabel
  <2>1. [stored EXCEPT !.label = StateLabel(dec, loc.obs)] \in Targets
    BY <1>0, LabelType DEF Targets
  <2>2. TargetTypes' /\ PassTypes' /\ pc' \in {"resume", "idle"}
    BY <1>1, <2>1, PersistAndContinueTypes DEF PersistStateLabel
  <2> QED
    BY <1>1, <2>2 DEF PersistStateLabel, TypeOK, TargetTypes, PassTypes
<1>2. CASE RecordPendingAudit
  <2>1. loc.act.id \in AuditIDs
    BY <1>2, <1>0, TargetFields DEF RecordPendingAudit, AuditPending
  <2>2. [loc EXCEPT !.act.audit = "Recorded"] \in Targets
    BY <1>0 DEF Targets, Actions
  <2>3. PassTypes' /\ pc' \in {"checkpoint", "idle"} /\ faults' \in Nat
    <3>1. CASE /\ loc' = [loc EXCEPT !.act.audit = "Recorded"]
               /\ pc' = "checkpoint" /\ UNCHANGED <<cur, dec, faults>>
      BY <2>2, <3>1 DEF TypeOK, PassTypes
    <3>2. CASE Fault /\ EndPass
      BY <3>2, FaultType, EndPassType DEF PassTypes
    <3> QED
      BY <1>2, <3>1, <3>2 DEF RecordPendingAudit
  <2>4. auditLog' \in SUBSET AuditIDs
    BY <1>2, <2>1 DEF RecordPendingAudit, TypeOK
  <2> QED
    BY <1>2, <2>3, <2>4 DEF RecordPendingAudit, TypeOK, PassTypes
<1>3. CASE CheckpointAudit
  <2>1. TargetTypes' /\ PassTypes' /\ pc' = "idle"
    BY <1>0, <1>3, PersistAndEndTypes DEF CheckpointAudit
  <2> QED
    BY <1>3, <2>1 DEF CheckpointAudit, TypeOK, TargetTypes, PassTypes
<1>4. CASE SkipUnmanaged
  BY <1>4 DEF SkipUnmanaged, TypeOK
<1>5. CASE RecoverOutcome
  <2>1. Applied(loc) \in Targets
    BY <1>0, PhaseType DEF Phases
  <2>2. TargetTypes' /\ PassTypes' /\ pc' = "idle"
    BY <1>5, <2>1, PersistAndEndTypes DEF RecoverOutcome
  <2> QED
    BY <1>5, <2>2 DEF RecoverOutcome, TypeOK, TargetTypes, PassTypes
<1>6. CASE ObserveConvergence
  <2>1. RetireSnapshot(loc, dec) \in Targets
    BY <1>0, RetireType
  <2>2. WithPhase(RetireSnapshot(loc, dec), "Converged") \in Targets
    BY <2>1, PhaseType DEF Phases
  <2>3. loc' \in Targets
    BY <1>6, <2>1, <2>2 DEF ObserveConvergence
  <2> QED
    BY <1>6, <2>3 DEF ObserveConvergence, TypeOK
<1>7. CASE AwaitConvergence
  BY <1>7, EndPassType DEF AwaitConvergence, TypeOK
<1>8. CASE ReportContention
  <2>1. WithPhase(loc, "Contended") \in Targets
    BY <1>0, PhaseType DEF Phases
  <2>2. TargetTypes' /\ PassTypes' /\ pc' = "idle"
    BY <1>8, <2>1, PersistAndEndTypes DEF ReportContention
  <2> QED
    BY <1>8, <2>2 DEF ReportContention, TypeOK, TargetTypes, PassTypes
<1>9. CASE Diverged
  BY <1>9 DEF Diverged, TypeOK
<1>10. CASE CaptureAndPersistSnapshot
  <2> DEFINE s == [available |-> TRUE, replicas |-> wcache.replicas, rv |-> wcache.rv]
  <2>1. [loc EXCEPT !.snap = s] \in Targets
    BY <1>0, SnapType DEF TypeOK, Workload, Snapshots
  <2>2. CASE PersistAndContinue([loc EXCEPT !.snap = s], "admit")
    <3>1. TargetTypes' /\ PassTypes' /\ pc' \in {"admit", "idle"}
      BY <2>1, <2>2, PersistAndContinueTypes
    <3> QED
      BY <1>10, <3>1 DEF CaptureAndPersistSnapshot, Captured, TypeOK, TargetTypes, PassTypes
  <2>3. CASE Fault /\ AcceptedElsewhere /\ EndPass
    <3>1. pc' = "idle" /\ PassTypes' /\ faults' \in Nat
      BY <2>3, FaultType, EndPassType DEF PassTypes
    <3> QED
      BY <1>10, <2>3, <3>1
      DEF CaptureAndPersistSnapshot, Captured, AcceptedElsewhere, TypeOK, PassTypes
  <2> QED
    BY <1>10, <2>2, <2>3 DEF CaptureAndPersistSnapshot, Captured
<1>11. CASE AdmitLiveHPA
  <2>1. CASE pc' = "begin" /\ UNCHANGED <<loc, cur, dec, targetVars, faults>>
    BY <1>11, <2>1 DEF AdmitLiveHPA, TypeOK
  <2>2. CASE Fault /\ (AcceptedElsewhere \/ UNCHANGED targetVars) /\ EndPass
    <3>1. pc' = "idle" /\ PassTypes' /\ faults' \in Nat
      BY <2>2, FaultType, EndPassType DEF PassTypes
    <3> QED
      BY <1>11, <2>2, <3>1 DEF AdmitLiveHPA, AcceptedElsewhere, TypeOK, PassTypes
  <2> QED
    BY <1>11, <2>1, <2>2 DEF AdmitLiveHPA
<1>12. CASE BeginAction
  <2>1. PICK id \in AuditIDs : /\ PersistAndContinue(Intent(id), "execute")
                               /\ auditLog' = auditLog \ {id}
    BY <1>12 DEF BeginAction
  <2>2. Intent(id) \in Targets
    BY <1>0, IntentType
  <2>3. TargetTypes' /\ PassTypes' /\ pc' \in {"execute", "idle"}
    BY <2>1, <2>2, PersistAndContinueTypes
  <2> QED
    BY <1>12, <2>1, <2>3 DEF BeginAction, TypeOK, TargetTypes, PassTypes
<1>13. CASE ExecutePowerDown
  <2>1. loc' \in {Applied(loc), WithPhase(loc, "Failed"),
                  [WithPhase(loc, "Failed") EXCEPT !.snap = NoSnapshot]}
    BY <1>13 DEF ExecutePowerDown
  <2>2. loc' \in Targets
    BY <1>0, <2>1, PhaseType, FailedWithoutSnapshotType DEF Phases
  <2>3. pc' \in {"complete", "failed"}
    BY <1>13 DEF ExecutePowerDown
  <2>4. faults' \in Nat
    BY <1>13, FaultType DEF ExecutePowerDown, TypeOK
  <2>5. live' \in Workload /\ owed' \in Replicas
    <3>1. Scaled(0) \in Workload /\ live.replicas \in Replicas
      BY ScaledType DEF TypeOK, Workload, Replicas
    <3> QED
      BY <1>13, <3>1 DEF ExecutePowerDown, ScaleToZero, NotApplied, TypeOK
  <2> QED
    BY <1>13, <2>2, <2>3, <2>4, <2>5 DEF ExecutePowerDown, TypeOK
<1>14. CASE ExecuteRestore
  <2>1. loc' \in {Applied(loc), WithPhase(loc, "Failed")}
    BY <1>14 DEF ExecuteRestore
  <2>2. loc' \in Targets
    BY <1>0, <2>1, PhaseType DEF Phases
  <2>3. pc' \in {"complete", "failed"}
    BY <1>14 DEF ExecuteRestore
  <2>4. faults' \in Nat
    BY <1>14, FaultType DEF ExecuteRestore, TypeOK
  <2>5. live' \in Workload /\ owed' \in Replicas
    <3>1. Scaled(loc.snap.replicas) \in Workload /\ 0 \in Replicas
      BY <1>0, ScaledType, TargetFields DEF TypeOK, Replicas
    <3> QED
      BY <1>14, <3>1 DEF ExecuteRestore, ScaleToSnapshot, RestoredAlready,
     NotApplied, TypeOK
  <2> QED
    BY <1>14, <2>2, <2>3, <2>4, <2>5 DEF ExecuteRestore, TypeOK
<1>15. CASE PersistFailure
  <2>1. TargetTypes' /\ PassTypes' /\ pc' = "idle"
    BY <1>0, <1>15, PersistAndEndTypes DEF PersistFailure
  <2> QED
    BY <1>15, <2>1 DEF PersistFailure, TypeOK, TargetTypes, PassTypes
<1>16. CASE PersistCompletion
  <2>1. TargetTypes' /\ PassTypes' /\ pc' \in {"resume", "idle"}
    BY <1>0, <1>16, PersistAndContinueTypes DEF PersistCompletion
  <2> QED
    BY <1>16, <2>1 DEF PersistCompletion, TypeOK, TargetTypes, PassTypes
<1>17. CASE PersistStatus
  <2>1. TargetTypes' /\ PassTypes' /\ pc' = "idle"
    BY <1>0, <1>17, PersistAndEndTypes DEF PersistStatus
  <2> QED
    BY <1>17, <2>1 DEF PersistStatus, TypeOK, TargetTypes, PassTypes
<1> QED
  BY <1>1, <1>2, <1>3, <1>4, <1>5, <1>6, <1>7, <1>8, <1>9, <1>10, <1>11, <1>12,
     <1>13, <1>14, <1>15, <1>16, <1>17 DEF ContinueReconcile

\* Everything else that can happen.
LEMMA TypeRest ==
    ASSUME TypeOK, \/ StartReconcile \/ DiscoverWorkload \/ UpdateObservedState
                   \/ SyncTargetCache \/ SyncWorkloadCache \/ Environment
    PROVE  TypeOK'
<1> USE DEF workloadVars, targetVars, passVars, envVars
<1>1. CASE StartReconcile
  BY <1>1 DEF StartReconcile, TypeOK
<1>2. CASE DiscoverWorkload
  BY <1>2 DEF DiscoverWorkload, PowerOf, Power, TypeOK
<1>3. CASE UpdateObservedState
  <2>1. [stored EXCEPT !.obs = seen] \in Targets
    BY <1>3 DEF UpdateObservedState, TypeOK, Targets
  <2>2. /\ stored' \in Targets
        /\ cacheCur' \in BOOLEAN /\ cur' \in BOOLEAN /\ faults' \in Nat
    BY <1>3, <2>1, FaultType DEF UpdateObservedState, TypeOK
  <2> QED
    BY <1>3, <2>2 DEF UpdateObservedState, TypeOK
<1>4. CASE SyncTargetCache
  BY <1>4 DEF SyncTargetCache, TypeOK
<1>5. CASE SyncWorkloadCache
  BY <1>5 DEF SyncWorkloadCache, TypeOK
<1>6. CASE ChangeDecision
  BY <1>6 DEF ChangeDecision, TypeOK
<1>7. CASE ScaleWorkload
  <2>1. PICK n \in Replicas : /\ live' = Scaled(n)
                              /\ owed' = IF n > 0 THEN 0 ELSE owed
    BY <1>7 DEF ScaleWorkload
  <2>2. live' \in Workload /\ owed' \in Replicas
    BY <2>1, ScaledType DEF TypeOK, Replicas
  <2> QED
    BY <1>7, <2>2 DEF ScaleWorkload, Outside, TypeOK
<1>8. CASE TouchWorkload
  <2>1. live' \in Workload
    BY <1>8 DEF TouchWorkload, TypeOK, Workload
  <2> QED
    BY <1>8, <2>1 DEF TouchWorkload, Outside, TypeOK
<1>9. CASE RequestRetry
  <2>1. stored' \in Targets
    BY <1>9 DEF RequestRetry, TypeOK, Targets
  <2>2. outside' \in Nat /\ cacheCur' \in BOOLEAN /\ cur' \in BOOLEAN
    BY <1>9, OutsideType DEF RequestRetry
  <2> QED
    BY <1>9, <2>1, <2>2 DEF RequestRetry, TypeOK
<1>10. CASE TouchTarget
  <2>1. outside' \in Nat /\ cacheCur' \in BOOLEAN /\ cur' \in BOOLEAN
    BY <1>10, OutsideType DEF TouchTarget
  <2> QED
    BY <1>10, <2>1 DEF TouchTarget, TypeOK
<1>11. CASE Crash
  <2>1. pc' = "idle" /\ PassTypes' /\ faults' \in Nat
    BY <1>11, FaultType, EndPassType DEF Crash, PassTypes
  <2> QED
    BY <1>11, <2>1 DEF Crash, TypeOK, PassTypes
<1> QED
  BY <1>1, <1>2, <1>3, <1>4, <1>5, <1>6, <1>7, <1>8, <1>9, <1>10, <1>11
  DEF Environment

\* Every step keeps the types.
LEMMA TypeNext == TypeOK /\ [Next]_vars => TypeOK'
<1>1. TypeOK /\ Next => TypeOK'
  BY TypeContinue, TypeRest DEF Next
<1>2. TypeOK /\ UNCHANGED vars => TypeOK'
  BY DEF vars, TypeOK
<1> QED
  BY <1>1, <1>2

\* Every variable of the reconciler keeps its type, whatever the bounds.
THEOREM TypeCorrect == Spec => []TypeOK
<1> QED
  BY TypeInit, TypeNext, PTL DEF Spec

-----------------------------------------------------------------------------
(* The inductive invariant: the writes of a pass *)

\* The snapshot of a target is a copy of the workload.
Sound(t) == t.snap.available => Exact(t.snap.replicas, t.snap.rv)

\* The pass is over; its last write, if it reached the server, was t.
Ended(t) ==
    /\ EndPass
    /\ cache' = cache
    /\ \/ stored' = stored /\ (cacheCur' => cacheCur)
       \/ cur /\ stored' = t /\ (cacheCur' => cacheCur /\ t = stored)

\* The write of t succeeded and the pass goes on with it.
Continued(t, next) ==
    /\ cur /\ stored' = t /\ loc' = t /\ pc' = next
    /\ cur' = cur /\ dec' = dec
    /\ cache' = cache
    /\ cacheCur' => cacheCur /\ t = stored

\* A write that failed, with or without effect, is one way to end a pass.
LEMMA WriteFailsEnds ==
    ASSUME NEW t, WriteFails(t), EndPass
    PROVE  Ended(t)
<1>1. CASE UNCHANGED targetVars
  BY <1>1 DEF targetVars, Ended
<1>2. CASE Accepted(t)
  BY <1>2 DEF Accepted, Ended
<1> QED
  BY <1>1, <1>2 DEF WriteFails, targetVars

\* A persisting step ends the pass, or stores its target and goes on.
LEMMA PersistOutcome ==
    ASSUME NEW t
    PROVE  /\ PersistAndEnd(t) => Ended(t)
           /\ \A next : PersistAndContinue(t, next) => Ended(t) \/ Continued(t, next)
<1>1. PersistAndEnd(t) => Ended(t)
  BY WriteFailsEnds DEF PersistAndEnd, Accepted, Ended
<1>2. \A next : PersistAndContinue(t, next) => Ended(t) \/ Continued(t, next)
  BY WriteFailsEnds DEF PersistAndContinue, Accepted, Continued
<1> QED
  BY <1>1, <1>2

\* Changing the phase leaves the other fields alone.
LEMMA PhaseFields ==
    ASSUME NEW t \in Targets, NEW p
    PROVE  /\ WithPhase(t, p).obs = t.obs
           /\ WithPhase(t, p).snap = t.snap
           /\ WithPhase(t, p).act.phase = p
           /\ WithPhase(t, p).act.desired = t.act.desired
           /\ WithPhase(t, p).act.audit = t.act.audit
           /\ WithPhase(t, p).act.id = t.act.id
  BY DEF WithPhase, Targets, Actions

\* A completed action keeps snapshot and observation.
LEMMA AppliedFields ==
    ASSUME NEW t \in Targets
    PROVE  /\ Applied(t).obs = t.obs
           /\ Applied(t).snap = t.snap
           /\ Applied(t).act.phase = "Applied"
  BY DEF Applied, Targets, Actions

\* A workload that does not change, or changes with its revision, keeps every
\* copy exact.
LEMMA ExactStable ==
    ASSUME TypeOK, live' \in Workload,
           live' = live \/ live'.rv = live.rv + 1,
           NEW r, NEW rv \in Nat, Exact(r, rv)
    PROVE  rv <= live'.rv /\ (rv = live'.rv => r = live'.replicas)
  BY DEF Exact, TypeOK, Workload

\* Ending a pass keeps the invariant, provided that what it wrote is sound.
LEMMA EndedInv ==
    ASSUME Inv, TypeOK', NEW t \in Targets, Ended(t), Sound(t),
           UNCHANGED workloadVars
    PROVE  Inv'
<1> USE DEF workloadVars
<1>1. pc' = "idle" /\ cur' = FALSE /\ loc' = NewTarget("off") /\ dec' = NoDecision
  BY DEF Ended, EndPass
<1>2. loc'.snap.available = FALSE
  BY <1>1 DEF NewTarget, NoSnapshot
<1>3. stored' = stored \/ stored' = t
  BY DEF Ended
<1>4. Copies'
  BY <1>2, <1>3 DEF Inv, Copies, Sound, Exact, Ended
<1>5. OwedWhileDown'
  BY DEF Inv, OwedWhileDown
<1>6. CacheAgrees'
  BY DEF Inv, CacheAgrees, Ended
<1>7. PassAgrees' /\ OnTheWay' /\ Begun'
  BY <1>1 DEF PassAgrees, OnTheWay, Begun
<1> QED
  BY <1>4, <1>5, <1>6, <1>7 DEF Inv

\* So does continuing, as far as the copies are concerned.
LEMMA ContinuedInv ==
    ASSUME Inv, TypeOK', NEW t \in Targets, NEW next, Continued(t, next), Sound(t),
           next \in {"resume", "admit", "execute"}, UNCHANGED workloadVars
    PROVE  Copies' /\ OwedWhileDown' /\ CacheAgrees' /\ PassAgrees'
<1> USE DEF workloadVars
<1>1. Copies'
  BY DEF Inv, Copies, Sound, Exact, Continued
<1>2. OwedWhileDown'
  BY DEF Inv, OwedWhileDown
<1>3. CacheAgrees'
  BY DEF Inv, CacheAgrees, Continued
<1>4. PassAgrees'
  BY DEF PassAgrees, Continued
<1> QED
  BY <1>1, <1>2, <1>3, <1>4

\* Facts about the in-memory target that every step uses.
LEMMA PassFacts ==
    ASSUME Inv
    PROVE  /\ loc \in Targets /\ stored \in Targets /\ dec \in Decisions
           /\ Sound(loc) /\ Sound(stored)
  BY DEF Inv, TypeOK, Copies, Sound

\* PersistStateLabel keeps the invariant.
LEMMA InvLabel == ASSUME Inv, TypeOK', PersistStateLabel PROVE Inv'
<1> DEFINE t == [stored EXCEPT !.label = StateLabel(dec, loc.obs)]
<1>1. t \in Targets /\ t.snap = stored.snap
  BY PassFacts, TargetFields, LabelType DEF Targets
<1>2. Sound(t) /\ UNCHANGED workloadVars
  BY <1>1, PassFacts DEF Sound, PersistStateLabel
<1>3. CASE Ended(t)
  BY <1>1, <1>2, <1>3, EndedInv
<1>4. CASE Continued(t, "resume")
  <2>1. Copies' /\ OwedWhileDown' /\ CacheAgrees' /\ PassAgrees'
    BY <1>1, <1>2, <1>4, ContinuedInv
  <2>2. OnTheWay' /\ Begun'
    BY <1>4 DEF Continued, OnTheWay, Begun
  <2> QED
    BY <2>1, <2>2 DEF Inv
<1> QED
  BY <1>3, <1>4, PersistOutcome DEF PersistStateLabel

\* RecordPendingAudit keeps the invariant.
LEMMA InvRecord == ASSUME Inv, TypeOK', RecordPendingAudit PROVE Inv'
<1> USE DEF workloadVars, targetVars
<1>1. CASE EndPass
  <2>1. Ended(loc)
    BY <1>1 DEF Ended, RecordPendingAudit
  <2> QED
    BY <2>1, PassFacts, EndedInv DEF RecordPendingAudit
<1>2. CASE /\ auditLog' = auditLog \cup {loc.act.id}
           /\ loc' = [loc EXCEPT !.act.audit = "Recorded"]
           /\ pc' = "checkpoint"
           /\ UNCHANGED <<cur, dec, faults>>
  <2>1. /\ loc'.snap = loc.snap /\ loc'.obs = loc.obs
        /\ loc'.act.id = loc.act.id /\ loc'.act.phase = loc.act.phase
    BY <1>2, PassFacts DEF Targets, Actions
  <2>2. pc = "resume" /\ UNCHANGED <<live, wcache, owed, stored, cache, cacheCur>>
    BY DEF RecordPendingAudit
  <2>3. Copies' /\ OwedWhileDown' /\ CacheAgrees'
    BY <2>1, <2>2 DEF Inv, Copies, Exact, OwedWhileDown, CacheAgrees
  <2>4. PassAgrees'
    BY <1>2, <2>1, <2>2 DEF Inv, PassAgrees
  <2>5. OnTheWay' /\ Begun'
    BY <1>2, <2>1 DEF OnTheWay, Begun
  <2> QED
    BY <2>3, <2>4, <2>5 DEF Inv
<1> QED
  BY <1>1, <1>2 DEF RecordPendingAudit

\* The writes that are the last step of a pass.
LEMMA InvPersistAndEnd ==
    ASSUME Inv, TypeOK', \/ CheckpointAudit \/ RecoverOutcome \/ ReportContention
                         \/ PersistFailure \/ PersistStatus
    PROVE  Inv'
<1>1. CASE CheckpointAudit \/ PersistFailure \/ PersistStatus
  BY <1>1, PassFacts, PersistOutcome, EndedInv
  DEF CheckpointAudit, PersistFailure, PersistStatus
<1>2. CASE RecoverOutcome
  <2>1. Applied(loc) \in Targets /\ Sound(Applied(loc))
    BY PassFacts, PhaseType, AppliedFields DEF Sound, Phases
  <2> QED
    BY <1>2, <2>1, PersistOutcome, EndedInv DEF RecoverOutcome
<1>3. CASE ReportContention
  <2>1. /\ WithPhase(loc, "Contended") \in Targets
        /\ Sound(WithPhase(loc, "Contended"))
    BY PassFacts, PhaseType, PhaseFields DEF Sound, Phases
  <2> QED
    BY <1>3, <2>1, PersistOutcome, EndedInv DEF ReportContention
<1> QED
  BY <1>1, <1>2, <1>3

\* AwaitConvergence keeps the invariant.
LEMMA InvAwait == ASSUME Inv, TypeOK', AwaitConvergence PROVE Inv'
<1>1. Ended(loc)
  BY DEF AwaitConvergence, Ended, targetVars
<1> QED
  BY <1>1, PassFacts, EndedInv DEF AwaitConvergence

\* SkipUnmanaged keeps the invariant.
LEMMA InvSkip == ASSUME Inv, TypeOK', SkipUnmanaged PROVE Inv'
<1> USE DEF workloadVars, targetVars
<1>1. /\ pc = "resume" /\ pc' = "final" /\ ~AuditPending(loc.act)
      /\ UNCHANGED <<loc, cur, dec, live, wcache, owed, stored, cache, cacheCur>>
  BY DEF SkipUnmanaged
<1>2. Copies' /\ OwedWhileDown' /\ CacheAgrees'
  BY <1>1 DEF Inv, Copies, Exact, OwedWhileDown, CacheAgrees
<1>3. PassAgrees'
  BY <1>1 DEF Inv, PassAgrees
<1>4. OnTheWay'
  BY <1>1 DEF Inv, PassAgrees, OnTheWay
<1>5. Begun'
  BY <1>1 DEF Begun
<1> QED
  BY <1>2, <1>3, <1>4, <1>5 DEF Inv

\* RetireSnapshot gives a snapshot up only for a workload observed running.
LEMMA RetireFields ==
    ASSUME NEW t \in Targets, NEW d \in Decisions
    PROVE  \/ RetireSnapshot(t, d) = t
           \/ /\ RetireSnapshot(t, d).obs = t.obs
              /\ t.obs = "on"
              /\ RetireSnapshot(t, d).snap = NoSnapshot
              /\ RetireSnapshot(t, d).act.phase = "Converged"
<1>1. CASE RestoredByOthers(t, d)
  <2> DEFINE act == [NoAction EXCEPT !.phase = "Converged", !.desired = "on",
                                     !.key = d.key, !.token = t.token]
  <2>1. act.phase = "Converged"
    BY DEF NoAction
  <2>2. RetireSnapshot(t, d) = [t EXCEPT !.snap = NoSnapshot, !.act = act]
    BY <1>1 DEF RetireSnapshot
  <2>3. t.obs = "on"
    BY <1>1 DEF RestoredByOthers
  <2> HIDE DEF act
  <2> QED
    BY <2>1, <2>2, <2>3 DEF Targets
<1>2. CASE ~RestoredByOthers(t, d)
  BY <1>2 DEF RetireSnapshot
<1> QED
  BY <1>1, <1>2

\* ObserveConvergence keeps the invariant.
LEMMA InvObserve == ASSUME Inv, TypeOK', ObserveConvergence PROVE Inv'
<1> USE DEF workloadVars, targetVars
<1>1. /\ pc = "resume" /\ pc' = "final" /\ ~AuditPending(loc.act)
      /\ UNCHANGED <<cur, dec, live, wcache, owed, stored, cache, cacheCur>>
  BY DEF ObserveConvergence, Deciding
<1> DEFINE t == RetireSnapshot(loc, dec)
<1>2. loc' = t \/ loc' = WithPhase(t, "Converged")
  BY DEF ObserveConvergence
<1>3. t \in Targets
  BY PassFacts, RetireType
<1>4. /\ t.obs = loc.obs
      /\ t.snap = loc.snap \/ (t.snap = NoSnapshot /\ loc.obs = "on")
      /\ t.act = loc.act \/ t.act.phase = "Converged"
  BY PassFacts, RetireFields
<1> HIDE DEF t
<1>5. /\ loc'.obs = loc.obs
      /\ loc'.snap = loc.snap \/ (loc'.snap = NoSnapshot /\ loc.obs = "on")
      /\ loc'.act = loc.act \/ loc'.act.phase = "Converged"
  BY <1>2, <1>3, <1>4, PhaseFields
<1>6. Copies' /\ OwedWhileDown' /\ CacheAgrees'
  BY <1>1, <1>5 DEF Inv, Copies, Exact, OwedWhileDown, CacheAgrees, NoSnapshot
<1>7. PassAgrees'
  BY <1>1, <1>5 DEF Inv, PassAgrees
<1>8. OnTheWay'
  BY <1>1 DEF Inv, PassAgrees, OnTheWay
<1>9. Begun'
  BY <1>1 DEF Begun
<1> QED
  BY <1>6, <1>7, <1>8, <1>9 DEF Inv

\* Diverged keeps the invariant.
LEMMA InvDiverged == ASSUME Inv, TypeOK', Diverged PROVE Inv'
<1> USE DEF workloadVars, targetVars
<1>1. /\ pc = "resume" /\ ~AuditPending(loc.act) /\ dec.desired \in Power
      /\ loc.obs # dec.desired
      /\ SameAction(loc, dec) => loc.act.phase = "InProgress"
      /\ pc' = IF dec.desired = "on" THEN "begin"
               ELSE IF loc.snap.available THEN "admit" ELSE "capture"
      /\ UNCHANGED <<loc, cur, dec, live, wcache, owed, stored, cache, cacheCur>>
  BY DEF Diverged, Deciding
<1>2. loc.obs \in Power
  BY PassFacts, TargetFields
<1>3. Copies' /\ OwedWhileDown' /\ CacheAgrees'
  BY <1>1 DEF Inv, Copies, Exact, OwedWhileDown, CacheAgrees
<1>4. PassAgrees'
  BY <1>1 DEF Inv, PassAgrees
<1>5. OnTheWay'
  <2>1. SameAction(loc, dec)' = SameAction(loc, dec)
    BY <1>1 DEF SameAction
  <2> QED
    BY <1>1, <1>2, <2>1 DEF Inv, PassAgrees, OnTheWay, Power
<1>6. Begun'
  BY <1>1 DEF Begun
<1> QED
  BY <1>3, <1>4, <1>5, <1>6 DEF Inv

\* A boundary block stored on a fresh copy of the target ends the pass.
LEMMA ElsewhereEnds == ASSUME AcceptedElsewhere, EndPass PROVE Ended(loc)
  BY DEF AcceptedElsewhere, Ended

\* CaptureAndPersistSnapshot keeps the invariant.
LEMMA InvCapture == ASSUME Inv, TypeOK', CaptureAndPersistSnapshot PROVE Inv'
<1> DEFINE s == [available |-> TRUE, replicas |-> wcache.replicas, rv |-> wcache.rv]
<1> DEFINE t == [loc EXCEPT !.snap = s]
<1>1. t \in Targets /\ t.snap = s /\ t.obs = loc.obs /\ t.act = loc.act
      /\ t.token = loc.token
  <2>1. s \in Snapshots
    BY DEF Inv, TypeOK, Workload, Snapshots
  <2> HIDE DEF s
  <2> QED
    BY <2>1, PassFacts DEF Targets
<1>2. Sound(t) /\ UNCHANGED workloadVars /\ pc = "capture"
  BY <1>1 DEF Inv, Copies, Sound, CaptureAndPersistSnapshot, Captured
<1>3. CASE Ended(t)
  BY <1>1, <1>2, <1>3, EndedInv
<1>4. CASE Ended(loc)
  BY <1>2, <1>4, PassFacts, EndedInv
<1>5. CASE Continued(t, "admit")
  <2>1. Copies' /\ OwedWhileDown' /\ CacheAgrees' /\ PassAgrees'
    BY <1>1, <1>2, <1>5, ContinuedInv
  <2>2. loc' = t /\ stored' = t /\ pc' = "admit" /\ dec' = dec /\ cur /\ cur' = cur
    BY <1>5 DEF Continued
  <2>3. loc = stored /\ ~AuditPending(stored.act)
    BY <1>2, <2>2 DEF Inv, PassAgrees, OnTheWay
  <2>4. SameAction(loc, dec)' = SameAction(loc, dec)
    BY <1>1, <2>2 DEF SameAction
  <2>5. OnTheWay'
    BY <1>1, <1>2, <2>2, <2>3, <2>4 DEF Inv, OnTheWay
  <2>6. Begun'
    BY <2>2 DEF Begun
  <2> QED
    BY <2>1, <2>5, <2>6 DEF Inv
<1> QED
  BY <1>3, <1>4, <1>5, PersistOutcome, ElsewhereEnds DEF CaptureAndPersistSnapshot, Captured

\* AdmitLiveHPA keeps the invariant.
LEMMA InvAdmit == ASSUME Inv, TypeOK', AdmitLiveHPA PROVE Inv'
<1> USE DEF workloadVars, targetVars
<1>1. CASE EndPass
  <2>1. CASE pc' = "begin"
    BY <1>1, <2>1 DEF EndPass
  <2>2. CASE AcceptedElsewhere
    BY <1>1, <2>2, ElsewhereEnds, PassFacts, EndedInv DEF AdmitLiveHPA
  <2>3. CASE UNCHANGED targetVars
    <3>1. Ended(loc)
      BY <1>1, <2>3 DEF Ended
    <3> QED
      BY <3>1, PassFacts, EndedInv DEF AdmitLiveHPA
  <2> QED
    BY <2>1, <2>2, <2>3 DEF AdmitLiveHPA
<1>2. CASE pc' = "begin" /\ UNCHANGED <<loc, cur, dec, targetVars, faults>>
  <2>1. /\ pc = "admit"
        /\ UNCHANGED <<loc, cur, dec, live, wcache, owed, stored, cache, cacheCur>>
    BY <1>2 DEF AdmitLiveHPA
  <2>2. Copies' /\ OwedWhileDown' /\ CacheAgrees'
    BY <2>1 DEF Inv, Copies, Exact, OwedWhileDown, CacheAgrees
  <2>3. PassAgrees'
    BY <1>2, <2>1 DEF Inv, PassAgrees
  <2>4. SameAction(loc, dec)' = SameAction(loc, dec)
    BY <2>1 DEF SameAction
  <2>5. OnTheWay'
    BY <1>2, <2>1, <2>4 DEF Inv, OnTheWay
  <2>6. Begun'
    BY <1>2 DEF Begun
  <2> QED
    BY <2>2, <2>3, <2>5, <2>6 DEF Inv
<1> QED
  BY <1>1, <1>2 DEF AdmitLiveHPA

\* The intent leaves snapshot and observation alone.
LEMMA IntentFields ==
    ASSUME loc \in Targets, NEW id
    PROVE  /\ Intent(id).obs = loc.obs
           /\ Intent(id).snap = loc.snap
           /\ Intent(id).act.phase = "InProgress"
           /\ Intent(id).act.desired = dec.desired
           /\ Intent(id).act.key = dec.key
           /\ Intent(id).act.token = loc.token
           /\ Intent(id).act.audit = "None"
  BY DEF Intent, Targets

\* BeginAction keeps the invariant.
LEMMA InvBegin == ASSUME Inv, TypeOK', BeginAction PROVE Inv'
<1>1. PICK id \in AuditIDs : PersistAndContinue(Intent(id), "execute")
  BY DEF BeginAction
<1> DEFINE t == Intent(id)
<1>2. t \in Targets
  BY PassFacts, IntentType
<1>3. /\ t.obs = loc.obs /\ t.snap = loc.snap /\ t.act.phase = "InProgress"
      /\ t.act.desired = dec.desired /\ t.act.audit = "None"
  BY PassFacts, IntentFields
<1> HIDE DEF t
<1>4. Sound(t) /\ UNCHANGED workloadVars /\ pc = "begin"
  BY <1>3, PassFacts DEF Sound, BeginAction
<1>5. CASE Ended(t)
  BY <1>2, <1>4, <1>5, EndedInv
<1>6. CASE Continued(t, "execute")
  <2>1. Copies' /\ OwedWhileDown' /\ CacheAgrees' /\ PassAgrees'
    BY <1>2, <1>4, <1>6, ContinuedInv
  <2>2. loc' = t /\ stored' = t /\ pc' = "execute" /\ dec' = dec
    BY <1>6 DEF Continued
  <2>3. OnTheWay'
    BY <1>3, <1>4, <2>2 DEF Inv, OnTheWay
  <2>4. Begun'
    BY <1>3, <2>2 DEF Begun
  <2> QED
    BY <2>1, <2>3, <2>4 DEF Inv
<1> QED
  BY <1>1, <1>5, <1>6, PersistOutcome DEF t

\* Scaling changes the replicas and, if it changes anything, the revision.
LEMMA ScaledStep ==
    ASSUME live \in Workload, NEW n \in Replicas, live' = Scaled(n)
    PROVE  /\ live' = live \/ live'.rv = live.rv + 1
           /\ live'.replicas = n
  BY DEF Scaled, Workload

\* The copies stay exact when the workload changes and they do not.
LEMMA CopiesStable ==
    ASSUME Inv, TypeOK', live' = live \/ live'.rv = live.rv + 1,
           UNCHANGED <<wcache, stored, cache>>,
           loc'.snap = loc.snap \/ loc'.snap = NoSnapshot
    PROVE  Copies'
<1>1. live' \in Workload /\ TypeOK
  BY DEF Inv, TypeOK
<1>2. /\ wcache.rv \in Nat /\ stored.snap.rv \in Nat /\ cache.snap.rv \in Nat
      /\ loc.snap.rv \in Nat
  BY TargetFields DEF Inv, TypeOK, Workload
<1>3. \A r, rv : rv \in Nat /\ Exact(r, rv)
        => rv <= live'.rv /\ (rv = live'.rv => r = live'.replicas)
  BY <1>1, ExactStable
<1>4. Exact(wcache.replicas, wcache.rv)'
  BY <1>2, <1>3 DEF Inv, Copies, Exact
<1>5. (stored.snap.available => Exact(stored.snap.replicas, stored.snap.rv))'
  BY <1>2, <1>3 DEF Inv, Copies, Exact
<1>6. (cache.snap.available => Exact(cache.snap.replicas, cache.snap.rv))'
  BY <1>2, <1>3 DEF Inv, Copies, Exact
<1>7. (loc.snap.available => Exact(loc.snap.replicas, loc.snap.rv))'
  BY <1>2, <1>3 DEF Inv, Copies, Exact, NoSnapshot
<1> QED
  BY <1>4, <1>5, <1>6, <1>7 DEF Copies

\* Both executors: the workload and the in-memory target change, nothing else.
LEMMA InvExecuted ==
    ASSUME Inv, TypeOK', pc = "execute",
           live' = live \/ live'.rv = live.rv + 1, OwedWhileDown',
           UNCHANGED <<wcache, cur, dec, stored, cache, cacheCur, auditLog>>,
           \/ pc' = "complete" /\ loc' = Applied(loc)
           \/ pc' = "failed" /\ loc' = WithPhase(loc, "Failed")
           \/ /\ pc' = "failed"
              /\ dec.desired = "off"
              /\ loc' = [WithPhase(loc, "Failed") EXCEPT !.snap = NoSnapshot]
    PROVE  Inv'
<1> DEFINE f == WithPhase(loc, "Failed")
<1>1. f \in Targets /\ f.obs = loc.obs /\ f.snap = loc.snap /\ f.act.phase = "Failed"
  BY PassFacts, PhaseType, PhaseFields DEF Phases
<1>2. /\ [f EXCEPT !.snap = NoSnapshot].obs = loc.obs
      /\ [f EXCEPT !.snap = NoSnapshot].snap = NoSnapshot
      /\ [f EXCEPT !.snap = NoSnapshot].act.phase = "Failed"
  <2> HIDE DEF f
  <2> QED
    BY <1>1 DEF Targets
<1>3. /\ loc'.obs = loc.obs
      /\ loc'.snap = loc.snap
         \/ (loc'.snap = NoSnapshot /\ pc' = "failed" /\ dec.desired = "off")
      /\ pc' \in {"complete", "failed"}
      /\ pc' = "complete" => loc'.act.phase = "Applied"
      /\ pc' = "failed" => loc'.act.phase = "Failed"
  BY <1>1, <1>2, PassFacts, AppliedFields
<1>4. Copies'
  BY <1>3, CopiesStable
<1>5. CacheAgrees'
  BY DEF Inv, CacheAgrees
<1>6. PassAgrees'
  BY <1>3 DEF Inv, PassAgrees, OnTheWay, Begun
<1>7. OnTheWay'
  BY <1>3 DEF OnTheWay
<1>8. Begun'
  BY <1>3 DEF Inv, Begun
<1> QED
  BY <1>4, <1>5, <1>6, <1>7, <1>8 DEF Inv

\* ExecutePowerDown keeps the invariant.
LEMMA InvExecutePowerDown == ASSUME Inv, TypeOK', ExecutePowerDown PROVE Inv'
<1>1. 0 \in Replicas /\ live \in Workload
  BY DEF Replicas, Inv, TypeOK
<1>2. live' = live \/ (live'.rv = live.rv + 1 /\ live'.replicas = 0)
  BY <1>1, ScaledStep DEF ExecutePowerDown, ScaleToZero, NotApplied
<1>3. OwedWhileDown'
  <2>1. CASE NotApplied
    BY <2>1 DEF NotApplied, Inv, OwedWhileDown
  <2>2. CASE ScaleToZero
    BY <1>1, <2>2, ScaledStep DEF ScaleToZero, OwedWhileDown
  <2> QED
    BY <2>1, <2>2 DEF ExecutePowerDown
<1> QED
  BY <1>2, <1>3, InvExecuted DEF ExecutePowerDown, targetVars

\* ExecuteRestore keeps the invariant.
LEMMA InvExecuteRestore == ASSUME Inv, TypeOK', ExecuteRestore PROVE Inv'
<1>1. loc.snap.replicas \in Replicas /\ live \in Workload /\ owed \in Replicas
  BY PassFacts, TargetFields DEF Inv, TypeOK
<1>2. live' = live \/ live'.rv = live.rv + 1
  BY <1>1, ScaledStep DEF ExecuteRestore, ScaleToSnapshot, RestoredAlready,
     NotApplied
<1>3. OwedWhileDown'
  <2>1. CASE NotApplied
    BY <2>1 DEF NotApplied, Inv, OwedWhileDown
  <2>2. CASE ScaleToSnapshot
    <3>1. live'.replicas = loc.snap.replicas
      BY <1>1, <2>2, ScaledStep DEF ScaleToSnapshot
    <3> QED
      BY <1>1, <2>2, <3>1 DEF ScaleToSnapshot, OwedWhileDown, Replicas
  <2> QED
    BY <2>1, <2>2 DEF ExecuteRestore, RestoredAlready
<1> QED
  BY <1>2, <1>3, InvExecuted DEF ExecuteRestore, targetVars

\* PersistCompletion keeps the invariant.
LEMMA InvCompletion == ASSUME Inv, TypeOK', PersistCompletion PROVE Inv'
<1>1. UNCHANGED workloadVars
  BY DEF PersistCompletion
<1>2. CASE Ended(loc)
  BY <1>1, <1>2, PassFacts, EndedInv
<1>3. CASE Continued(loc, "resume")
  <2>1. Copies' /\ OwedWhileDown' /\ CacheAgrees' /\ PassAgrees'
    BY <1>1, <1>3, PassFacts, ContinuedInv
  <2>2. OnTheWay' /\ Begun'
    BY <1>3 DEF Continued, OnTheWay, Begun
  <2> QED
    BY <2>1, <2>2 DEF Inv
<1> QED
  BY <1>2, <1>3, PersistOutcome DEF PersistCompletion

-----------------------------------------------------------------------------
(* The inductive invariant: everyone else *)

\* StartReconcile keeps the invariant.
LEMMA InvStart == ASSUME Inv, TypeOK', StartReconcile PROVE Inv'
<1> USE DEF workloadVars, targetVars
<1>1. /\ loc' = cache /\ cur' = cacheCur /\ pc' \in {"resume", "label"}
      /\ UNCHANGED <<live, wcache, owed, stored, cache, cacheCur>>
  BY DEF StartReconcile
<1>2. Copies' /\ OwedWhileDown' /\ CacheAgrees'
  BY <1>1 DEF Inv, Copies, Exact, OwedWhileDown, CacheAgrees
<1>3. PassAgrees'
  BY <1>1 DEF Inv, CacheAgrees, PassAgrees
<1>4. OnTheWay' /\ Begun'
  BY <1>1 DEF OnTheWay, Begun
<1> QED
  BY <1>2, <1>3, <1>4 DEF Inv

\* Other writers of the PowerTarget leave its action and snapshot alone, and
\* make every copy of what they change stale.
LEMMA InvOthersWrite ==
    ASSUME Inv, TypeOK',
           stored'.act = stored.act, stored'.snap = stored.snap,
           cur' => cur /\ stored' = stored,
           cacheCur' => cacheCur /\ stored' = stored,
           UNCHANGED <<live, wcache, owed, cache, pc, loc, dec, auditLog>>
    PROVE  Inv'
<1>1. Copies' /\ OwedWhileDown' /\ CacheAgrees'
  BY DEF Inv, Copies, Exact, OwedWhileDown, CacheAgrees
<1>2. PassAgrees'
  BY DEF Inv, PassAgrees
<1>3. SameAction(loc, dec)' = SameAction(loc, dec)
  BY DEF SameAction
<1>4. OnTheWay'
  BY <1>3 DEF Inv, OnTheWay, AuditPending
<1>5. Begun'
  BY DEF Inv, Begun
<1> QED
  BY <1>1, <1>2, <1>4, <1>5 DEF Inv

\* Other writers of the workload change its revision.
LEMMA InvWorkloadChanges ==
    ASSUME Inv, TypeOK', live' = live \/ live'.rv = live.rv + 1, OwedWhileDown',
           UNCHANGED <<wcache, stored, cache, cacheCur, pc, loc, cur, dec, auditLog>>
    PROVE  Inv'
<1>1. Copies'
  BY CopiesStable
<1>2. CacheAgrees' /\ PassAgrees'
  BY DEF Inv, CacheAgrees, PassAgrees
<1>3. SameAction(loc, dec)' = SameAction(loc, dec)
  BY DEF SameAction
<1>4. OnTheWay' /\ Begun'
  BY <1>3 DEF Inv, OnTheWay, Begun
<1> QED
  BY <1>1, <1>2, <1>4 DEF Inv

\* Discovery, informers, others and crashes keep the invariant.
LEMMA InvRest ==
    ASSUME Inv, TypeOK', \/ StartReconcile \/ DiscoverWorkload \/ UpdateObservedState
                         \/ SyncTargetCache \/ SyncWorkloadCache \/ Environment
    PROVE  Inv'
<1> USE DEF workloadVars, targetVars, passVars, envVars
<1>0. stored \in Targets /\ live \in Workload
  BY DEF Inv, TypeOK
<1>1. CASE StartReconcile
  BY <1>1, InvStart
<1>2. CASE DiscoverWorkload
  BY <1>2, InvOthersWrite DEF DiscoverWorkload
<1>3. CASE UpdateObservedState
  <2>1. /\ [stored EXCEPT !.obs = seen].act = stored.act
        /\ [stored EXCEPT !.obs = seen].snap = stored.snap
        /\ seen = stored.obs => [stored EXCEPT !.obs = seen] = stored
    BY <1>0 DEF Targets
  <2>2. UNCHANGED <<live, wcache, owed, cache, pc, loc, dec, auditLog>>
    BY <1>3 DEF UpdateObservedState
  <2>3. CASE UNCHANGED <<stored, cacheCur, cur>>
    BY <2>2, <2>3, InvOthersWrite
  <2>4. CASE /\ cacheCur
             /\ stored' = [stored EXCEPT !.obs = seen]
             /\ cacheCur' = (seen = stored.obs)
             /\ cur' = (cur /\ seen = stored.obs)
    <3>1. cacheCur' => cacheCur /\ stored' = stored
      BY <2>1, <2>4
    <3>2. cur' => cur /\ stored' = stored
      BY <2>1, <2>4
    <3> QED
      BY <2>1, <2>2, <2>4, <3>1, <3>2, InvOthersWrite
  <2> QED
    BY <1>3, <2>3, <2>4 DEF UpdateObservedState
<1>4. CASE SyncTargetCache
  <2>1. /\ cache' = stored
        /\ UNCHANGED <<live, wcache, owed, stored, pc, loc, cur, dec, auditLog>>
    BY <1>4 DEF SyncTargetCache
  <2>2. Copies' /\ OwedWhileDown' /\ CacheAgrees'
    BY <2>1 DEF Inv, Copies, Exact, OwedWhileDown, CacheAgrees
  <2>3. PassAgrees' /\ Begun'
    BY <2>1 DEF Inv, PassAgrees, Begun
  <2>4. SameAction(loc, dec)' = SameAction(loc, dec)
    BY <2>1 DEF SameAction
  <2>5. OnTheWay'
    BY <2>1, <2>4 DEF Inv, OnTheWay
  <2> QED
    BY <2>2, <2>3, <2>5 DEF Inv
<1>5. CASE SyncWorkloadCache
  <2>1. /\ wcache' = live
        /\ UNCHANGED <<live, owed, stored, cache, cacheCur, pc, loc, cur, dec,
                       auditLog>>
    BY <1>5 DEF SyncWorkloadCache
  <2>2. Copies'
    BY <1>0, <2>1 DEF Inv, Copies, Exact, Workload
  <2>3. OwedWhileDown' /\ CacheAgrees' /\ PassAgrees' /\ Begun'
    BY <2>1 DEF Inv, OwedWhileDown, CacheAgrees, PassAgrees, Begun
  <2>4. SameAction(loc, dec)' = SameAction(loc, dec)
    BY <2>1 DEF SameAction
  <2>5. OnTheWay'
    BY <2>1, <2>4 DEF Inv, OnTheWay
  <2> QED
    BY <2>2, <2>3, <2>5 DEF Inv
<1>6. CASE ChangeDecision
  BY <1>6, InvOthersWrite DEF ChangeDecision
<1>7. CASE ScaleWorkload
  <2>1. PICK n \in Replicas : /\ live' = Scaled(n)
                              /\ owed' = IF n > 0 THEN 0 ELSE owed
    BY <1>7 DEF ScaleWorkload
  <2>2. (live' = live \/ live'.rv = live.rv + 1) /\ live'.replicas = n
    BY <1>0, <2>1, ScaledStep
  <2>3. OwedWhileDown'
    BY <2>1, <2>2 DEF OwedWhileDown, Replicas
  <2> QED
    BY <1>7, <2>2, <2>3, InvWorkloadChanges DEF ScaleWorkload
<1>8. CASE TouchWorkload
  <2>1. live'.rv = live.rv + 1 /\ live'.replicas = live.replicas
    BY <1>0, <1>8 DEF TouchWorkload, Workload
  <2>2. OwedWhileDown'
    BY <1>8, <2>1 DEF TouchWorkload, Inv, OwedWhileDown
  <2> QED
    BY <1>8, <2>1, <2>2, InvWorkloadChanges DEF TouchWorkload
<1>9. CASE RequestRetry
  <2>1. stored'.act = stored.act /\ stored'.snap = stored.snap
    BY <1>0, <1>9 DEF RequestRetry, Targets
  <2> QED
    BY <1>9, <2>1, InvOthersWrite DEF RequestRetry
<1>10. CASE TouchTarget
  BY <1>10, InvOthersWrite DEF TouchTarget
<1>11. CASE Crash
  <2>1. /\ pc' = "idle" /\ cur' = FALSE /\ loc'.snap.available = FALSE
        /\ cache' = stored /\ wcache' = live /\ UNCHANGED <<live, owed, stored>>
    BY <1>11 DEF Crash, EndPass, NewTarget, NoSnapshot
  <2>2. Copies'
    BY <1>0, <2>1 DEF Inv, Copies, Exact, Workload
  <2>3. OwedWhileDown' /\ CacheAgrees'
    BY <2>1 DEF Inv, OwedWhileDown, CacheAgrees
  <2>4. PassAgrees' /\ OnTheWay' /\ Begun'
    BY <2>1 DEF PassAgrees, OnTheWay, Begun
  <2> QED
    BY <2>2, <2>3, <2>4 DEF Inv
<1> QED
  BY <1>1, <1>2, <1>3, <1>4, <1>5, <1>6, <1>7, <1>8, <1>9, <1>10, <1>11
  DEF Environment

\* The initial states satisfy the invariant.
LEMMA InvInit == Init => Inv
<1> SUFFICES ASSUME Init PROVE Inv
  OBVIOUS
<1>1. TypeOK
  BY TypeInit
<1>2. /\ stored.snap.available = FALSE /\ loc.snap.available = FALSE
      /\ cache = stored /\ wcache = live
  BY DEF Init, NewTarget, NoSnapshot
<1>3. Copies
  BY <1>1, <1>2 DEF Copies, Exact, TypeOK, Workload
<1>4. OwedWhileDown /\ CacheAgrees
  BY <1>2 DEF Init, OwedWhileDown, CacheAgrees
<1>5. PassAgrees /\ OnTheWay /\ Begun
  BY DEF Init, PassAgrees, OnTheWay, Begun
<1> QED
  BY <1>1, <1>3, <1>4, <1>5 DEF Inv

\* Every step keeps the invariant.
LEMMA InvNext == Inv /\ [Next]_vars => Inv'
<1> SUFFICES ASSUME Inv, [Next]_vars PROVE Inv'
  OBVIOUS
<1>1. TypeOK'
  BY TypeNext DEF Inv
<1>2. CASE ContinueReconcile
  BY <1>1, <1>2, InvLabel, InvRecord, InvPersistAndEnd, InvAwait, InvSkip,
     InvObserve, InvDiverged, InvCapture, InvAdmit, InvBegin,
     InvExecutePowerDown, InvExecuteRestore, InvCompletion
  DEF ContinueReconcile
<1>3. CASE \/ StartReconcile \/ DiscoverWorkload \/ UpdateObservedState
           \/ SyncTargetCache \/ SyncWorkloadCache \/ Environment
  BY <1>1, <1>3, InvRest
<1>4. CASE UNCHANGED vars
  BY <1>1, <1>4, InvOthersWrite DEF vars
<1> QED
  BY <1>2, <1>3, <1>4 DEF Next

\* The invariant that ties a pass's copy of the target to the stored one.
THEOREM Invariance == Spec => []Inv
<1> QED
  BY InvInit, InvNext, PTL DEF Spec

-----------------------------------------------------------------------------
(* Safety *)

\* Only the executor's two steps are the controller's writes to the workload.
LEMMA MutatesIsExecute ==
    ASSUME Next, ControllerMutates
    PROVE  ExecutePowerDown \/ ExecuteRestore
<1> USE DEF workloadVars, passVars, ControllerMutates
<1>1. CASE ContinueReconcile
  BY <1>1 DEF ContinueReconcile, PersistStateLabel, RecordPendingAudit,
     CheckpointAudit, SkipUnmanaged, RecoverOutcome, ObserveConvergence,
     AwaitConvergence, ReportContention, Diverged, Deciding,
     CaptureAndPersistSnapshot, Captured, AdmitLiveHPA, BeginAction, PersistFailure,
     PersistCompletion, PersistStatus
<1>2. CASE Environment
  BY <1>2 DEF Environment, ChangeDecision, ScaleWorkload, TouchWorkload,
     RequestRetry, TouchTarget, Crash
<1>3. CASE \/ StartReconcile \/ DiscoverWorkload \/ UpdateObservedState
           \/ SyncTargetCache \/ SyncWorkloadCache
  BY <1>3 DEF StartReconcile, DiscoverWorkload, UpdateObservedState,
     SyncTargetCache, SyncWorkloadCache
<1> QED
  BY <1>1, <1>2, <1>3 DEF Next

\* The snapshot a power-down is about to use has exactly the replicas it takes.
LEMMA SnapshotIsLive ==
    ASSUME Inv, pc = "execute", dec.desired = "off", RevisionUnchanged
    PROVE  loc.snap.available /\ loc.snap.replicas = live.replicas
  BY DEF Inv, OnTheWay, Copies, Exact, RevisionUnchanged, CacheIsLive

\* No power-down or restore reaches the workload before its intent and the exact
\* replica count are stored, for any number of failures and concurrent writers.
THEOREM WriteAheadHolds == Spec => WriteAhead
<1>1. ASSUME Inv, Next, ControllerMutates
      PROVE  /\ stored.act = loc.act
             /\ stored.act.phase = "InProgress"
             /\ stored.act.desired = dec.desired
             /\ stored.snap.available
             /\ stored.snap.replicas
                   = IF dec.desired = "off" THEN live.replicas ELSE live'.replicas
  <2>1. pc = "execute" /\ live' # live
    BY <1>1 DEF ControllerMutates
  <2>2. /\ stored.act = loc.act /\ stored.act.phase = "InProgress"
        /\ stored.act.desired = dec.desired /\ stored.snap = loc.snap
    BY <1>1, <2>1 DEF Inv, Begun
  <2>3. CASE ExecutePowerDown
    <3>1. dec.desired = "off" /\ RevisionUnchanged
      BY <2>1, <2>3 DEF ExecutePowerDown, ScaleToZero, NotApplied
    <3> QED
      BY <1>1, <2>1, <2>2, <3>1, SnapshotIsLive
  <2>4. CASE ExecuteRestore
    <3>1. dec.desired = "on" /\ loc.snap.available /\ live' = Scaled(loc.snap.replicas)
      BY <2>1, <2>4 DEF ExecuteRestore, ScaleToSnapshot, RestoredAlready,
     NotApplied
    <3>2. live'.replicas = loc.snap.replicas
      BY <3>1 DEF Scaled
    <3> QED
      BY <2>2, <3>1, <3>2
  <2> QED
    BY <1>1, <2>3, <2>4, MutatesIsExecute
<1>2. Inv /\ [Next]_vars
      => [ControllerMutates =>
            /\ stored.act = loc.act
            /\ stored.act.phase = "InProgress"
            /\ stored.act.desired = dec.desired
            /\ stored.snap.available
            /\ stored.snap.replicas
                  = IF dec.desired = "off" THEN live.replicas ELSE live'.replicas
         ]_vars
  BY <1>1
<1> QED
  BY <1>2, Invariance, PTL DEF Spec, WriteAhead

\* Everything that can happen to the stored action and the stored snapshot.
LEMMA StoredSteps ==
    ASSUME Inv, Next
    PROVE  \/ stored'.act = stored.act /\ stored'.snap = stored.snap
           \/ cur /\ pc = "capture" /\ stored'.act = stored.act
           \/ /\ cur /\ pc = "begin" /\ stored'.snap = stored.snap
              /\ \E id : stored'.act = Intent(id).act
           \/ /\ cur /\ pc = "resume" /\ stored'.snap = stored.snap
              /\ ~AuditPending(loc.act)
              /\ stored'.act.phase \in {"Applied", "Contended"}
           \/ /\ cur /\ pc \in {"checkpoint", "complete", "failed", "final"}
              /\ stored' = loc
<1> USE DEF workloadVars, targetVars, passVars
<1>0. stored \in Targets /\ loc \in Targets
  BY PassFacts
<1>1. ASSUME NEW t, PersistAndEnd(t) \/ \E next : PersistAndContinue(t, next)
      PROVE  stored' = stored \/ (cur /\ stored' = t)
  BY <1>1, PersistOutcome DEF Ended, Continued
<1>2. CASE PersistStateLabel
  <2> DEFINE t == [stored EXCEPT !.label = StateLabel(dec, loc.obs)]
  <2>1. t.act = stored.act /\ t.snap = stored.snap
    BY <1>0 DEF Targets
  <2>2. stored' = stored \/ stored' = t
    BY <1>1, <1>2 DEF PersistStateLabel
  <2> QED
    BY <2>1, <2>2
<1>3. CASE CheckpointAudit \/ PersistFailure \/ PersistCompletion \/ PersistStatus
  BY <1>1, <1>3 DEF CheckpointAudit, PersistFailure, PersistCompletion, PersistStatus
<1>4. CASE RecoverOutcome
  <2>1. stored' = stored \/ (cur /\ stored' = Applied(loc))
    BY <1>1, <1>4 DEF RecoverOutcome
  <2>2. pc = "resume" /\ ~AuditPending(loc.act)
    BY <1>4 DEF RecoverOutcome, Deciding
  <2>3. cur => loc = stored
    BY <2>2 DEF Inv, PassAgrees
  <2> QED
    BY <1>0, <2>1, <2>2, <2>3, AppliedFields
<1>5. CASE ReportContention
  <2>1. stored' = stored \/ (cur /\ stored' = WithPhase(loc, "Contended"))
    BY <1>1, <1>5 DEF ReportContention
  <2>2. pc = "resume" /\ ~AuditPending(loc.act)
    BY <1>5 DEF ReportContention, Deciding
  <2>3. cur => loc = stored
    BY <2>2 DEF Inv, PassAgrees
  <2> QED
    BY <1>0, <2>1, <2>2, <2>3, PhaseFields
<1>6. CASE CaptureAndPersistSnapshot
  <2> DEFINE s == [available |-> TRUE, replicas |-> wcache.replicas, rv |-> wcache.rv]
  <2>1. stored' = stored \/ (cur /\ stored' = [loc EXCEPT !.snap = s])
    BY <1>1, <1>6 DEF CaptureAndPersistSnapshot, Captured, AcceptedElsewhere
  <2>2. pc = "capture"
    BY <1>6 DEF CaptureAndPersistSnapshot, Captured
  <2>3. cur => loc = stored
    BY <2>2 DEF Inv, PassAgrees
  <2>4. [loc EXCEPT !.snap = s].act = loc.act
    BY <1>0 DEF Targets
  <2> QED
    BY <2>1, <2>2, <2>3, <2>4
<1>7. CASE BeginAction
  <2>1. PICK id \in AuditIDs : PersistAndContinue(Intent(id), "execute")
    BY <1>7 DEF BeginAction
  <2>2. stored' = stored \/ (cur /\ stored' = Intent(id))
    BY <1>1, <2>1
  <2>3. pc = "begin"
    BY <1>7 DEF BeginAction
  <2>4. cur => loc = stored
    BY <2>3 DEF Inv, PassAgrees
  <2>5. Intent(id).snap = loc.snap
    BY <1>0, IntentFields
  <2> QED
    BY <2>2, <2>3, <2>4, <2>5
<1>8. CASE AdmitLiveHPA
  BY <1>8 DEF AdmitLiveHPA, AcceptedElsewhere
<1>9. CASE \/ RecordPendingAudit \/ SkipUnmanaged \/ ObserveConvergence
           \/ AwaitConvergence \/ Diverged \/ ExecutePowerDown \/ ExecuteRestore
  BY <1>9 DEF RecordPendingAudit, SkipUnmanaged, ObserveConvergence,
     AwaitConvergence, Diverged, ExecutePowerDown, ExecuteRestore
<1>10. CASE UpdateObservedState
  <2>1. stored' = stored \/ stored' = [stored EXCEPT !.obs = seen]
    BY <1>10 DEF UpdateObservedState
  <2> QED
    BY <1>0, <2>1 DEF Targets
<1>11. CASE RequestRetry
  BY <1>0, <1>11 DEF RequestRetry, Targets
<1>12. CASE \/ StartReconcile \/ DiscoverWorkload \/ SyncTargetCache
            \/ SyncWorkloadCache \/ ChangeDecision \/ ScaleWorkload
            \/ TouchWorkload \/ TouchTarget \/ Crash
  BY <1>12 DEF StartReconcile, DiscoverWorkload, SyncTargetCache,
     SyncWorkloadCache, ChangeDecision, ScaleWorkload, TouchWorkload,
     TouchTarget, Crash
<1> QED
  BY <1>2, <1>3, <1>4, <1>5, <1>6, <1>7, <1>8, <1>9, <1>10, <1>11, <1>12
  DEF Next, ContinueReconcile, Environment

\* An audit that is pending is recorded before the stored action moves on.
THEOREM PendingAuditSurvivesHolds == Spec => PendingAuditSurvives
<1>1. ASSUME Inv, Next, AuditPending(stored.act), ~AuditPending(stored'.act)
      PROVE  stored.act.id \in auditLog
  <2>1. CASE cur /\ pc \in {"capture", "begin"}
    BY <1>1, <2>1 DEF Inv, OnTheWay
  <2>2. CASE cur /\ pc = "resume" /\ ~AuditPending(loc.act)
    BY <1>1, <2>2 DEF Inv, PassAgrees
  <2>3. CASE cur /\ pc \in {"complete", "failed", "final"}
    BY <1>1, <2>3 DEF Inv, OnTheWay, Begun, AuditPending
  <2>4. CASE cur /\ pc = "checkpoint"
    BY <2>4, <1>1 DEF Inv, PassAgrees, Begun
  <2> QED
    BY <1>1, <2>1, <2>2, <2>3, <2>4, StoredSteps
<1>2. Inv /\ [Next]_vars
      => [AuditPending(stored.act) /\ ~AuditPending(stored'.act)
             => stored.act.id \in auditLog]_vars
  BY <1>1
<1> QED
  BY <1>2, Invariance, PTL DEF Spec, PendingAuditSurvives

\* An accepted mutation is never begun a second time for the same rule, desired
\* state and retry token.
THEOREM NoReissueHolds == Spec => NoReissue
<1>1. ASSUME Inv, Next,
             stored.act.phase \in {"Applied", "Converged", "Contended"},
             stored'.act.phase = "InProgress", SameWrite(stored.act, stored'.act)
      PROVE  FALSE
  <2>1. CASE cur /\ pc = "begin" /\ \E id : stored'.act = Intent(id).act
    <3>1. loc = stored /\ (SameAction(loc, dec) => loc.act.phase = "InProgress")
      BY <1>1, <2>1 DEF Inv, PassAgrees, OnTheWay
    <3>2. /\ stored'.act.desired = dec.desired /\ stored'.act.key = dec.key
          /\ stored'.act.token = loc.token
      BY <1>1, <2>1, PassFacts, IntentFields
    <3> QED
      BY <1>1, <3>1, <3>2 DEF SameWrite, SameAction
  <2>2. CASE cur /\ pc = "checkpoint" /\ stored' = loc
    BY <1>1, <2>2 DEF Inv, PassAgrees
  <2>3. CASE cur /\ pc \in {"complete", "failed"} /\ stored' = loc
    BY <1>1, <2>3 DEF Inv, Begun
  <2>4. CASE cur /\ pc = "final" /\ stored' = loc
    BY <1>1, <2>4 DEF Inv, PassAgrees
  <2> QED
    BY <1>1, <2>1, <2>2, <2>3, <2>4, StoredSteps
<1>2. Inv /\ [Next]_vars
      => [/\ stored.act.phase \in {"Applied", "Converged", "Contended"}
          /\ stored'.act.phase = "InProgress"
          => ~SameWrite(stored.act, stored'.act)]_vars
  BY <1>1
<1> QED
  BY <1>2, Invariance, PTL DEF Spec, NoReissue

\* Replicas become owed only by a power-down, which leaves the target alone.
LEMMA OwedSteps ==
    ASSUME Next
    PROVE  \/ owed' = owed
           \/ owed' = 0
           \/ ExecutePowerDown /\ ScaleToZero /\ live.replicas > 0
<1> USE DEF workloadVars
<1>1. CASE ExecutePowerDown
  BY <1>1 DEF ExecutePowerDown, ScaleToZero, NotApplied
<1>2. CASE ExecuteRestore
  BY <1>2 DEF ExecuteRestore, ScaleToSnapshot, RestoredAlready,
     NotApplied
<1>3. CASE ScaleWorkload
  BY <1>3 DEF ScaleWorkload
<1>4. CASE ContinueReconcile /\ ~ExecutePowerDown /\ ~ExecuteRestore
  BY <1>4 DEF ContinueReconcile, PersistStateLabel, RecordPendingAudit,
     CheckpointAudit, SkipUnmanaged, RecoverOutcome, ObserveConvergence,
     AwaitConvergence, ReportContention, Diverged, CaptureAndPersistSnapshot, Captured,
     AdmitLiveHPA, BeginAction, PersistFailure, PersistCompletion, PersistStatus
<1>5. CASE \/ StartReconcile \/ DiscoverWorkload \/ UpdateObservedState
           \/ SyncTargetCache \/ SyncWorkloadCache
  BY <1>5 DEF StartReconcile, DiscoverWorkload, UpdateObservedState,
     SyncTargetCache, SyncWorkloadCache
<1>6. CASE Environment /\ ~ScaleWorkload
  BY <1>6 DEF Environment, ChangeDecision, TouchWorkload, RequestRetry,
     TouchTarget, Crash
<1> QED
  BY <1>1, <1>2, <1>3, <1>4, <1>5, <1>6 DEF Next

\* The replica count of a powered-down workload can be lost only by a step taken
\* while discovery's observation lags behind the power-down.
THEOREM LossOnlyWhileLaggingHolds == Spec => LossOnlyWhileLagging
<1>1. ASSUME Inv, Next, Recoverable, ~Recoverable'
      PROVE  stored.obs = "on" /\ live.replicas = 0
  <2>1. owed' > 0 /\ ~(stored'.snap.available /\ stored'.snap.replicas = owed')
    BY <1>1 DEF Recoverable
  <2>2. ASSUME ExecutePowerDown, ScaleToZero, live.replicas > 0
        PROVE  FALSE
    <3>1. owed' = live.replicas /\ stored' = stored
      BY <2>2 DEF ExecutePowerDown, ScaleToZero, targetVars
    <3>2. stored.snap.available /\ stored.snap.replicas = live.replicas
      BY <1>1, <2>2, SnapshotIsLive DEF ExecutePowerDown, ScaleToZero, Inv, Begun
    <3> QED
      BY <2>1, <3>1, <3>2
  <2>3. owed' = owed /\ owed > 0
    BY <1>1, <2>1, <2>2, OwedSteps
  <2>4. live.replicas = 0
    BY <1>1, <2>3 DEF Inv, OwedWhileDown
  <2>5. stored.snap.available /\ stored'.snap # stored.snap
    BY <1>1, <2>1, <2>3 DEF Recoverable
  <2>6. CASE cur /\ pc = "capture"
    BY <1>1, <2>5, <2>6 DEF Inv, PassAgrees, OnTheWay
  <2>7. CASE cur /\ pc \in {"checkpoint", "complete", "failed", "final"} /\ stored' = loc
    BY <1>1, <2>4, <2>5, <2>7 DEF Inv, PassAgrees
  <2> QED
    BY <1>1, <2>5, <2>6, <2>7, StoredSteps
<1>2. Inv /\ [Next]_vars
      => [Recoverable /\ ~Recoverable' => stored.obs = "on" /\ live.replicas = 0]_vars
  BY <1>1
<1> QED
  BY <1>2, Invariance, PTL DEF Spec, LossOnlyWhileLagging
=============================================================================
