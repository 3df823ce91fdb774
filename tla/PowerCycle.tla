----------------------------- MODULE PowerCycle -----------------------------
(***************************************************************************)
(* What the power-down / restore protocol of one workload promises, seen   *)
(* from what survives a crash alone.  There are no passes, caches, calls   *)
(* that fail or rules here: a step is the effect that one of them has on   *)
(* the workload, on the status of its PowerTarget or on the audit events.  *)
(* TargetReconciler is shown to implement this.                            *)
(***************************************************************************)
EXTENDS Naturals

CONSTANT Counts    \* replica counts

(***************************************************************************)
(*  replicas  of the workload                                              *)
(*  saved     the replica count in the snapshot, {} if there is none       *)
(*  intent    the power state of the action that is in progress            *)
(*  audit     of the last action that was applied: "pending" until its     *)
(*            event exists, then "written" until that is checkpointed      *)
(*  others    the number of writes by anybody else so far                  *)
(***************************************************************************)
VARIABLES replicas, saved, intent, audit, others

cycle == <<replicas, saved, intent, audit, others>>

Init ==
    /\ replicas \in Counts
    /\ saved = {}
    /\ intent = "none"
    /\ audit = "none"
    /\ others = 0

\* A snapshot is taken only where there is none, and may be out of date by the
\* time it is stored.
Capture ==
    /\ saved = {} /\ audit = "none"
    /\ \E n \in Counts : saved' = {n}
    /\ UNCHANGED <<replicas, intent, audit, others>>

\* An action is begun when the last one has been audited; one that powers down
\* needs a snapshot.
Begin ==
    /\ audit = "none"
    /\ intent' \in {"on", "off"}
    /\ intent' = "off" => saved # {}
    /\ UNCHANGED <<replicas, saved, audit, others>>

\* Nothing but the power-down or restore in progress touches the workload, the
\* one only while the snapshot is exact, the other only to return to it.
Mutate ==
    /\ \/ intent = "off" /\ saved = {replicas} /\ replicas' = 0
       \/ intent = "on" /\ saved = {replicas'}
    /\ UNCHANGED <<saved, intent, audit, others>>

\* An action that is known to be applied owes an audit.
Complete ==
    /\ intent # "none"
    /\ intent' = "none"
    /\ audit = "none" /\ audit' = "pending"
    /\ UNCHANGED <<replicas, saved, others>>

\* One that is not is given up; a power-down that is refused takes the snapshot
\* along.
Fail ==
    /\ intent # "none"
    /\ intent' = "none"
    /\ saved' = saved \/ (intent = "off" /\ saved' = {})
    /\ UNCHANGED <<replicas, audit, others>>

WriteAudit ==
    /\ audit = "pending" /\ audit' = "written"
    /\ UNCHANGED <<replicas, saved, intent, others>>

CheckpointAudit ==
    /\ audit = "written" /\ audit' = "none"
    /\ UNCHANGED <<replicas, saved, intent, others>>

\* The snapshot is given up only between two actions, when the workload is seen
\* to run again.
Retire ==
    /\ intent = "none" /\ audit = "none"
    /\ saved # {} /\ saved' = {}
    /\ UNCHANGED <<replicas, intent, audit, others>>

\* Somebody else writes the workload or the target, replica count included.
Intervene ==
    /\ others' = others + 1
    /\ replicas' \in Counts
    /\ UNCHANGED <<saved, intent, audit>>

Next ==
    \/ Capture \/ Begin \/ Mutate \/ Complete \/ Fail
    \/ WriteAudit \/ CheckpointAudit \/ Retire \/ Intervene

Spec == Init /\ [][Next]_cycle
=============================================================================
