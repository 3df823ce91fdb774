----------------------------- MODULE Discovery -----------------------------
(***************************************************************************)
(* The discovery loop against one workload and its PowerTargets:           *)
(*                                                                         *)
(*   internal/adapters/driving/background/discovery.go                     *)
(*                                                                         *)
(* A cycle lists the workloads, brings the PowerTarget of each up to date, *)
(* and deletes the targets that the list does not account for.  A target   *)
(* is named after the UID of its workload; one of an earlier release, the  *)
(* legacy target, is named after the workload alone and is migrated.  A    *)
(* workload that opts out (power-exempt) loses its target, but only after  *)
(* what the controller took from it has been given back.  The status of a  *)
(* target may hold the only copy of a replica count, so a deletion decided *)
(* on evidence that is out of date cannot be undone.                       *)
(*                                                                         *)
(* Meanwhile the reconciler powers the workload down and up (see module    *)
(* TargetReconciler, of which the steps that matter here are kept), and    *)
(* the workload is scaled, annotated, deleted and created again.           *)
(*                                                                         *)
(* Abstracted: the workload kind; namespaces that are skipped; labels and  *)
(* ownership; the resourceVersion of a target, for which its content       *)
(* stands (a write to an unchanged object does the same either way).       *)
(***************************************************************************)
EXTENDS Integers

CONSTANTS
    MaxReplicas,  \* replica counts are 0..MaxReplicas
    MaxUIDs,      \* bound: how often the workload is created
    MaxEdits      \* bound: how often it is scaled or annotated by others

ASSUME DiscoveryAssumption ==
    /\ MaxReplicas \in Nat
    /\ MaxUIDs \in Nat \ {0}
    /\ MaxEdits \in Nat

(***************************************************************************)
(*  wl     the workload                                                    *)
(*  objs   the PowerTargets: objs[u] is named after UID u, objs[Legacy] is *)
(*         the legacy target, whose uid may be unknown                     *)
(*  view   the informer's copies of them                                   *)
(*  pc, lst, held   the discovery cycle: its next call, the workload as it *)
(*         was listed, and the legacy status that is being migrated        *)
(*  pass   the reconciler's pass that is about to power down: its target   *)
(*         and the replicas it expects                                     *)
(*  edits  how often others have edited the workload                       *)
(*                                                                         *)
(* History variable, read by the properties alone:                         *)
(*  owed   the replicas the controller took away and nobody gave back      *)
(*  informed   whether every read of the cycle found the informer up to    *)
(*         date and nobody else has written since it listed the workloads  *)
(***************************************************************************)
VARIABLES wl, objs, view, pc, lst, held, pass, edits, owed, informed

cycle == <<pc, lst, held>>
vars == <<wl, objs, view, cycle, pass, edits, owed, informed>>

Legacy == 0
NoUID == 0
UIDs == 1..MaxUIDs
Names == UIDs \cup {Legacy}

None == -1
Replicas == 0..MaxReplicas

Workloads ==
    [exists : BOOLEAN, uid : UIDs, replicas : Replicas, exempt : BOOLEAN]

\* obs is "" until discovery has written the status for the first time.
Targets ==
    [exists : BOOLEAN, uid : UIDs \cup {NoUID}, obs : {"", "on", "off"},
     snap : Replicas \cup {None}]

Absent == [exists |-> FALSE, uid |-> NoUID, obs |-> "", snap |-> None]
Unlisted == [exists |-> FALSE, uid |-> 1, replicas |-> 0, exempt |-> FALSE]
NoPass == [name |-> None, uid |-> NoUID, replicas |-> 0]

PowerOf(w) == IF w.replicas = 0 THEN "off" ELSE "on"

-----------------------------------------------------------------------------
(* Calls of the cycle; after an error it goes on to the cleanup *)

Fails == pc' = "cleanup" /\ UNCHANGED objs

\* A status write on what the informer holds; the answer may be lost.
UpdateStatus(n, t, next) ==
    \/ /\ view[n] = objs[n]
       /\ objs' = [objs EXCEPT ![n] = t]
       /\ pc' \in {next, "cleanup"}
    \/ Fails

\* A deletion names no revision.
Delete(n, next) ==
    \/ /\ objs' = [objs EXCEPT ![n] = Absent]
       /\ pc' \in {next, "cleanup"}
    \/ Fails

\* Executor.Restore, bound to the UID that was listed
Restore(n) ==
    /\ \/ /\ wl.exists /\ wl.uid = lst.uid
          /\ wl' = [wl EXCEPT !.replicas = n]
          /\ owed' = IF n > 0 THEN 0 ELSE owed
       \/ UNCHANGED <<wl, owed>>
    /\ pc' = "cleanup"
    /\ UNCHANGED objs

-----------------------------------------------------------------------------
(* The cycle *)

\* DiscoverAll
List ==
    /\ pc = "idle"
    /\ lst' = wl
    /\ pc' = IF wl.exists THEN "ensure" ELSE "cleanup"
    /\ UNCHANGED <<wl, objs, view, held, pass, edits, owed>>

\* legacySnapshotProvesPoweredDown
Proves(t) == t.snap > 0 /\ t.obs = "off" /\ lst.replicas = 0

\* The status of the legacy target belongs to the listed workload.
Inherits(t) ==
    \/ t.uid = lst.uid
    \/ t.uid = NoUID /\ Proves(t)

Ambiguous(t) == lst.replicas = 0 /\ t.snap # None /\ ~Inherits(t)

Found == view[lst.uid]
FoundLegacy == view[Legacy]

\* A target without a status is a migration that was interrupted.
Interrupted == Found.exists /\ Found.obs = "" /\ FoundLegacy.exists

\* Mutant: an interrupted migration is not resumed.
ResumeMigrationAfresh ==
    /\ pc = "ensure"
    /\ Interrupted
    /\ ~Ambiguous(FoundLegacy)
    /\ UpdateStatus(lst.uid, [Found EXCEPT !.obs = PowerOf(lst)], "drop")
    /\ UNCHANGED <<wl, view, lst, held, pass, edits, owed>>

ResumeMigration ==
    /\ pc = "ensure"
    /\ Interrupted
    /\ ~Ambiguous(FoundLegacy)
    /\ UpdateStatus(lst.uid,
           [Found EXCEPT !.obs = PowerOf(lst),
                         !.snap = IF Inherits(FoundLegacy)
                                  THEN FoundLegacy.snap ELSE @], "drop")
    /\ UNCHANGED <<wl, view, lst, held, pass, edits, owed>>

\* Neither migrated nor resumed: an operator has to settle it first.
RefuseMigration ==
    /\ pc = "ensure"
    /\ Interrupted \/ (~Found.exists /\ FoundLegacy.exists /\ ~lst.exempt)
    /\ Ambiguous(FoundLegacy)
    /\ Fails
    /\ UNCHANGED <<wl, view, lst, held, pass, edits, owed>>

\* updateObservedState
Observe ==
    /\ pc = "ensure"
    /\ Found.exists
    /\ ~Interrupted
    /\ IF lst.exempt
       THEN pc' = "exempt" /\ UNCHANGED objs
       ELSE UpdateStatus(lst.uid, [Found EXCEPT !.obs = PowerOf(lst)], "cleanup")
    /\ UNCHANGED <<wl, view, lst, held, pass, edits, owed>>

\* newPowerTarget: the object first, its status in a second call.
CreateTarget ==
    /\ pc = "ensure"
    /\ ~Found.exists
    /\ ~lst.exempt
    /\ ~(FoundLegacy.exists /\ Ambiguous(FoundLegacy))
    /\ \/ /\ ~objs[lst.uid].exists
          /\ objs' = [objs EXCEPT ![lst.uid] =
                         [Absent EXCEPT !.exists = TRUE, !.uid = lst.uid]]
          /\ pc' \in {"status", "cleanup"}
       \/ Fails
    /\ held' = IF pc' = "status" THEN FoundLegacy ELSE Absent
    /\ UNCHANGED <<wl, view, lst, pass, edits, owed>>

\* Mutant: the legacy status is still at hand for the next creation.
WriteStatusAgain ==
    /\ pc = "status"
    /\ \/ /\ objs[lst.uid].exists
          /\ objs' = [objs EXCEPT
                 ![lst.uid].obs = PowerOf(lst),
                 ![lst.uid].snap = IF held.exists /\ Inherits(held)
                                   THEN held.snap ELSE @]
          /\ pc' \in {IF held.exists THEN "drop" ELSE "cleanup", "cleanup"}
       \/ Fails
    /\ UNCHANGED <<wl, view, lst, held, pass, edits, owed>>

\* The legacy status that is inherited replaces the status; conflicts are
\* retried on a fresh copy.
WriteStatus ==
    /\ pc = "status"
    /\ \/ /\ objs[lst.uid].exists
          /\ objs' = [objs EXCEPT
                 ![lst.uid].obs = PowerOf(lst),
                 ![lst.uid].snap = IF held.exists /\ Inherits(held)
                                   THEN held.snap ELSE @]
          /\ pc' \in {IF held.exists THEN "drop" ELSE "cleanup", "cleanup"}
       \/ Fails
    /\ held' = Absent
    /\ UNCHANGED <<wl, view, lst, pass, edits, owed>>

\* The legacy target goes once its status is in the new one.
DropLegacy ==
    /\ pc = "drop"
    /\ Delete(Legacy, IF lst.exempt THEN "exempt" ELSE "cleanup")
    /\ UNCHANGED <<wl, view, lst, held, pass, edits, owed>>

RestoreBeforeExemption ==
    /\ pc = "exempt"
    /\ IF ~Found.exists
       THEN Fails /\ UNCHANGED <<wl, owed>>
       ELSE IF Found.snap = None \/ lst.replicas > 0
       THEN Delete(lst.uid, "cleanup") /\ UNCHANGED <<wl, owed>>
       ELSE Restore(Found.snap)
    /\ UNCHANGED <<view, lst, held, pass, edits>>

\* restoreLegacyBeforeExemption, and a workload that never had a target
ExemptWithoutTarget ==
    /\ pc = "ensure"
    /\ ~Found.exists
    /\ lst.exempt
    /\ IF ~FoundLegacy.exists \/ FoundLegacy.uid \notin {NoUID, lst.uid}
       THEN Fails /\ UNCHANGED <<wl, owed>>
       ELSE IF lst.replicas > 0
       THEN Delete(Legacy, "cleanup") /\ UNCHANGED <<wl, owed>>
       ELSE IF Proves(FoundLegacy)
       THEN Restore(FoundLegacy.snap)
       ELSE Fails /\ UNCHANGED <<wl, owed>>
    /\ UNCHANGED <<view, lst, held, pass, edits>>

\* The targets that the list accounts for.
Expected ==
    IF ~lst.exists THEN {}
    ELSE IF lst.replicas = 0 THEN {lst.uid, Legacy}
    ELSE IF lst.exempt THEN {} ELSE {lst.uid}

\* Deletes what the informer lists beyond them; each deletion may fail.
CleanupOrphans ==
    /\ pc = "cleanup"
    /\ \E S \in SUBSET {n \in Names : view[n].exists /\ n \notin Expected} :
          objs' = [n \in Names |-> IF n \in S THEN Absent ELSE objs[n]]
    /\ pc' = "idle"
    /\ lst' = Unlisted
    /\ UNCHANGED <<wl, view, held, pass, edits, owed>>

-----------------------------------------------------------------------------
(* The reconciler.  Its second attempt within the discovery lag, which loses *)
(* a snapshot by itself, is the subject of module TargetReconciler and left  *)
(* out: what is lost here is lost by discovery.                              *)

\* Snapshot and intent are stored before the mutation.  The annotation of the
\* workload is not known to the target.
BeginPowerDown(n) ==
    /\ pass = NoPass
    /\ objs[n].exists
    /\ objs[n].obs = "on"
    /\ wl.exists
    /\ objs[n].uid = wl.uid
    /\ owed = 0
    /\ objs' = [objs EXCEPT ![n].snap = IF @ = None THEN wl.replicas ELSE @]
    /\ pass' = [name |-> n, uid |-> wl.uid, replicas |-> objs'[n].snap]
    /\ UNCHANGED <<wl, view, cycle, edits, owed>>

\* The executor looks at the workload, not at the target, for the UID and the
\* revision of the snapshot; when it refuses, the snapshot is retired.
PowerDown ==
    /\ pass # NoPass
    /\ pass' = NoPass
    /\ \/ /\ wl.exists
          /\ wl.uid = pass.uid
          /\ wl.replicas = pass.replicas
          /\ wl' = [wl EXCEPT !.replicas = 0]
          /\ owed' = wl.replicas
          /\ UNCHANGED objs
       \/ /\ objs' = [objs EXCEPT ![pass.name].snap = None]
          /\ UNCHANGED <<wl, owed>>
    /\ UNCHANGED <<view, cycle, edits>>

PowerUp(n) ==
    /\ pass = NoPass
    /\ objs[n].exists
    /\ objs[n].obs = "off"
    /\ objs[n].snap # None
    /\ wl.exists
    /\ objs[n].uid = wl.uid
    /\ wl' = [wl EXCEPT !.replicas = objs[n].snap]
    /\ owed' = IF objs[n].snap > 0 THEN 0 ELSE owed
    /\ UNCHANGED <<objs, view, cycle, pass, edits>>

RetireSnapshot(n) ==
    /\ pass = NoPass
    /\ objs[n].exists
    /\ objs[n].obs = "on"
    /\ owed = 0
    /\ objs' = [objs EXCEPT ![n].snap = None]
    /\ UNCHANGED <<wl, view, cycle, pass, edits, owed>>

-----------------------------------------------------------------------------
(* Environment *)

SyncView ==
    /\ view # objs
    /\ view' = objs
    /\ UNCHANGED <<wl, objs, cycle, pass, edits, owed>>

\* Operators and GitOps scale the workload or set and remove the annotation.
EditWorkload ==
    /\ wl.exists
    /\ edits < MaxEdits
    /\ edits' = edits + 1
    /\ \E r \in Replicas, e \in BOOLEAN :
          /\ wl' = [wl EXCEPT !.replicas = r, !.exempt = e]
          /\ owed' = IF r > 0 THEN 0 ELSE owed
    /\ UNCHANGED <<objs, view, cycle, pass>>

DeleteWorkload ==
    /\ wl.exists
    /\ wl' = [wl EXCEPT !.exists = FALSE]
    /\ owed' = 0
    /\ UNCHANGED <<objs, view, cycle, pass, edits>>

RecreateWorkload ==
    /\ ~wl.exists
    /\ wl.uid < MaxUIDs
    /\ \E r \in Replicas :
          wl' = [exists |-> TRUE, uid |-> wl.uid + 1, replicas |-> r,
                 exempt |-> FALSE]
    /\ UNCHANGED <<objs, view, cycle, pass, edits, owed>>

\* The controller dies; its successor starts with freshly listed caches.
Crash ==
    /\ pc' = "idle"
    /\ lst' = Unlisted
    /\ held' = Absent
    /\ pass' = NoPass
    /\ view' = objs
    /\ UNCHANGED <<wl, objs, edits, owed>>

\* A cluster that is new to the controller, or that an earlier release managed.
Init ==
    /\ wl \in [exists : {TRUE}, uid : {1}, replicas : Replicas, exempt : {FALSE}]
    /\ \E legacy \in {Absent} \cup
             [exists : {TRUE}, uid : {NoUID, 1}, obs : {"on", "off"},
              snap : Replicas \cup {None}] :
          /\ objs = [n \in Names |-> IF n = Legacy THEN legacy ELSE Absent]
          /\ owed = IF wl.replicas = 0 /\ legacy.snap > 0 THEN legacy.snap ELSE 0
    /\ view = objs
    /\ pc = "idle"
    /\ lst = Unlisted
    /\ held = Absent
    /\ pass = NoPass
    /\ edits = 0
    /\ informed = TRUE

\* The calls that answer from the informer
ReadsView == pc \in {"ensure", "exempt", "cleanup"}

DiscoveryCycle ==
    /\ \/ List \/ ResumeMigration \/ RefuseMigration \/ Observe
       \/ CreateTarget \/ WriteStatus \/ DropLegacy
       \/ RestoreBeforeExemption \/ ExemptWithoutTarget \/ CleanupOrphans
    /\ informed' = ((pc = "idle" \/ informed) /\ (ReadsView => view = objs))

Others ==
    /\ \/ \E n \in Names : BeginPowerDown(n) \/ PowerUp(n) \/ RetireSnapshot(n)
       \/ PowerDown
       \/ SyncView \/ EditWorkload \/ DeleteWorkload \/ RecreateWorkload
       \/ Crash
    /\ informed' = (informed /\ wl' = wl /\ objs' = objs)

Next == DiscoveryCycle \/ Others

Spec == Init /\ [][Next]_vars

-----------------------------------------------------------------------------
(* Properties *)

\* Every variable has its type, and the cycle holds a legacy status only
\* between the creation of a target and the write of its status.
TypeOK ==
    /\ wl \in Workloads
    /\ objs \in [Names -> Targets]
    /\ view \in [Names -> Targets]
    /\ pc \in {"idle", "ensure", "status", "drop", "exempt", "cleanup"}
    /\ lst \in Workloads
    /\ held \in Targets
    /\ held.exists => pc = "status"
    /\ pass \in {NoPass} \cup [name : Names, uid : UIDs, replicas : Replicas]
    /\ owed \in Replicas
    /\ edits \in 0..MaxEdits
    /\ informed \in BOOLEAN

\* Some target holds what is owed to the workload.
Recoverable ==
    owed > 0 =>
        \E n \in {wl.uid, Legacy} :
            /\ objs[n].exists
            /\ objs[n].uid \in {NoUID, wl.uid}
            /\ objs[n].snap = owed

\* A cycle that has read nothing out of date, and that nobody has written past,
\* never destroys the record of what is owed to a workload: not by migrating it,
\* by resuming a migration that a crash interrupted, by opting out or by cleaning
\* up, whatever errors and crashes went before (ensurePowerTarget,
\* restoreBeforeExemption, restoreLegacyBeforeExemption and cleanupOrphans).
LossNeedsStaleEvidence ==
    [][Recoverable /\ ~Recoverable' /\ owed' = owed => ~informed']_vars

\* What the comment on restoreBeforeExemption guarantees: opting out cannot
\* strand a workload at zero replicas by deleting the only snapshot, given that
\* the workload still is as it was listed.
OptOutKeepsSnapshot ==
    [][pc = "exempt" /\ lst = wl /\ Recoverable /\ owed' = owed
          => Recoverable']_vars
=============================================================================
