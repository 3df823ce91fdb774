-------------------------- MODULE DiscoveryProofs ---------------------------
(***************************************************************************)
(* What Discovery guarantees for any replica counts and any number of      *)
(* edits and incarnations of the workload.                                 *)
(*                                                                         *)
(* LossNeedsStaleEvidence speaks of one step, but whether the step is      *)
(* harmless depends on the steps before it: what was listed, what of the   *)
(* legacy status is being carried over, and where it has been put.  Inv    *)
(* says of an informed cycle, position by position, that the list still    *)
(* shows the workload and that what is owed is where it has to be before   *)
(* the legacy target is dropped.                                           *)
(***************************************************************************)
EXTENDS Discovery, TLAPS

\* Target n records what is owed to the workload.
Holds(n) ==
    /\ objs[n].exists
    /\ objs[n].uid \in {NoUID, wl.uid}
    /\ objs[n].snap = owed

\* Something is owed only to a workload that is there and is down.
OwedWhileDown == owed > 0 => wl.exists /\ wl.replicas = 0

\* A target that is named after a UID belongs to it, and a target whose status was
\* never written has no snapshot.
TargetsBound ==
    /\ \A u \in UIDs : objs[u].uid \in {NoUID, u}
    /\ \A n \in Names : objs[n].obs = "" => objs[n].snap = None

\* The informed cycle has listed the workload as it is, up to the replicas that it
\* has itself given back.
ListCurrent ==
    informed /\ pc # "idle"
        => \/ lst = wl
           \/ /\ pc = "cleanup"
              /\ wl.exists /\ lst.exists
              /\ lst.uid = wl.uid
              /\ lst.replicas = 0

\* Between the creation of a target and the write of its status, the informed cycle
\* holds the legacy status and may inherit it; the new target has none yet.
StatusDue ==
    informed /\ pc = "status"
        => /\ held = objs[Legacy]
           /\ held.exists => ~Ambiguous(held)
           /\ objs[lst.uid].uid = lst.uid
           /\ objs[lst.uid].snap = None

\* When the informed cycle drops the legacy target, the new one has its record.
LegacySpare ==
    informed /\ pc = "drop" /\ owed > 0 /\ Holds(Legacy) => Holds(wl.uid)

Inv ==
    /\ TypeOK
    /\ OwedWhileDown
    /\ TargetsBound
    /\ ListCurrent
    /\ StatusDue
    /\ LegacySpare

-----------------------------------------------------------------------------
(* Types *)

\* Names and sentinels are told apart.
LEMMA Constants ==
    /\ UIDs \subseteq Nat \ {0} /\ 1 \in UIDs
    /\ Replicas \subseteq Nat /\ 0 \in Replicas
    /\ None \notin Replicas /\ None \notin Names
    /\ Legacy \in Names /\ UIDs \subseteq Names /\ Legacy \notin UIDs
    /\ NoUID \notin UIDs
    /\ Absent \in Targets /\ Unlisted \in Workloads
BY DiscoveryAssumption
   DEF UIDs, Replicas, None, Names, Legacy, NoUID, Absent, Targets, Unlisted, Workloads

\* A workload or a target with some fields replaced is one again.
LEMMA Records ==
    /\ \A w \in Workloads, r \in Replicas, e \in BOOLEAN :
          /\ [w EXCEPT !.replicas = r] \in Workloads
          /\ [w EXCEPT !.replicas = r, !.exempt = e] \in Workloads
          /\ [w EXCEPT !.exists = e] \in Workloads
          /\ PowerOf(w) \in {"on", "off"}
    /\ \A t \in Targets, o \in {"on", "off"}, s \in Replicas \cup {None} :
          /\ [t EXCEPT !.obs = o] \in Targets
          /\ [t EXCEPT !.snap = s] \in Targets
          /\ [t EXCEPT !.obs = o, !.snap = s] \in Targets
BY DEF Workloads, Targets, PowerOf

\* Init has the types, and the rest of the invariant.
LEMMA Start == Init => Inv
<1> SUFFICES ASSUME Init PROVE Inv
  OBVIOUS
<1> USE Constants
<1>1. PICK legacy \in {Absent} \cup
             [exists : {TRUE}, uid : {NoUID, 1}, obs : {"on", "off"},
              snap : Replicas \cup {None}] :
         /\ objs = [n \in Names |-> IF n = Legacy THEN legacy ELSE Absent]
         /\ owed = IF wl.replicas = 0 /\ legacy.snap > 0 THEN legacy.snap ELSE 0
  BY DEF Init
<1>2. legacy \in Targets
  BY <1>1 DEF Targets, NoUID, Absent
<1>3. owed \in Replicas /\ wl \in Workloads
  <2>1. legacy.snap \in Replicas \/ legacy.snap = -1
    BY <1>2 DEF Targets, None
  <2>2. wl.exists \in BOOLEAN /\ wl \in Workloads
    BY DEF Init, Workloads
  <2> QED
    BY <1>1, <2>1, <2>2
<1>4. TypeOK
  <2>1. objs \in [Names -> Targets]
    BY <1>1, <1>2
  <2>2. held.exists = FALSE
    BY DEF Init, Absent
  <2> QED
    BY <2>1, <2>2, <1>3, DiscoveryAssumption DEF TypeOK, Init
<1>5. OwedWhileDown
  <2>1. wl.exists
    BY DEF Init
  <2> QED
    BY <1>1, <2>1 DEF OwedWhileDown
<1>6. TargetsBound
  BY <1>1, <1>2 DEF TargetsBound, Absent, NoUID, Targets
<1> QED
  BY <1>4, <1>5, <1>6 DEF Inv, ListCurrent, StatusDue, LegacySpare, Init

-----------------------------------------------------------------------------
(* Every step keeps the types *)

\* What a call of the cycle makes of the targets.
LEMMA UpdateStatusType ==
    ASSUME TypeOK, NEW n \in Names, NEW t \in Targets,
           NEW next \in {"drop", "cleanup"}, UpdateStatus(n, t, next)
    PROVE  /\ objs' \in [Names -> Targets]
           /\ pc' \in {"drop", "cleanup"}
BY DEF UpdateStatus, Fails, TypeOK

LEMMA DeleteType ==
    ASSUME TypeOK, NEW n \in Names, NEW next \in {"exempt", "cleanup"},
           Delete(n, next)
    PROVE  /\ objs' \in [Names -> Targets]
           /\ pc' \in {"exempt", "cleanup"}
BY Constants DEF Delete, Fails, TypeOK

LEMMA RestoreType ==
    ASSUME TypeOK, NEW n \in Replicas, Restore(n)
    PROVE  /\ wl' \in Workloads
           /\ owed' \in Replicas
           /\ pc' = "cleanup" /\ objs' = objs
<1>1. [wl EXCEPT !.replicas = n] \in Workloads
  BY Records DEF TypeOK
<1> QED
  BY <1>1, Constants DEF Restore, TypeOK

\* The copies that the cycle looks at are targets.
LEMMA FoundType ==
    ASSUME TypeOK
    PROVE  /\ lst.uid \in UIDs /\ lst.uid \in Names
           /\ lst.replicas \in Replicas
           /\ Found \in Targets /\ FoundLegacy \in Targets
           /\ Found.snap \in Replicas \cup {None}
           /\ FoundLegacy.snap \in Replicas \cup {None}
           /\ PowerOf(lst) \in {"on", "off"}
BY Constants, Records DEF TypeOK, Found, FoundLegacy, Workloads, Targets

\* A step of the discovery cycle keeps the types.
LEMMA CycleTypes ==
    ASSUME TypeOK, DiscoveryCycle
    PROVE  TypeOK'
<1> USE Constants, FoundType
<1>0. informed' \in BOOLEAN
  BY DEF DiscoveryCycle
<1>1. CASE List
  BY <1>0, <1>1 DEF List, TypeOK
<1>2. CASE ResumeMigration
  <2> DEFINE s == IF Inherits(FoundLegacy) THEN FoundLegacy.snap ELSE Found.snap
  <2>1. [Found EXCEPT !.obs = PowerOf(lst),
                      !.snap = IF Inherits(FoundLegacy)
                               THEN FoundLegacy.snap ELSE @] \in Targets
    <3>1. s \in Replicas \cup {None}
      OBVIOUS
    <3>2. [Found EXCEPT !.obs = PowerOf(lst), !.snap = s] \in Targets
      BY <3>1, Records
    <3> QED
      BY <3>2 DEF Targets
  <2>2. objs' \in [Names -> Targets] /\ pc' \in {"drop", "cleanup"}
    BY <1>2, <2>1, UpdateStatusType DEF ResumeMigration
  <2> QED
    BY <1>0, <1>2, <2>2 DEF ResumeMigration, TypeOK
<1>3. CASE RefuseMigration
  BY <1>0, <1>3 DEF RefuseMigration, Fails, TypeOK
<1>4. CASE Observe
  <2>1. [Found EXCEPT !.obs = PowerOf(lst)] \in Targets
    BY Records
  <2>2. objs' \in [Names -> Targets] /\ pc' \in {"drop", "cleanup", "exempt"}
    BY <1>4, <2>1, UpdateStatusType DEF Observe, TypeOK
  <2> QED
    BY <1>0, <1>4, <2>2 DEF Observe, TypeOK
<1>5. CASE CreateTarget
  <2>1. [Absent EXCEPT !.exists = TRUE, !.uid = lst.uid] \in Targets
    BY DEF Absent, Targets
  <2>2. objs' \in [Names -> Targets] /\ pc' \in {"status", "cleanup"}
    BY <1>5, <2>1 DEF CreateTarget, Fails, TypeOK
  <2>3. held' \in Targets /\ (held'.exists => pc' = "status")
    BY <1>5, <2>2 DEF CreateTarget, Absent
  <2> QED
    BY <1>0, <1>5, <2>2, <2>3 DEF CreateTarget, TypeOK
<1>6. CASE WriteStatus
  <2> DEFINE s == IF held.exists /\ Inherits(held) THEN held.snap ELSE objs[lst.uid].snap
  <2>1. s \in Replicas \cup {None}
    BY DEF TypeOK, Targets
  <2>2. objs' \in [Names -> Targets] /\ pc' \in {"drop", "cleanup"}
    <3>1. CASE pc' = "cleanup" /\ objs' = objs
      BY <3>1 DEF TypeOK
    <3>2. CASE objs' = [objs EXCEPT ![lst.uid].obs = PowerOf(lst), ![lst.uid].snap = s]
      <4>1. objs' = [objs EXCEPT ![lst.uid] =
                        [objs[lst.uid] EXCEPT !.obs = PowerOf(lst), !.snap = s]]
        BY <3>2 DEF TypeOK, Targets
      <4>2. [objs[lst.uid] EXCEPT !.obs = PowerOf(lst), !.snap = s] \in Targets
        BY <2>1, Records DEF TypeOK
      <4> QED
        BY <1>6, <4>1, <4>2 DEF WriteStatus, Fails, TypeOK
    <3> QED
      BY <1>6, <3>1, <3>2 DEF WriteStatus, Fails
  <2>3. held' \in Targets /\ ~held'.exists
    BY <1>6 DEF WriteStatus, Absent
  <2> QED
    BY <1>0, <1>6, <2>2, <2>3 DEF WriteStatus, TypeOK
<1>7. CASE DropLegacy
  <2>1. objs' \in [Names -> Targets] /\ pc' \in {"exempt", "cleanup"}
    BY <1>7, DeleteType DEF DropLegacy
  <2> QED
    BY <1>0, <1>7, <2>1 DEF DropLegacy, TypeOK
<1>8. CASE RestoreBeforeExemption
  <2>1. /\ objs' \in [Names -> Targets] /\ pc' \in {"exempt", "cleanup"}
        /\ wl' \in Workloads /\ owed' \in Replicas
    <3>1. CASE Fails /\ UNCHANGED <<wl, owed>>
      BY <3>1 DEF Fails, TypeOK
    <3>2. CASE Delete(lst.uid, "cleanup") /\ UNCHANGED <<wl, owed>>
      BY <3>2, DeleteType DEF TypeOK
    <3>3. CASE Found.snap # None /\ Restore(Found.snap)
      BY <3>3, RestoreType DEF TypeOK
    <3> QED
      BY <1>8, <3>1, <3>2, <3>3 DEF RestoreBeforeExemption
  <2> QED
    BY <1>0, <1>8, <2>1 DEF RestoreBeforeExemption, TypeOK
<1>9. CASE ExemptWithoutTarget
  <2>1. /\ objs' \in [Names -> Targets] /\ pc' \in {"exempt", "cleanup"}
        /\ wl' \in Workloads /\ owed' \in Replicas
    <3>1. CASE Fails /\ UNCHANGED <<wl, owed>>
      BY <3>1 DEF Fails, TypeOK
    <3>2. CASE Delete(Legacy, "cleanup") /\ UNCHANGED <<wl, owed>>
      BY <3>2, DeleteType DEF TypeOK
    <3>3. CASE Proves(FoundLegacy) /\ Restore(FoundLegacy.snap)
      <4>1. FoundLegacy.snap \in Replicas
        BY <3>3 DEF Proves, None
      <4> QED
        BY <3>3, <4>1, RestoreType DEF TypeOK
    <3> QED
      BY <1>9, <3>1, <3>2, <3>3 DEF ExemptWithoutTarget
  <2> QED
    BY <1>0, <1>9, <2>1 DEF ExemptWithoutTarget, TypeOK
<1>10. CASE CleanupOrphans
  <2>1. objs' \in [Names -> Targets]
    BY <1>10 DEF CleanupOrphans, TypeOK
  <2> QED
    BY <1>0, <1>10, <2>1 DEF CleanupOrphans, TypeOK
<1> QED
  BY <1>1, <1>2, <1>3, <1>4, <1>5, <1>6, <1>7, <1>8, <1>9, <1>10 DEF DiscoveryCycle

\* A step of anybody else keeps the types.
LEMMA OtherTypes ==
    ASSUME TypeOK, Others
    PROVE  TypeOK'
<1> USE Constants
<1>0. informed' \in BOOLEAN
  BY DEF Others
<1>1. ASSUME NEW n \in Names, BeginPowerDown(n) PROVE TypeOK'
  <2> DEFINE s == IF objs[n].snap = None THEN wl.replicas ELSE objs[n].snap
  <2>1. s \in Replicas /\ wl.uid \in UIDs
    BY DEF TypeOK, Targets, Workloads
  <2>2. objs' = [objs EXCEPT ![n] = [objs[n] EXCEPT !.snap = s]]
    BY <1>1 DEF BeginPowerDown, TypeOK, Targets
  <2>3. objs' \in [Names -> Targets] /\ objs'[n].snap = s
    <3> HIDE DEF s
    <3>1. objs[n] \in Targets
      BY DEF TypeOK
    <3>2. [objs[n] EXCEPT !.snap = s] \in Targets
      BY <2>1, <3>1, Records
    <3>3. [objs[n] EXCEPT !.snap = s].snap = s
      BY <3>1 DEF Targets
    <3> QED
      BY <2>2, <3>2, <3>3 DEF TypeOK
  <2>4. pass' \in [name : Names, uid : UIDs, replicas : Replicas]
    BY <1>1, <2>1, <2>3 DEF BeginPowerDown
  <2> QED
    BY <1>0, <1>1, <2>3, <2>4 DEF BeginPowerDown, TypeOK, cycle
<1>2. CASE PowerDown
  <2>1. pass.name \in Names
    BY <1>2 DEF PowerDown, TypeOK
  <2>2. wl' \in Workloads /\ owed' \in Replicas
    <3>1. [wl EXCEPT !.replicas = 0] \in Workloads /\ wl.replicas \in Replicas
      BY Records DEF TypeOK, Workloads
    <3> QED
      BY <1>2, <3>1 DEF PowerDown, TypeOK
  <2>3. objs' \in [Names -> Targets]
    <3>1. CASE objs' = objs
      BY <3>1 DEF TypeOK
    <3>2. CASE objs' = [objs EXCEPT ![pass.name].snap = None]
      <4>1. [objs[pass.name] EXCEPT !.snap = None] \in Targets
        BY <2>1, Records DEF TypeOK
      <4> QED
        BY <2>1, <3>2, <4>1 DEF TypeOK
    <3> QED
      BY <1>2, <3>1, <3>2 DEF PowerDown
  <2> QED
    BY <1>0, <1>2, <2>2, <2>3 DEF PowerDown, TypeOK, cycle
<1>3. ASSUME NEW n \in Names, PowerUp(n) PROVE TypeOK'
  <2>1. objs[n].snap \in Replicas
    BY <1>3 DEF PowerUp, TypeOK, Targets
  <2>2. wl' \in Workloads /\ owed' \in Replicas
    BY <1>3, <2>1, Records DEF PowerUp, TypeOK
  <2> QED
    BY <1>0, <1>3, <2>2 DEF PowerUp, TypeOK, cycle
<1>4. ASSUME NEW n \in Names, RetireSnapshot(n) PROVE TypeOK'
  <2>1. [objs[n] EXCEPT !.snap = None] \in Targets
    BY Records DEF TypeOK
  <2>2. objs' \in [Names -> Targets]
    BY <1>4, <2>1 DEF RetireSnapshot, TypeOK
  <2> QED
    BY <1>0, <1>4, <2>2 DEF RetireSnapshot, TypeOK, cycle
<1>5. CASE SyncView
  BY <1>0, <1>5 DEF SyncView, TypeOK, cycle
<1>6. CASE EditWorkload
  <2>1. PICK r \in Replicas, e \in BOOLEAN :
           /\ wl' = [wl EXCEPT !.replicas = r, !.exempt = e]
           /\ owed' = IF r > 0 THEN 0 ELSE owed
    BY <1>6 DEF EditWorkload
  <2>2. wl' \in Workloads /\ owed' \in Replicas
    BY <2>1, Records DEF TypeOK
  <2>3. edits' \in 0..MaxEdits
    BY <1>6, DiscoveryAssumption DEF EditWorkload, TypeOK
  <2> QED
    BY <1>0, <1>6, <2>2, <2>3 DEF EditWorkload, TypeOK, cycle
<1>7. CASE DeleteWorkload
  <2>1. wl' \in Workloads
    BY <1>7, Records DEF DeleteWorkload, TypeOK
  <2> QED
    BY <1>0, <1>7, <2>1 DEF DeleteWorkload, TypeOK, cycle
<1>8. CASE RecreateWorkload
  <2>1. wl' \in Workloads
    BY <1>8, DiscoveryAssumption DEF RecreateWorkload, TypeOK, Workloads, UIDs
  <2> QED
    BY <1>0, <1>8, <2>1 DEF RecreateWorkload, TypeOK, cycle
<1>9. CASE Crash
  <2>1. ~Absent.exists
    BY DEF Absent
  <2> QED
    BY <1>0, <1>9, <2>1 DEF Crash, TypeOK
<1> QED
  BY <1>1, <1>2, <1>3, <1>4, <1>5, <1>6, <1>7, <1>8, <1>9 DEF Others

-----------------------------------------------------------------------------
(* Every step of the cycle keeps the invariant, and an informed one the record *)

Rest == OwedWhileDown /\ TargetsBound /\ ListCurrent /\ StatusDue /\ LegacySpare

\* What a step is to show, beyond the types.
Kept ==
    /\ Rest'
    /\ Recoverable /\ owed' = owed /\ informed' => Recoverable'

Informs == informed' = ((pc = "idle" \/ informed) /\ (ReadsView => view = objs))

\* The record of what is owed is in one of two targets.
LEMMA RecordIsHeld == Recoverable <=> (owed > 0 => Holds(wl.uid) \/ Holds(Legacy))
BY DEF Recoverable, Holds

\* A step that changes neither targets nor workload leaves the record alone.
LEMMA Untouched ==
    ASSUME Inv, UNCHANGED <<wl, objs, owed>>
    PROVE  OwedWhileDown' /\ TargetsBound' /\ (Recoverable => Recoverable')
BY DEF Inv, OwedWhileDown, TargetsBound, Recoverable

\* DiscoverAll
LEMMA ListKeeps ==
    ASSUME Inv, List, Informs PROVE Kept
<1>1. OwedWhileDown' /\ TargetsBound' /\ (Recoverable => Recoverable')
  BY Untouched DEF List
<1>2. ListCurrent' /\ StatusDue' /\ LegacySpare'
  BY DEF List, ListCurrent, StatusDue, LegacySpare
<1> QED
  BY <1>1, <1>2 DEF Kept, Rest

\* A call that fails, or one that only decides what to do next.
LEMMA FailureKeeps ==
    ASSUME Inv, Informs, pc \notin {"idle", "cleanup"}, pc' \in {"exempt", "cleanup"},
           UNCHANGED <<wl, objs, owed, lst>>
    PROVE  Kept
<1>1. OwedWhileDown' /\ TargetsBound' /\ (Recoverable => Recoverable')
  BY Untouched
<1>2. ListCurrent'
  BY DEF Inv, ListCurrent, Informs
<1>3. StatusDue' /\ LegacySpare'
  BY DEF StatusDue, LegacySpare
<1> QED
  BY <1>1, <1>2, <1>3 DEF Kept, Rest

\* A write to the target of the listed workload: its status is written, and its
\* record is as before or taken from the legacy target.
LEMMA WriteKeeps ==
    ASSUME Inv, Informs, pc \in {"ensure", "status"}, pc' \in {"drop", "cleanup"},
           UNCHANGED <<wl, owed, lst>>,
           \A n \in Names : n # lst.uid => objs'[n] = objs[n],
           objs'[lst.uid].uid = objs[lst.uid].uid,
           objs'[lst.uid].exists = objs[lst.uid].exists,
           objs[lst.uid].exists,
           objs'[lst.uid].obs \in {"on", "off"},
           informed' /\ owed > 0 /\ Holds(lst.uid)
              => objs'[lst.uid].snap = objs[lst.uid].snap,
           informed' /\ owed > 0 /\ pc' = "drop" /\ Holds(Legacy)
              => /\ objs'[lst.uid].snap = objs[Legacy].snap
                 /\ objs[lst.uid].uid \in {NoUID, lst.uid}
    PROVE  Kept
<1>1. lst.uid \in UIDs /\ lst.uid # Legacy /\ TypeOK
  BY FoundType, Constants DEF Inv
<1>2. OwedWhileDown'
  BY DEF Inv, OwedWhileDown
<1>3. TargetsBound'
  BY <1>1, Constants DEF Inv, TargetsBound
<1>4. informed' => lst = wl
  BY DEF Inv, ListCurrent, Informs
<1>5. ListCurrent'
  BY <1>4 DEF ListCurrent
<1>6. StatusDue'
  BY DEF StatusDue
<1>7. LegacySpare'
  BY <1>1, <1>4, Constants DEF LegacySpare, Holds
<1>8. Recoverable /\ informed' => Recoverable'
  <2> SUFFICES ASSUME Recoverable, informed', owed > 0
               PROVE  Recoverable'
    BY DEF Recoverable
  <2>1. CASE Holds(wl.uid)
    BY <1>1, <1>4, <2>1, Constants DEF Holds, Recoverable
  <2>2. CASE Holds(Legacy)
    BY <1>1, <1>4, <2>2, Constants DEF Holds, Recoverable
  <2> QED
    BY <2>1, <2>2, RecordIsHeld
<1> QED
  BY <1>2, <1>3, <1>5, <1>6, <1>7, <1>8 DEF Kept, Rest

LEMMA ResumeMigrationKeeps ==
    ASSUME Inv, ResumeMigration, Informs PROVE Kept
<1> DEFINE t == [Found EXCEPT !.obs = PowerOf(lst),
                              !.snap = IF Inherits(FoundLegacy)
                                       THEN FoundLegacy.snap ELSE @]
<1>0. TypeOK /\ lst.uid \in UIDs /\ lst.uid \in Names /\ lst.uid # Legacy
  BY FoundType, Constants DEF Inv
<1>1. CASE Fails
  BY <1>1, FailureKeeps DEF ResumeMigration, Fails
<1>2. CASE /\ view[lst.uid] = objs[lst.uid]
           /\ objs' = [objs EXCEPT ![lst.uid] = t]
           /\ pc' \in {"drop", "cleanup"}
  <2>1. /\ objs'[lst.uid] = t
        /\ \A n \in Names : n # lst.uid => objs'[n] = objs[n]
    BY <1>0, <1>2 DEF TypeOK
  <2>2. /\ t.uid = Found.uid /\ t.exists = Found.exists /\ t.obs = PowerOf(lst)
        /\ t.snap = IF Inherits(FoundLegacy) THEN FoundLegacy.snap ELSE Found.snap
    BY <1>0, FoundType DEF Targets
  <2>3. Found = objs[lst.uid] /\ Found.exists /\ Found.snap = None
    BY <1>0, <1>2 DEF Inv, TargetsBound, ResumeMigration, Interrupted, Found
  <2>4. ASSUME informed', owed > 0
        PROVE  lst = wl /\ lst.replicas = 0 /\ FoundLegacy = objs[Legacy]
    BY <2>4 DEF Inv, ListCurrent, OwedWhileDown, Informs, ResumeMigration, ReadsView,
                FoundLegacy
  <2>5. ASSUME informed', owed > 0, Holds(Legacy)
        PROVE  t.snap = objs[Legacy].snap
    <3>1. objs[Legacy].snap # None
      BY <1>0, <2>5, Constants DEF Holds, TypeOK
    <3>2. Inherits(FoundLegacy)
      BY <2>4, <2>5, <3>1 DEF ResumeMigration, Ambiguous
    <3> QED
      BY <2>2, <2>4, <2>5, <3>2
  <2>6. ~(owed > 0 /\ Holds(lst.uid))
    BY <1>0, <2>3, Constants DEF Holds, TypeOK
  <2>7. objs[lst.uid].uid \in {NoUID, lst.uid}
    BY <1>0 DEF Inv, TargetsBound
  <2>8. PowerOf(lst) \in {"on", "off"}
    BY <1>0, FoundType
  <2>9. pc = "ensure" /\ UNCHANGED <<wl, owed, lst>>
    BY DEF ResumeMigration
  <2> HIDE DEF t
  <2> QED
    BY <1>2, <2>1, <2>2, <2>3, <2>5, <2>6, <2>7, <2>8, <2>9, WriteKeeps
<1> QED
  BY <1>1, <1>2 DEF ResumeMigration, UpdateStatus

LEMMA RefuseMigrationKeeps ==
    ASSUME Inv, RefuseMigration, Informs PROVE Kept
BY FailureKeeps DEF RefuseMigration, Fails

\* updateObservedState
LEMMA ObserveKeeps ==
    ASSUME Inv, Observe, Informs PROVE Kept
<1> DEFINE t == [Found EXCEPT !.obs = PowerOf(lst)]
<1>0. TypeOK /\ lst.uid \in UIDs /\ lst.uid \in Names /\ lst.uid # Legacy
  BY FoundType, Constants DEF Inv
<1>1. CASE Fails \/ (pc' = "exempt" /\ UNCHANGED objs)
  BY <1>1, FailureKeeps DEF Observe, Fails
<1>2. CASE /\ view[lst.uid] = objs[lst.uid]
           /\ objs' = [objs EXCEPT ![lst.uid] = t]
           /\ pc' = "cleanup"
  <2>1. /\ objs'[lst.uid] = t
        /\ \A n \in Names : n # lst.uid => objs'[n] = objs[n]
    BY <1>0, <1>2 DEF TypeOK
  <2>2. /\ t.uid = Found.uid /\ t.exists = Found.exists /\ t.obs = PowerOf(lst)
        /\ t.snap = Found.snap
    BY <1>0, FoundType DEF Targets
  <2>3. Found = objs[lst.uid] /\ Found.exists
    BY <1>2 DEF Observe, Found
  <2>4. PowerOf(lst) \in {"on", "off"}
    BY <1>0, FoundType
  <2>5. pc = "ensure" /\ UNCHANGED <<wl, owed, lst>>
    BY DEF Observe
  <2> HIDE DEF t
  <2> QED
    BY <1>2, <2>1, <2>2, <2>3, <2>4, <2>5, WriteKeeps
<1> QED
  BY <1>1, <1>2 DEF Observe, UpdateStatus

\* newPowerTarget: the object
LEMMA CreateTargetKeeps ==
    ASSUME Inv, CreateTarget, Informs PROVE Kept
<1> DEFINE t == [Absent EXCEPT !.exists = TRUE, !.uid = lst.uid]
<1>0. TypeOK /\ lst.uid \in UIDs /\ lst.uid \in Names /\ lst.uid # Legacy
  BY FoundType, Constants DEF Inv
<1>1. CASE Fails
  BY <1>1, FailureKeeps DEF CreateTarget, Fails
<1>2. CASE /\ ~objs[lst.uid].exists
           /\ objs' = [objs EXCEPT ![lst.uid] = t]
           /\ pc' \in {"status", "cleanup"}
  <2>1. /\ objs'[lst.uid] = t
        /\ \A n \in Names : n # lst.uid => objs'[n] = objs[n]
    BY <1>0, <1>2 DEF TypeOK
  <2>2. t.uid = lst.uid /\ t.exists /\ t.obs = "" /\ t.snap = None
    BY DEF Absent
  <2> HIDE DEF t
  <2>3. OwedWhileDown' /\ TargetsBound'
    BY <1>0, <2>1, <2>2, Constants DEF Inv, OwedWhileDown, TargetsBound, CreateTarget
  <2>4. /\ informed' => lst = wl
        /\ informed' => FoundLegacy = objs[Legacy]
    BY DEF Inv, ListCurrent, Informs, CreateTarget, ReadsView, FoundLegacy
  <2>5. ListCurrent' /\ LegacySpare'
    BY <1>2, <2>4 DEF ListCurrent, LegacySpare, CreateTarget
  <2>6. StatusDue'
    <3> SUFFICES ASSUME informed', pc' = "status" PROVE StatusDue'
      BY DEF StatusDue
    <3>1. held' = objs[Legacy] /\ objs'[Legacy] = objs[Legacy]
      BY <1>0, <2>1, <2>4, Constants DEF CreateTarget
    <3>2. held'.exists => ~Ambiguous(held)'
      BY <2>4, <3>1 DEF CreateTarget, Ambiguous, Inherits, Proves
    <3> QED
      BY <2>1, <2>2, <3>1, <3>2 DEF StatusDue, CreateTarget
  <2>7. Recoverable /\ informed' => Recoverable'
    BY <1>0, <1>2, <2>1, <2>4, Constants DEF Recoverable, CreateTarget
  <2> QED
    BY <2>3, <2>5, <2>6, <2>7 DEF Kept, Rest
<1> QED
  BY <1>1, <1>2 DEF CreateTarget

\* newPowerTarget: the status
LEMMA WriteStatusKeeps ==
    ASSUME Inv, WriteStatus, Informs PROVE Kept
<1> DEFINE s == IF held.exists /\ Inherits(held) THEN held.snap ELSE objs[lst.uid].snap
           t == [objs[lst.uid] EXCEPT !.obs = PowerOf(lst), !.snap = s]
<1>0. TypeOK /\ lst.uid \in UIDs /\ lst.uid \in Names /\ lst.uid # Legacy
  BY FoundType, Constants DEF Inv
<1>1. CASE Fails
  BY <1>1, FailureKeeps DEF WriteStatus, Fails
<1>2. CASE /\ objs[lst.uid].exists
           /\ objs' = [objs EXCEPT ![lst.uid].obs = PowerOf(lst), ![lst.uid].snap = s]
           /\ pc' \in {IF held.exists THEN "drop" ELSE "cleanup", "cleanup"}
  <2>1. objs[lst.uid] \in Targets
    BY <1>0 DEF TypeOK
  <2>2. /\ objs'[lst.uid] = t
        /\ \A n \in Names : n # lst.uid => objs'[n] = objs[n]
    BY <1>0, <1>2, <2>1 DEF TypeOK, Targets
  <2>3. /\ t.uid = objs[lst.uid].uid /\ t.exists = objs[lst.uid].exists
        /\ t.obs = PowerOf(lst) /\ t.snap = s
    BY <2>1 DEF Targets
  <2>4. informed' => informed /\ lst = wl
    BY DEF Inv, ListCurrent, Informs, WriteStatus
  <2>5. ~(informed' /\ owed > 0 /\ Holds(lst.uid))
    BY <1>0, <2>4, Constants DEF Inv, StatusDue, Holds, WriteStatus, TypeOK
  <2>6. ASSUME informed', owed > 0, pc' = "drop", Holds(Legacy)
        PROVE  /\ s = objs[Legacy].snap
               /\ objs[lst.uid].uid \in {NoUID, lst.uid}
    <3>1. /\ held = objs[Legacy] /\ held.exists /\ ~Ambiguous(held)
          /\ objs[lst.uid].uid = lst.uid
      BY <1>2, <2>4, <2>6 DEF Inv, StatusDue, WriteStatus
    <3>2. held.snap # None /\ lst.replicas = 0
      BY <1>0, <2>4, <2>6, <3>1, Constants DEF Inv, OwedWhileDown, Holds, TypeOK
    <3> QED
      BY <3>1, <3>2 DEF Ambiguous
  <2>7. PowerOf(lst) \in {"on", "off"}
    BY <1>0, FoundType
  <2>8. pc = "status" /\ UNCHANGED <<wl, owed, lst>>
    BY DEF WriteStatus
  <2>9. pc' \in {"drop", "cleanup"}
    BY <1>2
  <2> HIDE DEF t, s
  <2> QED
    BY <1>2, <2>2, <2>3, <2>5, <2>6, <2>7, <2>8, <2>9, WriteKeeps
<1> QED
  BY <1>1, <1>2 DEF WriteStatus

\* Target n is deleted, and what is owed does not need it.
LEMMA DeletionKeeps ==
    ASSUME Inv, Informs, pc \in {"ensure", "drop", "exempt"},
           pc' \in {"exempt", "cleanup"}, UNCHANGED <<wl, owed, lst>>,
           NEW n \in Names, objs' = [objs EXCEPT ![n] = Absent],
           informed' /\ Recoverable /\ owed > 0
              => \E m \in {wl.uid, Legacy} : m # n /\ Holds(m)
    PROVE  Kept
<1>0. TypeOK /\ wl.uid \in Names /\ Legacy \in Names
  BY Constants DEF Inv, TypeOK, Workloads
<1>1. /\ objs'[n] = Absent
      /\ \A m \in Names : m # n => objs'[m] = objs[m]
  BY <1>0 DEF TypeOK
<1>2. OwedWhileDown' /\ TargetsBound'
  <2>1. OwedWhileDown'
    BY DEF Inv, OwedWhileDown
  <2>2. Absent.uid = NoUID /\ Absent.snap = None
    BY DEF Absent
  <2>3. TargetsBound'
    BY <1>1, <2>2, Constants DEF Inv, TargetsBound
  <2> QED
    BY <2>1, <2>3
<1>3. ListCurrent'
  BY DEF Inv, ListCurrent, Informs
<1>4. StatusDue' /\ LegacySpare'
  BY DEF StatusDue, LegacySpare
<1>5. Recoverable /\ informed' => Recoverable'
  BY <1>0, <1>1 DEF Recoverable, Holds
<1> QED
  BY <1>2, <1>3, <1>4, <1>5 DEF Kept, Rest

LEMMA DropLegacyKeeps ==
    ASSUME Inv, DropLegacy, Informs PROVE Kept
<1>0. Legacy \in Names /\ wl.uid # Legacy
  BY Constants DEF Inv, TypeOK, Workloads
<1>1. CASE Fails
  BY <1>1, FailureKeeps DEF DropLegacy, Fails
<1>2. CASE objs' = [objs EXCEPT ![Legacy] = Absent] /\ pc' \in {"exempt", "cleanup"}
  <2>1. ASSUME informed', Recoverable, owed > 0
        PROVE  Holds(wl.uid)
    BY <2>1, RecordIsHeld DEF Inv, LegacySpare, Informs, DropLegacy
  <2>2. pc = "drop" /\ UNCHANGED <<wl, owed, lst>>
    BY DEF DropLegacy
  <2> QED
    BY <1>0, <1>2, <2>1, <2>2, DeletionKeeps
<1> QED
  BY <1>1, <1>2 DEF DropLegacy, Delete

\* What was listed as down is given replicas.
LEMMA RestoreKeeps ==
    ASSUME Inv, Informs, pc \in {"ensure", "exempt"}, lst.replicas = 0,
           NEW n \in Replicas, Restore(n), UNCHANGED lst
    PROVE  Kept
<1>0. TypeOK /\ wl \in Workloads /\ owed \in Nat /\ n \in Nat
  BY Constants DEF Inv, TypeOK
<1>1. pc' = "cleanup" /\ objs' = objs
  BY DEF Restore
<1>2. CASE UNCHANGED <<wl, owed>>
  BY <1>1, <1>2, FailureKeeps
<1>3. CASE /\ wl.exists /\ wl.uid = lst.uid
           /\ wl' = [wl EXCEPT !.replicas = n]
           /\ owed' = IF n > 0 THEN 0 ELSE owed
  <2>1. wl'.exists = wl.exists /\ wl'.uid = wl.uid /\ wl'.replicas = n
    BY <1>0, <1>3 DEF Workloads
  <2>2. OwedWhileDown' /\ TargetsBound'
    <3>1. OwedWhileDown'
      BY <1>0, <1>3, <2>1 DEF OwedWhileDown
    <3>2. TargetsBound'
      BY <1>1 DEF Inv, TargetsBound
    <3> QED
      BY <3>1, <3>2
  <2>3. informed' => lst = wl
    BY DEF Inv, ListCurrent, Informs
  <2>4. ListCurrent'
    BY <1>1, <1>3, <2>1, <2>3 DEF ListCurrent
  <2>5. StatusDue' /\ LegacySpare'
    BY <1>1 DEF StatusDue, LegacySpare
  <2>6. Recoverable /\ owed' = owed => Recoverable'
    BY <1>1, <2>1 DEF Recoverable
  <2> QED
    BY <2>2, <2>4, <2>5, <2>6 DEF Kept, Rest
<1> QED
  BY <1>2, <1>3 DEF Restore

LEMMA RestoreBeforeExemptionKeeps ==
    ASSUME Inv, RestoreBeforeExemption, Informs PROVE Kept
<1>0. /\ TypeOK /\ lst.uid \in Names /\ lst.uid # Legacy
      /\ lst.replicas \in Nat /\ Found.snap \in Replicas \cup {None}
  BY FoundType, Constants DEF Inv
<1>1. CASE Fails /\ UNCHANGED <<wl, owed>>
  BY <1>1, FailureKeeps DEF RestoreBeforeExemption, Fails
<1>2. CASE /\ Found.snap = None \/ lst.replicas > 0
           /\ objs' = [objs EXCEPT ![lst.uid] = Absent] /\ pc' = "cleanup"
           /\ UNCHANGED <<wl, owed>>
  <2>1. ASSUME informed', Recoverable, owed > 0
        PROVE  lst.uid # Legacy /\ Holds(Legacy)
    <3>1. lst = wl /\ Found = objs[lst.uid] /\ lst.replicas = 0
      BY <2>1 DEF Inv, ListCurrent, OwedWhileDown, Informs, RestoreBeforeExemption,
                  ReadsView, Found
    <3>2. ~Holds(wl.uid)
      BY <1>0, <1>2, <2>1, <3>1, Constants DEF Holds, TypeOK
    <3> QED
      BY <1>0, <2>1, <3>2, RecordIsHeld
  <2>2. pc = "exempt" /\ UNCHANGED <<wl, owed, lst>>
    BY <1>2 DEF RestoreBeforeExemption
  <2> QED
    BY <1>0, <1>2, <2>1, <2>2, DeletionKeeps
<1>3. CASE Found.snap # None /\ ~(lst.replicas > 0) /\ Restore(Found.snap)
  BY <1>0, <1>3, RestoreKeeps DEF RestoreBeforeExemption
<1> QED
  BY <1>1, <1>2, <1>3 DEF RestoreBeforeExemption, Delete, Fails

LEMMA ExemptWithoutTargetKeeps ==
    ASSUME Inv, ExemptWithoutTarget, Informs PROVE Kept
<1>0. /\ TypeOK /\ Legacy \in Names
      /\ lst.replicas \in Nat /\ FoundLegacy.snap \in Replicas \cup {None}
  BY FoundType, Constants DEF Inv
<1>1. CASE Fails /\ UNCHANGED <<wl, owed>>
  BY <1>1, FailureKeeps DEF ExemptWithoutTarget, Fails
<1>2. CASE /\ lst.replicas > 0
           /\ objs' = [objs EXCEPT ![Legacy] = Absent] /\ pc' = "cleanup"
           /\ UNCHANGED <<wl, owed>>
  <2>1. ~(informed' /\ owed > 0)
    <3>1. informed' => lst = wl
      BY DEF Inv, ListCurrent, Informs, ExemptWithoutTarget
    <3> QED
      BY <1>2, <3>1 DEF Inv, OwedWhileDown
  <2>2. pc = "ensure" /\ UNCHANGED <<wl, owed, lst>>
    BY <1>2 DEF ExemptWithoutTarget
  <2> QED
    BY <1>0, <1>2, <2>1, <2>2, DeletionKeeps
<1>3. CASE ~(lst.replicas > 0) /\ Proves(FoundLegacy) /\ Restore(FoundLegacy.snap)
  <2>1. FoundLegacy.snap \in Replicas
    BY <1>0, <1>3 DEF Proves, None
  <2> QED
    BY <1>0, <1>3, <2>1, RestoreKeeps DEF ExemptWithoutTarget
<1> QED
  BY <1>1, <1>2, <1>3 DEF ExemptWithoutTarget, Delete, Fails

\* The two targets that may hold a record are expected as long as one is needed.
LEMMA CleanupOrphansKeeps ==
    ASSUME Inv, CleanupOrphans, Informs PROVE Kept
<1>0. TypeOK /\ wl.uid \in UIDs /\ wl.uid \in Names /\ Legacy \in Names
  BY Constants DEF Inv, TypeOK, Workloads
<1>1. PICK S \in SUBSET {n \in Names : view[n].exists /\ n \notin Expected} :
         objs' = [n \in Names |-> IF n \in S THEN Absent ELSE objs[n]]
  BY DEF CleanupOrphans
<1>2. OwedWhileDown' /\ TargetsBound'
  BY <1>0, <1>1, Constants
     DEF Inv, OwedWhileDown, TargetsBound, CleanupOrphans, Absent
<1>3. ListCurrent' /\ StatusDue' /\ LegacySpare'
  BY DEF CleanupOrphans, ListCurrent, StatusDue, LegacySpare
<1>4. ASSUME informed', owed > 0
      PROVE  {wl.uid, Legacy} \subseteq Expected
  BY <1>4 DEF Inv, ListCurrent, OwedWhileDown, Informs, CleanupOrphans, Expected
<1>5. Recoverable /\ informed' => Recoverable'
  BY <1>0, <1>1, <1>4 DEF Recoverable, CleanupOrphans
<1> QED
  BY <1>2, <1>3, <1>5 DEF Kept, Rest

\* Every step of the cycle.
LEMMA CycleKeeps ==
    ASSUME Inv, DiscoveryCycle PROVE Inv' /\ Kept
<1>1. TypeOK'
  BY CycleTypes DEF Inv
<1>2. Informs
  BY DEF DiscoveryCycle, Informs
<1>3. Kept
  BY <1>2, ListKeeps, ResumeMigrationKeeps, RefuseMigrationKeeps, ObserveKeeps,
     CreateTargetKeeps, WriteStatusKeeps, DropLegacyKeeps,
     RestoreBeforeExemptionKeeps, ExemptWithoutTargetKeeps, CleanupOrphansKeeps
     DEF DiscoveryCycle
<1> QED
  BY <1>1, <1>3 DEF Inv, Kept, Rest

-----------------------------------------------------------------------------
(* The steps of the others *)

\* They bind no target to another UID and write no first status, and what they
\* write without touching workload and targets does not add to what is owed.
LEMMA OthersWrite ==
    ASSUME TypeOK, OwedWhileDown, Others
    PROVE  /\ \A n \in Names :
                 /\ objs'[n].uid = objs[n].uid
                 /\ objs'[n].obs = objs[n].obs
                 /\ objs[n].obs = "" /\ objs[n].snap = None => objs'[n].snap = None
           /\ OwedWhileDown'
           /\ pc' = "idle" \/ UNCHANGED cycle
           /\ wl' = wl => owed' \in {0, owed}
<1> USE Constants
<1>0. /\ wl \in Workloads /\ wl.replicas \in Nat /\ owed \in Nat
      /\ \A n \in Names : objs[n] \in Targets
  BY DEF TypeOK, Workloads
<1>1. ASSUME NEW n \in Names, BeginPowerDown(n)
      PROVE  /\ \A m \in Names :
                   /\ objs'[m].uid = objs[m].uid /\ objs'[m].obs = objs[m].obs
                   /\ objs[m].obs = "" => objs'[m].snap = objs[m].snap
             /\ UNCHANGED <<wl, owed, cycle>>
  BY <1>0, <1>1 DEF BeginPowerDown, TypeOK, Targets
<1>2. ASSUME PowerDown
      PROVE  /\ \A m \in Names :
                   /\ objs'[m].uid = objs[m].uid /\ objs'[m].obs = objs[m].obs
                   /\ objs'[m].snap \in {objs[m].snap, None}
             /\ UNCHANGED cycle
             /\ \/ UNCHANGED <<wl, owed>>
                \/ /\ wl.exists /\ wl' = [wl EXCEPT !.replicas = 0]
                   /\ owed' = wl.replicas
  <2>1. pass.name \in Names
    BY <1>2 DEF PowerDown, TypeOK
  <2>2. CASE objs' = objs
    BY <1>2, <2>2 DEF PowerDown
  <2>3. CASE objs' = [objs EXCEPT ![pass.name].snap = None] /\ UNCHANGED <<wl, owed>>
    <3>1. \A m \in Names :
             /\ objs'[m].uid = objs[m].uid /\ objs'[m].obs = objs[m].obs
             /\ objs'[m].snap \in {objs[m].snap, None}
      BY <1>0, <2>1, <2>3 DEF TypeOK, Targets
    <3> QED
      BY <1>2, <2>3, <3>1 DEF PowerDown
  <2> QED
    BY <1>2, <2>2, <2>3 DEF PowerDown
<1>3. ASSUME NEW n \in Names, PowerUp(n)
      PROVE  /\ UNCHANGED <<objs, cycle>>
             /\ wl.exists /\ objs[n].snap \in Nat
             /\ wl' = [wl EXCEPT !.replicas = objs[n].snap]
             /\ owed' = IF objs[n].snap > 0 THEN 0 ELSE owed
  <2>1. objs[n].snap \in Replicas
    BY <1>0, <1>3 DEF PowerUp, Targets
  <2> QED
    BY <1>3, <2>1 DEF PowerUp
<1>4. ASSUME NEW n \in Names, RetireSnapshot(n)
      PROVE  /\ \A m \in Names :
                   /\ objs'[m].uid = objs[m].uid /\ objs'[m].obs = objs[m].obs
                   /\ objs'[m].snap \in {objs[m].snap, None}
             /\ UNCHANGED <<wl, owed, cycle>>
  BY <1>0, <1>4 DEF RetireSnapshot, TypeOK, Targets
<1>5. ASSUME EditWorkload
      PROVE  /\ UNCHANGED <<objs, cycle>>
             /\ wl.exists
             /\ \E r \in Nat, e \in BOOLEAN :
                   /\ wl' = [wl EXCEPT !.replicas = r, !.exempt = e]
                   /\ owed' = IF r > 0 THEN 0 ELSE owed
  BY <1>5 DEF EditWorkload
<1>6. CASE \E n \in Names : BeginPowerDown(n) \/ RetireSnapshot(n)
  BY <1>1, <1>4, <1>6 DEF OwedWhileDown
<1>7. CASE PowerDown
  <2>1. [wl EXCEPT !.replicas = 0].exists = wl.exists
        /\ [wl EXCEPT !.replicas = 0].replicas = 0
    BY <1>0 DEF Workloads
  <2>2. OwedWhileDown'
    BY <1>2, <1>7, <2>1 DEF OwedWhileDown
  <2>3. wl' = wl => owed' \in {0, owed}
    BY <1>2, <1>7, <2>1
  <2> QED
    BY <1>2, <1>7, <2>2, <2>3
<1>8. CASE \E n \in Names : PowerUp(n)
  <2>1. PICK n \in Names : PowerUp(n)
    BY <1>8
  <2>2. /\ [wl EXCEPT !.replicas = objs[n].snap].exists = wl.exists
        /\ [wl EXCEPT !.replicas = objs[n].snap].replicas = objs[n].snap
    BY <1>0 DEF Workloads
  <2>3. OwedWhileDown'
    <3>1. CASE objs[n].snap > 0
      <4>1. owed' = 0
        BY <1>3, <2>1, <3>1
      <4> QED
        BY <4>1 DEF OwedWhileDown
    <3>2. CASE objs[n].snap = 0
      <4>1. wl'.exists
        BY <1>3, <2>1, <2>2
      <4>2. wl'.replicas = 0
        BY <1>3, <2>1, <2>2, <3>2
      <4> QED
        BY <4>1, <4>2 DEF OwedWhileDown
    <3> QED
      BY <1>3, <2>1, <3>1, <3>2
  <2> QED
    BY <1>3, <2>1, <2>3
<1>9. CASE EditWorkload
  <2>1. PICK r \in Nat, e \in BOOLEAN :
           /\ wl' = [wl EXCEPT !.replicas = r, !.exempt = e]
           /\ owed' = IF r > 0 THEN 0 ELSE owed
    BY <1>5, <1>9
  <2>2. wl'.exists = wl.exists /\ wl'.replicas = r
    BY <1>0, <2>1 DEF Workloads
  <2>3. OwedWhileDown'
    <3>1. CASE r > 0
      BY <2>1, <3>1 DEF OwedWhileDown
    <3>2. CASE r = 0
      <4>1. wl'.exists
        BY <1>5, <1>9, <2>2
      <4> QED
        BY <2>2, <3>2, <4>1 DEF OwedWhileDown
    <3> QED
      BY <3>1, <3>2
  <2> QED
    BY <1>5, <1>9, <2>1, <2>3
<1>10. CASE SyncView
  BY <1>10 DEF SyncView, OwedWhileDown
<1>11. CASE DeleteWorkload
  <2>1. owed' = 0 /\ UNCHANGED <<objs, cycle>>
    BY <1>11 DEF DeleteWorkload
  <2>2. OwedWhileDown'
    BY <2>1 DEF OwedWhileDown
  <2> QED
    BY <2>1, <2>2
<1>12. CASE RecreateWorkload
  BY <1>0, <1>12 DEF RecreateWorkload, OwedWhileDown
<1>13. CASE Crash
  BY <1>13 DEF Crash, OwedWhileDown
<1> QED
  BY <1>6, <1>7, <1>8, <1>9, <1>10, <1>11, <1>12, <1>13 DEF Others

\* Every step of the others.
LEMMA OthersKeep ==
    ASSUME Inv, Others PROVE Inv' /\ Kept
<1>1. TypeOK'
  BY OtherTypes DEF Inv
<1>2. /\ TypeOK /\ OwedWhileDown /\ TargetsBound
      /\ UIDs \subseteq Names
  BY Constants DEF Inv
<1>3. OwedWhileDown' /\ (pc' = "idle" \/ UNCHANGED cycle)
  BY <1>2, OthersWrite
<1>4. TargetsBound'
  BY <1>2, OthersWrite DEF TargetsBound
<1>5. informed' => informed /\ wl' = wl /\ objs' = objs
  BY DEF Others
<1>6. informed' => owed' \in {0, owed}
  BY <1>2, <1>5, OthersWrite
<1>7. ListCurrent' /\ StatusDue'
  BY <1>3, <1>5 DEF Inv, ListCurrent, StatusDue, Ambiguous, Inherits, Proves, cycle
<1>8. LegacySpare'
  BY <1>3, <1>5, <1>6 DEF Inv, LegacySpare, Holds, cycle
<1>9. Recoverable /\ owed' = owed /\ informed' => Recoverable'
  BY <1>5 DEF Recoverable
<1> QED
  BY <1>1, <1>3, <1>4, <1>7, <1>8, <1>9 DEF Inv, Kept, Rest

-----------------------------------------------------------------------------
(* Theorems *)

LEMMA Step == Inv /\ [Next]_vars => Inv'
<1>1. ASSUME Inv, Next PROVE Inv'
  BY <1>1, CycleKeeps, OthersKeep DEF Next
<1>2. ASSUME Inv, UNCHANGED vars PROVE Inv'
  BY <1>2 DEF vars, cycle, Inv, TypeOK, OwedWhileDown, TargetsBound, ListCurrent,
              StatusDue, LegacySpare, Holds, Ambiguous, Inherits, Proves
<1> QED
  BY <1>1, <1>2

\* The invariant that the theorems rest on holds in every state of a discovery
\* loop that shares its targets with a reconciler.
THEOREM Invariance == Spec => []Inv
<1>1. Init => Inv
  BY Start
<1>2. Inv /\ [Next]_vars => Inv'
  BY Step
<1> QED
  BY <1>1, <1>2, PTL DEF Spec

\* The types, and that a legacy status is held only between the creation of a
\* target and the write of its status (newPowerTarget).
THEOREM TypeCorrect == Spec => []TypeOK
<1>1. Inv => TypeOK
  BY DEF Inv
<1> QED
  BY <1>1, Invariance, PTL

\* A cycle that has read nothing out of date, and that nobody has written past,
\* keeps the record of what is owed to a workload, for any number of UIDs, edits,
\* failures and crashes (ensurePowerTarget, restoreBeforeExemption, cleanupOrphans).
THEOREM LossNeedsStaleEvidenceHolds == Spec => LossNeedsStaleEvidence
<1>1. Inv /\ [Next]_vars
         => [Recoverable /\ ~Recoverable' /\ owed' = owed => ~informed']_vars
  <2>1. ASSUME Inv, Next
        PROVE  Recoverable /\ ~Recoverable' /\ owed' = owed => ~informed'
    BY <2>1, CycleKeeps, OthersKeep DEF Next, Kept
  <2> QED
    BY <2>1
<1> QED
  BY <1>1, Invariance, PTL DEF Spec, LossNeedsStaleEvidence
=============================================================================
