--------------------------- MODULE ApprovalProofs ---------------------------
(***************************************************************************)
(* What Approval guarantees for any number of reviewers, specs, failures   *)
(* and foreign edits.                                                      *)
(*                                                                         *)
(* Neither property is inductive: ApprovedTruthful says nothing of the     *)
(* handler that is about to finalise, AtMostOnce nothing of the revision   *)
(* that makes a second write impossible.  Inv adds both, and that the row  *)
(* belongs to the handler as long as that is running.                      *)
(*                                                                         *)
(* On top of Inv, Found says that the workflow's own write is there to be  *)
(* found by the retry, which is what ReversalNeedsCause lacks.  The last   *)
(* part maps every step to one of the abstract ChangeRequest or to none.   *)
(***************************************************************************)
EXTENDS Approval, TLAPS

Objects == [exists : BOOLEAN, spec : Specs, rv : Nat]
Rows ==
    [status : {"absent", "pending", "approving", "rejecting", "approved", "rejected"},
     owner : Users \cup {NoUser}, leased : BOOLEAN]

Types ==
    /\ obj \in Objects /\ view \in Objects
    /\ change \in [action : Actions, spec : Specs, rv : Nat]
    /\ row \in Rows
    /\ decision \in {"approve", "reject"}
    /\ mutations \in Nat
    /\ attained \in BOOLEAN /\ assumed \in BOOLEAN
    /\ reviewers \subseteq Users
    /\ owner \in Users \cup {NoUser}

\* The handler that is running holds the row.
RowHeld == pc # "idle" => row.status = Interim[decision]

\* Whoever finds the resource itself as requested is right that it has been so
\* since the request was filed; the informer's copy may be older than the request.
SeenIsAttained == row.status # "absent" /\ Satisfies(obj) => attained

\* What is settled when the handler has come so far.
Progress ==
    /\ pc \in {"audit", "finalize"} /\ decision = "approve" => attained \/ assumed
    /\ pc = "finalize" => audit = Final[decision]

\* The revision of the request is spent by the first write.
RevisionSpent ==
    /\ view.rv <= obj.rv
    /\ row.status = "absent" => mutations = 0
    /\ row.status # "absent" /\ change.action # "create"
          => mutations = 0 \/ (mutations = 1 /\ obj.rv > change.rv)

Inv ==
    /\ Types
    /\ RowHeld
    /\ SeenIsAttained
    /\ Progress
    /\ RevisionSpent
    /\ ApprovedTruthful

\* The interim and final statuses are told apart by the decision.
LEMMA Statuses ==
    /\ DOMAIN Interim = {"approve", "reject"}
    /\ Interim["approve"] = "approving" /\ Interim["reject"] = "rejecting"
    /\ Final["approve"] = "approved" /\ Final["reject"] = "rejected"
  BY DEF Interim, Final

\* The first states satisfy the invariant.
LEMMA InvInit == Init => Inv
<1> SUFFICES ASSUME Init PROVE Inv
  OBVIOUS
<1>1. obj \in Objects /\ view \in Objects
  BY DEF Init, Objects
<1>2. change \in [action : Actions, spec : Specs, rv : Nat] /\ row \in Rows
  BY DEF Init, Actions, Rows
<1>3. Types
  BY <1>1, <1>2 DEF Init, Types
<1> QED
  BY <1>1, <1>3 DEF Init, Inv, Objects, RowHeld, SeenIsAttained, Progress,
     RevisionSpent, ApprovedTruthful

\* Filing a request starts its history.
LEMMA InvCreate == ASSUME Inv, CreatePending PROVE Inv'
<1>1. PICK a \in Actions, s \in Specs :
          /\ \E r \in IF a = "create" THEN {0} ELSE 1..obj.rv :
                change' = [action |-> a, spec |-> s, rv |-> r]
          /\ attained' = IF a = "delete" THEN ~obj.exists
                         ELSE obj.exists /\ obj.spec = s
  BY DEF CreatePending
<1>r. PICK r \in Nat : change' = [action |-> a, spec |-> s, rv |-> r]
  BY <1>1 DEF Inv, Types, Objects
<1>2. /\ row.status = "absent"
      /\ row' = [status |-> "pending", owner |-> NoUser, leased |-> FALSE]
      /\ UNCHANGED <<obj, view, audit, reviewers, pc, decision, owner, mutations,
                     assumed>>
  BY DEF CreatePending, handler, reads
<1>3. pc = "idle"
  BY <1>2, Statuses DEF Inv, RowHeld, Types
<1>4. Types'
  BY <1>1, <1>r, <1>2 DEF Inv, Types, Objects, Rows
<1>5. SeenIsAttained'
  BY <1>1, <1>r, <1>2 DEF SeenIsAttained, Satisfies
<1>6. RevisionSpent'
  BY <1>r, <1>2 DEF Inv, RevisionSpent
<1> QED
  BY <1>2, <1>3, <1>4, <1>5, <1>6 DEF Inv, RowHeld, Progress, ApprovedTruthful

\* Taking a decision up leases the row to the handler.
LEMMA InvBegin ==
    ASSUME Inv, NEW u \in Users, NEW d \in DOMAIN Interim, BeginDecision(u, d)
    PROVE  Inv'
<1>1. /\ pc = "idle" /\ row.status \in {"pending", Interim[d]}
      /\ row' = Leased(u, d)
      /\ \/ pc' \in {"read", "audit"} /\ decision' = d /\ owner' = row'.owner
            /\ (d = "approve" => pc' = "read")
         \/ UNCHANGED <<pc, decision, owner>>
      /\ UNCHANGED <<obj, view, mutations, attained, assumed, change, audit,
                     reviewers>>
  BY DEF BeginDecision, resource, handler, reads
<1>2. d \in {"approve", "reject"} /\ row.status # "absent"
  BY <1>1, Statuses
<1>3. row' \in Rows /\ row'.status = Interim[d]
  BY <1>1, <1>2, Statuses DEF Leased, Rows, Inv, Types
<1>4. Types'
  BY <1>1, <1>2, <1>3 DEF Inv, Types, Rows
<1>5. RowHeld' /\ Progress'
  BY <1>1, <1>2, <1>3 DEF Inv, RowHeld, Progress
<1>6. SeenIsAttained' /\ RevisionSpent'
  BY <1>1, <1>2, <1>3, Statuses DEF Inv, SeenIsAttained, RevisionSpent, Satisfies
<1> QED
  BY <1>2, <1>3, <1>4, <1>5, <1>6, Statuses DEF Inv, ApprovedTruthful

\* The handler's last writes to the row.
LEMMA InvEnd == ASSUME Inv, CancelDecision \/ FinalizeDecision PROVE Inv'
<1>1. /\ pc \in {"cancel", "finalize"} /\ pc' = "idle"
      /\ UNCHANGED <<decision, owner, obj, view, mutations, attained, assumed, change,
                     audit, reviewers>>
  BY DEF CancelDecision, FinalizeDecision, Go, resource, reads
<1>2. row.status # "absent" /\ decision \in {"approve", "reject"}
  BY <1>1, Statuses DEF Inv, RowHeld, Types
<1>3. row' \in Rows /\ row'.status # "absent"
  <2>1. row \in Rows /\ Final[decision] \in {"approved", "rejected"}
    BY <1>2, Statuses DEF Inv, Types
  <2>2. CASE row' = row
    BY <1>2, <2>1, <2>2
  <2>3. CASE row' = [status |-> "pending", owner |-> NoUser, leased |-> FALSE]
    BY <2>3 DEF Rows
  <2>4. CASE row' = [row EXCEPT !.status = Final[decision]]
    BY <2>1, <2>4 DEF Rows
  <2> QED
    BY <2>2, <2>3, <2>4 DEF CancelDecision, FinalizeDecision
<1>4. ApprovedTruthful'
  <2>1. CASE FinalizeDecision /\ row'.status = "approved" /\ row' # row
    <3>1. pc = "finalize" /\ decision = "approve"
      BY <1>2, <2>1, Statuses DEF FinalizeDecision, Inv, Types, Rows
    <3> QED
      BY <1>1, <3>1, Statuses DEF Inv, Progress, ApprovedTruthful
  <2>2. CASE row'.status # "approved" \/ row' = row
    BY <1>1, <2>2 DEF Inv, ApprovedTruthful
  <2> QED
    BY <2>1, <2>2 DEF CancelDecision, FinalizeDecision
<1>5. Types' /\ RowHeld' /\ Progress'
  BY <1>1, <1>3 DEF Inv, Types, RowHeld, Progress
<1>6. SeenIsAttained' /\ RevisionSpent'
  BY <1>1, <1>2, <1>3 DEF Inv, SeenIsAttained, RevisionSpent, Satisfies
<1> QED
  BY <1>4, <1>5, <1>6 DEF Inv

\* The calls in between leave the row alone.
LEMMA InvHandler ==
    ASSUME Inv, ReadResource \/ VerifyResource \/ RecordDecision
    PROVE  Inv'
<1>1. /\ pc # "idle"
      /\ UNCHANGED <<row, decision, owner, obj, view, mutations, attained, change,
                     reviewers>>
  BY DEF ReadResource, VerifyResource, RecordDecision, AuditFails, Go, resource
<1>2. row.status = Interim[decision] /\ decision \in {"approve", "reject"}
  BY <1>1 DEF Inv, RowHeld, Types
<1>3. /\ row.status \notin {"absent", "approved"}
  BY <1>2, Statuses
<1>4. assumed' \in BOOLEAN
  BY DEF ReadResource, VerifyResource, RecordDecision, Reading, reads, Inv, Types
<1>5. Progress'
  <2>1. CASE (ReadResource \/ VerifyResource) /\ pc' = "audit"
    <3>1. Satisfies(view) /\ (view = obj \/ assumed')
      BY <2>1 DEF ReadResource, VerifyResource, Go, Reading
    <3>2. attained' \/ assumed'
      BY <1>1, <1>3, <3>1 DEF Inv, SeenIsAttained
    <3> QED
      BY <2>1, <3>2 DEF Progress
  <2>2. CASE (ReadResource \/ VerifyResource) /\ pc' # "audit"
    <3>1. pc' # "finalize"
      BY <2>2 DEF ReadResource, VerifyResource, Go
    <3> QED
      BY <2>2, <3>1 DEF Progress
  <2>3. CASE RecordDecision
    BY <1>1, <2>3 DEF RecordDecision, AuditFails, Go, Inv, Progress, reads
  <2> QED
    BY <2>1, <2>2, <2>3
<1> QED
  BY <1>1, <1>2, <1>3, <1>4, <1>5
  DEF Inv, Types, RowHeld, SeenIsAttained, RevisionSpent, Satisfies, ApprovedTruthful

\* The write to Kubernetes, which spends the revision.
LEMMA InvWrite == ASSUME Inv, WriteResource PROVE Inv'
<1>1. /\ pc = "write" /\ pc' \in {"audit", "verify"}
      /\ UNCHANGED <<row, decision, owner, view, change, audit, reviewers, assumed>>
      /\ pc' = "audit" => Written
      /\ Written \/ UNCHANGED <<obj, mutations, attained>>
  BY DEF WriteResource, Go, reads
<1>2. row.status = Interim[decision] /\ decision \in {"approve", "reject"}
  BY <1>1 DEF Inv, RowHeld, Types
<1>3. row.status \notin {"absent", "approved"}
  BY <1>2, Statuses
<1>4. CASE Written
  <2>1. /\ obj' = [exists |-> change.action # "delete", rv |-> obj.rv + 1,
                   spec |-> IF change.action = "delete" THEN obj.spec ELSE change.spec]
        /\ mutations' = mutations + 1 /\ attained' = TRUE
    BY <1>4 DEF Written
  <2>2. Types'
    BY <1>1, <2>1 DEF Inv, Types, Objects
  <2>3. RevisionSpent'
    <3>1. CASE change.action # "create"
      <4>1. obj.rv = change.rv
        BY <1>4, <3>1 DEF Written, Writable
      <4> QED
        BY <1>1, <1>3, <2>1, <3>1, <4>1 DEF Inv, Types, Objects, RevisionSpent
    <3>2. CASE change.action = "create"
      BY <1>1, <1>3, <2>1, <3>2 DEF Inv, Types, Objects, RevisionSpent
    <3> QED
      BY <3>1, <3>2
  <2> QED
    BY <1>1, <1>2, <1>3, <2>1, <2>2, <2>3
    DEF Inv, RowHeld, SeenIsAttained, Progress, ApprovedTruthful
<1>5. CASE UNCHANGED <<obj, mutations, attained>> /\ pc' = "verify"
  BY <1>1, <1>2, <1>3, <1>5
  DEF Inv, Types, RowHeld, SeenIsAttained, Progress, RevisionSpent, Satisfies,
      ApprovedTruthful
<1> QED
  BY <1>1, <1>4, <1>5

\* What happens around the handler.
LEMMA InvEnvironment ==
    ASSUME Inv, ExpireLease \/ SyncView \/ EditResource \/ RevokeReviewer \/ Crash
    PROVE  Inv'
<1> USE DEF resource, handler, reads
<1>1. CASE ExpireLease
  <2>1. row' \in Rows /\ row'.status = row.status
    BY <1>1 DEF ExpireLease, Inv, Types, Rows
  <2> QED
    BY <1>1, <2>1 DEF ExpireLease, Inv, Types, RowHeld, SeenIsAttained, Progress,
       RevisionSpent, Satisfies, ApprovedTruthful
<1>2. CASE SyncView \/ Crash
  <2>1. /\ view' = obj /\ (pc' = pc \/ pc' = "idle")
        /\ UNCHANGED <<obj, mutations, attained, assumed, change, row, audit,
                       reviewers, decision, owner>>
    BY <1>2 DEF SyncView, Crash, Go
  <2> QED
    BY <2>1 DEF Inv, Types, Objects, RowHeld, SeenIsAttained, Progress, RevisionSpent,
       Satisfies, ApprovedTruthful
<1>3. CASE EditResource
  <2>1. PICK e \in BOOLEAN, s \in Specs : obj' = [exists |-> e, spec |-> s, rv |-> obj.rv + 1]
    BY <1>3 DEF EditResource
  <2>2. /\ attained' = (attained \/ (row.status # "absent" /\ Satisfies(obj')))
        /\ UNCHANGED <<view, mutations, assumed, change, row, audit, reviewers, pc,
                       decision, owner>>
    BY <1>3 DEF EditResource
  <2>3. Types'
    BY <2>1, <2>2 DEF Inv, Types, Objects
  <2>4. SeenIsAttained'
    BY <2>2 DEF Inv, SeenIsAttained, Satisfies
  <2>5. RevisionSpent'
    BY <2>1, <2>2 DEF Inv, Types, Objects, RevisionSpent
  <2> QED
    BY <2>2, <2>3, <2>4, <2>5 DEF Inv, RowHeld, Progress, ApprovedTruthful
<1>4. CASE RevokeReviewer
  BY <1>4 DEF RevokeReviewer, Inv, Types, RowHeld, SeenIsAttained, Progress,
     RevisionSpent, Satisfies, ApprovedTruthful
<1> QED
  BY <1>1, <1>2, <1>3, <1>4

\* The invariant is inductive.
LEMMA InvNext == Inv /\ [Next]_vars => Inv'
<1> SUFFICES ASSUME Inv, [Next]_vars PROVE Inv'
  OBVIOUS
<1>1. CASE Next
  BY <1>1, InvCreate, InvBegin, InvEnd, InvHandler, InvWrite, InvEnvironment DEF Next
<1>2. CASE UNCHANGED vars
  BY <1>2 DEF vars, Inv, Types, RowHeld, SeenIsAttained, Progress, RevisionSpent,
     Satisfies, ApprovedTruthful
<1> QED
  BY <1>1, <1>2

\* An approved request is audited as approved and has been in effect since it was
\* filed, whatever failed, died or was retried on the way, unless a handler took a
\* copy out of date for proof of it.
THEOREM ApprovedTruthfulHolds == Spec => []ApprovedTruthful
<1>1. Inv => ApprovedTruthful
  BY DEF Inv
<1> QED
  BY <1>1, InvInit, InvNext, PTL DEF Spec

\* No number of retries, withdrawals and stale reads makes the workflow carry an
\* update or a deletion out twice.
THEOREM AtMostOnceHolds == Spec => []AtMostOnce
<1>1. Inv => AtMostOnce
  BY DEF Inv, RevisionSpent, AtMostOnce
<1> QED
  BY <1>1, InvInit, InvNext, PTL DEF Spec

\* An open decision never changes hands.
THEOREM OwnerKeptHolds == Spec => OwnerKept
<1>1. ASSUME Inv, Next, row.status \in {"approving", "rejecting"},
             row'.status # "pending"
      PROVE  row'.owner = row.owner
  <2>1. CASE \E u \in Users, d \in DOMAIN Interim : BeginDecision(u, d)
    BY <1>1, <2>1 DEF BeginDecision, Leased
  <2>2. CASE CreatePending \/ CancelDecision
    <3>1. CreatePending => row.status = "absent"
      BY DEF CreatePending
    <3>2. CancelDecision => row'.status = "pending" \/ row' = row
      BY DEF CancelDecision
    <3> QED
      BY <1>1, <2>2, <3>1, <3>2
  <2>3. CASE FinalizeDecision \/ ExpireLease
    BY <1>1, <2>3 DEF FinalizeDecision, ExpireLease, Inv, Types, Rows
  <2>4. CASE UNCHANGED row
    BY <2>4
  <2> QED
    BY <1>1, <2>1, <2>2, <2>3, <2>4 DEF Next, ReadResource, WriteResource,
       VerifyResource, RecordDecision, SyncView, EditResource, RevokeReviewer, Crash
<1>2. Inv /\ [Next]_vars
      => [/\ row.status \in {"approving", "rejecting"}
          /\ row'.status # "pending"
          => row'.owner = row.owner]_vars
  BY <1>1
<1> QED
  BY <1>2, InvInit, InvNext, PTL DEF Spec, OwnerKept

-----------------------------------------------------------------------------
(* A retry finds its own write *)

\* Only an approval looks at the resource.
ApprovalApplies == pc \in {"read", "write", "verify"} => decision = "approve"

\* A request that is not filed has no reviewer.
Unowned == row.status = "absent" => row.owner = NoUser

\* Nothing has happened that would excuse a reversal.
Untroubled == ~misled /\ edits = MaxEdits

\* The workflow's own write is there to be found, and the approval is open or
\* final: no handler is about to write again or to withdraw it.
OwnWriteFound ==
    Untroubled /\ mutations > 0 =>
        /\ Satisfies(obj)
        /\ row.status \in {"approving", "approved"}
        /\ pc \notin {"write", "cancel"}

Found ==
    /\ edits \in 0..MaxEdits
    /\ misled \in BOOLEAN
    /\ ApprovalApplies
    /\ Unowned
    /\ OwnWriteFound

\* The first states satisfy it.
LEMMA FoundInit == Init => Found
<1> SUFFICES ASSUME Init PROVE Found
  OBVIOUS
<1>1. edits \in 0..MaxEdits /\ ~(mutations > 0)
  BY ApprovalAssumption DEF Init
<1>2. pc = "idle" /\ row.owner = NoUser /\ misled = FALSE
  BY DEF Init
<1> QED
  BY <1>1, <1>2 DEF Found, ApprovalApplies, Unowned, OwnWriteFound

\* The steps that write the row.
LEMMA FoundRow ==
    ASSUME Inv, Found,
           \/ CreatePending \/ CancelDecision \/ FinalizeDecision \/ ExpireLease
           \/ \E u \in Users, d \in DOMAIN Interim : BeginDecision(u, d)
    PROVE  Found'
<1> USE DEF resource, handler, reads
<1>1. CASE CreatePending
  <2>1. mutations' = 0 /\ pc' = pc /\ decision' = decision /\ edits' = edits
        /\ misled' = misled /\ row'.owner = NoUser
    BY <1>1 DEF CreatePending, Inv, RevisionSpent
  <2> QED
    BY <2>1 DEF Found, ApprovalApplies, Unowned, OwnWriteFound
<1>2. CASE CancelDecision
  <2>1. /\ pc = "cancel" /\ pc' = "idle" /\ row'.status # "absent"
        /\ UNCHANGED <<mutations, edits, misled>>
    BY <1>2, Statuses DEF CancelDecision, Go, Inv, RowHeld, Types
  <2>2. Untroubled' => mutations' = 0
    BY <2>1 DEF Found, OwnWriteFound, Untroubled, Inv, Types
  <2> QED
    BY <2>1, <2>2 DEF Found, ApprovalApplies, Unowned, OwnWriteFound
<1>3. CASE FinalizeDecision
  <2>1. /\ pc = "finalize" /\ pc' = "idle"
        /\ row'.status \in {row.status, Final[decision]}
        /\ row.status = Interim[decision] /\ decision \in {"approve", "reject"}
        /\ UNCHANGED <<mutations, edits, misled, change, obj>>
    BY <1>3 DEF FinalizeDecision, Go, Inv, RowHeld, Types, Rows
  <2>2. row.status = "approving" => row'.status \in {"approving", "approved"}
    BY <2>1, Statuses
  <2>3. row.status # "approved" /\ row'.status # "absent"
    BY <2>1, Statuses
  <2> QED
    BY <2>1, <2>2, <2>3
    DEF Found, ApprovalApplies, Unowned, OwnWriteFound, Untroubled, Satisfies
<1>4. CASE ExpireLease
  <2>1. row'.status = row.status /\ row'.owner = row.owner
    BY <1>4 DEF ExpireLease, Inv, Types, Rows
  <2> QED
    BY <1>4, <2>1 DEF ExpireLease, Found, ApprovalApplies, Unowned, OwnWriteFound,
       Untroubled, Satisfies
<1>5. CASE \E u \in Users, d \in DOMAIN Interim : BeginDecision(u, d)
  <2>1. PICK u \in Users, d \in {"approve", "reject"} : BeginDecision(u, d)
    BY <1>5, Statuses
  <2>2. /\ pc = "idle" /\ row.status \in {"pending", Interim[d]}
        /\ row'.status = Interim[d]
        /\ \/ pc' \in {"read", "audit"} /\ decision' = d /\ (d = "reject" => pc' = "audit")
           \/ pc' = "idle" /\ decision' = decision
        /\ UNCHANGED <<mutations, edits, misled, change, obj>>
    BY <2>1 DEF BeginDecision, Leased
  <2>3. row.status = "approving" => row'.status = "approving"
    BY <2>2, Statuses
  <2>4. row.status # "approved" /\ row'.status # "absent"
    BY <2>2, Statuses
  <2> QED
    BY <2>2, <2>3, <2>4
    DEF Found, ApprovalApplies, Unowned, OwnWriteFound, Untroubled, Satisfies
<1> QED
  BY <1>1, <1>2, <1>3, <1>4, <1>5

\* Reading the resource: a copy that is up to date shows the workflow's write.
LEMMA FoundRead ==
    ASSUME Inv, Found, ReadResource \/ VerifyResource \/ RecordDecision
    PROVE  Found'
<1>1. /\ pc # "idle"
      /\ UNCHANGED <<row, decision, obj, mutations, change, edits>>
  BY DEF ReadResource, VerifyResource, RecordDecision, AuditFails, Go, resource
<1>2. row.status = Interim[decision] /\ decision \in {"approve", "reject"}
  BY <1>1 DEF Inv, RowHeld, Types
<1>3. CASE ReadResource \/ VerifyResource
  <2>1. /\ pc' \in {"audit", "cancel", "write", "idle"}
        /\ pc \in {"read", "verify"}
        /\ misled' \in BOOLEAN
        /\ Untroubled' => Untroubled /\ (Satisfies(obj) => pc' = "audit")
    BY <1>1, <1>3
    DEF ReadResource, VerifyResource, Reading, Go, Untroubled, Found, Satisfies
  <2>2. decision = "approve"
    BY <2>1 DEF Found, ApprovalApplies
  <2> QED
    BY <1>1, <2>1, <2>2
    DEF Found, ApprovalApplies, Unowned, OwnWriteFound, Satisfies
<1>4. CASE RecordDecision
  <2>1. /\ pc' \in {"finalize", "idle", "cancel"}
        /\ pc' = "cancel" => decision # "approve"
        /\ misled' = misled
    BY <1>4 DEF RecordDecision, AuditFails, Go, reads
  <2>2. row.status \in {"approving", "approved"} => decision = "approve"
    BY <1>2, Statuses
  <2> QED
    BY <1>1, <2>1, <2>2
    DEF Found, ApprovalApplies, Unowned, OwnWriteFound, Untroubled, Satisfies
<1> QED
  BY <1>3, <1>4

\* Writing it, and what others do.
LEMMA FoundRest ==
    ASSUME Inv, Found,
           WriteResource \/ SyncView \/ EditResource \/ RevokeReviewer \/ Crash
    PROVE  Found'
<1> USE DEF resource, handler, reads
<1>1. CASE WriteResource
  <2>1. /\ pc = "write" /\ pc' \in {"audit", "verify"}
        /\ UNCHANGED <<row, decision, change, edits, misled>>
        /\ \/ Written
           \/ UNCHANGED <<obj, mutations>>
    BY <1>1 DEF WriteResource, Go
  <2>2. decision = "approve" /\ row.status = "approving"
    BY <2>1, Statuses DEF Found, ApprovalApplies, Inv, RowHeld
  <2>3. Written => Satisfies(obj)'
    <3>1. Written => /\ obj'.exists = (change.action # "delete")
                     /\ change.action # "delete" => obj'.spec = change.spec
      BY DEF Written
    <3> QED
      BY <2>1, <3>1 DEF Satisfies
  <2> QED
    BY <2>1, <2>2, <2>3
    DEF Found, ApprovalApplies, Unowned, OwnWriteFound, Untroubled, Satisfies
<1>2. CASE EditResource
  <2>1. edits' \in 0..MaxEdits /\ edits' # MaxEdits
    BY <1>2, ApprovalAssumption DEF EditResource, Found
  <2> QED
    BY <1>2, <2>1 DEF EditResource, Found, ApprovalApplies, Unowned, OwnWriteFound,
       Untroubled
<1>3. CASE SyncView \/ RevokeReviewer \/ Crash
  BY <1>3 DEF SyncView, RevokeReviewer, Crash, Go, Found, ApprovalApplies, Unowned,
     OwnWriteFound, Untroubled, Satisfies
<1> QED
  BY <1>1, <1>2, <1>3

\* It is preserved by every step.
LEMMA FoundNext == Inv /\ Found /\ [Next]_vars => Found'
<1> SUFFICES ASSUME Inv, Found, [Next]_vars PROVE Found'
  OBVIOUS
<1>1. CASE Next
  BY <1>1, FoundRow, FoundRead, FoundRest DEF Next
<1>2. CASE UNCHANGED vars
  BY <1>2 DEF vars, Found, ApprovalApplies, Unowned, OwnWriteFound, Untroubled, Satisfies
<1> QED
  BY <1>1, <1>2

\* An approval that was applied is reversed only after a read that failed or was
\* out of date, or after somebody else's change: the retry finds its own write.
THEOREM ReversalNeedsCauseHolds == Spec => []ReversalNeedsCause
<1>1. Inv /\ Found => ReversalNeedsCause
  <2>1. edits \in 0..MaxEdits => edits = MaxEdits \/ edits < MaxEdits
    BY ApprovalAssumption
  <2> QED
    BY <2>1 DEF Found, OwnWriteFound, Untroubled, ReversalNeedsCause
<1> QED
  BY <1>1, InvInit, InvNext, FoundInit, FoundNext, PTL DEF Spec

-----------------------------------------------------------------------------
(* Repetition *)

\* What the workflow may have created: one object for each change of others, and
\* the one that is there.
Created == (MaxEdits - edits) + (IF obj.exists THEN 1 ELSE 0)

\* A creation needs that there is no object, so the writes do not run ahead of
\* the removals.
CreationsPaid ==
    row.status # "absent" /\ change.action = "create" => mutations <= Created

\* The write of a creation fills the place that a removal has left.
LEMMA PaidWrite ==
    ASSUME Inv, Found, CreationsPaid, WriteResource PROVE CreationsPaid'
<1>1. /\ pc = "write" /\ UNCHANGED <<row, change, edits>>
      /\ Written \/ UNCHANGED <<obj, mutations>>
  BY DEF WriteResource
<1>2. row.status # "absent" /\ edits \in Int /\ mutations \in Int /\ MaxEdits \in Int
  BY <1>1, Statuses, ApprovalAssumption DEF Inv, RowHeld, Types, Found
<1>3. CASE Written /\ change.action = "create"
  <2>1. ~obj.exists /\ obj'.exists /\ mutations' = mutations + 1
    BY <1>3 DEF Written, Writable
  <2>2. mutations <= MaxEdits - edits
    BY <1>2, <1>3, <2>1 DEF CreationsPaid, Created
  <2> QED
    BY <1>1, <1>2, <2>1, <2>2 DEF CreationsPaid, Created
<1>4. CASE UNCHANGED <<obj, mutations>>
  BY <1>1, <1>4 DEF CreationsPaid, Created
<1>5. CASE change.action # "create"
  BY <1>1, <1>5 DEF CreationsPaid
<1> QED
  BY <1>1, <1>3, <1>4, <1>5

\* A change of others takes away one object at most.
LEMMA PaidEdit ==
    ASSUME Inv, Found, CreationsPaid, EditResource PROVE CreationsPaid'
<1>1. /\ edits' = edits - 1
      /\ UNCHANGED <<row, change, mutations>>
  BY DEF EditResource
<1>2. edits \in Int /\ mutations \in Int /\ MaxEdits \in Int
  BY ApprovalAssumption DEF Inv, Types, Found
<1>3. Created <= Created' /\ Created \in Int /\ Created' \in Int
  BY <1>1, <1>2 DEF Created
<1> QED
  BY <1>1, <1>2, <1>3 DEF CreationsPaid

\* Every other step leaves the resource alone, and a request begins unwritten.
LEMMA PaidNext == Inv /\ Found /\ CreationsPaid /\ [Next]_vars => CreationsPaid'
<1> SUFFICES ASSUME Inv, Found, CreationsPaid, [Next]_vars PROVE CreationsPaid'
  OBVIOUS
<1> USE DEF resource, handler, reads
<1>1. CASE CreatePending
  <2>1. mutations' = 0 /\ edits' = edits
    BY <1>1 DEF CreatePending, Inv, RevisionSpent
  <2>2. edits \in 0..MaxEdits /\ MaxEdits \in Nat
    BY ApprovalAssumption DEF Found
  <2>3. Created' >= 0
    BY <2>1, <2>2 DEF Created
  <2> QED
    BY <2>1, <2>3 DEF CreationsPaid
<1>2. ASSUME NEW u \in Users, NEW d \in DOMAIN Interim, BeginDecision(u, d)
      PROVE  CreationsPaid'
  <2>1. row.status # "absent" /\ UNCHANGED <<obj, mutations, change, edits>>
    BY <1>2 DEF BeginDecision, Interim
  <2> QED
    BY <2>1 DEF CreationsPaid, Created
<1>3. CASE CancelDecision \/ FinalizeDecision
  <2>1. pc # "idle" /\ UNCHANGED <<obj, mutations, change, edits>>
    BY <1>3 DEF CancelDecision, FinalizeDecision
  <2>2. row.status # "absent"
    BY <2>1, Statuses DEF Inv, RowHeld, Types
  <2> QED
    BY <2>1, <2>2 DEF CreationsPaid, Created
<1>4. CASE ReadResource \/ VerifyResource \/ RecordDecision \/ SyncView
           \/ RevokeReviewer \/ Crash
  BY <1>4 DEF ReadResource, VerifyResource, RecordDecision, SyncView, RevokeReviewer,
     Crash, CreationsPaid, Created
<1>5. CASE ExpireLease
  <2>1. row'.status = row.status
    BY <1>5 DEF ExpireLease, Inv, Types, Rows
  <2> QED
    BY <1>5, <2>1 DEF ExpireLease, CreationsPaid, Created
<1>6. CASE UNCHANGED vars
  BY <1>6 DEF vars, CreationsPaid, Created
<1> QED
  BY <1>1, <1>2, <1>3, <1>4, <1>5, <1>6, PaidWrite, PaidEdit DEF Next

\* No change is written again unless somebody else has removed what it created.
THEOREM RepetitionNeedsRemovalHolds == Spec => []RepetitionNeedsRemoval
<1>1. Init => CreationsPaid
  BY DEF Init, CreationsPaid
<1>2. Inv /\ Found /\ CreationsPaid => RepetitionNeedsRemoval
  <2> SUFFICES ASSUME Inv, Found, CreationsPaid PROVE RepetitionNeedsRemoval
    OBVIOUS
  <2>1. /\ edits \in Int /\ edits <= MaxEdits /\ MaxEdits \in Int /\ mutations \in Int
        /\ mutations <= 1 \/ mutations <= Created
    BY ApprovalAssumption DEF Inv, Types, Found, RevisionSpent, CreationsPaid
  <2>2. Created <= 1 + (MaxEdits - edits) /\ Created \in Int
    BY <2>1 DEF Created
  <2> QED
    BY <2>1, <2>2 DEF RepetitionNeedsRemoval
<1> QED
  BY <1>1, <1>2, InvInit, InvNext, FoundInit, FoundNext, PaidNext, PTL DEF Spec

-----------------------------------------------------------------------------
(* Refinement *)

\* The first states are those of the abstract workflow.
LEMMA RefinesInit == Init => Request!Init
  BY DEF Init, Request!Init

\* Filing is filing.
LEMMA RefinesFile == ASSUME Inv, Found, CreatePending PROVE Request!File
<1>1. /\ row.status = "absent" /\ row.owner = NoUser
      /\ row'.status = "pending" /\ row'.owner = NoUser
      /\ UNCHANGED <<mutations, audit>>
  BY DEF CreatePending, Found, Unowned
<1>2. (attained' \/ assumed') \in BOOLEAN
  BY InvCreate DEF Inv, Types
<1> QED
  BY <1>1, <1>2 DEF Request!File

\* Beginning a pending decision is claiming it; taking one up again is no step
\* of the abstract workflow.
LEMMA RefinesClaim ==
    ASSUME Inv, NEW u \in Users, NEW d \in DOMAIN Interim, BeginDecision(u, d)
    PROVE  Request!Claim(u) \/ UNCHANGED Request!request
<1>1. /\ MayDecide(u, d) /\ row.status \in {"pending", Interim[d]}
      /\ row' = Leased(u, d)
      /\ UNCHANGED <<mutations, attained, assumed, change, audit>>
  BY DEF BeginDecision, resource, reads
<1>2. d \in {"approve", "reject"}
  BY Statuses
<1>3. CASE row.status = "pending"
  <2>1. row'.status = Interim[d] /\ row'.owner = u
    BY <1>1, <1>3 DEF Leased
  <2>2. row'.status = "approving" => u # Requester
    BY <1>1, <1>2, <2>1, Statuses DEF MayDecide
  <2> QED
    BY <1>1, <1>2, <1>3, <2>1, <2>2, Statuses DEF Request!Claim
<1>4. CASE row.status # "pending"
  BY <1>1, <1>2, <1>4, Statuses DEF Leased, Request!request
<1> QED
  BY <1>3, <1>4

\* The ends of a decision.
LEMMA RefinesEnd ==
    ASSUME Inv, CancelDecision \/ FinalizeDecision
    PROVE  Request!Withdraw \/ Request!Close \/ UNCHANGED Request!request
<1>1. /\ pc \in {"cancel", "finalize"}
      /\ UNCHANGED <<mutations, attained, assumed, change, audit>>
  BY DEF CancelDecision, FinalizeDecision, resource, reads
<1>2. row.status = Interim[decision] /\ decision \in {"approve", "reject"}
  BY <1>1 DEF Inv, RowHeld, Types
<1>3. row.status \in {"approving", "rejecting"}
  BY <1>2, Statuses
<1>4. CASE row' = row
  BY <1>1, <1>4 DEF Request!request
<1>5. CASE CancelDecision /\ row' # row
  <2>1. row'.status = "pending" /\ row'.owner = NoUser
    BY <1>5 DEF CancelDecision
  <2> QED
    BY <1>1, <1>3, <2>1 DEF Request!Withdraw
<1>6. CASE FinalizeDecision /\ row' # row
  <2>1. pc = "finalize" /\ row' = [row EXCEPT !.status = Final[decision]]
    BY <1>6 DEF FinalizeDecision
  <2>2. row'.status = Final[decision] /\ row'.owner = row.owner
    BY <2>1 DEF Inv, Types, Rows
  <2>3. audit = Final[decision] /\ (decision = "approve" => attained \/ assumed)
    BY <2>1 DEF Inv, Progress
  <2>4. row'.status # "absent"
    BY <1>2, <2>2, Statuses
  <2> QED
    BY <1>1, <1>2, <1>3, <2>2, <2>3, <2>4, Statuses DEF Request!Close
<1> QED
  BY <1>4, <1>5, <1>6

\* The write of an approval, which an update or a deletion has only one of.
LEMMA RefinesWrite ==
    ASSUME Inv, Found, WriteResource
    PROVE  Request!Write \/ UNCHANGED Request!request
<1>1. /\ pc = "write"
      /\ UNCHANGED <<row, change, audit, assumed>>
      /\ Written \/ UNCHANGED <<mutations, attained>>
  BY DEF WriteResource, reads
<1>2. row.status = "approving"
  BY <1>1, Statuses DEF Found, ApprovalApplies, Inv, RowHeld
<1>3. CASE Written
  <2>1. change.action # "create" => mutations = 0
    BY <1>2, <1>3 DEF Written, Writable, Inv, RevisionSpent, Types, Objects
  <2> QED
    BY <1>1, <1>2, <1>3, <2>1 DEF Written, Request!Write
<1>4. CASE UNCHANGED <<mutations, attained>>
  BY <1>1, <1>4 DEF Request!request
<1> QED
  BY <1>1, <1>3, <1>4

\* The event.
LEMMA RefinesRecord ==
    ASSUME Inv, RecordDecision
    PROVE  Request!Record \/ UNCHANGED Request!request
<1>1. /\ pc = "audit"
      /\ UNCHANGED <<row, change, mutations, attained, assumed>>
      /\ audit' = audit \/ (audit = "none" /\ audit' = Final[decision])
  BY DEF RecordDecision, resource, reads
<1>2. row.status = Interim[decision] /\ decision \in {"approve", "reject"}
  BY <1>1 DEF Inv, RowHeld, Types
<1>3. decision = "approve" => attained \/ assumed
  BY <1>1 DEF Inv, Progress
<1>4. CASE audit' = audit
  BY <1>1, <1>4 DEF Request!request
<1>5. CASE audit = "none" /\ audit' = Final[decision]
  BY <1>1, <1>2, <1>3, <1>5, Statuses DEF Request!Record
<1> QED
  BY <1>1, <1>4, <1>5

\* Somebody else's change of the resource may make it as requested.
LEMMA RefinesEdit ==
    ASSUME Inv, EditResource
    PROVE  Request!Coincide \/ UNCHANGED Request!request
<1>1. /\ UNCHANGED <<row, change, mutations, audit, assumed>>
      /\ attained' = (attained \/ (row.status # "absent" /\ Satisfies(obj')))
  BY DEF EditResource, handler, reads
<1>2. attained' = attained \/ (attained' = TRUE /\ row.status # "absent")
  BY <1>1 DEF Inv, Types
<1> QED
  BY <1>1, <1>2 DEF Request!Coincide, Request!request

\* A read of a copy that is out of date may make the handler believe so.
LEMMA RefinesRead ==
    ASSUME Inv, Found, ReadResource \/ VerifyResource
    PROVE  Request!Presume \/ UNCHANGED Request!request
<1>1. /\ pc \in {"read", "verify"}
      /\ UNCHANGED <<row, change, mutations, attained, audit>>
      /\ assumed' = assumed \/ assumed' = TRUE
  BY DEF ReadResource, VerifyResource, Reading, resource, Inv, Types
<1>2. row.status = "approving"
  BY <1>1, Statuses DEF Found, ApprovalApplies, Inv, RowHeld
<1>3. CASE assumed' = TRUE
  BY <1>1, <1>2, <1>3 DEF Request!Presume
<1>4. CASE assumed' = assumed
  BY <1>1, <1>4 DEF Request!request
<1> QED
  BY <1>1, <1>3, <1>4

\* All that is left is invisible.
LEMMA RefinesNothing ==
    ASSUME Inv,
           ExpireLease \/ SyncView \/ RevokeReviewer \/ Crash \/ UNCHANGED vars
    PROVE  UNCHANGED Request!request
<1>1. /\ UNCHANGED <<change, mutations, attained, assumed, audit>>
      /\ row'.status = row.status /\ row'.owner = row.owner
  BY DEF ExpireLease, SyncView, RevokeReviewer, Crash, Go, resource, handler, reads,
     vars, Inv, Types, Rows
<1> QED
  BY <1>1 DEF Request!request

\* Every step of the workflow is a step of the abstract one or invisible to it.
LEMMA RefinesNext ==
    Inv /\ Found /\ [Next]_vars => [Request!Next]_(Request!request)
<1> SUFFICES ASSUME Inv, Found, [Next]_vars
             PROVE  Request!Next \/ UNCHANGED Request!request
  OBVIOUS
<1>1. CASE \E u \in Users, d \in DOMAIN Interim : BeginDecision(u, d)
  BY <1>1, RefinesClaim DEF Request!Next
<1>2. CASE CreatePending \/ CancelDecision \/ FinalizeDecision \/ WriteResource
           \/ RecordDecision \/ EditResource \/ ReadResource \/ VerifyResource
  BY <1>2, RefinesFile, RefinesEnd, RefinesWrite, RefinesRecord, RefinesEdit, RefinesRead
  DEF Request!Next
<1>3. CASE ExpireLease \/ SyncView \/ RevokeReviewer \/ Crash \/ UNCHANGED vars
  BY <1>3, RefinesNothing
<1> QED
  BY <1>1, <1>2, <1>3 DEF Next

\* The workflow, with its leases, caches, failures and crashes, implements the
\* abstract life of a change request.
THEOREM ChangeRequestRefined == Spec => ImplementsChangeRequest
<1>1. Init => Request!Init
  BY RefinesInit
<1>2. Inv /\ Found /\ [Next]_vars => [Request!Next]_(Request!request)
  BY RefinesNext
<1> QED
  BY <1>1, <1>2, InvInit, InvNext, FoundInit, FoundNext, PTL
  DEF Spec, ImplementsChangeRequest, Request!Spec
=============================================================================
