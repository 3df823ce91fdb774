------------------------------ MODULE Approval ------------------------------
(***************************************************************************)
(* The approval workflow of one change request:                            *)
(*                                                                         *)
(*   internal/adapters/driving/api/auth_handlers.go                        *)
(*   internal/adapters/driven/auth/sqlite_store.go                         *)
(*   internal/adapters/driven/kubernetes/cached_client.go (reads)          *)
(*                                                                         *)
(* A decision touches three stores that share no transaction: the row of   *)
(* the request in SQLite, the PowerPolicy or PowerOverride in Kubernetes,  *)
(* and the audit event named after the request.  The row moves from        *)
(* pending through a leased interim status to its final one; a decision    *)
(* that dies on the way is taken up again by the same kind of decision     *)
(* once its lease has expired.  The server writes to Kubernetes directly   *)
(* but reads through an informer cache.                                    *)
(*                                                                         *)
(* Abstracted: the kind of the resource; the payload, of which only        *)
(* equality matters and which decodes; the lease, which has either expired *)
(* or not; sessions and roles other than "may review".                     *)
(***************************************************************************)
EXTENDS Integers

CONSTANTS
    Users,      \* the users that may ever review
    Requester,  \* who files the request, a reviewer or not
    NoUser,     \* reviewed_by of an undecided request
    Specs,      \* what the spec of the resource may say
    MaxFaults,  \* bound: failed calls and crashes
    MaxEdits    \* bound: changes of the resource by others

ASSUME ApprovalAssumption ==
    /\ NoUser \notin Users
    /\ MaxFaults \in Nat
    /\ MaxEdits \in Nat

(***************************************************************************)
(*  obj        the resource in the API server; rv grows with each write    *)
(*  view       the informer's copy of it                                   *)
(*  change     the request: action, payload and the revision it was        *)
(*             written against                                             *)
(*  row        its row in SQLite: status, reviewed_by, lease running       *)
(*  audit      what the event approval-<id> says                           *)
(*  reviewers  who has the approver or admin role now                      *)
(*  pc, decision, owner  the handler that holds the mutex: its next call,  *)
(*             what it decides and in whose name                           *)
(*  faults, edits        what is left of the bounds                        *)
(*                                                                         *)
(* History variables, read by the properties alone:                        *)
(*  mutations  how often the workflow has changed the resource             *)
(*  attained   whether the resource has been as requested since the request*)
(*             was filed                                                   *)
(*  misled     whether a handler has acted on a read that failed or was out*)
(*             of date                                                     *)
(*  assumed    whether a handler has taken a copy out of date for proof    *)
(*             that the resource is as requested                           *)
(***************************************************************************)
VARIABLES obj, view, change, row, audit, reviewers, pc, decision, owner,
          faults, edits, mutations, attained, misled, assumed

resource == <<obj, view, mutations, attained>>
handler == <<pc, decision, owner>>
reads == <<misled, assumed>>
vars == <<obj, view, change, row, audit, reviewers, pc, decision, owner,
          faults, edits, mutations, attained, misled, assumed>>

Actions == {"create", "update", "delete"}
Interim == [approve |-> "approving", reject |-> "rejecting"]
Final == [approve |-> "approved", reject |-> "rejected"]

Fault == faults > 0 /\ faults' = faults - 1

Go(next) == pc' = next /\ UNCHANGED <<decision, owner>>

\* pendingObjectEqual, and its counterpart for a deletion
Satisfies(o) ==
    IF change.action = "delete" THEN ~o.exists
    ELSE o.exists /\ o.spec = change.spec

-----------------------------------------------------------------------------
(* The request and its row *)

\* handleCreatePending looks at the form of the request alone.  An update or a
\* deletion names some revision that its author has seen; the revision of a
\* creation is ignored.
CreatePending ==
    /\ row.status = "absent"
    /\ \E a \in Actions, s \in Specs :
          /\ \E r \in IF a = "create" THEN {0} ELSE 1..obj.rv :
                change' = [action |-> a, spec |-> s, rv |-> r]
          /\ attained' = IF a = "delete" THEN ~obj.exists
                         ELSE obj.exists /\ obj.spec = s
    /\ row' = [status |-> "pending", owner |-> NoUser, leased |-> FALSE]
    /\ UNCHANGED <<obj, view, audit, reviewers, handler, faults, edits, mutations,
                   reads>>

\* Mutant: whoever takes an expired decision up becomes its reviewer.
LeasedTo(u, d) == [status |-> Interim[d], owner |-> u, leased |-> TRUE]

\* A decision that is taken up again keeps its reviewer.
Leased(u, d) ==
    [status |-> Interim[d], leased |-> TRUE,
     owner |-> IF row.status = "pending" THEN u ELSE row.owner]

\* Mutant: the requester may approve their own change.
MayDecideOwn(u, d) == u \in reviewers

\* requireCurrentReviewer, and nobody approves a change of their own.
MayDecide(u, d) ==
    /\ u \in reviewers
    /\ d = "approve" => u # Requester

\* BeginPendingDecision of u, which the row allows when it is pending or when
\* the lease of the same decision has expired.  The update may succeed and its
\* read-back fail.
BeginDecision(u, d) ==
    /\ pc = "idle"
    /\ MayDecide(u, d)
    /\ row.status = "pending" \/ (row.status = Interim[d] /\ ~row.leased)
    /\ row' = Leased(u, d)
    /\ \/ /\ pc' = IF d = "approve" THEN "read" ELSE "audit"
          /\ decision' = d
          /\ owner' = row'.owner
          /\ UNCHANGED faults
       \/ Fault /\ UNCHANGED handler
    /\ UNCHANGED <<resource, change, audit, reviewers, edits, reads>>

\* CancelPendingDecision; its own error is ignored.
CancelDecision ==
    /\ pc = "cancel"
    /\ \/ /\ row.status = Interim[decision] /\ row.owner = owner
          /\ row' = [status |-> "pending", owner |-> NoUser, leased |-> FALSE]
          /\ UNCHANGED faults
       \/ Fault /\ UNCHANGED row
    /\ Go("idle")
    /\ UNCHANGED <<resource, change, audit, reviewers, edits, reads>>

FinalizeDecision ==
    /\ pc = "finalize"
    /\ \/ /\ row.status = Interim[decision] /\ row.owner = owner
          /\ row' = [row EXCEPT !.status = Final[decision]]
          /\ UNCHANGED faults
       \/ Fault /\ UNCHANGED row
    /\ Go("idle")
    /\ UNCHANGED <<resource, change, audit, reviewers, edits, reads>>

-----------------------------------------------------------------------------
(* applyPendingObject *)

\* What a read that the informer answers may do to the handler.
Reading ==
    /\ misled' = (misled \/ view # obj)
    /\ assumed' = (assumed \/ (view # obj /\ Satisfies(view)))

\* The read before the write: done already, not possible, or go on to write.
ReadResource ==
    /\ pc = "read"
    /\ \/ /\ Reading
          /\ UNCHANGED faults
          /\ Go(IF Satisfies(view) THEN "audit"
                ELSE IF change.action = "create"
                     THEN IF view.exists THEN "cancel" ELSE "write"
                ELSE IF view.exists /\ view.rv = change.rv THEN "write"
                ELSE "cancel")
       \/ Fault /\ misled' = TRUE /\ UNCHANGED assumed /\ Go("cancel")
    /\ UNCHANGED <<resource, change, row, audit, reviewers, edits>>

\* Mutant: the write does not insist on the revision of the request.
WritableAnyRevision ==
    IF change.action = "create" THEN ~obj.exists ELSE obj.exists

\* Mutant: a creation replaces what is there.
WritableOver ==
    change.action # "create" => obj.exists /\ obj.rv = change.rv

\* The API server's own precondition on the write.
Writable ==
    IF change.action = "create" THEN ~obj.exists
    ELSE obj.exists /\ obj.rv = change.rv

Written ==
    /\ Writable
    /\ obj' = [exists |-> change.action # "delete", rv |-> obj.rv + 1,
               spec |-> IF change.action = "delete" THEN obj.spec ELSE change.spec]
    /\ mutations' = mutations + 1
    /\ attained' = TRUE

\* Create, Update or Delete: accepted; refused; or failed with or without
\* effect.
WriteResource ==
    /\ pc = "write"
    /\ \/ Written /\ Go("audit") /\ UNCHANGED faults
       \/ ~Writable /\ Go("verify") /\ UNCHANGED <<obj, mutations, attained, faults>>
       \/ Fault /\ Go("verify") /\ (Written \/ UNCHANGED <<obj, mutations, attained>>)
    /\ UNCHANGED <<view, change, row, audit, reviewers, edits, reads>>

\* Mutant: a resource that is not as before is taken to be as requested.
VerifyResourceLoosely ==
    /\ pc = "verify"
    /\ Go(IF view.exists /\ view.rv = change.rv THEN "cancel" ELSE "audit")
    /\ Reading
    /\ UNCHANGED <<resource, change, row, audit, reviewers, faults, edits>>

\* Mutant: a failed write is taken not to have happened.
VerifyNothing ==
    /\ pc = "verify"
    /\ Go("cancel")
    /\ UNCHANGED <<resource, change, row, audit, reviewers, faults, edits, reads>>

\* After a failed write the resource is read again: the change is there, it
\* provably is not, or nobody knows and the decision stays open.
VerifyResource ==
    /\ pc = "verify"
    /\ \/ /\ Reading
          /\ UNCHANGED faults
          /\ Go(IF Satisfies(view) THEN "audit"
                ELSE IF (IF change.action = "create" THEN ~view.exists
                         ELSE view.exists /\ view.rv = change.rv) THEN "cancel"
                ELSE "idle")
       \/ Fault /\ misled' = TRUE /\ UNCHANGED assumed /\ Go("idle")
    /\ UNCHANGED <<resource, change, row, audit, reviewers, edits>>

-----------------------------------------------------------------------------
(* recordApprovalDecision *)

\* After a failure an approval stays open, a rejection is withdrawn.
AuditFails == Go(IF decision = "approve" THEN "idle" ELSE "cancel")

\* The event is created; one that exists is accepted if it says the same, and
\* if the informer has heard of it.
RecordDecision ==
    /\ pc = "audit"
    /\ \/ /\ audit \in {"none", Final[decision]}
          /\ audit' = Final[decision]
          /\ Go("finalize")
          /\ UNCHANGED faults
       \/ audit # "none" /\ AuditFails /\ UNCHANGED <<audit, faults>>
       \/ /\ Fault
          /\ AuditFails
          /\ audit' \in {audit, IF audit = "none" THEN Final[decision] ELSE audit}
    /\ UNCHANGED <<resource, change, row, reviewers, edits, reads>>

-----------------------------------------------------------------------------
(* Environment *)

ExpireLease ==
    /\ row.leased
    /\ row' = [row EXCEPT !.leased = FALSE]
    /\ UNCHANGED <<resource, change, audit, reviewers, handler, faults, edits, reads>>

SyncView ==
    /\ view # obj
    /\ view' = obj
    /\ UNCHANGED <<obj, mutations, attained, change, row, audit, reviewers,
                   handler, faults, edits, reads>>

\* Another user, or a reconciler writing the status, changes the resource.
EditResource ==
    /\ edits > 0
    /\ edits' = edits - 1
    /\ \E e \in BOOLEAN, s \in Specs :
          obj' = [exists |-> e, spec |-> s, rv |-> obj.rv + 1]
    /\ attained' = (attained \/ (row.status # "absent" /\ Satisfies(obj')))
    /\ UNCHANGED <<view, mutations, change, row, audit, reviewers, handler, faults,
                   reads>>

\* A reviewer is removed or loses the role.
RevokeReviewer ==
    /\ \E u \in reviewers : reviewers' = reviewers \ {u}
    /\ UNCHANGED <<resource, change, row, audit, handler, faults, edits, reads>>

\* The server dies; it starts again with a freshly listed cache.
Crash ==
    /\ Fault
    /\ pc # "idle"
    /\ Go("idle")
    /\ view' = obj
    /\ UNCHANGED <<obj, mutations, attained, change, row, audit, reviewers, edits,
                   reads>>

Init ==
    /\ obj \in [exists : BOOLEAN, spec : Specs, rv : {1}]
    /\ view = obj
    /\ change \in [action : {"create"}, spec : Specs, rv : {0}]
    /\ row = [status |-> "absent", owner |-> NoUser, leased |-> FALSE]
    /\ audit = "none"
    /\ reviewers = Users
    /\ pc = "idle"
    /\ decision = "approve"
    /\ owner = NoUser
    /\ faults = MaxFaults
    /\ edits = MaxEdits
    /\ mutations = 0
    /\ attained = FALSE
    /\ misled = FALSE
    /\ assumed = FALSE

Next ==
    \/ CreatePending
    \/ \E u \in Users, d \in DOMAIN Interim : BeginDecision(u, d)
    \/ CancelDecision \/ FinalizeDecision
    \/ ReadResource \/ WriteResource \/ VerifyResource \/ RecordDecision
    \/ ExpireLease \/ SyncView \/ EditResource \/ RevokeReviewer \/ Crash

Spec == Init /\ [][Next]_vars

-----------------------------------------------------------------------------
(* Properties *)

\* A request whose row says approved is audited as approved, and the resource
\* has been as requested at some time since the request was filed, unless a
\* handler took a copy out of date for proof of that (the replays of
\* applyPendingObject, which the informer answers: a copy older than the request
\* closes it although nobody has carried it out).
ApprovedTruthful ==
    row.status = "approved" => audit = "approved" /\ (attained \/ assumed)

\* An update or a deletion is carried out at most once, however often the
\* approval is retried, cancelled and begun anew against a stale cache (the
\* revision of the request is the precondition of the write).
AtMostOnce ==
    row.status # "absent" /\ change.action # "create" => mutations <= 1

\* A creation, which names no revision, is repeated only after somebody else has
\* removed the object: every further write is paid for by a change of others,
\* however often the approval is withdrawn and given again against a cache that
\* has not heard of the first write (the replays of applyPendingObject and the
\* refusal of a name that exists).
RepetitionNeedsRemoval == mutations <= 1 + (MaxEdits - edits)

\* A decision that is retried, after a crash or by another reviewer, stays the
\* decision of the reviewer who made it until it is withdrawn
\* (BeginPendingDecision, decisionOwner).
OwnerKept ==
    [][/\ row.status \in {"approving", "rejecting"}
       /\ row'.status # "pending"
       => row'.owner = row.owner]_vars

\* What the contract tests call for: an approval that was applied is never
\* reversed.  The code takes a stale informer copy for proof that a write whose
\* answer was lost did not happen, and withdraws the approval.
AppliedNotReversed == row.status = "rejected" => mutations = 0

\* That a write whose answer was lost, or one that could not be finalised, is
\* withdrawn and the request rejected takes a read that failed or was out of
\* date, or somebody else who changed the resource: the retry of an approval
\* that reads what there is finds its own write and completes the decision
\* (applyPendingObject, the replays).
ReversalNeedsCause ==
    row.status = "rejected" /\ mutations > 0 => misled \/ edits < MaxEdits

Request == INSTANCE ChangeRequest WITH
    status <- row.status,
    reviewer <- row.owner,
    once <- row.status # "absent" /\ change.action # "create",
    writes <- mutations,
    reached <- attained \/ assumed,
    audit <- audit

\* What survives a crash follows the abstract workflow: a change is written only
\* under an approval by somebody other than its requester, an update or a
\* deletion at most once, its event is written once and only when the decision
\* it names is carried out, or is believed to be from a copy out of date, and a
\* decision is final only then.
ImplementsChangeRequest == Request!Spec
=============================================================================
