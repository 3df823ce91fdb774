---------------------------- MODULE ChangeRequest ----------------------------
(***************************************************************************)
(* What the approval workflow promises about one change request, seen from *)
(* what survives a crash alone: the row of the request, the event of its   *)
(* audit, and how often the workflow has written the resource.  There are  *)
(* no handlers, leases, caches or calls that fail here.  Approval is shown *)
(* to implement this.                                                      *)
(***************************************************************************)
EXTENDS Naturals

CONSTANTS
    Users,      \* who may ever review
    Requester,  \* who files the request
    NoUser      \* the reviewer of an undecided request

(***************************************************************************)
(*  status    of the row                                                   *)
(*  reviewer  in whose name it is decided                                  *)
(*  once      whether the change may be written at most once: an update or *)
(*            a deletion, which names a revision, not a creation           *)
(*  writes    how often the workflow has written the resource              *)
(*  reached   whether the resource has been as requested, by its or by     *)
(*            anybody's doing, or was believed to be                       *)
(*  audit     what the event says, "none" if there is none                 *)
(***************************************************************************)
VARIABLES status, reviewer, once, writes, reached, audit

request == <<status, reviewer, once, writes, reached, audit>>

Init ==
    /\ status = "absent" /\ reviewer = NoUser
    /\ once = FALSE /\ writes = 0
    /\ reached = FALSE
    /\ audit = "none"

File ==
    /\ status = "absent" /\ status' = "pending"
    /\ once' \in BOOLEAN
    /\ reached' \in BOOLEAN
    /\ UNCHANGED <<reviewer, writes, audit>>

\* Nobody approves a change of their own.
Claim(u) ==
    /\ status = "pending"
    /\ status' \in {"approving", "rejecting"}
    /\ status' = "approving" => u # Requester
    /\ reviewer' = u
    /\ UNCHANGED <<once, writes, reached, audit>>

Withdraw ==
    /\ status \in {"approving", "rejecting"}
    /\ status' = "pending" /\ reviewer' = NoUser
    /\ UNCHANGED <<once, writes, reached, audit>>

\* The resource is written under an approval that is being carried out, and
\* under no other status.
Write ==
    /\ status = "approving"
    /\ once => writes = 0
    /\ writes' = writes + 1
    /\ reached' = TRUE
    /\ UNCHANGED <<status, reviewer, once, audit>>

\* Somebody else makes the resource as requested.
Coincide ==
    /\ status # "absent"
    /\ reached' = TRUE
    /\ UNCHANGED <<status, reviewer, once, writes, audit>>

\* A handler believes so, from a copy of the resource that is out of date.
Presume ==
    /\ status = "approving"
    /\ reached' = TRUE
    /\ UNCHANGED <<status, reviewer, once, writes, audit>>

\* The event is written once, and of an approval only when it is carried out.
Record ==
    /\ audit = "none"
    /\ \/ status = "approving" /\ reached /\ audit' = "approved"
       \/ status = "rejecting" /\ audit' = "rejected"
    /\ UNCHANGED <<status, reviewer, once, writes, reached>>

\* A decision is final when its event says the same; nothing changes it again.
Close ==
    /\ \/ status = "approving" /\ reached /\ audit = "approved"
       \/ status = "rejecting" /\ audit = "rejected"
    /\ status' = audit
    /\ UNCHANGED <<reviewer, once, writes, reached, audit>>

Next ==
    \/ File \/ (\E u \in Users : Claim(u)) \/ Withdraw
    \/ Write \/ Coincide \/ Presume \/ Record \/ Close

Spec == Init /\ [][Next]_request
=============================================================================
