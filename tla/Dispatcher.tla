----------------------------- MODULE Dispatcher -----------------------------
(***************************************************************************)
(* From an audit event to the webhooks of the notification channels:       *)
(*                                                                         *)
(*   internal/adapters/driven/kubernetes/audit.go                          *)
(*   internal/adapters/driven/notifications/{dispatcher,senders}.go        *)
(*                                                                         *)
(* A caller records an audit event: the object is created, handed to a     *)
(* bounded queue in memory, and the caller checkpoints that it is done; a  *)
(* caller that could not do so records it again.  One goroutine of the     *)
(* leader takes events off the queue in batches and posts them to every    *)
(* channel that wants them.  What it must not forget, which attempts it    *)
(* has begun and how they ended, is in the status of the channel, a short  *)
(* history that it writes under optimistic concurrency and reads through   *)
(* an informer cache that lags behind.                                     *)
(*                                                                         *)
(* Abstracted: an event is the reference of its audit event (all else in   *)
(* it follows from that); an attempt identifier, a hash over a time stamp, *)
(* is a serial number; the time a throttle or an unfinished attempt lasts; *)
(* messages, counters of POSTs and status codes.  A channel is not         *)
(* deleted: its updates would fail like those of one that cannot be        *)
(* reached.                                                                *)
(***************************************************************************)
EXTENDS Integers, Sequences, FiniteSets

CONSTANTS
    Refs,         \* the audit events that may be recorded
    Durable,      \* those of a caller that keeps them pending until recorded
    Filters,      \* the sets of events that a channel's spec may let through
    KindOf,       \* action, result and rule of an event
    IdentityOf,   \* kind and workload of an event
    Channels,     \* the PowerNotificationChannels
    NoChannel,
    QueueSize,    \* capacity of the queue (500)
    MaxRecent,    \* maxRecentNotificationAttempts (20)
    MaxPosts,     \* POSTs within one attempt (3)
    MaxFaults     \* bound: failed calls, lost answers, crashes, and changes of
                  \* a channel by its owner

ASSUME DispatcherAssumption ==
    /\ Durable \subseteq Refs
    /\ Filters \subseteq SUBSET Refs
    /\ IsFiniteSet(Refs)
    /\ NoChannel \notin Channels
    /\ QueueSize \in Nat
    /\ MaxRecent \in Nat \ {0}
    /\ MaxPosts \in Nat \ {0}
    /\ MaxFaults \in Nat

(***************************************************************************)
(*  quiet     the events that are suppressed or of no notifiable action;   *)
(*            decided and stored before an event is recorded               *)
(*  events    the PowerAuditEvents that exist                              *)
(*  caller    what the owner of an event knows: "pending", "recorded", or  *)
(*            "lost" if it does not try again                              *)
(*  rec       the call of Record in progress, by reference and next step   *)
(*  queue     the notification queue                                       *)
(*  stored    the channels in the API server: the events that the spec     *)
(*            lets through, the recent attempts (in the order of their     *)
(*            identifiers), the last one and the two counters              *)
(*  cache     the informer's copies; cacheCur iff at the stored revision   *)
(*  pc        the dispatcher's next call                                   *)
(*  batch     the events being collected                                   *)
(*  jobs      per channel, the events of the batch still to be dealt with  *)
(*  chan, usable   the channel being served, whether it has an endpoint    *)
(*  att, posts, outcome   its attempt, POSTs so far, result                *)
(*  recovering, cutoff    the channels to recover, and the youngest        *)
(*            attempt that is old enough                                   *)
(*  throttle  the throttle entries that have not expired                   *)
(*  lastId    the last attempt identifier given out                        *)
(*  faults    what is left of the bound                                    *)
(*                                                                         *)
(* History variables, read by the properties alone:                        *)
(*  posted    per channel and event, the last attempt to post it, or 0     *)
(*  fresh     per channel, whether the copy that the running batch was     *)
(*            filtered by was current                                      *)
(***************************************************************************)
VARIABLES quiet, events, caller, rec, queue, stored, cache, cacheCur, pc, batch, jobs,
          chan, usable, att, posts, outcome, recovering, cutoff, throttle,
          lastId, faults, posted, fresh

recorder  == <<quiet, events, caller, rec>>
channels  == <<stored, cache, cacheCur>>
attempt   == <<att, posts, outcome>>
recovery  == <<recovering, cutoff>>
history   == <<posted, fresh>>
vars == <<quiet, events, caller, rec, queue, stored, cache, cacheCur, pc, batch, jobs,
          chan, usable, att, posts, outcome, recovering, cutoff, throttle,
          lastId, faults, posted, fresh>>

Fault == faults > 0 /\ faults' = faults - 1

Phases == {"InProgress", "Succeeded", "Failed"}
Attempts == [id : Nat, refs : SUBSET Refs, phase : Phases]
NoAttempt == [id |-> 0, refs |-> {}, phase |-> "Failed"]
Open(a) == a.phase = "InProgress"

ChannelObjects ==
    [wants : Filters, recent : SUBSET Attempts, last : Attempts,
     sent : Nat, errors : Nat]

Idle == [ref |-> NoChannel, step |-> "idle"]

-----------------------------------------------------------------------------
(* Record: create the audit event, hand it over, checkpoint *)

\* An error: a durable caller keeps the event pending, another one ignores it.
RecordFails(r) ==
    /\ caller' = [caller EXCEPT ![r] =
                     IF @ = "recorded" \/ r \in Durable THEN @ ELSE "lost"]
    /\ rec' = Idle

\* Create, and the read that verifies it; an event that exists is accepted.
\* A caller whose copy of its own checkpoint is out of date records again
\* what it has recorded.
CreateEvent(r) ==
    /\ rec = Idle
    /\ \/ /\ caller[r] = "pending"
          /\ UNCHANGED faults
          /\ events' = events \cup {r}
          /\ rec' = [ref |-> r, step |-> "enqueue"]
          /\ UNCHANGED caller
       \/ /\ caller[r] = "recorded" /\ r \in Durable
          /\ Fault
          /\ events' = events \cup {r}
          /\ rec' = [ref |-> r, step |-> "enqueue"]
          /\ UNCHANGED caller
       \/ /\ caller[r] = "pending"
          /\ Fault
          /\ events' \in {events, events \cup {r}}
          /\ RecordFails(r)
    /\ UNCHANGED <<quiet, queue, channels, pc, batch, jobs, chan, usable, attempt,
                   recovery, throttle, lastId, history>>

\* isNotifiableAction, and no label of the namespace suppresses the event.
Deliverable(r) == r \notin quiet

\* Mutant: a full queue loses the event instead of refusing it.
EnqueueOrDrop ==
    /\ rec.step = "enqueue"
    /\ queue' = IF Deliverable(rec.ref) /\ Len(queue) < QueueSize
                THEN Append(queue, rec.ref) ELSE queue
    /\ rec' = [rec EXCEPT !.step = "checkpoint"]
    /\ UNCHANGED <<quiet, caller, events, channels, pc, batch, jobs, chan, usable,
                   attempt, recovery, throttle, lastId, faults, history>>

\* Enqueue refuses when the queue is full and evicts nothing.
EnqueueEvent ==
    /\ rec.step = "enqueue"
    /\ \/ /\ ~Deliverable(rec.ref)
          /\ rec' = [rec EXCEPT !.step = "checkpoint"]
          /\ UNCHANGED <<queue, caller>>
       \/ /\ Deliverable(rec.ref) /\ Len(queue) < QueueSize
          /\ queue' = Append(queue, rec.ref)
          /\ rec' = [rec EXCEPT !.step = "checkpoint"]
          /\ UNCHANGED caller
       \/ /\ Deliverable(rec.ref) /\ Len(queue) >= QueueSize
          /\ RecordFails(rec.ref)
          /\ UNCHANGED queue
    /\ UNCHANGED <<quiet, events, channels, pc, batch, jobs, chan, usable, attempt,
                   recovery, throttle, lastId, faults, history>>

\* The caller stores that the event is recorded, or fails to.
Checkpoint ==
    /\ rec.step = "checkpoint"
    /\ \/ /\ caller' = [caller EXCEPT ![rec.ref] = "recorded"]
          /\ UNCHANGED faults
       \/ rec.ref \in Durable /\ Fault /\ UNCHANGED caller
    /\ rec' = Idle
    /\ UNCHANGED <<quiet, events, queue, channels, pc, batch, jobs, chan, usable,
                   attempt, recovery, throttle, lastId, history>>

\* The retention period of an event is over; days pass between its creation
\* and this.
CleanupExpired(r) ==
    /\ r \in events
    /\ rec.ref # r
    /\ events' = events \ {r}
    /\ UNCHANGED <<quiet, caller, rec, queue, channels, pc, batch, jobs, chan, usable,
                   attempt, recovery, throttle, lastId, faults, history>>

-----------------------------------------------------------------------------
(* The status of a channel *)

\* excludeAttemptedEvents: the events that an attempt in the status names.
Attempted(s) == s.last.refs \cup UNION {a.refs : a \in s.recent}

Oldest(s) == CHOOSE a \in s : \A b \in s : a.id <= b.id

\* Mutant: the history is not cut.
StoreAttemptUncut(s, a) ==
    [s EXCEPT !.last = a,
              !.recent = {b \in s.recent : b.id # a.id} \cup {a}]

\* storeAttempt replaces the entry of the same identifier, or appends one and
\* drops the oldest beyond the limit.
StoreAttempt(s, a) ==
    [s EXCEPT !.last = a,
              !.recent =
                  IF \E b \in s.recent : b.id = a.id
                  THEN {b \in s.recent : b.id # a.id} \cup {a}
                  ELSE LET all == s.recent \cup {a}
                       IN  IF Cardinality(all) > MaxRecent
                           THEN all \ {Oldest(all)} ELSE all]

\* Mutant: an attempt that is closed already is counted again.
FinishedAgain(s, a, phase) ==
    [StoreAttempt(s, [a EXCEPT !.phase = phase])
        EXCEPT !.sent = IF phase = "Succeeded" THEN @ + 1 ELSE @,
               !.errors = IF phase = "Failed" THEN @ + 1 ELSE @]

\* What finishAttempt makes of a status: nothing if an earlier try of the same
\* update has closed the attempt.
Finished(s, a, phase) ==
    IF s.last.id = a.id /\ ~Open(s.last) THEN s
    ELSE [StoreAttempt(s, [a EXCEPT !.phase = phase])
             EXCEPT !.sent = IF phase = "Succeeded" THEN @ + 1 ELSE @,
                    !.errors = IF phase = "Failed" THEN @ + 1 ELSE @]

Unfinished(a, limit) == Open(a) /\ a.id <= limit

CloseIf(a, limit) == IF Unfinished(a, limit) THEN [a EXCEPT !.phase = "Failed"] ELSE a

\* Mutant: only the last attempt is closed, not its entry in the history.
RecoveredLast(s, limit) ==
    [s EXCEPT !.last = CloseIf(@, limit),
              !.errors = IF Unfinished(s.last, limit) THEN @ + 1 ELSE @]

\* recoverIncompleteAttempts, on one status: the last attempt is counted with
\* the recent ones if it is among them.
Recovered(s, limit) ==
    LET closing == {a \in s.recent : Unfinished(a, limit)}
    IN  [s EXCEPT !.recent = {CloseIf(a, limit) : a \in s.recent},
                  !.last = CloseIf(@, limit),
                  !.errors = @ + Cardinality(closing)
                      + IF /\ Unfinished(s.last, limit)
                           /\ \A a \in closing : a.id # s.last.id
                        THEN 1 ELSE 0]

\* A Status().Update of channel c on the copy the informer holds.  Writing what
\* is there already does not change the revision.
Write(c, s) ==
    /\ cacheCur[c]
    /\ stored' = [stored EXCEPT ![c] = s]
    /\ cacheCur' = [cacheCur EXCEPT ![c] = (s = stored[c])]
    /\ UNCHANGED cache

\* updateChannelStatus reads the cached copy, changes it and writes it, and on
\* any error tries again, five times: it succeeds; the answer of one try is lost,
\* and the next one meets its effect; or it gives up, because the cache lags on
\* or the calls keep failing, perhaps with the effect in place.
UpdateSucceeds(c, s) == Write(c, s) /\ UNCHANGED faults
UpdateRetried(c, s) == Write(c, s) /\ Fault
UpdateGivesUp(c, s) ==
    \/ ~cacheCur[c] /\ UNCHANGED <<channels, faults>>
    \/ Fault /\ UNCHANGED channels
    \/ Fault /\ Write(c, s)

-----------------------------------------------------------------------------
(* Run: recovery *)

\* Before anything else every open attempt in sight is closed; the list of the
\* channels may fail.
StartRun ==
    /\ pc = "start"
    /\ \/ /\ cutoff' = lastId
          /\ recovering' =
                {c \in Channels : \E a \in cache[c].recent \cup {cache[c].last} :
                                     Unfinished(a, lastId)}
          /\ pc' = "recover"
          /\ UNCHANGED faults
       \/ Fault /\ pc' = "loop" /\ UNCHANGED recovery
    /\ UNCHANGED <<recorder, queue, channels, batch, jobs, chan, usable, attempt,
                   throttle, lastId, history>>

\* The ticker fires; attempts up to limit are a minute old.
TickRecovery(limit) ==
    /\ pc = "loop"
    /\ recovering' =
          {c \in Channels : \E a \in cache[c].recent \cup {cache[c].last} :
                               Unfinished(a, limit)}
    /\ recovering' # {}
    /\ cutoff' = limit
    /\ pc' = "recover"
    /\ UNCHANGED <<recorder, queue, channels, batch, jobs, chan, usable, attempt,
                   throttle, lastId, faults, history>>

RecoverChannel(c) ==
    /\ pc = "recover"
    /\ c \in recovering
    /\ LET s == Recovered(cache[c], cutoff)
       IN  \/ UpdateSucceeds(c, s) /\ recovering' = recovering \ {c}
           \/ UpdateRetried(c, s) /\ UNCHANGED recovering
           \/ UpdateGivesUp(c, s) /\ recovering' = recovering \ {c}
    /\ UNCHANGED <<recorder, queue, pc, batch, jobs, chan, usable, attempt, cutoff,
                   throttle, lastId, history>>

EndRecovery ==
    /\ pc = "recover"
    /\ recovering = {}
    /\ pc' = "loop"
    /\ cutoff' = 0
    /\ UNCHANGED <<recorder, queue, channels, batch, jobs, chan, usable, attempt,
                   recovering, throttle, lastId, faults, history>>

-----------------------------------------------------------------------------
(* Run: batches *)

\* The first event opens a batch, those that arrive within five seconds join it.
Collect ==
    /\ pc \in {"loop", "collect"}
    /\ queue # <<>>
    /\ batch' = batch \cup {Head(queue)}
    /\ queue' = Tail(queue)
    /\ pc' = "collect"
    /\ UNCHANGED <<recorder, channels, jobs, chan, usable, attempt, recovery,
                   throttle, lastId, faults, history>>

\* Mutant: events that were attempted before are not excluded.
WantedBy(s) == batch \cap s.wants

\* What dispatchBatch leaves of the batch for a channel that it has listed.
Wanted(s) == (batch \cap s.wants) \ Attempted(s)

\* dispatchBatch lists the channels in the cache; if that fails the batch is
\* gone.
DispatchBatch ==
    /\ pc = "collect"
    /\ batch' = {}
    /\ \/ /\ jobs' = [c \in Channels |-> Wanted(cache[c])]
          /\ fresh' = cacheCur
          /\ pc' = "channel"
          /\ UNCHANGED faults
       \/ Fault /\ pc' = "loop" /\ UNCHANGED <<jobs, fresh>>
    /\ UNCHANGED <<recorder, queue, channels, chan, usable, attempt, recovery,
                   throttle, lastId, posted>>

\* resolveWebhookURL and the choice of a sender, once per channel
ServeChannel(c) ==
    /\ pc = "channel"
    /\ jobs[c] # {}
    /\ chan' = c
    /\ \/ usable' = TRUE /\ UNCHANGED faults
       \/ usable' = FALSE /\ Fault
    /\ pc' = "group"
    /\ UNCHANGED <<recorder, queue, channels, batch, jobs, attempt, recovery,
                   throttle, lastId, history>>

EndBatch ==
    /\ pc = "channel"
    /\ \A c \in Channels : jobs[c] = {}
    /\ pc' = "loop"
    /\ UNCHANGED <<recorder, queue, channels, batch, jobs, chan, usable, attempt,
                   recovery, throttle, lastId, faults, history>>

\* groupBatchEvents: one message per action, result and rule.
Groups(refs) == {{r \in refs : KindOf[r] = k} : k \in {KindOf[r] : r \in refs}}

\* batchThrottleKey: the identities of a group, as often as they occur.
ThrottleKey(c, g) ==
    <<c, [k \in {IdentityOf[r] : r \in g} |-> Cardinality({r \in g : IdentityOf[r] = k})]>>

\* A group that was posted a short time ago is dropped; another one is given an
\* attempt.  Without an endpoint nothing is throttled.
TakeGroup ==
    /\ pc = "group"
    /\ \E g \in Groups(jobs[chan]) :
          /\ jobs' = [jobs EXCEPT ![chan] = @ \ g]
          /\ IF usable /\ ThrottleKey(chan, g) \in throttle
             THEN UNCHANGED <<pc, att, lastId>>
             ELSE /\ lastId' = lastId + 1
                  /\ att' = [id |-> lastId + 1, refs |-> g, phase |-> "InProgress"]
                  /\ pc' = "begin"
    /\ UNCHANGED <<recorder, queue, channels, batch, chan, usable, posts, outcome,
                   recovery, throttle, faults, history>>

EndChannel ==
    /\ pc = "group"
    /\ jobs[chan] = {}
    /\ chan' = NoChannel
    /\ usable' = FALSE
    /\ pc' = "channel"
    /\ UNCHANGED <<recorder, queue, channels, batch, jobs, attempt, recovery,
                   throttle, lastId, faults, history>>

\* The attempt is over; nothing is kept of it in memory.
NextGroup ==
    /\ pc' = "group"
    /\ att' = NoAttempt
    /\ posts' = 0
    /\ outcome' = "none"

\* Mutant: the webhook is called although the attempt was not stored.
BeginAttemptUnchecked ==
    /\ pc = "begin"
    /\ LET s == StoreAttempt(cache[chan], att)
       IN  UpdateSucceeds(chan, s) \/ UpdateGivesUp(chan, s)
    /\ pc' = "send"
    /\ UNCHANGED <<attempt, recorder, queue, batch, jobs, chan, usable, recovery,
                   throttle, lastId, history>>

\* beginAttempt stores the attempt before anything is sent.
BeginAttempt ==
    /\ pc = "begin"
    /\ LET s == StoreAttempt(cache[chan], att)
       IN  \/ /\ UpdateSucceeds(chan, s)
              /\ IF usable THEN pc' = "send" /\ UNCHANGED attempt
                 ELSE pc' = "finish" /\ outcome' = "Failed" /\ UNCHANGED <<att, posts>>
           \/ UpdateRetried(chan, s) /\ UNCHANGED <<pc, attempt>>
           \/ UpdateGivesUp(chan, s) /\ NextGroup
    /\ UNCHANGED <<recorder, queue, batch, jobs, chan, usable, recovery, throttle,
                   lastId, history>>

\* httpPostDetailed: one POST, which the provider accepts, or which is refused or
\* not answered and is sent again.
PostWebhook ==
    /\ pc = "send"
    /\ posted' = [posted EXCEPT ![chan] =
                     [r \in Refs |-> IF r \in att.refs THEN att.id ELSE @[r]]]
    /\ posts' = posts + 1
    /\ \/ outcome' = "Succeeded" /\ pc' = "finish"
       \/ posts' < MaxPosts /\ UNCHANGED <<outcome, pc>>
       \/ posts' = MaxPosts /\ outcome' = "Failed" /\ pc' = "finish"
    /\ UNCHANGED <<recorder, queue, channels, batch, jobs, chan, usable, att,
                   recovery, throttle, lastId, faults, fresh>>

\* finishAttempt; a success is throttled whether or not it could be stored.
FinishAttempt ==
    /\ pc = "finish"
    /\ LET s == Finished(cache[chan], att, outcome)
       IN  \/ /\ UpdateSucceeds(chan, s) \/ UpdateGivesUp(chan, s)
              /\ throttle' = IF outcome = "Succeeded"
                             THEN throttle \cup {ThrottleKey(chan, att.refs)}
                             ELSE throttle
              /\ NextGroup
           \/ UpdateRetried(chan, s) /\ UNCHANGED <<pc, attempt, throttle>>
    /\ UNCHANGED <<recorder, queue, batch, jobs, chan, usable, recovery, lastId,
                   history>>

-----------------------------------------------------------------------------
(* Environment *)

\* pruneThrottle, and the check of the expiry
ExpireThrottle(k) ==
    /\ k \in throttle
    /\ throttle' = throttle \ {k}
    /\ UNCHANGED <<recorder, queue, channels, pc, batch, jobs, chan, usable,
                   attempt, recovery, lastId, faults, history>>

SyncCache(c) ==
    /\ ~cacheCur[c]
    /\ cache' = [cache EXCEPT ![c] = stored[c]]
    /\ cacheCur' = [cacheCur EXCEPT ![c] = TRUE]
    /\ UNCHANGED <<recorder, queue, stored, pc, batch, jobs, chan, usable, attempt,
                   recovery, throttle, lastId, faults, history>>

\* The owner of a channel enables or disables it or changes its filters.
EditChannel(c) ==
    /\ Fault
    /\ \E w \in Filters : stored' = [stored EXCEPT ![c].wants = w]
    /\ cacheCur' = [cacheCur EXCEPT ![c] = FALSE]
    /\ UNCHANGED <<recorder, queue, cache, pc, batch, jobs, chan, usable, attempt,
                   recovery, throttle, lastId, history>>

\* The process dies; the next leader starts with freshly listed caches.
Crash ==
    /\ Fault
    /\ rec' = Idle
    /\ caller' = [r \in Refs |->
                     IF rec.ref = r /\ r \notin Durable THEN "lost" ELSE caller[r]]
    /\ queue' = <<>>
    /\ cache' = stored
    /\ cacheCur' = [c \in Channels |-> TRUE]
    /\ pc' = "start"
    /\ batch' = {}
    /\ jobs' = [c \in Channels |-> {}]
    /\ chan' = NoChannel
    /\ usable' = FALSE
    /\ att' = NoAttempt
    /\ posts' = 0
    /\ outcome' = "none"
    /\ recovering' = {}
    /\ cutoff' = 0
    /\ throttle' = {}
    /\ fresh' = [c \in Channels |-> FALSE]
    /\ UNCHANGED <<quiet, events, stored, lastId, posted>>

Init ==
    /\ quiet \in SUBSET Refs
    /\ events = {}
    /\ caller = [r \in Refs |-> "pending"]
    /\ rec = Idle
    /\ queue = <<>>
    /\ \E w \in [Channels -> Filters] :
          stored = [c \in Channels |->
                       [wants |-> w[c], recent |-> {}, last |-> NoAttempt,
                        sent |-> 0, errors |-> 0]]
    /\ cache = stored
    /\ cacheCur = [c \in Channels |-> TRUE]
    /\ pc = "start"
    /\ batch = {}
    /\ jobs = [c \in Channels |-> {}]
    /\ chan = NoChannel
    /\ usable = FALSE
    /\ att = NoAttempt
    /\ posts = 0
    /\ outcome = "none"
    /\ recovering = {}
    /\ cutoff = 0
    /\ throttle = {}
    /\ lastId = 0
    /\ faults = MaxFaults
    /\ posted = [c \in Channels |-> [r \in Refs |-> 0]]
    /\ fresh = [c \in Channels |-> FALSE]

\* The steps of Run other than those of the recovery ticker
Run ==
    \/ StartRun \/ EndRecovery \/ Collect \/ DispatchBatch \/ EndBatch
    \/ \E c \in Channels : RecoverChannel(c) \/ ServeChannel(c)
    \/ TakeGroup \/ EndChannel \/ BeginAttempt \/ PostWebhook \/ FinishAttempt

Environment ==
    \/ \E k \in throttle : ExpireThrottle(k)
    \/ \E c \in Channels : EditChannel(c)
    \/ \E r \in Refs : CleanupExpired(r)
    \/ Crash

Next ==
    \/ \E r \in Refs : CreateEvent(r)
    \/ EnqueueEvent \/ Checkpoint
    \/ Run
    \/ \E limit \in 1..lastId : TickRecovery(limit)
    \/ \E c \in Channels : SyncCache(c)
    \/ Environment

Spec == Init /\ [][Next]_vars

(***************************************************************************)
(* The owner of a pending event comes back to it whenever the recorder is  *)
(* free (strong fairness: others use it in between), and the calls of      *)
(* Record return.  The dispatcher's goroutine runs, informers catch up.    *)
(* The recovery ticker never stops and select takes it at random when      *)
(* events wait too; every attempt is a minute old one day, hence the       *)
(* strong fairness of a recovery that includes the youngest one.           *)
(***************************************************************************)
Fairness ==
    /\ \A r \in Refs : SF_vars(caller[r] = "pending" /\ CreateEvent(r))
    /\ WF_vars(EnqueueEvent)
    /\ WF_vars(Checkpoint)
    /\ WF_vars(Run)
    /\ SF_vars(TickRecovery(lastId))
    /\ \A c \in Channels : WF_vars(SyncCache(c))

FairSpec == Spec /\ Fairness

-----------------------------------------------------------------------------
(* Properties *)

\* Every variable has its type; the queue and the history of a channel respect
\* their limits, and an attempt has one entry in it (storeAttempt).
TypeOK ==
    /\ quiet \subseteq Refs
    /\ events \subseteq Refs
    /\ caller \in [Refs -> {"pending", "recorded", "lost"}]
    /\ rec \in {Idle} \cup [ref : Refs, step : {"enqueue", "checkpoint"}]
    /\ queue \in Seq(Refs) /\ Len(queue) <= QueueSize
    /\ stored \in [Channels -> ChannelObjects]
    /\ cache \in [Channels -> ChannelObjects]
    /\ \A c \in Channels :
          /\ Cardinality(stored[c].recent) <= MaxRecent
          /\ \A a, b \in stored[c].recent : a.id = b.id => a = b
    /\ cacheCur \in [Channels -> BOOLEAN]
    /\ pc \in {"start", "recover", "loop", "collect", "channel", "group", "begin",
               "send", "finish"}
    /\ batch \subseteq Refs
    /\ jobs \in [Channels -> SUBSET Refs]
    /\ chan \in Channels \cup {NoChannel}
    /\ usable \in BOOLEAN
    /\ att \in Attempts
    /\ posts \in 0..MaxPosts
    /\ outcome \in {"none", "Succeeded", "Failed"}
    /\ recovering \subseteq Channels
    /\ cutoff \in Nat
    /\ lastId \in Nat
    /\ faults \in Nat
    /\ posted \in [Channels -> [Refs -> Nat]]
    /\ fresh \in [Channels -> BOOLEAN]

Posting == pc = "send" /\ posts' # posts

\* Whenever a webhook is called, the status of the channel in the API server
\* already shows this very attempt, open and with these events, whatever lag,
\* edits and lost answers preceded: a crash after the call leaves a trace that
\* recovery closes (beginAttempt before SendWithResult in deliver).
AttemptBeforePost ==
    [][Posting => att \in stored[chan].recent /\ stored[chan].last = att]_vars

Total(s) == s.sent + s.errors

\* The attempts that a write to channel c closes.
ClosedByStep(c) ==
    {a \in stored[c].recent :
        /\ Open(a)
        /\ \E b \in stored'[c].recent : b.id = a.id /\ ~Open(b)}

\* The two counters of a channel move exactly with the attempts that are closed,
\* one for each, and a closed attempt is never changed again: not by a retry of
\* an update whose answer was lost, nor by a recovery that meets a copy from
\* before the attempt was finished (finishAttempt, recoverIncompleteAttempts).
CountersFollowAttempts ==
    [][\A c \in Channels :
          /\ Total(stored'[c]) = Total(stored[c]) + Cardinality(ClosedByStep(c))
          /\ \A a \in stored[c].recent, b \in stored'[c].recent :
                a.id = b.id /\ ~Open(a) => b = a]_vars

\* An event is posted to a channel in a second attempt only if the copy of the
\* channel that the batch was filtered by was out of date, or if MaxRecent
\* attempts were begun in between, so that the history had no room for the
\* first: neither a restart, nor a recovery, nor an event that is recorded again
\* sends a webhook twice otherwise (excludeAttemptedEvents, storeAttempt).
ReplayNeedsStaleHistory ==
    [][Posting /\ posts = 0 /\ fresh[chan]
          => \A r \in att.refs :
                posted[chan][r] # 0 => att.id > posted[chan][r] + MaxRecent]_vars

\* No attempt stays open for ever, although the dispatcher may die or fail to
\* store its outcome (Run's recovery at the start and by the ticker).
AttemptsClosed ==
    \A c \in Channels :
        []<>(\A a \in stored[c].recent \cup {stored[c].last} : ~Open(a))

\* Every event of a durable caller gets into the queue and is checkpointed, even
\* if the queue was full when it was first recorded (Enqueue, Record and the
\* pending audit of the caller).
HandedOver ==
    \A r \in Durable :
        /\ <>(caller[r] = "recorded")
        /\ Deliverable(r) => <>(\E i \in DOMAIN queue : queue[i] = r)
=============================================================================
