----------------------- MODULE TaxonomyClassification -----------------------
(***************************************************************************)
(* Taxonomy classification: cards assigned to a taxonomy scope are sent to *)
(* a remote job queue one by one, and a worker's answer moves the card to  *)
(* a child of the scope or keeps it.  The runtime handles the queue's      *)
(* notifications, submits moved cards for their new scope (continuation)   *)
(* and refreshes the projections of the scopes that changed, in this order *)
(* of priority, one tick after the other.  An operator submits the cards   *)
(* of a scope and recovers what an interrupted submission left.            *)
(*                                                                         *)
(* A remote job is named by its idempotency key, which is the id of its    *)
(* local row.  A tick commits a batch of events at once; here it commits   *)
(* them one by one, which only a crash can tell apart, because the rows    *)
(* they change are locked until the commit; requests are prepared one by   *)
(* one in the same way.  run_forever builds the service anew for every     *)
(* tick, so its low-frequency reconcile never gets past noting the time.   *)
(***************************************************************************)
EXTENDS Naturals, Sequences, FiniteSets

CONSTANTS
    NumCards,       \* bound: cards
    Scope,          \* taxonomy nodes
    Root,           \* the root of the taxonomy
    Child,          \* its <<parent, child>> pairs, which do not change here
    MaxJobs,        \* bound: values of the local job id sequence
    OperatorJobs,   \* bound: the operator lists cards while the next id is no later
    PollBatch,      \* poll_batch_size
    MaxFaults,      \* bound: faults in a behaviour
    Faults          \* the kinds of fault that happen: a failure, or a card moved by hand

Card == 1..NumCards
JobId == 1..MaxJobs

ASSUME ConstantsAssumption ==
    /\ NumCards \in Nat
    /\ Root \in Scope
    /\ Child \subseteq Scope \X Scope
    \* a tree: no scope is below itself
    /\ \E depth \in [Scope -> 0..Cardinality(Scope)] :
           \A p \in Child : depth[p[1]] < depth[p[2]]
    /\ MaxJobs \in Nat
    /\ OperatorJobs \in 0..MaxJobs
    /\ PollBatch \in Nat \ {0}
    /\ MaxFaults \in Nat
    /\ Faults \subseteq {"read", "create", "answer", "crash", "reassign"}

HasChildren(s) == \E t \in Scope : <<s, t>> \in Child

\* A TaxonomyClassificationJob, and a continuation request for a card that
\* moved to a scope: next is the id of the job made for it, or 0.
Job == [id : JobId, scope : Scope, card : Card]
Request == [scope : Scope, card : Card, next : 0..MaxJobs]

VARIABLES
    assigned,       \* the scope each card is assigned to
    jobs,           \* local job rows
    linked,         \* ids of those whose job_id is set
    processed,      \* ... whose processed_at is set
    terminal,       \* ... whose terminal_state is set
    placed,         \* ... whose target_payload is set: the result was valid
    nextId,         \* the job id sequence
    requests,       \* continuation requests
    dirty,          \* scopes with a projection refresh request
    events,         \* recorded webhook events, in wakeup-id order
    handled,        \* jobs whose event is processed
    pc,             \* what the runtime is doing
    batch,          \* events of the running tick not handled yet
    todo,           \* continuation requests of the tick not looked at yet
    prepared,       \* local jobs it will submit
    op,             \* the operator's submission run
    reassigned,     \* cards moved by hand
    queue,          \* job queue: the state of each job
    target,         \* job queue: the scope an accepted result names
    faults

store == <<assigned, jobs, linked, processed, terminal, placed, nextId, requests, dirty>>
session == <<pc, batch, todo, prepared>>
remote == <<queue, target>>
vars == <<store, events, handled, session, op, reassigned, remote, faults>>

TypeOK ==
    /\ assigned \in [Card -> Scope]
    /\ jobs \subseteq Job
    /\ linked \subseteq JobId /\ processed \subseteq JobId
    /\ terminal \subseteq JobId /\ placed \subseteq JobId
    /\ nextId \in 1..(MaxJobs + 1)
    /\ requests \subseteq Request
    /\ dirty \subseteq Scope
    /\ events \in Seq(JobId)
    /\ handled \subseteq JobId
    /\ pc \in {"idle", "events", "prepare", "create", "link", "drop"}
    /\ batch \subseteq JobId
    /\ todo \subseteq Request
    /\ prepared \subseteq JobId
    /\ op \in [step : {"idle", "recover", "recovered", "list", "insert", "submit", "submitted"},
               scope : Scope, jobs : SUBSET JobId, cards : SUBSET Card]
    /\ reassigned \subseteq Card
    /\ queue \in [JobId -> {"absent", "open", "accepted", "terminal"}]
    /\ target \in [JobId -> Scope]
    /\ faults \in 0..MaxFaults

NoRun == [step |-> "idle", scope |-> Root, jobs |-> {}, cards |-> {}]

Init ==
    /\ assigned = [c \in Card |-> Root]
    /\ jobs = {} /\ linked = {} /\ processed = {} /\ terminal = {} /\ placed = {}
    /\ nextId = 1
    /\ requests = {}
    /\ dirty = {}
    /\ events = <<>> /\ handled = {}
    /\ pc = "idle" /\ batch = {} /\ todo = {} /\ prepared = {}
    /\ op = NoRun
    /\ reassigned = {}
    /\ queue = [i \in JobId |-> "absent"]
    /\ target = [i \in JobId |-> Root]
    /\ faults = 0

-----------------------------------------------------------------------------

Fault(kind) ==
    /\ kind \in Faults /\ faults < MaxFaults
    /\ faults' = faults + 1

\* Jobs that are neither processed nor terminal.
Active == {r \in jobs : r.id \notin processed \cup terminal}

ActiveFor(s, c) == {r \in Active : r.scope = s /\ r.card = c}

\* create_jobs with an idempotency key: a job that exists is left as it is.
Created(q, I) == [i \in JobId |-> IF i \in I /\ q[i] = "absent" THEN "open" ELSE q[i]]

Pending == {k \in DOMAIN events : events[k] \notin handled}

FirstOf(S, n) == {x \in S : Cardinality({y \in S : y < x}) < n}

\* Rows the operator's transaction has locked FOR UPDATE.
Locked == IF op.step \in {"recover", "recovered"} THEN op.jobs ELSE {}

-----------------------------------------------------------------------------
(* The job queue, its workers and the webhook receiver *)

\* A worker's answer names a child, the scope itself ("Unclassified"), or
\* something else: any name passes the output schema.
Accept(i, t) ==
    /\ queue[i] = "open"
    /\ queue' = [queue EXCEPT ![i] = "accepted"]
    /\ target' = [target EXCEPT ![i] = t]
    /\ UNCHANGED <<store, events, handled, session, op, reassigned, faults>>

EndJob(i) ==
    /\ queue[i] = "open"
    /\ queue' = [queue EXCEPT ![i] = "terminal"]
    /\ UNCHANGED <<store, events, handled, session, op, reassigned, target, faults>>

\* record_event: event and wakeup, unless the event id is there already.
DeliverEvent(i) ==
    /\ queue[i] \in {"accepted", "terminal"}
    /\ \A k \in DOMAIN events : events[k] # i
    /\ events' = Append(events, i)
    /\ UNCHANGED <<store, handled, session, op, reassigned, remote, faults>>

\* A card is assigned by hand (set_current_assignment, which refreshes the
\* projections of both scopes itself).
Reassign(c, s) ==
    /\ assigned[c] # s /\ Fault("reassign")
    /\ assigned' = [assigned EXCEPT ![c] = s]
    /\ reassigned' = reassigned \cup {c}
    /\ UNCHANGED <<jobs, linked, processed, terminal, placed, nextId, requests, dirty,
                   events, handled, session, op, remote>>

-----------------------------------------------------------------------------
(* process_pending_webhook_events *)

TickEvents ==
    /\ pc = "idle" /\ Pending # {}
    /\ pc' = "events"
    /\ batch' = {events[k] : k \in FirstOf(Pending, PollBatch)}
    /\ UNCHANGED <<store, events, handled, todo, prepared, op, reassigned, remote, faults>>

EndBatch ==
    /\ pc = "events" /\ batch = {}
    /\ pc' = "idle"
    /\ UNCHANGED <<store, events, handled, batch, todo, prepared, op, reassigned, remote, faults>>

\* i is the next event of the batch, in wakeup-id order.
NextEvent(i) ==
    /\ pc = "events" /\ i \in batch
    /\ \E k \in DOMAIN events :
           events[k] = i /\ \A l \in DOMAIN events : events[l] \in batch => k <= l

\* mark_processed drops the wakeup of an event, mark_failed keeps it.
MarkProcessed(i) == handled' = handled \cup {i}
MarkFailed == UNCHANGED handled

\* No local row has this job_id (yet): _job_for_update raises.
UnknownJob(i) ==
    /\ i \notin linked
    /\ MarkFailed
    /\ UNCHANGED <<store, faults>>

\* get_results raises, or answers "not ready".
ReadFails(i) ==
    /\ i \in linked /\ queue[i] = "accepted"
    /\ Fault("read")
    /\ MarkFailed
    /\ UNCHANGED store

Ended(i) ==
    /\ i \in linked /\ queue[i] = "terminal"
    /\ terminal' = terminal \cup {i}
    /\ MarkProcessed(i)
    /\ UNCHANGED <<assigned, jobs, linked, processed, placed, nextId, requests, dirty, faults>>

\* The event of a job is handled once, so processed_at is not set before.
HasResult(i) ==
    /\ i \in linked /\ queue[i] = "accepted"
    /\ MarkProcessed(i)
    /\ UNCHANGED <<jobs, linked, terminal, nextId, faults>>

IsChild(r) == <<r.scope, target[r.id]>> \in Child

\* Mutant: only children with children are looked up.
RejectLeaves(i) ==
    /\ HasResult(i)
    /\ \A r \in jobs : r.id = i =>
           \/ ~ (IsChild(r) /\ HasChildren(target[i])) /\ target[i] # r.scope
           \/ assigned[r.card] # r.scope
    /\ processed' = processed \cup {i}
    /\ UNCHANGED <<assigned, placed, requests, dirty>>

\* Unknown child, or the card has left the scope: recorded as an error.
RejectResult(i) ==
    /\ HasResult(i)
    /\ \A r \in jobs : r.id = i =>
           \/ ~ IsChild(r) /\ target[i] # r.scope
           \/ assigned[r.card] # r.scope
    /\ processed' = processed \cup {i}
    /\ UNCHANGED <<assigned, placed, requests, dirty>>

\* Scopes whose cards can be browsed have a projection.
Browsable(S) == {s \in S : s # Root /\ ~ HasChildren(s)}

KeepCard(i) ==
    /\ HasResult(i)
    /\ \E r \in jobs :
        /\ r.id = i /\ target[i] = r.scope /\ assigned[r.card] = r.scope
        /\ dirty' = dirty \cup Browsable({r.scope})
    /\ processed' = processed \cup {i}
    /\ placed' = placed \cup {i}
    /\ UNCHANGED <<assigned, requests>>

\* The request for card c in scope s is inserted; one that is there keeps
\* its next_job_id.
Requested(R, s, c) ==
    IF \E q \in R : q.scope = s /\ q.card = c THEN R
    ELSE R \cup {[scope |-> s, card |-> c, next |-> 0]}

\* Mutant: the request is for the scope the card has left.
MoveCardRequestsSource(i) ==
    /\ HasResult(i)
    /\ \E r \in jobs :
        /\ r.id = i /\ IsChild(r) /\ assigned[r.card] = r.scope
        /\ assigned' = [assigned EXCEPT ![r.card] = target[i]]
        /\ dirty' = dirty \cup Browsable({r.scope, target[i]})
        /\ requests' = Requested(requests, r.scope, r.card)
    /\ processed' = processed \cup {i}
    /\ placed' = placed \cup {i}

MoveCard(i) ==
    /\ HasResult(i)
    /\ \E r \in jobs :
        /\ r.id = i /\ IsChild(r) /\ assigned[r.card] = r.scope
        /\ assigned' = [assigned EXCEPT ![r.card] = target[i]]
        /\ dirty' = dirty \cup Browsable({r.scope, target[i]})
        /\ requests' = Requested(requests, target[i], r.card)
    /\ processed' = processed \cup {i}
    /\ placed' = placed \cup {i}

\* Mutant: the event of an unknown job ends the loop.
HandleEventAborts(i) ==
    /\ NextEvent(i)
    /\ IF i \in linked THEN batch' = batch \ {i} ELSE batch' = {}
    /\ \/ UnknownJob(i) \/ ReadFails(i) \/ Ended(i)
       \/ RejectResult(i) \/ KeepCard(i) \/ MoveCard(i)
    /\ UNCHANGED <<events, pc, todo, prepared, op, reassigned, remote>>

HandleEvent(i) ==
    /\ NextEvent(i)
    /\ batch' = batch \ {i}
    /\ \/ UnknownJob(i) \/ ReadFails(i) \/ Ended(i)
       \/ RejectResult(i) \/ KeepCard(i) \/ MoveCard(i)
    /\ UNCHANGED <<events, pc, todo, prepared, op, reassigned, remote>>

-----------------------------------------------------------------------------
(* drain_continuation_requests.  All requests fit into one batch, and one    *)
(* is claimed once enough of them are there or the oldest is old enough.     *)

TickContinue ==
    /\ pc = "idle" /\ Pending = {} /\ requests # {}
    /\ pc' = "prepare"
    /\ todo' = requests
    /\ UNCHANGED <<store, events, handled, batch, prepared, op, reassigned, remote, faults>>

\* The card left the scope, the scope has no children, or another active job
\* is there for it, or its own one that is linked.
Superseded(q) ==
    \/ assigned[q.card] # q.scope
    \/ ~ HasChildren(q.scope)
    \/ \E r \in ActiveFor(q.scope, q.card) : r.id # q.next \/ r.id \in linked

\* Mutant: only a request that was submitted is deleted.
DropRequestForgotten(q) ==
    /\ Superseded(q)
    /\ UNCHANGED <<jobs, nextId, requests, prepared>>

DropRequest(q) ==
    /\ Superseded(q)
    /\ requests' = requests \ {q}
    /\ UNCHANGED <<jobs, nextId, prepared>>

ReuseJob(q) ==
    /\ ~ Superseded(q)
    /\ \E r \in ActiveFor(q.scope, q.card) : prepared' = prepared \cup {r.id}
    /\ UNCHANGED <<jobs, nextId, requests>>

MakeJob(q) ==
    /\ ~ Superseded(q) /\ ActiveFor(q.scope, q.card) = {}
    /\ nextId <= MaxJobs
    /\ jobs' = jobs \cup {[id |-> nextId, scope |-> q.scope, card |-> q.card]}
    /\ nextId' = nextId + 1
    /\ requests' = (requests \ {q}) \cup {[q EXCEPT !.next = nextId]}
    /\ prepared' = prepared \cup {nextId}

\* _prepare_continuation_submission; it waits for rows an operator has locked.
Prepare(q) ==
    /\ pc = "prepare" /\ q \in todo
    /\ \A r \in ActiveFor(q.scope, q.card) : r.id \notin Locked
    /\ todo' = todo \ {q}
    /\ DropRequest(q) \/ ReuseJob(q) \/ MakeJob(q)
    /\ UNCHANGED <<assigned, linked, processed, terminal, placed, dirty, events, handled,
                   pc, batch, op, reassigned, remote, faults>>

EndPrepare ==
    /\ pc = "prepare" /\ todo = {}
    /\ pc' = IF prepared = {} THEN "idle" ELSE "create"
    /\ UNCHANGED <<store, events, handled, batch, todo, prepared, op, reassigned, remote, faults>>

CreateJobs ==
    /\ pc = "create"
    /\ pc' = "link"
    /\ queue' = Created(queue, prepared)
    /\ UNCHANGED <<store, events, handled, batch, todo, prepared, op, reassigned, target, faults>>

\* create_jobs raises, before it had an effect or after ("answer"): the
\* requests stay.
CreateFails ==
    /\ pc = "create"
    /\ \/ Fault("create") /\ UNCHANGED queue
       \/ Fault("answer") /\ queue' = Created(queue, prepared)
    /\ pc' = "idle" /\ prepared' = {}
    /\ UNCHANGED <<store, events, handled, batch, todo, op, reassigned, target>>

LinkJobs ==
    /\ pc = "link" /\ prepared \cap Locked = {}
    /\ pc' = "drop"
    /\ linked' = linked \cup prepared
    /\ UNCHANGED <<assigned, jobs, processed, terminal, placed, nextId, requests, dirty,
                   events, handled, batch, todo, prepared, op, reassigned, remote, faults>>

DropRequests ==
    /\ pc = "drop"
    /\ pc' = "idle" /\ prepared' = {}
    /\ requests' = {q \in requests : q.next \notin prepared}
    /\ UNCHANGED <<assigned, jobs, linked, processed, terminal, placed, nextId, dirty,
                   events, handled, batch, todo, op, reassigned, remote, faults>>

\* drain_projection_refresh_requests: the projection is rebuilt.
Refresh(s) ==
    /\ pc = "idle" /\ Pending = {} /\ s \in dirty
    /\ dirty' = dirty \ {s}
    /\ UNCHANGED <<assigned, jobs, linked, processed, terminal, placed, nextId, requests,
                   events, handled, session, op, reassigned, remote, faults>>

\* The process dies: run_forever starts again with what is committed.
Crash ==
    /\ pc # "idle" /\ Fault("crash")
    /\ pc' = "idle" /\ batch' = {} /\ todo' = {} /\ prepared' = {}
    /\ UNCHANGED <<store, events, handled, op, reassigned, remote>>

-----------------------------------------------------------------------------
(* submit_refinement_jobs, for one scope: jobs an earlier run has left are   *)
(* submitted first ("recover"), then cards without an active job ("list").   *)

Unlinked(s) == {r.id : r \in {a \in Active : a.scope = s /\ a.id \notin linked}}

WithoutJob(s) == {c \in Card : assigned[c] = s /\ ActiveFor(s, c) = {}}

\* _load_submission_preflight counts the jobs of a scope that a run would link.
JobsToLink(s) == Cardinality(Unlinked(s)) + Cardinality(WithoutJob(s))

OpStep(from, to) ==
    /\ op.step = from
    /\ op' = [op EXCEPT !.step = to]

\* _list_pending_local_jobs: the rows stay locked until the links are
\* committed.
OpStart(s) ==
    /\ op.step = "idle" /\ HasChildren(s)
    /\ JobsToLink(s) > 0
    /\ op' = [step |-> "recover", scope |-> s, jobs |-> Unlinked(s), cards |-> {}]
    /\ UNCHANGED <<store, events, handled, session, reassigned, remote, faults>>

OpCreate ==
    /\ OpStep("recover", "recovered") \/ OpStep("submit", "submitted")
    /\ queue' = Created(queue, op.jobs)
    /\ UNCHANGED <<store, events, handled, session, reassigned, target, faults>>

OpLink ==
    /\ OpStep("recovered", "list") \/ OpStep("submitted", "idle")
    /\ linked' = linked \cup op.jobs
    /\ UNCHANGED <<assigned, jobs, processed, terminal, placed, nextId, requests, dirty,
                   events, handled, session, reassigned, remote, faults>>

\* _list_cards_without_active_job.
OpList ==
    /\ op.step = "list"
    /\ op' = IF WithoutJob(op.scope) = {} \/ nextId > OperatorJobs THEN NoRun
             ELSE [op EXCEPT !.step = "insert", !.cards = WithoutJob(op.scope), !.jobs = {}]
    /\ UNCHANGED <<store, events, handled, session, reassigned, remote, faults>>

\* Mutant: ids numbered from zero.
NewJobsFromZero ==
    {[id |-> nextId + Cardinality({d \in op.cards : d < c}) - 1, scope |-> op.scope, card |-> c] :
        c \in op.cards}

\* The local jobs of op.cards, in the order of the card ids.
NewJobs ==
    {[id |-> nextId + Cardinality({d \in op.cards : d < c}), scope |-> op.scope, card |-> c] :
        c \in op.cards}

\* Mutant: no unique index on active jobs.
OpInsertUnchecked ==
    /\ op.step = "insert"
    /\ nextId + Cardinality(op.cards) <= MaxJobs + 1
    /\ jobs' = jobs \cup NewJobs
    /\ nextId' = nextId + Cardinality(op.cards)
    /\ op' = [op EXCEPT !.step = "submit", !.jobs = {r.id : r \in NewJobs}]
    /\ UNCHANGED <<assigned, linked, processed, terminal, placed, requests, dirty,
                   events, handled, session, reassigned, remote, faults>>

\* _create_pending_jobs: one commit, unless the unique index on active jobs
\* refuses a row made since OpList.
OpInsert ==
    /\ op.step = "insert"
    /\ IF \E c \in op.cards : ActiveFor(op.scope, c) # {}
       THEN op' = NoRun /\ UNCHANGED <<jobs, nextId>>
       ELSE /\ nextId + Cardinality(op.cards) <= MaxJobs + 1
            /\ jobs' = jobs \cup NewJobs
            /\ nextId' = nextId + Cardinality(op.cards)
            /\ op' = [op EXCEPT !.step = "submit", !.jobs = {r.id : r \in NewJobs}]
    /\ UNCHANGED <<assigned, linked, processed, terminal, placed, requests, dirty,
                   events, handled, session, reassigned, remote, faults>>

\* The run is interrupted, or a call raises after the queue has answered it
\* or not: nothing catches it.
OpDies ==
    /\ op.step # "idle" /\ Fault("crash")
    /\ op' = NoRun
    /\ UNCHANGED <<store, events, handled, session, reassigned, remote>>

-----------------------------------------------------------------------------

Runtime ==
    \/ TickEvents \/ EndBatch
    \/ \E i \in JobId : HandleEvent(i)
    \/ TickContinue \/ EndPrepare \/ CreateJobs \/ CreateFails \/ LinkJobs \/ DropRequests
    \/ \E q \in todo : Prepare(q)
    \/ \E s \in Scope : Refresh(s)

OpGoes == OpCreate \/ OpLink \/ OpList \/ OpInsert

Operator ==
    \/ \E s \in Scope : OpStart(s)
    \/ OpGoes \/ OpDies
    \/ \E c \in Card, s \in Scope : Reassign(c, s)

Workers ==
    \E i \in JobId : EndJob(i) \/ \E t \in Scope : Accept(i, t)

Next ==
    \/ Workers
    \/ \E i \in JobId : DeliverEvent(i)
    \/ Runtime
    \/ Operator
    \/ Crash

Spec == Init /\ [][Next]_vars

\* run_forever keeps ticking, and a submission run goes on or dies.
ClassificationFairness == WF_vars(Runtime) /\ WF_vars(OpGoes)

FairSpec == Spec /\ ClassificationFairness

-----------------------------------------------------------------------------
(* Properties *)

\* No card is ever put to two workers for one scope at the same time, whoever
\* submitted it and however often: local intents, idempotency keys and the
\* unique index on active jobs keep the runtime and the operator apart.
RemoteJobsExclusive ==
    \A r, s \in jobs :
        /\ r.scope = s.scope /\ r.card = s.card
        /\ queue[r.id] = "open" /\ queue[s.id] = "open"
        => r = s

\* A card the runtime has moved to a scope with children is never forgotten
\* there: it has a continuation request or a job for that scope, whatever
\* fails between the move, the request, the job and its submission (cards
\* moved by hand are the operator's business).
MovedIsContinued ==
    \A r \in jobs :
        /\ r.id \in placed /\ IsChild(r) /\ HasChildren(target[r.id])
        /\ assigned[r.card] = target[r.id] /\ r.card \notin reassigned
        => \/ \E q \in requests : q.scope = target[r.id] /\ q.card = r.card
           \/ \E s \in jobs : s.scope = target[r.id] /\ s.card = r.card

\* No accepted answer is dropped: once the event of an answer that names a
\* child is handled the card has left the scope, whatever failed in between
\* (unless it was moved by hand).
AnswersTakeEffect ==
    \A r \in jobs :
        /\ r.id \in handled /\ queue[r.id] = "accepted" /\ IsChild(r)
        /\ r.card \notin reassigned
        => assigned[r.card] # r.scope

\* An event whose job is not linked fails in every tick.
Orphaned == {k \in Pending : events[k] \notin linked}

\* "Runtime errors preserve enough local state for a later runtime tick to
\* retry unprocessed events": the events of linked jobs are handled, unless a
\* batch of orphaned ones is in front of them.
EventsHandled ==
    (Pending # Orphaned) ~> (Pending = Orphaned \/ Cardinality(Orphaned) >= PollBatch)

\* Continuation requests are drained, unless an orphaned event keeps the
\* runtime from its lower priorities.
ContinuationsDrain == (requests # {}) ~> (requests = {} \/ Orphaned # {})

\* "Continuation producer submission failures preserve the affected
\* continuation requests ... later retries reuse that local job id": every
\* request is retried until it is drained.
ContinuationsRetried == (requests # {}) ~> (requests = {})

=============================================================================
