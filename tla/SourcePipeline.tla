--------------------------- MODULE SourcePipeline ---------------------------
(***************************************************************************)
(* The source pipeline: workflow units are turned into cards by jobs of a  *)
(* remote job queue (page-to-card, card-review, card-repair), and accepted *)
(* cards are handed to knowledge ingestion.  Three processes of the        *)
(* project take part: pipeline_intake inserts units, the webhook receiver  *)
(* records the queue's notifications, and the orchestrator runs            *)
(* PipelineRuntimeService.tick in a loop, one database transaction per     *)
(* tick.  The job queue and the ingestion API are outside of it.           *)
(*                                                                         *)
(* A remote job is named by its idempotency key, <kind, owning row>: the   *)
(* queue creates at most one job per key, so the key stands for the job id *)
(* and a nullable job-id column is the set of rows where it is not null.   *)
(*                                                                         *)
(* db is what is committed and tx what the session of the running tick     *)
(* sees; remote calls take effect at once and are never rolled back, and   *)
(* neither is the candidate id sequence.                                   *)
(***************************************************************************)
EXTENDS Naturals, Sequences, FiniteSets

CONSTANTS
    NumUnits,           \* bound: workflow units that may be submitted
    MaxCandidates,      \* bound: values of the candidate id sequence
    MaxCards,           \* bound: cards of one page or repair result
    MaxFaults,          \* bound: failed calls and crashes in a behaviour
    PollBatch,          \* poll_batch_size
    ReconcileBatch,     \* reconcile_batch_size
    Verdicts,           \* what a review job may answer
    NewServicePerTick   \* TRUE for run_forever, which builds a service per tick

ASSUME ConstantsAssumption ==
    /\ NumUnits \in Nat
    /\ MaxCandidates \in Nat
    /\ MaxCards \in Nat
    /\ MaxFaults \in Nat
    /\ PollBatch \in Nat \ {0}
    /\ ReconcileBatch \in Nat \ {0}
    /\ Verdicts \subseteq {"passed", "failed", "malformed"}
    /\ NewServicePerTick \in BOOLEAN

Unit == 1..NumUnits
CandId == 1..MaxCandidates
Ordinal == 1..MaxCards

PageJob(u) == [kind |-> "page", of |-> u]
ReviewJob(c) == [kind |-> "review", of |-> c]
RepairJob(c) == [kind |-> "repair", of |-> c]

Job == [kind : {"page"}, of : Unit] \cup [kind : {"review", "repair"}, of : CandId]

\* A CardCandidate: its id, its workflow unit, and its origin (job, ordinal).
Row == [id : CandId, unit : Unit, job : Job, ordinal : Ordinal]

\* One value of the source-pipeline database, as a session sees it.
Store == [rows : SUBSET Row,
          page_to_card_job_id : SUBSET Unit,
          page_to_card_terminal_state : SUBSET Unit,
          review_job_id : SUBSET CandId,
          review_terminal_state : SUBSET CandId,
          repair_job_id : SUBSET CandId,
          repair_terminal_state : SUBSET CandId,
          ingestion_handoff_done : SUBSET CandId,
          processed : SUBSET Job]

EmptyStore ==
    [rows |-> {}, page_to_card_job_id |-> {}, page_to_card_terminal_state |-> {},
     review_job_id |-> {}, review_terminal_state |-> {},
     repair_job_id |-> {}, repair_terminal_state |-> {},
     ingestion_handoff_done |-> {}, processed |-> {}]

VARIABLES
    units,          \* workflow_units rows, committed by pipeline_intake
    events,         \* recorded webhook events, in wakeup-id order
    db,             \* the committed store
    tx,             \* the store as the running tick has changed it
    nextId,         \* the candidate id sequence
    pc,             \* what the orchestrator is doing
    batch,          \* events of the running tick not handled yet
    recUnits,       \* units the running reconcile still has to visit
    recCands,       \* candidates of the visited unit still to advance
    lastReconcile,  \* _last_reconcile_at is not None
    queue,          \* job queue: the state of each job
    cards,          \* job queue: number of cards in an accepted result
    verdict,        \* job queue: answer of an accepted review
    ingested,       \* candidates whose handoff the ingestion API accepted
    faults          \* failed calls and crashes so far

session == <<tx, pc, batch, recUnits, recCands, lastReconcile>>
remote == <<queue, cards, verdict, ingested>>
vars == <<units, events, db, tx, nextId, pc, batch, recUnits, recCands,
          lastReconcile, queue, cards, verdict, ingested, faults>>

TypeOK ==
    /\ units \subseteq Unit
    /\ events \in Seq(Job)
    /\ db \in Store
    /\ tx \in Store
    /\ nextId \in 1..(MaxCandidates + 1)
    /\ pc \in {"idle", "submit", "events", "reconcile"}
    /\ batch \subseteq Job
    /\ recUnits \subseteq Unit
    /\ recCands \subseteq CandId
    /\ lastReconcile \in BOOLEAN
    /\ queue \in [Job -> {"absent", "open", "accepted", "terminal"}]
    /\ cards \in [Job -> 0..MaxCards]
    /\ verdict \in [Job -> {"none"} \cup Verdicts]
    /\ ingested \subseteq Row
    /\ faults \in 0..MaxFaults

Init ==
    /\ units = {}
    /\ events = <<>>
    /\ db = EmptyStore
    /\ tx = EmptyStore
    /\ nextId = 1
    /\ pc = "idle"
    /\ batch = {}
    /\ recUnits = {}
    /\ recCands = {}
    /\ lastReconcile = FALSE
    /\ queue = [j \in Job |-> "absent"]
    /\ cards = [j \in Job |-> 0]
    /\ verdict = [j \in Job |-> "none"]
    /\ ingested = {}
    /\ faults = 0

-----------------------------------------------------------------------------
(* Queries *)

\* The first n of the rows of S in id order: ORDER BY id LIMIT n.
FirstOf(S, n) == {x \in S : Cardinality({y \in S : y < x}) < n}

\* The sets of rows a loop in id order over S may have got through.
Prefixes(S) == {T \in SUBSET S : \A x \in T, y \in S : y < x => y \in T}

IsRecorded(j) == \E i \in DOMAIN events : events[i] = j

Pending(d) == {i \in DOMAIN events : events[i] \notin d.processed}

MissingPageJobs(d) ==
    (units \ d.page_to_card_job_id) \ d.page_to_card_terminal_state

Outstanding(d) == d.page_to_card_job_id \ d.page_to_card_terminal_state

CandidatesOf(d, u) == {r.id : r \in {s \in d.rows : s.unit = u}}

Unreviewed(d, u) == CandidatesOf(d, u) \ d.review_job_id

\* Is some local row linked to job j?
IsLinked(d, j) ==
    \/ j.kind = "page" /\ j.of \in d.page_to_card_job_id
    \/ j.kind = "review" /\ j.of \in d.review_job_id
    \/ j.kind = "repair" /\ j.of \in d.repair_job_id

\* The units whose candidates job j produces (one, once j is linked).
UnitsOf(d, j) ==
    IF j.kind = "page" THEN {j.of}
    ELSE {r.unit : r \in {s \in d.rows : s.id = j.of}}

Ordinals(j) == {o \in Ordinal : o <= cards[j]}

\* Mutant: the origins already stored are not looked up.
MissingOrdinalsUnchecked(d, j) == Ordinals(j)

MissingOrdinals(d, j) ==
    {o \in Ordinals(j) : ~ \E r \in d.rows : r.job = j /\ r.ordinal = o}

Malformed(j) == queue[j] = "accepted" /\ verdict[j] = "malformed"

-----------------------------------------------------------------------------
(* Changes of the store *)

\* Mutant: ordinals numbered from zero next to ids numbered from one.
NewRowsFromZero(d, j, u) ==
    {[id |-> nextId + o - 1, unit |-> u, job |-> j, ordinal |-> o - 1] :
        o \in MissingOrdinals(d, j)}

\* The rows added for the cards of j that have none.  A result's rows are
\* flushed together, so either all of them are missing or none is.
NewRows(d, j, u) ==
    {[id |-> nextId + o - 1, unit |-> u, job |-> j, ordinal |-> o] :
        o \in MissingOrdinals(d, j)}

EnsureCandidates(d, j, u) == [d EXCEPT !.rows = @ \cup NewRows(d, j, u)]

IdsAfter(d, j) ==
    IF MissingOrdinals(d, j) = {} THEN nextId ELSE nextId + cards[j]

LinkReviews(d, S) == [d EXCEPT !.review_job_id = @ \cup S]

MarkTerminal(d, j) ==
    IF j.kind = "page" THEN [d EXCEPT !.page_to_card_terminal_state = @ \cup {j.of}]
    ELSE IF j.kind = "review" THEN [d EXCEPT !.review_terminal_state = @ \cup {j.of}]
    ELSE [d EXCEPT !.repair_terminal_state = @ \cup {j.of}]

MarkProcessed(d, j) == [d EXCEPT !.processed = @ \cup {j}]

\* create_jobs with an idempotency key: a job that exists is left as it is.
Created(q, J) == [j \in Job |-> IF j \in J /\ q[j] = "absent" THEN "open" ELSE q[j]]

-----------------------------------------------------------------------------
(* pipeline_intake, the job queue and the webhook receiver *)

\* PipelineIntakeService.create_run: the run and its units in one commit.
CreateRun(us) ==
    /\ us # {} /\ us \cap units = {}
    /\ units' = units \cup us
    /\ UNCHANGED <<events, db, nextId, faults, session, remote>>

\* Cards the id sequence must still number (bound MaxCandidates).
Unnumbered(d) ==
    {p \in Job \X Ordinal :
        queue[p[1]] = "accepted" /\ p[2] \in MissingOrdinals(d, p[1])}

IdsSuffice(d, n) == nextId + Cardinality(Unnumbered(d)) + n <= MaxCandidates + 1

\* A worker's submission for a page or repair job is accepted.
AcceptCards(j, n) ==
    /\ j.kind \in {"page", "repair"} /\ queue[j] = "open" /\ IdsSuffice(tx, n)
    /\ queue' = [queue EXCEPT ![j] = "accepted"]
    /\ cards' = [cards EXCEPT ![j] = n]
    /\ UNCHANGED <<units, events, db, nextId, faults, session, verdict, ingested>>

\* A worker's review is accepted.  "malformed" is passed = false without a
\* reason: the exported JSON schema allows it, ReviewResult does not.
AcceptReview(j, v) ==
    /\ j.kind = "review" /\ queue[j] = "open"
    /\ queue' = [queue EXCEPT ![j] = "accepted"]
    /\ verdict' = [verdict EXCEPT ![j] = v]
    /\ UNCHANGED <<units, events, db, nextId, faults, session, cards, ingested>>

\* The job ends without an accepted result.
EndJob(j) ==
    /\ queue[j] = "open"
    /\ queue' = [queue EXCEPT ![j] = "terminal"]
    /\ UNCHANGED <<units, events, db, nextId, faults, session, cards, verdict, ingested>>

\* The queue calls the webhook for a finished job, and record_event inserts
\* event and wakeup unless the event id is already there.
DeliverEvent(j) ==
    /\ queue[j] \in {"accepted", "terminal"}
    /\ ~ IsRecorded(j)
    /\ events' = Append(events, j)
    /\ UNCHANGED <<units, db, nextId, faults, session, remote>>

-----------------------------------------------------------------------------
(* PipelineRuntimeService.tick *)

Fault ==
    /\ faults < MaxFaults
    /\ faults' = faults + 1

\* Page jobs are created in unit order and the links wait for the commit.
\* If a call raises, nothing catches it: the session is rolled back and the
\* process starts again, with the jobs created so far.
TickSubmit ==
    LET missing == FirstOf(MissingPageJobs(db), PollBatch) IN
    /\ pc = "idle" /\ missing # {}
    /\ \E done \in Prefixes(missing) :
        /\ queue' = Created(queue, {PageJob(u) : u \in done})
        /\ IF done = missing
           THEN /\ pc' = "submit"
                /\ tx' = [db EXCEPT !.page_to_card_job_id = @ \cup missing]
                /\ UNCHANGED <<lastReconcile, faults>>
           ELSE /\ Fault
                /\ lastReconcile' = FALSE
                /\ UNCHANGED <<pc, tx>>
    /\ UNCHANGED <<units, events, db, nextId, batch, recUnits, recCands,
                   cards, verdict, ingested>>

\* Mutant: the newest wakeups first.
TickEventsNewest ==
    /\ pc = "idle" /\ MissingPageJobs(db) = {} /\ Pending(db) # {}
    /\ pc' = "events"
    /\ batch' = {events[i] : i \in
                    {k \in Pending(db) : Cardinality({l \in Pending(db) : l > k}) < PollBatch}}
    /\ UNCHANGED <<units, events, db, tx, nextId, recUnits, recCands,
                   lastReconcile, faults, remote>>

TickEvents ==
    /\ pc = "idle" /\ MissingPageJobs(db) = {} /\ Pending(db) # {}
    /\ pc' = "events"
    /\ batch' = {events[i] : i \in FirstOf(Pending(db), PollBatch)}
    /\ UNCHANGED <<units, events, db, tx, nextId, recUnits, recCands,
                   lastReconcile, faults, remote>>

Stop(d) ==
    /\ tx' = d
    /\ pc' = "idle"
    /\ batch' = {}
    /\ recUnits' = {}
    /\ recCands' = {}

Commit ==
    /\ pc # "idle" /\ batch = {} /\ recUnits = {} /\ recCands = {}
    /\ db' = tx
    /\ Stop(tx)
    /\ UNCHANGED <<units, events, nextId, lastReconcile, faults, remote>>

\* The process dies, the commit fails, or a call of the reconcile raises.
Crash ==
    /\ pc # "idle" /\ IdsSuffice(db, 0)
    /\ Fault
    /\ Stop(db)
    /\ lastReconcile' = FALSE
    /\ UNCHANGED <<units, events, db, nextId, remote>>

-----------------------------------------------------------------------------
(* process_pending_webhook_events: HandleEvent below says what a handler     *)
(* leaves alone.                                                             *)

\* j is the next event of the batch, in wakeup-id order.
NextEvent(j) ==
    /\ pc = "events" /\ j \in batch
    /\ \E i \in DOMAIN events :
           /\ events[i] = j
           /\ \A k \in DOMAIN events : events[k] \in batch => i <= k

\* The handler returned: mark_processed in the tick's transaction.
Processed(j, d) == tx' = MarkProcessed(d, j) /\ UNCHANGED faults

\* The handler raised: mark_failed keeps the wakeup, and what the handler
\* changed before it raised stays in the transaction.
Failed(d) == tx' = d /\ Fault

\* No local row is linked to the job: the handler falls through.
UnknownEvent(j) ==
    /\ ~ IsLinked(tx, j)
    /\ Processed(j, tx)
    /\ UNCHANGED <<nextId, queue, ingested>>

TerminalEvent(j) ==
    /\ IsLinked(tx, j) /\ queue[j] = "terminal"
    /\ Processed(j, MarkTerminal(tx, j))
    /\ UNCHANGED <<nextId, queue, ingested>>

HasResult(j) == IsLinked(tx, j) /\ queue[j] = "accepted"

\* Mutant: the event of a failed read is marked processed.
ReadFailsProcessed(j) ==
    /\ HasResult(j)
    /\ Failed(MarkProcessed(tx, j))
    /\ UNCHANGED <<nextId, queue, ingested>>

\* get_result raises.
ReadFails(j) ==
    /\ HasResult(j)
    /\ Failed(tx)
    /\ UNCHANGED <<nextId, queue, ingested>>

\* A page or repair result: its missing candidates are inserted, then the
\* candidates of the unit without a review job get one, in id order.  A call
\* may raise after the jobs of `linked' were created and linked, and may have
\* created its own job (`called') when only the answer was lost.
CardsResult(j) ==
    /\ HasResult(j) /\ j.kind \in {"page", "repair"}
    /\ nextId' = IdsAfter(tx, j) /\ nextId' <= MaxCandidates + 1
    /\ \E u \in UnitsOf(tx, j) :
        LET d == EnsureCandidates(tx, j, u)
            S == Unreviewed(d, u)
        IN  \E called \in Prefixes(S) :
              \E linked \in Prefixes(called) :
                /\ Cardinality(called \ linked) <= 1
                /\ queue' = Created(queue, {ReviewJob(c) : c \in called})
                /\ IF linked = S THEN Processed(j, LinkReviews(d, S))
                   ELSE Failed(LinkReviews(d, linked))
    /\ UNCHANGED ingested

\* Mutant: the handoff is recorded before the API was called.
HandoffRecordedFirst(j) ==
    /\ HasResult(j) /\ j.kind = "review" /\ verdict[j] = "passed"
    /\ Failed([tx EXCEPT !.ingestion_handoff_done = @ \cup {j.of}])
    /\ UNCHANGED <<nextId, queue, ingested>>

\* A passed review: handoff, unless the row says it was done.  The handoff
\* may raise, before or after the API accepted the card.
ReviewPassed(j) ==
    LET handed == ingested \cup {r \in tx.rows : r.id = j.of} IN
    /\ HasResult(j) /\ j.kind = "review" /\ verdict[j] = "passed"
    /\ IF j.of \in tx.ingestion_handoff_done
       THEN Processed(j, tx) /\ UNCHANGED ingested
       ELSE \/ /\ ingested' = handed
               /\ Processed(j, [tx EXCEPT !.ingestion_handoff_done = @ \cup {j.of}])
            \/ ingested' \in {ingested, handed} /\ Failed(tx)
    /\ UNCHANGED <<nextId, queue>>

\* Mutant: a repair job whatever the review said.
RepairAnyReview(j) ==
    /\ HasResult(j) /\ j.kind = "review"
    /\ queue' = Created(queue, {RepairJob(j.of)})
    /\ Processed(j, [tx EXCEPT !.repair_job_id = @ \cup {j.of}])
    /\ UNCHANGED <<nextId, ingested>>

\* A failed review: a repair job, unless the row has one.  The call may
\* raise, before or after the job was created.
ReviewFailed(j) ==
    LET asked == Created(queue, {RepairJob(j.of)}) IN
    /\ HasResult(j) /\ j.kind = "review" /\ verdict[j] = "failed"
    /\ IF j.of \in tx.repair_job_id
       THEN Processed(j, tx) /\ UNCHANGED queue
       ELSE \/ /\ queue' = asked
               /\ Processed(j, [tx EXCEPT !.repair_job_id = @ \cup {j.of}])
            \/ queue' \in {queue, asked} /\ Failed(tx)
    /\ UNCHANGED <<nextId, ingested>>

\* ReviewResult rejects the payload, now and on every later tick.
ReviewMalformed(j) ==
    /\ HasResult(j) /\ j.kind = "review" /\ verdict[j] = "malformed"
    /\ UNCHANGED <<tx, faults, nextId, queue, ingested>>

HandleEvent(j) ==
    /\ NextEvent(j)
    /\ batch' = batch \ {j}
    /\ \/ UnknownEvent(j) \/ TerminalEvent(j) \/ ReadFails(j) \/ CardsResult(j)
       \/ ReviewPassed(j) \/ ReviewFailed(j) \/ ReviewMalformed(j)
    /\ UNCHANGED <<units, events, db, pc, recUnits, recCands, lastReconcile,
                   cards, verdict>>

-----------------------------------------------------------------------------
(* run_low_frequency_reconcile.  An error in it is not caught: Crash. *)

Quiet == pc = "idle" /\ MissingPageJobs(db) = {} /\ Pending(db) = {}

\* Mutant: the service object does not survive its tick.
FirstReconcileForgotten == Quiet /\ ~ lastReconcile /\ UNCHANGED vars

\* The first call on a service object only notes the time.  run_forever
\* then drops the object.
FirstReconcile ==
    /\ Quiet /\ ~ lastReconcile
    /\ lastReconcile' = ~ NewServicePerTick
    /\ UNCHANGED <<units, events, db, tx, nextId, pc, batch, recUnits, recCands,
                   faults, remote>>

\* Mutant: the newest units first.
TickReconcileNewest ==
    /\ Quiet /\ lastReconcile
    /\ pc' = "reconcile"
    /\ recUnits' = {u \in Outstanding(db) : Cardinality({v \in Outstanding(db) : v > u}) < ReconcileBatch}
    /\ UNCHANGED <<units, events, db, tx, nextId, batch, recCands, lastReconcile,
                   faults, remote>>

\* reconcile_interval has elapsed since the last one.
TickReconcile ==
    /\ Quiet /\ lastReconcile
    /\ pc' = "reconcile"
    /\ recUnits' = FirstOf(Outstanding(db), ReconcileBatch)
    /\ UNCHANGED <<units, events, db, tx, nextId, batch, recCands, lastReconcile,
                   faults, remote>>

\* get_result of the next unit's page job; recCands is the list that
\* _advance_candidates goes through.
ReconcileUnit(u) ==
    LET j == PageJob(u)
        d == EnsureCandidates(tx, j, u)
    IN
    /\ pc = "reconcile" /\ recCands = {} /\ u \in FirstOf(recUnits, 1)
    /\ recUnits' = recUnits \ {u}
    /\ \/ /\ queue[j] = "accepted"
          /\ nextId' = IdsAfter(tx, j) /\ nextId' <= MaxCandidates + 1
          /\ tx' = d
          /\ recCands' = CandidatesOf(d, u)
       \/ /\ queue[j] = "terminal"
          /\ tx' = MarkTerminal(tx, j)
          /\ UNCHANGED <<nextId, recCands>>
       \/ /\ queue[j] = "open"
          /\ UNCHANGED <<tx, nextId, recCands>>
    /\ UNCHANGED <<units, events, db, pc, batch, lastReconcile, faults, remote>>

\* _advance_candidates for a candidate whose review was accepted.
ReconcileReviewed(c) ==
    LET review == ReviewJob(c)
        repair == RepairJob(c)
    IN
    \/ /\ verdict[review] = "passed"
       /\ ingested' = IF c \in tx.ingestion_handoff_done THEN ingested
                      ELSE ingested \cup {r \in tx.rows : r.id = c}
       /\ tx' = [tx EXCEPT !.ingestion_handoff_done = @ \cup {c}]
       /\ UNCHANGED <<queue, nextId>>
    \/ /\ verdict[review] = "failed" /\ c \notin tx.repair_job_id
       /\ queue' = Created(queue, {repair})
       /\ tx' = [tx EXCEPT !.repair_job_id = @ \cup {c}]
       /\ UNCHANGED <<nextId, ingested>>
    \/ /\ verdict[review] = "failed" /\ c \in tx.repair_job_id
       /\ \/ /\ c \in tx.repair_terminal_state \/ queue[repair] = "open"
             /\ UNCHANGED <<tx, nextId>>
          \/ /\ c \notin tx.repair_terminal_state /\ queue[repair] = "terminal"
             /\ tx' = MarkTerminal(tx, repair)
             /\ UNCHANGED nextId
          \/ /\ c \notin tx.repair_terminal_state /\ queue[repair] = "accepted"
             /\ nextId' = IdsAfter(tx, repair) /\ nextId' <= MaxCandidates + 1
             /\ \E u \in UnitsOf(tx, repair) : tx' = EnsureCandidates(tx, repair, u)
       /\ UNCHANGED <<queue, ingested>>

\* One turn of the loop of _advance_candidates.
ReconcileCandidate(c) ==
    LET review == ReviewJob(c) IN
    /\ pc = "reconcile" /\ c \in FirstOf(recCands, 1)
    /\ recCands' = recCands \ {c}
    /\ \/ /\ c \notin tx.review_job_id
          /\ queue' = Created(queue, {review})
          /\ tx' = LinkReviews(tx, {c})
          /\ UNCHANGED <<nextId, ingested>>
       \/ /\ c \in tx.review_job_id
          /\ c \in tx.review_terminal_state \/ queue[review] = "open"
          /\ UNCHANGED <<queue, tx, nextId, ingested>>
       \/ /\ c \in tx.review_job_id \ tx.review_terminal_state
          /\ queue[review] = "terminal"
          /\ tx' = MarkTerminal(tx, review)
          /\ UNCHANGED <<queue, nextId, ingested>>
       \/ /\ c \in tx.review_job_id \ tx.review_terminal_state
          /\ queue[review] = "accepted"
          /\ ReconcileReviewed(c)
    /\ UNCHANGED <<units, events, db, pc, batch, recUnits, lastReconcile, faults,
                   cards, verdict>>

\* ReviewResult rejects the payload: the tick is rolled back, every time.
ReconcileMalformed(c) ==
    /\ pc = "reconcile" /\ c \in FirstOf(recCands, 1)
    /\ c \in tx.review_job_id /\ Malformed(ReviewJob(c)) /\ IdsSuffice(db, 0)
    /\ Stop(db)
    /\ lastReconcile' = FALSE
    /\ UNCHANGED <<units, events, db, nextId, faults, remote>>

-----------------------------------------------------------------------------

Workers ==
    \E j \in Job :
        \/ \E n \in 0..MaxCards : AcceptCards(j, n)
        \/ \E v \in Verdicts : AcceptReview(j, v)
        \/ EndJob(j)

Reconcile ==
    \/ FirstReconcile
    \/ TickReconcile
    \/ \E u \in Unit : ReconcileUnit(u)
    \/ \E c \in CandId : ReconcileCandidate(c) \/ ReconcileMalformed(c)

Orchestrator ==
    \/ TickSubmit
    \/ TickEvents
    \/ \E j \in Job : HandleEvent(j)
    \/ Reconcile
    \/ Commit

Next ==
    \/ \E us \in SUBSET Unit : CreateRun(us)
    \/ Workers
    \/ \E j \in Job : DeliverEvent(j)
    \/ Orchestrator
    \/ Crash

Spec == Init /\ [][Next]_vars

-----------------------------------------------------------------------------
(* Properties *)

Finished(j) == queue[j] \in {"accepted", "terminal"}

\* The row job j was created for is in store d.
HasOwner(d, j) ==
    IF j.kind = "page" THEN j.of \in units ELSE \E r \in d.rows : r.id = j.of

\* Store d holds everything the runtime does about the end of job j.
Advanced(d, j) ==
    \/ /\ queue[j] = "terminal"
       /\ MarkTerminal(d, j) = d
    \/ /\ queue[j] = "accepted" /\ j.kind \in {"page", "repair"}
       /\ MissingOrdinals(d, j) = {}
       /\ \A r \in d.rows : r.job = j => r.id \in d.review_job_id
    \/ /\ queue[j] = "accepted" /\ j.kind = "review" /\ verdict[j] = "passed"
       /\ j.of \in d.ingestion_handoff_done
    \/ /\ queue[j] = "accepted" /\ j.kind = "review" /\ verdict[j] = "failed"
       /\ j.of \in d.repair_job_id

\* Retried and re-read results never insert a card of a result twice, and a
\* candidate id names one card (_ensure_initial_candidates,
\* _ensure_child_candidates after a failed or crashed tick).
OneCandidatePerCard ==
    \A r, s \in tx.rows :
        (r.id = s.id \/ (r.job = s.job /\ r.ordinal = s.ordinal)) => r = s

\* The ingestion API gets at most one idempotency key for a card, although a
\* rolled-back tick leaves its candidate ids behind: a handoff is only made
\* for a candidate some earlier tick has committed.
IngestedOncePerCard ==
    /\ ingested \subseteq db.rows
    /\ \A r, s \in ingested : r.job = s.job /\ r.ordinal = s.ordinal => r = s

\* A card reaches ingestion only through its own passed review, and a card
\* is never both ingested and sent to repair; a repair job exists only for a
\* candidate whose review failed, and a candidate only for a card some
\* accepted result holds.
LineageSound ==
    /\ \A r \in ingested :
           /\ queue[ReviewJob(r.id)] = "accepted"
           /\ verdict[ReviewJob(r.id)] = "passed"
    /\ \A c \in CandId :
           queue[RepairJob(c)] # "absent" => verdict[ReviewJob(c)] = "failed"
    /\ \A r \in tx.rows : queue[r.job] = "accepted" /\ r.ordinal <= cards[r.job]

\* What a store says was done remotely was done: no tick, however it ends,
\* records a job that was not created or a handoff that was not accepted.
RecordsAreBacked ==
    \A d \in {db, tx} :
        /\ \A u \in d.page_to_card_job_id : queue[PageJob(u)] # "absent"
        /\ \A c \in d.review_job_id : queue[ReviewJob(c)] # "absent"
        /\ \A c \in d.repair_job_id : queue[RepairJob(c)] # "absent"
        /\ \A c \in d.ingestion_handoff_done : \E r \in ingested : r.id = c

\* Mutant: the key names the unit.
HandoffKeyOfUnit(r) == r.unit

\* _idempotency_key of the handoff.
HandoffKey(r) == r.id

Acceptance == INSTANCE AcceptOnce WITH
    Key <- CandId,
    Card <- [job : Job, ordinal : Ordinal],
    accepted <- {[key |-> HandoffKey(r), card |-> [job |-> r.job, ordinal |-> r.ordinal]] :
                    r \in ingested}

\* The pipeline keeps its side of AcceptOnce: it never offers two cards under
\* one key, so no handoff is ever answered with 409, and retries of a
\* handoff are replays.
HandoffsAcceptOnce == Acceptance!Spec

\* "marks local events processed only after the matching source-pipeline
\* state advancement has completed".  The end of a page-to-card job is never
\* dropped, whatever fails and however often (the tick submits missing page
\* jobs, and so recovers lost links, before it looks at events): once its event
\* is processed its cards are candidates with review jobs, or its terminal
\* state is recorded.  With one failure at most the same holds of every job
\* whose candidate is stored.
ProcessedImpliesAdvanced ==
    \A j \in db.processed :
        j.kind = "page" \/ (faults <= 1 /\ HasOwner(db, j)) => Advanced(db, j)

\* Every PollBatch-th place at the head of the pending events is taken by an
\* event whose handler can only fail.
Starved ==
    Cardinality({i \in Pending(db) : Malformed(events[i])}) >= PollBatch

\* The end of every job of the pipeline is acted upon.
FinishedJobsAdvance ==
    \A j \in Job :
        (Finished(j) /\ HasOwner(db, j)) ~> Advanced(db, j)

\* With one failure at most the end of every job is acted upon, unless its
\* payload can never be parsed or a whole batch of such events is in front of it.
WellFormedJobsAdvance ==
    []( faults <= 1 ) =>
        \A j \in Job :
            (Finished(j) /\ HasOwner(db, j)) ~> (Advanced(db, j) \/ Malformed(j) \/ Starved)

\* A tick reconciles only when no event is pending; an error in it takes back
\* what it did for all units; and it visits the first ReconcileBatch of the
\* outstanding units, which a unit with an accepted page result never leaves.
LeftBehind(j) ==
    LET visited == FirstOf(Outstanding(db), ReconcileBatch)
    IN  \/ \E i \in Pending(db) : Malformed(events[i])
        \/ \E r \in db.rows : r.unit \in visited /\ r.id \in db.review_job_id /\ Malformed(ReviewJob(r.id))
        \/ UnitsOf(db, j) \cap visited = {}

HasPendingEvent(j) == \E i \in Pending(db) : events[i] = j

\* A service object that lives makes up for what the events miss: with one
\* failure at most the end of every job is acted upon, whether its event comes
\* and whether it was handled too early, unless one of these lasts for ever:
\* its payload cannot be parsed, or its event has a whole batch of such events
\* in front of it, or no event of it is pending and the reconcile is kept from
\* it, by such a payload of any unit or by as many older units as it visits.
ReconcileMakesUp ==
    []( faults <= 1 ) =>
        \A j \in Job :
            (Finished(j) /\ HasOwner(db, j)) ~>
                (Advanced(db, j) \/ [](Malformed(j) \/ IF HasPendingEvent(j) THEN Starved ELSE LeftBehind(j)))

-----------------------------------------------------------------------------
(* Fairness: run_forever keeps ticking (its container is restarted), and     *)
(* the queue retries a webhook call until it is answered.  LossySpec leaves  *)
(* the second out: the notification may never come.                          *)

LossySpec == Spec /\ WF_vars(Orchestrator)

FairSpec == LossySpec /\ \A j \in Job : WF_vars(DeliverEvent(j))

=============================================================================
