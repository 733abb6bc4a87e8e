------------------------ MODULE SourcePipelineProofs ------------------------
(***************************************************************************)
(* Type correctness of the source pipeline, and the theorems that a card   *)
(* is stored once and handed to ingestion under one idempotency key only,  *)
(* that its lineage is sound, that what the store records is true and that *)
(* an event is marked processed only after what follows from its job is    *)
(* done; for every number of units, candidates, cards, faults and every    *)
(* batch size.                                                             *)
(***************************************************************************)
EXTENDS SourcePipeline, FiniteSetTheorems, TLAPS

-----------------------------------------------------------------------------
(* The operators on stores *)

LEMMA JobKinds ==
    ASSUME NEW j \in Job
    PROVE  /\ j.kind \in {"page", "review", "repair"}
           /\ j.kind = "page" => j.of \in Unit /\ j = PageJob(j.of)
           /\ j.kind = "review" => j.of \in CandId /\ j = ReviewJob(j.of)
           /\ j.kind = "repair" => j.of \in CandId /\ j = RepairJob(j.of)
    BY DEF Job, PageJob, ReviewJob, RepairJob

LEMMA JobNames ==
    /\ \A u \in Unit : PageJob(u) \in Job
    /\ \A c \in CandId : ReviewJob(c) \in Job /\ RepairJob(c) \in Job
    /\ \A c, d \in CandId : ReviewJob(c) = ReviewJob(d) => c = d
    /\ \A c, d \in CandId : ReviewJob(c) # RepairJob(d)
    /\ \A u \in Unit, c \in CandId : ReviewJob(c) # PageJob(u)
    BY DEF Job, PageJob, ReviewJob, RepairJob

\* The rows added for a result are rows, their ids start at the sequence
\* value and end before its next value, and each has its own ordinal.
LEMMA NewRowsType ==
    ASSUME TypeOK, NEW d \in Store, NEW j \in Job, NEW u \in Unit,
           IdsAfter(d, j) <= MaxCandidates + 1
    PROVE  /\ NewRows(d, j, u) \subseteq Row
           /\ IdsAfter(d, j) \in 1..(MaxCandidates + 1)
           /\ nextId <= IdsAfter(d, j)
           /\ \A r \in NewRows(d, j, u) :
                  /\ nextId <= r.id /\ r.id < IdsAfter(d, j)
                  /\ r.unit = u /\ r.job = j
                  /\ r.id = nextId + r.ordinal - 1
                  /\ \A s \in d.rows : ~ (s.job = j /\ s.ordinal = r.ordinal)
  <1> nextId \in Nat /\ nextId >= 1 /\ cards[j] \in Nat /\ MaxCandidates \in Nat
    BY ConstantsAssumption DEF TypeOK
  <1>1. ASSUME NEW o \in MissingOrdinals(d, j)
        PROVE  /\ o \in Ordinal /\ o \in Nat /\ o >= 1 /\ o <= cards[j]
               /\ IdsAfter(d, j) = nextId + cards[j]
               /\ nextId + o - 1 \in CandId
    <2>1. o \in Ordinal /\ o <= cards[j]
      BY DEF MissingOrdinals, Ordinals
    <2>2. IdsAfter(d, j) = nextId + cards[j]
      BY DEF IdsAfter
    <2>3. QED
      BY <2>1, <2>2, ConstantsAssumption DEF Ordinal, CandId
  <1>2. NewRows(d, j, u) \subseteq Row
    BY <1>1 DEF NewRows, Row
  <1>3. IdsAfter(d, j) \in 1..(MaxCandidates + 1) /\ nextId <= IdsAfter(d, j)
    BY DEF IdsAfter, TypeOK
  <1>4. ASSUME NEW r \in NewRows(d, j, u)
        PROVE  /\ nextId <= r.id /\ r.id < IdsAfter(d, j)
               /\ r.unit = u /\ r.job = j
               /\ r.id = nextId + r.ordinal - 1
               /\ \A s \in d.rows : ~ (s.job = j /\ s.ordinal = r.ordinal)
    <2>1. PICK o \in MissingOrdinals(d, j) :
              r = [id |-> nextId + o - 1, unit |-> u, job |-> j, ordinal |-> o]
      BY DEF NewRows
    <2>2. \A s \in d.rows : ~ (s.job = j /\ s.ordinal = o)
      BY DEF MissingOrdinals
    <2>3. QED
      BY <2>1, <2>2, <1>1
  <1>5. QED
    BY <1>2, <1>3, <1>4

LEMMA EnsureCandidatesType ==
    ASSUME TypeOK, NEW d \in Store, NEW j \in Job, NEW u \in Unit,
           IdsAfter(d, j) <= MaxCandidates + 1
    PROVE  /\ EnsureCandidates(d, j, u) \in Store
           /\ EnsureCandidates(d, j, u).rows = d.rows \cup NewRows(d, j, u)
           /\ EnsureCandidates(d, j, u).review_job_id = d.review_job_id
    BY NewRowsType DEF EnsureCandidates, Store

LEMMA LinkReviewsType ==
    ASSUME NEW d \in Store, NEW S \in SUBSET CandId
    PROVE  /\ LinkReviews(d, S) \in Store
           /\ LinkReviews(d, S).rows = d.rows
           /\ LinkReviews(d, S).review_job_id = d.review_job_id \cup S
    BY DEF LinkReviews, Store

LEMMA MarkTerminalType ==
    ASSUME NEW d \in Store, NEW j \in Job
    PROVE  /\ MarkTerminal(d, j) \in Store
           /\ MarkTerminal(d, j).rows = d.rows
           /\ MarkTerminal(d, j).review_job_id = d.review_job_id
    BY JobKinds DEF MarkTerminal, Store

LEMMA MarkProcessedType ==
    ASSUME NEW d \in Store, NEW j \in Job
    PROVE  /\ MarkProcessed(d, j) \in Store
           /\ MarkProcessed(d, j).rows = d.rows
           /\ MarkProcessed(d, j).review_job_id = d.review_job_id
    BY DEF MarkProcessed, Store

LEMMA FlagTypes ==
    ASSUME NEW d \in Store, NEW c \in CandId
    PROVE  /\ [d EXCEPT !.ingestion_handoff_done = @ \cup {c}] \in Store
           /\ [d EXCEPT !.ingestion_handoff_done = @ \cup {c}].rows = d.rows
           /\ [d EXCEPT !.ingestion_handoff_done = @ \cup {c}].review_job_id = d.review_job_id
           /\ [d EXCEPT !.repair_job_id = @ \cup {c}] \in Store
           /\ [d EXCEPT !.repair_job_id = @ \cup {c}].rows = d.rows
           /\ [d EXCEPT !.repair_job_id = @ \cup {c}].review_job_id = d.review_job_id
    BY DEF Store

LEMMA CandidatesOfType ==
    ASSUME NEW d \in Store, NEW u
    PROVE  CandidatesOf(d, u) \in SUBSET CandId /\ Unreviewed(d, u) \in SUBSET CandId
    BY DEF CandidatesOf, Unreviewed, Store, Row

LEMMA UnitsOfType ==
    ASSUME NEW d \in Store, NEW j \in Job
    PROVE  UnitsOf(d, j) \subseteq Unit
    BY JobKinds DEF UnitsOf, Store, Row

LEMMA CreatedType ==
    ASSUME NEW q \in [Job -> {"absent", "open", "accepted", "terminal"}], NEW J
    PROVE  Created(q, J) \in [Job -> {"absent", "open", "accepted", "terminal"}]
    BY DEF Created

LEMMA Subsets ==
    ASSUME NEW S, NEW n
    PROVE  FirstOf(S, n) \subseteq S /\ \A T \in Prefixes(S) : T \subseteq S
    BY DEF FirstOf, Prefixes

LEMMA EmptyStoreType == EmptyStore \in Store /\ EmptyStore.rows = {}
    BY DEF EmptyStore, Store

-----------------------------------------------------------------------------
(* Type correctness *)

LEMMA TypeHandleEvent ==
    ASSUME TypeOK, NEW j \in Job, HandleEvent(j)
    PROVE  TypeOK'
  <1> USE DEF TypeOK
  <1>1. /\ batch' \subseteq Job
        /\ UNCHANGED <<units, events, db, pc, recUnits, recCands, lastReconcile,
                       cards, verdict>>
    BY DEF HandleEvent
  <1>2. /\ nextId' \in 1..(MaxCandidates + 1)
        /\ tx' \in Store
        /\ queue' \in [Job -> {"absent", "open", "accepted", "terminal"}]
        /\ ingested' \subseteq Row
        /\ faults' \in 0..MaxFaults
    <2> DEFINE Goal == /\ nextId' \in 1..(MaxCandidates + 1)
                       /\ tx' \in Store
                       /\ queue' \in [Job -> {"absent", "open", "accepted", "terminal"}]
                       /\ ingested' \subseteq Row
                       /\ faults' \in 0..MaxFaults
    <2>f. ASSUME Fault PROVE faults' \in 0..MaxFaults
      BY <2>f, ConstantsAssumption DEF Fault
    <2>1. CASE UnknownEvent(j)
      BY <2>1, MarkProcessedType DEF UnknownEvent, Processed
    <2>2. CASE TerminalEvent(j)
      <3>1. MarkTerminal(tx, j) \in Store
        BY MarkTerminalType
      <3>2. QED
        BY <2>2, <3>1, MarkProcessedType DEF TerminalEvent, Processed
    <2>3. CASE ReadFails(j)
      BY <2>3, <2>f DEF ReadFails, Failed
    <2>4. CASE CardsResult(j)
      <3>1. nextId' = IdsAfter(tx, j) /\ IdsAfter(tx, j) <= MaxCandidates + 1
        BY <2>4 DEF CardsResult
      <3> DEFINE d(u) == EnsureCandidates(tx, j, u)
                 S(u) == Unreviewed(d(u), u)
      <3>u. PICK u \in UnitsOf(tx, j) :
              \E called \in Prefixes(S(u)) : \E linked \in Prefixes(called) :
                /\ queue' = Created(queue, {ReviewJob(c) : c \in called})
                /\ IF linked = S(u) THEN Processed(j, LinkReviews(d(u), S(u)))
                   ELSE Failed(LinkReviews(d(u), linked))
        BY <2>4 DEF CardsResult
      <3>c. PICK called \in Prefixes(S(u)) : \E linked \in Prefixes(called) :
              /\ queue' = Created(queue, {ReviewJob(c) : c \in called})
              /\ IF linked = S(u) THEN Processed(j, LinkReviews(d(u), S(u)))
                 ELSE Failed(LinkReviews(d(u), linked))
        BY <3>u
      <3>2. PICK linked \in Prefixes(called) :
              /\ queue' = Created(queue, {ReviewJob(c) : c \in called})
              /\ IF linked = S(u) THEN Processed(j, LinkReviews(d(u), S(u)))
                 ELSE Failed(LinkReviews(d(u), linked))
        BY <3>c
      <3>3. u \in Unit
        BY <3>u, UnitsOfType
      <3>4. d(u) \in Store
        BY <3>1, <3>3, EnsureCandidatesType
      <3>5. S(u) \in SUBSET CandId /\ linked \in SUBSET CandId
        BY <3>u, <3>c, <3>2, <3>4, CandidatesOfType, Subsets
      <3>6. LinkReviews(d(u), S(u)) \in Store /\ LinkReviews(d(u), linked) \in Store
        BY <3>4, <3>5, LinkReviewsType
      <3>7. tx' \in Store
        BY <3>2, <3>6, MarkProcessedType DEF Processed, Failed
      <3>8. faults' \in 0..MaxFaults
        BY <3>2, <2>f DEF Processed, Failed
      <3>9. nextId' \in 1..(MaxCandidates + 1)
        BY <3>1, <3>3, NewRowsType
      <3>10. queue' \in [Job -> {"absent", "open", "accepted", "terminal"}]
        BY <3>2, CreatedType
      <3>11. ingested' \subseteq Row
        BY <2>4 DEF CardsResult
      <3>12. QED
        BY <3>7, <3>8, <3>9, <3>10, <3>11
    <2>5. CASE ReviewPassed(j)
      <3>1. j.of \in CandId
        BY <2>5, JobKinds DEF ReviewPassed
      <3>2. [tx EXCEPT !.ingestion_handoff_done = @ \cup {j.of}] \in Store
        BY <3>1, FlagTypes
      <3>3. {r \in tx.rows : r.id = j.of} \subseteq Row
        BY DEF Store
      <3>4. QED
        BY <2>5, <2>f, <3>2, <3>3, MarkProcessedType DEF ReviewPassed, Processed, Failed
    <2>6. CASE ReviewFailed(j)
      <3>1. j.of \in CandId
        BY <2>6, JobKinds DEF ReviewFailed
      <3>2. [tx EXCEPT !.repair_job_id = @ \cup {j.of}] \in Store
        BY <3>1, FlagTypes
      <3>3. Created(queue, {RepairJob(j.of)})
              \in [Job -> {"absent", "open", "accepted", "terminal"}]
        BY CreatedType
      <3>4. UNCHANGED <<nextId, ingested>>
        BY <2>6 DEF ReviewFailed
      <3>5. CASE Processed(j, tx) /\ UNCHANGED queue
        BY <3>4, <3>5, MarkProcessedType DEF Processed
      <3>6. CASE /\ queue' = Created(queue, {RepairJob(j.of)})
                 /\ Processed(j, [tx EXCEPT !.repair_job_id = @ \cup {j.of}])
        BY <3>2, <3>3, <3>4, <3>6, MarkProcessedType DEF Processed
      <3>7. CASE queue' \in {queue, Created(queue, {RepairJob(j.of)})} /\ Failed(tx)
        BY <2>f, <3>3, <3>4, <3>7 DEF Failed
      <3>8. QED
        BY <2>6, <3>5, <3>6, <3>7 DEF ReviewFailed
    <2>7. CASE ReviewMalformed(j)
      BY <2>7 DEF ReviewMalformed
    <2>8. QED
      BY <2>1, <2>2, <2>3, <2>4, <2>5, <2>6, <2>7 DEF HandleEvent
  <1>3. QED
    BY <1>1, <1>2

LEMMA TypeReconcileUnit ==
    ASSUME TypeOK, NEW u \in Unit, ReconcileUnit(u)
    PROVE  TypeOK'
  <1> USE DEF TypeOK
  <1> DEFINE j == PageJob(u)
             d == EnsureCandidates(tx, j, u)
  <1>1. j \in Job
    BY JobNames
  <1>2. /\ recUnits' \subseteq Unit
        /\ UNCHANGED <<units, events, db, pc, batch, lastReconcile, faults, remote>>
    BY DEF ReconcileUnit
  <1>3. /\ tx' \in Store
        /\ nextId' \in 1..(MaxCandidates + 1)
        /\ recCands' \subseteq CandId
    <2>1. CASE /\ nextId' = IdsAfter(tx, j) /\ nextId' <= MaxCandidates + 1
               /\ tx' = d
               /\ recCands' = CandidatesOf(d, u)
      <3>1. d \in Store /\ nextId' \in 1..(MaxCandidates + 1)
        BY <2>1, <1>1, EnsureCandidatesType, NewRowsType
      <3>2. QED
        BY <2>1, <3>1, CandidatesOfType
    <2>2. CASE tx' = MarkTerminal(tx, j) /\ UNCHANGED <<nextId, recCands>>
      BY <2>2, <1>1, MarkTerminalType
    <2>3. CASE UNCHANGED <<tx, nextId, recCands>>
      BY <2>3
    <2>4. QED
      BY <2>1, <2>2, <2>3 DEF ReconcileUnit
  <1>4. QED
    BY <1>2, <1>3 DEF remote

LEMMA TypeReconcileCandidate ==
    ASSUME TypeOK, NEW c \in CandId, ReconcileCandidate(c)
    PROVE  TypeOK'
  <1> USE DEF TypeOK
  <1>1. /\ recCands' \subseteq CandId
        /\ UNCHANGED <<units, events, db, pc, batch, recUnits, lastReconcile, faults,
                       cards, verdict>>
    BY DEF ReconcileCandidate
  <1>2. ReviewJob(c) \in Job /\ RepairJob(c) \in Job
    BY JobNames
  <1>3. /\ tx' \in Store
        /\ nextId' \in 1..(MaxCandidates + 1)
        /\ queue' \in [Job -> {"absent", "open", "accepted", "terminal"}]
        /\ ingested' \subseteq Row
    <2>1. CASE /\ queue' = Created(queue, {ReviewJob(c)})
               /\ tx' = LinkReviews(tx, {c})
               /\ UNCHANGED <<nextId, ingested>>
      BY <2>1, LinkReviewsType, CreatedType
    <2>2. CASE UNCHANGED <<queue, tx, nextId, ingested>>
      BY <2>2
    <2>3. CASE tx' = MarkTerminal(tx, ReviewJob(c)) /\ UNCHANGED <<queue, nextId, ingested>>
      BY <2>3, <1>2, MarkTerminalType
    <2>4. CASE ReconcileReviewed(c)
      <3>1. CASE /\ ingested' = IF c \in tx.ingestion_handoff_done THEN ingested
                                ELSE ingested \cup {r \in tx.rows : r.id = c}
                 /\ tx' = [tx EXCEPT !.ingestion_handoff_done = @ \cup {c}]
                 /\ UNCHANGED <<queue, nextId>>
        <4>1. {r \in tx.rows : r.id = c} \subseteq Row
          BY DEF Store
        <4>2. QED
          BY <3>1, <4>1, FlagTypes
      <3>2. CASE /\ queue' = Created(queue, {RepairJob(c)})
                 /\ tx' = [tx EXCEPT !.repair_job_id = @ \cup {c}]
                 /\ UNCHANGED <<nextId, ingested>>
        BY <3>2, FlagTypes, CreatedType
      <3>3. CASE UNCHANGED <<tx, nextId, queue, ingested>>
        BY <3>3
      <3>4. CASE tx' = MarkTerminal(tx, RepairJob(c)) /\ UNCHANGED <<nextId, queue, ingested>>
        BY <3>4, <1>2, MarkTerminalType
      <3>5. CASE /\ nextId' = IdsAfter(tx, RepairJob(c)) /\ nextId' <= MaxCandidates + 1
                 /\ \E u \in UnitsOf(tx, RepairJob(c)) :
                        tx' = EnsureCandidates(tx, RepairJob(c), u)
                 /\ UNCHANGED <<queue, ingested>>
        <4>1. PICK u \in Unit : tx' = EnsureCandidates(tx, RepairJob(c), u)
          BY <3>5, <1>2, UnitsOfType
        <4>2. QED
          BY <3>5, <4>1, <1>2, EnsureCandidatesType, NewRowsType
      <3>6. QED
        BY <2>4, <3>1, <3>2, <3>3, <3>4, <3>5 DEF ReconcileReviewed
    <2>5. QED
      BY <2>1, <2>2, <2>3, <2>4 DEF ReconcileCandidate
  <1>4. QED
    BY <1>1, <1>3

\* Every variable keeps its type in every step (SourcePipeline's TypeOK).
THEOREM TypeCorrect == Spec => []TypeOK
  <1>1. Init => TypeOK
    <2> SUFFICES ASSUME Init PROVE TypeOK
      OBVIOUS
    <2>1. events \in Seq(Job)
      BY DEF Init
    <2>2. /\ queue \in [Job -> {"absent", "open", "accepted", "terminal"}]
          /\ cards \in [Job -> 0..MaxCards]
          /\ verdict \in [Job -> {"none"} \cup Verdicts]
      BY ConstantsAssumption DEF Init
    <2>3. db \in Store /\ tx \in Store
      BY EmptyStoreType DEF Init
    <2>4. nextId \in 1..(MaxCandidates + 1) /\ faults \in 0..MaxFaults
      <3>1. nextId = 1 /\ faults = 0
        BY DEF Init
      <3>2. QED
        BY <3>1, ConstantsAssumption
    <2>5. /\ units \subseteq Unit /\ batch \subseteq Job /\ recUnits \subseteq Unit
          /\ recCands \subseteq CandId /\ ingested \subseteq Row
          /\ lastReconcile \in BOOLEAN
          /\ pc \in {"idle", "submit", "events", "reconcile"}
      BY DEF Init
    <2>6. QED
      BY <2>1, <2>2, <2>3, <2>4, <2>5 DEF TypeOK
  <1>2. TypeOK /\ [Next]_vars => TypeOK'
    <2> SUFFICES ASSUME TypeOK, [Next]_vars PROVE TypeOK'
      OBVIOUS
    <2> USE DEF TypeOK
    <2>f. ASSUME Fault PROVE faults' \in 0..MaxFaults
      BY <2>f, ConstantsAssumption DEF Fault
    <2>1. ASSUME NEW us \in SUBSET Unit, CreateRun(us) PROVE TypeOK'
      BY <2>1 DEF CreateRun, session, remote
    <2>2. ASSUME Workers PROVE TypeOK'
      <3>1. ASSUME NEW j \in Job, NEW n \in 0..MaxCards, AcceptCards(j, n) PROVE TypeOK'
        BY <3>1 DEF AcceptCards, session
      <3>2. ASSUME NEW j \in Job, NEW v \in Verdicts, AcceptReview(j, v) PROVE TypeOK'
        BY <3>2 DEF AcceptReview, session
      <3>3. ASSUME NEW j \in Job, EndJob(j) PROVE TypeOK'
        BY <3>3 DEF EndJob, session
      <3>4. QED
        BY <2>2, <3>1, <3>2, <3>3 DEF Workers
    <2>3. ASSUME NEW j \in Job, DeliverEvent(j) PROVE TypeOK'
      BY <2>3 DEF DeliverEvent, session, remote
    <2>4. ASSUME TickSubmit PROVE TypeOK'
      <3> DEFINE missing == FirstOf(MissingPageJobs(db), PollBatch)
      <3>1. missing \subseteq Unit
        BY Subsets DEF MissingPageJobs
      <3>2. [db EXCEPT !.page_to_card_job_id = @ \cup missing] \in Store
        BY <3>1 DEF Store
      <3>3. queue' \in [Job -> {"absent", "open", "accepted", "terminal"}]
        BY <2>4, CreatedType DEF TickSubmit
      <3>4. /\ tx' \in Store /\ faults' \in 0..MaxFaults
            /\ pc' \in {"idle", "submit", "events", "reconcile"}
            /\ lastReconcile' \in BOOLEAN
        BY <2>4, <3>2, <2>f DEF TickSubmit
      <3>5. QED
        BY <2>4, <3>3, <3>4 DEF TickSubmit
    <2>5. ASSUME TickEvents PROVE TypeOK'
      <3>1. \A i \in Pending(db) : events[i] \in Job
        BY DEF Pending
      <3>2. batch' \subseteq Job
        BY <2>5, <3>1, Subsets DEF TickEvents
      <3>3. QED
        BY <2>5, <3>2 DEF TickEvents, remote
    <2>6. ASSUME NEW j \in Job, HandleEvent(j) PROVE TypeOK'
      BY <2>6, TypeHandleEvent
    <2>7. ASSUME Reconcile PROVE TypeOK'
      <3>1. ASSUME FirstReconcile PROVE TypeOK'
        BY <3>1, ConstantsAssumption DEF FirstReconcile, remote
      <3>2. ASSUME TickReconcile PROVE TypeOK'
        <4>1. recUnits' \subseteq Unit
          BY <3>2, Subsets DEF TickReconcile, Outstanding, Store
        <4>2. QED
          BY <3>2, <4>1 DEF TickReconcile, remote
      <3>3. ASSUME NEW c \in CandId, ReconcileMalformed(c) PROVE TypeOK'
        BY <3>3 DEF ReconcileMalformed, Stop, remote
      <3>4. QED
        BY <2>7, <3>1, <3>2, <3>3, TypeReconcileUnit, TypeReconcileCandidate DEF Reconcile
    <2>8. ASSUME Commit PROVE TypeOK'
      BY <2>8 DEF Commit, Stop, remote
    <2>9. ASSUME Crash PROVE TypeOK'
      BY <2>9, <2>f DEF Crash, Stop, remote
    <2>10. CASE UNCHANGED vars
      BY <2>10 DEF vars
    <2>11. QED
      BY <2>1, <2>2, <2>3, <2>4, <2>5, <2>6, <2>7, <2>8, <2>9, <2>10
      DEF Next, Orchestrator
  <1>3. QED
    BY <1>1, <1>2, PTL DEF Spec

-----------------------------------------------------------------------------
(* One idempotency key per ingested card *)

\* Why IngestedOncePerCard holds.  Ids come from a sequence no rollback turns
\* back, so a job of a candidate id that a rolled-back tick has used is never
\* the job of a later row.
BelowSequence ==
    /\ \A r \in tx.rows : r.id < nextId
    /\ \A c \in tx.review_job_id \cup db.review_job_id \cup recCands : c < nextId
    /\ \A c \in CandId : queue[ReviewJob(c)] # "absent" => c < nextId
    /\ \A i \in DOMAIN events : events[i].kind = "review" => events[i].of < nextId
    /\ \A j \in batch : j.kind = "review" => j.of < nextId

\* A row of the running tick is only handed off by a later tick: its review
\* is not in the batch, and the reconcile does not come back to it.
NewRowsUntouched ==
    /\ \A r \in tx.rows \ db.rows :
           /\ ReviewJob(r.id) \notin batch
           /\ r.unit \notin recUnits
           /\ r.id \in recCands => r.id \notin tx.review_job_id
    /\ \A r \in tx.rows : r.id \in recCands => r.unit \notin recUnits

\* The inductive invariant of the pipeline.
IngestInv ==
    /\ pc = "idle" => tx = db
    /\ pc # "events" => batch = {}
    /\ pc # "reconcile" => recUnits = {} /\ recCands = {}
    /\ db.rows \subseteq tx.rows
    /\ OneCandidatePerCard
    /\ ingested \subseteq db.rows
    /\ BelowSequence
    /\ NewRowsUntouched

\* What a step does to the rows of the running tick when it adds those of
\* job j: ids stay unique and so do origins.
LEMMA RowsGrow ==
    ASSUME TypeOK, OneCandidatePerCard, BelowSequence,
           NEW j \in Job, NEW u \in Unit, IdsAfter(tx, j) <= MaxCandidates + 1,
           tx'.rows = tx.rows \cup NewRows(tx, j, u),
           nextId' = IdsAfter(tx, j)
    PROVE  /\ OneCandidatePerCard'
           /\ \A r \in tx'.rows : r.id < nextId'
           /\ nextId <= nextId'
           /\ \A r \in tx'.rows \ tx.rows : r.unit = u /\ nextId <= r.id
  <1> DEFINE N == NewRows(tx, j, u)
  <1>1. tx \in Store /\ nextId \in Nat /\ nextId' \in Nat /\ tx.rows \subseteq Row
    <2>1. tx \in Store /\ tx.rows \subseteq Row
      BY DEF TypeOK, Store
    <2>2. nextId \in Nat
      BY ConstantsAssumption DEF TypeOK
    <2>3. IdsAfter(tx, j) \in 1..(MaxCandidates + 1)
      BY <2>1, NewRowsType
    <2>4. QED
      BY <2>1, <2>2, <2>3, ConstantsAssumption
  <1>2. \A r \in Row : r.id \in Nat /\ r.ordinal \in Nat
    BY ConstantsAssumption DEF Row, CandId, Ordinal
  <1>3. /\ N \subseteq Row
        /\ nextId <= nextId'
        /\ \A r \in N : /\ nextId <= r.id /\ r.id < nextId'
                        /\ r.unit = u /\ r.job = j
                        /\ r.id = nextId + r.ordinal - 1
                        /\ \A s \in tx.rows : ~ (s.job = j /\ s.ordinal = r.ordinal)
    BY <1>1, NewRowsType
  <1>4. \A r \in tx.rows : r.id < nextId
    BY DEF BelowSequence
  <1>5. ASSUME NEW r \in N, NEW s \in N, r.id = s.id \/ r.ordinal = s.ordinal
        PROVE  r = s
    <2>1. r.ordinal = s.ordinal /\ r.id = s.id /\ r.unit = s.unit /\ r.job = s.job
      BY <1>2, <1>3, <1>5, <1>1
    <2>2. QED
      BY <1>3, <2>1 DEF Row
  <1>6. ASSUME NEW r \in N, NEW s \in tx.rows
        PROVE  r.id # s.id /\ ~ (r.job = s.job /\ r.ordinal = s.ordinal)
    BY <1>1, <1>2, <1>3, <1>4
  <1>7. OneCandidatePerCard'
    BY <1>3, <1>5, <1>6 DEF OneCandidatePerCard
  <1>8. \A r \in tx'.rows : r.id < nextId'
    BY <1>1, <1>2, <1>3, <1>4
  <1>9. QED
    BY <1>3, <1>7, <1>8

\* What handling one event does, as far as the invariant is concerned.
LEMMA EventEffect ==
    ASSUME TypeOK, NEW j \in Job, HandleEvent(j)
    PROVE  \/ \E u \in Unit :
                /\ IdsAfter(tx, j) <= MaxCandidates + 1
                /\ tx'.rows = tx.rows \cup NewRows(tx, j, u)
                /\ nextId' = IdsAfter(tx, j)
                /\ \E S \in SUBSET {r.id : r \in tx'.rows} :
                       /\ tx'.review_job_id \subseteq tx.review_job_id \cup S
                       /\ queue' = Created(queue, {ReviewJob(c) : c \in S})
                /\ ingested' = ingested
           \/ /\ tx'.rows = tx.rows
              /\ nextId' = nextId
              /\ tx'.review_job_id = tx.review_job_id
              /\ \A c \in CandId : queue'[ReviewJob(c)] = queue[ReviewJob(c)]
              /\ ingested' \subseteq ingested \cup {r \in tx.rows : ReviewJob(r.id) = j}
  <1> USE DEF TypeOK
  <1>1. CASE UnknownEvent(j)
    BY <1>1, MarkProcessedType DEF UnknownEvent, Processed
  <1>2. CASE TerminalEvent(j)
    <2>1. /\ MarkTerminal(tx, j) \in Store
          /\ MarkTerminal(tx, j).rows = tx.rows
          /\ MarkTerminal(tx, j).review_job_id = tx.review_job_id
      BY MarkTerminalType
    <2>2. QED
      BY <1>2, <2>1, MarkProcessedType DEF TerminalEvent, Processed
  <1>3. CASE ReadFails(j)
    BY <1>3 DEF ReadFails, Failed
  <1>4. CASE CardsResult(j)
    <2>1. nextId' = IdsAfter(tx, j) /\ IdsAfter(tx, j) <= MaxCandidates + 1
          /\ ingested' = ingested
      BY <1>4 DEF CardsResult
    <2> DEFINE d(u) == EnsureCandidates(tx, j, u)
               S(u) == Unreviewed(d(u), u)
    <2>2. PICK u \in UnitsOf(tx, j) :
            \E called \in Prefixes(S(u)) : \E linked \in Prefixes(called) :
              /\ queue' = Created(queue, {ReviewJob(c) : c \in called})
              /\ IF linked = S(u) THEN Processed(j, LinkReviews(d(u), S(u)))
                 ELSE Failed(LinkReviews(d(u), linked))
      BY <1>4 DEF CardsResult
    <2>3. PICK called \in Prefixes(S(u)) : \E linked \in Prefixes(called) :
            /\ queue' = Created(queue, {ReviewJob(c) : c \in called})
            /\ IF linked = S(u) THEN Processed(j, LinkReviews(d(u), S(u)))
               ELSE Failed(LinkReviews(d(u), linked))
      BY <2>2
    <2>4. PICK linked \in Prefixes(called) :
            /\ queue' = Created(queue, {ReviewJob(c) : c \in called})
            /\ IF linked = S(u) THEN Processed(j, LinkReviews(d(u), S(u)))
               ELSE Failed(LinkReviews(d(u), linked))
      BY <2>3
    <2>5. u \in Unit
      BY <2>2, UnitsOfType
    <2>6. /\ d(u) \in Store /\ d(u).rows = tx.rows \cup NewRows(tx, j, u)
          /\ d(u).review_job_id = tx.review_job_id
      BY <2>1, <2>5, EnsureCandidatesType
    <2>7. /\ S(u) \subseteq {r.id : r \in d(u).rows}
          /\ S(u) \in SUBSET CandId
      BY <2>6, CandidatesOfType DEF Unreviewed, CandidatesOf
    <2>8. called \subseteq S(u) /\ linked \subseteq called
      BY Subsets
    <2>9. /\ tx'.rows = d(u).rows
          /\ tx'.review_job_id \subseteq tx.review_job_id \cup called
      <3>1. CASE linked = S(u) /\ Processed(j, LinkReviews(d(u), S(u)))
        <4>1. /\ LinkReviews(d(u), S(u)) \in Store
              /\ LinkReviews(d(u), S(u)).rows = d(u).rows
              /\ LinkReviews(d(u), S(u)).review_job_id = d(u).review_job_id \cup S(u)
          BY <2>6, <2>7, LinkReviewsType
        <4>2. QED
          BY <3>1, <4>1, <2>6, <2>8, MarkProcessedType DEF Processed
      <3>2. CASE Failed(LinkReviews(d(u), linked))
        <4>1. linked \in SUBSET CandId
          BY <2>7, <2>8
        <4>2. /\ LinkReviews(d(u), linked).rows = d(u).rows
              /\ LinkReviews(d(u), linked).review_job_id = d(u).review_job_id \cup linked
          BY <4>1, <2>6, LinkReviewsType
        <4>3. QED
          BY <3>2, <4>2, <2>6, <2>8 DEF Failed
      <3>3. QED
        BY <2>4, <3>1, <3>2
    <2>10. called \in SUBSET {r.id : r \in tx'.rows}
      BY <2>7, <2>8, <2>9
    <2>11. QED
      BY <2>1, <2>4, <2>5, <2>6, <2>9, <2>10
  <1>5. CASE ReviewPassed(j)
    <2>1. j.of \in CandId /\ j = ReviewJob(j.of)
      BY <1>5, JobKinds DEF ReviewPassed
    <2>2. /\ [tx EXCEPT !.ingestion_handoff_done = @ \cup {j.of}] \in Store
          /\ [tx EXCEPT !.ingestion_handoff_done = @ \cup {j.of}].rows = tx.rows
          /\ [tx EXCEPT !.ingestion_handoff_done = @ \cup {j.of}].review_job_id
               = tx.review_job_id
      BY <2>1, FlagTypes
    <2>3. {r \in tx.rows : r.id = j.of} \subseteq {r \in tx.rows : ReviewJob(r.id) = j}
      BY <2>1
    <2>4. tx'.rows = tx.rows /\ tx'.review_job_id = tx.review_job_id
      BY <1>5, <2>2, MarkProcessedType DEF ReviewPassed, Processed, Failed
    <2>5. ingested' \subseteq ingested \cup {r \in tx.rows : ReviewJob(r.id) = j}
      BY <1>5, <2>3 DEF ReviewPassed
    <2>6. QED
      BY <1>5, <2>4, <2>5 DEF ReviewPassed
  <1>6. CASE ReviewFailed(j)
    <2>1. j.of \in CandId /\ UNCHANGED <<nextId, ingested>>
      BY <1>6, JobKinds DEF ReviewFailed
    <2>2. /\ [tx EXCEPT !.repair_job_id = @ \cup {j.of}] \in Store
          /\ [tx EXCEPT !.repair_job_id = @ \cup {j.of}].rows = tx.rows
          /\ [tx EXCEPT !.repair_job_id = @ \cup {j.of}].review_job_id = tx.review_job_id
      BY <2>1, FlagTypes
    <2>3. tx'.rows = tx.rows /\ tx'.review_job_id = tx.review_job_id
      BY <1>6, <2>2, MarkProcessedType DEF ReviewFailed, Processed, Failed
    <2>4. queue' \in {queue, Created(queue, {RepairJob(j.of)})}
      BY <1>6 DEF ReviewFailed
    <2>5. \A c \in CandId : queue'[ReviewJob(c)] = queue[ReviewJob(c)]
      BY <2>1, <2>4, JobNames DEF Created
    <2>6. QED
      BY <2>1, <2>3, <2>5
  <1>7. CASE ReviewMalformed(j)
    BY <1>7 DEF ReviewMalformed
  <1>8. QED
    BY <1>1, <1>2, <1>3, <1>4, <1>5, <1>6, <1>7 DEF HandleEvent

LEMMA IngestHandleEvent ==
    ASSUME TypeOK, IngestInv, NEW j \in Job, HandleEvent(j)
    PROVE  IngestInv'
  <1>1. /\ pc = "events" /\ pc' = pc /\ j \in batch /\ batch' \subseteq batch
        /\ UNCHANGED <<events, db, recUnits, recCands>>
        /\ recUnits = {} /\ recCands = {}
    BY DEF HandleEvent, NextEvent, IngestInv
  <1>2. /\ db.rows \subseteq tx.rows /\ ingested \subseteq db.rows
        /\ OneCandidatePerCard /\ BelowSequence /\ NewRowsUntouched
    BY DEF IngestInv
  <1>3. /\ nextId \in Nat
        /\ \A c \in CandId : c \in Nat
        /\ tx.rows \subseteq Row /\ db.rows \subseteq Row
        /\ \A r \in Row : r.id \in CandId
        /\ batch \subseteq Job
        /\ \A k \in Job : k.kind = "review" => k.of \in CandId
        /\ tx.review_job_id \subseteq CandId /\ db.review_job_id \subseteq CandId
    <2>1. tx \in Store /\ db \in Store /\ batch \subseteq Job /\ nextId \in 1..(MaxCandidates + 1)
      BY DEF TypeOK
    <2>2. QED
      BY <2>1, JobKinds, ConstantsAssumption DEF Store, Row, CandId
  <1>n. /\ pc' = "idle" => tx' = db'
        /\ pc' # "events" => batch' = {}
        /\ pc' # "reconcile" => recUnits' = {} /\ recCands' = {}
    BY <1>1
  <1>4. CASE \E u \in Unit :
                /\ IdsAfter(tx, j) <= MaxCandidates + 1
                /\ tx'.rows = tx.rows \cup NewRows(tx, j, u)
                /\ nextId' = IdsAfter(tx, j)
                /\ \E S \in SUBSET {r.id : r \in tx'.rows} :
                       /\ tx'.review_job_id \subseteq tx.review_job_id \cup S
                       /\ queue' = Created(queue, {ReviewJob(c) : c \in S})
                /\ ingested' = ingested
    <2>1. PICK u \in Unit :
            /\ IdsAfter(tx, j) <= MaxCandidates + 1
            /\ tx'.rows = tx.rows \cup NewRows(tx, j, u)
            /\ nextId' = IdsAfter(tx, j)
            /\ \E S \in SUBSET {r.id : r \in tx'.rows} :
                   /\ tx'.review_job_id \subseteq tx.review_job_id \cup S
                   /\ queue' = Created(queue, {ReviewJob(c) : c \in S})
            /\ ingested' = ingested
      BY <1>4
    <2>2. PICK S \in SUBSET {r.id : r \in tx'.rows} :
            /\ tx'.review_job_id \subseteq tx.review_job_id \cup S
            /\ queue' = Created(queue, {ReviewJob(c) : c \in S})
      BY <2>1
    <2>3. /\ OneCandidatePerCard'
          /\ \A r \in tx'.rows : r.id < nextId'
          /\ nextId <= nextId'
          /\ \A r \in tx'.rows \ tx.rows : r.unit = u /\ nextId <= r.id
      BY <1>2, <2>1, RowsGrow
    <2>4. nextId' \in Nat /\ tx'.rows \subseteq Row
      <3>1. tx \in Store
        BY DEF TypeOK
      <3>2. IdsAfter(tx, j) \in 1..(MaxCandidates + 1) /\ NewRows(tx, j, u) \subseteq Row
        BY <2>1, <3>1, NewRowsType
      <3>3. QED
        BY <3>2, <2>1, <1>3, ConstantsAssumption
    <2>5. S \subseteq CandId /\ \A c \in S : c < nextId'
      BY <2>2, <2>3, <2>4, <1>3
    <2>6. BelowSequence'
      <3>1. \A c \in tx'.review_job_id \cup db'.review_job_id \cup recCands' : c < nextId'
        BY <1>1, <1>2, <1>3, <2>2, <2>3, <2>4, <2>5 DEF BelowSequence
      <3>2. ASSUME NEW c \in CandId, queue'[ReviewJob(c)] # "absent" PROVE c < nextId'
        <4>1. CASE queue[ReviewJob(c)] # "absent"
          BY <4>1, <1>2, <1>3, <2>3, <2>4 DEF BelowSequence
        <4>2. CASE queue[ReviewJob(c)] = "absent"
          <5>1. ReviewJob(c) \in {ReviewJob(k) : k \in S}
            BY <3>2, <4>2, <2>2, JobNames DEF Created
          <5>2. c \in S
            BY <5>1, <2>5, JobNames
          <5>3. QED
            BY <5>2, <2>5
        <4>3. QED
          BY <4>1, <4>2
      <3>3. \A i \in DOMAIN events' : events'[i].kind = "review" => events'[i].of < nextId'
        <4>1. events \in Seq(Job)
          BY DEF TypeOK
        <4>2. \A i \in DOMAIN events : events[i] \in Job
          BY <4>1
        <4>3. QED
          BY <4>2, <1>1, <1>2, <1>3, <2>3, <2>4 DEF BelowSequence
      <3>4. \A k \in batch' : k.kind = "review" => k.of < nextId'
        BY <1>1, <1>2, <1>3, <2>3, <2>4 DEF BelowSequence
      <3>5. QED
        BY <2>3, <3>1, <3>2, <3>3, <3>4 DEF BelowSequence
    <2>7. NewRowsUntouched'
      <3>1. ASSUME NEW r \in tx'.rows \ tx.rows PROVE ReviewJob(r.id) \notin batch'
        <4>1. nextId <= r.id /\ r.id \in CandId
          BY <2>3, <2>4, <1>3
        <4>2. ReviewJob(r.id) \in batch => r.id < nextId
          BY <1>2 DEF BelowSequence, ReviewJob
        <4>3. QED
          BY <4>1, <4>2, <1>1, <1>3
      <3>2. QED
        BY <3>1, <1>1, <1>2 DEF NewRowsUntouched
    <2>8. QED
      BY <1>1, <1>2, <1>n, <2>1, <2>3, <2>6, <2>7 DEF IngestInv
  <1>5. CASE /\ tx'.rows = tx.rows
             /\ nextId' = nextId
             /\ tx'.review_job_id = tx.review_job_id
             /\ \A c \in CandId : queue'[ReviewJob(c)] = queue[ReviewJob(c)]
             /\ ingested' \subseteq ingested \cup {r \in tx.rows : ReviewJob(r.id) = j}
    <2>1. ingested' \subseteq db'.rows
      BY <1>1, <1>2, <1>5 DEF NewRowsUntouched
    <2>2. BelowSequence'
      BY <1>1, <1>2, <1>5 DEF BelowSequence
    <2>3. NewRowsUntouched' /\ OneCandidatePerCard'
      BY <1>1, <1>2, <1>5 DEF NewRowsUntouched, OneCandidatePerCard
    <2>4. QED
      BY <1>1, <1>2, <1>n, <1>5, <2>1, <2>2, <2>3 DEF IngestInv
  <1>6. QED
    BY <1>4, <1>5, EventEffect

LEMMA IngestReconcileUnit ==
    ASSUME TypeOK, IngestInv, NEW u \in Unit, ReconcileUnit(u)
    PROVE  IngestInv'
  <1> DEFINE j == PageJob(u)
             d == EnsureCandidates(tx, j, u)
  <1>1. /\ pc = "reconcile" /\ pc' = pc /\ batch = {} /\ recCands = {}
        /\ u \in recUnits /\ recUnits' = recUnits \ {u}
        /\ UNCHANGED <<events, db, batch, queue, ingested>>
    BY Subsets DEF ReconcileUnit, IngestInv, remote
  <1>2. /\ db.rows \subseteq tx.rows /\ ingested \subseteq db.rows
        /\ OneCandidatePerCard /\ BelowSequence /\ NewRowsUntouched
    BY DEF IngestInv
  <1>3. /\ j \in Job /\ tx \in Store /\ tx.rows \subseteq Row
        /\ nextId \in Nat
        /\ \A c \in CandId : c \in Nat
        /\ \A r \in Row : r.id \in CandId
        /\ tx.review_job_id \subseteq CandId /\ db.review_job_id \subseteq CandId
    <2>1. tx \in Store /\ db \in Store /\ nextId \in 1..(MaxCandidates + 1)
      BY DEF TypeOK
    <2>2. QED
      BY <2>1, JobNames, ConstantsAssumption DEF Store, Row, CandId
  <1>4. CASE /\ nextId' = IdsAfter(tx, j) /\ nextId' <= MaxCandidates + 1
             /\ tx' = d
             /\ recCands' = CandidatesOf(d, u)
    <2>1. /\ tx'.rows = tx.rows \cup NewRows(tx, j, u)
          /\ tx'.review_job_id = tx.review_job_id
          /\ tx' \in Store
      BY <1>3, <1>4, EnsureCandidatesType
    <2>2. /\ OneCandidatePerCard'
          /\ \A r \in tx'.rows : r.id < nextId'
          /\ nextId <= nextId'
          /\ \A r \in tx'.rows \ tx.rows : r.unit = u /\ nextId <= r.id
      BY <1>2, <1>3, <1>4, <2>1, RowsGrow
    <2>3. nextId' \in Nat /\ tx'.rows \subseteq Row
      <3>1. IdsAfter(tx, j) \in 1..(MaxCandidates + 1)
        BY <1>3, <1>4, NewRowsType
      <3>2. QED
        BY <2>1, <3>1, <1>4, ConstantsAssumption DEF Store
    <2>4. \A c \in recCands' : \E r \in tx'.rows : r.id = c /\ r.unit = u
      BY <1>4 DEF CandidatesOf
    <2>5. BelowSequence'
      <3>1. \A c \in tx'.review_job_id \cup db'.review_job_id \cup recCands' : c < nextId'
        BY <1>1, <1>2, <1>3, <2>1, <2>2, <2>3, <2>4 DEF BelowSequence
      <3>2. \A c \in CandId : queue'[ReviewJob(c)] # "absent" => c < nextId'
        BY <1>1, <1>2, <1>3, <2>2, <2>3 DEF BelowSequence
      <3>3. \A i \in DOMAIN events' : events'[i].kind = "review" => events'[i].of < nextId'
        <4>1. \A i \in DOMAIN events : events[i] \in Job
          BY DEF TypeOK
        <4>2. \A k \in Job : k.kind = "review" => k.of \in Nat
          BY <1>3, JobKinds
        <4>3. QED
          BY <4>1, <4>2, <1>1, <1>2, <1>3, <2>2, <2>3 DEF BelowSequence
      <3>4. QED
        BY <1>1, <2>2, <3>1, <3>2, <3>3 DEF BelowSequence
    <2>6. NewRowsUntouched'
      <3>1. ASSUME NEW r \in tx'.rows, r.id \in recCands' PROVE r.unit = u
        BY <2>4, <2>2, <3>1 DEF OneCandidatePerCard
      <3>2. ASSUME NEW r \in tx'.rows \ db'.rows
            PROVE  /\ r.unit \notin recUnits'
                   /\ r.id \in recCands' => r.id \notin tx'.review_job_id
        <4>1. CASE r \in tx.rows
          BY <4>1, <3>1, <3>2, <1>1, <1>2 DEF NewRowsUntouched
        <4>2. CASE r \notin tx.rows
          <5>1. r.unit = u /\ nextId <= r.id /\ r.id \in Nat
            BY <4>2, <3>2, <2>2, <2>3, <1>3
          <5>2. \A c \in tx'.review_job_id : c < nextId /\ c \in Nat
            BY <2>1, <1>2, <1>3 DEF BelowSequence
          <5>3. QED
            BY <5>1, <5>2, <1>1, <1>3
        <4>3. QED
          BY <4>1, <4>2
      <3>3. QED
        BY <3>1, <3>2, <1>1 DEF NewRowsUntouched
    <2>7. QED
      BY <1>1, <1>2, <2>1, <2>2, <2>5, <2>6 DEF IngestInv
  <1>5. CASE /\ tx'.rows = tx.rows /\ tx'.review_job_id = tx.review_job_id
             /\ UNCHANGED <<nextId, recCands>>
    <2>1. BelowSequence'
      BY <1>1, <1>2, <1>5 DEF BelowSequence
    <2>2. NewRowsUntouched' /\ OneCandidatePerCard'
      BY <1>1, <1>2, <1>5 DEF NewRowsUntouched, OneCandidatePerCard
    <2>3. QED
      BY <1>1, <1>2, <1>5, <2>1, <2>2 DEF IngestInv
  <1>6. \/ /\ nextId' = IdsAfter(tx, j) /\ nextId' <= MaxCandidates + 1
           /\ tx' = d
           /\ recCands' = CandidatesOf(d, u)
        \/ tx' = MarkTerminal(tx, j) /\ UNCHANGED <<nextId, recCands>>
        \/ UNCHANGED <<tx, nextId, recCands>>
    BY DEF ReconcileUnit
  <1>7. QED
    BY <1>3, <1>4, <1>5, <1>6, MarkTerminalType

\* What one turn of _advance_candidates does to what the invariant is about.
LEMMA CandidateEffect ==
    ASSUME TypeOK, NEW c \in CandId, ReconcileCandidate(c)
    PROVE  \/ /\ tx'.rows = tx.rows /\ nextId' = nextId /\ ingested' = ingested
              /\ tx'.review_job_id = tx.review_job_id \cup {c}
              /\ queue' = Created(queue, {ReviewJob(c)})
           \/ /\ tx'.rows = tx.rows /\ nextId' = nextId
              /\ tx'.review_job_id = tx.review_job_id
              /\ \A k \in CandId : queue'[ReviewJob(k)] = queue[ReviewJob(k)]
              /\ \/ ingested' = ingested
                 \/ /\ c \in tx.review_job_id
                    /\ ingested' \subseteq ingested \cup {r \in tx.rows : r.id = c}
           \/ /\ nextId' = IdsAfter(tx, RepairJob(c)) /\ nextId' <= MaxCandidates + 1
              /\ \E r \in tx.rows :
                     r.id = c /\ tx' = EnsureCandidates(tx, RepairJob(c), r.unit)
              /\ UNCHANGED <<queue, ingested>>
  <1>1. tx \in Store /\ ReviewJob(c) \in Job /\ RepairJob(c) \in Job
    BY JobNames DEF TypeOK
  <1>2. CASE /\ queue' = Created(queue, {ReviewJob(c)})
             /\ tx' = LinkReviews(tx, {c})
             /\ UNCHANGED <<nextId, ingested>>
    BY <1>1, <1>2, LinkReviewsType
  <1>3. CASE UNCHANGED <<queue, tx, nextId, ingested>>
    BY <1>3
  <1>4. CASE tx' = MarkTerminal(tx, ReviewJob(c)) /\ UNCHANGED <<queue, nextId, ingested>>
    BY <1>1, <1>4, MarkTerminalType
  <1>5. CASE c \in tx.review_job_id /\ ReconcileReviewed(c)
    <2>1. CASE /\ ingested' = IF c \in tx.ingestion_handoff_done THEN ingested
                              ELSE ingested \cup {r \in tx.rows : r.id = c}
               /\ tx' = [tx EXCEPT !.ingestion_handoff_done = @ \cup {c}]
               /\ UNCHANGED <<queue, nextId>>
      BY <1>1, <1>5, <2>1, FlagTypes
    <2>2. CASE /\ queue' = Created(queue, {RepairJob(c)})
               /\ tx' = [tx EXCEPT !.repair_job_id = @ \cup {c}]
               /\ UNCHANGED <<nextId, ingested>>
      <3>1. \A k \in CandId : queue'[ReviewJob(k)] = queue[ReviewJob(k)]
        BY <2>2, JobNames DEF Created
      <3>2. QED
        BY <1>1, <2>2, <3>1, FlagTypes
    <2>3. CASE UNCHANGED <<tx, nextId, queue, ingested>>
      BY <2>3
    <2>4. CASE tx' = MarkTerminal(tx, RepairJob(c)) /\ UNCHANGED <<nextId, queue, ingested>>
      BY <1>1, <2>4, MarkTerminalType
    <2>5. CASE /\ nextId' = IdsAfter(tx, RepairJob(c)) /\ nextId' <= MaxCandidates + 1
               /\ \E u \in UnitsOf(tx, RepairJob(c)) :
                      tx' = EnsureCandidates(tx, RepairJob(c), u)
               /\ UNCHANGED <<queue, ingested>>
      <3>1. PICK u \in UnitsOf(tx, RepairJob(c)) : tx' = EnsureCandidates(tx, RepairJob(c), u)
        BY <2>5
      <3>2. \E r \in tx.rows : r.id = c /\ r.unit = u
        BY <3>1 DEF UnitsOf, RepairJob
      <3>3. QED
        BY <2>5, <3>1, <3>2
    <2>6. QED
      BY <1>5, <2>1, <2>2, <2>3, <2>4, <2>5 DEF ReconcileReviewed
  <1>6. QED
    BY <1>2, <1>3, <1>4, <1>5 DEF ReconcileCandidate

LEMMA IngestReconcileCandidate ==
    ASSUME TypeOK, IngestInv, NEW c \in CandId, ReconcileCandidate(c)
    PROVE  IngestInv'
  <1>1. /\ pc = "reconcile" /\ pc' = pc /\ batch = {}
        /\ c \in recCands /\ recCands' = recCands \ {c}
        /\ UNCHANGED <<events, db, batch, recUnits>>
    BY Subsets DEF ReconcileCandidate, IngestInv
  <1>2. /\ db.rows \subseteq tx.rows /\ ingested \subseteq db.rows
        /\ OneCandidatePerCard /\ BelowSequence /\ NewRowsUntouched
    BY DEF IngestInv
  <1>3. /\ tx \in Store /\ tx.rows \subseteq Row /\ RepairJob(c) \in Job
        /\ nextId \in Nat
        /\ \A k \in CandId : k \in Nat
        /\ \A r \in Row : r.id \in CandId /\ r.unit \in Unit
        /\ tx.review_job_id \subseteq CandId /\ db.review_job_id \subseteq CandId
        /\ recCands \subseteq CandId
    <2>1. /\ tx \in Store /\ db \in Store /\ nextId \in 1..(MaxCandidates + 1)
          /\ recCands \subseteq CandId
      BY DEF TypeOK
    <2>2. QED
      BY <2>1, JobNames, ConstantsAssumption DEF Store, Row, CandId
  <1>4. CASE /\ tx'.rows = tx.rows /\ nextId' = nextId /\ ingested' = ingested
             /\ tx'.review_job_id = tx.review_job_id \cup {c}
             /\ queue' = Created(queue, {ReviewJob(c)})
    <2>1. BelowSequence'
      <3>1. ASSUME NEW k \in CandId, queue'[ReviewJob(k)] # "absent" PROVE k < nextId'
        <4>1. queue[ReviewJob(k)] # "absent" \/ ReviewJob(k) = ReviewJob(c)
          BY <3>1, <1>4, JobNames DEF Created
        <4>2. queue[ReviewJob(k)] # "absent" \/ k = c
          BY <4>1, JobNames
        <4>3. QED
          BY <4>2, <1>1, <1>2, <1>4 DEF BelowSequence
      <3>2. QED
        BY <3>1, <1>1, <1>2, <1>4 DEF BelowSequence
    <2>2. NewRowsUntouched' /\ OneCandidatePerCard'
      BY <1>1, <1>2, <1>4 DEF NewRowsUntouched, OneCandidatePerCard
    <2>3. QED
      BY <1>1, <1>2, <1>4, <2>1, <2>2 DEF IngestInv
  <1>5. CASE /\ tx'.rows = tx.rows /\ nextId' = nextId
             /\ tx'.review_job_id = tx.review_job_id
             /\ \A k \in CandId : queue'[ReviewJob(k)] = queue[ReviewJob(k)]
             /\ \/ ingested' = ingested
                \/ /\ c \in tx.review_job_id
                   /\ ingested' \subseteq ingested \cup {r \in tx.rows : r.id = c}
    <2>1. ingested' \subseteq db'.rows
      BY <1>1, <1>2, <1>5 DEF NewRowsUntouched
    <2>2. BelowSequence'
      BY <1>1, <1>2, <1>5 DEF BelowSequence
    <2>3. NewRowsUntouched' /\ OneCandidatePerCard'
      BY <1>1, <1>2, <1>5 DEF NewRowsUntouched, OneCandidatePerCard
    <2>4. QED
      BY <1>1, <1>2, <1>5, <2>1, <2>2, <2>3 DEF IngestInv
  <1>6. CASE /\ nextId' = IdsAfter(tx, RepairJob(c)) /\ nextId' <= MaxCandidates + 1
             /\ \E r \in tx.rows :
                    r.id = c /\ tx' = EnsureCandidates(tx, RepairJob(c), r.unit)
             /\ UNCHANGED <<queue, ingested>>
    <2>1. PICK parent \in tx.rows :
            /\ parent.id = c
            /\ tx' = EnsureCandidates(tx, RepairJob(c), parent.unit)
      BY <1>6
    <2> DEFINE u == parent.unit
    <2>2. u \in Unit /\ u \notin recUnits
      BY <2>1, <1>1, <1>2, <1>3 DEF NewRowsUntouched
    <2>3. /\ tx'.rows = tx.rows \cup NewRows(tx, RepairJob(c), u)
          /\ tx'.review_job_id = tx.review_job_id
          /\ tx' \in Store
      BY <1>3, <1>6, <2>1, <2>2, EnsureCandidatesType
    <2>4. /\ OneCandidatePerCard'
          /\ \A r \in tx'.rows : r.id < nextId'
          /\ nextId <= nextId'
          /\ \A r \in tx'.rows \ tx.rows : r.unit = u /\ nextId <= r.id
      BY <1>2, <1>3, <1>6, <2>2, <2>3, RowsGrow
    <2>5. nextId' \in Nat /\ tx'.rows \subseteq Row
      <3>1. IdsAfter(tx, RepairJob(c)) \in 1..(MaxCandidates + 1)
        BY <1>3, <1>6, <2>2, NewRowsType
      <3>2. QED
        BY <2>3, <3>1, <1>6, ConstantsAssumption DEF Store
    <2>6. BelowSequence'
      <3>1. \A k \in tx'.review_job_id \cup db'.review_job_id \cup recCands' : k < nextId'
        BY <1>1, <1>2, <1>3, <2>3, <2>4, <2>5 DEF BelowSequence
      <3>2. \A k \in CandId : queue'[ReviewJob(k)] # "absent" => k < nextId'
        BY <1>2, <1>3, <1>6, <2>4, <2>5 DEF BelowSequence
      <3>3. \A i \in DOMAIN events' : events'[i].kind = "review" => events'[i].of < nextId'
        <4>1. \A i \in DOMAIN events : events[i] \in Job
          BY DEF TypeOK
        <4>2. \A k \in Job : k.kind = "review" => k.of \in Nat
          BY <1>3, JobKinds
        <4>3. QED
          BY <4>1, <4>2, <1>1, <1>2, <1>3, <2>4, <2>5 DEF BelowSequence
      <3>4. QED
        BY <1>1, <2>4, <3>1, <3>2, <3>3 DEF BelowSequence
    <2>7. NewRowsUntouched'
      <3>1. ASSUME NEW r \in tx'.rows \ tx.rows
            PROVE  r.unit \notin recUnits' /\ r.id \notin recCands'
        <4>1. r.unit = u /\ nextId <= r.id /\ r.id \in Nat
          BY <2>4, <2>5, <1>3
        <4>2. \A k \in recCands : k < nextId /\ k \in Nat
          BY <1>2, <1>3 DEF BelowSequence
        <4>3. QED
          BY <4>1, <4>2, <1>1, <1>3, <2>2
      <3>2. QED
        BY <3>1, <1>1, <1>2, <2>3 DEF NewRowsUntouched
    <2>8. QED
      BY <1>1, <1>2, <1>6, <2>3, <2>4, <2>6, <2>7 DEF IngestInv
  <1>7. QED
    BY <1>4, <1>5, <1>6, CandidateEffect

\* The inductive invariant behind the two results below.
THEOREM IngestInvariant == Spec => []IngestInv
  <1>1. Init => IngestInv
    <2> SUFFICES ASSUME Init PROVE IngestInv
      OBVIOUS
    <2>1. \A c \in CandId : queue[ReviewJob(c)] = "absent"
      BY JobNames DEF Init
    <2>2. /\ tx.rows = {} /\ db.rows = {} /\ tx.review_job_id = {} /\ db.review_job_id = {}
          /\ tx = db /\ events = <<>> /\ batch = {} /\ recUnits = {} /\ recCands = {}
          /\ ingested = {} /\ pc = "idle"
      BY DEF Init, EmptyStore
    <2>3. QED
      BY <2>1, <2>2 DEF IngestInv, BelowSequence, NewRowsUntouched, OneCandidatePerCard
  <1>2. TypeOK /\ IngestInv /\ [Next]_vars => IngestInv'
    <2> SUFFICES ASSUME TypeOK, IngestInv, [Next]_vars PROVE IngestInv'
      OBVIOUS
    <2> USE DEF IngestInv
    <2>0. ASSUME UNCHANGED <<tx, db, pc, batch, recUnits, recCands, nextId, ingested, events>>,
                 \A c \in CandId : queue'[ReviewJob(c)] # "absent" => queue[ReviewJob(c)] # "absent"
          PROVE  IngestInv'
      BY <2>0 DEF BelowSequence, NewRowsUntouched, OneCandidatePerCard
    <2>q. ASSUME NEW d, UNCHANGED <<db, nextId, ingested, events, queue>>, Stop(d), d \in {tx, db}
          PROVE  /\ pc' = "idle" /\ batch' = {} /\ recUnits' = {} /\ recCands' = {}
                 /\ OneCandidatePerCard' /\ BelowSequence'
                 /\ tx' = d /\ ingested' \subseteq db.rows
      BY <2>q DEF Stop, BelowSequence, OneCandidatePerCard
    <2>1. ASSUME NEW us \in SUBSET Unit, CreateRun(us) PROVE IngestInv'
      BY <2>0, <2>1 DEF CreateRun, session, remote
    <2>2. ASSUME Workers PROVE IngestInv'
      <3>1. ASSUME NEW j \in Job, NEW n \in 0..MaxCards, AcceptCards(j, n) PROVE IngestInv'
        BY <3>1, <2>0, JobNames DEF AcceptCards, session, TypeOK
      <3>2. ASSUME NEW j \in Job, NEW v \in Verdicts, AcceptReview(j, v) PROVE IngestInv'
        BY <3>2, <2>0, JobNames DEF AcceptReview, session, TypeOK
      <3>3. ASSUME NEW j \in Job, EndJob(j) PROVE IngestInv'
        BY <3>3, <2>0, JobNames DEF EndJob, session, TypeOK
      <3>4. QED
        BY <2>2, <3>1, <3>2, <3>3 DEF Workers
    <2>3. ASSUME NEW j \in Job, DeliverEvent(j) PROVE IngestInv'
      <3>1. UNCHANGED <<tx, db, pc, batch, recUnits, recCands, nextId, ingested, queue>>
        BY <2>3 DEF DeliverEvent, session, remote
      <3>2. j.kind = "review" => j.of < nextId
        BY <2>3, JobKinds DEF DeliverEvent, BelowSequence
      <3>3. events \in Seq(Job) /\ events' = Append(events, j)
        BY <2>3 DEF DeliverEvent, TypeOK
      <3>4. \A i \in DOMAIN events' : events'[i] = j \/ \E k \in DOMAIN events : events'[i] = events[k]
        BY <3>3
      <3>5. BelowSequence'
        BY <3>1, <3>2, <3>4 DEF BelowSequence
      <3>6. QED
        BY <3>1, <3>5 DEF NewRowsUntouched, OneCandidatePerCard
    <2>4. ASSUME TickSubmit PROVE IngestInv'
      <3>1. /\ tx = db /\ pc' # "events" /\ pc' # "reconcile"
            /\ tx'.rows = tx.rows /\ tx'.review_job_id = tx.review_job_id
            /\ pc' = "idle" => tx' = db
            /\ UNCHANGED <<db, nextId, batch, recUnits, recCands, ingested, events>>
        BY <2>4 DEF TickSubmit, TypeOK, Store
      <3>2. \A c \in CandId : queue'[ReviewJob(c)] = queue[ReviewJob(c)]
        <4>1. \A u \in FirstOf(MissingPageJobs(db), PollBatch) : u \in Unit
          BY Subsets DEF MissingPageJobs, TypeOK
        <4>2. PICK done \in Prefixes(FirstOf(MissingPageJobs(db), PollBatch)) :
                  queue' = Created(queue, {PageJob(u) : u \in done})
          BY <2>4 DEF TickSubmit
        <4>3. QED
          BY <4>1, <4>2, JobNames, Subsets DEF Created
      <3>3. BelowSequence'
        BY <3>1, <3>2 DEF BelowSequence
      <3>4. QED
        BY <2>4, <3>1, <3>3 DEF TickSubmit, NewRowsUntouched, OneCandidatePerCard
    <2>5. ASSUME TickEvents PROVE IngestInv'
      <3>1. /\ tx = db /\ pc' = "events"
            /\ UNCHANGED <<tx, db, nextId, recUnits, recCands, ingested, events, queue>>
        BY <2>5 DEF TickEvents, remote
      <3>2. \A j \in batch' : \E i \in DOMAIN events : j = events[i]
        BY <2>5, Subsets DEF TickEvents, Pending
      <3>3. BelowSequence'
        BY <3>1, <3>2 DEF BelowSequence
      <3>4. QED
        BY <2>5, <3>1, <3>3 DEF TickEvents, NewRowsUntouched, OneCandidatePerCard
    <2>6. ASSUME NEW j \in Job, HandleEvent(j) PROVE IngestInv'
      BY <2>6, IngestHandleEvent
    <2>7. ASSUME Reconcile PROVE IngestInv'
      <3>1. ASSUME FirstReconcile PROVE IngestInv'
        BY <3>1, <2>0 DEF FirstReconcile, remote
      <3>2. ASSUME TickReconcile PROVE IngestInv'
        <4>1. /\ tx = db /\ pc' = "reconcile" /\ batch = {} /\ recCands = {}
              /\ UNCHANGED <<tx, db, nextId, batch, recCands, ingested, events, queue>>
          BY <3>2 DEF TickReconcile, Quiet, remote
        <4>2. QED
          BY <4>1 DEF BelowSequence, NewRowsUntouched, OneCandidatePerCard
      <3>3. ASSUME NEW c \in CandId, ReconcileMalformed(c) PROVE IngestInv'
        <4>1. UNCHANGED <<db, nextId, ingested, events, queue>> /\ Stop(db)
          BY <3>3 DEF ReconcileMalformed, remote
        <4>2. QED
          BY <2>q, <4>1 DEF NewRowsUntouched
      <3>4. QED
        BY <2>7, <3>1, <3>2, <3>3, IngestReconcileUnit, IngestReconcileCandidate DEF Reconcile
    <2>8. ASSUME Commit PROVE IngestInv'
      <3>1. db' = tx /\ Stop(tx) /\ UNCHANGED <<nextId, ingested, events, queue>>
        BY <2>8 DEF Commit, remote
      <3>2. /\ tx' = db' /\ tx' = tx /\ pc' = "idle"
            /\ batch' = {} /\ recUnits' = {} /\ recCands' = {}
        BY <3>1 DEF Stop
      <3>3. QED
        BY <3>1, <3>2 DEF BelowSequence, NewRowsUntouched, OneCandidatePerCard
    <2>9. ASSUME Crash PROVE IngestInv'
      <3>1. UNCHANGED <<db, nextId, ingested, events, queue>> /\ Stop(db)
        BY <2>9 DEF Crash, remote
      <3>2. QED
        BY <2>q, <3>1 DEF NewRowsUntouched
    <2>10. CASE UNCHANGED vars
      BY <2>0, <2>10 DEF vars
    <2>11. QED
      BY <2>1, <2>2, <2>3, <2>4, <2>5, <2>6, <2>7, <2>8, <2>9, <2>10
      DEF Next, Orchestrator
  <1>3. QED
    BY <1>1, <1>2, TypeCorrect, PTL DEF Spec

\* A card reaches the ingestion API under one idempotency key at most, in
\* every behaviour: with any number of units, cards, crashes, failed calls and
\* any batch size (SourcePipeline's IngestedOncePerCard).
THEOREM IngestionIsIdempotent == Spec => []IngestedOncePerCard
  <1>1. IngestInv => IngestedOncePerCard
    BY DEF IngestInv, OneCandidatePerCard, IngestedOncePerCard
  <1>2. QED
    BY <1>1, IngestInvariant, PTL

-----------------------------------------------------------------------------
(* The pipeline implements AcceptOnce *)

\* A step hands off the stored rows of one candidate id, or nothing.
LEMMA HandoffEffect ==
    ASSUME [Next]_vars
    PROVE  \/ ingested' = ingested
           \/ \E i \in CandId : ingested' = ingested \cup {r \in tx.rows : r.id = i}
  <1>1. ASSUME NEW j \in Job, HandleEvent(j)
        PROVE  \/ ingested' = ingested
               \/ \E i \in CandId : ingested' = ingested \cup {r \in tx.rows : r.id = i}
    <2>1. CASE ReviewPassed(j)
      <3>1. j.of \in CandId
        BY <2>1, JobKinds DEF ReviewPassed, HasResult
      <3>2. QED
        BY <2>1, <3>1 DEF ReviewPassed
    <2>2. CASE ~ ReviewPassed(j)
      BY <1>1, <2>2 DEF HandleEvent, UnknownEvent, TerminalEvent, ReadFails, CardsResult,
                        ReviewFailed, ReviewMalformed
    <2>3. QED
      BY <2>1, <2>2
  <1>2. ASSUME NEW c \in CandId, ReconcileCandidate(c)
        PROVE  \/ ingested' = ingested
               \/ ingested' = ingested \cup {r \in tx.rows : r.id = c}
    BY <1>2 DEF ReconcileCandidate, ReconcileReviewed
  <1>3. ASSUME NEW u \in Unit, ReconcileUnit(u) PROVE ingested' = ingested
    BY <1>3 DEF ReconcileUnit, remote
  <1>4. CASE \/ Workers \/ TickSubmit \/ TickEvents \/ Commit \/ Crash \/ UNCHANGED vars
             \/ \E us \in SUBSET Unit : CreateRun(us)
             \/ \E j \in Job : DeliverEvent(j)
             \/ FirstReconcile \/ TickReconcile
             \/ \E c \in CandId : ReconcileMalformed(c)
    BY <1>4 DEF Workers, AcceptCards, AcceptReview, EndJob, TickSubmit, TickEvents, Commit, Crash,
                CreateRun, DeliverEvent, FirstReconcile, TickReconcile, ReconcileMalformed,
                vars, remote
  <1>5. QED
    BY <1>1, <1>2, <1>3, <1>4 DEF Next, Orchestrator, Reconcile

\* Every card is offered under a key of its own, so the API never has to refuse
\* one (_handoff_passed_candidate, _idempotency_key).
THEOREM HandoffsAreAcceptedOnce == Spec => HandoffsAcceptOnce
  <1> DEFINE card(r) == [job |-> r.job, ordinal |-> r.ordinal]
             acc == {[key |-> HandoffKey(r), card |-> card(r)] : r \in ingested}
  <1>1. Init => Acceptance!Init
    BY DEF Init, Acceptance!Init
  <1>2. TypeOK /\ IngestInv /\ [Next]_vars => [Acceptance!Next]_acc
    <2> SUFFICES ASSUME TypeOK, IngestInv, [Next]_vars PROVE Acceptance!Next \/ acc' = acc
      OBVIOUS
    <2>1. CASE ingested' = ingested
      BY <2>1 DEF HandoffKey
    <2>2. ASSUME NEW i \in CandId, ingested' = ingested \cup {r \in tx.rows : r.id = i},
                 ingested' # ingested
          PROVE  Acceptance!Next
      <3>1. PICK r \in tx.rows : r.id = i /\ r \notin ingested
        BY <2>2
      <3>2. \A s \in tx.rows : s.id = i => s = r
        BY <3>1 DEF IngestInv, OneCandidatePerCard
      <3>3. ingested' = ingested \cup {r}
        BY <2>2, <3>1, <3>2
      <3>4. \A s \in ingested : s.id # i
        BY <3>1, <3>2 DEF IngestInv
      <3> DEFINE s == [key |-> HandoffKey(r), card |-> card(r)]
      <3>5. acc' = acc \cup {s}
        BY <3>3 DEF HandoffKey
      <3>6. \A q \in acc : q.key # s.key
        BY <3>1, <3>4 DEF HandoffKey
      <3>7. r \in Row
        BY <3>1 DEF TypeOK, Store
      <3>8. s \in Acceptance!Submission
        BY <3>7 DEF Row, Acceptance!Submission, HandoffKey
      <3>9. Acceptance!Accept(s)
        BY <3>5, <3>6 DEF Acceptance!Accept
      <3>10. QED
        BY <3>8, <3>9 DEF Acceptance!Next
    <2>3. QED
      BY <2>1, <2>2, HandoffEffect
  <1>3. QED
    BY <1>1, <1>2, TypeCorrect, IngestInvariant, PTL
    DEF Spec, HandoffsAcceptOnce, Acceptance!Spec

-----------------------------------------------------------------------------
(* What the store records is true *)

\* Everything store d says was created or accepted remotely was, and its
\* review jobs are those of its rows.
Backed(d, q, ing) ==
    /\ \A u \in d.page_to_card_job_id : q[PageJob(u)] # "absent"
    /\ \A c \in d.review_job_id : q[ReviewJob(c)] # "absent" /\ \E r \in d.rows : r.id = c
    /\ \A c \in d.repair_job_id : q[RepairJob(c)] # "absent"
    /\ \A c \in d.ingestion_handoff_done : \E r \in ing : r.id = c

Passed(c) == queue[ReviewJob(c)] = "accepted" /\ verdict[ReviewJob(c)] = "passed"

FailedReview(c) == queue[ReviewJob(c)] = "accepted" /\ verdict[ReviewJob(c)] = "failed"

\* The card of row r is in an accepted result.
Sourced(r) == queue[r.job] = "accepted" /\ r.ordinal <= cards[r.job]

\* The inductive invariant behind RecordsAreBacked and LineageSound: a remote
\* answer is there before anything is derived from it, in both stores.
RecordInv ==
    /\ Backed(db, queue, ingested) /\ Backed(tx, queue, ingested)
    /\ \A r \in tx.rows : Sourced(r)
    /\ \A r \in ingested : Passed(r.id)
    /\ \A c \in CandId : queue[RepairJob(c)] # "absent" => FailedReview(c)
    /\ \A c \in recCands : \E r \in tx.rows : r.id = c

\* Jobs are never deleted and an accepted result never changes.
RemoteKeeps ==
    \A j \in Job :
        /\ queue[j] # "absent" => queue'[j] # "absent"
        /\ queue[j] = "accepted" =>
               queue'[j] = "accepted" /\ cards'[j] = cards[j] /\ verdict'[j] = verdict[j]

LEMMA CreatedKeeps ==
    ASSUME TypeOK, NEW J, queue' = Created(queue, J), UNCHANGED <<cards, verdict>>
    PROVE  RemoteKeeps /\ \A j \in J \cap Job : queue'[j] # "absent"
    BY DEF RemoteKeeps, Created, TypeOK

\* The changes a handler makes to the store keep it backed.
LEMMA BackedChanges ==
    ASSUME NEW d \in Store, NEW q, NEW ing, Backed(d, q, ing)
    PROVE  /\ \A j \in Job : Backed(MarkTerminal(d, j), q, ing)
                             /\ Backed(MarkProcessed(d, j), q, ing)
           /\ \A j \in Job, u \in Unit : Backed(EnsureCandidates(d, j, u), q, ing)
           /\ \A S \in SUBSET CandId :
                  (\A c \in S : q[ReviewJob(c)] # "absent" /\ \E r \in d.rows : r.id = c)
                      => Backed(LinkReviews(d, S), q, ing)
           /\ \A c \in CandId :
                  q[RepairJob(c)] # "absent"
                      => Backed([d EXCEPT !.repair_job_id = @ \cup {c}], q, ing)
           /\ \A c \in CandId :
                  (\E r \in ing : r.id = c)
                      => Backed([d EXCEPT !.ingestion_handoff_done = @ \cup {c}], q, ing)
  <1> USE DEF Store, Backed
  <1>1. ASSUME NEW j \in Job
        PROVE  Backed(MarkTerminal(d, j), q, ing) /\ Backed(MarkProcessed(d, j), q, ing)
    BY JobKinds DEF MarkTerminal, MarkProcessed
  <1>2. ASSUME NEW j \in Job, NEW u \in Unit PROVE Backed(EnsureCandidates(d, j, u), q, ing)
    BY DEF EnsureCandidates
  <1>3. ASSUME NEW S \in SUBSET CandId,
               \A c \in S : q[ReviewJob(c)] # "absent" /\ \E r \in d.rows : r.id = c
        PROVE  Backed(LinkReviews(d, S), q, ing)
    BY <1>3 DEF LinkReviews
  <1>4. ASSUME NEW c \in CandId, q[RepairJob(c)] # "absent"
        PROVE  Backed([d EXCEPT !.repair_job_id = @ \cup {c}], q, ing)
    BY <1>4
  <1>5. ASSUME NEW c \in CandId, \E r \in ing : r.id = c
        PROVE  Backed([d EXCEPT !.ingestion_handoff_done = @ \cup {c}], q, ing)
    BY <1>5
  <1>6. QED
    BY <1>1, <1>2, <1>3, <1>4, <1>5

\* ... and it stays backed while jobs are created and cards accepted.
LEMMA BackedKeeps ==
    ASSUME RemoteKeeps, ingested \subseteq ingested', NEW d \in Store,
           Backed(d, queue, ingested)
    PROVE  Backed(d, queue', ingested')
    BY JobNames DEF Backed, RemoteKeeps, Store

\* A step keeps the invariant if the store it leaves is backed and what is
\* new was derived from an accepted answer.
LEMMA RecordStep ==
    ASSUME TypeOK, RecordInv, RemoteKeeps, ingested \subseteq ingested',
           db' = db \/ db' = tx,
           Backed(tx', queue', ingested'),
           TypeOK',
           \A r \in tx'.rows \ tx.rows : Sourced(r),
           \A r \in ingested' \ ingested : Passed(r.id),
           \A c \in CandId : queue'[RepairJob(c)] # "absent" =>
               queue[RepairJob(c)] # "absent" \/ FailedReview(c),
           \A c \in recCands' : \E r \in tx'.rows : r.id = c
    PROVE  RecordInv'
  <1>1. db \in Store /\ tx \in Store /\ tx'.rows \subseteq Row /\ ingested' \subseteq Row
    BY DEF TypeOK, Store
  <1>2. Backed(db', queue', ingested')
    BY <1>1, BackedKeeps DEF RecordInv
  <1>3. \A c \in CandId : /\ Passed(c) => Passed(c)'
                          /\ FailedReview(c) => FailedReview(c)'
    BY JobNames DEF Passed, FailedReview, RemoteKeeps
  <1>4. \A r \in Row : Sourced(r) => Sourced(r)'
    BY DEF Row, Sourced, RemoteKeeps
  <1>5. \A r \in Row : r.id \in CandId
    BY DEF Row
  <1>6. \A r \in tx'.rows : Sourced(r)'
    BY <1>1, <1>4 DEF RecordInv
  <1>7. \A r \in ingested' : Passed(r.id)'
    BY <1>1, <1>3, <1>5 DEF RecordInv
  <1>8. \A c \in CandId : queue'[RepairJob(c)] # "absent" => FailedReview(c)'
    BY <1>3 DEF RecordInv
  <1>9. QED
    BY <1>2, <1>6, <1>7, <1>8 DEF RecordInv

LEMMA RecordHandleEvent ==
    ASSUME TypeOK, RecordInv, TypeOK', NEW j \in Job, HandleEvent(j)
    PROVE  RecordInv'
  <1>1. /\ UNCHANGED <<db, recCands, cards, verdict>> /\ pc = "events"
        /\ tx \in Store /\ Backed(tx, queue, ingested)
        /\ \A c \in recCands : \E r \in tx.rows : r.id = c
    BY DEF HandleEvent, NextEvent, TypeOK, RecordInv
  <1>k. ASSUME UNCHANGED <<queue, ingested>>, tx'.rows = tx.rows, Backed(tx', queue, ingested)
        PROVE  RecordInv'
    BY <1>1, <1>k, RecordStep DEF RemoteKeeps
  <1>2. CASE UnknownEvent(j)
    BY <1>1, <1>2, <1>k, BackedChanges, MarkProcessedType DEF UnknownEvent, Processed
  <1>3. CASE TerminalEvent(j)
    <2>1. /\ MarkTerminal(tx, j) \in Store /\ MarkTerminal(tx, j).rows = tx.rows
          /\ Backed(MarkTerminal(tx, j), queue, ingested)
      BY <1>1, BackedChanges, MarkTerminalType
    <2>2. QED
      BY <1>3, <1>k, <2>1, BackedChanges, MarkProcessedType DEF TerminalEvent, Processed
  <1>4. CASE ReadFails(j)
    BY <1>1, <1>4, <1>k DEF ReadFails, Failed
  <1>5. CASE CardsResult(j)
    <2>1. nextId' = IdsAfter(tx, j) /\ IdsAfter(tx, j) <= MaxCandidates + 1
          /\ ingested' = ingested /\ queue[j] = "accepted"
      BY <1>5 DEF CardsResult, HasResult
    <2> DEFINE d(u) == EnsureCandidates(tx, j, u)
               S(u) == Unreviewed(d(u), u)
    <2>2. PICK u \in UnitsOf(tx, j) :
            \E called \in Prefixes(S(u)) : \E linked \in Prefixes(called) :
              /\ queue' = Created(queue, {ReviewJob(c) : c \in called})
              /\ IF linked = S(u) THEN Processed(j, LinkReviews(d(u), S(u)))
                 ELSE Failed(LinkReviews(d(u), linked))
      BY <1>5 DEF CardsResult
    <2>3. PICK called \in Prefixes(S(u)) : \E linked \in Prefixes(called) :
            /\ queue' = Created(queue, {ReviewJob(c) : c \in called})
            /\ IF linked = S(u) THEN Processed(j, LinkReviews(d(u), S(u)))
               ELSE Failed(LinkReviews(d(u), linked))
      BY <2>2
    <2>4. PICK linked \in Prefixes(called) :
            /\ queue' = Created(queue, {ReviewJob(c) : c \in called})
            /\ IF linked = S(u) THEN Processed(j, LinkReviews(d(u), S(u)))
               ELSE Failed(LinkReviews(d(u), linked))
      BY <2>3
    <2>5. u \in Unit
      BY <1>1, <2>2, UnitsOfType
    <2>6. /\ d(u) \in Store /\ d(u).rows = tx.rows \cup NewRows(tx, j, u)
          /\ NewRows(tx, j, u) \subseteq Row
      BY <1>1, <2>1, <2>5, EnsureCandidatesType, NewRowsType
    <2>7. /\ S(u) \in SUBSET CandId
          /\ \A c \in S(u) : \E r \in d(u).rows : r.id = c
      BY <2>6, CandidatesOfType DEF Unreviewed, CandidatesOf
    <2>8. called \subseteq S(u) /\ linked \subseteq called
      BY Subsets
    <2>9. RemoteKeeps /\ \A c \in called : queue'[ReviewJob(c)] # "absent"
      BY <1>1, <2>4, <2>7, <2>8, CreatedKeeps, JobNames
    <2>10. Backed(d(u), queue', ingested')
      <3>1. Backed(d(u), queue, ingested)
        BY <1>1, <2>5, BackedChanges
      <3>2. QED
        BY <2>1, <2>6, <2>9, <3>1, BackedKeeps
    <2>11. Backed(tx', queue', ingested') /\ tx'.rows = d(u).rows
      <3> DEFINE l(L) == LinkReviews(d(u), L)
      <3>1. ASSUME NEW L \in SUBSET called
            PROVE  l(L) \in Store /\ l(L).rows = d(u).rows /\ Backed(l(L), queue', ingested')
        <4>1. L \in SUBSET CandId
          BY <2>7, <2>8
        <4>2. \A c \in L : queue'[ReviewJob(c)] # "absent" /\ \E r \in d(u).rows : r.id = c
          BY <2>7, <2>8, <2>9
        <4>3. Backed(l(L), queue', ingested')
          BY <2>6, <2>10, <4>1, <4>2, BackedChanges
        <4>4. QED
          BY <2>6, <4>1, <4>3, LinkReviewsType
      <3>2. CASE linked = S(u) /\ Processed(j, l(S(u)))
        <4>1. S(u) \in SUBSET called
          BY <2>8, <3>2
        <4>2. l(S(u)) \in Store /\ l(S(u)).rows = d(u).rows /\ Backed(l(S(u)), queue', ingested')
          BY <3>1, <4>1
        <4>3. tx' = MarkProcessed(l(S(u)), j)
          BY <3>2 DEF Processed
        <4>4. QED
          BY <4>2, <4>3, BackedChanges, MarkProcessedType
      <3>3. CASE Failed(l(linked))
        <4>1. linked \in SUBSET called
          BY <2>8
        <4>2. QED
          BY <3>1, <3>3, <4>1 DEF Failed
      <3>4. QED
        BY <2>4, <3>2, <3>3
    <2>12. \A r \in tx'.rows \ tx.rows : Sourced(r)
      BY <2>1, <2>6, <2>11 DEF NewRows, MissingOrdinals, Ordinals, Sourced
    <2>13. \A c \in CandId : queue'[RepairJob(c)] = queue[RepairJob(c)]
      <3>1. \A c \in CandId : RepairJob(c) \notin {ReviewJob(k) : k \in called}
        BY <2>7, <2>8, JobNames
      <3>2. QED
        BY <2>4, <3>1, JobNames DEF Created
    <2>14. QED
      BY <1>1, <2>1, <2>6, <2>9, <2>11, <2>12, <2>13, RecordStep
  <1>6. CASE ReviewPassed(j)
    <2> DEFINE handed == ingested \cup {r \in tx.rows : r.id = j.of}
    <2>1. /\ j.of \in CandId /\ j = ReviewJob(j.of) /\ Passed(j.of)
          /\ UNCHANGED queue /\ ingested' \in {ingested, handed}
          /\ j.of \in tx.review_job_id
      BY <1>6, JobKinds DEF ReviewPassed, HasResult, IsLinked, Passed
    <2>2. \E r \in handed : r.id = j.of
      BY <1>1, <2>1 DEF Backed
    <2>3. RemoteKeeps /\ ingested \subseteq ingested'
      BY <1>1, <2>1 DEF RemoteKeeps
    <2>4. Backed(tx, queue', ingested')
      BY <1>1, <2>3, BackedKeeps
    <2>5. Backed(tx', queue', ingested') /\ tx'.rows = tx.rows
      <3>1. CASE tx' \in {MarkProcessed(tx, j), tx}
        BY <1>1, <2>4, <3>1, BackedChanges, MarkProcessedType
      <3> DEFINE e == [tx EXCEPT !.ingestion_handoff_done = @ \cup {j.of}]
      <3>2. CASE ingested' = handed /\ tx' = MarkProcessed(e, j)
        <4>1. Backed(e, queue', ingested')
          BY <1>1, <2>1, <2>2, <2>4, <3>2, BackedChanges
        <4>2. e \in Store /\ e.rows = tx.rows
          BY <1>1, <2>1, FlagTypes
        <4>3. QED
          BY <3>2, <4>1, <4>2, BackedChanges, MarkProcessedType
      <3>3. QED
        BY <1>6, <3>1, <3>2 DEF ReviewPassed, Processed, Failed
    <2>6. \A r \in ingested' \ ingested : Passed(r.id)
      BY <2>1
    <2>7. QED
      BY <1>1, <2>1, <2>3, <2>5, <2>6, RecordStep
  <1>7. CASE ReviewFailed(j)
    <2>1. /\ j.of \in CandId /\ j = ReviewJob(j.of) /\ FailedReview(j.of)
          /\ UNCHANGED ingested
          /\ queue' \in {queue, Created(queue, {RepairJob(j.of)})}
      BY <1>7, JobKinds DEF ReviewFailed, HasResult, FailedReview
    <2>2. RemoteKeeps
      BY <1>1, <2>1, CreatedKeeps DEF RemoteKeeps
    <2>3. Backed(tx, queue', ingested')
      BY <1>1, <2>1, <2>2, BackedKeeps
    <2>4. Backed(tx', queue', ingested') /\ tx'.rows = tx.rows
      <3>1. CASE tx' \in {MarkProcessed(tx, j), tx}
        BY <1>1, <2>3, <3>1, BackedChanges, MarkProcessedType
      <3> DEFINE e == [tx EXCEPT !.repair_job_id = @ \cup {j.of}]
      <3>2. CASE queue' = Created(queue, {RepairJob(j.of)}) /\ tx' = MarkProcessed(e, j)
        <4>1. queue'[RepairJob(j.of)] # "absent"
          BY <1>1, <2>1, <3>2, CreatedKeeps, JobNames
        <4>2. Backed(e, queue', ingested')
          BY <1>1, <2>1, <2>3, <4>1, BackedChanges
        <4>3. e \in Store /\ e.rows = tx.rows
          BY <1>1, <2>1, FlagTypes
        <4>4. QED
          BY <3>2, <4>2, <4>3, BackedChanges, MarkProcessedType
      <3>3. QED
        BY <1>7, <3>1, <3>2 DEF ReviewFailed, Processed, Failed
    <2>5. \A c \in CandId : queue'[RepairJob(c)] # "absent" =>
              queue[RepairJob(c)] # "absent" \/ FailedReview(c)
      <3>1. \A c \in CandId : RepairJob(c) \in {RepairJob(j.of)} => c = j.of
        BY DEF RepairJob
      <3>2. QED
        BY <2>1, <3>1, JobNames DEF Created
    <2>6. QED
      BY <1>1, <2>1, <2>2, <2>4, <2>5, RecordStep
  <1>8. CASE ReviewMalformed(j)
    BY <1>1, <1>8, <1>k DEF ReviewMalformed
  <1>9. QED
    BY <1>2, <1>3, <1>4, <1>5, <1>6, <1>7, <1>8 DEF HandleEvent

LEMMA RecordReconcileUnit ==
    ASSUME TypeOK, RecordInv, TypeOK', NEW u \in Unit, ReconcileUnit(u)
    PROVE  RecordInv'
  <1> DEFINE j == PageJob(u)
             d == EnsureCandidates(tx, j, u)
  <1>1. /\ UNCHANGED <<db, queue, cards, verdict, ingested>> /\ recCands = {} /\ j \in Job
        /\ tx \in Store /\ Backed(tx, queue, ingested)
    BY JobNames DEF ReconcileUnit, remote, TypeOK, RecordInv
  <1>2. RemoteKeeps
    BY <1>1 DEF RemoteKeeps
  <1>3. CASE /\ queue[j] = "accepted" /\ IdsAfter(tx, j) <= MaxCandidates + 1
             /\ tx' = d /\ recCands' = CandidatesOf(d, u)
    <2>1. /\ d.rows = tx.rows \cup NewRows(tx, j, u) /\ Backed(d, queue, ingested)
      BY <1>1, <1>3, EnsureCandidatesType, BackedChanges
    <2>2. \A r \in tx'.rows \ tx.rows : Sourced(r)
      BY <1>3, <2>1 DEF NewRows, MissingOrdinals, Ordinals, Sourced
    <2>3. \A c \in recCands' : \E r \in tx'.rows : r.id = c
      BY <1>3 DEF CandidatesOf
    <2>4. QED
      BY <1>1, <1>2, <1>3, <2>1, <2>2, <2>3, RecordStep
  <1>4. CASE tx' \in {tx, MarkTerminal(tx, j)} /\ UNCHANGED recCands
    <2>1. tx'.rows = tx.rows /\ Backed(tx', queue, ingested)
      BY <1>1, <1>4, MarkTerminalType, BackedChanges
    <2>2. QED
      BY <1>1, <1>2, <1>4, <2>1, RecordStep
  <1>5. QED
    BY <1>3, <1>4 DEF ReconcileUnit

LEMMA RecordReconcileCandidate ==
    ASSUME TypeOK, RecordInv, TypeOK', NEW c \in CandId, ReconcileCandidate(c)
    PROVE  RecordInv'
  <1>1. /\ UNCHANGED <<db, cards, verdict>> /\ recCands' \subseteq recCands /\ c \in recCands
        /\ tx \in Store /\ Backed(tx, queue, ingested)
        /\ ReviewJob(c) \in Job /\ RepairJob(c) \in Job
        /\ \A k \in recCands : \E r \in tx.rows : r.id = k
    BY JobNames, Subsets DEF ReconcileCandidate, TypeOK, RecordInv
  \* A step that creates no job and hands nothing off.
  <1>k. ASSUME UNCHANGED <<queue, ingested>>, tx.rows \subseteq tx'.rows,
               \A r \in tx'.rows \ tx.rows : Sourced(r), Backed(tx', queue, ingested)
        PROVE  RecordInv'
    BY <1>1, <1>k, RecordStep DEF RemoteKeeps
  <1>2. CASE c \notin tx.review_job_id /\ queue' = Created(queue, {ReviewJob(c)})
             /\ tx' = LinkReviews(tx, {c}) /\ UNCHANGED ingested
    <2>1. RemoteKeeps /\ queue'[ReviewJob(c)] # "absent"
      BY <1>1, <1>2, CreatedKeeps
    <2>2. Backed(tx', queue', ingested') /\ tx'.rows = tx.rows
      BY <1>1, <1>2, <2>1, BackedKeeps, BackedChanges, LinkReviewsType
    <2>3. \A k \in CandId : queue'[RepairJob(k)] = queue[RepairJob(k)]
      BY <1>2, JobNames DEF Created
    <2>4. QED
      BY <1>1, <1>2, <2>1, <2>2, <2>3, RecordStep
  <1>3. CASE tx' \in {tx, MarkTerminal(tx, ReviewJob(c))} /\ UNCHANGED <<queue, ingested>>
    BY <1>1, <1>3, <1>k, BackedChanges, MarkTerminalType
  <1>4. CASE queue[ReviewJob(c)] = "accepted" /\ ReconcileReviewed(c)
    <2>1. CASE /\ verdict[ReviewJob(c)] = "passed" /\ UNCHANGED queue
               /\ ingested' = IF c \in tx.ingestion_handoff_done THEN ingested
                              ELSE ingested \cup {r \in tx.rows : r.id = c}
               /\ tx' = [tx EXCEPT !.ingestion_handoff_done = @ \cup {c}]
      <3>1. RemoteKeeps /\ ingested \subseteq ingested' /\ \E r \in ingested' : r.id = c
        BY <1>1, <2>1 DEF RemoteKeeps, Backed
      <3>2. Backed(tx', queue', ingested') /\ tx'.rows = tx.rows
        BY <1>1, <2>1, <3>1, BackedKeeps, BackedChanges, FlagTypes
      <3>3. \A r \in ingested' \ ingested : Passed(r.id)
        BY <1>4, <2>1 DEF Passed
      <3>4. QED
        BY <1>1, <2>1, <3>1, <3>2, <3>3, RecordStep
    <2>2. CASE /\ verdict[ReviewJob(c)] = "failed" /\ UNCHANGED ingested
               /\ queue' = Created(queue, {RepairJob(c)})
               /\ tx' = [tx EXCEPT !.repair_job_id = @ \cup {c}]
      <3>1. RemoteKeeps /\ queue'[RepairJob(c)] # "absent"
        BY <1>1, <2>2, CreatedKeeps
      <3>2. Backed(tx', queue', ingested') /\ tx'.rows = tx.rows
        BY <1>1, <2>2, <3>1, BackedKeeps, BackedChanges, FlagTypes
      <3>3. \A k \in CandId : queue'[RepairJob(k)] # "absent" =>
                queue[RepairJob(k)] # "absent" \/ FailedReview(k)
        <4>1. \A k \in CandId : RepairJob(k) \in {RepairJob(c)} => k = c
          BY DEF RepairJob
        <4>2. QED
          BY <1>4, <2>2, <4>1, JobNames DEF Created, FailedReview
      <3>4. QED
        BY <1>1, <2>2, <3>1, <3>2, <3>3, RecordStep
    <2>3. CASE tx' \in {tx, MarkTerminal(tx, RepairJob(c))} /\ UNCHANGED <<queue, ingested>>
      BY <1>1, <2>3, <1>k, BackedChanges, MarkTerminalType
    <2>4. CASE /\ queue[RepairJob(c)] = "accepted"
               /\ IdsAfter(tx, RepairJob(c)) <= MaxCandidates + 1
               /\ \E u \in UnitsOf(tx, RepairJob(c)) :
                      tx' = EnsureCandidates(tx, RepairJob(c), u)
               /\ UNCHANGED <<queue, ingested>>
      <3>1. PICK u \in Unit : tx' = EnsureCandidates(tx, RepairJob(c), u)
        BY <1>1, <2>4, UnitsOfType
      <3>2. tx'.rows = tx.rows \cup NewRows(tx, RepairJob(c), u) /\ Backed(tx', queue, ingested)
        BY <1>1, <2>4, <3>1, EnsureCandidatesType, BackedChanges
      <3>3. \A r \in tx'.rows \ tx.rows : Sourced(r)
        BY <2>4, <3>2 DEF NewRows, MissingOrdinals, Ordinals, Sourced
      <3>4. QED
        BY <1>k, <2>4, <3>2, <3>3
    <2>5. QED
      BY <1>4, <2>1, <2>2, <2>3, <2>4 DEF ReconcileReviewed
  <1>5. QED
    BY <1>2, <1>3, <1>4 DEF ReconcileCandidate

LEMMA RecordTickSubmit ==
    ASSUME TypeOK, RecordInv, TypeOK', IngestInv, TickSubmit
    PROVE  RecordInv'
  <1> DEFINE missing == FirstOf(MissingPageJobs(db), PollBatch)
  <1>1. PICK done \in Prefixes(missing) :
          /\ queue' = Created(queue, {PageJob(u) : u \in done})
          /\ IF done = missing
             THEN tx' = [db EXCEPT !.page_to_card_job_id = @ \cup missing]
             ELSE tx' = tx
    BY DEF TickSubmit
  <1>2. /\ UNCHANGED <<db, cards, verdict, ingested, recCands>> /\ tx = db
        /\ db \in Store /\ Backed(db, queue, ingested)
        /\ recCands = {} /\ missing \subseteq Unit /\ done \subseteq missing
    BY Subsets DEF TickSubmit, IngestInv, TypeOK, RecordInv, MissingPageJobs
  <1>3. RemoteKeeps /\ \A u \in done : queue'[PageJob(u)] # "absent"
    BY <1>1, <1>2, CreatedKeeps, JobNames
  <1>4. Backed(db, queue', ingested')
    BY <1>2, <1>3, BackedKeeps
  <1>5. Backed(tx', queue', ingested') /\ tx'.rows = tx.rows
    <2>1. CASE tx' = tx
      BY <1>2, <1>4, <2>1
    <2>2. CASE done = missing /\ tx' = [db EXCEPT !.page_to_card_job_id = @ \cup missing]
      BY <1>2, <1>3, <1>4, <2>2 DEF Backed, Store
    <2>3. QED
      BY <1>1, <2>1, <2>2
  <1>6. \A c \in CandId : queue'[RepairJob(c)] = queue[RepairJob(c)]
    <2>1. \A u \in Unit, c \in CandId : PageJob(u) # RepairJob(c)
      BY DEF PageJob, RepairJob
    <2>2. QED
      BY <1>1, <1>2, <2>1, JobNames DEF Created
  <1>7. QED
    BY <1>2, <1>3, <1>5, <1>6, RecordStep

\* The inductive invariant of the records, on top of IngestInv.
THEOREM RecordInvariant == Spec => []RecordInv
  <1>1. Init => RecordInv
    BY JobNames DEF Init, EmptyStore, RecordInv, Backed, FailedReview
  <1>2. TypeOK /\ IngestInv /\ RecordInv /\ [Next]_vars /\ TypeOK' => RecordInv'
    <2> SUFFICES ASSUME TypeOK, IngestInv, RecordInv, [Next]_vars, TypeOK' PROVE RecordInv'
      OBVIOUS
    <2>1. ASSUME NEW us \in SUBSET Unit, CreateRun(us) PROVE RecordInv'
      <3>1. UNCHANGED <<db, tx, recCands, queue, cards, verdict, ingested>>
        BY <2>1 DEF CreateRun, session, remote
      <3>2. QED
        BY <3>1, RecordStep DEF RemoteKeeps, RecordInv
    <2>2. ASSUME Workers PROVE RecordInv'
      <3>1. UNCHANGED <<db, tx, recCands, ingested>>
        BY <2>2 DEF Workers, AcceptCards, AcceptReview, EndJob, session
      <3>2. /\ RemoteKeeps
            /\ \A j \in Job : queue'[j] # "absent" => queue[j] # "absent"
        BY <2>2 DEF Workers, AcceptCards, AcceptReview, EndJob, RemoteKeeps, TypeOK
      <3>3. Backed(tx', queue', ingested')
        BY <3>1, <3>2, BackedKeeps DEF RecordInv, TypeOK
      <3>4. \A c \in recCands' : \E r \in tx'.rows : r.id = c
        BY <3>1 DEF RecordInv
      <3>5. QED
        BY <3>1, <3>2, <3>3, <3>4, JobNames, RecordStep
    <2>3. ASSUME NEW j \in Job, DeliverEvent(j) PROVE RecordInv'
      BY <2>3, RecordStep DEF DeliverEvent, session, remote, RemoteKeeps, RecordInv
    <2>4. ASSUME TickEvents \/ FirstReconcile \/ TickReconcile \/ UNCHANGED vars PROVE RecordInv'
      BY <2>4, RecordStep
      DEF TickEvents, FirstReconcile, TickReconcile, vars, remote, RemoteKeeps, RecordInv
    <2>5. ASSUME Commit PROVE RecordInv'
      BY <2>5, RecordStep DEF Commit, Stop, remote, RemoteKeeps, RecordInv
    <2>6. ASSUME Crash \/ \E c \in CandId : ReconcileMalformed(c) PROVE RecordInv'
      <3>1. UNCHANGED <<db, queue, cards, verdict, ingested>> /\ Stop(db)
        BY <2>6 DEF Crash, ReconcileMalformed, remote
      <3>2. tx' = db /\ recCands' = {}
        BY <3>1 DEF Stop
      <3>3. RemoteKeeps /\ db.rows \subseteq tx.rows /\ Backed(db, queue, ingested)
        BY <3>1 DEF RemoteKeeps, IngestInv, RecordInv
      <3>4. QED
        BY <3>1, <3>2, <3>3, RecordStep
    <2>7. QED
      BY <2>1, <2>2, <2>3, <2>4, <2>5, <2>6, RecordHandleEvent, RecordReconcileUnit,
         RecordReconcileCandidate, RecordTickSubmit DEF Next, Orchestrator, Reconcile
  <1>3. QED
    BY <1>1, <1>2, TypeCorrect, IngestInvariant, PTL DEF Spec

\* No store ever records a job that was not created or a handoff the ingestion
\* API has not accepted, whatever fails and whenever a tick is rolled back
\* (RecordsAreBacked).
THEOREM RecordsAreAlwaysBacked == Spec => []RecordsAreBacked
  <1>1. RecordInv => RecordsAreBacked
    BY DEF RecordInv, Backed, RecordsAreBacked
  <1>2. QED
    BY <1>1, RecordInvariant, PTL

\* A card is ingested only after its own passed review, repaired only after
\* its own failed one, and stored only from an accepted result (LineageSound).
THEOREM LineageIsSound == Spec => []LineageSound
  <1>1. RecordInv => LineageSound
    BY DEF RecordInv, Passed, FailedReview, Sourced, LineageSound
  <1>2. QED
    BY <1>1, RecordInvariant, PTL

\* Results that are read again, in any number of ticks, never add a card twice
\* (OneCandidatePerCard, _ensure_initial_candidates, _ensure_child_candidates).
THEOREM CandidatesAreUnique == Spec => []OneCandidatePerCard
  <1>1. IngestInv => OneCandidatePerCard
    BY DEF IngestInv
  <1>2. QED
    BY <1>1, IngestInvariant, PTL

-----------------------------------------------------------------------------
(* What is processed has been acted upon *)

\* The terminal state of job j is recorded.
Ended(d, j) ==
    \/ j.kind = "page" /\ j.of \in d.page_to_card_terminal_state
    \/ j.kind = "review" /\ j.of \in d.review_terminal_state
    \/ j.kind = "repair" /\ j.of \in d.repair_terminal_state

\* Advanced, for any store and any answers of the queue.
Done(d, j, q, n, v) ==
    \/ q[j] = "terminal" /\ Ended(d, j)
    \/ /\ q[j] = "accepted" /\ j.kind \in {"page", "repair"}
       /\ \A o \in Ordinal : o <= n[j] => \E r \in d.rows : r.job = j /\ r.ordinal = o
       /\ \A r \in d.rows : r.job = j => r.id \in d.review_job_id
    \/ q[j] = "accepted" /\ j.kind = "review" /\ v[j] = "passed" /\ j.of \in d.ingestion_handoff_done
    \/ q[j] = "accepted" /\ j.kind = "review" /\ v[j] = "failed" /\ j.of \in d.repair_job_id

\* Row r is of a linked job, and of the unit that job works for.
Kin(d, r) ==
    /\ IsLinked(d, r.job) /\ r.job.kind \in {"page", "repair"}
    /\ r.job.kind = "page" => r.unit = r.job.of
    /\ r.job.kind = "repair" => \E s \in d.rows : s.id = r.job.of /\ s.unit = r.unit

\* A page-to-card job that store d calls processed or ended was linked, and
\* what had to be done about it is done.
PagesDone(d, q, n, v) ==
    /\ d.page_to_card_terminal_state \subseteq d.page_to_card_job_id
    /\ \A j \in d.processed : j.kind = "page" => Done(d, j, q, n, v)

\* Events are of finished jobs, a batch is of events not processed yet, and no
\* page job of it is unknown: the jobs of units without a link were submitted
\* again before the batch was read.
EventsInOrder ==
    /\ \A u \in Unit : queue[PageJob(u)] # "absent" => u \in units
    /\ \A i \in DOMAIN events : Finished(events[i])
    /\ \A j \in batch : IsRecorded(j) /\ j \notin tx.processed
    /\ \A j \in batch : j.kind = "page" => j.of \in tx.page_to_card_job_id
    /\ \A j \in tx.processed : IsRecorded(j)
    /\ db.processed \subseteq tx.processed
    /\ recUnits \subseteq tx.page_to_card_job_id

PageInv ==
    /\ EventsInOrder
    /\ \A r \in db.rows : Kin(db, r)
    /\ \A r \in tx.rows : Kin(tx, r)
    /\ PagesDone(db, queue, cards, verdict) /\ PagesDone(tx, queue, cards, verdict)

\* Store e has what store d has, and rows for cards of linked jobs that d has
\* no rows for.
Grows(d, e) ==
    /\ d.rows \subseteq e.rows
    /\ d.page_to_card_job_id \subseteq e.page_to_card_job_id
    /\ d.page_to_card_terminal_state \subseteq e.page_to_card_terminal_state
    /\ d.review_job_id \subseteq e.review_job_id
    /\ d.review_terminal_state \subseteq e.review_terminal_state
    /\ d.repair_job_id \subseteq e.repair_job_id
    /\ d.repair_terminal_state \subseteq e.repair_terminal_state
    /\ d.ingestion_handoff_done \subseteq e.ingestion_handoff_done
    /\ d.processed \subseteq e.processed
    /\ \A r \in e.rows \ d.rows : r.ordinal \in MissingOrdinals(d, r.job) /\ Kin(e, r)

\* What a finished job has answered never changes.
FinishedKeeps ==
    \A j \in Job : Finished(j) =>
        queue'[j] = queue[j] /\ cards'[j] = cards[j] /\ verdict'[j] = verdict[j]

LEMMA CreatedFinished ==
    ASSUME TypeOK, NEW J, queue' = Created(queue, J), UNCHANGED <<cards, verdict>>
    PROVE  /\ FinishedKeeps
           /\ \A j \in Job : queue'[j] # "absent" => queue[j] # "absent" \/ j \in J
    BY DEF FinishedKeeps, Finished, Created, TypeOK

\* What is done stays done while the queue goes on ...
LEMMA DoneRemote ==
    ASSUME FinishedKeeps, NEW d, NEW j \in Job, Done(d, j, queue, cards, verdict)
    PROVE  Done(d, j, queue', cards', verdict')
    BY DEF Done, FinishedKeeps, Finished

\* ... and while the store grows.
LEMMA DoneGrows ==
    ASSUME NEW d, NEW e, Grows(d, e), NEW j \in Job, NEW q, NEW v, Done(d, j, q, cards, v)
    PROVE  Done(e, j, q, cards, v)
  <1>1. CASE q[j] = "terminal" /\ Ended(d, j)
    BY <1>1 DEF Done, Ended, Grows
  <1>2. CASE /\ q[j] = "accepted" /\ j.kind \in {"page", "repair"}
             /\ \A o \in Ordinal : o <= cards[j] => \E r \in d.rows : r.job = j /\ r.ordinal = o
             /\ \A r \in d.rows : r.job = j => r.id \in d.review_job_id
    <2>1. MissingOrdinals(d, j) = {}
      BY <1>2 DEF MissingOrdinals, Ordinals
    <2>2. \A r \in e.rows : r.job = j => r \in d.rows
      BY <2>1 DEF Grows
    <2> QED BY <1>2, <2>2 DEF Done, Grows
  <1>3. CASE \/ q[j] = "accepted" /\ j.kind = "review" /\ v[j] = "passed" /\ j.of \in d.ingestion_handoff_done
             \/ q[j] = "accepted" /\ j.kind = "review" /\ v[j] = "failed" /\ j.of \in d.repair_job_id
    BY <1>3 DEF Done, Grows
  <1> QED BY <1>1, <1>2, <1>3 DEF Done

LEMMA KinGrows ==
    ASSUME NEW d, NEW e, Grows(d, e), \A r \in d.rows : Kin(d, r)
    PROVE  \A r \in e.rows : Kin(e, r)
  <1>1. ASSUME NEW r \in d.rows PROVE Kin(e, r)
    <2>1. Kin(d, r)
      OBVIOUS
    <2>2. IsLinked(e, r.job)
      BY <2>1 DEF Kin, IsLinked, Grows
    <2> QED BY <2>1, <2>2 DEF Kin, Grows
  <1> QED BY <1>1 DEF Grows

LEMMA GrowsSelf ==
    ASSUME NEW d PROVE Grows(d, d)
    BY DEF Grows

\* A store that is changed in its marks only.
LEMMA GrowsMarks ==
    ASSUME NEW d \in Store, NEW j \in Job
    PROVE  /\ Grows(d, MarkProcessed(d, j))
           /\ Grows(d, MarkTerminal(d, j)) /\ MarkTerminal(d, j).processed = d.processed
           /\ Ended(MarkTerminal(d, j), j)
           /\ j.kind # "page" =>
                  MarkTerminal(d, j).page_to_card_terminal_state = d.page_to_card_terminal_state
           /\ j.kind = "page" =>
                  MarkTerminal(d, j).page_to_card_terminal_state = d.page_to_card_terminal_state \cup {j.of}
           /\ MarkTerminal(d, j).page_to_card_job_id = d.page_to_card_job_id
           /\ MarkTerminal(d, j).repair_job_id = d.repair_job_id
           /\ MarkProcessed(d, j).page_to_card_terminal_state = d.page_to_card_terminal_state
           /\ MarkProcessed(d, j).page_to_card_job_id = d.page_to_card_job_id
           /\ MarkProcessed(d, j).repair_job_id = d.repair_job_id
           /\ MarkProcessed(d, j).processed = d.processed \cup {j}
    BY JobKinds DEF Grows, MarkProcessed, MarkTerminal, Store, Ended

LEMMA GrowsTrans ==
    ASSUME NEW d, NEW e, NEW f, Grows(d, e), Grows(e, f), f.rows = e.rows
    PROVE  Grows(d, f)
  <1>1. ASSUME NEW r \in f.rows \ d.rows PROVE r.ordinal \in MissingOrdinals(d, r.job) /\ Kin(f, r)
    <2>1. r.ordinal \in MissingOrdinals(d, r.job) /\ Kin(e, r)
      BY <1>1 DEF Grows
    <2>2. IsLinked(f, r.job)
      BY <2>1 DEF Kin, IsLinked, Grows
    <2> QED BY <2>1, <2>2 DEF Kin
  <1> QED BY <1>1 DEF Grows

\* The rows of a result, and links.
LEMMA GrowsRows ==
    ASSUME TypeOK, NEW d \in Store, NEW j \in Job, NEW u \in UnitsOf(d, j),
           IsLinked(d, j), j.kind \in {"page", "repair"}, IdsAfter(d, j) <= MaxCandidates + 1
    PROVE  /\ Grows(d, EnsureCandidates(d, j, u))
           /\ \A o \in Ordinal : o <= cards[j] =>
                  \E r \in EnsureCandidates(d, j, u).rows : r.job = j /\ r.ordinal = o
           /\ EnsureCandidates(d, j, u).processed = d.processed
           /\ EnsureCandidates(d, j, u).page_to_card_terminal_state = d.page_to_card_terminal_state
           /\ EnsureCandidates(d, j, u).page_to_card_job_id = d.page_to_card_job_id
           /\ EnsureCandidates(d, j, u).repair_job_id = d.repair_job_id
  <1> DEFINE e == EnsureCandidates(d, j, u)
  <1>1. u \in Unit
    BY UnitsOfType
  <1>2. /\ e.rows = d.rows \cup NewRows(d, j, u)
        /\ \A r \in NewRows(d, j, u) : r.unit = u /\ r.job = j
    BY <1>1, EnsureCandidatesType, NewRowsType
  <1>3. /\ e.page_to_card_job_id = d.page_to_card_job_id
        /\ e.page_to_card_terminal_state = d.page_to_card_terminal_state
        /\ e.review_job_id = d.review_job_id
        /\ e.review_terminal_state = d.review_terminal_state
        /\ e.repair_job_id = d.repair_job_id
        /\ e.repair_terminal_state = d.repair_terminal_state
        /\ e.ingestion_handoff_done = d.ingestion_handoff_done
        /\ e.processed = d.processed
    BY DEF EnsureCandidates, Store
  <1>4. \A r \in NewRows(d, j, u) : r.ordinal \in MissingOrdinals(d, j)
    BY DEF NewRows
  <1>5. IsLinked(e, j)
    BY <1>3 DEF IsLinked
  <1>6. ASSUME NEW r \in NewRows(d, j, u) PROVE Kin(e, r)
    <2>1. j.kind = "page" => u = j.of
      BY DEF UnitsOf
    <2>2. j.kind = "repair" => \E s \in d.rows : s.id = j.of /\ s.unit = u
      BY DEF UnitsOf
    <2> QED BY <1>2, <1>5, <2>1, <2>2 DEF Kin
  <1>7. Grows(d, e)
    BY <1>2, <1>3, <1>4, <1>6 DEF Grows
  <1>8. ASSUME NEW o \in Ordinal, o <= cards[j] PROVE \E r \in e.rows : r.job = j /\ r.ordinal = o
    <2>1. CASE o \in MissingOrdinals(d, j)
      <3> DEFINE r == [id |-> nextId + o - 1, unit |-> u, job |-> j, ordinal |-> o]
      <3>1. r \in NewRows(d, j, u)
        BY <2>1 DEF NewRows
      <3> QED BY <1>2, <3>1
    <2>2. CASE o \notin MissingOrdinals(d, j)
      BY <1>2, <1>8, <2>2 DEF MissingOrdinals, Ordinals
    <2> QED BY <2>1, <2>2
  <1> QED BY <1>3, <1>7, <1>8

LEMMA GrowsLinks ==
    ASSUME NEW d \in Store
    PROVE  /\ \A S \in SUBSET CandId :
                /\ Grows(d, LinkReviews(d, S))
                /\ LinkReviews(d, S).processed = d.processed
                /\ LinkReviews(d, S).page_to_card_terminal_state = d.page_to_card_terminal_state
                /\ LinkReviews(d, S).page_to_card_job_id = d.page_to_card_job_id
                /\ LinkReviews(d, S).repair_job_id = d.repair_job_id
           /\ \A c \in CandId :
                LET e == [d EXCEPT !.ingestion_handoff_done = @ \cup {c}] IN
                /\ Grows(d, e)
                /\ c \in e.ingestion_handoff_done
                /\ e.processed = d.processed
                /\ e.page_to_card_terminal_state = d.page_to_card_terminal_state
                /\ e.page_to_card_job_id = d.page_to_card_job_id
                /\ e.repair_job_id = d.repair_job_id
           /\ \A c \in CandId :
                LET e == [d EXCEPT !.repair_job_id = @ \cup {c}] IN
                /\ Grows(d, e)
                /\ c \in e.repair_job_id
                /\ e.processed = d.processed
                /\ e.page_to_card_terminal_state = d.page_to_card_terminal_state
                /\ e.page_to_card_job_id = d.page_to_card_job_id
                /\ e.repair_job_id = d.repair_job_id \cup {c}
           /\ \A U \in SUBSET Unit :
                LET e == [d EXCEPT !.page_to_card_job_id = @ \cup U] IN
                /\ Grows(d, e)
                /\ e.processed = d.processed
                /\ e.page_to_card_terminal_state = d.page_to_card_terminal_state
                /\ e.page_to_card_job_id = d.page_to_card_job_id \cup U
  <1>1. \A S \in SUBSET CandId :
                /\ Grows(d, LinkReviews(d, S))
                /\ LinkReviews(d, S).processed = d.processed
                /\ LinkReviews(d, S).page_to_card_terminal_state = d.page_to_card_terminal_state
                /\ LinkReviews(d, S).page_to_card_job_id = d.page_to_card_job_id
                /\ LinkReviews(d, S).repair_job_id = d.repair_job_id
    BY DEF Grows, LinkReviews, Store
  <1>2. ASSUME NEW c \in CandId
        PROVE LET e == [d EXCEPT !.ingestion_handoff_done = @ \cup {c}] IN
                /\ Grows(d, e)
                /\ c \in e.ingestion_handoff_done
                /\ e.processed = d.processed
                /\ e.page_to_card_terminal_state = d.page_to_card_terminal_state
                /\ e.page_to_card_job_id = d.page_to_card_job_id
                /\ e.repair_job_id = d.repair_job_id
    BY DEF Grows, Store
  <1>3. ASSUME NEW c \in CandId
        PROVE LET e == [d EXCEPT !.repair_job_id = @ \cup {c}] IN
                /\ Grows(d, e)
                /\ c \in e.repair_job_id
                /\ e.processed = d.processed
                /\ e.page_to_card_terminal_state = d.page_to_card_terminal_state
                /\ e.page_to_card_job_id = d.page_to_card_job_id
                /\ e.repair_job_id = d.repair_job_id \cup {c}
    BY DEF Grows, Store
  <1>4. ASSUME NEW U \in SUBSET Unit
        PROVE LET e == [d EXCEPT !.page_to_card_job_id = @ \cup U] IN
                /\ Grows(d, e)
                /\ e.processed = d.processed
                /\ e.page_to_card_terminal_state = d.page_to_card_terminal_state
                /\ e.page_to_card_job_id = d.page_to_card_job_id \cup U
    BY DEF Grows, Store
  <1> QED BY <1>1, <1>2, <1>3, <1>4

\* What the store and the queue are after event j was handled.
EventOutcome(j) ==
    /\ FinishedKeeps
    /\ \A u \in Unit : queue'[PageJob(u)] = queue[PageJob(u)]
    /\ \A c \in CandId : queue'[RepairJob(c)] # "absent" =>
           \/ queue[RepairJob(c)] # "absent"
           \/ j = ReviewJob(c) /\ (faults' = faults + 1 \/ c \in tx'.repair_job_id)
    /\ Grows(tx, tx')
    /\ \A r \in tx'.rows \ tx.rows : r.job = j
    /\ \/ /\ faults' = faults /\ tx'.processed = tx.processed \cup {j}
          /\ \/ ~ IsLinked(tx, j) /\ tx'.rows = tx.rows
             \/ Done(tx', j, queue, cards, verdict)
       \/ /\ faults' = faults /\ UNCHANGED <<tx, queue>>
          /\ j.kind = "review" /\ queue[j] = "accepted" /\ verdict[j] = "malformed"
       \/ faults' = faults + 1 /\ tx'.processed = tx.processed
    /\ tx.page_to_card_terminal_state \subseteq tx.page_to_card_job_id =>
           tx'.page_to_card_terminal_state \subseteq tx'.page_to_card_job_id

LEMMA CardsOutcome ==
    ASSUME TypeOK, OneCandidatePerCard, \A r \in tx.rows : Kin(tx, r),
           NEW j \in Job, CardsResult(j), UNCHANGED <<cards, verdict>>
    PROVE  EventOutcome(j)
  <1>1. /\ nextId' = IdsAfter(tx, j) /\ IdsAfter(tx, j) <= MaxCandidates + 1
        /\ IsLinked(tx, j) /\ queue[j] = "accepted" /\ j.kind \in {"page", "repair"}
        /\ tx \in Store
    BY DEF CardsResult, HasResult, TypeOK
  <1> DEFINE d(u) == EnsureCandidates(tx, j, u)
             S(u) == Unreviewed(d(u), u)
  <1>2. PICK u \in UnitsOf(tx, j) :
          \E called \in Prefixes(S(u)) : \E linked \in Prefixes(called) :
            /\ queue' = Created(queue, {ReviewJob(c) : c \in called})
            /\ IF linked = S(u) THEN Processed(j, LinkReviews(d(u), S(u)))
               ELSE Failed(LinkReviews(d(u), linked))
    BY DEF CardsResult
  <1>3. PICK called \in Prefixes(S(u)) : \E linked \in Prefixes(called) :
          /\ queue' = Created(queue, {ReviewJob(c) : c \in called})
          /\ IF linked = S(u) THEN Processed(j, LinkReviews(d(u), S(u)))
             ELSE Failed(LinkReviews(d(u), linked))
    BY <1>2
  <1>4. PICK linked \in Prefixes(called) :
          /\ queue' = Created(queue, {ReviewJob(c) : c \in called})
          /\ IF linked = S(u) THEN Processed(j, LinkReviews(d(u), S(u)))
             ELSE Failed(LinkReviews(d(u), linked))
    BY <1>3
  <1>5. u \in Unit
    BY <1>1, <1>2, UnitsOfType
  <1>6. /\ d(u) \in Store /\ d(u).rows = tx.rows \cup NewRows(tx, j, u)
        /\ \A r \in NewRows(tx, j, u) : r.job = j
        /\ Grows(tx, d(u)) /\ d(u).processed = tx.processed
        /\ d(u).page_to_card_terminal_state = tx.page_to_card_terminal_state
        /\ d(u).page_to_card_job_id = tx.page_to_card_job_id
        /\ \A o \in Ordinal : o <= cards[j] => \E r \in d(u).rows : r.job = j /\ r.ordinal = o
    BY <1>1, <1>2, <1>5, EnsureCandidatesType, NewRowsType, GrowsRows
  <1>7. called \subseteq S(u) /\ linked \subseteq called /\ S(u) \in SUBSET CandId
    BY <1>6, Subsets, CandidatesOfType
  <1>8. /\ FinishedKeeps
        /\ \A k \in Job : queue'[k] # "absent" =>
               queue[k] # "absent" \/ k \in {ReviewJob(c) : c \in called}
    BY <1>4, CreatedFinished
  <1>9. /\ \A v \in Unit : queue'[PageJob(v)] = queue[PageJob(v)]
        /\ \A c \in CandId : queue'[RepairJob(c)] = queue[RepairJob(c)]
    <2>1. /\ \A v \in Unit : PageJob(v) \notin {ReviewJob(c) : c \in called}
          /\ \A c \in CandId : RepairJob(c) \notin {ReviewJob(k) : k \in called}
      BY <1>7, JobNames
    <2> QED BY <1>4, <2>1, JobNames DEF Created
  <1> DEFINE l(L) == LinkReviews(d(u), L)
  <1>10. ASSUME NEW L \in SUBSET CandId
         PROVE  /\ l(L) \in Store /\ Grows(d(u), l(L)) /\ Grows(tx, l(L)) /\ l(L).rows = d(u).rows
                /\ l(L).processed = tx.processed
                /\ l(L).page_to_card_terminal_state = tx.page_to_card_terminal_state
                /\ l(L).page_to_card_job_id = tx.page_to_card_job_id
                /\ l(L).review_job_id = d(u).review_job_id \cup L
    <2>1. /\ l(L) \in Store /\ Grows(d(u), l(L)) /\ l(L).rows = d(u).rows
          /\ l(L).processed = tx.processed
          /\ l(L).page_to_card_terminal_state = tx.page_to_card_terminal_state
          /\ l(L).page_to_card_job_id = tx.page_to_card_job_id
          /\ l(L).review_job_id = d(u).review_job_id \cup L
      BY <1>6, GrowsLinks, LinkReviewsType
    <2> QED BY <1>6, <2>1, GrowsTrans
  <1>11. CASE Failed(l(linked))
    <2>1. linked \in SUBSET CandId /\ tx' = l(linked) /\ faults' = faults + 1
      BY <1>7, <1>11 DEF Failed, Fault
    <2> QED BY <1>6, <1>8, <1>9, <1>10, <2>1 DEF EventOutcome
  <1>12. CASE linked = S(u) /\ Processed(j, l(S(u)))
    <2> DEFINE e == l(S(u))
    <2>1. /\ tx' = MarkProcessed(e, j) /\ faults' = faults
          /\ e \in Store /\ Grows(tx, e) /\ e.rows = d(u).rows /\ e.processed = tx.processed
          /\ e.page_to_card_terminal_state = tx.page_to_card_terminal_state
          /\ e.page_to_card_job_id = tx.page_to_card_job_id
          /\ e.review_job_id = d(u).review_job_id \cup S(u)
      BY <1>7, <1>10, <1>12 DEF Processed
    <2> HIDE DEF e
    <2>2. /\ Grows(e, tx') /\ tx'.rows = e.rows /\ tx'.processed = tx.processed \cup {j}
          /\ tx'.page_to_card_terminal_state = tx.page_to_card_terminal_state
          /\ tx'.page_to_card_job_id = tx.page_to_card_job_id
          /\ tx'.review_job_id = e.review_job_id
      BY <2>1, GrowsMarks, MarkProcessedType
    <2>3. Grows(tx, tx')
      BY <2>1, <2>2, GrowsTrans
    <2>4. ASSUME NEW r \in d(u).rows, r.job = j PROVE r.id \in d(u).review_job_id \cup S(u)
      <3>1. r.unit = u
        <4>1. CASE r \in tx.rows
          <5>1. Kin(tx, r)
            BY <4>1
          <5>2. CASE j.kind = "page"
            BY <1>2, <2>4, <5>1, <5>2 DEF Kin, UnitsOf
          <5>3. CASE j.kind = "repair"
            <6>1. PICK s \in tx.rows : s.id = j.of /\ s.unit = r.unit
              BY <2>4, <5>1, <5>3 DEF Kin
            <6>2. PICK t \in tx.rows : t.id = j.of /\ t.unit = u
              BY <1>2, <5>3 DEF UnitsOf
            <6> QED BY <6>1, <6>2 DEF OneCandidatePerCard
          <5> QED BY <1>1, <5>2, <5>3
        <4>2. CASE r \notin tx.rows
          BY <1>1, <1>5, <1>6, <2>4, <4>2, NewRowsType
        <4> QED BY <4>1, <4>2
      <3> QED BY <2>4, <3>1 DEF Unreviewed, CandidatesOf
    <2>5. Done(tx', j, queue, cards, verdict)
      BY <1>1, <1>6, <2>1, <2>2, <2>4 DEF Done
    <2> QED BY <1>6, <1>8, <1>9, <2>1, <2>2, <2>3, <2>5 DEF EventOutcome
  <1> QED BY <1>4, <1>11, <1>12

LEMMA EventHandled ==
    ASSUME TypeOK, OneCandidatePerCard, \A r \in tx.rows : Kin(tx, r),
           NEW j \in Job, HandleEvent(j)
    PROVE  EventOutcome(j)
  <1>1. UNCHANGED <<cards, verdict>> /\ tx \in Store /\ (UNCHANGED queue => FinishedKeeps)
    BY DEF HandleEvent, TypeOK, FinishedKeeps
  <1>2. CASE UnknownEvent(j)
    BY <1>1, <1>2, GrowsMarks, MarkProcessedType DEF UnknownEvent, Processed, EventOutcome
  <1>3. CASE TerminalEvent(j)
    <2> DEFINE d == MarkTerminal(tx, j)
    <2>1. /\ IsLinked(tx, j) /\ queue[j] = "terminal" /\ UNCHANGED <<queue, faults>>
          /\ tx' = MarkProcessed(d, j)
      BY <1>3 DEF TerminalEvent, Processed
    <2>2. /\ d \in Store /\ d.rows = tx.rows /\ Grows(tx, d) /\ d.processed = tx.processed
          /\ Ended(d, j) /\ d.page_to_card_job_id = tx.page_to_card_job_id
          /\ d.page_to_card_terminal_state \subseteq
                 tx.page_to_card_terminal_state \cup (IF j.kind = "page" THEN {j.of} ELSE {})
      BY <1>1, MarkTerminalType, GrowsMarks
    <2> HIDE DEF d
    <2>3. /\ Grows(d, tx') /\ tx'.rows = tx.rows /\ tx'.processed = tx.processed \cup {j}
          /\ tx'.page_to_card_job_id = d.page_to_card_job_id
          /\ tx'.page_to_card_terminal_state = d.page_to_card_terminal_state
      BY <2>1, <2>2, GrowsMarks, MarkProcessedType
    <2>4. Grows(tx, tx') /\ Done(tx', j, queue, cards, verdict)
      BY <2>1, <2>2, <2>3, GrowsTrans DEF Done, Ended, Grows
    <2>5. j.kind = "page" => j.of \in tx.page_to_card_job_id
      BY <2>1 DEF IsLinked
    <2> QED BY <1>1, <2>1, <2>2, <2>3, <2>4, <2>5 DEF EventOutcome
  <1>4. CASE ReadFails(j)
    BY <1>1, <1>4, GrowsSelf DEF ReadFails, Failed, Fault, EventOutcome
  <1>5. CASE CardsResult(j)
    BY <1>1, <1>5, CardsOutcome
  <1>6. CASE ReviewPassed(j)
    <2> DEFINE e == [tx EXCEPT !.ingestion_handoff_done = @ \cup {j.of}]
    <2>1. /\ j.of \in CandId /\ queue[j] = "accepted" /\ j.kind = "review" /\ verdict[j] = "passed"
          /\ UNCHANGED queue
          /\ \/ j.of \in tx.ingestion_handoff_done /\ Processed(j, tx)
             \/ Processed(j, e)
             \/ Failed(tx)
      BY <1>6, JobKinds DEF ReviewPassed, HasResult
    <2>2. CASE Failed(tx)
      BY <1>1, <2>1, <2>2, GrowsSelf DEF Failed, Fault, EventOutcome
    <2>3. ASSUME NEW d \in Store, Grows(tx, d), d.rows = tx.rows, d.processed = tx.processed,
                 d.page_to_card_terminal_state = tx.page_to_card_terminal_state,
                 d.page_to_card_job_id = tx.page_to_card_job_id,
                 j.of \in d.ingestion_handoff_done, Processed(j, d)
          PROVE  EventOutcome(j)
      <3>1. /\ tx' = MarkProcessed(d, j) /\ faults' = faults /\ Grows(d, tx')
            /\ tx'.rows = tx.rows /\ tx'.processed = tx.processed \cup {j}
            /\ tx'.page_to_card_terminal_state = tx.page_to_card_terminal_state
            /\ tx'.page_to_card_job_id = tx.page_to_card_job_id
        BY <2>3, GrowsMarks, MarkProcessedType DEF Processed
      <3>2. Grows(tx, tx') /\ Done(tx', j, queue, cards, verdict)
        BY <2>1, <2>3, <3>1, GrowsTrans DEF Done, Grows
      <3> QED BY <1>1, <2>1, <3>1, <3>2 DEF EventOutcome
    <2>4. CASE j.of \in tx.ingestion_handoff_done /\ Processed(j, tx)
      BY <1>1, <2>3, <2>4, GrowsSelf
    <2>5. CASE Processed(j, e)
      BY <1>1, <2>1, <2>3, <2>5, GrowsLinks, FlagTypes
    <2> QED BY <2>1, <2>2, <2>4, <2>5
  <1>7. CASE ReviewFailed(j)
    <2> DEFINE e == [tx EXCEPT !.repair_job_id = @ \cup {j.of}]
    <2>1. /\ j.of \in CandId /\ j = ReviewJob(j.of)
          /\ queue[j] = "accepted" /\ j.kind = "review" /\ verdict[j] = "failed"
          /\ queue' \in {queue, Created(queue, {RepairJob(j.of)})}
          /\ \/ j.of \in tx.repair_job_id /\ Processed(j, tx)
             \/ Processed(j, e)
             \/ Failed(tx)
      BY <1>7, JobKinds DEF ReviewFailed, HasResult
    <2>2. /\ FinishedKeeps
          /\ \A u \in Unit : queue'[PageJob(u)] = queue[PageJob(u)]
          /\ \A c \in CandId : queue'[RepairJob(c)] # "absent" =>
                 queue[RepairJob(c)] # "absent" \/ c = j.of
      <3>1. /\ \A u \in Unit, c \in CandId : PageJob(u) # RepairJob(c)
            /\ \A b, c \in CandId : RepairJob(b) = RepairJob(c) => b = c
        BY DEF PageJob, RepairJob
      <3>2. CASE queue' = Created(queue, {RepairJob(j.of)})
        BY <1>1, <2>1, <3>1, <3>2, CreatedFinished, JobNames DEF Created
      <3> QED BY <1>1, <2>1, <3>2
    <2>3. CASE Failed(tx)
      BY <1>1, <2>1, <2>2, <2>3, GrowsSelf DEF Failed, Fault, EventOutcome
    <2>4. ASSUME NEW d \in Store, Grows(tx, d), d.rows = tx.rows, d.processed = tx.processed,
                 d.page_to_card_terminal_state = tx.page_to_card_terminal_state,
                 d.page_to_card_job_id = tx.page_to_card_job_id,
                 j.of \in d.repair_job_id, Processed(j, d)
          PROVE  EventOutcome(j)
      <3>1. /\ tx' = MarkProcessed(d, j) /\ faults' = faults /\ Grows(d, tx')
            /\ tx'.rows = tx.rows /\ tx'.processed = tx.processed \cup {j}
            /\ tx'.page_to_card_terminal_state = tx.page_to_card_terminal_state
            /\ tx'.page_to_card_job_id = tx.page_to_card_job_id
        BY <2>4, GrowsMarks, MarkProcessedType DEF Processed
      <3>2. /\ Grows(tx, tx') /\ j.of \in tx'.repair_job_id
            /\ Done(tx', j, queue, cards, verdict)
        BY <2>1, <2>4, <3>1, GrowsTrans DEF Done, Grows
      <3> QED BY <1>1, <2>1, <2>2, <3>1, <3>2 DEF EventOutcome
    <2>5. CASE j.of \in tx.repair_job_id /\ Processed(j, tx)
      BY <1>1, <2>4, <2>5, GrowsSelf
    <2>6. CASE Processed(j, e)
      BY <1>1, <2>1, <2>4, <2>6, GrowsLinks, FlagTypes
    <2> QED BY <2>1, <2>3, <2>5, <2>6
  <1>8. CASE ReviewMalformed(j)
    BY <1>1, <1>8, GrowsSelf DEF ReviewMalformed, HasResult, EventOutcome
  <1> QED BY <1>2, <1>3, <1>4, <1>5, <1>6, <1>7, <1>8 DEF HandleEvent

\* What a step of the reconcile does.
ReconcileOutcome ==
    /\ FinishedKeeps
    /\ \A u \in Unit : queue'[PageJob(u)] = queue[PageJob(u)]
    /\ Grows(tx, tx') /\ tx'.processed = tx.processed
    /\ tx.page_to_card_terminal_state \subseteq tx.page_to_card_job_id =>
           tx'.page_to_card_terminal_state \subseteq tx'.page_to_card_job_id

LEMMA UnitOutcome ==
    ASSUME TypeOK, EventsInOrder, NEW u \in Unit, ReconcileUnit(u)
    PROVE  ReconcileOutcome
  <1> DEFINE j == PageJob(u)
  <1>1. /\ UNCHANGED <<queue, cards, verdict>> /\ tx \in Store /\ j \in Job
        /\ u \in tx.page_to_card_job_id
    BY JobNames, Subsets DEF ReconcileUnit, remote, TypeOK, EventsInOrder
  <1>2. /\ FinishedKeeps /\ \A v \in Unit : queue'[PageJob(v)] = queue[PageJob(v)]
        /\ IsLinked(tx, j) /\ j.kind = "page" /\ j.of = u /\ u \in UnitsOf(tx, j)
    BY <1>1 DEF FinishedKeeps, IsLinked, UnitsOf, PageJob
  <1> HIDE DEF j
  <1>3. CASE /\ nextId' = IdsAfter(tx, j) /\ nextId' <= MaxCandidates + 1
             /\ tx' = EnsureCandidates(tx, j, u)
    BY <1>1, <1>2, <1>3, GrowsRows DEF ReconcileOutcome
  <1>4. CASE tx' = MarkTerminal(tx, j)
    BY <1>1, <1>2, <1>4, GrowsMarks DEF ReconcileOutcome
  <1>5. CASE tx' = tx
    BY <1>1, <1>2, <1>5, GrowsSelf DEF ReconcileOutcome
  <1> QED BY <1>3, <1>4, <1>5 DEF ReconcileUnit, j

LEMMA CandidateOutcome ==
    ASSUME TypeOK, NEW c \in CandId, ReconcileCandidate(c)
    PROVE  ReconcileOutcome
  <1>1. /\ UNCHANGED <<cards, verdict>> /\ tx \in Store
        /\ ReviewJob(c) \in Job /\ RepairJob(c) \in Job
        /\ ReviewJob(c).kind = "review" /\ RepairJob(c).kind = "repair" /\ RepairJob(c).of = c
        /\ (UNCHANGED queue => FinishedKeeps)
    BY JobNames DEF ReconcileCandidate, TypeOK, ReviewJob, RepairJob, FinishedKeeps
  <1>2. ASSUME NEW j \in {ReviewJob(c), RepairJob(c)}, queue' = Created(queue, {j})
        PROVE  FinishedKeeps /\ \A u \in Unit : queue'[PageJob(u)] = queue[PageJob(u)]
    <2>1. \A u \in Unit : PageJob(u) # j
      BY <1>1 DEF PageJob
    <2> QED BY <1>1, <1>2, <2>1, CreatedFinished, JobNames DEF Created
  <1>3. CASE queue' = Created(queue, {ReviewJob(c)}) /\ tx' = LinkReviews(tx, {c})
    <2>1. {c} \in SUBSET CandId
      OBVIOUS
    <2> QED BY <1>1, <1>2, <1>3, <2>1, GrowsLinks DEF ReconcileOutcome
  <1>4. CASE UNCHANGED <<queue, tx>>
    BY <1>1, <1>4, GrowsSelf DEF ReconcileOutcome
  <1>5. CASE UNCHANGED queue /\ tx' \in {MarkTerminal(tx, ReviewJob(c)), MarkTerminal(tx, RepairJob(c))}
    BY <1>1, <1>5, GrowsMarks DEF ReconcileOutcome
  <1>6. CASE UNCHANGED queue /\ tx' = [tx EXCEPT !.ingestion_handoff_done = @ \cup {c}]
    BY <1>1, <1>6, GrowsLinks DEF ReconcileOutcome
  <1>7. CASE queue' = Created(queue, {RepairJob(c)}) /\ tx' = [tx EXCEPT !.repair_job_id = @ \cup {c}]
    BY <1>1, <1>2, <1>7, GrowsLinks DEF ReconcileOutcome
  <1>8. CASE /\ UNCHANGED queue /\ c \in tx.repair_job_id
             /\ nextId' = IdsAfter(tx, RepairJob(c)) /\ nextId' <= MaxCandidates + 1
             /\ \E u \in UnitsOf(tx, RepairJob(c)) : tx' = EnsureCandidates(tx, RepairJob(c), u)
    <2>1. IsLinked(tx, RepairJob(c))
      BY <1>1, <1>8 DEF IsLinked
    <2> QED BY <1>1, <1>8, <2>1, GrowsRows DEF ReconcileOutcome
  <1> QED BY <1>3, <1>4, <1>5, <1>6, <1>7, <1>8 DEF ReconcileCandidate, ReconcileReviewed

\* A step of a tick keeps the invariant if the store grows, and what becomes
\* processed is done.
LEMMA PageStep ==
    ASSUME TypeOK, TypeOK', PageInv, FinishedKeeps, UNCHANGED db, Grows(tx, tx'), EventsInOrder',
           tx'.page_to_card_terminal_state \subseteq tx'.page_to_card_job_id,
           \A j \in tx'.processed \ tx.processed :
               j.kind = "page" => Done(tx', j, queue', cards', verdict')
    PROVE  PageInv'
  <1>1. /\ db.processed \subseteq Job /\ tx.processed \subseteq Job /\ tx'.processed \subseteq Job
    BY DEF TypeOK, Store
  <1>2. PagesDone(db, queue', cards', verdict')
    BY <1>1, DoneRemote DEF PageInv, PagesDone
  <1>3. PagesDone(tx', queue', cards', verdict')
    <2>1. ASSUME NEW j \in tx.processed, j.kind = "page" PROVE Done(tx', j, queue', cards', verdict')
      <3>1. Done(tx, j, queue, cards, verdict)
        BY <2>1 DEF PageInv, PagesDone
      <3>2. Done(tx', j, queue, cards, verdict)
        BY <1>1, <3>1, DoneGrows
      <3> QED BY <1>1, <3>2, DoneRemote
    <2> QED BY <2>1 DEF PagesDone
  <1>4. \A r \in tx'.rows : Kin(tx', r)
    BY KinGrows DEF PageInv
  <1>5. \A r \in db'.rows : Kin(db', r)
    BY DEF PageInv
  <1> QED BY <1>2, <1>3, <1>4, <1>5 DEF PageInv

LEMMA PageHandleEvent ==
    ASSUME TypeOK, TypeOK', OneCandidatePerCard, PageInv, NEW j \in Job, HandleEvent(j)
    PROVE  PageInv'
  <1>1. /\ UNCHANGED <<units, events, db, recUnits, cards, verdict>>
        /\ j \in batch /\ batch' = batch \ {j}
    BY DEF HandleEvent, NextEvent
  <1>2. EventOutcome(j)
    BY EventHandled DEF PageInv
  <1>3. /\ tx'.processed = tx.processed \/ tx'.processed = tx.processed \cup {j}
        /\ tx.processed \subseteq tx'.processed
        /\ tx.page_to_card_job_id \subseteq tx'.page_to_card_job_id
    BY <1>2 DEF EventOutcome, Grows
  <1>4. EventsInOrder'
    <2>1. \A i \in DOMAIN events : events[i] \in Job
      BY DEF TypeOK
    <2>2. \A i \in DOMAIN events : queue'[events[i]] \in {"accepted", "terminal"}
      BY <1>2, <2>1 DEF EventsInOrder, PageInv, EventOutcome, FinishedKeeps, Finished
    <2>3. \A u \in Unit : queue'[PageJob(u)] # "absent" => u \in units'
      BY <1>1, <1>2 DEF EventsInOrder, PageInv, EventOutcome
    <2> QED BY <1>1, <1>3, <2>2, <2>3 DEF EventsInOrder, PageInv, IsRecorded, Finished
  <1>5. tx'.page_to_card_terminal_state \subseteq tx'.page_to_card_job_id
    BY <1>2 DEF EventOutcome, PageInv, PagesDone
  <1>6. ASSUME j \in tx'.processed \ tx.processed, j.kind = "page"
        PROVE  Done(tx', j, queue', cards', verdict')
    <2>1. IsLinked(tx, j)
      BY <1>1, <1>6 DEF PageInv, EventsInOrder, IsLinked
    <2>2. Done(tx', j, queue, cards, verdict)
      BY <1>2, <1>6, <2>1 DEF EventOutcome
    <2> QED BY <1>2, <2>2, DoneRemote DEF EventOutcome
  <1> QED BY <1>1, <1>2, <1>3, <1>4, <1>5, <1>6, PageStep DEF EventOutcome

LEMMA PageReconcile ==
    ASSUME TypeOK, TypeOK', PageInv, ReconcileOutcome, recUnits' \subseteq recUnits,
           UNCHANGED <<units, events, db, batch, cards, verdict>>
    PROVE  PageInv'
  <1>1. EventsInOrder'
    <2>1. \A i \in DOMAIN events : events[i] \in Job
      BY DEF TypeOK
    <2>2. \A i \in DOMAIN events : queue'[events[i]] \in {"accepted", "terminal"}
      BY <2>1 DEF EventsInOrder, PageInv, ReconcileOutcome, FinishedKeeps, Finished
    <2>3. \A u \in Unit : queue'[PageJob(u)] # "absent" => u \in units'
      BY DEF EventsInOrder, PageInv, ReconcileOutcome
    <2>4. tx.page_to_card_job_id \subseteq tx'.page_to_card_job_id /\ tx'.processed = tx.processed
      BY DEF ReconcileOutcome, Grows
    <2> QED BY <2>2, <2>3, <2>4 DEF EventsInOrder, PageInv, IsRecorded, Finished
  <1> QED BY <1>1, PageStep DEF ReconcileOutcome, PageInv, PagesDone

LEMMA PageTickSubmit ==
    ASSUME TypeOK, TypeOK', IngestInv, PageInv, TickSubmit
    PROVE  PageInv'
  <1> DEFINE missing == FirstOf(MissingPageJobs(db), PollBatch)
  <1>1. PICK done \in Prefixes(missing) :
          /\ queue' = Created(queue, {PageJob(u) : u \in done})
          /\ IF done = missing
             THEN tx' = [db EXCEPT !.page_to_card_job_id = @ \cup missing]
             ELSE tx' = tx
    BY DEF TickSubmit
  <1>2. /\ UNCHANGED <<units, events, db, batch, recUnits, cards, verdict>> /\ tx = db /\ db \in Store
        /\ batch = {} /\ recUnits = {}
        /\ missing \subseteq units /\ done \subseteq units /\ missing \in SUBSET Unit
    BY Subsets DEF TickSubmit, IngestInv, TypeOK, MissingPageJobs
  <1> HIDE DEF missing
  <1>3. /\ FinishedKeeps
        /\ \A u \in Unit : queue'[PageJob(u)] # "absent" => queue[PageJob(u)] # "absent" \/ u \in done
    <2>1. \A u \in Unit : PageJob(u) \in {PageJob(v) : v \in done} => u \in done
      BY DEF PageJob
    <2> QED BY <1>1, <1>2, <2>1, CreatedFinished, JobNames
  <1>4. /\ Grows(tx, tx') /\ tx'.processed = tx.processed
        /\ tx'.page_to_card_terminal_state = tx.page_to_card_terminal_state
    <2>1. CASE tx' = tx
      BY <2>1, GrowsSelf
    <2>2. CASE tx' = [db EXCEPT !.page_to_card_job_id = @ \cup missing]
      BY <1>2, <2>2, GrowsLinks
    <2> QED BY <1>1, <2>1, <2>2
  <1>5. EventsInOrder'
    <2>1. \A i \in DOMAIN events : events[i] \in Job
      BY DEF TypeOK
    <2>2. \A i \in DOMAIN events : queue'[events[i]] \in {"accepted", "terminal"}
      BY <1>3, <2>1 DEF EventsInOrder, PageInv, FinishedKeeps, Finished
    <2>3. \A u \in Unit : queue'[PageJob(u)] # "absent" => u \in units'
      BY <1>2, <1>3 DEF EventsInOrder, PageInv
    <2> QED BY <1>2, <1>4, <2>2, <2>3 DEF EventsInOrder, PageInv, IsRecorded, Finished
  <1>6. tx'.page_to_card_terminal_state \subseteq tx'.page_to_card_job_id
    BY <1>4 DEF PageInv, PagesDone, Grows
  <1> QED BY <1>2, <1>3, <1>4, <1>5, <1>6, PageStep

LEMMA PageTickEvents ==
    ASSUME TypeOK, TypeOK', IngestInv, PageInv, TickEvents
    PROVE  PageInv'
  <1>1. /\ UNCHANGED <<units, events, db, tx, recUnits, queue, cards, verdict>> /\ tx = db
        /\ MissingPageJobs(db) = {} /\ tx \in Store
        /\ batch' = {events[i] : i \in FirstOf(Pending(db), PollBatch)}
    BY DEF TickEvents, IngestInv, remote, TypeOK
  <1>2. ASSUME NEW j \in batch'
        PROVE  /\ IsRecorded(j) /\ j \notin tx.processed
               /\ j.kind = "page" => j.of \in tx.page_to_card_job_id
    <2>1. PICK i \in Pending(db) : j = events[i]
      BY <1>1, Subsets
    <2>2. i \in DOMAIN events /\ j \notin tx.processed /\ Finished(j) /\ j \in Job
      BY <1>1, <2>1 DEF Pending, PageInv, EventsInOrder, TypeOK
    <2>3. ASSUME j.kind = "page" PROVE j.of \in tx.page_to_card_job_id
      <3>1. j.of \in Unit /\ j = PageJob(j.of)
        BY <2>2, <2>3, JobKinds
      <3>2. j.of \in units
        BY <2>2, <3>1 DEF PageInv, EventsInOrder, Finished
      <3>3. tx.page_to_card_terminal_state \subseteq tx.page_to_card_job_id
        BY DEF PageInv, PagesDone
      <3> QED BY <1>1, <3>2, <3>3 DEF MissingPageJobs
    <2> QED BY <2>1, <2>2, <2>3 DEF IsRecorded
  <1>3. EventsInOrder'
    BY <1>1, <1>2 DEF PageInv, EventsInOrder, IsRecorded, Finished
  <1> QED BY <1>1, <1>3 DEF PageInv

\* The tick is over: committed, or rolled back.
LEMMA PageStop ==
    ASSUME PageInv, Stop(db'), db' \in {db, tx},
           UNCHANGED <<units, events, queue, cards, verdict>>
    PROVE  PageInv'
  <1>1. tx' = db' /\ batch' = {} /\ recUnits' = {}
    BY DEF Stop
  <1>2. EventsInOrder'
    <2>1. \A j \in db'.processed : IsRecorded(j)
      BY DEF PageInv, EventsInOrder
    <2> QED BY <1>1, <2>1 DEF PageInv, EventsInOrder, IsRecorded, Finished
  <1>3. /\ \A r \in db'.rows : Kin(db', r)
        /\ PagesDone(db', queue, cards, verdict)
    BY DEF PageInv
  <1> QED BY <1>1, <1>2, <1>3 DEF PageInv

\* The inductive invariant of the page-to-card jobs.
THEOREM PageInvariant == Spec => []PageInv
  <1>1. Init => PageInv
    BY JobNames DEF Init, PageInv, EventsInOrder, PagesDone, EmptyStore
  <1>2. TypeOK /\ IngestInv /\ PageInv /\ [Next]_vars /\ TypeOK' => PageInv'
    <2> SUFFICES ASSUME TypeOK, IngestInv, PageInv, [Next]_vars, TypeOK' PROVE PageInv'
      OBVIOUS
    <2>0. tx \in Store /\ db \in Store /\ OneCandidatePerCard
      BY DEF TypeOK, IngestInv
    <2>q. ASSUME UNCHANGED <<db, tx, batch, queue, cards, verdict>>, recUnits' \subseteq recUnits,
                 units \subseteq units', UNCHANGED events
          PROVE  PageInv'
      BY <2>q DEF PageInv, EventsInOrder, IsRecorded, Finished
    <2>1. ASSUME NEW us \in SUBSET Unit, CreateRun(us) PROVE PageInv'
      BY <2>1, <2>q DEF CreateRun, session, remote
    <2>2. ASSUME Workers PROVE PageInv'
      <3>1. UNCHANGED <<units, events, db, tx, batch, recUnits>>
        BY <2>2 DEF Workers, AcceptCards, AcceptReview, EndJob, session
      <3>2. /\ FinishedKeeps
            /\ \A j \in Job : queue'[j] # "absent" => queue[j] # "absent"
            /\ \A j \in Job : Finished(j) => Finished(j)'
        BY <2>2 DEF Workers, AcceptCards, AcceptReview, EndJob, FinishedKeeps, Finished, TypeOK
      <3>3. \A i \in DOMAIN events : events[i] \in Job
        BY DEF TypeOK
      <3>4. EventsInOrder'
        BY <3>1, <3>2, <3>3, JobNames DEF PageInv, EventsInOrder, IsRecorded
      <3>5. Grows(tx, tx')
        BY <3>1, GrowsSelf
      <3> QED BY <3>1, <3>2, <3>4, <3>5, PageStep DEF PageInv, PagesDone
    <2>3. ASSUME NEW j \in Job, DeliverEvent(j) PROVE PageInv'
      <3>1. /\ UNCHANGED <<units, db, tx, batch, recUnits, queue, cards, verdict>>
            /\ events \in Seq(Job) /\ events' = Append(events, j) /\ Finished(j)
        BY <2>3 DEF DeliverEvent, session, remote, TypeOK, Finished
      <3>2. /\ \A i \in DOMAIN events : i \in DOMAIN events' /\ events'[i] = events[i]
            /\ \A i \in DOMAIN events' : events'[i] = j \/ i \in DOMAIN events
        BY <3>1
      <3>3. EventsInOrder'
        BY <3>1, <3>2 DEF PageInv, EventsInOrder, IsRecorded, Finished
      <3> QED BY <3>1, <3>3 DEF PageInv
    <2>4. ASSUME FirstReconcile PROVE PageInv'
      BY <2>4, <2>q DEF FirstReconcile, remote
    <2>5. ASSUME TickReconcile PROVE PageInv'
      <3>1. /\ UNCHANGED <<units, events, db, tx, batch, queue, cards, verdict>> /\ tx = db
            /\ recUnits' \subseteq tx.page_to_card_job_id
        BY <2>5, Subsets DEF TickReconcile, Quiet, Outstanding, IngestInv, remote
      <3>2. EventsInOrder'
        BY <3>1 DEF PageInv, EventsInOrder, IsRecorded, Finished
      <3> QED BY <3>1, <3>2 DEF PageInv
    <2>6. ASSUME NEW u \in Unit, ReconcileUnit(u) PROVE PageInv'
      BY <2>6, UnitOutcome, PageReconcile DEF ReconcileUnit, remote, PageInv
    <2>7. ASSUME NEW c \in CandId, ReconcileCandidate(c) PROVE PageInv'
      BY <2>7, CandidateOutcome, PageReconcile DEF ReconcileCandidate
    <2>8. ASSUME Commit \/ Crash \/ \E c \in CandId : ReconcileMalformed(c) PROVE PageInv'
      <3>1. /\ UNCHANGED <<units, events, queue, cards, verdict>>
            /\ Stop(db') /\ db' \in {db, tx}
        BY <2>8 DEF Commit, Crash, ReconcileMalformed, Stop, remote
      <3> QED BY <3>1, PageStop
    <2>9. CASE UNCHANGED vars
      BY <2>9, <2>q DEF vars
    <2> QED
      BY <2>0, <2>1, <2>2, <2>3, <2>4, <2>5, <2>6, <2>7, <2>8, <2>9,
         PageHandleEvent, PageTickSubmit, PageTickEvents DEF Next, Orchestrator, Reconcile
  <1> QED BY <1>1, <1>2, TypeCorrect, IngestInvariant, PTL DEF Spec

\* What is done about a job is all that the runtime does about it.
LEMMA DoneIsAdvanced ==
    ASSUME NEW d \in Store, NEW j \in Job, Done(d, j, queue, cards, verdict)
    PROVE  Advanced(d, j)
  <1>1. CASE queue[j] = "terminal" /\ Ended(d, j)
    <2>1. MarkTerminal(d, j) = d
      <3>1. CASE j.kind = "page"
        <4>1. d.page_to_card_terminal_state \cup {j.of} = d.page_to_card_terminal_state
          BY <1>1, <3>1 DEF Ended
        <4> QED BY <3>1, <4>1 DEF MarkTerminal, Store
      <3>2. CASE j.kind = "review"
        <4>1. d.review_terminal_state \cup {j.of} = d.review_terminal_state
          BY <1>1, <3>2 DEF Ended
        <4> QED BY <3>2, <4>1 DEF MarkTerminal, Store
      <3>3. CASE j.kind = "repair"
        <4>1. d.repair_terminal_state \cup {j.of} = d.repair_terminal_state
          BY <1>1, <3>3 DEF Ended
        <4> QED BY <3>3, <4>1 DEF MarkTerminal, Store
      <3> QED BY <3>1, <3>2, <3>3, JobKinds
    <2> QED BY <1>1, <2>1 DEF Advanced
  <1>2. CASE queue[j] = "accepted"
    BY <1>2 DEF Done, Advanced, MissingOrdinals, Ordinals
  <1> QED BY <1>1, <1>2 DEF Done

\* ProcessedImpliesAdvanced for the page-to-card jobs, without its condition.
PagesAdvance == \A j \in db.processed : j.kind = "page" => Advanced(db, j)

\* The end of a page-to-card job is never dropped: whatever fails, and however
\* often, an event that is processed has had its effects.
THEOREM PagesAlwaysAdvance == Spec => []PagesAdvance
  <1>1. TypeOK /\ PageInv => PagesAdvance
    <2> SUFFICES ASSUME TypeOK, PageInv, NEW j \in db.processed, j.kind = "page"
                 PROVE  Advanced(db, j)
      BY DEF PagesAdvance
    <2>1. db \in Store /\ j \in Job
      BY DEF TypeOK, Store
    <2> QED BY <2>1, DoneIsAdvanced DEF PageInv, PagesDone
  <1> QED BY <1>1, TypeCorrect, PageInvariant, PTL

-----------------------------------------------------------------------------
(* Reviews and repairs: a job without a link has an event in front of its    *)
(* own that will link it                                                     *)

\* The event of job i is recorded, in front of any event of job j.
InFront(i, j) ==
    \E m \in DOMAIN events : events[m] = i /\ \A k \in DOMAIN events : events[k] = j => m < k

\* A row without a review job: the event of the job it comes from will make it one.
ReviewsFollow(d) ==
    \A r \in d.rows : r.id \notin d.review_job_id =>
        r.job \notin d.processed /\ InFront(r.job, ReviewJob(r.id))

\* A repair job without a link: the event of the failed review will link it.
RepairsFollow(d) ==
    \A r \in d.rows :
        r.id \notin d.repair_job_id /\ queue[RepairJob(r.id)] # "absent" =>
            ReviewJob(r.id) \notin d.processed /\ InFront(ReviewJob(r.id), RepairJob(r.id))

\* ... and is in the running batch if the other one is.
BatchFollows ==
    \A r \in tx.rows :
        /\ r.id \notin tx.review_job_id /\ ReviewJob(r.id) \in batch => r.job \in batch
        /\ r.id \notin tx.repair_job_id /\ RepairJob(r.id) \in batch => ReviewJob(r.id) \in batch

\* Before the first failure every job has its link.
AllLinked ==
    \A r \in tx.rows : /\ r.id \in tx.review_job_id
                       /\ queue[RepairJob(r.id)] # "absent" => r.id \in tx.repair_job_id

\* Every job whose row store d has.
OwnedDone(d, q, n, v) ==
    \A j \in d.processed :
        j.kind # "page" /\ (\E r \in d.rows : r.id = j.of) => Done(d, j, q, n, v)

FollowInv ==
    /\ pc # "reconcile" /\ ~ lastReconcile
    /\ ReviewsFollow(db) /\ ReviewsFollow(tx)
    /\ faults = 0 => AllLinked
    /\ faults <= 1 =>
        /\ RepairsFollow(db) /\ RepairsFollow(tx) /\ BatchFollows
        /\ OwnedDone(db, queue, cards, verdict) /\ OwnedDone(tx, queue, cards, verdict)

LEMMA RowTypes ==
    ASSUME TypeOK
    PROVE  /\ tx \in Store /\ db \in Store
           /\ \A r \in tx.rows \cup db.rows :
                  r.id \in CandId /\ r.job \in Job /\ ReviewJob(r.id) \in Job /\ RepairJob(r.id) \in Job
           /\ tx.processed \subseteq Job /\ db.processed \subseteq Job
           /\ \A i \in DOMAIN events : i \in Nat /\ events[i] \in Job
           /\ faults \in Nat
    BY JobNames, ConstantsAssumption DEF TypeOK, Store, Row

\* Steps outside of the event handling: marks stay, and events and failures are added.
LEMMA FollowQuiet ==
    ASSUME TypeOK, FollowInv, pc' # "reconcile", ~ lastReconcile',
           UNCHANGED <<db, batch>>, Grows(tx, tx'), tx'.rows = tx.rows,
           tx'.review_job_id = tx.review_job_id, tx'.repair_job_id = tx.repair_job_id,
           tx'.processed = tx.processed, FinishedKeeps,
           \A c \in CandId : queue'[RepairJob(c)] # "absent" => queue[RepairJob(c)] # "absent",
           faults' = faults \/ faults' = faults + 1,
           events' = events \/ \E j \in Job : events' = Append(events, j)
    PROVE  FollowInv'
  <1> USE RowTypes
  <1>1. \A i, j : InFront(i, j) => InFront(i, j)'
    <2>1. CASE events' = events
      BY <2>1 DEF InFront
    <2>2. ASSUME NEW k \in Job, events' = Append(events, k) PROVE \A i, j : InFront(i, j) => InFront(i, j)'
      <3>1. /\ events \in Seq(Job) /\ DOMAIN events' = DOMAIN events \cup {Len(events) + 1}
            /\ \A i \in DOMAIN events : i < Len(events) + 1 /\ events'[i] = events[i]
        BY <2>2 DEF TypeOK
      <3> QED BY <3>1 DEF InFront
    <2> QED BY <2>1, <2>2
  <1>2. ReviewsFollow(db)' /\ ReviewsFollow(tx)'
    BY <1>1 DEF FollowInv, ReviewsFollow
  <1>3. ASSUME faults' = 0 PROVE AllLinked'
    <2>1. faults = 0
      BY <1>3
    <2> QED BY <2>1 DEF FollowInv, AllLinked
  <1>4. ASSUME faults' <= 1
        PROVE  /\ RepairsFollow(db)' /\ RepairsFollow(tx)' /\ BatchFollows'
               /\ OwnedDone(db', queue', cards', verdict')
               /\ OwnedDone(tx', queue', cards', verdict')
    <2>1. /\ RepairsFollow(db) /\ RepairsFollow(tx) /\ BatchFollows
          /\ OwnedDone(db, queue, cards, verdict) /\ OwnedDone(tx, queue, cards, verdict)
      BY <1>4 DEF FollowInv
    <2>2. RepairsFollow(db)' /\ RepairsFollow(tx)'
      BY <1>1, <2>1 DEF RepairsFollow
    <2>3. BatchFollows'
      BY <2>1 DEF BatchFollows
    <2>4. OwnedDone(db', queue', cards', verdict')
      BY <2>1, DoneRemote DEF OwnedDone
    <2>5. OwnedDone(tx', queue', cards', verdict')
      <3>1. ASSUME NEW j \in tx.processed, Done(tx, j, queue, cards, verdict)
            PROVE  Done(tx', j, queue', cards', verdict')
        <4>1. Done(tx', j, queue, cards, verdict)
          BY <3>1, DoneGrows
        <4> QED BY <4>1, DoneRemote
      <3> QED BY <2>1, <3>1 DEF OwnedDone
    <2> QED BY <2>2, <2>3, <2>4, <2>5
  <1> QED BY <1>2, <1>3, <1>4 DEF FollowInv

\* The candidate ids of rows that a handler adds are new: no job of them has
\* been created, so none has an event.
LEMMA NewRowsUnknown ==
    ASSUME TypeOK, IngestInv, RecordInv, PageInv, NEW j \in Job, HandleEvent(j),
           EventOutcome(j), NEW r \in tx'.rows \ tx.rows
    PROVE  /\ r.id \in CandId /\ r.job = j
           /\ ~ IsRecorded(ReviewJob(r.id)) /\ ~ IsRecorded(RepairJob(r.id))
           /\ queue'[RepairJob(r.id)] = "absent"
  <1>1. r.job = j /\ tx \in Store /\ IsRecorded(j)
    BY DEF EventOutcome, TypeOK, HandleEvent, NextEvent, PageInv, EventsInOrder
  <1>2. PICK u \in Unit :
          /\ IdsAfter(tx, j) <= MaxCandidates + 1
          /\ tx'.rows = tx.rows \cup NewRows(tx, j, u)
    BY EventEffect
  <1>3. r \in Row /\ nextId <= r.id
    BY <1>1, <1>2, NewRowsType
  <1>4. r.id \in CandId /\ r.id \in Nat /\ nextId \in Nat
    BY <1>3, ConstantsAssumption DEF Row, CandId, TypeOK
  <1>5. queue[ReviewJob(r.id)] = "absent"
    BY <1>3, <1>4 DEF IngestInv, BelowSequence
  <1>6. queue[RepairJob(r.id)] = "absent"
    BY <1>4, <1>5 DEF RecordInv, FailedReview
  <1>7. ~ IsRecorded(ReviewJob(r.id)) /\ ~ IsRecorded(RepairJob(r.id))
    BY <1>5, <1>6 DEF IsRecorded, PageInv, EventsInOrder, Finished
  <1>8. queue'[RepairJob(r.id)] = "absent"
    BY <1>1, <1>4, <1>6, <1>7 DEF EventOutcome
  <1> QED BY <1>1, <1>4, <1>7, <1>8

\* An event is not handled before one of the same batch that is in front of it.
LEMMA FirstIsFirst ==
    ASSUME TypeOK, NEW j \in Job, NextEvent(j), NEW i \in batch, InFront(i, j)
    PROVE  FALSE
  <1>1. PICK m \in DOMAIN events :
          events[m] = i /\ \A k \in DOMAIN events : events[k] = j => m < k
    BY DEF InFront
  <1>2. PICK n \in DOMAIN events :
          events[n] = j /\ \A k \in DOMAIN events : events[k] \in batch => n <= k
    BY DEF NextEvent
  <1>3. n <= m /\ m < n /\ n \in Nat /\ m \in Nat
    BY <1>1, <1>2, RowTypes
  <1> QED BY <1>3

LEMMA FollowHandleEvent ==
    ASSUME TypeOK, TypeOK', IngestInv, RecordInv, RecordInv', PageInv, PageInv', FollowInv,
           NEW j \in Job, HandleEvent(j)
    PROVE  FollowInv'
  <1> USE RowTypes
  <1>1. /\ UNCHANGED <<events, db, pc, lastReconcile, cards, verdict>>
        /\ NextEvent(j) /\ j \in batch /\ batch' = batch \ {j}
    BY DEF HandleEvent, NextEvent
  <1>2. EventOutcome(j)
    BY EventHandled DEF PageInv, IngestInv
  <1>3. /\ FinishedKeeps /\ Grows(tx, tx')
        /\ faults' = faults \/ faults' = faults + 1
        /\ tx'.processed = tx.processed \/ tx'.processed = tx.processed \cup {j}
    BY <1>2 DEF EventOutcome
  <1>4. /\ IsRecorded(j) /\ j \notin tx.processed /\ j \notin db.processed /\ Finished(j)
        /\ queue'[j] = queue[j]
        /\ \A i \in batch : IsRecorded(i)
        /\ \A i \in tx.processed : IsRecorded(i)
        /\ \A i \in Job : IsRecorded(i) => queue[i] # "absent"
        /\ \A i, k : InFront(i, k)' <=> InFront(i, k)
    BY <1>1, <1>3 DEF PageInv, EventsInOrder, IsRecorded, Finished, FinishedKeeps, InFront
  <1>5. \A i, k : IsRecorded(i) /\ ~ IsRecorded(k) => InFront(i, k)
    BY DEF IsRecorded, InFront
  \* What becomes processed has linked the reviews of its rows.
  <1>6. ASSUME NEW r \in tx'.rows, r.job = j, j \in tx'.processed PROVE r.id \in tx'.review_job_id
    <2>1. queue[j] = "accepted" /\ r.job.kind \in {"page", "repair"}
      BY <1>4, <1>6 DEF RecordInv, Sourced, PageInv, Kin
    <2>2. \/ ~ IsLinked(tx, j) /\ tx'.rows = tx.rows
          \/ Done(tx', j, queue, cards, verdict)
      BY <1>2, <1>4, <1>6 DEF EventOutcome
    <2>3. CASE ~ IsLinked(tx, j) /\ tx'.rows = tx.rows
      BY <1>6, <2>3 DEF PageInv, Kin
    <2>4. CASE Done(tx', j, queue, cards, verdict)
      BY <1>6, <2>1, <2>4 DEF Done
    <2> QED BY <2>2, <2>3, <2>4
  <1>7. ASSUME NEW r \in tx'.rows \ tx.rows
        PROVE  /\ r.job = j /\ r.id \in CandId
               /\ ~ IsRecorded(ReviewJob(r.id)) /\ ~ IsRecorded(RepairJob(r.id))
               /\ queue'[RepairJob(r.id)] = "absent"
    BY <1>2, NewRowsUnknown
  <1>8. ReviewsFollow(db)'
    BY <1>1, <1>4 DEF FollowInv, ReviewsFollow
  <1>9. ReviewsFollow(tx)'
    <2>1. ASSUME NEW r \in tx'.rows, r.id \notin tx'.review_job_id
          PROVE  r.job \notin tx'.processed /\ InFront(r.job, ReviewJob(r.id))
      <3>1. r.job # j \/ j \notin tx'.processed
        BY <1>6, <2>1
      <3>2. CASE r \in tx.rows
        <4>1. r.job \notin tx.processed /\ InFront(r.job, ReviewJob(r.id))
          BY <1>3, <2>1, <3>2 DEF FollowInv, ReviewsFollow, Grows
        <4> QED BY <1>3, <3>1, <4>1
      <3>3. CASE r \notin tx.rows
        BY <1>4, <1>5, <1>7, <3>1, <3>3
      <3> QED BY <3>2, <3>3
    <2> QED BY <1>4, <2>1 DEF ReviewsFollow
  <1>10. ASSUME faults' = 0 PROVE AllLinked'
    <2>1. faults = 0 /\ faults' = faults
      BY <1>3, <1>10
    <2>2. AllLinked
      BY <2>1 DEF FollowInv
    <2>3. ASSUME NEW r \in tx'.rows PROVE r.id \in tx'.review_job_id
      <3>1. CASE r \in tx.rows
        BY <1>3, <2>2, <3>1 DEF AllLinked, Grows
      <3>2. CASE r \notin tx.rows
        <4>1. j \in tx'.processed
          BY <1>2, <2>1, <3>2 DEF EventOutcome
        <4> QED BY <1>6, <1>7, <3>2, <4>1
      <3> QED BY <3>1, <3>2
    <2>4. ASSUME NEW r \in tx'.rows, queue'[RepairJob(r.id)] # "absent" PROVE r.id \in tx'.repair_job_id
      <3>1. r \in tx.rows
        BY <1>7, <2>4
      <3>2. queue[RepairJob(r.id)] # "absent" \/ r.id \in tx'.repair_job_id
        BY <1>2, <2>1, <2>4, <3>1 DEF EventOutcome
      <3> QED BY <1>3, <2>2, <3>1, <3>2 DEF AllLinked, Grows
    <2> QED BY <2>3, <2>4 DEF AllLinked
  <1>11. ASSUME faults' <= 1
         PROVE  /\ RepairsFollow(db)' /\ RepairsFollow(tx)' /\ BatchFollows'
                /\ OwnedDone(db', queue', cards', verdict')
                /\ OwnedDone(tx', queue', cards', verdict')
    <2>1. /\ RepairsFollow(db) /\ RepairsFollow(tx) /\ BatchFollows
          /\ OwnedDone(db, queue, cards, verdict) /\ OwnedDone(tx, queue, cards, verdict)
          /\ ReviewsFollow(tx)
      BY <1>3, <1>11 DEF FollowInv
    \* The row of a review or repair job knows its link when its event is handled ...
    <2>2. ASSUME NEW r \in tx.rows, j = ReviewJob(r.id) \/ j = RepairJob(r.id) PROVE IsLinked(tx, j)
      <3>1. ASSUME j = ReviewJob(r.id), r.id \notin tx.review_job_id PROVE FALSE
        <4>1. r.job \in batch /\ InFront(r.job, j)
          BY <1>1, <2>1, <3>1 DEF BatchFollows, ReviewsFollow
        <4> QED BY <1>1, <4>1, FirstIsFirst
      <3>2. ASSUME j = RepairJob(r.id), r.id \notin tx.repair_job_id PROVE FALSE
        <4>1. ReviewJob(r.id) \in batch /\ InFront(ReviewJob(r.id), j)
          BY <1>1, <1>4, <2>1, <3>2 DEF BatchFollows, RepairsFollow
        <4> QED BY <1>1, <4>1, FirstIsFirst
      <3> QED BY <2>2, <3>1, <3>2 DEF IsLinked, ReviewJob, RepairJob
    \* ... so it is processed only when it is done.
    <2>3. ASSUME NEW r \in tx.rows, j = ReviewJob(r.id) \/ j = RepairJob(r.id), j \in tx'.processed
          PROVE  Done(tx', j, queue, cards, verdict)
      BY <1>2, <1>4, <2>2, <2>3 DEF EventOutcome
    \* A failed review with a repair job is processed only with the link.
    <2>4. ASSUME NEW r \in tx.rows, j = ReviewJob(r.id), queue[RepairJob(r.id)] # "absent",
                 r.id \notin tx'.repair_job_id
          PROVE  j \notin tx'.processed /\ verdict[j] = "failed"
      <3>1. FailedReview(r.id)
        BY <2>4 DEF RecordInv
      <3>2. queue[j] = "accepted" /\ verdict[j] = "failed" /\ j.kind = "review" /\ j.of = r.id
        BY <2>4, <3>1 DEF FailedReview, ReviewJob
      <3>3. ~ Done(tx', j, queue, cards, verdict)
        BY <2>4, <3>2 DEF Done
      <3> QED BY <2>3, <2>4, <3>2, <3>3
    <2>5. RepairsFollow(db)'
      <3>1. ASSUME NEW r \in db.rows, r.id \notin db.repair_job_id, queue'[RepairJob(r.id)] # "absent"
            PROVE  ReviewJob(r.id) \notin db.processed /\ InFront(ReviewJob(r.id), RepairJob(r.id))
        <4>1. CASE queue[RepairJob(r.id)] # "absent"
          BY <2>1, <3>1, <4>1 DEF RepairsFollow
        <4>2. CASE queue[RepairJob(r.id)] = "absent"
          <5>1. j = ReviewJob(r.id)
            BY <1>2, <3>1, <4>2 DEF EventOutcome
          <5> QED BY <1>4, <1>5, <4>2, <5>1
        <4> QED BY <4>1, <4>2
      <3> QED BY <1>1, <1>4, <3>1 DEF RepairsFollow
    <2>6. RepairsFollow(tx)'
      <3>1. ASSUME NEW r \in tx'.rows, r.id \notin tx'.repair_job_id, queue'[RepairJob(r.id)] # "absent"
            PROVE  ReviewJob(r.id) \notin tx'.processed /\ InFront(ReviewJob(r.id), RepairJob(r.id))
        <4>1. r \in tx.rows /\ r.id \notin tx.repair_job_id
          BY <1>3, <1>7, <3>1 DEF Grows
        <4>2. CASE queue[RepairJob(r.id)] # "absent"
          <5>1. ReviewJob(r.id) \notin tx.processed /\ InFront(ReviewJob(r.id), RepairJob(r.id))
            BY <2>1, <4>1, <4>2 DEF RepairsFollow
          <5> QED BY <1>3, <2>4, <3>1, <4>1, <4>2, <5>1
        <4>3. CASE queue[RepairJob(r.id)] = "absent"
          <5>1. j = ReviewJob(r.id) /\ faults' = faults + 1
            BY <1>2, <3>1, <4>1, <4>3 DEF EventOutcome
          <5>2. tx'.processed = tx.processed
            BY <1>2, <5>1 DEF EventOutcome
          <5> QED BY <1>4, <1>5, <4>1, <4>3, <5>1, <5>2
        <4> QED BY <4>2, <4>3
      <3> QED BY <1>4, <3>1 DEF RepairsFollow
    \* A batch that begins without a failure has all links, and one that begins with one ...
    <2>7. (faults = 0 /\ AllLinked) \/ faults' = faults
      BY <1>3, <1>11 DEF FollowInv
    <2>8. BatchFollows'
      <3>1. ASSUME NEW r \in tx'.rows, r.id \notin tx'.review_job_id, ReviewJob(r.id) \in batch'
            PROVE  r.job \in batch'
        <4>1. r \in tx.rows /\ r.id \notin tx.review_job_id
          BY <1>1, <1>3, <1>4, <1>7, <3>1 DEF Grows
        <4>2. faults' = faults /\ r.job \in batch
          BY <1>1, <2>1, <2>7, <3>1, <4>1 DEF AllLinked, BatchFollows
        <4>3. j \in tx'.processed \/ j.kind = "review"
          BY <1>2, <4>2 DEF EventOutcome
        <4>4. r.job # j
          BY <1>6, <3>1, <4>1, <4>3 DEF PageInv, Kin
        <4> QED BY <1>1, <4>2, <4>4
      <3>2. ASSUME NEW r \in tx'.rows, r.id \notin tx'.repair_job_id, RepairJob(r.id) \in batch'
            PROVE  ReviewJob(r.id) \in batch'
        <4>1. r \in tx.rows /\ r.id \notin tx.repair_job_id /\ queue[RepairJob(r.id)] # "absent"
          BY <1>1, <1>3, <1>4, <1>7, <3>2 DEF Grows
        <4>2. faults' = faults /\ ReviewJob(r.id) \in batch
          BY <1>1, <2>1, <2>7, <3>2, <4>1 DEF AllLinked, BatchFollows
        <4>3. j \in tx'.processed \/ verdict[j] = "malformed"
          BY <1>2, <4>2 DEF EventOutcome
        <4>4. ReviewJob(r.id) # j
          BY <2>4, <3>2, <4>1, <4>3
        <4> QED BY <1>1, <4>2, <4>4
      <3> QED BY <3>1, <3>2 DEF BatchFollows
    <2>9. OwnedDone(db', queue', cards', verdict')
      BY <1>1, <1>3, <2>1, DoneRemote DEF OwnedDone
    <2>10. OwnedDone(tx', queue', cards', verdict')
      <3>1. ASSUME NEW k \in tx'.processed, k.kind # "page", NEW r \in tx'.rows, r.id = k.of
            PROVE  Done(tx', k, queue', cards', verdict')
        <4>1. IsRecorded(k) /\ k \in Job
          BY <1>3, <1>4
        <4>2. k = ReviewJob(r.id) \/ k = RepairJob(r.id)
          BY <3>1, <4>1, JobKinds
        <4>3. r \in tx.rows
          BY <1>7, <4>1, <4>2
        <4>4. CASE k \in tx.processed
          <5>1. Done(tx, k, queue, cards, verdict)
            BY <2>1, <3>1, <4>3, <4>4 DEF OwnedDone
          <5>2. Done(tx', k, queue, cards, verdict)
            BY <1>3, <4>1, <5>1, DoneGrows
          <5> QED BY <1>3, <4>1, <5>2, DoneRemote
        <4>5. CASE k \notin tx.processed
          <5>1. k = j
            BY <1>3, <4>5
          <5>2. Done(tx', j, queue, cards, verdict)
            BY <2>3, <4>2, <4>3, <5>1
          <5> QED BY <1>3, <5>1, <5>2, DoneRemote
        <4> QED BY <4>4, <4>5
      <3> QED BY <3>1 DEF OwnedDone
    <2> QED BY <2>5, <2>6, <2>8, <2>9, <2>10
  <1> QED BY <1>1, <1>8, <1>9, <1>10, <1>11 DEF FollowInv

LEMMA FollowTickSubmit ==
    ASSUME TypeOK, IngestInv, FollowInv, TickSubmit
    PROVE  FollowInv'
  <1> DEFINE missing == FirstOf(MissingPageJobs(db), PollBatch)
  <1>1. PICK done \in Prefixes(missing) :
          /\ queue' = Created(queue, {PageJob(u) : u \in done})
          /\ IF done = missing
             THEN tx' = [db EXCEPT !.page_to_card_job_id = @ \cup missing] /\ UNCHANGED <<lastReconcile, faults>>
             ELSE tx' = tx /\ Fault /\ lastReconcile' = FALSE
    BY DEF TickSubmit
  <1>2. /\ UNCHANGED <<events, db, batch, cards, verdict>> /\ tx = db /\ db \in Store
        /\ missing \in SUBSET Unit /\ pc' # "reconcile"
    BY Subsets DEF TickSubmit, IngestInv, TypeOK, MissingPageJobs
  <1> HIDE DEF missing
  <1>3. /\ FinishedKeeps
        /\ \A c \in CandId : queue'[RepairJob(c)] # "absent" => queue[RepairJob(c)] # "absent"
    <2>1. \A c \in CandId : RepairJob(c) \notin {PageJob(u) : u \in done}
      BY DEF PageJob, RepairJob
    <2> QED BY <1>1, <1>2, <2>1, CreatedFinished, JobNames
  <1>4. /\ Grows(tx, tx') /\ tx'.processed = tx.processed /\ tx'.rows = tx.rows
        /\ tx'.review_job_id = tx.review_job_id /\ tx'.repair_job_id = tx.repair_job_id
        /\ faults' = faults \/ faults' = faults + 1
        /\ ~ lastReconcile'
    <2>1. CASE tx' = tx /\ Fault /\ lastReconcile' = FALSE
      BY <2>1, GrowsSelf DEF Fault
    <2>2. CASE tx' = [db EXCEPT !.page_to_card_job_id = @ \cup missing] /\ UNCHANGED <<lastReconcile, faults>>
      <3>1. /\ tx'.rows = tx.rows /\ tx'.review_job_id = tx.review_job_id
            /\ tx'.repair_job_id = tx.repair_job_id
        BY <1>2, <2>2 DEF Store
      <3> QED BY <1>2, <2>2, <3>1, GrowsLinks DEF FollowInv
    <2> QED BY <1>1, <2>1, <2>2
  <1> QED BY <1>2, <1>3, <1>4, FollowQuiet

\* A batch is the first of the pending events: whatever is in front of one of
\* them and not processed is one of them.
LEMMA FollowTickEvents ==
    ASSUME TypeOK, IngestInv, PageInv, FollowInv, TickEvents
    PROVE  FollowInv'
  <1> USE RowTypes
  <1>1. /\ UNCHANGED <<events, db, tx, lastReconcile, queue, cards, verdict, faults>> /\ tx = db
        /\ pc' = "events" /\ batch' = {events[i] : i \in FirstOf(Pending(db), PollBatch)}
    BY DEF TickEvents, IngestInv, remote
  <1>2. ASSUME NEW i, NEW j \in batch', i \notin db.processed, InFront(i, j)
        PROVE  i \in batch'
    <2>1. PICK k \in FirstOf(Pending(db), PollBatch) : events[k] = j
      BY <1>1, <1>2
    <2>2. k \in Pending(db) /\ k \in DOMAIN events
      BY <2>1, Subsets DEF Pending
    <2>3. PICK m \in DOMAIN events : events[m] = i /\ m < k
      BY <1>2, <2>1, <2>2 DEF InFront
    <2> DEFINE before(n) == {y \in Pending(db) : y < n}
    <2>4. m \in Pending(db) /\ m \in Nat /\ k \in Nat /\ \A y \in Pending(db) : y \in Nat
      BY <1>2, <2>2, <2>3 DEF Pending
    <2>5. before(m) \subseteq before(k) /\ IsFiniteSet(before(k))
      <3>1. before(k) \subseteq 1..Len(events) /\ IsFiniteSet(1..Len(events))
        <4>1. events \in Seq(Job)
          BY DEF TypeOK
        <4>2. DOMAIN events = 1..Len(events) /\ Len(events) \in Nat
          BY <4>1
        <4> QED BY <4>2, FS_Interval DEF Pending
      <3> QED BY <2>3, <2>4, <3>1, FS_Subset
    <2>6. Cardinality(before(m)) <= Cardinality(before(k))
      BY <2>5, FS_Subset
    <2>7. Cardinality(before(k)) < PollBatch
      BY <2>1 DEF FirstOf
    <2>8. Cardinality(before(m)) < PollBatch
      <3>1. Cardinality(before(m)) \in Nat /\ Cardinality(before(k)) \in Nat
        BY <2>5, FS_Subset, FS_CardinalityType
      <3> QED BY <2>6, <2>7, <3>1, ConstantsAssumption
    <2>9. m \in FirstOf(Pending(db), PollBatch)
      BY <2>4, <2>8 DEF FirstOf
    <2> QED BY <1>1, <2>3, <2>9
  <1>3. \A j \in batch' : queue[j] # "absent"
    <2>1. \A j \in batch' : \E i \in DOMAIN events : events[i] = j
      BY <1>1, Subsets DEF Pending
    <2> QED BY <2>1 DEF PageInv, EventsInOrder, Finished
  <1>4. /\ ReviewsFollow(db)' /\ ReviewsFollow(tx)' /\ (faults' = 0 => AllLinked')
    BY <1>1 DEF FollowInv, ReviewsFollow, InFront, AllLinked
  <1>5. ASSUME faults' <= 1
        PROVE  /\ RepairsFollow(db)' /\ RepairsFollow(tx)' /\ BatchFollows'
               /\ OwnedDone(db', queue', cards', verdict')
               /\ OwnedDone(tx', queue', cards', verdict')
    <2>1. /\ RepairsFollow(db) /\ RepairsFollow(tx)
          /\ OwnedDone(db, queue, cards, verdict) /\ OwnedDone(tx, queue, cards, verdict)
          /\ ReviewsFollow(tx)
      BY <1>1, <1>5 DEF FollowInv
    <2>2. RepairsFollow(db)' /\ RepairsFollow(tx)'
      BY <1>1, <2>1 DEF RepairsFollow, InFront
    <2>3. BatchFollows'
      BY <1>1, <1>2, <1>3, <2>1 DEF BatchFollows, ReviewsFollow, RepairsFollow
    <2> QED BY <1>1, <2>1, <2>2, <2>3
  <1> QED BY <1>1, <1>4, <1>5 DEF FollowInv

\* A tick ends with a commit, or is rolled back by a failure.
LEMMA FollowStop ==
    ASSUME TypeOK, FollowInv, Stop(db'), UNCHANGED <<events, queue, cards, verdict>>, ~ lastReconcile',
           \/ db' = tx /\ faults' = faults
           \/ db' = db /\ faults' = faults + 1
    PROVE  FollowInv'
  <1> USE RowTypes
  <1>1. tx' = db' /\ batch' = {} /\ pc' = "idle" /\ \A i, j : InFront(i, j)' <=> InFront(i, j)
    BY DEF Stop, InFront
  <1>2. ReviewsFollow(db)' /\ ReviewsFollow(tx)'
    BY <1>1 DEF FollowInv, ReviewsFollow
  <1>3. faults' = 0 => AllLinked'
    BY <1>1 DEF FollowInv, AllLinked
  <1>4. ASSUME faults' <= 1
        PROVE  /\ RepairsFollow(db)' /\ RepairsFollow(tx)' /\ BatchFollows'
               /\ OwnedDone(db', queue', cards', verdict')
               /\ OwnedDone(tx', queue', cards', verdict')
    <2>1. /\ RepairsFollow(db) /\ RepairsFollow(tx)
          /\ OwnedDone(db, queue, cards, verdict) /\ OwnedDone(tx, queue, cards, verdict)
      BY <1>4 DEF FollowInv
    <2>2. RepairsFollow(db)' /\ RepairsFollow(tx)'
      BY <1>1, <2>1 DEF RepairsFollow
    <2>3. BatchFollows'
      BY <1>1 DEF BatchFollows
    <2>4. OwnedDone(db', queue', cards', verdict') /\ tx' = db'
      BY <1>1, <2>1
    <2> QED BY <2>2, <2>3, <2>4
  <1> QED BY <1>1, <1>2, <1>3, <1>4 DEF FollowInv

\* The inductive invariant of the reviews and repairs, for the loop that builds
\* a service for each tick, as run_forever does.
THEOREM FollowInvariant == NewServicePerTick => (Spec => []FollowInv)
  <1> SUFFICES ASSUME NewServicePerTick PROVE Spec => []FollowInv
    OBVIOUS
  <1>1. Init => FollowInv
    <2> SUFFICES ASSUME Init PROVE FollowInv
      OBVIOUS
    <2>1. /\ tx.rows = {} /\ db.rows = {} /\ tx.processed = {} /\ db.processed = {}
          /\ pc = "idle" /\ ~ lastReconcile
      BY DEF Init, EmptyStore
    <2> QED BY <2>1 DEF FollowInv, ReviewsFollow, RepairsFollow, BatchFollows, AllLinked, OwnedDone
  <1>2. TypeOK /\ IngestInv /\ RecordInv /\ PageInv /\ FollowInv /\ [Next]_vars
            /\ TypeOK' /\ RecordInv' /\ PageInv' => FollowInv'
    <2> SUFFICES ASSUME TypeOK, IngestInv, RecordInv, PageInv, FollowInv, [Next]_vars,
                        TypeOK', RecordInv', PageInv'
                 PROVE  FollowInv'
      OBVIOUS
    <2>0. pc # "reconcile" /\ ~ lastReconcile
      BY DEF FollowInv
    <2>1. ASSUME UNCHANGED <<db, tx, batch, events, queue, cards, verdict, faults, pc>>,
                 ~ lastReconcile'
          PROVE  FollowInv'
      <3>1. FinishedKeeps /\ Grows(tx, tx')
        BY <2>1, GrowsSelf DEF FinishedKeeps
      <3> QED BY <2>0, <2>1, <3>1, FollowQuiet
    <2>2. ASSUME NEW us \in SUBSET Unit, CreateRun(us) PROVE FollowInv'
      BY <2>0, <2>1, <2>2 DEF CreateRun, session, remote
    <2>3. ASSUME Workers PROVE FollowInv'
      <3>1. UNCHANGED <<events, db, tx, batch, pc, lastReconcile, faults>>
        BY <2>3 DEF Workers, AcceptCards, AcceptReview, EndJob, session
      <3>2. FinishedKeeps /\ \A j \in Job : queue'[j] # "absent" => queue[j] # "absent"
        BY <2>3 DEF Workers, AcceptCards, AcceptReview, EndJob, FinishedKeeps, Finished, TypeOK
      <3> QED BY <2>0, <3>1, <3>2, FollowQuiet, GrowsSelf, JobNames
    <2>4. ASSUME NEW j \in Job, DeliverEvent(j) PROVE FollowInv'
      <3>1. /\ UNCHANGED <<db, tx, batch, queue, cards, verdict, faults, pc, lastReconcile>>
            /\ events' = Append(events, j)
        BY <2>4 DEF DeliverEvent, session, remote
      <3>2. FinishedKeeps /\ Grows(tx, tx')
        BY <3>1, GrowsSelf DEF FinishedKeeps
      <3> QED BY <2>0, <3>1, <3>2, FollowQuiet
    <2>5. ASSUME FirstReconcile PROVE FollowInv'
      <3>1. ~ lastReconcile'
        BY <2>5 DEF FirstReconcile
      <3> QED BY <2>0, <2>1, <2>5, <3>1 DEF FirstReconcile, remote
    <2>6. /\ ~ TickReconcile
          /\ \A u \in Unit : ~ ReconcileUnit(u)
          /\ \A c \in CandId : ~ ReconcileCandidate(c) /\ ~ ReconcileMalformed(c)
      BY <2>0 DEF TickReconcile, ReconcileUnit, ReconcileCandidate, ReconcileMalformed
    <2>7. ASSUME Commit PROVE FollowInv'
      <3>1. /\ Stop(db') /\ UNCHANGED <<events, queue, cards, verdict>> /\ ~ lastReconcile'
            /\ db' = tx /\ faults' = faults
        BY <2>0, <2>7 DEF Commit, Stop, remote
      <3> QED BY <3>1, FollowStop
    <2>8. ASSUME Crash PROVE FollowInv'
      <3>1. /\ Stop(db') /\ UNCHANGED <<events, queue, cards, verdict>> /\ ~ lastReconcile'
            /\ db' = db /\ faults' = faults + 1
        BY <2>8 DEF Crash, Stop, Fault, remote
      <3> QED BY <3>1, FollowStop
    <2>9. CASE UNCHANGED vars
      BY <2>0, <2>1, <2>9 DEF vars
    <2>10. /\ \A j \in Job : HandleEvent(j) => FollowInv'
           /\ TickSubmit \/ TickEvents => FollowInv'
      BY FollowHandleEvent, FollowTickSubmit, FollowTickEvents
    <2> QED
      BY <2>2, <2>3, <2>4, <2>5, <2>6, <2>7, <2>8, <2>9, <2>10 DEF Next, Orchestrator, Reconcile
  <1> QED BY <1>1, <1>2, TypeCorrect, IngestInvariant, RecordInvariant, PageInvariant, PTL DEF Spec

\* Under run_forever, which builds a service for each tick, an event is marked
\* processed only after what the runtime does about the end of its job is
\* committed (ProcessedImpliesAdvanced): always for a page-to-card job, and
\* for a review or repair job while there was one failure at most.
THEOREM ProcessedAlwaysAdvanced == NewServicePerTick => (Spec => []ProcessedImpliesAdvanced)
  <1> SUFFICES ASSUME NewServicePerTick PROVE Spec => []ProcessedImpliesAdvanced
    OBVIOUS
  <1>1. TypeOK /\ PageInv /\ FollowInv => ProcessedImpliesAdvanced
    <2> SUFFICES ASSUME TypeOK, PageInv, FollowInv, NEW j \in db.processed,
                        j.kind = "page" \/ (faults <= 1 /\ HasOwner(db, j))
                 PROVE  Advanced(db, j)
      BY DEF ProcessedImpliesAdvanced
    <2>1. db \in Store /\ j \in Job
      BY RowTypes
    <2>2. Done(db, j, queue, cards, verdict)
      BY DEF PageInv, PagesDone, FollowInv, OwnedDone, HasOwner
    <2> QED BY <2>1, <2>2, DoneIsAdvanced
  <1> QED BY <1>1, TypeCorrect, PageInvariant, FollowInvariant, PTL

=============================================================================
