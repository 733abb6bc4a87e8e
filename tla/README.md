# Formal verification of Humanity's Last Library

TLA+ models of the parts of this repository whose correctness depends on the
order in which independent processes, retries and failures happen, the TLC
runs that check them on small instances, and proofs, checked by TLAPS, of their
main safety properties for every instance.

## The system

| Component | State it keeps | Operations | Talks to |
|---|---|---|---|
| source pipeline (`apps/source_pipeline`) | workflow units, card candidates with nullable job ids, webhook events and wakeups (PostgreSQL) | `pipeline_intake` inserts units; the webhook receiver records events; `PipelineRuntimeService.tick` submits, processes events, reconciles | remote job queue (create, read results), ingestion API (handoff) |
| knowledge ingestion (`apps/api/src/modules/ingestion`, worker) | `ingestion_requests` (PostgreSQL), Dramatiq queue (Redis) | `POST /api/v1/cards`; `process_ingestion_job` | knowledge graph |
| card proposals (`modules/knowledge_graph`) | nodes, card versions, proposals, apply audits | submit, accept, reject, withdraw | embedding client, taxonomy |
| materialization, edges and retrieval (`modules/knowledge_graph`) | nodes, edges, adjacency, projected edges | `materialize_card_from_ingestion`, edge rebuild, `search_searchable_cards` | taxonomy projection |
| taxonomy classification (`modules/taxonomy_classification`) | jobs, webhook events, continuation requests, projection refresh requests, assignments | runtime tick, operator submission | remote job queue, taxonomy |
| agent sessions (`scripts/taxonomy-classify-unassigned.py`, `-session-tool.py`) | assignments; outcomes of a batch | one agent process per card, tools it starts | taxonomy |
| taxonomy views and layouts (`modules/taxonomy`) | tree, assignments, projected edges, layout read models, compute requests (PostgreSQL), view cache (Redis) | views, compute request/claim/complete/fail, import | knowledge projection |
| search (`modules/search`) | result cache (Redis) | query | knowledge graph |
| MCP server (`apps/mcp`) | quota counters and exchanged tokens (Redis), usage and analytics rows (PostgreSQL), JWKS (memory) | search tool, quota summary, token exchange | API, identity provider |
| knowledge corpus, operator tools | imported pages, shard markers in the file system | import with resume, page selection | source pipeline |
| API migrations (`apps/api/alembic`) | the schema and rows of the API database | upgrade, downgrade | everything that writes these rows |
| web (`apps/web`) | sessions, anonymous quota (Redis) | BFF routes, React client | API, MCP internals |

### What is hard about it

* **Two systems, one logical change.** The pipeline creates remote jobs and hands
  cards over inside a database transaction that may still roll back; the
  ingestion API publishes a task before it commits its row. Whatever was done
  remotely stays done, so correctness rests on idempotency keys, on the order of
  the two effects, and on ids that a rollback burns.
* **Notifications.** The job queue calls a webhook, at least once, late, out of
  order, or not at all; a reconcile is meant to make up for it.
* **Read, wait, write.** Proposals are read, an embedding service is called, and
  the status is written; other requests run in between.
* **Concurrent calls with one key** must agree on one answer.
* **Copies.** Layouts, views, counts, tokens and projections are copies of something
  that goes on changing; each has its own way of being late.
* **Two places, no transaction.** Shard markers and documents, pages and their marks,
  the counter of a quota and the ledger row are written one after the other by
  processes that may stop in between or outlive who started them.
* **Progress.** A failing event, a full batch of failing events, or a clock that is
  forgotten must not stop everything behind it.

`PROJECT.json` lists these hazards at the lines where they bite, each with the
properties that would catch it.

## Modules

| Module | Models | Abstract or proof companion |
|---|---|---|
| `AcceptOnce` | the promise of an Idempotency-Key: a key is accepted once and stands for one card | abstract specification |
| `SourcePipeline` | the pipeline: intake, webhook receiver, orchestrator ticks, job queue, handoff | `SourcePipelineProofs`; implements `AcceptOnce` |
| `KnowledgeIngestion` | concurrent calls of the ingestion API, the Redis queue and the workers | `KnowledgeIngestionProofs`; implements `AcceptOnce` |
| `MCKnowledgeIngestion` | symmetric instance for TLC | |
| `CardProposals` | proposals, versions, audits and concurrent review requests | `CardProofs` |
| `MCCardProposals` | symmetric instance for TLC | |
| `TaxonomyClassification` | the classification runtime, an operator's submission runs, the job queue and its notifications | `ClassificationProofs` |
| `MCTaxonomyClassification` | a path of three scopes for TLC | |
| `ScopeProjection` | the projection table under materializations, moves and refreshes | `ReadModelProofs` |
| `MCScopeProjection` | symmetric instance on a path of three scopes for TLC | |
| `ScopeLayout` | compute requests of layouts, their runners, the durable and the hot layout, views, the precompute run | `ReadModelProofs` |
| `TaxonomyTree` | the tree and the assignments as tables, and all readers that decide what a scope is | `ReadModelProofs` |
| `ViewCaches` | short-lived cache entries of searches, views and counts, and how old what they answer is | `ReadModelProofs` |
| `CardGraph` | edges by mention and similarity, edits, the edge rebuild, fused search ranking, connected titles | `CardProofs` |
| `McpAccess` | a call of the MCP service: token, keys, quota, search, ledger, analytics, dashboard | `McpAccessProofs` |
| `WikipediaImport` | shard claims, the pool of processes, batches, markers, interruption and resume | `IntakeProofs` |
| `PageviewSelection` | candidates from monthly top lists, redirects and reject reasons | `IntakeProofs` |
| `PageSubmission` | pages enter the pipeline by two scripts and two databases | `IntakeProofs` |
| `CursorSessions` | agents classify unassigned cards, by tools of their own | `ClassificationProofs` |
| `SchemaMigrations` | the revisions of the API database that rewrite rows, up and down | `ClassificationProofs` |
| `Ordering` | ORDER BY, LIMIT and the comparison of sort keys | `OrderingProofs` |
| `MCReadModels` | hosts `ScopeProjection`, `ScopeLayout`, `ViewCaches`, `TaxonomyTree` | |
| `MCKnowledgeIntake` | hosts `KnowledgeIngestion`, `WikipediaImport`, `PageviewSelection`, `PageSubmission`, and `CardGraph` for searches | |
| `MCCardGraph` | texts and queries for `CardGraph` | |
| `MCSourcePipeline` | the bounds of two units in `pipeline_reconcile` | |
| `MCCardsAndAccess` | hosts `CardProposals`, `CardGraph` for edges, `McpAccess` | |
| `MCClassificationAndSchema` | hosts `TaxonomyClassification`, `CursorSessions`, `SchemaMigrations` | |

A host module instantiates modules that share no state and are asked related
questions. Its variable `part` is chosen in the initial state and says which module
the behaviour is one of; the variables of the others keep a fixed initial value. A
run of a host is therefore the sum of the runs of its parts, and its constants are
named after the part they belong to.

`AcceptOnce` is where two components meet: the pipeline calls the ingestion API
with the key `card-candidate:<id>`. The ingestion API implements it (a key is
accepted once, and a second card under the same key is refused), and so does the
pipeline from the calling side (it never offers two cards under one key), so a
handoff is never answered with 409 and a retried handoff is a replay.

### SourcePipeline

A remote job is named by its idempotency key `<kind, owning row>`, because the
queue creates one job per key; a nullable job-id column then is the set of rows
where it is set. `db` is the committed database and `tx` what the session of
the running tick sees; the tick's one commit copies `tx` to `db`. Remote calls
change `queue` and `ingested` at once and are never rolled back; neither is
`nextId`, the candidate id sequence. A tick is `TickSubmit` (missing page jobs),
`TickEvents` followed by one `HandleEvent` per event of the batch, or a reconcile,
and ends with `Commit`; `Crash` may drop it at any point. Each call to the queue
or the ingestion API may fail before it had an effect or after it (the answer is
lost); `faults` bounds how often. The handler of an event is split exactly where
a failure leaves the transaction with some of its writes: `except` in
`process_pending_webhook_events` keeps what was flushed.

`NewServicePerTick` is TRUE for the code: `run_forever` builds a new
`PipelineRuntimeService` for each tick, so the clock of the last reconcile is
forgotten. FALSE is the same code with one service object, which shows what the
reconcile would do (`ReconcileMakesUp`), and what it would not even then: a tick with
a pending event does not reconcile, and an event whose payload cannot be parsed is
pending for ever; one such review raises out of the loop over all units, and the tick is
rolled back, while a repair job that it created before stays in the queue without a
link; and a unit with an accepted page result never leaves the batch that is visited.
`WellFormedJobsAdvance`, of the loop over events, needs none of these excuses.

### KnowledgeIngestion

A call inserts its row (which waits for an uncommitted row of the same key),
publishes the task, and commits; a repeated call replays the committed answer or
gets 409. Each of the steps may fail (`Failures` says which kinds are allowed).
A worker takes a task, materializes the card in a transaction, and acknowledges
the message afterwards, so it may be delivered again after the card was written.

### CardProposals

A request reads its proposal without a lock (`Check`), waits for the embedding
client, applies the change (`ApplyCreate`, `ReadNode` then `ApplyEdit`,
`ApplyDelete`), sets the status (`Mark`), and commits change, status and audit
row together (`Commit`); it may roll back at any point (`Abort`). Row locks are
held from the update to the end of the transaction (`HoldsNode`,
`HoldsProposal`), and the unique index on (node, version) refuses a version
written in between. `Contended` is the set of proposals on which requests may
overlap.

### TaxonomyClassification

A card assigned to a scope gets a local job, the job is created in the remote
queue under the key `taxonomy-classification-job:<id>` and then linked, and a
worker's answer moves the card to a child of the scope or keeps it. A remote job
is therefore named by the id of its local row; `linked`, `processed`, `terminal`
and `placed` are the rows whose `job_id`, `processed_at`, `terminal_state` and
`target_payload` are set. A tick of the runtime takes the first branch that has
something to do: `TickEvents` with one `HandleEvent` per event, `TickContinue`
(`Prepare` for each request, then `CreateJobs`, `LinkJobs`, `DropRequests`, with a
commit before and after the remote call), or `Refresh`. `HandleEvent` lists the
outcomes of one event: the job is not known, the result cannot be read, the job
ended without an answer, the answer is rejected, keeps the card, or moves it. The
operator's run (`OpStart` to `OpLink`) recovers unlinked jobs of a scope, lists
cards without an active job, makes jobs and submits them; row locks (`Locked`) and
the unique index on active jobs are all that keeps it from the runtime. `Crash`
and `OpDies` may end either at any step.

A batch of events is one transaction in the code; here each event commits by
itself. Only a crash inside the batch tells them apart (the code would handle the
events again from the start), and handling is repeatable because the rows it
changes are locked until the commit. The remote result of a job never changes.

### ScopeProjection

`CreateEdge` looks up the scopes of both ends when its statement runs; its
transaction keeps the edge and its rows to itself (`ownEdges`, `ownRows`) until
`Commit`. A refresh is three statements, each of which sees what is committed at
that moment: `RefreshRead`, `RefreshClear`, `RefreshCommit`. The candidate search
is any choice of committed cards. `overlapped` is a history variable: the edges
whose transaction was open while the runtime moved a card or worked on a refresh.

### ScopeLayout

A layout is named by the fingerprint of the graph it was computed from. `request` is
the one row per scope of the compute request table, `waiting` the pending ones by
`requested_at`. `Claim`, `Build`, `StoreAndCache`, `CommitLayout` and `Finish` are the
commits of `process_next_card_scope_layout`; the hot cache is written between the
upsert of the read model and its commit. A runner may be slow: a claim becomes
overdue (`ClaimOverdue`), after which the next view registers it again (`Kept`), and
the late runner marks whatever row it finds. Views (`Load`, `Warm`,
`RegisterRequest`) and the precompute run (`Prepare`, `PrecomputeAgain`) read the
graph, then the caches, then register a request, each at a time of its own.

### TaxonomyTree

Two tables, `tree` and `home`, and one action per command: import, new child,
assignment, backfill. The rest are the readers, as operators: the path and name resolutions of
views and of classification, counts, kinds of views, precompute targets, the scopes
of the projection rebuild and of new edges. Names differ by slug, by `lower()` and by
`casefold()`, given as functions, so that a name may collide in one and not in
another. The counts are the loop of the code over nodes in the order of its `sorted`
call, deepest first and by id among those of one depth (`DeepestFirst`).

### ViewCaches

Time is discrete. An entry is `[age, left]`: how old its data is and the time to its
expiry. A reader carries the age of the oldest data it has read, and takes at most
`Patience`. A failed or lost cache call counts as a miss, as in the code. An answer may
be as old as the windows of the entries it came through and the time of the requests
that took part: a search is one request, while a view or a precompute run takes its
own time after the request that stored the counts took its own, hence two.

### CardGraph

`graphCards` are the nodes by id with title, mentioned phrases and a point whose
similarity to others is an integer. `policy` is a history variable: by which limits a
card was last linked. Both planners of the rebuild and both sides of the fused
ranking are operators over this state, checked in every state that ingestions,
proposals and rebuilds can reach. Whether a title contains the words of a query is
given by relations (`Phrase`, `AllTokens`), because a phrase such as "of" may be in a
title and yet be no word that PostgreSQL searches for: then the card is no lexical hit,
and its boosts do not count. The sums of reciprocal ranks are compared in units of
`RrfUnit`, a multiple of all denominators, so the comparison is exact.

`VectorPools` is any set of active cards up to the limit. `search_vector_candidates`
orders by cosine distance over an HNSW index, which is approximate, and looks at the
state of a card after the scan: near cards may be missing from the pool, and it may be
short; only the order within it is exact, because the pool is ranked again
(`_rerank_vector_candidate_rows`). `SearchFavoursBetter` is stated for each of these
pools and promises nothing of a card that the query missed beside a match that it
found, unless the card has the very title. The queries that look for edges order by the
inner product, which no index serves, and are exact.

### McpAccess

A call goes through `exchange`, `store`, `verify`, `reserve`, `search`, the row of its
outcome, `analytics` and the answer, with a fault possible at each. The quota script
is one step (`Reserves`), as Redis runs it. `counted` is a history variable: how many
calls were counted how long ago. The dashboard reads a counter, its TTL, and the next
window in separate steps.

### WikipediaImport, PageviewSelection, PageSubmission

`importer` is a run of the import, `shardTask` the future of each shard in its pool.
A killed run releases its lock and leaves its processes; an interrupted one
terminates them. A batch is one transaction. `PageviewSelection` is a pure algorithm
over every set of monthly lists within the bounds, compared with a definition that
adds views up by page. Sums are counted in units (`Total` of `Ordering`) and the sort
is the order of places (`InOrder`), so that both can be reasoned about. `PageSubmission` has the three looks (marks, references,
insert) of the pageviews script and the two of the science script as steps of
concurrent runs; `raced` is a history variable of pages submitted between another
run's look and its insert. The list of a run is how often each page is on it, since
the order of inserts of one transaction is not seen by anyone and a query batch may
repeat a page of an earlier one.

### CursorSessions

`seat` is what the batch knows of a card, `tools` the processes that its agents have
started and that outlive them. A tool looks for the assignment row and writes in two
steps. Its `TaxonomyService` is built without a projection port, so such a move
refreshes no projection; that is why `ScopeProjection` has only the runtime's moves.

### SchemaMigrations

`db` is the database with its revision; `UpgradeTo` runs revisions in one transaction
and leaves everything as it was if one refuses, `Downgrade` goes one back. Between
them the programs of a revision submit and settle proposals and write scope rows.
`told` is a history variable of what users were told of each proposal.

## Runs

| Run | Shows | Bounds |
|---|---|---|
| `pipeline_safety` | no card is a candidate or ingested twice, lineage is sound, records are backed by remote effects, an event is processed only when its job has advanced, keys are accepted once; every finished job is acted upon unless it is malformed or starved by malformed ones; with crashes, lost answers and any order of notifications | 1 unit, 3 candidate ids, 2 cards per result, 2 faults: enough for a burnt id, a repair, and a failure during the recovery from a failure |
| `pipeline_reconcile` | a service object that lives would make up for missed notifications and for events that were handled too early, except for what a payload that cannot be parsed keeps from it (such a review of one candidate takes back, in every tick, what the reconcile did for the other) and for units that wait for their turn (the second is reconciled only when the first has ended without a result) | 2 units of which 1 is visited, 2 ids, 2 cards of the first unit; 1 fault; repairs and crashes with one unit and card |
| `pipeline_missed_notification` | violation: the production loop never reconciles | 1 unit, no faults |
| `ingestion` | accepted implies queued; all answers agree, and a duplicate needs a call that was answered with an error; the API implements `AcceptOnce`; an accepted card is materialized or its attempts are used up. A completed shard is in the corpus; the selection is the best; pages enter the pipeline once unless two scripts race. For any pool the vector query may return, no card of the pool that is better in both rankings is left out or after a worse one, and cards with the very title come first, in the pool or not | 2 calls, 1 key or none, 2 cards, 2 attempts, every kind of failure; 2 import runs, 2 shards of which one is more than a batch, 2 faults; 5 titles with a redirect and a reject, 2 months of 2 places, 2 pages to select; 3 submissions of 3 pages, 2 faults; 4 cards of 4 texts, 1 edit or archive, 4 queries at 3 points, pools of up to 3 cards, 2 matches: both cuts matter |
| `ingestion_duplicate` | violation: a lost Redis answer makes two cards of one key | 2 calls |
| `proposals_race` | versions are consistent, changes audited, archived cards stay archived, uncontended proposals are settled once. Edges are to the best cards, and connected titles are those of all neighbours there is room for. Whoever is answered by the MCP service was entitled and counted | 3 proposals (2 contended), 2 cards, 3 versions, 3 requests; 3 cards of 4 texts, 1 edit or archive, chunks of 2; 2 calls in flight, 3 in all, 1 PAT, windows of 1 and 3 ticks with 1 and 2 calls, 1 fault |
| `proposals_withdrawn` | violation: a proposal ends withdrawn and applied | 1 proposal, 2 requests |
| `taxonomy` | no card is with two workers for one scope, no moved card is forgotten, no answer is dropped; events are handled and requests drained unless orphaned events are in front. The summary of an agent batch is true. Migrations lose neither assignments nor decisions | 1 card, 3 scopes, 5 job ids, batches of 2, 2 faults, each a failure of any kind or a reassignment by hand; 2 cards, 2 scopes, 1 worker, 2 tries, 2 tools, 1 assignment by others; 7 trees of up to 4 nodes, 1 card, 1 job, 2 proposal ids |
| `taxonomy_blocked` | violation: an event that always fails keeps continuation requests from being retried | 2 cards, 4 job ids, 1 lost answer |
| `read_models` | projection rows are right, and only overlapped edges can be missing. One runner computes a scope unless a claim is overdue, and layouts catch up with graphs. No cached answer is older than its windows. Paths lead to their node, and seven ways to list card scopes agree | 4 cards, 2 workers, 3 scopes; 1 scope, 2 runners, 1 view, 2 graphs, 1 fault; 2 readers, TTLs of 2 ticks and 1, requests of up to 2, 1 fault; 4 nodes of 5 names, 2 cards |
| `projection_race` | violation: a move and its refresh during a materialization leave a projection incomplete | 4 cards, 2 workers, 3 scopes |
| `layout_ready` | violation: a layout is reported ready from the hot cache although its commit failed, and no durable one exists | 1 scope, 1 fault |

The instances are small because each interesting case needs few actors: two
requests or calls race, a third meets what they left; one failure spoils a step,
a second spoils its repair. A path of three scopes has a root, a scope that is
continued and a scope that is browsed; two of the five job ids are the operator's,
who may race with the runtime for the second, and three are enough for every job
the runtime makes of their answers and after two faults. Two open transactions and a
refresh are all that can meet at one scope of the projection. A scope's layout needs
two runners for a claim that is taken over, and two graphs for a late one. A cached
answer is oldest if one request fills what another reads: two readers, each slow enough
(`Patience` is 2) to add its own time visibly to that of the other; with 1, a bound that
counts one request only would not be told from the right one. The weekly
window of the quota outlives three daily ones and is full after two calls. In
`MCCardsAndAccess` the rotation of keys and the reads of the dashboard, which touch
different variables, are explored apart; so are, in `MCClassificationAndSchema`,
legacy jobs, edits or proposals, and rows about scopes, which no migration reads
together (`Apart`). One agent at a time is enough there, because agents of different
cards only meet in the limit that `OutcomesAreTrue` states. `MCSourcePipeline` follows
a repair or a crash through one unit with one card, and apart from them what units and
candidates do to each other (its `Apart`); a call of the orchestrator may fail anywhere,
and then nobody else does anything any more where both would meet. All of them together
are in `pipeline_safety`, for the loop over events. Deadlock checking is off where all
calls are answered and all tasks done at the end, or everything submitted has been
processed.

### Fairness

`WF(Orchestrator)`: `run_forever` ticks until its process ends and the container
is restarted. `WF(DeliverEvent)`: the queue retries a webhook call until it is
answered; `LossySpec` does without it. `WF(Take)`, `WF(Materialize)`,
`WF(Acknowledge)`: Dramatiq workers consume the queue while it is not empty.
`WF(Runtime)`: the classification loop ticks, as the orchestrator does.
`WF(OpGoes)`: a submission run once started goes on or dies; it holds row locks the
runtime waits for. No event is assumed to be delivered there.
`LayoutFairness`: each runner goes on (the container of the layout runtime is
restarted; an action is never enabled for ever without being taken), a claim that is
not finished becomes overdue as time passes, and views go on; strong fairness of
`ReadGraph` says that clients poll each scope again and again, as the web client does
while a layout is not ready. No fairness of the precompute run is assumed.
Nothing else is assumed of clients, of the remote workers, or of failures.

## Proofs

A `...Proofs` module extends the modules of the components whose theorems it holds:
`CardProofs` (`CardProposals`, `CardGraph`), `ClassificationProofs`
(`TaxonomyClassification`, `CursorSessions`, `SchemaMigrations`), `ReadModelProofs`
(`ScopeProjection`, `ScopeLayout`, `ViewCaches`, `TaxonomyTree`), `IntakeProofs`
(`WikipediaImport`, `PageSubmission`), and one each for `SourcePipeline`,
`KnowledgeIngestion` and `McpAccess`. `OrderingProofs` has the facts that several of
them need: least and greatest elements, functions given by recursion over numbers, and
the places of elements in an order. A theorem that has two names is `Init => Inv`, one
lemma per action, and the conclusion; the first of the two is the invariant, the second
what a run checks too.

| Theorem | For every value of the constants |
|---|---|
| `SourcePipelineProofs!TypeCorrect` | the pipeline keeps its types |
| `SourcePipelineProofs!IngestionIsIdempotent` | a card is ingested under one candidate id at most, only for committed candidates |
| `SourcePipelineProofs!CandidatesAreUnique` | a result that is read again adds none of its cards twice |
| `SourcePipelineProofs!RecordInvariant`, `RecordsAreAlwaysBacked` | no tick, however it ends, leaves a record of a job that was not created or of a handoff that was not accepted |
| `SourcePipelineProofs!LineageIsSound` | ingested only after its own passed review, repaired only after its own failed one |
| `SourcePipelineProofs!PageInvariant`, `PagesAlwaysAdvance` | the end of a page-to-card job is never dropped, whatever fails and however often |
| `SourcePipelineProofs!FollowInvariant`, `ProcessedAlwaysAdvanced` | with a new service for each tick, as in `run_forever`: an event is processed only after what follows from its job is committed; for review and repair jobs while there was one failure at most |
| `SourcePipelineProofs!HandoffsAreAcceptedOnce` | the pipeline implements `AcceptOnce` |
| `KnowledgeIngestionProofs!TypeCorrect`, `AcceptedIsAlwaysQueued` | types; an accepted request has a task |
| `KnowledgeIngestionProofs!AnswersInvariant`, `AnswersAlwaysAgree` | one card and one request id for all who are accepted under a key; 409 names a key another card has taken |
| `KnowledgeIngestionProofs!KeysAreAcceptedOnce` | the API implements `AcceptOnce` |
| `CardProofs!TypeCorrect`, `VersionHistory`, `ArchivedForEver` | types; versions without gap or repetition; archived cards stay archived |
| `CardProofs!AuditInvariant`, `EveryChangeIsAudited` | a proposal has an audit row for each version it wrote, even if racing reviewers accept it twice |
| `CardProofs!UncontendedSettleOnce` | a proposal whose requests do not overlap is settled once |
| `CardProofs!GraphInvariant`, `BestCardsAreAlwaysLinked` | edges are to the best older cards; both planners plan the same; connected titles are all those next to a match, up to the limit |
| `CardProofs!SearchesAlwaysFavourBetter` | for any pool of the vector query: a card of the pool that is better in both rankings is found first, a card with the very title before all others |
| `ClassificationProofs!ClassificationTypeCorrect` | types |
| `ClassificationProofs!ClassificationInvariant`, `WorkersNeverShareACard` | no card is open to two workers for one scope |
| `ClassificationProofs!EveryAnswerTakesEffect` | a card whose answer was handled has left the scope, unless a person moved it |
| `ClassificationProofs!EveryMoveIsContinued` | a card moved to a scope with children has a request or a job there |
| `ClassificationProofs!CursorInvariant`, `OutcomesAreAlwaysTrue` | what a batch says became of a card was so; no more agents than workers |
| `ClassificationProofs!SchemaInvariant`, `MigrationsAlwaysKeepData` | however a database is taken up and down, every card keeps its place and every edit and proposal its status and content |
| `ReadModelProofs!TypeCorrect`, `ProjectionAlwaysFollowsEdges` | types; every projection row is of a committed edge of a card in that browsable scope, and a row is missing only for an edge whose transaction the runtime overlapped |
| `ReadModelProofs!LayoutInvariant`, `OneRunnerAtAScope` | one runner computes a scope unless a claim of it became overdue |
| `ReadModelProofs!PendingIsQueued` | exactly the pending requests are in the queue, each once |
| `ReadModelProofs!CacheInvariant`, `AnswersAreAlwaysRecent` | no answer is older than the windows of its entries and the time of the requests |
| `ReadModelProofs!TreeInvariant`, `NodesAreAlwaysAddressable` | parents come first, siblings differ; the path of a node leads to it, its names lead to it or are refused |
| `ReadModelProofs!ScopesAlwaysAgree` | all that lists card scopes lists the same ones, and counts count each card once at every ancestor |
| `IntakeProofs!ImportInvariant`, `CompletedIsAlwaysImported` | a completed shard is in the corpus; without a killed run its pages have a last text |
| `IntakeProofs!SubmissionInvariant`, `PagesAlwaysEnterOnce` | a marked page is in the pipeline; a page is there twice only if two runs raced for it |
| `IntakeProofs!SelectionInvariant`, `SelectedIsAlwaysBestFirst` | the candidates are the pages of the lists, each once with all its views, best first, none rejected, as many as asked for |
| `McpAccessProofs!McpTypeCorrect` | types |
| `McpAccessProofs!McpInvariant`, `AnswersAreAlwaysEntitled` | counters hold just the calls of their window; a revoked token is answered for a bounded time; every answer has its rows; the dashboard shows what was counted |

None of the properties is inductive; what they rest on says most about the code.

* **Ingested once, candidates are unique.** What a rolled-back tick leaves are burnt ids
  below `nextId`. So committed rows keep their ids below the sequence and one origin
  each, the running tick only adds rows with new ids and new origins, and a handoff needs
  a row that was committed before the tick.
* **Records and lineage** (`RecordInv`). Stated of both stores, because a commit copies
  one to the other; remote effects only grow (`RemoteKeeps`), so whatever backs a record
  when it is written backs it when it is committed, several failures later.
* **Processed is advanced** (`PageInv`, `FollowInv`). An event whose job no row knows is
  marked processed and nothing else is done, so no such event may matter. A page-to-card
  job without a link is submitted again, under its key, in the tick that looks at events
  and before it looks, so its link is there (`EventsInOrder`). A review or repair job
  without a link has the event of its parent unprocessed in front of its own, and a batch
  is a prefix of what is pending, so the parent's event, which makes the link, is handled
  before it in the same tick (`InFront`, `BatchFollows`). The parent's handler may fail a
  second time there and the child's event is then dropped: hence at most one failure. A
  reconcile makes candidates that no event is in front of: hence the new service for each
  tick, under which `run_low_frequency_reconcile` never gets past its first call.
* **Accepted is queued, answers agree.** A call between publish and commit has a task for
  its row, and a row of its key and card that no other call can have; a conflict is told
  on a committed row only, and committed rows stay.
* **Versions.** `Writers`: a transaction that wrote the next version of a card holds the
  card's row alone and has seen its current version, which follows from the unique index
  at the moment it writes.
* **Audits.** Versions carry the proposal that wrote them, and a commit adds one of them
  at most. `SettledOnce` needs that an uncontended proposal is still pending while its
  one request is busy (`TakeTurns`): the code reads the status without a lock.
* **One worker per card** (`ClassificationInv`). Ids come from a sequence, so no row
  takes over the remote job of another; `handled` rows are ended in the queue too; and
  the unique index covers what is not handled. Two remote jobs of one card and scope can
  then be open only if their rows are both active.
* **Answers take effect, moves are continued.** The code moves a card without looking
  where it is. That no late answer takes it back up is `CardsGoDown`: cards move from
  parents to children only, so a job's scope is the card's scope or above it. This needs
  the tree to be acyclic. A request that names its next job names one for the same card
  and scope, so dropping the request loses nothing.
* **Projection.** Rows of open transactions are complete while they are not overlapped
  (`OwnComplete`), and what a refresh has read stays true until it commits
  (`Refreshing`): cards leave a browsable scope only by hand, and the one runtime does
  not move cards while it refreshes.
* **One runner** (`LayoutInv`). The request of a scope that a runner works at is running
  and not overdue, and the queue has exactly the pending scopes, so a second runner finds
  nothing to claim. Only an overdue claim breaks this (`overran`), as the code intends.
* **True outcomes** (`CursorInv`). From the begin of its session every scope that a card
  is filed in is noted, also when a tool of an agent that timed out files it; a card that
  was filed before its session was filed by others.
* **Completed is imported** (`ImportInv`). What a worker has read is in the corpus, and
  documents are never removed; so much holds with killed runs. That a page ends with the
  last text of one of its shards needs more: one run holds the lock, a broken pool has
  nothing under way, and every page has a last text or a shard that will write it again.
  A killed run leaves processes behind that write old batches after new ones.
* **Pages enter once** (`SubmissionInv`). What a run has read stays so, since units and
  marks are only added; what it is about to insert has no unit, because another run's
  insert in between puts the page into `raced` at that very step.
* **Selected best first** (`SelectionInv`: the rows are those that the lists give). The
  views of a page are added up by month and then by title; that this is the sum over all
  months and titles is a bijection of units (`TotalByGroups`). The months of the best
  title are the most of any title (`GroupMonths`). The sort key is a total order of the
  pages because their titles differ (`CanonicalFacts`), and the loop that skips rejected
  pages writes those that are not, in their order (`KeptInOrder`).
* **Answers are entitled** (`McpInv`, four parts that do not need each other).
  `QuotaInv`: a counter was begun by a call exactly as long ago as its window has gone
  on, so its value is the number of calls counted since (`Anchored`), and a window that
  has not begun had no call in this instant. The reservation begins or raises both
  windows in one step, which is why the refusal of one leaves the other as it was.
  `RevocationInv`: a token was stored by a call that had exchanged it before, so the time
  since the revocation and the time the entry has left add up to no more than the TTL
  and the patience of that call. `LedgerInv`: rows of the ledger, rows of the analytics
  and answers differ by the calls that are between the two and by the faults.
  `DashboardInv`: what was read was counted within the window and the time since.
* **Answers are recent** (`CacheInv`). The age of an entry and the time it has left are
  together bounded by the age at which it was stored and its TTL; a request that stores
  an entry is no older than its patience, except that counts which it found cached
  have an age of their own.
* **Scopes agree, nodes are addressable** (`TreeInv`). Parents have smaller ids, so facts
  about paths are proved by the least node that lacks them (`DownTheTree`): breadcrumbs
  end at the root and have one node per depth, and descending by the slugs of a path
  follows it, as siblings differ in their slugs. The counts are a loop; its invariant
  says that after k nodes a node counts the cards at itself and below those of its
  children that are among the k (`ReachGrows`), and since children come before their
  parents (`ChildrenComeFirst`) each card has been counted once at every ancestor when
  the loop ends. All lists of scopes then are: the nodes without children, and the root,
  that have cards.
* **Migrations keep data** (`SchemaInv`). The invariant is one of a database record
  (`DatabaseInv`), so that each revision is a lemma about records and `UpgradeTo`, which
  runs several of them in one transaction, needs no state in between. That the resolved
  scope of a card is well defined at all uses that legacy trees have no cycle: the climb
  from a legacy scope ends because depths decrease.
* **Best cards are linked and found** (`GraphInv`). Edges of a card to older ones are stated by the
  policy of its last linking (`LinkedWell`), which other cards' changes do not disturb
  (`LinkedFrame`), and which an edit of an older card voids (the policy becomes `Stale`).
  A new card is linked to the best because the vector query returns at least as many
  candidates as are wanted: whoever it leaves out is farther than enough of them
  (`IngestedToBest`). Both planners plan the nearest of the older cards that are similar
  enough: chunks reach up to each row (`ColumnsReach`), and to cut a ranked list after
  the first that pass a threshold is to rank those that pass (`FirstOfTheKept`). Of the
  pool that the vector query returned nothing is used but its size: a card that is no
  worse in both rankings precedes the other in each column of the sort key
  (`BetterIsBefore`), by the rank of its words alone where the other is not in the pool,
  and if it is cut off by a limit, so is the worse one. The titles are a
  loop over rows, whose invariant is that it has all titles so far or is full.

The proofs assume only the named assumption on the constants of each module, which TLC
evaluates on every run. Those that say more than which numbers are natural:

* The scopes of the classification form a tree (`service.py` of `modules/taxonomy` gives
  each node one parent that exists before it), there are a scope and a layout to speak
  of, and `NoScope` is none of the scopes.
* Months and titles are finite in number, and an article record has a page of its own
  (`page_id` is the key of `wikipedia.documents`).
* A shard is a sequence of records, a candidate file names no page twice (the selection
  writes one row per page), and calls of the MCP service and cards that are assigned
  are finite in number.
* The tables that a migration starts from are such as the programs of their time wrote:
  ids are unique, parents exist and no node is below itself.
* Similarities can be compared; the limits are those the settings are validated for
  (`config.py`: as many candidates as neighbours at least; `search_searchable_cards`:
  as many vector candidates as matches); `RrfUnit` is a multiple of 61, 62, ... up to 60
  and the vector limit, which exists for every limit.

Bounds on faults, jobs or ids are constants like all others: the theorems hold for every
value of them.

What is only model-checked, and why:

* Liveness, everything with fairness, and `ENABLED`, which the prover does not handle.

Every safety invariant of a passing run is a theorem. Where the code has a loop or a
recursion over numbers, as in `TaxonomyTree`, `CardGraph` and `WikipediaImport`, the
induction is done by least elements, with `OrderingProofs`; where it adds up, by counting.

## Not modelled

`PROJECT.json` gives the reason for each component. In short: rendering, routing
and pure reads; numerics (embeddings, layouts); authentication and validation that
refuse a request before it changes anything; generated code and deployment. In
particular:

* `run_low_frequency_reconcile` of the taxonomy classification, because `run_forever`
  builds its service anew for every tick and never gets past the first line of it (the
  pipeline has the same loop, and `pipeline_missed_notification` shows what that means).
* A projection refresh that fails is left out of `TaxonomyClassification` and never
  blocks another scope in `ScopeProjection`; the assignment by hand and the edge rebuild
  are left out there.
* Neighbour queries and edges do not look at the state of a card, so archived cards
  take places among the nearest, and a rebuild drops the edges that title mentions
  made. `CardGraph` does as the code does, and `LinkedToBest` is stated for cards of any
  state and the policy of the last linking; no document promises anything else.
* `RebuildEdges` has no concurrent writers: the command refuses to apply anything
  without `--confirm-writers-paused`.
* The web BFF: sessions of express-session, the identity provider's sign-in transaction
  and a quota. Three sentences of `docs/specs/designs/web-auth-session.md` have no
  counterpart in `server/auth`: the absolute expiry (line 60: nothing calls
  `readExpiredSessionReason` or `touchAuthenticatedSession`), the isolation of silent
  sign-in (line 71) and clearing the local session when it expires (line 74).
* Migrations that only make or drop empty tables, indexes, columns and defaults; of the
  others, indexes and triggers are given by what they refuse.
* The text ranking of PostgreSQL, which cards the approximate vector
  index returns (any pool up to its limit, here), the numerics of `layout.py`.

## Plan

1. `SourcePipeline`, `KnowledgeIngestion`, `CardProposals`, `AcceptOnce` with their
   runs and first theorems (done).
2. `TaxonomyClassification` and `ScopeProjection` with their runs, and the proofs of
   the latter (done).
3. `ScopeLayout`, `TaxonomyTree`, `ViewCaches`, `CardGraph`, `McpAccess`,
   `WikipediaImport`, `PageviewSelection`, `PageSubmission`, `CursorSessions` and
   `SchemaMigrations` with their runs (done).
4. Proofs for `TaxonomyClassification`, and of the remaining invariants of
   `SourcePipeline`, `KnowledgeIngestion` and `CardProposals` (done).
5. Proofs for `ScopeLayout`, `CursorSessions` and `WikipediaImport` (done).
6. Proofs for `McpAccess`, `ViewCaches`, `PageSubmission`, `PageviewSelection`,
   `SchemaMigrations`, `TaxonomyTree` and `CardGraph` (done).
7. A refresh queue with failing refreshes, and the web BFF's sessions.
