---------------------------- MODULE WikipediaImport ----------------------------
(***************************************************************************)
(* The import of preprocessed Wikipedia articles into the knowledge        *)
(* corpus.  A run takes the lock of its state root, claims every shard     *)
(* that has no completed marker, has a pool of processes import them batch *)
(* by batch, and writes a marker for each as it ends.  Runs are            *)
(* interrupted or killed, and started again; workers die, or outlive the   *)
(* run that started them.                                                  *)
(***************************************************************************)
EXTENDS Integers, Sequences, FiniteSets

CONSTANTS
    ImportRun,      \* invocations of run_import
    ShardRecords,   \* the records of each shard, in order: [page, text]
    ArticleText,    \* texts of articles
    NoText,
    BatchSize,
    PoolSize,
    MaxImportFaults \* bound: failures, interrupts and kills

Shard == DOMAIN ShardRecords
Records(s) == {ShardRecords[s][i] : i \in DOMAIN ShardRecords[s]}
ArticlePage == UNION {{r.page : r \in Records(s)} : s \in Shard}

ASSUME ImportConstants ==
    /\ ShardRecords \in Seq(Seq([page : ArticlePage, text : ArticleText]))
    /\ BatchSize \in Nat \ {0} /\ PoolSize \in Nat \ {0} /\ MaxImportFaults \in Nat
    /\ NoText \notin ArticleText

VARIABLES
    marker,         \* the marker file of each shard, or "none"
    docs,           \* wikipedia.documents: the text of each page, or NoText
    importLock,     \* the runs that hold the lock of the state root
    importer,       \* [at, plan]: what each run is doing, the shards it still has to claim
    shardTask,           \* [st, pos]: the future of each run and shard
    importFaults

importVars == <<marker, docs, importLock, importer, shardTask, importFaults>>

ImportInit ==
    /\ marker = [s \in Shard |-> "none"]
    /\ docs = [p \in ArticlePage |-> NoText]
    /\ importLock = {}
    /\ importer = [i \in ImportRun |-> [at |-> "new", plan |-> {}]]
    /\ shardTask = [i \in ImportRun |-> [s \in Shard |-> [st |-> "none", pos |-> 0]]]
    /\ importFaults = 0

ImportFault == importFaults < MaxImportFaults /\ importFaults' = importFaults + 1

-----------------------------------------------------------------------------
(* run_import, in the process of the operator *)

\* _acquire_import_lock: without waiting for it.
TakesLock(i) == importLock = {} /\ importLock' = {i}

\* build_import_plan: the first n shards, without those that are completed.
ImportPlan(n) == {s \in 1..n : marker[s] # "completed"}

StartsImport(i) ==
    /\ importer[i].at = "new"
    /\ TakesLock(i)
    /\ \E n \in 1..Len(ShardRecords) :
           importer' = [importer EXCEPT ![i] = [at |-> "claiming", plan |-> ImportPlan(n)]]
    /\ UNCHANGED <<marker, docs, shardTask, importFaults>>

\* The run ends, by returning or by raising, after its pool has shut down.
Ended(i) ==
    /\ importer' = [importer EXCEPT ![i] = [at |-> "ended", plan |-> {}]]
    /\ importLock' = importLock \ {i}

\* write_running_marker, write_completed_marker and write_failed_marker.
Marked(s, status) == marker' = [marker EXCEPT ![s] = status]

\* _claim_or_reclaim_shard; a completed shard is in no plan under the lock.
Claimed(s) == marker[s] # "completed" /\ Marked(s, "running")

Futures(i, st) == {s \in Shard : shardTask[i][s].st \in st}

\* The loop over the plan: claim and submit, shard by shard; a pool of which
\* a process has died takes no more.
ClaimsShard(i) ==
    LET s == CHOOSE x \in importer[i].plan : \A y \in importer[i].plan : x <= y IN
    /\ importer[i].at = "claiming" /\ importer[i].plan # {}
    /\ Claimed(s)
    /\ IF Futures(i, {"broken"}) = {}
       THEN /\ importer' = [importer EXCEPT ![i].plan = @ \ {s}]
            /\ shardTask' = [shardTask EXCEPT ![i][s].st = "queued"]
            /\ UNCHANGED importLock
       ELSE Ended(i) /\ UNCHANGED shardTask
    /\ UNCHANGED <<docs, importFaults>>

AllClaimed(i) ==
    /\ importer[i].at = "claiming" /\ importer[i].plan = {}
    /\ importer' = [importer EXCEPT ![i].at = "collecting"]
    /\ UNCHANGED <<marker, docs, importLock, shardTask, importFaults>>

\* The body of the loop over as_completed: the marker says how the future ended.
Collects(i, s) ==
    /\ importer[i].at = "collecting"
    /\ shardTask[i][s].st \in {"done", "failed", "broken"}
    /\ Marked(s, IF shardTask[i][s].st = "done" THEN "completed" ELSE "failed")
    /\ shardTask' = [shardTask EXCEPT ![i][s].st = "none"]
    /\ UNCHANGED <<docs, importLock, importer, importFaults>>

AllCollected(i) ==
    /\ importer[i].at = "collecting" /\ Futures(i, {"queued", "working", "done", "failed", "broken"}) = {}
    /\ Ended(i)
    /\ UNCHANGED <<marker, docs, shardTask, importFaults>>

\* KeyboardInterrupt, _interrupt_executor_tree: what is queued is cancelled,
\* the processes are terminated, and killed where they do not end.
Interrupted(i) ==
    /\ importer[i].at \in {"claiming", "collecting"}
    /\ ImportFault
    /\ Ended(i)
    /\ shardTask' = [shardTask EXCEPT ![i] = [s \in Shard |-> [st |-> "none", pos |-> 0]]]
    /\ UNCHANGED <<marker, docs>>

\* SIGKILL or a crash, perhaps inside _replace_marker, which unlinks the old
\* marker before it writes the new one.  The lock goes with the process; the
\* processes of the pool do not.
KilledImport(i) ==
    /\ importer[i].at \in {"claiming", "collecting"}
    /\ ImportFault
    /\ importer' = [importer EXCEPT ![i] = [at |-> "killed", plan |-> {}]]
    /\ importLock' = importLock \ {i}
    /\ \/ UNCHANGED marker
       \/ \E s \in importer[i].plan \cup Futures(i, {"done", "failed", "broken"}) :
              Marked(s, "none")
    /\ UNCHANGED <<docs, shardTask>>

-----------------------------------------------------------------------------
(* _import_shard_worker, in a process of the pool *)

TakesShard(i, s) ==
    /\ shardTask[i][s].st = "queued"
    /\ Cardinality(Futures(i, {"working"})) < PoolSize
    /\ shardTask' = [shardTask EXCEPT ![i][s] = [st |-> "working", pos |-> 0]]
    /\ UNCHANGED <<marker, docs, importLock, importer, importFaults>>

\* upsert_documents: of the records of a page in one batch the last is kept.
Upserted(batch) ==
    [p \in ArticlePage |->
        LET mine == {k \in DOMAIN batch : batch[k].page = p}
        IN  IF mine = {} THEN docs[p]
            ELSE batch[CHOOSE k \in mine : \A j \in mine : j <= k].text]

BatchEnd(i, s) ==
    LET rest == Len(ShardRecords[s]) - shardTask[i][s].pos
    IN  shardTask[i][s].pos + (IF rest < BatchSize THEN rest ELSE BatchSize)

Batch(i, s) == SubSeq(ShardRecords[s], shardTask[i][s].pos + 1, BatchEnd(i, s))

\* _commit_batch.
CommitsBatch(i, s) ==
    /\ shardTask[i][s].st = "working" /\ Batch(i, s) # <<>>
    /\ docs' = Upserted(Batch(i, s))
    /\ shardTask' = [shardTask EXCEPT ![i][s].pos = BatchEnd(i, s)]
    /\ UNCHANGED <<marker, importLock, importer, importFaults>>

\* Mutant: a batch that is not full is never committed.
ImportedShardOfFullBatches(i, s) ==
    /\ shardTask[i][s].st = "working" /\ Len(Batch(i, s)) < BatchSize
    /\ shardTask' = [shardTask EXCEPT ![i][s].st = "done"]
    /\ UNCHANGED <<marker, docs, importLock, importer, importFaults>>

\* The end of import_article_shard.
ImportedShard(i, s) ==
    /\ shardTask[i][s].st = "working" /\ Batch(i, s) = <<>>
    /\ shardTask' = [shardTask EXCEPT ![i][s].st = "done"]
    /\ UNCHANGED <<marker, docs, importLock, importer, importFaults>>

\* A batch raises: it is rolled back, or was committed without an answer.
BatchFails(i, s) ==
    /\ shardTask[i][s].st = "working"
    /\ ImportFault
    /\ docs' \in {docs, Upserted(Batch(i, s))}
    /\ shardTask' = [shardTask EXCEPT ![i][s].st = "failed"]
    /\ UNCHANGED <<marker, importLock, importer>>

\* A process of the pool dies: every future that is not done gets
\* BrokenProcessPool, and the other processes are terminated.
WorkerDies(i, s) ==
    /\ shardTask[i][s].st = "working"
    /\ ImportFault
    /\ shardTask' = [shardTask EXCEPT ![i] = [x \in Shard |->
           IF @[x].st \in {"queued", "working"} THEN [@[x] EXCEPT !.st = "broken"] ELSE @[x]]]
    /\ UNCHANGED <<marker, docs, importLock, importer>>

-----------------------------------------------------------------------------

ImportNext ==
    \E i \in ImportRun :
        \/ StartsImport(i) \/ ClaimsShard(i) \/ AllClaimed(i) \/ AllCollected(i)
        \/ Interrupted(i) \/ KilledImport(i)
        \/ \E s \in Shard :
            \/ Collects(i, s) \/ TakesShard(i, s) \/ CommitsBatch(i, s)
            \/ ImportedShard(i, s) \/ BatchFails(i, s) \/ WorkerDies(i, s)

ImportSpec == ImportInit /\ [][ImportNext]_importVars

\* The shards in which a page is, and the text a whole import of one leaves.
ShardsOf(p) == {s \in Shard : \E r \in Records(s) : r.page = p}
LastText(s, p) ==
    LET mine == {k \in DOMAIN ShardRecords[s] : ShardRecords[s][k].page = p}
    IN  ShardRecords[s][CHOOSE k \in mine : \A j \in mine : j <= k].text

\* A completed shard is in the corpus, every record of it, however the runs
\* before were cut short; and once all shards of a page are completed the
\* page has the last text that one of them has for it, unless a killed run
\* has left processes behind that wrote after the marker.
CompletedIsImported ==
    \A s \in Shard : marker[s] = "completed" =>
        \A r \in Records(s) :
            /\ docs[r.page] # NoText
            /\ ( /\ \A x \in ShardsOf(r.page) : marker[x] = "completed"
                 /\ \A i \in ImportRun : importer[i].at # "killed" )
               => docs[r.page] \in {LastText(x, r.page) : x \in ShardsOf(r.page)}
=============================================================================
