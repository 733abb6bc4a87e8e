----------------------------- MODULE IntakeProofs -----------------------------
(*****************************************************************************)
(* Proofs about WikipediaImport, PageSubmission and PageviewSelection: a     *)
(* completed shard is in the corpus, however runs were interrupted or killed *)
(* and workers died, and a page whose shards are all completed has the last  *)
(* text of one of them; a page that is marked is in the pipeline, and twice  *)
(* only if two runs raced; the candidates are the best pages, best first.    *)
(*****************************************************************************)
EXTENDS WikipediaImport, PageSubmission, PageviewSelection, OrderingProofs

-----------------------------------------------------------------------------
(* WikipediaImport *)

Task == [st : {"none", "queued", "working", "done", "failed", "broken"}, pos : Nat]
Run == [at : {"new", "claiming", "collecting", "ended", "killed"}, plan : SUBSET Shard]

ImportTypeOK ==
    /\ marker \in [Shard -> {"none", "running", "completed", "failed"}]
    /\ docs \in [ArticlePage -> ArticleText \cup {NoText}]
    /\ importLock \subseteq ImportRun
    /\ importer \in [ImportRun -> Run]
    /\ shardTask \in [ImportRun -> [Shard -> Task]]
    /\ importFaults \in Nat

\* A run that has the lock.
Active(i) == importer[i].at \in {"claiming", "collecting"}

\* Until a run is killed no process of a pool outlives its run.
NoneKilled == \A i \in ImportRun : importer[i].at # "killed"

PageAt(s, k) == ShardRecords[s][k].page

InCorpus(d, s, n) == \A k \in 1..n : d[PageAt(s, k)] # NoText

\* A worker has committed what it has read, a finished one all of its shard,
\* and only a shard that a finished worker has reported is completed.
Present ==
    /\ \A i \in ImportRun, s \in Shard :
        /\ shardTask[i][s].st = "working" =>
               shardTask[i][s].pos <= Len(ShardRecords[s]) /\ InCorpus(docs, s, shardTask[i][s].pos)
        /\ shardTask[i][s].st = "done" => InCorpus(docs, s, Len(ShardRecords[s]))
    /\ \A s \in Shard : marker[s] = "completed" => InCorpus(docs, s, Len(ShardRecords[s]))

\* The lock; a pool that broke has nothing under way.
Locked ==
    /\ \A i \in ImportRun : Active(i) => importLock = {i}
    /\ \A i \in ImportRun, s \in Shard :
        /\ importer[i].at = "new" => shardTask[i][s].st = "none"
        /\ Futures(i, {"broken"}) # {} => shardTask[i][s].st \notin {"queued", "working"}

\* What is under way is under way for the run that has the lock, and the
\* marker of its shard says so.
UnderWay ==
    \A i \in ImportRun, s \in Shard :
        /\ shardTask[i][s].st \in {"queued", "working"} => Active(i)
        /\ Active(i) /\ shardTask[i][s].st # "none" => marker[s] = "running"

\* The import of shard s is going to write page p again, or has failed.
Unsettled(s, p) ==
    /\ marker[s] # "completed"
    /\ \A i \in ImportRun : Active(i) =>
        /\ shardTask[i][s].st # "done"
        /\ shardTask[i][s].st = "working" =>
               \E k \in 1..Len(ShardRecords[s]) : k > shardTask[i][s].pos /\ PageAt(s, k) = p

LastTexts(p) == {LastText(s, p) : s \in ShardsOf(p)}

Texts ==
    \A p \in ArticlePage :
        docs[p] = NoText \/ docs[p] \in LastTexts(p) \/ \E s \in ShardsOf(p) : Unsettled(s, p)

ImportInv ==
    /\ ImportTypeOK /\ Present /\ Locked
    /\ NoneKilled => UnderWay /\ Texts

-----------------------------------------------------------------------------
(* Shards, and what a batch does to the corpus *)

LEMMA ShardFacts ==
    /\ Shard = 1..Len(ShardRecords) /\ Len(ShardRecords) \in Nat
    /\ \A s \in Shard :
        /\ ShardRecords[s] \in Seq([page : ArticlePage, text : ArticleText])
        /\ Len(ShardRecords[s]) \in Nat /\ DOMAIN ShardRecords[s] = 1..Len(ShardRecords[s])
        /\ \A k \in 1..Len(ShardRecords[s]) :
            PageAt(s, k) \in ArticlePage /\ ShardRecords[s][k].text \in ArticleText
  <1>1. Shard = 1..Len(ShardRecords) /\ Len(ShardRecords) \in Nat
    BY ImportConstants DEF Shard
  <1>2. \A s \in Shard : ShardRecords[s] \in Seq([page : ArticlePage, text : ArticleText])
    BY ImportConstants DEF Shard
  <1>3. ASSUME NEW s \in Shard
        PROVE  /\ Len(ShardRecords[s]) \in Nat
               /\ DOMAIN ShardRecords[s] = 1..Len(ShardRecords[s])
               /\ \A k \in 1..Len(ShardRecords[s]) :
                      ShardRecords[s][k] \in [page : ArticlePage, text : ArticleText]
    <2> DEFINE R == [page : ArticlePage, text : ArticleText]
    <2>1. ShardRecords[s] \in Seq(R)
      BY <1>2
    <2> HIDE DEF R
    <2>2. /\ Len(ShardRecords[s]) \in Nat /\ DOMAIN ShardRecords[s] = 1..Len(ShardRecords[s])
          /\ \A k \in 1..Len(ShardRecords[s]) : ShardRecords[s][k] \in R
      BY <2>1
    <2> QED BY <2>2 DEF R
  <1>4. \A s \in Shard : \A k \in 1..Len(ShardRecords[s]) :
            PageAt(s, k) \in ArticlePage /\ ShardRecords[s][k].text \in ArticleText
    BY <1>3 DEF PageAt
  <1> QED BY <1>1, <1>2, <1>3, <1>4

LEMMA ShardsOfPage ==
    \A s \in Shard : \A k, p : k \in 1..Len(ShardRecords[s]) /\ PageAt(s, k) = p => s \in ShardsOf(p)
  BY ShardFacts DEF ShardsOf, Records, PageAt

LEMMA PageOfShard ==
    ASSUME NEW p, NEW s \in ShardsOf(p)
    PROVE  s \in Shard /\ \E k \in 1..Len(ShardRecords[s]) : PageAt(s, k) = p
  BY ShardFacts DEF ShardsOf, Records, PageAt

\* The last record of a page is the text a whole import leaves.
LEMMA LastRecord ==
    ASSUME NEW s \in Shard, NEW k \in 1..Len(ShardRecords[s]),
           \A j \in 1..Len(ShardRecords[s]) : PageAt(s, j) = PageAt(s, k) => j <= k
    PROVE  /\ ShardRecords[s][k].text = LastText(s, PageAt(s, k))
           /\ ShardRecords[s][k].text \in LastTexts(PageAt(s, k))
  <1> DEFINE mine == {j \in DOMAIN ShardRecords[s] : ShardRecords[s][j].page = PageAt(s, k)}
             last == CHOOSE m \in mine : \A j \in mine : j <= m
  <1>1. k \in mine /\ \A j \in mine : j <= k
    BY ShardFacts DEF PageAt
  <1>2. last \in mine /\ \A j \in mine : j <= last
    BY <1>1
  <1>3. last = k
    BY <1>1, <1>2, ShardFacts
  <1>4. ShardRecords[s][k].text = LastText(s, PageAt(s, k))
    BY <1>3 DEF LastText
  <1> QED BY <1>4, ShardsOfPage DEF LastTexts

\* Records from + 1 to n of shard s have been written: of each page the last.
Wrote(s, from, n) ==
    /\ docs' \in [ArticlePage -> ArticleText \cup {NoText}]
    /\ \A p \in ArticlePage :
        \/ /\ docs'[p] = docs[p]
           /\ \A k \in (from + 1)..n : PageAt(s, k) # p
        \/ \E k \in (from + 1)..n :
            /\ PageAt(s, k) = p /\ docs'[p] = ShardRecords[s][k].text
            /\ \A j \in (from + 1)..n : PageAt(s, j) = p => j <= k

LEMMA BatchFacts ==
    ASSUME ImportTypeOK, NEW i \in ImportRun, NEW s \in Shard,
           shardTask[i][s].pos <= Len(ShardRecords[s])
    PROVE  LET pos == shardTask[i][s].pos
               end == BatchEnd(i, s)
               batch == Batch(i, s)
           IN  /\ pos \in Nat /\ end \in Nat /\ pos <= end /\ end <= Len(ShardRecords[s])
               /\ DOMAIN batch = 1..(end - pos) /\ Len(batch) = end - pos
               /\ \A k \in 1..(end - pos) : batch[k] = ShardRecords[s][pos + k]
               /\ batch = <<>> => pos = Len(ShardRecords[s])
  <1> DEFINE pos == shardTask[i][s].pos
             len == Len(ShardRecords[s])
             end == BatchEnd(i, s)
             batch == Batch(i, s)
  <1>1. pos \in Nat /\ len \in Nat /\ pos <= len /\ BatchSize \in Nat \ {0}
    <2>1. shardTask[i][s] \in Task
      BY DEF ImportTypeOK
    <2> QED BY <2>1, ShardFacts, ImportConstants DEF Task
  <1>2. end = pos + (IF len - pos < BatchSize THEN len - pos ELSE BatchSize)
    BY DEF BatchEnd
  <1>3. batch = SubSeq(ShardRecords[s], pos + 1, end)
    BY DEF Batch
  <1>4. ShardRecords[s] \in Seq([page : ArticlePage, text : ArticleText])
    BY ShardFacts
  <1> HIDE DEF pos, end, len, batch
  <1>5. end \in Nat /\ pos <= end /\ end <= len /\ (pos # len => pos < end)
    BY <1>1, <1>2
  <1>6. /\ Len(batch) = end - pos /\ DOMAIN batch = 1..(end - pos)
        /\ \A k \in 1..(end - pos) : batch[k] = ShardRecords[s][pos + k]
    BY <1>1, <1>3, <1>4, <1>5 DEF len
  <1>7. batch = <<>> => pos = len
    BY <1>1, <1>5, <1>6
  <1> QED BY <1>1, <1>5, <1>6, <1>7 DEF pos, end, len, batch

LEMMA BatchWrites ==
    ASSUME ImportTypeOK, NEW i \in ImportRun, NEW s \in Shard,
           shardTask[i][s].pos <= Len(ShardRecords[s]),
           docs' = Upserted(Batch(i, s))
    PROVE  Wrote(s, shardTask[i][s].pos, BatchEnd(i, s))
  <1> DEFINE pos == shardTask[i][s].pos
             end == BatchEnd(i, s)
             batch == Batch(i, s)
             mine(p) == {k \in DOMAIN batch : batch[k].page = p}
             last(p) == CHOOSE k \in mine(p) : \A j \in mine(p) : j <= k
  <1>1. /\ pos \in Nat /\ end \in Nat /\ pos <= end /\ end <= Len(ShardRecords[s])
        /\ DOMAIN batch = 1..(end - pos)
        /\ \A k \in 1..(end - pos) : batch[k] = ShardRecords[s][pos + k]
    BY BatchFacts
  <1>2. \A p \in ArticlePage :
            docs'[p] = IF mine(p) = {} THEN docs[p] ELSE batch[last(p)].text
    BY DEF Upserted
  <1>3. docs' = [p \in ArticlePage |-> docs'[p]]
    BY DEF Upserted
  <1> HIDE DEF batch, pos, end
  <1>4. \A k \in 1..(end - pos) : /\ pos + k \in (pos + 1)..end /\ pos + k \in 1..Len(ShardRecords[s])
                                  /\ batch[k].page = PageAt(s, pos + k)
    BY <1>1, ShardFacts DEF PageAt
  <1>5. \A k \in (pos + 1)..end : k - pos \in 1..(end - pos) /\ pos + (k - pos) = k
    BY <1>1
  <1>6. ASSUME NEW p \in ArticlePage, mine(p) = {}
        PROVE  docs'[p] = docs[p] /\ \A k \in (pos + 1)..end : PageAt(s, k) # p
    <2>1. ASSUME NEW k \in (pos + 1)..end, PageAt(s, k) = p PROVE FALSE
      <3>1. k - pos \in mine(p)
        BY <1>1, <1>4, <1>5, <2>1
      <3> QED BY <1>6, <3>1
    <2> QED BY <1>2, <1>6, <2>1
  <1>7. ASSUME NEW p \in ArticlePage, mine(p) # {}
        PROVE  \E k \in (pos + 1)..end :
                   /\ PageAt(s, k) = p /\ docs'[p] = ShardRecords[s][k].text
                   /\ \A j \in (pos + 1)..end : PageAt(s, j) = p => j <= k
    <2>1. mine(p) \in SUBSET (1..(end - pos)) /\ end - pos \in Nat
      BY <1>1
    <2>2. last(p) \in mine(p) /\ \A j \in mine(p) : j <= last(p)
      <3>1. \E k \in mine(p) : \A j \in mine(p) : j <= k
        BY <1>7, <2>1, GreatestNat
      <3> QED BY <3>1
    <2> HIDE DEF last
    <2>3. last(p) \in 1..(end - pos) /\ batch[last(p)].page = p
      BY <1>1, <2>2
    <2>4. /\ pos + last(p) \in (pos + 1)..end /\ PageAt(s, pos + last(p)) = p
          /\ docs'[p] = ShardRecords[s][pos + last(p)].text
      BY <1>1, <1>2, <1>4, <1>7, <2>3
    <2>5. ASSUME NEW j \in (pos + 1)..end, PageAt(s, j) = p PROVE j <= pos + last(p)
      <3>1. j - pos \in mine(p)
        BY <1>1, <1>4, <1>5, <2>5
      <3>2. j - pos <= last(p)
        BY <2>2, <3>1
      <3> QED BY <1>1, <2>3, <3>2
    <2> QED BY <2>4, <2>5
  <1>8. docs' \in [ArticlePage -> ArticleText \cup {NoText}]
    <2>1. ASSUME NEW p \in ArticlePage PROVE docs'[p] \in ArticleText \cup {NoText}
      <3>1. CASE mine(p) = {}
        BY <1>6, <3>1 DEF ImportTypeOK
      <3>2. CASE mine(p) # {}
        <4>1. PICK k \in (pos + 1)..end : docs'[p] = ShardRecords[s][k].text
          BY <1>7, <3>2
        <4>2. k \in 1..Len(ShardRecords[s])
          BY <1>1, ShardFacts
        <4> QED BY <4>1, <4>2, ShardFacts
      <3> QED BY <3>1, <3>2
    <2> QED BY <1>3, <2>1
  <1> QED BY <1>6, <1>7, <1>8 DEF Wrote, pos, end

LEMMA WroteKeeps ==
    ASSUME ImportTypeOK, NEW s \in Shard, NEW m \in Nat, NEW n \in Nat,
           m <= n, n <= Len(ShardRecords[s]), Wrote(s, m, n)
    PROVE  /\ \A p \in ArticlePage : docs[p] # NoText => docs'[p] # NoText
           /\ \A k \in (m + 1)..n : docs'[PageAt(s, k)] # NoText
  <1>1. \A k \in (m + 1)..n : /\ k \in 1..Len(ShardRecords[s]) /\ PageAt(s, k) \in ArticlePage
                              /\ ShardRecords[s][k].text # NoText
    <2>1. \A k \in (m + 1)..n : k \in 1..Len(ShardRecords[s])
      BY ShardFacts
    <2> QED BY <2>1, ShardFacts, ImportConstants
  <1>2. ASSUME NEW p \in ArticlePage, docs[p] # NoText PROVE docs'[p] # NoText
    BY <1>1, <1>2 DEF Wrote
  <1>3. ASSUME NEW k \in (m + 1)..n PROVE docs'[PageAt(s, k)] # NoText
    BY <1>1, <1>3 DEF Wrote
  <1> QED BY <1>2, <1>3

\* More is in the corpus: a batch that was written.
LEMMA CorpusGrows ==
    ASSUME ImportTypeOK, NEW s \in Shard, NEW m \in Nat, NEW n \in Nat,
           m <= n, n <= Len(ShardRecords[s]), Wrote(s, m, n)
    PROVE  /\ \A x \in Shard, k \in Nat :
                  k <= Len(ShardRecords[x]) /\ InCorpus(docs, x, k) => InCorpus(docs', x, k)
           /\ InCorpus(docs, s, m) => InCorpus(docs', s, n)
  <1>1. ASSUME NEW x \in Shard, NEW k \in Nat, k <= Len(ShardRecords[x]), InCorpus(docs, x, k)
        PROVE  InCorpus(docs', x, k)
    <2>1. \A j \in 1..k : j \in 1..Len(ShardRecords[x]) /\ PageAt(x, j) \in ArticlePage
      <3>1. \A j \in 1..k : j \in 1..Len(ShardRecords[x])
        BY <1>1, ShardFacts
      <3> QED BY <3>1, ShardFacts
    <2> QED BY <1>1, <2>1, WroteKeeps DEF InCorpus, PageAt
  <1>2. ASSUME InCorpus(docs, s, m) PROVE InCorpus(docs', s, n)
    <2>1. InCorpus(docs', s, m)
      BY <1>1, <1>2, ShardFacts
    <2>2. \A k \in 1..n : k \in 1..m \/ k \in (m + 1)..n
      OBVIOUS
    <2> QED BY <2>1, <2>2, WroteKeeps DEF InCorpus, PageAt
  <1> QED BY <1>1, <1>2

-----------------------------------------------------------------------------
(* What the steps change *)

\* The future of run i and shard s gets the status st and the position n.
Moves(i, s, st, n) ==
    /\ shardTask' \in [ImportRun -> [Shard -> Task]]
    /\ shardTask'[i][s].st = st /\ shardTask'[i][s].pos = n
    /\ \A j \in ImportRun, x \in Shard : j # i \/ x # s => shardTask'[j][x] = shardTask[j][x]

LEMMA TaskMoves ==
    ASSUME ImportTypeOK, NEW i \in ImportRun, NEW s \in Shard, NEW t \in Task,
           shardTask' = [shardTask EXCEPT ![i][s] = t]
    PROVE  Moves(i, s, t.st, t.pos)
  <1>1. shardTask \in [ImportRun -> [Shard -> Task]]
    BY DEF ImportTypeOK
  <1> QED BY <1>1 DEF Moves

LEMMA StatusMoves ==
    ASSUME ImportTypeOK, NEW i \in ImportRun, NEW s \in Shard,
           NEW st \in {"none", "queued", "working", "done", "failed", "broken"},
           shardTask' = [shardTask EXCEPT ![i][s].st = st]
    PROVE  Moves(i, s, st, shardTask[i][s].pos)
  <1>1. shardTask \in [ImportRun -> [Shard -> Task]]
    BY DEF ImportTypeOK
  <1>2. shardTask[i][s] \in Task
    BY <1>1
  <1>3. [shardTask[i][s] EXCEPT !.st = st] = [st |-> st, pos |-> shardTask[i][s].pos]
    BY <1>2 DEF Task
  <1>4. shardTask' = [shardTask EXCEPT ![i][s] = [st |-> st, pos |-> shardTask[i][s].pos]]
    BY <1>1, <1>3
  <1>5. [st |-> st, pos |-> shardTask[i][s].pos] \in Task
    BY <1>2 DEF Task
  <1> QED BY <1>1, <1>4, <1>5, TaskMoves

LEMMA PositionMoves ==
    ASSUME ImportTypeOK, NEW i \in ImportRun, NEW s \in Shard, NEW n \in Nat,
           shardTask' = [shardTask EXCEPT ![i][s].pos = n]
    PROVE  Moves(i, s, shardTask[i][s].st, n)
  <1>1. shardTask \in [ImportRun -> [Shard -> Task]]
    BY DEF ImportTypeOK
  <1>2. shardTask[i][s] \in Task
    BY <1>1
  <1>3. [shardTask[i][s] EXCEPT !.pos = n] = [st |-> shardTask[i][s].st, pos |-> n]
    BY <1>2 DEF Task
  <1>4. shardTask' = [shardTask EXCEPT ![i][s] = [st |-> shardTask[i][s].st, pos |-> n]]
    BY <1>1, <1>3
  <1>5. [st |-> shardTask[i][s].st, pos |-> n] \in Task
    BY <1>2 DEF Task
  <1> QED BY <1>1, <1>4, <1>5, TaskMoves

\* A run that ends or is killed gives up the lock, and no other run has it.
Leaves(i, at) ==
    /\ importer' \in [ImportRun -> Run]
    /\ importer'[i].at = at
    /\ \A j \in ImportRun \ {i} : importer'[j] = importer[j]
    /\ importLock' = {}
    /\ \A j \in ImportRun : ~ (importer'[j].at \in {"claiming", "collecting"})

LEMMA EndLeaves ==
    ASSUME ImportTypeOK, Locked, NEW i \in ImportRun, Active(i), NEW at \in {"ended", "killed"},
           importer' = [importer EXCEPT ![i] = [at |-> at, plan |-> {}]],
           importLock' = importLock \ {i}
    PROVE  Leaves(i, at)
  <1>1. importLock = {i} /\ \A j \in ImportRun \ {i} : ~ Active(j)
    BY DEF Locked
  <1>2. /\ importer'[i] = [at |-> at, plan |-> {}]
        /\ \A j \in ImportRun \ {i} : importer'[j] = importer[j]
    BY DEF ImportTypeOK
  <1>3. importer' \in [ImportRun -> Run]
    BY DEF ImportTypeOK, Run
  <1>4. \A j \in ImportRun : ~ (importer'[j].at \in {"claiming", "collecting"})
    BY <1>1, <1>2 DEF Active
  <1> QED BY <1>1, <1>2, <1>3, <1>4 DEF Leaves

LEMMA FaultType ==
    ASSUME ImportTypeOK, ImportFault PROVE importFaults' \in Nat
  BY DEF ImportTypeOK, ImportFault

\* While the corpus stays as it is.
LEMMA KeepsTexts ==
    ASSUME Texts, UNCHANGED docs,
           \A p \in ArticlePage, s \in Shard :
               s \in ShardsOf(p) /\ Unsettled(s, p) => Unsettled(s, p)'
    PROVE  Texts'
  <1> SUFFICES ASSUME NEW p \in ArticlePage
               PROVE  \/ docs'[p] = NoText \/ docs'[p] \in LastTexts(p)
                      \/ \E s \in ShardsOf(p) : Unsettled(s, p)'
    BY DEF Texts, LastTexts, LastText, ShardsOf, Records
  <1> QED BY DEF Texts, ShardsOf

-----------------------------------------------------------------------------
(* The steps of a run *)

LEMMA InitOK ==
    ASSUME ImportInit PROVE ImportInv
  <1>1. ImportTypeOK
    BY DEF ImportInit, ImportTypeOK, Task, Run
  <1>2. Present /\ Locked /\ UnderWay
    BY DEF ImportInit, Present, Locked, UnderWay, Active, Futures
  <1>3. Texts
    BY DEF ImportInit, Texts
  <1> QED BY <1>1, <1>2, <1>3 DEF ImportInv

LEMMA StartsImportOK ==
    ASSUME ImportInv, NEW i \in ImportRun, StartsImport(i) PROVE ImportInv'
  <1> USE DEF ImportInv
  <1>1. /\ importer[i].at = "new" /\ importLock = {} /\ importLock' = {i}
        /\ UNCHANGED <<marker, docs, shardTask, importFaults>>
    BY DEF StartsImport, TakesLock
  <1>2. PICK n \in 1..Len(ShardRecords) :
            importer' = [importer EXCEPT ![i] = [at |-> "claiming", plan |-> ImportPlan(n)]]
    BY DEF StartsImport
  <1>3. ImportPlan(n) \in SUBSET Shard
    BY ShardFacts DEF ImportPlan
  <1>4. /\ importer' \in [ImportRun -> Run] /\ importer'[i].at = "claiming"
        /\ \A j \in ImportRun \ {i} : importer'[j] = importer[j]
    BY <1>2, <1>3 DEF ImportTypeOK, Run
  <1>5. \A j \in ImportRun : ~ Active(j)
    BY <1>1 DEF Locked
  <1>6. ImportTypeOK'
    BY <1>1, <1>4 DEF ImportTypeOK
  <1>7. Present'
    BY <1>1 DEF Present
  <1>8. Locked'
    BY <1>1, <1>4, <1>5 DEF Locked, Active, Futures
  <1>9. ASSUME NoneKilled' PROVE UnderWay' /\ Texts'
    <2>1. NoneKilled
      BY <1>1, <1>4, <1>9 DEF NoneKilled
    <2>2. \A j \in ImportRun \ {i} : ~ Active(j)'
      BY <1>4, <1>5 DEF Active
    <2>3. \A s \in Shard : shardTask[i][s].st = "none"
      BY <1>1 DEF Locked
    <2>4. UnderWay'
      BY <1>1, <1>5, <2>1, <2>2, <2>3 DEF UnderWay
    <2>5. Texts'
      <3>1. ASSUME NEW p \in ArticlePage, NEW s \in Shard, Unsettled(s, p) PROVE Unsettled(s, p)'
        BY <1>1, <2>2, <2>3, <3>1 DEF Unsettled
      <3> QED BY <1>1, <2>1, <3>1, KeepsTexts
    <2> QED BY <2>4, <2>5
  <1> QED BY <1>6, <1>7, <1>8, <1>9

LEMMA ClaimsShardOK ==
    ASSUME ImportInv, NEW i \in ImportRun, ClaimsShard(i) PROVE ImportInv'
  <1> USE DEF ImportInv
  <1> DEFINE s == CHOOSE x \in importer[i].plan : \A y \in importer[i].plan : x <= y
  <1>1. s \in importer[i].plan /\ s \in Shard
    <2>1. importer[i].plan \in SUBSET Nat /\ importer[i].plan \subseteq Shard
      BY ShardFacts DEF ImportTypeOK, Run
    <2>2. \E x \in importer[i].plan : \A y \in importer[i].plan : x <= y
      BY <2>1, LeastNat DEF ClaimsShard
    <2> QED BY <2>1, <2>2
  <1>2. /\ importer[i].at = "claiming" /\ marker[s] # "completed"
        /\ marker' = [marker EXCEPT ![s] = "running"]
        /\ IF Futures(i, {"broken"}) = {}
           THEN /\ importer' = [importer EXCEPT ![i].plan = @ \ {s}]
                /\ shardTask' = [shardTask EXCEPT ![i][s].st = "queued"]
                /\ UNCHANGED importLock
           ELSE Ended(i) /\ UNCHANGED shardTask
        /\ UNCHANGED <<docs, importFaults>>
    BY DEF ClaimsShard, Claimed, Marked
  <1> HIDE DEF s
  <1>3. /\ marker' \in [Shard -> {"none", "running", "completed", "failed"}] /\ marker'[s] = "running"
        /\ \A x \in Shard \ {s} : marker'[x] = marker[x]
    BY <1>1, <1>2 DEF ImportTypeOK
  <1>4. Active(i) /\ importLock = {i} /\ \A j \in ImportRun \ {i} : ~ Active(j)
    BY <1>2 DEF Active, Locked
  <1>5. CASE Futures(i, {"broken"}) = {}
    <2>1. Moves(i, s, "queued", shardTask[i][s].pos)
      BY <1>1, <1>2, <1>5, StatusMoves
    <2>2. /\ importer' \in [ImportRun -> Run] /\ importer'[i].at = "claiming"
          /\ \A j \in ImportRun \ {i} : importer'[j] = importer[j]
      <3>1. importer[i] \in Run
        BY DEF ImportTypeOK
      <3>2. [importer[i] EXCEPT !.plan = @ \ {s}] \in Run
        BY <3>1 DEF Run
      <3>3. /\ importer' = [importer EXCEPT ![i] = [importer[i] EXCEPT !.plan = @ \ {s}]]
            /\ importer'[i].at = importer[i].at
        BY <1>2, <1>5, <3>1 DEF ImportTypeOK, Run
      <3> QED BY <1>2, <3>2, <3>3 DEF ImportTypeOK
    <2>3. ImportTypeOK'
      BY <1>2, <1>3, <1>5, <2>1, <2>2 DEF ImportTypeOK, Moves
    <2>4. Present'
      BY <1>1, <1>2, <1>3, <2>1 DEF Present, Moves
    <2>5. Locked'
      <3>1. \A j \in ImportRun : Active(j)' => importLock' = {j}
        BY <1>2, <1>4, <1>5, <2>2 DEF Active
      <3>2. \A x \in Shard : shardTask'[i][x].st # "broken"
        BY <1>1, <1>5, <2>1 DEF Moves, Futures
      <3> QED BY <1>1, <2>1, <2>2, <3>1, <3>2 DEF Locked, Moves, Futures
    <2>6. ASSUME NoneKilled' PROVE UnderWay' /\ Texts'
      <3>1. NoneKilled
        BY <1>2, <2>2, <2>6 DEF NoneKilled
      <3>2. Active(i)' /\ \A j \in ImportRun \ {i} : ~ Active(j)'
        BY <1>4, <2>2 DEF Active
      <3>3. UnderWay'
        BY <1>1, <1>3, <1>4, <2>1, <3>1, <3>2 DEF UnderWay, Moves
      <3>4. ASSUME NEW p \in ArticlePage, NEW x \in Shard, Unsettled(x, p) PROVE Unsettled(x, p)'
        <4>1. CASE x = s
          BY <1>3, <2>1, <3>2, <4>1 DEF Unsettled, Moves
        <4>2. CASE x # s
          BY <1>1, <1>3, <1>4, <2>1, <3>2, <3>4, <4>2 DEF Unsettled, Moves, PageAt
        <4> QED BY <4>1, <4>2
      <3> QED BY <1>2, <3>1, <3>3, <3>4, KeepsTexts
    <2> QED BY <2>3, <2>4, <2>5, <2>6
  <1>6. CASE Futures(i, {"broken"}) # {}
    <2>1. Leaves(i, "ended") /\ UNCHANGED shardTask
      BY <1>2, <1>4, <1>6, EndLeaves DEF Ended
    <2>2. ImportTypeOK'
      BY <1>2, <1>3, <2>1 DEF ImportTypeOK, Leaves
    <2>3. Present'
      BY <1>1, <1>2, <1>3, <2>1 DEF Present
    <2>4. Locked'
      BY <2>1 DEF Locked, Leaves, Active, Futures
    <2>5. ASSUME NoneKilled' PROVE UnderWay' /\ Texts'
      <3>1. NoneKilled
        BY <1>2, <2>1, <2>5 DEF NoneKilled, Leaves
      <3>2. \A j \in ImportRun : ~ Active(j)'
        BY <2>1 DEF Leaves, Active
      <3>3. \A x \in Shard : shardTask[i][x].st \notin {"queued", "working"}
        BY <1>6 DEF Locked
      <3>4. UnderWay'
        BY <1>4, <2>1, <3>1, <3>2, <3>3 DEF UnderWay
      <3>5. ASSUME NEW p \in ArticlePage, NEW x \in Shard, Unsettled(x, p) PROVE Unsettled(x, p)'
        BY <1>1, <1>3, <3>2, <3>5 DEF Unsettled
      <3> QED BY <1>2, <3>1, <3>4, <3>5, KeepsTexts
    <2> QED BY <2>2, <2>3, <2>4, <2>5
  <1> QED BY <1>5, <1>6

LEMMA AllClaimedOK ==
    ASSUME ImportInv, NEW i \in ImportRun, AllClaimed(i) PROVE ImportInv'
  <1> USE DEF ImportInv
  <1>1. /\ importer[i].at = "claiming" /\ importer' = [importer EXCEPT ![i].at = "collecting"]
        /\ UNCHANGED <<marker, docs, importLock, shardTask, importFaults>>
    BY DEF AllClaimed
  <1>2. /\ importer' \in [ImportRun -> Run] /\ importer'[i].at = "collecting"
        /\ \A j \in ImportRun \ {i} : importer'[j] = importer[j]
    <2>1. importer[i] \in Run
      BY DEF ImportTypeOK
    <2>2. [importer[i] EXCEPT !.at = "collecting"] \in Run
      BY <2>1 DEF Run
    <2>3. importer' = [importer EXCEPT ![i] = [importer[i] EXCEPT !.at = "collecting"]]
      BY <1>1 DEF ImportTypeOK
    <2>4. [importer[i] EXCEPT !.at = "collecting"].at = "collecting"
      BY <2>1 DEF Run
    <2> QED BY <2>2, <2>3, <2>4 DEF ImportTypeOK
  <1>3. \A j \in ImportRun : Active(j)' <=> Active(j)
    BY <1>1, <1>2 DEF Active
  <1>4. ImportTypeOK'
    BY <1>1, <1>2 DEF ImportTypeOK
  <1>5. Present'
    BY <1>1 DEF Present
  <1>6. Locked'
    BY <1>1, <1>2, <1>3 DEF Locked, Futures
  <1>7. ASSUME NoneKilled' PROVE UnderWay' /\ Texts'
    <2>1. NoneKilled
      BY <1>1, <1>2, <1>7 DEF NoneKilled
    <2>2. UnderWay'
      BY <1>1, <1>3, <2>1 DEF UnderWay
    <2>3. ASSUME NEW p \in ArticlePage, NEW x \in Shard, Unsettled(x, p) PROVE Unsettled(x, p)'
      BY <1>1, <1>3, <2>3 DEF Unsettled
    <2> QED BY <1>1, <2>1, <2>2, <2>3, KeepsTexts
  <1> QED BY <1>4, <1>5, <1>6, <1>7

LEMMA CollectsOK ==
    ASSUME ImportInv, NEW i \in ImportRun, NEW s \in Shard, Collects(i, s) PROVE ImportInv'
  <1> USE DEF ImportInv
  <1>1. /\ importer[i].at = "collecting" /\ shardTask[i][s].st \in {"done", "failed", "broken"}
        /\ UNCHANGED <<docs, importLock, importer, importFaults>>
    BY DEF Collects
  <1>2. /\ marker' \in [Shard -> {"none", "running", "completed", "failed"}]
        /\ marker'[s] = "completed" => shardTask[i][s].st = "done"
        /\ \A x \in Shard \ {s} : marker'[x] = marker[x]
    BY DEF Collects, Marked, ImportTypeOK
  <1>3. Moves(i, s, "none", shardTask[i][s].pos)
    BY StatusMoves DEF Collects
  <1>4. Active(i) /\ \A j \in ImportRun \ {i} : ~ Active(j)
    BY <1>1 DEF Active, Locked
  <1>5. \A j \in ImportRun : Active(j)' <=> Active(j)
    BY <1>1 DEF Active
  <1>6. ImportTypeOK'
    BY <1>1, <1>2, <1>3 DEF ImportTypeOK, Moves
  <1>7. Present'
    BY <1>1, <1>2, <1>3 DEF Present, Moves
  <1>8. Locked'
    <2>1. \A j \in ImportRun, x \in Shard :
              shardTask'[j][x].st # "none" => shardTask'[j][x] = shardTask[j][x]
      BY <1>3 DEF Moves
    <2>2. \A j \in ImportRun : Futures(j, {"broken"})' # {} => Futures(j, {"broken"}) # {}
      BY <2>1 DEF Futures
    <2> QED BY <1>1, <1>5, <2>1, <2>2 DEF Locked
  <1>9. ASSUME NoneKilled' PROVE UnderWay' /\ Texts'
    <2>1. NoneKilled
      BY <1>1, <1>9 DEF NoneKilled
    <2>2. UnderWay'
      BY <1>2, <1>3, <1>4, <1>5, <2>1 DEF UnderWay, Moves
    <2>3. ASSUME NEW p \in ArticlePage, NEW x \in Shard, Unsettled(x, p) PROVE Unsettled(x, p)'
      <3>1. CASE x = s
        BY <1>2, <1>3, <1>4, <1>5, <2>3, <3>1 DEF Unsettled, Moves
      <3>2. CASE x # s
        BY <1>2, <1>3, <1>4, <1>5, <2>3, <3>2 DEF Unsettled, Moves, PageAt
      <3> QED BY <3>1, <3>2
    <2> QED BY <1>1, <2>1, <2>2, <2>3, KeepsTexts
  <1> QED BY <1>6, <1>7, <1>8, <1>9

LEMMA AllCollectedOK ==
    ASSUME ImportInv, NEW i \in ImportRun, AllCollected(i) PROVE ImportInv'
  <1> USE DEF ImportInv
  <1>1. /\ importer[i].at = "collecting"
        /\ \A s \in Shard : shardTask[i][s].st \notin {"queued", "working"}
        /\ UNCHANGED <<marker, docs, shardTask, importFaults>>
    BY DEF AllCollected, Futures
  <1>2. Leaves(i, "ended")
    BY <1>1, EndLeaves DEF AllCollected, Ended, Active
  <1>3. ImportTypeOK'
    BY <1>1, <1>2 DEF ImportTypeOK, Leaves
  <1>4. Present'
    BY <1>1 DEF Present
  <1>5. Locked'
    BY <1>1, <1>2 DEF Locked, Leaves, Active, Futures
  <1>6. ASSUME NoneKilled' PROVE UnderWay' /\ Texts'
    <2>1. NoneKilled
      BY <1>1, <1>2, <1>6 DEF NoneKilled, Leaves
    <2>2. \A j \in ImportRun : ~ Active(j)'
      BY <1>2 DEF Leaves, Active
    <2>3. \A j \in ImportRun \ {i} : ~ Active(j)
      BY <1>2, <2>2 DEF Leaves, Active
    <2>4. UnderWay'
      BY <1>1, <2>1, <2>2, <2>3 DEF UnderWay
    <2>5. ASSUME NEW p \in ArticlePage, NEW x \in Shard, Unsettled(x, p) PROVE Unsettled(x, p)'
      BY <1>1, <2>2, <2>5 DEF Unsettled
    <2> QED BY <1>1, <2>1, <2>4, <2>5, KeepsTexts
  <1> QED BY <1>3, <1>4, <1>5, <1>6

LEMMA InterruptedOK ==
    ASSUME ImportInv, NEW i \in ImportRun, Interrupted(i) PROVE ImportInv'
  <1> USE DEF ImportInv
  <1>1. Active(i) /\ ImportFault /\ Ended(i) /\ UNCHANGED <<marker, docs>>
    BY DEF Interrupted, Active
  <1>2. /\ shardTask' \in [ImportRun -> [Shard -> Task]]
        /\ \A s \in Shard : shardTask'[i][s].st = "none"
        /\ \A j \in ImportRun \ {i} : shardTask'[j] = shardTask[j]
    BY DEF Interrupted, ImportTypeOK, Task
  <1>3. Leaves(i, "ended")
    BY <1>1, EndLeaves DEF Ended
  <1>4. ImportTypeOK'
    BY <1>1, <1>2, <1>3, FaultType DEF ImportTypeOK, Leaves
  <1>5. Present'
    BY <1>1, <1>2 DEF Present
  <1>6. Locked'
    BY <1>1, <1>2, <1>3 DEF Locked, Leaves, Active, Futures
  <1>7. ASSUME NoneKilled' PROVE UnderWay' /\ Texts'
    <2>1. NoneKilled
      BY <1>1, <1>3, <1>7 DEF NoneKilled, Leaves, Active
    <2>2. \A j \in ImportRun : ~ Active(j)'
      BY <1>3 DEF Leaves, Active
    <2>3. \A j \in ImportRun \ {i} : ~ Active(j)
      BY <1>3, <2>2 DEF Leaves, Active
    <2>4. UnderWay'
      BY <1>1, <1>2, <2>1, <2>2, <2>3 DEF UnderWay
    <2>5. ASSUME NEW p \in ArticlePage, NEW x \in Shard, Unsettled(x, p) PROVE Unsettled(x, p)'
      BY <1>1, <2>2, <2>5 DEF Unsettled
    <2> QED BY <1>1, <2>1, <2>4, <2>5, KeepsTexts
  <1> QED BY <1>4, <1>5, <1>6, <1>7

LEMMA KilledImportOK ==
    ASSUME ImportInv, NEW i \in ImportRun, KilledImport(i) PROVE ImportInv'
  <1> USE DEF ImportInv
  <1>1. Active(i) /\ ImportFault /\ UNCHANGED <<docs, shardTask>>
    BY DEF KilledImport, Active
  <1>2. /\ marker' \in [Shard -> {"none", "running", "completed", "failed"}]
        /\ \A s \in Shard : marker'[s] = "completed" => marker[s] = "completed"
    BY DEF KilledImport, Marked, ImportTypeOK
  <1>3. Leaves(i, "killed")
    BY <1>1, EndLeaves DEF KilledImport
  <1>4. ImportTypeOK'
    BY <1>1, <1>2, <1>3, FaultType DEF ImportTypeOK, Leaves
  <1>5. Present'
    BY <1>1, <1>2 DEF Present
  <1>6. Locked'
    BY <1>1, <1>3 DEF Locked, Leaves, Active, Futures
  <1>7. ~ NoneKilled'
    BY <1>3 DEF NoneKilled, Leaves
  <1> QED BY <1>4, <1>5, <1>6, <1>7

-----------------------------------------------------------------------------
(* The steps of a process of the pool *)

\* The future is under way in its run, if no run was killed: its marker is
\* "running" and no other run has the lock.
LEMMA WorkingRuns ==
    ASSUME ImportInv, NoneKilled, NEW i \in ImportRun, NEW s \in Shard,
           shardTask[i][s].st \in {"queued", "working"}
    PROVE  Active(i) /\ marker[s] = "running" /\ \A j \in ImportRun \ {i} : ~ Active(j)
  BY DEF ImportInv, UnderWay, Locked

\* A step of a future that leaves it as broken as it was keeps the lock's facts.
LEMMA WorkerLocked ==
    ASSUME ImportInv, NEW i \in ImportRun, NEW s \in Shard, NEW st, NEW n,
           shardTask[i][s].st \in {"queued", "working"}, st \in {"working", "done", "failed"},
           Moves(i, s, st, n), UNCHANGED <<importLock, importer>>
    PROVE  Locked'
  <1>1. \A j \in ImportRun : Active(j)' <=> Active(j)
    BY DEF Active
  <1>2. importer[i].at # "new" /\ Futures(i, {"broken"}) = {}
    BY DEF ImportInv, Locked
  <1>3. Futures(i, {"broken"})' = {}
    BY <1>2 DEF Futures, Moves
  <1>4. \A j \in ImportRun \ {i} :
            /\ \A x \in Shard : shardTask'[j][x] = shardTask[j][x]
            /\ Futures(j, {"broken"})' = Futures(j, {"broken"})
    BY DEF Moves, Futures
  <1> QED BY <1>1, <1>2, <1>3, <1>4 DEF ImportInv, Locked

\* ... and what is under way stays so.
LEMMA WorkerUnderWay ==
    ASSUME ImportInv, NoneKilled, NEW i \in ImportRun, NEW s \in Shard, NEW st, NEW n,
           shardTask[i][s].st \in {"queued", "working"},
           Moves(i, s, st, n), UNCHANGED <<marker, importer>>
    PROVE  UnderWay'
  <1>1. \A j \in ImportRun : Active(j)' <=> Active(j)
    BY DEF Active
  <1> QED BY <1>1, WorkingRuns DEF ImportInv, UnderWay, Moves

LEMMA TakesShardOK ==
    ASSUME ImportInv, NEW i \in ImportRun, NEW s \in Shard, TakesShard(i, s) PROVE ImportInv'
  <1> USE DEF ImportInv
  <1>1. /\ shardTask[i][s].st = "queued"
        /\ UNCHANGED <<marker, docs, importLock, importer, importFaults>>
    BY DEF TakesShard
  <1>2. Moves(i, s, "working", 0)
    <2>1. [st |-> "working", pos |-> 0] \in Task
      BY DEF Task
    <2> QED BY <2>1, TaskMoves DEF TakesShard
  <1>3. ImportTypeOK'
    BY <1>1, <1>2 DEF ImportTypeOK, Moves
  <1>4. Present'
    <2>1. 0 <= Len(ShardRecords[s]) /\ InCorpus(docs, s, 0)
      BY ShardFacts DEF InCorpus
    <2>2. shardTask'[i][s].st = "working" /\ shardTask'[i][s].pos = 0
      BY <1>2 DEF Moves
    <2>3. \A j \in ImportRun, x \in Shard : j # i \/ x # s => shardTask'[j][x] = shardTask[j][x]
      BY <1>2 DEF Moves
    <2> QED BY <1>1, <2>1, <2>2, <2>3 DEF Present
  <1>5. Locked'
    BY <1>1, <1>2, WorkerLocked
  <1>6. ASSUME NoneKilled' PROVE UnderWay' /\ Texts'
    <2>1. NoneKilled
      BY <1>1, <1>6 DEF NoneKilled
    <2>2. UnderWay'
      BY <1>1, <1>2, <2>1, WorkerUnderWay
    <2>3. \A j \in ImportRun : Active(j)' <=> Active(j)
      BY <1>1 DEF Active
    <2>4. ASSUME NEW p \in ArticlePage, NEW x \in Shard, x \in ShardsOf(p), Unsettled(x, p)
          PROVE  Unsettled(x, p)'
      <3>1. CASE x = s
        <4>1. PICK k \in 1..Len(ShardRecords[s]) : PageAt(s, k) = p
          BY <2>4, <3>1, PageOfShard
        <4>2. k > 0
          BY <4>1, ShardFacts
        <4> QED BY <1>1, <1>2, <2>1, <2>3, <2>4, <3>1, <4>1, <4>2, WorkingRuns
                DEF Unsettled, Moves, PageAt
      <3>2. CASE x # s
        BY <1>1, <1>2, <2>3, <2>4, <3>2 DEF Unsettled, Moves, PageAt
      <3> QED BY <3>1, <3>2
    <2> QED BY <1>1, <2>1, <2>2, <2>4, KeepsTexts
  <1> QED BY <1>3, <1>4, <1>5, <1>6

LEMMA CommitsBatchOK ==
    ASSUME ImportInv, NEW i \in ImportRun, NEW s \in Shard, CommitsBatch(i, s) PROVE ImportInv'
  <1> USE DEF ImportInv
  <1> DEFINE pos == shardTask[i][s].pos
             end == BatchEnd(i, s)
  <1>1. /\ shardTask[i][s].st = "working" /\ docs' = Upserted(Batch(i, s))
        /\ UNCHANGED <<marker, importLock, importer, importFaults>>
    BY DEF CommitsBatch
  <1>2. /\ pos \in Nat /\ end \in Nat /\ pos <= end /\ end <= Len(ShardRecords[s])
        /\ Wrote(s, pos, end) /\ InCorpus(docs, s, pos)
    <2>1. pos <= Len(ShardRecords[s]) /\ InCorpus(docs, s, pos)
      BY <1>1 DEF Present
    <2> QED BY <1>1, <2>1, BatchFacts, BatchWrites
  <1>3. Moves(i, s, "working", end)
    <2>1. Moves(i, s, shardTask[i][s].st, end)
      BY <1>2, PositionMoves DEF CommitsBatch
    <2> QED BY <1>1, <2>1
  <1> HIDE DEF end
  <1>4. ImportTypeOK'
    BY <1>1, <1>2, <1>3 DEF ImportTypeOK, Moves, Wrote
  <1>5. Present'
    <2>1. \A x \in Shard, k \in Nat :
              k <= Len(ShardRecords[x]) /\ InCorpus(docs, x, k) => InCorpus(docs', x, k)
      BY <1>2, CorpusGrows
    <2>2. InCorpus(docs', s, end)
      BY <1>2, CorpusGrows
    <2>3. \A j \in ImportRun, x \in Shard : shardTask[j][x].pos \in Nat /\ Len(ShardRecords[x]) \in Nat
      BY ShardFacts DEF ImportTypeOK, Task
    <2>4. ASSUME NEW j \in ImportRun, NEW x \in Shard
          PROVE  /\ shardTask'[j][x].st = "working" =>
                        /\ shardTask'[j][x].pos <= Len(ShardRecords[x])
                        /\ InCorpus(docs', x, shardTask'[j][x].pos)
                 /\ shardTask'[j][x].st = "done" => InCorpus(docs', x, Len(ShardRecords[x]))
      <3>1. CASE j = i /\ x = s
        BY <1>2, <1>3, <2>2, <3>1 DEF Moves
      <3>2. CASE ~ (j = i /\ x = s)
        BY <1>3, <2>1, <2>3, <3>2 DEF Moves, Present
      <3> QED BY <3>1, <3>2
    <2>5. ASSUME NEW x \in Shard, marker'[x] = "completed" PROVE InCorpus(docs', x, Len(ShardRecords[x]))
      BY <1>1, <2>1, <2>3, <2>5, ShardFacts DEF Present
    <2> QED BY <2>4, <2>5 DEF Present
  <1>6. Locked'
    BY <1>1, <1>3, WorkerLocked
  <1>7. ASSUME NoneKilled' PROVE UnderWay' /\ Texts'
    <2>1. NoneKilled
      BY <1>1, <1>7 DEF NoneKilled
    <2>2. UnderWay'
      BY <1>1, <1>3, <2>1, WorkerUnderWay
    <2>3. \A j \in ImportRun : Active(j)' <=> Active(j)
      BY <1>1 DEF Active
    <2>4. Active(i) /\ marker[s] = "running" /\ \A j \in ImportRun \ {i} : ~ Active(j)
      BY <1>1, <2>1, WorkingRuns
    \* While a record of the page is still to come the page is not settled.
    <2>5. ASSUME NEW p \in ArticlePage, NEW k \in 1..Len(ShardRecords[s]), k > end, PageAt(s, k) = p
          PROVE  Unsettled(s, p)'
      BY <1>1, <1>3, <2>3, <2>4, <2>5 DEF Unsettled, Moves, PageAt
    <2>6. ASSUME NEW p \in ArticlePage
          PROVE  \/ docs'[p] = NoText \/ docs'[p] \in LastTexts(p)
                 \/ \E x \in ShardsOf(p) : Unsettled(x, p)'
      <3>1. CASE \E k \in 1..Len(ShardRecords[s]) : k > end /\ PageAt(s, k) = p
        BY <2>5, <3>1, ShardsOfPage
      <3>2. ASSUME ~ \E k \in 1..Len(ShardRecords[s]) : k > end /\ PageAt(s, k) = p,
                   NEW k \in (pos + 1)..end, PageAt(s, k) = p, docs'[p] = ShardRecords[s][k].text,
                   \A j \in (pos + 1)..end : PageAt(s, j) = p => j <= k
            PROVE  docs'[p] \in LastTexts(p)
        <4>1. k \in 1..Len(ShardRecords[s])
          BY <1>2, ShardFacts
        <4>2. ASSUME NEW j \in 1..Len(ShardRecords[s]), PageAt(s, j) = p PROVE j <= k
          <5>1. j \in Nat /\ k \in Nat /\ k > pos /\ (j <= end => j < pos + 1 \/ j \in (pos + 1)..end)
            BY <1>2, ShardFacts
          <5>2. j <= end
            BY <1>2, <3>2, <4>2, <5>1
          <5> QED BY <1>2, <3>2, <4>2, <5>1, <5>2
        <4> QED BY <3>2, <4>1, <4>2, LastRecord
      <3>3. ASSUME ~ \E k \in 1..Len(ShardRecords[s]) : k > end /\ PageAt(s, k) = p,
                   docs'[p] = docs[p], \A k \in (pos + 1)..end : PageAt(s, k) # p,
                   NEW x \in ShardsOf(p), Unsettled(x, p)
            PROVE  Unsettled(x, p)'
        <4>1. x \in Shard
          BY <3>3, PageOfShard
        <4>2. CASE x = s
          <5>1. PICK k \in 1..Len(ShardRecords[s]) : k > pos /\ PageAt(s, k) = p
            BY <1>1, <2>4, <3>3, <4>2 DEF Unsettled
          <5>2. k > end
            BY <1>2, <3>3, <5>1, ShardFacts
          <5> QED BY <3>3, <5>1, <5>2
        <4>3. CASE x # s
          BY <1>1, <1>3, <2>3, <3>3, <4>1, <4>3 DEF Unsettled, Moves, PageAt
        <4> QED BY <4>2, <4>3
      <3> QED BY <1>2, <2>1, <3>1, <3>2, <3>3 DEF Wrote, Texts
    <2>7. Texts'
      BY <2>6 DEF Texts, LastTexts, LastText, ShardsOf, Records
    <2> QED BY <2>2, <2>7
  <1> QED BY <1>4, <1>5, <1>6, <1>7

LEMMA ImportedShardOK ==
    ASSUME ImportInv, NEW i \in ImportRun, NEW s \in Shard, ImportedShard(i, s) PROVE ImportInv'
  <1> USE DEF ImportInv
  <1>1. /\ shardTask[i][s].st = "working" /\ Batch(i, s) = <<>>
        /\ UNCHANGED <<marker, docs, importLock, importer, importFaults>>
    BY DEF ImportedShard
  <1>2. shardTask[i][s].pos = Len(ShardRecords[s]) /\ InCorpus(docs, s, Len(ShardRecords[s]))
    <2>1. shardTask[i][s].pos <= Len(ShardRecords[s]) /\ InCorpus(docs, s, shardTask[i][s].pos)
      BY <1>1 DEF Present
    <2>2. shardTask[i][s].pos = Len(ShardRecords[s])
      BY <1>1, <2>1, BatchFacts
    <2> QED BY <2>1, <2>2
  <1>3. Moves(i, s, "done", shardTask[i][s].pos)
    BY StatusMoves DEF ImportedShard
  <1>4. ImportTypeOK'
    BY <1>1, <1>3 DEF ImportTypeOK, Moves
  <1>5. Present'
    BY <1>1, <1>2, <1>3 DEF Present, Moves
  <1>6. Locked'
    BY <1>1, <1>3, WorkerLocked
  <1>7. ASSUME NoneKilled' PROVE UnderWay' /\ Texts'
    <2>1. NoneKilled
      BY <1>1, <1>7 DEF NoneKilled
    <2>2. UnderWay'
      BY <1>1, <1>3, <2>1, WorkerUnderWay
    <2>3. \A j \in ImportRun : Active(j)' <=> Active(j)
      BY <1>1 DEF Active
    <2>4. ASSUME NEW p \in ArticlePage, NEW x \in Shard, Unsettled(x, p) PROVE Unsettled(x, p)'
      <3>1. x # s
        <4>1. SUFFICES ASSUME Unsettled(s, p) PROVE FALSE
          BY <2>4
        <4>2. Active(i)
          BY <1>1, <2>1, WorkingRuns
        <4>3. PICK k \in 1..Len(ShardRecords[s]) : k > shardTask[i][s].pos
          BY <1>1, <4>1, <4>2 DEF Unsettled
        <4> QED BY <1>2, <4>3, ShardFacts
      <3> QED BY <1>1, <1>3, <2>3, <2>4, <3>1 DEF Unsettled, Moves, PageAt
    <2> QED BY <1>1, <2>1, <2>2, <2>4, KeepsTexts
  <1> QED BY <1>4, <1>5, <1>6, <1>7

LEMMA BatchFailsOK ==
    ASSUME ImportInv, NEW i \in ImportRun, NEW s \in Shard, BatchFails(i, s) PROVE ImportInv'
  <1> USE DEF ImportInv
  <1> DEFINE pos == shardTask[i][s].pos
             end == BatchEnd(i, s)
  <1>1. /\ shardTask[i][s].st = "working" /\ ImportFault
        /\ UNCHANGED <<marker, importLock, importer>>
    BY DEF BatchFails
  <1>2. /\ pos \in Nat /\ end \in Nat /\ pos <= end /\ end <= Len(ShardRecords[s])
        /\ UNCHANGED docs \/ Wrote(s, pos, end)
    <2>1. pos <= Len(ShardRecords[s])
      BY <1>1 DEF Present
    <2> QED BY <2>1, BatchFacts, BatchWrites DEF BatchFails
  <1>3. Moves(i, s, "failed", pos)
    BY StatusMoves DEF BatchFails
  <1> HIDE DEF end
  <1>4. ImportTypeOK'
    BY <1>1, <1>2, <1>3, FaultType DEF ImportTypeOK, Moves, Wrote
  <1>5. Present'
    <2>1. \A x \in Shard, k \in Nat :
              k <= Len(ShardRecords[x]) /\ InCorpus(docs, x, k) => InCorpus(docs', x, k)
      <3>1. CASE UNCHANGED docs
        BY <3>1 DEF InCorpus, PageAt
      <3>2. CASE Wrote(s, pos, end)
        BY <1>2, <3>2, CorpusGrows
      <3> QED BY <1>2, <3>1, <3>2
    <2>2. \A j \in ImportRun, x \in Shard : shardTask[j][x].pos \in Nat /\ Len(ShardRecords[x]) \in Nat
      BY ShardFacts DEF ImportTypeOK, Task
    <2>3. ASSUME NEW j \in ImportRun, NEW x \in Shard
          PROVE  /\ shardTask'[j][x].st = "working" =>
                        /\ shardTask'[j][x].pos <= Len(ShardRecords[x])
                        /\ InCorpus(docs', x, shardTask'[j][x].pos)
                 /\ shardTask'[j][x].st = "done" => InCorpus(docs', x, Len(ShardRecords[x]))
      <3>1. CASE j = i /\ x = s
        BY <1>3, <3>1 DEF Moves
      <3>2. CASE ~ (j = i /\ x = s)
        BY <1>3, <2>1, <2>2, <3>2 DEF Moves, Present
      <3> QED BY <3>1, <3>2
    <2>4. ASSUME NEW x \in Shard, marker'[x] = "completed" PROVE InCorpus(docs', x, Len(ShardRecords[x]))
      BY <1>1, <2>1, <2>2, <2>4, ShardFacts DEF Present
    <2> QED BY <2>3, <2>4 DEF Present
  <1>6. Locked'
    BY <1>1, <1>3, WorkerLocked
  <1>7. ASSUME NoneKilled' PROVE UnderWay' /\ Texts'
    <2>1. NoneKilled
      BY <1>1, <1>7 DEF NoneKilled
    <2>2. UnderWay'
      BY <1>1, <1>3, <2>1, WorkerUnderWay
    <2>3. \A j \in ImportRun : Active(j)' <=> Active(j)
      BY <1>1 DEF Active
    <2>4. Active(i) /\ marker[s] = "running" /\ \A j \in ImportRun \ {i} : ~ Active(j)
      BY <1>1, <2>1, WorkingRuns
    <2>5. \A p \in ArticlePage : Unsettled(s, p)'
      BY <1>1, <1>3, <2>3, <2>4 DEF Unsettled, Moves
    <2>6. ASSUME NEW p \in ArticlePage, NEW x \in Shard, Unsettled(x, p) PROVE Unsettled(x, p)'
      <3>1. CASE x # s
        BY <1>1, <1>3, <2>3, <2>6, <3>1 DEF Unsettled, Moves, PageAt
      <3> QED BY <2>5, <3>1
    <2>7. Texts'
      <3>1. CASE UNCHANGED docs
        BY <2>1, <2>6, <3>1, KeepsTexts
      <3>2. CASE Wrote(s, pos, end)
        <4>1. ASSUME NEW p \in ArticlePage
              PROVE  \/ docs'[p] = NoText \/ docs'[p] \in LastTexts(p)
                     \/ \E x \in ShardsOf(p) : Unsettled(x, p)'
          <5>1. CASE docs'[p] = docs[p]
            <6>1. ASSUME NEW x \in ShardsOf(p), Unsettled(x, p) PROVE Unsettled(x, p)'
              BY <2>6, <6>1, PageOfShard
            <6> QED BY <2>1, <5>1, <6>1 DEF Texts
          <5>2. CASE \E k \in (pos + 1)..end : PageAt(s, k) = p
            <6>1. PICK k \in (pos + 1)..end : PageAt(s, k) = p
              BY <5>2
            <6>2. k \in 1..Len(ShardRecords[s])
              BY <1>2, ShardFacts
            <6> QED BY <2>5, <6>1, <6>2, ShardsOfPage
          <5> QED BY <3>2, <5>1, <5>2 DEF Wrote
        <4> QED BY <4>1 DEF Texts, LastTexts, LastText, ShardsOf, Records
      <3> QED BY <1>2, <3>1, <3>2
    <2> QED BY <2>2, <2>7
  <1> QED BY <1>4, <1>5, <1>6, <1>7

LEMMA WorkerDiesOK ==
    ASSUME ImportInv, NEW i \in ImportRun, NEW s \in Shard, WorkerDies(i, s) PROVE ImportInv'
  <1> USE DEF ImportInv
  <1>1. /\ shardTask[i][s].st = "working" /\ ImportFault
        /\ UNCHANGED <<marker, docs, importLock, importer>>
    BY DEF WorkerDies
  <1>2. /\ shardTask' \in [ImportRun -> [Shard -> Task]]
        /\ \A x \in Shard :
               IF shardTask[i][x].st \in {"queued", "working"}
               THEN shardTask'[i][x].st = "broken"
               ELSE shardTask'[i][x] = shardTask[i][x]
        /\ \A j \in ImportRun \ {i}, x \in Shard : shardTask'[j][x] = shardTask[j][x]
    <2> DEFINE row == [x \in Shard |-> IF shardTask[i][x].st \in {"queued", "working"}
                                       THEN [shardTask[i][x] EXCEPT !.st = "broken"]
                                       ELSE shardTask[i][x]]
    <2>1. shardTask' = [shardTask EXCEPT ![i] = row]
      BY DEF WorkerDies, ImportTypeOK
    <2>2. \A x \in Shard : row[x] \in Task
      <3>1. \A x \in Shard : shardTask[i][x] \in Task
        BY DEF ImportTypeOK
      <3> QED BY <3>1 DEF Task
    <2>3. row \in [Shard -> Task]
      BY <2>2
    <2>4. \A x \in Shard :
              IF shardTask[i][x].st \in {"queued", "working"}
              THEN row[x].st = "broken" ELSE row[x] = shardTask[i][x]
      BY DEF ImportTypeOK, Task
    <2> HIDE DEF row
    <2> QED BY <2>1, <2>3, <2>4 DEF ImportTypeOK
  <1>3. \A j \in ImportRun : Active(j)' <=> Active(j)
    BY <1>1 DEF Active
  <1>4. ImportTypeOK'
    BY <1>1, <1>2, FaultType DEF ImportTypeOK
  <1>5. Present'
    BY <1>1, <1>2 DEF Present
  <1>6. Locked'
    <2>1. importer[i].at # "new"
      BY <1>1 DEF Locked
    <2>2. \A x \in Shard : shardTask'[i][x].st \notin {"queued", "working"}
      BY <1>2
    <2>3. \A j \in ImportRun \ {i} : Futures(j, {"broken"})' = Futures(j, {"broken"})
      BY <1>2 DEF Futures
    <2> QED BY <1>1, <1>2, <1>3, <2>1, <2>2, <2>3 DEF Locked
  <1>7. ASSUME NoneKilled' PROVE UnderWay' /\ Texts'
    <2>1. NoneKilled
      BY <1>1, <1>7 DEF NoneKilled
    <2>2. UnderWay'
      BY <1>1, <1>2, <1>3, <2>1 DEF UnderWay
    <2>3. ASSUME NEW p \in ArticlePage, NEW x \in Shard, Unsettled(x, p) PROVE Unsettled(x, p)'
      BY <1>1, <1>2, <1>3, <2>3 DEF Unsettled, PageAt
    <2> QED BY <1>1, <2>1, <2>2, <2>3, KeepsTexts
  <1> QED BY <1>4, <1>5, <1>6, <1>7

-----------------------------------------------------------------------------

\* The invariant of the import, by hand: ImportInv is inductive.  A finished
\* worker has committed its whole shard, and while no run was killed the page
\* of a shard that is not completed may have any of its texts, of one that is
\* completed only a last one.
THEOREM ImportInvariant == ImportSpec => []ImportInv
  <1>1. ASSUME ImportInv, UNCHANGED importVars PROVE ImportInv'
    <2>1. UNCHANGED <<marker, docs, importLock, importer, shardTask, importFaults>>
      BY <1>1 DEF importVars
    <2>2. ImportTypeOK' /\ Present' /\ Locked'
      BY <1>1, <2>1 DEF ImportInv, ImportTypeOK, Present, Locked, Active, Futures
    <2>3. \A i \in ImportRun : Active(i)' <=> Active(i)
      BY <2>1 DEF Active
    <2>4. NoneKilled' => NoneKilled
      BY <2>1 DEF NoneKilled
    <2>5. UnderWay => UnderWay'
      BY <2>1, <2>3 DEF UnderWay
    <2>6. Texts => Texts'
      BY <2>1, <2>3, KeepsTexts DEF Unsettled
    <2> QED BY <1>1, <2>2, <2>4, <2>5, <2>6 DEF ImportInv
  <1>2. ImportInv /\ [ImportNext]_importVars => ImportInv'
    BY <1>1, StartsImportOK, ClaimsShardOK, AllClaimedOK, CollectsOK, AllCollectedOK,
       InterruptedOK, KilledImportOK, TakesShardOK, CommitsBatchOK, ImportedShardOK,
       BatchFailsOK, WorkerDiesOK DEF ImportNext
  <1> QED BY <1>2, InitOK, PTL DEF ImportSpec

LEMMA InvCompleted == ImportInv => CompletedIsImported
  <1> SUFFICES ASSUME ImportInv, NEW s \in Shard, marker[s] = "completed", NEW r \in Records(s)
               PROVE  /\ docs[r.page] # NoText
                      /\ ( /\ \A x \in ShardsOf(r.page) : marker[x] = "completed"
                           /\ \A i \in ImportRun : importer[i].at # "killed" )
                         => docs[r.page] \in {LastText(x, r.page) : x \in ShardsOf(r.page)}
    BY DEF CompletedIsImported
  <1>1. PICK k \in 1..Len(ShardRecords[s]) : ShardRecords[s][k] = r
    BY ShardFacts DEF Records
  <1>2. r.page = PageAt(s, k) /\ r.page \in ArticlePage
    BY <1>1, ShardFacts DEF PageAt
  <1>3. docs[r.page] # NoText
    BY <1>1, <1>2 DEF ImportInv, Present, InCorpus
  <1>4. ASSUME NoneKilled, \A x \in ShardsOf(r.page) : marker[x] = "completed"
        PROVE  docs[r.page] \in LastTexts(r.page)
    BY <1>2, <1>3, <1>4 DEF ImportInv, Texts, Unsettled
  <1> QED BY <1>3, <1>4 DEF NoneKilled, LastTexts

\* A completed marker is never ahead of the corpus: every record of the shard
\* is in it, and while no run was killed a page whose shards are all completed
\* has the last text of one of them.
THEOREM CompletedIsAlwaysImported == ImportSpec => []CompletedIsImported
  BY ImportInvariant, InvCompleted, PTL

-----------------------------------------------------------------------------
(* PageSubmission *)

PageList == [CorpusPage -> {0, 1}]
SubmissionRecord ==
    [at : {"new", "marks", "refs", "insert", "mark", "done", "refused", "failed"},
     kind : {"none", "pageviews", "science"}, pages : PageList,
     marked : SUBSET CorpusPage, refs : SUBSET CorpusPage]

SubmissionTypeOK ==
    /\ markedPages \subseteq CorpusPage /\ raced \subseteq CorpusPage
    /\ pageUnits \in [CorpusPage -> Nat]
    /\ submission \in [SubmissionRun -> SubmissionRecord]

\* What a run is about to insert.
ToInsert(i) == IF submission[i].kind = "science" THEN submission[i].pages ELSE UnitsToInsert(i)

\* What a run has read is still so; what it is about to insert has no unit,
\* unless another run has inserted it since; what it is about to mark has one.
RunInv(i) ==
    LET run == submission[i] IN
    /\ run.marked \cup run.refs \subseteq Ref
    /\ run.at = "insert" => \A p \in CorpusPage \ raced : ToInsert(i)[p] = 1 => pageUnits[p] = 0
    /\ run.at = "mark" => PagesToMark(i) \subseteq Ref
    /\ run.at \in {"marks", "mark"} => run.kind = "pageviews"

SubmissionInv ==
    /\ SubmissionTypeOK
    /\ markedPages \subseteq Ref
    /\ \A p \in CorpusPage \ raced : pageUnits[p] <= 1
    /\ \A i \in SubmissionRun : RunInv(i)

LEMMA IdleRun == Idle \in SubmissionRecord /\ Idle.at = "new" /\ Idle.marked = {} /\ Idle.refs = {}
    BY DEF Idle, SubmissionRecord, PageList

LEMMA ToInsertIsList ==
    ASSUME SubmissionTypeOK, NEW i \in SubmissionRun
    PROVE  /\ ToInsert(i) \in PageList /\ UnitsToInsert(i) \in PageList
           /\ \A p \in CorpusPage : UnitsToInsert(i)[p] =
                  IF p \in submission[i].marked \cup submission[i].refs THEN 0 ELSE submission[i].pages[p]
  <1>1. submission[i].pages \in PageList
    BY DEF SubmissionTypeOK, SubmissionRecord
  <1> QED BY <1>1 DEF ToInsert, UnitsToInsert, PageList

\* One run goes on; nothing else changes.
LEMMA OneRun ==
    ASSUME SubmissionInv, NEW i \in SubmissionRun, NEW run \in SubmissionRecord,
           submission' = [submission EXCEPT ![i] = run],
           UNCHANGED <<markedPages, pageUnits, raced>>,
           RunInv(i)'
    PROVE  SubmissionInv'
  <1>1. submission' \in [SubmissionRun -> SubmissionRecord] /\ \A j \in SubmissionRun \ {i} : submission'[j] = submission[j]
    BY DEF SubmissionInv, SubmissionTypeOK
  <1>2. Ref' = Ref
    BY DEF Ref
  <1>3. \A j \in SubmissionRun \ {i} : RunInv(j)'
    BY <1>1, <1>2 DEF SubmissionInv, RunInv, ToInsert, UnitsToInsert, PagesToMark
  <1> QED BY <1>1, <1>2, <1>3 DEF SubmissionInv, SubmissionTypeOK

\* A run that has stopped says nothing of units.
LEMMA StoppedRun ==
    ASSUME NEW i \in SubmissionRun, NEW at \in {"done", "refused", "failed"},
           submission' = [submission EXCEPT ![i] = [Idle EXCEPT !.at = at]],
           submission \in [SubmissionRun -> SubmissionRecord]
    PROVE  /\ submission' \in [SubmissionRun -> SubmissionRecord] /\ RunInv(i)'
           /\ [Idle EXCEPT !.at = at] \in SubmissionRecord
           /\ \A j \in SubmissionRun \ {i} : submission'[j] = submission[j]
  <1>1. [Idle EXCEPT !.at = at] \in SubmissionRecord
    BY IdleRun DEF SubmissionRecord
  <1>2. submission'[i].at = at /\ submission'[i].marked = {} /\ submission'[i].refs = {}
    BY DEF Idle
  <1> QED BY <1>1, <1>2 DEF RunInv

\* Units are created for what one run was about to insert.
LEMMA UnitsCreated ==
    ASSUME SubmissionInv, NEW i \in SubmissionRun, submission[i].at = "insert", CreateUnits(i, ToInsert(i)),
           UNCHANGED markedPages, submission' \in [SubmissionRun -> SubmissionRecord],
           \A j \in SubmissionRun \ {i} : submission'[j] = submission[j],
           RunInv(i)'
    PROVE  SubmissionInv'
  <1> DEFINE pages == ToInsert(i)
  <1>1. pages \in PageList /\ pageUnits \in [CorpusPage -> Nat]
    BY ToInsertIsList DEF SubmissionInv, SubmissionTypeOK
  <1>2. \A p \in CorpusPage : pageUnits'[p] = pageUnits[p] + pages[p] /\ pages[p] \in {0, 1} /\ pageUnits[p] \in Nat
    BY <1>1 DEF CreateUnits, PageList
  <1>3. pageUnits' \in [CorpusPage -> Nat] /\ Ref \subseteq Ref'
    <2>1. pageUnits' \in [CorpusPage -> Nat]
      BY <1>1, <1>2 DEF CreateUnits
    <2> QED BY <1>2, <2>1 DEF Ref
  <1>4. raced \subseteq raced' /\ raced' \subseteq CorpusPage
    BY DEF CreateUnits, Listed, SubmissionInv, SubmissionTypeOK
  <1>5. \A p \in CorpusPage \ raced' : pageUnits'[p] <= 1
    <2> SUFFICES ASSUME NEW p \in CorpusPage \ raced' PROVE pageUnits'[p] <= 1
      OBVIOUS
    <2>1. pageUnits[p] <= 1 /\ (pages[p] = 1 => pageUnits[p] = 0)
      BY <1>4 DEF SubmissionInv, RunInv
    <2> QED BY <1>2, <2>1
  <1>6. ASSUME NEW j \in SubmissionRun \ {i} PROVE RunInv(j)'
    <2>1. RunInv(j) /\ submission'[j] = submission[j]
      BY DEF SubmissionInv
    <2>2. ToInsert(j)' = ToInsert(j) /\ PagesToMark(j)' = PagesToMark(j)
      BY <2>1 DEF ToInsert, UnitsToInsert, PagesToMark
    <2>3. ASSUME submission[j].at = "insert", NEW p \in CorpusPage \ raced', ToInsert(j)[p] = 1
          PROVE  pageUnits'[p] = 0
      <3>1. raced' = raced \cup Listed(pages)
        BY <2>3 DEF CreateUnits
      <3>2. pages[p] = 0
        BY <1>2, <3>1 DEF Listed
      <3>3. pageUnits[p] = 0
        BY <1>4, <2>1, <2>3 DEF RunInv
      <3> QED BY <1>2, <3>2, <3>3
    <2> QED BY <1>3, <2>1, <2>2, <2>3 DEF RunInv
  <1> QED BY <1>3, <1>4, <1>5, <1>6 DEF SubmissionInv, SubmissionTypeOK

\* Pages that have units are marked.
LEMMA PagesMarked ==
    ASSUME SubmissionInv, NEW i \in SubmissionRun, submission[i].at = "mark",
           markedPages' = markedPages \cup PagesToMark(i), UNCHANGED <<pageUnits, raced>>,
           submission' \in [SubmissionRun -> SubmissionRecord],
           \A j \in SubmissionRun \ {i} : submission'[j] = submission[j],
           RunInv(i)'
    PROVE  SubmissionInv'
  <1>1. Ref' = Ref /\ PagesToMark(i) \subseteq Ref
    BY DEF Ref, SubmissionInv, RunInv
  <1>2. \A j \in SubmissionRun \ {i} : RunInv(j)'
    BY <1>1 DEF SubmissionInv, RunInv, ToInsert, UnitsToInsert, PagesToMark
  <1>3. Ref \subseteq CorpusPage
    BY DEF Ref
  <1> QED BY <1>1, <1>2, <1>3 DEF SubmissionInv, SubmissionTypeOK

\* The references a run has read are still there, and its pages are new.
THEOREM SubmissionInvariant == SubmissionSpec => []SubmissionInv
  <1>1. SubmissionInit => SubmissionInv
    <2> SUFFICES ASSUME SubmissionInit PROVE SubmissionInv
      OBVIOUS
    <2>1. SubmissionTypeOK
      BY IdleRun DEF SubmissionInit, SubmissionTypeOK
    <2>2. \A i \in SubmissionRun : RunInv(i)
      BY IdleRun DEF SubmissionInit, RunInv
    <2> QED BY <2>1, <2>2 DEF SubmissionInit, SubmissionInv
  <1>2. SubmissionInv /\ [SubmissionNext]_submissionVars => SubmissionInv'
    <2> SUFFICES ASSUME SubmissionInv, [SubmissionNext]_submissionVars PROVE SubmissionInv'
      OBVIOUS
    <2>a. submission \in [SubmissionRun -> SubmissionRecord] /\ markedPages \subseteq CorpusPage /\ Ref \subseteq CorpusPage
      BY DEF SubmissionInv, SubmissionTypeOK, Ref
    <2>1. ASSUME NEW i \in SubmissionRun, LoadCandidates(i) PROVE SubmissionInv'
      <3>1. PICK f \in CandidateFiles :
                submission' = [submission EXCEPT ![i] = [Idle EXCEPT !.at = "marks", !.kind = "pageviews",
                    !.pages = [p \in CorpusPage |-> IF p \in f THEN 1 ELSE 0]]]
        BY <2>1 DEF LoadCandidates
      <3> DEFINE list == [p \in CorpusPage |-> IF p \in f THEN 1 ELSE 0]
                 run == [Idle EXCEPT !.at = "marks", !.kind = "pageviews", !.pages = list]
      <3>2. list \in PageList
        BY DEF PageList
      <3> HIDE DEF list
      <3>3. /\ run \in SubmissionRecord /\ run.at = "marks" /\ run.kind = "pageviews"
            /\ run.marked = {} /\ run.refs = {}
        BY <3>2 DEF Idle, SubmissionRecord
      <3>4. submission' = [submission EXCEPT ![i] = run]
        BY <3>1 DEF list
      <3>5. submission'[i] = run
        BY <2>a, <3>4
      <3>6. RunInv(i)'
        BY <3>3, <3>5 DEF RunInv
      <3> QED BY <2>1, <3>3, <3>4, <3>6, OneRun DEF LoadCandidates
    <2>2. ASSUME NEW i \in SubmissionRun, LoadProcessed(i) PROVE SubmissionInv'
      <3> DEFINE run == [submission[i] EXCEPT !.at = "refs", !.marked = markedPages]
      <3>1. submission[i] \in SubmissionRecord /\ RunInv(i) /\ submission[i].at = "marks"
        BY <2>2, <2>a DEF SubmissionInv, LoadProcessed
      <3>2. /\ run \in SubmissionRecord /\ run.at = "refs"
            /\ run.marked = markedPages /\ run.refs = submission[i].refs
        BY <2>a, <3>1 DEF SubmissionRecord
      <3>3. submission' = [submission EXCEPT ![i] = run]
        BY <2>2, <2>a DEF LoadProcessed
      <3>4. submission'[i] = run
        BY <2>a, <3>3
      <3>5. RunInv(i)'
        BY <2>2, <3>1, <3>2, <3>4 DEF RunInv, LoadProcessed, Ref, SubmissionInv
      <3> QED BY <2>2, <3>2, <3>3, <3>5, OneRun DEF LoadProcessed
    <2>3. ASSUME NEW i \in SubmissionRun, LoadExistingRefs(i) PROVE SubmissionInv'
      <3> DEFINE run == [submission[i] EXCEPT !.at = "insert", !.refs = Ref]
      <3>1. submission[i] \in SubmissionRecord /\ RunInv(i) /\ submission[i].kind = "pageviews"
        BY <2>3, <2>a DEF SubmissionInv, LoadExistingRefs
      <3>2. /\ run \in SubmissionRecord /\ run.at = "insert" /\ run.kind = "pageviews"
            /\ run.marked = submission[i].marked /\ run.refs = Ref /\ run.pages = submission[i].pages
        BY <2>a, <3>1 DEF SubmissionRecord
      <3>3. submission' = [submission EXCEPT ![i] = run]
        BY <2>3, <2>a DEF LoadExistingRefs
      <3>4. submission'[i] = run /\ pageUnits' = pageUnits
        BY <2>3, <2>a, <3>3 DEF LoadExistingRefs
      <3>5. Ref' = Ref
        BY <3>4 DEF Ref
      <3>6. ASSUME NEW p \in CorpusPage, ToInsert(i)'[p] = 1 PROVE pageUnits'[p] = 0
        <4>1. p \notin Ref
          BY <3>2, <3>4, <3>6 DEF ToInsert, UnitsToInsert
        <4> QED BY <3>4, <4>1 DEF Ref, SubmissionInv, SubmissionTypeOK
      <3>7. RunInv(i)'
        BY <3>1, <3>2, <3>4, <3>5, <3>6 DEF RunInv
      <3> QED BY <2>3, <3>2, <3>3, <3>7, OneRun DEF LoadExistingRefs
    <2>4. ASSUME NEW i \in SubmissionRun, InsertRun(i) PROVE SubmissionInv'
      <3> DEFINE run == [submission[i] EXCEPT !.at = "mark"]
      <3>1. /\ submission[i] \in SubmissionRecord /\ RunInv(i) /\ submission[i].kind = "pageviews"
            /\ submission[i].at = "insert"
        BY <2>4, <2>a DEF SubmissionInv, InsertRun
      <3>2. CreateUnits(i, ToInsert(i)) /\ UNCHANGED markedPages
        BY <2>4, <3>1 DEF InsertRun, ToInsert
      <3>3. /\ run \in SubmissionRecord /\ run.at = "mark" /\ run.kind = "pageviews"
            /\ run.marked = submission[i].marked /\ run.refs = submission[i].refs /\ run.pages = submission[i].pages
        BY <3>1 DEF SubmissionRecord
      <3>4. submission' = [submission EXCEPT ![i] = run]
        BY <2>4, <2>a DEF InsertRun, Goes
      <3>5. /\ submission'[i] = run /\ submission' \in [SubmissionRun -> SubmissionRecord]
            /\ \A j \in SubmissionRun \ {i} : submission'[j] = submission[j]
        BY <2>a, <3>3, <3>4
      <3>6. \A p \in CorpusPage : pageUnits'[p] = pageUnits[p] + UnitsToInsert(i)[p] /\ pageUnits[p] \in Nat
                                  /\ UnitsToInsert(i)[p] \in {0, 1}
        BY <2>4, ToInsertIsList DEF InsertRun, CreateUnits, PageList, SubmissionInv, SubmissionTypeOK
      <3>7. Ref \subseteq Ref'
        BY <3>6 DEF Ref
      <3>8. ASSUME NEW p \in Listed(run.pages) \ run.marked PROVE p \in Ref'
        <4>1. p \in CorpusPage /\ submission[i].pages[p] > 0 /\ p \notin submission[i].marked
          BY <3>3 DEF Listed
        <4>2. CASE p \in submission[i].refs
          BY <3>1, <3>7, <4>2 DEF RunInv
        <4>3. CASE p \notin submission[i].refs
          <5>1. UnitsToInsert(i)[p] = submission[i].pages[p]
            BY <4>1, <4>3, ToInsertIsList DEF SubmissionInv
          <5> QED BY <3>6, <4>1, <5>1 DEF Ref
        <4> QED BY <4>2, <4>3
      <3>9. PagesToMark(i)' \subseteq Ref'
        BY <3>5, <3>8 DEF PagesToMark
      <3>10. RunInv(i)'
        BY <3>1, <3>3, <3>5, <3>7, <3>9 DEF RunInv
      <3> QED BY <3>1, <3>2, <3>5, <3>10, UnitsCreated
    <2>5. ASSUME NEW i \in SubmissionRun, MarkProcessed(i) PROVE SubmissionInv'
      BY <2>5, <2>a, StoppedRun, PagesMarked DEF MarkProcessed
    <2>6. ASSUME NEW i \in SubmissionRun, SelectSciencePages(i) PROVE SubmissionInv'
      <3> DEFINE times(p) == Cardinality({b \in DOMAIN QueryResults : p \in SearchDocuments(b)})
                 list == [p \in CorpusPage |-> IF times(p) > 0 THEN 1 ELSE 0]
                 run == [Idle EXCEPT !.at = "refs", !.kind = "science", !.pages = list]
      <3>1. submission' = [submission EXCEPT ![i] = run]
        BY <2>6 DEF SelectSciencePages
      <3>2. list \in PageList
        BY DEF PageList
      <3> HIDE DEF list
      <3>3. run \in SubmissionRecord /\ run.at = "refs" /\ run.marked = {} /\ run.refs = {}
        BY <3>2 DEF Idle, SubmissionRecord
      <3>4. submission'[i] = run
        BY <2>a, <3>1
      <3>5. RunInv(i)'
        BY <3>3, <3>4 DEF RunInv
      <3> QED BY <2>6, <3>1, <3>3, <3>5, OneRun DEF SelectSciencePages
    <2>7. ASSUME NEW i \in SubmissionRun, FetchExistingRefs(i) PROVE SubmissionInv'
      <3>1. CASE submission' = [submission EXCEPT ![i] = [Idle EXCEPT !.at = "refused"]]
        BY <2>7, <2>a, <3>1, StoppedRun, OneRun DEF FetchExistingRefs
      <3>2. CASE Goes(i, "insert") /\ Listed(submission[i].pages) \cap Ref = {}
        <4> DEFINE run == [submission[i] EXCEPT !.at = "insert"]
        <4>1. submission[i] \in SubmissionRecord /\ RunInv(i) /\ submission[i].kind = "science"
          BY <2>7, <2>a DEF SubmissionInv, FetchExistingRefs
        <4>2. /\ run \in SubmissionRecord /\ run.at = "insert" /\ run.kind = "science"
              /\ run.marked = submission[i].marked /\ run.refs = submission[i].refs /\ run.pages = submission[i].pages
          BY <4>1 DEF SubmissionRecord
        <4>3. submission' = [submission EXCEPT ![i] = run]
          BY <2>a, <3>2 DEF Goes
        <4>4. submission'[i] = run /\ UNCHANGED <<markedPages, pageUnits, raced>>
          BY <2>7, <2>a, <4>3 DEF FetchExistingRefs
        <4>5. Ref' = Ref
          BY <4>4 DEF Ref
        <4>6. ASSUME NEW p \in CorpusPage, ToInsert(i)'[p] = 1 PROVE pageUnits'[p] = 0
          <5>1. submission[i].pages[p] = 1
            BY <4>2, <4>4, <4>6 DEF ToInsert
          <5>2. p \notin Ref
            BY <3>2, <5>1 DEF Listed
          <5> QED BY <4>4, <5>2 DEF Ref, SubmissionInv, SubmissionTypeOK
        <4>7. RunInv(i)'
          BY <4>1, <4>2, <4>4, <4>5, <4>6 DEF RunInv
        <4> QED BY <4>2, <4>3, <4>4, <4>7, OneRun
      <3> QED BY <2>7, <3>1, <3>2 DEF FetchExistingRefs
    <2>8. ASSUME NEW i \in SubmissionRun, CreateRun(i) PROVE SubmissionInv'
      <3>1. submission[i].at = "insert" /\ CreateUnits(i, ToInsert(i)) /\ UNCHANGED markedPages
        BY <2>8 DEF CreateRun, ToInsert
      <3> QED BY <2>8, <2>a, <3>1, StoppedRun, UnitsCreated DEF CreateRun
    <2>9. ASSUME NEW i \in SubmissionRun, Stops(i) PROVE SubmissionInv'
      <3>1. /\ submission' \in [SubmissionRun -> SubmissionRecord] /\ RunInv(i)'
            /\ [Idle EXCEPT !.at = "failed"] \in SubmissionRecord
            /\ \A j \in SubmissionRun \ {i} : submission'[j] = submission[j]
        BY <2>9, <2>a, StoppedRun DEF Stops
      <3>2. CASE UNCHANGED <<markedPages, pageUnits, raced>>
        BY <2>9, <3>1, <3>2, OneRun DEF Stops
      <3>3. CASE submission[i].at = "insert" /\ CreateUnits(i, ToInsert(i)) /\ UNCHANGED markedPages
        BY <3>1, <3>3, UnitsCreated
      <3>4. CASE /\ submission[i].at = "mark" /\ markedPages' = markedPages \cup PagesToMark(i)
                 /\ UNCHANGED <<pageUnits, raced>>
        BY <3>1, <3>4, PagesMarked
      <3> QED BY <2>9, <3>2, <3>3, <3>4 DEF Stops, ToInsert
    <2>10. CASE UNCHANGED submissionVars
      <3>1. \A i \in SubmissionRun : RunInv(i) => RunInv(i)'
        BY <2>10 DEF submissionVars, RunInv, ToInsert, UnitsToInsert, PagesToMark, Ref
      <3> QED BY <2>10, <3>1 DEF submissionVars, SubmissionInv, SubmissionTypeOK, Ref
    <2> QED
      BY <2>1, <2>2, <2>3, <2>4, <2>5, <2>6, <2>7, <2>8, <2>9, <2>10 DEF SubmissionNext
  <1> QED BY <1>1, <1>2, PTL DEF SubmissionSpec

\* Wherever scripts stop and however many are run at once: a marked page is
\* in the pipeline, and only a page that two runs raced for is there twice.
THEOREM PagesAlwaysEnterOnce == SubmissionSpec => []PagesEnterOnce
  <1>1. SubmissionInv => PagesEnterOnce
    BY DEF SubmissionInv, PagesEnterOnce, Ref
  <1> QED BY <1>1, SubmissionInvariant, PTL

-----------------------------------------------------------------------------
(* PageviewSelection *)

Fetched == DOMAIN top \in SUBSET Month /\ top \in [DOMAIN top -> TopLists]

SelectionInv ==
    /\ top = <<>> \/ Fetched
    /\ candidateRows # NotSelected => top # <<>> /\ candidateRows = CandidateRows

\* The views of title t in month m, and of month m and title t.
In(m, t) == top[m][Least(Ranks(m, t))].views
ViewsIn(t) == [m \in MonthsOf(t) |-> In(m, t)]

LEMMA FetchedFacts ==
    ASSUME Fetched
    PROVE  /\ IsFiniteSet(DOMAIN top) /\ Cardinality(DOMAIN top) \in Nat
           /\ \A m \in DOMAIN top : \A t \in ArticleTitle : Ranks(m, t) \in SUBSET (Nat \ {0})
           /\ \A m \in DOMAIN top : \A t \in ArticleTitle : Ranks(m, t) # {} => In(m, t) \in Nat
  <1>1. IsFiniteSet(DOMAIN top) /\ Cardinality(DOMAIN top) \in Nat
    BY SelectionConstants, FS_Subset, FS_CardinalityType DEF Fetched
  <1>2. ASSUME NEW m \in DOMAIN top
        PROVE  \E n \in 0..MaxTop : top[m] \in [1..n -> [title : ArticleTitle, views : MonthViews]]
    BY DEF Fetched, TopLists
  <1>3. ASSUME NEW m \in DOMAIN top, NEW t \in ArticleTitle
        PROVE  Ranks(m, t) \in SUBSET (Nat \ {0}) /\ (Ranks(m, t) # {} => In(m, t) \in Nat)
    <2>1. PICK n \in 0..MaxTop : top[m] \in [1..n -> [title : ArticleTitle, views : MonthViews]]
      BY <1>2
    <2>2. Ranks(m, t) \in SUBSET (1..n) /\ n \in Nat
      BY <2>1, SelectionConstants DEF Ranks
    <2>3. Ranks(m, t) \in SUBSET (Nat \ {0})
      BY <2>2
    <2>4. ASSUME Ranks(m, t) # {} PROVE In(m, t) \in Nat
      <3>1. Least(Ranks(m, t)) \in Ranks(m, t)
        BY <2>3, <2>4, LeastIs
      <3>2. top[m][Least(Ranks(m, t))] \in [title : ArticleTitle, views : MonthViews]
        BY <2>1, <2>2, <3>1
      <3> QED BY <3>2, SelectionConstants DEF In
    <2> QED BY <2>3, <2>4
  <1> QED BY <1>1, <1>3

LEMMA TitleFacts ==
    ASSUME Fetched, NEW t \in ArticleTitle
    PROVE  /\ MonthsOf(t) \subseteq DOMAIN top /\ IsFiniteSet(MonthsOf(t))
           /\ Cardinality(MonthsOf(t)) \in 0..Cardinality(DOMAIN top)
           /\ Cardinality(MonthsOf(t)) = 0 <=> MonthsOf(t) = {}
           /\ ViewsIn(t) \in [MonthsOf(t) -> Nat]
           /\ MonthsOf(t) # {} => Least(UNION {Ranks(m, t) : m \in MonthsOf(t)}) \in Nat
  <1>1. MonthsOf(t) \subseteq DOMAIN top /\ \A m \in MonthsOf(t) : m \in DOMAIN top /\ Ranks(m, t) # {}
    BY DEF MonthsOf
  <1>2. IsFiniteSet(MonthsOf(t)) /\ Cardinality(MonthsOf(t)) <= Cardinality(DOMAIN top)
    BY <1>1, FetchedFacts, FS_Subset
  <1>3. Cardinality(MonthsOf(t)) \in Nat /\ (Cardinality(MonthsOf(t)) = 0 <=> MonthsOf(t) = {})
    BY <1>2, FS_CardinalityType, FS_EmptySet
  <1>4. ViewsIn(t) \in [MonthsOf(t) -> Nat]
    BY <1>1, FetchedFacts DEF ViewsIn
  <1>5. ASSUME MonthsOf(t) # {} PROVE Least(UNION {Ranks(m, t) : m \in MonthsOf(t)}) \in Nat
    <2> DEFINE T == UNION {Ranks(m, t) : m \in MonthsOf(t)}
    <2>1. T \in SUBSET Nat /\ T # {}
      BY <1>1, <1>5, FetchedFacts
    <2> HIDE DEF T
    <2>2. Least(T) \in Nat
      BY <2>1, LeastIs
    <2> QED BY <2>2 DEF T
  <1> QED BY <1>1, <1>2, <1>3, <1>4, <1>5, FetchedFacts

LEMMA Nats == ASSUME NEW m \in Nat, NEW n \in Nat, NEW k \in Nat PROVE m + n * k \in Nat
  OBVIOUS

LEMMA AggregateFacts ==
    ASSUME Fetched, NEW t \in ArticleTitle, MonthsOf(t) # {}
    PROVE  /\ Aggregated(t).title = t
           /\ Aggregated(t).views = Total(ViewsIn(t)) /\ Aggregated(t).views \in Nat
           /\ Aggregated(t).months = Cardinality(MonthsOf(t))
           /\ Aggregated(t).best \in Nat
  <1> DEFINE views == [m \in MonthsOf(t) |-> top[m][Least(Ranks(m, t))].views]
  <1>1. views = ViewsIn(t)
    BY DEF ViewsIn, In
  <1>2. Aggregated(t) = Page(t, Total(views), Cardinality(MonthsOf(t)),
                             Least(UNION {Ranks(m, t) : m \in MonthsOf(t)}))
    BY DEF Aggregated
  <1> HIDE DEF views
  <1>3. Total(ViewsIn(t)) \in Nat
    BY TitleFacts, UnitsFacts
  <1> QED BY <1>1, <1>2, <1>3, TitleFacts DEF Page

Group(c) == {a \in Aggregates : RedirectTo[a.title] = c}
SeenTitles(c) == {t \in ArticleTitle : RedirectTo[t] = c /\ MonthsOf(t) # {}}

LEMMA GroupFacts ==
    ASSUME Fetched, NEW c
    PROVE  /\ \A t \in SeenTitles(c) : Aggregated(t) \in Group(c)
           /\ \A a \in Group(c) : a.title \in SeenTitles(c) /\ a = Aggregated(a.title)
           /\ IsFiniteSet(Group(c))
  <1>1. \A t \in SeenTitles(c) : Aggregated(t) \in Group(c)
    BY AggregateFacts DEF SeenTitles, Group, Aggregates
  <1>2. \A a \in Group(c) : a.title \in SeenTitles(c) /\ a = Aggregated(a.title)
    BY AggregateFacts DEF SeenTitles, Group, Aggregates
  <1>3. IsFiniteSet(SeenTitles(c))
    BY SelectionConstants, FS_Subset DEF SeenTitles
  <1>4. [t \in SeenTitles(c) |-> Aggregated(t)] \in Surjection(SeenTitles(c), Group(c))
    BY <1>1, <1>2 DEF Surjection
  <1>5. IsFiniteSet(Group(c))
    BY <1>3, <1>4, FS_Surjection
  <1> QED BY <1>1, <1>2, <1>5

Seen(c) == {s \in (DOMAIN top) \X ArticleTitle : RedirectTo[s[2]] = c /\ Ranks(s[1], s[2]) # {}}
SeenViews(c) == [s \in Seen(c) |-> In(s[1], s[2])]

\* The titles of a page have together the views of the page.
LEMMA GroupTotal ==
    ASSUME Fetched, NEW c
    PROVE  Total([a \in Group(c) |-> a.views]) = ViewsOf(c) /\ ViewsOf(c) \in Nat
  <1> DEFINE f == SeenViews(c)
             g == [a \in Group(c) |-> a.views]
             h == [s \in Seen(c) |-> Aggregated(s[2])]
  <1>1. /\ IsFiniteSet(Seen(c))
        /\ \A s \in Seen(c) : /\ s = <<s[1], s[2]>> /\ s[1] \in DOMAIN top /\ s[2] \in SeenTitles(c)
                              /\ s[1] \in MonthsOf(s[2])
        /\ \A t \in SeenTitles(c) : \A m \in MonthsOf(t) : <<m, t>> \in Seen(c)
    <2>1. IsFiniteSet((DOMAIN top) \X ArticleTitle)
      BY FetchedFacts, SelectionConstants, FS_Product
    <2>2. IsFiniteSet(Seen(c))
      BY <2>1, FS_Subset DEF Seen
    <2> QED BY <2>2 DEF Seen, SeenTitles, MonthsOf
  <1>2. f \in [Seen(c) -> Nat]
    BY FetchedFacts DEF Seen, SeenViews
  <1>3. g \in [Group(c) -> Nat]
    BY GroupFacts, AggregateFacts DEF SeenTitles
  <1>4. h \in [Seen(c) -> Group(c)]
    BY <1>1, GroupFacts
  <1>5. ASSUME NEW a \in Group(c) PROVE g[a] = Cardinality({e \in Units(f) : h[e[1]] = a})
    <2> DEFINE t == a.title
               v == ViewsIn(t)
               Part == {e \in Units(f) : h[e[1]] = a}
               put == [u \in Units(v) |-> <<<<u[1], t>>, u[2]>>]
    <2>1. t \in ArticleTitle /\ t \in SeenTitles(c) /\ MonthsOf(t) # {} /\ a = Aggregated(t)
      BY GroupFacts DEF SeenTitles
    <2>2. g[a] = Total(v)
      BY <2>1, AggregateFacts
    <2>3. v \in [MonthsOf(t) -> Nat] /\ IsFiniteSet(MonthsOf(t)) /\ \A m \in MonthsOf(t) : v[m] = In(m, t)
      BY <2>1, TitleFacts DEF ViewsIn
    <2>4. \A s \in Seen(c) : h[s] = Aggregated(s[2]) /\ f[s] = In(s[1], s[2])
      BY DEF SeenViews
    <2>5. \A s \in Seen(c) : h[s] = a <=> s[2] = t
      BY <1>1, <2>1, <2>4, AggregateFacts DEF SeenTitles
    <2> HIDE DEF f, g, h, v, t
    <2>6. /\ \A x \in Seen(c) : \A k \in 1..f[x] : <<x, k>> \in Units(f)
          /\ \A e \in Units(f) : e = <<e[1], e[2]>> /\ e[1] \in Seen(c) /\ e[2] \in 1..f[e[1]]
      BY <1>1, <1>2, UnitsFacts
    <2>7. /\ \A x \in MonthsOf(t) : \A k \in 1..v[x] : <<x, k>> \in Units(v)
          /\ \A e \in Units(v) : e = <<e[1], e[2]>> /\ e[1] \in MonthsOf(t) /\ e[2] \in 1..v[e[1]]
          /\ IsFiniteSet(Units(v))
      BY <2>3, UnitsFacts
    <2>8. ASSUME NEW u \in Units(v) PROVE <<<<u[1], t>>, u[2]>> \in Part
      <3>1. <<u[1], t>> \in Seen(c) /\ f[<<u[1], t>>] = v[u[1]] /\ h[<<u[1], t>>] = a
        BY <1>1, <2>1, <2>3, <2>4, <2>5, <2>7
      <3>2. u[2] \in 1..f[<<u[1], t>>]
        BY <2>7, <3>1
      <3> QED BY <2>6, <3>1, <3>2
    <2>9. ASSUME NEW e \in Part PROVE \E u \in Units(v) : <<<<u[1], t>>, u[2]>> = e
      <3>1. /\ e = <<e[1], e[2]>> /\ e[1] \in Seen(c) /\ e[2] \in 1..f[e[1]]
            /\ e[1] = <<e[1][1], t>> /\ e[1][1] \in MonthsOf(t)
        BY <1>1, <2>5, <2>6
      <3>2. f[e[1]] = v[e[1][1]]
        BY <2>3, <2>4, <2>5, <3>1
      <3>3. <<e[1][1], e[2]>> \in Units(v)
        BY <2>7, <3>1, <3>2
      <3> QED BY <3>1, <3>3
    <2>10. put \in Bijection(Units(v), Part)
      <3>1. put \in [Units(v) -> Part]
        BY <2>8
      <3>2. ASSUME NEW u \in Units(v), NEW w \in Units(v), put[u] = put[w] PROVE u = w
        BY <2>7, <3>2
      <3>3. \A e \in Part : \E u \in Units(v) : put[u] = e
        BY <2>9
      <3> HIDE DEF put, Part
      <3> QED BY <3>1, <3>2, <3>3 DEF Bijection, Injection, Surjection, IsInjective
    <2>11. ExistsBijection(Units(v), Part)
      BY <2>10 DEF ExistsBijection
    <2> HIDE DEF Part
    <2>12. Cardinality(Units(v)) = Cardinality(Part)
      BY <2>7, <2>11, FS_Bijection
    <2> QED BY <2>2, <2>12 DEF Total, Part
  <1>6. AddsUp(Group(c), Seen(c), f, g, h)
    BY <1>5 DEF AddsUp
  <1>7. ViewsOf(c) = Total(f)
    BY DEF ViewsOf, SeenViews, Seen, In
  <1> HIDE DEF f, g, h
  <1>8. Total(f) \in Nat
    BY <1>1, <1>2, UnitsFacts
  <1>9. IsFiniteSet(Group(c)) /\ IsFiniteSet(Seen(c))
    BY <1>1, GroupFacts
  <1>10. Total(g) = Total(f)
    BY <1>2, <1>3, <1>4, <1>6, <1>9, TotalByGroups
  <1> QED BY <1>7, <1>8, <1>10 DEF g

\* Its titles have at most the months of the one that was seen most often.
LEMMA GroupMonths ==
    ASSUME Fetched, NEW c, SeenTitles(c) # {}
    PROVE  Greatest({a.months : a \in Group(c)}) = MonthsSeen(c) /\ MonthsSeen(c) \in Nat
  <1> DEFINE N == Cardinality(DOMAIN top)
             A == {a.months : a \in Group(c)}
             B == {Cardinality(MonthsOf(x)) : x \in {y \in ArticleTitle : RedirectTo[y] = c}}
  <1>1. \A t \in SeenTitles(c) : Cardinality(MonthsOf(t)) \in A
    BY GroupFacts, AggregateFacts DEF SeenTitles
  <1>2. \A n \in A : \E t \in SeenTitles(c) : n = Cardinality(MonthsOf(t))
    BY GroupFacts, AggregateFacts DEF SeenTitles
  <1>3. A # {} /\ A \subseteq B
    BY <1>1, <1>2 DEF SeenTitles
  <1>4. B \in SUBSET (0..N) /\ N \in Nat
    BY TitleFacts, FetchedFacts
  <1>5. \A n \in B : n \in A \/ n = 0
    <2>1. \A x \in ArticleTitle : RedirectTo[x] = c => x \in SeenTitles(c) \/ Cardinality(MonthsOf(x)) = 0
      BY TitleFacts DEF SeenTitles
    <2> QED BY <1>1, <2>1
  <1>6. MonthsSeen(c) = Greatest(B)
    BY DEF MonthsSeen
  <1> HIDE DEF A, B, N
  <1>7. A \in SUBSET (0..N) /\ B # {}
    BY <1>3, <1>4
  <1>8. Greatest(A) \in A /\ \A k \in A : k <= Greatest(A)
    BY <1>3, <1>4, <1>7, GreatestIs
  <1>9. Greatest(B) \in B /\ \A k \in B : k <= Greatest(B)
    BY <1>4, <1>7, GreatestIs
  <1>10. Greatest(A) = Greatest(B) /\ Greatest(B) \in Nat
    <2>1. Greatest(A) \in 0..N /\ Greatest(B) \in 0..N /\ Greatest(A) <= Greatest(B)
      BY <1>3, <1>4, <1>7, <1>8, <1>9
    <2>2. Greatest(B) <= Greatest(A)
      BY <1>5, <1>8, <1>9, <2>1
    <2> QED BY <1>4, <2>1, <2>2
  <1> QED BY <1>6, <1>10 DEF A

LEMMA JoinedFacts ==
    ASSUME Fetched, NEW c, SeenAs(c)
    PROVE  /\ Joined(c).title = c /\ c \in ArticleTitle
           /\ Joined(c).views = ViewsOf(c) /\ Joined(c).views \in Nat
           /\ Joined(c).months \in Nat /\ Joined(c).best \in Nat
           /\ Joined(c).score = ScoreOf(c) /\ ScoreOf(c) \in Nat
  <1>1. SeenTitles(c) # {} /\ c \in ArticleTitle
    BY SelectionConstants DEF SeenAs, SeenTitles
  <1>2. Joined(c) = Page(c, Total([a \in Group(c) |-> a.views]), Greatest({a.months : a \in Group(c)}),
                         Least({a.best : a \in Group(c)}))
    BY DEF Joined, Group
  <1>3. Joined(c) = Page(c, ViewsOf(c), MonthsSeen(c), Least({a.best : a \in Group(c)}))
    BY <1>1, <1>2, GroupTotal, GroupMonths
  <1>4. ViewsOf(c) \in Nat /\ MonthsSeen(c) \in Nat
    BY <1>1, GroupTotal, GroupMonths
  <1>5. Least({a.best : a \in Group(c)}) \in Nat
    <2> DEFINE T == {a.best : a \in Group(c)}
    <2>1. T \in SUBSET Nat /\ T # {}
      BY <1>1, GroupFacts, AggregateFacts DEF SeenTitles
    <2> HIDE DEF T
    <2>2. Least(T) \in Nat
      BY <2>1, LeastIs
    <2> QED BY <2>2 DEF T
  <1>6. ScoreOf(c) \in Nat
    BY <1>4, SelectionConstants, Nats DEF ScoreOf
  <1> QED BY <1>1, <1>3, <1>4, <1>5, <1>6 DEF Page, ScoreOf

LEMMA CanonicalFacts ==
    ASSUME Fetched
    PROVE  /\ \A c : SeenAs(c) => Joined(c) \in Canonical
           /\ \A a \in Canonical : SeenAs(a.title) /\ a = Joined(a.title)
           /\ IsFiniteSet(Canonical) /\ TotalOn(Canonical, BySortKey)
  <1> DEFINE pages == {RedirectTo[a.title] : a \in Aggregates}
  <1>1. \A c : SeenAs(c) => c \in pages
    BY AggregateFacts DEF SeenAs, Aggregates
  <1>2. \A c \in pages : SeenAs(c)
    BY AggregateFacts DEF SeenAs, Aggregates
  <1>3. Canonical = {Joined(c) : c \in pages}
    BY DEF Canonical
  <1> HIDE DEF pages
  <1>4. \A a \in Canonical : SeenAs(a.title) /\ a = Joined(a.title)
    BY <1>2, <1>3, JoinedFacts
  <1>5. IsFiniteSet(Canonical)
    <2>1. IsFiniteSet(pages)
      BY <1>2, JoinedFacts, SelectionConstants, FS_Subset
    <2> DEFINE of == [c \in pages |-> Joined(c)]
    <2>2. of \in Surjection(pages, Canonical)
      BY <1>3 DEF Surjection
    <2> HIDE DEF of
    <2> QED BY <2>1, <2>2, FS_Surjection
  <1>6. ASSUME NEW a \in Canonical
        PROVE  SortKey(a) \in [1..5 -> Int] /\ SortKey(a)[5] = - a.title /\ a.title \in Int
    <2>1. a.score \in Int /\ a.months \in Int /\ a.views \in Int /\ - a.best \in Int /\ a.title \in Int
      <3>1. SeenAs(a.title) /\ a = Joined(a.title)
        BY <1>4
      <3>2. /\ a.title \in ArticleTitle /\ a.views \in Nat /\ a.months \in Nat /\ a.best \in Nat
            /\ a.score \in Nat
        BY <3>1, JoinedFacts
      <3>3. a.title \in Int
        BY <3>2, SelectionConstants
      <3> QED BY <3>2, <3>3
    <2> DEFINE key == <<a.score, a.months, a.views, - a.best, - a.title>>
    <2>2. key \in Seq(Int) /\ Len(key) = 5 /\ key[5] = - a.title
      BY <2>1
    <2> HIDE DEF key
    <2>3. key \in [1..5 -> Int]
      BY <2>2, LenProperties
    <2> QED BY <2>1, <2>2, <2>3 DEF SortKey, key
  <1>7. \A x, y \in Canonical : <<x, y>> \in BySortKey <=> Exceeds(SortKey(x), SortKey(y))
    BY DEF BySortKey
  <1>8. \A x, y \in Canonical : x # y => SortKey(x) # SortKey(y)
    BY <1>4, <1>6
  <1>9. 5 \in Nat
    OBVIOUS
  <1>10. ASSUME NEW x \in Canonical, NEW y \in Canonical
         PROVE  /\ <<x, x>> \notin BySortKey
                /\ x # y => <<x, y>> \in BySortKey \/ <<y, x>> \in BySortKey
                /\ \A z \in Canonical : <<x, y>> \in BySortKey /\ <<y, z>> \in BySortKey => <<x, z>> \in BySortKey
    <2>1. SortKey(x) \in [1..5 -> Int] /\ SortKey(y) \in [1..5 -> Int]
          /\ \A z \in Canonical : SortKey(z) \in [1..5 -> Int]
      BY <1>6
    <2>2. /\ ~ Exceeds(SortKey(x), SortKey(x))
          /\ SortKey(x) # SortKey(y) => Exceeds(SortKey(x), SortKey(y)) \/ Exceeds(SortKey(y), SortKey(x))
          /\ \A z \in [1..5 -> Int] : Exceeds(SortKey(x), SortKey(y)) /\ Exceeds(SortKey(y), z) => Exceeds(SortKey(x), z)
      BY <1>9, <2>1, ExceedsIsAnOrder
    <2> QED BY <1>7, <1>8, <2>1, <2>2
  <1>11. TotalOn(Canonical, BySortKey)
    BY <1>10 DEF TotalOn
  <1>12. \A c : SeenAs(c) => Joined(c) \in Canonical
    BY <1>1, <1>3
  <1> QED BY <1>4, <1>5, <1>11, <1>12

-----------------------------------------------------------------------------
(* The order of the pages, and the rows *)

Eligible == {a \in Canonical : ~ Rejected(a.title)}
Titles == {t \in DOMAIN ArticleOf : SeenAs(t) /\ ~ Rejected(t)}
RowCount == IF Cardinality(Titles) < MaxPages THEN Cardinality(Titles) ELSE MaxPages

\* The page in a place of the order.
InPlace(i) == InOrder(Eligible, BySortKey)[i]
PlaceOf(t) == Place(Joined(t), Eligible, BySortKey)

LEMMA EligibleFacts ==
    ASSUME Fetched
    PROVE  /\ Eligible \subseteq Canonical /\ IsFiniteSet(Eligible) /\ TotalOn(Eligible, BySortKey)
           /\ \A t \in Titles : Joined(t) \in Eligible
           /\ \A a \in Eligible : a.title \in Titles /\ a = Joined(a.title)
           /\ Cardinality(Eligible) = Cardinality(Titles) /\ Cardinality(Titles) \in Nat
           /\ RowCount \in 0..Cardinality(Titles)
  <1>1. Eligible \subseteq Canonical
    BY DEF Eligible
  <1>2. IsFiniteSet(Eligible) /\ TotalOn(Eligible, BySortKey)
    BY <1>1, CanonicalFacts, FS_Subset DEF TotalOn
  <1>3. \A t \in Titles : Joined(t) \in Eligible /\ Joined(t).title = t
    BY CanonicalFacts, JoinedFacts DEF Eligible, Titles
  <1>4. \A a \in Eligible : a.title \in Titles /\ a = Joined(a.title)
    BY CanonicalFacts DEF Eligible, Titles, Rejected
  <1>5. Cardinality(Eligible) = Cardinality(Titles)
    <2> DEFINE of == [a \in Eligible |-> a.title]
    <2>1. of \in Bijection(Eligible, Titles)
      BY <1>3, <1>4 DEF Bijection, Injection, Surjection, IsInjective
    <2>2. ExistsBijection(Eligible, Titles)
      BY <2>1 DEF ExistsBijection
    <2> QED BY <1>2, <2>2, FS_Bijection
  <1>6. Cardinality(Titles) \in Nat
    BY <1>2, <1>5, FS_CardinalityType
  <1>7. RowCount \in 0..Cardinality(Titles)
    BY <1>6, SelectionConstants DEF RowCount
  <1> QED BY <1>1, <1>2, <1>3, <1>4, <1>5, <1>6, <1>7

Row(i) ==
    [rank |-> i, page |-> ArticleOf[InPlace(i).title].page, views |-> InPlace(i).views,
     months |-> InPlace(i).months, score |-> InPlace(i).score]

\* The rows are those of the eligible pages in their order.
LEMMA RowsAre == ASSUME Fetched PROVE CandidateRows = [i \in 1..RowCount |-> Row(i)]
  <1> DEFINE pages == InOrder(Canonical, BySortKey)
             kept == {k \in DOMAIN pages : ~ Rejected(pages[k].title)}
             written(r) == Nth(pages, kept, r)
             count == IF Cardinality(kept) < MaxPages THEN Cardinality(kept) ELSE MaxPages
  <1>1. IsFiniteSet(Canonical) /\ TotalOn(Canonical, BySortKey)
    BY CanonicalFacts
  <1>2. pages \in [1..Cardinality(Canonical) -> Canonical]
    BY <1>1, InItsPlace
  <1>3. KeepsE(kept, Canonical, Eligible, BySortKey)
    BY <1>2 DEF KeepsE, Eligible
  <1>4. CandidateRows = [r \in 1..count |->
            [rank |-> r, page |-> ArticleOf[written(r).title].page, views |-> written(r).views,
             months |-> written(r).months, score |-> written(r).score]]
    BY DEF CandidateRows, Nth
  <1> HIDE DEF kept
  <1>5. Eligible \subseteq Canonical /\ Cardinality(Eligible) = Cardinality(Titles)
        /\ Cardinality(Titles) \in Nat /\ RowCount \in 0..Cardinality(Titles)
    BY EligibleFacts
  <1>6. Cardinality(kept) = Cardinality(Eligible)
    BY <1>1, <1>3, <1>5, RanksOfTheKept
  <1>7. count = RowCount
    BY <1>5, <1>6 DEF RowCount
  <1>8. ASSUME NEW r \in 1..RowCount PROVE written(r) = InPlace(r)
    <2>1. r \in 1..Cardinality(Eligible)
      BY <1>5
    <2>2. Nth(InOrder(Canonical, BySortKey), kept, r) = InOrder(Eligible, BySortKey)[r]
      BY <1>1, <1>3, <1>5, <2>1, KeptInOrder
    <2> QED BY <2>2 DEF InPlace
  <1> HIDE DEF written, count
  <1>9. [r \in 1..count |->
            [rank |-> r, page |-> ArticleOf[written(r).title].page, views |-> written(r).views,
             months |-> written(r).months, score |-> written(r).score]]
        = [i \in 1..RowCount |-> Row(i)]
    BY <1>7, <1>8 DEF Row
  <1> QED BY <1>4, <1>9

LEMMA RowFacts ==
    ASSUME Fetched, NEW i \in 1..RowCount
    PROVE  LET t == InPlace(i).title IN
           /\ t \in Titles /\ PlaceOf(t) = i
           /\ Row(i).page = ArticleOf[t].page /\ Row(i).views = ViewsOf(t)
           /\ Row(i).score = ScoreOf(t) /\ ScoreOf(t) \in Nat
  <1> DEFINE t == InPlace(i).title
  <1>1. IsFiniteSet(Eligible) /\ TotalOn(Eligible, BySortKey) /\ i \in 1..Cardinality(Eligible)
    BY EligibleFacts
  <1>2. InPlace(i) \in Eligible /\ Place(InPlace(i), Eligible, BySortKey) = i
    BY <1>1, InItsPlace DEF InPlace
  <1>3. t \in Titles /\ InPlace(i) = Joined(t)
    BY <1>2, EligibleFacts
  <1>4. SeenAs(t)
    BY <1>3 DEF Titles
  <1>5. InPlace(i).views = ViewsOf(t) /\ InPlace(i).score = ScoreOf(t) /\ ScoreOf(t) \in Nat
    BY <1>3, <1>4, JoinedFacts
  <1>6. PlaceOf(t) = i
    BY <1>2, <1>3 DEF PlaceOf
  <1> HIDE DEF t
  <1>7. Row(i).page = ArticleOf[t].page /\ Row(i).views = ViewsOf(t) /\ Row(i).score = ScoreOf(t)
    BY <1>5 DEF Row, t
  <1> QED BY <1>3, <1>5, <1>6, <1>7 DEF t

\* A page that is before another has no smaller score.
LEMMA EarlierIsBetter ==
    ASSUME Fetched, NEW t \in Titles, NEW u \in Titles, PlaceOf(t) < PlaceOf(u)
    PROVE  ScoreOf(t) >= ScoreOf(u)
  <1> DEFINE x == Joined(t)
             y == Joined(u)
  <1>1. IsFiniteSet(Eligible) /\ TotalOn(Eligible, BySortKey) /\ x \in Eligible /\ y \in Eligible
    BY EligibleFacts
  <1>2. /\ x.score = ScoreOf(t) /\ ScoreOf(t) \in Nat
        /\ y.score = ScoreOf(u) /\ ScoreOf(u) \in Nat
    BY JoinedFacts DEF Titles
  <1> HIDE DEF x, y
  <1>3. Place(x, Eligible, BySortKey) < Place(y, Eligible, BySortKey)
    BY DEF PlaceOf, x, y
  <1>4. <<x, y>> \in BySortKey
    BY <1>1, <1>3, Places
  <1>5. Exceeds(SortKey(x), SortKey(y))
    BY <1>4 DEF BySortKey
  <1>6. DOMAIN SortKey(x) = 1..5 /\ SortKey(x)[1] = x.score /\ SortKey(y)[1] = y.score
    BY DEF SortKey
  <1>7. PICK k \in 1..5 : SortKey(x)[k] > SortKey(y)[k] /\ \A l \in 1..(k - 1) : SortKey(x)[l] = SortKey(y)[l]
    BY <1>5, <1>6 DEF Exceeds
  <1>8. CASE k = 1
    BY <1>2, <1>6, <1>7, <1>8
  <1>9. CASE k # 1
    <2>1. 1 \in 1..(k - 1)
      BY <1>9
    <2> QED BY <1>2, <1>6, <1>7, <2>1
  <1> QED BY <1>8, <1>9

LEMMA RowsAreBestFirst ==
    ASSUME Fetched, candidateRows = CandidateRows PROVE SelectedBestFirst
  <1> DEFINE titles == {t \in DOMAIN ArticleOf : SeenAs(t) /\ ~ Rejected(t)}
             TitleOf(row) == CHOOSE t \in titles : ArticleOf[t].page = row.page
             rows == {candidateRows[i] : i \in DOMAIN candidateRows}
             pages == {row.page : row \in rows}
             N == RowCount
  <1>1. titles = Titles
    BY DEF Titles
  <1>2. candidateRows = [i \in 1..N |-> Row(i)] /\ N \in Nat /\ N \in 0..Cardinality(Titles)
    BY RowsAre, EligibleFacts
  <1>3. /\ DOMAIN candidateRows = 1..N /\ \A i \in 1..N : candidateRows[i] = Row(i)
        /\ rows = {Row(i) : i \in 1..N}
    BY <1>2
  <1>4. Len(candidateRows) = N
    <2>1. Cardinality(Titles) \in Nat
      BY EligibleFacts
    <2> QED BY <1>2
  <1>5. \A i \in 1..N : InPlace(i).title \in Titles /\ PlaceOf(InPlace(i).title) = i
                        /\ Row(i).page = ArticleOf[InPlace(i).title].page
                        /\ Row(i).views = ViewsOf(InPlace(i).title)
                        /\ Row(i).score = ScoreOf(InPlace(i).title)
    BY RowFacts
  <1>6. \A t, u \in Titles : ArticleOf[t].page = ArticleOf[u].page => t = u
    BY SelectionConstants DEF Titles
  <1> HIDE DEF titles, rows, N
  <1>7. N = IF Cardinality(titles) < MaxPages THEN Cardinality(titles) ELSE MaxPages
    BY <1>1 DEF RowCount, N
  <1>8. Cardinality(pages) = N
    <2> DEFINE of == [i \in 1..N |-> Row(i).page]
    <2>1. \A i, j \in 1..N : Row(i).page = Row(j).page => i = j
      BY <1>5, <1>6
    <2>2. pages = {Row(i).page : i \in 1..N}
      BY <1>3
    <2> HIDE DEF pages
    <2>3. of \in Bijection(1..N, pages)
      BY <2>1, <2>2 DEF Bijection, Injection, Surjection, IsInjective
    <2>4. ExistsBijection(1..N, pages)
      BY <2>3 DEF ExistsBijection
    <2>5. IsFiniteSet(1..N) /\ Cardinality(1..N) = N
      BY <1>2, FS_Interval
    <2> QED BY <2>4, <2>5, FS_Bijection
  <1>9. ASSUME NEW row \in rows
        PROVE  /\ \E t \in titles : ArticleOf[t].page = row.page
               /\ row.views = ViewsOf(TitleOf(row)) /\ row.score = ScoreOf(TitleOf(row))
    <2>1. PICK i \in 1..N : row = Row(i)
      BY <1>3
    <2> DEFINE t == InPlace(i).title
    <2>2. t \in titles /\ ArticleOf[t].page = row.page /\ row.views = ViewsOf(t) /\ row.score = ScoreOf(t)
      BY <1>1, <1>5, <2>1
    <2> HIDE DEF t
    <2>3. TitleOf(row) = t
      <3>1. TitleOf(row) \in titles /\ ArticleOf[TitleOf(row)].page = row.page
        BY <2>2
      <3> HIDE DEF TitleOf
      <3> QED BY <1>1, <1>6, <2>2, <3>1
    <2> QED BY <2>2, <2>3
  <1>10. ASSUME NEW i \in 2..N PROVE candidateRows[i - 1].score >= candidateRows[i].score
    <2>1. i \in 1..N /\ i - 1 \in 1..N /\ i - 1 < i
      BY <1>2
    <2> DEFINE t == InPlace(i - 1).title
               u == InPlace(i).title
    <2>2. t \in Titles /\ u \in Titles /\ PlaceOf(t) < PlaceOf(u)
      BY <1>5, <2>1
    <2>3. ScoreOf(t) >= ScoreOf(u)
      BY <2>2, EarlierIsBetter
    <2> QED BY <1>3, <1>5, <2>1, <2>3
  <1>11. ASSUME NEW t \in titles, NEW row \in rows, \A r \in rows : r.page # ArticleOf[t].page
         PROVE  row.score >= ScoreOf(t)
    <2>1. PICK i \in 1..N : row = Row(i)
      BY <1>3
    <2> DEFINE u == InPlace(i).title
    <2>2. u \in Titles /\ PlaceOf(u) = i /\ row.score = ScoreOf(u) /\ t \in Titles
      BY <1>1, <1>5, <2>1
    <2>3. PlaceOf(t) \in 1..Cardinality(Titles) /\ InPlace(PlaceOf(t)) = Joined(t)
      <3>1. Joined(t) \in Eligible /\ IsFiniteSet(Eligible) /\ TotalOn(Eligible, BySortKey)
            /\ Cardinality(Eligible) = Cardinality(Titles)
        BY <2>2, EligibleFacts
      <3> QED BY <3>1, Places, InItsPlace DEF PlaceOf, InPlace
    <2>4. Joined(t).title = t
      BY <2>2, JoinedFacts DEF Titles
    <2>5. PlaceOf(t) \notin 1..N
      <3>1. ASSUME PlaceOf(t) \in 1..N PROVE FALSE
        <4>1. Row(PlaceOf(t)) \in rows /\ Row(PlaceOf(t)).page = ArticleOf[t].page
          BY <1>3, <1>5, <2>3, <2>4, <3>1
        <4> QED BY <1>11, <4>1
      <3> QED BY <3>1
    <2> HIDE DEF u
    <2>6. PlaceOf(u) < PlaceOf(t)
      BY <1>2, <2>2, <2>3, <2>5, EligibleFacts
    <2> QED BY <2>2, <2>6, EarlierIsBetter
  <1> HIDE DEF TitleOf, pages
  <1>12. /\ Len(candidateRows) = IF Cardinality(titles) < MaxPages THEN Cardinality(titles) ELSE MaxPages
         /\ Cardinality(pages) = Len(candidateRows)
         /\ \A row \in rows :
             /\ \E t \in titles : ArticleOf[t].page = row.page
             /\ row.views = ViewsOf(TitleOf(row))
             /\ row.score = ScoreOf(TitleOf(row))
         /\ \A i \in 2..Len(candidateRows) : candidateRows[i - 1].score >= candidateRows[i].score
         /\ \A t \in titles, row \in rows :
                (\A r \in rows : r.page # ArticleOf[t].page) => row.score >= ScoreOf(t)
    BY <1>4, <1>7, <1>8, <1>9, <1>10, <1>11
  <1> QED BY <1>12 DEF SelectedBestFirst, titles, rows, pages, TitleOf

LEMMA SameRows == ASSUME top' = top PROVE CandidateRows' = CandidateRows /\ Fetched' = Fetched
  <1>1. \A m, t : Ranks(m, t)' = Ranks(m, t)
    BY DEF Ranks
  <1>2. \A t : MonthsOf(t)' = MonthsOf(t)
    BY <1>1 DEF MonthsOf
  <1>3. \A t : Aggregated(t)' = Aggregated(t)
    BY <1>1, <1>2 DEF Aggregated
  <1>4. Aggregates' = Aggregates
    BY <1>2, <1>3 DEF Aggregates
  <1>5. \A c : Joined(c)' = Joined(c)
    BY <1>4 DEF Joined
  <1>6. Canonical' = Canonical
    BY <1>4, <1>5 DEF Canonical
  <1>7. BySortKey' = BySortKey
    BY <1>6 DEF BySortKey
  <1>8. CandidateRows' = CandidateRows
    BY <1>6, <1>7 DEF CandidateRows
  <1>9. Fetched' = Fetched
    BY DEF Fetched
  <1> QED BY <1>8, <1>9

\* The candidates are computed once, from the lists that were fetched.
THEOREM SelectionInvariant == SelectionSpec => []SelectionInv
  <1>1. SelectionInit => SelectionInv
    BY DEF SelectionInit, SelectionInv
  <1>2. SelectionInv /\ [SelectionNext]_selectionVars => SelectionInv'
    <2> SUFFICES ASSUME SelectionInv, [SelectionNext]_selectionVars PROVE SelectionInv'
      OBVIOUS
    <2>1. CASE Fetch
      <3>1. PICK months \in SUBSET Month \ {{}} : top' \in [months -> TopLists]
        BY <2>1 DEF Fetch
      <3>2. Fetched'
        BY <3>1 DEF Fetched, TopLists
      <3>3. candidateRows' = candidateRows /\ top = <<>>
        BY <2>1 DEF Fetch
      <3>4. candidateRows = NotSelected
        BY <3>3 DEF SelectionInv
      <3> QED BY <3>2, <3>3, <3>4 DEF SelectionInv, NotSelected
    <2>2. CASE Select
      <3>1. Fetched /\ top # <<>> /\ top' = top /\ candidateRows' = CandidateRows
        BY <2>2 DEF Select, SelectionInv
      <3> QED BY <3>1, SameRows DEF SelectionInv
    <2>3. CASE UNCHANGED selectionVars
      BY <2>3, SameRows DEF SelectionInv, selectionVars, NotSelected
    <2> QED BY <2>1, <2>2, <2>3 DEF SelectionNext
  <1> QED BY <1>1, <1>2, PTL DEF SelectionSpec

\* The file has each page that is not rejected once, with all its views,
\* and the best of them first, whatever the lists say.
THEOREM SelectedIsAlwaysBestFirst == SelectionSpec => []SelectedBestFirst
  <1>1. SelectionInv => SelectedBestFirst
    <2>1. CASE candidateRows = NotSelected
      BY <2>1 DEF SelectedBestFirst
    <2>2. CASE candidateRows # NotSelected
      BY <2>2, RowsAreBestFirst DEF SelectionInv
    <2> QED BY <2>1, <2>2
  <1> QED BY <1>1, SelectionInvariant, PTL
=============================================================================
