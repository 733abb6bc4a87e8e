---------------------- MODULE KnowledgeIngestionProofs ----------------------
(***************************************************************************)
(* Proofs about KnowledgeIngestion: its type invariant, that an accepted   *)
(* request is always queued, that the API implements AcceptOnce, and that  *)
(* the answers of concurrent and repeated calls agree.                     *)
(***************************************************************************)
EXTENDS KnowledgeIngestion, TLAPS

\* A call whose transaction is open.
IsOpen(c) == pc[c] \in {"inserted", "published"}

\* Request ids are fresh, and a row is its id's only row.
IdsFresh ==
    /\ \A r \in rows : r.id < nextId
    /\ \A r, s \in rows : r.id = s.id => r = s
    /\ \A i \in committed : \E r \in rows : r.id = i

\* An open transaction holds the uncommitted row of its call alone.
OpenRows ==
    /\ \A c \in Call : IsOpen(c) =>
        /\ request[c] \in Id
        /\ request[c] \notin committed
        /\ \E r \in rows : r.id = request[c] /\ r.key = asked[c].key
    /\ \A c, d \in Call : IsOpen(c) /\ IsOpen(d) /\ request[c] = request[d] => c = d

\* The unique index: a key has one row, committed or of an open transaction.
OneRowPerKey ==
    \A r, s \in rows :
        /\ r.key = s.key /\ r.key # NoKey
        /\ r.id \in committed \cup Open
        /\ s.id \in committed \cup Open
        => r = s

Queued ==
    /\ AcceptedIsQueued
    /\ \A c \in Call : pc[c] = "published" => task[request[c]] # "none"

\* Every card in the graph took an attempt of its own.
Attempted ==
    \A i \in Id :
        /\ made[i] <= attempts[i]
        /\ task[i] = "running" => made[i] < attempts[i]

IndInv == TypeOK /\ IdsFresh /\ OpenRows /\ OneRowPerKey /\ Queued /\ Attempted

-----------------------------------------------------------------------------

LEMMA InitInv == Init => IndInv
  <1> USE ConstantsAssumption
  <1> SUFFICES ASSUME Init PROVE IndInv
    OBVIOUS
  <1>1. TypeOK
    BY DEF Init, TypeOK, Id
  <1>2. IdsFresh /\ OneRowPerKey
    BY DEF Init, IdsFresh, OneRowPerKey
  <1>3. OpenRows /\ Queued /\ Attempted
    BY DEF Init, OpenRows, IsOpen, Queued, AcceptedIsQueued, Attempted
  <1> QED BY <1>1, <1>2, <1>3 DEF IndInv

\* The workers touch nothing the API relies on.
LEMMA WorkStep ==
    ASSUME IndInv, NEW i \in Id, Work(i) PROVE IndInv'
  <1> USE ConstantsAssumption DEF IndInv, workers, api
  <1>1. TypeOK' /\ Attempted'
    <2>1. CASE Take(i)
      BY <2>1 DEF Take, TypeOK, Attempted
    <2>2. CASE Materialize(i)
      BY <2>2 DEF Materialize, TypeOK, Attempted
    <2>3. CASE Acknowledge(i)
      BY <2>3 DEF Acknowledge, TypeOK, Attempted
    <2>4. CASE WorkFails(i)
      BY <2>4 DEF WorkFails, TypeOK, Attempted
    <2>5. CASE Redeliver(i)
      BY <2>5 DEF Redeliver, TypeOK, Attempted
    <2> QED BY <2>1, <2>2, <2>3, <2>4, <2>5 DEF Work
  <1>2. UNCHANGED <<asked, pc, request, rows, committed, nextId>>
    BY DEF Work, Take, Materialize, Acknowledge, WorkFails, Redeliver
  <1>3. IdsFresh' /\ OpenRows' /\ OneRowPerKey'
    BY <1>2 DEF IdsFresh, OpenRows, IsOpen, OneRowPerKey, Open
  <1>4. \A j \in Id : task[j] # "none" => task'[j] # "none"
    BY DEF Work, Take, Materialize, Acknowledge, WorkFails, Redeliver, TypeOK
  <1>5. Queued'
    BY <1>2, <1>4 DEF Queued, AcceptedIsQueued, TypeOK, OpenRows, IsOpen
  <1> QED BY <1>1, <1>3, <1>5

\* A new row: no open transaction and no committed row has its key.
LEMMA InsertStep ==
    ASSUME IndInv, NEW c \in Call, Insert(c) PROVE IndInv'
  <1> USE ConstantsAssumption DEF IndInv, workers
  <1> DEFINE new == [id |-> nextId, key |-> asked[c].key, card |-> asked[c].card]
  <1>1. new \in Row /\ nextId \in Id /\ nextId + 1 \in 1..(MaxId + 1)
    BY DEF Insert, TypeOK, Submission, Row, Id
  <1>2. /\ rows' = rows \cup {new}
        /\ request' = [request EXCEPT ![c] = nextId]
        /\ pc' = [pc EXCEPT ![c] = "inserted"]
        /\ nextId' = nextId + 1
        /\ UNCHANGED <<asked, committed, task, attempts, made>>
    BY DEF Insert
  <1>3. TypeOK'
    BY <1>1, <1>2 DEF TypeOK, Id
  <1>4. IdsFresh'
    BY <1>1, <1>2 DEF IdsFresh, TypeOK, Row, Id
  <1>5. nextId \notin committed /\ \A d \in Call : IsOpen(d) => request[d] # nextId
    BY <1>1 DEF IdsFresh, OpenRows, TypeOK, Id, Row
  <1>6. OpenRows'
    <2>1. /\ request'[c] = nextId /\ IsOpen(c)'
          /\ \A d \in Call \ {c} : request'[d] = request[d] /\ IsOpen(d)' = IsOpen(d)
      BY <1>2 DEF TypeOK, IsOpen
    <2>2. new \in rows' /\ new.id = request'[c] /\ new.key = asked'[c].key
      BY <1>2, <2>1
    <2> QED BY <1>1, <1>2, <1>5, <2>1, <2>2 DEF OpenRows
  <1>7. OneRowPerKey'
    <2>1. Open' \subseteq Open \cup {nextId}
      BY <1>2 DEF Open, TypeOK
    <2>2. ASSUME NEW r \in rows, r.key = asked[c].key, r.key # NoKey
          PROVE r.id \notin committed \cup Open /\ r.id # nextId
      BY <2>2 DEF Insert, Locked, Existing, IdsFresh, TypeOK, Row, Id
    <2> QED BY <1>2, <2>1, <2>2 DEF OneRowPerKey, IdsFresh, TypeOK, Row, Id
  <1>8. Queued' /\ Attempted'
    BY <1>2 DEF Queued, AcceptedIsQueued, Attempted, TypeOK
  <1> QED BY <1>3, <1>4, <1>6, <1>7, <1>8

LEMMA ReplayStep ==
    ASSUME IndInv, NEW c \in Call, Replay(c) PROVE IndInv'
  <1> USE ConstantsAssumption DEF IndInv, workers
  <1>1. PICK r \in Existing(asked[c].key) :
            request' = [request EXCEPT ![c] = r.id]
    BY DEF Replay
  <1>2. r.id \in Id
    BY DEF Existing, TypeOK, Row
  <1>3. /\ pc' \in [Call -> {"idle", "inserted", "published", "accepted", "conflict", "error"}]
        /\ pc[c] = "idle" /\ pc'[c] \in {"accepted", "conflict"}
        /\ \A d \in Call \ {c} : pc'[d] = pc[d] /\ request'[d] = request[d]
        /\ UNCHANGED <<asked, rows, committed, nextId, task, attempts, made>>
    BY <1>1 DEF Replay, TypeOK
  <1>4. TypeOK'
    <2>1. r.id \in 0..MaxId
      BY <1>2 DEF Id
    <2>2. request' \in [Call -> 0..MaxId]
      BY <1>1, <2>1 DEF TypeOK
    <2> QED BY <1>3, <2>2 DEF TypeOK
  <1>5. IdsFresh' /\ OpenRows' /\ Queued' /\ Attempted'
    BY <1>3 DEF IdsFresh, OpenRows, IsOpen, Queued, AcceptedIsQueued, Attempted
  <1>6. Open' = Open
    BY <1>3 DEF Open
  <1>7. OneRowPerKey'
    BY <1>3, <1>6 DEF OneRowPerKey
  <1> QED BY <1>4, <1>5, <1>7

\* From here on a transaction is under way: it publishes, or it ends.
LEMMA PublishStep ==
    ASSUME IndInv, NEW c \in Call, Publish(c) \/ PublishFails(c) PROVE IndInv'
  <1> USE ConstantsAssumption DEF IndInv
  <1>1. IsOpen(c) /\ request[c] \in Id
    BY DEF Publish, PublishFails, IsOpen, OpenRows
  <1>2. /\ pc' \in [Call -> {"idle", "inserted", "published", "accepted", "conflict", "error"}]
        /\ pc'[c] \in {"published", "error"} /\ \A d \in Call \ {c} : pc'[d] = pc[d]
        /\ pc'[c] = "published" => task'[request[c]] # "none"
        /\ task' \in {task, [task EXCEPT ![request[c]] = "queued"]}
        /\ UNCHANGED <<asked, request, rows, committed, nextId, attempts, made>>
    BY <1>1 DEF Publish, PublishFails, TypeOK
  <1>3. TypeOK' /\ Attempted'
    BY <1>1, <1>2 DEF TypeOK, Attempted
  <1>4. IdsFresh' /\ OpenRows'
    BY <1>1, <1>2 DEF IdsFresh, OpenRows, IsOpen
  <1>5. Open' \subseteq Open
    BY <1>1, <1>2 DEF Open, IsOpen
  <1>6. OneRowPerKey'
    BY <1>2, <1>5 DEF OneRowPerKey
  <1>7. \A j \in Id : task[j] # "none" => task'[j] # "none"
    BY <1>1, <1>2 DEF TypeOK
  <1>8. Queued'
    BY <1>2, <1>4, <1>7 DEF Queued, AcceptedIsQueued, TypeOK, OpenRows, IsOpen
  <1> QED BY <1>3, <1>4, <1>6, <1>8

LEMMA EndStep ==
    ASSUME IndInv, NEW c \in Call, Commit(c) \/ CommitFails(c) \/ CrashApi(c) PROVE IndInv'
  <1> USE ConstantsAssumption DEF IndInv, workers
  <1>1. IsOpen(c) /\ request[c] \in Id /\ request[c] \in Open
    BY DEF Commit, CommitFails, CrashApi, IsOpen, OpenRows, Open
  <1>2. /\ pc' \in [Call -> {"idle", "inserted", "published", "accepted", "conflict", "error"}]
        /\ pc'[c] \in {"accepted", "error"} /\ \A d \in Call \ {c} : pc'[d] = pc[d]
        /\ committed' \in {committed, committed \cup {request[c]}}
        /\ committed' = committed \/ pc[c] = "published"
        /\ UNCHANGED <<asked, request, rows, nextId, task, attempts, made>>
    BY DEF Commit, CommitFails, CrashApi, TypeOK
  <1>3. TypeOK' /\ Attempted'
    BY <1>1, <1>2 DEF TypeOK, Attempted
  <1>4. IdsFresh'
    BY <1>1, <1>2 DEF IdsFresh, OpenRows
  <1>5. OpenRows'
    BY <1>1, <1>2 DEF OpenRows, IsOpen
  <1>6. committed' \cup Open' \subseteq committed \cup Open
    BY <1>1, <1>2 DEF Open
  <1>7. OneRowPerKey'
    BY <1>2, <1>6 DEF OneRowPerKey
  <1>8. Queued'
    BY <1>2 DEF Queued, AcceptedIsQueued
  <1> QED BY <1>3, <1>4, <1>5, <1>7, <1>8

\* The inductive invariant of the ingestion: types, one row per key, and a task
\* for each row whose call is between publish and commit.
THEOREM Invariant == Spec => []IndInv
  <1>1. IndInv /\ [Next]_vars => IndInv'
    <2> SUFFICES ASSUME IndInv, [Next]_vars PROVE IndInv'
      OBVIOUS
    <2>1. CASE UNCHANGED vars
      BY <2>1 DEF vars, IndInv, TypeOK, IdsFresh, OpenRows, IsOpen, OneRowPerKey, Open,
                  Queued, AcceptedIsQueued, Attempted
    <2>2. ASSUME NEW c \in Call, Accept(c) PROVE IndInv'
      BY <2>2, InsertStep, ReplayStep, PublishStep, EndStep DEF Accept
    <2>3. ASSUME NEW i \in Id, Work(i) PROVE IndInv'
      BY <2>3, WorkStep
    <2> QED BY <2>1, <2>2, <2>3 DEF Next
  <1> QED BY <1>1, InitInv, PTL DEF Spec

\* The variables keep their types, for any number of calls, keys and cards.
THEOREM TypeCorrect == Spec => []TypeOK
  BY Invariant, PTL DEF IndInv

\* A committed request has a task in the queue, whatever fails
\* (IngestionService.accept publishes before it commits).
THEOREM AcceptedIsAlwaysQueued == Spec => []AcceptedIsQueued
  BY Invariant, PTL DEF IndInv, Queued

-----------------------------------------------------------------------------
(* The API implements AcceptOnce *)

LEMMA AcceptStep ==
    ASSUME IndInv, [Next]_vars
    PROVE [Acceptance!Next]_{[key |-> r.key, card |-> r.card] : r \in KeyedRows}
  <1> USE DEF IndInv
  <1> DEFINE acc == {[key |-> r.key, card |-> r.card] : r \in KeyedRows}
  <1>1. ASSUME KeyedRows' = KeyedRows PROVE acc' = acc
    BY <1>1
  <1>2. ASSUME NEW c \in Call, Insert(c) PROVE KeyedRows' = KeyedRows
    <2>1. \A i \in committed : i # nextId
      BY DEF IdsFresh, TypeOK, Row, Id
    <2> QED BY <1>2, <2>1 DEF Insert, KeyedRows
  <1>3. ASSUME NEW c \in Call, Commit(c) \/ CommitFails(c), committed' # committed
        PROVE Acceptance!Next \/ KeyedRows' = KeyedRows
    <2>1. IsOpen(c) /\ request[c] \in Open
      BY <1>3 DEF Commit, CommitFails, IsOpen, Open
    <2>2. PICK r \in rows : r.id = request[c]
      BY <2>1 DEF OpenRows
    <2>3. committed' = committed \cup {r.id} /\ rows' = rows
      BY <1>3, <2>2 DEF Commit, CommitFails
    <2>4. CASE r.key = NoKey
      BY <2>2, <2>3, <2>4 DEF KeyedRows, IdsFresh
    <2>5. CASE r.key # NoKey
      <3> DEFINE s == [key |-> r.key, card |-> r.card]
      <3>1. KeyedRows' = KeyedRows \cup {r}
        BY <2>2, <2>3, <2>5 DEF KeyedRows, IdsFresh
      <3>2. acc' = acc \cup {s}
        BY <3>1
      <3>3. s \in Acceptance!Submission
        BY <2>5 DEF TypeOK, Row, Acceptance!Submission
      <3>4. \A t \in KeyedRows : t.key # r.key
        BY <2>1, <2>2, <2>5 DEF KeyedRows, OneRowPerKey, OpenRows
      <3>5. \A t \in acc : t.key # s.key
        BY <3>4
      <3>6. Acceptance!Accept(s)
        BY <3>2, <3>5 DEF Acceptance!Accept
      <3> QED BY <3>3, <3>6 DEF Acceptance!Next
    <2> QED BY <2>4, <2>5
  <1>4. ASSUME rows' = rows, committed' = committed PROVE KeyedRows' = KeyedRows
    BY <1>4 DEF KeyedRows
  <1>5. \/ rows' = rows /\ committed' = committed
        \/ \E c \in Call : Insert(c)
        \/ \E c \in Call : (Commit(c) \/ CommitFails(c)) /\ committed' # committed
    BY DEF Next, Accept, Work, Replay, Publish, PublishFails, Commit, CommitFails, CrashApi,
           Take, Materialize, Acknowledge, WorkFails, Redeliver, vars, api
  <1> QED BY <1>1, <1>2, <1>3, <1>4, <1>5

\* "idempotency get-or-create is repository-owned and database-atomic": among
\* any number of concurrent calls a key is accepted once and for one card.
THEOREM KeysAreAcceptedOnce == Spec => KeysAcceptOnce
  <1>1. Init => Acceptance!Init
    BY DEF Init, Acceptance!Init, KeyedRows
  <1>2. IndInv /\ [Next]_vars =>
            [Acceptance!Next]_{[key |-> r.key, card |-> r.card] : r \in KeyedRows}
    BY AcceptStep
  <1> QED BY <1>1, <1>2, Invariant, PTL DEF Spec, KeysAcceptOnce, Acceptance!Spec

-----------------------------------------------------------------------------
(* The answers of concurrent and repeated calls *)

\* A call whose row is in rows: its own, or the one a replay found.
Served(c) == IsOpen(c) \/ pc[c] = "accepted"

\* An accepted call names a committed row of its key and card, as an open one
\* names its own; a row without key serves one call.
ServedRows ==
    /\ \A c \in Call : Served(c) =>
        /\ \E r \in rows : r.id = request[c] /\ r.key = asked[c].key /\ r.card = asked[c].card
        /\ pc[c] = "accepted" => request[c] \in committed
    /\ \A c, d \in Call :
        Served(c) /\ Served(d) /\ request[c] = request[d] /\ asked[c].key = NoKey => c = d

\* 409 is only answered for a key that another card has taken.
Conflicts ==
    \A c \in Call : pc[c] = "conflict" =>
        \E r \in rows : r.id \in committed /\ r.key = asked[c].key /\ r.card # asked[c].card

\* A row that is neither committed nor of an open transaction is what a call
\* answered with an error left behind.
RowsHaveOwners ==
    \A r \in rows : \/ r.id \in committed \cup Open
                    \/ \E c \in Call : pc[c] = "error" /\ request[c] = r.id

AnswersInv == ServedRows /\ Conflicts /\ RowsHaveOwners

\* What the workers do, and a step that changes nothing, is nothing to it.
LEMMA AnswersQuiet ==
    ASSUME AnswersInv, UNCHANGED api PROVE AnswersInv'
  BY DEF AnswersInv, ServedRows, Served, IsOpen, Conflicts, RowsHaveOwners, Open, api

LEMMA AnswersInsert ==
    ASSUME IndInv, AnswersInv, NEW c \in Call, Insert(c) PROVE AnswersInv'
  <1> USE DEF IndInv, AnswersInv
  <1> DEFINE new == [id |-> nextId, key |-> asked[c].key, card |-> asked[c].card]
  <1>1. /\ rows' = rows \cup {new}
        /\ request'[c] = nextId /\ pc'[c] = "inserted"
        /\ \A d \in Call \ {c} : request'[d] = request[d] /\ pc'[d] = pc[d]
        /\ pc[c] = "idle" /\ UNCHANGED <<asked, committed>>
    BY DEF Insert, TypeOK
  <1>2. \A d \in Call : Served(d) => request[d] # nextId
    BY DEF ServedRows, IdsFresh, TypeOK, Row, Id
  <1>3. ServedRows'
    <2>1. /\ Served(c)' /\ ~ Served(c) /\ pc'[c] # "accepted"
          /\ \A d \in Call \ {c} : Served(d)' = Served(d)
      BY <1>1 DEF Served, IsOpen
    <2>2. new \in rows' /\ new.id = request'[c] /\ new.key = asked'[c].key
          /\ new.card = asked'[c].card
      BY <1>1
    <2>3. ASSUME NEW d \in Call, Served(d)'
          PROVE /\ \E s \in rows' : /\ s.id = request'[d]
                                    /\ s.key = asked'[d].key /\ s.card = asked'[d].card
                /\ pc'[d] = "accepted" => request'[d] \in committed'
      <3>1. CASE d = c
        BY <2>1, <2>2, <3>1
      <3>2. CASE d # c
        BY <1>1, <2>1, <2>3, <3>2 DEF ServedRows
      <3> QED BY <3>1, <3>2
    <2>4. ASSUME NEW d \in Call, NEW e \in Call, Served(d)', Served(e)',
                 request'[d] = request'[e], asked'[d].key = NoKey
          PROVE d = e
      BY <1>1, <1>2, <2>1, <2>4 DEF ServedRows
    <2> QED BY <2>3, <2>4 DEF ServedRows
  <1>4. Conflicts'
    BY <1>1 DEF Conflicts
  <1>5. RowsHaveOwners'
    <2>1. Open' = Open \cup {nextId}
      BY <1>1 DEF Open
    <2> QED BY <1>1, <2>1 DEF RowsHaveOwners
  <1> QED BY <1>3, <1>4, <1>5

\* A replay is answered from the committed row of its key, and that row has a
\* key.
LEMMA AnswersReplay ==
    ASSUME IndInv, AnswersInv, NEW c \in Call, Replay(c) PROVE AnswersInv'
  <1> USE DEF IndInv, AnswersInv
  <1>1. PICK r \in Existing(asked[c].key) :
            /\ pc' = [pc EXCEPT ![c] = IF r.card = asked[c].card THEN "accepted" ELSE "conflict"]
            /\ request' = [request EXCEPT ![c] = r.id]
    BY DEF Replay
  <1>2. r \in rows /\ r.id \in committed /\ r.key = asked[c].key /\ r.key # NoKey
    BY DEF Existing
  <1>3. /\ request'[c] = r.id
        /\ pc'[c] = IF r.card = asked[c].card THEN "accepted" ELSE "conflict"
        /\ \A d \in Call \ {c} : request'[d] = request[d] /\ pc'[d] = pc[d]
        /\ pc[c] = "idle" /\ UNCHANGED <<asked, rows, committed>>
    BY <1>1 DEF Replay, TypeOK
  <1>4. \A d \in Call \ {c} : Served(d)' = Served(d)
    BY <1>3 DEF Served, IsOpen
  <1>5. \A d \in Call : Served(d) /\ request[d] = r.id => asked[d].key = r.key
    BY <1>2 DEF ServedRows, IdsFresh
  <1>6. ServedRows'
    <2>1. ASSUME NEW d \in Call, Served(d)'
          PROVE /\ \E s \in rows' : /\ s.id = request'[d]
                                    /\ s.key = asked'[d].key /\ s.card = asked'[d].card
                /\ pc'[d] = "accepted" => request'[d] \in committed'
      <3>1. CASE d = c
        BY <1>2, <1>3, <2>1, <3>1 DEF Served, IsOpen
      <3>2. CASE d # c
        BY <1>3, <1>4, <2>1, <3>2 DEF ServedRows
      <3> QED BY <3>1, <3>2
    <2>2. ASSUME NEW d \in Call, NEW e \in Call, Served(d)', Served(e)',
                 request'[d] = request'[e], asked'[d].key = NoKey
          PROVE d = e
      <3>1. d # c
        BY <1>2, <1>3, <2>2
      <3>2. e # c
        BY <1>2, <1>3, <1>4, <1>5, <2>2, <3>1
      <3> QED BY <1>3, <1>4, <2>2, <3>1, <3>2 DEF ServedRows
    <2> QED BY <2>1, <2>2 DEF ServedRows
  <1>7. Conflicts'
    <2>1. pc'[c] = "conflict" => r.card # asked[c].card
      BY <1>3
    <2> QED BY <1>2, <1>3, <2>1 DEF Conflicts
  <1>8. RowsHaveOwners'
    <2>1. Open \subseteq Open'
      BY <1>3 DEF Open
    <2> QED BY <1>3, <2>1 DEF RowsHaveOwners
  <1> QED BY <1>6, <1>7, <1>8

\* A transaction goes on or ends: its row stays open, is committed, or stays
\* behind with the error.
LEMMA AnswersEnd ==
    ASSUME IndInv, AnswersInv, NEW c \in Call,
           \/ Publish(c) \/ PublishFails(c)
           \/ Commit(c) \/ CommitFails(c) \/ CrashApi(c)
    PROVE AnswersInv'
  <1> USE DEF IndInv, AnswersInv
  <1>1. /\ IsOpen(c) /\ pc'[c] \in {"published", "accepted", "error"}
        /\ pc'[c] = "accepted" => request[c] \in committed'
        /\ \A d \in Call \ {c} : pc'[d] = pc[d]
        /\ committed \subseteq committed'
        /\ UNCHANGED <<asked, request, rows>>
    BY DEF Publish, PublishFails, Commit, CommitFails, CrashApi, TypeOK, IsOpen
  <1>2. Served(c) /\ \A d \in Call : Served(d)' => Served(d)
    BY <1>1 DEF Served, IsOpen
  <1>3. ServedRows'
    BY <1>1, <1>2 DEF ServedRows
  <1>4. Conflicts'
    BY <1>1 DEF Conflicts
  <1>5. RowsHaveOwners'
    <2>1. ASSUME NEW i \in Open, i # request[c] PROVE i \in Open'
      BY <1>1, <2>1 DEF Open
    <2>2. \/ request[c] \in committed' \cup Open'
          \/ pc'[c] = "error"
      BY <1>1 DEF Open
    <2>3. ASSUME NEW r \in rows
          PROVE \/ r.id \in committed' \cup Open'
                \/ \E d \in Call : pc'[d] = "error" /\ request'[d] = r.id
      <3>1. CASE r.id = request[c]
        BY <1>1, <2>2, <3>1
      <3>2. CASE r.id # request[c] /\ r.id \in committed \cup Open
        BY <1>1, <2>1, <3>2
      <3>3. CASE \E d \in Call : pc[d] = "error" /\ request[d] = r.id
        BY <1>1, <3>3 DEF IsOpen
      <3> QED BY <3>1, <3>2, <3>3 DEF RowsHaveOwners
    <2> QED BY <1>1, <2>3 DEF RowsHaveOwners
  <1> QED BY <1>3, <1>4, <1>5

\* The inductive invariant of the answers, on top of IndInv: every call that is
\* open or was answered can show a row for what it says (IngestionService.accept).
THEOREM AnswersInvariant == Spec => []AnswersInv
  <1>1. Init => AnswersInv
    BY DEF Init, AnswersInv, ServedRows, Served, IsOpen, Conflicts, RowsHaveOwners
  <1>2. IndInv /\ AnswersInv /\ [Next]_vars => AnswersInv'
    <2> SUFFICES ASSUME IndInv, AnswersInv, [Next]_vars PROVE AnswersInv'
      OBVIOUS
    <2>1. CASE UNCHANGED vars
      BY <2>1, AnswersQuiet DEF vars, api
    <2>2. ASSUME NEW c \in Call, Accept(c) PROVE AnswersInv'
      BY <2>2, AnswersInsert, AnswersReplay, AnswersEnd DEF Accept
    <2>3. ASSUME NEW i \in Id, Work(i) PROVE AnswersInv'
      BY <2>3, AnswersQuiet DEF Work, Take, Materialize, Acknowledge, WorkFails, Redeliver
    <2> QED BY <2>1, <2>2, <2>3 DEF Next
  <1> QED BY <1>1, <1>2, Invariant, PTL DEF Spec

\* The answers of concurrent and repeated calls agree: one key has one card and
\* one request id for all who are accepted, 409 names a key that another card
\* has taken, and a key with two tasks has a call that was answered with an
\* error (IngestionService.accept).
THEOREM AnswersAlwaysAgree == Spec => []AnswersAgree
  <1> USE DEF IndInv, AnswersInv
  <1>1. ASSUME IndInv, AnswersInv, NEW c \in Call, NEW d \in Call,
               pc[c] = "accepted", pc[d] = "accepted", c # d
        PROVE IF asked[c].key = asked[d].key /\ asked[c].key # NoKey
              THEN asked[c].card = asked[d].card /\ request[c] = request[d]
              ELSE request[c] # request[d]
    <2>1. PICK r \in rows : /\ r.id = request[c] /\ r.key = asked[c].key
                            /\ r.card = asked[c].card
      BY <1>1 DEF ServedRows, Served
    <2>2. PICK s \in rows : /\ s.id = request[d] /\ s.key = asked[d].key
                            /\ s.card = asked[d].card
      BY <1>1 DEF ServedRows, Served
    <2>3. r.id \in committed /\ s.id \in committed
      BY <1>1, <2>1, <2>2 DEF ServedRows, Served
    <2>4. CASE asked[c].key = asked[d].key /\ asked[c].key # NoKey
      <3>1. r = s
        BY <1>1, <2>1, <2>2, <2>3, <2>4 DEF OneRowPerKey
      <3> QED BY <2>1, <2>2, <2>4, <3>1
    <2>5. CASE request[c] = request[d]
      <3>1. r = s
        BY <1>1, <2>1, <2>2, <2>5 DEF IdsFresh
      <3>2. asked[c].key # NoKey
        BY <1>1, <2>5 DEF ServedRows, Served
      <3> QED BY <2>1, <2>2, <2>4, <3>1, <3>2
    <2> QED BY <2>4, <2>5
  <1>2. ASSUME IndInv, AnswersInv, NEW r \in rows, NEW s \in rows,
               r.key = s.key, r.key # NoKey, r # s
        PROVE \E c \in Call : pc[c] = "error" /\ request[c] \in {r.id, s.id}
    BY <1>2 DEF OneRowPerKey, RowsHaveOwners
  <1>3. IndInv /\ AnswersInv => AnswersAgree
    BY <1>1, <1>2 DEF AnswersAgree, Conflicts
  <1> QED BY <1>3, Invariant, AnswersInvariant, PTL
=============================================================================
