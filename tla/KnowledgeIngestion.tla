------------------------- MODULE KnowledgeIngestion -------------------------
(***************************************************************************)
(* POST /api/v1/cards and the ingestion workers.  A call inserts its       *)
(* request row, publishes a task to the Dramatiq queue in Redis and then   *)
(* commits; a worker embeds the card and materializes it as a node in a    *)
(* transaction of its own.  Calls and workers run concurrently.            *)
(*                                                                         *)
(* A request id comes from a sequence and is never used again, and a       *)
(* request is published once at most, so the id names the task as well.    *)
(* A call that came to an end without an answer the client could use is    *)
(* made again as another call with the same key and card.                  *)
(***************************************************************************)
EXTENDS Naturals, FiniteSets

CONSTANTS
    Call,           \* bound: the calls clients make, retries included
    Key,            \* idempotency keys
    NoKey,          \* no key, or a blank one
    Card,           \* card payloads (equal hashes are equal payloads)
    MaxId,          \* bound: values of the request id sequence
    MaxAttempts,    \* bound: attempts at a message, retries and redeliveries
    Failures        \* the kinds of failure that happen

ASSUME ConstantsAssumption ==
    /\ NoKey \notin Key
    /\ MaxId \in Nat
    /\ MaxAttempts \in Nat \ {0}
    /\ Failures \subseteq {"publish", "answer", "commit", "crash", "work", "redelivery"}

Id == 1..MaxId

Submission == [key : Key \cup {NoKey}, card : Card]

\* An IngestionRequestRow.
Row == [id : Id, key : Key \cup {NoKey}, card : Card]

VARIABLES
    asked,      \* the key and card each call submits
    pc,         \* what each call is doing, or how it ended
    request,    \* the id of the row it inserted or found
    rows,       \* the rows ever inserted
    committed,  \* the ids of the rows that are committed
    nextId,     \* the request id sequence
    task,       \* the message of each request in the queue
    attempts,   \* attempts made at it
    made        \* cards in the graph that were made from it

vars == <<asked, pc, request, rows, committed, nextId, task, attempts, made>>

api == <<asked, pc, request, rows, committed, nextId>>
workers == <<task, attempts, made>>

TypeOK ==
    /\ asked \in [Call -> Submission]
    /\ pc \in [Call -> {"idle", "inserted", "published", "accepted", "conflict", "error"}]
    /\ request \in [Call -> 0..MaxId]
    /\ rows \subseteq Row
    /\ committed \subseteq Id
    /\ nextId \in 1..(MaxId + 1)
    /\ task \in [Id -> {"none", "queued", "running", "written", "done", "dead"}]
    /\ attempts \in [Id -> 0..MaxAttempts]
    /\ made \in [Id -> 0..MaxAttempts]

Init ==
    /\ asked \in [Call -> Submission]
    /\ pc = [c \in Call |-> "idle"]
    /\ request = [c \in Call |-> 0]
    /\ rows = {}
    /\ committed = {}
    /\ nextId = 1
    /\ task = [i \in Id |-> "none"]
    /\ attempts = [i \in Id |-> 0]
    /\ made = [i \in Id |-> 0]

-----------------------------------------------------------------------------
(* IngestionService.accept *)

\* The rows that keep another transaction from inserting key k: the partial
\* unique index has no entry for NULL keys.
Existing(k) == {r \in rows : r.key = k /\ k # NoKey /\ r.id \in committed}

\* The rows of open transactions: an insert of the same key waits for them.
Open == {request[c] : c \in {d \in Call : pc[d] \in {"inserted", "published"}}}

Locked(k) == \E r \in rows : r.key = k /\ k # NoKey /\ r.id \in Open

\* Mutant: no unique index on the key.
InsertUnchecked(c) ==
    /\ pc[c] = "idle" /\ nextId <= MaxId
    /\ pc' = [pc EXCEPT ![c] = "inserted"]
    /\ request' = [request EXCEPT ![c] = nextId]
    /\ rows' = rows \cup {[id |-> nextId, key |-> asked[c].key, card |-> asked[c].card]}
    /\ nextId' = nextId + 1
    /\ UNCHANGED <<asked, committed, workers>>

\* Mutant: the id that comes after the one taken from the sequence.
InsertNextId(c) ==
    /\ pc[c] = "idle" /\ nextId <= MaxId
    /\ ~ Locked(asked[c].key) /\ Existing(asked[c].key) = {}
    /\ pc' = [pc EXCEPT ![c] = "inserted"]
    /\ request' = [request EXCEPT ![c] = nextId + 1]
    /\ rows' = rows \cup {[id |-> nextId + 1, key |-> asked[c].key, card |-> asked[c].card]}
    /\ nextId' = nextId + 1
    /\ UNCHANGED <<asked, committed, workers>>

\* get_or_create_request inserts a row.
Insert(c) ==
    /\ pc[c] = "idle" /\ nextId <= MaxId
    /\ ~ Locked(asked[c].key) /\ Existing(asked[c].key) = {}
    /\ pc' = [pc EXCEPT ![c] = "inserted"]
    /\ request' = [request EXCEPT ![c] = nextId]
    /\ rows' = rows \cup {[id |-> nextId, key |-> asked[c].key, card |-> asked[c].card]}
    /\ nextId' = nextId + 1
    /\ UNCHANGED <<asked, committed, workers>>

\* Mutant: a key used before is a conflict whatever its card.
ReplayConflicts(c) ==
    /\ pc[c] = "idle" /\ ~ Locked(asked[c].key)
    /\ \E r \in Existing(asked[c].key) :
        /\ pc' = [pc EXCEPT ![c] = "conflict"]
        /\ request' = [request EXCEPT ![c] = r.id]
    /\ UNCHANGED <<asked, rows, committed, nextId, workers>>

\* get_or_create_request finds the row of an earlier call.
Replay(c) ==
    /\ pc[c] = "idle" /\ ~ Locked(asked[c].key)
    /\ \E r \in Existing(asked[c].key) :
        /\ pc' = [pc EXCEPT ![c] = IF r.card = asked[c].card THEN "accepted" ELSE "conflict"]
        /\ request' = [request EXCEPT ![c] = r.id]
    /\ UNCHANGED <<asked, rows, committed, nextId, workers>>

Publish(c) ==
    /\ pc[c] = "inserted"
    /\ pc' = [pc EXCEPT ![c] = "published"]
    /\ task' = [task EXCEPT ![request[c]] = "queued"]
    /\ UNCHANGED <<asked, request, rows, committed, nextId, attempts, made>>

\* The publisher raises, before Redis had the message ("publish") or after
\* ("answer"): rollback and 503.
PublishFails(c) ==
    /\ pc[c] = "inserted"
    /\ pc' = [pc EXCEPT ![c] = "error"]
    /\ \/ "publish" \in Failures /\ UNCHANGED task
       \/ "answer" \in Failures /\ task' = [task EXCEPT ![request[c]] = "queued"]
    /\ UNCHANGED <<asked, request, rows, committed, nextId, attempts, made>>

\* Mutant: the row is committed before its task is published.
CommitFirst(c) ==
    /\ pc[c] = "inserted"
    /\ pc' = [pc EXCEPT ![c] = "accepted"]
    /\ committed' = committed \cup {request[c]}
    /\ UNCHANGED <<asked, request, rows, nextId, workers>>

Commit(c) ==
    /\ pc[c] = "published"
    /\ pc' = [pc EXCEPT ![c] = "accepted"]
    /\ committed' = committed \cup {request[c]}
    /\ UNCHANGED <<asked, request, rows, nextId, workers>>

\* The commit raises; the database may have done it nevertheless.
CommitFails(c) ==
    /\ "commit" \in Failures /\ pc[c] = "published"
    /\ pc' = [pc EXCEPT ![c] = "error"]
    /\ committed' \in {committed, committed \cup {request[c]}}
    /\ UNCHANGED <<asked, request, rows, nextId, workers>>

\* The API process dies; the database rolls the transaction back.
CrashApi(c) ==
    /\ "crash" \in Failures /\ pc[c] \in {"inserted", "published"}
    /\ pc' = [pc EXCEPT ![c] = "error"]
    /\ UNCHANGED <<asked, request, rows, committed, nextId, workers>>

-----------------------------------------------------------------------------
(* enqueue_ingestion_task, the actor of the Dramatiq workers *)

Take(i) ==
    /\ task[i] = "queued" /\ attempts[i] < MaxAttempts
    /\ task' = [task EXCEPT ![i] = "running"]
    /\ attempts' = [attempts EXCEPT ![i] = @ + 1]
    /\ UNCHANGED <<api, made>>

\* process_ingestion_job returns: the node, its version and its edges are
\* committed.  Nothing relates them to the request.
Materialize(i) ==
    /\ task[i] = "running"
    /\ task' = [task EXCEPT ![i] = "written"]
    /\ made' = [made EXCEPT ![i] = @ + 1]
    /\ UNCHANGED <<api, attempts>>

Acknowledge(i) ==
    /\ task[i] = "written"
    /\ task' = [task EXCEPT ![i] = "done"]
    /\ UNCHANGED <<api, attempts, made>>

\* Mutant: the exception is swallowed.
WorkFailsSilently(i) ==
    /\ "work" \in Failures /\ task[i] = "running"
    /\ task' = [task EXCEPT ![i] = "done"]
    /\ UNCHANGED <<api, attempts, made>>

\* Embedding or materialization raises: rollback, and Dramatiq enqueues the
\* message again until its retries are used up.
WorkFails(i) ==
    /\ "work" \in Failures /\ task[i] = "running"
    /\ task' = [task EXCEPT ![i] = IF attempts[i] < MaxAttempts THEN "queued" ELSE "dead"]
    /\ UNCHANGED <<api, attempts, made>>

\* The worker dies before it acknowledged the message, which goes back.
Redeliver(i) ==
    /\ "redelivery" \in Failures /\ task[i] \in {"running", "written"}
    /\ attempts[i] < MaxAttempts
    /\ task' = [task EXCEPT ![i] = "queued"]
    /\ UNCHANGED <<api, attempts, made>>

-----------------------------------------------------------------------------

Accept(c) ==
    \/ Insert(c) \/ Replay(c)
    \/ Publish(c) \/ PublishFails(c)
    \/ Commit(c) \/ CommitFails(c) \/ CrashApi(c)

Work(i) == Take(i) \/ Materialize(i) \/ Acknowledge(i) \/ WorkFails(i) \/ Redeliver(i)

Next ==
    \/ \E c \in Call : Accept(c)
    \/ \E i \in Id : Work(i)

Spec == Init /\ [][Next]_vars

\* The workers keep running, and Dramatiq hands a queued message to one.
IngestionFairness ==
    \A i \in Id : WF_vars(Take(i)) /\ WF_vars(Materialize(i)) /\ WF_vars(Acknowledge(i))
FairSpec == Spec /\ IngestionFairness

-----------------------------------------------------------------------------
(* Properties *)

\* "accepted submissions return 202 immediately": no accepted request is
\* without a task, whatever fails between insert, publish and commit.
AcceptedIsQueued == \A i \in committed : task[i] # "none"

\* The answers of concurrent and repeated calls agree: two calls with one key
\* are both accepted only with one card and then get one request id, a call
\* without key has an id of its own; 409 goes only to a call whose key stands
\* for another card; and two tasks for one key need a call that was answered
\* with an error, so that clients that never see one cannot make duplicates,
\* however they race.
AnswersAgree ==
    /\ \A c, d \in Call :
           /\ pc[c] = "accepted" /\ pc[d] = "accepted" /\ c # d =>
               IF asked[c].key = asked[d].key /\ asked[c].key # NoKey
               THEN asked[c].card = asked[d].card /\ request[c] = request[d]
               ELSE request[c] # request[d]
           /\ pc[c] = "conflict" =>
               \E r \in rows : /\ r.id \in committed
                               /\ r.key = asked[c].key /\ r.card # asked[c].card
    /\ \A r, s \in rows :
        r.key = s.key /\ r.key # NoKey /\ r # s =>
            \E c \in Call : pc[c] = "error" /\ request[c] \in {r.id, s.id}

\* "... without enqueueing duplicate ingestion work or materializing
\* duplicate knowledge cards".
OneCardPerSubmission ==
    \A r, s \in rows :
        /\ made[r.id] <= 1
        /\ r.key = s.key /\ r.key # NoKey /\ made[r.id] > 0 /\ made[s.id] > 0 => r = s

\* A key stands for one card for ever (AcceptOnce).
KeyedRows == {r \in rows : r.id \in committed /\ r.key # NoKey}

Acceptance == INSTANCE AcceptOnce
    WITH accepted <- {[key |-> r.key, card |-> r.card] : r \in KeyedRows}

KeysAcceptOnce == Acceptance!Spec

\* Every accepted card gets into the graph, unless all attempts failed.
AcceptedIsMaterialized ==
    \A i \in Id : i \in committed ~> (made[i] > 0 \/ task[i] = "dead")

=============================================================================
