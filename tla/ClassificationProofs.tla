------------------------- MODULE ClassificationProofs -------------------------
(***************************************************************************)
(* Proofs about what classifies cards, and about the schema beneath it.    *)
(* TaxonomyClassification: no card is open to two workers for one scope,   *)
(* every answer takes effect and every moved card is continued.            *)
(* CursorSessions: the outcomes of a batch of agent sessions are true,     *)
(* whatever the tools that outlive their agents do.  SchemaMigrations:     *)
(* however a database is taken up and down, its rows keep their meaning.   *)
(***************************************************************************)
EXTENDS TaxonomyClassification, CursorSessions, SchemaMigrations, OrderingProofs

-----------------------------------------------------------------------------
(* TaxonomyClassification *)

\* How far a scope is below the root, or any other numbering that grows from
\* parents to children.
Depth == CHOOSE depth \in [Scope -> 0..Cardinality(Scope)] :
             \A p \in Child : depth[p[1]] < depth[p[2]]

\* Scope t is s or lies deeper.
Beyond(s, t) == t = s \/ Depth[s] < Depth[t]

\* Local job ids come from a sequence: what is prepared, submitted, linked or
\* handled belongs to a row, and no two rows share an id.
IdsOfRows ==
    /\ \A r \in jobs : r.id < nextId
    /\ \A r, s \in jobs : r.id = s.id => r = s
    /\ prepared \subseteq {r.id : r \in jobs}
    /\ op.jobs \subseteq {r.id : r \in jobs}
    /\ linked \subseteq {r.id : r \in jobs}
    /\ handled \cup placed \subseteq linked
    /\ placed \subseteq handled

\* What the database says about the end of a job is what the queue says.
EndsAgree ==
    /\ \A i \in handled : queue[i] \in {"accepted", "terminal"}
    /\ \A i \in processed : queue[i] = "accepted"
    /\ \A i \in terminal : queue[i] = "terminal"

\* The unique index on active jobs.
OneActiveJob ==
    \A r, s \in Active : r.scope = s.scope /\ r.card = s.card => r = s

\* Cards only go down: the scope a job was made for, or listed for, is the
\* card's scope or above it.
CardsGoDown ==
    /\ \A r \in jobs :
           r.card \notin reassigned => Beyond(r.scope, assigned[r.card])
    /\ op.step = "insert" =>
           \A c \in op.cards : c \notin reassigned => Beyond(op.scope, assigned[c])
    /\ \A r \in jobs :
           r.id \in placed /\ IsChild(r) /\ r.card \notin reassigned
               => Beyond(target[r.id], assigned[r.card])

\* A request names the job made for it.
RequestsNameJobs ==
    /\ todo \subseteq requests
    /\ \A q \in requests : q.next # 0 =>
           \E r \in jobs : r.id = q.next /\ r.scope = q.scope /\ r.card = q.card

\* A tick is done with the requests it prepares before it submits any.
TodoIsPrepared == pc # "prepare" => todo = {}

ClassificationInv ==
    /\ IdsOfRows
    /\ EndsAgree
    /\ OneActiveJob
    /\ CardsGoDown
    /\ RequestsNameJobs
    /\ AnswersTakeEffect
    /\ MovedIsContinued

-----------------------------------------------------------------------------
(* The operators *)

LEMMA Constants ==
    /\ Root \in Scope /\ NumCards \in Nat /\ MaxJobs \in Nat /\ MaxFaults \in Nat
    /\ \A i \in JobId : i \in Nat /\ i # 0
    /\ \A i : i \in JobId <=> i \in Nat /\ 1 <= i /\ i <= MaxJobs
    BY ConstantsAssumption DEF JobId

LEMMA FaultType ==
    ASSUME faults \in 0..MaxFaults, NEW kind, Fault(kind)
    PROVE  faults' \in 0..MaxFaults
    BY Constants DEF Fault

\* create_jobs opens jobs and leaves those that exist alone.
LEMMA CreatedType ==
    ASSUME NEW q \in [JobId -> {"absent", "open", "accepted", "terminal"}], NEW I
    PROVE  /\ Created(q, I) \in [JobId -> {"absent", "open", "accepted", "terminal"}]
           /\ \A i \in JobId : q[i] # "absent" => Created(q, I)[i] = q[i]
    BY DEF Created

\* A set of cards is finite, and numbering it from n in card order uses the
\* values from n to n + Cardinality(C) - 1.
LEMMA CardsNumbered ==
    ASSUME NEW C \in SUBSET Card
    PROVE  /\ IsFiniteSet(C) /\ Cardinality(C) \in Nat
           /\ \A c \in C : /\ Cardinality({d \in C : d < c}) \in Nat
                           /\ Cardinality({d \in C : d < c}) < Cardinality(C)
           /\ \A b, c \in C :
                  Cardinality({d \in C : d < b}) = Cardinality({d \in C : d < c}) => b = c
  <1> DEFINE before(c) == {d \in C : d < c}
  <1>1. C \subseteq Nat /\ IsFiniteSet(C)
    <2>1. IsFiniteSet(Card)
      BY Constants, FS_Interval DEF Card
    <2>2. Card \subseteq Nat
      BY Constants DEF Card
    <2>3. QED
      BY <2>1, <2>2, FS_Subset
  <1>2. \A c \in C : IsFiniteSet(before(c)) /\ before(c) \in SUBSET C
    BY <1>1, FS_Subset
  <1>3. Cardinality(C) \in Nat /\ \A c \in C : Cardinality(before(c)) \in Nat
    BY <1>1, <1>2, FS_CardinalityType
  <1>4. ASSUME NEW S \in SUBSET C, NEW T \in SUBSET S, S # T
        PROVE  Cardinality(T) < Cardinality(S)
    <2>1. IsFiniteSet(S) /\ IsFiniteSet(T)
      BY <1>1, FS_Subset
    <2>2. Cardinality(S) \in Nat /\ Cardinality(T) \in Nat
      BY <2>1, FS_CardinalityType
    <2>3. Cardinality(T) <= Cardinality(S) /\ Cardinality(T) # Cardinality(S)
      BY <1>4, <2>1, FS_Subset
    <2>4. QED
      BY <2>2, <2>3
  <1>5. ASSUME NEW c \in C PROVE Cardinality(before(c)) < Cardinality(C)
    <2>1. c \notin before(c)
      BY <1>1
    <2>2. before(c) # C /\ C \in SUBSET C
      BY <2>1
    <2>3. QED
      BY <1>2, <1>4, <2>2
  <1>6. ASSUME NEW b \in C, NEW c \in C, b < c
        PROVE  Cardinality(before(b)) < Cardinality(before(c))
    <2>1. b \in Nat /\ c \in Nat
      BY <1>1
    <2>2. b \in before(c) /\ b \notin before(b)
      BY <2>1, <1>6
    <2>3. ASSUME NEW d \in before(b) PROVE d \in before(c)
      <3>1. d \in C /\ d \in Nat /\ d < b
        BY <1>1
      <3>2. QED
        BY <2>1, <3>1, <1>6
    <2>4. QED
      BY <1>2, <1>4, <2>2, <2>3
  <1>7. ASSUME NEW b \in C, NEW c \in C, Cardinality(before(b)) = Cardinality(before(c))
        PROVE  b = c
    <2>1. b \in Nat /\ c \in Nat
      BY <1>1
    <2>2. ~ (b < c) /\ ~ (c < b)
      BY <1>3, <1>6, <1>7
    <2>3. QED
      BY <2>1, <2>2
  <1>8. QED
    BY <1>1, <1>3, <1>5, <1>7

\* The rows _create_pending_jobs adds: one per card, under the ids from the
\* sequence value on.
LEMMA NewJobsType ==
    ASSUME TypeOK, op.step = "insert", nextId + Cardinality(op.cards) <= MaxJobs + 1
    PROVE  /\ nextId + Cardinality(op.cards) \in 1..(MaxJobs + 1)
           /\ nextId <= nextId + Cardinality(op.cards)
           /\ \A r \in NewJobs :
                  /\ r \in Job /\ r.scope = op.scope /\ r.card \in op.cards
                  /\ nextId <= r.id /\ r.id < nextId + Cardinality(op.cards)
           /\ \A r, s \in NewJobs : r.id = s.id \/ r.card = s.card => r = s
  <1> DEFINE n(c) == Cardinality({d \in op.cards : d < c})
             row(c) == [id |-> nextId + n(c), scope |-> op.scope, card |-> c]
  <1>1. op.cards \in SUBSET Card /\ op.scope \in Scope /\ nextId \in Nat /\ 1 <= nextId
    BY Constants DEF TypeOK
  <1>2. /\ Cardinality(op.cards) \in Nat
        /\ \A c \in op.cards : n(c) \in Nat /\ n(c) < Cardinality(op.cards)
        /\ \A b, c \in op.cards : n(b) = n(c) => b = c
    BY <1>1, CardsNumbered
  <1>3. ASSUME NEW c \in op.cards
        PROVE  /\ row(c) \in Job
               /\ nextId <= row(c).id /\ row(c).id < nextId + Cardinality(op.cards)
    <2>1. nextId + n(c) \in JobId /\ nextId <= nextId + n(c)
          /\ nextId + n(c) < nextId + Cardinality(op.cards)
      BY <1>1, <1>2, Constants
    <2>2. QED
      BY <1>1, <2>1 DEF Job
  <1>4. \A r \in NewJobs : \E c \in op.cards : r = row(c)
    BY DEF NewJobs
  <1>5. ASSUME NEW b \in op.cards, NEW c \in op.cards, row(b).id = row(c).id
        PROVE  b = c
    <2>1. n(b) \in Nat /\ n(c) \in Nat /\ nextId + n(b) = nextId + n(c)
      BY <1>2, <1>5
    <2>2. n(b) = n(c)
      BY <1>1, <2>1
    <2>3. QED
      BY <1>2, <2>2
  <1>6. ASSUME NEW r \in NewJobs, NEW s \in NewJobs, r.id = s.id \/ r.card = s.card
        PROVE  r = s
    <2>1. PICK b \in op.cards : r = row(b)
      BY <1>4
    <2>2. PICK c \in op.cards : s = row(c)
      BY <1>4
    <2>3. r.card = b /\ s.card = c
      BY <2>1, <2>2
    <2>4. b = c
      BY <1>5, <1>6, <2>1, <2>2, <2>3
    <2>5. QED
      BY <2>1, <2>2, <2>4
  <1>7. ASSUME NEW r \in NewJobs
        PROVE  /\ r \in Job /\ r.scope = op.scope /\ r.card \in op.cards
               /\ nextId <= r.id /\ r.id < nextId + Cardinality(op.cards)
    <2>1. PICK c \in op.cards : r = row(c)
      BY <1>4
    <2>2. r.scope = op.scope /\ r.card = c
      BY <2>1
    <2>3. QED
      BY <1>3, <2>1, <2>2
  <1>8. /\ nextId + Cardinality(op.cards) \in 1..(MaxJobs + 1)
        /\ nextId <= nextId + Cardinality(op.cards)
    BY <1>1, <1>2, Constants
  <1>9. QED
    BY <1>6, <1>7, <1>8

-----------------------------------------------------------------------------
(* Type correctness *)

LEMMA TypeHandleEvent ==
    ASSUME TypeOK, NEW i \in JobId, HandleEvent(i)
    PROVE  TypeOK'
  <1> USE DEF TypeOK
  <1>1. /\ batch' \subseteq JobId
        /\ UNCHANGED <<events, pc, todo, prepared, op, reassigned, queue, target>>
    BY DEF HandleEvent, remote
  <1>2. CASE UnknownJob(i)
    BY <1>1, <1>2 DEF UnknownJob, MarkFailed, store
  <1>3. CASE ReadFails(i)
    BY <1>1, <1>3, FaultType DEF ReadFails, MarkFailed, store
  <1>4. CASE Ended(i)
    BY <1>1, <1>4 DEF Ended, MarkProcessed
  <1>5. CASE RejectResult(i)
    BY <1>1, <1>5 DEF RejectResult, HasResult, MarkProcessed
  <1>6. CASE KeepCard(i)
    BY <1>1, <1>6 DEF KeepCard, HasResult, MarkProcessed, Browsable
  <1>7. CASE MoveCard(i)
    <2>1. PICK r \in jobs :
            /\ assigned' = [assigned EXCEPT ![r.card] = target[i]]
            /\ dirty' = dirty \cup Browsable({r.scope, target[i]})
            /\ requests' = Requested(requests, target[i], r.card)
      BY <1>7 DEF MoveCard
    <2>2. r.card \in Card /\ r.scope \in Scope /\ target[i] \in Scope
      BY DEF Job
    <2>3. requests' \subseteq Request
      BY <2>1, <2>2, Constants DEF Requested, Request
    <2>4. QED
      BY <1>1, <1>7, <2>1, <2>2, <2>3 DEF MoveCard, HasResult, MarkProcessed, Browsable
  <1>8. QED
    BY <1>2, <1>3, <1>4, <1>5, <1>6, <1>7 DEF HandleEvent

LEMMA TypePrepare ==
    ASSUME TypeOK, NEW q \in todo, Prepare(q)
    PROVE  TypeOK'
  <1> USE DEF TypeOK
  <1>1. /\ todo' \subseteq todo /\ q \in Request
        /\ UNCHANGED <<assigned, linked, processed, terminal, placed, dirty, events, handled,
                       pc, batch, op, reassigned, queue, target, faults>>
    BY DEF Prepare, remote
  <1>2. CASE DropRequest(q)
    BY <1>1, <1>2 DEF DropRequest
  <1>3. CASE ReuseJob(q)
    BY <1>1, <1>3 DEF ReuseJob, ActiveFor, Active, Job
  <1>4. CASE MakeJob(q)
    <2>1. nextId \in JobId /\ nextId + 1 \in 1..(MaxJobs + 1) /\ nextId \in 0..MaxJobs
      BY <1>4, Constants DEF MakeJob
    <2>2. [id |-> nextId, scope |-> q.scope, card |-> q.card] \in Job
      BY <1>1, <2>1 DEF Job, Request
    <2>3. [q EXCEPT !.next = nextId] \in Request
      BY <1>1, <2>1 DEF Request
    <2>4. QED
      BY <1>1, <1>4, <2>1, <2>2, <2>3 DEF MakeJob
  <1>5. QED
    BY <1>2, <1>3, <1>4 DEF Prepare

LEMMA NoRunType ==
    NoRun \in [step : {"idle", "recover", "recovered", "list", "insert", "submit", "submitted"},
               scope : Scope, jobs : SUBSET JobId, cards : SUBSET Card]
    BY Constants DEF NoRun

LEMMA TypeOperator ==
    ASSUME TypeOK, Operator
    PROVE  TypeOK'
  <1> USE DEF TypeOK
  <1>1. ASSUME NEW s \in Scope, OpStart(s) PROVE TypeOK'
    <2>1. Unlinked(s) \subseteq JobId
      BY DEF Unlinked, Active, Job
    <2>2. QED
      BY <1>1, <2>1 DEF OpStart, store, session, remote
  <1>2. ASSUME OpCreate PROVE TypeOK'
    BY <1>2, CreatedType DEF OpCreate, OpStep, store, session
  <1>3. ASSUME OpLink PROVE TypeOK'
    BY <1>3 DEF OpLink, OpStep, session, remote
  <1>4. ASSUME OpList PROVE TypeOK'
    <2>1. WithoutJob(op.scope) \subseteq Card
      BY DEF WithoutJob
    <2>2. QED
      BY <1>4, <2>1, NoRunType DEF OpList, store, session, remote
  <1>5. ASSUME OpInsert PROVE TypeOK'
    <2>1. CASE op' = NoRun /\ UNCHANGED <<jobs, nextId>>
      BY <1>5, <2>1, NoRunType DEF OpInsert, session, remote
    <2>2. CASE /\ nextId + Cardinality(op.cards) <= MaxJobs + 1
               /\ jobs' = jobs \cup NewJobs
               /\ nextId' = nextId + Cardinality(op.cards)
               /\ op' = [op EXCEPT !.step = "submit", !.jobs = {r.id : r \in NewJobs}]
      <3>1. /\ nextId' \in 1..(MaxJobs + 1) /\ NewJobs \subseteq Job
            /\ {r.id : r \in NewJobs} \subseteq JobId
        BY <1>5, <2>2, NewJobsType DEF OpInsert, Job
      <3>2. op' \in [step : {"idle", "recover", "recovered", "list", "insert", "submit",
                             "submitted"},
                     scope : Scope, jobs : SUBSET JobId, cards : SUBSET Card]
        BY <2>2, <3>1
      <3>3. QED
        BY <1>5, <2>2, <3>1, <3>2 DEF OpInsert, session, remote
    <2>3. QED
      BY <1>5, <2>1, <2>2 DEF OpInsert
  <1>6. ASSUME OpDies PROVE TypeOK'
    BY <1>6, FaultType, NoRunType DEF OpDies, store, session, remote
  <1>7. ASSUME NEW c \in Card, NEW s \in Scope, Reassign(c, s) PROVE TypeOK'
    BY <1>7, FaultType DEF Reassign, session, remote
  <1>8. QED
    BY <1>1, <1>2, <1>3, <1>4, <1>5, <1>6, <1>7 DEF Operator, OpGoes

\* Every variable keeps its type (TypeOK of TaxonomyClassification).
THEOREM ClassificationTypeCorrect == Spec => []TypeOK
  <1> USE DEF TypeOK
  <1>1. Init => TypeOK
    BY Constants, NoRunType DEF Init
  <1>2. TypeOK /\ [Next]_vars => TypeOK'
    <2> SUFFICES ASSUME TypeOK, [Next]_vars PROVE TypeOK'
      OBVIOUS
    <2>1. ASSUME NEW i \in JobId, NEW t \in Scope, Accept(i, t) PROVE TypeOK'
      BY <2>1 DEF Accept, store, session
    <2>2. ASSUME NEW i \in JobId, EndJob(i) PROVE TypeOK'
      BY <2>2 DEF EndJob, store, session
    <2>3. ASSUME NEW i \in JobId, DeliverEvent(i) PROVE TypeOK'
      BY <2>3 DEF DeliverEvent, store, session, remote
    <2>4. ASSUME TickEvents PROVE TypeOK'
      <3>1. batch' \subseteq {events[k] : k \in DOMAIN events}
        BY <2>4 DEF TickEvents, FirstOf, Pending
      <3>2. batch' \subseteq JobId
        BY <3>1
      <3>3. QED
        BY <2>4, <3>2 DEF TickEvents, store, remote
    <2>5. ASSUME EndBatch \/ TickContinue \/ EndPrepare PROVE TypeOK'
      BY <2>5 DEF EndBatch, TickContinue, EndPrepare, store, remote
    <2>6. ASSUME CreateJobs PROVE TypeOK'
      BY <2>6, CreatedType DEF CreateJobs, store
    <2>7. ASSUME CreateFails PROVE TypeOK'
      BY <2>7, CreatedType, FaultType DEF CreateFails, store
    <2>8. ASSUME LinkJobs PROVE TypeOK'
      BY <2>8 DEF LinkJobs, remote
    <2>9. ASSUME DropRequests PROVE TypeOK'
      BY <2>9 DEF DropRequests, remote
    <2>10. ASSUME NEW s \in Scope, Refresh(s) PROVE TypeOK'
      BY <2>10 DEF Refresh, session, remote
    <2>11. ASSUME Crash PROVE TypeOK'
      BY <2>11, FaultType DEF Crash, store, remote
    <2>12. CASE UNCHANGED vars
      BY <2>12 DEF vars, store, session, remote
    <2>13. QED
      BY <2>1, <2>2, <2>3, <2>4, <2>5, <2>6, <2>7, <2>8, <2>9, <2>10, <2>11, <2>12,
         TypeHandleEvent, TypePrepare, TypeOperator
      DEF Next, Workers, Runtime
  <1>3. QED
    BY <1>1, <1>2, PTL DEF Spec

\* The tree has no cycle, so a card that only goes down does not come back.
LEMMA DepthGrows ==
    /\ \A s \in Scope : Depth[s] \in Int
    /\ \A s, t \in Scope : <<s, t>> \in Child => Depth[s] < Depth[t]
  <1> DEFINE Deeper(depth) == \A p \in Child : depth[p[1]] < depth[p[2]]
  <1>1. \E depth \in [Scope -> 0..Cardinality(Scope)] : Deeper(depth)
    BY ConstantsAssumption
  <1>2. Depth \in [Scope -> 0..Cardinality(Scope)] /\ Deeper(Depth)
    BY <1>1 DEF Depth
  <1>3. ASSUME NEW s \in Scope, NEW t \in Scope, <<s, t>> \in Child
        PROVE  Depth[s] < Depth[t]
    <2>1. <<s, t>>[1] = s /\ <<s, t>>[2] = t
      OBVIOUS
    <2>2. QED
      BY <1>2, <1>3, <2>1
  <1>4. QED
    BY <1>2, <1>3

LEMMA BeyondIsOrder ==
    /\ \A s \in Scope : Beyond(s, s) /\ <<s, s>> \notin Child
    /\ \A s, t, u \in Scope :
           Beyond(s, t) /\ <<t, u>> \in Child => Beyond(s, u) /\ s # u
    BY DepthGrows DEF Beyond

\* What the parts of the invariant depend on: they survive every step that
\* leaves this alone.
LEMMA IdsFrame ==
    ASSUME IdsOfRows, UNCHANGED <<jobs, nextId, linked, handled, placed>>,
           prepared' \subseteq prepared, op'.jobs \subseteq {r.id : r \in jobs}
    PROVE  IdsOfRows'
    BY DEF IdsOfRows

LEMMA EndsFrame ==
    ASSUME EndsAgree, UNCHANGED <<handled, processed, terminal>>,
           TypeOK, \A i \in JobId : queue[i] \in {"accepted", "terminal"} => queue'[i] = queue[i]
    PROVE  EndsAgree'
    BY DEF EndsAgree, TypeOK

LEMMA ActiveFrame ==
    ASSUME OneActiveJob, UNCHANGED jobs,
           processed \subseteq processed', terminal \subseteq terminal'
    PROVE  OneActiveJob'
    BY DEF OneActiveJob, Active

LEMMA DownFrame ==
    ASSUME CardsGoDown, UNCHANGED <<jobs, assigned, reassigned, placed>>,
           op' = op \/ op'.step # "insert",
           \A i \in placed : target'[i] = target[i]
    PROVE  CardsGoDown'
    BY DEF CardsGoDown, IsChild

LEMMA RequestsFrame ==
    ASSUME RequestsNameJobs, UNCHANGED requests,
           todo' \subseteq requests, jobs \subseteq jobs'
    PROVE  RequestsNameJobs'
    BY DEF RequestsNameJobs

LEMMA AnswersFrame ==
    ASSUME AnswersTakeEffect, UNCHANGED <<jobs, assigned, reassigned, handled>>,
           \A i \in handled : queue'[i] = queue[i] /\ target'[i] = target[i]
    PROVE  AnswersTakeEffect'
    BY DEF AnswersTakeEffect, IsChild

LEMMA MovedFrame ==
    ASSUME MovedIsContinued, UNCHANGED <<jobs, assigned, reassigned, placed, requests>>,
           \A i \in placed : target'[i] = target[i]
    PROVE  MovedIsContinued'
    BY DEF MovedIsContinued, IsChild

\* A step that only works on the session, the operator's run or jobs the
\* queue has not finished.
LEMMA QuietStep ==
    ASSUME TypeOK, ClassificationInv,
           UNCHANGED <<assigned, jobs, linked, processed, terminal, placed, nextId, requests,
                       handled, reassigned>>,
           prepared' \subseteq prepared, todo' \subseteq requests,
           op'.jobs \subseteq {r.id : r \in jobs}, op' = op \/ op'.step # "insert",
           \A i \in JobId : queue[i] \in {"accepted", "terminal"} =>
               queue'[i] = queue[i] /\ target'[i] = target[i]
    PROVE  ClassificationInv'
  <1>1. \A i \in handled : queue'[i] = queue[i] /\ target'[i] = target[i]
    BY DEF ClassificationInv, EndsAgree, TypeOK
  <1>2. \A i \in placed : target'[i] = target[i]
    BY <1>1 DEF ClassificationInv, IdsOfRows
  <1>3. QED
    BY <1>1, <1>2, IdsFrame, EndsFrame, ActiveFrame, DownFrame, RequestsFrame, AnswersFrame,
       MovedFrame DEF ClassificationInv

\* Asking for a continuation keeps the requests there are.
LEMMA RequestedKeeps ==
    ASSUME NEW R, NEW s, NEW c
    PROVE  /\ R \subseteq Requested(R, s, c)
           /\ \E q \in Requested(R, s, c) : q.scope = s /\ q.card = c
           /\ \A q \in Requested(R, s, c) : q \in R \/ q.next = 0
  <1> DEFINE new == [scope |-> s, card |-> c, next |-> 0]
  <1>1. CASE \E q \in R : q.scope = s /\ q.card = c
    <2>1. Requested(R, s, c) = R
      BY <1>1 DEF Requested
    <2>2. QED
      BY <1>1, <2>1
  <1>2. CASE ~ \E q \in R : q.scope = s /\ q.card = c
    <2>1. Requested(R, s, c) = R \cup {new}
      BY <1>2 DEF Requested
    <2>2. new.scope = s /\ new.card = c /\ new.next = 0
      OBVIOUS
    <2>3. QED
      BY <2>1, <2>2
  <1>3. QED
    BY <1>1, <1>2

\* The queue, its workers and the receiver.
LEMMA InvRemote ==
    ASSUME TypeOK, ClassificationInv, Workers \/ \E i \in JobId : DeliverEvent(i)
    PROVE  ClassificationInv'
  <1>1. todo \subseteq requests /\ op.jobs \subseteq {r.id : r \in jobs}
    BY DEF ClassificationInv, RequestsNameJobs, IdsOfRows
  <1>2. ASSUME NEW i \in JobId, NEW t \in Scope, Accept(i, t) PROVE ClassificationInv'
    BY <1>1, <1>2, QuietStep DEF Accept, store, session, TypeOK
  <1>3. ASSUME NEW i \in JobId, EndJob(i) PROVE ClassificationInv'
    BY <1>1, <1>3, QuietStep DEF EndJob, store, session, TypeOK
  <1>4. ASSUME NEW i \in JobId, DeliverEvent(i) PROVE ClassificationInv'
    BY <1>1, <1>4, QuietStep DEF DeliverEvent, store, session, remote
  <1>5. QED
    BY <1>2, <1>3, <1>4 DEF Workers

\* The steps of the runtime that change none of its rows.
LEMMA InvSession ==
    ASSUME TypeOK, ClassificationInv,
           \/ TickEvents \/ EndBatch \/ TickContinue \/ EndPrepare
           \/ CreateJobs \/ CreateFails \/ Crash
           \/ \E s \in Scope : Refresh(s)
    PROVE  ClassificationInv'
  <1>1. todo \subseteq requests /\ op.jobs \subseteq {r.id : r \in jobs}
    BY DEF ClassificationInv, RequestsNameJobs, IdsOfRows
  <1>2. CASE TickEvents \/ EndBatch
    BY <1>1, <1>2, QuietStep DEF TickEvents, EndBatch, store, remote
  <1>3. CASE TickContinue \/ EndPrepare
    BY <1>1, <1>3, QuietStep DEF TickContinue, EndPrepare, store, remote
  <1>4. CASE CreateJobs \/ CreateFails
    <2>1. \A i \in JobId : queue[i] \in {"accepted", "terminal"} => queue'[i] = queue[i]
      BY <1>4, CreatedType DEF CreateJobs, CreateFails, TypeOK
    <2>2. QED
      BY <1>1, <1>4, <2>1, QuietStep DEF CreateJobs, CreateFails, store
  <1>5. CASE Crash
    BY <1>1, <1>5, QuietStep DEF Crash, store, remote
  <1>6. ASSUME NEW s \in Scope, Refresh(s) PROVE ClassificationInv'
    BY <1>1, <1>6, QuietStep DEF Refresh, session, remote
  <1>7. QED
    BY <1>2, <1>3, <1>4, <1>5, <1>6

\* Linking the jobs a submission has created.
LEMMA InvLink ==
    ASSUME TypeOK, ClassificationInv, LinkJobs \/ OpLink
    PROVE  ClassificationInv'
  <1>1. /\ UNCHANGED <<assigned, jobs, processed, terminal, placed, nextId, requests, handled,
                       prepared, todo, reassigned, queue, target>>
        /\ linked \subseteq linked'
        /\ linked' \subseteq linked \cup {r.id : r \in jobs}
        /\ op'.jobs = op.jobs
        /\ op' = op \/ op'.step # "insert"
    BY DEF LinkJobs, OpLink, OpStep, session, remote, ClassificationInv, IdsOfRows, TypeOK
  <1>2. IdsOfRows'
    BY <1>1 DEF ClassificationInv, IdsOfRows
  <1>3. QED
    BY <1>1, <1>2, EndsFrame, ActiveFrame, DownFrame, RequestsFrame, AnswersFrame, MovedFrame
    DEF ClassificationInv, RequestsNameJobs

\* Events: what is common to all results.
LEMMA InvHandleEvent ==
    ASSUME TypeOK, ClassificationInv, NEW i \in JobId, HandleEvent(i)
    PROVE  ClassificationInv'
  <1>1. /\ UNCHANGED <<todo, prepared, op, reassigned, queue, target>>
        /\ todo \subseteq requests /\ op.jobs \subseteq {r.id : r \in jobs}
    BY DEF HandleEvent, remote, ClassificationInv, RequestsNameJobs, IdsOfRows
  <1>2. CASE UnknownJob(i) \/ ReadFails(i)
    BY <1>1, <1>2, QuietStep DEF UnknownJob, ReadFails, MarkFailed, store
  <1>3. CASE Ended(i)
    <2>1. /\ UNCHANGED <<assigned, jobs, linked, processed, placed, nextId, requests>>
          /\ terminal' = terminal \cup {i} /\ handled' = handled \cup {i}
          /\ i \in linked /\ queue[i] = "terminal"
      BY <1>3 DEF Ended, MarkProcessed
    <2>2. IdsOfRows' /\ EndsAgree'
      BY <1>1, <2>1 DEF ClassificationInv, IdsOfRows, EndsAgree
    <2>3. AnswersTakeEffect'
      BY <1>1, <2>1 DEF ClassificationInv, AnswersTakeEffect, IsChild
    <2>4. QED
      BY <1>1, <2>1, <2>2, <2>3, ActiveFrame, DownFrame, RequestsFrame, MovedFrame
      DEF ClassificationInv
  <1>4. CASE HasResult(i) /\ processed' = processed \cup {i} /\ placed' \subseteq placed \cup {i}
             /\ placed \subseteq placed'
             /\ (RejectResult(i) \/ KeepCard(i) \/ MoveCard(i))
    <2>1. /\ UNCHANGED <<jobs, linked, terminal, nextId>>
          /\ handled' = handled \cup {i}
          /\ i \in linked /\ queue[i] = "accepted"
      BY <1>4 DEF HasResult, MarkProcessed
    <2>2. IdsOfRows' /\ EndsAgree' /\ OneActiveJob'
      <3>1. IdsOfRows'
        BY <1>1, <1>4, <2>1 DEF ClassificationInv, IdsOfRows
      <3>2. EndsAgree'
        BY <1>1, <1>4, <2>1 DEF ClassificationInv, EndsAgree
      <3>3. QED
        BY <1>4, <2>1, <3>1, <3>2, ActiveFrame DEF ClassificationInv
    <2>3. \A r \in jobs : /\ r.id \in JobId /\ r.card \in Card /\ r.scope \in Scope
                          /\ assigned[r.card] \in Scope /\ target[r.id] \in Scope
                          /\ IsChild(r)' = IsChild(r)
      BY <1>1 DEF TypeOK, Job, IsChild
    <2>4. \A r, s \in jobs : r.id = i /\ s.id = i => r = s
      BY DEF ClassificationInv, IdsOfRows
    <2>5. CASE RejectResult(i)
      <3>1. UNCHANGED <<assigned, placed, requests>>
        BY <2>5 DEF RejectResult
      <3>2. \A r \in jobs : r.id = i => ~ IsChild(r) \/ assigned[r.card] # r.scope
        BY <2>5 DEF RejectResult
      <3>3. AnswersTakeEffect'
        BY <1>1, <2>1, <2>3, <3>1, <3>2 DEF ClassificationInv, AnswersTakeEffect
      <3>4. QED
        BY <1>1, <2>1, <2>2, <3>1, <3>3, DownFrame, RequestsFrame, MovedFrame
        DEF ClassificationInv
    <2>6. CASE KeepCard(i)
      <3>1. PICK r \in jobs : r.id = i /\ target[i] = r.scope
        BY <2>6 DEF KeepCard
      <3>2. UNCHANGED <<assigned, requests>> /\ placed' = placed \cup {i}
        BY <2>6 DEF KeepCard
      <3>3. \A s \in jobs : s.id = i => ~ IsChild(s)
        BY <2>3, <2>4, <3>1, BeyondIsOrder DEF IsChild
      <3>4. AnswersTakeEffect'
        BY <1>1, <2>1, <2>3, <3>2, <3>3 DEF ClassificationInv, AnswersTakeEffect
      <3>5. MovedIsContinued'
        BY <1>1, <2>1, <2>3, <3>2, <3>3 DEF ClassificationInv, MovedIsContinued
      <3>6. CardsGoDown'
        BY <1>1, <2>1, <2>3, <3>2, <3>3 DEF ClassificationInv, CardsGoDown
      <3>7. QED
        BY <1>1, <2>1, <2>2, <3>2, <3>4, <3>5, <3>6, RequestsFrame DEF ClassificationInv
    <2>7. CASE MoveCard(i)
      <3>1. PICK r \in jobs :
              /\ r.id = i /\ IsChild(r) /\ assigned[r.card] = r.scope
              /\ assigned' = [assigned EXCEPT ![r.card] = target[i]]
              /\ requests' = Requested(requests, target[i], r.card)
        BY <2>7 DEF MoveCard
      <3>2. placed' = placed \cup {i}
        BY <2>7 DEF MoveCard
      <3>3. /\ <<assigned[r.card], target[i]>> \in Child
            /\ target[i] \in Scope
            /\ assigned'[r.card] = target[i]
            /\ \A c \in Card : c # r.card => assigned'[c] = assigned[c]
        BY <2>3, <3>1 DEF IsChild, TypeOK
      <3>4. \A s \in jobs : s.id = i => s = r
        BY <2>4, <3>1
      \* Whatever was above the card is still above it, and not its scope.
      <3>5. \A s \in Scope : Beyond(s, assigned[r.card]) =>
                Beyond(s, target[i]) /\ s # target[i]
        BY <2>3, <3>1, <3>3, BeyondIsOrder
      <3>6. CardsGoDown'
        <4>1. ASSUME NEW s \in jobs, s.card \notin reassigned
              PROVE  Beyond(s.scope, assigned'[s.card])
          BY <2>3, <3>3, <3>5, <4>1 DEF ClassificationInv, CardsGoDown
        <4>2. ASSUME op.step = "insert", NEW c \in op.cards, c \notin reassigned
              PROVE  Beyond(op.scope, assigned'[c])
          <5>1. c \in Card /\ op.scope \in Scope
            BY DEF TypeOK
          <5>2. QED
            BY <3>3, <3>5, <4>2, <5>1 DEF ClassificationInv, CardsGoDown
        <4>3. ASSUME NEW s \in jobs, s.id \in placed', IsChild(s), s.card \notin reassigned
              PROVE  Beyond(target[s.id], assigned'[s.card])
          <5>1. CASE s.id \in placed
            BY <2>3, <3>3, <3>5, <4>3, <5>1 DEF ClassificationInv, CardsGoDown
          <5>2. CASE s.id = i
            BY <3>1, <3>3, <3>4, <5>2, BeyondIsOrder
          <5>3. QED
            BY <3>2, <4>3, <5>1, <5>2
        <4>4. QED
          BY <1>1, <2>1, <2>3, <4>1, <4>2, <4>3 DEF CardsGoDown
      <3>7. AnswersTakeEffect'
        <4>1. ASSUME NEW s \in jobs, s.id \in handled', queue[s.id] = "accepted", IsChild(s),
                     s.card \notin reassigned
              PROVE  assigned'[s.card] # s.scope
          <5>1. CASE s.card = r.card
            BY <2>3, <3>3, <3>5, <4>1, <5>1 DEF ClassificationInv, CardsGoDown
          <5>2. CASE s.card # r.card
            BY <2>1, <2>3, <3>1, <3>3, <3>4, <4>1, <5>2 DEF ClassificationInv, AnswersTakeEffect
          <5>3. QED
            BY <5>1, <5>2
        <4>2. QED
          BY <1>1, <2>1, <2>3, <4>1 DEF AnswersTakeEffect
      <3>8. /\ requests \subseteq requests'
            /\ \E q \in requests' : q.scope = target[i] /\ q.card = r.card
            /\ \A q \in requests' : q \in requests \/ q.next = 0
        BY <3>1, RequestedKeeps
      <3>9. MovedIsContinued'
        <4>1. ASSUME NEW s \in jobs, s.id \in placed', IsChild(s), HasChildren(target[s.id]),
                     assigned'[s.card] = target[s.id], s.card \notin reassigned
              PROVE  \/ \E q \in requests' : q.scope = target[s.id] /\ q.card = s.card
                     \/ \E k \in jobs : k.scope = target[s.id] /\ k.card = s.card
          <5>1. CASE s.card = r.card
            BY <3>3, <3>8, <4>1, <5>1
          <5>2. CASE s.card # r.card
            <6>1. s.id \in placed
              BY <3>2, <3>4, <4>1, <5>2
            <6>2. QED
              BY <2>3, <3>3, <3>8, <4>1, <5>2, <6>1 DEF ClassificationInv, MovedIsContinued
          <5>3. QED
            BY <5>1, <5>2
        <4>2. QED
          BY <1>1, <2>1, <2>3, <4>1 DEF MovedIsContinued
      <3>10. RequestsNameJobs'
        BY <1>1, <2>1, <3>8 DEF ClassificationInv, RequestsNameJobs
      <3>11. QED
        BY <2>2, <3>6, <3>7, <3>9, <3>10 DEF ClassificationInv
    <2>8. QED
      BY <1>4, <2>5, <2>6, <2>7
  <1>5. QED
    BY <1>2, <1>3, <1>4 DEF HandleEvent, RejectResult, KeepCard, MoveCard

\* Continuation: a request is dropped, or its job found or made.
LEMMA InvPrepare ==
    ASSUME TypeOK, ClassificationInv, NEW q \in todo, Prepare(q)
    PROVE  ClassificationInv'
  <1>1. /\ UNCHANGED <<assigned, linked, processed, terminal, placed, handled, op, reassigned,
                       queue, target>>
        /\ todo' = todo \ {q} /\ q \in requests /\ q \in Request
    BY DEF Prepare, remote, ClassificationInv, RequestsNameJobs, TypeOK
  <1>2. CASE DropRequest(q)
    <2>1. UNCHANGED <<jobs, nextId, prepared>> /\ requests' = requests \ {q} /\ Superseded(q)
      BY <1>2 DEF DropRequest
    <2>2. RequestsNameJobs'
      BY <1>1, <2>1 DEF ClassificationInv, RequestsNameJobs
    <2>3. MovedIsContinued'
      <3>1. ASSUME NEW r \in jobs, r.id \in placed, IsChild(r), HasChildren(target[r.id]),
                   assigned[r.card] = target[r.id], r.card \notin reassigned
            PROVE  \/ \E p \in requests' : p.scope = target[r.id] /\ p.card = r.card
                   \/ \E s \in jobs : s.scope = target[r.id] /\ s.card = r.card
        <4>1. CASE q.scope = target[r.id] /\ q.card = r.card
          BY <2>1, <3>1, <4>1 DEF Superseded, ActiveFor, Active
        <4>2. CASE ~ (q.scope = target[r.id] /\ q.card = r.card)
          BY <2>1, <3>1, <4>2 DEF ClassificationInv, MovedIsContinued
        <4>3. QED
          BY <4>1, <4>2
      <3>2. QED
        BY <1>1, <2>1, <3>1 DEF MovedIsContinued, IsChild
    <2>4. QED
      BY <1>1, <2>1, <2>2, <2>3, IdsFrame, EndsFrame, ActiveFrame, DownFrame, AnswersFrame
      DEF ClassificationInv, IdsOfRows
  <1>3. CASE ReuseJob(q)
    <2>1. /\ UNCHANGED <<jobs, nextId, requests>>
          /\ \E r \in jobs : prepared' = prepared \cup {r.id}
      BY <1>3 DEF ReuseJob, ActiveFor, Active
    <2>2. IdsOfRows'
      BY <1>1, <2>1 DEF ClassificationInv, IdsOfRows
    <2>3. QED
      BY <1>1, <2>1, <2>2, EndsFrame, ActiveFrame, DownFrame, RequestsFrame, AnswersFrame,
         MovedFrame DEF ClassificationInv, RequestsNameJobs
  <1>4. CASE MakeJob(q)
    <2> DEFINE new == [id |-> nextId, scope |-> q.scope, card |-> q.card]
               asked == [q EXCEPT !.next = nextId]
    <2>1. /\ jobs' = jobs \cup {new} /\ nextId' = nextId + 1
          /\ requests' = (requests \ {q}) \cup {asked}
          /\ prepared' = prepared \cup {nextId}
          /\ assigned[q.card] = q.scope
          /\ ActiveFor(q.scope, q.card) = {}
          /\ nextId \in JobId
      BY <1>4, Constants DEF MakeJob, Superseded, TypeOK
    <2>2. /\ new.id = nextId /\ new.scope = q.scope /\ new.card = q.card
          /\ asked.next = nextId /\ asked.scope = q.scope /\ asked.card = q.card
          /\ q.scope \in Scope /\ q.card \in Card
      BY <1>1 DEF Request
    <2>3. nextId \in Nat /\ \A r \in jobs : r.id \in Nat /\ r.id < nextId
      BY <2>1, Constants DEF ClassificationInv, IdsOfRows, TypeOK, Job
    <2>4. IdsOfRows'
      <3>1. \A r, s \in jobs' : r.id = s.id => r = s
        BY <2>1, <2>2, <2>3 DEF ClassificationInv, IdsOfRows
      <3>2. \A r \in jobs' : r.id < nextId'
        BY <2>1, <2>2, <2>3
      <3>3. {r.id : r \in jobs} \subseteq {r.id : r \in jobs'} /\ nextId \in {r.id : r \in jobs'}
        BY <2>1, <2>2
      <3>4. QED
        BY <1>1, <2>1, <3>1, <3>2, <3>3 DEF ClassificationInv, IdsOfRows
    <2>5. nextId \notin placed /\ nextId \notin handled
      BY <2>3 DEF ClassificationInv, IdsOfRows
    <2>6. OneActiveJob'
      <3>1. \A r \in Active' : r = new \/ r \in Active
        BY <1>1, <2>1 DEF Active
      <3>2. \A r \in Active : ~ (r.scope = new.scope /\ r.card = new.card)
        BY <2>1, <2>2 DEF ActiveFor
      <3>3. QED
        BY <3>1, <3>2 DEF ClassificationInv, OneActiveJob
    <2>7. CardsGoDown'
      <3>1. Beyond(new.scope, assigned[new.card])
        BY <2>1, <2>2 DEF Beyond
      <3>2. QED
        BY <1>1, <2>1, <2>2, <2>5, <3>1 DEF ClassificationInv, CardsGoDown, IsChild
    <2>8. RequestsNameJobs'
      BY <1>1, <2>1, <2>2 DEF ClassificationInv, RequestsNameJobs
    <2>9. AnswersTakeEffect'
      BY <1>1, <2>1, <2>2, <2>5 DEF ClassificationInv, AnswersTakeEffect, IsChild
    <2>10. MovedIsContinued'
      <3>1. \A p \in requests : \E p1 \in requests' : p1.scope = p.scope /\ p1.card = p.card
        BY <1>1, <2>1, <2>2
      <3>2. \A r \in jobs' : r.id \in placed => r \in jobs
        BY <2>1, <2>2, <2>5
      <3>3. jobs \subseteq jobs' /\ \A r \in jobs : IsChild(r)' = IsChild(r)
        BY <1>1, <2>1 DEF IsChild
      <3>4. QED
        BY <1>1, <3>1, <3>2, <3>3 DEF ClassificationInv, MovedIsContinued
    <2>11. QED
      BY <1>1, <2>4, <2>6, <2>7, <2>8, <2>9, <2>10, EndsFrame DEF ClassificationInv
  <1>5. QED
    BY <1>2, <1>3, <1>4 DEF Prepare

\* A request is deleted when the job made for it is linked.
LEMMA InvDropRequests ==
    ASSUME TypeOK, ClassificationInv, TodoIsPrepared, DropRequests
    PROVE  ClassificationInv'
  <1>1. /\ UNCHANGED <<assigned, jobs, linked, processed, terminal, placed, nextId, handled,
                       todo, op, reassigned, queue, target>>
        /\ prepared' = {} /\ requests' = {q \in requests : q.next \notin prepared}
        /\ todo = {}
    BY DEF DropRequests, remote, TodoIsPrepared
  <1>2. RequestsNameJobs'
    BY <1>1 DEF ClassificationInv, RequestsNameJobs
  <1>3. MovedIsContinued'
    <2>1. \A q \in requests : q \in requests' \/ q.next # 0
      BY <1>1, Constants DEF TypeOK
    <2>2. QED
      BY <1>1, <2>1 DEF ClassificationInv, MovedIsContinued, RequestsNameJobs, IsChild
  <1>4. QED
    BY <1>1, <1>2, <1>3, IdsFrame, EndsFrame, ActiveFrame, DownFrame, AnswersFrame
    DEF ClassificationInv, IdsOfRows

\* A card moved by hand no longer counts.
LEMMA InvReassign ==
    ASSUME TypeOK, ClassificationInv, NEW c \in Card, NEW s \in Scope, Reassign(c, s)
    PROVE  ClassificationInv'
  <1>1. /\ UNCHANGED <<jobs, linked, processed, terminal, placed, nextId, requests, handled,
                       prepared, todo, op, queue, target>>
        /\ reassigned' = reassigned \cup {c}
        /\ \A d \in Card : d # c => assigned'[d] = assigned[d]
    BY DEF Reassign, session, remote, TypeOK
  <1>2. \A r \in jobs : r.card \in Card
    BY DEF TypeOK, Job
  <1>3. CardsGoDown'
    BY <1>1, <1>2 DEF ClassificationInv, CardsGoDown, IsChild, TypeOK
  <1>4. AnswersTakeEffect' /\ MovedIsContinued'
    BY <1>1, <1>2 DEF ClassificationInv, AnswersTakeEffect, MovedIsContinued, IsChild
  <1>5. QED
    BY <1>1, <1>3, <1>4, IdsFrame, EndsFrame, ActiveFrame, RequestsFrame
    DEF ClassificationInv, IdsOfRows, RequestsNameJobs

\* The operator's submission.
LEMMA InvOperator ==
    ASSUME TypeOK, ClassificationInv, \/ \E s \in Scope : OpStart(s)
                                      \/ OpCreate \/ OpList \/ OpInsert \/ OpDies
    PROVE  ClassificationInv'
  <1>0. /\ todo \subseteq requests /\ op.jobs \subseteq {r.id : r \in jobs}
        /\ NoRun.jobs = {} /\ NoRun.step = "idle"
    BY DEF ClassificationInv, RequestsNameJobs, IdsOfRows, NoRun
  <1>1. ASSUME NEW s \in Scope, OpStart(s) PROVE ClassificationInv'
    <2>1. op'.step = "recover" /\ op'.jobs \subseteq {r.id : r \in jobs}
      BY <1>1 DEF OpStart, Unlinked, Active
    <2>2. QED
      BY <1>0, <1>1, <2>1, QuietStep DEF OpStart, store, session, remote
  <1>2. CASE OpCreate
    <2>1. op'.step # "insert" /\ op'.jobs = op.jobs
      BY <1>2 DEF OpCreate, OpStep, TypeOK
    <2>2. \A i \in JobId : queue[i] \in {"accepted", "terminal"} => queue'[i] = queue[i]
      BY <1>2, CreatedType DEF OpCreate, TypeOK
    <2>3. QED
      BY <1>0, <1>2, <2>1, <2>2, QuietStep DEF OpCreate, store, session
  <1>3. CASE OpDies
    BY <1>0, <1>3, QuietStep DEF OpDies, store, session, remote
  <1>4. CASE OpList
    <2>1. /\ UNCHANGED <<assigned, jobs, linked, processed, terminal, placed, nextId, requests,
                         handled, prepared, todo, reassigned, queue, target>>
      BY <1>4 DEF OpList, store, session, remote
    <2>2. /\ op'.jobs = {}
          /\ \/ op' = NoRun
             \/ op'.scope = op.scope /\ op'.cards = WithoutJob(op.scope)
      BY <1>0, <1>4 DEF OpList, TypeOK
    <2>3. \A c \in WithoutJob(op.scope) : Beyond(op.scope, assigned[c])
      BY DEF WithoutJob, Beyond
    <2>4. CardsGoDown'
      BY <1>0, <2>1, <2>2, <2>3 DEF ClassificationInv, CardsGoDown, IsChild
    <2>5. IdsOfRows'
      BY <2>1, <2>2, IdsFrame DEF ClassificationInv
    <2>6. QED
      BY <1>0, <2>1, <2>4, <2>5, EndsFrame, ActiveFrame, RequestsFrame, AnswersFrame, MovedFrame
      DEF ClassificationInv
  <1>5. CASE OpInsert
    <2>1. CASE op' = NoRun /\ UNCHANGED <<jobs, nextId>>
      BY <1>0, <1>5, <2>1, QuietStep DEF OpInsert, session, remote
    <2>2. CASE /\ \A c \in op.cards : ActiveFor(op.scope, c) = {}
               /\ nextId + Cardinality(op.cards) <= MaxJobs + 1
               /\ jobs' = jobs \cup NewJobs
               /\ nextId' = nextId + Cardinality(op.cards)
               /\ op' = [op EXCEPT !.step = "submit", !.jobs = {r.id : r \in NewJobs}]
      <3>1. /\ UNCHANGED <<assigned, linked, processed, terminal, placed, requests, handled,
                           prepared, todo, reassigned, queue, target>>
            /\ op.step = "insert"
            /\ op'.step = "submit" /\ op'.jobs = {r.id : r \in NewJobs}
        BY <1>5, <2>2 DEF OpInsert, session, remote, TypeOK
      <3>2. /\ nextId' \in Nat /\ nextId \in Nat /\ nextId <= nextId'
            /\ \A r \in NewJobs :
                   /\ r \in Job /\ r.scope = op.scope /\ r.card \in op.cards
                   /\ nextId <= r.id /\ r.id < nextId'
            /\ \A r, s \in NewJobs : r.id = s.id \/ r.card = s.card => r = s
        BY <2>2, <3>1, NewJobsType, Constants DEF TypeOK
      <3>3. \A r \in jobs \cup NewJobs : r.id \in Nat
        BY <3>2, Constants DEF TypeOK, Job
      <3>4. \A r \in jobs : r.id < nextId
        BY DEF ClassificationInv, IdsOfRows
      <3>5. IdsOfRows'
        <4>1. ASSUME NEW r \in jobs', NEW s \in jobs', r.id = s.id PROVE r = s
          BY <2>2, <3>2, <3>3, <3>4, <4>1 DEF ClassificationInv, IdsOfRows
        <4>2. \A r \in jobs' : r.id < nextId'
          BY <2>2, <3>2, <3>3, <3>4
        <4>3. {r.id : r \in jobs} \subseteq {r.id : r \in jobs'} /\ op'.jobs \subseteq {r.id : r \in jobs'}
          BY <2>2, <3>1
        <4>4. QED
          BY <3>1, <4>1, <4>2, <4>3 DEF ClassificationInv, IdsOfRows
      <3>6. \A r \in NewJobs : r.id \notin placed /\ r.id \notin handled
        BY <3>2, <3>3, <3>4 DEF ClassificationInv, IdsOfRows
      <3>7. OneActiveJob'
        <4>1. \A r \in Active' : r \in NewJobs \/ r \in Active
          BY <2>2, <3>1 DEF Active
        <4>2. ASSUME NEW r \in Active, NEW s \in NewJobs
              PROVE  ~ (r.scope = s.scope /\ r.card = s.card)
          BY <2>2, <3>2 DEF ActiveFor
        <4>3. QED
          BY <3>2, <4>1, <4>2 DEF ClassificationInv, OneActiveJob
      <3>8. CardsGoDown'
        <4>1. \A r \in NewJobs : r.card \notin reassigned => Beyond(r.scope, assigned[r.card])
          BY <3>1, <3>2 DEF ClassificationInv, CardsGoDown
        <4>2. QED
          BY <2>2, <3>1, <3>6, <4>1 DEF ClassificationInv, CardsGoDown, IsChild
      <3>9. RequestsNameJobs'
        BY <1>0, <2>2, <3>1, RequestsFrame DEF ClassificationInv
      <3>10. AnswersTakeEffect'
        BY <2>2, <3>1, <3>6 DEF ClassificationInv, AnswersTakeEffect, IsChild
      <3>11. MovedIsContinued'
        BY <2>2, <3>1, <3>6 DEF ClassificationInv, MovedIsContinued, IsChild
      <3>12. QED
        BY <3>1, <3>5, <3>7, <3>8, <3>9, <3>10, <3>11, EndsFrame DEF ClassificationInv
    <2>3. QED
      BY <1>5, <2>1, <2>2 DEF OpInsert
  <1>6. QED
    BY <1>1, <1>2, <1>3, <1>4, <1>5

LEMMA RequestsArePrepared == Spec => []TodoIsPrepared
  <1> USE DEF TodoIsPrepared
  <1>1. Init => TodoIsPrepared
    BY DEF Init
  <1>2. TodoIsPrepared /\ [Next]_vars => TodoIsPrepared'
    <2> SUFFICES ASSUME TodoIsPrepared, [Next]_vars PROVE TodoIsPrepared'
      OBVIOUS
    <2>1. CASE Workers \/ Operator \/ UNCHANGED vars \/ \E i \in JobId : DeliverEvent(i)
      BY <2>1 DEF Workers, Accept, EndJob, Operator, OpGoes, OpStart, OpCreate, OpLink, OpList,
                  OpInsert, OpDies, Reassign, DeliverEvent, session, vars
    <2>2. CASE \E i \in JobId : HandleEvent(i)
      BY <2>2 DEF HandleEvent
    <2>3. CASE \E q \in todo : Prepare(q)
      BY <2>3 DEF Prepare
    <2>4. CASE \E s \in Scope : Refresh(s)
      BY <2>4 DEF Refresh, session
    <2>5. CASE \/ TickEvents \/ EndBatch \/ TickContinue \/ EndPrepare \/ CreateJobs \/ CreateFails
               \/ LinkJobs \/ DropRequests \/ Crash
      BY <2>5 DEF TickEvents, EndBatch, TickContinue, EndPrepare, CreateJobs, CreateFails,
                  LinkJobs, DropRequests, Crash
    <2>6. QED
      BY <2>1, <2>2, <2>3, <2>4, <2>5 DEF Next, Runtime
  <1>3. QED
    BY <1>1, <1>2, PTL DEF Spec

\* The inductive invariant behind the three results below: ids, ends, active
\* jobs, the direction cards move in and what requests name hold together.
THEOREM ClassificationInvariant == Spec => []ClassificationInv
  <1>1. Init => ClassificationInv
    <2> SUFFICES ASSUME Init PROVE ClassificationInv
      OBVIOUS
    <2>1. /\ jobs = {} /\ linked = {} /\ processed = {} /\ terminal = {} /\ placed = {}
          /\ handled = {} /\ requests = {} /\ todo = {} /\ prepared = {}
          /\ op.jobs = {} /\ op.step = "idle"
      BY DEF Init, NoRun
    <2>2. QED
      BY <2>1 DEF ClassificationInv, IdsOfRows, EndsAgree, OneActiveJob, Active, CardsGoDown,
                  RequestsNameJobs, AnswersTakeEffect, MovedIsContinued
  <1>2. TypeOK /\ TodoIsPrepared /\ ClassificationInv /\ [Next]_vars => ClassificationInv'
    <2> SUFFICES ASSUME TypeOK, TodoIsPrepared, ClassificationInv, [Next]_vars
                 PROVE  ClassificationInv'
      OBVIOUS
    <2>1. CASE UNCHANGED vars
      BY <2>1, QuietStep
      DEF vars, store, session, remote, ClassificationInv, RequestsNameJobs, IdsOfRows
    <2>2. CASE Runtime
      BY <2>2, InvSession, InvLink, InvHandleEvent, InvPrepare, InvDropRequests DEF Runtime
    <2>3. CASE Operator
      BY <2>3, InvOperator, InvLink, InvReassign DEF Operator, OpGoes
    <2>4. QED
      BY <2>1, <2>2, <2>3, InvRemote, InvSession DEF Next
  <1>3. QED
    BY <1>1, <1>2, ClassificationTypeCorrect, RequestsArePrepared, PTL DEF Spec

\* No card is open to two workers for one scope, for any number of cards and
\* scopes and whoever submits them when: an open job is active, and the
\* unique index allows one active job (RemoteJobsExclusive).
THEOREM WorkersNeverShareACard == Spec => []RemoteJobsExclusive
  <1>1. TypeOK /\ ClassificationInv => RemoteJobsExclusive
    <2> SUFFICES ASSUME TypeOK, ClassificationInv PROVE RemoteJobsExclusive
      OBVIOUS
    <2>1. \A r \in jobs : queue[r.id] = "open" => r \in Active
      BY DEF ClassificationInv, EndsAgree, Active
    <2>2. QED
      BY <2>1 DEF RemoteJobsExclusive, ClassificationInv, OneActiveJob
  <1>2. QED
    BY <1>1, ClassificationTypeCorrect, ClassificationInvariant, PTL

\* Once the event of an accepted answer that names a child is handled, the
\* card has left the scope the answer was about, whatever failed in between
\* (AnswersTakeEffect, process_pending_webhook_events).
THEOREM EveryAnswerTakesEffect == Spec => []AnswersTakeEffect
  <1>1. ClassificationInv => AnswersTakeEffect
    BY DEF ClassificationInv
  <1>2. QED
    BY <1>1, ClassificationInvariant, PTL

\* A card the runtime moved to a scope with children has a request or a job
\* there for as long as it stays, through every failed submission and crash
\* (MovedIsContinued, drain_continuation_requests).
THEOREM EveryMoveIsContinued == Spec => []MovedIsContinued
  <1>1. ClassificationInv => MovedIsContinued
    BY DEF ClassificationInv
  <1>2. QED
    BY <1>1, ClassificationInvariant, PTL

-----------------------------------------------------------------------------
(* CursorSessions *)

AnyScope == SessionScope \cup {NoScope}

CursorTypeOK ==
    /\ filed \in [SessionCard -> AnyScope]
    /\ sweep \in {"none", "running", "raised", "returned"}
    /\ seat \in [SessionCard -> [at : {"none", "queued", "agent", "exited", "ended"},
                                 tries : Nat, before : AnyScope]]
    /\ tools \subseteq [card : SessionCard, scope : SessionScope,
                        seen : {"nothing", "none", "row"}, id : Nat]
    /\ outcome \in [SessionCard -> [status : {"none", "error", "assigned", "already_assigned"},
                                    scope : AnyScope]]
    /\ started \in Nat
    /\ strangers \in Nat
    /\ filedIn \in [SessionCard -> SUBSET SessionScope]

\* A card whose session has begun.
Begun(c) == seat[c].at \in {"agent", "exited", "ended"}

\* Only a running batch has queued cards, one that returned has no sessions
\* left, and a tool belongs to a card whose session has begun.
Seats ==
    /\ sweep = "none" => \A c \in SessionCard : seat[c].at = "none"
    /\ sweep = "returned" => \A c \in SessionCard : seat[c].at \in {"none", "ended"}
    /\ \A t \in tools : Begun(t.card)

\* Before its session begins only others assign a selected card; from then on
\* every scope it is filed in is noted.
Filings ==
    \A c \in SessionCard :
        /\ Begun(c) /\ filed[c] # NoScope => filed[c] \in filedIn[c]
        /\ seat[c].at = "queued" /\ filed[c] # NoScope => strangers > 0
        /\ seat[c].before # NoScope => strangers > 0

\* An outcome is told when the session ends, unless the batch has raised.
Told(c) ==
    /\ seat[c].at # "ended" => outcome[c].status = "none"
    /\ seat[c].at = "ended" /\ sweep \in {"running", "returned"} => outcome[c].status # "none"
    /\ outcome[c].status = "assigned" =>
           seat[c].before = NoScope /\ filed[c] # NoScope /\ outcome[c].scope \in filedIn[c]
    /\ outcome[c].status = "already_assigned" =>
           seat[c].before # NoScope /\ filed[c] # NoScope /\ outcome[c].scope \in filedIn[c]

Outcomes == \A c \in SessionCard : Told(c)

\* The semaphore.
Seated == IsFiniteSet(Holders) /\ Cardinality(Holders) <= MaxWorkers

CursorInv == CursorTypeOK /\ Seats /\ Filings /\ Outcomes /\ Seated

-----------------------------------------------------------------------------

LEMMA CursorInitInv == CursorInit => CursorInv
  <1> SUFFICES ASSUME CursorInit PROVE CursorInv
    OBVIOUS
  <1>1. CursorTypeOK
    BY DEF CursorInit, CursorTypeOK, NotSelected, NoOutcome, AnyScope
  <1>2. Seats /\ Filings /\ Outcomes
    BY DEF CursorInit, Seats, Filings, Outcomes, Told, Begun, NotSelected, NoOutcome
  <1>3. Seated
    <2>1. Holders = {}
      BY DEF CursorInit, Holders, NotSelected
    <2> QED BY <2>1, FS_EmptySet, CursorAssumption DEF Seated
  <1> QED BY <1>1, <1>2, <1>3 DEF CursorInv

\* Sessions end and nobody else begins one.
LEMMA WorkersLeave ==
    ASSUME Seated, Holders' \subseteq Holders PROVE Seated'
  <1>1. IsFiniteSet(Holders') /\ Cardinality(Holders') <= Cardinality(Holders)
    BY FS_Subset DEF Seated
  <1>2. Cardinality(Holders) \in Nat /\ Cardinality(Holders') \in Nat
    BY <1>1, FS_CardinalityType DEF Seated
  <1> QED BY <1>1, <1>2, CursorAssumption DEF Seated

LEMMA ToolCards == CursorTypeOK => \A t \in tools : t.card \in SessionCard
  BY DEF CursorTypeOK

\* The cards selected have no assignment; the first filings are by others.
LEMMA SelectStep ==
    ASSUME CursorInv, NEW limit, SelectsCards(limit) PROVE CursorInv'
  <1> USE DEF CursorInv
  <1>1. /\ sweep = "none" /\ sweep' \in {"running", "returned"}
        /\ \A c \in SessionCard : seat'[c] \in {NotSelected, [NotSelected EXCEPT !.at = "queued"]}
        /\ \A c \in SessionCard : seat'[c] # NotSelected => filed[c] = NoScope
        /\ sweep' = "returned" => \A c \in SessionCard : seat'[c] = NotSelected
        /\ UNCHANGED <<filed, tools, outcome, started, strangers, filedIn>>
    BY DEF SelectsCards
  <1>2. seat' \in [SessionCard -> {NotSelected, [NotSelected EXCEPT !.at = "queued"]}]
    BY DEF SelectsCards
  <1>3. CursorTypeOK'
    BY <1>1, <1>2 DEF CursorTypeOK, NotSelected, AnyScope
  <1>4. tools = {} /\ \A c \in SessionCard : outcome[c].status = "none"
    BY <1>1 DEF Seats, Outcomes, Told, CursorTypeOK, Begun
  <1>5. Seats' /\ Filings' /\ Outcomes'
    BY <1>1, <1>4 DEF Seats, Filings, Outcomes, Told, Begun, NotSelected
  <1>6. Seated'
    <2>1. Holders' \subseteq Holders
      BY <1>1 DEF Holders, NotSelected
    <2> QED BY <2>1, WorkersLeave
  <1> QED BY <1>3, <1>5, <1>6

LEMMA BeginStep ==
    ASSUME CursorInv, NEW c \in SessionCard, BeginsSession(c) PROVE CursorInv'
  <1> USE DEF CursorInv
  <1>1. /\ sweep = "running" /\ seat[c].at = "queued"
        /\ seat'[c] = [at |-> "agent", tries |-> 1, before |-> filed[c]]
        /\ filedIn'[c] = {filed[c]} \ {NoScope}
        /\ \A d \in SessionCard \ {c} : seat'[d] = seat[d] /\ filedIn'[d] = filedIn[d]
        /\ UNCHANGED <<filed, sweep, tools, outcome, started, strangers>>
    BY DEF BeginsSession, CursorTypeOK
  <1>2. CursorTypeOK'
    <2>1. seat'[c] \in [at : {"none", "queued", "agent", "exited", "ended"},
                        tries : Nat, before : AnyScope]
      BY <1>1 DEF CursorTypeOK
    <2>2. filedIn'[c] \in SUBSET SessionScope
      BY <1>1 DEF CursorTypeOK, AnyScope
    <2> QED BY <1>1, <2>1, <2>2 DEF BeginsSession, CursorTypeOK
  <1>3. Seats'
    BY <1>1, ToolCards DEF Seats, Begun
  <1>4. Filings' /\ Outcomes'
    BY <1>1 DEF Filings, Begun, Outcomes, Told
  <1>5. Seated'
    <2>1. Holders' = Holders \cup {c} /\ c \notin Holders
      BY <1>1 DEF Holders
    <2>2. IsFiniteSet(Holders') /\ Cardinality(Holders') = Cardinality(Holders) + 1
      BY <2>1, FS_AddElement DEF Seated
    <2>3. Cardinality(Holders) \in Nat /\ Cardinality(Holders) < MaxWorkers
      BY FS_CardinalityType DEF Seated, BeginsSession
    <2> QED BY <2>2, <2>3, CursorAssumption DEF Seated
  <1> QED BY <1>2, <1>3, <1>4, <1>5

LEMMA RaiseStep ==
    ASSUME CursorInv, BatchRaises PROVE CursorInv'
  <1> USE DEF CursorInv
  <1>1. /\ sweep = "running" /\ sweep' = "raised"
        /\ \A c \in SessionCard :
               seat'[c] = IF seat[c].at = "queued" THEN NotSelected ELSE seat[c]
        /\ UNCHANGED <<filed, tools, outcome, started, strangers, filedIn>>
    BY DEF BatchRaises
  <1>2. CursorTypeOK'
    <2>1. NotSelected \in [at : {"none", "queued", "agent", "exited", "ended"},
                           tries : Nat, before : AnyScope]
      BY DEF NotSelected, AnyScope
    <2> QED BY <1>1, <2>1 DEF BatchRaises, CursorTypeOK
  <1>3. Seats' /\ Filings' /\ Outcomes'
    BY <1>1 DEF Seats, Filings, Outcomes, Told, Begun, NotSelected, CursorTypeOK
  <1>4. Seated'
    <2>1. Holders' \subseteq Holders
      BY <1>1 DEF Holders, NotSelected
    <2> QED BY <2>1, WorkersLeave
  <1> QED BY <1>2, <1>3, <1>4

\* Tools work on cards whose session has begun, and assignments only change
\* from scope to scope.
LEMMA ToolStep ==
    ASSUME CursorInv,
           \/ \E c \in SessionCard, s \in SessionScope : StartsTool(c, s)
           \/ \E t \in tools : ToolLooks(t) \/ ToolWrites(t)
    PROVE  CursorInv'
  <1> USE DEF CursorInv
  <1>1. UNCHANGED <<sweep, seat, outcome, strangers>>
    BY DEF StartsTool, ToolLooks, ToolWrites
  <1>2. Seated'
    <2>1. Holders' \subseteq Holders
      BY <1>1 DEF Holders
    <2> QED BY <2>1, WorkersLeave
  <1>3. ASSUME NEW c \in SessionCard, NEW s \in SessionScope, StartsTool(c, s) PROVE CursorInv'
    <2>1. CursorTypeOK' /\ Seats'
      BY <1>1, <1>3 DEF StartsTool, CursorTypeOK, Seats, Begun
    <2>2. UNCHANGED <<filed, filedIn>>
      BY <1>3 DEF StartsTool
    <2> QED BY <1>1, <1>2, <2>1, <2>2 DEF Filings, Outcomes, Told, Begun
  <1>4. ASSUME NEW t \in tools, ToolLooks(t) PROVE CursorInv'
    <2> DEFINE looked == [t EXCEPT !.seen = IF filed[t.card] = NoScope THEN "none" ELSE "row"]
    <2>1. tools' = (tools \ {t}) \cup {looked} /\ UNCHANGED <<filed, filedIn, started>>
      BY <1>4 DEF ToolLooks
    <2>2. /\ looked \in [card : SessionCard, scope : SessionScope,
                         seen : {"nothing", "none", "row"}, id : Nat]
          /\ looked.card = t.card
      BY DEF CursorTypeOK
    <2>3. CursorTypeOK' /\ Seats'
      BY <1>1, <2>1, <2>2 DEF CursorTypeOK, Seats, Begun
    <2> QED BY <1>1, <1>2, <2>1, <2>3 DEF Filings, Outcomes, Told, Begun
  <1>5. ASSUME NEW t \in tools, ToolWrites(t) PROVE CursorInv'
    <2>1. t.card \in SessionCard /\ t.scope \in SessionScope /\ Begun(t.card)
      BY DEF CursorTypeOK, Seats
    <2>2. tools' \subseteq tools /\ UNCHANGED started
      BY <1>5 DEF ToolWrites
    <2>3. \/ UNCHANGED <<filed, filedIn>>
          \/ /\ filed' = [filed EXCEPT ![t.card] = t.scope]
             /\ filedIn' = [filedIn EXCEPT ![t.card] = @ \cup {t.scope}]
      BY <1>5 DEF ToolWrites
    <2>4. CursorTypeOK' /\ Seats'
      <3>1. filed' \in [SessionCard -> AnyScope] /\ filedIn' \in [SessionCard -> SUBSET SessionScope]
        <4>1. CASE UNCHANGED <<filed, filedIn>>
          BY <4>1 DEF CursorTypeOK
        <4>2. CASE filed' = [filed EXCEPT ![t.card] = t.scope]
          <5>1. filed' \in [SessionCard -> AnyScope]
            BY <2>1, <4>2 DEF CursorTypeOK, AnyScope
          <5>2. filedIn[t.card] \cup {t.scope} \in SUBSET SessionScope
            BY <2>1 DEF CursorTypeOK
          <5>3. \/ filedIn' = filedIn
                \/ filedIn' = [filedIn EXCEPT ![t.card] = filedIn[t.card] \cup {t.scope}]
            BY <2>3
          <5> QED BY <5>1, <5>2, <5>3 DEF CursorTypeOK
        <4> QED BY <2>3, <4>1, <4>2
      <3>2. Seats'
        BY <1>1, <2>2 DEF Seats, Begun
      <3> QED BY <1>1, <2>2, <3>1, <3>2 DEF CursorTypeOK
    <2>5. Filings' /\ Outcomes'
      BY <1>1, <2>1, <2>3, CursorAssumption DEF Filings, Outcomes, Told, Begun, CursorTypeOK
    <2> QED BY <1>2, <2>4, <2>5
  <1> QED BY <1>3, <1>4, <1>5

\* An agent exits or is started again.
LEMMA AgentStep ==
    ASSUME CursorInv, NEW c \in SessionCard,
           AgentExits(c) \/ (AgentFails(c) /\ seat[c].tries < MaxTries /\ sweep = "running")
    PROVE  CursorInv'
  <1> USE DEF CursorInv
  <1>1. /\ seat[c].at = "agent" /\ seat'[c].at \in {"agent", "exited"}
        /\ seat'[c].before = seat[c].before
        /\ \A d \in SessionCard \ {c} : seat'[d] = seat[d]
        /\ UNCHANGED <<filed, sweep, tools, outcome, started, strangers, filedIn>>
    BY DEF AgentExits, AgentFails, CursorTypeOK
  <1>2. CursorTypeOK'
    BY <1>1 DEF AgentExits, AgentFails, CursorTypeOK
  <1>3. Seats'
    BY <1>1, ToolCards DEF Seats, Begun
  <1>4. Filings' /\ Outcomes'
    BY <1>1 DEF Filings, Outcomes, Told, Begun
  <1>5. Seated'
    <2>1. Holders' \subseteq Holders
      BY <1>1 DEF Holders
    <2> QED BY <2>1, WorkersLeave
  <1> QED BY <1>2, <1>3, <1>4, <1>5

\* A session ends with an outcome that is true of its card.
LEMMA EndsStep ==
    ASSUME CursorInv, NEW c \in SessionCard, NEW status, NEW scope,
           seat[c].at \in {"agent", "exited"}, Ends(c, status, scope),
           UNCHANGED <<filed, sweep, tools, started, strangers, filedIn>>,
           \/ status = "error" /\ scope = NoScope
           \/ /\ status = IF seat[c].before = NoScope THEN "assigned" ELSE "already_assigned"
              /\ filed[c] # NoScope /\ scope = filed[c]
    PROVE  CursorInv'
  <1> USE DEF CursorInv
  <1>1. /\ seat'[c].at = "ended" /\ seat'[c].before = seat[c].before
        /\ outcome'[c] = IF sweep = "running" THEN [status |-> status, scope |-> scope]
                         ELSE outcome[c]
        /\ \A d \in SessionCard \ {c} : seat'[d] = seat[d] /\ outcome'[d] = outcome[d]
    BY DEF Ends, CursorTypeOK
  <1>2. CursorTypeOK'
    <2>1. seat' \in [SessionCard -> [at : {"none", "queued", "agent", "exited", "ended"},
                                     tries : Nat, before : AnyScope]]
      BY DEF Ends, CursorTypeOK
    <2>2. outcome' \in [SessionCard -> [status : {"none", "error", "assigned", "already_assigned"},
                                        scope : AnyScope]]
      BY DEF Ends, CursorTypeOK, AnyScope
    <2> QED BY <2>1, <2>2 DEF CursorTypeOK
  <1>3. sweep # "returned" /\ outcome[c].status = "none" /\ Begun(c)
    BY DEF Seats, Outcomes, Told, Begun
  <1>4. Seats' /\ Filings'
    <2>1. Seats'
      BY <1>1, <1>3, ToolCards DEF Seats, Begun
    <2>2. Filings'
      BY <1>1, <1>3 DEF Filings, Begun
    <2> QED BY <2>1, <2>2
  <1>5. Outcomes'
    <2>1. Told(c)'
      BY <1>1, <1>3 DEF Told, Filings
    <2>2. \A d \in SessionCard \ {c} : Told(d)'
      BY <1>1 DEF Outcomes, Told
    <2> QED BY <2>1, <2>2 DEF Outcomes
  <1>6. Seated'
    <2>1. Holders' \subseteq Holders
      BY <1>1 DEF Holders
    <2> QED BY <2>1, WorkersLeave
  <1> QED BY <1>2, <1>4, <1>5, <1>6

LEMMA ReturnStep ==
    ASSUME CursorInv, BatchReturns PROVE CursorInv'
  <1> USE DEF CursorInv
  <1>1. /\ sweep' = "returned" /\ sweep = "running"
        /\ \A c \in SessionCard : seat[c].at \in {"none", "ended"}
        /\ UNCHANGED <<filed, seat, tools, outcome, started, strangers, filedIn>>
    BY DEF BatchReturns, Selected
  <1>2. CursorTypeOK' /\ Seats' /\ Filings' /\ Outcomes'
    BY <1>1 DEF CursorTypeOK, Seats, Filings, Outcomes, Told, Begun
  <1>3. Seated'
    BY <1>1 DEF Seated, Holders
  <1> QED BY <1>2, <1>3

LEMMA StrangerStep ==
    ASSUME CursorInv, NEW c \in SessionCard, NEW s \in SessionScope, StrangerAssigns(c, s)
    PROVE  CursorInv'
  <1> USE DEF CursorInv
  <1>1. /\ filed' = [filed EXCEPT ![c] = s]
        /\ filedIn' = [filedIn EXCEPT ![c] = IF Begun(c) THEN @ \cup {s} ELSE @]
        /\ strangers' = strangers + 1
        /\ UNCHANGED <<sweep, seat, tools, outcome, started>>
    BY DEF StrangerAssigns, CursorTypeOK, Begun
  <1>2. CursorTypeOK' /\ Seats'
    BY <1>1 DEF CursorTypeOK, Seats, Begun, AnyScope
  <1>3. Filings' /\ Outcomes'
    BY <1>1, CursorAssumption DEF Filings, Outcomes, Told, Begun, CursorTypeOK
  <1>4. Seated'
    BY <1>1 DEF Seated, Holders
  <1> QED BY <1>2, <1>3, <1>4

\* The inductive invariant of a batch: every filing of a card whose session has
\* begun is known, so an outcome told from a later read is true.
THEOREM CursorInvariant == CursorSpec => []CursorInv
  <1>1. CursorInv /\ [CursorNext]_cursorVars => CursorInv'
    <2> SUFFICES ASSUME CursorInv, [CursorNext]_cursorVars PROVE CursorInv'
      OBVIOUS
    <2>1. CASE UNCHANGED cursorVars
      BY <2>1 DEF cursorVars, CursorInv, CursorTypeOK, Seats, Filings, Outcomes, Told, Begun,
                  Seated, Holders
    <2>2. ASSUME NEW c \in SessionCard, AgentFails(c) \/ AgentTimesOut(c) \/ OutcomeUnread(c)
          PROVE  CursorInv'
      <3>1. CASE seat[c].tries < MaxTries /\ sweep = "running" /\ AgentFails(c)
        BY <3>1, AgentStep
      <3>2. CASE ~ (seat[c].tries < MaxTries /\ sweep = "running" /\ AgentFails(c))
        <4>1. /\ seat[c].at \in {"agent", "exited"} /\ Ends(c, "error", NoScope)
              /\ UNCHANGED <<filed, sweep, tools, started, strangers, filedIn>>
          BY <2>2, <3>2 DEF AgentFails, AgentTimesOut, OutcomeUnread
        <4> QED BY <4>1, EndsStep
      <3> QED BY <3>1, <3>2
    <2>3. ASSUME NEW c \in SessionCard, ReadsOutcome(c) PROVE CursorInv'
      <3>1. /\ seat[c].at = "exited"
            /\ UNCHANGED <<filed, sweep, tools, started, strangers, filedIn>>
        BY <2>3 DEF ReadsOutcome
      <3>2. CASE filed[c] = NoScope /\ Ends(c, "error", NoScope)
        BY <3>1, <3>2, EndsStep
      <3>3. CASE filed[c] # NoScope /\ seat[c].before = NoScope /\ Ends(c, "assigned", filed[c])
        BY <3>1, <3>3, EndsStep
      <3>4. CASE /\ filed[c] # NoScope /\ seat[c].before # NoScope
                 /\ Ends(c, "already_assigned", filed[c])
        BY <3>1, <3>4, EndsStep
      <3> QED BY <2>3, <3>2, <3>3, <3>4 DEF ReadsOutcome
    <2>4. ASSUME NEW c \in SessionCard, NEW s \in SessionScope, StrangerAssigns(c, s)
          PROVE  CursorInv'
      BY <2>4, StrangerStep
    <2>5. ASSUME NEW c \in SessionCard, BeginsSession(c) \/ AgentExits(c) PROVE CursorInv'
      BY <2>5, BeginStep, AgentStep
    <2>6. CASE BatchRaises \/ BatchReturns
      BY <2>6, RaiseStep, ReturnStep
    <2>7. CASE \E limit \in 1 .. Cardinality(SessionCard) : SelectsCards(limit)
      BY <2>7, SelectStep
    <2>8. CASE \/ \E c \in SessionCard, s \in SessionScope : StartsTool(c, s)
               \/ \E t \in tools : ToolLooks(t) \/ ToolWrites(t)
      BY <2>8, ToolStep
    <2> QED BY <2>1, <2>2, <2>3, <2>4, <2>5, <2>6, <2>7, <2>8 DEF CursorNext
  <1> QED BY <1>1, CursorInitInv, PTL DEF CursorSpec

\* The summary of a batch can be relied upon, for any number of cards, workers
\* and tools, although tools outlive agents that timed out, others assign
\* cards meanwhile, and a failed read ends the batch (classify_unassigned).
THEOREM OutcomesAreAlwaysTrue == CursorSpec => []OutcomesAreTrue
  <1>1. ASSUME CursorInv PROVE OutcomesAreTrue
    <2> USE <1>1 DEF CursorInv
    <2>1. ASSUME NEW c \in SessionCard
          PROVE  /\ outcome[c].status = "assigned" =>
                      /\ seat[c].before = NoScope /\ filed[c] # NoScope
                      /\ outcome[c].scope \in filedIn[c]
                 /\ outcome[c].status = "already_assigned" =>
                      /\ seat[c].before # NoScope /\ filed[c] # NoScope
                      /\ outcome[c].scope \in filedIn[c] /\ strangers > 0
      BY DEF Outcomes, Told, Filings
    <2>2. ASSUME sweep = "returned", NEW c \in Selected
          PROVE  /\ outcome[c].status # "none"
                 /\ outcome[c].status # "error" => filed[c] # NoScope
      BY <2>2 DEF Selected, Seats, Outcomes, Told, CursorTypeOK
    <2>3. Cardinality(InAgent) <= MaxWorkers
      <3>1. IsFiniteSet(InAgent) /\ Cardinality(InAgent) <= Cardinality(Holders)
        BY FS_Subset DEF Seated, InAgent, Holders
      <3>2. Cardinality(InAgent) \in Nat /\ Cardinality(Holders) \in Nat
        BY <3>1, FS_CardinalityType DEF Seated
      <3> QED BY <3>1, <3>2, CursorAssumption DEF Seated
    <2> QED BY <2>1, <2>2, <2>3 DEF OutcomesAreTrue
  <1> QED BY <1>1, CursorInvariant, PTL

-----------------------------------------------------------------------------
(* SchemaMigrations *)

(* The inductive invariant                                                   *)

TreeOK(tree) ==
    /\ NoParent \notin Ids(tree)
    /\ \A m, n \in tree : m.id = n.id => m = n
    /\ \A n \in tree : n.parent \in Ids(tree) \cup {NoParent}
    /\ \E size \in Nat : \E depth \in [Ids(tree) -> 0 .. size] :
           \A n \in tree : n.parent # NoParent => depth[n.parent] < depth[n.id]

\* Every card is filed where it was, from the hard cut on directly.
Filed(d, filedAt) ==
    /\ TreeOK(d.tree)
    /\ d.assigned \in [SchemaCard -> Ids(d.tree)]
    /\ \A c \in SchemaCard : RegularScope(d.tree, d.assigned[c]) = filedAt[c]
    /\ d.rev >= 5 => \A n \in d.tree : n.name # LegacyName

Kinds == {"create", "edit", "delete"}
Statuses == {"accepted_applied", "rejected", "pending_review", "withdrawn"}
EditRows ==
    [id : Nat \ {0}, card : SchemaCard \cup {NoTarget},
     status : {"pending", "accepted", "rejected"}]
ProposalRows ==
    [id : Nat \ {0}, kind : Kinds, card : SchemaCard \cup {NoTarget}, status : Statuses,
     reason : {NoReason, "note", "legacy", "given"}, note : BOOLEAN]
ToldRows ==
    [id : Nat \ {0}, kind : Kinds, card : SchemaCard \cup {NoTarget}, status : Statuses]

OneOfAnId(rows) == \A p, q \in rows : p.id = q.id => p = q

Stored(d) ==
    /\ d.edits \subseteq EditRows /\ d.proposals \subseteq ProposalRows
    /\ OneOfAnId(d.edits) /\ OneOfAnId(d.proposals)
    /\ d.rev < 7 => d.proposals = {} /\ d.archived = {}
    /\ d.rev >= 7 => d.edits = {}
    /\ d.lastId \in Nat
    /\ \A e \in d.edits : e.id <= d.lastId
    /\ \A p \in d.proposals : p.id <= d.lastId
    /\ d.rev >= 9 => \A p \in d.proposals : p.reason # NoReason
    /\ d.rev = 11 => \A s \in d.scopes : s.kind = "taxonomy_node"

\* Status s of a row of kind k, when users were told of status t.
Agrees(k, s, t, back) ==
    s = t \/ (back /\ k = "edit" /\ t = "withdrawn" /\ s = "pending_review")

\* The proposals of a database, and what users were told of them.
EditsTold(d, said, back) ==
    \A e \in d.edits : \E t \in said :
        /\ t.id = e.id /\ t.kind = "edit" /\ t.card = e.card
        /\ Agrees("edit", ProposalStatus[e.status], t.status, back)
ProposalsTold(d, said, back) ==
    \A p \in d.proposals : \E t \in said :
        /\ t.id = p.id /\ t.kind = p.kind /\ t.card = p.card
        /\ Agrees(p.kind, p.status, t.status, back)
ToldKept(d, said, back) ==
    \A t \in said : t.kind = "edit" \/ ~back => t.id \in Ids(d.edits) \cup Ids(d.proposals)
Deleted(said) == {t.card : t \in {u \in said : u.kind = "delete" /\ u.status = "accepted_applied"}}

AsTold(d, said, back) ==
    /\ said \subseteq ToldRows /\ OneOfAnId(said)
    /\ EditsTold(d, said, back) /\ ProposalsTold(d, said, back) /\ ToldKept(d, said, back)
    /\ ~back => d.archived = Deleted(said)

Shaped(d) ==
    /\ d = [rev |-> d.rev, tree |-> d.tree, assigned |-> d.assigned, jobs |-> d.jobs,
            edits |-> d.edits, proposals |-> d.proposals, archived |-> d.archived,
            scopes |-> d.scopes, lastId |-> d.lastId]
    /\ d.rev \in 1 .. 11

DatabaseInv(d, filedAt, said, back) ==
    Shaped(d) /\ Filed(d, filedAt) /\ Stored(d) /\ AsTold(d, said, back)

SchemaInv == wentBack \in BOOLEAN /\ DatabaseInv(db, filedUnder, told, wentBack)

-----------------------------------------------------------------------------
(* Numbers of the revisions                                                  *)

LEMMA RevisionNumbers ==
    /\ Newest = 11 /\ At("hard_cut") = 5 /\ At("proposals") = 7 /\ At("layouts") = 8
    /\ At("reasons") = 9 /\ At("no_virtual_scopes") = 11
  <1>1. Newest = 11
    BY DEF Newest, Revisions
  <1>2. /\ Revisions[1] = "initial" /\ Revisions[2] = "sibling_names"
        /\ Revisions[3] = "route_slugs" /\ Revisions[4] = "projection_requests"
        /\ Revisions[5] = "hard_cut" /\ Revisions[6] = "continuations"
        /\ Revisions[7] = "proposals" /\ Revisions[8] = "layouts" /\ Revisions[9] = "reasons"
        /\ Revisions[10] = "embedding_index" /\ Revisions[11] = "no_virtual_scopes"
    BY DEF Revisions
  <1>3. \A i \in 1 .. 11 : i = 1 \/ i = 2 \/ i = 3 \/ i = 4 \/ i = 5 \/ i = 6 \/ i = 7 \/ i = 8
                              \/ i = 9 \/ i = 10 \/ i = 11
    OBVIOUS
  <1>4. At("hard_cut") = 5
    BY <1>1, <1>2, <1>3 DEF At
  <1>5. At("proposals") = 7
    BY <1>1, <1>2, <1>3 DEF At
  <1>6. At("layouts") = 8
    BY <1>1, <1>2, <1>3 DEF At
  <1>7. At("reasons") = 9
    BY <1>1, <1>2, <1>3 DEF At
  <1>8. At("no_virtual_scopes") = 11
    BY <1>1, <1>2, <1>3 DEF At
  <1> QED BY <1>1, <1>4, <1>5, <1>6, <1>7, <1>8

\* What each revision does, by its number.
LEMMA UpgradesByNumber ==
    ASSUME NEW d, NEW i \in 2 .. 11, NEW e \in Upgraded(i, d)
    PROVE  \E m : /\ e = [m EXCEPT !.rev = i]
                  /\ \/ i = 5 /\ m \in HardCut(d)
                     \/ i = 7 /\ m \in CardProposalsTable(d)
                     \/ i = 9 /\ m \in ProposalReasons(d)
                     \/ i = 11 /\ m \in NoVirtualScopes(d)
                     \/ i \notin {5, 7, 9, 11} /\ m = d
  <1>1. /\ Revisions[2] = "sibling_names"
        /\ Revisions[3] = "route_slugs" /\ Revisions[4] = "projection_requests"
        /\ Revisions[5] = "hard_cut" /\ Revisions[6] = "continuations"
        /\ Revisions[7] = "proposals" /\ Revisions[8] = "layouts" /\ Revisions[9] = "reasons"
        /\ Revisions[10] = "embedding_index" /\ Revisions[11] = "no_virtual_scopes"
    BY DEF Revisions
  <1>2. i = 2 \/ i = 3 \/ i = 4 \/ i = 5 \/ i = 6 \/ i = 7 \/ i = 8 \/ i = 9 \/ i = 10 \/ i = 11
    OBVIOUS
  <1> DEFINE r == Revisions[i]
             made == CASE r = "sibling_names" -> SiblingNames(d)
                       [] r = "route_slugs" -> RouteSlugs(d)
                       [] r = "hard_cut" -> HardCut(d)
                       [] r = "proposals" -> CardProposalsTable(d)
                       [] r = "reasons" -> ProposalReasons(d)
                       [] r = "no_virtual_scopes" -> NoVirtualScopes(d)
                       [] OTHER -> {d}
  <1>3. PICK m \in made : e = [m EXCEPT !.rev = i]
    BY DEF Upgraded
  <1>4. \/ i = 2 /\ m \in SiblingNames(d)
        \/ i = 3 /\ m \in RouteSlugs(d)
        \/ i = 5 /\ m \in HardCut(d)
        \/ i = 7 /\ m \in CardProposalsTable(d)
        \/ i = 9 /\ m \in ProposalReasons(d)
        \/ i = 11 /\ m \in NoVirtualScopes(d)
        \/ i \in {4, 6, 8, 10} /\ m = d
    BY <1>1, <1>2, <1>3
  <1>5. i = 2 \/ i = 3 => i \notin {5, 7, 9, 11}
    OBVIOUS
  <1>6. m \in SiblingNames(d) \/ m \in RouteSlugs(d) => m = d
    BY DEF SiblingNames, RouteSlugs
  <1> QED BY <1>3, <1>4, <1>5, <1>6

LEMMA DowngradesByNumber ==
    ASSUME NEW d, d.rev \in 2 .. 11, NEW e \in Downgraded(d)
    PROVE  \E m : /\ e = [m EXCEPT !.rev = d.rev - 1]
                  /\ \/ d.rev = 5 /\ m \in HardCutBack(d)
                     \/ d.rev = 7 /\ m \in CardProposalsBack(d)
                     \/ d.rev = 8 /\ m \in LayoutsBack(d)
                     \/ d.rev = 9 /\ m \in ReasonsBack(d)
                     \/ d.rev \notin {5, 7, 8, 9} /\ m = d
  <1>1. /\ Revisions[2] = "sibling_names"
        /\ Revisions[3] = "route_slugs" /\ Revisions[4] = "projection_requests"
        /\ Revisions[5] = "hard_cut" /\ Revisions[6] = "continuations"
        /\ Revisions[7] = "proposals" /\ Revisions[8] = "layouts" /\ Revisions[9] = "reasons"
        /\ Revisions[10] = "embedding_index" /\ Revisions[11] = "no_virtual_scopes"
    BY DEF Revisions
  <1> DEFINE i == d.rev
             r == Revisions[i]
             made == CASE r = "hard_cut" -> HardCutBack(d)
                       [] r = "proposals" -> CardProposalsBack(d)
                       [] r = "layouts" -> LayoutsBack(d)
                       [] r = "reasons" -> ReasonsBack(d)
                       [] OTHER -> {d}
  <1>2. i = 2 \/ i = 3 \/ i = 4 \/ i = 5 \/ i = 6 \/ i = 7 \/ i = 8 \/ i = 9 \/ i = 10 \/ i = 11
    OBVIOUS
  <1>3. PICK m \in made : e = [m EXCEPT !.rev = i - 1]
    BY DEF Downgraded
  <1>4. \/ i = 5 /\ m \in HardCutBack(d)
        \/ i = 7 /\ m \in CardProposalsBack(d)
        \/ i = 8 /\ m \in LayoutsBack(d)
        \/ i = 9 /\ m \in ReasonsBack(d)
        \/ i \in {2, 3, 4, 6, 10, 11} /\ m = d
    BY <1>1, <1>2, <1>3
  <1> QED BY <1>3, <1>4

-----------------------------------------------------------------------------
(* Numbers: the least of a set, the greatest id                              *)

LEMMA MaxIsGreatest ==
    ASSUME NEW n \in Nat, NEW T \in SUBSET (0 .. n), T # {}
    PROVE  /\ Max(T) \in T /\ \A k \in T : k <= Max(T)
  <1> DEFINE S == {x \in Nat : \E t \in T : x = n - t}
  <1>1. \A t \in T : t \in 0 .. n /\ n - t \in S
    OBVIOUS
  <1>2. PICK x \in S : \A y \in S : x <= y
    <2>1. S \in SUBSET Nat /\ S # {}
      BY <1>1
    <2> HIDE DEF S
    <2> QED BY <2>1, LeastNat
  <1>3. PICK m \in T : x = n - m
    BY <1>2
  <1>4. ASSUME NEW k \in T PROVE m >= k
    <2>1. x <= n - k
      BY <1>1, <1>2
    <2> QED BY <1>1, <1>3, <2>1
  <1>5. Max(T) \in T /\ \A k \in T : Max(T) >= k
    BY <1>4 DEF Max
  <1>6. ASSUME NEW k \in T PROVE k <= Max(T)
    BY <1>1, <1>5
  <1> QED BY <1>5, <1>6

LEMMA LastIdBounds ==
    ASSUME NEW rows, NEW n \in Nat, \A r \in rows : r.id \in Nat /\ r.id <= n
    PROVE  LastId(rows) \in Nat /\ LastId(rows) <= n /\ \A r \in rows : r.id <= LastId(rows)
  <1>1. CASE rows = {}
    BY <1>1 DEF LastId
  <1>2. CASE rows # {}
    <2>1. LastId(rows) = Max(Ids(rows))
      BY <1>2 DEF LastId
    <2>2. Ids(rows) \in SUBSET (0 .. n) /\ Ids(rows) # {} /\ \A r \in rows : r.id \in Ids(rows)
      BY <1>2 DEF Ids
    <2>3. Max(Ids(rows)) \in Ids(rows) /\ \A k \in Ids(rows) : k <= Max(Ids(rows))
      BY <2>2, MaxIsGreatest
    <2> QED BY <2>1, <2>2, <2>3
  <1> QED BY <1>1, <1>2

LEMMA FiniteIdsAreBounded ==
    ASSUME NEW rows, IsFiniteSet(rows), \A r \in rows : r.id \in Nat
    PROVE  \E n \in Nat : \A r \in rows : r.id <= n
  <1>1. PICK s \in Seq(rows) : \A r \in rows : \E k \in 1 .. Len(s) : s[k] = r
    BY DEF IsFiniteSet
  <1>2. Len(s) \in Nat /\ \A k \in 1 .. Len(s) : s[k] \in rows
    BY <1>1
  <1> DEFINE Bounded(k) == \E n \in Nat : \A j \in 1 .. k : s[j].id <= n
             Bad == {k \in 0 .. Len(s) : ~Bounded(k)}
  <1>3. Bad = {}
    <2> SUFFICES ASSUME Bad # {} PROVE FALSE
      OBVIOUS
    <2>1. Bad \in SUBSET Nat
      BY <1>2
    <2> HIDE DEF Bad
    <2>2. PICK m \in Bad : \A k \in Bad : m <= k
      BY <2>1, LeastNat
    <2> USE DEF Bad
    <2>3. m \in Nat /\ m <= Len(s) /\ ~Bounded(m)
      BY <2>2, <1>2
    <2>4. Bounded(0)
      <3>1. 0 \in Nat /\ \A j \in 1 .. 0 : s[j].id <= 0
        OBVIOUS
      <3> QED BY <3>1
    <2>5. m # 0
      BY <2>3, <2>4
    <2>6. m - 1 \in 0 .. Len(s) /\ m \in 1 .. Len(s) /\ Bounded(m - 1)
      <3>1. m - 1 \in 0 .. Len(s) /\ m \in 1 .. Len(s) /\ ~(m <= m - 1)
        BY <2>3, <2>5, <1>2
      <3>2. m - 1 \notin Bad
        BY <2>2, <3>1
      <3> HIDE DEF Bounded
      <3> QED BY <3>1, <3>2
    <2>7. PICK n \in Nat : \A j \in 1 .. (m - 1) : s[j].id <= n
      BY <2>6
    <2>8. s[m].id \in Nat
      <3>1. s[m] \in rows
        BY <2>6, <1>2
      <3> QED BY <3>1
    <2>9. PICK b \in Nat : n <= b /\ s[m].id <= b
      <3>1. ASSUME NEW x \in Nat, NEW y \in Nat PROVE \E z \in Nat : x <= z /\ y <= z
        <4>1. x + y \in Nat /\ x <= x + y /\ y <= x + y
          OBVIOUS
        <4> QED BY <4>1
      <3> QED BY <2>8, <3>1
    <2>10. ASSUME NEW j \in 1 .. m PROVE s[j].id <= b
      <3>1. CASE j = m
        BY <3>1, <2>9
      <3>2. CASE j # m
        <4>1. j \in 1 .. (m - 1) /\ j \in 1 .. Len(s)
          BY <3>2, <2>3
        <4>2. s[j] \in rows /\ s[j].id <= n
          BY <4>1, <2>7, <1>2
        <4> DEFINE x == s[j].id
        <4>3. x \in Nat /\ x <= n
          BY <4>2
        <4> HIDE DEF x
        <4>4. x <= b
          BY <4>3, <2>9
        <4> QED BY <4>4 DEF x
      <3> QED BY <3>1, <3>2
    <2>11. Bounded(m)
      BY <2>9, <2>10
    <2> QED BY <2>3, <2>11
  <1>4. Bounded(Len(s))
    <2> HIDE DEF Bounded
    <2>1. Len(s) \in 0 .. Len(s)
      BY <1>2
    <2> QED BY <2>1, <1>3
  <1>5. PICK n \in Nat : \A j \in 1 .. Len(s) : s[j].id <= n
    BY <1>4
  <1> QED BY <1>1, <1>5

-----------------------------------------------------------------------------
(* Scopes of a tree                                                          *)

\* One level of the climb from node i of a tree.
Climb(tree, up, i) ==
    LET n == CHOOSE m \in tree : m.id = i
    IN IF i = NoParent \/ n.name # LegacyName THEN i ELSE up[n.parent]

\* Every node has a regular scope: the climb ends, as depths decrease.
LEMMA ClimbEnds ==
    ASSUME NEW tree, TreeOK(tree)
    PROVE  \E up : up = [i \in Ids(tree) \cup {NoParent} |-> Climb(tree, up, i)]
  <1>1. PICK size \in Nat : \E depth \in [Ids(tree) -> 0 .. size] :
            \A n \in tree : n.parent # NoParent => depth[n.parent] < depth[n.id]
    BY DEF TreeOK
  <1>2. PICK depth \in [Ids(tree) -> 0 .. size] :
            \A n \in tree : n.parent # NoParent => depth[n.parent] < depth[n.id]
    BY <1>1
  <1> DEFINE D(i) == IF i = NoParent THEN 0 ELSE depth[i] + 1
             S == Ids(tree) \cup {NoParent}
             Upto(k) == {i \in S : D(i) <= k}
             Finish(k) == \E up : up = [i \in Upto(k) |-> Climb(tree, up, i)]
             Bad == {k \in Nat : ~Finish(k)}
  <1>3. /\ \A i \in S : D(i) \in Nat /\ D(i) <= size + 1
        /\ \A i \in S : i # NoParent => D(i) > 0
    <2>1. ASSUME NEW i \in S, i # NoParent PROVE depth[i] \in 0 .. size
      BY <2>1, <1>2
    <2> QED BY <2>1
  <1>4. ASSUME NEW n \in tree PROVE n.id \in S /\ n.parent \in S /\ n.id # NoParent /\ D(n.parent) < D(n.id)
    <2>1. n.id \in S /\ n.parent \in S /\ n.id # NoParent
      BY DEF TreeOK, Ids
    <2>2. CASE n.parent = NoParent
      BY <2>1, <2>2, <1>3
    <2>3. CASE n.parent # NoParent
      <3>1. depth[n.parent] < depth[n.id]
        BY <1>2, <2>3
      <3>2. depth[n.parent] \in 0 .. size /\ depth[n.id] \in 0 .. size
        BY <1>2, <2>1, <2>3
      <3> QED BY <3>1, <3>2, <2>1, <2>3
    <2> QED BY <2>1, <2>2, <2>3
  <1>5. ASSUME NEW i \in S, i # NoParent
        PROVE  LET n == CHOOSE m \in tree : m.id = i IN n \in tree /\ n.id = i
    BY <1>5 DEF Ids
  <1>6. Bad = {}
    <2> SUFFICES ASSUME Bad # {} PROVE FALSE
      OBVIOUS
    <2>1. PICK m \in Bad : \A k \in Bad : m <= k
      <3>1. Bad \in SUBSET Nat
        OBVIOUS
      <3> HIDE DEF Bad
      <3> QED BY <3>1, LeastNat
    <2>2. m \in Nat /\ ~Finish(m)
      BY <2>1
    <2>3. \E f : \A i \in Upto(m) : i # NoParent =>
              LET n == CHOOSE x \in tree : x.id = i
              IN n.name = LegacyName => f[n.parent] = Climb(tree, f, n.parent)
      <3>1. CASE m = 0
        <4>1. \A i \in Upto(m) : i = NoParent
          BY <3>1, <1>3
        <4> QED BY <4>1
      <3>2. CASE m # 0
        <4>1. Finish(m - 1)
          <5>1. m - 1 \in Nat /\ ~(m <= m - 1)
            BY <2>2, <3>2
          <5>2. m - 1 \notin Bad
            BY <5>1, <2>1
          <5> HIDE DEF Finish
          <5> QED BY <5>1, <5>2
        <4>2. PICK f : f = [i \in Upto(m - 1) |-> Climb(tree, f, i)]
          BY <4>1
        <4>3. ASSUME NEW i \in Upto(m), i # NoParent
              PROVE  LET n == CHOOSE x \in tree : x.id = i
                     IN f[n.parent] = Climb(tree, f, n.parent)
          <5> DEFINE n == CHOOSE x \in tree : x.id = i
          <5>1. n \in tree /\ n.id = i
            BY <1>5, <4>3
          <5> HIDE DEF n
          <5>2. n.parent \in S /\ D(n.parent) < D(i) /\ D(i) <= m /\ D(i) \in Nat /\ D(n.parent) \in Nat
            BY <5>1, <1>3, <1>4
          <5> HIDE DEF D
          <5>3. n.parent \in Upto(m - 1)
            BY <5>2, <2>2
          <5> HIDE DEF Upto
          <5>4. f[n.parent] = Climb(tree, f, n.parent)
            BY <5>3, <4>2
          <5> QED BY <5>4 DEF n
        <4> QED BY <4>3
      <3> QED BY <3>1, <3>2
    <2>4. PICK f : \A i \in Upto(m) : i # NoParent =>
              LET n == CHOOSE x \in tree : x.id = i
              IN n.name = LegacyName => f[n.parent] = Climb(tree, f, n.parent)
      BY <2>3
    <2> DEFINE g == [i \in Upto(m) |-> Climb(tree, f, i)]
    <2>5. ASSUME NEW i \in Upto(m) PROVE Climb(tree, f, i) = Climb(tree, g, i)
      <3> DEFINE n == CHOOSE x \in tree : x.id = i
      <3>1. CASE i = NoParent \/ n.name # LegacyName
        BY <3>1 DEF Climb
      <3>2. CASE i # NoParent /\ n.name = LegacyName
        <4>1. n \in tree /\ n.id = i
          BY <1>5, <3>2
        <4>2. f[n.parent] = Climb(tree, f, n.parent)
          BY <2>4, <3>2
        <4> HIDE DEF n
        <4>3. n.parent \in S /\ D(n.parent) < D(i) /\ D(i) <= m /\ D(i) \in Nat /\ D(n.parent) \in Nat
          BY <4>1, <1>3, <1>4
        <4> HIDE DEF D
        <4>4. n.parent \in Upto(m)
          BY <4>3, <2>2
        <4> HIDE DEF Upto
        <4>5. g[n.parent] = f[n.parent]
          BY <4>2, <4>4
        <4> HIDE DEF g
        <4>6. Climb(tree, f, i) = f[n.parent] /\ Climb(tree, g, i) = g[n.parent]
          BY <3>2 DEF Climb, n
        <4> QED BY <4>5, <4>6
      <3> QED BY <3>1, <3>2
    <2>6. g = [i \in Upto(m) |-> Climb(tree, g, i)]
      <3> HIDE DEF Upto
      <3> QED BY <2>5
    <2> HIDE DEF g
    <2>7. Finish(m)
      BY <2>6
    <2> QED BY <2>2, <2>7
  <1>7. Finish(size + 1) /\ Upto(size + 1) = S
    <2>1. Upto(size + 1) = S
      <3> HIDE DEF D, S
      <3> QED BY <1>3
    <2>2. size + 1 \in Nat
      OBVIOUS
    <2> HIDE DEF Finish
    <2> QED BY <1>6, <2>1, <2>2
  <1> HIDE DEF Upto, D
  <1> QED BY <1>7

LEMMA ScopeOfNode ==
    ASSUME NEW tree, TreeOK(tree)
    PROVE  /\ RegularScope(tree, NoParent) = NoParent
           /\ \A n \in tree : RegularScope(tree, n.id) =
                  IF n.name # LegacyName THEN n.id ELSE RegularScope(tree, n.parent)
  <1> DEFINE S == Ids(tree) \cup {NoParent}
             up == CHOOSE f : f = [i \in S |-> Climb(tree, f, i)]
  <1>1. up = [i \in S |-> Climb(tree, up, i)]
    BY ClimbEnds
  <1>2. \A i : RegularScope(tree, i) = up[i]
    BY DEF RegularScope, Climb
  <1> HIDE DEF up
  <1>3. NoParent \in S /\ up[NoParent] = NoParent
    BY <1>1 DEF Climb
  <1>4. ASSUME NEW n \in tree
        PROVE  up[n.id] = IF n.name # LegacyName THEN n.id ELSE up[n.parent]
    <2>1. n.id \in S /\ n.id # NoParent /\ \A m \in tree : m.id = n.id => m = n
      BY DEF Ids, TreeOK
    <2>2. (CHOOSE m \in tree : m.id = n.id) = n
      BY <2>1
    <2>3. up[n.id] = Climb(tree, up, n.id)
      BY <2>1, <1>1
    <2> QED BY <2>1, <2>2, <2>3 DEF Climb
  <1> QED BY <1>2, <1>3, <1>4

-----------------------------------------------------------------------------
(* What a revision does to a database, table by table                        *)

Imported(edits) ==
    {[id |-> e.id, kind |-> "edit", card |-> e.card, status |-> ProposalStatus[e.status],
      reason |-> NoReason, note |-> FALSE] : e \in edits}
WithReasons(proposals) ==
    {[p EXCEPT !.reason = IF p.note THEN "note" ELSE "legacy"] : p \in proposals}
Exported(proposals) ==
    {[id |-> p.id, card |-> p.card, status |-> EditStatus[p.status]] :
        p \in {q \in proposals : q.kind = "edit"}}
WithoutReasons(proposals) == {[p EXCEPT !.reason = NoReason] : p \in proposals}

Doomed(d) == Ids({n \in d.tree : n.name = LegacyName})
Kept(d) == {n \in d.tree : n.id \notin Doomed(d)}

\* The legacy nodes are gone, nothing refers to them.
Cut(d, e) ==
    /\ e.tree = Kept(d) /\ e.assigned = Promoted(d)
    /\ \A n \in Kept(d) : n.parent \notin Doomed(d)
    /\ \A c \in SchemaCard : Promoted(d)[c] \notin Doomed(d)

SameTree(d, e) == e.tree = d.tree /\ e.assigned = d.assigned
SameRows(d, e) ==
    e.edits = d.edits /\ e.proposals = d.proposals /\ e.lastId = d.lastId
SameScopes(d, e) == e.scopes = d.scopes

Tables(rev, tree, homes, jobRows, edits, proposals, archived, scopes, lastId) ==
    [rev |-> rev, tree |-> tree, assigned |-> homes, jobs |-> jobRows, edits |-> edits,
     proposals |-> proposals, archived |-> archived, scopes |-> scopes, lastId |-> lastId]

LEMMA FieldsOfTables ==
    \A r, t, a, j, e, p, g, s, l :
        LET d == Tables(r, t, a, j, e, p, g, s, l) IN
        /\ d.rev = r /\ d.tree = t /\ d.assigned = a /\ d.jobs = j /\ d.edits = e
        /\ d.proposals = p /\ d.archived = g /\ d.scopes = s /\ d.lastId = l
        /\ r \in 1 .. 11 => Shaped(d)
  BY DEF Tables, Shaped

LEMMA UpgradeEffect ==
    ASSUME NEW d, Shaped(d), NEW i \in 2 .. 11, NEW e \in Upgraded(i, d)
    PROVE  /\ Shaped(e) /\ e.rev = i /\ e.archived = d.archived
           /\ IF i = 5 THEN Cut(d, e) ELSE SameTree(d, e)
           /\ CASE i = 7 -> /\ e.edits = {} /\ e.proposals = Imported(d.edits)
                            /\ e.lastId = LastId(d.edits)
                [] i = 9 -> /\ e.edits = d.edits /\ e.lastId = d.lastId
                            /\ e.proposals = WithReasons(d.proposals)
                [] OTHER -> SameRows(d, e)
           /\ IF i = 11 THEN e.scopes = {s \in d.scopes : s.kind = "taxonomy_node"}
                        ELSE SameScopes(d, e)
  <1>1. PICK m : /\ e = [m EXCEPT !.rev = i]
                 /\ \/ i = 5 /\ m \in HardCut(d)
                    \/ i = 7 /\ m \in CardProposalsTable(d)
                    \/ i = 9 /\ m \in ProposalReasons(d)
                    \/ i = 11 /\ m \in NoVirtualScopes(d)
                    \/ i \notin {5, 7, 9, 11} /\ m = d
    BY UpgradesByNumber
  <1>2. CASE i = 5
    <2>1. m = [d EXCEPT !.assigned = Promoted(d), !.tree = Kept(d)] /\ Cut(d, m)
      <3> DEFINE f == [d EXCEPT !.assigned = Promoted(d)]
      <3>1. m \in WithoutLegacyNodes(f)
        BY <1>1, <1>2 DEF HardCut
      <3>2. f.tree = d.tree /\ f.assigned = Promoted(d)
        BY DEF Shaped
      <3>3. Doomed(f) = Doomed(d) /\ Kept(f) = Kept(d)
        BY <3>2 DEF Doomed, Kept
      <3> HIDE DEF f
      <3>4. /\ m = [f EXCEPT !.tree = Kept(f)]
            /\ \A n \in Kept(f) : n.parent \notin Doomed(f)
            /\ \A c \in SchemaCard : f.assigned[c] \notin Doomed(f)
        BY <3>1 DEF WithoutLegacyNodes, Doomed, Kept
      <3>5. m = [d EXCEPT !.assigned = Promoted(d), !.tree = Kept(d)]
        BY <3>3, <3>4 DEF f, Shaped
      <3>6. m.tree = Kept(d) /\ m.assigned = Promoted(d)
        BY <3>5 DEF Shaped
      <3> QED BY <3>2, <3>3, <3>4, <3>5, <3>6 DEF Cut
    <2>2. /\ Shaped(e) /\ e.rev = 5 /\ e.archived = d.archived /\ SameRows(d, e) /\ SameScopes(d, e)
          /\ e.tree = Kept(d) /\ e.assigned = Promoted(d)
      <3>1. e = Tables(5, Kept(d), Promoted(d), d.jobs, d.edits, d.proposals, d.archived,
                       d.scopes, d.lastId)
        BY <1>1, <1>2, <2>1 DEF Shaped, Tables
      <3> QED BY <3>1, FieldsOfTables DEF SameRows, SameScopes
    <2>3. Cut(d, e)
      BY <2>1, <2>2 DEF Cut
    <2> QED BY <1>2, <2>2, <2>3
  <1>3. CASE i = 7
    <2>1. m = [d EXCEPT !.proposals = Imported(d.edits), !.lastId = LastId(d.edits), !.edits = {}]
      <3>1. CardProposalsTable(d) = {[d EXCEPT !.proposals = Imported(d.edits),
                                              !.lastId = LastId(d.edits), !.edits = {}]}
        BY DEF CardProposalsTable, Imported
      <3> QED BY <1>1, <1>3, <3>1
    <2>2. /\ Shaped(e) /\ e.rev = 7 /\ e.archived = d.archived /\ SameTree(d, e) /\ SameScopes(d, e)
          /\ e.edits = {} /\ e.proposals = Imported(d.edits) /\ e.lastId = LastId(d.edits)
      <3>1. e = Tables(7, d.tree, d.assigned, d.jobs, {}, Imported(d.edits), d.archived,
                       d.scopes, LastId(d.edits))
        BY <1>1, <1>3, <2>1 DEF Shaped, Tables
      <3> QED BY <3>1, FieldsOfTables DEF SameTree, SameScopes
    <2> QED BY <1>3, <2>2
  <1>4. CASE i = 9
    <2>1. m = [d EXCEPT !.proposals = WithReasons(d.proposals)]
      BY <1>1, <1>4 DEF ProposalReasons, WithReasons
    <2>2. /\ Shaped(e) /\ e.rev = 9 /\ e.archived = d.archived /\ SameTree(d, e) /\ SameScopes(d, e)
          /\ e.edits = d.edits /\ e.proposals = WithReasons(d.proposals) /\ e.lastId = d.lastId
      <3>1. e = Tables(9, d.tree, d.assigned, d.jobs, d.edits, WithReasons(d.proposals),
                       d.archived, d.scopes, d.lastId)
        BY <1>1, <1>4, <2>1 DEF Shaped, Tables
      <3> QED BY <3>1, FieldsOfTables DEF SameTree, SameScopes
    <2> QED BY <1>4, <2>2
  <1>5. CASE i = 11
    <2>1. m = [d EXCEPT !.scopes = {s \in d.scopes : s.kind = "taxonomy_node"}]
      BY <1>1, <1>5 DEF NoVirtualScopes
    <2>2. /\ Shaped(e) /\ e.rev = 11 /\ e.archived = d.archived /\ SameTree(d, e) /\ SameRows(d, e)
          /\ e.scopes = {s \in d.scopes : s.kind = "taxonomy_node"}
      <3>1. e = Tables(11, d.tree, d.assigned, d.jobs, d.edits, d.proposals, d.archived,
                       {s \in d.scopes : s.kind = "taxonomy_node"}, d.lastId)
        BY <1>1, <1>5, <2>1 DEF Shaped, Tables
      <3> QED BY <3>1, FieldsOfTables DEF SameTree, SameRows
    <2> QED BY <1>5, <2>2
  <1>6. CASE i \notin {5, 7, 9, 11}
    <2>1. /\ Shaped(e) /\ e.rev = i /\ e.archived = d.archived /\ SameTree(d, e) /\ SameRows(d, e)
          /\ SameScopes(d, e)
      BY <1>1, <1>6 DEF Shaped, SameTree, SameRows, SameScopes
    <2> QED BY <1>6, <2>1
  <1> QED BY <1>2, <1>3, <1>4, <1>5, <1>6

LEMMA DowngradeEffect ==
    ASSUME NEW d, Shaped(d), d.rev > 1, NEW e \in Downgraded(d)
    PROVE  /\ Shaped(e) /\ e.rev = d.rev - 1 /\ SameTree(d, e)
           /\ d.rev = 5 => d.tree = {}
           /\ CASE d.rev = 7 -> /\ e.edits = Exported(d.proposals) /\ e.proposals = {}
                                /\ e.lastId = LastId(Exported(d.proposals)) /\ e.archived = {}
                [] d.rev = 9 -> /\ e.edits = d.edits /\ e.lastId = d.lastId
                                /\ e.proposals = WithoutReasons(d.proposals)
                                /\ e.archived = d.archived
                [] OTHER -> SameRows(d, e) /\ e.archived = d.archived
           /\ e.scopes \subseteq d.scopes
  <1>0. d.rev \in 2 .. 11
    BY DEF Shaped
  <1>1. PICK m : /\ e = [m EXCEPT !.rev = d.rev - 1]
                 /\ \/ d.rev = 5 /\ m \in HardCutBack(d)
                    \/ d.rev = 7 /\ m \in CardProposalsBack(d)
                    \/ d.rev = 8 /\ m \in LayoutsBack(d)
                    \/ d.rev = 9 /\ m \in ReasonsBack(d)
                    \/ d.rev \notin {5, 7, 8, 9} /\ m = d
    BY <1>0, DowngradesByNumber
  <1>2. CASE d.rev = 7
    <2>1. m = [d EXCEPT !.edits = Exported(d.proposals), !.lastId = LastId(Exported(d.proposals)),
                        !.proposals = {}, !.archived = {}]
      <3>1. CardProposalsBack(d) =
                {[d EXCEPT !.edits = Exported(d.proposals), !.lastId = LastId(Exported(d.proposals)),
                           !.proposals = {}, !.archived = {}]}
        BY DEF CardProposalsBack, Exported
      <3> QED BY <1>1, <1>2, <3>1
    <2>2. /\ Shaped(e) /\ e.rev = 6 /\ SameTree(d, e) /\ e.scopes = d.scopes
          /\ e.edits = Exported(d.proposals) /\ e.proposals = {}
          /\ e.lastId = LastId(Exported(d.proposals)) /\ e.archived = {}
      <3>0. e = [m EXCEPT !.rev = 6]
        BY <1>1, <1>2
      <3>1. e = Tables(6, d.tree, d.assigned, d.jobs, Exported(d.proposals), {}, {}, d.scopes,
                       LastId(Exported(d.proposals)))
        BY <2>1, <3>0 DEF Shaped, Tables
      <3> QED BY <3>1, FieldsOfTables DEF SameTree
    <2> QED BY <1>2, <2>2
  <1>3. CASE d.rev = 9
    <2>1. m = [d EXCEPT !.proposals = WithoutReasons(d.proposals)]
      BY <1>1, <1>3 DEF ReasonsBack, WithoutReasons
    <2>2. /\ Shaped(e) /\ e.rev = 8 /\ SameTree(d, e) /\ e.scopes = d.scopes
          /\ e.edits = d.edits /\ e.lastId = d.lastId
          /\ e.proposals = WithoutReasons(d.proposals) /\ e.archived = d.archived
      <3>0. e = [m EXCEPT !.rev = 8]
        BY <1>1, <1>3
      <3>1. e = Tables(8, d.tree, d.assigned, d.jobs, d.edits, WithoutReasons(d.proposals),
                       d.archived, d.scopes, d.lastId)
        BY <2>1, <3>0 DEF Shaped, Tables
      <3> QED BY <3>1, FieldsOfTables DEF SameTree
    <2> QED BY <1>3, <2>2
  <1>4. CASE d.rev = 8
    <2>1. m = [d EXCEPT !.scopes = {s \in d.scopes : s.table = "edges"}]
      BY <1>1, <1>4 DEF LayoutsBack
    <2>2. /\ Shaped(e) /\ e.rev = 7 /\ SameTree(d, e) /\ SameRows(d, e) /\ e.archived = d.archived
          /\ e.scopes = {s \in d.scopes : s.table = "edges"}
      <3>0. e = [m EXCEPT !.rev = 7]
        BY <1>1, <1>4
      <3>1. e = Tables(7, d.tree, d.assigned, d.jobs, d.edits, d.proposals, d.archived,
                       {s \in d.scopes : s.table = "edges"}, d.lastId)
        BY <2>1, <3>0 DEF Shaped, Tables
      <3> QED BY <3>1, FieldsOfTables DEF SameTree, SameRows
    <2> QED BY <1>4, <2>2
  <1>5. CASE d.rev \notin {7, 8, 9}
    <2>1. m = d /\ (d.rev = 5 => d.tree = {})
      BY <1>1, <1>5 DEF HardCutBack
    <2>2. /\ Shaped(e) /\ e.rev = d.rev - 1 /\ SameTree(d, e) /\ SameRows(d, e)
          /\ e.archived = d.archived /\ e.scopes = d.scopes
      BY <1>0, <1>1, <2>1 DEF Shaped, SameTree, SameRows
    <2> QED BY <1>5, <2>1, <2>2
  <1> QED BY <1>2, <1>3, <1>4, <1>5

-----------------------------------------------------------------------------
(* Every revision keeps the filing of the cards                              *)

LEMMA SameTreeFiled ==
    ASSUME NEW d, NEW e, NEW filedAt, Filed(d, filedAt), SameTree(d, e),
           e.rev >= 5 => d.rev >= 5 \/ d.tree = {}
    PROVE  Filed(e, filedAt)
  <1>1. e.tree = d.tree /\ e.assigned = d.assigned
    BY DEF SameTree
  <1>2. TreeOK(e.tree) /\ e.assigned \in [SchemaCard -> Ids(e.tree)]
    BY <1>1 DEF Filed
  <1>3. \A c \in SchemaCard : RegularScope(e.tree, e.assigned[c]) = filedAt[c]
    BY <1>1 DEF Filed
  <1>4. e.rev >= 5 => \A n \in e.tree : n.name # LegacyName
    BY <1>1 DEF Filed
  <1> QED BY <1>2, <1>3, <1>4 DEF Filed

LEMMA KeptTreeOK ==
    ASSUME NEW d, TreeOK(d.tree), \A n \in Kept(d) : n.parent \notin Doomed(d)
    PROVE  TreeOK(Kept(d)) /\ \A n \in d.tree : n.id \notin Doomed(d) => n \in Kept(d)
  <1>1. Kept(d) \subseteq d.tree /\ \A n \in d.tree : n.id \notin Doomed(d) => n \in Kept(d)
    BY DEF Kept
  <1>2. Ids(Kept(d)) \subseteq Ids(d.tree) /\ \A n \in Kept(d) : n.id \in Ids(Kept(d))
    BY <1>1 DEF Ids
  <1>3. NoParent \notin Ids(Kept(d)) /\ \A m, n \in Kept(d) : m.id = n.id => m = n
    BY <1>1, <1>2 DEF TreeOK
  <1>4. ASSUME NEW n \in Kept(d) PROVE n.parent \in Ids(Kept(d)) \cup {NoParent}
    <2>1. CASE n.parent # NoParent
      <3>1. PICK p \in d.tree : p.id = n.parent
        BY <1>1, <2>1 DEF TreeOK, Ids
      <3>2. p \in Kept(d)
        BY <1>1, <3>1
      <3> QED BY <1>2, <3>1, <3>2
    <2> QED BY <2>1
  <1>5. PICK size \in Nat : \E depth \in [Ids(d.tree) -> 0 .. size] :
            \A n \in d.tree : n.parent # NoParent => depth[n.parent] < depth[n.id]
    BY DEF TreeOK
  <1>6. PICK depth \in [Ids(d.tree) -> 0 .. size] :
            \A n \in d.tree : n.parent # NoParent => depth[n.parent] < depth[n.id]
    BY <1>5
  <1> DEFINE kept == [i \in Ids(Kept(d)) |-> depth[i]]
  <1>7. kept \in [Ids(Kept(d)) -> 0 .. size]
    BY <1>2, <1>6
  <1>8. ASSUME NEW n \in Kept(d), n.parent # NoParent PROVE kept[n.parent] < kept[n.id]
    <2>1. n.parent \in Ids(Kept(d)) /\ n.id \in Ids(Kept(d)) /\ n \in d.tree
      BY <1>1, <1>2, <1>4, <1>8
    <2> QED BY <2>1, <1>6, <1>8
  <1> HIDE DEF kept
  <1> QED BY <1>1, <1>3, <1>4, <1>7, <1>8 DEF TreeOK

LEMMA CutFiled ==
    ASSUME NEW d, NEW e, NEW filedAt, Filed(d, filedAt), Cut(d, e)
    PROVE  Filed(e, filedAt)
  <1>1. TreeOK(d.tree) /\ d.assigned \in [SchemaCard -> Ids(d.tree)]
    BY DEF Filed
  <1>2. TreeOK(Kept(d)) /\ \A n \in d.tree : n.id \notin Doomed(d) => n \in Kept(d)
    BY <1>1, KeptTreeOK DEF Cut
  <1>3. \A n \in Kept(d) : n \in d.tree /\ n.name # LegacyName
    BY DEF Kept, Doomed, Ids
  <1>4. ASSUME NEW c \in SchemaCard
        PROVE  /\ Promoted(d)[c] \in Ids(Kept(d))
               /\ RegularScope(Kept(d), Promoted(d)[c]) = filedAt[c]
    <2>1. PICK n \in d.tree : n.id = d.assigned[c]
      BY <1>1 DEF Ids
    <2>2. (CHOOSE m \in d.tree : m.id = d.assigned[c]) = n
      BY <1>1, <2>1 DEF TreeOK
    <2>3. Promoted(d)[c] = IF n.name = LegacyName /\ n.parent # NoParent THEN n.parent ELSE n.id
      <3> DEFINE x == CHOOSE m \in d.tree : m.id = d.assigned[c]
      <3>1. Promoted(d)[c] = IF x.name = LegacyName /\ x.parent # NoParent THEN x.parent ELSE x.id
        BY DEF Promoted
      <3> HIDE DEF x
      <3>2. x = n
        BY <2>2 DEF x
      <3> QED BY <3>1, <3>2
    <2>4. Promoted(d)[c] \notin Doomed(d)
      BY DEF Cut
    <2>5. filedAt[c] = RegularScope(d.tree, n.id)
      BY <2>1 DEF Filed
    <2>6. n.name = LegacyName => n.id \in Doomed(d)
      BY DEF Doomed, Ids
    <2>7. PICK k \in Kept(d) : k.id = Promoted(d)[c] /\ filedAt[c] = k.id
      <3>1. CASE n.name # LegacyName
        <4>1. Promoted(d)[c] = n.id /\ filedAt[c] = n.id
          BY <3>1, <2>3, <2>5, <1>1, ScopeOfNode
        <4> QED BY <4>1, <2>4, <1>2
      <3>2. CASE n.name = LegacyName
        <4>1. n.parent # NoParent /\ Promoted(d)[c] = n.parent
          BY <3>2, <2>3, <2>4, <2>6
        <4>2. PICK k \in d.tree : k.id = n.parent
          BY <4>1, <1>1 DEF TreeOK, Ids
        <4>3. k \in Kept(d) /\ k.name # LegacyName
          BY <4>1, <4>2, <2>4, <1>2, <1>3
        <4>4. filedAt[c] = RegularScope(d.tree, k.id)
          BY <3>2, <2>5, <4>2, <1>1, ScopeOfNode
        <4>5. filedAt[c] = k.id
          BY <4>3, <4>4, <1>1, ScopeOfNode
        <4> QED BY <4>1, <4>2, <4>3, <4>5
      <3> QED BY <3>1, <3>2
    <2>8. RegularScope(Kept(d), k.id) = k.id
      BY <1>2, <1>3, ScopeOfNode
    <2> QED BY <2>7, <2>8 DEF Ids
  <1>5. e.tree = Kept(d) /\ e.assigned = Promoted(d)
    BY DEF Cut
  <1>6. e.assigned \in [SchemaCard -> Ids(e.tree)]
    <2>1. Promoted(d) = [c \in SchemaCard |-> Promoted(d)[c]]
      BY DEF Promoted
    <2> QED BY <2>1, <1>4, <1>5
  <1>7. \A c \in SchemaCard : RegularScope(e.tree, e.assigned[c]) = filedAt[c]
    BY <1>4, <1>5
  <1> QED BY <1>2, <1>3, <1>5, <1>6, <1>7 DEF Filed

-----------------------------------------------------------------------------
(* Rows on their way from one table to the other                             *)

LEMMA ImportedRows ==
    ASSUME NEW edits, edits \subseteq EditRows
    PROVE  /\ Imported(edits) \subseteq ProposalRows
           /\ \A p \in Imported(edits) : \E e \in edits :
                  /\ p.id = e.id /\ p.kind = "edit" /\ p.card = e.card
                  /\ p.status = ProposalStatus[e.status]
           /\ \A e \in edits : \E p \in Imported(edits) : p.id = e.id
           /\ OneOfAnId(edits) => OneOfAnId(Imported(edits))
  <1> DEFINE Row(e) == [id |-> e.id, kind |-> "edit", card |-> e.card,
                        status |-> ProposalStatus[e.status], reason |-> NoReason, note |-> FALSE]
  <1>1. Imported(edits) = {Row(e) : e \in edits}
    BY DEF Imported
  <1>2. ASSUME NEW e \in edits
        PROVE  /\ Row(e) \in ProposalRows
               /\ Row(e).id = e.id /\ Row(e).kind = "edit" /\ Row(e).card = e.card
               /\ Row(e).status = ProposalStatus[e.status]
    <2>1. e.id \in Nat \ {0} /\ e.card \in SchemaCard \cup {NoTarget}
          /\ e.status \in {"pending", "accepted", "rejected"}
      BY DEF EditRows
    <2>2. ProposalStatus[e.status] \in Statuses
      BY <2>1 DEF ProposalStatus, Statuses
    <2> QED BY <2>1, <2>2 DEF ProposalRows, Kinds
  <1> HIDE DEF Row
  <1>3. Imported(edits) \subseteq ProposalRows
    BY <1>1, <1>2
  <1>4. \A p \in Imported(edits) : \E e \in edits : p = Row(e)
    BY <1>1
  <1>5. \A e \in edits : Row(e) \in Imported(edits)
    BY <1>1
  <1>6. ASSUME OneOfAnId(edits) PROVE OneOfAnId(Imported(edits))
    BY <1>2, <1>4, <1>6 DEF OneOfAnId
  <1> QED BY <1>2, <1>3, <1>4, <1>5, <1>6

LEMMA ExportedRows ==
    ASSUME NEW proposals, proposals \subseteq ProposalRows
    PROVE  /\ Exported(proposals) \subseteq EditRows
           /\ \A e \in Exported(proposals) : \E p \in proposals :
                  /\ p.kind = "edit" /\ e.id = p.id /\ e.card = p.card
                  /\ e.status = EditStatus[p.status]
           /\ \A p \in proposals : p.kind = "edit" => \E e \in Exported(proposals) : e.id = p.id
           /\ OneOfAnId(proposals) => OneOfAnId(Exported(proposals))
  <1> DEFINE Row(p) == [id |-> p.id, card |-> p.card, status |-> EditStatus[p.status]]
             Edits == {q \in proposals : q.kind = "edit"}
  <1>1. Exported(proposals) = {Row(p) : p \in Edits}
    BY DEF Exported
  <1>2. ASSUME NEW p \in proposals
        PROVE  /\ Row(p) \in EditRows
               /\ Row(p).id = p.id /\ Row(p).card = p.card /\ Row(p).status = EditStatus[p.status]
    <2>1. p.id \in Nat \ {0} /\ p.card \in SchemaCard \cup {NoTarget} /\ p.status \in Statuses
      BY DEF ProposalRows
    <2>2. EditStatus[p.status] \in {"pending", "accepted", "rejected"}
      BY <2>1 DEF EditStatus, Statuses
    <2> QED BY <2>1, <2>2 DEF EditRows
  <1> HIDE DEF Row
  <1>3. \A e \in Exported(proposals) : \E p \in proposals : p.kind = "edit" /\ e = Row(p)
    BY <1>1
  <1>4. \A p \in proposals : p.kind = "edit" => Row(p) \in Exported(proposals)
    BY <1>1
  <1>5. Exported(proposals) \subseteq EditRows
    BY <1>2, <1>3
  <1>6. ASSUME OneOfAnId(proposals) PROVE OneOfAnId(Exported(proposals))
    BY <1>2, <1>3, <1>6 DEF OneOfAnId
  <1> QED BY <1>2, <1>3, <1>4, <1>5, <1>6

\* Only the reasons of q and p differ.
SameButReason(q, p) ==
    /\ q \in ProposalRows
    /\ q.id = p.id /\ q.kind = p.kind /\ q.card = p.card /\ q.status = p.status

LEMMA ReasonRows ==
    ASSUME NEW proposals, proposals \subseteq ProposalRows,
           NEW rows \in {WithReasons(proposals), WithoutReasons(proposals)}
    PROVE  /\ rows \subseteq ProposalRows
           /\ \A q \in rows : \E p \in proposals : SameButReason(q, p)
           /\ \A p \in proposals : \E q \in rows : q.id = p.id
           /\ OneOfAnId(proposals) => OneOfAnId(rows)
           /\ rows = WithReasons(proposals) => \A q \in rows : q.reason # NoReason
  <1> DEFINE Why(p) == IF rows = WithReasons(proposals)
                       THEN IF p.note THEN "note" ELSE "legacy" ELSE NoReason
             Row(p) == [p EXCEPT !.reason = Why(p)]
  <1>1. rows = {Row(p) : p \in proposals}
    <2>1. CASE rows = WithReasons(proposals)
      BY <2>1 DEF WithReasons
    <2>2. CASE rows # WithReasons(proposals)
      BY <2>2 DEF WithoutReasons
    <2> QED BY <2>1, <2>2
  <1>2. ASSUME NEW p \in proposals
        PROVE  SameButReason(Row(p), p) /\ Row(p).reason = Why(p)
    <2>1. p \in ProposalRows /\ Why(p) \in {NoReason, "note", "legacy", "given"}
      OBVIOUS
    <2> HIDE DEF Why
    <2> QED BY <2>1 DEF SameButReason, ProposalRows
  <1>3. \A p \in proposals : rows = WithReasons(proposals) => Why(p) # NoReason
    BY DEF NoReason
  <1> HIDE DEF Row, Why
  <1>4. \A q \in rows : \E p \in proposals : q = Row(p)
    BY <1>1
  <1>5. \A p \in proposals : Row(p) \in rows
    BY <1>1
  <1>6. \A q \in rows : \E p \in proposals : SameButReason(q, p)
    BY <1>2, <1>4
  <1>7. rows \subseteq ProposalRows
    BY <1>6 DEF SameButReason
  <1>8. \A p \in proposals : \E q \in rows : q.id = p.id
    BY <1>2, <1>5 DEF SameButReason
  <1>9. ASSUME OneOfAnId(proposals) PROVE OneOfAnId(rows)
    <2>1. ASSUME NEW q \in rows, NEW r \in rows, q.id = r.id PROVE q = r
      <3>1. PICK p \in proposals : q = Row(p)
        BY <1>4
      <3>2. PICK o \in proposals : r = Row(o)
        BY <1>4
      <3>3. p.id = o.id
        BY <1>2, <2>1, <3>1, <3>2 DEF SameButReason
      <3>4. p = o
        BY <1>9, <3>3 DEF OneOfAnId
      <3> QED BY <3>1, <3>2, <3>4
    <2> QED BY <2>1 DEF OneOfAnId
  <1>10. rows = WithReasons(proposals) => \A q \in rows : q.reason # NoReason
    BY <1>2, <1>3, <1>4
  <1> QED BY <1>6, <1>7, <1>8, <1>9, <1>10

-----------------------------------------------------------------------------
(* One revision, up or down, keeps the invariant of a database               *)

LEMMA OneUpgrade ==
    ASSUME NEW d, NEW filedAt, NEW said, NEW back, DatabaseInv(d, filedAt, said, back),
           NEW i \in 2 .. 11, d.rev = i - 1, NEW e \in Upgraded(i, d)
    PROVE  DatabaseInv(e, filedAt, said, back) /\ e.rev = i
  <1>1. Shaped(d) /\ Filed(d, filedAt) /\ Stored(d) /\ AsTold(d, said, back)
    BY DEF DatabaseInv
  <1>2. /\ Shaped(e) /\ e.rev = i /\ e.archived = d.archived
        /\ IF i = 5 THEN Cut(d, e) ELSE SameTree(d, e)
        /\ CASE i = 7 -> /\ e.edits = {} /\ e.proposals = Imported(d.edits)
                         /\ e.lastId = LastId(d.edits)
             [] i = 9 -> /\ e.edits = d.edits /\ e.lastId = d.lastId
                         /\ e.proposals = WithReasons(d.proposals)
             [] OTHER -> SameRows(d, e)
        /\ IF i = 11 THEN e.scopes = {s \in d.scopes : s.kind = "taxonomy_node"}
                     ELSE SameScopes(d, e)
    BY <1>1, UpgradeEffect
  <1>3. Filed(e, filedAt)
    <2>1. CASE i = 5
      BY <2>1, <1>1, <1>2, CutFiled
    <2>2. CASE i # 5
      <3>1. e.rev >= 5 => d.rev >= 5
        BY <2>2, <1>2
      <3> QED BY <2>2, <3>1, <1>1, <1>2, SameTreeFiled
    <2> QED BY <2>1, <2>2
  <1>4. e.rev = 11 => \A s \in e.scopes : s.kind = "taxonomy_node"
    BY <1>2
  <1>5. CASE i = 7
    <2>1. /\ d.edits \subseteq EditRows /\ OneOfAnId(d.edits) /\ d.proposals = {} /\ d.lastId \in Nat
          /\ d.archived = {} /\ \A x \in d.edits : x.id <= d.lastId
      BY <1>1, <1>5 DEF Stored
    <2>2. e.edits = {} /\ e.proposals = Imported(d.edits) /\ e.lastId = LastId(d.edits)
      BY <1>2, <1>5
    <2>3. /\ e.proposals \subseteq ProposalRows
          /\ \A p \in e.proposals : \E x \in d.edits :
                 /\ p.id = x.id /\ p.kind = "edit" /\ p.card = x.card
                 /\ p.status = ProposalStatus[x.status]
          /\ \A x \in d.edits : \E p \in e.proposals : p.id = x.id
          /\ OneOfAnId(e.proposals)
      BY <2>1, <2>2, ImportedRows
    <2>4. \A x \in d.edits : x.id \in Nat
      BY <2>1 DEF EditRows
    <2>5. e.lastId \in Nat /\ \A x \in d.edits : x.id <= e.lastId
      BY <2>1, <2>2, <2>4, LastIdBounds
    <2>6. \A p \in e.proposals : p.id <= e.lastId
      BY <2>3, <2>5
    <2>7. Stored(e)
      <3>1. e.rev = 7
        BY <1>2, <1>5
      <3> QED BY <2>2, <2>3, <2>5, <2>6, <3>1 DEF Stored, OneOfAnId
    <2>8. AsTold(e, said, back)
      <3>1. /\ said \subseteq ToldRows /\ OneOfAnId(said) /\ EditsTold(d, said, back)
            /\ ToldKept(d, said, back) /\ (~back => e.archived = Deleted(said))
        BY <1>1, <1>2 DEF AsTold
      <3>2. EditsTold(e, said, back)
        BY <2>2 DEF EditsTold
      <3>3. ProposalsTold(e, said, back)
        <4>1. ASSUME NEW p \in e.proposals
              PROVE  \E t \in said : /\ t.id = p.id /\ t.kind = p.kind /\ t.card = p.card
                                     /\ Agrees(p.kind, p.status, t.status, back)
          <5>1. PICK x \in d.edits : /\ p.id = x.id /\ p.kind = "edit" /\ p.card = x.card
                                     /\ p.status = ProposalStatus[x.status]
            BY <2>3
          <5>2. PICK t \in said : /\ t.id = x.id /\ t.kind = "edit" /\ t.card = x.card
                                  /\ Agrees("edit", ProposalStatus[x.status], t.status, back)
            BY <3>1 DEF EditsTold
          <5> QED BY <5>1, <5>2
        <4> QED BY <4>1 DEF ProposalsTold
      <3>4. Ids(d.edits) \cup Ids(d.proposals) \subseteq Ids(e.edits) \cup Ids(e.proposals)
        BY <2>1, <2>3 DEF Ids
      <3>5. ToldKept(e, said, back)
        BY <3>1, <3>4 DEF ToldKept
      <3> QED BY <3>1, <3>2, <3>3, <3>5 DEF AsTold
    <2> QED BY <1>2, <1>3, <2>7, <2>8 DEF DatabaseInv
  <1>6. CASE i = 9
    <2>1. e.edits = d.edits /\ e.lastId = d.lastId /\ e.proposals = WithReasons(d.proposals)
      BY <1>2, <1>6
    <2>2. /\ e.proposals \subseteq ProposalRows
          /\ \A q \in e.proposals : \E p \in d.proposals : SameButReason(q, p)
          /\ \A p \in d.proposals : \E q \in e.proposals : q.id = p.id
          /\ OneOfAnId(e.proposals)
          /\ \A q \in e.proposals : q.reason # NoReason
      BY <1>1, <2>1, ReasonRows DEF Stored
    <2>3. Stored(e)
      <3>1. d.rev = 8 /\ e.rev = 9
        BY <1>2, <1>6
      <3>2. \A q \in e.proposals : q.id <= e.lastId
        BY <2>1, <2>2, <1>1 DEF SameButReason, Stored
      <3>3. d.edits = {}
        BY <3>1, <1>1 DEF Stored
      <3> QED BY <1>1, <2>1, <2>2, <3>1, <3>2, <3>3 DEF Stored
    <2>4. AsTold(e, said, back)
      <3>1. /\ said \subseteq ToldRows /\ OneOfAnId(said) /\ EditsTold(d, said, back)
            /\ ProposalsTold(d, said, back)
            /\ ToldKept(d, said, back) /\ (~back => e.archived = Deleted(said))
        BY <1>1, <1>2 DEF AsTold
      <3>2. EditsTold(e, said, back)
        BY <2>1, <3>1 DEF EditsTold
      <3>3. ProposalsTold(e, said, back)
        BY <2>2, <3>1 DEF ProposalsTold, SameButReason
      <3>4. Ids(d.edits) \cup Ids(d.proposals) \subseteq Ids(e.edits) \cup Ids(e.proposals)
        BY <2>1, <2>2 DEF Ids
      <3>5. ToldKept(e, said, back)
        BY <3>1, <3>4 DEF ToldKept
      <3> QED BY <3>1, <3>2, <3>3, <3>5 DEF AsTold
    <2> QED BY <1>2, <1>3, <2>3, <2>4 DEF DatabaseInv
  <1>7. CASE i \notin {7, 9}
    <2>1. e.edits = d.edits /\ e.lastId = d.lastId /\ e.proposals = d.proposals
      BY <1>2, <1>7 DEF SameRows
    <2>2. Stored(e)
      <3>1. (e.rev < 7 <=> d.rev < 7) /\ (e.rev >= 9 <=> d.rev >= 9)
        BY <1>2, <1>7
      <3>2. e.rev >= 7 <=> d.rev >= 7
        BY <1>2, <1>7
      <3> QED BY <1>1, <1>2, <1>4, <2>1, <3>1, <3>2 DEF Stored
    <2>3. AsTold(e, said, back)
      BY <1>1, <1>2, <2>1 DEF AsTold, EditsTold, ProposalsTold, ToldKept
    <2> QED BY <1>2, <1>3, <2>2, <2>3 DEF DatabaseInv
  <1> QED BY <1>2, <1>5, <1>6, <1>7

LEMMA OneDowngrade ==
    ASSUME NEW d, NEW filedAt, NEW said, NEW back \in BOOLEAN, DatabaseInv(d, filedAt, said, back),
           d.rev > 1, NEW e \in Downgraded(d), NEW now \in BOOLEAN,
           now = (back \/ (d.rev >= 7 /\ ~(e.rev >= 7)))
    PROVE  DatabaseInv(e, filedAt, said, now)
  <1>1. Shaped(d) /\ Filed(d, filedAt) /\ Stored(d) /\ AsTold(d, said, back) /\ d.rev \in 1 .. 11
    BY DEF DatabaseInv, Shaped
  <1>2. /\ Shaped(e) /\ e.rev = d.rev - 1 /\ SameTree(d, e)
        /\ d.rev = 5 => d.tree = {}
        /\ CASE d.rev = 7 -> /\ e.edits = Exported(d.proposals) /\ e.proposals = {}
                             /\ e.lastId = LastId(Exported(d.proposals)) /\ e.archived = {}
             [] d.rev = 9 -> /\ e.edits = d.edits /\ e.lastId = d.lastId
                             /\ e.proposals = WithoutReasons(d.proposals)
                             /\ e.archived = d.archived
             [] OTHER -> SameRows(d, e) /\ e.archived = d.archived
        /\ e.scopes \subseteq d.scopes
    BY <1>1, DowngradeEffect
  <1>3. Filed(e, filedAt)
    <2>1. e.rev >= 5 => d.rev >= 5
      BY <1>1, <1>2
    <2> QED BY <2>1, <1>1, <1>2, SameTreeFiled
  <1>4. e.rev # 11
    BY <1>1, <1>2
  <1>5. CASE d.rev = 7
    <2>1. /\ d.proposals \subseteq ProposalRows /\ OneOfAnId(d.proposals) /\ d.edits = {}
          /\ d.lastId \in Nat /\ \A p \in d.proposals : p.id <= d.lastId
      BY <1>1, <1>5 DEF Stored
    <2>2. /\ e.edits = Exported(d.proposals) /\ e.proposals = {}
          /\ e.lastId = LastId(e.edits) /\ e.archived = {} /\ e.rev = 6
      BY <1>2, <1>5
    <2>3. /\ e.edits \subseteq EditRows
          /\ \A x \in e.edits : \E p \in d.proposals :
                 /\ p.kind = "edit" /\ x.id = p.id /\ x.card = p.card
                 /\ x.status = EditStatus[p.status]
          /\ \A p \in d.proposals : p.kind = "edit" => \E x \in e.edits : x.id = p.id
          /\ OneOfAnId(e.edits)
      BY <2>1, <2>2, ExportedRows
    <2>4. \A x \in e.edits : x.id \in Nat /\ x.id <= d.lastId
      <3>1. \A x \in e.edits : x.id \in Nat
        BY <2>3 DEF EditRows
      <3> QED BY <3>1, <2>1, <2>3
    <2>5. e.lastId \in Nat /\ \A x \in e.edits : x.id <= e.lastId
      BY <2>1, <2>2, <2>4, LastIdBounds
    <2>6. Stored(e)
      BY <2>2, <2>3, <2>5 DEF Stored, OneOfAnId
    <2>7. now = TRUE
      <3>1. d.rev >= 7 /\ ~(e.rev >= 7)
        BY <1>5, <2>2
      <3> QED BY <3>1, Zenon
    <2>8. AsTold(e, said, TRUE)
      <3>1. /\ said \subseteq ToldRows /\ OneOfAnId(said) /\ ProposalsTold(d, said, back)
            /\ ToldKept(d, said, back)
        BY <1>1 DEF AsTold
      <3>2. EditsTold(e, said, TRUE)
        <4>1. ASSUME NEW x \in e.edits
              PROVE  \E t \in said : /\ t.id = x.id /\ t.kind = "edit" /\ t.card = x.card
                                     /\ Agrees("edit", ProposalStatus[x.status], t.status, TRUE)
          <5>1. PICK p \in d.proposals : /\ p.kind = "edit" /\ x.id = p.id /\ x.card = p.card
                                         /\ x.status = EditStatus[p.status]
            BY <2>3
          <5>2. PICK t \in said : /\ t.id = p.id /\ t.kind = p.kind /\ t.card = p.card
                                  /\ Agrees(p.kind, p.status, t.status, back)
            BY <3>1 DEF ProposalsTold
          <5>3. p.status \in Statuses
            BY <2>1 DEF ProposalRows
          <5>4. ProposalStatus[x.status] = IF p.status = "withdrawn" THEN "pending_review" ELSE p.status
            BY <5>1, <5>3 DEF Statuses, ProposalStatus, EditStatus
          <5>5. p.status = t.status \/ (t.status = "withdrawn" /\ p.status = "pending_review")
            BY <5>2 DEF Agrees
          <5>6. Agrees("edit", ProposalStatus[x.status], t.status, TRUE)
            BY <5>4, <5>5 DEF Agrees
          <5> QED BY <5>1, <5>2, <5>6
        <4> QED BY <4>1 DEF EditsTold
      <3>3. ProposalsTold(e, said, TRUE)
        BY <2>2 DEF ProposalsTold
      <3>4. ToldKept(e, said, TRUE)
        <4>1. ASSUME NEW t \in said, t.kind = "edit"
              PROVE  t.id \in Ids(e.edits) \cup Ids(e.proposals)
          <5>1. t.id \in Ids(d.proposals)
            BY <2>1, <3>1, <4>1 DEF ToldKept, Ids
          <5>2. PICK p \in d.proposals : p.id = t.id
            BY <5>1 DEF Ids
          <5>3. PICK u \in said : u.id = p.id /\ u.kind = p.kind
            BY <3>1 DEF ProposalsTold
          <5>4. u = t
            BY <3>1, <5>2, <5>3 DEF OneOfAnId
          <5>5. PICK x \in e.edits : x.id = p.id
            BY <2>3, <4>1, <5>3, <5>4
          <5> QED BY <5>2, <5>5 DEF Ids
        <4> QED BY <4>1 DEF ToldKept
      <3> QED BY <3>1, <3>2, <3>3, <3>4 DEF AsTold
    <2> QED BY <1>2, <1>3, <2>6, <2>7, <2>8 DEF DatabaseInv
  <1>6. CASE d.rev # 7
    <2>1. now = back
      <3>1. e.rev >= 7 <=> d.rev >= 7
        BY <1>1, <1>2, <1>6
      <3> QED BY <3>1
    <2>2. /\ e.edits = d.edits /\ e.lastId = d.lastId /\ e.archived = d.archived
          /\ e.proposals = IF d.rev = 9 THEN WithoutReasons(d.proposals) ELSE d.proposals
      BY <1>2, <1>6 DEF SameRows
    <2>3. /\ e.proposals \subseteq ProposalRows
          /\ \A q \in e.proposals : \E p \in d.proposals : SameButReason(q, p)
          /\ \A p \in d.proposals : \E q \in e.proposals : q.id = p.id
          /\ OneOfAnId(e.proposals)
      <3>1. CASE d.rev = 9
        BY <3>1, <1>1, <2>2, ReasonRows DEF Stored
      <3>2. CASE d.rev # 9
        <4>1. e.proposals = d.proposals /\ d.proposals \subseteq ProposalRows /\ OneOfAnId(d.proposals)
          BY <3>2, <1>1, <2>2 DEF Stored
        <4>2. \A p \in d.proposals : SameButReason(p, p)
          BY <4>1 DEF SameButReason
        <4> QED BY <4>1, <4>2
      <3> QED BY <3>1, <3>2
    <2>4. Stored(e)
      <3>1. (e.rev < 7 => d.rev < 7) /\ (e.rev >= 7 => d.rev >= 7)
        BY <1>1, <1>2, <1>6
      <3>2. \A q \in e.proposals : q.id <= e.lastId
        BY <2>2, <2>3, <1>1 DEF SameButReason, Stored
      <3>3. e.rev < 7 => e.proposals = {} /\ e.archived = {}
        BY <2>2, <2>3, <3>1, <1>1 DEF Stored
      <3>4. e.rev >= 9 => \A p \in e.proposals : p.reason # NoReason
        <4>1. e.rev >= 9 => d.rev >= 9 /\ d.rev # 9
          BY <1>1, <1>2
        <4>2. e.rev >= 9 => e.proposals = d.proposals
          BY <4>1, <2>2
        <4> QED BY <4>1, <4>2, <1>1 DEF Stored
      <3>5. /\ e.edits \subseteq EditRows /\ OneOfAnId(e.edits) /\ e.lastId \in Nat
            /\ \A x \in e.edits : x.id <= e.lastId
            /\ e.rev >= 7 => e.edits = {}
        BY <2>2, <3>1, <1>1 DEF Stored
      <3> QED BY <1>4, <2>3, <3>2, <3>3, <3>4, <3>5 DEF Stored
    <2>5. AsTold(e, said, back)
      <3>1. /\ said \subseteq ToldRows /\ OneOfAnId(said) /\ EditsTold(d, said, back)
            /\ ProposalsTold(d, said, back)
            /\ ToldKept(d, said, back) /\ (~back => e.archived = Deleted(said))
        BY <1>1, <2>2 DEF AsTold
      <3>2. EditsTold(e, said, back)
        BY <2>2, <3>1 DEF EditsTold
      <3>3. ProposalsTold(e, said, back)
        BY <2>3, <3>1 DEF ProposalsTold, SameButReason
      <3>4. Ids(d.edits) \cup Ids(d.proposals) \subseteq Ids(e.edits) \cup Ids(e.proposals)
        BY <2>2, <2>3 DEF Ids
      <3>5. ToldKept(e, said, back)
        BY <3>1, <3>4 DEF ToldKept
      <3> QED BY <3>1, <3>2, <3>3, <3>5 DEF AsTold
    <2> QED BY <1>2, <1>3, <2>1, <2>4, <2>5 DEF DatabaseInv
  <1> QED BY <1>5, <1>6

-----------------------------------------------------------------------------
(* An upgrade: all the revisions on its way                                  *)

LEMMA UpgradeChain ==
    ASSUME SchemaInv, NEW goal \in (db.rev + 1) .. Newest, UpgradeTo(goal)
    PROVE  DatabaseInv(db', filedUnder, told, wentBack)
  <1>0. db.rev \in 1 .. 11 /\ DatabaseInv(db, filedUnder, told, wentBack) /\ Newest = 11
    BY RevisionNumbers DEF SchemaInv, DatabaseInv, Shaped
  <1> DEFINE from == db.rev
             Step(at, i) == IF i = from THEN {db} ELSE UNION {Upgraded(i, d) : d \in at[i - 1]}
             Runs(k) == \E at : at = [i \in from .. k |-> Step(at, i)]
             Bad == {k \in from .. goal : ~Runs(k)}
  <1>1. from \in Nat /\ goal \in Nat /\ from < goal /\ from >= 1 /\ goal <= 11
    BY <1>0
  <1> HIDE DEF from
  <1>2. Bad = {}
    <2> SUFFICES ASSUME Bad # {} PROVE FALSE
      OBVIOUS
    <2>1. PICK m \in Bad : \A k \in Bad : m <= k
      <3>1. Bad \in SUBSET Nat
        BY <1>1
      <3> HIDE DEF Bad
      <3> QED BY <3>1, LeastNat
    <2>2. m \in from .. goal /\ ~Runs(m)
      BY <2>1
    <2>3. PICK f : \A i \in from .. m : i # from => f[i - 1] = Step(f, i - 1)
      <3>1. CASE m = from
        <4>1. \A i \in from .. m : i = from
          BY <3>1, <1>1
        <4> QED BY <4>1
      <3>2. CASE m # from
        <4>1. m - 1 \in from .. goal /\ ~(m <= m - 1)
          BY <2>2, <3>2, <1>1
        <4>2. Runs(m - 1)
          <5>1. m - 1 \notin Bad
            BY <4>1, <2>1
          <5> HIDE DEF Runs
          <5> QED BY <4>1, <5>1
        <4>3. PICK f : f = [i \in from .. (m - 1) |-> Step(f, i)]
          BY <4>2
        <4>4. \A i \in from .. m : i # from => i - 1 \in from .. (m - 1)
          BY <1>1, <2>2
        <4>5. \A i \in from .. (m - 1) : f[i] = Step(f, i)
          <5> HIDE DEF Step
          <5> QED BY <4>3
        <4> HIDE DEF Step
        <4> QED BY <4>4, <4>5
      <3> QED BY <3>1, <3>2
    <2> DEFINE g == [i \in from .. m |-> Step(f, i)]
    <2>4. ASSUME NEW i \in from .. m PROVE Step(f, i) = Step(g, i)
      <3>1. CASE i = from
        BY <3>1
      <3>2. CASE i # from
        <4>1. i - 1 \in from .. m
          BY <3>2, <1>1, <2>2
        <4>2. g[i - 1] = f[i - 1]
          <5> HIDE DEF Step
          <5> QED BY <4>1, <3>2, <2>3
        <4> HIDE DEF g
        <4> QED BY <4>2
      <3> QED BY <3>1, <3>2
    <2>5. g = [i \in from .. m |-> Step(g, i)]
      <3> HIDE DEF Step
      <3> QED BY <2>4
    <2> HIDE DEF g
    <2>6. Runs(m)
      BY <2>5
    <2> QED BY <2>2, <2>6
  <1> DEFINE at == CHOOSE f : f = [i \in from .. goal |-> Step(f, i)]
  <1>3. db' \in at[goal]
    BY DEF UpgradeTo, from
  <1>4. at = [i \in from .. goal |-> Step(at, i)]
    <2>1. goal \in from .. goal
      BY <1>1
    <2>2. Runs(goal)
      <3> HIDE DEF Runs
      <3> QED BY <1>2, <2>1
    <2> QED BY <2>2
  <1> HIDE DEF at
  <1>5. /\ at[from] = {db}
        /\ \A i \in (from + 1) .. goal : at[i] = UNION {Upgraded(i, d) : d \in at[i - 1]}
    <2>1. from \in from .. goal /\ \A i \in (from + 1) .. goal : i \in from .. goal /\ i # from
      BY <1>1
    <2>2. at[from] = Step(at, from)
      <3> HIDE DEF Step
      <3> QED BY <2>1, <1>4
    <2>3. \A i \in (from + 1) .. goal : at[i] = Step(at, i)
      <3> HIDE DEF Step
      <3> QED BY <2>1, <1>4
    <2> QED BY <2>1, <2>2, <2>3
  <1> HIDE DEF Step, Runs, Bad
  <1> DEFINE Good(i) == \A d \in at[i] : DatabaseInv(d, filedUnder, told, wentBack) /\ d.rev = i
             Wrong == {i \in from .. goal : ~Good(i)}
  <1>6. Good(from)
    BY <1>0, <1>5 DEF from
  <1>7. ASSUME NEW i \in (from + 1) .. goal, Good(i - 1) PROVE Good(i)
    <2>1. ASSUME NEW e \in at[i] PROVE DatabaseInv(e, filedUnder, told, wentBack) /\ e.rev = i
      <3>1. PICK d \in at[i - 1] : e \in Upgraded(i, d)
        BY <1>5, <2>1
      <3>2. DatabaseInv(d, filedUnder, told, wentBack) /\ d.rev = i - 1
        BY <1>7, <3>1
      <3>3. i \in 2 .. 11
        BY <1>1
      <3> QED BY <3>1, <3>2, <3>3, OneUpgrade
    <2> QED BY <2>1
  <1> HIDE DEF Good
  <1>8. Wrong = {}
    <2> SUFFICES ASSUME Wrong # {} PROVE FALSE
      OBVIOUS
    <2>1. PICK m \in Wrong : \A k \in Wrong : m <= k
      <3>1. Wrong \in SUBSET Nat
        BY <1>1
      <3> HIDE DEF Wrong
      <3> QED BY <3>1, LeastNat
    <2>2. m \in from .. goal /\ ~Good(m) /\ m # from
      BY <2>1, <1>6
    <2>3. m \in (from + 1) .. goal /\ m - 1 \in from .. goal /\ ~(m <= m - 1)
      BY <2>2, <1>1
    <2>4. Good(m - 1)
      BY <2>1, <2>3
    <2> QED BY <2>2, <2>3, <2>4, <1>7
  <1>9. Good(goal)
    <2>1. goal \in from .. goal
      BY <1>1
    <2> QED BY <2>1, <1>8
  <1> QED BY <1>3, <1>9 DEF Good

-----------------------------------------------------------------------------
(* The first revision, and the writes between two migrations                 *)

LEMMA SchemaStart == ASSUME SchemaInit PROVE SchemaInv
  <1> DEFINE Start(tree, edits, homes, jobRows) ==
                 /\ edits \subseteq LegacyEditRows
                 /\ db = Tables(1, tree, homes, jobRows, edits, {}, {}, {}, LastId(edits))
                 /\ filedUnder = [c \in SchemaCard |-> RegularScope(tree, homes[c])]
                 /\ told = {[id |-> e.id, kind |-> "edit", card |-> e.card,
                             status |-> ProposalStatus[e.status]] : e \in edits}
                 /\ wentBack = FALSE
  <1>0. PICK tree \in LegacyTree, edits \in LegacyEdits :
            \E homes \in [SchemaCard -> {n.id : n \in {m \in tree : Leaf(tree, m.id)}}] :
                \E jobRows : Start(tree, edits, homes, jobRows)
    BY DEF SchemaInit, Tables
  <1>1. PICK homes \in [SchemaCard -> {n.id : n \in {m \in tree : Leaf(tree, m.id)}}] :
            \E jobRows : Start(tree, edits, homes, jobRows)
    BY <1>0
  <1>2. PICK jobRows : Start(tree, edits, homes, jobRows)
    BY <1>1
  <1>3. /\ Shaped(db) /\ db.rev = 1 /\ db.tree = tree /\ db.assigned = homes /\ db.edits = edits
        /\ db.proposals = {} /\ db.archived = {} /\ db.scopes = {} /\ db.lastId = LastId(edits)
    BY <1>2, FieldsOfTables
  <1>4. Filed(db, filedUnder)
    <2>1. TreeOK(tree)
      <3>1. Cardinality(tree) \in Nat
        BY SchemaConstants, FS_CardinalityType
      <3> QED BY <3>1, SchemaConstants DEF TreeOK
    <2>2. homes \in [SchemaCard -> Ids(tree)]
      BY <1>2 DEF Ids
    <2>3. \A c \in SchemaCard : RegularScope(tree, homes[c]) = filedUnder[c]
      BY <1>2
    <2> QED BY <1>3, <2>1, <2>2, <2>3 DEF Filed
  <1>5. /\ edits \subseteq EditRows /\ OneOfAnId(edits)
        /\ LastId(edits) \in Nat /\ \A e \in edits : e.id <= LastId(edits)
    <2>1. edits \subseteq EditRows
      BY <1>2 DEF LegacyEditRows, EditRows
    <2>2. \A e \in edits : e.id \in Nat
      BY <2>1 DEF EditRows
    <2>3. PICK n \in Nat : \A e \in edits : e.id <= n
      BY <2>2, SchemaConstants, FiniteIdsAreBounded
    <2>4. OneOfAnId(edits)
      BY SchemaConstants DEF OneOfAnId
    <2> QED BY <2>1, <2>2, <2>3, <2>4, LastIdBounds
  <1>6. Stored(db)
    BY <1>3, <1>5 DEF Stored, OneOfAnId
  <1>7. AsTold(db, told, wentBack)
    <2> DEFINE Row(e) == [id |-> e.id, kind |-> "edit", card |-> e.card,
                          status |-> ProposalStatus[e.status]]
    <2>1. told = {Row(e) : e \in edits}
      BY <1>2
    <2>2. ASSUME NEW e \in edits
          PROVE  /\ Row(e) \in ToldRows /\ Row(e).id = e.id /\ Row(e).kind = "edit"
                 /\ Row(e).card = e.card /\ Row(e).status = ProposalStatus[e.status]
      <3>1. e.id \in Nat \ {0} /\ e.card \in SchemaCard \cup {NoTarget}
            /\ e.status \in {"pending", "accepted", "rejected"}
        BY <1>5 DEF EditRows
      <3>2. ProposalStatus[e.status] \in Statuses
        BY <3>1 DEF ProposalStatus, Statuses
      <3> QED BY <3>1, <3>2 DEF ToldRows, Kinds
    <2> HIDE DEF Row
    <2>3. told \subseteq ToldRows /\ \A t \in told : t.kind = "edit"
      BY <2>1, <2>2
    <2>4. OneOfAnId(told)
      BY <2>1, <2>2, <1>5 DEF OneOfAnId
    <2>5. EditsTold(db, told, wentBack)
      BY <2>1, <2>2, <1>3 DEF EditsTold, Agrees
    <2>6. ProposalsTold(db, told, wentBack)
      BY <1>3 DEF ProposalsTold
    <2>7. ToldKept(db, told, wentBack)
      BY <2>1, <2>2, <1>3 DEF ToldKept, Ids
    <2>8. db.archived = Deleted(told)
      BY <2>3, <1>3 DEF Deleted
    <2> QED BY <2>3, <2>4, <2>5, <2>6, <2>7, <2>8 DEF AsTold
  <1> QED BY <1>2, <1>3, <1>4, <1>6, <1>7 DEF SchemaInv, DatabaseInv

LEMMA DowngradeStep == ASSUME SchemaInv, Downgrade PROVE SchemaInv'
  <1>1. /\ wentBack \in BOOLEAN /\ DatabaseInv(db, filedUnder, told, wentBack)
        /\ db.rev > 1 /\ db' \in Downgraded(db)
        /\ wentBack' = (wentBack \/ (db.rev >= 7 /\ ~(db'.rev >= 7)))
        /\ filedUnder' = filedUnder /\ told' = told
    BY RevisionNumbers DEF SchemaInv, Downgrade, Has
  <1>2. wentBack' \in BOOLEAN
    BY <1>1
  <1>3. DatabaseInv(db', filedUnder, told, wentBack')
    BY <1>1, <1>2, OneDowngrade
  <1> QED BY <1>1, <1>2, <1>3 DEF SchemaInv

LEMMA UpgradeStep ==
    ASSUME SchemaInv, NEW goal \in (db.rev + 1) .. Newest, UpgradeTo(goal) PROVE SchemaInv'
  <1>1. DatabaseInv(db', filedUnder, told, wentBack)
    BY UpgradeChain
  <1>2. UNCHANGED <<filedUnder, told, wentBack>>
    BY DEF UpgradeTo
  <1> QED BY <1>1, <1>2 DEF SchemaInv

\* A write to tables that hold neither cards nor proposals.
LEMMA OtherWrite ==
    ASSUME SchemaInv, UNCHANGED <<filedUnder, told, wentBack>>,
           Shaped(db'), db'.rev = db.rev, SameTree(db, db'), SameRows(db, db'),
           db'.archived = db.archived, db.rev = 11 => \A s \in db'.scopes : s.kind = "taxonomy_node"
    PROVE  SchemaInv'
  <1>1. Shaped(db) /\ Filed(db, filedUnder) /\ Stored(db) /\ AsTold(db, told, wentBack)
    BY DEF SchemaInv, DatabaseInv
  <1>2. Filed(db', filedUnder)
    BY <1>1, SameTreeFiled
  <1>3. Stored(db')
    BY <1>1 DEF Stored, SameRows
  <1>4. AsTold(db', told, wentBack)
    BY <1>1 DEF AsTold, SameRows, EditsTold, ProposalsTold, ToldKept
  <1> QED BY <1>2, <1>3, <1>4 DEF SchemaInv, DatabaseInv

LEMMA LegacyJobEndsStep == ASSUME SchemaInv, LegacyJobEnds PROVE SchemaInv'
  <1>1. Shaped(db)
    BY DEF SchemaInv, DatabaseInv
  <1>2. PICK jobRows : db' = [db EXCEPT !.jobs = jobRows]
    BY DEF LegacyJobEnds
  <1>3. db.rev < 5
    BY <1>1, RevisionNumbers DEF LegacyJobEnds, Has, Shaped
  <1>4. db' = Tables(db.rev, db.tree, db.assigned, jobRows, db.edits, db.proposals, db.archived,
                     db.scopes, db.lastId)
    BY <1>1, <1>2 DEF Shaped, Tables
  <1>5. /\ Shaped(db') /\ db'.rev = db.rev /\ SameTree(db, db') /\ SameRows(db, db')
        /\ db'.archived = db.archived
    BY <1>1, <1>4, FieldsOfTables DEF SameTree, SameRows, Shaped
  <1> QED BY <1>3, <1>5, OtherWrite DEF LegacyJobEnds

LEMMA WritesScopeStep ==
    ASSUME SchemaInv, NEW table, NEW kind \in {"taxonomy_node", "virtual_unclassified"},
           WritesScope(table, kind)
    PROVE  SchemaInv'
  <1>1. Shaped(db)
    BY DEF SchemaInv, DatabaseInv
  <1> DEFINE scopes == {[table |-> table, kind |-> kind]}
  <1>2. db' = [db EXCEPT !.scopes = scopes]
    BY DEF WritesScope
  <1>3. db.rev = 11 => \A s \in scopes : s.kind = "taxonomy_node"
    BY <1>1, RevisionNumbers DEF WritesScope, Has
  <1> HIDE DEF scopes
  <1>4. db' = Tables(db.rev, db.tree, db.assigned, db.jobs, db.edits, db.proposals, db.archived,
                     scopes, db.lastId)
    BY <1>1, <1>2 DEF Shaped, Tables
  <1>5. /\ Shaped(db') /\ db'.rev = db.rev /\ SameTree(db, db') /\ SameRows(db, db')
        /\ db'.archived = db.archived /\ db'.scopes = scopes
    BY <1>1, <1>4, FieldsOfTables DEF SameTree, SameRows, Shaped
  <1> QED BY <1>3, <1>5, OtherWrite DEF WritesScope

LEMMA SubmitsProposalStep ==
    ASSUME SchemaInv, NEW kind \in Kinds, NEW card \in SchemaCard \cup {NoTarget},
           SubmitsProposal(kind, card)
    PROVE  SchemaInv'
  <1> DEFINE id == db.lastId + 1
             row == [id |-> id, kind |-> kind, card |-> card, status |-> "pending_review",
                     reason |-> "given", note |-> FALSE]
             said == [id |-> id, kind |-> kind, card |-> card, status |-> "pending_review"]
  <1>1. /\ Shaped(db) /\ Filed(db, filedUnder) /\ Stored(db) /\ AsTold(db, told, wentBack)
        /\ wentBack \in BOOLEAN
    BY DEF SchemaInv, DatabaseInv
  <1>2. /\ db.rev = 11 /\ id \notin Ids(db.proposals)
        /\ db' = [db EXCEPT !.lastId = id, !.proposals = db.proposals \cup {row}]
        /\ told' = {t \in told : t.id # id} \cup {said}
        /\ filedUnder' = filedUnder /\ wentBack' = wentBack
    BY <1>1, RevisionNumbers DEF SubmitsProposal, Shaped
  <1>3. id \in Nat \ {0} /\ db.lastId <= id /\ db.lastId \in Nat
    BY <1>1 DEF Stored
  <1>4. row \in ProposalRows /\ said \in ToldRows
    BY <1>3 DEF ProposalRows, ToldRows, Statuses
  <1>5. /\ row.id = id /\ row.kind = kind /\ row.card = card /\ row.status = "pending_review"
        /\ row.reason # NoReason
        /\ said.id = id /\ said.kind = kind /\ said.card = card /\ said.status = "pending_review"
    BY DEF NoReason
  <1> HIDE DEF id, row, said
  <1>6. db' = Tables(11, db.tree, db.assigned, db.jobs, db.edits, db.proposals \cup {row},
                     db.archived, db.scopes, id)
    BY <1>1, <1>2 DEF Shaped, Tables
  <1>7. /\ Shaped(db') /\ db'.rev = 11 /\ SameTree(db, db') /\ db'.edits = db.edits
        /\ db'.proposals = db.proposals \cup {row} /\ db'.archived = db.archived
        /\ db'.scopes = db.scopes /\ db'.lastId = id
    BY <1>6, FieldsOfTables DEF SameTree
  <1>8. Filed(db', filedUnder)
    BY <1>1, <1>2, <1>7, SameTreeFiled
  <1>9. db.edits = {} /\ OneOfAnId(db.proposals) /\ db.proposals \subseteq ProposalRows
    BY <1>1, <1>2 DEF Stored
  <1>10. Stored(db')
    <2>1. db'.proposals \subseteq ProposalRows
      BY <1>4, <1>7, <1>9
    <2>2. OneOfAnId(db'.proposals)
      <3>1. \A p \in db.proposals : p.id # id
        BY <1>2 DEF Ids
      <3> QED BY <3>1, <1>5, <1>7, <1>9 DEF OneOfAnId
    <2>3. \A p \in db'.proposals : p.id <= db'.lastId
      <3>1. ASSUME NEW p \in db.proposals PROVE p.id <= id
        <4>1. p.id \in Nat /\ p.id <= db.lastId
          BY <1>1, <1>9 DEF Stored, ProposalRows
        <4> QED BY <4>1, <1>3
      <3>2. row.id <= id
        BY <1>3, <1>5
      <3> QED BY <3>1, <3>2, <1>7
    <2>4. \A p \in db'.proposals : p.reason # NoReason
      BY <1>1, <1>2, <1>5, <1>7 DEF Stored
    <2>5. db'.edits = {} /\ db'.lastId \in Nat
      BY <1>3, <1>7, <1>9
    <2>6. \A s \in db'.scopes : s.kind = "taxonomy_node"
      BY <1>1, <1>2, <1>7 DEF Stored
    <2> QED BY <1>7, <2>1, <2>2, <2>3, <2>4, <2>5, <2>6 DEF Stored, OneOfAnId
  <1>11. AsTold(db', told', wentBack)
    <2>1. /\ told \subseteq ToldRows /\ OneOfAnId(told) /\ ProposalsTold(db, told, wentBack)
          /\ ToldKept(db, told, wentBack) /\ (~wentBack => db.archived = Deleted(told))
      BY <1>1 DEF AsTold
    <2>2. told' \subseteq ToldRows /\ OneOfAnId(told')
      <3>1. told' \subseteq ToldRows
        BY <1>2, <1>4, <2>1
      <3>2. OneOfAnId(told')
        BY <1>2, <1>5, <2>1 DEF OneOfAnId
      <3> QED BY <3>1, <3>2
    <2>3. EditsTold(db', told', wentBack)
      BY <1>7, <1>9 DEF EditsTold
    <2>4. ProposalsTold(db', told', wentBack)
      <3>1. ASSUME NEW p \in db'.proposals
            PROVE  \E t \in told' : /\ t.id = p.id /\ t.kind = p.kind /\ t.card = p.card
                                    /\ Agrees(p.kind, p.status, t.status, wentBack)
        <4>1. CASE p = row
          <5>1. said \in told' /\ Agrees(p.kind, p.status, said.status, wentBack)
            BY <4>1, <1>2, <1>5 DEF Agrees
          <5> QED BY <4>1, <5>1, <1>5
        <4>2. CASE p \in db.proposals
          <5>1. p.id # id
            BY <4>2, <1>2 DEF Ids
          <5>2. PICK t \in told : /\ t.id = p.id /\ t.kind = p.kind /\ t.card = p.card
                                  /\ Agrees(p.kind, p.status, t.status, wentBack)
            BY <4>2, <2>1 DEF ProposalsTold
          <5> QED BY <5>1, <5>2, <1>2
        <4> QED BY <4>1, <4>2, <1>7
      <3> QED BY <3>1 DEF ProposalsTold
    <2>5. ToldKept(db', told', wentBack)
      <3>1. Ids(db.proposals) \subseteq Ids(db'.proposals) /\ id \in Ids(db'.proposals)
        BY <1>5, <1>7 DEF Ids
      <3> QED BY <3>1, <1>2, <1>5, <1>7, <2>1 DEF ToldKept
    <2>6. ASSUME ~wentBack PROVE db'.archived = Deleted(told')
      <3>1. \A t \in told : t.id # id
        <4>1. \A t \in told : t.id \in Ids(db.edits) \cup Ids(db.proposals)
          BY <2>1, <2>6 DEF ToldKept
        <4> QED BY <4>1, <1>2, <1>9 DEF Ids
      <3>2. told' = told \cup {said}
        BY <3>1, <1>2
      <3>3. Deleted(told') = Deleted(told)
        BY <3>2, <1>5 DEF Deleted
      <3> QED BY <2>1, <2>6, <3>3, <1>7
    <2> QED BY <2>2, <2>3, <2>4, <2>5, <2>6 DEF AsTold
  <1> QED BY <1>1, <1>2, <1>7, <1>8, <1>10, <1>11 DEF SchemaInv, DatabaseInv

LEMMA SettlesProposalStep ==
    ASSUME SchemaInv, NEW p \in db.proposals,
           NEW status \in {"accepted_applied", "rejected", "withdrawn"}, NEW note \in BOOLEAN,
           SettlesProposal(p, status, note)
    PROVE  SchemaInv'
  <1> DEFINE row == [p EXCEPT !.status = status, !.note = note]
             gone == IF p.kind = "delete" /\ status = "accepted_applied"
                     THEN db.archived \cup {p.card} ELSE db.archived
             After(t) == IF t.id = p.id THEN [t EXCEPT !.status = status] ELSE t
  <1>1. /\ Shaped(db) /\ Filed(db, filedUnder) /\ Stored(db) /\ AsTold(db, told, wentBack)
        /\ wentBack \in BOOLEAN
    BY DEF SchemaInv, DatabaseInv
  <1>2. /\ db.rev = 11 /\ p.status = "pending_review"
        /\ db' = [db EXCEPT !.proposals = (db.proposals \ {p}) \cup {row}, !.archived = gone]
        /\ told' = {After(t) : t \in told}
        /\ filedUnder' = filedUnder /\ wentBack' = wentBack
    BY <1>1, RevisionNumbers DEF SettlesProposal, Shaped
  <1>3. /\ db.edits = {} /\ OneOfAnId(db.proposals) /\ db.proposals \subseteq ProposalRows
        /\ p \in ProposalRows /\ status \in Statuses
    BY <1>1, <1>2 DEF Stored, Statuses
  <1>4. /\ row \in ProposalRows /\ row.id = p.id /\ row.kind = p.kind /\ row.card = p.card
        /\ row.status = status /\ row.reason = p.reason
    BY <1>3 DEF ProposalRows
  <1>5. /\ told \subseteq ToldRows /\ OneOfAnId(told) /\ ProposalsTold(db, told, wentBack)
        /\ ToldKept(db, told, wentBack) /\ (~wentBack => db.archived = Deleted(told))
    BY <1>1 DEF AsTold
  <1>6. ASSUME NEW t \in told
        PROVE  /\ After(t) \in ToldRows /\ After(t).id = t.id /\ After(t).kind = t.kind
               /\ After(t).card = t.card
               /\ After(t).status = IF t.id = p.id THEN status ELSE t.status
    BY <1>3, <1>5 DEF ToldRows
  <1> HIDE DEF row, gone, After
  <1>7. db' = Tables(11, db.tree, db.assigned, db.jobs, db.edits, (db.proposals \ {p}) \cup {row},
                     gone, db.scopes, db.lastId)
    BY <1>1, <1>2 DEF Shaped, Tables
  <1>8. /\ Shaped(db') /\ db'.rev = 11 /\ SameTree(db, db') /\ db'.edits = db.edits
        /\ db'.proposals = (db.proposals \ {p}) \cup {row} /\ db'.archived = gone
        /\ db'.scopes = db.scopes /\ db'.lastId = db.lastId
    BY <1>7, FieldsOfTables DEF SameTree
  <1>9. Filed(db', filedUnder)
    BY <1>1, <1>2, <1>8, SameTreeFiled
  <1>10. Stored(db')
    <2>1. db'.proposals \subseteq ProposalRows
      BY <1>3, <1>4, <1>8
    <2>2. OneOfAnId(db'.proposals)
      BY <1>3, <1>4, <1>8 DEF OneOfAnId
    <2>3. \A q \in db'.proposals : q.id <= db'.lastId
      BY <1>1, <1>4, <1>8 DEF Stored
    <2>4. \A q \in db'.proposals : q.reason # NoReason
      BY <1>1, <1>2, <1>4, <1>8 DEF Stored
    <2> QED BY <1>1, <1>2, <1>3, <1>8, <2>1, <2>2, <2>3, <2>4 DEF Stored
  <1>11. PICK u \in told : /\ u.id = p.id /\ u.kind = p.kind /\ u.card = p.card
                           /\ Agrees(p.kind, p.status, u.status, wentBack)
    BY <1>5 DEF ProposalsTold
  <1>12. \A t \in told : t.id = p.id => t = u
    BY <1>5, <1>11 DEF OneOfAnId
  <1>13. \A t \in told' : \E s \in told : t = After(s)
    BY <1>2
  <1>14. \A s \in told : After(s) \in told'
    BY <1>2
  <1>15. AsTold(db', told', wentBack)
    <2>1. told' \subseteq ToldRows
      BY <1>6, <1>13
    <2>2. OneOfAnId(told')
      <3>1. ASSUME NEW s \in told', NEW t \in told', s.id = t.id PROVE s = t
        <4>1. PICK x \in told : s = After(x)
          BY <1>13
        <4>2. PICK y \in told : t = After(y)
          BY <1>13
        <4>3. x = y
          BY <3>1, <4>1, <4>2, <1>5, <1>6 DEF OneOfAnId
        <4> QED BY <4>1, <4>2, <4>3
      <3> QED BY <3>1 DEF OneOfAnId
    <2>3. EditsTold(db', told', wentBack)
      BY <1>3, <1>8 DEF EditsTold
    <2>4. ProposalsTold(db', told', wentBack)
      <3>1. ASSUME NEW q \in db'.proposals
            PROVE  \E t \in told' : /\ t.id = q.id /\ t.kind = q.kind /\ t.card = q.card
                                    /\ Agrees(q.kind, q.status, t.status, wentBack)
        <4>1. CASE q = row
          <5>1. /\ After(u) \in told' /\ After(u).id = q.id /\ After(u).kind = q.kind
                /\ After(u).card = q.card /\ After(u).status = q.status
            BY <4>1, <1>4, <1>6, <1>11, <1>14
          <5>2. Agrees(q.kind, q.status, After(u).status, wentBack)
            BY <5>1 DEF Agrees
          <5> QED BY <5>1, <5>2
        <4>2. CASE q \in db.proposals \ {p}
          <5>1. q.id # p.id
            BY <4>2, <1>3 DEF OneOfAnId
          <5>2. PICK t \in told : /\ t.id = q.id /\ t.kind = q.kind /\ t.card = q.card
                                  /\ Agrees(q.kind, q.status, t.status, wentBack)
            BY <4>2, <1>5 DEF ProposalsTold
          <5>3. /\ After(t) \in told' /\ After(t).id = q.id /\ After(t).kind = q.kind
                /\ After(t).card = q.card /\ After(t).status = t.status
            BY <5>1, <5>2, <1>6, <1>14
          <5> QED BY <5>2, <5>3
        <4> QED BY <4>1, <4>2, <1>8
      <3> QED BY <3>1 DEF ProposalsTold
    <2>5. ToldKept(db', told', wentBack)
      <3>1. Ids(db.proposals) \subseteq Ids(db'.proposals)
        BY <1>4, <1>8 DEF Ids
      <3>2. ASSUME NEW t \in told', t.kind = "edit" \/ ~wentBack
            PROVE  t.id \in Ids(db'.edits) \cup Ids(db'.proposals)
        <4>1. PICK s \in told : t = After(s)
          BY <1>13
        <4>2. s.id = t.id /\ s.kind = t.kind
          BY <4>1, <1>6
        <4>3. s.id \in Ids(db.edits) \cup Ids(db.proposals)
          BY <3>2, <4>2, <1>5 DEF ToldKept
        <4> QED BY <3>1, <4>2, <4>3, <1>8
      <3> QED BY <3>2 DEF ToldKept
    <2>6. ASSUME ~wentBack PROVE db'.archived = Deleted(told')
      <3>1. db.archived = Deleted(told)
        BY <2>6, <1>5
      <3>2. u.status = "pending_review"
        BY <2>6, <1>2, <1>11 DEF Agrees
      <3>3. ASSUME NEW c PROVE c \in gone => c \in Deleted(told')
        <4>1. CASE c \in db.archived
          <5>1. PICK t \in told : t.kind = "delete" /\ t.status = "accepted_applied" /\ t.card = c
            BY <3>1, <4>1 DEF Deleted
          <5>2. t.id # p.id
            BY <5>1, <3>2, <1>12
          <5>3. /\ After(t) \in told' /\ After(t).kind = "delete" /\ After(t).card = c
                /\ After(t).status = "accepted_applied"
            BY <5>1, <5>2, <1>6, <1>14
          <5> QED BY <5>3 DEF Deleted
        <4>2. CASE p.kind = "delete" /\ status = "accepted_applied" /\ c = p.card
          <5>1. /\ After(u) \in told' /\ After(u).kind = "delete" /\ After(u).card = c
                /\ After(u).status = "accepted_applied"
            BY <4>2, <1>6, <1>11, <1>14
          <5> QED BY <5>1 DEF Deleted
        <4> QED BY <4>1, <4>2 DEF gone
      <3>4. ASSUME NEW c PROVE c \in Deleted(told') => c \in gone
        <4> SUFFICES ASSUME c \in Deleted(told') PROVE c \in gone
          OBVIOUS
        <4>1. PICK t \in told' : t.kind = "delete" /\ t.status = "accepted_applied" /\ t.card = c
          BY DEF Deleted
        <4>2. PICK s \in told : t = After(s)
          BY <1>13
        <4>3. CASE s.id = p.id
          <5>1. s = u
            BY <4>3, <1>12
          <5>2. t.kind = p.kind /\ t.card = p.card /\ t.status = status
            BY <4>2, <4>3, <5>1, <1>6, <1>11
          <5> QED BY <4>1, <5>2 DEF gone
        <4>4. CASE s.id # p.id
          <5>1. s.kind = "delete" /\ s.status = "accepted_applied" /\ s.card = c
            BY <4>1, <4>2, <4>4, <1>6
          <5>2. c \in db.archived
            BY <3>1, <5>1 DEF Deleted
          <5> QED BY <5>2 DEF gone
        <4> QED BY <4>3, <4>4
      <3> QED BY <3>3, <3>4, <1>8
    <2> QED BY <2>1, <2>2, <2>3, <2>4, <2>5, <2>6 DEF AsTold
  <1> QED BY <1>1, <1>2, <1>8, <1>9, <1>10, <1>15 DEF SchemaInv, DatabaseInv

LEMMA SchemaStutter == ASSUME SchemaInv, UNCHANGED schemaVars PROVE SchemaInv'
  BY DEF SchemaInv, schemaVars

LEMMA SchemaStep == ASSUME SchemaInv, SchemaNext PROVE SchemaInv'
  <1>1. CASE \E goal \in (db.rev + 1) .. Newest : UpgradeTo(goal)
    BY <1>1, UpgradeStep
  <1>2. CASE Downgrade
    BY <1>2, DowngradeStep
  <1>3. CASE LegacyJobEnds
    BY <1>3, LegacyJobEndsStep
  <1>4. CASE \E table \in {"edges", "layouts", "requests"},
                kind \in {"taxonomy_node", "virtual_unclassified"} : WritesScope(table, kind)
    BY <1>4, WritesScopeStep
  <1>5. CASE SubmitsProposal("create", NoTarget)
    BY <1>5, SubmitsProposalStep DEF Kinds
  <1>6. CASE \E kind \in {"edit", "delete"}, card \in SchemaCard : SubmitsProposal(kind, card)
    BY <1>6, SubmitsProposalStep DEF Kinds
  <1>7. CASE \E p \in db.proposals, status \in {"accepted_applied", "rejected", "withdrawn"},
                note \in BOOLEAN : SettlesProposal(p, status, note)
    BY <1>7, SettlesProposalStep
  <1> QED BY <1>1, <1>2, <1>3, <1>4, <1>5, <1>6, <1>7 DEF SchemaNext

-----------------------------------------------------------------------------
(* What the invariant says of the data                                       *)

LEMMA FiledAsBefore ==
    ASSUME SchemaInv, NEW c \in SchemaCard
    PROVE  /\ db.assigned[c] \in Ids(db.tree)
           /\ RegularScope(db.tree, db.assigned[c]) = filedUnder[c]
           /\ Has(db, "hard_cut") => db.assigned[c] = filedUnder[c]
  <1>1. Filed(db, filedUnder)
    BY DEF SchemaInv, DatabaseInv
  <1>2. PICK n \in db.tree : n.id = db.assigned[c]
    BY <1>1 DEF Filed, Ids
  <1>3. db.assigned[c] \in Ids(db.tree) /\ RegularScope(db.tree, db.assigned[c]) = filedUnder[c]
    BY <1>1 DEF Filed
  <1>4. ASSUME Has(db, "hard_cut") PROVE db.assigned[c] = filedUnder[c]
    <2>1. n.name # LegacyName /\ TreeOK(db.tree)
      BY <1>1, <1>4, RevisionNumbers DEF Filed, Has
    <2>2. RegularScope(db.tree, n.id) = n.id
      BY <2>1, ScopeOfNode
    <2> QED BY <1>2, <1>3, <2>2
  <1> QED BY <1>3, <1>4

LEMMA StatusFacts ==
    ASSUME SchemaInv, NEW t \in told
    PROVE  /\ \A s \in StatusOf(t) : Agrees(t.kind, s, t.status, wentBack)
           /\ t.kind = "edit" \/ ~wentBack => StatusOf(t) # {}
  <1>1. AsTold(db, told, wentBack)
    BY DEF SchemaInv, DatabaseInv
  <1>2. /\ OneOfAnId(told) /\ EditsTold(db, told, wentBack) /\ ProposalsTold(db, told, wentBack)
        /\ ToldKept(db, told, wentBack)
    BY <1>1 DEF AsTold
  <1>3. ASSUME NEW s \in StatusOf(t) PROVE Agrees(t.kind, s, t.status, wentBack)
    <2>1. CASE \E p \in db.proposals : p.id = t.id /\ p.kind = t.kind /\ p.status = s
      <3>1. PICK p \in db.proposals : p.id = t.id /\ p.kind = t.kind /\ p.status = s
        BY <2>1
      <3>2. PICK u \in told : u.id = p.id /\ Agrees(p.kind, p.status, u.status, wentBack)
        BY <1>2 DEF ProposalsTold
      <3>3. u = t
        BY <3>1, <3>2, <1>2 DEF OneOfAnId
      <3> QED BY <3>1, <3>2, <3>3
    <2>2. CASE \E e \in db.edits : e.id = t.id /\ t.kind = "edit" /\ ProposalStatus[e.status] = s
      <3>1. PICK e \in db.edits : e.id = t.id /\ t.kind = "edit" /\ ProposalStatus[e.status] = s
        BY <2>2
      <3>2. PICK u \in told :
                u.id = e.id /\ Agrees("edit", ProposalStatus[e.status], u.status, wentBack)
        BY <1>2 DEF EditsTold
      <3>3. u = t
        BY <3>1, <3>2, <1>2 DEF OneOfAnId
      <3> QED BY <3>1, <3>2, <3>3
    <2> QED BY <2>1, <2>2, <1>3 DEF StatusOf
  <1>4. ASSUME t.kind = "edit" \/ ~wentBack PROVE StatusOf(t) # {}
    <2>1. t.id \in Ids(db.edits) \cup Ids(db.proposals)
      BY <1>2, <1>4 DEF ToldKept
    <2>2. CASE t.id \in Ids(db.proposals)
      <3>1. PICK p \in db.proposals : p.id = t.id
        BY <2>2 DEF Ids
      <3>2. PICK u \in told : u.id = p.id /\ u.kind = p.kind /\ u.card = p.card
        BY <1>2 DEF ProposalsTold
      <3>3. u = t
        BY <3>1, <3>2, <1>2 DEF OneOfAnId
      <3>4. p.status \in StatusOf(t)
        BY <3>1, <3>2, <3>3 DEF StatusOf
      <3> QED BY <3>4
    <2>3. CASE t.id \in Ids(db.edits)
      <3>1. PICK e \in db.edits : e.id = t.id
        BY <2>3 DEF Ids
      <3>2. PICK u \in told : u.id = e.id /\ u.kind = "edit" /\ u.card = e.card
        BY <1>2 DEF EditsTold
      <3>3. u = t
        BY <3>1, <3>2, <1>2 DEF OneOfAnId
      <3>4. ProposalStatus[e.status] \in StatusOf(t)
        BY <3>1, <3>2, <3>3 DEF StatusOf
      <3> QED BY <3>4
    <2> QED BY <2>1, <2>2, <2>3
  <1> QED BY <1>3, <1>4

LEMMA InvariantKeepsData == ASSUME SchemaInv PROVE MigrationsKeepData
  <1>1. /\ Shaped(db) /\ Filed(db, filedUnder) /\ Stored(db) /\ AsTold(db, told, wentBack)
        /\ wentBack \in BOOLEAN
    BY DEF SchemaInv, DatabaseInv
  <1>2. ASSUME NEW t \in told
        PROVE  LET now == StatusOf(t) IN
               IF t.kind = "edit"
               THEN IF t.status \in {"accepted_applied", "rejected"} THEN now = {t.status}
                    ELSE now # {} /\ now \subseteq {"pending_review", "withdrawn"}
               ELSE now \subseteq {t.status}
    <2> DEFINE now == StatusOf(t)
    <2>1. \A s \in now : s = t.status \/ (t.kind = "edit" /\ t.status = "withdrawn" /\ s = "pending_review")
      BY StatusFacts DEF Agrees
    <2>2. t.kind = "edit" => now # {}
      BY StatusFacts
    <2>3. t.status \in Statuses
      BY <1>1 DEF AsTold, ToldRows
    <2> HIDE DEF now
    <2>4. CASE t.kind = "edit" /\ t.status \in {"accepted_applied", "rejected"}
      <3>1. now = {t.status}
        BY <2>1, <2>2, <2>4
      <3> QED BY <2>4, <3>1 DEF now
    <2>5. CASE t.kind = "edit" /\ t.status \notin {"accepted_applied", "rejected"}
      <3>1. t.status \in {"pending_review", "withdrawn"}
        BY <2>3, <2>5 DEF Statuses
      <3>2. now # {} /\ now \subseteq {"pending_review", "withdrawn"}
        BY <2>1, <2>2, <2>5, <3>1
      <3> QED BY <2>5, <3>2 DEF now
    <2>6. CASE t.kind # "edit"
      <3>1. now \subseteq {t.status}
        BY <2>1, <2>6
      <3> QED BY <2>6, <3>1 DEF now
    <2> QED BY <2>4, <2>5, <2>6
  <1>3. ASSUME ~wentBack
        PROVE  /\ \A t \in told : StatusOf(t) = {t.status}
               /\ db.archived = {t.card : t \in {u \in told : u.kind = "delete" /\ u.status = "accepted_applied"}}
    <2>1. ASSUME NEW t \in told PROVE StatusOf(t) = {t.status}
      <3>1. \A s \in StatusOf(t) : s = t.status
        BY <1>3, StatusFacts DEF Agrees
      <3>2. StatusOf(t) # {}
        BY <1>3, StatusFacts
      <3> QED BY <3>1, <3>2
    <2>2. db.archived = Deleted(told)
      BY <1>1, <1>3 DEF AsTold
    <2> QED BY <2>1, <2>2 DEF Deleted
  <1>4. db.lastId >= LastId(db.proposals) /\ db.lastId >= LastId(db.edits)
    <2>1. db.lastId \in Nat
      BY <1>1 DEF Stored
    <2>2. \A p \in db.proposals : p.id \in Nat /\ p.id <= db.lastId
      BY <1>1 DEF Stored, ProposalRows
    <2>3. \A e \in db.edits : e.id \in Nat /\ e.id <= db.lastId
      BY <1>1 DEF Stored, EditRows
    <2>4. LastId(db.proposals) \in Nat /\ LastId(db.proposals) <= db.lastId
      BY <2>1, <2>2, LastIdBounds
    <2>5. LastId(db.edits) \in Nat /\ LastId(db.edits) <= db.lastId
      BY <2>1, <2>3, LastIdBounds
    <2> QED BY <2>1, <2>4, <2>5
  <1>5. db.rev = Newest =>
            /\ \A s \in db.scopes : s.kind = "taxonomy_node"
            /\ \A p \in db.proposals : p.reason # NoReason
            /\ \A n \in db.tree : n.name # LegacyName
    BY <1>1, RevisionNumbers DEF Stored, Filed
  <1> QED BY FiledAsBefore, <1>2, <1>3, <1>4, <1>5 DEF MigrationsKeepData

-----------------------------------------------------------------------------

\* However the revisions of apps/api/alembic/versions are applied and taken back,
\* with the writes of releases between them: the tree of the taxonomy stays one,
\* every card stays filed under the scope it was filed under, ids of edits and
\* proposals stay unique and below the sequence, and every row says of a
\* proposal what its user was told.
THEOREM SchemaInvariant == SchemaSpec => []SchemaInv
  <1>1. SchemaInit => SchemaInv
    BY SchemaStart
  <1>2. SchemaInv /\ [SchemaNext]_schemaVars => SchemaInv'
    BY SchemaStep, SchemaStutter
  <1> QED BY <1>1, <1>2, PTL DEF SchemaSpec

\* For every set of legacy trees and of edits: no sequence of upgrades over any
\* number of revisions, of downgrades and of writes between them loses a card's
\* place, a decided edit, or a row that was not turned back into an edit.
THEOREM MigrationsAlwaysKeepData == SchemaSpec => []MigrationsKeepData
  BY SchemaInvariant, InvariantKeepsData, PTL
=============================================================================
