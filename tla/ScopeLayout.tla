---------------------------- MODULE ScopeLayout ----------------------------
(***************************************************************************)
(* Layouts of card scopes.  A layout is a function of the graph of its     *)
(* scope, whose fingerprint ("print") stands for it.  It is kept durably   *)
(* and in a Redis hot cache without expiry.  A view that finds no layout   *)
(* of the present graph registers a compute request, one row per scope;    *)
(* runners claim pending requests in the order of requested_at, compute    *)
(* and mark the request.  An operator's precompute run prepares all scopes *)
(* and waits until they are ready.                                         *)
(*                                                                         *)
(* PostgreSQL rows, Redis and the runners change one statement or commit   *)
(* at a time.  A claim is overdue 30 minutes after it was made.            *)
(***************************************************************************)
EXTENDS Naturals, Sequences, FiniteSets

CONSTANTS
    ViewScope,      \* browsable scopes that have cards
    Runner,         \* processes or precompute workers that run process_next_card_scope_layout
    Viewer,         \* API requests
    Operator,       \* the precompute run
    Fingerprint,    \* of the graph of a scope
    NoPrint,
    MaxChanges,     \* bound: changes of graphs
    MaxLayoutFaults \* bound: failed calls, crashes and lost cache entries

ASSUME LayoutConstants ==
    /\ Operator \notin Viewer
    /\ ViewScope # {}
    /\ Fingerprint # {} /\ NoPrint \notin Fingerprint
    /\ MaxChanges \in Nat /\ MaxLayoutFaults \in Nat

VARIABLES
    shape,          \* the print of the committed graph of each scope
    durable,        \* the stored read model
    hot,            \* the Redis entry
    request,        \* the compute request of each scope
    waiting,        \* scopes with a pending request by requested_at
    runner,         \* what each runner is doing
    caller,         \* what each view and the precompute run are doing
    report,         \* status of each target in the precompute run
    changes,
    layoutFaults,
    overran         \* scopes of which a claim became overdue

queueVars == <<request, waiting>>
storeVars == <<durable, hot>>
boundVars == <<changes, layoutFaults, overran>>
layoutVars == <<shape, storeVars, queueVars, runner, caller, report, boundVars>>

Caller == Viewer \cup {Operator}

\* A row of the compute request table; "none" is no row.
ComputeRequest ==
    [status : {"none", "pending", "running", "succeeded", "failed"},
     print : Fingerprint \cup {NoPrint}, overdue : BOOLEAN]

\* claimed: has the claim; built: has computed; stored: read model and cache
\* written, not committed; done, failed: the request is still to be marked.
RunnerState ==
    [at : {"idle", "claimed", "built", "stored", "done", "failed"},
     scope : ViewScope, print : Fingerprint \cup {NoPrint}]

\* read: has the graph; warm: is about to copy the durable layout to the
\* cache; register: is about to register a request.
CallerState ==
    [at : {"idle", "read", "warm", "register"}, scope : ViewScope,
     print : Fingerprint \cup {NoPrint}]

PrepareStatus == {"none", "todo", "ready", "queued", "failed"}

LayoutTypeOK ==
    /\ shape \in [ViewScope -> Fingerprint]
    /\ durable \in [ViewScope -> Fingerprint \cup {NoPrint}]
    /\ hot \in [ViewScope -> Fingerprint \cup {NoPrint}]
    /\ request \in [ViewScope -> ComputeRequest]
    /\ waiting \in Seq(ViewScope)
    /\ runner \in [Runner -> RunnerState]
    /\ caller \in [Caller -> CallerState]
    /\ report \in [ViewScope -> PrepareStatus]
    /\ changes \in 0..MaxChanges
    /\ layoutFaults \in 0..MaxLayoutFaults
    /\ overran \subseteq ViewScope

AnyScope == CHOOSE s \in ViewScope : TRUE
AnyPrint == CHOOSE p \in Fingerprint : TRUE
Idle == [at |-> "idle", scope |-> AnyScope, print |-> NoPrint]

LayoutInit ==
    /\ shape = [s \in ViewScope |-> AnyPrint]
    /\ durable = [s \in ViewScope |-> NoPrint]
    /\ hot = [s \in ViewScope |-> NoPrint]
    /\ request = [s \in ViewScope |-> [status |-> "none", print |-> NoPrint, overdue |-> FALSE]]
    /\ waiting = <<>>
    /\ runner = [w \in Runner |-> Idle]
    /\ caller = [c \in Caller |-> Idle]
    /\ report = [s \in ViewScope |-> "none"]
    /\ changes = 0
    /\ layoutFaults = 0
    /\ overran = {}

LayoutFault ==
    /\ layoutFaults < MaxLayoutFaults
    /\ layoutFaults' = layoutFaults + 1
    /\ UNCHANGED <<changes, overran>>

\* _card_scope_layout_input_fingerprint of the graph that is read now.
PrintOf(s) == shape[s]

-----------------------------------------------------------------------------
(* The environment *)

\* Cards are assigned or edges made: the graph of the scope is another one.
GraphChanges(s, p) ==
    /\ changes < MaxChanges /\ p # shape[s]
    /\ shape' = [shape EXCEPT ![s] = p]
    /\ changes' = changes + 1
    /\ UNCHANGED <<storeVars, queueVars, runner, caller, report, layoutFaults, overran>>

\* Redis loses an entry.
EntryLost(s) ==
    /\ hot[s] # NoPrint /\ LayoutFault
    /\ hot' = [hot EXCEPT ![s] = NoPrint]
    /\ UNCHANGED <<shape, durable, queueVars, runner, caller, report>>

\* _LAYOUT_COMPUTE_RUNNING_RECOVERY_AFTER has passed since the claim.
ClaimOverdue(s) ==
    /\ request[s].status = "running" /\ ~ request[s].overdue
    /\ request' = [request EXCEPT ![s].overdue = TRUE]
    /\ overran' = overran \cup {s}
    /\ UNCHANGED <<shape, storeVars, waiting, runner, caller, report, changes, layoutFaults>>

-----------------------------------------------------------------------------
(* The request table *)

\* The table has one row per scope, so a scope waits once at most.
Without(q, s) ==
    IF \A i \in DOMAIN q : q[i] # s THEN q
    ELSE LET place == CHOOSE i \in DOMAIN q : q[i] = s
         IN  [j \in 1..(Len(q) - 1) |-> IF j < place THEN q[j] ELSE q[j + 1]]

\* Mutant: a running request is taken over at once.
KeptWhilePending(s, p) == request[s].status = "pending" /\ request[s].print = p

\* Mutant: a running request is never given up.
KeptForEver(s, p) ==
    \/ request[s].status = "running"
    \/ request[s].status = "pending" /\ request[s].print = p

\* The WHERE of the upsert leaves the row as it is.
Kept(s, p) ==
    \/ request[s].status = "running" /\ ~ request[s].overdue
    \/ request[s].status = "pending" /\ request[s].print = p

\* request_card_scope_layout_compute.
Register(s, p) ==
    IF Kept(s, p) THEN UNCHANGED queueVars
    ELSE /\ request' = [request EXCEPT ![s] =
                            [status |-> "pending", print |-> p, overdue |-> FALSE]]
         /\ waiting' = Append(Without(waiting, s), s)

\* complete_ and fail_card_scope_layout_compute find the row by its scope:
\* whoever has claimed it since, and whatever it asks for now.
Mark(s, status) ==
    /\ request' = [request EXCEPT ![s].status = status]
    /\ waiting' = Without(waiting, s)

MarkSucceeded(s) == Mark(s, "succeeded")
MarkFailed(s) == Mark(s, "failed")

-----------------------------------------------------------------------------
(* process_next_card_scope_layout *)

Claim(w) ==
    /\ runner[w].at = "idle" /\ waiting # <<>>
    /\ runner' = [runner EXCEPT ![w] = [at |-> "claimed", scope |-> Head(waiting), print |-> NoPrint]]
    /\ request' = [request EXCEPT ![Head(waiting)].status = "running",
                                  ![Head(waiting)].overdue = FALSE]
    /\ waiting' = Tail(waiting)
    /\ UNCHANGED <<shape, storeVars, caller, report, boundVars>>

Step(w, from, to) ==
    /\ runner[w].at = from
    /\ runner' = [runner EXCEPT ![w].at = to]

\* build_and_cache_card_scope_layout reads the graph anew and computes.
Build(w) ==
    /\ runner[w].at = "claimed"
    /\ runner' = [runner EXCEPT ![w].at = "built", ![w].print = PrintOf(runner[w].scope)]
    /\ UNCHANGED <<shape, storeVars, queueVars, caller, report, boundVars>>

\* The upsert holds the row lock of the read model; then the cache is set,
\* or the failure is logged.
StoreAndCache(w) ==
    LET s == runner[w].scope IN
    /\ \A v \in Runner : ~ (runner[v].at = "stored" /\ runner[v].scope = s)
    /\ Step(w, "built", "stored")
    /\ \/ /\ hot' = [hot EXCEPT ![s] = runner[w].print]
          /\ UNCHANGED boundVars
       \/ /\ LayoutFault
          /\ UNCHANGED hot
    /\ UNCHANGED <<shape, durable, queueVars, caller, report>>

CommitLayout(w) ==
    /\ Step(w, "stored", "done")
    /\ durable' = [durable EXCEPT ![runner[w].scope] = runner[w].print]
    /\ UNCHANGED <<shape, hot, queueVars, caller, report, boundVars>>

\* The computation, the upsert or the commit fails, and the transaction is
\* rolled back; the cache keeps what was set.
BuildFails(w) ==
    /\ \E at \in {"claimed", "built", "stored"} : Step(w, at, "failed")
    /\ LayoutFault
    /\ UNCHANGED <<shape, storeVars, queueVars, caller, report>>

Completed(w) == runner[w].at = "done" /\ MarkSucceeded(runner[w].scope)
Failed(w) == runner[w].at = "failed" /\ MarkFailed(runner[w].scope)

Finish(w) ==
    /\ Completed(w) \/ Failed(w)
    /\ runner' = [runner EXCEPT ![w] = Idle]
    /\ UNCHANGED <<shape, storeVars, caller, report, boundVars>>

\* The process ends, by itself or because marking the request failed.
RunnerDies(w) ==
    /\ runner[w].at # "idle" /\ LayoutFault
    /\ runner' = [runner EXCEPT ![w] = Idle]
    /\ UNCHANGED <<shape, storeVars, queueVars, caller, report>>

RunnerStep(w) ==
    \/ Claim(w) \/ Build(w) \/ StoreAndCache(w) \/ CommitLayout(w)
    \/ BuildFails(w) \/ Finish(w) \/ RunnerDies(w)

-----------------------------------------------------------------------------
(* Views *)

Goes(c, at, s, p) == caller' = [caller EXCEPT ![c] = [at |-> at, scope |-> s, print |-> p]]
Ends(c) == caller' = [caller EXCEPT ![c] = Idle]

\* _build_card_scope_graph_projection.
ReadGraph(c, s) ==
    /\ caller[c].at = "idle"
    /\ Goes(c, "read", s, PrintOf(s))
    /\ UNCHANGED <<shape, storeVars, queueVars, runner, report, boundVars>>

ViewStarts(v) == v \in Viewer /\ \E s \in ViewScope : ReadGraph(v, s)

\* _load_card_scope_layout: the cache is asked first, and the durable layout
\* only if it has no entry.  (A cache that fails to answer is an entry lost.)
Load(v) ==
    LET s == caller[v].scope
        p == caller[v].print
    IN
    /\ v \in Viewer /\ caller[v].at = "read"
    /\ \/ /\ hot[s] = p
          /\ Ends(v)
       \/ /\ hot[s] \notin {p, NoPrint}
          /\ Goes(v, "register", s, p)
       \/ /\ hot[s] = NoPrint
          /\ Goes(v, IF durable[s] = p THEN "warm" ELSE "register", s, p)
    /\ UNCHANGED <<shape, storeVars, queueVars, runner, report, boundVars>>

\* _set_cached_card_scope_layout of a view or a preparation.
Warm(c) ==
    /\ caller[c].at = "warm"
    /\ Ends(c)
    /\ \/ /\ hot' = [hot EXCEPT ![caller[c].scope] = caller[c].print]
          /\ UNCHANGED boundVars
       \/ /\ LayoutFault
          /\ UNCHANGED hot
    /\ UNCHANGED <<shape, durable, queueVars, runner, report>>

\* _request_card_scope_layout_compute; a view swallows its failure, a
\* preparation (_request_card_scope_layout_compute_strict) reports it.
RegisterRequest(c) ==
    /\ caller[c].at = "register"
    /\ Ends(c)
    /\ \/ /\ Register(caller[c].scope, caller[c].print)
          /\ UNCHANGED <<report, boundVars>>
       \/ /\ LayoutFault
          /\ report' = IF c = Operator THEN [report EXCEPT ![caller[c].scope] = "failed"] ELSE report
          /\ UNCHANGED queueVars
    /\ UNCHANGED <<shape, storeVars, runner>>

ViewStep(v) == ViewStarts(v) \/ Load(v) \/ Warm(v) \/ RegisterRequest(v)

-----------------------------------------------------------------------------
(* run_precompute *)

\* list_card_scope_precompute_targets.
PrecomputeStarts ==
    /\ \A s \in ViewScope : report[s] = "none"
    /\ report' = [s \in ViewScope |-> "todo"]
    /\ UNCHANGED <<shape, storeVars, queueVars, runner, caller, boundVars>>

PrepareStarts == \E s \in ViewScope : report[s] = "todo" /\ ReadGraph(Operator, s)

\* prepare_card_scope_layout_precompute_target.
Prepare ==
    LET s == caller[Operator].scope
        p == caller[Operator].print
        Answer(status) == report' = [report EXCEPT ![s] = status]
        same == request[s].print = p
    IN
    /\ caller[Operator].at = "read"
    /\ \/ /\ hot[s] = p
          /\ Answer("ready") /\ Ends(Operator)
       \/ /\ hot[s] # p /\ durable[s] = p
          /\ Answer("ready") /\ Goes(Operator, "warm", s, p)
       \/ /\ hot[s] # p /\ durable[s] # p
          /\ \/ /\ same /\ request[s].status = "failed"
                /\ Answer("failed") /\ Ends(Operator)
             \/ /\ same /\ request[s].status \in {"pending", "running"}
                /\ Answer("queued") /\ Ends(Operator)
             \/ /\ ~ same \/ request[s].status \in {"none", "succeeded"}
                /\ Answer("queued") /\ Goes(Operator, "register", s, p)
    /\ UNCHANGED <<shape, storeVars, queueVars, runner, boundVars>>

Prepared == caller[Operator].at = "idle" /\ \A s \in ViewScope : report[s] \notin {"none", "todo"}

\* Not all are ready and none has failed: process what is pending, by itself
\* or by the runtime, and prepare all of them again.
PrecomputeAgain ==
    /\ Prepared
    /\ \E s \in ViewScope : report[s] # "ready"
    /\ \A s \in ViewScope : report[s] # "failed"
    /\ report' = [s \in ViewScope |-> "todo"]
    /\ UNCHANGED <<shape, storeVars, queueVars, runner, caller, boundVars>>

OperatorStep ==
    \/ PrecomputeStarts \/ PrepareStarts \/ Prepare
    \/ Warm(Operator) \/ RegisterRequest(Operator) \/ PrecomputeAgain

-----------------------------------------------------------------------------

LayoutNext ==
    \/ \E s \in ViewScope :
        \/ \E p \in Fingerprint : GraphChanges(s, p)
        \/ EntryLost(s)
        \/ ClaimOverdue(s)
    \/ \E w \in Runner : RunnerStep(w)
    \/ \E v \in Viewer : ViewStep(v)
    \/ OperatorStep

LayoutSpec == LayoutInit /\ [][LayoutNext]_layoutVars

\* A scope's layout is computed by one runner at a time, unless a claim of it
\* has become overdue.
OneRunnerPerScope ==
    \A v \in Runner, w \in Runner :
        (v # w /\ runner[v].at # "idle" /\ runner[w].at # "idle" /\ runner[v].scope = runner[w].scope)
            => runner[v].scope \in overran

\* "--wait: processes or observes pending compute work until the selected
\* target set has durable ready layouts": a target that was reported ready,
\* and at which no runner is at work, has a durable layout.
ReadyIsDurable ==
    \A s \in ViewScope :
        (report[s] = "ready" /\ \A w \in Runner : runner[w].at = "idle" \/ runner[w].scope # s)
            => durable[s] # NoPrint

\* Graphs stop to change at last, and every scope is viewed again and again
\* until it is ready.  Then all layouts follow: requests that were dropped
\* while a runner worked on an older graph, registered by a view that was
\* late, marked by a runner that was overdue, or written back to the cache
\* by a slow view, are made up for.
LayoutsCatchUp == <>[](\A s \in ViewScope : hot[s] = shape[s])

\* The runtime's container is restarted; time passes; clients poll.
LayoutFairness ==
    /\ \A w \in Runner :
        WF_layoutVars(Claim(w) \/ Build(w) \/ StoreAndCache(w) \/ CommitLayout(w) \/ Finish(w))
    /\ \A s \in ViewScope : WF_layoutVars(ClaimOverdue(s))
    /\ \A v \in Viewer :
        /\ WF_layoutVars(Load(v) \/ Warm(v) \/ RegisterRequest(v))
        /\ \A s \in ViewScope : SF_layoutVars(ReadGraph(v, s))
=============================================================================
