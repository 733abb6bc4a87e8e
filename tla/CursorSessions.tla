---------------------------- MODULE CursorSessions ----------------------------
(* The operator's classification of cards that have no assignment:           *)
(* scripts/taxonomy-classify-unassigned.py runs a cursor-agent for each card, *)
(* a few at a time, and the agent runs                                        *)
(* scripts/taxonomy-classification-session-tool.py, each time a process with  *)
(* a transaction of its own.  What became of a card is told from its          *)
(* assignment before and after the agent, not from what the agent says.       *)
EXTENDS Integers, FiniteSets

CONSTANTS
    SessionCard,     \* ids of active cards
    SessionScope,    \* taxonomy nodes
    NoScope,         \* no row in node_taxonomy_assignments
    MaxWorkers,      \* max_workers: agents at a time
    MaxTries,        \* max_retries of the runner
    MaxTools,        \* bound: tools the agents start
    MaxStrangers     \* bound: assignments made by others

ASSUME CursorAssumption ==
    /\ SessionCard \subseteq Nat /\ NoScope \notin SessionScope
    /\ MaxWorkers \in Nat \ {0} /\ MaxTries \in Nat \ {0}

VARIABLES
    filed,      \* node_taxonomy_assignments
    sweep,      \* classify_unassigned: "none", "running", "raised" or "returned"
    seat,    \* of each selected card: where it is, its tries, the scope before
    tools,      \* tool processes under way: card, scope and what they have read
    outcome,    \* outcomes of the batch
    started,    \* ghost: tools started, each one's id
    strangers,  \* ghost: assignments made by others
    filedIn     \* ghost: scopes a card has been filed in since its session began

cursorVars == <<filed, sweep, seat, tools, outcome, started, strangers, filedIn>>

NotSelected == [at |-> "none", tries |-> 0, before |-> NoScope]
Selected == {c \in SessionCard : seat[c].at # "none"}
InAgent == {c \in SessionCard : seat[c].at = "agent"}
Holders == {c \in SessionCard : seat[c].at \in {"agent", "exited"}}
NoOutcome == [status |-> "none", scope |-> NoScope]

CursorInit ==
    /\ filed \in [SessionCard -> {NoScope}]
    /\ sweep = "none"
    /\ seat = [c \in SessionCard |-> NotSelected]
    /\ tools = {}
    /\ outcome = [c \in SessionCard |-> NoOutcome]
    /\ started = 0
    /\ strangers = 0
    /\ filedIn = [c \in SessionCard |-> {}]

\* The first cards without assignment, by id.
SelectsCards(limit) ==
    LET open == {c \in SessionCard : filed[c] = NoScope}
        first == {c \in open : Cardinality({d \in open : d < c}) < limit}
    IN
    /\ sweep = "none"
    /\ sweep' = IF first = {} THEN "returned" ELSE "running"
    /\ seat' = [c \in SessionCard |-> IF c \in first THEN [NotSelected EXCEPT !.at = "queued"]
                                         ELSE NotSelected]
    /\ UNCHANGED <<filed, tools, outcome, started, strangers, filedIn>>

\* The semaphore lets the sessions in in their order; the assignment is read
\* and the first agent started.
BeginsSession(c) ==
    /\ sweep = "running" /\ seat[c].at = "queued"
    /\ \A d \in SessionCard : d < c => seat[d].at # "queued"
    /\ Cardinality(Holders) < MaxWorkers
    /\ seat' = [seat EXCEPT ![c] = [at |-> "agent", tries |-> 1, before |-> filed[c]]]
    /\ filedIn' = [filedIn EXCEPT ![c] = {filed[c]} \ {NoScope}]
    /\ UNCHANGED <<filed, sweep, tools, outcome, started, strangers>>

\* This read, by a database session that all the tasks share, is outside of
\* the try: if it fails gather raises, the other tasks are cancelled and no
\* outcome is told.  Agents that run are not stopped.
BatchRaises ==
    /\ sweep = "running"
    /\ \E c \in SessionCard : seat[c].at = "queued" /\ Cardinality(Holders) < MaxWorkers
    /\ sweep' = "raised"
    /\ seat' = [c \in SessionCard |-> IF seat[c].at = "queued" THEN NotSelected ELSE seat[c]]
    /\ UNCHANGED <<filed, tools, outcome, started, strangers, filedIn>>

\* The agent runs assign-taxonomy-node, once if it does as it is told.
StartsTool(c, s) ==
    /\ seat[c].at = "agent" /\ started < MaxTools
    /\ tools' = tools \cup {[card |-> c, scope |-> s, seen |-> "nothing", id |-> started]}
    /\ started' = started + 1
    /\ UNCHANGED <<filed, sweep, seat, outcome, strangers, filedIn>>

\* set_current_assignment looks for the row ...
ToolLooks(t) ==
    /\ t.seen = "nothing"
    /\ tools' = (tools \ {t}) \cup {[t EXCEPT !.seen = IF filed[t.card] = NoScope THEN "none" ELSE "row"]}
    /\ UNCHANGED <<filed, sweep, seat, outcome, started, strangers, filedIn>>

\* ... and updates it, or inserts one: not if there is one by now.
ToolWrites(t) ==
    /\ t.seen # "nothing"
    /\ tools' = tools \ {t}
    /\ IF t.seen = "none" /\ filed[t.card] # NoScope
       THEN UNCHANGED <<filed, filedIn>>
       ELSE /\ filed' = [filed EXCEPT ![t.card] = t.scope]
            /\ filedIn' = [filedIn EXCEPT ![t.card] = @ \cup {t.scope}]
    /\ UNCHANGED <<sweep, seat, outcome, started, strangers>>

Ends(c, status, scope) ==
    /\ seat' = [seat EXCEPT ![c].at = "ended"]
    /\ outcome' = [outcome EXCEPT ![c] = IF sweep = "running"
                                         THEN [status |-> status, scope |-> scope] ELSE @]

\* The agent exits with code 0, whatever its tools are doing.
AgentExits(c) ==
    /\ seat[c].at = "agent"
    /\ seat' = [seat EXCEPT ![c].at = "exited"]
    /\ UNCHANGED <<filed, sweep, tools, outcome, started, strangers, filedIn>>

\* With another code it is started again, until the retries are used up.
AgentFails(c) ==
    /\ seat[c].at = "agent"
    /\ IF seat[c].tries < MaxTries /\ sweep = "running"
       THEN seat' = [seat EXCEPT ![c].tries = @ + 1] /\ UNCHANGED outcome
       ELSE Ends(c, "error", NoScope)
    /\ UNCHANGED <<filed, sweep, tools, started, strangers, filedIn>>

\* TimeoutExpired is not retried; the agent is killed, its tools are not.
AgentTimesOut(c) ==
    /\ seat[c].at = "agent"
    /\ Ends(c, "error", NoScope)
    /\ UNCHANGED <<filed, sweep, tools, started, strangers, filedIn>>

\* Mutant: the outcome of an exit with 0 is told without a look.
ReadsOutcomeBlindly(c) ==
    /\ seat[c].at = "exited"
    /\ \/ seat[c].before = NoScope /\ Ends(c, "assigned", filed[c])
       \/ seat[c].before # NoScope /\ Ends(c, "already_assigned", filed[c])
    /\ UNCHANGED <<filed, sweep, tools, started, strangers, filedIn>>

\* The assignment after a session that exited with 0.
ReadsOutcome(c) ==
    /\ seat[c].at = "exited"
    /\ \/ filed[c] = NoScope /\ Ends(c, "error", NoScope)
       \/ filed[c] # NoScope /\ seat[c].before = NoScope /\ Ends(c, "assigned", filed[c])
       \/ filed[c] # NoScope /\ seat[c].before # NoScope /\ Ends(c, "already_assigned", filed[c])
    /\ UNCHANGED <<filed, sweep, tools, started, strangers, filedIn>>

\* That read fails, which is caught.
OutcomeUnread(c) ==
    /\ seat[c].at = "exited"
    /\ Ends(c, "error", NoScope)
    /\ UNCHANGED <<filed, sweep, tools, started, strangers, filedIn>>

BatchReturns ==
    /\ sweep = "running"
    /\ \A c \in Selected : seat[c].at = "ended"
    /\ sweep' = "returned"
    /\ UNCHANGED <<filed, seat, tools, outcome, started, strangers, filedIn>>

\* Another run, the runtime or an operator assigns or moves a card.
StrangerAssigns(c, s) ==
    /\ strangers < MaxStrangers
    /\ filed' = [filed EXCEPT ![c] = s]
    /\ filedIn' = [filedIn EXCEPT ![c] = IF seat[c].at \in {"none", "queued"} THEN @ ELSE @ \cup {s}]
    /\ strangers' = strangers + 1
    /\ UNCHANGED <<sweep, seat, tools, outcome, started>>

CursorNext ==
    \/ \E limit \in 1 .. Cardinality(SessionCard) : SelectsCards(limit)
    \/ \E c \in SessionCard :
           \/ BeginsSession(c) \/ AgentExits(c) \/ AgentFails(c) \/ AgentTimesOut(c)
           \/ ReadsOutcome(c) \/ OutcomeUnread(c)
           \/ \E s \in SessionScope : StartsTool(c, s) \/ StrangerAssigns(c, s)
    \/ \E t \in tools : ToolLooks(t) \/ ToolWrites(t)
    \/ BatchRaises
    \/ BatchReturns

\* The summary can be relied upon although tools outlive agents that timed out
\* and others assign cards meanwhile: a card reported as assigned had no
\* assignment before its seat, has one now and was in that scope; one
\* reported as unchanged was assigned by somebody else before its session
\* (which may have moved it); a batch without errors leaves none of its cards
\* unassigned and tells an outcome of each; and no more agents run for a batch
\* than it has workers, also when it has raised.
OutcomesAreTrue ==
    /\ \A c \in SessionCard :
           /\ outcome[c].status = "assigned" =>
                  /\ seat[c].before = NoScope /\ filed[c] # NoScope
                  /\ outcome[c].scope \in filedIn[c]
           /\ outcome[c].status = "already_assigned" =>
                  /\ seat[c].before # NoScope /\ filed[c] # NoScope
                  /\ outcome[c].scope \in filedIn[c] /\ strangers > 0
    /\ sweep = "returned" =>
           \A c \in Selected :
               /\ outcome[c].status # "none"
               /\ outcome[c].status # "error" => filed[c] # NoScope
    /\ Cardinality(InAgent) <= MaxWorkers

CursorSpec == CursorInit /\ [][CursorNext]_cursorVars
=============================================================================
