-------------------------- MODULE ScopeProjection --------------------------
(***************************************************************************)
(* The projection table keeps, for each taxonomy scope whose cards can be  *)
(* browsed, the edges of these cards.  Two kinds of transactions maintain  *)
(* it.  An ingestion worker that materializes a card adds a row for each   *)
(* edge it makes, under the scopes its endpoints have then.  The taxonomy  *)
(* classification runtime moves cards, notes the scopes that changed, and  *)
(* rebuilds them one by one later.                                         *)
(*                                                                         *)
(* PostgreSQL runs them at READ COMMITTED: a statement sees what was       *)
(* committed before it and the transaction's own writes, and no lock is    *)
(* taken on an assignment that is only read.  Only the runtime moves cards  *)
(* here, from a scope to a child of it, so the two reads of a refresh are  *)
(* one step.  The tool that assigns a card by hand and the rebuild of all  *)
(* edges are left out.  A tick refreshes one scope                         *)
(* (projection_refresh_batch_size is 1).                                   *)
(***************************************************************************)
EXTENDS FiniteSets

CONSTANTS
    Card,       \* nodes of the knowledge graph
    Existing,   \* those that are there at the beginning
    Worker,     \* ingestion workers
    NoCard,     \* a worker without a transaction
    Scope,      \* taxonomy nodes
    Root,
    Child       \* <<parent, child>> pairs

ASSUME ConstantsAssumption ==
    /\ Existing \subseteq Card
    /\ NoCard \notin Card
    /\ Root \in Scope
    /\ Child \subseteq Scope \X Scope

Edge == {e \in SUBSET Card : Cardinality(e) = 2}

Browsable(S) == {s \in S : s # Root /\ ~ \E t \in Scope : <<s, t>> \in Child}

VARIABLES
    nodes,      \* committed cards
    scopeOf,    \* their assignments (Root for a card not committed yet)
    edges,      \* committed edges
    proj,       \* committed <<scope, edge>> rows
    dirty,      \* scopes with a projection refresh request
    making,     \* the card each worker materializes
    ownEdges,   \* the edges its transaction has made
    ownRows,    \* the projection rows its transaction has made
    overlapped, \* edges whose transaction the runtime did something during
    pc,         \* what the runtime is doing
    scope,      \* the scope it refreshes
    found,      \* the edges it has read for it
    victims     \* the rows its DELETE has seen

graph == <<nodes, scopeOf, edges, proj, dirty>>
worker == <<making, ownEdges, ownRows>>
runtime == <<pc, scope, found, victims>>
vars == <<graph, worker, overlapped, runtime>>

TypeOK ==
    /\ nodes \subseteq Card
    /\ scopeOf \in [Card -> Scope]
    /\ edges \subseteq Edge
    /\ proj \subseteq Scope \X Edge
    /\ dirty \subseteq Scope
    /\ making \in [Worker -> Card \cup {NoCard}]
    /\ ownEdges \in [Worker -> SUBSET Edge]
    /\ ownRows \in [Worker -> SUBSET (Scope \X Edge)]
    /\ overlapped \subseteq Edge
    /\ pc \in {"idle", "read", "cleared"}
    /\ scope \in Scope
    /\ found \subseteq Edge
    /\ victims \subseteq Scope \X Edge

Init ==
    /\ nodes = Existing
    /\ scopeOf \in {f \in [Card -> Scope] : \A c \in Card \ Existing : f[c] = Root}
    /\ edges = {} /\ proj = {} /\ dirty = {}
    /\ making = [w \in Worker |-> NoCard]
    /\ ownEdges = [w \in Worker |-> {}]
    /\ ownRows = [w \in Worker |-> {}]
    /\ overlapped = {}
    /\ pc = "idle" /\ scope = Root /\ found = {} /\ victims = {}

-----------------------------------------------------------------------------
(* materialize_card_from_ingestion *)

\* create_node and assign_node_to_root.
Begin(w, c) ==
    /\ making[w] = NoCard /\ c \notin nodes
    /\ \A v \in Worker : making[v] # c
    /\ making' = [making EXCEPT ![w] = c]
    /\ UNCHANGED <<graph, ownEdges, ownRows, overlapped, runtime>>

\* Mutant: the search may find the new card.
CreateEdgeToItself(w, d) ==
    LET c == making[w]
        e == {c, d}
    IN
    /\ c # NoCard /\ d \in nodes \cup {c} /\ e \notin ownEdges[w]
    /\ ownEdges' = [ownEdges EXCEPT ![w] = @ \cup {e}]
    /\ ownRows' = [ownRows EXCEPT ![w] = @ \cup (Browsable({Root, scopeOf[d]}) \X {e})]
    /\ overlapped' = IF pc = "idle" THEN overlapped ELSE overlapped \cup {e}
    /\ UNCHANGED <<graph, making, runtime>>

\* Mutant: the projection is written through a session of its own.
CreateEdgeCommits(w, d) ==
    LET c == making[w]
        e == {c, d}
    IN
    /\ c # NoCard /\ d \in nodes /\ e \notin ownEdges[w]
    /\ ownEdges' = [ownEdges EXCEPT ![w] = @ \cup {e}]
    /\ proj' = proj \cup (Browsable({Root, scopeOf[d]}) \X {e})
    /\ overlapped' = IF pc = "idle" THEN overlapped ELSE overlapped \cup {e}
    /\ UNCHANGED <<nodes, scopeOf, edges, dirty, making, ownRows, runtime>>

\* _create_edge_with_projection, for a card the search has found.
CreateEdge(w, d) ==
    LET c == making[w]
        e == {c, d}
    IN
    /\ c # NoCard /\ d \in nodes /\ e \notin ownEdges[w]
    /\ ownEdges' = [ownEdges EXCEPT ![w] = @ \cup {e}]
    /\ ownRows' = [ownRows EXCEPT ![w] = @ \cup (Browsable({Root, scopeOf[d]}) \X {e})]
    /\ overlapped' = IF pc = "idle" THEN overlapped ELSE overlapped \cup {e}
    /\ UNCHANGED <<graph, making, runtime>>

EndTransaction(w) ==
    /\ making' = [making EXCEPT ![w] = NoCard]
    /\ ownEdges' = [ownEdges EXCEPT ![w] = {}]
    /\ ownRows' = [ownRows EXCEPT ![w] = {}]

Commit(w) ==
    /\ making[w] # NoCard
    /\ nodes' = nodes \cup {making[w]}
    /\ edges' = edges \cup ownEdges[w]
    /\ proj' = proj \cup ownRows[w]
    /\ EndTransaction(w)
    /\ UNCHANGED <<scopeOf, dirty, overlapped, runtime>>

\* Anything raises, or the worker dies.
Rollback(w) ==
    /\ making[w] # NoCard
    /\ EndTransaction(w)
    /\ overlapped' = overlapped \ ownEdges[w]
    /\ UNCHANGED <<graph, runtime>>

-----------------------------------------------------------------------------
(* The taxonomy classification runtime *)

\* The edges of open transactions overlap what the runtime does now.
Overlap == overlapped' = overlapped \cup UNION {ownEdges[w] : w \in Worker}

\* Mutant: only the scope the card has left is refreshed.
MoveRefreshesSource(c, t) ==
    /\ pc = "idle" /\ c \in nodes /\ <<scopeOf[c], t>> \in Child
    /\ scopeOf' = [scopeOf EXCEPT ![c] = t]
    /\ dirty' = dirty \cup Browsable({scopeOf[c]})
    /\ Overlap
    /\ UNCHANGED <<nodes, edges, proj, worker, runtime>>

\* _move_assignment_if_needed, in the transaction of the event.
Move(c, t) ==
    /\ pc = "idle" /\ c \in nodes /\ <<scopeOf[c], t>> \in Child
    /\ scopeOf' = [scopeOf EXCEPT ![c] = t]
    /\ dirty' = dirty \cup Browsable({scopeOf[c], t})
    /\ Overlap
    /\ UNCHANGED <<nodes, edges, proj, worker, runtime>>

\* _refresh_scope_projection reads the cards of s and their edges, ...
RefreshRead(s) ==
    /\ pc = "idle" /\ s \in dirty
    /\ pc' = "read" /\ scope' = s
    /\ found' = {e \in edges : \E c \in e : c \in nodes /\ scopeOf[c] = s}
    /\ Overlap
    /\ UNCHANGED <<graph, worker, victims>>

\* ... deletes the rows of s, ...
RefreshClear ==
    /\ pc = "read"
    /\ pc' = "cleared"
    /\ victims' = {p \in proj : p[1] = scope}
    /\ Overlap
    /\ UNCHANGED <<graph, worker, scope, found>>

\* ... inserts the new ones, deletes the request, and commits.
RefreshCommit ==
    /\ pc = "cleared"
    /\ pc' = "idle"
    /\ proj' = (proj \ victims) \cup ({scope} \X found)
    /\ dirty' = dirty \ {scope}
    /\ found' = {} /\ victims' = {}
    /\ Overlap
    /\ UNCHANGED <<nodes, scopeOf, edges, worker, scope>>

\* The refresh raises or the process dies: the request stays.
RefreshFails ==
    /\ pc # "idle"
    /\ pc' = "idle" /\ found' = {} /\ victims' = {}
    /\ Overlap
    /\ UNCHANGED <<graph, worker, scope>>

-----------------------------------------------------------------------------

Materialize(w) ==
    \/ \E c \in Card : Begin(w, c) \/ CreateEdge(w, c)
    \/ Commit(w) \/ Rollback(w)

Next ==
    \/ \E w \in Worker : Materialize(w)
    \/ \E c \in Card, t \in Scope : Move(c, t)
    \/ \E s \in Scope : RefreshRead(s)
    \/ RefreshClear \/ RefreshCommit \/ RefreshFails

Spec == Init /\ [][Next]_vars

-----------------------------------------------------------------------------
(* Properties *)

Adjacent(s, e) == \E c \in e : c \in nodes /\ scopeOf[c] = s

\* "one row means the referenced edge belongs to the one-hop projection":
\* no row is ever left of an edge or a card that is not there, however
\* materializations, moves and refreshes overlap.
ProjectionSound ==
    \A p \in proj : p[2] \in edges /\ p[1] \in Browsable(Scope) /\ Adjacent(p[1], p[2])

\* "creating an edge inserts projection rows for the card scope of each
\* endpoint node": the projection of a scope that is not to be refreshed has
\* all the edges of its cards.
ProjectionComplete ==
    \A s \in Browsable(Scope) \ dirty, e \in edges : Adjacent(s, e) => <<s, e>> \in proj

\* What is missing is an edge whose transaction the runtime overlapped: all
\* others are there, even when they are made between a move and its refresh.
MissingWasOverlapped ==
    \A s \in Browsable(Scope) \ dirty :
        \A e \in edges \ overlapped : Adjacent(s, e) => <<s, e>> \in proj

\* What materializations, moves and refreshes keep of the projection although
\* nothing orders their statements: no wrong row, and every row but those of
\* edges that were overlapped.
ProjectionFollowsEdges == ProjectionSound /\ MissingWasOverlapped

=============================================================================
