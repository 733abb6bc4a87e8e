--------------------------- MODULE ReadModelProofs ----------------------------
(*****************************************************************************)
(* Proofs about ScopeProjection, ScopeLayout, ViewCaches and TaxonomyTree:   *)
(* for every tree, every number of cards and workers, no row of the          *)
(* projection is wrong, and a row is missing only where a materialization    *)
(* overlapped the runtime; the queue of compute requests holds just what is  *)
(* pending, and a scope is computed by one runner at a time; no answer from  *)
(* the caches is older than its windows; links lead to their nodes, and all  *)
(* readers of the tree mean the same scopes.                                 *)
(*****************************************************************************)
EXTENDS ScopeProjection, ScopeLayout, ViewCaches, TaxonomyTree, OrderingProofs

-----------------------------------------------------------------------------
(* ScopeProjection *)

\* The card a worker makes is not committed, and no other worker makes it.
Fresh ==
    \A w \in Worker : making[w] # NoCard =>
        /\ making[w] \notin nodes
        /\ \A v \in Worker : making[v] = making[w] => v = w

\* A card starts at the root.
Unplaced == \A c \in Card \ nodes : scopeOf[c] = Root

Committed == \A e \in edges : e \subseteq nodes

\* The edges of a transaction join its card to committed ones.
OwnEdges ==
    \A w \in Worker : \A e \in ownEdges[w] :
        /\ making[w] # NoCard /\ making[w] \in e
        /\ e \subseteq nodes \cup {making[w]}

OwnRows ==
    \A w \in Worker : \A p \in ownRows[w] :
        /\ p[2] \in ownEdges[w]
        /\ p[1] \in Browsable(Scope)
        /\ Adjacent(p[1], p[2])

\* A transaction the runtime has not overlapped has all rows of its edges.
OwnComplete ==
    \A w \in Worker : \A e \in ownEdges[w] \ overlapped : \A c \in e \cap nodes :
        scopeOf[c] \in Browsable(Scope) => <<scopeOf[c], e>> \in ownRows[w]

DirtyBrowsable == dirty \subseteq Browsable(Scope)

\* What a refresh has read is still so, but for edges it overlaps.
Refreshing ==
    pc # "idle" =>
        /\ scope \in Browsable(Scope)
        /\ pc = "cleared" => \A p \in victims : p[1] = scope
        /\ \A e \in found : e \in edges /\ Adjacent(scope, e)
        /\ \A w \in Worker : ownEdges[w] \subseteq overlapped
        /\ \A e \in edges \ overlapped : Adjacent(scope, e) => e \in found

IndInv ==
    /\ TypeOK
    /\ Fresh /\ Unplaced /\ Committed /\ OwnEdges /\ OwnRows /\ OwnComplete
    /\ DirtyBrowsable /\ Refreshing
    /\ ProjectionSound /\ MissingWasOverlapped

-----------------------------------------------------------------------------

\* A browsable scope is neither the root nor one a card can be moved from.
LEMMA BrowsableScope ==
    ASSUME NEW s, s \in Browsable(Scope)
    PROVE  s \in Scope /\ s # Root /\ \A t \in Scope : <<s, t>> \notin Child
BY DEF Browsable

LEMMA BrowsableSubset ==
    ASSUME NEW S, NEW s, S \subseteq Scope
    PROVE  s \in Browsable(S) <=> s \in S /\ s \in Browsable(Scope)
BY DEF Browsable

\* Two different cards make an edge.
LEMMA PairIsEdge ==
    ASSUME NEW c \in Card, NEW d \in Card, c # d
    PROVE  {c, d} \in Edge
<1>1. IsFiniteSet({c}) /\ Cardinality({c}) = 1
    BY FS_Singleton
<1>2. Cardinality({c} \cup {d}) = 2
    BY <1>1, FS_AddElement
<1>3. {c} \cup {d} = {c, d}
    OBVIOUS
<1> QED BY <1>2, <1>3 DEF Edge

LEMMA InitInv == Init => IndInv
<1> SUFFICES ASSUME Init PROVE IndInv
    OBVIOUS
<1> USE ConstantsAssumption DEF Init
<1>1. TypeOK
    BY DEF TypeOK
<1>2. Fresh /\ Unplaced /\ Committed /\ OwnEdges /\ OwnRows /\ OwnComplete
    BY DEF Fresh, Unplaced, Committed, OwnEdges, OwnRows, OwnComplete
<1>3. DirtyBrowsable /\ Refreshing
    BY DEF DirtyBrowsable, Refreshing
<1>4. ProjectionSound /\ MissingWasOverlapped
    BY DEF ProjectionSound, MissingWasOverlapped
<1> QED BY <1>1, <1>2, <1>3, <1>4 DEF IndInv

-----------------------------------------------------------------------------
(* One lemma per action. *)

LEMMA BeginStep ==
    ASSUME IndInv, NEW w \in Worker, NEW c \in Card, Begin(w, c)
    PROVE  IndInv'
<1> USE DEF IndInv, Begin, graph, runtime
<1>1. making' = [making EXCEPT ![w] = c] /\ making[w] = NoCard /\ making \in [Worker -> Card \cup {NoCard}]
    BY DEF TypeOK
<1>2. \A v \in Worker : v # w => making'[v] = making[v]
    BY <1>1
<1>3. making'[w] = c /\ c # NoCard
    BY <1>1, ConstantsAssumption
<1>4. ownEdges[w] = {}
    BY <1>1 DEF OwnEdges
<1>5. TypeOK'
    BY DEF TypeOK
<1>6. Fresh'
    BY <1>2, <1>3 DEF Fresh
<1>7. OwnEdges'
    <2> SUFFICES ASSUME NEW v \in Worker, NEW e \in ownEdges[v]
                 PROVE  /\ making'[v] # NoCard /\ making'[v] \in e
                        /\ e \subseteq nodes \cup {making'[v]}
        BY DEF OwnEdges
    <2> QED BY <1>2, <1>4 DEF OwnEdges
<1>8. Unplaced' /\ Committed' /\ OwnRows' /\ OwnComplete' /\ DirtyBrowsable' /\ Refreshing'
    BY DEF Unplaced, Committed, OwnRows, OwnComplete, DirtyBrowsable, Refreshing, Adjacent, worker
<1>9. ProjectionSound' /\ MissingWasOverlapped'
    BY DEF ProjectionSound, MissingWasOverlapped, Adjacent
<1> QED BY <1>5, <1>6, <1>7, <1>8, <1>9


LEMMA CreateEdgeStep ==
    ASSUME IndInv, NEW w \in Worker, NEW d \in Card, CreateEdge(w, d)
    PROVE  IndInv'
<1> USE DEF IndInv, graph, runtime
<1> DEFINE c == making[w]
           e == {c, d}
           rows == Browsable({Root, scopeOf[d]}) \X {e}
<1>1. /\ c \in Card /\ c # NoCard /\ d \in nodes /\ c \notin nodes
      /\ ownEdges' = [ownEdges EXCEPT ![w] = @ \cup {e}]
      /\ ownRows' = [ownRows EXCEPT ![w] = @ \cup rows]
      /\ overlapped' \in {overlapped, overlapped \cup {e}}
      /\ pc # "idle" => e \in overlapped'
      /\ UNCHANGED <<nodes, scopeOf, edges, proj, dirty, making, pc, scope, found, victims>>
    BY DEF CreateEdge, TypeOK, Fresh
<1>2. e \in Edge
    BY <1>1, PairIsEdge
<1>3. \A s : s \in Browsable({Root, scopeOf[d]}) <=> s = scopeOf[d] /\ s \in Browsable(Scope)
    <2>1. {Root, scopeOf[d]} \subseteq Scope
        BY ConstantsAssumption DEF TypeOK
    <2> QED BY <2>1, BrowsableSubset, BrowsableScope
<1>4. rows \subseteq Scope \X Edge
    BY <1>2, <1>3, BrowsableScope
<1>5. /\ ownEdges \in [Worker -> SUBSET Edge] /\ ownRows \in [Worker -> SUBSET (Scope \X Edge)]
      /\ overlapped \subseteq Edge
    BY DEF TypeOK
<1>6. /\ ownEdges'[w] = ownEdges[w] \cup {e} /\ ownRows'[w] = ownRows[w] \cup rows
      /\ \A v \in Worker : v # w => ownEdges'[v] = ownEdges[v] /\ ownRows'[v] = ownRows[v]
    BY <1>1, <1>5
<1> HIDE DEF c, e, rows
<1>7. TypeOK'
    <2>1. ownEdges' \in [Worker -> SUBSET Edge] /\ ownRows' \in [Worker -> SUBSET (Scope \X Edge)]
        BY <1>1, <1>2, <1>4, <1>5
    <2>2. overlapped' \subseteq Edge
        BY <1>1, <1>2, <1>5
    <2> QED BY <1>1, <2>1, <2>2 DEF TypeOK
<1>8. Fresh' /\ Unplaced' /\ Committed' /\ DirtyBrowsable'
    BY <1>1 DEF Fresh, Unplaced, Committed, DirtyBrowsable
<1>9. OwnEdges'
    <2>1. making[w] \in e /\ e \subseteq nodes \cup {making[w]}
        BY <1>1 DEF e, c
    <2> QED BY <1>1, <1>6, <2>1 DEF OwnEdges, c
<1>10. OwnRows'
    <2>1. ASSUME NEW p \in rows
          PROVE  p[2] = e /\ p[1] \in Browsable(Scope) /\ Adjacent(p[1], p[2])
        BY <1>1, <1>3 DEF rows, Adjacent, e
    <2> QED BY <1>1, <1>6, <2>1 DEF OwnRows, Adjacent
<1>11. OwnComplete'
    <2> SUFFICES ASSUME NEW v \in Worker, NEW f \in ownEdges'[v] \ overlapped', NEW b \in f \cap nodes,
                        scopeOf[b] \in Browsable(Scope)
                 PROVE  <<scopeOf[b], f>> \in ownRows'[v]
        BY <1>1 DEF OwnComplete
    <2>1. CASE f \in ownEdges[v]
        BY <1>1, <1>6, <2>1 DEF OwnComplete
    <2>2. CASE v = w /\ f = e
        <3>1. b = d
            BY <1>1, <2>2 DEF e
        <3> QED BY <1>3, <1>6, <2>2, <3>1 DEF rows
    <2> QED BY <1>6, <2>1, <2>2
<1>12. Refreshing'
    BY <1>1, <1>6 DEF Refreshing, Adjacent
<1>13. ProjectionSound' /\ MissingWasOverlapped'
    BY <1>1 DEF ProjectionSound, MissingWasOverlapped, Adjacent
<1> QED BY <1>7, <1>8, <1>9, <1>10, <1>11, <1>12, <1>13

LEMMA RollbackStep ==
    ASSUME IndInv, NEW w \in Worker, Rollback(w)
    PROVE  IndInv'
<1> USE DEF IndInv, graph, runtime
<1>1. /\ making[w] # NoCard
      /\ making' = [making EXCEPT ![w] = NoCard]
      /\ ownEdges' = [ownEdges EXCEPT ![w] = {}]
      /\ ownRows' = [ownRows EXCEPT ![w] = {}]
      /\ overlapped' = overlapped \ ownEdges[w]
      /\ UNCHANGED <<nodes, scopeOf, edges, proj, dirty, pc, scope, found, victims>>
    BY DEF Rollback, EndTransaction
<1>2. /\ making'[w] = NoCard /\ ownEdges'[w] = {} /\ ownRows'[w] = {}
      /\ \A v \in Worker : v # w =>
             making'[v] = making[v] /\ ownEdges'[v] = ownEdges[v] /\ ownRows'[v] = ownRows[v]
    BY <1>1 DEF TypeOK
<1>3. TypeOK'
    BY <1>1 DEF TypeOK
<1>4. \A v \in Worker : v # w => making[v] # making[w]
    BY <1>1 DEF Fresh
<1>5. \A v \in Worker : v # w => ownEdges[v] \cap ownEdges[w] = {}
    <2> SUFFICES ASSUME NEW v \in Worker, v # w, NEW e \in ownEdges[v], e \in ownEdges[w]
                 PROVE  FALSE
        OBVIOUS
    <2>1. making[w] \in e /\ e \subseteq nodes \cup {making[v]}
        BY DEF OwnEdges
    <2> QED BY <1>1, <1>4, <2>1 DEF Fresh
<1>6. edges \cap ownEdges[w] = {}
    BY <1>1 DEF OwnEdges, Committed, Fresh
<1>7. Fresh' /\ Unplaced' /\ Committed' /\ OwnEdges' /\ OwnRows' /\ DirtyBrowsable'
    BY <1>1, <1>2 DEF Fresh, Unplaced, Committed, OwnEdges, OwnRows, DirtyBrowsable, Adjacent
<1>8. OwnComplete'
    BY <1>1, <1>2, <1>5 DEF OwnComplete
<1>9. Refreshing'
    <2> SUFFICES ASSUME pc # "idle" PROVE Refreshing'
        BY <1>1 DEF Refreshing
    <2>1. \A v \in Worker : ownEdges'[v] \subseteq overlapped'
        BY <1>1, <1>2, <1>5 DEF Refreshing
    <2>2. edges \ overlapped' = edges \ overlapped
        BY <1>1, <1>6
    <2> QED BY <1>1, <2>1, <2>2 DEF Refreshing, Adjacent
<1>10. ProjectionSound' /\ MissingWasOverlapped'
    <2>1. edges \ overlapped' = edges \ overlapped
        BY <1>1, <1>6
    <2> QED BY <1>1, <2>1 DEF ProjectionSound, MissingWasOverlapped, Adjacent
<1> QED BY <1>3, <1>7, <1>8, <1>9, <1>10


LEMMA CommitStep ==
    ASSUME IndInv, NEW w \in Worker, Commit(w)
    PROVE  IndInv'
<1> USE DEF IndInv, graph, runtime
<1> DEFINE c == making[w]
<1>1. /\ c \in Card \ nodes /\ scopeOf[c] = Root
      /\ nodes' = nodes \cup {c}
      /\ edges' = edges \cup ownEdges[w]
      /\ proj' = proj \cup ownRows[w]
      /\ UNCHANGED <<scopeOf, dirty, overlapped, pc, scope, found, victims>>
    BY DEF Commit, TypeOK, Fresh, Unplaced
<1>2. /\ making' = [making EXCEPT ![w] = NoCard]
      /\ ownEdges' = [ownEdges EXCEPT ![w] = {}]
      /\ ownRows' = [ownRows EXCEPT ![w] = {}]
    BY DEF Commit, EndTransaction
<1>3. /\ making'[w] = NoCard /\ ownEdges'[w] = {} /\ ownRows'[w] = {}
      /\ \A v \in Worker : v # w =>
             making'[v] = making[v] /\ ownEdges'[v] = ownEdges[v] /\ ownRows'[v] = ownRows[v]
    BY <1>2 DEF TypeOK
<1>4. \A s, e : s \in Browsable(Scope) => (Adjacent(s, e) <=> Adjacent(s, e)')
    BY <1>1, BrowsableScope DEF Adjacent
<1> HIDE DEF c
<1>5. TypeOK'
    BY <1>1, <1>2 DEF TypeOK
<1>6. Fresh' /\ Unplaced' /\ DirtyBrowsable'
    BY <1>1, <1>3 DEF Fresh, Unplaced, DirtyBrowsable, c
<1>7. Committed' /\ OwnEdges'
    BY <1>1, <1>3 DEF Committed, OwnEdges, c
<1>8. OwnRows'
    BY <1>3, <1>4 DEF OwnRows
<1>9. OwnComplete'
    <2> SUFFICES ASSUME NEW v \in Worker, NEW f \in ownEdges'[v] \ overlapped', NEW b \in f \cap nodes',
                        scopeOf[b] \in Browsable(Scope)
                 PROVE  <<scopeOf[b], f>> \in ownRows'[v]
        BY <1>1 DEF OwnComplete
    <2>1. b \in nodes
        BY <1>1, BrowsableScope
    <2> QED BY <1>1, <1>3, <2>1 DEF OwnComplete
<1>10. Refreshing'
    BY <1>1, <1>3, <1>4 DEF Refreshing
<1>11. ProjectionSound'
    <2>1. \A p \in proj \cup ownRows[w] :
             p[2] \in edges \cup ownEdges[w] /\ p[1] \in Browsable(Scope) /\ Adjacent(p[1], p[2])
        BY DEF ProjectionSound, OwnRows
    <2> QED BY <1>1, <1>4, <2>1 DEF ProjectionSound
<1>12. MissingWasOverlapped'
    <2> SUFFICES ASSUME NEW s \in Browsable(Scope) \ dirty, NEW e \in edges' \ overlapped, Adjacent(s, e)
                 PROVE  <<s, e>> \in proj'
        BY <1>1, <1>4 DEF MissingWasOverlapped
    <2>1. CASE e \in edges
        BY <1>1, <2>1 DEF MissingWasOverlapped
    <2>2. CASE e \in ownEdges[w]
        BY <1>1, <2>2 DEF OwnComplete, Adjacent
    <2> QED BY <1>1, <2>1, <2>2
<1> QED BY <1>5, <1>6, <1>7, <1>8, <1>9, <1>10, <1>11, <1>12

\* Once the runtime has done something all open transactions are overlapped.
LEMMA OverlapFact ==
    ASSUME Overlap
    PROVE  /\ overlapped \subseteq overlapped'
           /\ \A w \in Worker : ownEdges[w] \subseteq overlapped'
BY DEF Overlap

LEMMA OverlapType ==
    ASSUME Overlap, TypeOK
    PROVE  overlapped' \subseteq Edge
<1>1. \A w \in Worker : ownEdges[w] \subseteq Edge
    BY DEF TypeOK
<1> QED BY <1>1 DEF Overlap, TypeOK

LEMMA MoveStep ==
    ASSUME IndInv, NEW c \in Card, NEW t \in Scope, Move(c, t)
    PROVE  IndInv'
<1> USE DEF IndInv, runtime, worker
<1>1. /\ pc = "idle" /\ c \in nodes /\ <<scopeOf[c], t>> \in Child
      /\ scopeOf' = [scopeOf EXCEPT ![c] = t]
      /\ dirty' = dirty \cup Browsable({scopeOf[c], t})
      /\ Overlap
      /\ UNCHANGED <<nodes, edges, proj, making, ownEdges, ownRows, pc, scope, found, victims>>
    BY DEF Move
<1>2. /\ scopeOf \in [Card -> Scope] /\ nodes \subseteq Card
      /\ scopeOf[c] \in Scope /\ scopeOf[c] \notin Browsable(Scope)
    BY <1>1, BrowsableScope DEF TypeOK
<1>3. scopeOf'[c] = t /\ \A b \in nodes : b # c => scopeOf'[b] = scopeOf[b]
    BY <1>1, <1>2
<1>4. \A s, e : s \in Browsable(Scope) /\ Adjacent(s, e) => Adjacent(s, e)'
    BY <1>1, <1>2, <1>3 DEF Adjacent
<1>5. dirty' \subseteq Browsable(Scope) /\ (t \in Browsable(Scope) => t \in dirty')
    <2>1. {scopeOf[c], t} \subseteq Scope
        BY <1>2
    <2>2. \A s : s \in Browsable({scopeOf[c], t}) <=> s \in {scopeOf[c], t} /\ s \in Browsable(Scope)
        BY <2>1, BrowsableSubset
    <2> QED BY <1>1, <2>2 DEF DirtyBrowsable
<1>6. TypeOK'
    <2>1. dirty' \subseteq Scope
        BY <1>5, BrowsableScope
    <2> QED BY <1>1, <2>1, OverlapType DEF TypeOK
<1>7. Fresh' /\ Unplaced' /\ Committed' /\ OwnEdges' /\ DirtyBrowsable'
    BY <1>1, <1>2, <1>5 DEF Fresh, Unplaced, Committed, OwnEdges, DirtyBrowsable
<1>8. OwnRows'
    BY <1>1, <1>4 DEF OwnRows
<1>9. OwnComplete' /\ Refreshing'
    BY <1>1, OverlapFact DEF OwnComplete, Refreshing
<1>10. ProjectionSound'
    BY <1>1, <1>4 DEF ProjectionSound
<1>11. MissingWasOverlapped'
    <2> SUFFICES ASSUME NEW s \in Browsable(Scope) \ dirty', NEW e \in edges \ overlapped', Adjacent(s, e)'
                 PROVE  <<s, e>> \in proj
        BY <1>1 DEF MissingWasOverlapped
    <2>1. s # t /\ s \notin dirty /\ e \notin overlapped
        BY <1>1, <1>5, OverlapFact
    <2>2. Adjacent(s, e)
        BY <1>1, <1>3, <2>1 DEF Adjacent
    <2> QED BY <2>1, <2>2 DEF MissingWasOverlapped
<1> QED BY <1>6, <1>7, <1>8, <1>9, <1>10, <1>11

LEMMA RefreshReadStep ==
    ASSUME IndInv, NEW s \in Scope, RefreshRead(s)
    PROVE  IndInv'
<1> USE DEF IndInv, graph, worker
<1>1. /\ s \in Browsable(Scope) /\ scope' = s
      /\ found' = {e \in edges : Adjacent(s, e)}
      /\ Overlap
      /\ UNCHANGED <<nodes, scopeOf, edges, proj, dirty, making, ownEdges, ownRows>>
    BY DEF RefreshRead, DirtyBrowsable, Adjacent
<1>2. TypeOK'
    BY OverlapType DEF RefreshRead, TypeOK
<1>3. Fresh' /\ Unplaced' /\ Committed' /\ OwnEdges' /\ OwnRows' /\ DirtyBrowsable'
    BY <1>1 DEF Fresh, Unplaced, Committed, OwnEdges, OwnRows, DirtyBrowsable, Adjacent
<1>4. OwnComplete'
    BY <1>1, OverlapFact DEF OwnComplete
<1>5. Refreshing'
    <2>1. pc' = "read"
        BY DEF RefreshRead
    <2> QED BY <1>1, <2>1, OverlapFact DEF Refreshing, Adjacent
<1>6. ProjectionSound' /\ MissingWasOverlapped'
    BY <1>1, OverlapFact DEF ProjectionSound, MissingWasOverlapped, Adjacent
<1> QED BY <1>2, <1>3, <1>4, <1>5, <1>6


LEMMA RefreshClearStep ==
    ASSUME IndInv, RefreshClear
    PROVE  IndInv'
<1> USE DEF IndInv, graph, worker
<1>1. /\ pc = "read" /\ pc' = "cleared"
      /\ victims' = {p \in proj : p[1] = scope}
      /\ Overlap
      /\ UNCHANGED <<nodes, scopeOf, edges, proj, dirty, making, ownEdges, ownRows, scope, found>>
    BY DEF RefreshClear
<1>2. TypeOK'
    BY <1>1, OverlapType DEF TypeOK
<1>3. Fresh' /\ Unplaced' /\ Committed' /\ OwnEdges' /\ OwnRows' /\ DirtyBrowsable'
    BY <1>1 DEF Fresh, Unplaced, Committed, OwnEdges, OwnRows, DirtyBrowsable, Adjacent
<1>4. OwnComplete' /\ Refreshing'
    BY <1>1, OverlapFact DEF OwnComplete, Refreshing, Adjacent
<1>5. ProjectionSound' /\ MissingWasOverlapped'
    BY <1>1, OverlapFact DEF ProjectionSound, MissingWasOverlapped, Adjacent
<1> QED BY <1>2, <1>3, <1>4, <1>5

LEMMA RefreshCommitStep ==
    ASSUME IndInv, RefreshCommit
    PROVE  IndInv'
<1> USE DEF IndInv, worker
<1>1. /\ pc = "cleared" /\ pc' = "idle"
      /\ proj' = (proj \ victims) \cup ({scope} \X found)
      /\ dirty' = dirty \ {scope}
      /\ found' = {} /\ victims' = {}
      /\ Overlap
      /\ UNCHANGED <<nodes, scopeOf, edges, making, ownEdges, ownRows, scope>>
    BY DEF RefreshCommit
<1>2. /\ scope \in Browsable(Scope)
      /\ \A p \in victims : p[1] = scope
      /\ \A e \in found : e \in edges /\ Adjacent(scope, e)
      /\ \A e \in edges \ overlapped : Adjacent(scope, e) => e \in found
    BY <1>1 DEF Refreshing
<1>3. TypeOK'
    <2>1. proj' \subseteq Scope \X Edge
        BY <1>1 DEF TypeOK
    <2> QED BY <1>1, <2>1, OverlapType DEF TypeOK
<1>4. Fresh' /\ Unplaced' /\ Committed' /\ OwnEdges' /\ OwnRows' /\ DirtyBrowsable'
    BY <1>1 DEF Fresh, Unplaced, Committed, OwnEdges, OwnRows, DirtyBrowsable, Adjacent
<1>5. OwnComplete' /\ Refreshing'
    BY <1>1, OverlapFact DEF OwnComplete, Refreshing
<1>6. ProjectionSound'
    BY <1>1, <1>2 DEF ProjectionSound, Adjacent
<1>7. MissingWasOverlapped'
    <2> SUFFICES ASSUME NEW s \in Browsable(Scope) \ dirty', NEW e \in edges \ overlapped', Adjacent(s, e)
                 PROVE  <<s, e>> \in proj'
        BY <1>1 DEF MissingWasOverlapped, Adjacent
    <2>1. e \notin overlapped
        BY <1>1, OverlapFact
    <2>2. CASE s = scope
        BY <1>1, <1>2, <2>1, <2>2
    <2>3. CASE s # scope
        <3>1. <<s, e>> \in proj
            BY <1>1, <2>1, <2>3 DEF MissingWasOverlapped
        <3> QED BY <1>1, <1>2, <2>3, <3>1
    <2> QED BY <2>2, <2>3
<1> QED BY <1>3, <1>4, <1>5, <1>6, <1>7

LEMMA RefreshFailsStep ==
    ASSUME IndInv, RefreshFails
    PROVE  IndInv'
<1> USE DEF IndInv, graph, worker
<1>1. /\ pc' = "idle" /\ found' = {} /\ victims' = {}
      /\ Overlap
      /\ UNCHANGED <<nodes, scopeOf, edges, proj, dirty, making, ownEdges, ownRows, scope>>
    BY DEF RefreshFails
<1>2. TypeOK'
    BY <1>1, OverlapType DEF TypeOK
<1>3. Fresh' /\ Unplaced' /\ Committed' /\ OwnEdges' /\ OwnRows' /\ DirtyBrowsable'
    BY <1>1 DEF Fresh, Unplaced, Committed, OwnEdges, OwnRows, DirtyBrowsable, Adjacent
<1>4. OwnComplete' /\ Refreshing'
    BY <1>1, OverlapFact DEF OwnComplete, Refreshing
<1>5. ProjectionSound' /\ MissingWasOverlapped'
    BY <1>1, OverlapFact DEF ProjectionSound, MissingWasOverlapped, Adjacent
<1> QED BY <1>2, <1>3, <1>4, <1>5

LEMMA StutterStep ==
    ASSUME IndInv, UNCHANGED vars
    PROVE  IndInv'
BY DEF IndInv, vars, graph, worker, runtime, TypeOK, Fresh, Unplaced, Committed, OwnEdges, OwnRows,
       OwnComplete, DirtyBrowsable, Refreshing, ProjectionSound, MissingWasOverlapped, Adjacent

-----------------------------------------------------------------------------

LEMMA NextInv == IndInv /\ [Next]_vars => IndInv'
<1> SUFFICES ASSUME IndInv, [Next]_vars PROVE IndInv'
    OBVIOUS
<1>1. CASE \E w \in Worker : Materialize(w)
    <2> PICK w \in Worker : Materialize(w)
        BY <1>1
    <2> QED BY BeginStep, CreateEdgeStep, CommitStep, RollbackStep DEF Materialize
<1>2. CASE \E c \in Card, t \in Scope : Move(c, t)
    BY <1>2, MoveStep
<1>3. CASE \E s \in Scope : RefreshRead(s)
    BY <1>3, RefreshReadStep
<1>4. CASE RefreshClear \/ RefreshCommit \/ RefreshFails
    BY <1>4, RefreshClearStep, RefreshCommitStep, RefreshFailsStep
<1>5. CASE UNCHANGED vars
    BY <1>5, StutterStep
<1> QED BY <1>1, <1>2, <1>3, <1>4, <1>5 DEF Next

\* The invariant holds in every reachable state.
THEOREM Invariant == Spec => []IndInv
BY InitInv, NextInv, PTL DEF Spec

\* Type correctness of the projection, its transactions and the refresh: an
\* edge always joins two different cards.
THEOREM TypeCorrect == Spec => []TypeOK
BY Invariant, PTL DEF IndInv

\* For every tree and any number of concurrent materializations, a projection
\* row is of a committed edge of a card in that browsable scope, and only an
\* edge whose transaction the runtime overlapped can be missing from a
\* projection that is not to be refreshed.
THEOREM ProjectionAlwaysFollowsEdges == Spec => []ProjectionFollowsEdges
BY Invariant, PTL DEF IndInv, ProjectionFollowsEdges

-----------------------------------------------------------------------------
(* ScopeLayout *)

Working(w) == runner[w].at # "idle"

\* The queue holds the scopes whose request is pending, each of them once.
QueueIsPending ==
    /\ \A i, j \in DOMAIN waiting : waiting[i] = waiting[j] => i = j
    /\ \A s \in ViewScope :
        request[s].status = "pending" <=> \E i \in DOMAIN waiting : waiting[i] = s

\* The request of a scope at which a runner works is running and cannot be
\* taken over, unless a claim of the scope became overdue.
ClaimsHold ==
    \A w \in Runner : Working(w) /\ runner[w].scope \notin overran =>
        request[runner[w].scope].status = "running" /\ ~ request[runner[w].scope].overdue

LayoutInv == LayoutTypeOK /\ QueueIsPending /\ ClaimsHold /\ OneRunnerPerScope

-----------------------------------------------------------------------------

LEMMA SomeScope == AnyScope \in ViewScope /\ AnyPrint \in Fingerprint
  BY LayoutConstants DEF AnyScope, AnyPrint

LEMMA IdleType == Idle \in RunnerState /\ Idle \in CallerState
  BY SomeScope DEF Idle, RunnerState, CallerState

LEMMA LayoutInitInv == LayoutInit => LayoutInv
  <1> USE LayoutConstants, SomeScope, IdleType
  <1> SUFFICES ASSUME LayoutInit PROVE LayoutInv
    OBVIOUS
  <1>1. LayoutTypeOK
    <2>1. waiting \in Seq(ViewScope)
      BY DEF LayoutInit
    <2>2. /\ shape \in [ViewScope -> Fingerprint]
          /\ durable \in [ViewScope -> Fingerprint \cup {NoPrint}]
          /\ hot \in [ViewScope -> Fingerprint \cup {NoPrint}]
          /\ request \in [ViewScope -> ComputeRequest]
          /\ report \in [ViewScope -> PrepareStatus]
          /\ changes \in 0..MaxChanges /\ layoutFaults \in 0..MaxLayoutFaults
          /\ overran \subseteq ViewScope
      BY DEF LayoutInit, ComputeRequest, PrepareStatus
    <2>3. runner \in [Runner -> RunnerState] /\ caller \in [Caller -> CallerState]
      BY DEF LayoutInit
    <2> QED BY <2>1, <2>2, <2>3 DEF LayoutTypeOK
  <1>2. QueueIsPending /\ ClaimsHold /\ OneRunnerPerScope
    BY DEF LayoutInit, QueueIsPending, ClaimsHold, OneRunnerPerScope, Working, Idle
  <1> QED BY <1>1, <1>2 DEF LayoutInv

\* What leaves the queue, and what stays in it.
LEMMA WithoutScope ==
    ASSUME NEW S, NEW q \in Seq(S), NEW s,
           \A i, j \in DOMAIN q : q[i] = q[j] => i = j
    PROVE  /\ Without(q, s) \in Seq(S)
           /\ \A i, j \in DOMAIN Without(q, s) : Without(q, s)[i] = Without(q, s)[j] => i = j
           /\ \A t : (\E i \in DOMAIN Without(q, s) : Without(q, s)[i] = t) <=>
                     t # s /\ \E i \in DOMAIN q : q[i] = t
  <1>1. CASE \A i \in DOMAIN q : q[i] # s
    <2>1. Without(q, s) = q
      BY <1>1 DEF Without
    <2> QED BY <1>1, <2>1
  <1>2. CASE ~ \A i \in DOMAIN q : q[i] # s
    <2> DEFINE place == CHOOSE i \in DOMAIN q : q[i] = s
               rest == [j \in 1..(Len(q) - 1) |-> IF j < place THEN q[j] ELSE q[j + 1]]
    <2>1. Without(q, s) = rest
      BY <1>2 DEF Without
    <2>2. place \in DOMAIN q /\ q[place] = s
      BY <1>2
    <2>3. DOMAIN q = 1..Len(q) /\ Len(q) \in Nat /\ Len(q) - 1 \in Nat
          /\ \A i \in 1..Len(q) : q[i] \in S
      BY <2>2
    <2>4. place \in 1..Len(q)
      BY <2>2, <2>3
    <2> HIDE DEF place
    <2>5. rest \in Seq(S) /\ DOMAIN rest = 1..(Len(q) - 1)
      <3>1. \A j \in 1..(Len(q) - 1) : (IF j < place THEN q[j] ELSE q[j + 1]) \in S
        BY <2>3, <2>4
      <3>2. rest \in [1..(Len(q) - 1) -> S]
        BY <3>1
      <3> QED BY <2>3, <3>2
    <2>6. \A j \in 1..(Len(q) - 1) : /\ j < place => rest[j] = q[j]
                                     /\ ~ (j < place) => rest[j] = q[j + 1]
      OBVIOUS
    <2> HIDE DEF rest
    <2>7. ASSUME NEW i \in DOMAIN rest, NEW j \in DOMAIN rest, rest[i] = rest[j] PROVE i = j
      <3>1. ASSUME NEW k \in DOMAIN rest
            PROVE  \E a \in DOMAIN q : /\ rest[k] = q[a]
                                      /\ a = IF k < place THEN k ELSE k + 1
        BY <2>3, <2>4, <2>5, <2>6
      <3>2. PICK a \in DOMAIN q : rest[i] = q[a] /\ a = IF i < place THEN i ELSE i + 1
        BY <3>1
      <3>3. PICK b \in DOMAIN q : rest[j] = q[b] /\ b = IF j < place THEN j ELSE j + 1
        BY <3>1
      <3>4. a = b
        BY <2>7, <3>2, <3>3
      <3>5. i \in Nat /\ j \in Nat /\ place \in Nat
        BY <2>3, <2>4, <2>5
      <3> QED BY <3>2, <3>3, <3>4, <3>5
    <2>8. ASSUME NEW i \in DOMAIN rest
          PROVE rest[i] # s /\ \E j \in DOMAIN q : q[j] = rest[i]
      <3>1. CASE i < place
        BY <2>2, <2>3, <2>4, <2>5, <2>6, <3>1
      <3>2. CASE ~ (i < place)
        BY <2>2, <2>3, <2>4, <2>5, <2>6, <3>2
      <3> QED BY <3>1, <3>2
    <2>9. ASSUME NEW j \in DOMAIN q, q[j] # s PROVE \E i \in DOMAIN rest : rest[i] = q[j]
      <3>1. CASE j < place
        <4>1. j \in DOMAIN rest /\ rest[j] = q[j]
          BY <2>3, <2>4, <2>5, <2>6, <3>1
        <4> QED BY <4>1
      <3>2. CASE place < j
        <4>1. j - 1 \in DOMAIN rest /\ rest[j - 1] = q[j]
          BY <2>3, <2>4, <2>5, <2>6, <3>2
        <4> QED BY <4>1
      <3> QED BY <2>2, <2>3, <2>4, <2>9, <3>1, <3>2
    <2> QED BY <2>1, <2>5, <2>7, <2>8, <2>9
  <1> QED BY <1>1, <1>2

LEMMA CallerType ==
    ASSUME LayoutTypeOK, NEW c \in Caller,
           \/ Ends(c)
           \/ \E at \in {"read", "warm", "register"}, s \in ViewScope,
                 p \in Fingerprint \cup {NoPrint} : Goes(c, at, s, p)
    PROVE  caller' \in [Caller -> CallerState]
  BY IdleType DEF LayoutTypeOK, CallerState, Goes, Ends

\* The type invariant of every step but the changes of the queue.
LEMMA TypeStep ==
    ASSUME LayoutTypeOK, [LayoutNext]_layoutVars, waiting' \in Seq(ViewScope),
           request' \in [ViewScope -> ComputeRequest]
    PROVE  LayoutTypeOK'
  <1> USE SomeScope, IdleType, LayoutConstants
  <1>1. shape' \in [ViewScope -> Fingerprint] /\ changes' \in 0..MaxChanges
    <2>1. ASSUME NEW s \in ViewScope, NEW p \in Fingerprint, GraphChanges(s, p)
          PROVE shape' \in [ViewScope -> Fingerprint] /\ changes' \in 0..MaxChanges
      BY <2>1 DEF GraphChanges, LayoutTypeOK
    <2>2. \/ UNCHANGED <<shape, changes>>
          \/ \E s \in ViewScope, p \in Fingerprint : GraphChanges(s, p)
      BY DEF LayoutNext, EntryLost, ClaimOverdue, RunnerStep, Claim, Build, StoreAndCache,
             CommitLayout, BuildFails, Finish, RunnerDies, ViewStep, ViewStarts, ReadGraph,
             Load, Warm, RegisterRequest, OperatorStep, PrecomputeStarts, PrepareStarts,
             Prepare, PrecomputeAgain, LayoutFault, boundVars, layoutVars
    <2> QED BY <2>1, <2>2 DEF LayoutTypeOK
  <1>2. layoutFaults' \in 0..MaxLayoutFaults /\ overran' \subseteq ViewScope
    <2>1. CASE LayoutFault
      BY <2>1 DEF LayoutFault, LayoutTypeOK
    <2>2. ASSUME NEW s \in ViewScope, ClaimOverdue(s)
          PROVE layoutFaults' \in 0..MaxLayoutFaults /\ overran' \subseteq ViewScope
      BY <2>2 DEF ClaimOverdue, LayoutTypeOK
    <2>3. \/ UNCHANGED <<layoutFaults, overran>> \/ LayoutFault
          \/ \E s \in ViewScope : ClaimOverdue(s)
      BY DEF LayoutNext, GraphChanges, EntryLost, RunnerStep, Claim, Build, StoreAndCache,
             CommitLayout, BuildFails, Finish, RunnerDies, ViewStep, ViewStarts, ReadGraph,
             Load, Warm, RegisterRequest, OperatorStep, PrecomputeStarts, PrepareStarts,
             Prepare, PrecomputeAgain, boundVars, layoutVars
    <2> QED BY <2>1, <2>2, <2>3 DEF LayoutTypeOK
  <1>3. /\ shape' \in [ViewScope -> Fingerprint] /\ overran' \subseteq ViewScope
        /\ changes' \in 0..MaxChanges /\ layoutFaults' \in 0..MaxLayoutFaults
        /\ waiting' \in Seq(ViewScope) /\ request' \in [ViewScope -> ComputeRequest]
    BY <1>1, <1>2
  <1> DEFINE Rest == /\ durable' \in [ViewScope -> Fingerprint \cup {NoPrint}]
                     /\ hot' \in [ViewScope -> Fingerprint \cup {NoPrint}]
                     /\ runner' \in [Runner -> RunnerState]
                     /\ caller' \in [Caller -> CallerState]
                     /\ report' \in [ViewScope -> PrepareStatus]
  <1>4. ASSUME NEW s \in ViewScope,
               (\E p \in Fingerprint : GraphChanges(s, p)) \/ EntryLost(s) \/ ClaimOverdue(s)
        PROVE Rest
    BY <1>4 DEF GraphChanges, EntryLost, ClaimOverdue, storeVars, LayoutTypeOK
  <1>5. ASSUME NEW w \in Runner, RunnerStep(w) PROVE Rest
    <2>1. caller' = caller /\ report' = report
      BY <1>5 DEF RunnerStep, Claim, Build, StoreAndCache, CommitLayout, BuildFails, Finish,
                  RunnerDies
    <2>2. /\ runner[w].scope \in ViewScope /\ runner[w].print \in Fingerprint \cup {NoPrint}
          /\ shape[runner[w].scope] \in Fingerprint
      BY DEF LayoutTypeOK, RunnerState
    <2>3. /\ durable' \in [ViewScope -> Fingerprint \cup {NoPrint}]
          /\ hot' \in [ViewScope -> Fingerprint \cup {NoPrint}]
      BY <1>5, <2>2 DEF RunnerStep, Claim, Build, StoreAndCache, CommitLayout, BuildFails,
                        Finish, RunnerDies, storeVars, LayoutTypeOK
    <2>4. runner' \in [Runner -> RunnerState]
      <3>1. CASE Claim(w)
        <4>1. Head(waiting) \in ViewScope
          BY <3>1 DEF Claim, LayoutTypeOK
        <4> QED BY <3>1, <4>1 DEF Claim, LayoutTypeOK, RunnerState
      <3>2. CASE Build(w)
        BY <2>2, <3>2 DEF Build, PrintOf, LayoutTypeOK, RunnerState
      <3>3. CASE StoreAndCache(w) \/ CommitLayout(w) \/ BuildFails(w)
        <4>1. PICK to \in {"stored", "done", "failed"} :
                  runner' = [runner EXCEPT ![w].at = to]
          BY <3>3 DEF StoreAndCache, CommitLayout, BuildFails, Step
        <4> QED BY <4>1 DEF LayoutTypeOK, RunnerState
      <3>4. CASE Finish(w) \/ RunnerDies(w)
        BY <3>4 DEF Finish, RunnerDies, LayoutTypeOK
      <3> QED BY <1>5, <3>1, <3>2, <3>3, <3>4 DEF RunnerStep
    <2> QED BY <2>1, <2>3, <2>4 DEF LayoutTypeOK
  <1>6. ASSUME NEW c \in Caller,
               \/ \E s \in ViewScope : ReadGraph(c, s)
               \/ Load(c) \/ Warm(c) \/ RegisterRequest(c)
        PROVE Rest
    <2>1. durable' = durable /\ runner' = runner
      BY <1>6 DEF ReadGraph, Load, Warm, RegisterRequest, storeVars
    <2>2. caller[c].scope \in ViewScope /\ caller[c].print \in Fingerprint \cup {NoPrint}
      BY DEF LayoutTypeOK, CallerState
    <2>3. caller' \in [Caller -> CallerState]
      <3>1. ASSUME NEW s \in ViewScope, ReadGraph(c, s) PROVE caller' \in [Caller -> CallerState]
        <4>1. Goes(c, "read", s, shape[s]) /\ shape[s] \in Fingerprint
          BY <3>1 DEF ReadGraph, PrintOf, LayoutTypeOK
        <4> QED BY <4>1, CallerType
      <3>2. CASE Load(c)
        <4>1. \/ Ends(c)
              \/ \E at \in {"warm", "register"} : Goes(c, at, caller[c].scope, caller[c].print)
          BY <3>2 DEF Load
        <4> QED BY <2>2, <4>1, CallerType
      <3>3. CASE Warm(c) \/ RegisterRequest(c)
        BY <3>3, CallerType DEF Warm, RegisterRequest
      <3> QED BY <1>6, <3>1, <3>2, <3>3
    <2>4. hot' \in [ViewScope -> Fingerprint \cup {NoPrint}]
      BY <1>6, <2>2 DEF ReadGraph, Load, Warm, RegisterRequest, storeVars, LayoutTypeOK
    <2>5. report' \in [ViewScope -> PrepareStatus]
      BY <1>6, <2>2 DEF ReadGraph, Load, Warm, RegisterRequest, LayoutTypeOK, PrepareStatus
    <2> QED BY <2>1, <2>3, <2>4, <2>5 DEF LayoutTypeOK
  <1>7. ASSUME PrecomputeStarts \/ PrecomputeAgain PROVE Rest
    BY <1>7 DEF PrecomputeStarts, PrecomputeAgain, storeVars, LayoutTypeOK, PrepareStatus
  <1>8. ASSUME Prepare PROVE Rest
    <2>1. Operator \in Caller
      BY DEF Caller
    <2>2. /\ caller[Operator].scope \in ViewScope
          /\ caller[Operator].print \in Fingerprint \cup {NoPrint}
      BY <2>1 DEF LayoutTypeOK, CallerState
    <2>3. UNCHANGED <<durable, hot, runner>>
      BY <1>8 DEF Prepare, storeVars
    <2>4. caller' \in [Caller -> CallerState]
      <3>1. \/ Ends(Operator)
            \/ \E at \in {"warm", "register"} :
                   Goes(Operator, at, caller[Operator].scope, caller[Operator].print)
        BY <1>8 DEF Prepare
      <3> QED BY <2>1, <2>2, <3>1, CallerType
    <2>5. report' \in [ViewScope -> PrepareStatus]
      BY <1>8, <2>2 DEF Prepare, LayoutTypeOK, PrepareStatus
    <2> QED BY <2>3, <2>4, <2>5 DEF LayoutTypeOK
  <1>9. ASSUME UNCHANGED layoutVars PROVE Rest
    BY <1>9 DEF layoutVars, storeVars, LayoutTypeOK
  <1>10. Viewer \subseteq Caller /\ Operator \in Caller
    BY DEF Caller
  <1>11. Rest
    BY <1>4, <1>5, <1>6, <1>7, <1>8, <1>9, <1>10
       DEF LayoutNext, ViewStep, ViewStarts, OperatorStep, PrepareStarts
  <1> QED BY <1>3, <1>11 DEF LayoutTypeOK

-----------------------------------------------------------------------------

\* Steps that leave the queue and the claims alone: runners may go on or end.
LEMMA RunnersGoOn ==
    ASSUME LayoutInv, UNCHANGED <<request, waiting, overran>>,
           \A w \in Runner : Working(w)' => Working(w) /\ runner'[w].scope = runner[w].scope
    PROVE  QueueIsPending' /\ ClaimsHold' /\ OneRunnerPerScope'
  <1>1. QueueIsPending'
    BY DEF LayoutInv, QueueIsPending
  <1>2. ClaimsHold' /\ OneRunnerPerScope'
    BY DEF LayoutInv, ClaimsHold, OneRunnerPerScope, Working
  <1> QED BY <1>1, <1>2

LEMMA ClaimStep ==
    ASSUME LayoutInv, NEW w \in Runner, Claim(w)
    PROVE  /\ waiting' \in Seq(ViewScope) /\ request' \in [ViewScope -> ComputeRequest]
           /\ QueueIsPending' /\ ClaimsHold' /\ OneRunnerPerScope'
  <1> USE DEF LayoutInv
  <1> DEFINE s == Head(waiting)
  <1>1. /\ waiting \in Seq(ViewScope) /\ waiting # <<>> /\ s \in ViewScope
        /\ waiting' = Tail(waiting) /\ waiting' \in Seq(ViewScope)
    BY DEF Claim, LayoutTypeOK
  <1>2. /\ Len(waiting) \in Nat /\ Len(waiting) >= 1 /\ waiting[1] = s
        /\ DOMAIN waiting = 1..Len(waiting) /\ DOMAIN waiting' = 1..(Len(waiting) - 1)
        /\ \A i \in 1..(Len(waiting) - 1) : waiting'[i] = waiting[i + 1]
    BY <1>1
  <1>3. /\ request' = [request EXCEPT ![s] = [@ EXCEPT !.status = "running", !.overdue = FALSE]]
        /\ ~ Working(w) /\ Working(w)' /\ runner'[w].scope = s
        /\ \A v \in Runner \ {w} : runner'[v] = runner[v]
        /\ UNCHANGED overran
    BY <1>1 DEF Claim, LayoutTypeOK, Working, boundVars, ComputeRequest
  <1>4. /\ request' \in [ViewScope -> ComputeRequest]
        /\ request'[s].status = "running" /\ ~ request'[s].overdue
        /\ \A t \in ViewScope \ {s} : request'[t] = request[t]
    BY <1>1, <1>3 DEF LayoutTypeOK, ComputeRequest
  <1>5. request[s].status = "pending"
    BY <1>1, <1>2 DEF QueueIsPending
  <1>6. QueueIsPending'
    <2>1. ASSUME NEW i \in DOMAIN waiting', NEW j \in DOMAIN waiting', waiting'[i] = waiting'[j]
          PROVE  i = j
      BY <1>2, <2>1 DEF QueueIsPending
    <2>2. \A t : (\E i \in DOMAIN waiting' : waiting'[i] = t) <=>
                 t # s /\ \E i \in DOMAIN waiting : waiting[i] = t
      <3>1. ASSUME NEW i \in DOMAIN waiting'
            PROVE  waiting'[i] # s /\ \E j \in DOMAIN waiting : waiting[j] = waiting'[i]
        BY <1>2 DEF QueueIsPending
      <3>2. ASSUME NEW j \in DOMAIN waiting, waiting[j] # s
            PROVE  \E i \in DOMAIN waiting' : waiting'[i] = waiting[j]
        <4>1. j - 1 \in DOMAIN waiting' /\ waiting'[j - 1] = waiting[j]
          BY <1>2, <3>2
        <4> QED BY <4>1
      <3> QED BY <3>1, <3>2
    <2> QED BY <1>4, <2>1, <2>2 DEF QueueIsPending
  <1>7. \A v \in Runner : Working(v) /\ runner[v].scope = s => s \in overran
    BY <1>5 DEF ClaimsHold
  <1>8. ClaimsHold' /\ OneRunnerPerScope'
    <2>1. \A v \in Runner : Working(v)' => v = w \/ (Working(v) /\ runner'[v].scope = runner[v].scope)
      BY <1>3 DEF Working
    <2>2. \A v \in Runner : Working(v) => runner[v].scope \in ViewScope
      BY DEF LayoutTypeOK, RunnerState
    <2> QED BY <1>3, <1>4, <1>7, <2>1, <2>2 DEF ClaimsHold, OneRunnerPerScope, Working
  <1> QED BY <1>1, <1>4, <1>6, <1>8

\* The request of the runner's scope is marked, whosever it is by now.
LEMMA FinishStep ==
    ASSUME LayoutInv, NEW w \in Runner, Finish(w)
    PROVE  /\ waiting' \in Seq(ViewScope) /\ request' \in [ViewScope -> ComputeRequest]
           /\ QueueIsPending' /\ ClaimsHold' /\ OneRunnerPerScope'
  <1> USE DEF LayoutInv
  <1> DEFINE s == runner[w].scope
  <1>1. s \in ViewScope /\ Working(w)
    BY DEF Finish, Completed, Failed, LayoutTypeOK, RunnerState, Working
  <1>2. PICK status \in {"succeeded", "failed"} :
            request' = [request EXCEPT ![s].status = status] /\ waiting' = Without(waiting, s)
    BY DEF Finish, Completed, Failed, MarkSucceeded, MarkFailed, Mark
  <1>3. /\ ~ Working(w)' /\ \A v \in Runner \ {w} : runner'[v] = runner[v]
        /\ UNCHANGED overran
    BY DEF Finish, Working, Idle, LayoutTypeOK, boundVars
  <1>4. /\ request' \in [ViewScope -> ComputeRequest]
        /\ request'[s].status \in {"succeeded", "failed"}
        /\ \A t \in ViewScope \ {s} : request'[t] = request[t]
    BY <1>1, <1>2 DEF LayoutTypeOK, ComputeRequest
  <1>5. /\ waiting' \in Seq(ViewScope)
        /\ \A i, j \in DOMAIN waiting' : waiting'[i] = waiting'[j] => i = j
        /\ \A t : (\E i \in DOMAIN waiting' : waiting'[i] = t) <=>
                  t # s /\ \E i \in DOMAIN waiting : waiting[i] = t
    <2> HIDE DEF s
    <2>1. waiting \in Seq(ViewScope) /\ \A i, j \in DOMAIN waiting : waiting[i] = waiting[j] => i = j
      BY DEF LayoutTypeOK, QueueIsPending
    <2>2. waiting' = Without(waiting, s)
      BY <1>2
    <2>3. /\ Without(waiting, s) \in Seq(ViewScope)
          /\ \A i, j \in DOMAIN Without(waiting, s) :
                 Without(waiting, s)[i] = Without(waiting, s)[j] => i = j
          /\ \A t : (\E i \in DOMAIN Without(waiting, s) : Without(waiting, s)[i] = t) <=>
                    t # s /\ \E i \in DOMAIN waiting : waiting[i] = t
      BY <2>1, WithoutScope
    <2> QED BY <2>2, <2>3
  <1>6. QueueIsPending'
    BY <1>4, <1>5 DEF QueueIsPending
  <1>7. \A v \in Runner : Working(v)' =>
            v # w /\ Working(v) /\ runner'[v].scope = runner[v].scope /\ runner[v].scope \in ViewScope
    BY <1>3 DEF Working, LayoutTypeOK, RunnerState
  <1>8. \A v \in Runner : Working(v)' /\ runner[v].scope = s => s \in overran
    BY <1>1, <1>7 DEF OneRunnerPerScope, Working
  <1>9. ClaimsHold' /\ OneRunnerPerScope'
    BY <1>3, <1>4, <1>7, <1>8 DEF ClaimsHold, OneRunnerPerScope, Working
  <1> QED BY <1>4, <1>5, <1>6, <1>9

\* A request is only put back in the queue when it is not running or overdue.
LEMMA RegisterStep ==
    ASSUME LayoutInv, NEW s \in ViewScope, NEW p \in Fingerprint \cup {NoPrint},
           Register(s, p) \/ UNCHANGED queueVars, UNCHANGED <<runner, overran>>
    PROVE  /\ waiting' \in Seq(ViewScope) /\ request' \in [ViewScope -> ComputeRequest]
           /\ QueueIsPending' /\ ClaimsHold' /\ OneRunnerPerScope'
  <1> USE DEF LayoutInv
  <1>1. CASE UNCHANGED queueVars
    BY <1>1, RunnersGoOn DEF queueVars, Working, LayoutTypeOK
  <1>2. CASE ~ Kept(s, p) /\ ~ UNCHANGED queueVars
    <2> DEFINE q == Without(waiting, s)
    <2>1. /\ request' = [request EXCEPT ![s] =
                            [status |-> "pending", print |-> p, overdue |-> FALSE]]
          /\ waiting' = Append(q, s)
      BY <1>2 DEF Register
    <2>2. /\ request' \in [ViewScope -> ComputeRequest] /\ request'[s].status = "pending"
          /\ \A t \in ViewScope \ {s} : request'[t] = request[t]
      BY <2>1 DEF LayoutTypeOK, ComputeRequest
    <2>3. /\ q \in Seq(ViewScope)
          /\ \A i, j \in DOMAIN q : q[i] = q[j] => i = j
          /\ \A t : (\E i \in DOMAIN q : q[i] = t) <=>
                    t # s /\ \E i \in DOMAIN waiting : waiting[i] = t
      BY WithoutScope DEF LayoutTypeOK, QueueIsPending
    <2> HIDE DEF q
    <2>4. /\ waiting' \in Seq(ViewScope) /\ Len(q) \in Nat
          /\ DOMAIN q = 1..Len(q) /\ DOMAIN waiting' = 1..(Len(q) + 1)
          /\ waiting'[Len(q) + 1] = s /\ \A i \in 1..Len(q) : waiting'[i] = q[i]
      BY <2>1, <2>3
    <2>5. ASSUME NEW i \in DOMAIN waiting', NEW j \in DOMAIN waiting', waiting'[i] = waiting'[j]
          PROVE  i = j
      <3>1. \A k \in DOMAIN q : q[k] # s /\ waiting'[k] = q[k]
        BY <2>3, <2>4
      <3>2. (i \in DOMAIN q \/ i = Len(q) + 1) /\ (j \in DOMAIN q \/ j = Len(q) + 1)
        BY <2>4
      <3>3. CASE i \in DOMAIN q /\ j \in DOMAIN q
        BY <2>3, <2>5, <3>1, <3>3
      <3>4. CASE i = Len(q) + 1 \/ j = Len(q) + 1
        BY <2>4, <2>5, <3>1, <3>2, <3>4
      <3> QED BY <3>2, <3>3, <3>4
    <2>6. ASSUME NEW t
          PROVE  (\E i \in DOMAIN waiting' : waiting'[i] = t) <=>
                     t = s \/ \E i \in DOMAIN q : q[i] = t
      <3>1. ASSUME NEW i \in DOMAIN waiting', waiting'[i] = t
            PROVE  t = s \/ \E j \in DOMAIN q : q[j] = t
        <4>1. i = Len(q) + 1 \/ i \in DOMAIN q
          BY <2>4
        <4> QED BY <2>4, <3>1, <4>1
      <3>2. ASSUME NEW i \in DOMAIN q, q[i] = t PROVE i \in DOMAIN waiting' /\ waiting'[i] = t
        BY <2>4, <3>2
      <3>3. Len(q) + 1 \in DOMAIN waiting'
        BY <2>4
      <3> QED BY <2>4, <3>1, <3>2, <3>3
    <2>7. QueueIsPending'
      BY <2>2, <2>3, <2>5, <2>6 DEF QueueIsPending
    <2>8. \A w \in Runner : Working(w) /\ runner[w].scope = s => s \in overran
      BY <1>2 DEF ClaimsHold, Kept
    <2>9. \A w \in Runner : Working(w)' => Working(w) /\ runner[w].scope \in ViewScope
      BY DEF Working, LayoutTypeOK, RunnerState
    <2>10. ClaimsHold' /\ OneRunnerPerScope'
      BY <2>2, <2>8, <2>9 DEF ClaimsHold, OneRunnerPerScope, Working
    <2> QED BY <2>2, <2>4, <2>7, <2>10
  <1> QED BY <1>1, <1>2 DEF Register

LEMMA OverdueStep ==
    ASSUME LayoutInv, NEW s \in ViewScope, ClaimOverdue(s)
    PROVE  /\ waiting' \in Seq(ViewScope) /\ request' \in [ViewScope -> ComputeRequest]
           /\ QueueIsPending' /\ ClaimsHold' /\ OneRunnerPerScope'
  <1> USE DEF LayoutInv
  <1>1. /\ request' = [request EXCEPT ![s].overdue = TRUE]
        /\ overran' = overran \cup {s} /\ UNCHANGED <<waiting, runner>>
    BY DEF ClaimOverdue
  <1>2. /\ request' \in [ViewScope -> ComputeRequest] /\ request'[s].status = request[s].status
        /\ \A t \in ViewScope \ {s} : request'[t] = request[t]
    BY <1>1 DEF LayoutTypeOK, ComputeRequest
  <1>3. QueueIsPending'
    BY <1>1, <1>2 DEF QueueIsPending
  <1>4. \A w \in Runner : Working(w) => runner[w].scope \in ViewScope
    BY DEF LayoutTypeOK, RunnerState
  <1>5. ClaimsHold' /\ OneRunnerPerScope'
    BY <1>1, <1>2, <1>4 DEF ClaimsHold, OneRunnerPerScope, Working
  <1> QED BY <1>1, <1>2, <1>3, <1>5 DEF LayoutTypeOK

LEMMA LayoutStep ==
    ASSUME LayoutInv, [LayoutNext]_layoutVars
    PROVE  /\ waiting' \in Seq(ViewScope) /\ request' \in [ViewScope -> ComputeRequest]
           /\ QueueIsPending' /\ ClaimsHold' /\ OneRunnerPerScope'
  <1> DEFINE Goal == /\ waiting' \in Seq(ViewScope) /\ request' \in [ViewScope -> ComputeRequest]
                     /\ QueueIsPending' /\ ClaimsHold' /\ OneRunnerPerScope'
  <1>1. ASSUME UNCHANGED <<request, waiting, overran>>,
               \A w \in Runner : Working(w)' => Working(w) /\ runner'[w].scope = runner[w].scope
        PROVE  Goal
    BY <1>1, RunnersGoOn DEF LayoutInv, LayoutTypeOK
  <1>2. ASSUME UNCHANGED <<request, waiting, overran, runner>> PROVE Goal
    BY <1>1, <1>2 DEF Working
  <1>3. ASSUME NEW s \in ViewScope,
               (\E p \in Fingerprint : GraphChanges(s, p)) \/ EntryLost(s) \/ ClaimOverdue(s)
        PROVE  Goal
    BY <1>2, <1>3, OverdueStep DEF GraphChanges, EntryLost, LayoutFault, queueVars
  <1>4. ASSUME NEW w \in Runner, RunnerStep(w) PROVE Goal
    <2>1. CASE Claim(w)
      BY <2>1, ClaimStep
    <2>2. CASE Finish(w)
      BY <2>2, FinishStep
    <2>3. CASE Build(w) \/ StoreAndCache(w) \/ CommitLayout(w) \/ BuildFails(w) \/ RunnerDies(w)
      <3>1. UNCHANGED <<request, waiting, overran>>
        BY <2>3 DEF Build, StoreAndCache, CommitLayout, BuildFails, RunnerDies, LayoutFault,
                    queueVars, boundVars
      <3>2. \A v \in Runner : Working(v)' => Working(v) /\ runner'[v].scope = runner[v].scope
        BY <2>3 DEF Build, StoreAndCache, CommitLayout, BuildFails, RunnerDies, Step, Working,
                    Idle, LayoutInv, LayoutTypeOK, RunnerState
      <3> QED BY <1>1, <3>1, <3>2
    <2> QED BY <1>4, <2>1, <2>2, <2>3 DEF RunnerStep
  <1>5. ASSUME NEW c \in Caller, RegisterRequest(c) PROVE Goal
    <2>1. caller[c].scope \in ViewScope /\ caller[c].print \in Fingerprint \cup {NoPrint}
      BY DEF LayoutInv, LayoutTypeOK, CallerState
    <2>2. /\ Register(caller[c].scope, caller[c].print) \/ UNCHANGED queueVars
          /\ UNCHANGED <<runner, overran>>
      BY <1>5 DEF RegisterRequest, LayoutFault, boundVars
    <2> QED BY <2>1, <2>2, RegisterStep
  <1>6. ASSUME NEW c \in Caller,
               (\E s \in ViewScope : ReadGraph(c, s)) \/ Load(c) \/ Warm(c)
        PROVE  Goal
    BY <1>2, <1>6 DEF ReadGraph, Load, Warm, LayoutFault, queueVars, boundVars
  <1>7. ASSUME PrecomputeStarts \/ Prepare \/ PrecomputeAgain \/ UNCHANGED layoutVars PROVE Goal
    BY <1>2, <1>7 DEF PrecomputeStarts, Prepare, PrecomputeAgain, layoutVars, queueVars, boundVars
  <1>8. Viewer \subseteq Caller /\ Operator \in Caller
    BY DEF Caller
  <1> QED BY <1>3, <1>4, <1>5, <1>6, <1>7, <1>8
          DEF LayoutNext, ViewStep, ViewStarts, OperatorStep, PrepareStarts

\* The inductive invariant of the compute requests: a runner holds the claim of
\* its scope, and what is pending is queued once.
THEOREM LayoutInvariant == LayoutSpec => []LayoutInv
  <1>1. LayoutInv /\ [LayoutNext]_layoutVars => LayoutInv'
    BY LayoutStep, TypeStep DEF LayoutInv
  <1> QED BY <1>1, LayoutInitInv, PTL DEF LayoutSpec

\* A scope's layout is computed by one runner at a time, for any number of
\* runners, views and scopes, unless a claim of it became overdue
\* (claim_next_card_scope_layout_compute).
THEOREM OneRunnerAtAScope == LayoutSpec => []OneRunnerPerScope
  BY LayoutInvariant, PTL DEF LayoutInv

\* No compute request is lost or queued twice: what is pending is in the queue,
\* once, and nothing else is (request_card_scope_layout_compute).
THEOREM PendingIsQueued == LayoutSpec => []QueueIsPending
  BY LayoutInvariant, PTL DEF LayoutInv

-----------------------------------------------------------------------------
(* ViewCaches *)

SearchStates == {"embedding", "embed", "retrieve", "titles"}
ViewStates == {"counts", "lock", "count", "setCounts", "answer"}

EntryRecord == [age : Nat, left : Nat]
ReaderRecord == [at : {"idle", "cached"} \cup SearchStates \cup ViewStates, surface : Surface,
                 age : Nat, spent : 0..Patience]

CacheTypeOK ==
    /\ cache \in [CacheKey -> EntryRecord]
    /\ reader \in [Reader -> ReaderRecord]
    /\ cacheFaults \in Nat

\* What a request has read is as old as the request, or came from the counts.
ReaderFresh(q) ==
    /\ q.at \in SearchStates => q.surface = "search"
    /\ q.at \in ViewStates => q.surface \in BranchSurface \cup {"targets"}
    /\ q.at \in {"titles", "setCounts"} => q.age <= q.spent
    /\ q.at = "answer" => q.age <= ViewTtl + Patience + q.spent

\* The age at which an entry was stored.
StoredAge(k) ==
    CASE k = "response" -> Patience
      [] k = "counts" -> Patience
      [] OTHER -> ViewTtl + 2 * Patience

\* An entry was stored no older than that, and has aged by the time it lost.
EntryFresh(k) ==
    cache[k].left > 0 /\ k # "embedding" => cache[k].age + cache[k].left <= StoredAge(k) + TtlOf(k)

CacheInv ==
    /\ CacheTypeOK
    /\ \A r \in Reader : ReaderFresh(reader[r])
    /\ \A k \in CacheKey : EntryFresh(k)

LEMMA CacheNumbers ==
    /\ ViewTtl \in Nat \ {0} /\ SearchTtl \in Nat \ {0} /\ Patience \in Nat
    /\ \A k : TtlOf(k) \in Nat /\ StoredAge(k) \in Nat
    BY CacheConstants DEF TtlOf, StoredAge

LEMMA NobodyReads == Nobody \in ReaderRecord /\ ReaderFresh(Nobody) /\ NoEntry \in EntryRecord
    BY CacheNumbers DEF Nobody, NoEntry, ReaderRecord, EntryRecord, ReaderFresh, SearchStates, ViewStates, Surface

LEMMA AgesByOne == \A n \in Nat : Older(n) \in Nat /\ Older(n) <= n + 1
  <1>1. Oldest \in Nat
    BY CacheNumbers DEF Oldest
  <1> QED BY <1>1 DEF Older

\* A step of one request.
LEMMA OneReader ==
    ASSUME CacheInv, NEW r \in Reader, NEW q \in ReaderRecord, ReaderFresh(q),
           reader' = [reader EXCEPT ![r] = q]
    PROVE  reader' \in [Reader -> ReaderRecord] /\ \A x \in Reader : ReaderFresh(reader'[x])
  <1>1. \A x \in Reader : reader'[x] = IF x = r THEN q ELSE reader[x]
    BY DEF CacheInv, CacheTypeOK
  <1> QED BY <1>1 DEF CacheInv, CacheTypeOK

LEMMA CacheKept ==
    ASSUME CacheInv, UNCHANGED cache PROVE cache' \in [CacheKey -> EntryRecord] /\ \A k \in CacheKey : EntryFresh(k)'
    BY DEF CacheInv, CacheTypeOK, EntryFresh

LEMMA FaultsKept ==
    ASSUME CacheInv, UNCHANGED cacheFaults \/ CacheFault PROVE cacheFaults' \in Nat
    BY DEF CacheInv, CacheTypeOK, CacheFault

\* What is stored no older than StoredAge is fresh as long as it is there.
LEMMA EntrySet ==
    ASSUME CacheInv, NEW k \in CacheKey, NEW age \in Nat, age <= StoredAge(k) \/ k = "embedding", SetEntry(k, age)
    PROVE  /\ cache' \in [CacheKey -> EntryRecord] /\ \A j \in CacheKey : EntryFresh(j)'
           /\ cacheFaults' \in Nat
  <1>1. cacheFaults' \in Nat
    BY FaultsKept DEF SetEntry
  <1>2. CASE UNCHANGED cache
    BY <1>1, <1>2, CacheKept
  <1>3. CASE Stored(k, age)
    <2>1. \A j \in CacheKey : cache'[j] = IF j = k THEN [age |-> age, left |-> TtlOf(k)] ELSE cache[j]
      BY <1>3 DEF Stored, CacheInv, CacheTypeOK
    <2>2. [age |-> age, left |-> TtlOf(k)] \in EntryRecord
      BY CacheNumbers DEF EntryRecord
    <2>3. cache' \in [CacheKey -> EntryRecord]
      BY <1>3, <2>2 DEF Stored, CacheInv, CacheTypeOK
    <2>4. \A j \in CacheKey \ {k} : EntryFresh(j)'
      BY <2>1 DEF EntryFresh, CacheInv
    <2>5. EntryFresh(k)'
      BY <2>1, CacheNumbers DEF EntryFresh
    <2> QED BY <1>1, <2>3, <2>4, <2>5
  <1> QED BY <1>2, <1>3 DEF SetEntry

\* A request goes on with data of an age that its state may have.
LEMMA ReaderGoesTo ==
    ASSUME CacheInv, NEW r \in Reader, NEW at \in SearchStates \cup ViewStates, NEW age \in Nat,
           at \in SearchStates => reader[r].surface = "search",
           at \in ViewStates => reader[r].surface \in BranchSurface \cup {"targets"},
           at \in {"titles", "setCounts"} => age <= reader[r].spent,
           at = "answer" => age <= ViewTtl + Patience + reader[r].spent,
           GoesTo(r, at, age)
    PROVE  reader' \in [Reader -> ReaderRecord] /\ \A x \in Reader : ReaderFresh(reader'[x])
  <1> DEFINE q == [reader[r] EXCEPT !.at = at, !.age = age]
  <1>1. reader[r] \in ReaderRecord
    BY DEF CacheInv, CacheTypeOK
  <1>2. q \in ReaderRecord /\ q.at = at /\ q.age = age /\ q.surface = reader[r].surface /\ q.spent = reader[r].spent
    BY <1>1 DEF ReaderRecord
  <1>3. ReaderFresh(q)
    BY <1>2 DEF ReaderFresh
  <1>4. reader' = [reader EXCEPT ![r] = q]
    BY <1>1 DEF GoesTo, CacheInv, CacheTypeOK
  <1> HIDE DEF q
  <1> QED BY <1>2, <1>3, <1>4, OneReader

LEMMA ReaderAnswers ==
    ASSUME CacheInv, NEW r \in Reader, Answers(r)
    PROVE  reader' \in [Reader -> ReaderRecord] /\ \A x \in Reader : ReaderFresh(reader'[x])
    BY NobodyReads, OneReader DEF Answers

LEMMA ReaderKnown ==
    ASSUME CacheInv, NEW r \in Reader
    PROVE  /\ ReaderFresh(reader[r]) /\ reader[r] \in ReaderRecord /\ reader[r].age \in Nat
           /\ reader[r].spent \in Nat /\ reader[r].spent <= Patience
  <1>1. reader[r] \in ReaderRecord /\ ReaderFresh(reader[r])
    BY DEF CacheInv, CacheTypeOK
  <1> QED BY <1>1, CacheNumbers DEF ReaderRecord

LEMMA CacheTicks == ASSUME CacheInv, CacheTick PROVE CacheInv'
  <1>1. ASSUME NEW k \in CacheKey PROVE cache'[k] \in EntryRecord /\ EntryFresh(k)'
    <2>1. cache'[k] = IF cache[k].left <= 1 THEN NoEntry
                      ELSE [age |-> Older(cache[k].age), left |-> cache[k].left - 1]
      BY DEF CacheTick
    <2>2. cache[k].age \in Nat /\ cache[k].left \in Nat
      BY DEF CacheInv, CacheTypeOK, EntryRecord
    <2>3. CASE cache[k].left <= 1
      BY <2>1, <2>3, NobodyReads DEF EntryFresh, NoEntry
    <2>4. CASE ~ cache[k].left <= 1
      <3>1. /\ cache'[k].age = Older(cache[k].age) /\ cache'[k].left = cache[k].left - 1
            /\ cache'[k].left \in Nat /\ Older(cache[k].age) \in Nat
            /\ Older(cache[k].age) <= cache[k].age + 1
        BY <2>1, <2>2, <2>4, AgesByOne
      <3>2. EntryFresh(k)'
        BY <2>2, <2>4, <3>1, CacheNumbers DEF EntryFresh, CacheInv
      <3>3. cache'[k] \in EntryRecord
        BY <2>1, <2>4, <3>1 DEF EntryRecord
      <3> QED BY <3>2, <3>3
    <2> QED BY <2>3, <2>4
  <1>2. ASSUME NEW r \in Reader PROVE reader'[r] \in ReaderRecord /\ ReaderFresh(reader'[r])
    <2>1. reader'[r] = IF reader[r].at = "idle" THEN Nobody
                       ELSE [reader[r] EXCEPT !.age = Older(@), !.spent = @ + 1]
      BY DEF CacheTick
    <2>2. CASE reader[r].at = "idle"
      BY <2>1, <2>2, NobodyReads
    <2>3. CASE reader[r].at # "idle"
      <3> DEFINE q == [reader[r] EXCEPT !.age = Older(@), !.spent = @ + 1]
      <3>1. reader[r].spent < Patience
        BY <2>3 DEF CacheTick
      <3>2. Older(reader[r].age) \in Nat /\ Older(reader[r].age) <= reader[r].age + 1
            /\ reader[r].spent + 1 \in 0..Patience
        BY <3>1, AgesByOne, ReaderKnown, CacheNumbers
      <3>3. /\ q \in ReaderRecord /\ q.at = reader[r].at /\ q.surface = reader[r].surface
            /\ q.age = Older(reader[r].age) /\ q.spent = reader[r].spent + 1
        BY <3>2, ReaderKnown DEF ReaderRecord
      <3>4. ReaderFresh(q)
        BY <3>2, <3>3, ReaderKnown, CacheNumbers DEF ReaderFresh
      <3> QED BY <2>1, <2>3, <3>3, <3>4
    <2> QED BY <2>2, <2>3
  <1>3. cache' \in [CacheKey -> EntryRecord] /\ reader' \in [Reader -> ReaderRecord]
    BY <1>1, <1>2 DEF CacheTick
  <1>4. cacheFaults' \in Nat
    BY FaultsKept DEF CacheTick
  <1> QED BY <1>1, <1>2, <1>3, <1>4 DEF CacheInv, CacheTypeOK

\* A step that leaves the entries, and takes a request where it may go.
LEMMA OnlyReads ==
    ASSUME CacheInv, UNCHANGED cache, UNCHANGED cacheFaults \/ CacheFault,
           reader' \in [Reader -> ReaderRecord], \A x \in Reader : ReaderFresh(reader'[x])
    PROVE  CacheInv'
    BY CacheKept, FaultsKept DEF CacheInv, CacheTypeOK

LEMMA ReadsAndSets ==
    ASSUME CacheInv, NEW k \in CacheKey, NEW age \in Nat, age <= StoredAge(k) \/ k = "embedding", SetEntry(k, age),
           reader' \in [Reader -> ReaderRecord], \A x \in Reader : ReaderFresh(reader'[x])
    PROVE  CacheInv'
    BY EntrySet DEF CacheInv, CacheTypeOK

\* No request has read, and no entry holds, data older than the time it
\* may have: the ages of the entries and of the requests fit together.
THEOREM CacheInvariant == CacheSpec => []CacheInv
  <1>1. CacheInit => CacheInv
    <2> SUFFICES ASSUME CacheInit PROVE CacheInv
      OBVIOUS
    <2>1. CacheTypeOK
      BY NobodyReads DEF CacheInit, CacheTypeOK
    <2>2. \A k \in CacheKey : EntryFresh(k)
      BY DEF CacheInit, EntryFresh, NoEntry
    <2> QED BY <2>1, <2>2, NobodyReads DEF CacheInit, CacheInv
  <1>2. CacheInv /\ [CacheNext]_cacheVars => CacheInv'
    <2> SUFFICES ASSUME CacheInv, [CacheNext]_cacheVars PROVE CacheInv'
      OBVIOUS
    <2>1. CASE CacheTick
      BY <2>1, CacheTicks
    <2>2. ASSUME NEW r \in Reader, NEW s \in Surface, Asks(r, s) PROVE CacheInv'
      <3> DEFINE q == [at |-> IF s = "targets" THEN "counts" ELSE "cached", surface |-> s, age |-> 0, spent |-> 0]
      <3>1. q \in ReaderRecord /\ ReaderFresh(q)
        BY CacheNumbers DEF ReaderRecord, ReaderFresh, SearchStates, ViewStates
      <3>2. reader' = [reader EXCEPT ![r] = q]
        BY <2>2 DEF Asks
      <3> HIDE DEF q
      <3>3. reader' \in [Reader -> ReaderRecord] /\ \A x \in Reader : ReaderFresh(reader'[x])
        BY <3>1, <3>2, OneReader
      <3> QED BY <2>2, <3>3, OnlyReads DEF Asks
    <2>3. ASSUME NEW r \in Reader, SearchCached(r) PROVE CacheInv'
      <3>1. CASE Answers(r)
        BY <2>3, <3>1, ReaderAnswers, OnlyReads DEF SearchCached, GetEntry
      <3>2. CASE GoesTo(r, "embedding", 0)
        <4>1. reader' \in [Reader -> ReaderRecord] /\ \A x \in Reader : ReaderFresh(reader'[x])
          BY <2>3, <3>2, ReaderGoesTo DEF SearchCached, SearchStates, ViewStates
        <4> QED BY <2>3, <4>1, OnlyReads DEF SearchCached, GetEntry
      <3> QED BY <2>3, <3>1, <3>2 DEF SearchCached, GetEntry
    <2>4. ASSUME NEW r \in Reader, SearchEmbedding(r) PROVE CacheInv'
      <3>1. reader[r].surface = "search"
        BY <2>4, ReaderKnown DEF SearchEmbedding, ReaderFresh, SearchStates
      <3>2. \E at \in {"retrieve", "embed"} : GoesTo(r, at, 0)
        BY <2>4 DEF SearchEmbedding, GetEntry
      <3>3. reader' \in [Reader -> ReaderRecord] /\ \A x \in Reader : ReaderFresh(reader'[x])
        BY <3>1, <3>2, ReaderGoesTo DEF SearchStates, ViewStates
      <3> QED BY <2>4, <3>3, OnlyReads DEF SearchEmbedding, GetEntry
    <2>5. ASSUME NEW r \in Reader, SearchEmbeds(r) PROVE CacheInv'
      <3>1. reader[r].surface = "search"
        BY <2>5, ReaderKnown DEF SearchEmbeds, ReaderFresh, SearchStates
      <3>2. CASE GoesTo(r, "retrieve", 0) /\ SetEntry("embedding", 0)
        <4>1. reader' \in [Reader -> ReaderRecord] /\ \A x \in Reader : ReaderFresh(reader'[x])
          BY <3>1, <3>2, ReaderGoesTo DEF SearchStates, ViewStates
        <4>2. "embedding" \in CacheKey
          BY DEF CacheKey
        <4> QED BY <3>2, <4>1, <4>2, ReadsAndSets
      <3>3. CASE Answers(r) /\ UNCHANGED <<cache, cacheFaults>>
        BY <3>3, ReaderAnswers, OnlyReads
      <3> QED BY <2>5, <3>2, <3>3 DEF SearchEmbeds
    <2>6. ASSUME NEW r \in Reader, SearchRetrieves(r) PROVE CacheInv'
      <3>1. reader[r].surface = "search" /\ 0 <= reader[r].spent
        BY <2>6, ReaderKnown DEF SearchRetrieves, ReaderFresh, SearchStates
      <3>2. GoesTo(r, "titles", 0)
        BY <2>6 DEF SearchRetrieves
      <3>3. reader' \in [Reader -> ReaderRecord] /\ \A x \in Reader : ReaderFresh(reader'[x])
        BY <3>1, <3>2, ReaderGoesTo DEF SearchStates, ViewStates
      <3> QED BY <2>6, <3>3, OnlyReads DEF SearchRetrieves
    <2>7. ASSUME NEW r \in Reader, SearchAnswers(r) PROVE CacheInv'
      <3>1. reader[r].age \in Nat /\ reader[r].age <= StoredAge("response") /\ "response" \in CacheKey
        BY <2>7, ReaderKnown, CacheNumbers DEF SearchAnswers, ReaderFresh, StoredAge, CacheKey
      <3> QED BY <2>7, <3>1, ReaderAnswers, ReadsAndSets DEF SearchAnswers
    <2>8. ASSUME NEW r \in Reader, ViewCached(r) PROVE CacheInv'
      <3>1. CASE Answers(r)
        BY <2>8, <3>1, ReaderAnswers, OnlyReads DEF ViewCached, GetEntry
      <3>2. CASE GoesTo(r, "counts", 0)
        <4>1. reader' \in [Reader -> ReaderRecord] /\ \A x \in Reader : ReaderFresh(reader'[x])
          BY <2>8, <3>2, ReaderGoesTo DEF ViewCached, SearchStates, ViewStates
        <4> QED BY <2>8, <4>1, OnlyReads DEF ViewCached, GetEntry
      <3> QED BY <2>8, <3>1, <3>2 DEF ViewCached, GetEntry
    <2>9. ASSUME NEW r \in Reader, CountsCached(r) PROVE CacheInv'
      <3>1. reader[r].surface \in BranchSurface \cup {"targets"}
        BY <2>9, ReaderKnown DEF CountsCached, ReaderFresh, ViewStates
      <3>2. CASE GoesTo(r, "lock", 0)
        <4>1. reader' \in [Reader -> ReaderRecord] /\ \A x \in Reader : ReaderFresh(reader'[x])
          BY <3>1, <3>2, ReaderGoesTo DEF SearchStates, ViewStates
        <4> QED BY <2>9, <4>1, OnlyReads DEF CountsCached, GetEntry
      <3>3. CASE Hit("counts") /\ GoesTo(r, "answer", cache["counts"].age)
        <4>1. "counts" \in CacheKey /\ StoredAge("counts") = Patience /\ TtlOf("counts") = ViewTtl
          BY DEF CacheKey, StoredAge, TtlOf
        <4>2. cache["counts"] \in EntryRecord /\ EntryFresh("counts")
          BY <4>1 DEF CacheInv, CacheTypeOK
        <4>3. cache["counts"].age \in Nat /\ cache["counts"].age <= ViewTtl + Patience + reader[r].spent
          BY <3>3, <4>1, <4>2, ReaderKnown, CacheNumbers DEF EntryFresh, EntryRecord, Hit
        <4>4. reader' \in [Reader -> ReaderRecord] /\ \A x \in Reader : ReaderFresh(reader'[x])
          BY <3>1, <3>3, <4>3, ReaderGoesTo DEF SearchStates, ViewStates
        <4> QED BY <2>9, <4>4, OnlyReads DEF CountsCached, GetEntry
      <3> QED BY <2>9, <3>2, <3>3 DEF CountsCached, GetEntry
    <2>10. ASSUME NEW r \in Reader, CountsLock(r) \/ CountsRead(r) PROVE CacheInv'
      <3>1. reader[r].surface \in BranchSurface \cup {"targets"} /\ 0 <= reader[r].spent
        BY <2>10, ReaderKnown DEF CountsLock, CountsRead, ReaderFresh, ViewStates
      <3>2. \E at \in {"count", "setCounts"} : GoesTo(r, at, 0)
        BY <2>10 DEF CountsLock, CountsRead
      <3>3. reader' \in [Reader -> ReaderRecord] /\ \A x \in Reader : ReaderFresh(reader'[x])
        BY <3>1, <3>2, ReaderGoesTo DEF SearchStates, ViewStates
      <3> QED BY <2>10, <3>3, OnlyReads DEF CountsLock, CountsRead
    <2>11. ASSUME NEW r \in Reader, CountsSet(r) PROVE CacheInv'
      <3>1. /\ reader[r].surface \in BranchSurface \cup {"targets"}
            /\ reader[r].age \in Nat /\ reader[r].age <= reader[r].spent
        BY <2>11, ReaderKnown DEF CountsSet, ReaderFresh, ViewStates
      <3>2. reader[r].age <= ViewTtl + Patience + reader[r].spent /\ reader[r].age <= StoredAge("counts")
            /\ "counts" \in CacheKey
        BY <3>1, ReaderKnown, CacheNumbers DEF StoredAge, CacheKey
      <3>3. reader' \in [Reader -> ReaderRecord] /\ \A x \in Reader : ReaderFresh(reader'[x])
        BY <2>11, <3>1, <3>2, ReaderGoesTo DEF CountsSet, SearchStates, ViewStates
      <3> QED BY <2>11, <3>1, <3>2, <3>3, ReadsAndSets DEF CountsSet
    <2>12. ASSUME NEW r \in Reader, ViewAnswers(r) PROVE CacheInv'
      <3>1. CASE reader[r].surface = "targets"
        BY <2>12, <3>1, ReaderAnswers, OnlyReads DEF ViewAnswers
      <3>2. CASE reader[r].surface # "targets"
        <4>1. reader[r].surface \in BranchSurface /\ reader[r].age <= ViewTtl + Patience + reader[r].spent
          BY <2>12, <3>2, ReaderKnown DEF ViewAnswers, ReaderFresh, ViewStates
        <4>2. /\ reader[r].surface \in CacheKey /\ reader[r].age \in Nat
              /\ StoredAge(reader[r].surface) = ViewTtl + 2 * Patience
          BY <4>1, CacheConstants, ReaderKnown DEF CacheKey, StoredAge
        <4>3. reader[r].age <= StoredAge(reader[r].surface)
          BY <4>1, <4>2, ReaderKnown, CacheNumbers
        <4>4. SetEntry(reader[r].surface, reader[r].age) /\ Answers(r)
          BY <2>12, <3>2 DEF ViewAnswers
        <4> QED BY <4>2, <4>3, <4>4, ReaderAnswers, ReadsAndSets
      <3> QED BY <3>1, <3>2
    <2>13. CASE UNCHANGED cacheVars
      BY <2>13 DEF cacheVars, CacheInv, CacheTypeOK, EntryFresh
    <2> QED BY <2>1, <2>2, <2>3, <2>4, <2>5, <2>6, <2>7, <2>8, <2>9, <2>10, <2>11, <2>12, <2>13 DEF CacheNext
  <1> QED BY <1>1, <1>2, PTL DEF CacheSpec

\* Whatever overlaps, expires or fails, and whatever the TTLs are: no answer
\* is older than the windows of the entries it came through and the time of
\* the requests that filled them.
THEOREM AnswersAreAlwaysRecent == CacheSpec => []AnswersAreRecent
  <1>1. CacheInv => AnswersAreRecent
    <2> SUFFICES ASSUME CacheInv PROVE AnswersAreRecent
      OBVIOUS
    <2>0. {"search", "targets", "response", "counts", "embedding"} \cap BranchSurface = {}
      BY CacheConstants
    <2>1. ASSUME NEW r \in Reader, reader[r].at \in {"titles", "answer"}
          PROVE  reader[r].age <= Limit(reader[r].surface)
      <3>1. CASE reader[r].at = "titles"
        <4>1. reader[r].surface = "search" /\ reader[r].age <= reader[r].spent
          BY <3>1, ReaderKnown DEF ReaderFresh, SearchStates
        <4>2. Limit("search") = SearchTtl + 1 * Patience
          BY DEF Limit, Window
        <4> QED BY <4>1, <4>2, ReaderKnown, CacheNumbers
      <3>2. CASE reader[r].at = "answer"
        <4>1. /\ reader[r].surface \in BranchSurface \cup {"targets"}
              /\ reader[r].age <= ViewTtl + Patience + reader[r].spent
          BY <3>2, ReaderKnown DEF ReaderFresh, ViewStates
        <4>2. Limit(reader[r].surface) \in {ViewTtl + 2 * Patience, 2 * ViewTtl + 2 * Patience}
          BY <2>0, <4>1 DEF Limit, Window
        <4> QED BY <4>1, <4>2, ReaderKnown, CacheNumbers
      <3> QED BY <2>1, <3>1, <3>2
    <2>2. ASSUME NEW s \in BranchSurface, Hit(s) PROVE cache[s].age <= Limit(s)
      <3>1. /\ s \in CacheKey /\ StoredAge(s) = ViewTtl + 2 * Patience /\ TtlOf(s) = ViewTtl
            /\ Limit(s) = 2 * ViewTtl + 2 * Patience /\ s # "embedding"
        BY <2>0 DEF CacheKey, StoredAge, TtlOf, Limit, Window
      <3>2. EntryFresh(s) /\ cache[s].age \in Nat /\ cache[s].left \in Nat
        BY <3>1 DEF CacheInv, CacheTypeOK, EntryRecord
      <3> QED BY <2>2, <3>1, <3>2, CacheNumbers DEF EntryFresh, Hit
    <2>3. ASSUME Hit("response") PROVE cache["response"].age <= Limit("search")
      <3>1. /\ "response" \in CacheKey /\ StoredAge("response") = Patience /\ TtlOf("response") = SearchTtl
            /\ Limit("search") = SearchTtl + 1 * Patience
        BY DEF CacheKey, StoredAge, TtlOf, Limit, Window
      <3>2. EntryFresh("response") /\ cache["response"].age \in Nat /\ cache["response"].left \in Nat
        BY <3>1 DEF CacheInv, CacheTypeOK, EntryRecord
      <3> QED BY <2>3, <3>1, <3>2, CacheNumbers DEF EntryFresh, Hit
    <2> QED BY <2>1, <2>2, <2>3 DEF AnswersAreRecent
  <1> QED BY <1>1, CacheInvariant, PTL

-----------------------------------------------------------------------------
(* TaxonomyTree *)

\* The parent of a row comes before it, siblings differ in their slugs.
WellGrown(t) ==
    /\ t \in Seq(Row) /\ Len(t) <= MaxTreeNodes
    /\ t # <<>> => t[1].parent = 0 /\ t[1].depth = 0
    /\ \A i \in 2..Len(t) : t[i].parent \in 1..(i - 1) /\ t[i].depth = t[t[i].parent].depth + 1
    /\ \A i, j \in 1..Len(t) :
           i # j /\ t[i].parent = t[j].parent => SlugOf[t[i].name] # SlugOf[t[j].name]
    /\ \A i \in 1..Len(t) : t[i].depth < i

TreeInv ==
    /\ WellGrown(tree)
    /\ home \in [AssignedCard -> 0..Len(tree)]

LEMMA TreeFacts ==
    ASSUME WellGrown(tree)
    PROVE  /\ Ids = 1..Len(tree) /\ Len(tree) \in Nat
           /\ \A i \in Ids : /\ tree[i] \in Row /\ tree[i].parent \in Nat /\ tree[i].depth \in Nat
                             /\ tree[i].parent < i
                             /\ tree[i].parent = 0 <=> i = 1
                             /\ i # 1 => tree[i].parent \in Ids
                                         /\ tree[i].depth = tree[tree[i].parent].depth + 1
           /\ tree # <<>> => 1 \in Ids /\ RootId = 1
  <1>1. tree \in Seq(Row) /\ MaxTreeNodes \in Nat
    BY TreeConstants DEF WellGrown
  <1>2. Ids = 1..Len(tree) /\ Len(tree) \in Nat /\ \A i \in Ids : tree[i] \in Row
    BY <1>1 DEF Ids
  <1>3. ASSUME NEW i \in Ids
        PROVE  /\ tree[i].parent \in Nat /\ tree[i].depth \in Nat
               /\ tree[i].parent < i
               /\ tree[i].parent = 0 <=> i = 1
               /\ i # 1 => tree[i].parent \in Ids
                           /\ tree[i].depth = tree[tree[i].parent].depth + 1
    <2>1. tree[i].parent \in Nat /\ tree[i].depth \in Nat
      <3>1. tree[i] \in Row /\ 0..MaxTreeNodes \subseteq Nat
        BY <1>1, <1>2
      <3> QED BY <3>1 DEF Row
    <2>2. CASE i = 1
      <3>1. tree # <<>>
        BY <1>2
      <3> QED BY <2>1, <2>2, <3>1 DEF WellGrown
    <2>3. CASE i # 1
      <3>1. i \in 2..Len(tree)
        BY <1>2, <2>3
      <3>2. tree[i].parent \in 1..(i - 1) /\ tree[i].depth = tree[tree[i].parent].depth + 1
        BY <3>1 DEF WellGrown
      <3> QED BY <3>1, <3>2, <1>2, <2>1, <2>3
    <2> QED BY <2>2, <2>3
  <1>4. ASSUME tree # <<>> PROVE 1 \in Ids /\ RootId = 1
    <2>1. 1 \in Ids
      BY <1>1, <1>2, <1>4
    <2>2. \A i \in Ids : tree[i].parent = 0 <=> i = 1
      BY <1>3
    <2> QED BY <2>1, <2>2 DEF RootId
  <1> QED BY <1>2, <1>3, <1>4

\* Induction down the tree: what holds of the root, and of each node whose
\* parent it holds of, holds of all nodes.
LEMMA DownTheTree ==
    ASSUME WellGrown(tree), NEW T, tree # <<>> => 1 \in T,
           \A n \in Ids : n # 1 /\ tree[n].parent \in T => n \in T
    PROVE  \A n \in Ids : n \in T
  <1> DEFINE Bad == {n \in Ids : n \notin T}
  <1> SUFFICES ASSUME Bad # {} PROVE FALSE
    OBVIOUS
  <1>1. PICK n \in Bad : \A j \in Bad : n <= j
    <2>1. Bad \in SUBSET Nat
      BY TreeFacts
    <2> HIDE DEF Bad
    <2> QED BY <2>1, LeastNat
  <1>2. n \in Ids /\ n \notin T /\ tree # <<>>
    BY <1>1, TreeFacts
  <1>3. n # 1
    BY <1>2
  <1>4. tree[n].parent \in Ids /\ tree[n].parent < n /\ n \in Nat /\ tree[n].parent \in Nat
    BY <1>2, <1>3, TreeFacts
  <1>5. tree[n].parent \notin Bad
    BY <1>1, <1>4
  <1> QED BY <1>2, <1>3, <1>4, <1>5

LEMMA Grown ==
    ASSUME NEW t, WellGrown(t), NEW parent \in Nat, NEW name \in Name \cup {RootName},
           NEW depth \in Nat,
           MayInsert(t, parent, name),
           IF t = <<>> THEN parent = 0 /\ depth = 0
                       ELSE parent \in 1..Len(t) /\ depth = t[parent].depth + 1
    PROVE  /\ WellGrown(WithNode(t, parent, name, depth))
           /\ Len(WithNode(t, parent, name, depth)) = Len(t) + 1
  <1> DEFINE row == [parent |-> parent, name |-> name, depth |-> depth]
             u == WithNode(t, parent, name, depth)
             n == Len(t)
  <1>1. t \in Seq(Row) /\ MaxTreeNodes \in Nat /\ n \in Nat /\ n < MaxTreeNodes
    BY TreeConstants DEF WellGrown, MayInsert
  <1>2. \A i \in 1..n : t[i].depth \in Nat /\ t[i].depth < i
    <2>1. \A i \in 1..n : t[i] \in Row
      BY <1>1
    <2> QED BY <2>1, <1>1 DEF WellGrown, Row
  <1>3. depth <= n /\ parent <= n /\ depth < n + 1
    <2>1. CASE t = <<>>
      BY <2>1
    <2>2. CASE t # <<>>
      <3>1. parent \in 1..n /\ t[parent].depth \in Nat /\ t[parent].depth < parent
        BY <1>2, <2>2
      <3> QED BY <3>1, <2>2, <1>1
    <2> QED BY <2>1, <2>2
  <1>4. row \in Row
    BY <1>1, <1>3 DEF Row
  <1>5. /\ u \in Seq(Row) /\ Len(u) = n + 1 /\ u[n + 1] = row
        /\ \A i \in 1..n : u[i] = t[i]
    BY <1>1, <1>4 DEF WithNode
  <1>6. row.parent = parent /\ row.name = name /\ row.depth = depth
    OBVIOUS
  <1> HIDE DEF row, u, n
  <1>7. u # <<>> /\ u[1].parent = 0 /\ u[1].depth = 0
    <2>1. CASE t = <<>>
      BY <2>1, <1>5, <1>6, <1>1 DEF n
    <2>2. CASE t # <<>>
      <3>1. 1 \in 1..n
        BY <2>2, <1>1 DEF n
      <3> QED BY <3>1, <2>2, <1>5, <1>1 DEF WellGrown
    <2> QED BY <2>1, <2>2
  <1>8. ASSUME NEW i \in 2..(n + 1)
        PROVE  u[i].parent \in 1..(i - 1) /\ u[i].depth = u[u[i].parent].depth + 1
    <2>1. CASE i = n + 1
      <3>1. n # 0 /\ t # <<>>
        BY <2>1, <1>1 DEF n
      <3>2. parent \in 1..n /\ depth = t[parent].depth + 1
        BY <3>1 DEF n
      <3>3. i - 1 = n
        BY <2>1, <1>1
      <3> QED BY <2>1, <3>2, <3>3, <1>5, <1>6
    <2>2. CASE i # n + 1
      <3>1. i \in 2..n /\ i \in 1..n
        BY <2>2, <1>1
      <3>2. t[i].parent \in 1..(i - 1) /\ t[i].depth = t[t[i].parent].depth + 1
        BY <3>1 DEF WellGrown, n
      <3>3. t[i].parent \in 1..n
        BY <3>1, <3>2, <1>1
      <3> QED BY <3>1, <3>2, <3>3, <1>5
    <2> QED BY <2>1, <2>2
  <1>9. ASSUME NEW i \in 1..(n + 1), NEW j \in 1..(n + 1), i # j, u[i].parent = u[j].parent
        PROVE  SlugOf[u[i].name] # SlugOf[u[j].name]
    <2>1. \A k \in 1..n : t[k].parent = parent => SlugOf[t[k].name] # SlugOf[name]
      <3>1. DOMAIN t = 1..n
        BY <1>1 DEF n
      <3> QED BY <3>1 DEF MayInsert
    <2>2. CASE i \in 1..n /\ j \in 1..n
      <3>1. t[i].parent = t[j].parent /\ u[i] = t[i] /\ u[j] = t[j]
        BY <2>2, <1>5, <1>9
      <3>2. i \in 1..Len(t) /\ j \in 1..Len(t)
        BY <2>2 DEF n
      <3> QED BY <3>1, <3>2, <1>9 DEF WellGrown
    <2>3. CASE i = n + 1 /\ j \in 1..n
      BY <2>1, <2>3, <1>5, <1>6, <1>9
    <2>4. CASE j = n + 1 /\ i \in 1..n
      BY <2>1, <2>4, <1>5, <1>6, <1>9
    <2>5. (i \in 1..n \/ i = n + 1) /\ (j \in 1..n \/ j = n + 1)
      BY <1>1
    <2> QED BY <2>2, <2>3, <2>4, <2>5, <1>9
  <1>10. ASSUME NEW i \in 1..(n + 1) PROVE u[i].depth < i
    <2>1. CASE i = n + 1
      BY <2>1, <1>3, <1>5, <1>6
    <2>2. CASE i \in 1..n
      BY <2>2, <1>2, <1>5
    <2>3. i \in 1..n \/ i = n + 1
      BY <1>1
    <2> QED BY <2>1, <2>2, <2>3
  <1>11. n + 1 <= MaxTreeNodes
    BY <1>1
  <1>12. WellGrown(u)
    BY <1>5, <1>7, <1>8, <1>9, <1>10, <1>11 DEF WellGrown
  <1> QED BY <1>5, <1>12 DEF u, n

LEMMA RootEnsured ==
    ASSUME WellGrown(tree)
    PROVE  /\ WellGrown(EnsuredRoot) /\ EnsuredRoot # <<>>
           /\ Len(tree) <= Len(EnsuredRoot) /\ Len(EnsuredRoot) \in Nat /\ 1 <= Len(EnsuredRoot)
           /\ tree = <<>> => Len(EnsuredRoot) = 1 /\ EnsuredRoot[1].depth = 0
  <1>1. tree \in Seq(Row) /\ MaxTreeNodes \in Nat \ {0}
    BY TreeConstants DEF WellGrown
  <1>2. CASE tree = <<>>
    <2>1. MayInsert(tree, 0, RootName)
      BY <1>1, <1>2 DEF MayInsert
    <2>2. EnsuredRoot = WithNode(tree, 0, RootName, 0)
      BY <1>2 DEF EnsuredRoot
    <2>3. WellGrown(EnsuredRoot) /\ Len(EnsuredRoot) = Len(tree) + 1
      BY <1>2, <2>1, <2>2, Grown
    <2>4. Len(tree) = 0
      BY <1>2
    <2>5. EnsuredRoot # <<>>
      BY <2>3, <2>4
    <2>6. EnsuredRoot[1].depth = 0
      BY <2>3, <2>5 DEF WellGrown
    <2> QED BY <2>3, <2>4, <2>5, <2>6
  <1>3. CASE tree # <<>>
    <2>1. EnsuredRoot = tree /\ Len(tree) \in Nat /\ Len(tree) # 0
      BY <1>1, <1>3 DEF EnsuredRoot
    <2> QED BY <1>3, <2>1
  <1> QED BY <1>2, <1>3

LEMMA CreateRegularChildStep ==
    ASSUME TreeInv, NEW n \in Ids, NEW name \in Name, CreateRegularChild(n, name)
    PROVE  TreeInv'
  <1>1. WellGrown(tree) /\ home \in [AssignedCard -> 0..Len(tree)]
    BY DEF TreeInv
  <1>2. n \in 1..Len(tree) /\ tree[n].depth \in Nat /\ n \in Nat /\ Len(tree) \in Nat /\ tree # <<>>
    BY <1>1, TreeFacts
  <1>3. WellGrown(tree') /\ Len(tree') = Len(tree) + 1
    BY <1>1, <1>2, Grown DEF CreateRegularChild
  <1>4. home' \in [AssignedCard -> 0..Len(tree')]
    <2>1. 0..Len(tree) \subseteq 0..Len(tree')
      BY <1>2, <1>3
    <2> QED BY <1>1, <2>1 DEF CreateRegularChild
  <1> QED BY <1>3, <1>4 DEF TreeInv

\* The rows of a document, each after its parent.
LEMMA ImportStep ==
    ASSUME TreeInv, NEW doc \in Documents, Import(doc) PROVE TreeInv'
  <1>1. WellGrown(tree) /\ tree = <<>> /\ home \in [AssignedCard -> 0..Len(tree)] /\ home' = home
    BY DEF TreeInv, Import
  <1>2. MaxTreeNodes \in Nat \ {0}
    BY TreeConstants
  <1>3. PICK n \in 1..(MaxTreeNodes - 1) :
            doc \in {d \in [1..n -> [parent : 0..n, name : Name]] : \A i \in 1..n : d[i].parent < i}
    BY DEF Documents
  <1>4. /\ n \in Nat /\ n < MaxTreeNodes /\ doc \in Seq([parent : 0..n, name : Name]) /\ Len(doc) = n
        /\ \A i \in 1..n : /\ doc[i].parent \in 0..n /\ doc[i].parent < i
                           /\ doc[i].name \in Name
    <2>1. n \in Nat /\ n < MaxTreeNodes
      BY <1>2
    <2>2. doc \in [1..n -> [parent : 0..n, name : Name]] /\ \A i \in 1..n : doc[i].parent < i
      BY <1>3
    <2> DEFINE D == [parent : 0..n, name : Name]
    <2>3. \A i \in 1..n : doc[i] \in D
      BY <2>2
    <2>4. \A x \in D : x.parent \in 0..n /\ x.name \in Name
      OBVIOUS
    <2> HIDE DEF D
    <2>5. doc \in Seq(D) /\ Len(doc) = n
      <3>1. doc \in [1..n -> D]
        BY <2>2 DEF D
      <3>2. doc \in Seq(D)
        BY <3>1, <2>1, SeqDef
      <3> QED BY <3>1, <3>2, <2>1, LenProperties
    <2>6. doc \in Seq([parent : 0..n, name : Name])
      BY <2>5 DEF D
    <2> QED BY <2>1, <2>2, <2>3, <2>4, <2>5, <2>6
  <1> DEFINE Depth(d, i) == IF i = 0 THEN 0 ELSE d[doc[i].parent] + 1
             depth == CHOOSE d : d = [i \in 0..Len(doc) |-> Depth(d, i)]
             Add(t, i) == IF MayInsert(t, doc[i].parent + 1, doc[i].name)
                          THEN WithNode(t, doc[i].parent + 1, doc[i].name, depth[i])
                          ELSE t
             Grow(g, i) == IF i = 0 THEN EnsuredRoot ELSE Add(g[i - 1], i)
             grown == CHOOSE g : g = [i \in 0..Len(doc) |-> Grow(g, i)]
  <1>5. tree' = grown[n] /\ Len(tree') = n + 1
    BY <1>4 DEF Import
  <1>6. /\ depth[0] = 0
        /\ \A i \in 1..n : depth[i] = depth[doc[i].parent] + 1
        /\ \A i \in 0..n : depth[i] \in Nat
    <2> DEFINE p == [i \in 1..n |-> doc[i].parent]
               F == [x \in Nat \X (1..n) |-> x[1] + 1]
    <2>1. p \in [1..n -> Nat] /\ (\A i \in 1..n : p[i] < i) /\ F \in [Nat \X (1..n) -> Nat]
      BY <1>4
    <2>2. PICK g \in [0..n -> Nat] : g[0] = 0 /\ \A i \in 1..n : g[i] = F[<<g[p[i]], i>>]
      <3> HIDE DEF p, F
      <3>1. n \in Nat /\ 0 \in Nat
        BY <1>4
      <3>2. \E g : ByParent(g, n, p, Nat, 0, F)
        BY <3>1, <2>1, RecursionByParent
      <3> QED BY <3>2 DEF ByParent
    <2>3. ASSUME NEW i \in 1..n PROVE g[i] = g[doc[i].parent] + 1
      <3>1. p[i] = doc[i].parent /\ p[i] \in 0..n
        BY <1>4
      <3>2. g[p[i]] \in Nat
        BY <3>1, <2>2
      <3> QED BY <2>2, <3>1, <3>2
    <2> HIDE DEF p, F
    <2>4. g = [i \in 0..Len(doc) |-> Depth(g, i)]
      <3>1. \A i \in 0..n : i = 0 \/ i \in 1..n
        BY <1>4
      <3> QED BY <1>4, <2>2, <2>3, <3>1
    <2>5. depth = [i \in 0..Len(doc) |-> Depth(depth, i)]
      BY <2>4
    <2> HIDE DEF depth
    <2>6. 0 \in 0..n /\ \A i \in 1..n : i \in 0..n /\ i # 0
      BY <1>4
    <2>7. depth[0] = 0 /\ \A i \in 1..n : depth[i] = depth[doc[i].parent] + 1
      BY <1>4, <2>5, <2>6
    <2> DEFINE T == {k \in 0..n : \A i \in 0..k : depth[i] \in Nat}
    <2>8. \A k \in 0..n : k \in T
      <3>1. 0 \in T
        BY <2>6, <2>7
      <3>2. ASSUME NEW k \in 1..n, k - 1 \in T PROVE k \in T
        <4>1. \A i \in 0..(k - 1) : depth[i] \in Nat
          BY <3>2
        <4>2. doc[k].parent \in 0..(k - 1) /\ k \in 0..n
          BY <1>4, <3>2
        <4>3. depth[k] \in Nat
          BY <2>7, <4>1, <4>2
        <4>4. \A i \in 0..k : i = k \/ i \in 0..(k - 1)
          BY <3>2
        <4> QED BY <4>1, <4>2, <4>3, <4>4
      <3> HIDE DEF T
      <3> QED BY <1>4, <3>1, <3>2, NumbersFromZero
    <2>9. \A i \in 0..n : depth[i] \in Nat
      BY <2>8
    <2> QED BY <2>7, <2>9
  <1> HIDE DEF depth
  <1>7. /\ grown[0] = EnsuredRoot
        /\ \A i \in 1..n : grown[i] = Add(grown[i - 1], i)
    <2> DEFINE R == [parent : Nat, name : Name \cup {RootName}, depth : Nat]
               p == [i \in 1..n |-> i - 1]
               F == [x \in Seq(R) \X (1..n) |-> Add(x[1], x[2])]
    <2>1. EnsuredRoot \in Seq(R)
      <3>1. EnsuredRoot \in Seq(Row)
        BY <1>1, RootEnsured DEF WellGrown
      <3>2. Row \subseteq R
        BY <1>2 DEF Row
      <3> HIDE DEF R
      <3> QED BY <3>1, <3>2
    <2>2. ASSUME NEW t \in Seq(R), NEW i \in 1..n PROVE Add(t, i) \in Seq(R)
      <3>1. [parent |-> doc[i].parent + 1, name |-> doc[i].name, depth |-> depth[i]] \in R
        BY <1>4, <1>6
      <3> HIDE DEF R
      <3> QED BY <3>1 DEF WithNode
    <2>3. p \in [1..n -> Nat] /\ (\A i \in 1..n : p[i] < i) /\ F \in [Seq(R) \X (1..n) -> Seq(R)]
      <3> HIDE DEF Add, R
      <3> QED BY <2>2, <1>4
    <2>4. PICK g \in [0..n -> Seq(R)] : g[0] = EnsuredRoot /\ \A i \in 1..n : g[i] = F[<<g[p[i]], i>>]
      <3> HIDE DEF p, F, R
      <3>1. n \in Nat
        BY <1>4
      <3>2. \E g : ByParent(g, n, p, Seq(R), EnsuredRoot, F)
        BY <3>1, <2>1, <2>3, RecursionByParent
      <3> QED BY <3>2 DEF ByParent
    <2>5. ASSUME NEW i \in 1..n PROVE g[i] = Add(g[i - 1], i)
      <3>1. p[i] = i - 1 /\ i - 1 \in 0..n
        BY <1>4
      <3>2. g[i - 1] \in Seq(R)
        BY <3>1, <2>4
      <3> HIDE DEF Add, R
      <3> QED BY <2>4, <3>1, <3>2
    <2> HIDE DEF p, F, Add, R
    <2>6. g = [i \in 0..Len(doc) |-> Grow(g, i)]
      <3>1. \A i \in 0..n : i = 0 \/ i \in 1..n
        BY <1>4
      <3> QED BY <1>4, <2>4, <2>5, <3>1
    <2>7. grown = [i \in 0..Len(doc) |-> Grow(grown, i)]
      BY <2>6
    <2> HIDE DEF grown
    <2>8. 0 \in 0..n /\ \A i \in 1..n : i \in 0..n /\ i # 0
      BY <1>4
    <2> QED BY <1>4, <2>7, <2>8
  <1> HIDE DEF grown
  <1> DEFINE Full(k) == /\ WellGrown(grown[k])
                        /\ \A j \in 0..k : grown[k][j + 1].depth = depth[j]
             T == {k \in 0..n : /\ Len(grown[k]) \in Nat /\ Len(grown[k]) <= k + 1
                                /\ Len(grown[k]) = k + 1 => Full(k)}
  <1>8. 0 \in T
    <2>1. /\ WellGrown(EnsuredRoot) /\ Len(EnsuredRoot) = 1 /\ EnsuredRoot[1].depth = 0
      BY <1>1, RootEnsured
    <2>2. \A j \in 0..0 : grown[0][j + 1].depth = depth[j]
      BY <1>6, <1>7, <2>1
    <2>3. 0 \in 0..n /\ Len(grown[0]) = 0 + 1 /\ Len(grown[0]) \in Nat /\ Full(0)
      BY <1>4, <1>7, <2>1, <2>2
    <2> HIDE DEF Full
    <2>4. Len(grown[0]) <= 0 + 1 /\ (Len(grown[0]) = 0 + 1 => Full(0))
      BY <2>3
    <2> QED BY <2>3, <2>4
  <1>9. ASSUME NEW k \in 1..n, k - 1 \in T PROVE k \in T
    <2> DEFINE t == grown[k - 1]
               q == doc[k].parent + 1
    <2>1. /\ k \in 0..n /\ Len(t) \in Nat /\ Len(t) <= k /\ (Len(t) = k => Full(k - 1))
          /\ grown[k] = Add(t, k)
      BY <1>7, <1>9
    <2>2. q \in 1..k /\ q \in Nat /\ q - 1 = doc[k].parent /\ doc[k].parent \in 0..(k - 1)
      <3>1. doc[k].parent \in 0..n /\ doc[k].parent < k /\ k \in 1..n /\ n \in Nat
        BY <1>4, <1>9
      <3> QED BY <3>1
    <2>3. CASE ~MayInsert(t, q, doc[k].name)
      <3>1. grown[k] = t
        BY <2>1, <2>3
      <3> QED BY <2>1, <3>1
    <2>4. CASE MayInsert(t, q, doc[k].name) /\ Len(t) # k
      <3>1. grown[k] = Append(t, [parent |-> q, name |-> doc[k].name, depth |-> depth[k]])
        BY <2>1, <2>4 DEF WithNode
      <3>2. Len(grown[k]) = Len(t) + 1
        BY <3>1
      <3> QED BY <2>1, <2>4, <3>2
    <2>5. CASE MayInsert(t, q, doc[k].name) /\ Len(t) = k
      <3>1. WellGrown(t) /\ \A j \in 0..(k - 1) : t[j + 1].depth = depth[j]
        BY <2>1, <2>5
      <3>2. grown[k] = WithNode(t, q, doc[k].name, depth[k])
        BY <2>1, <2>5
      <3>3. t[q].depth = depth[doc[k].parent]
        BY <2>2, <3>1
      <3>4. depth[k] = t[q].depth + 1 /\ depth[k] \in Nat
        BY <1>6, <2>1, <3>3
      <3>5. t # <<>> /\ doc[k].name \in Name
        BY <2>5, <1>4
      <3>6. q \in 1..Len(t)
        BY <2>2, <2>5
      <3> HIDE DEF q, t
      <3>7. WellGrown(grown[k]) /\ Len(grown[k]) = k + 1
        BY <2>2, <2>5, <3>1, <3>2, <3>4, <3>5, <3>6, Grown
      <3>8. t \in Seq(Row)
        BY <3>1 DEF WellGrown
      <3>9. /\ grown[k][k + 1].depth = depth[k]
            /\ \A j \in 1..k : grown[k][j] = t[j]
        <4> DEFINE row == [parent |-> q, name |-> doc[k].name, depth |-> depth[k]]
        <4>1. grown[k] = Append(t, row) /\ row.depth = depth[k]
          BY <3>2 DEF WithNode
        <4> HIDE DEF row
        <4> QED BY <4>1, <3>8, <2>5
      <3>10. ASSUME NEW j \in 0..k PROVE grown[k][j + 1].depth = depth[j]
        <4>1. CASE j = k
          BY <4>1, <3>9
        <4>2. CASE j # k
          <5>1. j \in 0..(k - 1) /\ j + 1 \in 1..k
            BY <4>2
          <5> QED BY <5>1, <3>1, <3>9
        <4> QED BY <4>1, <4>2
      <3> QED BY <2>1, <3>7, <3>10
    <2> QED BY <2>3, <2>4, <2>5
  <1>10. n \in T
    <2> HIDE DEF T
    <2>1. \A k \in 0..n : k \in T
      BY <1>4, <1>8, <1>9, NumbersFromZero
    <2>2. n \in 0..n
      BY <1>4
    <2> QED BY <2>1, <2>2
  <1>11. WellGrown(tree')
    BY <1>5, <1>10
  <1>12. home' \in [AssignedCard -> 0..Len(tree')]
    <2>1. Len(tree) = 0 /\ 0..Len(tree) \subseteq 0..(n + 1)
      BY <1>1, <1>4
    <2> QED BY <1>1, <1>5, <2>1
  <1> QED BY <1>11, <1>12 DEF TreeInv

LEMMA TreeStep == ASSUME TreeInv, [TreeNext]_treeVars PROVE TreeInv'
  <1>1. ASSUME NEW doc \in Documents, Import(doc) PROVE TreeInv'
    BY <1>1, ImportStep
  <1>2. ASSUME NEW n \in Ids, NEW name \in Name, CreateRegularChild(n, name) PROVE TreeInv'
    BY <1>2, CreateRegularChildStep
  <1>3. /\ WellGrown(tree) /\ home \in [AssignedCard -> 0..Len(tree)]
        /\ WellGrown(EnsuredRoot) /\ Len(tree) <= Len(EnsuredRoot) /\ Len(EnsuredRoot) \in Nat
        /\ 1 <= Len(EnsuredRoot) /\ Len(tree) \in Nat
        /\ Ids = 1..Len(tree)
    BY RootEnsured, TreeFacts DEF TreeInv
  <1>4. 0..Len(tree) \subseteq 0..Len(EnsuredRoot) /\ 1 \in 0..Len(EnsuredRoot)
    BY <1>3
  <1>5. ASSUME NEW c \in AssignedCard, AssignToRoot(c) PROVE TreeInv'
    BY <1>3, <1>4, <1>5 DEF AssignToRoot, TreeInv
  <1>6. ASSUME NEW c \in AssignedCard, NEW n \in Ids, SetCurrentAssignment(c, n) PROVE TreeInv'
    <2>1. n \in 0..Len(tree)
      BY <1>3
    <2> QED BY <1>3, <1>6, <2>1 DEF SetCurrentAssignment, TreeInv
  <1>7. ASSUME Backfill PROVE TreeInv'
    BY <1>3, <1>4, <1>7 DEF Backfill, UnassignedTo, TreeInv
  <1>8. ASSUME UNCHANGED treeVars PROVE TreeInv'
    BY <1>8, <1>3 DEF treeVars, TreeInv, WellGrown, MayInsert
  <1> QED BY <1>1, <1>2, <1>5, <1>6, <1>7, <1>8 DEF TreeNext

LEMMA TreeStart == ASSUME TreeInit PROVE TreeInv
  <1>1. tree = <<>> /\ home = [c \in AssignedCard |-> 0]
    BY DEF TreeInit
  <1>2. Len(tree) = 0 /\ MaxTreeNodes \in Nat
    BY <1>1, TreeConstants
  <1>3. WellGrown(tree)
    BY <1>1, <1>2 DEF WellGrown
  <1> QED BY <1>1, <1>2, <1>3 DEF TreeInv

-----------------------------------------------------------------------------
(* Paths                                                                     *)

LEMMA IdsAreFinite ==
    ASSUME WellGrown(tree)
    PROVE  IsFiniteSet(Ids) /\ \A n : IsFiniteSet(ChildrenOf(n))
  <1>1. Ids = 1..Len(tree) /\ Len(tree) \in Nat
    BY TreeFacts
  <1>2. IsFiniteSet(Ids)
    BY <1>1, FS_Interval
  <1>3. \A n : ChildrenOf(n) \subseteq Ids
    BY DEF ChildrenOf
  <1> QED BY <1>2, <1>3, FS_Subset

\* The breadcrumb of a node is its parent's and the node.
LEMMA BreadcrumbGrows ==
    ASSUME WellGrown(tree), NEW n \in Ids
    PROVE  Breadcrumb(n) = IF n = 1 THEN <<1>> ELSE Append(Breadcrumb(tree[n].parent), n)
  <1> DEFINE p == [i \in Ids |-> tree[i].parent]
             F == [x \in Seq(Nat) \X Ids |-> Append(x[1], x[2])]
             Crumb(c, i) == IF tree[i].parent = 0 THEN <<i>> ELSE Append(c[tree[i].parent], i)
             chain == CHOOSE c : c = [i \in Ids |-> Crumb(c, i)]
  <1>1. Ids = 1..Len(tree) /\ Len(tree) \in Nat
    BY TreeFacts
  <1>2. p \in [1..Len(tree) -> Nat] /\ \A i \in 1..Len(tree) : p[i] < i
    BY <1>1, TreeFacts
  <1>3. F \in [Seq(Nat) \X (1..Len(tree)) -> Seq(Nat)] /\ <<>> \in Seq(Nat)
    <2>1. \A x \in Seq(Nat) \X Ids : Append(x[1], x[2]) \in Seq(Nat)
      BY <1>1
    <2> QED BY <1>1, <2>1
  <1>4. PICK g : ByParent(g, Len(tree), p, Seq(Nat), <<>>, F)
    <2> HIDE DEF p, F
    <2> QED BY <1>1, <1>2, <1>3, RecursionByParent
  <1>5. /\ g \in [0..Len(tree) -> Seq(Nat)] /\ g[0] = <<>>
        /\ \A i \in Ids : g[i] = F[<<g[p[i]], i>>]
    BY <1>1, <1>4 DEF ByParent
  <1> DEFINE h == [i \in Ids |-> g[i]]
  <1>6. ASSUME NEW i \in Ids PROVE h[i] = Crumb(h, i)
    <2>1. p[i] = tree[i].parent /\ p[i] \in 0..Len(tree)
      BY <1>1, TreeFacts
    <2>2. g[p[i]] \in Seq(Nat) /\ h[i] = Append(g[p[i]], i)
      BY <1>5, <2>1
    <2>3. CASE i = 1
      <3>1. tree[i].parent = 0
        BY <2>3, TreeFacts
      <3>2. Append(<<>>, i) = <<i>>
        OBVIOUS
      <3> QED BY <1>5, <2>1, <2>2, <3>1, <3>2
    <2>4. CASE i # 1
      <3>1. tree[i].parent # 0 /\ tree[i].parent \in Ids
        BY <2>4, TreeFacts
      <3> QED BY <2>1, <2>2, <3>1
    <2> QED BY <2>3, <2>4
  <1>7. h = [i \in Ids |-> Crumb(h, i)]
    <2> HIDE DEF Crumb
    <2>1. h = [i \in Ids |-> h[i]]
      OBVIOUS
    <2> HIDE DEF h
    <2> QED BY <1>6, <2>1
  <1>8. chain = [i \in Ids |-> Crumb(chain, i)]
    <2> HIDE DEF h, Crumb
    <2> QED BY <1>7
  <1>9. \A i \in Ids : Breadcrumb(i) = chain[i]
    BY DEF Breadcrumb
  <1> HIDE DEF chain
  <1>10. Breadcrumb(n) = Crumb(chain, n)
    BY <1>8, <1>9
  <1>11. CASE n = 1
    BY <1>10, <1>11, TreeFacts
  <1>12. CASE n # 1
    <2>1. tree[n].parent # 0 /\ tree[n].parent \in Ids
      BY <1>12, TreeFacts
    <2> QED BY <1>9, <1>10, <1>12, <2>1
  <1> QED BY <1>11, <1>12

\* From the root to the node, each node the parent of the next.
LEMMA BreadcrumbFacts ==
    ASSUME WellGrown(tree), NEW n \in Ids
    PROVE  /\ Breadcrumb(n) \in Seq(Ids) /\ Len(Breadcrumb(n)) \in Nat \ {0}
           /\ Breadcrumb(n)[1] = 1 /\ Breadcrumb(n)[Len(Breadcrumb(n))] = n
           /\ \A j \in 2..Len(Breadcrumb(n)) : tree[Breadcrumb(n)[j]].parent = Breadcrumb(n)[j - 1]
  <1> DEFINE Good(b, m) == /\ b \in Seq(Ids) /\ Len(b) \in Nat \ {0}
                           /\ b[1] = 1 /\ b[Len(b)] = m
                           /\ \A j \in 2..Len(b) : tree[b[j]].parent = b[j - 1]
             T == {m \in Ids : Good(Breadcrumb(m), m)}
  <1>1. ASSUME tree # <<>> PROVE 1 \in T
    <2>1. 1 \in Ids
      BY <1>1, TreeFacts
    <2>2. Breadcrumb(1) = <<1>>
      BY <2>1, BreadcrumbGrows
    <2>3. Good(<<1>>, 1)
      BY <2>1
    <2> QED BY <2>1, <2>2, <2>3
  <1>2. ASSUME NEW m \in Ids, m # 1, tree[m].parent \in T PROVE m \in T
    <2>1. Breadcrumb(m) = Append(Breadcrumb(tree[m].parent), m)
      BY <1>2, BreadcrumbGrows
    <2> DEFINE q == tree[m].parent
               b == Breadcrumb(q)
               c == Append(b, m)
    <2>2. Good(b, q)
      BY <1>2
    <2> HIDE DEF b
    <2>3. /\ c \in Seq(Ids) /\ Len(c) = Len(b) + 1 /\ c[Len(b) + 1] = m
          /\ \A j \in 1..Len(b) : c[j] = b[j]
      BY <2>2
    <2> HIDE DEF c
    <2>4. ASSUME NEW j \in 2..Len(c) PROVE tree[c[j]].parent = c[j - 1]
      <3>1. CASE j = Len(c)
        <4>1. c[j] = m /\ j - 1 = Len(b) /\ j - 1 \in 1..Len(b)
          BY <2>2, <2>3, <3>1
        <4>2. c[j - 1] = q
          BY <2>2, <2>3, <4>1
        <4> QED BY <4>1, <4>2
      <3>2. CASE j # Len(c)
        <4>1. j \in 2..Len(b) /\ j \in 1..Len(b) /\ j - 1 \in 1..Len(b)
          BY <2>2, <2>3, <3>2
        <4> QED BY <2>2, <2>3, <4>1
      <3> QED BY <3>1, <3>2
    <2>5. 1 \in 1..Len(b)
      BY <2>2
    <2>6. Len(c) \in Nat \ {0} /\ c[1] = 1 /\ c[Len(c)] = m
      BY <2>2, <2>3, <2>5
    <2>7. Good(c, m)
      BY <2>3, <2>4, <2>6
    <2> QED BY <2>1, <2>7 DEF b, c
  <1>3. n \in T
    <2> HIDE DEF T
    <2> QED BY <1>1, <1>2, DownTheTree
  <1> QED BY <1>3

Matches(n, segment, label) == {i \in ChildrenOf(n) : n # -1 /\ label[i] = segment}

\* Each node of b is reached from the one before it; and it alone.
Onward(b, m, path, label) == \A k \in 1..m : b[k] \in Matches(b[k - 1], path[k], label)
OneWay(b, m, path, label) == \A k \in 1..m : Matches(b[k - 1], path[k], label) = {b[k]}

\* A path that leads along b leads to its end or nowhere, and to its end
\* if no node of b has a sibling of its label.
LEMMA DescendAlong ==
    ASSUME WellGrown(tree), NEW path, NEW m \in Nat, Len(path) = m, NEW label,
           NEW b \in [0..m -> Nat], Onward(b, m, path, label)
    PROVE  /\ Descend(path, b[0], label) \in {b[m], -1}
           /\ OneWay(b, m, path, label) => Descend(path, b[0], label) = b[m]
  <1> DEFINE Down(n, segment) ==
                 LET matches == {i \in ChildrenOf(n) : n # -1 /\ label[i] = segment}
                 IN  IF Cardinality(matches) = 1 THEN CHOOSE i \in matches : TRUE ELSE -1
             Arrive(a, k) == IF k = 0 THEN b[0] ELSE Down(a[k - 1], path[k])
             at == CHOOSE a : a = [k \in 0..Len(path) |-> Arrive(a, k)]
             Only(k) == Matches(b[k - 1], path[k], label) = {b[k]}
             w == [k \in 0..m |-> IF \A j \in 1..k : Only(j) THEN b[k] ELSE -1]
  <1>1. \A n, s : Down(n, s) = LET matches == Matches(n, s, label)
                               IN  IF Cardinality(matches) = 1 THEN CHOOSE i \in matches : TRUE ELSE -1
    BY DEF Matches
  <1>2. \A n, s : IsFiniteSet(Matches(n, s, label))
    <2>1. \A n, s : Matches(n, s, label) \subseteq ChildrenOf(n)
      BY DEF Matches
    <2> QED BY <2>1, IdsAreFinite, FS_Subset
  <1>3. \A s : Down(-1, s) = -1
    <2>1. \A s : Matches(-1, s, label) = {}
      BY DEF Matches
    <2>2. Cardinality({}) # 1
      BY FS_EmptySet
    <2>3. ASSUME NEW s PROVE Down(-1, s) = -1
      <3> DEFINE M == Matches(-1, s, label)
      <3>1. Down(-1, s) = IF Cardinality(M) = 1 THEN CHOOSE i \in M : TRUE ELSE -1
        BY <1>1
      <3>2. M = {}
        BY <2>1
      <3> HIDE DEF M, Down
      <3> QED BY <2>2, <3>1, <3>2
    <2> QED BY <2>3
  <1>4. ASSUME NEW k \in 1..m PROVE Down(b[k - 1], path[k]) = IF Only(k) THEN b[k] ELSE -1
    <2> DEFINE M == Matches(b[k - 1], path[k], label)
    <2>1. Down(b[k - 1], path[k]) = IF Cardinality(M) = 1 THEN CHOOSE i \in M : TRUE ELSE -1
      BY <1>1
    <2>2. IsFiniteSet(M) /\ b[k] \in M
      BY <1>2 DEF Onward
    <2> HIDE DEF Down, M
    <2>3. CASE M = {b[k]}
      <3>1. Cardinality(M) = 1
        BY <2>3, FS_Singleton
      <3>2. (CHOOSE i \in M : TRUE) = b[k]
        BY <2>3
      <3> QED BY <2>1, <2>3, <3>1, <3>2 DEF M
    <2>4. CASE M # {b[k]}
      <3>1. Cardinality(M) # 1
        <4>1. ASSUME Cardinality(M) = 1 PROVE FALSE
          <5>1. PICK x : M = {x}
            BY <2>2, <4>1, FS_Singleton
          <5> QED BY <5>1, <2>2, <2>4
        <4> QED BY <4>1
      <3> QED BY <2>1, <2>4, <3>1 DEF M
    <2> QED BY <2>3, <2>4
  <1> HIDE DEF Down, Only
  <1>5. ASSUME NEW k \in 0..m PROVE w[k] = Arrive(w, k)
    <2>1. CASE k = 0
      <3>1. 0 \in 0..m /\ \A j \in 1..0 : Only(j)
        OBVIOUS
      <3> QED BY <2>1, <3>1
    <2>2. CASE k # 0
      <3>1. k \in 1..m /\ k - 1 \in 0..m
        BY <2>2
      <3>2. (\A j \in 1..k : Only(j)) <=> (\A j \in 1..(k - 1) : Only(j)) /\ Only(k)
        <4>1. \A j \in 1..k : j = k \/ j \in 1..(k - 1)
          OBVIOUS
        <4>2. k \in 1..k /\ \A j \in 1..(k - 1) : j \in 1..k
          BY <3>1
        <4> QED BY <4>1, <4>2
      <3>3. w[k] = (IF \A j \in 1..k : Only(j) THEN b[k] ELSE -1)
            /\ w[k - 1] = (IF \A j \in 1..(k - 1) : Only(j) THEN b[k - 1] ELSE -1)
        BY <3>1
      <3> HIDE DEF w
      <3>4. CASE \A j \in 1..(k - 1) : Only(j)
        BY <2>2, <3>1, <3>2, <3>3, <3>4, <1>4
      <3>5. CASE ~ \A j \in 1..(k - 1) : Only(j)
        BY <2>2, <3>1, <3>2, <3>3, <3>5, <1>3
      <3> QED BY <3>4, <3>5
    <2> QED BY <2>1, <2>2
  <1>6. w = [k \in 0..Len(path) |-> Arrive(w, k)]
    <2>1. w = [k \in 0..m |-> w[k]]
      OBVIOUS
    <2> HIDE DEF w, Arrive
    <2> QED BY <1>5, <2>1
  <1>7. at = [k \in 0..Len(path) |-> Arrive(at, k)]
    <2> HIDE DEF w, Arrive
    <2> QED BY <1>6
  <1> HIDE DEF at
  <1>8. \A k \in 0..m : at[k] = w[k]
    <2> DEFINE T == {k \in 0..m : at[k] = w[k]}
    <2>1. 0 \in T
      <3>1. 0 \in 0..m
        OBVIOUS
      <3> QED BY <3>1, <1>5, <1>7
    <2>2. ASSUME NEW k \in 1..m, k - 1 \in T PROVE k \in T
      <3>1. k \in 0..m /\ k # 0
        OBVIOUS
      <3>2. at[k] = Down(at[k - 1], path[k])
        BY <1>7, <3>1
      <3>3. w[k] = Down(w[k - 1], path[k])
        <4>1. w[k] = Arrive(w, k)
          BY <1>5, <3>1
        <4> HIDE DEF w
        <4> QED BY <4>1, <3>1
      <3> HIDE DEF w
      <3> QED BY <2>2, <3>1, <3>2, <3>3
    <2> HIDE DEF T, w
    <2>3. \A k \in 0..m : k \in T
      BY <2>1, <2>2, NumbersFromZero
    <2> QED BY <2>3 DEF T
  <1>9. Descend(path, b[0], label) = w[m]
    <2>1. m \in 0..m
      OBVIOUS
    <2>2. Descend(path, b[0], label) = at[Len(path)]
      BY DEF Descend, at, Down
    <2> HIDE DEF w
    <2> QED BY <1>8, <2>1, <2>2
  <1>10. w[m] = IF \A j \in 1..m : Only(j) THEN b[m] ELSE -1
    OBVIOUS
  <1> HIDE DEF w
  <1> QED BY <1>9, <1>10 DEF Only, OneWay

\* The slugs of siblings differ, so the route path leads to the node.
LEMMA RoutePathsLead ==
    ASSUME WellGrown(tree), NEW n \in Ids
    PROVE  ResolveRoutePath(RoutePath(n)) = n
  <1> DEFINE b == Breadcrumb(n)
             m == Len(b) - 1
             c == [k \in 0..m |-> b[k + 1]]
             label == [i \in Ids |-> SlugOf[tree[i].name]]
             path == RoutePath(n)
             S == {label[i] : i \in Ids}
  <1>1. /\ b \in Seq(Ids) /\ Len(b) \in Nat \ {0} /\ b[1] = 1 /\ b[Len(b)] = n
        /\ \A j \in 2..Len(b) : tree[b[j]].parent = b[j - 1]
    BY BreadcrumbFacts
  <1>2. path = [k \in 1..m |-> SlugOf[tree[b[k + 1]].name]]
    BY DEF RoutePath
  <1> HIDE DEF b, path
  <1>3. m \in Nat
    BY <1>1
  <1>4. \A k \in 0..m : c[k] = b[k + 1] /\ c[k] \in Ids
    BY <1>1
  <1>5. Ids \subseteq Nat
    BY TreeFacts
  <1>6. c \in [0..m -> Nat] /\ c[0] = 1 /\ c[m] = n
    <2>1. 0 \in 0..m /\ m \in 0..m /\ 0 + 1 = 1 /\ m + 1 = Len(b)
      BY <1>1, <1>3
    <2>2. DOMAIN c = 0..m /\ \A k \in 0..m : c[k] \in Nat
      BY <1>4, <1>5
    <2>3. c = [k \in 0..m |-> c[k]]
      OBVIOUS
    <2> HIDE DEF c
    <2>4. c \in [0..m -> Nat]
      BY <2>2, <2>3
    <2> HIDE DEF m
    <2> QED BY <1>1, <1>4, <2>1, <2>4
  <1> HIDE DEF c
  <1>7. ASSUME NEW k \in 1..m PROVE path[k] = label[c[k]] /\ tree[c[k]].parent = c[k - 1]
    <2>1. k \in 0..m /\ k - 1 \in 0..m /\ k + 1 \in 2..Len(b) /\ (k + 1) - 1 = (k - 1) + 1
      BY <1>1
    <2>2. c[k] = b[k + 1] /\ c[k - 1] = b[(k + 1) - 1] /\ c[k] \in Ids
      BY <1>4, <2>1
    <2> QED BY <1>1, <1>2, <2>1, <2>2
  <1>8. Len(path) = m
    <2>1. \A k \in 1..m : k \in 0..m
      OBVIOUS
    <2>2. \A k \in 1..m : label[c[k]] \in S
      BY <1>4, <2>1
    <2>3. DOMAIN path = 1..m /\ path = [k \in 1..m |-> path[k]]
      BY <1>2
    <2> HIDE DEF label, S
    <2>4. path \in [1..m -> S]
      BY <1>7, <2>2, <2>3
    <2>5. path \in Seq(S)
      BY <1>3, <2>4, SeqDef
    <2> HIDE DEF m
    <2> QED BY <1>3, <2>3, <2>5, LenProperties
  <1>9. ASSUME NEW k \in 1..m PROVE Matches(c[k - 1], path[k], label) = {c[k]}
    <2>1. k \in 0..m /\ k - 1 \in 0..m /\ c[k] \in Ids /\ c[k - 1] \in Nat
      BY <1>3, <1>4, <1>6
    <2>2. c[k] \in Matches(c[k - 1], path[k], label)
      BY <1>7, <2>1 DEF Matches, ChildrenOf
    <2>3. ASSUME NEW i \in Matches(c[k - 1], path[k], label) PROVE i = c[k]
      <3>1. i \in Ids /\ tree[i].parent = tree[c[k]].parent
            /\ SlugOf[tree[i].name] = SlugOf[tree[c[k]].name]
        BY <1>7, <2>1, <2>3 DEF Matches, ChildrenOf
      <3>2. Ids = 1..Len(tree)
        BY TreeFacts
      <3> QED BY <2>1, <3>1, <3>2 DEF WellGrown
    <2> QED BY <2>2, <2>3
  <1> HIDE DEF label, m
  <1>10. Descend(path, c[0], label) = c[m]
    <2>1. Onward(c, m, path, label) /\ OneWay(c, m, path, label)
      BY <1>9 DEF Onward, OneWay
    <2> QED BY <1>3, <1>6, <1>8, <2>1, DescendAlong
  <1>11. tree # <<>>
    BY TreeFacts DEF Ids
  <1> QED BY <1>6, <1>10, <1>11, TreeFacts DEF ResolveRoutePath, label, path

LEMMA NamesLead ==
    ASSUME WellGrown(tree), NEW n \in Ids
    PROVE  /\ ResolveScopeName(tree[n].name) \in {n, -1}
           /\ ResolveScopePath([i \in DOMAIN Breadcrumb(n) |-> CaseFoldOf[tree[Breadcrumb(n)[i]].name]])
                  \in {n, -1}
  <1>1. ResolveScopeName(tree[n].name) \in {n, -1}
    <2> DEFINE M == {i \in Ids : CaseFoldOf[tree[i].name] = CaseFoldOf[tree[n].name]}
    <2>1. ResolveScopeName(tree[n].name) = IF Cardinality(M) = 1 THEN CHOOSE i \in M : TRUE ELSE -1
      BY DEF ResolveScopeName
    <2>2. n \in M /\ M \subseteq Ids
      OBVIOUS
    <2>3. IsFiniteSet(M)
      BY <2>2, IdsAreFinite, FS_Subset
    <2> HIDE DEF M
    <2>4. ASSUME Cardinality(M) = 1 PROVE (CHOOSE i \in M : TRUE) = n
      <3>1. PICK x : M = {x}
        BY <2>3, <2>4, FS_Singleton
      <3> QED BY <2>2, <3>1
    <2> QED BY <2>1, <2>4
  <1> DEFINE b == Breadcrumb(n)
             m == Len(b)
             c == [k \in 0..m |-> IF k = 0 THEN 0 ELSE b[k]]
             label == [i \in Ids |-> CaseFoldOf[tree[i].name]]
             path == [i \in DOMAIN b |-> CaseFoldOf[tree[b[i]].name]]
             S == {label[i] : i \in Ids}
  <1>2. /\ b \in Seq(Ids) /\ m \in Nat \ {0} /\ b[1] = 1 /\ b[m] = n
        /\ \A j \in 2..m : tree[b[j]].parent = b[j - 1]
    BY BreadcrumbFacts
  <1> HIDE DEF b
  <1>3. DOMAIN b = 1..m /\ \A k \in 1..m : b[k] \in Ids
    BY <1>2
  <1>4. Ids \subseteq Nat /\ tree[1].parent = 0
    <2>1. b[1] \in Ids
      BY <1>2, <1>3
    <2> QED BY <1>2, <2>1, TreeFacts
  <1>5. c \in [0..m -> Nat] /\ c[0] = 0 /\ c[m] = n
    <2>1. 0 \in 0..m /\ m \in 0..m /\ m # 0
      BY <1>2
    <2>2. \A k \in 0..m : k # 0 => b[k] \in Nat
      <3>1. \A k \in 0..m : k # 0 => k \in 1..m
        BY <1>2
      <3> HIDE DEF m
      <3> QED BY <3>1, <1>3, <1>4
    <2> QED BY <1>2, <2>1, <2>2
  <1>6. ASSUME NEW k \in 1..m PROVE c[k] = b[k] /\ b[k] \in Ids /\ tree[b[k]].parent = c[k - 1]
    <2>1. k \in 0..m /\ k # 0 /\ k - 1 \in 0..m
      BY <1>2
    <2>2. CASE k = 1
      BY <2>1, <2>2, <1>2, <1>3, <1>4
    <2>3. CASE k # 1
      <3>1. k \in 2..m /\ k - 1 # 0
        BY <2>1, <2>3, <1>2
      <3> QED BY <2>1, <3>1, <1>2, <1>3
    <2> QED BY <2>2, <2>3
  <1> HIDE DEF c
  <1>7. \A k \in 1..m : path[k] = label[b[k]]
    BY <1>3
  <1>8. Len(path) = m
    <2>1. \A k \in 1..m : label[b[k]] \in S
      BY <1>3
    <2>2. DOMAIN path = 1..m /\ path = [k \in 1..m |-> path[k]]
      BY <1>3
    <2> HIDE DEF label, S, path
    <2>3. path \in [1..m -> S]
      BY <1>7, <2>1, <2>2
    <2>4. path \in Seq(S)
      BY <1>2, <2>3, SeqDef
    <2> HIDE DEF m
    <2> QED BY <1>2, <2>2, <2>4, LenProperties
  <1>9. ASSUME NEW k \in 1..m PROVE c[k] \in Matches(c[k - 1], path[k], label)
    <2>1. c[k - 1] # -1
      <3>1. k - 1 \in 0..m
        BY <1>2
      <3> QED BY <3>1, <1>5
    <2> QED BY <1>6, <1>7, <2>1 DEF Matches, ChildrenOf
  <1> HIDE DEF label, m
  <1>10. Descend(path, c[0], label) \in {c[m], -1}
    <2> HIDE DEF path
    <2>1. Onward(c, m, path, label)
      BY <1>9 DEF Onward
    <2> QED BY <1>2, <1>5, <1>8, <2>1, DescendAlong
  <1>11. ResolveScopePath(path) \in {n, -1}
    BY <1>5, <1>10 DEF ResolveScopePath, label
  <1> QED BY <1>1, <1>11 DEF b

\* The rows of the tree stay well grown whatever is created, imported or assigned.
THEOREM TreeInvariant == TreeSpec => []TreeInv
  <1> QED BY TreeStart, TreeStep, PTL DEF TreeSpec

\* A link to a node always leads to that node.
THEOREM NodesAreAlwaysAddressable == TreeSpec => []NodesAreAddressable
  <1>1. ASSUME TreeInv PROVE NodesAreAddressable
    <2>1. WellGrown(tree)
      BY <1>1 DEF TreeInv
    <2> QED BY <2>1, RoutePathsLead, NamesLead DEF NodesAreAddressable
  <1> QED BY <1>1, TreeInvariant, PTL

-----------------------------------------------------------------------------
(* The nodes above a node                                                    *)

On(n, x) == Contains(Breadcrumb(n), x)

LEMMA OnItself ==
    ASSUME WellGrown(tree), NEW n \in Ids, NEW x
    PROVE  On(n, x) <=> x = n \/ (n # 1 /\ On(tree[n].parent, x))
  <1>1. CASE n = 1
    <2>1. Breadcrumb(n) = <<1>>
      BY <1>1, BreadcrumbGrows
    <2>2. On(n, x) <=> \E i \in 1..Len(<<1>>) : <<1>>[i] = x
      BY <2>1 DEF On, Contains
    <2> QED BY <1>1, <2>2
  <1>2. CASE n # 1
    <2> DEFINE b == Breadcrumb(tree[n].parent)
    <2>1. Breadcrumb(n) = Append(b, n)
      BY <1>2, BreadcrumbGrows
    <2>2. b \in Seq(Ids)
      BY <1>2, TreeFacts, BreadcrumbFacts
    <2> HIDE DEF b
    <2> DEFINE c == Append(b, n)
    <2>3. /\ Len(c) = Len(b) + 1 /\ Len(b) \in Nat /\ c[Len(b) + 1] = n
          /\ \A i \in 1..Len(b) : c[i] = b[i]
      BY <2>2
    <2> HIDE DEF c
    <2>4. (\E i \in 1..Len(c) : c[i] = x) <=> x = n \/ \E i \in 1..Len(b) : b[i] = x
      <3>1. \A i \in 1..Len(c) : i = Len(b) + 1 \/ i \in 1..Len(b)
        BY <2>3
      <3>2. Len(b) + 1 \in 1..Len(c) /\ \A i \in 1..Len(b) : i \in 1..Len(c)
        BY <2>3
      <3> QED BY <2>3, <3>1, <3>2
    <2>5. On(n, x) <=> \E i \in 1..Len(c) : c[i] = x
      BY <2>1 DEF On, Contains, c
    <2>6. On(tree[n].parent, x) <=> \E i \in 1..Len(b) : b[i] = x
      BY DEF On, Contains, b
    <2> QED BY <1>2, <2>4, <2>5, <2>6
  <1> QED BY <1>1, <1>2

AboveIsALine(n) ==
    /\ On(n, n)
    /\ \A x : On(n, x) => x \in Ids /\ tree[x].depth <= tree[n].depth
    /\ \A x : On(n, x) /\ x # 1 => On(n, tree[x].parent)
    /\ \A x : On(n, x) /\ x # n => \E y \in ChildrenOf(x) : On(n, y)
    /\ \A x, y : On(n, x) /\ On(n, y) /\ tree[x].depth = tree[y].depth => x = y

\* The nodes above a node, one at each depth.
LEMMA LinesAbove ==
    ASSUME WellGrown(tree), NEW n \in Ids PROVE AboveIsALine(n)
  <1> DEFINE T == {m \in Ids : AboveIsALine(m)}
  <1>1. ASSUME tree # <<>> PROVE 1 \in T
    <2>1. 1 \in Ids
      BY <1>1, TreeFacts
    <2>2. \A x : On(1, x) <=> x = 1
      BY <2>1, OnItself
    <2>3. tree[1].depth \in Nat
      BY <2>1, TreeFacts
    <2> QED BY <2>1, <2>2, <2>3 DEF AboveIsALine
  <1>2. ASSUME NEW m \in Ids, m # 1, tree[m].parent \in T PROVE m \in T
    <2> DEFINE p == tree[m].parent
    <2>1. \A x : On(m, x) <=> x = m \/ On(p, x)
      BY <1>2, OnItself
    <2>2. AboveIsALine(p) /\ p \in Ids
      BY <1>2
    <2>3. tree[m].depth = tree[p].depth + 1 /\ \A i \in Ids : tree[i].depth \in Nat
      BY <1>2, TreeFacts
    <2>4. m \in ChildrenOf(p)
      BY DEF ChildrenOf
    <2>5. On(m, m) /\ On(m, p)
      BY <2>1, <2>2 DEF AboveIsALine
    <2>6. ASSUME NEW x, On(p, x) PROVE x \in Ids /\ tree[x].depth < tree[m].depth /\ x # m
      <3>1. x \in Ids /\ tree[x].depth <= tree[p].depth
        BY <2>2, <2>6 DEF AboveIsALine
      <3>2. tree[x].depth \in Nat /\ tree[p].depth \in Nat
        BY <2>2, <2>3, <3>1
      <3> QED BY <2>3, <3>1, <3>2
    <2>7. ASSUME NEW x, On(m, x) PROVE x \in Ids /\ tree[x].depth <= tree[m].depth
      <3>1. tree[m].depth \in Nat
        BY <2>3
      <3>2. CASE x = m
        BY <3>1, <3>2
      <3>3. CASE On(p, x)
        <4>1. x \in Ids /\ tree[x].depth < tree[m].depth /\ tree[x].depth \in Nat
          BY <2>3, <2>6, <3>3
        <4> QED BY <3>1, <4>1
      <3> QED BY <2>1, <2>7, <3>2, <3>3
    <2>8. ASSUME NEW x, On(m, x), x # 1 PROVE On(m, tree[x].parent)
      BY <2>1, <2>2, <2>5, <2>8 DEF AboveIsALine
    <2>9. ASSUME NEW x, On(m, x), x # m PROVE \E y \in ChildrenOf(x) : On(m, y)
      <3>1. CASE x = p
        BY <2>4, <2>5, <3>1
      <3>2. CASE x # p
        <4>1. PICK y \in ChildrenOf(x) : On(p, y)
          BY <2>1, <2>2, <2>9, <3>2 DEF AboveIsALine
        <4> QED BY <2>1, <4>1
      <3> QED BY <3>1, <3>2
    <2>10. ASSUME NEW x, NEW y, On(m, x), On(m, y), tree[x].depth = tree[y].depth PROVE x = y
      <3>1. CASE On(p, x) /\ On(p, y)
        BY <2>2, <2>10, <3>1 DEF AboveIsALine
      <3>2. CASE x = m /\ On(p, y)
        <4>1. tree[y].depth < tree[m].depth /\ tree[y].depth \in Nat
          BY <2>3, <2>6, <3>2
        <4> QED BY <2>10, <3>2, <4>1
      <3>3. CASE y = m /\ On(p, x)
        <4>1. tree[x].depth < tree[m].depth /\ tree[x].depth \in Nat
          BY <2>3, <2>6, <3>3
        <4> QED BY <2>10, <3>3, <4>1
      <3> QED BY <2>1, <2>10, <3>1, <3>2, <3>3
    <2> HIDE DEF p
    <2>11. AboveIsALine(m)
      BY <2>5, <2>7, <2>8, <2>9, <2>10 DEF AboveIsALine
    <2> QED BY <2>11
  <1>3. n \in T
    <2> HIDE DEF T
    <2> QED BY <1>1, <1>2, DownTheTree
  <1> QED BY <1>3

-----------------------------------------------------------------------------
(* The order of the loop                                                     *)

LEMMA DepthIsAnOrder ==
    ASSUME WellGrown(tree) PROVE TotalOn(Ids, DeepestFirst)
  <1>1. \A i \in Ids : i \in Nat /\ tree[i].depth \in Nat
    BY TreeFacts
  <1>2. \A i, j \in Ids : <<i, j>> \in DeepestFirst <=> Deeper(i, j)
    BY DEF DeepestFirst
  <1>3. \A i \in Ids : ~ Deeper(i, i)
    BY <1>1 DEF Deeper
  <1>4. \A i, j, k \in Ids : Deeper(i, j) /\ Deeper(j, k) => Deeper(i, k)
    BY <1>1 DEF Deeper
  <1>5. \A i, j \in Ids : i # j => Deeper(i, j) \/ Deeper(j, i)
    BY <1>1 DEF Deeper
  <1> QED BY <1>2, <1>3, <1>4, <1>5 DEF TotalOn

\* Each node once, and before its parent.
LEMMA ChildrenComeFirst ==
    ASSUME WellGrown(tree)
    PROVE  LET order == InOrder(Ids, DeepestFirst)
               N == Cardinality(Ids)
           IN  /\ N \in Nat /\ Len(order) = N /\ order \in [1..N -> Ids]
               /\ \A i \in Ids : \E k \in 1..N : order[k] = i
               /\ \A k, j \in 1..N : order[k] = order[j] => k = j
               /\ \A k \in 1..N : \A y \in ChildrenOf(order[k]) : \E j \in 1..(k - 1) : order[j] = y
  <1> DEFINE N == Cardinality(Ids)
             order == InOrder(Ids, DeepestFirst)
             rank == [i \in Ids |-> Place(i, Ids, DeepestFirst)]
  <1>1. /\ IsFiniteSet(Ids) /\ TotalOn(Ids, DeepestFirst)
        /\ \A i \in Ids : i \in Nat /\ tree[i].depth \in Nat
    BY IdsAreFinite, DepthIsAnOrder, TreeFacts
  <1>2. /\ N \in Nat
        /\ \A i \in Ids : rank[i] \in 1..N
        /\ \A i, j \in Ids : <<j, i>> \in DeepestFirst <=> rank[j] < rank[i]
    BY <1>1, Places
  <1>3. /\ order \in [1..N -> Ids] /\ Len(order) = N
        /\ \A k \in 1..N : rank[order[k]] = k
        /\ \A i \in Ids : order[rank[i]] = i
    BY <1>1, InItsPlace
  <1> HIDE DEF order, N, rank
  <1>4. \A i \in Ids : \E k \in 1..N : order[k] = i
    BY <1>2, <1>3
  <1>5. \A k, j \in 1..N : order[k] = order[j] => k = j
    BY <1>3
  <1>6. ASSUME NEW k \in 1..N, NEW y \in ChildrenOf(order[k]) PROVE \E j \in 1..(k - 1) : order[j] = y
    <2>1. order[k] \in Ids /\ y \in Ids /\ tree[y].parent = order[k] /\ rank[order[k]] = k
      BY <1>3 DEF ChildrenOf
    <2>2. tree[y].depth = tree[order[k]].depth + 1
      <3>1. order[k] \in Nat /\ order[k] # 0
        BY <2>1, TreeFacts
      <3>2. y # 1
        BY <2>1, <3>1, TreeFacts
      <3> QED BY <2>1, <3>2, TreeFacts
    <2>3. Deeper(y, order[k])
      BY <1>1, <2>1, <2>2 DEF Deeper
    <2>4. <<y, order[k]>> \in DeepestFirst
      BY <2>1, <2>3 DEF DeepestFirst
    <2>5. rank[y] \in 1..(k - 1)
      BY <1>2, <2>1, <2>4
    <2> QED BY <1>3, <2>1, <2>5
  <1> QED BY <1>2, <1>3, <1>4, <1>5, <1>6 DEF order, N

-----------------------------------------------------------------------------
(* What a node counts                                                        *)

\* The cards of the card scopes at n and below the children of n in done.
Reach(n, done) ==
    {c \in AssignedCard : /\ home[c] \in ActiveScopes
                          /\ home[c] = n \/ \E y \in ChildrenOf(n) \cap done : On(home[c], y)}

\* The cards of the card scopes at n and below it.
Below(n) == {c \in AssignedCard : home[c] \in ActiveScopes /\ On(home[c], n)}

LEMMA ReachesAreFinite ==
    \A n, done : IsFiniteSet(Reach(n, done)) /\ Cardinality(Reach(n, done)) \in Nat
                 /\ IsFiniteSet(Below(n)) /\ Cardinality(Below(n)) \in Nat
  <1>1. IsFiniteSet(AssignedCard)
    BY TreeConstants
  <1>2. \A n, done : Reach(n, done) \subseteq AssignedCard /\ Below(n) \subseteq AssignedCard
    BY DEF Reach, Below
  <1>3. \A n, done : IsFiniteSet(Reach(n, done)) /\ IsFiniteSet(Below(n))
    BY <1>1, <1>2, FS_Subset
  <1> QED BY <1>3, FS_CardinalityType

LEMMA ReachAtFirst ==
    ASSUME WellGrown(tree), NEW n \in Ids
    PROVE  VisibleDirectCount(n) = Cardinality(Reach(n, {}))
  <1>1. Reach(n, {}) = {c \in AssignedCard : home[c] \in ActiveScopes /\ home[c] = n}
    BY DEF Reach
  <1>2. DirectCount(n) \in Nat
    <2>1. IsFiniteSet({c \in AssignedCard : home[c] = n})
      BY TreeConstants, FS_Subset
    <2> QED BY <2>1, FS_CardinalityType DEF DirectCount
  <1>3. CASE n \in ActiveScopes
    <2>1. Reach(n, {}) = {c \in AssignedCard : home[c] = n}
      BY <1>1, <1>3
    <2> QED BY <1>3, <2>1 DEF ActiveScopes, VisibleDirectCount, DirectCount
  <1>4. CASE n \notin ActiveScopes
    <2>1. Reach(n, {}) = {}
      BY <1>1, <1>4
    <2>2. VisibleDirectCount(n) = 0
      BY <1>2, <1>4 DEF ActiveScopes, VisibleDirectCount
    <2> QED BY <2>1, <2>2, FS_EmptySet
  <1> QED BY <1>3, <1>4

LEMMA ReachAtLast ==
    ASSUME WellGrown(tree), NEW n \in Ids, NEW done, ChildrenOf(n) \subseteq done
    PROVE  Reach(n, done) = Below(n)
  <1>1. ASSUME NEW x \in ActiveScopes
        PROVE  (x = n \/ \E y \in ChildrenOf(n) \cap done : On(x, y)) <=> On(x, n)
    <2>1. x \in Ids /\ AboveIsALine(x)
      BY LinesAbove DEF ActiveScopes
    <2>2. ASSUME NEW y \in ChildrenOf(n) \cap done, On(x, y) PROVE On(x, n)
      <3>1. y \in Ids /\ tree[y].parent = n /\ n # 0
        BY TreeFacts DEF ChildrenOf
      <3>2. y # 1
        BY <3>1, TreeFacts
      <3> QED BY <2>1, <2>2, <3>1, <3>2 DEF AboveIsALine
    <2>3. ASSUME On(x, n), x # n PROVE \E y \in ChildrenOf(n) \cap done : On(x, y)
      BY <2>1, <2>3 DEF AboveIsALine
    <2> QED BY <2>1, <2>2, <2>3 DEF AboveIsALine
  <1> QED BY <1>1 DEF Reach, Below

LEMMA ReachGrows ==
    ASSUME WellGrown(tree), NEW y \in Ids, NEW done, y \notin done, NEW n \in Ids
    PROVE  Cardinality(Reach(n, done \cup {y})) =
               IF tree[y].parent = n THEN Cardinality(Reach(n, done)) + Cardinality(Below(y))
                                     ELSE Cardinality(Reach(n, done))
  <1>1. CASE tree[y].parent # n
    <2>1. ChildrenOf(n) \cap (done \cup {y}) = ChildrenOf(n) \cap done
      BY <1>1 DEF ChildrenOf
    <2>2. Reach(n, done \cup {y}) = Reach(n, done)
      BY <2>1 DEF Reach
    <2> QED BY <1>1, <2>2
  <1>2. CASE tree[y].parent = n
    <2>1. y \in ChildrenOf(n) /\ y # 1
      <3>1. n # 0
        BY TreeFacts
      <3> QED BY <1>2, <3>1, TreeFacts DEF ChildrenOf
    <2>2. Reach(n, done \cup {y}) = Reach(n, done) \cup Below(y)
      BY <2>1 DEF Reach, Below
    <2>3. Reach(n, done) \cap Below(y) = {}
      <3> SUFFICES ASSUME NEW c \in Reach(n, done), c \in Below(y) PROVE FALSE
        OBVIOUS
      <3> DEFINE x == home[c]
      <3>1. x \in ActiveScopes /\ On(x, y) /\ (x = n \/ \E z \in ChildrenOf(n) \cap done : On(x, z))
        BY DEF Reach, Below
      <3>2. AboveIsALine(x)
        BY <3>1, LinesAbove DEF ActiveScopes
      <3>3. tree[y].depth = tree[n].depth + 1 /\ tree[n].depth \in Nat
        BY <1>2, <2>1, TreeFacts
      <3> HIDE DEF x
      <3>4. CASE x = n
        <4>1. tree[y].depth <= tree[n].depth
          BY <3>1, <3>2, <3>4 DEF AboveIsALine
        <4> QED BY <3>3, <4>1
      <3>5. ASSUME NEW z \in ChildrenOf(n) \cap done, On(x, z) PROVE FALSE
        <4>1. z \in Ids /\ tree[z].parent = n /\ n # 0 /\ z # y
          BY TreeFacts DEF ChildrenOf
        <4>2. z # 1
          BY <4>1, TreeFacts
        <4>3. tree[z].depth = tree[n].depth + 1
          BY <4>1, <4>2, TreeFacts
        <4> QED BY <3>1, <3>2, <3>3, <3>5, <4>1, <4>3 DEF AboveIsALine
      <3> QED BY <3>1, <3>4, <3>5
    <2>4. /\ IsFiniteSet(Reach(n, done)) /\ Cardinality(Reach(n, done)) \in Nat
          /\ IsFiniteSet(Below(y)) /\ Cardinality(Below(y)) \in Nat
      BY ReachesAreFinite
    <2>5. Cardinality(Reach(n, done) \cup Below(y)) =
              Cardinality(Reach(n, done)) + Cardinality(Below(y)) - Cardinality(Reach(n, done) \cap Below(y))
      BY <2>4, FS_Union
    <2>6. Cardinality({}) = 0
      BY FS_EmptySet
    <2>7. Cardinality(Reach(n, done) \cup Below(y)) = Cardinality(Reach(n, done)) + Cardinality(Below(y))
      <3> DEFINE R == Reach(n, done)
                 B == Below(y)
      <3>1. Cardinality(R \cap B) = 0
        BY <2>3, <2>6
      <3>2. Cardinality(R) \in Nat /\ Cardinality(B) \in Nat
        BY <2>4
      <3>3. Cardinality(R \cup B) = Cardinality(R) + Cardinality(B) - Cardinality(R \cap B)
        BY <2>5
      <3> HIDE DEF R, B
      <3>4. Cardinality(R \cup B) = Cardinality(R) + Cardinality(B)
        BY <3>1, <3>2, <3>3
      <3> QED BY <3>4 DEF R, B
    <2> QED BY <1>2, <2>2, <2>7
  <1> QED BY <1>1, <1>2

\* The loop adds up, for each node, the cards of the card scopes at and below it.
LEMMA CountsAreCards ==
    ASSUME WellGrown(tree)
    PROVE  \A n \in Ids : DescendantCounts[n] = Cardinality(Below(n))
  <1> DEFINE order == InOrder(Ids, DeepestFirst)
             N == Len(order)
             Start == [n \in Ids |-> VisibleDirectCount(n)]
             Loop(f, k) == IF k = 0 THEN Start ELSE AddToParent(f[k - 1], order[k])
             counts == CHOOSE f : f = [k \in 0..N |-> Loop(f, k)]
             p == [k \in 1..N |-> k - 1]
             F == [x \in [Ids -> Nat] \X (1..N) |-> AddToParent(x[1], order[x[2]])]
  <1>1. /\ N \in Nat /\ order \in [1..N -> Ids]
        /\ \A i \in Ids : \E k \in 1..N : order[k] = i
        /\ \A k, j \in 1..N : order[k] = order[j] => k = j
        /\ \A k \in 1..N : \A y \in ChildrenOf(order[k]) : \E j \in 1..(k - 1) : order[j] = y
    BY ChildrenComeFirst
  <1>2. DescendantCounts = counts[N]
    BY DEF DescendantCounts
  <1> HIDE DEF order, N
  <1>3. Start \in [Ids -> Nat]
    BY ReachAtFirst, ReachesAreFinite
  <1> HIDE DEF Start
  <1>4. ASSUME NEW g \in [Ids -> Nat], NEW n \in Ids
        PROVE  /\ AddToParent(g, n) \in [Ids -> Nat]
               /\ \A m \in Ids : AddToParent(g, n)[m] = IF tree[n].parent = m THEN g[m] + g[n] ELSE g[m]
    <2>1. CASE tree[n].parent = 0
      <3>1. \A m \in Ids : tree[n].parent # m
        BY <2>1, TreeFacts
      <3> QED BY <2>1, <3>1 DEF AddToParent
    <2>2. CASE tree[n].parent # 0
      <3> DEFINE q == tree[n].parent
      <3>1. q \in Ids
        BY <2>2, TreeFacts
      <3>2. g[q] + g[n] \in Nat
        BY <3>1
      <3>3. AddToParent(g, n) = [g EXCEPT ![q] = g[q] + g[n]]
        BY <2>2 DEF AddToParent
      <3> HIDE DEF q
      <3>4. /\ AddToParent(g, n) \in [Ids -> Nat]
            /\ \A m \in Ids : AddToParent(g, n)[m] = IF q = m THEN g[m] + g[n] ELSE g[m]
        BY <3>1, <3>2, <3>3
      <3> QED BY <3>4 DEF q
    <2> QED BY <2>1, <2>2
  <1>5. counts = [k \in 0..N |-> Loop(counts, k)]
    <2>1. p \in [1..N -> Nat] /\ \A k \in 1..N : p[k] < k
      BY <1>1
    <2>2. F \in [[Ids -> Nat] \X (1..N) -> [Ids -> Nat]]
      <3>1. \A x \in [Ids -> Nat] \X (1..N) : x[1] \in [Ids -> Nat] /\ order[x[2]] \in Ids
        BY <1>1
      <3>2. \A x \in [Ids -> Nat] \X (1..N) : AddToParent(x[1], order[x[2]]) \in [Ids -> Nat]
        BY <1>4, <3>1
      <3> QED BY <3>2
    <2>3. PICK g : ByParent(g, N, p, [Ids -> Nat], Start, F)
      <3> HIDE DEF p, F
      <3> QED BY <1>1, <1>3, <2>1, <2>2, RecursionByParent
    <2>4. /\ g \in [0..N -> [Ids -> Nat]] /\ g[0] = Start
          /\ \A k \in 1..N : g[k] = F[<<g[p[k]], k>>]
      BY <2>3 DEF ByParent
    <2>5. ASSUME NEW k \in 1..N PROVE g[k] = AddToParent(g[k - 1], order[k])
      <3>1. p[k] = k - 1 /\ k - 1 \in 0..N
        BY <1>1
      <3>2. g[k - 1] \in [Ids -> Nat]
        BY <2>4, <3>1
      <3> QED BY <2>4, <3>1, <3>2
    <2> HIDE DEF p, F
    <2>6. g = [k \in 0..N |-> Loop(g, k)]
      <3>1. \A k \in 0..N : k = 0 \/ k \in 1..N
        BY <1>1
      <3> QED BY <1>1, <2>4, <2>5, <3>1
    <2> HIDE DEF Loop
    <2> QED BY <2>6
  <1> HIDE DEF counts
  <1> DEFINE Done(k) == {order[j] : j \in 1..k}
             T == {k \in 0..N : /\ counts[k] \in [Ids -> Nat]
                                /\ \A n \in Ids : counts[k][n] = Cardinality(Reach(n, Done(k)))}
  <1>6. 0 \in T
    <2>1. counts[0] = Start /\ 0 \in 0..N
      BY <1>1, <1>5
    <2>2. Done(0) = {}
      OBVIOUS
    <2>3. \A n \in Ids : Start[n] = Cardinality(Reach(n, {}))
      BY ReachAtFirst DEF Start
    <2> HIDE DEF Done
    <2> QED BY <1>3, <2>1, <2>2, <2>3
  <1>7. ASSUME NEW k \in 1..N, k - 1 \in T PROVE k \in T
    <2> DEFINE y == order[k]
               before == Done(k - 1)
    <2>1. k \in 0..N /\ k # 0 /\ k \in Nat /\ y \in Ids
      BY <1>1
    <2>2. counts[k] = AddToParent(counts[k - 1], y)
      BY <1>5, <2>1
    <2>3. Done(k) = before \cup {y}
      <3>1. \A j \in 1..k : j = k \/ j \in 1..(k - 1)
        BY <2>1
      <3>2. k \in 1..k /\ \A j \in 1..(k - 1) : j \in 1..k
        BY <2>1
      <3> QED BY <3>1, <3>2
    <2>4. y \notin before
      <3> SUFFICES ASSUME NEW j \in 1..(k - 1), order[j] = y PROVE FALSE
        OBVIOUS
      <3>1. j \in 1..N /\ j # k
        BY <1>1
      <3> QED BY <1>1, <3>1
    <2>5. ChildrenOf(y) \subseteq before
      BY <1>1
    <2>6. /\ counts[k - 1] \in [Ids -> Nat]
          /\ \A n \in Ids : counts[k - 1][n] = Cardinality(Reach(n, before))
      BY <1>7
    <2> HIDE DEF y, before, Done
    <2>7. counts[k - 1][y] = Cardinality(Below(y))
      BY <2>1, <2>5, <2>6, ReachAtLast
    <2>8. ASSUME NEW n \in Ids PROVE counts[k][n] = Cardinality(Reach(n, Done(k)))
      <3>1. counts[k][n] = IF tree[y].parent = n THEN counts[k - 1][n] + counts[k - 1][y]
                                                 ELSE counts[k - 1][n]
        BY <1>4, <2>1, <2>2, <2>6
      <3>2. counts[k - 1][n] = Cardinality(Reach(n, before))
        BY <2>6
      <3>3. Cardinality(Reach(n, Done(k))) =
                IF tree[y].parent = n THEN Cardinality(Reach(n, before)) + Cardinality(Below(y))
                                      ELSE Cardinality(Reach(n, before))
        BY <2>1, <2>3, <2>4, ReachGrows
      <3> QED BY <2>7, <3>1, <3>2, <3>3
    <2>9. counts[k] \in [Ids -> Nat]
      BY <1>4, <2>1, <2>2, <2>6
    <2> QED BY <2>1, <2>8, <2>9
  <1>8. N \in T
    <2> HIDE DEF T
    <2>1. \A k \in 0..N : k \in T
      BY <1>1, <1>6, <1>7, NumbersFromZero
    <2> QED BY <1>1, <2>1
  <1>9. ASSUME NEW n \in Ids PROVE Reach(n, Done(N)) = Below(n)
    <2>1. ChildrenOf(n) \subseteq Done(N)
      BY <1>1 DEF ChildrenOf
    <2> HIDE DEF Done
    <2> QED BY <2>1, ReachAtLast
  <1> QED BY <1>2, <1>8, <1>9

-----------------------------------------------------------------------------
(* One set of scopes                                                         *)

LEMMA CountsShow ==
    ASSUME WellGrown(tree), NEW n \in Ids
    PROVE  /\ DescendantCounts[n] \in Nat
           /\ DescendantCounts[n] > 0 <=> \E x \in ActiveScopes : On(x, n)
  <1>1. DescendantCounts[n] = Cardinality(Below(n)) /\ Cardinality(Below(n)) \in Nat
        /\ (Cardinality(Below(n)) = 0 <=> Below(n) = {})
    BY CountsAreCards, ReachesAreFinite, FS_EmptySet
  <1>2. ASSUME NEW x \in ActiveScopes, On(x, n) PROVE Below(n) # {}
    <2>1. {c \in AssignedCard : home[c] = x} # {}
      <3>1. Cardinality({c \in AssignedCard : home[c] = x}) > 0
        BY DEF ActiveScopes, DirectCount
      <3>2. Cardinality({}) = 0
        BY FS_EmptySet
      <3> QED BY <3>1, <3>2
    <2> QED BY <1>2, <2>1 DEF Below
  <1>3. ASSUME Below(n) # {} PROVE \E x \in ActiveScopes : On(x, n)
    BY <1>3 DEF Below
  <1> QED BY <1>1, <1>2, <1>3

LEMMA VisibleChildrenShow ==
    ASSUME WellGrown(tree)
    PROVE  \A n : VisibleChildren(n) = {i \in ChildrenOf(n) : \E x \in ActiveScopes : On(x, i)}
  <1>1. \A n : ChildrenOf(n) \subseteq Ids
    BY DEF ChildrenOf
  <1> QED BY <1>1, CountsShow DEF VisibleChildren

LEMMA DirectCountsShow ==
    ASSUME WellGrown(tree), home \in [AssignedCard -> 0..Len(tree)]
    PROVE  \A n : DirectCount(n) \in Nat /\ (DirectCount(n) > 0 <=> \E c \in AssignedCard : home[c] = n)
  <1>1. ASSUME NEW n
        PROVE  DirectCount(n) \in Nat /\ (DirectCount(n) > 0 <=> \E c \in AssignedCard : home[c] = n)
    <2> DEFINE D == {c \in AssignedCard : home[c] = n}
    <2>1. IsFiniteSet(D)
      BY TreeConstants, FS_Subset
    <2>2. DirectCount(n) = Cardinality(D)
      BY DEF DirectCount
    <2>3. D # {} <=> \E c \in AssignedCard : home[c] = n
      OBVIOUS
    <2> HIDE DEF D
    <2>4. Cardinality(D) \in Nat /\ (Cardinality(D) = 0 <=> D = {})
      BY <2>1, FS_CardinalityType, FS_EmptySet
    <2> QED BY <2>2, <2>3, <2>4
  <1> QED BY <1>1

\* A node is shown if its parent is, and it has a card scope at it or below it.
LEMMA ShownFromTheRoot ==
    ASSUME WellGrown(tree)
    PROVE  \A n \in Ids : n \in Browsed <=>
               n = 1 \/ (n \in VisibleChildren(tree[n].parent) /\ tree[n].parent \in Browsed)
  <1> DEFINE Seen(n) == n \in VisibleChildren(tree[n].parent)
             Show(s, n) == tree[n].parent = 0 \/ (Seen(n) /\ s[tree[n].parent])
             shown == CHOOSE s : s = [n \in Ids |-> Show(s, n)]
             h == [n \in Ids |-> \A x : On(n, x) /\ x # 1 => Seen(x)]
  <1>1. ASSUME NEW n \in Ids PROVE h[n] <=> Show(h, n)
    <2> HIDE DEF Seen
    <2>1. CASE n = 1
      <3>1. tree[n].parent = 0
        BY <2>1, TreeFacts
      <3>2. \A x : On(n, x) => x = 1
        BY <2>1, OnItself
      <3> QED BY <3>1, <3>2
    <2>2. CASE n # 1
      <3>1. tree[n].parent # 0 /\ tree[n].parent \in Ids
        BY <2>2, TreeFacts
      <3>2. \A x : On(n, x) <=> x = n \/ On(tree[n].parent, x)
        BY <2>2, OnItself
      <3> QED BY <2>2, <3>1, <3>2
    <2> QED BY <2>1, <2>2
  <1>2. h = [n \in Ids |-> Show(h, n)]
    <2>1. \A n \in Ids : (\A x : On(n, x) /\ x # 1 => Seen(x)) = Show(h, n)
      <3> HIDE DEF Seen
      <3>1. \A n \in Ids : h[n] = \A x : On(n, x) /\ x # 1 => Seen(x)
        OBVIOUS
      <3>2. \A n \in Ids : Show(h, n) \in BOOLEAN
        BY TreeFacts
      <3> HIDE DEF h, Show
      <3> QED BY <1>1, <3>1, <3>2
    <2> HIDE DEF Seen, Show
    <2> QED BY <2>1
  <1>3. shown = [n \in Ids |-> Show(shown, n)]
    <2> HIDE DEF h, Show
    <2> QED BY <1>2
  <1>4. Browsed = {n \in Ids : shown[n]}
    BY DEF Browsed
  <1> HIDE DEF shown, Seen
  <1>5. ASSUME NEW n \in Ids PROVE shown[n] <=> n = 1 \/ (Seen(n) /\ tree[n].parent \in Browsed)
    <2>1. shown[n] = Show(shown, n)
      BY <1>3
    <2>2. CASE n = 1
      BY <2>1, <2>2, TreeFacts
    <2>3. CASE n # 1
      <3>1. tree[n].parent # 0 /\ tree[n].parent \in Ids
        BY <2>3, TreeFacts
      <3> QED BY <2>1, <2>3, <3>1, <1>4
    <2> QED BY <2>2, <2>3
  <1> QED BY <1>4, <1>5 DEF Seen

\* A node that shows itself: it has cards of its own, and is neither the root nor a branch.
IsScope(n) == DirectCount(n) > 0 /\ n # 1 /\ ChildrenOf(n) = {}

LEMMA OneSetOfScopes ==
    ASSUME TreeInv PROVE ScopesAgree
  <1> SUFFICES ASSUME tree # <<>>
        PROVE  /\ PrecomputeTargets = {n \in Ids : NodeKind(n) = "card_scope"}
               /\ PrecomputeTargets = {n \in Ids : IsCardScope(n)}
               /\ PrecomputeTargets = ActiveScopes
               /\ PrecomputeTargets = ScopesOfCards
               /\ PrecomputeTargets = {n \in Browsed : n # RootId /\ OfferedKind(n) = "card_scope"}
               /\ \A n \in Ids : DescendantCounts[n] =
                      Cardinality({c \in AssignedCard : home[c] \in PrecomputeTargets
                                                        /\ Contains(Breadcrumb(home[c]), n)})
    BY DEF ScopesAgree
  <1>1. WellGrown(tree) /\ home \in [AssignedCard -> 0..Len(tree)]
    BY DEF TreeInv
  <1>2. /\ 1 \in Ids /\ RootId = 1 /\ Ids = 1..Len(tree) /\ Len(tree) \in Nat
        /\ \A n \in Ids : tree[n].parent = 0 <=> n = 1
    BY <1>1, TreeFacts
  <1>3. \A n : DirectCount(n) \in Nat /\ (DirectCount(n) > 0 <=> \E c \in AssignedCard : home[c] = n)
    BY <1>1, DirectCountsShow
  <1>4. ActiveScopes = {n \in Ids : IsScope(n)}
    BY <1>2 DEF ActiveScopes, IsScope
  <1>5. \A n \in Ids : AboveIsALine(n)
    BY <1>1, LinesAbove
  <1>6. \A n : VisibleChildren(n) = {i \in ChildrenOf(n) : \E x \in ActiveScopes : On(x, i)}
    BY <1>1, VisibleChildrenShow
  <1>7. \A n \in Ids : DescendantCounts[n] > 0 <=> \E x \in ActiveScopes : On(x, n)
    BY <1>1, CountsShow
  <1>8. ASSUME NEW x \in ActiveScopes, NEW n, On(x, n), x # n PROVE VisibleChildren(n) # {}
    <2>1. x \in Ids
      BY <1>4
    <2>2. PICK y \in ChildrenOf(n) : On(x, y)
      BY <1>5, <1>8, <2>1 DEF AboveIsALine
    <2> QED BY <1>6, <2>2
  <1>9. \A n : VisibleChildren(n) \subseteq ChildrenOf(n)
    BY <1>6
  <1>10. PrecomputeTargets = ActiveScopes
    <2>1. PrecomputeTargets = {n \in Ids : DescendantCounts[n] > 0 /\ VisibleChildren(n) = {}}
      BY DEF PrecomputeTargets
    <2>2. ASSUME NEW n \in Ids, DescendantCounts[n] > 0, VisibleChildren(n) = {} PROVE n \in ActiveScopes
      BY <1>7, <1>8, <2>2
    <2>3. ASSUME NEW n \in ActiveScopes
          PROVE  n \in Ids /\ DescendantCounts[n] > 0 /\ VisibleChildren(n) = {}
      <3>1. n \in Ids /\ ChildrenOf(n) = {}
        BY <1>4 DEF IsScope
      <3>2. On(n, n)
        BY <1>5, <3>1 DEF AboveIsALine
      <3> QED BY <1>7, <1>9, <3>1, <3>2
    <2> QED BY <2>1, <2>2, <2>3
  <1>11. ActiveScopes = {n \in Ids : NodeKind(n) = "card_scope"}
    <2>1. ASSUME NEW n \in Ids PROVE NodeKind(n) = "card_scope" <=> IsScope(n)
      <3>1. DirectCount(n) <= 0 <=> ~(DirectCount(n) > 0)
        BY <1>3
      <3> QED BY <1>2, <3>1 DEF NodeKind, IsScope
    <2> QED BY <1>4, <2>1
  <1>12. ActiveScopes = {n \in Ids : IsCardScope(n)}
    BY <1>2, <1>4, <1>9 DEF IsCardScope, IsScope
  <1>13. ActiveScopes = ScopesOfCards
    <2>1. ASSUME NEW n \in ScopesOfCards PROVE n \in Ids /\ IsScope(n)
      <3>1. PICK c \in AssignedCard : n = home[c] /\ n # 0
        BY DEF ScopesOfCards
      <3>2. n \in Ids
        BY <1>1, <1>2, <3>1
      <3> QED BY <1>2, <1>3, <3>1, <3>2 DEF ScopesOfCards, IsScope
    <2>2. ASSUME NEW n \in Ids, IsScope(n) PROVE n \in ScopesOfCards
      <3>1. PICK c \in AssignedCard : home[c] = n
        BY <1>3, <2>2 DEF IsScope
      <3>2. n # 0
        BY <1>2
      <3>3. tree[n].parent # 0 /\ ChildrenOf(n) = {}
        BY <1>2, <2>2 DEF IsScope
      <3> QED BY <3>1, <3>2, <3>3 DEF ScopesOfCards
    <2> QED BY <1>4, <2>1, <2>2
  <1>14. ActiveScopes = {n \in Browsed : n # RootId /\ OfferedKind(n) = "card_scope"}
    <2>1. \A n \in Ids : n \in Browsed <=>
              n = 1 \/ (n \in VisibleChildren(tree[n].parent) /\ tree[n].parent \in Browsed)
      BY <1>1, ShownFromTheRoot
    <2>2. ASSUME NEW n \in Browsed, n # 1, ChildrenOf(n) = {} PROVE n \in ActiveScopes
      <3>1. n \in Ids
        BY DEF Browsed
      <3>2. n \in VisibleChildren(tree[n].parent)
        BY <2>1, <2>2, <3>1
      <3>3. PICK x \in ActiveScopes : On(x, n)
        BY <1>6, <3>2
      <3>4. VisibleChildren(n) = {}
        BY <1>9, <2>2
      <3> QED BY <1>8, <3>3, <3>4
    <2>3. ASSUME NEW x \in ActiveScopes PROVE x \in Browsed
      <3> DEFINE T == {n \in Ids : On(x, n) => n \in Browsed}
      <3>1. 1 \in T
        BY <1>2, <2>1
      <3>2. ASSUME NEW n \in Ids, n # 1, tree[n].parent \in T PROVE n \in T
        <4>1. ASSUME On(x, n) PROVE n \in Browsed
          <5>1. x \in Ids
            BY <1>4
          <5>2. On(x, tree[n].parent)
            BY <1>5, <3>2, <4>1, <5>1 DEF AboveIsALine
          <5>3. tree[n].parent \in Browsed
            BY <3>2, <5>2
          <5>4. n \in VisibleChildren(tree[n].parent)
            BY <1>6, <4>1 DEF ChildrenOf
          <5> QED BY <2>1, <5>3, <5>4
        <4> QED BY <4>1
      <3>3. x \in T
        <4>1. x \in Ids
          BY <1>4
        <4> HIDE DEF T
        <4> QED BY <1>1, <3>1, <3>2, <4>1, DownTheTree
      <3>4. On(x, x)
        BY <1>4, <1>5 DEF AboveIsALine
      <3> QED BY <3>3, <3>4
    <2>4. \A n : OfferedKind(n) = "card_scope" <=> ChildrenOf(n) = {}
      BY DEF OfferedKind
    <2>5. \A n \in ActiveScopes : n # 1 /\ ChildrenOf(n) = {}
      BY <1>4 DEF IsScope
    <2> QED BY <1>2, <2>2, <2>3, <2>4, <2>5
  <1>15. \A n \in Ids : DescendantCounts[n] =
             Cardinality({c \in AssignedCard : home[c] \in ActiveScopes
                                               /\ Contains(Breadcrumb(home[c]), n)})
    <2>1. \A n \in Ids : DescendantCounts[n] = Cardinality(Below(n))
      BY <1>1, CountsAreCards
    <2> QED BY <2>1 DEF Below, On
  <1> QED BY <1>10, <1>11, <1>12, <1>13, <1>14, <1>15

\* Whatever is prepared, shown, counted or projected, it is one set of scopes, always.
THEOREM ScopesAlwaysAgree == TreeSpec => []ScopesAgree
  <1> QED BY OneSetOfScopes, TreeInvariant, PTL
=============================================================================
