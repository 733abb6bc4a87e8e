------------------------------- MODULE CardGraph -------------------------------
(***************************************************************************)
(* The edges between cards and the retrieval over cards and edges.  A card *)
(* that is ingested is linked to the cards that its content mentions by    *)
(* title and to the cards that are closest to it; an accepted edit replaces*)
(* its text and embedding and leaves the edges; an operator may compute    *)
(* all edges again.  A search fuses the ranks of a vector query and a text *)
(* query, and lists titles that are connected to its matches.              *)
(***************************************************************************)
EXTENDS Integers, Sequences, FiniteSets, Ordering

CONSTANTS
    CardText,           \* what a card may be: [title, mentions, point]
    Similarity(_, _),   \* of two points, as an integer; Postgres and numpy compute the same
    Phrase,             \* [title, query] where the title contains the query
    AllTokens,          \* [title, query] where the title has all words of the query
    TitleMentionTopK, SemanticTopK, SemanticMinStrength, CandidateLimit,
    RebuildPolicy,      \* [top, min]: options of the rebuild
    ChunkSize,          \* rows of a matrix product of the rebuild
    Query,              \* what is searched for: [text, point]
    MatchLimit, VectorLimit, ConnectedLimit,
    RrfUnit,            \* 1, in units in which all 1 / (60 + rank) are integers
    MaxGraphCards, MaxEdits \* bounds

ASSUME GraphConstants ==
    /\ \A t, u \in CardText : Similarity(t.point, u.point) \in Int
    /\ \A t \in CardText, q \in Query : Similarity(t.point, q.point) \in Int
    /\ TitleMentionTopK \in Nat /\ SemanticTopK \in Nat /\ SemanticMinStrength \in Int
    /\ CandidateLimit \in Nat /\ CandidateLimit >= SemanticTopK
    /\ RebuildPolicy \subseteq [top : Nat \ {0}, min : Int]
    /\ ChunkSize \in Nat \ {0}
    /\ MatchLimit \in Nat \ {0} /\ VectorLimit \in Nat /\ VectorLimit >= MatchLimit
    /\ ConnectedLimit \in Nat /\ MaxGraphCards \in Nat
    /\ RrfUnit \in Nat \ {0} /\ \A rank \in 1..VectorLimit : RrfUnit % (60 + rank) = 0

VARIABLES
    graphCards,     \* nodes in order of their ids: [title, mentions, point, active]
    edges,          \* [a, b, strength], a and b being indices, a the lower one
    adjacency,      \* [node, edge]: edge the pair of the edge
    policy,         \* for each card: the policy of its edges to older cards, or Stale
    edits

graphVars == <<graphCards, edges, adjacency, policy, edits>>

Stale == [mention |-> 0, top |-> 0, min |-> -1]

GraphInit ==
    /\ graphCards = <<>> /\ edges = {} /\ adjacency = {}
    /\ policy = <<>> /\ edits = 0

\* ORDER BY the inner product and the id, among cards of any state.
Closer(i, j, p) ==
    LET si == Similarity(graphCards[i].point, p)  sj == Similarity(graphCards[j].point, p)
    IN  si > sj \/ (si = sj /\ i < j)
BySimilarity(p) == {x \in (DOMAIN graphCards) \X (DOMAIN graphCards) : Closer(x[1], x[2], p)}
Closest(ids, p, k) == Leading(k, ids, BySimilarity(p))

EdgeOf(i, related, p) == [a |-> related, b |-> i, strength |-> Similarity(graphCards[related].point, p)]
AdjacencyOf(new) ==
    UNION {{[node |-> n, edge |-> {e.a, e.b}] : n \in {e.a, e.b}} : e \in new}

-----------------------------------------------------------------------------
(* materialize_card_from_ingestion *)

MentionCandidates(card) ==
    Closest({i \in DOMAIN graphCards : graphCards[i].title \in card.mentions}, card.point, TitleMentionTopK)

SimilarityCandidates(card, excluded) == Closest(DOMAIN graphCards \ excluded, card.point, CandidateLimit)

MaterializeLinked(card) ==
    LET mentioned == MentionCandidates(card)
        near == {i \in SimilarityCandidates(card, mentioned) :
                    Similarity(graphCards[i].point, card.point) >= SemanticMinStrength}
        new == {EdgeOf(Len(graphCards) + 1, i, card.point) :
                   i \in mentioned \cup Closest(near, card.point, SemanticTopK)}
    IN  /\ Len(graphCards) < MaxGraphCards
        /\ graphCards' = Append(graphCards, [title |-> card.title, mentions |-> card.mentions,
                                             point |-> card.point, active |-> TRUE])
        /\ edges' = edges \cup new
        /\ adjacency' = adjacency \cup AdjacencyOf(new)
        /\ policy' = Append(policy, [mention |-> TitleMentionTopK, top |-> SemanticTopK,
                                     min |-> SemanticMinStrength])
        /\ UNCHANGED edits

\* Proposals that are accepted: one creates a card without edges, one
\* replaces text and embedding, one archives.
CreateUnlinked(card) ==
    /\ Len(graphCards) < MaxGraphCards
    /\ graphCards' = Append(graphCards, [title |-> card.title, mentions |-> card.mentions,
                                         point |-> card.point, active |-> TRUE])
    /\ policy' = Append(policy, Stale)
    /\ UNCHANGED <<edges, adjacency, edits>>

EditText(i, card) ==
    /\ edits < MaxEdits /\ edits' = edits + 1
    /\ graphCards[i].active
    /\ graphCards' = [graphCards EXCEPT ![i].title = card.title, ![i].mentions = card.mentions,
                                        ![i].point = card.point]
    /\ policy' = [j \in DOMAIN policy |-> IF j < i THEN policy[j] ELSE Stale]
    /\ UNCHANGED <<edges, adjacency>>

Archive(i) ==
    /\ edits < MaxEdits /\ edits' = edits + 1
    /\ graphCards' = [graphCards EXCEPT ![i].active = FALSE]
    /\ UNCHANGED <<edges, adjacency, policy>>

-----------------------------------------------------------------------------
(* rebuild_knowledge_graph_edges_bulk, with writers paused *)

\* The cards before i, or before an end, that are similar enough to it.
Eligible(i, ids, min) == {j \in ids : Similarity(graphCards[j].point, graphCards[i].point) >= min}
EdgesTo(i, ids) == {EdgeOf(i, j, graphCards[i].point) : j \in ids}

\* Mutant: a chunk is compared with the cards before it only.
PlanInChunksBefore(top, min) ==
    LET Start(i) == ((i - 1) \div ChunkSize) * ChunkSize
    IN  UNION {EdgesTo(i, Closest(Eligible(i, 1..Start(i), min), graphCards[i].point, top)) :
                  i \in DOMAIN graphCards}

\* plan_knowledge_graph_edges_from_embeddings: a product per chunk of rows
\* with all columns up to the end of the chunk, cut off before the row.
PlanInChunks(top, min) ==
    LET n == Len(graphCards)
        End(i) == LET e == (((i - 1) \div ChunkSize) + 1) * ChunkSize IN IF e < n THEN e ELSE n
        Columns(i) == (1..End(i)) \cap (1..(i - 1))
    IN  UNION {EdgesTo(i, Closest(Eligible(i, Columns(i), min), graphCards[i].point, top)) :
                  i \in DOMAIN graphCards}

\* plan_knowledge_graph_edges: a query per card, then the threshold, then the cut.
PlanByQueries(top, min) ==
    LET Candidates(i) == InOrder(1..(i - 1), BySimilarity(graphCards[i].point))
        Kept(i) == {k \in DOMAIN Candidates(i) :
                       Similarity(graphCards[Candidates(i)[k]].point, graphCards[i].point) >= min}
        Selected(i) == {Candidates(i)[k] : k \in {l \in Kept(i) : Cardinality(Kept(i) \cap (1..l)) <= top}}
    IN  UNION {EdgesTo(i, Selected(i)) : i \in DOMAIN graphCards}

\* replace_edges_with_adjacency: title mentions are not looked for again.
RebuildEdges(p) ==
    LET planned == PlanInChunks(p.top, p.min) IN
    /\ graphCards # <<>>
    /\ edges' = planned
    /\ adjacency' = AdjacencyOf(planned)
    /\ policy' = [i \in DOMAIN policy |-> [mention |-> 0, top |-> p.top, min |-> p.min]]
    /\ UNCHANGED <<graphCards, edits>>

-----------------------------------------------------------------------------
(* search_searchable_cards and get_connected_titles *)

ActiveCards == {i \in DOMAIN graphCards : graphCards[i].active}

One(condition) == IF condition THEN 1 ELSE 0

\* What the vector query may return: its index is approximate and the state of
\* a card is looked at after the scan, so a near card may be missing, and the
\* pool may be short.
VectorPools == {pool \in SUBSET ActiveCards : Cardinality(pool) <= VectorLimit}

\* The columns by which the text query orders.
ExactTitle(i, q) == One(graphCards[i].title = q.text)
TitlePhrase(i, q) == One(<<graphCards[i].title, q.text>> \in Phrase)
TitleAllTokens(i, q) == One(<<graphCards[i].title, q.text>> \in AllTokens)
LexicalScore(i, q) == 2 * TitleAllTokens(i, q) + One(q.text \in graphCards[i].mentions)

\* WHERE search_vector @@ ts_query.
LexicalHits(q) == {i \in ActiveCards : LexicalScore(i, q) > 0}
LexicalKey(i, q) == <<ExactTitle(i, q), TitlePhrase(i, q), TitleAllTokens(i, q), LexicalScore(i, q), -i>>
ByLexicalKey(q) ==
    {x \in (DOMAIN graphCards) \X (DOMAIN graphCards) : Exceeds(LexicalKey(x[1], q), LexicalKey(x[2], q))}
LexicalCandidates(q) == Leading(MatchLimit, LexicalHits(q), ByLexicalKey(q))

Rrf(rank) == RrfUnit \div (60 + rank)

\* Mutant: the title boosts are left out.
MatchKeyUnboosted(i, q, pool) ==
    LET lexical == i \in LexicalCandidates(q)
        v == Place(i, pool, BySimilarity(q.point))
        l == Place(i, LexicalHits(q), ByLexicalKey(q))
    IN  <<0, 0, 0, (IF i \in pool THEN Rrf(v) ELSE 0) + (IF lexical THEN Rrf(l) ELSE 0),
          IF lexical THEN LexicalScore(i, q) ELSE 0,
          IF lexical THEN -l ELSE -(MatchLimit + 1), IF i \in pool THEN -v ELSE -(MatchLimit + 1), -i>>

\* sort_key, the pool being ranked by exact distance; a card only the vector
\* query found has no boosts.
MatchKey(i, q, pool) ==
    LET vector == i \in pool  lexical == i \in LexicalCandidates(q)
        v == Place(i, pool, BySimilarity(q.point))
        l == Place(i, LexicalHits(q), ByLexicalKey(q))
        Boost(b) == IF lexical THEN b ELSE 0
    IN  <<Boost(ExactTitle(i, q)), Boost(TitlePhrase(i, q)), Boost(TitleAllTokens(i, q)),
          (IF vector THEN Rrf(v) ELSE 0) + (IF lexical THEN Rrf(l) ELSE 0),
          IF lexical THEN LexicalScore(i, q) ELSE 0,
          IF lexical THEN -l ELSE -(MatchLimit + 1), IF vector THEN -v ELSE -(MatchLimit + 1), -i>>

ByMatchKey(q, pool) ==
    LET key == [i \in DOMAIN graphCards |-> MatchKey(i, q, pool)]
    IN  {x \in (DOMAIN graphCards) \X (DOMAIN graphCards) : Exceeds(key[x[1]], key[x[2]])}
Matches(q, pool) == Leading(MatchLimit, pool \cup LexicalCandidates(q), ByMatchKey(q, pool))

\* fetch_connected_title_candidates: active neighbours that are no match, by
\* the match they are next to and by id.
ConnectedRows(matched) ==
    {r \in matched \X (ActiveCards \ matched) : [node |-> r[1], edge |-> {r[1], r[2]}] \in adjacency}
ByIds(rows) == {x \in rows \X rows : x[1][1] < x[2][1] \/ (x[1][1] = x[2][1] /\ x[1][2] < x[2][2])}

\* get_connected_titles: each title once, and none of a match, up to the limit.
ConnectedTitles(matched) ==
    LET rows == InOrder(ConnectedRows(matched), ByIds(ConnectedRows(matched)))
        excluded == {graphCards[i].title : i \in matched}
        TitleOf(k) == graphCards[rows[k][2]].title
        titles[k \in 0..Len(rows)] ==
            IF k = 0 THEN {}
            ELSE IF TitleOf(k) \in excluded \/ Cardinality(titles[k - 1]) >= ConnectedLimit THEN titles[k - 1]
            ELSE titles[k - 1] \cup {TitleOf(k)}
    IN  titles[Len(rows)]

-----------------------------------------------------------------------------

GraphNext ==
    \/ \E card \in CardText : MaterializeLinked(card) \/ CreateUnlinked(card)
    \/ \E i \in DOMAIN graphCards : Archive(i) \/ \E card \in CardText : EditText(i, card)
    \/ \E p \in RebuildPolicy : RebuildEdges(p)

GraphSpec == GraphInit /\ [][GraphNext]_graphVars

\* An edge is in the adjacency of both its cards, and nothing else is.
AdjacencyIsComplete == adjacency = AdjacencyOf(edges) /\ \A e, f \in edges : {e.a, e.b} = {f.a, f.b} => e = f

\* As long as neither a card nor the older ones have been edited, it is
\* linked to an older card by their similarity, and not linked only if that
\* is too low or as many better ones as the policy has are linked.
LinkedToBest ==
    \A n \in {x \in DOMAIN policy : policy[x] # Stale} :
        LET Near(i) == Similarity(graphCards[i].point, graphCards[n].point)
            linked == {i \in 1..(n - 1) : \E e \in edges : e.a = i /\ e.b = n}
            mentioned == {i \in 1..(n - 1) : graphCards[i].title \in graphCards[n].mentions}
            better(i) == {j \in linked : Closer(j, i, graphCards[n].point)}
        IN  /\ \A e \in edges : e.b = n => e.strength = Near(e.a)
            /\ Cardinality(linked) <= policy[n].mention + policy[n].top
            /\ \A i \in 1..(n - 1) \ linked :
                /\ Near(i) >= policy[n].min => Cardinality(better(i)) >= policy[n].top
                /\ i \in mentioned => Cardinality(better(i) \cap mentioned) >= policy[n].mention

\* The two planners, one tested against the database and one run, plan the same.
PlannersAgree == \A p \in RebuildPolicy : PlanInChunks(p.top, p.min) = PlanByQueries(p.top, p.min)

\* The columns by which q ranks the words of i, before any card is preferred
\* for its age; nothing if it is not found by its words.
Fits(i, q) ==
    IF i \in LexicalHits(q)
    THEN <<ExactTitle(i, q), TitlePhrase(i, q), TitleAllTokens(i, q), LexicalScore(i, q)>>
    ELSE <<0, 0, 0, 0>>

\* Whatever pool the vector query returns: a card that is at least as near and
\* fits the words at least as well as a match, and is older or better in both,
\* is a match before it, unless the vector query found the match and missed
\* the card; and a card that is found by its words and has the very title
\* comes before all others, in the pool or not.
SearchFavoursBetter ==
    \A q \in Query : \A pool \in VectorPools :
        LET found == Matches(q, pool)
            order == ByMatchKey(q, pool)
            Near(j) == Similarity(graphCards[j].point, q.point)
            Better(i, m) == /\ Near(i) >= Near(m) /\ ~ Exceeds(Fits(m, q), Fits(i, q))
                            /\ i < m \/ (Near(i) > Near(m) /\ Exceeds(Fits(i, q), Fits(m, q)))
        IN  \A m \in found, i \in ActiveCards :
                \/ Better(i, m) /\ (m \in pool => i \in pool)
                \/ i \in LexicalHits(q) /\ graphCards[i].title = q.text /\ graphCards[m].title # q.text
                    => i \in found /\ <<i, m>> \in order

\* Connected titles are of active cards next to a match, and no title is
\* left out for want of room when there is some.
ConnectedAreNeighbors ==
    \A matched \in SUBSET ActiveCards :
        LET Titles(ids) == {graphCards[j].title : j \in ids}
            near == Titles({x \in ActiveCards \ matched : \E i \in matched, e \in edges : {e.a, e.b} = {i, x}})
                    \ Titles(matched)
            listed == ConnectedTitles(matched)
        IN  /\ listed \subseteq near
            /\ Cardinality(listed) = IF Cardinality(near) < ConnectedLimit THEN Cardinality(near) ELSE ConnectedLimit

\* However cards are ingested, created, edited, archived and linked again:
\* edges are to the best cards, whichever planner plans them, and the titles
\* that are listed next to matches are those of all neighbours there is room for.
BestCardsAreLinked ==
    AdjacencyIsComplete /\ LinkedToBest /\ PlannersAgree /\ ConnectedAreNeighbors
=============================================================================
