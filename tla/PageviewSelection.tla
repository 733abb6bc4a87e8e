--------------------------- MODULE PageviewSelection ---------------------------
(***************************************************************************)
(* The selection of pages by their Pageviews: monthly top lists are added  *)
(* up by title, titles that redirect are joined with their page, and the   *)
(* best pages that are not rejected are written as candidates.             *)
(***************************************************************************)
EXTENDS Integers, Sequences, FiniteSets, Ordering

CONSTANTS
    Month,
    ArticleTitle,       \* normalized titles, as numbers in their order
    RedirectTo,         \* the page of each title: itself, or another title
    TitleRejected,      \* titles for which there is a reject reason
    Disambiguation,     \* titles of disambiguation pages
    ArticleOf,          \* titles with a document, their page and the length of its text
    LeadRejected,       \* pages that their lead text rejects
    AlreadyProcessed,   \* pages with a processed marker
    MinTextLength,
    MaxPages,
    StableMonthBonus,
    MonthViews,         \* bound: the views of a title in a month
    MaxTop              \* bound: length of a top list

ASSUME SelectionConstants ==
    /\ IsFiniteSet(Month) /\ IsFiniteSet(ArticleTitle) /\ ArticleTitle \subseteq Int
    /\ RedirectTo \in [ArticleTitle -> ArticleTitle]
    /\ \A t, u \in DOMAIN ArticleOf : ArticleOf[t].page = ArticleOf[u].page => t = u
    /\ MaxPages \in Nat \ {0} /\ StableMonthBonus \in Nat
    /\ MonthViews \subseteq Nat /\ MaxTop \in Nat

VARIABLES
    top,            \* the top list of each month that was fetched
    candidateRows   \* selected_pageview_candidates.jsonl

selectionVars == <<top, candidateRows>>

NotSelected == <<[rank |-> 0]>>

TopLists == UNION {[1..n -> [title : ArticleTitle, views : MonthViews]] : n \in 0..MaxTop}

SelectionInit == top = <<>> /\ candidateRows = NotSelected

\* fetch_month_payloads: a month that cannot be fetched is left out.
Fetch ==
    /\ top = <<>>
    /\ \E months \in SUBSET Month \ {{}} : top' \in [months -> TopLists]
    /\ UNCHANGED candidateRows

\* The ranks that a title has in a month; spellings may repeat a title.
Ranks(m, t) == {k \in DOMAIN top[m] : top[m][k].title = t}
MonthsOf(t) == {m \in DOMAIN top : Ranks(m, t) # {}}

Page(t, views, months, best) ==
    [title |-> t, views |-> views, months |-> months, best |-> best,
     score |-> views + months * StableMonthBonus]

\* Mutant: a title that is repeated in a month is added up.
AggregatedWithRepeats(t) ==
    LET views == [s \in {x \in (DOMAIN top) \X (1..MaxTop) : x[2] \in Ranks(x[1], t)} |-> top[s[1]][s[2]].views]
    IN  Page(t, Total(views), Cardinality(MonthsOf(t)), Least(UNION {Ranks(m, t) : m \in MonthsOf(t)}))

\* aggregate_pageviews: in each month the first spelling counts.
Aggregated(t) ==
    LET views == [m \in MonthsOf(t) |-> top[m][Least(Ranks(m, t))].views]
    IN  Page(t, Total(views), Cardinality(MonthsOf(t)), Least(UNION {Ranks(m, t) : m \in MonthsOf(t)}))

Aggregates == {Aggregated(t) : t \in {x \in ArticleTitle : MonthsOf(x) # {}}}

\* canonicalize_aggregates: a page has been seen as often as the title of
\* it that was seen most often.
Joined(c) ==
    LET group == {a \in Aggregates : RedirectTo[a.title] = c}
    IN  Page(c, Total([a \in group |-> a.views]), Greatest({a.months : a \in group}), Least({a.best : a \in group}))
Canonical == {Joined(c) : c \in {RedirectTo[a.title] : a \in Aggregates}}

SortKey(a) == <<a.score, a.months, a.views, -a.best, -a.title>>
BySortKey == {x \in Canonical \X Canonical : Exceeds(SortKey(x[1]), SortKey(x[2]))}

\* The reasons for which build_candidate_rows leaves a page out.
Rejected(t) ==
    \/ t \in TitleRejected \cup Disambiguation
    \/ t \notin DOMAIN ArticleOf
    \/ ArticleOf[t].page \in AlreadyProcessed
    \/ ArticleOf[t].length < MinTextLength
    \/ ArticleOf[t].page \in LeadRejected

\* build_candidate_rows: the pages in order, but for those it leaves out,
\* until there are enough rows.
CandidateRows ==
    LET pages == InOrder(Canonical, BySortKey)
        kept == {k \in DOMAIN pages : ~ Rejected(pages[k].title)}
        Rank(k) == Cardinality(kept \cap (1..k))
        Written(rank) == pages[CHOOSE k \in kept : Rank(k) = rank]
    IN  [rank \in 1..(IF Cardinality(kept) < MaxPages THEN Cardinality(kept) ELSE MaxPages) |->
            LET page == Written(rank)
            IN  [rank |-> rank, page |-> ArticleOf[page.title].page, views |-> page.views,
                 months |-> page.months, score |-> page.score]]

\* main, from the lists to write_outputs.
Select ==
    /\ top # <<>> /\ candidateRows = NotSelected
    /\ candidateRows' = CandidateRows
    /\ UNCHANGED top

SelectionNext == Fetch \/ Select

SelectionSpec == SelectionInit /\ [][SelectionNext]_selectionVars

\* The views of a page are those of all its titles, each once a month; its
\* months are those of the title that was seen most often.
ViewsOf(t) ==
    LET seen == {s \in (DOMAIN top) \X ArticleTitle : RedirectTo[s[2]] = t /\ Ranks(s[1], s[2]) # {}}
    IN  Total([s \in seen |-> top[s[1]][Least(Ranks(s[1], s[2]))].views])
MonthsSeen(t) == Greatest({Cardinality(MonthsOf(x)) : x \in {y \in ArticleTitle : RedirectTo[y] = t}})
SeenAs(t) == \E x \in ArticleTitle : RedirectTo[x] = t /\ MonthsOf(x) # {}
ScoreOf(t) == ViewsOf(t) + MonthsSeen(t) * StableMonthBonus

\* However the lists repeat and rename a page, the file has it once, with
\* all its views, only if nothing rejects it, no better page before or
\* instead of it, and no more pages than were asked for.
SelectedBestFirst ==
    candidateRows # NotSelected =>
        LET titles == {t \in DOMAIN ArticleOf : SeenAs(t) /\ ~ Rejected(t)}
            TitleOf(row) == CHOOSE t \in titles : ArticleOf[t].page = row.page
            rows == {candidateRows[i] : i \in DOMAIN candidateRows}
        IN
        /\ Len(candidateRows) = IF Cardinality(titles) < MaxPages THEN Cardinality(titles) ELSE MaxPages
        /\ Cardinality({row.page : row \in rows}) = Len(candidateRows)
        /\ \A row \in rows :
            /\ \E t \in titles : ArticleOf[t].page = row.page
            /\ row.views = ViewsOf(TitleOf(row))
            /\ row.score = ScoreOf(TitleOf(row))
        /\ \A i \in 2..Len(candidateRows) : candidateRows[i - 1].score >= candidateRows[i].score
        /\ \A t \in titles, row \in rows :
               (\A r \in rows : r.page # ArticleOf[t].page) => row.score >= ScoreOf(t)
=============================================================================
