--------------------------- MODULE SchemaMigrations ---------------------------
(* The revisions of the API database that rewrite data                      *)
(* (apps/api/alembic/versions): legacy "Unclassified" nodes become their     *)
(* parents, suggested edits become proposals, proposals get a reason.        *)
(* alembic/env.py runs all the revisions of one upgrade in one transaction:  *)
(* an upgrade that any of them refuses leaves everything as it was.          *)
EXTENDS Integers, Sequences, FiniteSets, FiniteSetsExt

CONSTANTS
    SchemaCard,    \* cards
    LegacyTree,    \* taxonomies of the first revision: sets of [id, parent, name]
    LegacyEdits,   \* contents of card_suggested_edits at the first revision
    LegacyName,    \* the name 'Unclassified'
    SchemaLower,   \* lower(name) in the index of sibling names
    SchemaSlug,    \* what the regular expressions make of a name, "" included
    NoTarget,      \* the card of a proposal that creates one
    MaxProposalId  \* bound: ids of proposals

VARIABLES
    db,         \* the tables; those a revision does not have are empty
    filedUnder,     \* ghost: regular scope each assigned card was filed under
    told,       \* ghost: what users were told of the proposal with an id
    wentBack    \* ghost: proposals have been turned back into edits

schemaVars == <<db, filedUnder, told, wentBack>>

\* The revisions in the order of their down_revision.
Revisions == <<"initial", "sibling_names", "route_slugs", "projection_requests", "hard_cut",
               "continuations", "proposals", "layouts", "reasons", "embedding_index",
               "no_virtual_scopes">>
Newest == Len(Revisions)
At(revision) == CHOOSE i \in 1 .. Newest : Revisions[i] = revision
Has(d, revision) == d.rev >= At(revision)

NoParent == 0
NoReason == "none"
Ids(rows) == {r.id : r \in rows}
Leaf(tree, id) == \A n \in tree : n.parent # id

ProposalStatus == [accepted |-> "accepted_applied", rejected |-> "rejected",
                   pending |-> "pending_review"]
LastId(rows) == IF rows = {} THEN 0 ELSE Max(Ids(rows))

\* The scope a node stands for: its nearest ancestor with a name of its own.
RegularScope(tree, id) ==
    LET up[i \in Ids(tree) \cup {NoParent}] ==
            LET n == CHOOSE m \in tree : m.id = i
            IN IF i = NoParent \/ n.name # LegacyName THEN i ELSE up[n.parent]
    IN up[id]

\* A database of the first revision.  A job names a scope and its
\* "Unclassified" child, the unique index admits one that is active for a card.
LegacyJobs(tree) ==
    {[card |-> c, scope |-> p, source |-> n.id, active |-> a] :
        c \in SchemaCard, p \in Ids(tree), a \in BOOLEAN,
        n \in {m \in tree : m.name = LegacyName}}

\* Rows of the first revision: primary keys, parents that exist and come to
\* an end at a row without one.
ASSUME SchemaConstants ==
    /\ \A tree \in LegacyTree :
           /\ IsFiniteSet(tree) /\ NoParent \notin Ids(tree)
           /\ \A m, n \in tree : m.id = n.id => m = n
           /\ \A n \in tree : n.parent \in Ids(tree) \cup {NoParent}
           /\ \E depth \in [Ids(tree) -> 0 .. Cardinality(tree)] :
                  \A n \in tree : n.parent # NoParent => depth[n.parent] < depth[n.id]
    /\ \A edits \in LegacyEdits :
           IsFiniteSet(edits) /\ \A e, f \in edits : e.id = f.id => e = f
    /\ MaxProposalId \in Nat

\* An edit refers to a version of a card.
LegacyEditRows ==
    [id : Nat \ {0}, card : SchemaCard, status : {"pending", "accepted", "rejected"}]

\* The trigger admits assignments to leaves only.  Bound: one job.
SchemaInit ==
    \E tree \in LegacyTree, edits \in LegacyEdits :
    \E assigned \in [SchemaCard -> {n.id : n \in {m \in tree : Leaf(tree, m.id)}}] :
    \E jobs \in SUBSET {j \in LegacyJobs(tree) : \E n \in tree : n.id = j.source /\ n.parent = j.scope} :
        /\ Cardinality(jobs) <= 1 /\ edits \subseteq LegacyEditRows
        /\ db = [rev |-> 1, tree |-> tree, assigned |-> assigned, jobs |-> jobs,
                 edits |-> edits, proposals |-> {}, archived |-> {}, scopes |-> {},
                 lastId |-> LastId(edits)]
        /\ filedUnder = [c \in SchemaCard |-> RegularScope(tree, assigned[c])]
        /\ told = {[id |-> e.id, kind |-> "edit", card |-> e.card,
                    status |-> ProposalStatus[e.status]] : e \in edits}
        /\ wentBack = FALSE

-----------------------------------------------------------------------------
(* Upgrades: what a revision makes of a database, nothing if it refuses it. *)

\* The unique index on parent and lower(name), for nodes that have a parent.
SiblingNames(d) ==
    IF \E m, n \in d.tree : /\ m # n /\ m.parent = n.parent /\ m.parent # NoParent
                            /\ SchemaLower[m.name] = SchemaLower[n.name]
    THEN {} ELSE {d}

\* The backfill raises on an empty slug and on siblings with one slug.
RouteSlugs(d) ==
    IF \/ \E n \in d.tree : SchemaSlug[n.name] = ""
       \/ \E m, n \in d.tree : /\ m # n /\ m.parent = n.parent
                               /\ SchemaSlug[m.name] = SchemaSlug[n.name]
    THEN {} ELSE {d}

\* _assert_no_active_taxonomy_classification_jobs.
NoActiveJobs(d) == \A j \in d.jobs : ~j.active

\* _promote_legacy_unclassified_assignments; the trigger that wants leaves
\* has been dropped.
Promoted(d) ==
    [c \in SchemaCard |->
        LET n == CHOOSE m \in d.tree : m.id = d.assigned[c]
        IN IF n.name = LegacyName /\ n.parent # NoParent THEN n.parent ELSE n.id]

\* _delete_legacy_unclassified_taxonomy_nodes: foreign keys refuse to delete a
\* node that another node, an assignment or the scope of a job refers to.
WithoutLegacyNodes(d) ==
    LET doomed == Ids({n \in d.tree : n.name = LegacyName})
        kept == {n \in d.tree : n.id \notin doomed}
    IN IF \/ \E n \in kept : n.parent \in doomed
          \/ \E c \in SchemaCard : d.assigned[c] \in doomed
          \/ \E j \in d.jobs : j.scope \in doomed
       THEN {} ELSE {[d EXCEPT !.tree = kept]}

\* The hard cut, in the order of its statements.
HardCut(d) ==
    IF NoActiveJobs(d) THEN WithoutLegacyNodes([d EXCEPT !.assigned = Promoted(d)]) ELSE {}

\* Mutant: the sequence of the new table starts at one.
CardProposalsTableFresh(d) ==
    {[d EXCEPT !.proposals = {[id |-> e.id, kind |-> "edit", card |-> e.card,
                               status |-> ProposalStatus[e.status], reason |-> NoReason, note |-> FALSE] :
                                  e \in d.edits},
               !.lastId = 0,
               !.edits = {}]}

\* Edits become proposals with the same id; the new sequence goes on after them.
CardProposalsTable(d) ==
    {[d EXCEPT !.proposals = {[id |-> e.id, kind |-> "edit", card |-> e.card,
                               status |-> ProposalStatus[e.status], reason |-> NoReason, note |-> FALSE] :
                                  e \in d.edits},
               !.lastId = LastId(d.edits),
               !.edits = {}]}

\* The reason a user gave is in no payload and an imported proposal has no
\* review note: what has a note gets it for a reason, the others a fixed text.
ProposalReasons(d) ==
    {[d EXCEPT !.proposals = {[p EXCEPT !.reason = IF p.note THEN "note" ELSE "legacy"] :
                                  p \in d.proposals}]}

\* Rows about virtual scopes are deleted before the checks are narrowed.
NoVirtualScopes(d) ==
    {[d EXCEPT !.scopes = {s \in d.scopes : s.kind = "taxonomy_node"}]}

\* The other revisions add indexes, or tables that are empty at first.
Upgraded(i, d) ==
    LET r == Revisions[i]
        made == CASE r = "sibling_names" -> SiblingNames(d)
                  [] r = "route_slugs" -> RouteSlugs(d)
                  [] r = "hard_cut" -> HardCut(d)
                  [] r = "proposals" -> CardProposalsTable(d)
                  [] r = "reasons" -> ProposalReasons(d)
                  [] r = "no_virtual_scopes" -> NoVirtualScopes(d)
                  [] OTHER -> {d}
    IN {[e EXCEPT !.rev = i] : e \in made}

\* alembic upgrade <target>: one transaction for all the revisions on the way.
UpgradeTo(target) ==
    LET at[i \in db.rev .. target] ==
            IF i = db.rev THEN {db} ELSE UNION {Upgraded(i, d) : d \in at[i - 1]}
    IN /\ db' \in at[target]
       /\ UNCHANGED <<filedUnder, told, wentBack>>

-----------------------------------------------------------------------------
(* Downgrades, one revision at a time *)

\* Columns that may not be null are added without a default: only empty
\* tables take them.
HardCutBack(d) == IF d.tree = {} /\ d.jobs = {} THEN {d} ELSE {}

\* Only edits go back, a withdrawn one as pending; archived cards come back.
EditStatus == [accepted_applied |-> "accepted", rejected |-> "rejected",
               pending_review |-> "pending", withdrawn |-> "pending"]
CardProposalsBack(d) ==
    LET edits == {[id |-> p.id, card |-> p.card, status |-> EditStatus[p.status]] :
                      p \in {q \in d.proposals : q.kind = "edit"}}
    IN {[d EXCEPT !.edits = edits, !.lastId = LastId(edits),
                  !.proposals = {}, !.archived = {}]}

\* The tables of layouts and of requests for them are dropped.
LayoutsBack(d) == {[d EXCEPT !.scopes = {s \in d.scopes : s.table = "edges"}]}

ReasonsBack(d) == {[d EXCEPT !.proposals = {[p EXCEPT !.reason = NoReason] : p \in d.proposals}]}

Downgraded(d) ==
    LET r == Revisions[d.rev]
        made == CASE r = "hard_cut" -> HardCutBack(d)
                  [] r = "proposals" -> CardProposalsBack(d)
                  [] r = "layouts" -> LayoutsBack(d)
                  [] r = "reasons" -> ReasonsBack(d)
                  [] OTHER -> {d}
    IN {[e EXCEPT !.rev = d.rev - 1] : e \in made}

\* alembic downgrade -1.
Downgrade ==
    /\ db.rev > 1
    /\ db' \in Downgraded(db)
    /\ wentBack' = (wentBack \/ (Has(db, "proposals") /\ ~Has(db', "proposals")))
    /\ UNCHANGED <<filedUnder, told>>

-----------------------------------------------------------------------------
(* What releases do between migrations *)

\* The classification worker of a legacy release finishes a job.
LegacyJobEnds ==
    /\ ~Has(db, "hard_cut")
    /\ \E j \in db.jobs : j.active /\ db' = [db EXCEPT !.jobs = {[j EXCEPT !.active = FALSE]}]
    /\ UNCHANGED <<filedUnder, told, wentBack>>

\* A release stores an edge, a layout or a layout request of a scope; those
\* before the last revision know virtual scopes.
WritesScope(table, kind) ==
    /\ Has(db, IF table = "edges" THEN "hard_cut" ELSE "layouts")
    /\ kind = "virtual_unclassified" => ~Has(db, "no_virtual_scopes")
    /\ db' = [db EXCEPT !.scopes = {[table |-> table, kind |-> kind]}]
    /\ UNCHANGED <<filedUnder, told, wentBack>>

\* submit_card_proposal of the newest release; an id in use is refused.
SubmitsProposal(kind, card) ==
    /\ db.rev = Newest /\ db.lastId < MaxProposalId
    /\ db.lastId + 1 \notin Ids(db.proposals)
    /\ LET id == db.lastId + 1 IN
           /\ db' = [db EXCEPT !.lastId = id,
                               !.proposals = @ \cup {[id |-> id, kind |-> kind, card |-> card,
                                   status |-> "pending_review", reason |-> "given", note |-> FALSE]}]
           /\ told' = {t \in told : t.id # id}
                         \cup {[id |-> id, kind |-> kind, card |-> card, status |-> "pending_review"]}
    /\ UNCHANGED <<filedUnder, wentBack>>

\* Accepted, rejected or withdrawn; an accepted deletion archives its card.
SettlesProposal(p, status, note) ==
    /\ db.rev = Newest /\ p.status = "pending_review"
    /\ status = "withdrawn" => ~note
    /\ db' = [db EXCEPT !.proposals = (@ \ {p}) \cup {[p EXCEPT !.status = status, !.note = note]},
                        !.archived = IF p.kind = "delete" /\ status = "accepted_applied"
                                     THEN @ \cup {p.card} ELSE @]
    /\ told' = {IF t.id = p.id THEN [t EXCEPT !.status = status] ELSE t : t \in told}
    /\ UNCHANGED <<filedUnder, wentBack>>

SchemaNext ==
    \/ \E target \in (db.rev + 1) .. Newest : UpgradeTo(target)
    \/ Downgrade
    \/ LegacyJobEnds
    \/ \E table \in {"edges", "layouts", "requests"}, kind \in {"taxonomy_node", "virtual_unclassified"} :
           WritesScope(table, kind)
    \/ SubmitsProposal("create", NoTarget)
    \/ \E kind \in {"edit", "delete"}, card \in SchemaCard : SubmitsProposal(kind, card)
    \/ \E p \in db.proposals, status \in {"accepted_applied", "rejected", "withdrawn"}, note \in BOOLEAN :
           SettlesProposal(p, status, note)

-----------------------------------------------------------------------------
\* What a database says of a proposal, as an edit or as a proposal.
StatusOf(t) ==
    {p.status : p \in {q \in db.proposals : q.id = t.id /\ q.kind = t.kind /\ q.card = t.card}}
    \cup {ProposalStatus[e.status] : e \in {f \in db.edits : f.id = t.id /\ f.card = t.card
                                                             /\ t.kind = "edit"}}

\* "Schema changes that alter taxonomy assignment shape require zero active
\* taxonomy-classification jobs" and "Partial silent progression after
\* migration failure is forbidden" (docs/specs/designs): however a database is
\* taken up and down, every card stays filed under its regular scope and from
\* the hard cut on directly; a decided edit keeps its id, card and decision,
\* an undecided one stays undecided, and nothing at all is lost unless
\* proposals were turned back into edits; new ids are free; and the newest
\* revision has neither virtual scopes nor proposals without a reason.
MigrationsKeepData ==
    /\ \A c \in SchemaCard :
           /\ db.assigned[c] \in Ids(db.tree)
           /\ RegularScope(db.tree, db.assigned[c]) = filedUnder[c]
           /\ Has(db, "hard_cut") => db.assigned[c] = filedUnder[c]
    /\ \A t \in told :
           LET now == StatusOf(t) IN
           IF t.kind = "edit"
           THEN IF t.status \in {"accepted_applied", "rejected"} THEN now = {t.status}
                ELSE now # {} /\ now \subseteq {"pending_review", "withdrawn"}
           ELSE now \subseteq {t.status}
    /\ ~wentBack =>
           /\ \A t \in told : StatusOf(t) = {t.status}
           /\ db.archived = {t.card : t \in {u \in told : u.kind = "delete" /\ u.status = "accepted_applied"}}
    /\ db.lastId >= LastId(db.proposals) /\ db.lastId >= LastId(db.edits)
    /\ db.rev = Newest =>
           /\ \A s \in db.scopes : s.kind = "taxonomy_node"
           /\ \A p \in db.proposals : p.reason # NoReason
           /\ \A n \in db.tree : n.name # LegacyName

SchemaSpec == SchemaInit /\ [][SchemaNext]_schemaVars
=============================================================================
