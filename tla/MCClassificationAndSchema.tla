---------------------- MODULE MCClassificationAndSchema ----------------------
(* Finite instances of the modules about where cards are filed: by the       *)
(* classification runtime, by the operator's agents and by the migrations of *)
(* the database.  They share no state, so a behaviour is one of one of them: *)
(* "part" says which.                                                        *)
EXTENDS MCTaxonomyClassification, CursorSessions, SchemaMigrations

VARIABLE part

Node(id, parent, name) == [id |-> id, parent |-> parent, name |-> name]
Top == Node(1, 0, "Root")

\* An ordinary tree; chains of legacy nodes; a legacy node with a child, and
\* one that is the root; names that clash in their slug, have none, or differ
\* in case only.
LegacyTrees == {
    {Top, Node(2, 1, "Art"), Node(3, 2, "Unclassified"), Node(4, 1, "Unclassified")},
    {Top, Node(2, 1, "Unclassified"), Node(3, 2, "Unclassified")},
    {Top, Node(2, 1, "Unclassified"), Node(3, 2, "Art")},
    {Node(1, 0, "Unclassified"), Node(2, 1, "Art")},
    {Top, Node(2, 1, "Art"), Node(3, 1, "art!")},
    {Top, Node(2, 1, "Art"), Node(3, 1, "!")},
    {Top, Node(2, 1, "Art"), Node(3, 1, "art")}}

LegacyNames == {"Root", "Art", "art", "art!", "!", "Unclassified"}
Lowers == [n \in LegacyNames |-> IF n = "Art" THEN "art" ELSE n]
Slugs == [n \in LegacyNames |->
            IF n \in {"Art", "art!"} THEN "art" ELSE IF n = "!" THEN "" ELSE n]

Edit(status) == [id |-> 1, card |-> "card", status |-> status]
EditTables == {{}, {Edit("accepted")}, {Edit("pending")}, {Edit("rejected")}}

\* Bound: legacy jobs, edits or proposals, and rows about scopes never meet
\* and are explored apart.
Apart ==
    /\ db.jobs = {} \/ db.edits \cup db.proposals = {}
    /\ db.scopes = {} \/ db.edits \cup db.proposals = {}

PartInit ==
    /\ part \in {"runtime", "sessions", "schema"}
    /\ Init /\ CursorInit /\ SchemaInit
    /\ Apart
    /\ part # "schema" =>
           /\ db.tree = {Top, Node(2, 1, "Art"), Node(3, 1, "art")}
           /\ db.edits = {} /\ db.assigned = [c \in SchemaCard |-> 2]

PartNext ==
    /\ UNCHANGED part
    /\ \/ part = "runtime" /\ Next /\ UNCHANGED <<cursorVars, schemaVars>>
       \/ part = "sessions" /\ CursorNext /\ UNCHANGED <<vars, schemaVars>>
       \/ part = "schema" /\ SchemaNext /\ Apart' /\ UNCHANGED <<vars, cursorVars>>

allVars == <<part, vars, cursorVars, schemaVars>>

PartSpec == PartInit /\ [][PartNext]_allVars /\ ClassificationFairness
=============================================================================
