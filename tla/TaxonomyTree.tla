---------------------------- MODULE TaxonomyTree ----------------------------
(***************************************************************************)
(* The taxonomy as it is stored (rows with a parent, and one assignment    *)
(* per card) and the ways in which the code reads it: route paths, scope   *)
(* paths, counts, views, the targets of a layout precompute run, and the   *)
(* scopes whose edges are projected.  Each statement changes the tables    *)
(* under their constraints; a command that fails changes nothing.          *)
(***************************************************************************)
EXTENDS Integers, Sequences, FiniteSets, SequencesExt, Ordering

CONSTANTS
    Name,           \* names of taxonomy nodes
    RootName,
    ReservedName,   \* UNCLASSIFIED_NODE_NAME
    SlugOf,         \* slugify_taxonomy_route_segment
    LowerOf,        \* lower() of PostgreSQL
    CaseFoldOf,     \* casefold() of Python
    AssignedCard,   \* cards
    MaxTreeNodes    \* bound: rows of the tree

ASSUME TreeConstants ==
    /\ RootName \notin Name /\ ReservedName \in Name
    /\ DOMAIN SlugOf = Name \cup {RootName}
    /\ DOMAIN LowerOf = Name \cup {RootName}
    /\ DOMAIN CaseFoldOf = Name \cup {RootName}
    /\ IsFiniteSet(AssignedCard) /\ MaxTreeNodes \in Nat \ {0}

VARIABLES
    tree,           \* the rows by id; the root's parent is 0
    home            \* the node each card is assigned to, or 0

treeVars == <<tree, home>>

Row == [parent : 0..MaxTreeNodes, name : Name \cup {RootName}, depth : 0..MaxTreeNodes]

Ids == DOMAIN tree

TreeInit == tree = <<>> /\ home = [c \in AssignedCard |-> 0]

-----------------------------------------------------------------------------
(* Writers *)

\* Mutant: the slug of a sibling is not looked at.
MayInsertByName(t, parent, name) ==
    /\ Len(t) < MaxTreeNodes
    /\ \A i \in DOMAIN t : t[i].parent = parent => parent # 0 /\ t[i].name # name

\* The constraints of taxonomy_nodes.
MayInsert(t, parent, name) ==
    /\ Len(t) < MaxTreeNodes
    /\ \A i \in DOMAIN t : t[i].parent = parent =>
        /\ parent # 0
        /\ SlugOf[t[i].name] # SlugOf[name]
        /\ LowerOf[t[i].name] # LowerOf[name]

\* create_taxonomy_node.
WithNode(t, parent, name, depth) == Append(t, [parent |-> parent, name |-> name, depth |-> depth])

\* ensure_root.
EnsuredRoot == IF tree = <<>> THEN WithNode(tree, 0, RootName, 0) ELSE tree
RootId == CHOOSE i \in Ids : tree[i].parent = 0

\* create_regular_child.
CreateRegularChild(parent, name) ==
    /\ name # ReservedName
    /\ MayInsert(tree, parent, name)
    /\ tree' = WithNode(tree, parent, name, tree[parent].depth + 1)
    /\ UNCHANGED home

\* assign_node_to_root.
AssignToRoot(c) ==
    /\ tree' = EnsuredRoot
    /\ home' = [home EXCEPT ![c] = 1]

\* set_current_assignment.
SetCurrentAssignment(c, n) ==
    /\ home' = [home EXCEPT ![c] = n]
    /\ UNCHANGED tree

\* assign_unassigned_nodes_to_taxonomy_node.
UnassignedTo(n) == [c \in AssignedCard |-> IF home[c] = 0 THEN n ELSE home[c]]

\* The root assignment backfill.
Backfill ==
    /\ tree' = EnsuredRoot
    /\ home' = UnassignedTo(1)

\* What the parser makes of a YAML document: its nodes, parents first.
Documents ==
    UNION {{d \in [1..n -> [parent : 0..n, name : Name]] : \A i \in 1..n : d[i].parent < i} :
                n \in 1..(MaxTreeNodes - 1)}

\* _validate_route_slugs.
ValidDocument(doc) ==
    \A i \in DOMAIN doc :
        /\ doc[i].name # ReservedName
        /\ \A j \in DOMAIN doc :
            (j # i /\ doc[j].parent = doc[i].parent) => SlugOf[doc[j].name] # SlugOf[doc[i].name]

\* import_yaml_text: into an empty store, in one transaction.
Import(doc) ==
    LET depth[i \in 0..Len(doc)] == IF i = 0 THEN 0 ELSE depth[doc[i].parent] + 1
        Add(t, i) == IF MayInsert(t, doc[i].parent + 1, doc[i].name)
                     THEN WithNode(t, doc[i].parent + 1, doc[i].name, depth[i])
                     ELSE t
        grown[i \in 0..Len(doc)] == IF i = 0 THEN EnsuredRoot ELSE Add(grown[i - 1], i)
    IN
    /\ tree = <<>> /\ ValidDocument(doc)
    /\ tree' = grown[Len(doc)]
    /\ Len(tree') = Len(doc) + 1
    /\ UNCHANGED home

TreeNext ==
    \/ \E doc \in Documents : Import(doc)
    \/ \E n \in Ids, name \in Name : CreateRegularChild(n, name)
    \/ \E c \in AssignedCard : AssignToRoot(c)
    \/ \E c \in AssignedCard, n \in Ids : SetCurrentAssignment(c, n)
    \/ Backfill

-----------------------------------------------------------------------------
(* Paths *)

\* list_children.
ChildrenOf(n) == {i \in Ids : tree[i].parent = n}

\* _build_breadcrumb: the nodes from the root to n.
Breadcrumb(n) ==
    LET chain[i \in Ids] == IF tree[i].parent = 0 THEN <<i>> ELSE Append(chain[tree[i].parent], i)
    IN  chain[n]

\* _build_route_paths_by_id: the slugs below the root.
RoutePath(n) == [i \in 1..(Len(Breadcrumb(n)) - 1) |-> SlugOf[tree[Breadcrumb(n)[i + 1]].name]]

\* The node found by going down, or -1 where there is none or more than one.
Descend(path, start, label) ==
    LET Down(n, segment) ==
            LET matches == {i \in ChildrenOf(n) : n # -1 /\ label[i] = segment}
            IN  IF Cardinality(matches) = 1 THEN CHOOSE i \in matches : TRUE ELSE -1
        at[k \in 0..Len(path)] == IF k = 0 THEN start ELSE Down(at[k - 1], path[k])
    IN  at[Len(path)]

\* _resolve_scope_by_route_path: from the root, whose own path is empty.
ResolveRoutePath(path) == Descend(path, RootId, [i \in Ids |-> SlugOf[tree[i].name]])

\* resolve_scope_path: by names, from above the root.
ResolveScopePath(path) == Descend(path, 0, [i \in Ids |-> CaseFoldOf[tree[i].name]])

\* resolve_scope_name.
ResolveScopeName(name) ==
    LET candidates == {i \in Ids : CaseFoldOf[tree[i].name] = CaseFoldOf[name]}
    IN  IF Cardinality(candidates) = 1 THEN CHOOSE i \in candidates : TRUE ELSE -1

-----------------------------------------------------------------------------
(* Counts and views *)

\* _load_direct_card_counts.
DirectCount(n) == Cardinality({c \in AssignedCard : home[c] = n})

\* _visible_direct_card_counts: cards of the root and of branches wait there
\* for their classification and are not shown.
VisibleDirectCount(n) == IF tree[n].parent = 0 \/ ChildrenOf(n) # {} THEN 0 ELSE DirectCount(n)

\* The key by which the loop goes through the nodes, deepest first.
Deeper(i, j) == tree[i].depth > tree[j].depth \/ (tree[i].depth = tree[j].depth /\ i > j)
DeepestFirst == {x \in Ids \X Ids : Deeper(x[1], x[2])}

AddToParent(counts, n) ==
    IF tree[n].parent = 0 THEN counts ELSE [counts EXCEPT ![tree[n].parent] = @ + counts[n]]

\* Mutant: the parents are served before their children.
DescendantCountsTopDown ==
    LET order == InOrder(Ids, {x \in Ids \X Ids : Deeper(x[2], x[1])})
        counts[k \in 0..Len(order)] == IF k = 0 THEN [n \in Ids |-> VisibleDirectCount(n)]
                                       ELSE AddToParent(counts[k - 1], order[k])
    IN  counts[Len(order)]

\* The loop of _load_descendant_card_counts, deepest nodes first.
DescendantCounts ==
    LET order == InOrder(Ids, DeepestFirst)
        counts[k \in 0..Len(order)] == IF k = 0 THEN [n \in Ids |-> VisibleDirectCount(n)]
                                       ELSE AddToParent(counts[k - 1], order[k])
    IN  counts[Len(order)]

\* _visible_child_ids.
VisibleChildren(n) == LET counts == DescendantCounts IN {i \in ChildrenOf(n) : counts[i] > 0}

\* The kind of the view of a node, _get_scope_view_from_tree_context.
NodeKind(n) ==
    IF ChildrenOf(n) # {} \/ DirectCount(n) <= 0 \/ n = RootId THEN "branch" ELSE "card_scope"

\* The kind under which its parent's view offers a child, _view_children_from_node_ids.
OfferedKind(n) == IF ChildrenOf(n) # {} THEN "branch" ELSE "card_scope"

\* _resolve_card_scope_visibility lets a layout request through.
IsCardScope(n) ==
    /\ n # RootId /\ DirectCount(n) > 0
    /\ ChildrenOf(n) = {} /\ VisibleChildren(n) = {}

\* list_card_scope_precompute_targets.
PrecomputeTargets ==
    LET counts == DescendantCounts IN {n \in Ids : counts[n] > 0 /\ VisibleChildren(n) = {}}

\* _active_scope_identities: the scopes whose edges a rebuild projects.
ActiveScopes == {n \in Ids : DirectCount(n) > 0 /\ tree[n].parent # 0 /\ ChildrenOf(n) = {}}

\* list_scope_identities_for_node_ids of all cards: the scopes to which a
\* new edge is added.
ScopesOfCards == {n \in {home[c] : c \in AssignedCard} \ {0} : tree[n].parent # 0 /\ ChildrenOf(n) = {}}

\* The nodes a reader comes to from the root view.
Browsed ==
    LET shown[n \in Ids] == tree[n].parent = 0 \/ (n \in VisibleChildren(tree[n].parent) /\ shown[tree[n].parent])
    IN  {n \in Ids : shown[n]}

-----------------------------------------------------------------------------

TreeSpec == TreeInit /\ [][TreeNext]_treeVars

\* A link to a node leads to that node: its route path resolves to it, and
\* its name and the path of its names resolve to it or are refused as ambiguous.
NodesAreAddressable ==
    \A n \in Ids :
        /\ ResolveRoutePath(RoutePath(n)) = n
        /\ ResolveScopeName(tree[n].name) \in {n, -1}
        /\ ResolveScopePath([i \in DOMAIN Breadcrumb(n) |-> CaseFoldOf[tree[Breadcrumb(n)[i]].name]]) \in {n, -1}

\* Whatever the tree and the assignments are: the precompute run prepares
\* exactly the card scopes that a reader can browse to, open by their path,
\* ask a layout of, and whose edges are projected; each is offered as what
\* it is; and what a node counts are the cards of the card scopes below it.
ScopesAgree ==
    tree # <<>> =>
        LET scopes == PrecomputeTargets IN
        /\ scopes = {n \in Ids : NodeKind(n) = "card_scope"}
        /\ scopes = {n \in Ids : IsCardScope(n)}
        /\ scopes = ActiveScopes
        /\ scopes = ScopesOfCards
        /\ scopes = {n \in Browsed : n # RootId /\ OfferedKind(n) = "card_scope"}
        /\ \A n \in Ids : DescendantCounts[n] =
               Cardinality({c \in AssignedCard : home[c] \in scopes /\ Contains(Breadcrumb(home[c]), n)})
=============================================================================
