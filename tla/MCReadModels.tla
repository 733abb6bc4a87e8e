---------------------------- MODULE MCReadModels ----------------------------
(* Finite instances of the modules about what readers are shown.  They     *)
(* share no state, so a behaviour is one of one of them: "part" says which *)
(* and the variables of the others stay as they are.                       *)
EXTENDS MCScopeProjection, ScopeLayout, ViewCaches, TaxonomyTree

VARIABLE part

\* "Art" and "art!" have one slug, and "Masse" and "Masze" (for an s sharp)
\* fold to one name without being equal in lower case.
Names == {"Art", "art!", "Masse", "Masze", "Unclassified"}
AllNames == Names \cup {"Root"}
Slugs == [n \in AllNames |-> IF n = "art!" THEN "Art" ELSE n]
Lowers == [n \in AllNames |-> n]
CaseFolds == [n \in AllNames |-> IF n = "Masze" THEN "Masse" ELSE n]

PartInit ==
    /\ part \in {"projection", "layout", "caches", "tree"}
    /\ Init /\ LayoutInit /\ CacheInit /\ TreeInit
    /\ part # "projection" => \A c \in Existing : scopeOf[c] = Root

PartNext ==
    /\ UNCHANGED part
    /\ \/ part = "projection" /\ Next /\ UNCHANGED <<layoutVars, cacheVars, treeVars>>
       \/ part = "layout" /\ LayoutNext /\ UNCHANGED <<vars, cacheVars, treeVars>>
       \/ part = "caches" /\ CacheNext /\ UNCHANGED <<vars, layoutVars, treeVars>>
       \/ part = "tree" /\ TreeNext /\ UNCHANGED <<vars, layoutVars, cacheVars>>

allVars == <<part, vars, layoutVars, cacheVars, treeVars>>

PartSpec == PartInit /\ [][PartNext]_allVars /\ LayoutFairness
=============================================================================
