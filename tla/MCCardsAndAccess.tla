--------------------------- MODULE MCCardsAndAccess ---------------------------
(* Finite instances of the modules about proposals, the graph of cards and *)
(* the public search over it.  They share no state, so a behaviour is one  *)
(* of one of them: "part" says which.                                      *)
EXTENDS MCCardProposals, MCCardGraph, McpAccess

VARIABLE part

Users == [p \in Pat |-> "user"]
\* The weekly window outlives three daily ones and is full after two.
Quotas == [daily |-> 1, weekly |-> 2]
Windows == [daily |-> 1, weekly |-> 3]

\* The rotation of keys and the reads of the dashboard touch different
\* variables; McpAccess is explored with the one and with the other.
PartInit ==
    /\ part \in {"proposals", "graph", "keys", "windows"}
    /\ Init /\ GraphInit /\ McpInit

PartNext ==
    /\ UNCHANGED part
    /\ \/ part = "proposals" /\ Next /\ UNCHANGED <<graphVars, mcpVars>>
       \/ part = "graph" /\ GraphNext /\ UNCHANGED <<vars, mcpVars>>
       \/ /\ part \in {"keys", "windows"} /\ McpNext /\ UNCHANGED <<vars, graphVars>>
          /\ part = "keys" => UNCHANGED dashboard
          /\ part = "windows" => UNCHANGED rotation

PartSpec == PartInit /\ [][PartNext]_<<part, vars, graphVars, mcpVars>>
=============================================================================
