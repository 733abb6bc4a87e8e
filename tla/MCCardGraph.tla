------------------------------ MODULE MCCardGraph ------------------------------
(* Texts of cards and of queries for the graph of cards.                   *)
EXTENDS CardGraph

\* Two cards of one title, a title that contains another as a phrase, and
\* one that only has its words; points on a line.
Texts == {[title |-> "sum", mentions |-> {}, point |-> 0],
          [title |-> "sum", mentions |-> {"sum rule"}, point |-> 2],
          [title |-> "sum rule", mentions |-> {"sum"}, point |-> 1],
          [title |-> "rule of sum", mentions |-> {"sum rule"}, point |-> 1]}
Sim(p, q) == 2 - (IF p > q THEN p - q ELSE q - p)
Phrases == {<<"sum", "sum">>, <<"sum rule", "sum rule">>, <<"rule of sum", "rule of sum">>,
            <<"sum rule", "sum">>, <<"rule of sum", "sum">>, <<"rule of sum", "of">>}
Tokens == (Phrases \ {<<"rule of sum", "of">>}) \cup {<<"rule of sum", "sum rule">>}
\* "of" is in a title and no word that is searched for.
Queries == [text : {"sum", "sum rule", "rule of sum", "of"}, point : {0, 1, 2}]
Unit == 61 * 62 * 63
\* With no edges: a card that is linked by this is as one that is not linked.
NoStrength == Stale.min
Policies == {[top |-> 1, min |-> 1], [top |-> 2, min |-> 0]}
=============================================================================
