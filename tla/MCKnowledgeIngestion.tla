------------------------ MODULE MCKnowledgeIngestion ------------------------
(* Finite instances of KnowledgeIngestion: calls, keys and cards are       *)
(* interchangeable.                                                        *)
EXTENDS KnowledgeIngestion, TLC

Symmetry == Permutations(Call) \cup Permutations(Key) \cup Permutations(Card)
=============================================================================
