--------------------- MODULE MCTaxonomyClassification ---------------------
(* Finite instances of TaxonomyClassification: a path of three scopes, so  *)
(* that a moved card is continued once and then reaches a scope without    *)
(* children.                                                               *)
EXTENDS TaxonomyClassification

CONSTANTS root, arts, music

Path == {<<root, arts>>, <<arts, music>>}
=============================================================================
