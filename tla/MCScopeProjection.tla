------------------------- MODULE MCScopeProjection -------------------------
(* Finite instances of ScopeProjection: a path of three scopes, of which   *)
(* the last can be browsed.                                                *)
EXTENDS ScopeProjection, TLC

CONSTANTS root, arts, music

Path == {<<root, arts>>, <<arts, music>>}

Symmetry == Permutations(Worker) \cup Permutations(Existing) \cup Permutations(Card \ Existing)
=============================================================================
