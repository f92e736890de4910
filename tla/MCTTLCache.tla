---------------------------- MODULE MCTTLCache ----------------------------
(* Model values and symmetry for checking TTLCache. *)
EXTENDS TTLCacheRefinement, TLC

CONSTANTS c1, c2, c3, k1, k2, v1, v2, down, ctxDone

MCThreeCallers == {c1, c2, c3}
MCTwoCallers == {c1, c2}
MCOneKey == {k1}
MCTwoKeys == {k1, k2}
MCOneValue == {v1}
MCTwoValues == {v1, v2}
MCUnreliable == {down}
MCReliable == {}
MCNoSetters == {}

(* No constant names a single caller, key or value. *)
MCSymmetry == Permutations(Callers) \cup Permutations(Keys) \cup Permutations(Values)
=============================================================================
