------------------------- MODULE MC_AmiDispatcher -------------------------
(* Model-checking instance of AmiDispatcher: two callers (model values),   *)
(* EventLists of at most one middle event, unsolicited events as the cfg   *)
(* says.                                                                   *)
EXTENDS AmiDispatcher, TLC

CONSTANTS c1, c2

MC_Callers == {c1, c2}

(* The callers differ only in their ActionID, so swapping them maps        *)
(* behaviours to behaviours; used only by runs without liveness.          *)
MC_Symmetry == Permutations(MC_Callers)

=============================================================================
