--------------------------- MODULE MCJobService ---------------------------
EXTENDS JobService, TLC

(***************************************************************************)
(* Agents and keys are interchangeable; goroutines have their roles.       *)
(***************************************************************************)
Symmetry == Permutations(Agents) \cup Permutations(Keys)
=============================================================================
