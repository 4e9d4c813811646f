------------------------- MODULE MCConstraintSolver -------------------------
(* Instances of ConstraintSolver for TLC: domains with unordered and        *)
(* repeated values, and one that add_variable refuses.                      *)
EXTENDS ConstraintSolver

MCDomains == {<<>>, <<2, 1>>, <<1, 2, 2>>}
=============================================================================
