------------------------------- MODULE Truth -------------------------------
(***************************************************************************)
(* The three-valued logic of the engine (native/niyah_core.c): Kleene's    *)
(* strong connectives over FALSE, UNKNOWN and TRUE.                        *)
(***************************************************************************)

NiyahTruth == {"false", "unknown", "true"}

Not(a) == CASE a = "true" -> "false" [] a = "false" -> "true" [] OTHER -> "unknown"

And(a, b) ==
  CASE a = "false" \/ b = "false" -> "false"
    [] a = "true" /\ b = "true" -> "true"
    [] OTHER -> "unknown"

Or(a, b) ==
  CASE a = "true" \/ b = "true" -> "true"
    [] a = "false" /\ b = "false" -> "false"
    [] OTHER -> "unknown"

Implies(a, b) == Or(Not(a), b)

\* b says everything a says, and perhaps more
Refines(b, a) == a = "unknown" \/ b = a

=============================================================================
