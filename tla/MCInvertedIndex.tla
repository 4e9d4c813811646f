--------------------------- MODULE MCInvertedIndex ---------------------------
(***************************************************************************)
(* Instances of InvertedIndex: texts without a token, with one, with one   *)
(* that is repeated, and one that the token limit cuts.                    *)
(***************************************************************************)
EXTENDS InvertedIndex

CONSTANTS a, b

MCTerm  == {a, b}
MCTexts == {<<>>, <<b>>, <<a, b, a>>, <<b, b, a, a>>}

=============================================================================
