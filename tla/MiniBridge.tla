----------------------------- MODULE MiniBridge -----------------------------
(***************************************************************************)
(* NiyahMini behind the engine's own interface                             *)
(* (native/niyah_mini/niyah_mini_bridge.c): a wrapped model is filled or   *)
(* loaded (MiniModel) and then converted to a NiyahModel, with which       *)
(* niyah_llm_generate (Inference) produces text.  The engine's model       *)
(* borrows the block, so the wrapped model is left alone from then on.     *)
(***************************************************************************)
EXTENDS Inference

CONSTANTS MiniConfigs, FileSizes, MiniPrompts, MaxNew, MaxLayers, MaxDim, MaxHeads, MaxSeq,
          Specials, ByteValues, Nul, MaxTokenLen, MaxVocab   \* of MiniModel

VARIABLES
  wrapped, mini, cache, cacheLength, step, ids, task, context, answer,   \* of MiniModel
  origin   \* where the block behind llm->model comes from; "none" before Convert

M == INSTANCE MiniModel

miniVars == <<wrapped, mini, cache, cacheLength, step, ids, task, context, answer>>

BridgeInit == Init /\ M!Init /\ origin = "none"

\* to_niyah_model: the wrapper's configuration and whatever block there is
Convert ==
  /\ origin = "none" /\ step = "idle"
  /\ model' = [config |-> M!Converted(wrapped.config),
               floats |-> IF mini.block = "none" THEN 0 ELSE M!BlockFloats(mini.config)]
  /\ origin' = IF mini.block = "none" THEN origin ELSE mini.block
  /\ UNCHANGED <<vocab, pc, tokens, call, slots, length, seen, output, miniVars>>

BridgeNext ==
  \/ /\ origin = "none" /\ M!Next
     /\ UNCHANGED <<vars, origin>>
  \/ Convert
  \/ /\ \/ \E lines \in Vocabularies : LoadVocabulary(lines)
        \/ \E text \in Prompts : GenerateRefused(text)
        \/ \E text \in Prompts, n \in 1 .. MaxTokens : Generate(text, n)
        \/ Continue
     /\ UNCHANGED <<miniVars, origin>>

BridgeSpec == BridgeInit /\ [][BridgeNext]_<<vars, miniVars, origin>>

-----------------------------------------------------------------------------

\* The bridge keeps the engine's contract of no output without loaded weights
\* (niyah_mini_bridge.h:13-14): a text comes from a block that was read, all of
\* it, from a weights file.  It does not hold: the conversion looks at the
\* block and not at the flag, and initialisation makes a block too.
OnlyLoadedSpeaks == output.status = "ok" => origin = "file"

=============================================================================
