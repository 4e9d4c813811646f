----------------------------- MODULE MiniModel -----------------------------
(***************************************************************************)
(* NiyahMini (native/niyah_mini): a small model of its own with a          *)
(* configuration, a block of weights and a key/value cache that outlives   *)
(* the calls, wrapped by niyah_mini_bridge.c with a flag that says whether *)
(* its weights were loaded.  Weights are abstracted to where the block     *)
(* came from, hidden states as in KVCache.                                 *)
(***************************************************************************)
EXTENDS Integers, Sequences, SequencesExt, KVCache

CONSTANTS
  MiniConfigs,   \* configurations of callers and, over the preset, of files
  FileSizes,     \* sizes of weight files, in floats
  MiniPrompts,   \* token sequences passed to niyah_mini_generate
  MaxNew,        \* bound: largest max_tokens
  MaxLayers, MaxDim, MaxHeads, MaxSeq,  \* NIYAH_MAX_LAYERS, ..., NIYAH_MAX_SEQ_LEN
  Specials, ByteValues, Nul, MaxTokenLen, MaxVocab   \* of MiniVocab

\* NiyahMiniConfig, of the fields that vary
Configuration ==
  [n_layers : Int, n_dim : Int, n_heads : Int, n_kv_heads : Int, n_ff : Int,
   n_vocab : Int, n_ctx : Int, tie_word_embeddings : BOOLEAN]

MiniAssumption ==
  /\ MiniConfigs \subseteq Configuration /\ MiniPrompts \subseteq Seq(Nat)
  /\ FileSizes \subseteq Nat
  /\ {MaxNew, MaxLayers, MaxDim, MaxHeads, MaxSeq, MaxVocab} \subseteq Nat

V == INSTANCE MiniVocab

VARIABLES
  wrapped,     \* config and weights_loaded of the wrapper
  mini,        \* wrapped.mini_model: config, block (where its weights are from)
  cache,       \* kv_cache_k, kv_cache_v: <<>> when not allocated
  cacheLength, \* kv_cache_seq_len
  step,        \* "idle", "prompt" or "generate"
  ids,         \* the prompt and the tokens put out so far
  task,        \* n_prompt, max_tokens, and the token to put out next
  context,     \* history: what the last logits were computed from
  answer       \* status of the last generation

vars == <<wrapped, mini, cache, cacheLength, step, ids, task, context, answer>>
modelVars == <<wrapped, mini, cache, cacheLength>>
callVars == <<step, ids, task, context, answer>>

BOS == 1
EOS == 2

\* niyah_mini_config_validate, of the fields that vary
Valid(c) ==
  /\ c.n_layers \in 1 .. MaxLayers /\ c.n_dim \in 1 .. MaxDim /\ c.n_heads \in 1 .. MaxHeads
  /\ c.n_kv_heads \in 1 .. c.n_heads /\ c.n_ff > 0
  /\ c.n_vocab \in 1 .. MaxVocab /\ c.n_ctx \in 1 .. MaxSeq
  /\ c.n_dim % c.n_heads = 0 /\ c.n_heads % c.n_kv_heads = 0

KvWidth(c) == c.n_kv_heads * (c.n_dim \div c.n_heads)

\* The floats of a block: embedding, the layers, final_norm, and a head that is
\* not tied (niyah_mini_config_n_params counts the same)
BlockFloats(c) ==
  LET dim == c.n_dim
      layer == 2 * dim + 2 * dim * dim + 2 * KvWidth(c) * dim + 3 * c.n_ff * dim
  IN  c.n_vocab * dim + c.n_layers * layer + dim
      + (IF c.tie_word_embeddings THEN 0 ELSE c.n_vocab * dim)

NoConfig == [n_layers |-> 0, n_dim |-> 0, n_heads |-> 0, n_kv_heads |-> 0, n_ff |-> 0,
             n_vocab |-> 0, n_ctx |-> 0, tie_word_embeddings |-> FALSE]
Nothing == [config |-> NoConfig, block |-> "none"]
NoTask == [prompt |-> <<>>, n_prompt |-> 0, max_tokens |-> 0,
           next |-> 0]

Init ==
  /\ wrapped = [config |-> NoConfig, loaded |-> FALSE] /\ mini = Nothing
  /\ cache = <<>> /\ cacheLength = 0
  /\ step = "idle" /\ ids = <<>> /\ task = NoTask /\ context = {} /\ answer = "none"

-----------------------------------------------------------------------------
(* Weights                                                                 *)

\* model_init: zeroes the model, then fills a block with small numbers
InitModel(c) ==
  \/ Valid(c) /\ mini' = [config |-> c, block |-> "initial"]
  \/ mini' = Nothing   \* an invalid configuration or no memory

WrappedInit(c) ==
  /\ step = "idle"
  /\ InitModel(c)
  /\ wrapped' = [config |-> c, loaded |-> FALSE]
  /\ cache' = <<>> /\ cacheLength' = 0
  /\ UNCHANGED callVars

\* Mutant: a load that fails keeps the flag of an earlier one
LoadFailsSilently(c) ==
  /\ step = "idle"
  /\ \/ mini' = mini /\ UNCHANGED <<cache, cacheLength>>
     \/ /\ Valid(c) /\ cache' = <<>> /\ cacheLength' = 0
        /\ \/ mini' = Nothing
           \/ \E block \in {"initial", "mixed"} : mini' = [config |-> c, block |-> block]
  /\ UNCHANGED <<wrapped, callVars>>

\* The configuration cannot be read or is invalid and the model stays; or there
\* is no memory, the file has another size, or it breaks off while it is read,
\* and the model was freed before
LoadFails(c) ==
  /\ step = "idle"
  /\ \/ mini' = mini /\ UNCHANGED <<cache, cacheLength>>
     \/ /\ Valid(c) /\ cache' = <<>> /\ cacheLength' = 0
        /\ \/ mini' = Nothing
           \/ \E block \in {"initial", "mixed"} : mini' = [config |-> c, block |-> block]
  /\ wrapped' = [wrapped EXCEPT !.loaded = FALSE]
  /\ UNCHANGED callVars

WrappedLoad(c, size) ==
  /\ step = "idle" /\ Valid(c) /\ size = BlockFloats(c)
  /\ mini' = [config |-> c, block |-> "file"]
  /\ wrapped' = [config |-> c, loaded |-> TRUE]
  /\ cache' = <<>> /\ cacheLength' = 0
  /\ UNCHANGED callVars

WrappedFree ==
  /\ step = "idle"
  /\ mini' = Nothing /\ wrapped' = [config |-> NoConfig, loaded |-> FALSE]
  /\ cache' = <<>> /\ cacheLength' = 0
  /\ UNCHANGED callVars

-----------------------------------------------------------------------------
(* Forward passes                                                          *)

\* ensure_runtime allocates the cache when there is none
Slots == IF cache = <<>> THEN Fresh(mini.config.n_layers, mini.config.n_ctx) ELSE cache

ResetCache == IF cache = <<>> THEN cache ELSE Fresh(mini.config.n_layers, mini.config.n_ctx)

InModel(token, position) ==
  token \in 0 .. mini.config.n_vocab - 1 /\ position < mini.config.n_ctx

ForwardToken(token, position) ==
  LET after == Forward(Slots, position, token)
  IN  /\ InModel(token, position)
      /\ cache' = after.slots /\ context' = after.hidden
      /\ cacheLength' = IF position + 1 > cacheLength THEN position + 1 ELSE cacheLength

\* There is no memory for the cache, or the token or the position is outside of
\* the model, with the cache allocated by then
ForwardFails(token, position, status) ==
  /\ \/ cache = <<>> /\ cache' = cache /\ status = "out of memory"
     \/ ~InModel(token, position) /\ cache' = Slots /\ status = "invalid"
  /\ UNCHANGED cacheLength

\* get_logits: a whole sequence over a cache that is reset first; the length
\* counts only when every token passed
GetLogits(sequence) ==
  LET Step(slots, i) == Forward(slots, i - 1, sequence[i]).slots
      good == SelectInSeq(sequence, LAMBDA t : ~InModel(t, 0)) - 1
      passed == IF good < 0 THEN Len(sequence) ELSE good
  IN  /\ step = "idle" /\ mini.block # "none" /\ sequence # <<>>
      /\ Len(sequence) <= mini.config.n_ctx
      /\ cache' = FoldLeft(Step, Fresh(mini.config.n_layers, mini.config.n_ctx),
                           [i \in 1 .. passed |-> i])
      /\ cacheLength' = IF passed = Len(sequence) THEN passed ELSE 0
      /\ UNCHANGED <<wrapped, mini, callVars>>

-----------------------------------------------------------------------------
(* niyah_mini_generate                                                     *)

Return(status) ==
  /\ step' = "idle" /\ ids' = <<>> /\ task' = NoTask /\ context' = {} /\ answer' = status
  /\ UNCHANGED <<wrapped, mini>>

\* A prompt that is longer than the context, a model without configuration, or
\* no memory
GenerateRefused(prompt) ==
  /\ step = "idle"
  /\ \/ (Len(prompt) > mini.config.n_ctx \/ ~Valid(mini.config)) /\ Return("invalid")
     \/ Return("out of memory")
  /\ UNCHANGED <<cache, cacheLength>>

\* Without a prompt the first token put out is BOS
Generate(prompt, max_tokens) ==
  /\ step = "idle" /\ Valid(mini.config) /\ Len(prompt) <= mini.config.n_ctx
  /\ cache' = ResetCache /\ cacheLength' = 0
  /\ step' = IF prompt = <<>> THEN "generate" ELSE "prompt"
  /\ ids' = <<>> /\ context' = {}
  /\ task' = [prompt |-> prompt, n_prompt |-> Len(prompt), max_tokens |-> max_tokens,
              next |-> BOS]
  /\ UNCHANGED <<wrapped, mini, answer>>

\* The logits are only compared after the last token
Prompt ==
  LET token == task.prompt[Len(ids) + 1]
  IN  /\ step = "prompt"
      /\ ForwardToken(token, Len(ids))
      /\ ids' = Append(ids, token)
      /\ IF Len(ids') < task.n_prompt THEN UNCHANGED <<step, task>>
         ELSE /\ step' = "generate"
              /\ \E next \in 0 .. mini.config.n_vocab - 1 : task' = [task EXCEPT !.next = next]
      /\ UNCHANGED <<wrapped, mini, answer>>

PromptFails ==
  /\ step = "prompt"
  /\ \E status \in {"out of memory", "invalid"} :
       ForwardFails(task.prompt[Len(ids) + 1], Len(ids), status) /\ Return(status)

MoreTokens == Len(ids) - task.n_prompt < task.max_tokens /\ Len(ids) < mini.config.n_ctx

\* Enough tokens, the context is full, EOS was put out, or a pass failed after
\* the token was put out: all of these are success
GenerateEnds ==
  /\ step = "generate"
  /\ \/ (~MoreTokens \/ task.next = EOS) /\ UNCHANGED <<cache, cacheLength>>
     \/ /\ MoreTokens /\ task.next # EOS
        /\ \E status \in {"out of memory", "invalid"} :
             ForwardFails(task.next, Len(ids), status)
  /\ Return("ok")

GenerateToken ==
  /\ step = "generate" /\ MoreTokens /\ task.next # EOS
  /\ ForwardToken(task.next, Len(ids))
  /\ ids' = Append(ids, task.next)
  /\ \E next \in 0 .. mini.config.n_vocab - 1 : task' = [task EXCEPT !.next = next]
  /\ UNCHANGED <<wrapped, mini, step, answer>>

-----------------------------------------------------------------------------
(* niyah_mini_wrapped_generate                                             *)

\* The vocabulary that bridge_bpe_tokenize_prompt makes for every call: four
\* special tokens and each byte as a string, byte 0 among them
ByteVocabulary ==
  V!AddAll(V!AddAll(V!Empty, SubSeq(V!Names, 1, 4)),
           [i \in DOMAIN ByteValues |-> V!CString(ByteValues[i])])

\* What the call answers.  With a tokenizer it first asks for the number of
\* tokens with no room for any, which niyah_tokenize refuses; without one the
\* byte vocabulary fails; and an empty prompt is no prompt for
\* niyah_mini_generate.  Only a vocabulary that is built would lead on.
WrappedStatus(empty, tokenizer) ==
  CASE ~wrapped.loaded \/ mini.block = "none" -> {"no weights"}
    [] wrapped.loaded /\ mini.block # "none" /\ tokenizer -> {"shape"}
    [] OTHER -> {"out of memory", IF empty THEN "invalid" ELSE ByteVocabulary.status}

WrappedGenerate(empty, tokenizer) ==
  /\ step = "idle"
  /\ answer' \in WrappedStatus(empty, tokenizer) \ {"ok"}
  /\ UNCHANGED <<modelVars, step, ids, task, context>>

\* to_niyah_model: the configuration in the engine's words; the floats that do
\* not vary are positive in a valid one
Converted(c) ==
  [n_vocab |-> c.n_vocab, n_embd |-> c.n_dim, n_head |-> c.n_heads, n_layer |-> c.n_layers,
   n_ctx |-> c.n_ctx, n_kv_head |-> c.n_kv_heads, n_ff |-> c.n_ff,
   eos_token_id |-> EOS, bos_token_id |-> BOS, rope_theta |-> 1, norm_eps |-> 1,
   tie_word_embeddings |-> c.tie_word_embeddings]

Next ==
  \/ \E c \in MiniConfigs :
       \/ WrappedInit(c) \/ LoadFails(c)
       \/ \E size \in FileSizes : WrappedLoad(c, size)
  \/ WrappedFree
  \/ \E p \in MiniPrompts :
       \/ GetLogits(p) \/ GenerateRefused(p)
       \/ \E n \in 0 .. MaxNew : Generate(p, n)
  \/ Prompt \/ PromptFails \/ GenerateEnds \/ GenerateToken
  \/ \E empty, tokenizer \in BOOLEAN : WrappedGenerate(empty, tokenizer)

Spec == Init /\ [][Next]_vars

-----------------------------------------------------------------------------
(* Properties                                                              *)

\* Also with a cache that outlives the calls, and whatever earlier calls that
\* failed left in it, a token is put out from logits over exactly the prompt
\* and the tokens before it.
MiniContextIsPrefix ==
  step = "generate" => context = Whole(ids) /\ cacheLength = Len(ids)

\* The flag is worth its name: through loads that fail before or after the old
\* model was freed, short files, and frees, weights_loaded means that the whole
\* block was read from a file of the size that the configuration asks for, and
\* that the wrapper and the model have the same one.
LoadedIsWhole ==
  wrapped.loaded =>
    mini.block = "file" /\ mini.config = wrapped.config /\ Valid(mini.config)

=============================================================================
