----------------------------- MODULE Inference -----------------------------
(***************************************************************************)
(* Text generation (native/niyah_llm.c) over a loaded model (ModelFile), a *)
(* tokenizer (Tokenizer) and a key/value cache (KVCache): one call of      *)
(* niyah_llm_generate is a prefill of the prompt and then one forward pass *)
(* per new token.  Which token the sampler picks is left open; files,      *)
(* prompts and the success of every allocation come from outside.          *)
(***************************************************************************)
EXTENDS ModelFile, Tokenizer, KVCache

CONSTANTS
  ConfigFiles,   \* configurations as read from JSON
  HandConfigs,   \* configurations that callers fill in themselves
  BlobSizes,     \* sizes of weight files, in bytes
  Vocabularies,  \* vocabulary files
  Prompts,
  MaxTokens      \* bound: largest max_tokens a caller passes

\* What the entries of vocabulary files consist of
Symbols == UNION {Range(line) : line \in UNION {Range(lines) : lines \in Vocabularies}}

InferenceAssumption ==
  /\ \A file \in ConfigFiles : \A key \in DOMAIN file : file[key] \in Int
  /\ HandConfigs \subseteq ModelConfig
  /\ BlobSizes \subseteq Nat /\ MaxTokens \in Nat
  /\ Vocabularies \subseteq Seq(Seq(Symbols)) /\ Prompts \subseteq Seq(Byte)

VARIABLES
  model,      \* llm->model: config and floats, 0 without weights
  vocab,      \* llm->tokenizer.vocab
  pc,         \* "idle", "prefill" or "decode"
  tokens,     \* tokens[0 .. total - 1]; the first n_prompt are the prompt
  call,       \* n_prompt, position, max_tokens of the call
  slots,      \* cache.k and cache.v
  length,     \* cache.length
  seen,       \* history: what the logits were computed from
  output      \* status and text of the last call

vars == <<model, vocab, pc, tokens, call, slots, length, seen, output>>

NoText == <<"NULL">>   \* no sequence of bytes
Refuse(status) == [status |-> status, text |-> NoText, n_tokens |-> 0]
NoModel == [config |-> Parsed(<<>>), floats |-> 0]
NoCall == [n_prompt |-> 0, position |-> 0, max_tokens |-> 0]

Config == Normalize(model.config)

Init ==
  /\ model = NoModel /\ vocab = <<>> /\ pc = "idle" /\ tokens = <<>> /\ call = NoCall
  /\ slots = <<>> /\ length = 0 /\ seen = {} /\ output = Refuse("none")

-----------------------------------------------------------------------------
(* Loading                                                                 *)

Configs == {Parsed(f) : f \in {g \in ConfigFiles : LoadsConfig(g)}} \cup HandConfigs

\* A load that fails, on the configuration, the size or the disk, leaves the
\* model as it was; one that succeeds forgets the weights it replaces
LoadModel(bytes) ==
  /\ pc = "idle"
  /\ \E c \in Configs : \E kept \in LoadedConfigs(c, bytes) :
       model' = [config |-> kept, floats |-> bytes \div FloatSize]
  /\ UNCHANGED <<vocab, pc, tokens, call, slots, length, seen, output>>

FreeModel ==
  /\ pc = "idle" /\ model' = [model EXCEPT !.floats = 0]
  /\ UNCHANGED <<vocab, pc, tokens, call, slots, length, seen, output>>

\* tokenizer_load: without a file nothing happens; without memory the tokenizer
\* has already forgotten its vocabulary
LoadVocabulary(lines) ==
  /\ pc = "idle" /\ vocab' \in {lines, <<>>}
  /\ UNCHANGED <<model, pc, tokens, call, slots, length, seen, output>>

-----------------------------------------------------------------------------
(* niyah_llm_generate                                                      *)

\* kv_cache_free and the frees at the end of the call
Release == slots' = <<>> /\ length' = 0 /\ seen' = {} /\ tokens' = <<>> /\ call' = NoCall

Return(result) == pc' = "idle" /\ output' = result /\ Release /\ UNCHANGED <<model, vocab>>

\* An empty prompt is the BOS token, if the model has one; none is no prompt
PromptTokens(text) ==
  LET ids == Tokenize(vocab, text, Config.n_ctx)
  IN  IF ids = <<>> /\ Config.bos_token_id > 0 /\ Config.bos_token_id < Config.n_vocab
      THEN <<Config.bos_token_id>> ELSE ids

GenerateRefused(text) ==
  /\ pc = "idle"
  /\ \/ model.floats = 0 /\ Return(Refuse("no weights"))
     \/ model.floats # 0 /\ Return(Refuse("out of memory"))
     \/ model.floats # 0 /\ PromptTokens(text) = <<>> /\ Return(Refuse("invalid"))

Generate(text, max_tokens) ==
  /\ pc = "idle" /\ model.floats # 0 /\ PromptTokens(text) # <<>>
  /\ pc' = "prefill" /\ tokens' = PromptTokens(text)
  /\ call' = [n_prompt |-> Len(PromptTokens(text)), position |-> 0,
              max_tokens |-> max_tokens]
  /\ slots' = Fresh(Config.n_layer, Config.n_ctx) /\ length' = 0 /\ seen' = {}
  /\ UNCHANGED <<model, vocab, output>>

\* niyah_llm_forward refuses a token the model does not know (the vocabulary
\* may be larger), a blob that does not fit, a head count that the cache's
\* heads do not divide, and a position beyond the cache
Refused(token, position) ==
  LET fits == Maps(Config, model.floats) /\ Config.n_head % Config.n_kv_head = 0
  IN  CASE token \notin 0 .. Config.n_vocab - 1 -> "invalid"
        [] token \in 0 .. Config.n_vocab - 1 /\ ~fits -> "shape"
        [] OTHER -> IF position >= Config.n_ctx THEN "invalid" ELSE "ok"

ForwardToken(token, position) ==
  LET after == Forward(slots, position, token)
  IN  /\ Refused(token, position) = "ok"
      /\ slots' = after.slots /\ seen' = after.hidden
      /\ length' = IF length < position + 1 THEN position + 1 ELSE length

\* A pass fails as above, or for lack of memory; what was generated is dropped
ForwardFails(token, position) ==
  \E status \in {"out of memory", Refused(token, position)} \ {"ok"} :
    Return(Refuse(status))

PrefillFails ==
  pc = "prefill" /\ ForwardFails(tokens[call.position + 1], call.position)

Prefill ==
  /\ pc = "prefill"
  /\ ForwardToken(tokens[call.position + 1], call.position)
  /\ call' = [call EXCEPT !.position = @ + 1]
  /\ pc' = IF call.position + 1 = call.n_prompt THEN "decode" ELSE pc
  /\ UNCHANGED <<model, vocab, tokens, output>>

Generated(all) == SubSeq(all, call.n_prompt + 1, Len(all))

\* The end of the call; no token at all is an error
Finish(all) ==
  IF Generated(all) = <<>> THEN Return(Refuse("shape"))
  ELSE \/ Return([status |-> "ok", text |-> Detokenize(vocab, Generated(all)),
                  n_tokens |-> Len(Generated(all))])
       \/ Return(Refuse("out of memory"))

Room == Len(tokens) - call.n_prompt < call.max_tokens /\ Len(tokens) < Config.n_ctx

\* The prompt fills the context, or enough was generated
DecodeEnds == pc = "decode" /\ ~Room /\ Finish(tokens)

IsLast(token) ==
  \/ Config.eos_token_id > 0 /\ token = Config.eos_token_id
  \/ Len(tokens) + 1 >= Config.n_ctx

\* The sampler picks any token of the model
Decode(token) ==
  LET all == Append(tokens, token)
  IN  /\ pc = "decode" /\ Room
      /\ \/ IsLast(token) /\ Finish(all)
         \/ ~IsLast(token) /\ ForwardFails(token, Len(all) - 1)
         \/ /\ ~IsLast(token) /\ ForwardToken(token, Len(all) - 1)
            /\ tokens' = all
            /\ UNCHANGED <<model, vocab, pc, call, output>>

\* The rest of a call that was started
Continue ==
  \/ PrefillFails \/ Prefill
  \/ DecodeEnds \/ \E token \in 0 .. Config.n_vocab - 1 : Decode(token)

Next ==
  \/ \E bytes \in BlobSizes : LoadModel(bytes)
  \/ FreeModel
  \/ \E lines \in Vocabularies : LoadVocabulary(lines)
  \/ \E text \in Prompts : GenerateRefused(text)
  \/ \E text \in Prompts, n \in 1 .. MaxTokens : Generate(text, n)
  \/ Continue

Spec == Init /\ [][Next]_vars

-----------------------------------------------------------------------------
(* Properties                                                              *)

\* The tensors lie in the blob, the head included, and leave no part of it
\* unread: what the loader decided about a tied head, from the size alone, is
\* what the map assumes.
TensorsInBlob ==
  LET map == TensorMap(model.config)
      last == Len(map.sizes)
      used == map.first[last] + map.sizes[last]
      end == map.lm_head + Embedding(model.config)
  IN  /\ Maps(model.config, model.floats)
      /\ end <= model.floats
      /\ model.floats = IF end > used THEN end ELSE used

\* Whenever a token is about to be picked, the logits were computed from
\* weights of the blob, through every layer, from all tokens so far and nothing
\* else: decoding with the cache sees what a pass over the whole text would
\* see, up to the last position of the context.
LogitsSound ==
  pc = "decode" =>
    /\ seen = Whole(tokens) /\ length = Len(tokens)
    /\ Len(tokens) <= Config.n_ctx
    /\ TensorsInBlob

\* A text with which a generation can start is one the vocabulary round-trips
\* (Tokenizer).
RoundTrip == \A text \in Prompts : RoundTrips(vocab, text)

=============================================================================
