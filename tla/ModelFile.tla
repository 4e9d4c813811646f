----------------------------- MODULE ModelFile -----------------------------
(***************************************************************************)
(* Model files (native/niyah_model.c): a flat configuration and one blob   *)
(* of tensors without any header, so the configuration alone says which    *)
(* number belongs to which tensor.  A configuration file is a function     *)
(* from the keys it has to integers (0 for what is not positive).          *)
(***************************************************************************)
EXTENDS Integers, Sequences, SequencesExt

CONSTANT FloatSize   \* sizeof(float)

FloatAssumption == FloatSize \in Nat \ {0}

ModelConfig ==
  [n_vocab : Int, n_embd : Int, n_head : Int, n_layer : Int, n_ctx : Int, n_kv_head : Int,
   n_ff : Int, eos_token_id : Int, bos_token_id : Int, rope_theta : Int, norm_eps : Int,
   tie_word_embeddings : BOOLEAN]

Value(file, key) == IF key \in DOMAIN file THEN file[key] ELSE 0

\* normalize: what is left out gets its default
Normalize(c) ==
  [c EXCEPT !.n_kv_head  = IF @ <= 0 THEN c.n_head ELSE @,
            !.n_ff       = IF @ <= 0 THEN 4 * c.n_embd ELSE @,
            !.rope_theta = IF @ <= 0 THEN 10000 ELSE @,
            !.norm_eps   = IF @ <= 0 THEN 1 ELSE @,
            !.n_ctx      = IF @ <= 0 THEN 2048 ELSE @]

Shaped(c) ==
  /\ c.n_embd > 0 /\ c.n_head > 0 /\ c.n_layer > 0 /\ c.n_vocab > 0
  /\ c.n_embd % c.n_head = 0

\* load_config_json: a key that is missing reads as 0; rope_theta and norm_eps
\* must be there, the others have defaults
Parsed(file) ==
  [n_vocab |-> Value(file, "vocab_size"), n_embd |-> Value(file, "dim"),
   n_head |-> Value(file, "heads"), n_layer |-> Value(file, "layer_count"),
   n_ctx |-> Value(file, "context_size"), n_kv_head |-> Value(file, "kv_heads"),
   n_ff |-> Value(file, "hidden_dim"), eos_token_id |-> Value(file, "eos_token"),
   bos_token_id |-> Value(file, "bos_token"), rope_theta |-> Value(file, "rope_theta"),
   norm_eps |-> Value(file, "norm_eps"),
   tie_word_embeddings |-> Value(file, "tie_word_embeddings") = 1]

LoadsConfig(file) ==
  LET c == Parsed(file)
  IN  /\ Shaped(c) /\ c.rope_theta > 0 /\ c.norm_eps > 0
      /\ c.n_kv_head > 0 => c.n_head % c.n_kv_head = 0

-----------------------------------------------------------------------------

KvDim(c) == c.n_kv_head * (c.n_embd \div c.n_head)

\* attn_norm, wq, wk, wv, wo, ffn_norm, ffn_gate, ffn_up, ffn_down
LayerTensors(c) ==
  LET dim == c.n_embd
  IN  <<dim, dim * dim, KvDim(c) * dim, KvDim(c) * dim, dim * dim,
        dim, c.n_ff * dim, c.n_ff * dim, dim * c.n_ff>>

\* Their sum, as expected_floats counts it
LayerFloats(c) ==
  2 * c.n_embd + 2 * c.n_embd * c.n_embd + 2 * KvDim(c) * c.n_embd + 3 * c.n_ff * c.n_embd

Sum(sizes) == FoldLeft(LAMBDA a, b : a + b, 0, sizes)

Embedding(c) == c.n_vocab * c.n_embd

\* With a head of its own; 0 for a configuration without a shape
ExpectedFloats(c) ==
  LET n == Normalize(c)
  IN  IF ~Shaped(n) THEN 0
      ELSE 2 * Embedding(n) + n.n_layer * LayerFloats(n) + n.n_embd

\* model_load: the configuration with which a blob of so many bytes is kept.
\* Its size, not what the file declares, decides whether the head is tied.
LoadedConfigs(c, bytes) ==
  LET n == Normalize(c)
      expected == ExpectedFloats(c)
      floats == bytes \div FloatSize
  IN  IF expected = 0 \/ bytes <= 0 \/ bytes % FloatSize # 0 THEN {}
      ELSE CASE floats = expected -> {[n EXCEPT !.tie_word_embeddings = FALSE]}
             [] floats = expected - Embedding(n) ->
                  {[n EXCEPT !.tie_word_embeddings = TRUE]}
             [] OTHER -> {}

\* weights_map accepts a blob of exactly the size its configuration asks for
Maps(c, floats) ==
  LET n == Normalize(c)
      head == IF n.tie_word_embeddings THEN Embedding(n) ELSE 0
  IN  Shaped(n) /\ floats = ExpectedFloats(n) - head

\* The places of the tensors, one after the other: embedding, the layers,
\* final_norm, and where the head begins
TensorMap(c) ==
  LET n == Normalize(c)
      sizes == Append(FoldLeft(LAMBDA before, layer : before \o LayerTensors(n),
                               <<Embedding(n)>>, [l \in 1 .. n.n_layer |-> l]), n.n_embd)
      first == [i \in DOMAIN sizes |-> Sum(SubSeq(sizes, 1, i - 1))]
  IN  [first |-> first, sizes |-> sizes,
       lm_head |-> IF n.tie_word_embeddings THEN 0 ELSE Sum(sizes)]

=============================================================================
