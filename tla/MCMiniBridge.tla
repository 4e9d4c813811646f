---------------------------- MODULE MCMiniBridge ----------------------------
(***************************************************************************)
(* A wrapped NiyahMini model of one layer, converted and asked, for TLC.   *)
(***************************************************************************)
EXTENDS Integers, Sequences, SequencesExt

CONSTANTS FloatSize, MaxTokens, MaxNew, MaxLayers, MaxDim, MaxHeads, MaxSeq, MaxTokenLen,
          MaxVocab

VARIABLES
  model, vocab, pc, tokens, call, slots, length, seen, output,
  wrapped, mini, cache, cacheLength, step, ids, task, context, answer, origin

\* Only the wrapped model has weights
ConfigFiles == {}
HandConfigs == {}
BlobSizes == {}

Byte == {"a"}
Code == [b \in Byte |-> 1]
Vocabularies == { << <<"u", "n", "k">>, <<"a">>, <<"a", "a">> >> }
Prompts == {<<>>, <<"a">>}

MiniConfigs ==
  {[n_layers |-> 1, n_dim |-> 2, n_heads |-> 1, n_kv_heads |-> 1, n_ff |-> 1, n_vocab |-> 3,
    n_ctx |-> 3, tie_word_embeddings |-> TRUE]}
FileSizes == {34}
MiniPrompts == {<<0>>}
Specials == <<"<pad>", "<bos>", "<eos>", "<unk>">>
ByteValues == <<"NUL", "x">>
Nul == "NUL"

R == INSTANCE MiniBridge

Spec ==
  R!BridgeInit /\ [][R!BridgeNext]_<<model, vocab, pc, tokens, call, slots, length, seen, output,
                                    wrapped, mini, cache, cacheLength, step, ids, task, context,
                                    answer, origin>>

OnlyLoadedSpeaks == R!OnlyLoadedSpeaks

=============================================================================
