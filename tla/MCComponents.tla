---------------------------- MODULE MCComponents ----------------------------
(***************************************************************************)
(* The constants of Components for TLC: a small web, robots rules that     *)
(* overlap, texts of different length, configurations with and without a   *)
(* shape, vocabularies with and without byte tokens.                       *)
(***************************************************************************)
EXTENDS Components, TLC

CONSTANTS short, long, other

Site == <<"http://", "h">>
MCLower == "H" :> "h"
MCSeedUrls ==
  { <<"http://", "H", ":80">>, <<"http://", "h", "?", "q">>,
    <<"http://", "h", "/", "a", "#", "f">>, <<"ftp://", "h">> }
MCReferences ==
     Site \o <<"/">> :> << <<"a">>, <<".", "/", "a", "#", "f">>, <<"#", "f">>,
                           <<"/", "/", "g">>, <<>> >>
  @@ Site \o <<"/", "a">> :> << <<"b", "/", "..", "/">>, <<"..", "/", "..", "/", "b">>,
                                <<"http://", "h", "/", "a", "/">> >>
  @@ Site \o <<"/", "d", "/", "a">> :> << <<"b", "/", "..", "/", "..">>, <<"?", "q">> >>
  @@ Site \o <<"?", "q">> :> << <<"x">>, <<"?", "r">> >>
MCReachable == {<<"h">>}

\* robots.txt lines, for this agent and another
MCLines ==
  {[field |-> "User-agent", value |-> v] : v \in {"*", "other"}}
    \cup {[field |-> f, value |-> v] :
            f \in {"Allow", "Disallow"}, v \in {<<>>, <<"/">>, <<"/", "a">>}}

\* One word, said twice by the long text and once by the short one
MCLength == [c \in Content |-> IF c = long THEN 1000 ELSE 0]
MCOccurrences == [q \in Query |-> [c \in Content |->
                  CASE c = long -> 2 [] c = short -> 1 [] OTHER -> 0]]

\* One and two layers with a default feed-forward width; without eps; heads that
\* do not divide
File(layers, vocabulary, ctx) ==
  [vocab_size |-> vocabulary, dim |-> 1, heads |-> 1, layer_count |-> layers,
   context_size |-> ctx, eos_token |-> 2, bos_token |-> 1, rope_theta |-> 1, norm_eps |-> 1]
MCConfigFiles ==
  {File(2, 3, 3), [File(1, 4, 2) EXCEPT !.bos_token = 9],
   [File(1, 3, 2) EXCEPT !.norm_eps = 0], [File(1, 3, 2) EXCEPT !.heads = 2]}
MCHandConfigs ==
  {[n_vocab |-> 3, n_embd |-> 2, n_head |-> 2, n_layer |-> 1, n_ctx |-> 2, n_kv_head |-> 3,
    n_ff |-> 1, eos_token_id |-> 0, bos_token_id |-> 1, rope_theta |-> 0, norm_eps |-> 0,
    tie_word_embeddings |-> FALSE]}
\* With a head and tied, and one float less
MCBlobSizes == {FloatSize * n : n \in {43, 40, 42, 27, 23, 44}} \cup {1}

MCCode == [b \in Byte |-> IF b = "a" THEN 1 ELSE 5]
MCVocabularies ==
  { << <<"u", "n", "k">>, <<"a">>, <<"a", "b">> >>,
    << <<"u", "n", "k">>, <<"<", "b", ">">>, <<"<", "a", ">">> >>,
    << <<"u", "n", "k">>, <<"a">>, <<"c">>, <<"c", "c">>, <<>>, <<"a", "c">> >> }
MCPrompts == BoundedSeq(Byte, 3)

MCNameHas == "m1" :> {"m", "m1"} @@ "m2" :> {"m"}

MiniConfig(layers, heads, vocabulary, ctx, tied) ==
  [n_layers |-> layers, n_dim |-> 2, n_heads |-> heads, n_kv_heads |-> 1, n_ff |-> 1,
   n_vocab |-> vocabulary, n_ctx |-> ctx, tie_word_embeddings |-> tied]
MCMiniConfigs ==
  {MiniConfig(2, 1, 3, 3, TRUE), MiniConfig(1, 2, 1, 2, FALSE), MiniConfig(1, 0, 3, 2, TRUE)}
MCMiniPrompts == {<<>>, <<0>>, <<2, 0>>, <<1, 3>>, <<0, 0, 1>>, <<0, 0, 0, 0>>}
MCSpecials == <<"<pad>", "<bos>", "<eos>", "<unk>", "<fact>">>
MCByteValues == <<Nul, "x", "y">>

\* Texts of up to three symbols, with the name of a special token and a zero byte
MCVocabTexts == {<<text, <<"y", "<fact>">> >> : text \in BoundedSeq({"x", "y", "<bos>", Nul}, 3)}
MCPaths == {<<"/", "a", "b">>}

=============================================================================
