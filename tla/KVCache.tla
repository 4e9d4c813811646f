------------------------------ MODULE KVCache ------------------------------
(***************************************************************************)
(* The key/value cache that attention reads while a text is generated      *)
(* (native/niyah_attention.c, niyah_transformer_layer.c and, with a cache  *)
(* of its own, niyah_mini/niyah_mini_model.c).  The numbers are abstracted *)
(* to where they come from: an entry, or a hidden state, is the set of     *)
(* pairs <<position, token>> it was computed from.                         *)
(***************************************************************************)
EXTENDS Naturals, Sequences, SequencesExt

\* init: every entry is zero, computed from nothing
Fresh(layers, max_seq) == [l \in 1 .. layers |-> [p \in 0 .. max_seq - 1 |-> {}]]

\* Mutant: the mask of a causal row ends one position early
AttendedBefore(slots, layer, position) == UNION {slots[layer][t] : t \in 0 .. position - 1}

\* attention_decode reads the entries up to the position, whatever `length`
\* says and whoever wrote them
Attended(slots, layer, position) == UNION {slots[layer][t] : t \in 0 .. position}

\* One layer: the entry of the position is written from the hidden state before
\* the queries read the entries
Layer(state, layer, position) ==
  LET written == [state.slots EXCEPT ![layer][position] = state.hidden]
  IN  [slots |-> written, hidden |-> Attended(written, layer, position)]

\* All layers over the embedding of one token
Forward(slots, position, token) ==
  FoldLeft(LAMBDA state, layer : Layer(state, layer, position),
           [slots |-> slots, hidden |-> {<<position, token>>}],
           [l \in DOMAIN slots |-> l])

\* What the logits after the last of these tokens ought to be computed from
Whole(tokens) == {<<i - 1, tokens[i]>> : i \in DOMAIN tokens}

=============================================================================
