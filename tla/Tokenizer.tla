----------------------------- MODULE Tokenizer -----------------------------
(***************************************************************************)
(* The tokenizer (native/niyah_tokenizer.c): greedy longest match against  *)
(* a vocabulary, one entry per line of its file, with a fallback for bytes *)
(* that no entry starts with.  A text is a sequence of bytes; the entry    *)
(* "<0xXX>" of a byte is abstracted to the three symbols "<", byte, ">".   *)
(* The identifier of an entry is its index, counted from 0.                *)
(***************************************************************************)
EXTENDS Integers, Sequences, SequencesExt

CONSTANTS
  Byte,   \* bytes that texts consist of
  Code    \* [Byte -> value of the byte]

ByteAssumption ==
  Code \in [Byte -> 1 .. 255] /\ \A b, c \in Byte : Code[b] = Code[c] => b = c

None == -1
Unk == <<"u", "n", "k">>          \* the entry "<unk>"
ByteToken(b) == <<"<", b, ">">>   \* the entry "<0xXX>"

Max0(S) == IF S = {} THEN 0 ELSE CHOOSE x \in S : \A y \in S : x >= y
Min0(S) == CHOOSE x \in S : \A y \in S : x <= y

\* lookup: the first entry that is this piece
Lookup(vocab, piece) ==
  LET found == {i \in DOMAIN vocab : vocab[i] = piece}
  IN  IF found = {} THEN None ELSE Min0(found) - 1

\* Entries that the text goes on with; the longest, of equal ones the first
Matches(vocab, text, pos) ==
  {i \in DOMAIN vocab : vocab[i] # <<>> /\ IsPrefix(vocab[i], SubSeq(text, pos, Len(text)))}
BestMatch(vocab, text, pos) ==
  Min0({i \in Matches(vocab, text, pos) :
          \A j \in Matches(vocab, text, pos) : Len(vocab[i]) >= Len(vocab[j])})

\* Mutant: the bare value of a byte is taken although an entry has that identifier
FallbackRaw(vocab, b) ==
  IF Lookup(vocab, ByteToken(b)) # None THEN Lookup(vocab, ByteToken(b)) ELSE Code[b]

\* Its byte token; else its value, when no entry has that identifier; else <unk>
Fallback(vocab, b) ==
  CASE Lookup(vocab, ByteToken(b)) # None -> Lookup(vocab, ByteToken(b))
    [] Lookup(vocab, ByteToken(b)) = None /\ Code[b] >= Len(vocab) -> Code[b]
    [] OTHER -> Lookup(vocab, Unk)

\* The tokens of a text from each position on; a byte that has none is dropped
TokensFrom(vocab, text) ==
  LET from[pos \in 1 .. Len(text) + 1] ==
        IF pos > Len(text) THEN <<>>
        ELSE IF Matches(vocab, text, pos) # {}
        THEN LET i == BestMatch(vocab, text, pos) IN <<i - 1>> \o from[pos + Len(vocab[i])]
        ELSE LET id == Fallback(vocab, text[pos])
             IN  (IF id = None THEN <<>> ELSE <<id>>) \o from[pos + 1]
  IN  from[1]

\* The first max_tokens of them
Tokenize(vocab, text, max_tokens) ==
  LET all == TokensFrom(vocab, text)
  IN  SubSeq(all, 1, IF Len(all) < max_tokens THEN Len(all) ELSE max_tokens)

\* The bytes of one identifier: its entry, the byte that the entry stands for,
\* the byte of that value, or nothing
Piece(vocab, id) ==
  CASE id \in 0 .. Len(vocab) - 1 ->
         IF \E b \in Byte : vocab[id + 1] = ByteToken(b)
         THEN <<CHOOSE b \in Byte : vocab[id + 1] = ByteToken(b)>> ELSE vocab[id + 1]
    [] id >= Len(vocab) /\ (\E b \in Byte : Code[b] = id) ->
         <<CHOOSE b \in Byte : Code[b] = id>>
    [] OTHER -> <<>>

Detokenize(vocab, tokens) == FoldLeft(LAMBDA text, id : text \o Piece(vocab, id), <<>>, tokens)

-----------------------------------------------------------------------------
(* Properties                                                              *)

\* A vocabulary that can say a text: every byte has a token of its own, or a
\* value beyond the entries, and the text spells no byte token.
Covers(vocab, text) ==
  \A i \in DOMAIN text :
    /\ \/ Lookup(vocab, ByteToken(text[i])) # None
       \/ Lookup(vocab, <<text[i]>>) # None
       \/ Code[text[i]] >= Len(vocab)
    /\ i + 2 <= Len(text) => \A b \in Byte : SubSeq(text, i, i + 2) # ByteToken(b)

\* What a vocabulary that covers it makes of a text, decodes to that text, and
\* to a prefix of it when the tokens do not fit; of any other text every token
\* decodes to a part of it or to <unk>: no identifier of the fallback is taken
\* for an entry ("cannot collide", niyah_tokenizer.c:24-27).
RoundTrips(vocab, text) ==
  LET tokens == Tokenize(vocab, text, Len(text))
  IN  /\ \A i \in DOMAIN tokens :
           LET piece == Piece(vocab, tokens[i])
           IN  piece = Unk \/ \E p \in DOMAIN text : IsPrefix(piece, SubSeq(text, p, Len(text)))
      /\ Covers(vocab, text) =>
           /\ Detokenize(vocab, tokens) = text
           /\ \A n \in DOMAIN text : IsPrefix(Detokenize(vocab, Tokenize(vocab, text, n)), text)

=============================================================================
