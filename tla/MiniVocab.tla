----------------------------- MODULE MiniVocab -----------------------------
(***************************************************************************)
(* The vocabulary and the tokenizer of NiyahMini                           *)
(* (native/niyah_mini/niyah_mini_vocab.c).  A text is a sequence of        *)
(* symbols; the name of a special token is one symbol, and so is a line    *)
(* end.  An entry is what one token stands for; an identifier counts from  *)
(* 0.  Lookup compares hashes first, which changes no answer.              *)
(***************************************************************************)
EXTENDS Integers, Sequences, FiniteSets, SequencesExt

CONSTANTS
  Specials,     \* "<pad>", "<bos>", "<eos>", "<unk>", ... in this order
  ByteValues,   \* the symbols of single bytes, in the order of their values
  Nul,          \* the symbol of byte 0: as a C string it is empty
  MaxTokenLen,  \* NIYAH_MINI_MAX_TOKEN_LEN
  MaxVocab      \* NIYAH_MAX_VOCAB

\* What texts consist of
Symbols == Range(Specials) \cup Range(ByteValues)

\* The table of 13 names and 256 bytes is far below NIYAH_MAX_VOCAB
VocabAssumption ==
  /\ Specials \in Seq(Symbols) /\ ByteValues \in Seq(Symbols)
  /\ Len(Specials) >= 4 /\ MaxTokenLen \in Nat \ {0} /\ MaxVocab \in Nat
  /\ Len(Specials) + Len(ByteValues) <= MaxVocab
  /\ Nul \in Range(ByteValues)

Unknown == 3   \* NIYAH_MINI_UNK_TOKEN_ID

CString(symbol) == IF symbol = Nul THEN <<>> ELSE <<symbol>>

Smallest(S) == CHOOSE x \in S : \A y \in S : x <= y

Find(entries, token) ==
  LET found == {i \in DOMAIN entries : entries[i] = token}
  IN  IF found = {} THEN -1 ELSE Smallest(found) - 1

Fits(token) == token # <<>> /\ Len(token) <= MaxTokenLen

\* A token that is there already is no error; memory for a new one may lack,
\* which is left to the callers
Add(vocab, token) ==
  CASE vocab.status # "ok" -> vocab
    [] vocab.status = "ok" /\ ~Fits(token) ->
         [status |-> "invalid", entries |-> vocab.entries]
    [] vocab.status = "ok" /\ Fits(token) /\ Find(vocab.entries, token) >= 0 -> vocab
    [] OTHER -> IF Len(vocab.entries) >= MaxVocab
                THEN [status |-> "shape", entries |-> vocab.entries]
                ELSE [status |-> "ok", entries |-> Append(vocab.entries, token)]

Empty == [status |-> "ok", entries |-> <<>>]

AddAll(vocab, tokens) == FoldLeft(LAMBDA v, token : Add(v, token), vocab, tokens)

\* A failure frees what was read or built so far
Kept(vocab) == IF vocab.status = "ok" THEN vocab ELSE [vocab EXCEPT !.entries = <<>>]

Names == [i \in DOMAIN Specials |-> <<Specials[i]>>]

\* load: empty lines are skipped, a line that is too long fails
Load(lines) == Kept(AddAll(Empty, SelectSeq(lines, LAMBDA line : line # <<>>)))

\* How often a byte occurs in the texts
Places(texts) == UNION {{t} \X DOMAIN texts[t] : t \in DOMAIN texts}
Count(texts, b) == Cardinality({p \in Places(texts) : texts[p[1]][p[2]] = b})

AddFrequent(texts, vocab_size, min_frequency, v, b) ==
  IF Len(v.entries) < vocab_size /\ Count(texts, b) >= min_frequency
  THEN Add(v, CString(b)) ELSE v

\* build: the special tokens, then the bytes that are frequent enough, as long
\* as there is room; all bytes of the texts count, byte 0 too
Build(texts, vocab_size, min_frequency) ==
  Kept(FoldLeft(LAMBDA v, b : AddFrequent(texts, vocab_size, min_frequency, v, b),
                AddAll(Empty, Names), ByteValues))

-----------------------------------------------------------------------------
(* bpe_tokenize: the longest entry at each place; merges are never applied. *)

Candidates(entries, text, pos) ==
  {n \in 1 .. Len(text) - pos + 1 :
     n <= MaxTokenLen /\ Find(entries, SubSeq(text, pos, pos + n - 1)) >= 0}

\* How far the token at a place reaches; one symbol when there is none
Reach(entries, text, pos) ==
  LET found == Candidates(entries, text, pos)
  IN  IF found = {} THEN 1 ELSE CHOOSE n \in found : \A k \in found : n >= k

TokenAt(entries, text, pos) ==
  LET id == Find(entries, SubSeq(text, pos, pos + Reach(entries, text, pos) - 1))
  IN  IF id < 0 THEN Unknown ELSE id

BpeTokenize(entries, text, max_tokens) ==
  LET from[pos \in 1 .. Len(text) + 1] ==
        IF pos > Len(text) THEN <<>>
        ELSE <<TokenAt(entries, text, pos)>> \o from[pos + Reach(entries, text, pos)]
      all == from[1]
  IN  SubSeq(all, 1, IF Len(all) < max_tokens THEN Len(all) ELSE max_tokens)

\* bpe_detokenize: an identifier beyond the entries is taken for a byte
BpePiece(entries, id) ==
  CASE id \in 0 .. Len(entries) - 1 -> entries[id + 1]
    [] id >= Len(entries) /\ id < Len(ByteValues) -> <<ByteValues[id + 1]>>
    [] OTHER -> <<>>

BpeDetokenize(entries, tokens) ==
  FoldLeft(LAMBDA text, id : text \o BpePiece(entries, id), <<>>, tokens)

-----------------------------------------------------------------------------
(* Properties                                                              *)

\* With a frequency of one and room for every byte, a vocabulary is built from
\* texts and says each of them again, special tokens that are spelled in them and
\* all; a text with a zero byte in it lets no vocabulary be built.
BuiltSaysTexts(texts, min_frequency) ==
  LET built == Build(texts, MaxVocab, min_frequency)
  IN  IF \E i \in DOMAIN texts : Nul \in Range(texts[i])
      THEN min_frequency = 1 => built.status = "invalid" /\ built.entries = <<>>
      ELSE min_frequency = 1 =>
             /\ built.status = "ok"
             /\ \A i \in DOMAIN texts :
                  BpeDetokenize(built.entries,
                    BpeTokenize(built.entries, texts[i], Len(texts[i]))) = texts[i]

=============================================================================
