--------------------------- MODULE TokenizerProofs ---------------------------
(***************************************************************************)
(* The round trips of both tokenizers, for every vocabulary and every      *)
(* text.  A scan reads a text from left to right, and each of its tokens   *)
(* stands for what is read up to the next one; decoding joins what the     *)
(* tokens stand for.  What holds of the loops and recursions of the code   *)
(* is shown by FoldTheorems.                                               *)
(***************************************************************************)
EXTENDS ComponentModelsProofs, SequenceTheorems, FiniteSetTheorems

-----------------------------------------------------------------------------
(* Scans                                                                   *)

\* A text that was scanned from left to right: x.from[p] are the tokens from
\* place p on, x.tokens those of all of it
Scanned(x) ==
  /\ x.text \in Seq(x.symbols) /\ x.tokens \in Seq(Nat) /\ x.from[1] = x.tokens
  /\ \A p \in 1 .. Len(x.text) + 1 : x.from[p] \in Seq(Nat)
  /\ x.from[Len(x.text) + 1] = <<>>

\* The token at a place stands for what is said from there to the next place
Says(x, p, token, said) ==
  \E n \in 1 .. Len(x.text) - p + 1 :
    x.from[p] = <<token>> \o x.from[p + n] /\ said = SubSeq(x.text, p, p + n - 1)

\* The first tokens say the text up to a place, and the others are those from there on
SaidUpTo(x, s, acc, p) == x.tokens = s \o x.from[p] /\ acc = SubSeq(x.text, 1, p - 1)
SaysSoFar(x, s, acc) ==
  Len(s) <= Len(x.tokens) /\ s = SubSeq(x.tokens, 1, Len(s)) =>
    \E p \in Len(s) + 1 .. Len(x.text) + 1 : SaidUpTo(x, s, acc, p)

\* The first part of a text.
LEMMA FirstPart ==
  ASSUME NEW symbols, NEW text \in Seq(symbols), NEW n \in Nat, n <= Len(text)
  PROVE  /\ SubSeq(text, 1, n) \in Seq(symbols) /\ Len(SubSeq(text, 1, n)) = n
         /\ \A k \in 1 .. n : SubSeq(text, 1, n)[k] = text[k]
OBVIOUS

\* Two parts of a text, one next to the other.
LEMMA PartsJoin ==
  ASSUME NEW symbols, NEW text \in Seq(symbols), NEW p \in 1 .. Len(text),
         NEW n \in 1 .. Len(text) - p + 1
  PROVE  SubSeq(text, 1, p - 1) \o SubSeq(text, p, p + n - 1) = SubSeq(text, 1, p + n - 1)
<1>1. /\ Len(text) \in Nat /\ p - 1 \in Nat /\ p - 1 <= Len(text)
      /\ p + n - 1 \in Nat /\ p + n - 1 <= Len(text) /\ p \in Nat /\ n \in Nat
  OBVIOUS
<1>2. PICK a \in Seq(symbols) : a = SubSeq(text, 1, p - 1) /\ Len(a) = p - 1
         /\ \A k \in 1 .. p - 1 : a[k] = text[k]
  <2>1. /\ SubSeq(text, 1, p - 1) \in Seq(symbols) /\ Len(SubSeq(text, 1, p - 1)) = p - 1
        /\ \A k \in 1 .. p - 1 : SubSeq(text, 1, p - 1)[k] = text[k]
    BY <1>1
  <2> QED
    BY <2>1
<1>3. PICK b \in Seq(symbols) : b = SubSeq(text, p, p + n - 1) /\ Len(b) = n
         /\ \A k \in 1 .. n : b[k] = text[p - 1 + k]
  <2>1. /\ SubSeq(text, p, p + n - 1) \in Seq(symbols) /\ Len(SubSeq(text, p, p + n - 1)) = n
        /\ \A k \in 1 .. n : SubSeq(text, p, p + n - 1)[k] = text[p - 1 + k]
    BY <1>1
  <2> QED
    BY <2>1
<1>4. PICK c \in Seq(symbols) : c = SubSeq(text, 1, p + n - 1) /\ Len(c) = p + n - 1
         /\ \A k \in 1 .. p + n - 1 : c[k] = text[k]
  <2>1. /\ SubSeq(text, 1, p + n - 1) \in Seq(symbols) /\ Len(SubSeq(text, 1, p + n - 1)) = p + n - 1
        /\ \A k \in 1 .. p + n - 1 : SubSeq(text, 1, p + n - 1)[k] = text[k]
    BY <1>1
  <2> QED
    BY <2>1
<1>5. a \o b \in Seq(symbols) /\ Len(a \o b) = Len(a) + Len(b)
  OBVIOUS
<1>6. ASSUME NEW k \in 1 .. p + n - 1 PROVE (a \o b)[k] = c[k]
  <2>1. CASE k <= p - 1
    BY <1>1, <1>2, <1>4, <2>1
  <2>2. CASE ~(k <= p - 1)
    <3>1. (a \o b)[k] = b[k - (p - 1)]
      BY <1>1, <1>2, <1>3, <2>2
    <3>2. k - (p - 1) \in 1 .. n /\ p - 1 + (k - (p - 1)) = k
      BY <1>1, <2>2
    <3> QED
      BY <1>3, <1>4, <3>1, <3>2
  <2> QED
    BY <2>1, <2>2
<1>7. Len(a \o b) = Len(c)
  <2>1. p - 1 + n = p + n - 1
    BY <1>1
  <2> QED
    BY <1>2, <1>3, <1>4, <1>5, <2>1
<1>8. a \o b = c
  BY <1>4, <1>5, <1>6, <1>7, SeqEqual
<1> QED
  BY <1>2, <1>3, <1>4, <1>8, Zenon

\* No token says nothing.
LEMMA NothingSaid ==
  ASSUME NEW x, Scanned(x)
  PROVE  SaysSoFar(x, <<>>, <<>>)
<1>1. PICK symbols : x.text \in Seq(symbols) /\ x.tokens \in Seq(Nat) /\ x.from[1] = x.tokens
  BY DEF Scanned
<1>2. 1 \in Len(<<>>) + 1 .. Len(x.text) + 1 /\ <<>> \o x.tokens = x.tokens
      /\ SubSeq(x.text, 1, 1 - 1) = <<>>
  BY <1>1
<1>3. SaidUpTo(x, <<>>, <<>>, 1)
  BY <1>1, <1>2, Zenon DEF SaidUpTo
<1> QED
  BY <1>2, <1>3, Zenon DEF SaysSoFar

\* One token more says what follows.
LEMMA SaysOn ==
  ASSUME NEW x, Scanned(x), NEW s \in Seq(Nat), NEW e \in Nat, NEW acc, SaysSoFar(x, s, acc),
         NEW piece,
         \A p \in 1 .. Len(x.text) : \E token \in Nat : \E said :
           Says(x, p, token, said) /\ (token = e => said = piece)
  PROVE  SaysSoFar(x, Append(s, e), acc \o piece)
<1>1. PICK symbols, text, list, from :
        /\ symbols = x.symbols /\ text = x.text /\ list = x.tokens /\ from = x.from
        /\ text \in Seq(symbols) /\ list \in Seq(Nat)
        /\ \A p \in 1 .. Len(text) + 1 : from[p] \in Seq(Nat)
        /\ from[Len(text) + 1] = <<>>
  BY DEF Scanned
<1>2. /\ Append(s, e) \in Seq(Nat) /\ Len(Append(s, e)) = Len(s) + 1 /\ Len(s) \in Nat
      /\ Append(s, e)[Len(s) + 1] = e /\ \A k \in 1 .. Len(s) : Append(s, e)[k] = s[k]
      /\ Append(s, e) = s \o <<e>>
  OBVIOUS
<1> SUFFICES ASSUME Len(s) + 1 <= Len(list), Append(s, e) = SubSeq(list, 1, Len(s) + 1)
             PROVE  \E p \in Len(s) + 1 + 1 .. Len(text) + 1 :
                      SaidUpTo(x, Append(s, e), acc \o piece, p)
  BY <1>1, <1>2, Zenon DEF SaysSoFar
<1>3. /\ s = SubSeq(list, 1, Len(s)) /\ Len(s) <= Len(list)
      /\ list[Len(s) + 1] = e
  <2>1. \A k \in 1 .. Len(s) + 1 : SubSeq(list, 1, Len(s) + 1)[k] = list[k]
    BY <1>1, <1>2
  <2>2. PICK t \in Seq(Nat) : t = SubSeq(list, 1, Len(s)) /\ Len(t) = Len(s)
           /\ \A k \in 1 .. Len(s) : t[k] = list[k]
    <3>1. /\ SubSeq(list, 1, Len(s)) \in Seq(Nat) /\ Len(SubSeq(list, 1, Len(s))) = Len(s)
          /\ \A k \in 1 .. Len(s) : SubSeq(list, 1, Len(s))[k] = list[k]
      BY <1>1, <1>2
    <3> QED
      BY <3>1
  <2>3. \A k \in 1 .. Len(s) : s[k] = t[k]
    BY <1>2, <2>1, <2>2
  <2>4. s = t
    BY <2>2, <2>3, SeqEqual
  <2>5. Len(s) + 1 \in 1 .. Len(s) + 1
    BY <1>2
  <2>6. list[Len(s) + 1] = e
    BY <1>2, <2>1, <2>5, Zenon
  <2>7. Len(s) <= Len(list)
    BY <1>1, <1>2
  <2> QED
    BY <2>2, <2>4, <2>6, <2>7
<1>4. PICK p \in Len(s) + 1 .. Len(text) + 1 : SaidUpTo(x, s, acc, p)
  BY <1>1, <1>3 DEF SaysSoFar
<1>5. list = s \o from[p] /\ acc = SubSeq(text, 1, p - 1)
  BY <1>1, <1>4 DEF SaidUpTo
<1>6. /\ Len(text) \in Nat /\ p \in 1 .. Len(text) + 1 /\ p \in Nat
  BY <1>1, <1>2
<1>7. PICK rest \in Seq(Nat) : rest = from[p]
  BY <1>1, <1>6
<1>8. Len(rest) > 0 /\ rest[1] = e
  <2>1. list = s \o rest
    BY <1>5, <1>7
  <2>2. Len(list) = Len(s) + Len(rest)
    BY <2>1
  <2>3. Len(rest) > 0
    BY <1>2, <2>2
  <2>4. (s \o rest)[Len(s) + 1] = rest[1]
    BY <1>2, <2>3
  <2> QED
    BY <1>3, <2>1, <2>3, <2>4
<1>9. p \in 1 .. Len(text)
  <2>1. p # Len(text) + 1
    BY <1>1, <1>7, <1>8
  <2> QED
    BY <1>6, <2>1
<1>10. PICK token \in Nat : \E said : Says(x, p, token, said) /\ (token = e => said = piece)
  BY <1>1, <1>9
<1>said. PICK said : Says(x, p, token, said) /\ (token = e => said = piece)
  BY <1>10
<1>11. PICK n \in 1 .. Len(text) - p + 1 :
         rest = <<token>> \o from[p + n] /\ said = SubSeq(text, p, p + n - 1)
  BY <1>1, <1>7, <1>said DEF Says
<1>12. /\ p + n \in 1 .. Len(text) + 1 /\ p + n \in Len(s) + 1 + 1 .. Len(text) + 1
  BY <1>2, <1>6
<1>13. PICK onward \in Seq(Nat) : onward = from[p + n]
  BY <1>1, <1>12
<1>14. token = e /\ said = piece
  <2>1. (<<token>> \o onward)[1] = token
    OBVIOUS
  <2>2. token = e
    BY <1>8, <1>11, <1>13, <2>1
  <2> QED
    BY <1>said, <2>2
<1>15. list = Append(s, e) \o from[p + n]
  <2>1. <<e>> \in Seq(Nat)
    OBVIOUS
  <2>2. list = s \o (<<e>> \o onward)
    BY <1>5, <1>7, <1>11, <1>13, <1>14, Zenon
  <2>3. (s \o <<e>>) \o onward = s \o (<<e>> \o onward)
    BY <2>1, ConcatAssociative
  <2> QED
    BY <1>2, <1>13, <2>2, <2>3, Zenon
<1>16. acc \o piece = SubSeq(text, 1, p + n - 1)
  BY <1>1, <1>5, <1>9, <1>11, <1>14, PartsJoin, Zenon
<1>17. SaidUpTo(x, Append(s, e), acc \o piece, p + n)
  <2>1. x.tokens = list /\ x.text = text /\ x.from = from
    BY <1>1
  <2>2. x.tokens = Append(s, e) \o x.from[p + n]
    BY <1>15, <2>1, Zenon
  <2>3. acc \o piece = SubSeq(x.text, 1, (p + n) - 1)
    BY <1>16, <2>1
  <2> QED
    BY <2>2, <2>3, Zenon DEF SaidUpTo
<1> QED
  BY <1>12, <1>17, Zenon

\* All tokens say the text, and the first ones a prefix of it.
LEMMA SaysAll ==
  ASSUME NEW x, Scanned(x), NEW m \in Nat, m <= Len(x.tokens),
         NEW acc, SaysSoFar(x, SubSeq(x.tokens, 1, m), acc),
         \A p \in 1 .. Len(x.text) : \E token \in Nat : \E said : Says(x, p, token, said)
  PROVE  /\ m <= Len(x.text) /\ I!IsPrefix(acc, x.text)
         /\ m = Len(x.tokens) => acc = x.text
<1>1. PICK symbols, text, list, from :
        /\ symbols = x.symbols /\ text = x.text /\ list = x.tokens /\ from = x.from
        /\ text \in Seq(symbols) /\ list \in Seq(Nat)
        /\ \A p \in 1 .. Len(text) + 1 : from[p] \in Seq(Nat)
  BY DEF Scanned
<1>2. PICK s \in Seq(Nat) : s = SubSeq(list, 1, m) /\ Len(s) = m /\ m <= Len(list)
  <2>1. SubSeq(list, 1, m) \in Seq(Nat) /\ Len(SubSeq(list, 1, m)) = m
    BY <1>1
  <2> QED
    BY <1>1, <2>1
<1>3. PICK p \in m + 1 .. Len(text) + 1 : list = s \o from[p] /\ acc = SubSeq(text, 1, p - 1)
  BY <1>1, <1>2 DEF SaysSoFar, SaidUpTo
<1>4. /\ Len(text) \in Nat /\ p \in 1 .. Len(text) + 1 /\ p - 1 \in Nat /\ p - 1 <= Len(text)
      /\ m <= Len(text)
  BY <1>1
<1>5. acc \in Seq(symbols) /\ Len(acc) = p - 1 /\ \A k \in 1 .. p - 1 : acc[k] = text[k]
  BY <1>1, <1>3, <1>4, FirstPart, Zenon
<1>6. I!IsPrefix(acc, text)
  <2>1. SubSeq(acc, 1, Len(acc)) = acc
    BY <1>5
  <2>2. SubSeq(text, 1, Len(acc)) = acc /\ Len(acc) <= Len(text)
    BY <1>3, <1>4, <1>5
  <2> QED
    BY <2>1, <2>2 DEF I!IsPrefix
<1>7. ASSUME m = Len(list) PROVE acc = text
  <2>1. PICK rest \in Seq(Nat) : rest = from[p]
    BY <1>1, <1>4
  <2>2. Len(rest) = 0
    <3>1. Len(s \o rest) = Len(s) + Len(rest)
      OBVIOUS
    <3>2. Len(list) = Len(list) + Len(rest)
      BY <1>2, <1>3, <1>7, <2>1, <3>1, Zenon
    <3>3. Len(list) \in Nat /\ Len(rest) \in Nat
      BY <1>1
    <3>4. \A a, b \in Nat : a = a + b => b = 0
      OBVIOUS
    <3> QED
      BY <3>2, <3>3, <3>4, Zenon
  <2>3. p = Len(text) + 1
    <3> SUFFICES ASSUME p \in 1 .. Len(text) PROVE FALSE
      BY <1>4
    <3>1. PICK token \in Nat, n \in 1 .. Len(text) - p + 1 : rest = <<token>> \o from[p + n]
      BY <1>1, <2>1 DEF Says
    <3>2. p + n \in 1 .. Len(text) + 1
      BY <1>4
    <3>3. PICK onward \in Seq(Nat) : onward = from[p + n]
      BY <1>1, <3>2
    <3>4. Len(<<token>> \o onward) > 0
      OBVIOUS
    <3> QED
      BY <2>2, <3>1, <3>3, <3>4
  <2>4. p - 1 = Len(text)
    <3>1. PICK n \in Nat : n = Len(text)
      BY <1>4
    <3>2. p = n + 1
      BY <2>3, <3>1, Zenon
    <3>3. p - 1 = n
      BY <3>1, <3>2
    <3> QED
      BY <3>1, <3>3, Zenon
  <2>5. Len(acc) = Len(text) /\ \A k \in 1 .. Len(acc) : acc[k] = text[k]
    BY <1>5, <2>4, Zenon
  <2>6. acc \in Seq(symbols) /\ text \in Seq(symbols)
    BY <1>1, <1>5, Zenon
  <2> QED
    BY <2>5, <2>6, SeqEqual, Zenon
<1> QED
  BY <1>1, <1>4, <1>6, <1>7

-----------------------------------------------------------------------------
(* The tokenizer of the models.                                            *)

\* A token of the text is one of its parts, or the entry "<unk>".
Spoken(entries, text) ==
  {id \in Nat : LET piece == I!Piece(entries, id)
                IN  piece = I!Unk
                    \/ \E p \in DOMAIN text : I!IsPrefix(piece, SubSeq(text, p, Len(text)))}

\* What a text goes on with.
LEMMA GoesOn ==
  ASSUME NEW symbols, NEW text \in Seq(symbols), NEW pos \in 1 .. Len(text),
         NEW kind, NEW piece \in Seq(kind)
  PROVE  I!IsPrefix(piece, SubSeq(text, pos, Len(text))) <=>
           /\ Len(piece) <= Len(text) - pos + 1
           /\ \A k \in 1 .. Len(piece) : piece[k] = text[pos - 1 + k]
<1>1. PICK rest \in Seq(symbols) :
        /\ rest = SubSeq(text, pos, Len(text)) /\ Len(rest) = Len(text) - pos + 1
        /\ \A k \in 1 .. Len(text) - pos + 1 : rest[k] = text[pos - 1 + k]
  <2>1. /\ SubSeq(text, pos, Len(text)) \in Seq(symbols)
        /\ Len(SubSeq(text, pos, Len(text))) = Len(text) - pos + 1
        /\ \A k \in 1 .. Len(text) - pos + 1 :
             SubSeq(text, pos, Len(text))[k] = text[pos - 1 + k]
    OBVIOUS
  <2> QED
    BY <2>1
<1>2. PICK n \in Nat : n = Len(piece)
  OBVIOUS
<1>3. SubSeq(piece, 1, n) = piece
  BY <1>2
<1>4. CASE n <= Len(rest)
  <2>1. PICK slice \in Seq(symbols) :
          slice = SubSeq(rest, 1, n) /\ Len(slice) = n /\ \A k \in 1 .. n : slice[k] = rest[k]
    <3>1. /\ SubSeq(rest, 1, n) \in Seq(symbols) /\ Len(SubSeq(rest, 1, n)) = n
          /\ \A k \in 1 .. n : SubSeq(rest, 1, n)[k] = rest[k]
      BY <1>4, FirstPart, Zenon
    <3> QED
      BY <3>1
  <2>2. piece = slice <=> \A k \in 1 .. n : piece[k] = slice[k]
    <3>1. \A k \in 1 .. n : piece[k] = slice[k] => piece[k] \in symbols
      BY <2>1
    <3>2. ASSUME \A k \in 1 .. n : piece[k] = slice[k] PROVE piece = slice
      <4>1. piece \in Seq(kind \cup symbols) /\ slice \in Seq(kind \cup symbols)
        BY SeqMonotonic
      <4> QED
        BY <1>2, <2>1, <3>2, <4>1, SeqEqual
    <3> QED
      BY <3>2
  <2>3. \A k \in 1 .. n : slice[k] = text[pos - 1 + k]
    <3>1. \A k \in 1 .. n : k \in 1 .. Len(text) - pos + 1
      BY <1>1, <1>4
    <3> QED
      BY <1>1, <2>1, <3>1
  <2>4. I!IsPrefix(piece, rest) <=> piece = slice
    BY <1>2, <1>3, <1>4, <2>1, Zenon DEF I!IsPrefix
  <2>5. Len(piece) <= Len(text) - pos + 1
    BY <1>1, <1>2, <1>4
  <2> QED
    BY <1>1, <1>2, <2>2, <2>3, <2>4, <2>5, Zenon
<1>5. CASE ~(n <= Len(rest))
  BY <1>1, <1>2, <1>5 DEF I!IsPrefix
<1> QED
  BY <1>4, <1>5

\* An identifier that was looked up is the index of that piece.
LEMMA LookupFinds ==
  ASSUME NEW entries, NEW symbols, entries \in Seq(Seq(symbols)), NEW piece,
         NEW id, id = I!Lookup(entries, piece), id # I!None
  PROVE  id \in 0 .. Len(entries) - 1 /\ entries[id + 1] = piece
<1>1. PICK found : found = {i \in DOMAIN entries : entries[i] = piece}
  OBVIOUS
<1>2. found \in SUBSET Nat /\ found # {}
  BY <1>1 DEF I!Lookup
<1>3. PICK i \in found : i = I!Min0(found)
  BY <1>2, Passing!SmallestOf DEF I!Min0
<1>4. id = i - 1
  BY <1>1, <1>2, <1>3 DEF I!Lookup
<1>5. i \in 1 .. Len(entries) /\ Len(entries) \in Nat /\ entries[i] = piece
  BY <1>1
<1> QED
  BY <1>4, <1>5

\* The three symbols of a byte token, which is not the entry "<unk>".
LEMMA ByteTokenIs ==
  ASSUME NEW b
  PROVE  /\ Len(I!ByteToken(b)) = 3 /\ I!ByteToken(b)[1] = "<" /\ I!ByteToken(b)[2] = b
         /\ I!ByteToken(b) # I!Unk
         /\ \A c : I!ByteToken(c) = I!ByteToken(b) => c = b
<1>1. /\ Len(I!ByteToken(b)) = 3 /\ I!ByteToken(b)[1] = "<" /\ I!ByteToken(b)[2] = b
  BY DEF I!ByteToken
<1>2. I!Unk[1] = "u"
  BY DEF I!Unk
<1>3. \A c : I!ByteToken(c)[2] = c
  BY DEF I!ByteToken
<1> QED
  BY <1>1, <1>2, <1>3

\* What an entry says: itself, or the byte that it stands for.
LEMMA EntrySays ==
  ASSUME NEW entries, NEW symbols, entries \in Seq(Seq(symbols)), NEW i \in 1 .. Len(entries)
  PROVE  \/ /\ \A b \in Byte : entries[i] # I!ByteToken(b)
            /\ I!Piece(entries, i - 1) = entries[i]
         \/ \E b \in Byte : entries[i] = I!ByteToken(b) /\ I!Piece(entries, i - 1) = <<b>>
<1>1. i - 1 \in 0 .. Len(entries) - 1 /\ (i - 1) + 1 = i
  OBVIOUS
<1>2. I!Piece(entries, i - 1) =
        IF \E b \in Byte : entries[(i - 1) + 1] = I!ByteToken(b)
        THEN <<CHOOSE b \in Byte : entries[(i - 1) + 1] = I!ByteToken(b)>>
        ELSE entries[(i - 1) + 1]
  BY <1>1 DEF I!Piece
<1>3. CASE \E b \in Byte : entries[i] = I!ByteToken(b)
  <2>1. PICK b : b = CHOOSE c \in Byte : entries[i] = I!ByteToken(c)
    OBVIOUS
  <2>2. b \in Byte /\ entries[i] = I!ByteToken(b)
    BY <1>3, <2>1
  <2>3. I!Piece(entries, i - 1) = <<b>>
    BY <1>1, <1>2, <1>3, <2>1
  <2> QED
    BY <2>2, <2>3
<1>4. CASE \A b \in Byte : entries[i] # I!ByteToken(b)
  BY <1>1, <1>2, <1>4
<1> QED
  BY <1>3, <1>4

\* What the fallback of a byte says: that byte, or "<unk>" for want of an
\* identifier.  No identifier of another entry stands for the byte.
LEMMA FallbackSays ==
  ASSUME I!ByteAssumption, NEW entries, NEW symbols, entries \in Seq(Seq(symbols)),
         NEW b \in Byte, NEW id, id = I!Fallback(entries, b), id # I!None
  PROVE  /\ id \in Nat
         /\ \/ I!Piece(entries, id) = <<b>>
            \/ /\ I!Piece(entries, id) = I!Unk
               /\ I!Lookup(entries, I!ByteToken(b)) = I!None /\ Code[b] < Len(entries)
<1>1. Len(entries) \in Nat /\ Code[b] \in 1 .. 255 /\ \A c \in Byte : Code[c] = Code[b] => c = b
  BY DEF I!ByteAssumption
<1>2. Code[b] \in Nat
  <2>1. PICK value \in 1 .. 255 : value = Code[b]
    BY <1>1
  <2>2. value \in Nat
    OBVIOUS
  <2> QED
    BY <2>1, <2>2
<1>3. \A n, m \in Nat : (n >= m => n \notin 0 .. m - 1) /\ (~(n >= m) => n < m)
  OBVIOUS
<1>4. CASE I!Lookup(entries, I!ByteToken(b)) # I!None
  <2>1. id = I!Lookup(entries, I!ByteToken(b))
    BY <1>4 DEF I!Fallback
  <2>2. id \in 0 .. Len(entries) - 1 /\ entries[id + 1] = I!ByteToken(b)
    BY <1>4, <2>1, LookupFinds
  <2>3. PICK i \in 1 .. Len(entries) : i = id + 1 /\ i - 1 = id
    BY <1>1, <2>2
  <2>4. PICK c \in Byte : entries[i] = I!ByteToken(c) /\ I!Piece(entries, i - 1) = <<c>>
    BY <2>2, <2>3, EntrySays
  <2>5. c = b
    BY <2>2, <2>3, <2>4, ByteTokenIs
  <2> QED
    BY <1>1, <2>2, <2>3, <2>4, <2>5
<1>5. CASE I!Lookup(entries, I!ByteToken(b)) = I!None /\ Code[b] >= Len(entries)
  <2>1. id = Code[b]
    BY <1>5 DEF I!Fallback
  <2>2. id >= Len(entries) /\ id \notin 0 .. Len(entries) - 1 /\ id \in Nat
    BY <1>3, <1>1, <1>5, <1>2, <2>1, Zenon
  <2>3. (CHOOSE c \in Byte : Code[c] = id) = b
    BY <1>1, <2>1
  <2>4. I!Piece(entries, id) = <<CHOOSE c \in Byte : Code[c] = id>>
    BY <2>1, <2>2 DEF I!Piece
  <2> QED
    BY <2>2, <2>3, <2>4
<1>6. CASE I!Lookup(entries, I!ByteToken(b)) = I!None /\ ~(Code[b] >= Len(entries))
  <2>1. id = I!Lookup(entries, I!Unk)
    BY <1>6 DEF I!Fallback
  <2>2. id \in 0 .. Len(entries) - 1 /\ entries[id + 1] = I!Unk
    BY <2>1, LookupFinds
  <2>3. PICK i \in 1 .. Len(entries) : i = id + 1 /\ i - 1 = id
    BY <1>1, <2>2
  <2>4. I!Piece(entries, id) = I!Unk
    BY <2>2, <2>3, EntrySays, ByteTokenIs
  <2>5. id \in Nat
    BY <2>2
  <2>6. Code[b] < Len(entries)
    BY <1>3, <1>1, <1>6, <1>2, Zenon
  <2> QED
    BY <1>6, <2>4, <2>5, <2>6
<1> QED
  BY <1>4, <1>5, <1>6

\* A byte is how the text goes on at its place.
LEMMA ByteGoesOn ==
  ASSUME NEW text \in Seq(Byte), NEW pos \in 1 .. Len(text)
  PROVE  /\ I!IsPrefix(<<text[pos]>>, SubSeq(text, pos, Len(text)))
         /\ <<text[pos]>> = SubSeq(text, pos, pos)
<1>1. text[pos] \in Byte /\ pos - 1 + 1 = pos /\ Len(text) - pos + 1 >= 1 /\ pos \in Nat
  OBVIOUS
<1>2. PICK piece \in Seq(Byte) : piece = <<text[pos]>> /\ Len(piece) = 1 /\ piece[1] = text[pos]
  <2>1. \A b \in Byte : <<b>> \in Seq(Byte) /\ Len(<<b>>) = 1 /\ <<b>>[1] = b
    OBVIOUS
  <2> QED
    BY <1>1, <2>1
<1>3. Len(piece) <= Len(text) - pos + 1 /\ \A k \in 1 .. Len(piece) : piece[k] = text[pos - 1 + k]
  <2>1. \A k \in 1 .. 1 : k = 1
    OBVIOUS
  <2> QED
    BY <1>1, <1>2, <2>1
<1>4. I!IsPrefix(piece, SubSeq(text, pos, Len(text)))
  BY <1>3, GoesOn
<1>5. <<text[pos]>> = SubSeq(text, pos, pos)
  OBVIOUS
<1> QED
  BY <1>2, <1>4, <1>5

\* What an entry says that the text goes on with: what it goes on with, or the byte
\* of a byte token that is spelled there.
LEMMA MatchSays ==
  ASSUME NEW entries, NEW text, Spelled(entries, text), NEW pos \in 1 .. Len(text),
         NEW i \in I!Matches(entries, text, pos)
  PROVE  /\ i \in 1 .. Len(entries) /\ i - 1 \in Spoken(entries, text)
         /\ \/ /\ I!Piece(entries, i - 1) = entries[i]
               /\ entries[i] = SubSeq(text, pos, pos + Len(entries[i]) - 1)
            \/ pos + 2 <= Len(text) /\ \E b \in Byte : SubSeq(text, pos, pos + 2) = I!ByteToken(b)
<1>1. PICK symbols : entries \in Seq(Seq(symbols))
  BY DEF Spelled
<1>2. text \in Seq(Byte) /\ Len(text) \in Nat /\ Len(entries) \in Nat
  BY <1>1 DEF Spelled
<1>3. /\ i \in 1 .. Len(entries) /\ entries[i] # <<>>
      /\ I!IsPrefix(entries[i], SubSeq(text, pos, Len(text)))
  <2>1. DOMAIN entries = 1 .. Len(entries)
    BY <1>1
  <2> QED
    BY <2>1 DEF I!Matches
<1>4. PICK entry \in Seq(symbols) : entry = entries[i]
  BY <1>1, <1>3
<1>5. /\ Len(entry) <= Len(text) - pos + 1 /\ Len(entry) \in Nat /\ Len(entry) # 0
      /\ \A k \in 1 .. Len(entry) : entry[k] = text[pos - 1 + k]
  <2>1. /\ Len(entry) <= Len(text) - pos + 1
        /\ \A k \in 1 .. Len(entry) : entry[k] = text[pos - 1 + k]
    BY <1>2, <1>3, <1>4, GoesOn
  <2>2. Len(entry) \in Nat /\ Len(entry) # 0
    BY <1>3, <1>4
  <2> QED
    BY <2>1, <2>2
<1>6. i - 1 \in Nat
  BY <1>2, <1>3
<1>7. entry = SubSeq(text, pos, pos + Len(entry) - 1)
  <2>1. PICK n \in Nat : n = Len(entry) /\ n # 0 /\ n <= Len(text) - pos + 1
    BY <1>5
  <2>2. PICK slice \in Seq(Byte) :
          /\ slice = SubSeq(text, pos, pos + n - 1) /\ Len(slice) = n
          /\ \A k \in 1 .. n : slice[k] = text[pos - 1 + k]
    <3>1. /\ SubSeq(text, pos, pos + n - 1) \in Seq(Byte)
          /\ Len(SubSeq(text, pos, pos + n - 1)) = n
          /\ \A k \in 1 .. n : SubSeq(text, pos, pos + n - 1)[k] = text[pos - 1 + k]
      BY <1>2, <2>1
    <3> QED
      BY <3>1
  <2>3. entry \in Seq(symbols \cup Byte) /\ slice \in Seq(symbols \cup Byte)
    BY SeqMonotonic
  <2>4. entry = slice
    BY <1>5, <2>1, <2>2, <2>3, SeqEqual
  <2> QED
    BY <2>1, <2>2, <2>4
<1>8. CASE I!Piece(entries, i - 1) = entries[i]
  <2>1. pos \in DOMAIN text
    BY <1>2
  <2> QED
    BY <1>3, <1>4, <1>6, <1>7, <1>8, <2>1 DEF Spoken
<1>9. CASE \E b \in Byte : entries[i] = I!ByteToken(b) /\ I!Piece(entries, i - 1) = <<b>>
  <2>1. PICK b \in Byte : entry = I!ByteToken(b) /\ I!Piece(entries, i - 1) = <<b>>
    BY <1>4, <1>9
  <2>2. Len(entry) = 3 /\ entry[2] = b
    BY <2>1, ByteTokenIs
  <2>3. pos + 2 <= Len(text) /\ pos + 3 - 1 = pos + 2 /\ pos - 1 + 2 = pos + 1
        /\ pos + 1 \in 1 .. Len(text) /\ 2 \in 1 .. 3
    BY <1>2, <1>5, <2>2
  <2>4. SubSeq(text, pos, pos + 2) = I!ByteToken(b)
    BY <1>7, <2>1, <2>2, <2>3
  <2>5. text[pos + 1] = b
    BY <1>5, <2>2, <2>3
  <2>6. I!IsPrefix(<<b>>, SubSeq(text, pos + 1, Len(text))) /\ pos + 1 \in DOMAIN text
    BY <1>2, <2>3, <2>5, ByteGoesOn
  <2>7. i - 1 \in Spoken(entries, text)
    BY <1>6, <2>1, <2>6 DEF Spoken
  <2> QED
    BY <1>3, <2>3, <2>4, <2>7
<1>10. \/ I!Piece(entries, i - 1) = entries[i]
       \/ \E b \in Byte : entries[i] = I!ByteToken(b) /\ I!Piece(entries, i - 1) = <<b>>
  BY <1>1, <1>3, EntrySays
<1> QED
  BY <1>8, <1>9, <1>10

\* The tokens from a place on are spoken if those from the places after it are.
LEMMA TokensSpoken ==
  ASSUME I!ByteAssumption, NEW entries, NEW text, Spelled(entries, text),
         NEW pos \in 1 .. Len(text) + 1, NEW f,
         \A p \in pos + 1 .. Len(text) + 1 : f[p] \in Seq(Spoken(entries, text))
  PROVE  TokensOn(entries, text, f, pos) \in Seq(Spoken(entries, text))
<1> DEFINE spoken == Spoken(entries, text)
<1>1. Len(text) \in Nat /\ text \in Seq(Byte)
  BY DEF Spelled
<1>2. CASE pos > Len(text)
  BY <1>2 DEF TokensOn
<1>3. CASE ~(pos > Len(text)) /\ I!Matches(entries, text, pos) # {}
  <2>1. pos \in 1 .. Len(text)
    BY <1>1, <1>3
  <2>2. PICK i : i = I!BestMatch(entries, text, pos)
    OBVIOUS
  <2>3. i \in I!Matches(entries, text, pos) /\ pos + Len(entries[i]) \in pos + 1 .. Len(text) + 1
    BY <1>3, <2>1, <2>2, BestReaches
  <2>4. i - 1 \in spoken
    BY <2>1, <2>3, MatchSays
  <2>5. TokensOn(entries, text, f, pos) = <<i - 1>> \o f[pos + Len(entries[i])]
    BY <1>3, <2>2 DEF TokensOn
  <2> HIDE DEF spoken
  <2>6. <<i - 1>> \in Seq(spoken) /\ f[pos + Len(entries[i])] \in Seq(spoken)
    BY <2>3, <2>4 DEF spoken
  <2>7. <<i - 1>> \o f[pos + Len(entries[i])] \in Seq(spoken)
    BY <2>6
  <2> QED
    BY <2>5, <2>7 DEF spoken
<1>4. CASE ~(pos > Len(text)) /\ I!Matches(entries, text, pos) = {}
  <2>1. pos \in 1 .. Len(text) /\ text[pos] \in Byte /\ pos + 1 \in pos + 1 .. Len(text) + 1
        /\ pos \in DOMAIN text
    BY <1>1, <1>4
  <2>2. PICK id : id = I!Fallback(entries, text[pos])
    OBVIOUS
  <2>3. PICK one : one = IF id = I!None THEN <<>> ELSE <<id>>
    OBVIOUS
  <2>4. TokensOn(entries, text, f, pos) = one \o f[pos + 1]
    BY <1>4, <2>2, <2>3 DEF TokensOn
  <2>5. ASSUME id # I!None PROVE id \in spoken
    <3>1. id \in Nat /\ (I!Piece(entries, id) = <<text[pos]>> \/ I!Piece(entries, id) = I!Unk)
      BY <2>1, <2>2, <2>5, FallbackSays DEF Spelled
    <3>2. I!IsPrefix(<<text[pos]>>, SubSeq(text, pos, Len(text)))
      BY <1>1, <2>1, ByteGoesOn
    <3> QED
      BY <2>1, <3>1, <3>2 DEF Spoken
  <2> HIDE DEF spoken
  <2>6. one \in Seq(spoken) /\ f[pos + 1] \in Seq(spoken)
    <3>1. f[pos + 1] \in Seq(spoken)
      BY <2>1 DEF spoken
    <3>2. one \in Seq(spoken)
      BY <2>3, <2>5
    <3> QED
      BY <3>1, <3>2
  <2>7. one \o f[pos + 1] \in Seq(spoken)
    BY <2>6
  <2> QED
    BY <2>4, <2>7 DEF spoken
<1> QED
  BY <1>2, <1>3, <1>4

\* The recursion of the tokenizer, by its places, and what it has spoken so far
Unsaid(x) == <<>>
ScanText(x, f, pos) == TokensOn(x.entries, x.text, f, pos)
TextScan == INSTANCE FoldTheorems
  WITH T <- Nat, Base <- Unsaid, Op <- ScanText, P <- SaysSoFar
SayToken(x, text, id) == text \o I!Piece(x.entries, id)
Saying == INSTANCE FoldTheorems
  WITH T <- Nat, Base <- Unsaid, Op <- SayToken, P <- SaysSoFar

\* Each token of the tokenizer's recursion is spoken.
LEMMA TokensAreSpoken ==
  ASSUME I!ByteAssumption, NEW entries, NEW text, Spelled(entries, text)
  PROVE  \E f : /\ I!TokensFrom(entries, text) = f[1]
                /\ \A pos \in 1 .. Len(text) + 1 :
                     /\ f[pos] \in Seq(Spoken(entries, text))
                     /\ f[pos] = TokensOn(entries, text, f, pos)
<1>1. Len(text) \in Nat
  BY DEF Spelled
<1>2. PICK x : x = [entries |-> entries, text |-> text]
  OBVIOUS
<1>3. \A f, pos : ScanText(x, f, pos) = TokensOn(entries, text, f, pos)
  BY <1>2 DEF ScanText
<1>4. PICK f : /\ I!TokensFrom(entries, text) = f[1]
               /\ \A pos \in 1 .. Len(text) + 1 : f[pos] = TokensOn(entries, text, f, pos)
  BY TokensUnfold
<1>5. \A pos \in 1 .. Len(text) + 1 : f[pos] \in Seq(Spoken(entries, text))
  <2>1. \A pos \in 1 .. Len(text) + 1 : f[pos] = ScanText(x, f, pos)
    BY <1>3, <1>4
  <2>2. \A pos \in 1 .. Len(text) + 1 :
          (\A p \in pos + 1 .. Len(text) + 1 : f[p] \in Seq(Spoken(entries, text))) =>
            ScanText(x, f, pos) \in Seq(Spoken(entries, text))
    BY <1>3, TokensSpoken
  <2> QED
    BY <1>1, <2>1, <2>2, TextScan!RecursionTyped
<1> QED
  BY <1>4, <1>5

\* A vocabulary that covers a text says, at each place, what stands there.
LEMMA CoveredSays ==
  ASSUME I!ByteAssumption, NEW entries, NEW text, Spelled(entries, text), I!Covers(entries, text),
         NEW x, x.text = text, NEW pos \in 1 .. Len(text),
         x.from[pos] = TokensOn(entries, text, x.from, pos)
  PROVE  \E token \in Nat : Says(x, pos, token, I!Piece(entries, token))
<1>1. /\ Len(text) \in Nat /\ text \in Seq(Byte) /\ text[pos] \in Byte /\ pos \in DOMAIN text
      /\ ~(pos > Len(text))
  BY DEF Spelled
<1>2. CASE I!Matches(entries, text, pos) # {}
  <2>1. PICK i : i = I!BestMatch(entries, text, pos)
    OBVIOUS
  <2>2. i \in I!Matches(entries, text, pos) /\ pos + Len(entries[i]) \in pos + 1 .. Len(text) + 1
    BY <1>2, <2>1, BestReaches
  <2>3. /\ i - 1 \in Nat /\ I!Piece(entries, i - 1) = entries[i]
        /\ entries[i] = SubSeq(text, pos, pos + Len(entries[i]) - 1)
    <3>1. pos + 2 <= Len(text) => \A b \in Byte : SubSeq(text, pos, pos + 2) # I!ByteToken(b)
      BY <1>1 DEF I!Covers
    <3> QED
      BY <2>2, <3>1, MatchSays DEF Spoken
  <2>4. x.from[pos] = <<i - 1>> \o x.from[pos + Len(entries[i])]
    BY <1>1, <1>2, <2>1 DEF TokensOn
  <2>5. PICK n \in 1 .. Len(text) - pos + 1 : n = Len(entries[i])
    <3>1. PICK q \in pos + 1 .. Len(text) + 1 : q = pos + Len(entries[i])
      BY <2>2
    <3>2. Len(entries[i]) \in Nat
      BY <2>2, MatchSays DEF Spelled
    <3>3. Len(entries[i]) \in 1 .. Len(text) - pos + 1
      BY <1>1, <3>1, <3>2
    <3> QED
      BY <3>3
  <2> QED
    BY <2>3, <2>4, <2>5 DEF Says
<1>3. CASE I!Matches(entries, text, pos) = {}
  <2>1. PICK id : id = I!Fallback(entries, text[pos])
    OBVIOUS
  <2>2. I!Lookup(entries, <<text[pos]>>) = I!None
    <3> SUFFICES ASSUME I!Lookup(entries, <<text[pos]>>) # I!None PROVE FALSE
      OBVIOUS
    <3>1. PICK symbols : entries \in Seq(Seq(symbols))
      BY DEF Spelled
    <3>2. PICK at : at = I!Lookup(entries, <<text[pos]>>)
      OBVIOUS
    <3>3. at \in 0 .. Len(entries) - 1 /\ entries[at + 1] = <<text[pos]>>
      BY <3>1, <3>2, LookupFinds
    <3>4. at + 1 \in DOMAIN entries
      BY <3>1, <3>3
    <3>5. I!IsPrefix(<<text[pos]>>, SubSeq(text, pos, Len(text))) /\ <<text[pos]>> # <<>>
      BY <1>1, ByteGoesOn
    <3> QED
      BY <1>3, <3>3, <3>4, <3>5 DEF I!Matches
  <2>3. I!Lookup(entries, I!ByteToken(text[pos])) # I!None \/ Code[text[pos]] >= Len(entries)
    BY <1>1, <2>2 DEF I!Covers
  <2>4. id # I!None
    <3>1. PICK value \in 1 .. 255 : value = Code[text[pos]]
      BY <1>1 DEF I!ByteAssumption
    <3>2. value # I!None
      BY DEF I!None
    <3> QED
      BY <2>1, <2>3, <3>1, <3>2 DEF I!Fallback
  <2>5. id \in Nat /\ I!Piece(entries, id) = <<text[pos]>>
    <3>1. PICK value \in 1 .. 255 : value = Code[text[pos]]
      BY <1>1 DEF I!ByteAssumption
    <3>2. PICK n \in Nat : n = Len(entries)
      BY DEF Spelled
    <3>3. value >= n => ~(value < n)
      OBVIOUS
    <3>4. /\ id \in Nat
          /\ \/ I!Piece(entries, id) = <<text[pos]>>
             \/ /\ I!Lookup(entries, I!ByteToken(text[pos])) = I!None
                /\ Code[text[pos]] < Len(entries)
      BY <1>1, <2>1, <2>4, FallbackSays DEF Spelled
    <3> QED
      BY <2>3, <3>1, <3>2, <3>3, <3>4
  <2>6. x.from[pos] = <<id>> \o x.from[pos + 1]
    BY <1>1, <1>3, <2>1, <2>4 DEF TokensOn
  <2>7. <<text[pos]>> = SubSeq(text, pos, pos + 1 - 1) /\ 1 \in 1 .. Len(text) - pos + 1
    <3>1. pos + 1 - 1 = pos /\ 1 \in 1 .. Len(text) - pos + 1
      BY <1>1
    <3> QED
      BY <1>1, <3>1, ByteGoesOn
  <2> QED
    BY <2>5, <2>6, <2>7 DEF Says
<1> QED
  BY <1>2, <1>3

\* What an accumulation of the first tokens says.
LEMMA SayingFollows ==
  ASSUME NEW x, Scanned(x),
         \A p \in 1 .. Len(x.text) :
           \E token \in Nat : Says(x, p, token, I!Piece(x.entries, token))
  PROVE  \A s \in Seq(Nat) : SaysSoFar(x, s, Saying!Fold(x, s))
<1>1. SaysSoFar(x, <<>>, <<>>)
  BY NothingSaid
<1>2. ASSUME NEW s \in Seq(Nat), NEW e \in Nat, NEW acc, SaysSoFar(x, s, acc)
      PROVE  SaysSoFar(x, Append(s, e), SayToken(x, acc, e))
  <2>1. PICK piece : piece = I!Piece(x.entries, e)
    OBVIOUS
  <2>2. \A p \in 1 .. Len(x.text) : \E token \in Nat : \E said :
          Says(x, p, token, said) /\ (token = e => said = piece)
    BY <2>1
  <2>3. SaysSoFar(x, Append(s, e), acc \o piece)
    BY <1>2, <2>2, SaysOn, Zenon
  <2> QED
    BY <2>1, <2>3, Zenon DEF SayToken
<1> QED
  BY <1>1, <1>2, Saying!FoldInduction DEF Unsaid

\* Decoding tokens accumulates what they say.
LEMMA DetokenizeIs ==
  ASSUME NEW x, NEW list
  PROVE  I!Detokenize(x.entries, list) = Saying!Fold(x, list)
BY DEF I!Detokenize, Saying!Fold, SayToken, Unsaid, I!FoldLeft, Saying!FoldLeft,
       I!MapThenFoldSet, Saying!MapThenFoldSet, I!Max, Saying!Max

\* Each token of a text decodes to a part of it or to "<unk>", and the tokens of a
\* text that is covered to that text.
LEMMA TextRoundTrips ==
  ASSUME I!ByteAssumption, NEW entries, NEW text, Spelled(entries, text)
  PROVE  I!RoundTrips(entries, text)
<1>1. PICK all, from :
        /\ all = I!TokensFrom(entries, text) /\ all = from[1]
        /\ \A pos \in 1 .. Len(text) + 1 :
             /\ from[pos] \in Seq(Spoken(entries, text))
             /\ from[pos] = TokensOn(entries, text, from, pos)
  BY TokensAreSpoken
<1>2. /\ Len(text) \in Nat /\ text \in Seq(Byte) /\ DOMAIN text = 1 .. Len(text)
  BY DEF Spelled
<1>3. all \in Seq(Spoken(entries, text)) /\ Spoken(entries, text) \subseteq Nat
  BY <1>1, <1>2 DEF Spoken
<1>4. all \in Seq(Nat) /\ Len(all) \in Nat
  BY <1>3, SeqMonotonic
<1> DEFINE Fitting(max) == IF Len(all) < max THEN Len(all) ELSE max
<1>5. \A max \in Nat : Fitting(max) \in Nat /\ Fitting(max) <= Len(all)
                       /\ I!Tokenize(entries, text, max) = SubSeq(all, 1, Fitting(max))
  BY <1>1, <1>4 DEF I!Tokenize
<1> HIDE DEF Fitting
<1>6. PICK list : list = I!Tokenize(entries, text, Len(text))
  OBVIOUS
<1>7. ASSUME NEW i \in DOMAIN list
      PROVE  LET piece == I!Piece(entries, list[i])
             IN  piece = I!Unk
                 \/ \E p \in DOMAIN text : I!IsPrefix(piece, SubSeq(text, p, Len(text)))
  <2>1. PICK m \in Nat : m <= Len(all) /\ list = SubSeq(all, 1, m)
    BY <1>2, <1>5, <1>6
  <2>2. list \in Seq(Spoken(entries, text))
    BY <1>3, <2>1, FirstPart, Zenon
  <2>3. list[i] \in Spoken(entries, text)
    BY <2>2
  <2> QED
    BY <2>3 DEF Spoken
<1>8. ASSUME I!Covers(entries, text)
      PROVE  /\ I!Detokenize(entries, list) = text
             /\ \A n \in DOMAIN text :
                  I!IsPrefix(I!Detokenize(entries, I!Tokenize(entries, text, n)), text)
  <2>1. PICK x : x = [entries |-> entries, symbols |-> Byte, text |-> text, tokens |-> all,
                      from |-> from]
    OBVIOUS
  <2>2. /\ x.entries = entries /\ x.symbols = Byte /\ x.text = text /\ x.tokens = all
        /\ x.from = from
    BY <2>1
  <2>3. Scanned(x)
    <3>1. \A pos \in 1 .. Len(text) + 1 : from[pos] \in Seq(Nat)
      BY <1>1, <1>3, SeqMonotonic
    <3>2. from[Len(text) + 1] = <<>>
      <4>1. from[Len(text) + 1] = TokensOn(entries, text, from, Len(text) + 1)
        BY <1>1, <1>2
      <4> QED
        BY <1>2, <4>1 DEF TokensOn
    <3> QED
      BY <1>1, <1>2, <1>4, <2>2, <3>1, <3>2 DEF Scanned
  <2>4. \A p \in 1 .. Len(text) : \E token \in Nat : Says(x, p, token, I!Piece(entries, token))
    <3>1. \A p \in 1 .. Len(text) : x.from[p] = TokensOn(entries, text, x.from, p)
      BY <1>1, <1>2, <2>2
    <3> QED
      BY <1>8, <2>2, <3>1, CoveredSays
  <2>5. \A s \in Seq(Nat) : SaysSoFar(x, s, I!Detokenize(entries, s))
    BY <2>2, <2>3, <2>4, SayingFollows, DetokenizeIs
  <2>6. ASSUME NEW m \in Nat, m <= Len(all), NEW said,
               said = I!Detokenize(entries, SubSeq(all, 1, m))
        PROVE  /\ m <= Len(text) /\ I!IsPrefix(said, text) /\ (m = Len(all) => said = text)
    <3>1. SubSeq(all, 1, m) \in Seq(Nat)
      BY <1>4, <2>6, FirstPart, Zenon
    <3>2. SaysSoFar(x, SubSeq(all, 1, m), said)
      BY <2>5, <2>6, <3>1, Zenon
    <3>3. \A p \in 1 .. Len(x.text) : \E token \in Nat : \E piece : Says(x, p, token, piece)
      BY <2>2, <2>4
    <3> QED
      BY <2>2, <2>3, <2>6, <3>2, <3>3, SaysAll
  <2>7. \A n \in DOMAIN text :
          I!IsPrefix(I!Detokenize(entries, I!Tokenize(entries, text, n)), text)
    <3> TAKE n \in DOMAIN text
    <3>1. PICK m \in Nat : m <= Len(all) /\ I!Tokenize(entries, text, n) = SubSeq(all, 1, m)
      <4>1. n \in Nat
        BY <1>2
      <4> QED
        BY <1>5, <4>1
    <3> QED
      BY <2>6, <3>1
  <2>8. I!Detokenize(entries, list) = text
    <3>1. Len(all) <= Len(text)
      BY <1>4, <2>6
    <3>2. Fitting(Len(text)) = Len(all)
      BY <1>2, <1>4, <3>1 DEF Fitting
    <3>3. list = SubSeq(all, 1, Len(all))
      BY <1>2, <1>5, <1>6, <3>2, Zenon
    <3> QED
      BY <1>4, <2>6, <3>3
  <2> QED
    BY <2>7, <2>8
<1> QED
  BY <1>6, <1>7, <1>8 DEF I!RoundTrips

-----------------------------------------------------------------------------
(* The vocabulary of NiyahMini.                                            *)

\* An entry is this token
Holds(entries, token) == \E i \in DOMAIN entries : entries[i] = token

\* A vocabulary of at most n entries that no addition failed for
Sound(v, n) == v.status = "ok" /\ Len(v.entries) <= n
Vocabulary == [status : {"ok", "invalid"}, entries : Seq(Seq(V!Symbols))]

\* What was found is the index of that token.
LEMMA FindIs ==
  ASSUME NEW kind, NEW entries \in Seq(kind), NEW token
  PROVE  /\ V!Find(entries, token) \in Int
         /\ V!Find(entries, token) >= 0 <=> Holds(entries, token)
         /\ V!Find(entries, token) >= 0 =>
              /\ V!Find(entries, token) \in 0 .. Len(entries) - 1
              /\ entries[V!Find(entries, token) + 1] = token
<1>1. PICK found : found = {i \in DOMAIN entries : entries[i] = token}
  OBVIOUS
<1>2. found \subseteq 1 .. Len(entries) /\ Len(entries) \in Nat /\ found \in SUBSET Nat
  BY <1>1
<1>3. CASE found = {}
  <2>1. V!Find(entries, token) = -1
    BY <1>1, <1>3 DEF V!Find
  <2>2. ~Holds(entries, token)
    BY <1>1, <1>3 DEF Holds
  <2> QED
    BY <2>1, <2>2
<1>4. CASE found # {}
  <2>1. PICK m \in found : m = V!Smallest(found)
    BY <1>2, <1>4, Passing!SmallestOf DEF V!Smallest
  <2>2. V!Find(entries, token) = m - 1
    BY <1>1, <1>4, <2>1 DEF V!Find
  <2>3. m \in 1 .. Len(entries) /\ entries[m] = token /\ m \in DOMAIN entries
    BY <1>1, <1>2
  <2>4. Holds(entries, token)
    BY <2>3 DEF Holds
  <2>5. m - 1 >= 0 /\ m - 1 \in 0 .. Len(entries) - 1 /\ (m - 1) + 1 = m
    BY <1>2, <2>3
  <2> QED
    BY <2>2, <2>3, <2>4, <2>5
<1> QED
  BY <1>3, <1>4

\* While there is room, one symbol is added or there already.
LEMMA AddOne ==
  ASSUME V!VocabAssumption, NEW v \in Vocabulary, NEW n \in Nat, Sound(v, n), n < MaxVocab,
         NEW symbol \in V!Symbols, NEW w, w = V!Add(v, <<symbol>>)
  PROVE  /\ w \in Vocabulary /\ Sound(w, n + 1) /\ Holds(w.entries, <<symbol>>)
         /\ \A token : Holds(v.entries, token) => Holds(w.entries, token)
<1>1. /\ v.status = "ok" /\ v.entries \in Seq(Seq(V!Symbols)) /\ Len(v.entries) \in Nat
      /\ Len(v.entries) <= n /\ MaxVocab \in Nat /\ MaxTokenLen \in Nat /\ MaxTokenLen >= 1
  BY DEF Vocabulary, Sound, V!VocabAssumption
<1>2. PICK token \in Seq(V!Symbols) : token = <<symbol>> /\ token # <<>> /\ Len(token) = 1
  <2>1. <<symbol>> \in Seq(V!Symbols) /\ <<symbol>> # <<>> /\ Len(<<symbol>>) = 1
    OBVIOUS
  <2> QED
    BY <2>1
<1>3. V!Fits(token)
  BY <1>1, <1>2 DEF V!Fits
<1>4. CASE V!Find(v.entries, token) >= 0
  <2>1. w = v
    BY <1>1, <1>2, <1>3, <1>4 DEF V!Add
  <2>2. Holds(v.entries, token)
    BY <1>1, <1>4, FindIs
  <2>3. Sound(v, n + 1)
    BY <1>1 DEF Sound
  <2> QED
    BY <1>2, <2>1, <2>2, <2>3
<1>5. CASE ~(V!Find(v.entries, token) >= 0)
  <2>1. w = [status |-> "ok", entries |-> Append(v.entries, token)]
    <3>1. ~(Len(v.entries) >= MaxVocab)
      BY <1>1
    <3> QED
      BY <1>1, <1>2, <1>3, <1>5, <3>1 DEF V!Add
  <2>2. PICK list \in Seq(Seq(V!Symbols)) :
          /\ list = Append(v.entries, token) /\ Len(list) = Len(v.entries) + 1
          /\ DOMAIN list = 1 .. Len(v.entries) + 1 /\ list[Len(v.entries) + 1] = token
          /\ \A k \in 1 .. Len(v.entries) : list[k] = v.entries[k]
    <3>1. /\ Append(v.entries, token) \in Seq(Seq(V!Symbols))
          /\ Len(Append(v.entries, token)) = Len(v.entries) + 1
          /\ DOMAIN Append(v.entries, token) = 1 .. Len(v.entries) + 1
          /\ Append(v.entries, token)[Len(v.entries) + 1] = token
          /\ \A k \in 1 .. Len(v.entries) : Append(v.entries, token)[k] = v.entries[k]
      BY <1>1
    <3> QED
      BY <3>1
  <2>3. w.status = "ok" /\ w.entries = list /\ w \in Vocabulary
    <3>2. w = [status |-> "ok", entries |-> list]
      BY <2>1, <2>2, Zenon
    <3>3. w \in [status : {"ok", "invalid"}, entries : Seq(Seq(V!Symbols))]
      BY <3>2
    <3>4. w.status = "ok" /\ w.entries = list
      BY <3>2
    <3> QED
      BY <3>3, <3>4, Zenon DEF Vocabulary
  <2>4. Holds(list, token)
    <3>1. Len(v.entries) + 1 \in DOMAIN list
      BY <1>1, <2>2
    <3> QED
      BY <2>2, <3>1 DEF Holds
  <2>5. ASSUME NEW other, Holds(v.entries, other) PROVE Holds(list, other)
    <3>1. PICK k \in 1 .. Len(v.entries) : v.entries[k] = other
      BY <1>1, <2>5 DEF Holds
    <3>2. k \in DOMAIN list
      BY <1>1, <2>2
    <3> QED
      BY <2>2, <3>1, <3>2 DEF Holds
  <2>6. Len(list) <= n + 1
    BY <1>1, <2>2
  <2> QED
    BY <1>2, <2>3, <2>4, <2>5, <2>6 DEF Sound
<1> QED
  BY <1>4, <1>5

\* The names of special tokens are added one by one.
NoEntries(x) == V!Empty
AddName(x, v, token) == V!Add(v, token)
NamesIn(x, s, v) ==
  Len(s) <= MaxVocab /\ (\A k \in DOMAIN s : \E symbol \in V!Symbols : s[k] = <<symbol>>) =>
    v \in Vocabulary /\ Sound(v, Len(s)) /\ \A k \in DOMAIN s : Holds(v.entries, s[k])
Naming == INSTANCE FoldTheorems
  WITH T <- Seq(V!Symbols), Base <- NoEntries, Op <- AddName, P <- NamesIn

LEMMA NamesAdded ==
  ASSUME V!VocabAssumption, NEW v, v = V!AddAll(V!Empty, V!Names)
  PROVE  /\ v \in Vocabulary /\ Sound(v, Len(Specials))
         /\ \A symbol \in V!Range(Specials) : Holds(v.entries, <<symbol>>)
<1>0. /\ Specials \in Seq(V!Symbols) /\ Len(Specials) \in Nat /\ Len(ByteValues) \in Nat
      /\ MaxVocab \in Nat /\ Len(Specials) <= MaxVocab
  BY DEF V!VocabAssumption
<1>1. NamesIn(0, <<>>, V!Empty)
  <2>1. V!Empty \in Vocabulary /\ Sound(V!Empty, 0) /\ Len(<<>>) = 0 /\ DOMAIN <<>> = {}
    BY DEF V!Empty, Vocabulary, Sound
  <2> QED
    BY <2>1 DEF NamesIn
<1>2. ASSUME NEW s \in Seq(Seq(V!Symbols)), NEW e \in Seq(V!Symbols), NEW acc, NamesIn(0, s, acc)
      PROVE  NamesIn(0, Append(s, e), AddName(0, acc, e))
  <2>1. PICK t \in Seq(Seq(V!Symbols)) :
          /\ t = Append(s, e) /\ Len(t) = Len(s) + 1 /\ DOMAIN t = 1 .. Len(s) + 1
          /\ t[Len(s) + 1] = e /\ \A k \in 1 .. Len(s) : t[k] = s[k]
    <3>1. /\ Append(s, e) \in Seq(Seq(V!Symbols)) /\ Len(Append(s, e)) = Len(s) + 1
          /\ DOMAIN Append(s, e) = 1 .. Len(s) + 1 /\ Append(s, e)[Len(s) + 1] = e
          /\ \A k \in 1 .. Len(s) : Append(s, e)[k] = s[k]
      OBVIOUS
    <3> QED
      BY <3>1
  <2> SUFFICES ASSUME Len(t) <= MaxVocab,
                      \A k \in DOMAIN t : \E symbol \in V!Symbols : t[k] = <<symbol>>,
                      NEW w, w = V!Add(acc, e)
               PROVE  /\ w \in Vocabulary /\ Sound(w, Len(t))
                      /\ \A k \in DOMAIN t : Holds(w.entries, t[k])
    BY <2>1, Zenon DEF NamesIn, AddName
  <2>2. /\ Len(s) \in Nat /\ DOMAIN s = 1 .. Len(s) /\ Len(s) < MaxVocab
        /\ Len(s) <= MaxVocab /\ Len(s) + 1 \in DOMAIN t
        /\ \A k \in 1 .. Len(s) : k \in DOMAIN t
        /\ \A k \in DOMAIN t : k \in 1 .. Len(s) \/ k = Len(s) + 1
    BY <1>0, <2>1
  <2>3. acc \in Vocabulary /\ Sound(acc, Len(s)) /\ \A k \in DOMAIN s : Holds(acc.entries, s[k])
    <3>1. \A k \in DOMAIN s : \E symbol \in V!Symbols : s[k] = <<symbol>>
      BY <2>1, <2>2
    <3> QED
      BY <1>2, <2>2, <3>1 DEF NamesIn
  <2>4. PICK symbol \in V!Symbols : e = <<symbol>>
    BY <2>1, <2>2
  <2>5. /\ w \in Vocabulary /\ Sound(w, Len(s) + 1) /\ Holds(w.entries, e)
        /\ \A token : Holds(acc.entries, token) => Holds(w.entries, token)
    BY <2>2, <2>3, <2>4, AddOne
  <2>6. \A k \in DOMAIN t : Holds(w.entries, t[k])
    BY <2>1, <2>2, <2>3, <2>5
  <2> QED
    BY <2>1, <2>5, <2>6
<1>3. \A s \in Seq(Seq(V!Symbols)) : NamesIn(0, s, Naming!Fold(0, s))
  <2>1. \A s \in Seq(Seq(V!Symbols)), e \in Seq(V!Symbols) : \A acc :
          NamesIn(0, s, acc) => NamesIn(0, Append(s, e), AddName(0, acc, e))
    BY <1>2
  <2>2. NamesIn(0, <<>>, NoEntries(0))
    BY <1>1 DEF NoEntries
  <2> QED
    BY <2>1, <2>2, Naming!FoldInduction
<1>4. V!AddAll(V!Empty, V!Names) = Naming!Fold(0, V!Names)
  BY DEF V!AddAll, Naming!Fold, AddName, NoEntries, V!FoldLeft, Naming!FoldLeft,
         V!MapThenFoldSet, Naming!MapThenFoldSet, V!Max, Naming!Max
<1>5. PICK names \in Seq(Seq(V!Symbols)) :
        /\ names = V!Names /\ Len(names) = Len(Specials) /\ DOMAIN names = 1 .. Len(Specials)
        /\ \A k \in 1 .. Len(Specials) : Specials[k] \in V!Symbols /\ names[k] = <<Specials[k]>>
  <2>1. \A k \in 1 .. Len(Specials) : Specials[k] \in V!Symbols /\ <<Specials[k]>> \in Seq(V!Symbols)
    BY <1>0
  <2>2. V!Names = [k \in 1 .. Len(Specials) |-> <<Specials[k]>>]
    BY <1>0 DEF V!Names
  <2>3. V!Names \in Seq(Seq(V!Symbols))
    BY <1>0, <2>1, <2>2, SeqDef
  <2>4. DOMAIN V!Names = 1 .. Len(Specials) /\ \A k \in 1 .. Len(Specials) : V!Names[k] = <<Specials[k]>>
    BY <2>2
  <2>5. Len(V!Names) = Len(Specials)
    BY <1>0, <2>3, <2>4, LenProperties
  <2> QED
    BY <2>1, <2>3, <2>4, <2>5
<1>6. NamesIn(0, names, v)
  BY <1>3, <1>4, <1>5
<1>7. /\ v \in Vocabulary /\ Sound(v, Len(Specials))
      /\ \A k \in 1 .. Len(Specials) : Holds(v.entries, <<Specials[k]>>)
  BY <1>0, <1>5, <1>6 DEF NamesIn
<1>8. ASSUME NEW symbol \in V!Range(Specials) PROVE \E k \in 1 .. Len(Specials) : Specials[k] = symbol
  <2>1. PICK k \in DOMAIN Specials : Specials[k] = symbol
    BY <1>8, Zenon DEF V!Range
  <2> QED
    BY <1>0, <2>1
<1> QED
  BY <1>7, <1>8

\* A byte occurs in the texts
Said(texts, b) == \E t \in DOMAIN texts : \E i \in DOMAIN texts[t] : texts[t][i] = b

\* It is counted if and only if it does.
LEMMA CountIs ==
  ASSUME NEW texts \in Seq(Seq(V!Symbols)), NEW b
  PROVE  V!Count(texts, b) >= 1 <=> Said(texts, b)
<1>1. PICK places : places = {p \in V!Places(texts) : texts[p[1]][p[2]] = b}
  OBVIOUS
<1>2. IsFiniteSet(places)
  <2>1. DOMAIN texts = 1 .. Len(texts) /\ Len(texts) \in Nat
    OBVIOUS
  <2>2. ASSUME NEW t \in DOMAIN texts PROVE IsFiniteSet({t} \X DOMAIN texts[t])
    <3>1. texts[t] \in Seq(V!Symbols)
      BY <2>2
    <3>2. DOMAIN texts[t] = 1 .. Len(texts[t]) /\ Len(texts[t]) \in Nat
      BY <3>1
    <3>3. IsFiniteSet(1 .. Len(texts[t]))
      <4>1. PICK n \in Nat : n = Len(texts[t])
        BY <3>2, Zenon
      <4>2. n \in Int /\ 1 \in Int
        OBVIOUS
      <4>3. IsFiniteSet(1 .. n)
        BY <4>2, FS_Interval
      <4> QED
        BY <4>1, <4>3, Zenon
    <3>4. IsFiniteSet({t})
      BY FS_Singleton, Zenon
    <3> QED
      BY <3>2, <3>3, <3>4, FS_Product, Zenon
  <2>3. PICK parts : parts = {{t} \X DOMAIN texts[t] : t \in DOMAIN texts}
    OBVIOUS
  <2>4. IsFiniteSet(parts)
    <3>1. IsFiniteSet(DOMAIN texts)
      BY <2>1, FS_Interval
    <3>2. PICK f : f = [t \in DOMAIN texts |-> {t} \X DOMAIN texts[t]]
      OBVIOUS
    <3>3. f \in Surjection(DOMAIN texts, parts)
      BY <2>3, <3>2, Zenon DEF Surjection
    <3> QED
      BY <3>1, <3>3, FS_Surjection
  <2>5. IsFiniteSet(UNION parts)
    BY <2>2, <2>3, <2>4, FS_UNION
  <2>6. places \subseteq UNION parts
    BY <1>1, <2>3 DEF V!Places
  <2> QED
    BY <2>5, <2>6, FS_Subset
<1>3. V!Count(texts, b) = Cardinality(places)
  BY <1>1 DEF V!Count, V!Cardinality, Cardinality
<1>4. Cardinality(places) \in Nat /\ (Cardinality(places) = 0 <=> places = {})
  BY <1>2, FS_CardinalityType, FS_EmptySet
<1>5. places # {} <=> Said(texts, b)
  <2>1. ASSUME NEW p \in places PROVE Said(texts, b)
    <3>1. PICK t \in DOMAIN texts : p \in {t} \X DOMAIN texts[t]
      BY <1>1 DEF V!Places
    <3>2. p[1] = t /\ p[2] \in DOMAIN texts[t] /\ texts[p[1]][p[2]] = b
      BY <1>1, <3>1
    <3> QED
      BY <3>2 DEF Said
  <2>2. ASSUME NEW t \in DOMAIN texts, NEW i \in DOMAIN texts[t], texts[t][i] = b
        PROVE  <<t, i>> \in places
    BY <1>1, <2>2 DEF V!Places
  <2> QED
    BY <2>1, <2>2 DEF Said
<1> QED
  BY <1>3, <1>4, <1>5

\* The bytes that occur are added one by one; byte 0 lets the build fail.
NamesOnly(x) == V!AddAll(V!Empty, V!Names)
AddByte(x, v, b) == V!AddFrequent(x, MaxVocab, 1, v, b)
BytesIn(x, s, v) ==
  Len(s) <= Len(ByteValues) =>
    /\ v \in Vocabulary
    /\ IF Said(x, Nul) /\ \E k \in DOMAIN s : s[k] = Nul
       THEN v.status = "invalid"
       ELSE /\ Sound(v, Len(Specials) + Len(s))
            /\ \A symbol \in V!Range(Specials) : Holds(v.entries, <<symbol>>)
            /\ \A k \in DOMAIN s : Said(x, s[k]) => Holds(v.entries, <<s[k]>>)
Counting == INSTANCE FoldTheorems
  WITH T <- V!Symbols, Base <- NamesOnly, Op <- AddByte, P <- BytesIn

LEMMA BytesAdded ==
  ASSUME V!VocabAssumption, NEW texts \in Seq(Seq(V!Symbols)), NEW s \in Seq(V!Symbols),
         NEW e \in V!Symbols, NEW v, BytesIn(texts, s, v)
  PROVE  BytesIn(texts, Append(s, e), AddByte(texts, v, e))
<1>0. /\ Len(Specials) \in Nat /\ Len(ByteValues) \in Nat
      /\ MaxVocab \in Nat /\ Len(Specials) + Len(ByteValues) <= MaxVocab
  BY DEF V!VocabAssumption
<1>1. PICK t \in Seq(V!Symbols) :
        /\ t = Append(s, e) /\ Len(t) = Len(s) + 1 /\ DOMAIN t = 1 .. Len(s) + 1
        /\ t[Len(s) + 1] = e /\ \A k \in 1 .. Len(s) : t[k] = s[k]
  <2>1. /\ Append(s, e) \in Seq(V!Symbols) /\ Len(Append(s, e)) = Len(s) + 1
        /\ DOMAIN Append(s, e) = 1 .. Len(s) + 1 /\ Append(s, e)[Len(s) + 1] = e
        /\ \A k \in 1 .. Len(s) : Append(s, e)[k] = s[k]
    OBVIOUS
  <2> QED
    BY <2>1
<1>2. PICK w : w = AddByte(texts, v, e)
  OBVIOUS
<1> SUFFICES ASSUME Len(t) <= Len(ByteValues)
             PROVE  /\ w \in Vocabulary
                    /\ IF Said(texts, Nul) /\ \E k \in DOMAIN t : t[k] = Nul
                       THEN w.status = "invalid"
                       ELSE /\ Sound(w, Len(Specials) + Len(t))
                            /\ \A symbol \in V!Range(Specials) : Holds(w.entries, <<symbol>>)
                            /\ \A k \in DOMAIN t : Said(texts, t[k]) => Holds(w.entries, <<t[k]>>)
  BY <1>1, <1>2, Zenon DEF BytesIn
<1>3. /\ Len(s) \in Nat /\ DOMAIN s = 1 .. Len(s) /\ Len(s) <= Len(ByteValues)
      /\ Len(s) + 1 \in DOMAIN t /\ \A k \in DOMAIN s : k \in DOMAIN t /\ t[k] = s[k]
      /\ \A k \in DOMAIN t : k \in DOMAIN s \/ k = Len(s) + 1
      /\ Len(Specials) + Len(s) \in Nat /\ Len(Specials) + Len(s) < MaxVocab
      /\ Len(Specials) + Len(s) + 1 = Len(Specials) + Len(t)
  BY <1>0, <1>1
<1>4. v \in Vocabulary
  BY <1>3 DEF BytesIn
<1>5. CASE Said(texts, Nul) /\ \E k \in DOMAIN s : s[k] = Nul
  <2>1. v.status = "invalid"
    BY <1>3, <1>5 DEF BytesIn
  <2>2. w = v
    BY <1>2, <2>1 DEF AddByte, V!AddFrequent, V!Add
  <2>3. \E k \in DOMAIN t : t[k] = Nul
    BY <1>3, <1>5
  <2> QED
    BY <1>4, <1>5, <2>1, <2>2, <2>3
<1>6. CASE ~(Said(texts, Nul) /\ \E k \in DOMAIN s : s[k] = Nul)
  <2>1. /\ Sound(v, Len(Specials) + Len(s))
        /\ \A symbol \in V!Range(Specials) : Holds(v.entries, <<symbol>>)
        /\ \A k \in DOMAIN s : Said(texts, s[k]) => Holds(v.entries, <<s[k]>>)
    BY <1>3, <1>6 DEF BytesIn
  <2>2. v.status = "ok" /\ Len(v.entries) \in Nat /\ Len(v.entries) <= Len(Specials) + Len(s)
    BY <1>4, <2>1 DEF Sound, Vocabulary
  <2>3. w = IF Said(texts, e) THEN V!Add(v, V!CString(e)) ELSE v
    <3>1. \A a, b, c \in Nat : a <= b /\ b < c => a < c
      OBVIOUS
    <3>2. Len(v.entries) < MaxVocab
      BY <1>0, <1>3, <2>2, <3>1, Zenon
    <3> QED
      BY <1>2, <3>2, CountIs DEF AddByte, V!AddFrequent
  <2>4. CASE ~Said(texts, e)
    <3>1. w = v
      BY <2>3, <2>4
    <3>2. \A k \in DOMAIN t : Said(texts, t[k]) => k \in DOMAIN s
      BY <1>1, <1>3, <2>4
    <3>3. ~(Said(texts, Nul) /\ \E k \in DOMAIN t : t[k] = Nul)
      BY <1>3, <1>6, <3>2
    <3>4. \A k \in DOMAIN t : Said(texts, t[k]) => Holds(v.entries, <<t[k]>>)
      BY <1>3, <2>1, <3>2
    <3>5. Sound(v, Len(Specials) + Len(t))
      BY <1>0, <1>1, <1>3, <2>2 DEF Sound
    <3> QED
      BY <1>4, <2>1, <3>1, <3>3, <3>4, <3>5
  <2>5. CASE Said(texts, e) /\ e = Nul
    <3>1. w = [status |-> "invalid", entries |-> v.entries]
      BY <2>2, <2>3, <2>5 DEF V!Add, V!CString, V!Fits
    <3>2. \E k \in DOMAIN t : t[k] = Nul
      BY <1>1, <1>3, <2>5
    <3>3. w \in Vocabulary /\ w.status = "invalid"
      BY <1>4, <3>1 DEF Vocabulary
    <3> QED
      BY <2>5, <3>2, <3>3
  <2>6. CASE Said(texts, e) /\ e # Nul
    <3>1. w = V!Add(v, <<e>>)
      BY <2>3, <2>6 DEF V!CString
    <3>2. /\ w \in Vocabulary /\ Sound(w, Len(Specials) + Len(t)) /\ Holds(w.entries, <<e>>)
          /\ \A token : Holds(v.entries, token) => Holds(w.entries, token)
      BY <1>3, <1>4, <2>1, <3>1, AddOne
    <3>3. \A k \in DOMAIN t : Said(texts, t[k]) => Holds(w.entries, <<t[k]>>)
      BY <1>1, <1>3, <2>1, <3>2
    <3>4. ~(Said(texts, Nul) /\ \E k \in DOMAIN t : t[k] = Nul)
      BY <1>1, <1>3, <1>6, <2>6
    <3> QED
      BY <2>1, <3>2, <3>3, <3>4
  <2> QED
    BY <2>4, <2>5, <2>6
<1> QED
  BY <1>5, <1>6

\* What is built from texts: nothing, when byte 0 occurs in them; else a
\* vocabulary with an entry for all that they consist of.
LEMMA BuiltIs ==
  ASSUME V!VocabAssumption, NEW texts \in Seq(Seq(V!Symbols)),
         NEW built, built = V!Build(texts, MaxVocab, 1)
  PROVE  IF Said(texts, Nul) THEN built.status = "invalid" /\ built.entries = <<>>
         ELSE /\ built.status = "ok" /\ built.entries \in Seq(Seq(V!Symbols))
              /\ \A symbol \in V!Symbols : Said(texts, symbol) => Holds(built.entries, <<symbol>>)
<1>0. /\ Specials \in Seq(V!Symbols) /\ Len(Specials) \in Nat
      /\ ByteValues \in Seq(V!Symbols) /\ Len(ByteValues) \in Nat /\ Nul \in V!Range(ByteValues)
  BY DEF V!VocabAssumption
<1>1. BytesIn(texts, <<>>, NamesOnly(texts))
  <2>1. /\ NamesOnly(texts) \in Vocabulary /\ Sound(NamesOnly(texts), Len(Specials))
        /\ \A symbol \in V!Range(Specials) : Holds(NamesOnly(texts).entries, <<symbol>>)
    BY NamesAdded DEF NamesOnly
  <2>2. Len(<<>>) = 0 /\ DOMAIN <<>> = {} /\ Len(Specials) + 0 = Len(Specials)
    BY <1>0
  <2> QED
    BY <2>1, <2>2 DEF BytesIn
<1>2. PICK v : v = Counting!Fold(texts, ByteValues)
  OBVIOUS
<1>3. BytesIn(texts, ByteValues, v)
  <2>1. \A s \in Seq(V!Symbols), e \in V!Symbols : \A acc :
          BytesIn(texts, s, acc) => BytesIn(texts, Append(s, e), AddByte(texts, acc, e))
    BY BytesAdded
  <2> QED
    BY <1>0, <1>1, <1>2, <2>1, Counting!FoldInduction
<1>4. built = V!Kept(v)
  BY <1>2 DEF V!Build, Counting!Fold, AddByte, NamesOnly, V!FoldLeft, Counting!FoldLeft,
         V!MapThenFoldSet, Counting!MapThenFoldSet, V!Max, Counting!Max
<1>5. /\ \A symbol \in V!Range(ByteValues) : \E k \in DOMAIN ByteValues : ByteValues[k] = symbol
      /\ \A symbol \in V!Symbols : symbol \in V!Range(Specials) \/ symbol \in V!Range(ByteValues)
  <2>1. ASSUME NEW symbol \in V!Range(ByteValues)
        PROVE  \E k \in DOMAIN ByteValues : ByteValues[k] = symbol
    BY <2>1, Zenon DEF V!Range
  <2> QED
    BY <2>1 DEF V!Symbols
<1>6. v \in Vocabulary
  BY <1>0, <1>3 DEF BytesIn
<1>7. CASE Said(texts, Nul)
  <2>1. v.status = "invalid"
    BY <1>0, <1>3, <1>5, <1>7 DEF BytesIn
  <2>2. built = [v EXCEPT !.entries = <<>>]
    BY <1>4, <2>1 DEF V!Kept
  <2> QED
    BY <1>6, <1>7, <2>1, <2>2 DEF Vocabulary
<1>8. CASE ~Said(texts, Nul)
  <2>1. /\ Sound(v, Len(Specials) + Len(ByteValues))
        /\ \A symbol \in V!Range(Specials) : Holds(v.entries, <<symbol>>)
        /\ \A k \in DOMAIN ByteValues :
             Said(texts, ByteValues[k]) => Holds(v.entries, <<ByteValues[k]>>)
    BY <1>0, <1>3, <1>8 DEF BytesIn
  <2>2. built = v
    BY <1>4, <2>1 DEF V!Kept, Sound
  <2>3. \A symbol \in V!Symbols : Said(texts, symbol) => Holds(v.entries, <<symbol>>)
    BY <1>5, <2>1
  <2> QED
    BY <1>6, <1>8, <2>1, <2>2, <2>3 DEF Vocabulary, Sound
<1> QED
  BY <1>7, <1>8

-----------------------------------------------------------------------------
(* The tokenizer of NiyahMini.                                             *)

\* The text of one symbol at a place.
LEMMA OneSymbol ==
  ASSUME NEW symbols, NEW text \in Seq(symbols), NEW pos \in 1 .. Len(text)
  PROVE  /\ text[pos] \in symbols /\ pos \in DOMAIN text
         /\ SubSeq(text, pos, pos + 1 - 1) = <<text[pos]>>
<1>1. pos + 1 - 1 = pos /\ pos \in DOMAIN text /\ text[pos] \in symbols
  OBVIOUS
<1>2. SubSeq(text, pos, pos) = <<text[pos]>>
  <2>1. PICK here \in Seq(symbols) :
          here = SubSeq(text, pos, pos) /\ Len(here) = 1 /\ here[1] = text[pos]
    <3>1. /\ SubSeq(text, pos, pos) \in Seq(symbols) /\ Len(SubSeq(text, pos, pos)) = 1
          /\ SubSeq(text, pos, pos)[1] = text[pos]
      OBVIOUS
    <3> QED
      BY <3>1
  <2>2. PICK one \in Seq(symbols) : one = <<text[pos]>> /\ Len(one) = 1 /\ one[1] = text[pos]
    <3>1. \A e \in symbols : <<e>> \in Seq(symbols) /\ Len(<<e>>) = 1 /\ <<e>>[1] = e
      OBVIOUS
    <3> QED
      BY <1>1, <3>1
  <2>3. \A k \in 1 .. 1 : k = 1
    OBVIOUS
  <2>4. here = one
    BY <2>1, <2>2, <2>3, SeqEqual
  <2> QED
    BY <2>1, <2>2, <2>4, Zenon
<1> QED
  BY <1>1, <1>2, Zenon

\* A token reaches to a place further on in the text or to its end; it is an entry
\* if one symbol is.
LEMMA ReachIs ==
  ASSUME V!VocabAssumption, NEW entries, NEW symbols, NEW text \in Seq(symbols),
         NEW pos \in 1 .. Len(text), NEW n, n = V!Reach(entries, text, pos)
  PROVE  /\ n \in 1 .. Len(text) - pos + 1
         /\ V!Find(entries, <<text[pos]>>) >= 0 =>
              V!Find(entries, SubSeq(text, pos, pos + n - 1)) >= 0
<1>1. /\ Len(text) \in Nat /\ 1 \in 1 .. Len(text) - pos + 1 /\ Len(text) - pos + 1 \in Nat
      /\ SubSeq(text, pos, pos + 1 - 1) = <<text[pos]>> /\ 1 <= MaxTokenLen
  BY OneSymbol DEF V!VocabAssumption
<1>2. PICK found : found = V!Candidates(entries, text, pos)
  OBVIOUS
<1>3. /\ found \in SUBSET (1 .. Len(text) - pos + 1)
      /\ \A k \in found : V!Find(entries, SubSeq(text, pos, pos + k - 1)) >= 0
      /\ V!Find(entries, <<text[pos]>>) >= 0 => 1 \in found
  <2>1. \A k : k \in found <=>
          /\ k \in 1 .. Len(text) - pos + 1 /\ k <= MaxTokenLen
          /\ V!Find(entries, SubSeq(text, pos, pos + k - 1)) >= 0
    BY <1>2, Zenon DEF V!Candidates
  <2> QED
    BY <1>1, <2>1, Zenon
<1>4. CASE found = {}
  <2>1. n = 1
    BY <1>2, <1>4 DEF V!Reach
  <2> QED
    BY <1>1, <1>3, <1>4, <2>1
<1>5. CASE found # {}
  <2>1. \E m \in found : \A k \in found : m >= k
    <3>1. PICK furthest \in Nat : furthest = Len(text) - pos + 1
      BY <1>1, Zenon
    <3>2. found \in SUBSET (1 .. furthest)
      BY <1>3, <3>1
    <3> QED
      BY <1>5, <3>2, Passing!MaxExists
  <2>2. n = CHOOSE m \in found : \A k \in found : m >= k
    BY <1>2, <1>5 DEF V!Reach
  <2>3. n \in found
    BY <2>1, <2>2
  <2> QED
    BY <1>3, <2>3
<1> QED
  BY <1>4, <1>5

\* The tokens of a text from a place on, after those further on
BpeOn(entries, text, from, pos) ==
  IF pos > Len(text) THEN <<>>
  ELSE <<V!TokenAt(entries, text, pos)>> \o from[pos + V!Reach(entries, text, pos)]
ScanBpe(x, f, pos) == BpeOn(x.entries, x.text, f, pos)
BpeScan == INSTANCE FoldTheorems
  WITH T <- Nat, Base <- Unsaid, Op <- ScanBpe, P <- SaysSoFar
SayPiece(x, text, id) == text \o V!BpePiece(x.entries, id)
BpeSaying == INSTANCE FoldTheorems
  WITH T <- Nat, Base <- Unsaid, Op <- SayPiece, P <- SaysSoFar

\* That recursion is one that a function satisfies; tokens are identifiers.
LEMMA BpeUnfolds ==
  ASSUME V!VocabAssumption, NEW kind, NEW entries \in Seq(kind),
         NEW symbols, NEW text \in Seq(symbols)
  PROVE  \E f : /\ \A max : V!BpeTokenize(entries, text, max)
                              = SubSeq(f[1], 1, IF Len(f[1]) < max THEN Len(f[1]) ELSE max)
                /\ \A pos \in 1 .. Len(text) + 1 :
                     f[pos] \in Seq(Nat) /\ f[pos] = BpeOn(entries, text, f, pos)
<1>1. Len(text) \in Nat
  OBVIOUS
<1>2. PICK chosen : chosen = CHOOSE g : g = [pos \in 1 .. Len(text) + 1 |->
                                           BpeOn(entries, text, g, pos)]
  OBVIOUS
<1>3. PICK x : x = [entries |-> entries, text |-> text]
  OBVIOUS
<1>4. \A f, pos : ScanBpe(x, f, pos) = BpeOn(entries, text, f, pos)
  BY <1>3 DEF ScanBpe
<1>5. ASSUME NEW pos \in 1 .. Len(text) + 1, ~(pos > Len(text))
      PROVE  /\ pos \in 1 .. Len(text) /\ V!TokenAt(entries, text, pos) \in Nat
             /\ pos + V!Reach(entries, text, pos) \in pos + 1 .. Len(text) + 1
  <2>1. pos \in 1 .. Len(text)
    BY <1>1, <1>5
  <2>2. PICK n \in 1 .. Len(text) - pos + 1 : n = V!Reach(entries, text, pos)
    BY <2>1, ReachIs
  <2>3. pos + n \in pos + 1 .. Len(text) + 1
    BY <1>1, <2>1
  <2>4. V!TokenAt(entries, text, pos) \in Nat
    <3>1. PICK id : id = V!Find(entries, SubSeq(text, pos, pos + V!Reach(entries, text, pos) - 1))
      OBVIOUS
    <3>2. id >= 0 => id \in 0 .. Len(entries) - 1
      BY <3>1, FindIs
    <3>3. V!TokenAt(entries, text, pos) = IF id < 0 THEN V!Unknown ELSE id
      BY <3>1 DEF V!TokenAt
    <3>4. id < 0 \/ id \in Nat
      <4>1. id \in Int
        BY <3>1, FindIs
      <4> QED
        BY <3>2, <4>1
    <3> QED
      BY <3>3, <3>4 DEF V!Unknown
  <2> QED
    BY <2>1, <2>2, <2>3, <2>4
<1>6. chosen = [pos \in 1 .. Len(text) + 1 |-> BpeOn(entries, text, chosen, pos)]
  <2>1. ASSUME NEW pos \in 1 .. Len(text) + 1, NEW f, NEW g,
               \A p \in pos + 1 .. Len(text) + 1 : g[p] = f[p]
        PROVE  BpeOn(entries, text, g, pos) = BpeOn(entries, text, f, pos)
    BY <1>5, <2>1 DEF BpeOn
  <2>2. \E f : f = [pos \in 1 .. Len(text) + 1 |-> ScanBpe(x, f, pos)]
    <3>1. \A pos \in 1 .. Len(text) + 1 : \A f, g :
            (\A p \in pos + 1 .. Len(text) + 1 : g[p] = f[p]) => ScanBpe(x, g, pos) = ScanBpe(x, f, pos)
      BY <1>4, <2>1
    <3> QED
      BY <1>1, <3>1, BpeScan!Recursion
  <2>3. \E f : f = [pos \in 1 .. Len(text) + 1 |-> BpeOn(entries, text, f, pos)]
    BY <1>4, <2>2
  <2> QED
    BY <1>2, <2>3
<1>7. \A max : V!BpeTokenize(entries, text, max)
                 = SubSeq(chosen[1], 1, IF Len(chosen[1]) < max THEN Len(chosen[1]) ELSE max)
  BY <1>2 DEF V!BpeTokenize, BpeOn
<1>8. \A pos \in 1 .. Len(text) + 1 : chosen[pos] = BpeOn(entries, text, chosen, pos)
  BY <1>6
<1>9. ASSUME NEW pos \in 1 .. Len(text) + 1,
             \A p \in pos + 1 .. Len(text) + 1 : chosen[p] \in Seq(Nat)
      PROVE  BpeOn(entries, text, chosen, pos) \in Seq(Nat)
  <2>1. CASE pos > Len(text)
    BY <2>1 DEF BpeOn
  <2>2. CASE ~(pos > Len(text))
    <3>1. PICK id \in Nat : id = V!TokenAt(entries, text, pos)
      BY <1>5, <2>2
    <3>2. PICK rest \in Seq(Nat) : rest = chosen[pos + V!Reach(entries, text, pos)]
      BY <1>5, <1>9, <2>2
    <3>3. <<id>> \o rest \in Seq(Nat)
      OBVIOUS
    <3> QED
      BY <2>2, <3>1, <3>2, <3>3, Zenon DEF BpeOn
  <2> QED
    BY <2>1, <2>2
<1>10. \A pos \in 1 .. Len(text) + 1 : chosen[pos] \in Seq(Nat)
  <2>1. \A pos \in 1 .. Len(text) + 1 : chosen[pos] = ScanBpe(x, chosen, pos)
    BY <1>4, <1>8
  <2>2. \A pos \in 1 .. Len(text) + 1 :
          (\A p \in pos + 1 .. Len(text) + 1 : chosen[p] \in Seq(Nat)) =>
            ScanBpe(x, chosen, pos) \in Seq(Nat)
    BY <1>4, <1>9
  <2> QED
    BY <1>1, <2>1, <2>2, BpeScan!RecursionTyped
<1> QED
  BY <1>7, <1>8, <1>10

\* What an accumulation of the first tokens says.
LEMMA BpeSayingFollows ==
  ASSUME NEW x, Scanned(x),
         \A p \in 1 .. Len(x.text) :
           \E token \in Nat : Says(x, p, token, V!BpePiece(x.entries, token))
  PROVE  \A s \in Seq(Nat) : SaysSoFar(x, s, BpeSaying!Fold(x, s))
<1>1. SaysSoFar(x, <<>>, <<>>)
  BY NothingSaid
<1>2. ASSUME NEW s \in Seq(Nat), NEW e \in Nat, NEW acc, SaysSoFar(x, s, acc)
      PROVE  SaysSoFar(x, Append(s, e), SayPiece(x, acc, e))
  <2>1. PICK piece : piece = V!BpePiece(x.entries, e)
    OBVIOUS
  <2>2. \A p \in 1 .. Len(x.text) : \E token \in Nat : \E said :
          Says(x, p, token, said) /\ (token = e => said = piece)
    BY <2>1
  <2>3. SaysSoFar(x, Append(s, e), acc \o piece)
    BY <1>2, <2>2, SaysOn, Zenon
  <2> QED
    BY <2>1, <2>3, Zenon DEF SayPiece
<1> QED
  BY <1>1, <1>2, BpeSaying!FoldInduction DEF Unsaid

\* Decoding tokens accumulates what they say.
LEMMA BpeDetokenizeIs ==
  ASSUME NEW x, NEW list
  PROVE  V!BpeDetokenize(x.entries, list) = BpeSaying!Fold(x, list)
BY DEF V!BpeDetokenize, BpeSaying!Fold, SayPiece, Unsaid, V!FoldLeft, BpeSaying!FoldLeft,
       V!MapThenFoldSet, BpeSaying!MapThenFoldSet, V!Max, BpeSaying!Max

\* Entries say, at each place of a text whose symbols are among them, what stands there.
LEMMA HeldSays ==
  ASSUME V!VocabAssumption, NEW kind, NEW entries \in Seq(kind),
         NEW symbols, NEW text \in Seq(symbols),
         NEW x, x.text = text, NEW pos \in 1 .. Len(text), Holds(entries, <<text[pos]>>),
         x.from[pos] = BpeOn(entries, text, x.from, pos)
  PROVE  \E token \in Nat : Says(x, pos, token, V!BpePiece(entries, token))
<1>1. PICK n \in 1 .. Len(text) - pos + 1 : n = V!Reach(entries, text, pos)
  BY ReachIs
<1>2. PICK id : id = V!Find(entries, SubSeq(text, pos, pos + n - 1))
  OBVIOUS
<1>3. id >= 0
  BY <1>1, <1>2, ReachIs, FindIs
<1>4. id \in 0 .. Len(entries) - 1 /\ entries[id + 1] = SubSeq(text, pos, pos + n - 1)
  BY <1>2, <1>3, FindIs
<1>5. id \in Nat /\ ~(id < 0) /\ ~(pos > Len(text))
  BY <1>3, <1>4
<1>6. V!TokenAt(entries, text, pos) = id
  BY <1>1, <1>2, <1>5 DEF V!TokenAt
<1>7. x.from[pos] = <<id>> \o x.from[pos + n]
  BY <1>1, <1>5, <1>6, Zenon DEF BpeOn
<1>8. V!BpePiece(entries, id) = SubSeq(text, pos, pos + n - 1)
  <2>1. id \in 0 .. Len(entries) - 1 => ~(id >= Len(entries))
    OBVIOUS
  <2> QED
    BY <1>4, <2>1 DEF V!BpePiece
<1>9. Says(x, pos, id, V!BpePiece(entries, id))
  BY <1>7, <1>8, Zenon DEF Says
<1> QED
  BY <1>5, <1>9

\* So a text whose symbols are all among the entries is said again.
LEMMA HeldRoundTrips ==
  ASSUME V!VocabAssumption, NEW kind, NEW entries \in Seq(kind),
         NEW symbols, NEW text \in Seq(symbols),
         \A pos \in 1 .. Len(text) : Holds(entries, <<text[pos]>>)
  PROVE  V!BpeDetokenize(entries, V!BpeTokenize(entries, text, Len(text))) = text
<1>1. PICK from :
        /\ \A max : V!BpeTokenize(entries, text, max)
                      = SubSeq(from[1], 1, IF Len(from[1]) < max THEN Len(from[1]) ELSE max)
        /\ \A pos \in 1 .. Len(text) + 1 :
             from[pos] \in Seq(Nat) /\ from[pos] = BpeOn(entries, text, from, pos)
  BY BpeUnfolds
<1>2. /\ Len(text) \in Nat /\ 1 \in 1 .. Len(text) + 1 /\ Len(text) + 1 \in 1 .. Len(text) + 1
      /\ Len(text) + 1 > Len(text) /\ \A pos \in 1 .. Len(text) : pos \in 1 .. Len(text) + 1
  OBVIOUS
<1>3. PICK all \in Seq(Nat) : all = from[1]
  BY <1>1, <1>2
<1>4. PICK x : x = [entries |-> entries, symbols |-> symbols, text |-> text, tokens |-> all,
                    from |-> from]
  OBVIOUS
<1>5. /\ x.entries = entries /\ x.symbols = symbols /\ x.text = text /\ x.tokens = all
      /\ x.from = from
  BY <1>4
<1>6. Scanned(x)
  <2>1. from[Len(text) + 1] = <<>>
    BY <1>1, <1>2 DEF BpeOn
  <2> QED
    BY <1>1, <1>2, <1>3, <1>5, <2>1 DEF Scanned
<1>7. \A p \in 1 .. Len(text) : \E token \in Nat : Says(x, p, token, V!BpePiece(entries, token))
  <2>1. \A p \in 1 .. Len(text) : x.from[p] = BpeOn(entries, text, x.from, p)
    BY <1>1, <1>2, <1>5
  <2> QED
    BY <1>5, <2>1, HeldSays
<1>8. \A s \in Seq(Nat) : SaysSoFar(x, s, V!BpeDetokenize(entries, s))
  BY <1>5, <1>6, <1>7, BpeSayingFollows, BpeDetokenizeIs
<1>9. SubSeq(all, 1, Len(all)) = all /\ Len(all) \in Nat /\ Len(all) <= Len(all)
  OBVIOUS
<1>10. SaysSoFar(x, all, V!BpeDetokenize(entries, all))
  BY <1>8
<1>11. Len(all) <= Len(text) /\ V!BpeDetokenize(entries, all) = text
  <2>1. \A p \in 1 .. Len(x.text) : \E token \in Nat : \E piece : Says(x, p, token, piece)
    BY <1>5, <1>7
  <2>2. SaysSoFar(x, SubSeq(x.tokens, 1, Len(all)), V!BpeDetokenize(entries, all))
    BY <1>5, <1>9, <1>10
  <2> QED
    BY <1>5, <1>6, <1>9, <2>1, <2>2, SaysAll
<1>12. V!BpeTokenize(entries, text, Len(text)) = all
  <2>1. PICK max : max = IF Len(all) < Len(text) THEN Len(all) ELSE Len(text)
    OBVIOUS
  <2>2. max = Len(all)
    BY <1>2, <1>9, <1>11, <2>1
  <2>3. V!BpeTokenize(entries, text, Len(text)) = SubSeq(all, 1, max)
    BY <1>1, <1>3, <2>1, Zenon
  <2> QED
    BY <1>9, <2>2, <2>3, Zenon
<1> QED
  BY <1>11, <1>12, Zenon

\* A vocabulary that is built from texts says each of them again.
LEMMA BuiltSays ==
  ASSUME V!VocabAssumption, NEW texts \in Seq(Seq(V!Symbols))
  PROVE  V!BuiltSaysTexts(texts, 1)
<1>1. PICK built : built = V!Build(texts, MaxVocab, 1)
  OBVIOUS
<1>2. \A t \in DOMAIN texts : texts[t] \in Seq(V!Symbols)
  OBVIOUS
<1>3. \A b : Said(texts, b) <=> \E t \in DOMAIN texts : b \in V!Range(texts[t])
  BY Zenon DEF Said, V!Range
<1>4. CASE Said(texts, Nul)
  <2>1. built.status = "invalid" /\ built.entries = <<>>
    BY <1>1, <1>4, BuiltIs
  <2> QED
    BY <1>1, <1>3, <1>4, <2>1 DEF V!BuiltSaysTexts
<1>5. CASE ~Said(texts, Nul)
  <2>1. /\ built.status = "ok" /\ built.entries \in Seq(Seq(V!Symbols))
        /\ \A symbol \in V!Symbols : Said(texts, symbol) => Holds(built.entries, <<symbol>>)
    BY <1>1, <1>5, BuiltIs
  <2>2. ASSUME NEW t \in DOMAIN texts
        PROVE  V!BpeDetokenize(built.entries,
                 V!BpeTokenize(built.entries, texts[t], Len(texts[t]))) = texts[t]
    <3>1. PICK text \in Seq(V!Symbols) : text = texts[t]
      BY <1>2
    <3>2. ASSUME NEW pos \in 1 .. Len(text) PROVE Holds(built.entries, <<text[pos]>>)
      <4>1. text[pos] \in V!Symbols /\ pos \in DOMAIN text
        BY OneSymbol
      <4>2. Said(texts, text[pos])
        BY <3>1, <4>1, Zenon DEF Said
      <4> QED
        BY <2>1, <4>1, <4>2
    <3>3. V!BpeDetokenize(built.entries, V!BpeTokenize(built.entries, text, Len(text))) = text
      BY <2>1, <3>2, HeldRoundTrips
    <3> QED
      BY <3>1, <3>3, Zenon
  <2> QED
    BY <1>1, <1>3, <1>5, <2>1, <2>2, Zenon DEF V!BuiltSaysTexts
<1> QED
  BY <1>4, <1>5

-----------------------------------------------------------------------------
(* The round trips                                                         *)

\* A prompt of the model that is loaded is one that its vocabulary can be asked for.
LEMMA PromptSpelled ==
  ASSUME I!InferenceAssumption, ModelKept, NEW text \in Prompts
  PROVE  Spelled(vocab, text)
<1>1. vocab \in Seq(Seq(I!Symbols))
  <2>1. \A symbols : <<>> \in Seq(symbols)
    OBVIOUS
  <2>2. vocab = <<>> \/ vocab \in Seq(Seq(I!Symbols))
    BY Zenon DEF ModelKept, I!InferenceAssumption
  <2> QED
    BY <2>1, <2>2
<1> QED
  BY <1>1 DEF Spelled, I!InferenceAssumption

\* Whatever model is loaded and whatever the calls before: each token of a prompt
\* decodes to a part of it or to "<unk>", no identifier of the fallback is taken for
\* an entry, and a text that the vocabulary covers is decoded as it was encoded, cut
\* at any number of tokens to how it begins (niyah_tokenize, niyah_detokenize).  A
\* vocabulary that NiyahMini builds from texts says each of them again, and none is
\* built from texts with a zero byte (niyah_mini_vocab_build, bpe_tokenize).
THEOREM RoundTripHolds == Spec => []RoundTrip
<1> USE Assumptions DEF Assumptions
<1>1. (part = "generation" => GenerationInv) => (part = "generation" => I!RoundTrip)
  <2> SUFFICES ASSUME GenerationInv, NEW text \in Prompts PROVE I!RoundTrips(vocab, text)
    BY DEF I!RoundTrip
  <2>1. Spelled(vocab, text)
    BY PromptSpelled DEF GenerationInv
  <2> QED
    BY <2>1, TextRoundTrips
<1>2. \A texts \in VocabTexts : V!BuiltSaysTexts(texts, 1)
  BY BuiltSays
<1>3. (part = "generation" => GenerationInv) => RoundTrip
  BY <1>1, <1>2 DEF RoundTrip
<1> QED
  BY <1>3, GenerationInvariant, PTL

=============================================================================
