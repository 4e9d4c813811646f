------------------------ MODULE InvertedIndexProofs ------------------------
(***************************************************************************)
(* Proofs about the inverted index: the term array never overflows while a *)
(* registered document is indexed, the posting lists say exactly what was  *)
(* read of each document, and a search returns the best documents.         *)
(***************************************************************************)
EXTENDS InvertedIndex, TLAPS, FiniteSetTheorems, SequenceTheorems

\* The capacities the index keeps, and the tokens of the call in progress
Sizes == capacity \in [terms : Nat, documents : Nat, postings : [Term -> Nat]]

\* Room is reserved for every term of the document that is being indexed.
Reserved == pc = "index" => TermsNeeded <= capacity.terms

IndexInv == Sizes /\ Reserved /\ pos \in Nat \ {0}

LEMMA GrownIsSize ==
  ASSUME NEW c \in Nat, NEW initial \in Nat \ {0} PROVE Grown(c, initial) \in Nat
BY DEF Grown

\* A step that ends a call, starts one or searches keeps the reservation.
LEMMA OtherIndexSteps ==
  ASSUME IndexInv, Sizes', pc' # "index", pos' \in Nat \ {0} PROVE IndexInv'
BY DEF IndexInv, Reserved

\* A step of the loop over the tokens enters no term that was not counted.
LEMMA LoopStep ==
  ASSUME IndexInv, pc = "index", UNCHANGED <<pc, adding>>, pos \in 1 .. Len(adding.tokens),
         vocabulary' \in {vocabulary, vocabulary \cup {adding.tokens[pos]}},
         Sizes', capacity'.terms = capacity.terms, pos' \in Nat \ {0}
  PROVE  IndexInv'
<1>1. adding.tokens[pos] \in TermsUpTo(adding.tokens, Len(adding.tokens))
  BY DEF TermsUpTo
<1>2. TermsUpTo(adding.tokens, Len(adding.tokens))' = TermsUpTo(adding.tokens, Len(adding.tokens))
  BY DEF TermsUpTo
<1>3. (vocabulary \cup TermsUpTo(adding.tokens, Len(adding.tokens)))'
        = vocabulary \cup TermsUpTo(adding.tokens, Len(adding.tokens))
  BY <1>1, <1>2
<1>4. TermsNeeded' = TermsNeeded
  BY <1>3 DEF TermsNeeded
<1> QED
  BY <1>4 DEF IndexInv, Reserved

LEMMA IndexInit == ASSUME Init PROVE IndexInv
BY DEF Init, IndexInv, Sizes, Zeroed, Reserved

\* Every step keeps the reservation, the failing ones too.
LEMMA IndexStep == ASSUME IndexInv, [Next]_vars PROVE IndexInv'
<1>0. /\ Sizes /\ pos \in Nat \ {0}
      /\ {InitialTerms, InitialDocuments, InitialPostings} \subseteq Nat \ {0}
  BY IndexAssumption DEF IndexInv
<1>1. CASE UNCHANGED vars
  BY <1>1 DEF vars, arrays, query, IndexInv, Sizes, Reserved, TermsNeeded, TermsUpTo
<1>2. CASE AddDocument \/ AddRefused \/ Search \/ SearchNothing
  <2>1. UNCHANGED <<capacity, pos>> /\ pc' # "index"
    BY <1>2 DEF AddDocument, AddRefused, Search, SearchNothing, arrays
  <2> QED
    BY <1>0, <2>1, OtherIndexSteps DEF Sizes
<1>3. CASE Free
  <2>1. capacity' = Zeroed /\ pc' # "index" /\ pos' = pos
    BY <1>3 DEF Free
  <2> QED
    BY <1>0, <2>1, OtherIndexSteps DEF Sizes, Zeroed
<1>4. CASE GrowthFails \/ PostingsFail \/ AddDone
  <2>1. capacity' = capacity /\ pc' = "idle" /\ pos' = 1
    BY <1>4 DEF GrowthFails, PostingsFail, AddDone, Return, arrays
  <2> QED
    BY <1>0, <2>1, OtherIndexSteps DEF Sizes
<1>5. CASE GrowTerms
  <2>1. /\ capacity' = [capacity EXCEPT !.terms = Grown(capacity.terms, InitialTerms)]
        /\ pc' # "index" /\ pos' = pos
    BY <1>5 DEF GrowTerms
  <2>2. Grown(capacity.terms, InitialTerms) \in Nat
    BY <1>0, GrownIsSize DEF Sizes
  <2> QED
    BY <1>0, <2>1, <2>2, OtherIndexSteps DEF Sizes
<1>6. CASE GrowDocuments
  <2>1. /\ capacity' = [capacity EXCEPT !.documents = Grown(capacity.documents, InitialDocuments)]
        /\ pc' # "index" /\ pos' = pos
    BY <1>6 DEF GrowDocuments
  <2>2. Grown(capacity.documents, InitialDocuments) \in Nat
    BY <1>0, GrownIsSize DEF Sizes
  <2> QED
    BY <1>0, <2>1, <2>2, OtherIndexSteps DEF Sizes
<1>7. CASE Register
  <2>1. /\ UNCHANGED <<vocabulary, capacity, adding, pos>> /\ capacity.terms >= TermsNeeded
    BY <1>7 DEF Register
  <2>2. TermsNeeded' = TermsNeeded
    BY <2>1 DEF TermsNeeded, TermsUpTo
  <2>3. TermsNeeded' <= capacity'.terms /\ Sizes' /\ pos' \in Nat \ {0}
    BY <1>0, <2>1, <2>2 DEF Sizes
  <2> QED
    BY <2>3 DEF IndexInv, Reserved
<1>8. CASE SkipToken \/ PostToken
  <2>1. /\ pc = "index" /\ UNCHANGED <<pc, adding, vocabulary, capacity>>
        /\ pos <= Len(adding.tokens) /\ pos' = pos + 1
    BY <1>8 DEF SkipToken, PostToken, Indexed
  <2>2. pos \in 1 .. Len(adding.tokens)
    BY <1>0, <2>1
  <2> QED
    BY <1>0, <2>1, <2>2, LoopStep DEF Sizes
<1>9. CASE GrowPostings
  <2> DEFINE t == adding.tokens[pos]
  <2>1. /\ pc = "index" /\ UNCHANGED <<pc, adding, pos>> /\ pos <= Len(adding.tokens)
        /\ vocabulary' = vocabulary \cup {t}
        /\ capacity' = [capacity EXCEPT !.postings[t] = Grown(capacity.postings[t], InitialPostings)]
    BY <1>9 DEF GrowPostings, ListFull
  <2>2. t \in Term => Grown(capacity.postings[t], InitialPostings) \in Nat
    BY <1>0, GrownIsSize DEF Sizes
  <2> HIDE DEF t
  <2>3. Sizes' /\ capacity'.terms = capacity.terms
    BY <1>0, <2>1, <2>2 DEF Sizes
  <2> USE DEF t
  <2>4. pos \in 1 .. Len(adding.tokens)
    BY <1>0, <2>1
  <2> QED
    BY <1>0, <2>1, <2>3, <2>4, LoopStep
<1> QED
  BY <1>1, <1>2, <1>3, <1>4, <1>5, <1>6, <1>7, <1>8, <1>9 DEF Next, Insert

\* The loop over the tokens of a registered document always finds an entry for a
\* new term, for every capacity, text and sequence of allocation failures
\* (niyah_index_add_document reserves before it registers).
THEOREM IndexReservesTerms == Spec => []TermsReserved
<1>1. Init => IndexInv
  BY IndexInit
<1>2. IndexInv /\ [Next]_vars => IndexInv'
  BY IndexStep
<1>3. IndexInv => TermsReserved
  <2>1. ToSet(adding.tokens) = TermsUpTo(adding.tokens, Len(adding.tokens))
    BY DEF ToSet, TermsUpTo
  <2> QED
    BY <2>1 DEF IndexInv, Reserved, TermsReserved, TermsNeeded
<1> QED
  BY <1>1, <1>2, <1>3, PTL DEF Spec

-----------------------------------------------------------------------------
(* What the posting lists say.                                             *)

\* The documents of which the loop has read a term
Reading(t) == {i \in 1 .. Len(docs) : t \in TermsUpTo(docs[i].tokens, docs[i].upto)}

TermFrequency(tokens, t) == Cardinality({n \in 1 .. Len(tokens) : tokens[n] = t})

Posting(i, t) == [id |-> docs[i].id, tf |-> TermFrequency(docs[i].tokens, t)]

Posted(t) ==
  /\ ToSet(postings[t]) = {Posting(i, t) : i \in Reading(t)}
  /\ Len(postings[t]) = Cardinality(Reading(t))
  /\ df[t] = Cardinality(Reading(t))
  /\ Reading(t) # {} => t \in vocabulary

LEMMA ExactMeansPosted == PostingsExact <=> \A t \in Term : Posted(t)
BY DEF PostingsExact, Posted, Reading, Posting, TermFrequency

LEMMA ExactMeansPostedNext == PostingsExact' <=> \A t \in Term : Posted(t)'
BY DEF PostingsExact, Posted, Reading, Posting, TermFrequency

Stored ==
  /\ docs \in Seq([id : Nat, tokens : Seq(Term), upto : Nat])
  /\ adding \in [id : Nat, tokens : Seq(Term)]
  /\ postings \in [Term -> Seq([id : Nat, tf : Nat])]
  /\ df \in [Term -> Nat]

\* The loop is at the end of the document registered last.
Cursor ==
  /\ pc # "index" => pos = 1
  /\ pc = "index" =>
       docs # <<>> /\ docs[Len(docs)] = [id |-> adding.id, tokens |-> adding.tokens,
                                         upto |-> pos - 1]

\* A list with room belongs to a term that has an entry.
Entered == \A t \in Term : capacity.postings[t] # 0 => t \in vocabulary

ExactInv == IndexInv /\ Stored /\ Cursor /\ Entered /\ PostingsExact

\* A step that reads no new term of any document, and changes no list.
LEMMA SameReading ==
  ASSUME PostingsExact, UNCHANGED <<postings, df>>, vocabulary \subseteq vocabulary',
         \A t \in Term : Reading(t)' = Reading(t),
         \A i \in 1 .. Len(docs) : docs'[i].id = docs[i].id /\ docs'[i].tokens = docs[i].tokens
  PROVE  PostingsExact'
<1> SUFFICES ASSUME NEW t \in Term PROVE Posted(t)'
  BY ExactMeansPostedNext
<1>1. Posted(t)
  BY ExactMeansPosted
<1>2. \A i \in Reading(t) : Posting(i, t)' = Posting(i, t)
  BY DEF Posting, TermFrequency, Reading
<1>3. {Posting(i, t) : i \in Reading(t)}' = {Posting(i, t) : i \in Reading(t)}
  BY <1>2
<1> QED
  BY <1>1, <1>3 DEF Posted, ToSet

\* What the loop has read after one more token
LEMMA TermsOneMore ==
  ASSUME NEW tokens, NEW n \in Nat \ {0}
  PROVE  TermsUpTo(tokens, n) = TermsUpTo(tokens, n - 1) \cup {tokens[n]}
<1>1. 1 .. n = (1 .. n - 1) \cup {n}
  OBVIOUS
<1> QED
  BY <1>1 DEF TermsUpTo

\* An iteration adds the last document to the readers of its token.
LEMMA ReadingOneMore ==
  ASSUME Stored, Cursor, pc = "index", pos \in Nat \ {0},
         docs' = [docs EXCEPT ![Len(docs)].upto = pos], NEW t \in Term
  PROVE  /\ docs' \in Seq([id : Nat, tokens : Seq(Term), upto : Nat])
         /\ Len(docs') = Len(docs) /\ Len(docs) \in 1 .. Len(docs)
         /\ docs'[Len(docs)] = [id |-> adding.id, tokens |-> adding.tokens, upto |-> pos]
         /\ \A i \in 1 .. Len(docs) :
              docs'[i].id = docs[i].id /\ docs'[i].tokens = docs[i].tokens
         /\ Reading(t)' = IF t = adding.tokens[pos] THEN Reading(t) \cup {Len(docs)}
                          ELSE Reading(t)
<1> DEFINE last == Len(docs)
<1>1. last \in 1 .. Len(docs) /\ docs[last] = [id |-> adding.id, tokens |-> adding.tokens,
                                               upto |-> pos - 1]
  BY DEF Stored, Cursor
<1>2. /\ Len(docs') = Len(docs) /\ \A i \in 1 .. Len(docs) : i # last => docs'[i] = docs[i]
      /\ docs'[last] = [id |-> adding.id, tokens |-> adding.tokens, upto |-> pos]
      /\ docs' \in Seq([id : Nat, tokens : Seq(Term), upto : Nat])
  <2>1. docs[last] \in [id : Nat, tokens : Seq(Term), upto : Nat] /\ DOMAIN docs = 1 .. Len(docs)
    BY <1>1 DEF Stored
  <2>2. [docs[last] EXCEPT !.upto = pos]
          = [id |-> adding.id, tokens |-> adding.tokens, upto |-> pos]
    BY <1>1
  <2>3. docs' = [docs EXCEPT ![last] = [id |-> adding.id, tokens |-> adding.tokens,
                                        upto |-> pos]]
    BY <2>2
  <2>4. [id |-> adding.id, tokens |-> adding.tokens, upto |-> pos]
          \in [id : Nat, tokens : Seq(Term), upto : Nat]
    BY DEF Stored
  <2> DEFINE read == [id |-> adding.id, tokens |-> adding.tokens, upto |-> pos]
             Doc == [id : Nat, tokens : Seq(Term), upto : Nat]
  <2>5. docs \in Seq(Doc) /\ read \in Doc /\ last \in 1 .. Len(docs)
    BY <1>1, <2>4 DEF Stored
  <2>6. docs' = [docs EXCEPT ![last] = read]
    BY <2>3
  <2> HIDE DEF read, Doc, last
  <2>7. /\ Len(docs') = Len(docs) /\ \A i \in 1 .. Len(docs) : i # last => docs'[i] = docs[i]
        /\ docs'[last] = read /\ docs' \in Seq(Doc)
    BY <2>5, <2>6, ExceptSeq
  <2> QED
    BY <2>7 DEF read, Doc
<1>3. TermsUpTo(adding.tokens, pos) = TermsUpTo(adding.tokens, pos - 1) \cup {adding.tokens[pos]}
  BY TermsOneMore
<1>4. \A i \in 1 .. Len(docs) :
        t \in TermsUpTo(docs'[i].tokens, docs'[i].upto)
          <=> t \in TermsUpTo(docs[i].tokens, docs[i].upto)
              \/ (i = last /\ t = adding.tokens[pos])
  <2> SUFFICES ASSUME NEW i \in 1 .. Len(docs)
               PROVE  t \in TermsUpTo(docs'[i].tokens, docs'[i].upto)
                        <=> t \in TermsUpTo(docs[i].tokens, docs[i].upto)
                            \/ (i = last /\ t = adding.tokens[pos])
    OBVIOUS
  <2>1. CASE i = last
    BY <1>1, <1>2, <1>3, <2>1
  <2>2. CASE i # last
    BY <1>2, <2>2
  <2> QED
    BY <2>1, <2>2
<1>5. Reading(t)' = {i \in 1 .. Len(docs) : t \in TermsUpTo(docs'[i].tokens, docs'[i].upto)}
  BY <1>2 DEF Reading, TermsUpTo
<1>6. \A i \in 1 .. Len(docs) :
        docs'[i].id = docs[i].id /\ docs'[i].tokens = docs[i].tokens
  BY <1>1, <1>2
<1> QED
  BY <1>1, <1>2, <1>4, <1>5, <1>6 DEF Reading

\* What occurs first at a place occurs from there on.
LEMMA FirstCountsAll ==
  ASSUME NEW tokens \in Seq(Term), NEW n \in 1 .. Len(tokens), First(tokens, n)
  PROVE  Occurrences(tokens, n) = TermFrequency(tokens, tokens[n])
<1>1. \A i \in 1 .. Len(tokens) : tokens[i] = tokens[n] => i \in n .. Len(tokens)
  BY DEF First, TermsUpTo
<1>2. {i \in n .. Len(tokens) : tokens[i] = tokens[n]}
        = {i \in 1 .. Len(tokens) : tokens[i] = tokens[n]}
  BY <1>1
<1> QED
  BY <1>2 DEF Occurrences, TermFrequency

-----------------------------------------------------------------------------
(* Every step keeps the lists exact.                                       *)

LEMMA AppendRange ==
  ASSUME NEW S, NEW s \in Seq(S), NEW e \in S
  PROVE  ToSet(Append(s, e)) = ToSet(s) \cup {e}
<1>1. /\ Len(s) \in Nat /\ DOMAIN s = 1 .. Len(s)
      /\ DOMAIN Append(s, e) = 1 .. Len(s) + 1
      /\ \A n \in 1 .. Len(s) : Append(s, e)[n] = s[n]
      /\ Append(s, e)[Len(s) + 1] = e
  BY AppendProperties, LenProperties
<1>2. \A n \in 1 .. Len(s) + 1 : n \in 1 .. Len(s) \/ n = Len(s) + 1
  BY <1>1
<1>3. \A n \in 1 .. Len(s) : n \in 1 .. Len(s) + 1
  BY <1>1
<1>4. Len(s) + 1 \in 1 .. Len(s) + 1
  BY <1>1
<1>5. ASSUME NEW x \in ToSet(Append(s, e)) PROVE x \in ToSet(s) \cup {e}
  <2>1. PICK n \in 1 .. Len(s) + 1 : x = Append(s, e)[n]
    BY <1>1 DEF ToSet
  <2> QED
    BY <1>1, <1>2, <2>1 DEF ToSet
<1>6. ASSUME NEW x \in ToSet(s) PROVE x \in ToSet(Append(s, e))
  <2>1. PICK n \in 1 .. Len(s) : x = s[n]
    BY <1>1 DEF ToSet
  <2> QED
    BY <1>1, <1>3, <2>1 DEF ToSet
<1>7. e \in ToSet(Append(s, e))
  BY <1>1, <1>4 DEF ToSet
<1> QED
  BY <1>5, <1>6, <1>7

\* A token that was not seen gets one posting, in the list of its term only.
LEMMA PostTokenExact ==
  ASSUME ExactInv, PostToken PROVE Stored' /\ Cursor' /\ Entered' /\ PostingsExact'
<1> SUFFICES ASSUME NEW t, t = adding.tokens[pos], NEW last, last = Len(docs), NEW posting,
                    posting = [id |-> adding.id, tf |-> Occurrences(adding.tokens, pos)]
             PROVE  Stored' /\ Cursor' /\ Entered' /\ PostingsExact'
  OBVIOUS
<1> DEFINE P == [id : Nat, tf : Nat]
<1>1. /\ pc = "index" /\ pos \in 1 .. Len(adding.tokens) /\ First(adding.tokens, pos)
      /\ docs' = [docs EXCEPT ![last].upto = pos] /\ pos' = pos + 1
      /\ UNCHANGED <<pc, adding, vocabulary, capacity>>
      /\ Len(postings[t]) < capacity.postings[t]
      /\ postings' = [postings EXCEPT ![t] = Append(postings[t], posting)]
      /\ df' = [df EXCEPT ![t] = df[t] + 1]
  BY DEF PostToken, Indexed, ExactInv, IndexInv
<1>2. t \in Term /\ adding.tokens \in Seq(Term)
  BY <1>1 DEF ExactInv, Stored
<1>3. /\ docs' \in Seq([id : Nat, tokens : Seq(Term), upto : Nat])
      /\ Len(docs') = Len(docs) /\ last \in 1 .. Len(docs)
      /\ docs'[last] = [id |-> adding.id, tokens |-> adding.tokens, upto |-> pos]
      /\ \A i \in 1 .. Len(docs) : docs'[i].id = docs[i].id /\ docs'[i].tokens = docs[i].tokens
      /\ \A s \in Term : Reading(s)' = IF s = t THEN Reading(s) \cup {last} ELSE Reading(s)
  BY <1>1, <1>2, ReadingOneMore DEF ExactInv, IndexInv
<1>4. Occurrences(adding.tokens, pos) = TermFrequency(adding.tokens, t)
  BY <1>1, <1>2, FirstCountsAll
<1>5. TermFrequency(adding.tokens, t) \in Nat
  <2> DEFINE places == {n \in 1 .. Len(adding.tokens) : adding.tokens[n] = t}
  <2>0. Len(adding.tokens) \in Nat
    BY <1>2
  <2>1. IsFiniteSet(1 .. Len(adding.tokens)) /\ places \subseteq 1 .. Len(adding.tokens)
    <3> HIDE DEF places
    <3>1. IsFiniteSet(1 .. Len(adding.tokens))
      <4>1. 1 \in Int /\ Len(adding.tokens) \in Int
        BY <2>0
      <4> QED
        BY <4>1, FS_Interval, Zenon
    <3> USE DEF places
    <3> QED
      BY <3>1
  <2> HIDE DEF places
  <2>2. Cardinality(places) \in Nat
    BY <2>1, FS_Subset, FS_CardinalityType
  <2> QED
    BY <2>2 DEF places, TermFrequency
<1>6. posting \in P /\ posting = Posting(last, t)'
  <2>1. adding.id \in Nat
    BY DEF ExactInv, Stored
  <2>2. Posting(last, t)' = [id |-> docs'[last].id, tf |-> TermFrequency(docs'[last].tokens, t)]
    BY DEF Posting, TermFrequency
  <2>3. Posting(last, t)' = [id |-> adding.id, tf |-> TermFrequency(adding.tokens, t)]
    BY <1>3, <2>2
  <2> QED
    BY <1>4, <1>5, <2>1, <2>3
<1>7. postings \in [Term -> Seq(P)] /\ df \in [Term -> Nat]
  BY DEF ExactInv, Stored
<1>8. last \notin Reading(t)
  BY <1>1 DEF Reading, First, ExactInv, Cursor
<1>9. /\ IsFiniteSet(Reading(t)) /\ Cardinality(Reading(t)) \in Nat
      /\ Cardinality(Reading(t) \cup {last}) = Cardinality(Reading(t)) + 1
  <2>0. IsFiniteSet(1 .. Len(docs)) /\ Reading(t) \subseteq 1 .. Len(docs)
    BY <1>3, FS_Interval DEF Reading
  <2>1. IsFiniteSet(Reading(t))
    BY <2>0, FS_Subset
  <2> QED
    BY <1>8, <2>1, FS_AddElement, FS_CardinalityType
<1>10. ASSUME NEW s \in Term, NEW i \in Reading(s) PROVE Posting(i, s)' = Posting(i, s)
  BY <1>3, <1>10 DEF Posting, TermFrequency, Reading
<1> HIDE DEF P
<1>11. ASSUME NEW s \in Term, s # t PROVE Posted(s)'
  <2>1. postings'[s] = postings[s] /\ df'[s] = df[s] /\ Reading(s)' = Reading(s) /\ Posted(s)
    BY <1>1, <1>3, <1>7, <1>11, ExactMeansPosted DEF ExactInv
  <2>2. {Posting(i, s) : i \in Reading(s)}' = {Posting(i, s) : i \in Reading(s)}
    BY <1>10, <2>1
  <2> QED
    BY <1>1, <2>1, <2>2 DEF Posted, ToSet
<1>12. Posted(t)'
  <2>1. /\ Posted(t) /\ postings'[t] = Append(postings[t], posting) /\ df'[t] = df[t] + 1
        /\ Reading(t)' = Reading(t) \cup {last} /\ postings[t] \in Seq(P)
    BY <1>1, <1>2, <1>3, <1>7, ExactMeansPosted DEF ExactInv
  <2>2. /\ Len(postings'[t]) = Len(postings[t]) + 1
        /\ ToSet(postings'[t]) = ToSet(postings[t]) \cup {posting}
    BY <1>6, <2>1, AppendProperties, AppendRange
  <2>3. {Posting(i, t) : i \in Reading(t)}' = {Posting(i, t) : i \in Reading(t)} \cup {posting}
    BY <1>2, <1>6, <1>10, <2>1
  <2>4. t \in vocabulary
    BY <1>1, <1>2, <2>1, LenProperties DEF ExactInv, Entered
  <2> QED
    BY <1>1, <1>9, <2>1, <2>2, <2>3, <2>4 DEF Posted
<1>13. PostingsExact'
  BY <1>11, <1>12, ExactMeansPostedNext
<1>14. Stored'
  <2>1. Append(postings[t], posting) \in Seq(P) /\ df[t] + 1 \in Nat
    BY <1>2, <1>6, <1>7, AppendProperties
  <2>2. postings' \in [Term -> Seq(P)] /\ df' \in [Term -> Nat]
    BY <1>1, <1>7, <2>1
  <2> QED
    BY <1>1, <1>3, <2>2 DEF ExactInv, Stored, P
<1>15. Cursor'
  <2>1. docs' # <<>> /\ pos' - 1 = pos
    BY <1>1, <1>3
  <2> QED
    BY <1>1, <1>3, <2>1 DEF Cursor
<1> QED
  BY <1>1, <1>13, <1>14, <1>15 DEF ExactInv, Entered

\* A token that was seen before adds no reader to its term.
LEMMA SkipTokenExact ==
  ASSUME ExactInv, SkipToken PROVE Stored' /\ Cursor' /\ Entered' /\ PostingsExact'
<1>1. /\ pc = "index" /\ pos \in 1 .. Len(adding.tokens) /\ ~First(adding.tokens, pos)
      /\ docs' = [docs EXCEPT ![Len(docs)].upto = pos] /\ pos' = pos + 1
      /\ UNCHANGED <<pc, adding, vocabulary, postings, df, capacity>>
  BY DEF SkipToken, Indexed, ExactInv, IndexInv
<1>2. ASSUME NEW t \in Term
      PROVE  /\ docs' \in Seq([id : Nat, tokens : Seq(Term), upto : Nat])
             /\ Len(docs') = Len(docs) /\ Len(docs) \in 1 .. Len(docs)
             /\ docs'[Len(docs)] = [id |-> adding.id, tokens |-> adding.tokens, upto |-> pos]
             /\ \A i \in 1 .. Len(docs) :
                  docs'[i].id = docs[i].id /\ docs'[i].tokens = docs[i].tokens
             /\ Reading(t)' = IF t = adding.tokens[pos] THEN Reading(t) \cup {Len(docs)}
                              ELSE Reading(t)
  BY <1>1, ReadingOneMore DEF ExactInv, IndexInv
<1>3. adding.tokens[pos] \in Term
  BY <1>1 DEF ExactInv, Stored
<1>4. Len(docs) \in Reading(adding.tokens[pos])
  BY <1>1, <1>2, <1>3 DEF Reading, First, ExactInv, Cursor
<1>5. \A t \in Term : Reading(t)' = Reading(t)
  BY <1>2, <1>4
<1>6. PostingsExact'
  BY <1>1, <1>2, <1>3, <1>5, SameReading DEF ExactInv
<1>7. docs' # <<>> /\ pos' - 1 = pos
  BY <1>1, <1>2, <1>3
<1> QED
  BY <1>1, <1>2, <1>3, <1>6, <1>7 DEF ExactInv, Stored, Cursor, Entered

\* A document is registered with nothing read of it.
LEMMA RegisterExact ==
  ASSUME ExactInv, Register PROVE Stored' /\ Cursor' /\ Entered' /\ PostingsExact'
<1> DEFINE Doc == [id : Nat, tokens : Seq(Term), upto : Nat]
<1>1. /\ pc = "grow" /\ pc' = "index" /\ pos = 1
      /\ docs' = Append(docs, [id |-> adding.id, tokens |-> adding.tokens, upto |-> 0])
      /\ UNCHANGED <<vocabulary, postings, df, capacity, adding, pos>>
  BY DEF Register, ExactInv, Cursor
<1>2. docs \in Seq(Doc) /\ [id |-> adding.id, tokens |-> adding.tokens, upto |-> 0] \in Doc
  BY DEF ExactInv, Stored
<1> HIDE DEF Doc
<1>3. /\ docs' \in Seq(Doc) /\ Len(docs') = Len(docs) + 1 /\ Len(docs) \in Nat
      /\ \A i \in 1 .. Len(docs) : docs'[i] = docs[i]
      /\ docs'[Len(docs) + 1] = [id |-> adding.id, tokens |-> adding.tokens, upto |-> 0]
  BY <1>1, <1>2, AppendProperties, LenProperties
<1>4. ASSUME NEW t \in Term PROVE Reading(t)' = Reading(t)
  <2>1. Reading(t)' = {i \in 1 .. Len(docs) + 1 : t \in TermsUpTo(docs'[i].tokens, docs'[i].upto)}
    BY <1>3 DEF Reading, TermsUpTo
  <2>2. t \notin TermsUpTo(docs'[Len(docs) + 1].tokens, docs'[Len(docs) + 1].upto)
    BY <1>3 DEF TermsUpTo
  <2>3. \A i \in 1 .. Len(docs) + 1 : i \in 1 .. Len(docs) \/ i = Len(docs) + 1
    BY <1>3
  <2>4. \A i \in 1 .. Len(docs) : i \in 1 .. Len(docs) + 1
    BY <1>3
  <2> QED
    BY <1>3, <2>1, <2>2, <2>3, <2>4 DEF Reading
<1>5. PostingsExact'
  BY <1>1, <1>3, <1>4, SameReading DEF ExactInv
<1>6. docs' # <<>> /\ docs'[Len(docs')] = [id |-> adding.id, tokens |-> adding.tokens, upto |-> 0]
  BY <1>3
<1> QED
  BY <1>1, <1>3, <1>5, <1>6 DEF ExactInv, Stored, Cursor, Entered, Doc

\* The other steps of a call change no document and no list.
LEMMA CallExact ==
  ASSUME ExactInv, UNCHANGED <<docs, postings, df>>, vocabulary \subseteq vocabulary',
         adding' \in [id : Nat, tokens : Seq(Term)],
         pc' # "index" => pos' = 1, pc' = "index" => UNCHANGED <<pc, adding, pos>>,
         Entered'
  PROVE  Stored' /\ Cursor' /\ Entered' /\ PostingsExact'
<1>1. \A t \in Term : Reading(t)' = Reading(t)
  BY DEF Reading, TermsUpTo
<1>2. PostingsExact'
  BY <1>1, SameReading DEF ExactInv
<1> QED
  BY <1>2 DEF ExactInv, Stored, Cursor

\* The tokens of a text are a text.
LEMMA TokensOfText == ASSUME NEW text \in Texts PROVE Tokens(text) \in Seq(Term)
<1>1. text \in Seq(Term) /\ Len(text) \in Nat /\ TokenLimit \in Nat
  BY IndexAssumption, LenProperties
<1> QED
  BY <1>1 DEF Tokens

LEMMA ExactStep == ASSUME ExactInv, [Next]_vars PROVE ExactInv'
<1>0. IndexInv' /\ adding \in [id : Nat, tokens : Seq(Term)] /\ Sizes /\ pos \in Nat \ {0}
  BY IndexStep DEF ExactInv, Stored, IndexInv
<1>1. CASE UNCHANGED vars
  BY <1>0, <1>1, CallExact DEF ExactInv, Cursor, Entered, vars, arrays
<1>2. CASE AddDocument
  <2>1. PICK id \in Ids \ ({0} \cup Registered), text \in Texts :
          adding' = [id |-> id, tokens |-> Tokens(text)]
    BY <1>2 DEF AddDocument
  <2>2. adding' \in [id : Nat, tokens : Seq(Term)]
    BY <2>1, TokensOfText, IndexAssumption
  <2>3. UNCHANGED <<docs, postings, df, vocabulary, capacity, pos>> /\ pc = "idle" /\ pc' = "grow"
    BY <1>2 DEF AddDocument, arrays
  <2> QED
    BY <1>0, <2>2, <2>3, CallExact DEF ExactInv, Cursor, Entered
<1>3. CASE AddRefused \/ Search \/ SearchNothing
  <2>1. UNCHANGED <<docs, postings, df, vocabulary, capacity, pos, pc, adding>>
    BY <1>3 DEF AddRefused, Search, SearchNothing, arrays
  <2> QED
    BY <1>0, <2>1, CallExact DEF ExactInv, Cursor, Entered
<1>4. CASE GrowthFails \/ AddDone \/ PostingsFail
  <2>1. /\ UNCHANGED <<docs, postings, df, capacity>> /\ pc' = "idle" /\ pos' = 1
        /\ adding' = [id |-> 0, tokens |-> <<>>] /\ vocabulary \subseteq vocabulary'
    BY <1>4 DEF GrowthFails, AddDone, PostingsFail, ListFull, Return, arrays
  <2> QED
    BY <1>0, <2>1, CallExact DEF ExactInv, Entered
<1>5. CASE GrowTerms \/ GrowDocuments
  <2>1. /\ UNCHANGED <<docs, postings, df, vocabulary, pos, pc, adding>>
        /\ capacity'.postings = capacity.postings
    BY <1>0, <1>5 DEF GrowTerms, GrowDocuments, Sizes
  <2> QED
    BY <1>0, <2>1, CallExact DEF ExactInv, Cursor, Entered
<1>6. CASE GrowPostings
  <2>1. PICK t : t = adding.tokens[pos]
    OBVIOUS
  <2>2. /\ UNCHANGED <<docs, postings, df, pos, pc, adding>> /\ vocabulary' = vocabulary \cup {t}
        /\ \A s \in Term \ {t} : capacity'.postings[s] = capacity.postings[s]
    BY <1>0, <1>6, <2>1 DEF GrowPostings, ListFull, Sizes
  <2>3. Entered'
    BY <2>2 DEF ExactInv, Entered
  <2> QED
    BY <1>0, <2>2, <2>3, CallExact DEF ExactInv, Cursor
<1>7. CASE Register
  BY <1>0, <1>7, RegisterExact DEF ExactInv
<1>8. CASE SkipToken
  BY <1>0, <1>8, SkipTokenExact DEF ExactInv
<1>9. CASE PostToken
  BY <1>0, <1>9, PostTokenExact DEF ExactInv
<1>10. CASE Free
  <2>1. /\ docs' = <<>> /\ postings' = [t \in Term |-> <<>>] /\ df' = [t \in Term |-> 0]
        /\ capacity' = Zeroed /\ pc' # "index" /\ pos' = 1 /\ adding' = adding
    BY <1>10 DEF Free, ExactInv, Cursor
  <2>2. \A t \in Term : Reading(t)' = {}
    BY <2>1 DEF Reading
  <2>3. \A t \in Term : ToSet(postings'[t]) = {} /\ Len(postings'[t]) = 0
    BY <2>1 DEF ToSet
  <2>4. \A t \in Term : Posted(t)'
    BY <2>1, <2>2, <2>3, FS_EmptySet DEF Posted
  <2> QED
    BY <1>0, <2>1, <2>4, ExactMeansPostedNext DEF ExactInv, Stored, Cursor, Entered, Zeroed
<1> QED
  BY <1>1, <1>2, <1>3, <1>4, <1>5, <1>6, <1>7, <1>8, <1>9, <1>10 DEF Next, Insert

LEMMA ExactInit == ASSUME Init PROVE ExactInv
<1>1. \A t \in Term : Reading(t) = {} /\ postings[t] = <<>> /\ df[t] = 0
  BY DEF Init, Reading
<1>2. \A t \in Term : ToSet(postings[t]) = {} /\ Len(postings[t]) = 0
  BY <1>1 DEF ToSet
<1>3. \A t \in Term : Posted(t)
  BY <1>1, <1>2, FS_EmptySet DEF Posted
<1> QED
  BY <1>3, IndexInit, ExactMeansPosted DEF Init, ExactInv, Stored, Cursor, Entered, Zeroed

\* In every state, in the middle of an insertion and after one that failed too,
\* the posting lists of niyah_index_add_document say of each document exactly
\* what its loop has read: one posting for each distinct term, with the frequency
\* in the whole text, and a document frequency that counts them.
THEOREM IndexPostingsExact == Spec => []PostingsExact
<1>1. Init => ExactInv
  BY ExactInit
<1>2. ExactInv /\ [Next]_vars => ExactInv'
  BY ExactStep
<1>3. ExactInv => PostingsExact
  BY DEF ExactInv
<1> QED
  BY <1>1, <1>2, <1>3, PTL DEF Spec

-----------------------------------------------------------------------------
(* Types.                                                                  *)

\* What a call has checked before it registers its document
Fresh ==
  pc = "grow" => /\ adding.id \in Ids \ ({0} \cup Registered)
                 /\ adding.tokens \in {Tokens(text) : text \in Texts}

TypeInv ==
  ExactInv /\ TypeOK /\ Fresh /\ IsFiniteSet(vocabulary) /\ IsFiniteSet(Registered)

\* The terms of a text are finitely many.
LEMMA TermsFinite ==
  ASSUME NEW tokens \in Seq(Term) PROVE IsFiniteSet(TermsUpTo(tokens, Len(tokens)))
<1>1. Len(tokens) \in Nat
  OBVIOUS
<1>2. IsFiniteSet(1 .. Len(tokens))
  BY <1>1, FS_Interval
<1>3. tokens \in Surjection(1 .. Len(tokens), TermsUpTo(tokens, Len(tokens)))
  <2>1. tokens = [i \in 1 .. Len(tokens) |-> tokens[i]]
    OBVIOUS
  <2>2. tokens \in [1 .. Len(tokens) -> TermsUpTo(tokens, Len(tokens))]
    BY <2>1 DEF TermsUpTo
  <2> QED
    BY <2>2 DEF Surjection, TermsUpTo
<1> QED
  BY <1>2, <1>3, FS_Surjection

\* A new entry was counted before the document was registered.
LEMMA EntryFits ==
  ASSUME TypeInv, pc = "index", pos <= Len(adding.tokens)
  PROVE  LET entered == vocabulary \cup {adding.tokens[pos]}
         IN  entered \subseteq Term /\ IsFiniteSet(entered)
             /\ Cardinality(entered) <= capacity.terms
<1> DEFINE entered == vocabulary \cup {adding.tokens[pos]}
           all == vocabulary \cup TermsUpTo(adding.tokens, Len(adding.tokens))
<1>1. pos \in 1 .. Len(adding.tokens) /\ adding.tokens \in Seq(Term)
  BY DEF TypeInv, ExactInv, IndexInv, Stored
<1>2. adding.tokens[pos] \in Term \cap TermsUpTo(adding.tokens, Len(adding.tokens))
  BY <1>1 DEF TermsUpTo
<1>3. IsFiniteSet(all) /\ entered \subseteq all
  BY <1>1, <1>2, TermsFinite, FS_Union DEF TypeInv
<1>4. IsFiniteSet(entered) /\ Cardinality(entered) <= Cardinality(all)
      /\ Cardinality(entered) \in Nat /\ Cardinality(all) \in Nat
  <2> HIDE DEF entered, all
  <2> QED
    BY <1>3, FS_Subset, FS_CardinalityType
<1>5. Cardinality(all) <= capacity.terms /\ capacity.terms \in Nat
  BY DEF TypeInv, ExactInv, IndexInv, Reserved, TermsNeeded, Sizes
<1>6. entered \subseteq Term
  BY <1>2 DEF TypeInv, TypeOK
<1>7. Cardinality(entered) <= capacity.terms
  <2> HIDE DEF entered, all
  <2> QED
    BY <1>4, <1>5
<1> QED
  BY <1>4, <1>6, <1>7

\* A step that changes no document and no list, but may have arrays grow.
LEMMA TypeKept ==
  ASSUME TypeInv, ExactInv', UNCHANGED <<docs, postings>>,
         \/ vocabulary' = vocabulary
         \/ /\ vocabulary' = vocabulary \cup {adding.tokens[pos]}
            /\ pc = "index" /\ pos <= Len(adding.tokens),
         capacity'.terms >= capacity.terms, capacity'.documents >= capacity.documents,
         \A t \in Term : capacity'.postings[t] >= capacity.postings[t],
         pc' \in {"idle", "grow", "index"}, ok' \in BOOLEAN, Fresh'
  PROVE  TypeInv'
<1>1. /\ vocabulary' \subseteq Term /\ IsFiniteSet(vocabulary')
      /\ Cardinality(vocabulary') <= capacity.terms
  BY EntryFits DEF TypeInv, TypeOK
<1>2. Cardinality(vocabulary') \in Nat
  BY <1>1, FS_CardinalityType
<1>3. Sizes /\ Sizes' /\ docs \in Seq([id : Nat, tokens : Seq(Term), upto : Nat])
      /\ postings \in [Term -> Seq([id : Nat, tf : Nat])]
  BY DEF TypeInv, ExactInv, IndexInv, Stored
<1>4. Cardinality(vocabulary') <= capacity'.terms
  BY <1>1, <1>2, <1>3 DEF Sizes
<1>5. Len(docs) <= capacity'.documents
  BY <1>3 DEF Sizes, TypeInv, TypeOK
<1>6. \A t \in Term : Len(postings[t]) <= capacity'.postings[t]
  BY <1>3 DEF Sizes, TypeInv, TypeOK
<1>7. Registered' = Registered
  BY DEF Registered
<1> QED
  BY <1>1, <1>4, <1>5, <1>6, <1>7 DEF TypeInv, TypeOK

\* Doubling never shrinks an array.
LEMMA GrownIsMore ==
  ASSUME NEW c \in Nat, NEW initial \in Nat \ {0} PROVE Grown(c, initial) >= c
BY DEF Grown

\* An identifier that was looked for is new.
LEMMA RegisterTypes == ASSUME TypeInv, ExactInv', Register PROVE TypeInv'
<1> DEFINE Doc == [id : Nat, tokens : Seq(Term), upto : Nat]
           doc == [id |-> adding.id, tokens |-> adding.tokens, upto |-> 0]
<1>1. /\ pc = "grow" /\ pc' = "index" /\ docs' = Append(docs, doc)
      /\ Len(docs) < capacity.documents
      /\ UNCHANGED <<vocabulary, postings, capacity, ok>>
  BY DEF Register
<1>2. docs \in Seq(Doc) /\ doc \in Doc /\ capacity.documents \in Nat
  BY DEF TypeInv, ExactInv, IndexInv, Stored, Sizes
<1>3. /\ adding.id \in Ids \ ({0} \cup Registered)
      /\ adding.tokens \in {Tokens(text) : text \in Texts}
  BY <1>1 DEF TypeInv, Fresh
<1> HIDE DEF Doc
<1>4. /\ Len(docs) \in Nat /\ Len(docs') = Len(docs) + 1
      /\ \A i \in 1 .. Len(docs) : docs'[i] = docs[i]
      /\ docs'[Len(docs) + 1] = doc
  <2> HIDE DEF doc
  <2> QED
    BY <1>1, <1>2, AppendProperties, LenProperties
<1>5. \A i \in 1 .. Len(docs) + 1 : i \in 1 .. Len(docs) \/ i = Len(docs) + 1
  BY <1>4
<1>6. Registered' = Registered \cup {adding.id}
  <2>1. Registered' = {docs'[i].id : i \in 1 .. Len(docs) + 1}
    BY <1>4 DEF Registered
  <2>2. \A i \in 1 .. Len(docs) : i \in 1 .. Len(docs) + 1
    BY <1>4
  <2>3. Len(docs) + 1 \in 1 .. Len(docs) + 1
    BY <1>4
  <2> QED
    BY <1>4, <1>5, <2>1, <2>2, <2>3 DEF Registered
<1>7. IsFiniteSet(Registered') /\ Cardinality(Registered') = Len(docs')
  BY <1>3, <1>4, <1>6, FS_AddElement DEF TypeInv, TypeOK
<1>8. \A i \in 1 .. Len(docs') :
        /\ docs'[i].id \in Ids \ {0}
        /\ docs'[i].tokens \in {Tokens(text) : text \in Texts}
        /\ docs'[i].upto \in 0 .. Len(docs'[i].tokens)
  <2>1. adding.tokens \in Seq(Term)
    BY DEF TypeInv, ExactInv, Stored
  <2>2. Len(adding.tokens) \in Nat
    BY <2>1
  <2>3. 0 \in 0 .. Len(adding.tokens)
    BY <2>2
  <2> QED
    BY <1>3, <1>4, <1>5, <2>3 DEF TypeInv, TypeOK
<1>9. Len(docs') <= capacity'.documents
  BY <1>1, <1>2, <1>4
<1> QED
  BY <1>1, <1>7, <1>8, <1>9 DEF TypeInv, TypeOK, Fresh

\* An iteration of the loop moves the history of the last document on.
LEMMA IndexedTypes ==
  ASSUME TypeInv, ExactInv', pc = "index", pos <= Len(adding.tokens), Indexed,
         UNCHANGED <<vocabulary, capacity>>,
         \A t \in Term : Len(postings'[t]) <= capacity.postings[t]
  PROVE  TypeInv'
<1>1. /\ docs' = [docs EXCEPT ![Len(docs)].upto = pos] /\ pc' = "index" /\ ok' = ok
      /\ pos \in 1 .. Len(adding.tokens) /\ adding.tokens \in Seq(Term)
  BY DEF Indexed, TypeInv, ExactInv, IndexInv, Stored
<1>2. adding.tokens[pos] \in Term
  BY <1>1
<1>3. /\ Len(docs') = Len(docs) /\ Len(docs) \in 1 .. Len(docs)
      /\ docs'[Len(docs)] = [id |-> adding.id, tokens |-> adding.tokens, upto |-> pos]
      /\ \A i \in 1 .. Len(docs) : docs'[i].id = docs[i].id /\ docs'[i].tokens = docs[i].tokens
  <2>1. Stored /\ Cursor /\ pos \in Nat \ {0}
    BY DEF TypeInv, ExactInv, IndexInv
  <2> QED
    BY <1>1, <1>2, <2>1, ReadingOneMore
<1>4. \A i \in 1 .. Len(docs) : i # Len(docs) => docs'[i] = docs[i]
  <2>1. docs \in Seq([id : Nat, tokens : Seq(Term), upto : Nat])
    BY DEF TypeInv, ExactInv, Stored
  <2> QED
    BY <1>1, <2>1
<1>5. pos \in 0 .. Len(adding.tokens)
  BY <1>1
<1>6. \A i \in 1 .. Len(docs') :
        /\ docs'[i].id \in Ids \ {0}
        /\ docs'[i].tokens \in {Tokens(text) : text \in Texts}
        /\ docs'[i].upto \in 0 .. Len(docs'[i].tokens)
  BY <1>3, <1>4, <1>5 DEF TypeInv, TypeOK
<1>7. Registered' = Registered
  BY <1>3 DEF Registered
<1> QED
  BY <1>1, <1>3, <1>6, <1>7 DEF TypeInv, TypeOK, Fresh

LEMMA TypeStep == ASSUME TypeInv, [Next]_vars PROVE TypeInv'
<1>0. ExactInv' /\ Sizes /\ Fresh /\ pc \in {"idle", "grow", "index"} /\ ok \in BOOLEAN
  BY ExactStep DEF TypeInv, ExactInv, IndexInv, TypeOK
<1>00. /\ capacity.terms \in Nat /\ capacity.documents \in Nat
       /\ \A t \in Term : capacity.postings[t] \in Nat
       /\ {InitialTerms, InitialDocuments, InitialPostings} \subseteq Nat \ {0}
  BY <1>0, IndexAssumption DEF Sizes
<1>1. CASE UNCHANGED vars
  BY <1>0, <1>00, <1>1, TypeKept DEF Fresh, Registered, vars, arrays
<1>2. CASE AddDocument
  <2>1. /\ UNCHANGED <<docs, vocabulary, postings, capacity, ok>> /\ pc' = "grow"
        /\ \E id \in Ids \ ({0} \cup Registered), text \in Texts :
             adding' = [id |-> id, tokens |-> Tokens(text)]
    BY <1>2 DEF AddDocument, arrays
  <2>2. Fresh'
    BY <2>1 DEF Fresh, Registered
  <2> QED
    BY <1>0, <1>00, <2>1, <2>2, TypeKept
<1>3. CASE AddRefused \/ Search \/ SearchNothing
  <2>1. UNCHANGED <<docs, vocabulary, postings, capacity, pc, adding>> /\ ok' \in BOOLEAN
    BY <1>0, <1>3 DEF AddRefused, Search, SearchNothing, arrays
  <2> QED
    BY <1>0, <1>00, <2>1, TypeKept DEF Fresh, Registered
<1>4. CASE GrowthFails \/ AddDone \/ PostingsFail
  <2>1. /\ UNCHANGED <<docs, postings, capacity>> /\ pc' = "idle" /\ ok' \in BOOLEAN
        /\ \/ vocabulary' = vocabulary
           \/ /\ vocabulary' = vocabulary \cup {adding.tokens[pos]}
              /\ pc = "index" /\ pos <= Len(adding.tokens)
    BY <1>4 DEF GrowthFails, AddDone, PostingsFail, ListFull, Return, arrays
  <2> QED
    BY <1>0, <1>00, <2>1, TypeKept DEF Fresh
<1>5. CASE GrowTerms
  <2> DEFINE more == Grown(capacity.terms, InitialTerms)
  <2>1. /\ UNCHANGED <<docs, vocabulary, postings, pc, adding, ok>>
        /\ capacity' = [capacity EXCEPT !.terms = more]
    BY <1>5 DEF GrowTerms
  <2>2. more >= capacity.terms
    BY <1>00, GrownIsMore
  <2> HIDE DEF more
  <2>3. /\ capacity'.terms >= capacity.terms /\ capacity'.documents >= capacity.documents
        /\ \A t \in Term : capacity'.postings[t] >= capacity.postings[t]
    BY <1>0, <1>00, <2>1, <2>2 DEF Sizes
  <2> QED
    BY <1>0, <2>1, <2>3, TypeKept DEF Fresh, Registered
<1>6. CASE GrowDocuments
  <2> DEFINE more == Grown(capacity.documents, InitialDocuments)
  <2>1. /\ UNCHANGED <<docs, vocabulary, postings, pc, adding, ok>>
        /\ capacity' = [capacity EXCEPT !.documents = more]
    BY <1>6 DEF GrowDocuments
  <2>2. more >= capacity.documents
    BY <1>00, GrownIsMore
  <2> HIDE DEF more
  <2>3. /\ capacity'.terms >= capacity.terms /\ capacity'.documents >= capacity.documents
        /\ \A t \in Term : capacity'.postings[t] >= capacity.postings[t]
    BY <1>0, <1>00, <2>1, <2>2 DEF Sizes
  <2> QED
    BY <1>0, <2>1, <2>3, TypeKept DEF Fresh, Registered
<1>7. CASE GrowPostings
  <2>1. PICK t : t = adding.tokens[pos]
    OBVIOUS
  <2>2. PICK more : more = Grown(capacity.postings[t], InitialPostings)
    OBVIOUS
  <2>3. /\ UNCHANGED <<docs, postings, pc, adding, ok>> /\ pc = "index"
        /\ vocabulary' = vocabulary \cup {adding.tokens[pos]} /\ pos <= Len(adding.tokens)
        /\ capacity' = [capacity EXCEPT !.postings[t] = more]
    BY <1>7, <2>1, <2>2 DEF GrowPostings, ListFull
  <2>4. t \in Term => more >= capacity.postings[t]
    BY <1>00, <2>2, GrownIsMore
  <2>5. /\ capacity'.terms >= capacity.terms /\ capacity'.documents >= capacity.documents
        /\ \A s \in Term : capacity'.postings[s] >= capacity.postings[s]
    BY <1>0, <1>00, <2>3, <2>4 DEF Sizes
  <2> QED
    BY <1>0, <2>3, <2>5, TypeKept DEF Fresh
<1>8. CASE Register
  BY <1>0, <1>8, RegisterTypes
<1>9. CASE SkipToken
  BY <1>0, <1>9, IndexedTypes DEF SkipToken, TypeInv, TypeOK
<1>10. CASE PostToken
  <2>1. PICK t : t = adding.tokens[pos]
    OBVIOUS
  <2>2. PICK posting : posting = [id |-> adding.id, tf |-> Occurrences(adding.tokens, pos)]
    OBVIOUS
  <2>3. /\ pc = "index" /\ pos <= Len(adding.tokens) /\ Indexed
        /\ UNCHANGED <<vocabulary, capacity>> /\ Len(postings[t]) < capacity.postings[t]
        /\ postings' = [postings EXCEPT ![t] = Append(postings[t], posting)]
    BY <1>10, <2>1, <2>2 DEF PostToken
  <2>4. \A s \in Term : Len(postings'[s]) <= capacity.postings[s]
    <3>1. postings \in [Term -> Seq([id : Nat, tf : Nat])]
      BY DEF TypeInv, ExactInv, Stored
    <3>2. postings' \in [Term -> Seq([id : Nat, tf : Nat])]
      BY <1>0 DEF ExactInv, Stored
    <3>3. \A s \in Term : s # t => postings'[s] = postings[s]
      BY <2>3, <3>1
    <3>4. t \in Term => Len(postings'[t]) = Len(postings[t]) + 1
      BY <2>3, <3>1
    <3>5. t \in Term => Len(postings'[t]) <= capacity.postings[t]
      BY <1>00, <2>3, <3>1, <3>4
    <3> QED
      BY <3>3, <3>5 DEF TypeInv, TypeOK
  <2> QED
    BY <1>0, <2>3, <2>4, IndexedTypes
<1>11. CASE Free
  <2>1. /\ docs' = <<>> /\ vocabulary' = {} /\ postings' = [t \in Term |-> <<>>]
        /\ capacity' = Zeroed /\ pc' = "idle" /\ ok' = ok
    BY <1>11 DEF Free
  <2>2. Registered' = {}
    BY <2>1 DEF Registered
  <2> QED
    BY <1>0, <2>1, <2>2, FS_EmptySet DEF TypeInv, TypeOK, Fresh, Zeroed
<1> QED
  BY <1>1, <1>2, <1>3, <1>4, <1>5, <1>6, <1>7, <1>8, <1>9, <1>10, <1>11 DEF Next, Insert

\* The empty index
LEMMA TypeInit == ASSUME Init PROVE TypeInv
<1>1. Registered = {} /\ IsFiniteSet({}) /\ Cardinality({}) = 0
  BY FS_EmptySet DEF Init, Registered
<1>2. TypeOK /\ Fresh
  BY <1>1 DEF Init, TypeOK, Fresh, Zeroed
<1> QED
  BY <1>1, <1>2, ExactInit DEF TypeInv, Init

\* No array of the index is ever fuller than what was allocated for it, no
\* identifier is registered twice, and every document is a text that was passed
\* to niyah_index_add_document, through every sequence of calls and failures.
THEOREM IndexTypeCorrect == Spec => []TypeOK
<1>1. Init => TypeInv
  BY TypeInit
<1>2. TypeInv /\ [Next]_vars => TypeInv'
  BY TypeStep
<1>3. TypeInv => TypeOK
  BY DEF TypeInv
<1> QED
  BY <1>1, <1>2, <1>3, PTL DEF Spec

-----------------------------------------------------------------------------
(* The scan of the documents.                                              *)

\* An entry of the list of results
Hit == [id : Nat, score : Nat]

\* No two entries of a list have the same identifier.
Apart(list) == \A m, n \in DOMAIN list : list[m].id = list[n].id => m = n

\* The loop over the documents: what it does with one of them, and what its list
\* is after a part s of them: the best entries, as many as there is room for
NoHits(room) == <<>>
KeepHit(room, list, hit) == Keep(list, hit, room)
Positive(s) == {i \in DOMAIN s : s[i].score > 0}
Best(room, s, list) ==
  /\ list \in Seq(Hit) /\ Apart(list)
  /\ \A n \in DOMAIN list : \E i \in Positive(s) : list[n] = s[i]
  /\ Len(list) = IF Cardinality(Positive(s)) < room THEN Cardinality(Positive(s)) ELSE room
  /\ \A i \in Positive(s) :
       \/ \E n \in DOMAIN list : list[n] = s[i]
       \/ Len(list) = room /\ \A n \in DOMAIN list : s[i].score <= list[n].score
KeepsBest(room, s, list) == room \in Nat \ {0} /\ Apart(s) => Best(room, s, list)
Scanning == INSTANCE FoldTheorems WITH T <- Hit, Base <- NoHits, Op <- KeepHit, P <- KeepsBest

\* Some hit of a list has the lowest score, and one of them is the first.
LEMMA FirstLowest ==
  \A n \in Nat : \A list \in [1 .. n + 1 -> Hit] :
    \E w \in 1 .. n + 1 : \A i \in 1 .. n + 1 :
      list[w].score <= list[i].score /\ (i < w => list[w].score < list[i].score)
<1> DEFINE Good == {n \in Nat : \A list \in [1 .. n + 1 -> Hit] :
                      \E w \in 1 .. n + 1 : \A i \in 1 .. n + 1 :
                        /\ list[w].score <= list[i].score
                        /\ i < w => list[w].score < list[i].score}
<1>1. 0 \in Good
  <2> SUFFICES ASSUME NEW list \in [1 .. 1 -> Hit] PROVE list[1].score <= list[1].score
    OBVIOUS
  <2> QED
    BY DEF Hit
<1>2. ASSUME NEW n \in Nat, n \in Good PROVE n + 1 \in Good
  <2> SUFFICES ASSUME NEW list \in [1 .. n + 2 -> Hit]
               PROVE  \E w \in 1 .. n + 2 : \A i \in 1 .. n + 2 :
                        /\ list[w].score <= list[i].score
                        /\ i < w => list[w].score < list[i].score
    OBVIOUS
  <2> DEFINE front == [i \in 1 .. n + 1 |-> list[i]]
  <2>1. front \in [1 .. n + 1 -> Hit]
    OBVIOUS
  <2>2. PICK w \in 1 .. n + 1 : \A i \in 1 .. n + 1 :
          front[w].score <= front[i].score /\ (i < w => front[w].score < front[i].score)
    BY <1>2, <2>1
  <2>3. \A i \in 1 .. n + 1 : list[w].score <= list[i].score
                             /\ (i < w => list[w].score < list[i].score)
    BY <2>2
  <2>4. \A i \in 1 .. n + 2 : list[i].score \in Nat
    BY DEF Hit
  <2>5. CASE list[n + 2].score < list[w].score
    <3>1. \A i \in 1 .. n + 2 : list[n + 2].score <= list[i].score
                               /\ (i < n + 2 => list[n + 2].score < list[i].score)
      BY <2>3, <2>4, <2>5
    <3> QED
      BY <3>1
  <2>6. CASE ~(list[n + 2].score < list[w].score)
    <3>1. w \in 1 .. n + 2 /\ list[w].score <= list[n + 2].score
      BY <2>4, <2>6
    <3>2. \A i \in 1 .. n + 2 : i \in 1 .. n + 1 \/ (i = n + 2 /\ ~(i < w))
      OBVIOUS
    <3>3. \A i \in 1 .. n + 2 : list[w].score <= list[i].score
                               /\ (i < w => list[w].score < list[i].score)
      BY <2>3, <3>1, <3>2
    <3> QED
      BY <3>1, <3>3
  <2> QED
    BY <2>5, <2>6
<1> HIDE DEF Good
<1>3. \A n \in Nat : n \in Good
  BY <1>1, <1>2, Scanning!EveryNumber
<1> QED
  BY <1>3 DEF Good

\* The hit that is given up has the lowest score.
LEMMA WorstIsLowest ==
  ASSUME NEW list \in Seq(Hit), list # <<>>
  PROVE  Worst(list) \in DOMAIN list
         /\ \A n \in DOMAIN list : list[Worst(list)].score <= list[n].score
<1>1. Len(list) \in Nat \ {0} /\ DOMAIN list = 1 .. Len(list) /\ list \in [1 .. Len(list) -> Hit]
  OBVIOUS
<1>2. PICK n \in Nat : Len(list) = n + 1
  <2>1. Len(list) - 1 \in Nat /\ Len(list) = (Len(list) - 1) + 1
    BY <1>1
  <2> QED
    BY <2>1
<1>3. \E w \in 1 .. Len(list) : \A i \in 1 .. Len(list) :
        list[w].score <= list[i].score /\ (i < w => list[w].score < list[i].score)
  BY <1>1, <1>2, FirstLowest
<1> QED
  BY <1>1, <1>3 DEF Worst

\* The positive entries of one more.
LEMMA PositiveOneMore ==
  ASSUME NEW s \in Seq(Hit), NEW hit \in Hit
  PROVE  LET one == Append(s, hit)
         IN  /\ Positive(one) = IF hit.score > 0 THEN Positive(s) \cup {Len(s) + 1}
                                ELSE Positive(s)
             /\ IsFiniteSet(Positive(s)) /\ Cardinality(Positive(s)) \in Nat
             /\ Cardinality(Positive(one)) = IF hit.score > 0 THEN Cardinality(Positive(s)) + 1
                                             ELSE Cardinality(Positive(s))
<1> DEFINE one == Append(s, hit)
<1>1. /\ Len(s) \in Nat /\ DOMAIN s = 1 .. Len(s) /\ DOMAIN one = 1 .. Len(s) + 1
      /\ \A i \in 1 .. Len(s) : one[i] = s[i]
      /\ one[Len(s) + 1] = hit
  OBVIOUS
<1>2. 1 .. Len(s) + 1 = (1 .. Len(s)) \cup {Len(s) + 1}
  BY <1>1
<1> HIDE DEF one
<1>3. Positive(one) = IF hit.score > 0 THEN Positive(s) \cup {Len(s) + 1} ELSE Positive(s)
  BY <1>1, <1>2 DEF Positive
<1>4. IsFiniteSet(Positive(s)) /\ Cardinality(Positive(s)) \in Nat
  <2>1. IsFiniteSet(1 .. Len(s)) /\ Positive(s) \in SUBSET (1 .. Len(s))
    BY <1>1, FS_Interval DEF Positive
  <2> QED
    BY <2>1, FS_Subset, FS_CardinalityType
<1>5. Len(s) + 1 \notin Positive(s)
  BY <1>1 DEF Positive
<1>6. Cardinality(Positive(s) \cup {Len(s) + 1}) = Cardinality(Positive(s)) + 1
  BY <1>4, <1>5, FS_AddElement
<1> QED
  BY <1>3, <1>4, <1>6 DEF one

\* One document more: it is the one that had to be dropped, or an entry that it
\* beats is.
LEMMA KeepStep ==
  ASSUME NEW room, NEW s \in Seq(Hit), NEW hit \in Hit, NEW list, KeepsBest(room, s, list)
  PROVE  KeepsBest(room, Append(s, hit), KeepHit(room, list, hit))
<1> DEFINE one == Append(s, hit)
<1> SUFFICES ASSUME room \in Nat \ {0}, Apart(one) PROVE Best(room, one, Keep(list, hit, room))
  BY DEF KeepsBest, KeepHit
<1>1. /\ Len(s) \in Nat /\ DOMAIN s = 1 .. Len(s) /\ DOMAIN one = 1 .. Len(s) + 1
      /\ \A i \in 1 .. Len(s) : one[i] = s[i] /\ s[i] \in Hit
      /\ one[Len(s) + 1] = hit
  OBVIOUS
<1>2. /\ Positive(one) = IF hit.score > 0 THEN Positive(s) \cup {Len(s) + 1} ELSE Positive(s)
      /\ Cardinality(Positive(s)) \in Nat
      /\ Cardinality(Positive(one)) = IF hit.score > 0 THEN Cardinality(Positive(s)) + 1
                                      ELSE Cardinality(Positive(s))
  BY PositiveOneMore
<1>3. Apart(s) /\ \A i \in 1 .. Len(s) : s[i].id # hit.id
  BY <1>1 DEF Apart
<1> HIDE DEF one
<1>4. Best(room, s, list)
  BY <1>3 DEF KeepsBest
<1>5. hit.score \in Nat /\ \A i \in Positive(s) : i \in 1 .. Len(s) /\ s[i].score \in Nat
  BY <1>1 DEF Hit, Positive
<1>6. /\ list \in Seq(Hit) /\ Apart(list) /\ Len(list) \in Nat /\ DOMAIN list = 1 .. Len(list)
      /\ \A n \in DOMAIN list : list[n] \in Hit /\ list[n].score \in Nat
      /\ \A n \in DOMAIN list : list[n].id # hit.id /\ \E i \in Positive(s) : list[n] = s[i]
  <2>1. list \in Seq(Hit) /\ Apart(list) /\ \A n \in DOMAIN list : \E i \in Positive(s) : list[n] = s[i]
    BY <1>4 DEF Best
  <2>2. /\ Len(list) \in Nat /\ DOMAIN list = 1 .. Len(list)
        /\ \A n \in DOMAIN list : list[n] \in Hit
    BY <2>1
  <2>3. \A n \in DOMAIN list : list[n].id # hit.id
    BY <1>3, <1>5, <2>1
  <2> QED
    BY <2>1, <2>2, <2>3 DEF Hit
<1>7. /\ Len(list) = IF Cardinality(Positive(s)) < room THEN Cardinality(Positive(s)) ELSE room
      /\ \A i \in Positive(s) :
           \/ \E n \in DOMAIN list : list[n] = s[i]
           \/ Len(list) = room /\ \A n \in DOMAIN list : s[i].score <= list[n].score
  BY <1>4 DEF Best
<1>8. CASE hit.score = 0
  <2>1. Keep(list, hit, room) = list /\ Positive(one) = Positive(s)
    BY <1>2, <1>8 DEF Keep
  <2>2. \A i \in Positive(s) : one[i] = s[i]
    BY <1>1, <1>5
  <2> QED
    BY <1>6, <1>7, <2>1, <2>2 DEF Best
<1>9. CASE hit.score > 0 /\ Len(list) < room
  <2> DEFINE more == Append(list, hit)
  <2>1. Keep(list, hit, room) = more
    BY <1>5, <1>9 DEF Keep
  <2>2. /\ more \in Seq(Hit) /\ Len(more) = Len(list) + 1 /\ DOMAIN more = 1 .. Len(list) + 1
        /\ \A n \in 1 .. Len(list) : more[n] = list[n]
        /\ more[Len(list) + 1] = hit
    BY <1>6
  <2> HIDE DEF more
  <2>3. Apart(more)
    BY <1>6, <2>2 DEF Apart
  <2>4. Positive(one) = Positive(s) \cup {Len(s) + 1} /\ \A i \in Positive(s) : one[i] = s[i]
    BY <1>1, <1>2, <1>5, <1>9
  <2>5. \A n \in DOMAIN more : \E i \in Positive(one) : more[n] = one[i]
    BY <1>1, <1>6, <2>2, <2>4
  <2>6. Len(more) = IF Cardinality(Positive(one)) < room THEN Cardinality(Positive(one)) ELSE room
    <3>1. Len(more) = Len(list) + 1 /\ Len(list) = Cardinality(Positive(s))
      BY <1>6, <1>7, <1>9, <2>2
    <3>2. Cardinality(Positive(one)) = Len(list) + 1
      BY <1>2, <1>9, <3>1
    <3> QED
      BY <1>6, <1>9, <3>1, <3>2
  <2>7. \A i \in Positive(one) : \E n \in DOMAIN more : more[n] = one[i]
    <3>1. \A i \in Positive(s) : \E n \in DOMAIN list : list[n] = s[i]
      BY <1>6, <1>7, <1>9
    <3>2. \E n \in DOMAIN more : more[n] = one[Len(s) + 1]
      BY <1>1, <1>6, <2>2
    <3>3. \A n \in DOMAIN list : n \in DOMAIN more /\ more[n] = list[n]
      BY <1>6, <2>2
    <3> QED
      BY <2>4, <3>1, <3>2, <3>3
  <2> QED
    BY <2>1, <2>2, <2>3, <2>5, <2>6, <2>7 DEF Best
<1>10. CASE hit.score > 0 /\ ~(Len(list) < room)
  <2> DEFINE w == Worst(list)
  <2>1. Len(list) = room
    BY <1>2, <1>6, <1>7, <1>10
  <2>2. w \in DOMAIN list /\ \A n \in DOMAIN list : list[w].score <= list[n].score
    BY <1>6, <2>1, WorstIsLowest
  <2> HIDE DEF w
  <2>3. Positive(one) = Positive(s) \cup {Len(s) + 1} /\ \A i \in Positive(s) : one[i] = s[i]
    BY <1>1, <1>2, <1>5, <1>10
  <2>4. room = IF Cardinality(Positive(one)) < room THEN Cardinality(Positive(one)) ELSE room
    BY <1>2, <1>7, <1>10, <2>1
  <2>5. CASE ~(hit.score > list[w].score)
    <3>1. Keep(list, hit, room) = list
      BY <1>5, <1>10, <2>5 DEF Keep, w
    <3>2. \A n \in DOMAIN list : \E i \in Positive(one) : list[n] = one[i]
      BY <1>6, <2>3
    <3>3. \A n \in DOMAIN list : hit.score <= list[n].score
      BY <1>5, <1>6, <2>2, <2>5
    <3>4. \A i \in Positive(one) : \/ \E n \in DOMAIN list : list[n] = one[i]
                                   \/ \A n \in DOMAIN list : one[i].score <= list[n].score
      BY <1>1, <1>7, <2>3, <3>3
    <3> QED
      BY <1>6, <2>1, <2>4, <3>1, <3>2, <3>4 DEF Best
  <2>6. CASE hit.score > list[w].score
    <3> DEFINE new == [list EXCEPT ![w] = hit]
    <3>1. Keep(list, hit, room) = new
      BY <1>5, <1>10, <2>6 DEF Keep, w
    <3>2. /\ new \in Seq(Hit) /\ Len(new) = room /\ DOMAIN new = DOMAIN list
          /\ \A n \in DOMAIN list : new[n] = IF n = w THEN hit ELSE list[n]
      BY <1>6, <2>1, <2>2
    <3> HIDE DEF new
    <3>3. Apart(new)
      BY <1>6, <3>2 DEF Apart
    <3>4. \A n \in DOMAIN new : \E i \in Positive(one) : new[n] = one[i]
      BY <1>1, <1>6, <2>3, <3>2
    <3>5. \A n \in DOMAIN new : list[w].score <= new[n].score
      BY <1>5, <1>6, <2>2, <2>6, <3>2
    <3>6. ASSUME NEW i \in Positive(s)
          PROVE  \/ \E n \in DOMAIN new : new[n] = one[i]
                 \/ \A n \in DOMAIN new : one[i].score <= new[n].score
      <4>1. one[i] = s[i] /\ s[i].score \in Nat
        BY <1>5, <2>3
      <4>2. CASE \E n \in DOMAIN list : n # w /\ list[n] = s[i]
        BY <3>2, <4>1, <4>2
      <4>3. CASE s[i].score <= list[w].score
        <5>1. \A n \in DOMAIN new : new[n].score \in Nat
          BY <1>5, <1>6, <3>2
        <5> QED
          BY <1>6, <2>2, <3>5, <4>1, <4>3, <5>1
      <4>4. list[w] = s[i] => s[i].score <= list[w].score
        BY <4>1
      <4> QED
        BY <1>7, <2>2, <4>2, <4>3, <4>4
    <3>7. \E n \in DOMAIN new : new[n] = one[Len(s) + 1]
      BY <1>1, <2>2, <3>2
    <3> QED
      BY <2>3, <2>4, <3>1, <3>2, <3>3, <3>4, <3>6, <3>7 DEF Best
  <2> QED
    BY <2>5, <2>6
<1> QED
  BY <1>5, <1>6, <1>8, <1>9, <1>10

\* The list after the scan
LEMMA ScanKeepsBest ==
  ASSUME NEW room \in Nat \ {0}, NEW s \in Seq(Hit), Apart(s)
  PROVE  Best(room, s, FoldLeft(LAMBDA list, hit : Keep(list, hit, room), <<>>, s))
<1>1. KeepsBest(room, <<>>, NoHits(room))
  <2>1. Positive(<<>>) = {} /\ Cardinality({}) = 0
    BY FS_EmptySet DEF Positive
  <2> QED
    BY <2>1 DEF KeepsBest, Best, NoHits, Apart
<1>2. \A t \in Seq(Hit), hit \in Hit : \A list :
        KeepsBest(room, t, list) => KeepsBest(room, Append(t, hit), KeepHit(room, list, hit))
  BY KeepStep
<1>3. KeepsBest(room, s, Scanning!Fold(room, s))
  <2>1. \A t \in Seq(Hit) : KeepsBest(room, t, Scanning!Fold(room, t))
    BY <1>1, <1>2, Scanning!FoldInduction
  <2> QED
    BY <2>1
<1>4. Scanning!Fold(room, s) = FoldLeft(LAMBDA list, hit : Keep(list, hit, room), <<>>, s)
  BY DEF Scanning!Fold, Scanning!FoldLeft, FoldLeft, Scanning!MapThenFoldSet, MapThenFoldSet, Scanning!Max, Max, KeepHit, NoHits
<1> QED
  BY <1>3, <1>4 DEF KeepsBest

-----------------------------------------------------------------------------
(* qsort.                                                                  *)

\* What sorting a list means
Orders(p, list) ==
  \A m, n \in DOMAIN list : m < n => ~Before(list[p[n]], list[p[m]])

\* Entries with different identifiers are in one order only.
LEMMA BeforeOrders ==
  ASSUME NEW a \in Hit, NEW b \in Hit, NEW c \in Hit
  PROVE  /\ a.id # b.id => Before(a, b) \/ Before(b, a)
         /\ ~(Before(a, b) /\ Before(b, a))
         /\ Before(a, b) /\ (Before(b, c) \/ b = c) => Before(a, c)
BY DEF Hit, Before

\* The place of a hit among hits that are ordered.
LEMMA PlaceOfHit ==
  ASSUME NEW n \in Nat, NEW list \in [1 .. n -> Hit], NEW hit \in Hit,
         \A i \in 1 .. n : list[i].id # hit.id, Apart(list),
         \A i, j \in 1 .. n : i < j => ~Before(list[j], list[i])
  PROVE  \E k \in 0 .. n : /\ \A i \in 1 .. k : Before(list[i], hit)
                           /\ \A i \in k + 1 .. n : Before(hit, list[i])
<1> DEFINE S == {i \in 1 .. n : Before(list[i], hit)}
<1>1. \A i \in 1 .. n : Before(list[i], hit) \/ Before(hit, list[i])
  BY BeforeOrders
<1>2. \A i, j \in 1 .. n : i < j => Before(list[i], list[j])
  BY BeforeOrders DEF Apart
<1>3. CASE S = {}
  <2>1. 0 \in 0 .. n /\ \A i \in 0 + 1 .. n : Before(hit, list[i])
    BY <1>1, <1>3
  <2> QED
    BY <2>1
<1>4. CASE S # {}
  <2>1. PICK k \in S : \A y \in S : k >= y
    <3>1. S \in SUBSET (1 .. n)
      OBVIOUS
    <3> HIDE DEF S
    <3> QED
      BY <1>4, <3>1, Scanning!MaxExists
  <2>2. \A i \in 1 .. k : Before(list[i], hit)
    BY <1>2, <2>1, BeforeOrders
  <2>3. \A i \in k + 1 .. n : Before(hit, list[i])
    BY <1>1, <2>1
  <2> HIDE DEF S
  <2>4. k \in 0 .. n
    BY <2>1 DEF S
  <2> QED
    BY <2>2, <2>3, <2>4
<1> QED
  BY <1>3, <1>4

\* Hits with different identifiers can be put in order.
LEMMA OrderExists ==
  \A n \in Nat : \A list \in [1 .. n -> Hit] :
    Apart(list) => \E p \in Bijection(1 .. n, 1 .. n) : Orders(p, list)
<1> DEFINE Good == {n \in Nat : \A list \in [1 .. n -> Hit] :
                      Apart(list) => \E p \in Bijection(1 .. n, 1 .. n) : Orders(p, list)}
<1>1. 0 \in Good
  <2>1. \A n \in 1 .. 0 : FALSE
    OBVIOUS
  <2>2. [i \in 1 .. 0 |-> i] \in Bijection(1 .. 0, 1 .. 0)
    BY <2>1 DEF Bijection, Injection, Surjection, IsInjective
  <2> QED
    BY <2>1, <2>2 DEF Orders
<1>2. ASSUME NEW n \in Nat, n \in Good PROVE n + 1 \in Good
  <2> SUFFICES ASSUME NEW list \in [1 .. n + 1 -> Hit], Apart(list)
               PROVE  \E p \in Bijection(1 .. n + 1, 1 .. n + 1) : Orders(p, list)
    OBVIOUS
  <2> DEFINE front == [i \in 1 .. n |-> list[i]]
             hit == list[n + 1]
  <2>1. front \in [1 .. n -> Hit] /\ Apart(front) /\ \A i \in 1 .. n : front[i] = list[i]
    BY DEF Apart
  <2>2. PICK p \in Bijection(1 .. n, 1 .. n) : Orders(p, front)
    BY <1>2, <2>1
  <2>3. /\ p \in [1 .. n -> 1 .. n]
        /\ \A i, j \in 1 .. n : p[i] = p[j] => i = j
        /\ \A j \in 1 .. n : \E i \in 1 .. n : p[i] = j
    BY <2>2 DEF Bijection, Injection, Surjection, IsInjective
  <2>inside. \A i \in 1 .. n : p[i] \in 1 .. n /\ p[i] \in 1 .. n + 1 /\ p[i] # n + 1
    BY <2>3
  <2> DEFINE sorted == [i \in 1 .. n |-> list[p[i]]]
  <2>4. /\ sorted \in [1 .. n -> Hit] /\ Apart(sorted)
        /\ \A i \in 1 .. n : sorted[i] = list[p[i]] /\ sorted[i].id # hit.id
    <3>1. \A i \in 1 .. n : p[i] \in 1 .. n /\ p[i] \in 1 .. n + 1 /\ p[i] # n + 1
      BY <2>inside
    <3>2. sorted \in [1 .. n -> Hit] /\ \A i \in 1 .. n : sorted[i] = list[p[i]]
      BY <3>1
    <3>3. DOMAIN list = 1 .. n + 1 /\ n + 1 \in 1 .. n + 1 /\ DOMAIN sorted = 1 .. n
      OBVIOUS
    <3> HIDE DEF sorted
    <3>4. ASSUME NEW i \in 1 .. n, NEW j \in 1 .. n, sorted[i].id = sorted[j].id PROVE i = j
      <4>1. list[p[i]].id = list[p[j]].id /\ p[i] \in DOMAIN list /\ p[j] \in DOMAIN list
        BY <3>1, <3>2, <3>3, <3>4
      <4>2. p[i] = p[j]
        BY <4>1 DEF Apart
      <4> QED
        BY <2>3, <4>2
    <3>5. ASSUME NEW i \in 1 .. n PROVE sorted[i].id # hit.id
      <4>1. p[i] \in DOMAIN list /\ p[i] # n + 1 /\ n + 1 \in DOMAIN list
        BY <3>1, <3>3
      <4>2. list[p[i]].id # list[n + 1].id
        BY <4>1 DEF Apart
      <4> QED
        BY <3>2, <4>2
    <3> QED
      BY <3>2, <3>3, <3>4, <3>5 DEF Apart
  <2>5. \A i, j \in 1 .. n : i < j => ~Before(sorted[j], sorted[i])
    BY <2>1, <2>2, <2>3, <2>4 DEF Orders
  <2>6. hit \in Hit
    OBVIOUS
  <2> HIDE DEF sorted, front, hit
  <2>7. PICK k \in 0 .. n : /\ \A i \in 1 .. k : Before(sorted[i], hit)
                            /\ \A i \in k + 1 .. n : Before(hit, sorted[i])
    <3>1. \A i \in 1 .. n : sorted[i].id # hit.id
      BY <2>4
    <3> QED
      BY <2>4, <2>5, <2>6, <3>1, PlaceOfHit
  <2> DEFINE q == [i \in 1 .. n + 1 |-> IF i <= k THEN p[i]
                                        ELSE IF i = k + 1 THEN n + 1 ELSE p[i - 1]]
  <2>8. /\ q \in [1 .. n + 1 -> 1 .. n + 1]
        /\ \A i \in 1 .. n + 1 : q[i] = IF i <= k THEN p[i]
                                        ELSE IF i = k + 1 THEN n + 1 ELSE p[i - 1]
    <3>1. ASSUME NEW i \in 1 .. n + 1
          PROVE  (IF i <= k THEN p[i] ELSE IF i = k + 1 THEN n + 1 ELSE p[i - 1]) \in 1 .. n + 1
      <4>1. CASE i <= k
        <5>1. i \in 1 .. n
          BY <2>7, <4>1
        <5> QED
          BY <2>inside, <4>1, <5>1
      <4>2. CASE i = k + 1
        BY <2>7, <4>2
      <4>3. CASE i > k + 1
        <5>1. i - 1 \in 1 .. n /\ ~(i <= k) /\ i # k + 1
          BY <2>7, <4>3
        <5> QED
          BY <2>inside, <5>1
      <4> QED
        BY <2>7, <4>1, <4>2, <4>3
    <3> QED
      BY <3>1
  <2> HIDE DEF q
  <2>parts. \A i \in 1 .. n + 1 : \/ i <= k /\ i \in 1 .. n /\ q[i] = p[i] /\ p[i] \in 1 .. n
                                  \/ i = k + 1 /\ q[i] = n + 1
                                  \/ /\ i > k + 1 /\ i - 1 \in k + 1 .. n /\ i - 1 \in 1 .. n
                                     /\ q[i] = p[i - 1] /\ p[i - 1] \in 1 .. n
    <3> TAKE i \in 1 .. n + 1
    <3>1. \/ i <= k /\ i \in 1 .. n
          \/ i = k + 1 /\ ~(i <= k)
          \/ i > k + 1 /\ i - 1 \in k + 1 .. n /\ i - 1 \in 1 .. n /\ ~(i <= k) /\ i # k + 1
      BY <2>7
    <3>2. CASE i <= k /\ i \in 1 .. n
      <4>1. q[i] = p[i] /\ p[i] \in 1 .. n
        BY <2>8, <2>inside, <3>2
      <4> QED
        BY <3>2, <4>1
    <3>3. CASE i = k + 1 /\ ~(i <= k)
      BY <2>8, <3>3
    <3>4. CASE i > k + 1 /\ i - 1 \in k + 1 .. n /\ i - 1 \in 1 .. n /\ ~(i <= k) /\ i # k + 1
      <4>1. q[i] = p[i - 1] /\ p[i - 1] \in 1 .. n
        BY <2>8, <2>inside, <3>4
      <4> QED
        BY <3>4, <4>1
    <3> QED
      BY <3>1, <3>2, <3>3, <3>4, Zenon
  <2>9. \A i, j \in 1 .. n + 1 : q[i] = q[j] => i = j
    <3> SUFFICES ASSUME NEW i \in 1 .. n + 1, NEW j \in 1 .. n + 1, q[i] = q[j] PROVE i = j
      OBVIOUS
    <3>1. CASE i = k + 1 \/ j = k + 1
      BY <2>7, <2>parts, <3>1
    <3>2. CASE i <= k /\ j <= k
      BY <2>3, <2>7, <2>parts, <3>2
    <3>3. CASE i <= k /\ j > k + 1
      <4>1. p[i] = p[j - 1] /\ i \in 1 .. n /\ j - 1 \in 1 .. n /\ i # j - 1
        BY <2>7, <2>parts, <3>3
      <4> QED
        BY <2>3, <4>1
    <3>4. CASE i > k + 1 /\ j <= k
      <4>1. p[i - 1] = p[j] /\ i - 1 \in 1 .. n /\ j \in 1 .. n /\ i - 1 # j
        BY <2>7, <2>parts, <3>4
      <4> QED
        BY <2>3, <4>1
    <3>5. CASE i > k + 1 /\ j > k + 1
      <4>1. p[i - 1] = p[j - 1] /\ i - 1 \in 1 .. n /\ j - 1 \in 1 .. n
        BY <2>7, <2>parts, <3>5
      <4>2. i - 1 = j - 1
        BY <2>3, <4>1
      <4> QED
        BY <4>2
    <3> QED
      BY <2>7, <3>1, <3>2, <3>3, <3>4, <3>5
  <2>10. \A j \in 1 .. n + 1 : \E i \in 1 .. n + 1 : q[i] = j
    <3>1. q[k + 1] = n + 1 /\ k + 1 \in 1 .. n + 1
      BY <2>7, <2>8
    <3>2. ASSUME NEW j \in 1 .. n PROVE \E i \in 1 .. n + 1 : q[i] = j
      <4>1. PICK i \in 1 .. n : p[i] = j
        BY <2>3
      <4>2. CASE i <= k
        BY <2>8, <4>1, <4>2
      <4>3. CASE ~(i <= k)
        <5>1. i + 1 \in 1 .. n + 1 /\ ~(i + 1 <= k) /\ i + 1 # k + 1 /\ (i + 1) - 1 = i
          BY <2>7, <4>3
        <5>2. q[i + 1] = p[(i + 1) - 1]
          BY <2>8, <5>1, Zenon
        <5>3. q[i + 1] = p[i]
          BY <5>1, <5>2, Zenon
        <5> QED
          BY <4>1, <5>1, <5>3, Zenon
      <4> QED
        BY <4>2, <4>3
    <3> QED
      BY <3>1, <3>2
  <2>11. q \in Bijection(1 .. n + 1, 1 .. n + 1)
    BY <2>8, <2>9, <2>10 DEF Bijection, Injection, Surjection, IsInjective
  <2>12. \A i \in 1 .. n + 1 :
           list[q[i]] = IF i <= k THEN sorted[i] ELSE IF i = k + 1 THEN hit ELSE sorted[i - 1]
    <3> SUFFICES ASSUME NEW i \in 1 .. n + 1
                 PROVE  list[q[i]] = IF i <= k THEN sorted[i]
                                     ELSE IF i = k + 1 THEN hit ELSE sorted[i - 1]
      OBVIOUS
    <3>1. CASE i <= k
      BY <2>4, <2>7, <2>parts, <3>1
    <3>2. CASE i = k + 1
      <4>1. q[i] = n + 1 /\ ~(i <= k)
        BY <2>7, <2>parts, <3>2
      <4> QED
        BY <3>2, <4>1 DEF hit
    <3>3. CASE i > k + 1
      <4>1. q[i] = p[i - 1] /\ i - 1 \in 1 .. n /\ ~(i <= k) /\ i # k + 1
        BY <2>7, <2>parts, <3>3
      <4> QED
        BY <2>4, <4>1
    <3> QED
      BY <2>7, <3>1, <3>2, <3>3
  <2>13. ASSUME NEW i \in 1 .. n + 1, NEW j \in 1 .. n + 1, i < j
         PROVE  ~Before(list[q[j]], list[q[i]])
    <3>1. CASE j <= k
      BY <2>5, <2>7, <2>12, <2>13, <3>1
    <3>2. CASE j = k + 1
      <4>1. i \in 1 .. k /\ i \in 1 .. n /\ list[q[i]] = sorted[i] /\ list[q[j]] = hit
        BY <2>7, <2>12, <2>13, <3>2
      <4> QED
        BY <2>4, <2>6, <2>7, <4>1, BeforeOrders
    <3>3. CASE j > k + 1 /\ i = k + 1
      <4>1. j - 1 \in k + 1 .. n /\ j - 1 \in 1 .. n /\ list[q[i]] = hit /\ list[q[j]] = sorted[j - 1]
        BY <2>7, <2>12, <3>3
      <4> QED
        BY <2>4, <2>6, <2>7, <4>1, BeforeOrders
    <3>4. CASE j > k + 1 /\ i > k + 1
      BY <2>5, <2>7, <2>12, <2>13, <3>4
    <3>5. CASE j > k + 1 /\ i <= k
      BY <2>5, <2>7, <2>12, <2>13, <3>5
    <3> QED
      BY <2>7, <2>13, <3>1, <3>2, <3>3, <3>4, <3>5
  <2> QED
    BY <2>11, <2>13 DEF Orders
<1> HIDE DEF Good
<1>3. \A n \in Nat : n \in Good
  BY <1>1, <1>2, Scanning!EveryNumber
<1> QED
  BY <1>3 DEF Good

\* Sorting rearranges, and leaves no hit behind one that comes after it.
LEMMA SortedOrders ==
  ASSUME NEW list \in Seq(Hit), Apart(list)
  PROVE  /\ Sorted(list) \in Seq(Hit) /\ Len(Sorted(list)) = Len(list)
         /\ \A n \in DOMAIN list : \E m \in DOMAIN list : Sorted(list)[n] = list[m]
         /\ \A m \in DOMAIN list : \E n \in DOMAIN list : Sorted(list)[n] = list[m]
         /\ \A m, n \in DOMAIN list : m < n => Before(Sorted(list)[m], Sorted(list)[n])
<1> DEFINE D == DOMAIN list
           p == CHOOSE p \in Bijection(D, D) :
                  \A m, n \in D : m < n => ~Before(list[p[n]], list[p[m]])
<1>1. Len(list) \in Nat /\ D = 1 .. Len(list) /\ list \in [1 .. Len(list) -> Hit]
  OBVIOUS
<1>2. \E q \in Bijection(D, D) : \A m, n \in D : m < n => ~Before(list[q[n]], list[q[m]])
  BY <1>1, OrderExists DEF Orders
<1>3. p \in Bijection(D, D) /\ \A m, n \in D : m < n => ~Before(list[p[n]], list[p[m]])
  BY <1>2
<1>4. Sorted(list) = [n \in D |-> list[p[n]]]
  BY DEF Sorted
<1> HIDE DEF p
<1>5. /\ p \in [D -> D] /\ \A i, j \in D : p[i] = p[j] => i = j
      /\ \A j \in D : \E i \in D : p[i] = j
  BY <1>3 DEF Bijection, Injection, Surjection, IsInjective
<1>6. Sorted(list) \in Seq(Hit) /\ Len(Sorted(list)) = Len(list) /\ DOMAIN Sorted(list) = D
  BY <1>1, <1>4, <1>5
<1>7. \A n \in D : Sorted(list)[n] = list[p[n]] /\ p[n] \in D /\ list[p[n]] \in Hit
  BY <1>1, <1>4, <1>5
<1>8. ASSUME NEW m \in D, NEW n \in D, m < n PROVE Before(Sorted(list)[m], Sorted(list)[n])
  <2>1. m # n /\ ~Before(list[p[n]], list[p[m]])
    <3>1. m # n
      BY <1>1, <1>8
    <3> QED
      BY <1>3, <1>8, <3>1, Zenon
  <2>2. p[m] # p[n] /\ p[m] \in D /\ p[n] \in D
    BY <1>5, <2>1
  <2>3. list[p[m]].id # list[p[n]].id
    BY <2>2, Zenon DEF Apart
  <2> QED
    BY <1>7, <2>1, <2>3, BeforeOrders
<1> QED
  BY <1>5, <1>6, <1>7, <1>8

-----------------------------------------------------------------------------
(* What a search returns.                                                  *)

\* Registered identifiers are different.
LEMMA IdsApart ==
  ASSUME TypeInv
  PROVE  \A i, j \in 1 .. Len(docs) : docs[i].id = docs[j].id => i = j
<1> DEFINE names == [i \in 1 .. Len(docs) |-> docs[i].id]
<1>1. Len(docs) \in Nat /\ Cardinality(Registered) = Len(docs)
  BY DEF TypeInv, ExactInv, Stored, TypeOK
<1>2. IsFiniteSet(1 .. Len(docs)) /\ Cardinality(1 .. Len(docs)) = Len(docs)
  <2>1. /\ IsFiniteSet(1 .. Len(docs))
        /\ Cardinality(1 .. Len(docs)) = IF 1 > Len(docs) THEN 0 ELSE Len(docs) - 1 + 1
    <3>1. Len(docs) \in Int /\ 1 \in Int
      BY <1>1
    <3> QED
      BY <3>1, FS_Interval, Zenon
  <2> QED
    BY <1>1, <2>1
<1>3. names \in Surjection(1 .. Len(docs), Registered)
  BY DEF Surjection, Registered
<1>4. names \in Injection(1 .. Len(docs), Registered)
  <2> HIDE DEF names
  <2> QED
    BY <1>1, <1>2, <1>3, FS_SurjSameCardinalityImpliesInj
<1> QED
  BY <1>4 DEF Injection, IsInjective

\* The documents of which a term of the query was read
Found(terms) == {i \in 1 .. Len(docs) : terms \cap TermsUpTo(docs[i].tokens, docs[i].upto) # {}}

\* The documents with a posting of a term are those of which it was read.
LEMMA MatchingIsFound ==
  ASSUME TypeInv, NEW terms \in SUBSET Term PROVE Matching(terms) = Found(terms)
<1>1. \A t \in Term : Posted(t)
  BY ExactMeansPosted DEF TypeInv, ExactInv
<1>2. ASSUME NEW t \in Term, NEW i \in 1 .. Len(docs)
      PROVE  t \in vocabulary /\ (\E n \in 1 .. Len(postings[t]) : postings[t][n].id = docs[i].id)
               <=> t \in TermsUpTo(docs[i].tokens, docs[i].upto)
  <2>1. /\ ToSet(postings[t]) = {Posting(j, t) : j \in Reading(t)}
        /\ Reading(t) # {} => t \in vocabulary
        /\ DOMAIN postings[t] = 1 .. Len(postings[t])
    BY <1>1 DEF Posted, TypeInv, ExactInv, Stored
  <2>2. ASSUME NEW n \in 1 .. Len(postings[t]), postings[t][n].id = docs[i].id
        PROVE  i \in Reading(t)
    <3>1. PICK j \in Reading(t) : postings[t][n] = Posting(j, t)
      BY <2>1 DEF ToSet
    <3>2. docs[j].id = docs[i].id /\ j \in 1 .. Len(docs)
      BY <2>2, <3>1 DEF Posting, Reading
    <3> QED
      BY <3>1, <3>2, IdsApart
  <2>3. ASSUME i \in Reading(t)
        PROVE  \E n \in 1 .. Len(postings[t]) : postings[t][n].id = docs[i].id
    <3>1. Posting(i, t) \in ToSet(postings[t])
      BY <2>1, <2>3
    <3> QED
      BY <2>1, <3>1 DEF ToSet, Posting
  <2>4. i \in Reading(t) <=> t \in TermsUpTo(docs[i].tokens, docs[i].upto)
    BY DEF Reading
  <2>5. i \in Reading(t) => t \in vocabulary
    BY <2>1
  <2> QED
    BY <2>2, <2>3, <2>4, <2>5
<1> QED
  BY <1>2 DEF Matching, Found

\* While a document is inserted there is no result; a result is the best.
ResultInv == TypeInv /\ (pc # "idle" => limit = 0) /\ BestHits

\* A search returns the best of the documents it found.
LEMMA SearchReturnsBest == ASSUME TypeInv, Search PROVE BestHits'
<1>1. PICK terms \in SUBSET Term, room \in Limits, score \in [1 .. Len(docs) -> 0 .. MaxScore] :
        /\ \A i \in 1 .. Len(docs) : score[i] > 0 <=> i \in Matching(terms)
        /\ asked' = terms /\ limit' = room /\ scores' = score /\ hits' = Scan(score, room)
  BY DEF Search
<1>2. docs' = docs /\ room \in Nat \ {0} /\ MaxScore \in Nat
  BY IndexAssumption DEF Search, arrays
<1> DEFINE s == [i \in 1 .. Len(docs) |-> [id |-> docs[i].id, score |-> score[i]]]
           kept == FoldLeft(LAMBDA list, hit : Keep(list, hit, room), <<>>, s)
<1>3. /\ Len(docs) \in Nat /\ s \in Seq(Hit) /\ Len(s) = Len(docs)
      /\ DOMAIN s = 1 .. Len(docs)
      /\ \A i \in 1 .. Len(docs) : s[i] = [id |-> docs[i].id, score |-> score[i]]
  <2>1. Len(docs) \in Nat /\ \A i \in 1 .. Len(docs) : docs[i].id \in Nat
    <3> DEFINE Doc == [id : Nat, tokens : Seq(Term), upto : Nat]
    <3>1. docs \in Seq(Doc)
      BY DEF TypeInv, ExactInv, Stored
    <3>2. \A doc \in Doc : doc.id \in Nat
      OBVIOUS
    <3> HIDE DEF Doc
    <3> QED
      BY <3>1, <3>2
  <2>2. \A i \in 1 .. Len(docs) : score[i] \in Nat
    BY <1>1, <1>2
  <2>3. \A i \in 1 .. Len(docs) : [id |-> docs[i].id, score |-> score[i]] \in Hit
    BY <2>1, <2>2 DEF Hit
  <2> QED
    BY <2>1, <2>3
<1>4. hits' = Sorted(kept)
  BY <1>1 DEF Scan
<1> HIDE DEF s
<1>5. Apart(s)
  BY <1>3, IdsApart DEF Apart
<1>6. Best(room, s, kept)
  BY <1>2, <1>3, <1>5, ScanKeepsBest
<1>7. Positive(s) = Found(terms)
  BY <1>1, <1>3, MatchingIsFound DEF Positive, Matching
<1> HIDE DEF kept
<1> SUFFICES ASSUME NEW list, list = hits' PROVE BestHits'
  OBVIOUS
<1>8. kept \in Seq(Hit) /\ Apart(kept) /\ Len(kept) \in Nat /\ DOMAIN kept = 1 .. Len(kept)
  BY <1>6 DEF Best
<1>9. /\ list \in Seq(Hit) /\ Len(list) = Len(kept)
      /\ \A n \in 1 .. Len(kept) : \E m \in 1 .. Len(kept) : list[n] = kept[m]
      /\ \A m \in 1 .. Len(kept) : \E n \in 1 .. Len(kept) : list[n] = kept[m]
      /\ \A m, n \in 1 .. Len(kept) : m < n => Before(list[m], list[n])
  <2>1. /\ Sorted(kept) \in Seq(Hit) /\ Len(Sorted(kept)) = Len(kept)
        /\ \A n \in DOMAIN kept : \E m \in DOMAIN kept : Sorted(kept)[n] = kept[m]
        /\ \A m \in DOMAIN kept : \E n \in DOMAIN kept : Sorted(kept)[n] = kept[m]
        /\ \A m, n \in DOMAIN kept : m < n => Before(Sorted(kept)[m], Sorted(kept)[n])
    BY <1>8, SortedOrders
  <2>2. list = Sorted(kept)
    BY <1>4
  <2> QED
    BY <1>8, <2>1, <2>2, Zenon
<1>10. Len(list) = IF Cardinality(Found(terms)) < room THEN Cardinality(Found(terms)) ELSE room
  BY <1>6, <1>7, <1>9 DEF Best
<1>11. \A n \in 1 .. Len(list) : \E i \in Found(terms) :
         list[n] = [id |-> docs[i].id, score |-> score[i]]
  <2> SUFFICES ASSUME NEW n \in 1 .. Len(list)
               PROVE  \E i \in Found(terms) : list[n] = [id |-> docs[i].id, score |-> score[i]]
    OBVIOUS
  <2>1. PICK m \in 1 .. Len(kept) : list[n] = kept[m]
    BY <1>9
  <2>2. PICK i \in Positive(s) : kept[m] = s[i]
    BY <1>6, <1>8 DEF Best
  <2>3. i \in 1 .. Len(docs) /\ i \in Found(terms)
    BY <1>7 DEF Found
  <2> QED
    BY <1>3, <2>1, <2>2, <2>3
<1>12. ASSUME NEW i \in Found(terms), \A n \in 1 .. Len(list) : list[n].id # docs[i].id,
              NEW n \in 1 .. Len(list)
       PROVE  score[i] <= list[n].score
  <2>1. i \in Positive(s) /\ s[i].id = docs[i].id /\ s[i].score = score[i]
    BY <1>3, <1>7 DEF Found
  <2>2. ~ \E m \in 1 .. Len(kept) : kept[m] = s[i]
    <3> SUFFICES ASSUME NEW m \in 1 .. Len(kept), kept[m] = s[i] PROVE FALSE
      OBVIOUS
    <3>1. PICK k \in 1 .. Len(kept) : list[k] = kept[m]
      BY <1>9
    <3>2. k \in 1 .. Len(list) /\ list[k].id = docs[i].id
      BY <1>9, <2>1, <3>1
    <3> QED
      BY <1>12, <3>2
  <2>3. \A m \in 1 .. Len(kept) : s[i].score <= kept[m].score
    BY <1>6, <1>8, <2>1, <2>2 DEF Best
  <2> QED
    BY <1>9, <2>1, <2>3
<1>13. \A n \in 1 .. Len(list) : n > 1 => Before(list[n - 1], list[n])
  <2> SUFFICES ASSUME NEW n \in 1 .. Len(list), n > 1 PROVE Before(list[n - 1], list[n])
    OBVIOUS
  <2>1. n - 1 \in 1 .. Len(kept) /\ n \in 1 .. Len(kept) /\ n - 1 < n
    BY <1>8, <1>9
  <2> QED
    BY <1>9, <2>1
<1>14. Found(terms) = {i \in 1 .. Len(docs') :
                         asked' \cap TermsUpTo(docs'[i].tokens, docs'[i].upto) # {}}
  BY <1>1, <1>2 DEF Found
<1>15. list = hits' /\ asked' = terms /\ limit' = room /\ scores' = score /\ docs' = docs
  BY <1>1, <1>2
<1> QED
  <2> DEFINE all == {i \in 1 .. Len(docs') :
                       asked' \cap TermsUpTo(docs'[i].tokens, docs'[i].upto) # {}}
  <2>1. all = Found(terms)
    BY <1>14
  <2> HIDE DEF all
  <2>2. /\ Len(hits') = (IF Cardinality(all) < limit' THEN Cardinality(all) ELSE limit')
        /\ \A n \in 1 .. Len(hits') :
             /\ \E i \in all : hits'[n] = [id |-> docs'[i].id, score |-> scores'[i]]
             /\ \A i \in all : (\A k \in 1 .. Len(hits') : hits'[k].id # docs'[i].id)
                               => scores'[i] <= hits'[n].score
             /\ n > 1 => Before(hits'[n - 1], hits'[n])
    BY <1>10, <1>11, <1>12, <1>13, <1>15, <2>1
  <2> QED
    BY <2>2 DEF BestHits, Before, all

\* No other step changes a result without dropping it.
LEMMA ResultStep == ASSUME ResultInv, [Next]_vars PROVE ResultInv'
<1>1. TypeInv'
  BY TypeStep DEF ResultInv
<1>2. CASE Search
  <2>1. pc' = "idle"
    BY <1>2 DEF Search
  <2> QED
    BY <1>1, <1>2, <2>1, SearchReturnsBest DEF ResultInv
<1>3. CASE NoQuery
  <2>1. limit' = 0
    BY <1>3 DEF NoQuery
  <2> QED
    BY <1>1, <2>1 DEF ResultInv, BestHits
<1>4. CASE UNCHANGED query /\ pc # "idle"
  <2>1. limit' = 0
    BY <1>4 DEF ResultInv, query
  <2> QED
    BY <1>1, <2>1 DEF ResultInv, BestHits
<1>5. CASE UNCHANGED vars
  <2>1. UNCHANGED <<docs, pc, asked, scores, limit, hits>>
    BY <1>5 DEF vars, arrays, query
  <2>2. BestHits' = BestHits
    BY <2>1 DEF BestHits, Before, TermsUpTo
  <2> QED
    BY <1>1, <2>1, <2>2 DEF ResultInv
<1>6. Search \/ NoQuery \/ (UNCHANGED query /\ pc # "idle") \/ UNCHANGED vars
  <2>1. AddDocument \/ AddRefused \/ SearchNothing \/ Free => NoQuery
    BY DEF AddDocument, AddRefused, SearchNothing, Free
  <2>2. GrowTerms \/ GrowDocuments \/ Register \/ GrowthFails => UNCHANGED query /\ pc = "grow"
    BY DEF GrowTerms, GrowDocuments, Register, GrowthFails, Return
  <2>3. SkipToken \/ PostToken \/ AddDone => UNCHANGED query /\ pc = "index"
    BY DEF SkipToken, PostToken, AddDone, Indexed, Return
  <2>4. GrowPostings \/ PostingsFail => UNCHANGED query /\ pc = "index"
    BY DEF GrowPostings, PostingsFail, ListFull, Return
  <2> QED
    BY <2>1, <2>2, <2>3, <2>4, Zenon DEF Next, Insert
<1> QED
  BY <1>2, <1>3, <1>4, <1>5, <1>6

\* A search of the index returns the best of the documents that have a term of
\* the query, as many as fit, in order, whatever was inserted before and
\* whichever growth failed (niyah_index_search).
THEOREM SearchReturnsBestHits == Spec => []BestHits
<1>1. Init => ResultInv
  <2> SUFFICES ASSUME Init PROVE ResultInv
    OBVIOUS
  <2>1. limit = 0 /\ pc = "idle" /\ TypeInv
    BY TypeInit DEF Init
  <2> QED
    BY <2>1 DEF ResultInv, BestHits
<1>2. ResultInv /\ [Next]_vars => ResultInv'
  BY ResultStep
<1>3. ResultInv => BestHits
  BY DEF ResultInv
<1> QED
  BY <1>1, <1>2, <1>3, PTL DEF Spec

=============================================================================
