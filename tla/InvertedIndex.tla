---------------------------- MODULE InvertedIndex ----------------------------
(***************************************************************************)
(* The BM25 inverted index (search/niyah_index.c): inserting a document,   *)
(* where each growth of an array may fail, and searching, where a bounded  *)
(* list of hits is kept while the documents are scanned.  A search changes *)
(* nothing but the caller's hits, so it is one step; an insertion has one  *)
(* step per allocation and per token.                                      *)
(*                                                                         *)
(* A term is a model value and a text the sequence of its tokens.  BM25 is *)
(* floating point arithmetic; of its scores the model keeps that they are  *)
(* positive exactly for documents with a posting of a query term, and      *)
(* leaves their order open.                                                *)
(***************************************************************************)
EXTENDS Naturals, SequencesExt

CONSTANTS
  Term,
  Texts,        \* the token sequences of the documents that are inserted
  Ids,          \* document identifiers, of which 0 is refused
  Limits,       \* values of hit_capacity
  MaxScore,     \* scores are 1 .. MaxScore
  TokenLimit,   \* NIYAH_DOCUMENT_TOKEN_LIMIT
  InitialTerms, InitialDocuments, InitialPostings  \* first capacities

ASSUME IndexAssumption ==
  /\ Texts \subseteq Seq(Term)
  /\ Ids \subseteq Nat
  /\ Limits \subseteq Nat \ {0}
  /\ {MaxScore, TokenLimit} \subseteq Nat \ {0}
  /\ {InitialTerms, InitialDocuments, InitialPostings} \subseteq Nat \ {0}

VARIABLES
  docs,        \* [id, tokens, upto]; upto is history: the tokens indexed
  vocabulary,  \* the terms that have an entry
  postings,    \* Term -> sequence of [id, tf]
  df,          \* Term -> document_frequency
  capacity,    \* [terms, documents] and, per term, [postings]
  pc,          \* where the call in progress is
  adding,      \* [id, tokens] of the document being inserted
  pos,         \* the loop index of the call
  asked,       \* the terms of the last query
  scores,      \* the score it gave each document
  limit,       \* its hit_capacity
  hits,        \* its hits: sequence of [id, score]
  ok           \* what the last call of add_document returned

arrays == <<docs, vocabulary, postings, df, capacity>>
query  == <<asked, scores, limit, hits>>
vars   == <<arrays, pc, adding, pos, query, ok>>

-----------------------------------------------------------------------------

\* tokenize: the first TokenLimit tokens
Tokens(text) ==
  SubSeq(text, 1, IF Len(text) > TokenLimit THEN TokenLimit ELSE Len(text))

TermsUpTo(tokens, n) == {tokens[i] : i \in 1 .. n}

\* tokens[n] was not seen before
First(tokens, n) == tokens[n] \notin TermsUpTo(tokens, n - 1)

Occurrences(tokens, n) ==
  Cardinality({i \in n .. Len(tokens) : tokens[i] = tokens[n]})

Registered == {docs[i].id : i \in 1 .. Len(docs)}

GrownFromNothing(c, initial) == 2 * c  \* mutant: a first growth grows nothing

\* checked_capacity_growth
Grown(c, initial) == IF c = 0 THEN initial ELSE 2 * c

\* A call of add_document returns.
Return(result) ==
  /\ ok' = result
  /\ pc' = "idle"
  /\ pos' = 1
  /\ adding' = [id |-> 0, tokens |-> <<>>]
  /\ UNCHANGED query

NoQuery == asked' = {} /\ scores' = <<>> /\ limit' = 0 /\ hits' = <<>>

-----------------------------------------------------------------------------
(* niyah_index_add_document                                                *)

\* The cap on registered documents bounds the mutant only.
AddDocumentUnchecked ==  \* mutant: the search for the identifier is dropped
  /\ pc = "idle"
  /\ \E id \in Ids \ {0}, text \in Texts :
       /\ Len(docs) < Cardinality(Ids)
       /\ adding' = [id |-> id, tokens |-> Tokens(text)]
  /\ pc' = "grow"
  /\ NoQuery
  /\ UNCHANGED <<arrays, pos, ok>>

AddDocument ==
  /\ pc = "idle"
  /\ \E id \in Ids \ ({0} \cup Registered), text \in Texts :
       adding' = [id |-> id, tokens |-> Tokens(text)]
  /\ pc' = "grow"
  /\ NoQuery
  /\ UNCHANGED <<arrays, pos, ok>>

AddRefused ==
  /\ pc = "idle"
  /\ Ids \cap ({0} \cup Registered) # {}
  /\ ok' = FALSE
  /\ NoQuery
  /\ UNCHANGED <<arrays, pc, adding, pos>>

MissingTerms ==  \* mutant: the terms already there are not counted
  Cardinality(TermsUpTo(adding.tokens, Len(adding.tokens)) \ vocabulary)

\* term_count + unique_missing_terms
TermsNeeded ==
  Cardinality(vocabulary \cup TermsUpTo(adding.tokens, Len(adding.tokens)))

GrowTerms ==
  /\ pc = "grow"
  /\ capacity.terms < TermsNeeded
  /\ capacity' = [capacity EXCEPT !.terms = Grown(@, InitialTerms)]
  /\ UNCHANGED <<docs, vocabulary, postings, df, pc, adding, pos, query, ok>>

GrowDocuments ==
  /\ pc = "grow"
  /\ capacity.terms >= TermsNeeded
  /\ Len(docs) = capacity.documents
  /\ capacity' = [capacity EXCEPT !.documents = Grown(@, InitialDocuments)]
  /\ UNCHANGED <<docs, vocabulary, postings, df, pc, adding, pos, query, ok>>

\* realloc fails while nothing is registered yet.
GrowthFails ==
  /\ pc = "grow"
  /\ capacity.terms < TermsNeeded \/ Len(docs) = capacity.documents
  /\ Return(FALSE)
  /\ UNCHANGED arrays

Register ==
  /\ pc = "grow"
  /\ capacity.terms >= TermsNeeded
  /\ Len(docs) < capacity.documents
  /\ docs' = Append(docs, [id |-> adding.id, tokens |-> adding.tokens, upto |-> 0])
  /\ pc' = "index"
  /\ UNCHANGED <<vocabulary, postings, df, capacity, adding, pos, query, ok>>

\* One iteration of the loop over the tokens is done.
Indexed ==
  /\ docs' = [docs EXCEPT ![Len(docs)].upto = pos]
  /\ pos' = pos + 1
  /\ UNCHANGED <<pc, adding, query, ok>>

SkipToken ==
  /\ pc = "index"
  /\ pos <= Len(adding.tokens)
  /\ ~First(adding.tokens, pos)
  /\ Indexed
  /\ UNCHANGED <<vocabulary, postings, df, capacity>>

\* The loop meets a term whose posting list is full.  A new term gets its
\* entry first, with an empty list.
ListFull ==
  LET t == adding.tokens[pos] IN
  /\ pc = "index"
  /\ pos <= Len(adding.tokens)
  /\ First(adding.tokens, pos)
  /\ Len(postings[t]) = capacity.postings[t]
  /\ vocabulary' = vocabulary \cup {t}

GrowPostings ==
  /\ ListFull
  /\ capacity' = [capacity EXCEPT !.postings[adding.tokens[pos]] =
                    Grown(@, InitialPostings)]
  /\ UNCHANGED <<docs, postings, df, pc, adding, pos, query, ok>>

\* realloc fails: the call returns at once.
PostingsFail ==
  /\ ListFull
  /\ Return(FALSE)
  /\ UNCHANGED <<docs, postings, df, capacity>>

PostTokenOnce ==  \* mutant: the term frequency is pinned to 1
  LET t == adding.tokens[pos] IN
  /\ pc = "index"
  /\ pos <= Len(adding.tokens)
  /\ First(adding.tokens, pos)
  /\ Len(postings[t]) < capacity.postings[t]
  /\ postings' = [postings EXCEPT ![t] = Append(@, [id |-> adding.id, tf |-> 1])]
  /\ df' = [df EXCEPT ![t] = @ + 1]
  /\ Indexed
  /\ UNCHANGED <<vocabulary, capacity>>

PostToken ==
  LET t == adding.tokens[pos] IN
  /\ pc = "index"
  /\ pos <= Len(adding.tokens)
  /\ First(adding.tokens, pos)
  /\ Len(postings[t]) < capacity.postings[t]
  /\ postings' = [postings EXCEPT ![t] =
       Append(@, [id |-> adding.id, tf |-> Occurrences(adding.tokens, pos)])]
  /\ df' = [df EXCEPT ![t] = @ + 1]
  /\ Indexed
  /\ UNCHANGED <<vocabulary, capacity>>

AddDone ==
  /\ pc = "index"
  /\ pos > Len(adding.tokens)
  /\ Return(TRUE)
  /\ UNCHANGED arrays

-----------------------------------------------------------------------------
(* niyah_index_search                                                      *)

\* the documents with a posting of one of these terms
Matching(terms) ==
  {i \in 1 .. Len(docs) :
     \E t \in terms \cap vocabulary : \E n \in 1 .. Len(postings[t]) :
       postings[t][n].id = docs[i].id}

\* the first hit of minimal score
Worst(list) ==
  CHOOSE w \in 1 .. Len(list) :
    \A n \in 1 .. Len(list) :
      /\ list[w].score <= list[n].score
      /\ n < w => list[w].score < list[n].score

KeepLast(list, hit, room) ==  \* mutant: the last hit is the one replaced
  IF hit.score = 0 THEN list
  ELSE IF Len(list) < room THEN Append(list, hit)
  ELSE IF hit.score > list[Len(list)].score
       THEN [list EXCEPT ![Len(list)] = hit]
       ELSE list

\* One document of the scan: dropped, added, or put in the place of the
\* worst hit when it scores strictly more.
Keep(list, hit, room) ==
  IF hit.score = 0 THEN list
  ELSE IF Len(list) < room THEN Append(list, hit)
  ELSE IF hit.score > list[Worst(list)].score
       THEN [list EXCEPT ![Worst(list)] = hit]
       ELSE list

\* term_compare: by descending score, then by ascending identifier
Before(a, b) == a.score > b.score \/ (a.score = b.score /\ a.id < b.id)

\* qsort: no hit comes before one in front of it
Sorted(list) ==
  LET order == CHOOSE p \in Bijection(DOMAIN list, DOMAIN list) :
                 \A m, n \in DOMAIN list : m < n => ~Before(list[p[n]], list[p[m]])
  IN  [n \in DOMAIN list |-> list[order[n]]]

Scan(score, room) ==
  LET Candidate(i) == [id |-> docs[i].id, score |-> score[i]]
      Kept == FoldLeft(LAMBDA list, hit : Keep(list, hit, room), <<>>,
                       [i \in 1 .. Len(docs) |-> Candidate(i)])
  IN Sorted(Kept)

Search ==
  /\ pc = "idle"
  /\ docs # <<>>
  /\ \E terms \in SUBSET Term, room \in Limits :
     \E score \in [1 .. Len(docs) -> 0 .. MaxScore] :
       /\ \A i \in 1 .. Len(docs) : score[i] > 0 <=> i \in Matching(terms)
       /\ asked' = terms
       /\ limit' = room
       /\ scores' = score
       /\ hits' = Scan(score, room)
  /\ UNCHANGED <<arrays, pc, adding, pos, ok>>

\* No document, or no memory for the scores: no hit.
SearchNothing ==
  /\ pc = "idle"
  /\ NoQuery
  /\ UNCHANGED <<arrays, pc, adding, pos, ok>>

-----------------------------------------------------------------------------

Zeroed == \* an index after memset
  [terms |-> 0, documents |-> 0, postings |-> [t \in Term |-> 0]]

Free ==
  /\ pc = "idle"
  /\ docs' = <<>>
  /\ vocabulary' = {}
  /\ postings' = [t \in Term |-> <<>>]
  /\ df' = [t \in Term |-> 0]
  /\ capacity' = Zeroed
  /\ NoQuery
  /\ UNCHANGED <<pc, adding, pos, ok>>

Init ==
  /\ docs = <<>>
  /\ vocabulary = {}
  /\ postings = [t \in Term |-> <<>>]
  /\ df = [t \in Term |-> 0]
  /\ capacity = Zeroed
  /\ pc = "idle"
  /\ adding = [id |-> 0, tokens |-> <<>>]
  /\ pos = 1
  /\ asked = {} /\ scores = <<>> /\ limit = 0 /\ hits = <<>>
  /\ ok = TRUE

\* the steps of a call of add_document when the allocator answers
Insert ==
  \/ GrowTerms \/ GrowDocuments \/ Register
  \/ SkipToken \/ GrowPostings \/ PostToken \/ AddDone

Next ==
  \/ AddDocument \/ AddRefused \/ Insert \/ GrowthFails \/ PostingsFail
  \/ Search \/ SearchNothing \/ Free

Spec == Init /\ [][Next]_vars

\* A call that has begun runs on.  Nothing is assumed of failures: a call
\* must return without one.
LiveSpec == Spec /\ WF_vars(Insert)

-----------------------------------------------------------------------------
(* Properties                                                              *)

\* The variables have their types; no array holds more than was allocated
\* for it, and no identifier is registered twice.
TypeOK ==
  /\ \A i \in 1 .. Len(docs) :
       /\ docs[i].id \in Ids \ {0}
       /\ docs[i].tokens \in {Tokens(text) : text \in Texts}
       /\ docs[i].upto \in 0 .. Len(docs[i].tokens)
  /\ Cardinality(Registered) = Len(docs)
  /\ Len(docs) <= capacity.documents
  /\ vocabulary \subseteq Term
  /\ Cardinality(vocabulary) <= capacity.terms
  /\ \A t \in Term : Len(postings[t]) <= capacity.postings[t]
  /\ pc \in {"idle", "grow", "index"}
  /\ ok \in BOOLEAN

\* add_document reserves its terms before it registers the document, so the
\* loop over the tokens, which does not grow the term array, never runs out
\* of entries: its own test of term_count, which would give up on a document
\* already registered, never succeeds.
TermsReserved ==
  pc = "index" =>
    Cardinality(vocabulary \cup ToSet(adding.tokens)) <= capacity.terms

\* The posting lists say of every document exactly what the loop has read of
\* it: one posting for each distinct term, with the number of times the term
\* occurs in the whole text; and a document frequency counts the postings.
\* This holds at every step, after failures too.
PostingsExact ==
  \A t \in Term :
    LET Read == {i \in 1 .. Len(docs) : t \in TermsUpTo(docs[i].tokens, docs[i].upto)}
    IN /\ ToSet(postings[t]) =
             {[id |-> docs[i].id,
               tf |-> Cardinality({n \in 1 .. Len(docs[i].tokens) : docs[i].tokens[n] = t})] :
                i \in Read}
       /\ Len(postings[t]) = Cardinality(Read)
       /\ df[t] = Cardinality(Read)
       /\ Read # {} => t \in vocabulary

\* A search returns as many hits as there are documents whose indexed text
\* holds a term of the query, up to hit_capacity; they are such documents,
\* none scores less than one left out, and they are ordered by descending
\* score with the identifier as tiebreaker.
BestHits ==
  LET Found == {i \in 1 .. Len(docs) :
                  asked \cap TermsUpTo(docs[i].tokens, docs[i].upto) # {}}
      Left  == {i \in Found : \A n \in 1 .. Len(hits) : hits[n].id # docs[i].id}
  IN limit > 0 =>
       /\ Len(hits) = (IF Cardinality(Found) < limit THEN Cardinality(Found) ELSE limit)
       /\ \A n \in 1 .. Len(hits) :
            /\ \E i \in Found : hits[n] = [id |-> docs[i].id, score |-> scores[i]]
            /\ \A i \in Left : scores[i] <= hits[n].score
            /\ n > 1 => Before(hits[n - 1], hits[n])

\* Every call of add_document returns: growing ends, the first time too.
Returns == pc # "idle" ~> pc = "idle"

\* README.md:107 promises "checkpoint/rollback on insert failure": when no
\* call is in progress, every registered document is indexed to its end.
\* (The code has no rollback; see the README.)
NoHalfIndexed ==
  pc = "idle" => \A i \in 1 .. Len(docs) : docs[i].upto = Len(docs[i].tokens)

=============================================================================
