---------------------------- MODULE BridgeStore ----------------------------
(***************************************************************************)
(* The document store of the bridge (native/niyah_bridge.c): one global    *)
(* array of owned documents with generated identifiers, and a search that  *)
(* scores each document by its term frequency.  A document is known by its *)
(* content; its length and how often a query occurs in it, upper and lower *)
(* case alike, are functions of that content.  An allocation may fail at   *)
(* every place the code tests.                                             *)
(***************************************************************************)
EXTENDS Integers, Sequences, SequencesExt, FiniteSets

CONSTANTS
  Content,      \* texts callers add
  Query,        \* what callers search for
  Length,       \* [Content -> length in thousandths]
  Occurrences,  \* [Query -> [Content -> Nat]]
  FirstRoom,    \* capacity of the first growth, 16
  MaxStored     \* bound: documents added between two clears

BridgeAssumption ==
  /\ Length \in [Content -> Nat] /\ Occurrences \in [Query -> [Content -> Nat]]
  /\ FirstRoom \in Nat \ {0} /\ MaxStored \in Nat

VARIABLES
  docs,      \* g_store.docs[0 .. count - 1]: id, content
  capacity,  \* g_store.capacity
  next_id,   \* g_store.next_id
  handles,   \* history: identifiers handed out since the last clear -> content
  hits       \* the hits it returned, best first

vars == <<docs, capacity, next_id, handles, hits>>

Init ==
  /\ docs = <<>> /\ capacity = 0 /\ next_id = 1
  /\ handles = <<>> /\ hits = <<>>

\* Twice the capacity when the array is full
Grown == IF Len(docs) < capacity THEN capacity
         ELSE IF capacity = 0 THEN FirstRoom ELSE 2 * capacity

\* Out of memory: the array may have grown already, the store is as before
AddFails ==
  /\ capacity' \in {capacity, Grown}
  /\ UNCHANGED <<docs, next_id, handles, hits>>

AddDocument(c) ==
  /\ Len(docs) < MaxStored
  /\ capacity' = Grown
  /\ docs' = Append(docs, [id |-> next_id, content |-> c])
  /\ next_id' = next_id + 1
  /\ handles' = [id \in DOMAIN handles \cup {next_id} |->
                   IF id = next_id THEN c ELSE handles[id]]
  /\ UNCHANGED hits

\* Mutant: the identifiers start again but the documents stay
ClearIdentifiers ==
  /\ capacity' = capacity /\ next_id' = 1 /\ handles' = handles
  /\ UNCHANGED <<docs, hits>>

\* Everything is freed and the identifiers start again at 1: what a caller
\* kept of before names other documents from here on
Clear ==
  /\ docs' = <<>> /\ capacity' = 0 /\ next_id' = 1 /\ handles' = <<>>
  /\ UNCHANGED hits

-----------------------------------------------------------------------------
(* Search                                                                  *)

\* tf / (1 + length / 1000) of one text is less than that of another
ScoreLess(q, c, d) ==
  Occurrences[q][c] * (1000 + Length[d]) < Occurrences[q][d] * (1000 + Length[c])

\* One step of the insertion sort: behind everything that does not score less
Insert(q, sorted, doc) ==
  LET ahead == {j \in DOMAIN sorted : ~ScoreLess(q, sorted[j].content, doc.content)}
  IN  InsertAt(sorted, 1 + Cardinality(ahead), doc)

\* Of the documents that hold the query those that can be copied are sorted;
\* an empty store answers with no hits
Search(q) ==
  \E copied \in SUBSET DOMAIN docs :
    LET taken == {i \in copied : Occurrences[q][docs[i].content] > 0}
        list  == [n \in 1 .. Cardinality(taken) |->
                    docs[CHOOSE i \in taken : Cardinality({j \in taken : j < i}) = n - 1]]
    IN  /\ hits' = FoldLeft(LAMBDA s, doc : Insert(q, s, doc), <<>>, list)
        /\ UNCHANGED <<docs, capacity, next_id, handles>>

\* search_json keeps the first max_hits of the sorted list; 0 means all
TopHits(max_hits) ==
  IF max_hits > 0 /\ Len(hits) > max_hits THEN SubSeq(hits, 1, max_hits) ELSE hits

Next ==
  \/ AddFails
  \/ \E c \in Content : AddDocument(c)
  \/ Clear
  \/ \E q \in Query : Search(q)

Spec == Init /\ [][Next]_vars

-----------------------------------------------------------------------------
(* Properties                                                              *)

\* Through failed additions, growths and clears, an identifier that a caller
\* was given since the last clear names one stored document, and the text that
\* was added under it ("ids are generated and unique", line 22).
HandlesName ==
  /\ \A id \in DOMAIN handles : \E i \in DOMAIN docs :
       /\ docs[i] = [id |-> id, content |-> handles[id]]
       /\ \A j \in DOMAIN docs : docs[j].id = id => j = i
  /\ Len(docs) <= capacity /\ next_id = Len(docs) + 1

=============================================================================
