----------------------------- MODULE LocalStore -----------------------------
(***************************************************************************)
(* The local SQLite store (storage/local_store.c).  SQLite is external: a  *)
(* statement either takes effect whole or not at all, a row is refused     *)
(* when a NOT NULL column is NULL, a key is there already or a foreign key *)
(* names no row, and any call may meet a busy database or an I/O error.    *)
(* What the code decides is which argument is bound to which column: the   *)
(* texts to the first parameters in order, then integers to parameters     *)
(* named by number, over what the texts left there.  So an argument is     *)
(* known by its name, save the identifiers of rows.                        *)
(***************************************************************************)
EXTENDS Integers, Sequences, Functions

CONSTANTS
  Key,      \* identifiers of rows
  NULL

VARIABLES
  schema,  \* the tables exist
  rows,    \* table -> set of rows
  status   \* what the last call returned

vars == <<schema, rows, status>>

\* The columns the INSERT statements name, in their order
Columns ==
  [sources   |-> <<"id", "canonical_uri", "title", "media_type", "language",
                   "content_sha256", "source_kind">>,
   documents |-> <<"id", "source_id", "canonical_uri", "title", "media_type", "language",
                   "content_sha256", "content_bytes", "retrieved_at", "parser_version",
                   "status">>,
   document_chunks |-> <<"id", "document_id", "ordinal", "start_offset", "end_offset",
                   "heading", "text", "text_sha256", "token_count">>,
   claims    |-> <<"id", "chunk_id", "claim_text", "claim_sha256", "classification",
                   "extractor_version", "created_at">>]
Tables == DOMAIN Columns

\* Columns that may be NULL, and the foreign key of each table
Nullable == {"title", "language", "heading"}
NullMediaType == [t \in Tables |-> IF t = "sources" THEN {"media_type"} ELSE {}]
Parent ==
  [documents |-> [column |-> "source_id", table |-> "sources"],
   document_chunks |-> [column |-> "document_id", table |-> "documents"],
   claims |-> [column |-> "chunk_id", table |-> "document_chunks"]]

ArgumentNames == UNION {Range(Columns[t]) : t \in Tables}
StoreAssumption == NULL \notin Key \cup ArgumentNames /\ Key \cap ArgumentNames = {}

\* sqlite3_bind_*: parameters that nothing is bound to are NULL
Row(table, texts, integers) ==
  [c \in Range(Columns[table]) |->
     LET i == CHOOSE n \in DOMAIN Columns[table] : Columns[table][n] = c
     IN  CASE i \in DOMAIN integers -> integers[i]
           [] i \notin DOMAIN integers /\ i <= Len(texts) -> texts[i]
           [] OTHER -> NULL]

Accepted(table, row) ==
  /\ \A c \in DOMAIN row : row[c] # NULL \/ c \in Nullable \cup NullMediaType[table]
  /\ \A r \in rows[table] : r["id"] # row["id"]
  /\ table \in DOMAIN Parent =>
       \E r \in rows[Parent[table].table] : r["id"] = row[Parent[table].column]

-----------------------------------------------------------------------------

Init ==
  /\ schema = FALSE /\ rows = [t \in Tables |-> {}] /\ status = "ok"

\* One transaction, IF NOT EXISTS throughout, and a ROLLBACK when it fails
InitSchema ==
  /\ \/ schema' = TRUE /\ status' = "ok"
     \/ schema' = schema /\ status' \in {"busy", "io"}
  /\ UNCHANGED rows

\* close and open again: what was committed is there
Reopen == UNCHANGED <<schema, rows>> /\ status' \in {"ok", "busy", "io"}

\* A missing table is an error when the statement is prepared.  What the CHECKs
\* and the UNIQUE hashes say of a value may refuse a row as well.
Insert(table, texts, integers) ==
  LET row == Row(table, texts, integers)
  IN  \/ /\ schema /\ Accepted(table, row)
         /\ rows' = [rows EXCEPT ![table] = @ \cup {row}]
         /\ status' = "ok" /\ UNCHANGED schema
      \/ /\ status' \in (IF schema THEN {"schema"} ELSE {}) \cup {"busy", "io"}
         /\ UNCHANGED <<schema, rows>>

Optional == {"title", "media_type", "language"}

\* An optional argument that the caller leaves out is a null pointer
Arg(name, given) == IF name \in given THEN name ELSE NULL

\* Mutant: two optional texts change places
SourceTextsSwapped(id, given) ==
  <<id, "canonical_uri", Arg("title", given), Arg("language", given),
    Arg("media_type", given), "content_sha256", "source_kind">>

SourceTexts(id, given) ==
  <<id, "canonical_uri", Arg("title", given), Arg("media_type", given),
    Arg("language", given), "content_sha256", "source_kind">>

InsertSource(id, given) == Insert("sources", SourceTexts(id, given), <<>>)

\* Ten texts although the eighth column is the integer, which is bound over the
\* eighth text: what follows it sits one column early
DocumentTexts(id, source, given) ==
  <<id, source, "canonical_uri", Arg("title", given), Arg("media_type", given),
    Arg("language", given), "content_sha256", "retrieved_at", "parser_version", "status">>
DocumentIntegers == [n \in {8} |-> "content_bytes"]

InsertDocument(id, source, given) ==
  Insert("documents", DocumentTexts(id, source, given), DocumentIntegers)

\* Five texts, and integers over three of them
ChunkTexts(id, document, heading) == <<id, document, heading, "text", "text_sha256">>
ChunkIntegers ==
  [n \in {3, 4, 5, 9} |-> CASE n = 3 -> "ordinal" [] n = 4 -> "start_offset"
                            [] n = 5 -> "end_offset" [] OTHER -> "token_count"]

InsertChunk(id, document, heading) ==
  Insert("document_chunks", ChunkTexts(id, document, heading), ChunkIntegers)

ClaimTexts(id, chunk) ==
  <<id, chunk, "claim_text", "claim_sha256", "classification", "extractor_version",
    "created_at">>

InsertClaim(id, chunk) == Insert("claims", ClaimTexts(id, chunk), <<>>)

Next ==
  \/ InitSchema
  \/ Reopen
  \/ \E id \in Key, given \in SUBSET Optional : InsertSource(id, given)
  \/ \E id, source \in Key, given \in SUBSET Optional : InsertDocument(id, source, given)
  \/ \E id, document \in Key, heading \in {"heading", NULL} :
       InsertChunk(id, document, heading)
  \/ \E id, chunk \in Key : InsertClaim(id, chunk)

Spec == Init /\ [][Next]_vars

-----------------------------------------------------------------------------
(* Properties                                                              *)

\* Columns that hold identifiers of rows
KeyColumns(table) ==
  {"id"} \cup (IF table \in DOMAIN Parent THEN {Parent[table].column} ELSE {})

\* Every stored row has each argument of its call in the column of that name,
\* or nothing.  No constraint of the tables sees two texts that change places;
\* only the numbering of the parameters (prepare_and_bind_text and the inserts)
\* keeps them apart.
StoredInPlace ==
  \A t \in Tables : \A r \in rows[t] : \A c \in DOMAIN r :
    IF c \in KeyColumns(t) THEN r[c] \in Key ELSE r[c] \in {c, NULL}

\* A document of a stored source is storable under an identifier that is not
\* taken, when all arguments are given: SQLite accepts the row that
\* niyah_store_insert_document binds.
DocumentsStorable ==
  \A id, source \in Key :
    /\ schema
    /\ \E r \in rows["sources"] : r["id"] = source
    /\ \A r \in rows["documents"] : r["id"] # id
    => Accepted("documents",
                Row("documents", DocumentTexts(id, source, Optional), DocumentIntegers))

=============================================================================
