----------------------------- MODULE Components -----------------------------
(***************************************************************************)
(* The sequential components of the engine side by side: search engine and *)
(* robots rules, document store and graph of the bridge, evidence, local   *)
(* store, arena, text generation, identity and NiyahMini.  They share no   *)
(* state, so a behaviour exercises one of them (`part`) and the state      *)
(* space is the sum of theirs, not the product.                            *)
(***************************************************************************)
EXTENDS Integers, Sequences, FiniteSets, SequencesExt

\* Search
CONSTANTS
  Lower, SeedUrls, References, Reachable,
  Capacity, MaxTokens, BodySizes, MaxBody, MaxDepth, MaxDocuments, MaxSeeds, Limits,
  Lines,          \* lines that robots files may have
  MaxLines,       \* bound: lines of a robots file
  Paths, Agents   \* what callers ask robots_path_allowed about
\* Evidence, bridge, graph, arena and local store
CONSTANTS
  Envelope, ClaimId, MaxNodes, MaxEdges, Scale, Floats, NoEnvelope,
  Content, Query, Length, Occurrences, FirstRoom, MaxStored,
  NodeId, FirstNodes, FirstEdges, FirstOut, MaxGraphEdges,
  WordSize, Align, FloatSize, PoolSize, DefaultSize, Bases,
  Key, NULL
\* Generation and identity
CONSTANTS
  ConfigFiles, HandConfigs, BlobSizes, Byte, Code, Vocabularies, Prompts, MaxNewTokens,
  Hash, Name, Claim, OfEngine, NameHas, Absent
\* NiyahMini
CONSTANTS
  MiniConfigs, FileSizes, MiniPrompts, MaxNew, MaxLayers, MaxDim, MaxHeads, MaxSeq,
  Specials, ByteValues, Nul, MaxTokenLen, MaxVocab,
  VocabTexts      \* pairs of texts a vocabulary is built from

VARIABLES part,
  frontier, fetched_documents, next_document_id, documents, results, seeds, crawled,
  robots,
  envelopes, nodes, edges,
  docs, capacity, next_id, handles, hits,
  gnodes, gedges, out, room, made,
  base, used, blocks,
  schema, rows, status,
  model, vocab, pc, tokens, call, slots, length, seen, output,
  weights, identity, lastRead,
  wrapped, mini, cache, cacheLength, step, ids, task, context, answer

-----------------------------------------------------------------------------

\* A rule has a length; nothing is asked of the value of another line
RobotsAssumption ==
  \A line \in Lines : line.field \in {"Allow", "Disallow"} => Len(line.value) \in Nat

S == INSTANCE SearchEngine
E == INSTANCE Evidence
B == INSTANCE BridgeStore
G == INSTANCE KnowledgeGraph
A == INSTANCE Arena
L == INSTANCE LocalStore
I == INSTANCE Inference WITH MaxTokens <- MaxNewTokens
D == INSTANCE Identity
M == INSTANCE MiniModel
V == INSTANCE MiniVocab

ASSUME Assumptions ==
  /\ RobotsAssumption
  /\ S!UrlAssumption /\ S!FrontierAssumption /\ S!SearchAssumption
  /\ E!EvidenceAssumption /\ B!BridgeAssumption /\ G!GraphAssumption
  /\ A!ArenaAssumption /\ L!StoreAssumption
  /\ I!FloatAssumption /\ I!ByteAssumption /\ I!InferenceAssumption
  /\ D!IdentityAssumption /\ M!MiniAssumption /\ V!VocabAssumption
  /\ \A texts \in VocabTexts : texts \in Seq(Seq(V!Symbols))

sVars == <<frontier, fetched_documents, next_document_id, documents, results, seeds, crawled>>
eVars == <<envelopes, nodes, edges>>
bVars == <<docs, capacity, next_id, handles, hits>>
gVars == <<gnodes, gedges, out, room, made>>
aVars == <<base, used, blocks>>
lVars == <<schema, rows, status>>
iVars == <<model, vocab, pc, tokens, call, slots, length, seen, output>>
dVars == <<weights, identity, lastRead>>
mVars == <<wrapped, mini, cache, cacheLength, step, ids, task, context, answer>>

vars == <<part, sVars, robots, eVars, bVars, gVars, aVars, lVars, iVars, dVars, mVars>>

Parts == {"search", "robots", "evidence", "bridge", "graph", "arena", "store",
          "generation", "identity", "mini"}

Init ==
  /\ part \in Parts
  /\ S!Init /\ robots = <<>> /\ E!Init /\ B!Init /\ G!Init /\ L!Init
  /\ A!Init /\ (part # "arena" => base = 0)
  /\ I!Init /\ D!Init /\ M!Init

OnlySearch ==
  /\ part = "search"
  /\ UNCHANGED <<part, robots, eVars, bVars, gVars, aVars, lVars, iVars, dVars, mVars>>
OnlyRobots ==
  /\ part = "robots"
  /\ UNCHANGED <<part, sVars, eVars, bVars, gVars, aVars, lVars, iVars, dVars, mVars>>
OnlyEvidence ==
  /\ part = "evidence"
  /\ UNCHANGED <<part, sVars, robots, bVars, gVars, aVars, lVars, iVars, dVars, mVars>>
OnlyBridge ==
  /\ part = "bridge"
  /\ UNCHANGED <<part, sVars, robots, eVars, gVars, aVars, lVars, iVars, dVars, mVars>>
OnlyGraph ==
  /\ part = "graph"
  /\ UNCHANGED <<part, sVars, robots, eVars, bVars, aVars, lVars, iVars, dVars, mVars>>
OnlyArena ==
  /\ part = "arena"
  /\ UNCHANGED <<part, sVars, robots, eVars, bVars, gVars, lVars, iVars, dVars, mVars>>
OnlyStore ==
  /\ part = "store"
  /\ UNCHANGED <<part, sVars, robots, eVars, bVars, gVars, aVars, iVars, dVars, mVars>>
OnlyGeneration ==
  /\ part = "generation"
  /\ UNCHANGED <<part, sVars, robots, eVars, bVars, gVars, aVars, lVars, dVars, mVars>>
OnlyIdentity ==
  /\ part = "identity"
  /\ UNCHANGED <<part, sVars, robots, eVars, bVars, gVars, aVars, lVars, iVars, mVars>>
OnlyMini ==
  /\ part = "mini"
  /\ UNCHANGED <<part, sVars, robots, eVars, bVars, gVars, aVars, lVars, iVars, dVars>>

\* A robots file grows line by line
ReadOn == Len(robots) < MaxLines /\ \E line \in Lines : robots' = Append(robots, line)

Next ==
  \/ OnlySearch /\ S!Next
  \/ OnlyRobots /\ ReadOn
  \/ OnlyEvidence /\ E!Next
  \/ OnlyBridge /\ B!Next
  \/ OnlyGraph /\ G!Next
  \/ OnlyArena /\ A!Next
  \/ OnlyStore /\ L!Next
  \/ OnlyGeneration /\ I!Next
  \/ OnlyIdentity /\ D!Next
  \/ OnlyMini /\ M!Next

\* The caller of a crawl keeps calling crawl_once
Spec == Init /\ [][Next]_vars /\ WF_vars(OnlySearch /\ S!CrawlOnce)

-----------------------------------------------------------------------------

(* The properties of the components, stated in their modules, looked at    *)
(* where their state can change.                                           *)

\* The frontier holds no URL twice and stays within its storage, and seeds and
\* pages within the limits of the configuration (seed, crawl_once, enqueue).
FrontierSound == part = "search" => S!TypeOK /\ S!QueuedOnce

\* The next page never gets the identifier of a stored one (crawl_once).
IdentifierUnused == part = "search" => S!IdentifierUnused

\* A relative reference stays on the site of its page (niyah_url_resolve), and
\* what waits in the queue is in the form that its duplicate test compares.
UrlsSound ==
  /\ S!LinksStayOnSite
  /\ part = "search" => S!QueueCanonical

\* The loop of a crawl ends (crawl_once).
CrawlEnds == S!CrawlEnds

\* The longest matching rule decides, wherever it stands in the file
\* (niyah_robots_path_allowed).
RobotsDecision ==
  part = "robots" =>
    \A path \in Paths, agent \in Agents : S!LongestRuleDecides(path, robots, agent)

\* The evidence graph stays sound through refused calls (add_node, add_edge).
GraphSound == part = "evidence" => E!GraphSound

\* Evidence that was never verified moves no verdict (aggregate_confidence).
UnverifiedMovesNothing == part = "evidence" => E!UnverifiedMovesNothing

\* An identifier handed out since the last clear names one document
\* (niyah_bridge_add_document).
HandlesName == part = "bridge" => B!HandlesName

\* An edge is in the graph and on its node, or in neither (add_edge).
EdgesListedOnce == part = "graph" => G!EdgesListedOnce

\* Blocks lie in the pool, aligned and apart (niyah_arena_alloc).
BlocksApart == part = "arena" => A!BlocksApart

\* A stored row has each argument in the column of its name, although columns
\* and parameters meet by number only (prepare_and_bind_text).
StoredInPlace == part = "store" => L!StoredInPlace

\* Tokens are picked from logits over exactly the text so far, computed from
\* weights inside the blob (niyah_llm_generate, niyah_mini_generate).
LogitsSound ==
  /\ part = "generation" => I!LogitsSound
  /\ part = "mini" => M!MiniContextIsPrefix

\* A vocabulary says again what it covers (niyah_tokenize, build of NiyahMini).
RoundTrip ==
  /\ part = "generation" /\ pc = "idle" => I!RoundTrip
  /\ part = "mini" /\ mini = M!Nothing =>
       \A texts \in VocabTexts : V!BuiltSaysTexts(texts, 1)

\* Answers about the weights are backed by the manifest read last (identity_is).
ClaimsBacked == part = "identity" => D!ClaimsBacked

\* The loaded flag means a whole file was read (niyah_mini_wrapped_load), and the
\* engine's own loader would map the block of a converted model.
LoadedIsWhole ==
  part = "mini" =>
    /\ M!LoadedIsWhole
    /\ mini.block # "none" => I!Maps(M!Converted(mini.config), M!BlockFloats(mini.config))

=============================================================================
