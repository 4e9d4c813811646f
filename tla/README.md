# Verification of Niyah.Engine

TLA+ models of the stateful core of Niyah.Engine, their TLC model checks and
TLAPS proofs. Paths below are relative to the repository.

## 1. Inventory

Niyah.Engine is a set of C11 libraries and one command line program, with a
C++ search front end, a C# desktop front end, Python pipelines and SQL schemas.
There are no threads: concurrency is between *processes* that share the package
store, niyah's own and the curl children they start, and everything else is
sequential code driven by its caller.

| Component | State | Operations | What is hard | What makes it correct | Module |
| --- | --- | --- | --- | --- | --- |
| Package store (`native/niyah_cli.c`) | `cache/`, `blobs/`, `packages/` under `NIYAH_HOME` | `pull`, `list`, `inspect` | no lock; crashes between system calls; curl children that outlive a killed niyah; shared staging files; resumed downloads; hard links and renames | blobs are what their name says; a visible package is complete; `current` names an installed version; nothing visible disappears; a later pull repairs the leftovers of a killed one | `PackageStore` |
| `niyah run` and receipts (`native/niyah_dispatch.c`, `niyah_proof.c`) | `--proof` paths and their `.tmp.<pid>` files | `run`, `verify` | the store changes during a run; two runs want one path; a reused pid; child exits 0 with broken output | a receipt is true, permanent, and there when 0 is returned; only verified artifacts of one manifest are run | `PackageRun` |
| Constraint solver (`native/constraint_solver.c`) | variables, constraints, flags, recursion | `add_variable`, `add_constraint`, `solve`, `reset` | pruning, a result buffer that fills mid-recursion, state left by a previous solve | exactly the solutions, in order, up to the buffer; solve ends | `ConstraintSolver` |
| Inverted index (`search/niyah_index.c`) | documents, terms, postings, average length | `add_document`, `search`, `free` | allocation failure in the middle of an insert; ties at the result limit | postings describe the documents; the result is the best of them | `InvertedIndex` |
| URLs and fetch (`search/niyah_url.c`, `http_fetch.cpp`) | none | canonicalise, resolve, `http_get` | dot segments above the root, a base without a path | a page's relative links stay on its site | `Url`, `SearchEngine` |
| Crawl frontier, robots rules, search engine (`search/niyah_crawler.c`, `search_engine.cpp`) | a bounded queue, the index, identifiers, counters | `seed`, `crawl_once`, `search` | full queue, failed fetches, failed inserts, pages reached twice | limits of pages and depth; identifiers unique; the longest rule decides; crawling ends | `Crawler`, `SearchEngine` |
| Evidence (`native/evidence_*.c`) | envelopes, a bounded graph that borrows them | `create`, `verify`, `add_node`, `add_edge`, aggregate, evaluate, compare | capacity limits, refused verifications, envelopes verified late or twice | edges join claims of the graph; unverified evidence moves no verdict | `Evidence` |
| Truth logic (`native/niyah_core.c`) | none | not, and, or, implies | | Kleene's laws | `Truth` |
| Model identity (`native/niyah_identity.c`) | what is known of the loaded model | `capture`, `hash_weights`, `load_manifest`, `is`, `report` | calls in any order, a manifest that fails half way | a claim is made only from what was checked | `Identity` |
| Generation (`native/niyah_llm.c`, `niyah_attention.c`, `niyah_transformer_layer.c`) | KV cache, context | `generate`: prefill, decode | the context limit, a stale cache | logits see every token so far and nothing else; no text without weights | `KVCache`, `Inference` |
| Tokenizer (`native/niyah_tokenizer.c`) | a vocabulary | `load`, `tokenize`, `detokenize` | bytes without an entry, identifiers that collide | a text it can say round-trips | `Tokenizer` |
| Model loader (`native/niyah_model.c`) | configuration and blob | `load_config_json`, `load`, `weights_map`, `free` | the size of the file alone decides where tensors lie | tensors tile the blob | `ModelFile` |
| NiyahMini (`native/niyah_mini/`) | configuration, block, cache that outlives calls, a loaded flag, vocabulary | `init`, `load`, `generate`, `get_logits`, conversion, `build`, `tokenize` | loads that fail half way, a reused cache, byte 0 | the flag means a whole file was read; the cache is the prefix; texts round-trip | `MiniVocab`, `MiniModel`, `MiniBridge` |
| Bridge store (`native/niyah_bridge.c`) | global documents, identifiers | `add_document`, `search`, `clear` | identifiers after `clear`, allocation failure | an identifier names one live document | `BridgeStore` |
| Graph (`native/niyah_graph.c`) | nodes, edges in two arrays | `add_node`, `add_edge`, `neighbors` | failure half way | an edge is in both arrays or in none | `KnowledgeGraph` |
| Arena (`native/niyah_runtime.c`) | one pool with an offset | `alloc`, `alloc_floats`, `reset` | alignment and size_t at the limit | blocks do not overlap | `Arena` |
| SQLite store (`storage/local_store.c`) | four tables | `open`, `init_schema`, `insert_*` | columns and parameters meet by number | each argument is in the column of its name; every kind of row can be stored (it cannot, section 6) | `LocalStore` |
| Sampler, embedding, kernels, SHA-256, small containers, token tax, Python, SQL schemas, desktop UI | none, or buffers and files | | | | not modelled, section 7 |

How they interact: `niyah pull` and `niyah run` meet only in the file system;
`run` starts the model as a child process. The search engine calls URL handling,
frontier, fetcher and index in one thread. The evidence reasoner reads the
evidence graph. Generation calls loader, tokenizer, layers and cache; NiyahMini
reaches it by a conversion that lends it its block of weights. The UI and other
languages reach the engine through the bridge's C ABI.

`PROJECT.json` lists every component with its status and every hazard with its
source line and the properties that would catch it.

## 2. Plan, and where it stands

The package store and the receipts came first: they are the only concurrent,
crash-exposed parts and carry the engine's central promise ("the engine must
never fabricate"), that what is installed and executed is what was published and
that a receipt says what happened. Then the two sequential algorithms with
internal failure or backtracking, the solver and the index. Then the remaining
stateful components, which share no state and are therefore checked side by side
in `Components`, and the one composition among them that goes wrong,
`MiniBridge`. Last the proofs of section 5.

Every invariant and every action property that a passing run checks is stated by a
theorem. Left for further work: a repaired staging protocol (finding 1), for which
`SingleWriter` could be dropped; the containers of `search/`
and `storage/` that today only append.

## 3. Modules

| Module | Models | Code it stands for |
| --- | --- | --- |
| `AbstractStore` | what the store promises its readers: blobs, a shelf of manifests, chosen versions | abstract specification |
| `PackageStore` | `pull_package` step by step, its curl children and those left behind, faults and kills, any number of processes | `native/niyah_cli.c` |
| `PackageRun` | `run_package` and its receipt, EXTENDS `AbstractStore` whose steps interleave | `native/niyah_dispatch.c` |
| `ConstraintSolver` | the solver, `backtrack` as a step machine over an explicit stack | `native/constraint_solver.c` |
| `InvertedIndex` | insertion with a failure at every allocation, search, free | `search/niyah_index.c` |
| `Url` | canonicalisation, dot segments, resolution of references | `search/niyah_url.c` |
| `Crawler` | the frontier and the robots rules, as operators on their values | `search/niyah_crawler.c` |
| `SearchEngine` | `seed`, `crawl_once`, `search`, EXTENDS `Url` and `Crawler` | `search/search_engine.cpp`, `search/http_fetch.cpp` |
| `Evidence` | envelopes, graph, aggregation and verdicts | `native/evidence_*.c` |
| `Truth` | Kleene's connectives | `native/niyah_core.c` |
| `Identity` | captured identity, hashes, manifests, answers | `native/niyah_identity.c` |
| `KVCache` | one forward pass over the cache | `native/niyah_attention.c`, `niyah_transformer_layer.c`, `niyah_mini/niyah_mini_model.c` |
| `Tokenizer` | greedy longest match with byte fallback | `native/niyah_tokenizer.c` |
| `ModelFile` | configuration, sizes, places of tensors | `native/niyah_model.c` |
| `Inference` | loading and `niyah_llm_generate`, EXTENDS the three above | `native/niyah_llm.c` |
| `MiniVocab`, `MiniModel`, `MiniBridge` | NiyahMini's vocabulary; its model, cache and wrapper; its conversion, EXTENDS `Inference` | `native/niyah_mini/` |
| `BridgeStore`, `KnowledgeGraph`, `Arena`, `LocalStore` | one component each | `native/niyah_bridge.c`, `niyah_graph.c`, `niyah_runtime.c`, `storage/local_store.c` |
| `Components` | the sequential components side by side, one of them moving in a behaviour | |
| `MC*` | constants of the instances for TLC | |
| `PackageStoreProofs`, `PackageRunProofs`, `ConstraintSolverProofs`, `InvertedIndexProofs` | theorems about the module before the suffix | |
| `ComponentProofs` | theorems about the search engine, robots rules, evidence, arena, bridge store, local store and graph in `Components` | |
| `ComponentModelsProofs` | theorems about identity, NiyahMini, generation and truth logic | |
| `TokenizerProofs` | the round trips of both tokenizers, EXTENDS `ComponentModelsProofs` | |
| `FoldTheorems` | induction over naturals, over the folds that model loops and over recursions along a text | |

Assumptions on constants are named operators (`ArenaAssumption`, ...) in the
modules that `Components` instantiates. `Components` declares the constants, takes
all of them as its one assumption `Assumptions`, and states each component's
properties; `MCComponents` only supplies values, for which TLC evaluates it. The
modules that a run extends directly assume theirs themselves.

### PackageStore

A step is one system call, because that is where processes interleave and where
a crash leaves something behind. `file` maps every name in the store to its
content; `linked` holds the blobs whose `.part` and final name are the same
inode (after `link`, before `unlink`), and `fd` the file each process has open,
so a write through an old descriptor reaches the file under its new name.
Contents are abstract: an artifact is the sequence of chunks 1..`Chunks`, and
any other sequence has the wrong hash; a manifest file is empty or one
`Manifest`, whose name, version and artifacts are CONSTANT functions.

`pc` follows `pull_package`: `fetch`/`fetchWrite` (curl opens and fills the
cache file), `parse`, then for each artifact `artifact` (`file_exists`,
`verify_file`), `curl`, `open`/`write` (fresh) or `append` (resumed), `verify`,
`discard` or `link`, `recheck` (EEXIST), `unlink`; then `copy`, `copyWrite`,
`publish` (rename), `current`, `currentWrite`, `select` (rename). Every early
return is an action with its exit code (3 fetch, 4 manifest, 5 hash, 6 store).
`curl --continue-at -` is modelled from its use: a `.part` with bytes in it is
appended to from its length, a complete one leaves nothing to fetch, otherwise
the file is created or truncated when the first bytes arrive. A server that does
not answer range requests (`ranges`) makes curl refuse a partial part
(`CurlCannotResume`).

Faults: `CurlFails`, a damaged chunk (in `CurlChunk`), `ReadFails`,
`UnlinkFails`, `StoreFails`, `Crash` and `CrashAlone`. curl is a plain child
process (`fork`, `execvp`, `waitpid`), so a signal to niyah alone leaves it
running. `Crash` is the kill that reaches both, or a machine that stops;
`CrashAlone` is the kill of niyah while it waits for curl: the process becomes
`stray`, its curl goes on through the same labels with the same open file, and
`StrayEnds` is its end, which nobody notices. Only then is the slot free for
another pull. The registry may serve any manifest at any time, also one of
another package. `Settle` ends all this: afterwards `sound` holds, the registry
serves one manifest for each package and the servers answer range requests or do
not; only `Recovers` needs it.

### PackageRun

One slot of `Runner` is a process from start to exit; its `pid` is distinct
from those of live processes but may have been used before, because the name of
the temporary receipt contains it. The store is `AbstractStore`; that is
justified by `KeepsPromise` for pulls that nothing overlaps (section 5). A receipt is the
record of prompt, output and manifest: equal hashes stand for equal content.
`witnessed` is a history variable: what verified, successful, fully captured
runs have produced. `OtherProgram` creates files at `--proof` paths.

### ConstraintSolver

`at` is the recursion: one loop index per active level. `Try` is one iteration
of the loop of `backtrack`, `Record` the base case with `mark_constraints`,
`Backtrack` the return of an exhausted level, `Return` the end of `solve`.
`paths` is a history of the position at which each row was found; it lets
`FindsExactly` compare rows with an independent definition of the solution set.

### InvertedIndex

`pc` is where `niyah_index_add_document` is: `grow` before the document is
registered, `index` in the loop over its tokens (`pos` is the loop index).
`GrowTerms` is one turn of `ensure_term_capacity`; `GrowthFails` and
`PostingsFail` are a `realloc` that returns NULL before and after `Register`.
`upto`, in a document, is a history of how far the loop came. A search changes
only the caller's array and is one step: the scan is the fold of `Keep`, which
keeps the first worst hit as the one to replace, and `SortSeq` is the `qsort`.
The test of `term_count` inside the loop (line 452) has no action because it
cannot succeed: that is the property `TermsReserved`. The average document
length only enters BM25 scores, whose order is left open.

### SearchEngine, with Url and Crawler

A URL is a sequence of tokens (scheme, pieces of an authority, "/", "?", "#",
".", ".." and names), so that normalisation, which is about segments, is what
the code does segment by segment. `Decision` has the answers of `enqueue` in
their order (full before duplicate). One call of `crawl_once` is one of three
actions: `FetchFails` (the item is popped and gone), `IndexFails` (the
identifier is used up, the document is registered or not, no link is followed),
`PageIndexed` (its links are resolved and enqueued in order while there is room).
Of `add_document` only success or failure matters here; `InvertedIndex` models
it. The web is external: which authorities pass the fetch policy, what a server
answers, which references a page holds. `HttpGet` is the set of possible
answers; a body over `max_body_bytes` fails.

### Evidence, Truth, Identity

`Evidence`: the graph borrows envelopes, so an envelope may be verified again,
with another confidence or unsuccessfully, after nodes point at it. Weights and
confidences are multiples of 1/`Scale`, sums of products in units of its square;
the thresholds 0.6 and 0.2 are compared exactly. Queries are operators.

`Identity`: a manifest is its model name and declared hash, each possibly
absent, since these decide every answer. `Read` keeps the field of an earlier
manifest when a key is missing, as the code does; `lastRead` is the history the
property compares with. Weights may change behind the identity. `Report` and
`ReportJson` are the statements of the two reports, which differ: the text names a
model only with known provenance and shows hash and match only of loaded weights,
the JSON gives every field as it stands.

### Generation: KVCache, Tokenizer, ModelFile, Inference

Numbers are abstracted to their provenance: a cache entry or hidden state is the
set of pairs of position and token it was computed from. A layer writes the
entry of its position and then reads all entries up to it, whatever the length
says. `LogitsSound` is therefore the claim that decoding with a cache equals a
pass over the whole text. `Inference` follows `niyah_llm_generate`: `Generate`
(tokenise, BOS for an empty prompt, fresh cache), `Prefill`, `Decode` (any token
the sampler may pick, EOS, full context) and every way to fail, in the order of
the tests. `ModelFile` computes, from a configuration and a size in bytes, what
the loader keeps and where each tensor starts; the size decides about a tied
head whatever the file declares.

### NiyahMini

`mini.block` says where the block of weights comes from: "none", "initial" (small
numbers that `init` writes), "mixed" (a read that broke off) or "file". Its cache
outlives calls: `GetLogits`, failed passes and earlier generations leave entries
behind. `WrappedGenerate` is complete in `WrappedStatus`, because the code cannot
get past its tokenisation (section 6). `MiniBridge` joins `MiniModel` and
`Inference` by `Convert`.

### BridgeStore, KnowledgeGraph, Arena, LocalStore

Each allocation that the code tests may fail, also when only an array has grown.
`handles` (bridge) and `blocks` (arena) are histories of what callers were given
and are voided by `clear` and `reset`. A graph's edge is one object in two
arrays, known by its number. The arena's arithmetic is modulo `WordSize`, and its
pool lies at any address in `Bases`. `LocalStore` models what each statement
binds to which parameter, in the order of the calls of `sqlite3_bind_*`, and
what the constraints of `init_schema` make of the row; an argument is known by its
name, so that a row shows which argument a column got, and identifiers of rows are
values, which foreign keys compare.

## 4. Runs

`pull_crash` takes about 100 seconds with two workers, every other run less.

| Run | Instance | Shows |
| --- | --- | --- |
| `pull_crash` | 1 process (each pull starts after the last one, and the curl of one that was killed, has ended), 1 package, 2 versions, 4 manifests (one published again, one of another package), 2 blobs, 2 chunks | the store is complete at every moment (`BlobsGenuine`, `InstalledComplete`, `CurrentInstalled`), implements `AbstractStore` (`KeepsPromise`), a pull that returns 0 leaves a package that `inspect` finds healthy (`SuccessIsHealthy`), and the store heals (`Recovers`) |
| `pull_concurrent` | 2 processes, 1 package, 2 blobs | overlapping pulls never replace or remove a blob, a manifest or `current`, and register only with all blobs present |
| `pull_race_blob` | 2 slots, of which one niyah runs at a time (`SerialSpec`), 1 blob, 2 chunks | finding 1 |
| `pull_race_manifest` | 2 processes, 2 versions | finding 2 |
| `run_proof` | 2 runs, 1 path, 2 pids, 2 versions, 3 manifests (one without adapter) | receipts are true, permanent and there when 0 is returned; what is run is genuine and of one manifest |
| `csp` | up to 3 variables with domains of 2 and 3 values (one with a repeated value), up to 2 constraints of 4 kinds, buffer of 2 rows | the solver finds exactly the solutions (`FindsExactly`), all of them when the buffer does not fill (`ReturnsAll`), and returns (`Terminates`) |
| `csp_first_solution` | 2 variables, 1 constraint | finding 3 |
| `index` | up to 3 documents, 2 terms, texts of 0 to 4 tokens cut at 3, first capacities of 1, limits of 1 and 2 hits, 2 scores | posting lists describe what was read of each document after any failure; a search returns the best of what it found; insertion returns |
| `index_rollback` | the same | finding 4 |
| `components` | ten sequential components, one per behaviour (below); 74,716 distinct states | `FrontierSound`, `IdentifierUnused`, `UrlsSound`, `CrawlEnds`; `RobotsDecision`; `GraphSound`, `UnverifiedMovesNothing`; `HandlesName`; `EdgesListedOnce`; `BlocksApart`; `StoredInPlace`; `LogitsSound`, `RoundTrip`; `ClaimsBacked`; `LoadedIsWhole` |
| `local_store` | 2 keys | finding 6 |
| `mini_untrained` | one wrapped NiyahMini model of one layer, converted and asked | finding 5 |

The run `components`. The components share no state, so their composition would
multiply states without adding a behaviour; a behaviour picks one (`part`) and
the state space is the sum of theirs. Each property looks at its component where
that is the one that moves. Nothing is shared that would make a property true by
default: in every other part the component rests in its initial state.

| Part | Bounds | Why they are enough |
| --- | --- | --- |
| search | frontier of 3 items, URLs of up to 12 tokens, depth 2, 3 documents, 2 calls of seed out of 4 texts, bodies of 0, 1 and 3 against a limit of 2 | the queue fills, pages link to each other and to themselves, one link is climbed out of the root, one page is known by a query only; a third document follows a failed insert |
| robots | files of up to 4 lines over 2 agents and 3 values | two groups with two rules of equal or different length |
| evidence | 2 envelopes, 2 nodes, 2 edges, values in and out of range, half units | every capacity is reached, an envelope is shared, support and contradiction meet |
| bridge | 3 texts, 3 stored, first room 1 | two growths; equal scores behind each other |
| graph | 2 identifiers, 3 edges, first rooms 1 | loops, parallel edges, every array grows twice |
| arena | words of 32 values, alignment 4, pool of 12, two addresses | sizes up to the largest word, a misaligned pool, exhaustion |
| store | 2 keys, each optional argument there or not | duplicates, missing and present parents |
| generation | 1 or 2 layers, contexts of 2 and 3, prompts of up to 3 of 2 bytes, 2 new tokens, 3 vocabularies, 7 file sizes | a prompt that fills the context, EOS, a tied and an untied head, a hand-made configuration whose heads do not divide, identifiers beyond and within the entries |
| identity | 2 hashes, 2 names | a second manifest that says other, less or nothing |
| mini | 3 configurations (one invalid), 6 prompts, 2 new tokens | tokens out of the vocabulary, prompts as long as and longer than the context |

Bounds of the other runs. One process is every history in which nothing overlaps,
since its slot is reused: niyah, or the curl it leaves behind, has to end before
the next pull takes the slot. Two processes are enough for the races: each of them
involves one writer and one reader or installer of one name. Two chunks are the
fewest with a part that is neither empty nor complete (resume); one chunk keeps
`open` and `write` apart, which `pull_concurrent` needs. Two artifacts are the
fewest with a manifest some of whose blobs are missing. Three variables are the
fewest with a level between first and last; a buffer of two rows is filled by
some problems and not by others. Three documents against two hits are the
fewest where a hit is replaced while another stays; first capacities of one make
every array grow from nothing and again; a third token that repeats the first
separates a term's frequency from its presence. No run uses a state constraint:
what could grow without limit is bounded in guards, by constants whose comment
says `bound` (`MaxSeeds`, `MaxStored`, `MaxGraphEdges`, `MaxTokens` of
`Inference`, `MaxNew`, the `Ids` of the index) or by a parameter of the code
(`MaxVariables`, `Capacity`, `MaxNodes`, the pool).

Deadlock is checked except in `components` and `mini_untrained`, whose
components are libraries: when the caller has nothing left to ask, nothing moves.

Symmetry is used only in safety runs, over processes and over runs.

Fairness. `LiveSpec` of the store has weak fairness on the steps of a process
that has started (the operating system runs it; every loop in it is bounded),
and strong fairness on starting a pull of each package (the user retries).
Faults are never fair. `Recovers` assumes that they have stopped (`Settle`), that
nothing overlaps, and that no artifact still missing has a partial part while its
server ignores range requests (`Wedged`): that part stays for good, since curl
refuses to resume it and no step of niyah removes it. The
solver has weak fairness on its own steps: `solve` is called and runs. So has
`add_document`, on its steps without a failure: it must return even if every
allocation succeeds. `components` has weak fairness on `crawl_once` alone: the
caller of a crawl keeps calling while there is something to crawl. `CrawlEnds`
then says the loop ends although pages link to each other, whichever pages fail.

Each property is also checked against a plausible bug in the code: the
operators marked `Mutant` in the modules, next to the definition they change.

## 5. Proofs

Every theorem holds for every value of the constants that satisfies the named
assumptions of the module it is about.

### PackageStoreProofs

For any number of processes whose pulls overlap in any way:

- `StoreTypeCorrect` (`TypeOK`), from the inductive `StoreInv`: types, what the
  cache can hold (`Cached`), a process that works on artifacts holds a manifest
  and an index into it (`Busy`), and which names a file can have while a process
  has it open (`Opened`). The lemma `FileChanges` says for each label what a step
  may do to the files; every other proof rests on it.
- `StoreKeepsInstalled` (`InstalledStays`): no blob, manifest or `current` once
  visible is absent again, through crashes too (`VisibleStays`).
- `StoreNeverReplacesBlobs` (`BlobsNeverReplaced`): only a writer with the file
  open changes an installed blob, never `link` or a rename.
- `StoreRegistersWithBlobs` (`RegistersWithBlobs`): a process past its artifact
  loop has every blob of its manifest in the store, from `Placed`, by which the
  artifacts before its index are in place.

Under the hypothesis `SingleWriter` (nothing overlaps: a pull starts after the last
one has ended, failed or been killed, *and* after the curl child that a killed one
left behind has ended). niyah ensures neither, so these theorems are about a user
who does. They still cover what such a curl does: it writes on after the kill,
damaged bytes included, and the next pull meets what it leaves in the `.part` and
in the cache.

- `StoreBlobsGenuine` (`BlobsGenuine`), from `Staging`: every blob is genuine
  (`BlobFiles`), and a process that fetches an artifact is alone on a name that
  is missing, writes to its `.part` only, and links only what it has verified
  (`Alone`).
- `StoreInstalledComplete`, `StoreCurrentInstalled`, from `Shelf`: every manifest
  in place is whole and has its blobs, `current` and the cache hold what they
  should (`Shelved`), and a process that registers holds the manifest whose copy
  it is making (`Registers`).
- `StoreSuccessIsHealthy`: after a pull that returns 0 `inspect` returns 0.
- `StoreKeepsPromise`: `PackageStore` implements `AbstractStore`. Initial states
  map to initial states, and each step is a stutter or one abstract step: `link`
  adds a blob (`OnlyLinkInstalls`, `GoodBlobsStep`), the rename of a manifest
  shelves it, the rename of `current` chooses a version (`PromiseStep`).

The hypothesis cannot be dropped, nor weakened to one niyah process at a time: in
finding 1 a single pull meets the curl of a killed one and `BlobsGenuine` fails
(`SerialSpec`), in finding 2 two pulls overlap and `SuccessIsHealthy` fails.

### PackageRunProofs

For every number of runs, packages, versions, blobs,
manifests, targets and process identifiers (`ManifestAssumption`, `RoleAssumption`,
`CodeAssumption`, `SentinelAssumption`: functions have their domains, a manifest's
base and adapter are among its artifacts, sentinels differ from data):

- `RunTypeCorrect`: `RunSpec => []RunTypeOK`. The types are inductive together
  with `Holding`, which says what a run has read by the time it is somewhere.
- `ReceiptsAreTruthful`, from the inductive `RunInv`: types, `PidsDiffer` (live
  processes have different identifiers, hence different temporary names),
  `Earned` (past its child a run's receipt is witnessed, at `link` it is what
  the temporary file holds, at `unlink` it is in place). `PidsDiffer` is what
  makes `Earned` survive the steps of other runs (`OtherReceipts`), and `wbx`
  is what makes a stale temporary file harmless (`OwnReceipt`).
- `ReceiptsArePermanent` and `SuccessLeavesReceipt`, action properties from the
  same invariant.
- `ChildrenRunVerified` and `InstalledRemainsRunnable`, from the inductive
  `StoreInv` of that module: every shelved manifest is in its place with its blobs in the
  store (`Shelved`), every chosen version is shelved, and what a run has read
  stays so (`RunsInstalled`), because the abstract store only adds.

The proof of each invariant has one step per action of `Step`, and `Framed`
says once what a step of one run leaves alone.

### ConstraintSolverProofs

For any variables, domains, constraints and buffer: the inductive `StackInv` joins
the types with what the explicit stack of `backtrack` means. A level is entered
only from a value of the level before (`Stacked`), a variable is assigned exactly
when its level is active, to the value its index points at (`Placed`), the
assigned variables violate no constraint among them (`Compatible`), and the
search is on only while the buffer has room (`Buffered`). TLC has checked
`StackInv` on the instance of `csp`.

- `SolverTypeCorrect` (`TypeOK`).
- `SolverFindsExactly` (`FindsExactly`): at every step the rows are exactly the
  solutions in the part of the search space behind the stack, in its order. A step
  moves the position by one place, so that no solution lies between the old and
  the new position unless it is recorded (`FindsStep`). A pruned value is no loss
  because a partial assignment that violates a constraint has no solution below.
- `SolverReturnsAll` (`ReturnsAll`): at the return without a full buffer the
  position is behind the whole space.

### FoldTheorems

Loops over arrays are folds in the models. The library's induction theorems take
an operator as a parameter, which the provers cannot instantiate. `FoldTheorems`
gets round this with sets and with module parameters: `EveryNumber` is induction
over a set of numbers, from the library's minimum of a well-founded relation;
`FoldAppend` and `FoldInduction` follow for the module's own constants `Base`, `Op`
and `P`, and a proof module takes them for a loop by an INSTANCE that names what
the loop starts from, its body and its invariant. `Recursion` and `RecursionTyped`
do the same for a recursive function whose value at a place depends on places
further on: such a function exists, so that CHOOSE finds it, and what later places
pass on to earlier ones holds at all of them.

### InvertedIndexProofs

- `IndexReservesTerms` (`TermsReserved`, from `IndexInv`): the term array never
  overflows while a document is indexed, because the terms that are still to be
  entered were counted before it was registered, and a step of the loop does not
  change the union of what is entered and what is to come.
- `IndexPostingsExact` (`PostingsExact`): after every step and every failure the
  posting lists are what was read. Inductive as `ExactInv`: with the types of the
  arrays (`Stored`), where the loop is in the last document (`Cursor`), and that a
  list with room belongs to a term that has its entry (`Entered`). `Reading(t)`,
  the documents of which a term was read, grows by one document exactly when a
  token occurs first (`ReadingOneMore`), and then the frequency counted from there
  on is that in the whole text (`FirstCountsAll`).
- `IndexTypeCorrect` (`TypeOK`), from `TypeInv`, which adds what a call has checked
  before it registers (`Fresh`): identifiers are distinct and no array overflows.
- `SearchReturnsBestHits` (`BestHits`): a search returns the best documents with a
  term of the query, as many as fit, in order. The scan is a fold whose invariant
  (`Best`) says that the list holds as many of the documents read as there is room
  for and that each one left out scores no more than any of the list (`KeepStep`:
  the one replaced has the lowest score, `WorstIsLowest`). Hits with different
  identifiers have an order (`OrderExists`) and it is total, so what `qsort` leaves
  is sorted (`SortedOrders`). That the documents with a positive score are those
  with a term of the query follows from `PostingsExact` (`MatchingIsFound`).

### The components of Components

These theorems state the properties that the run `components` checks. Each rests
on an invariant of its component, inductive while that component moves
(`StoreSteps`, `SearchSteps`, `ModelSteps`: a step is one of it or changes nothing
of it).

ComponentProofs, the stores:

- `ArenaBlocksApart` (`BlocksApart`): blocks lie in the pool, aligned and apart, for
  every word size, alignment, pool and sequence of requests. The sums do not wrap
  because both comparisons subtract from the capacity.
- `BridgeHandlesName` (`HandlesName`): an identifier handed out since the last
  `clear` names one document, the one added under it; inductive with `Numbered`,
  the i-th document has identifier i.
- `StoreInPlace` (`StoredInPlace`), from `StoreInv`: in every order of the calls a
  stored row has each argument in the column of its name. For a source this is the
  numbering of its seven texts (`SourceRow`); a document's row, in which three
  arguments stand elsewhere, lacks its status and is refused (`DocumentRefused`), and
  chunks and claims need a document (`OrphanRefused`).
- `GraphEdgesListed` (`EdgesListedOnce`), from `GraphInv`: what a node lists is the
  subsequence of the edges that leave it. The loops that append and that look for
  a node are folds.

ComponentProofs, search and evidence:

- `PageIdentifiersUnused` (`IdentifierUnused`): the next identifier is above all
  those in the index.
- `FrontierIsSound` (`FrontierSound`), from `FrontierInv`: the links of a page are
  enqueued by a fold that keeps the queue within its storage, without duplicates
  and within the depth.
- `UrlsAreSound` (`UrlsSound`): a canonical URL is a scheme, a host that
  canonicalisation leaves as it is and a tail (`Clean`, `CanonicalIsClean`,
  `CleanIsCanonical`). The loop over dot segments keeps the slash that a path starts
  with (`NormalizeKeeps`, a fold), so that a relative reference of a page with a
  path is put behind the page's host (`ResolveIs`, `ReferenceCleans`) and stays on
  its site; a reference of a page without one may lengthen the host but leaves no
  port to take away (`HostGrows`). With the assumption that ports follow hosts in
  seeds and links (`PortsFollowHosts`) whatever waits in the frontier is canonical.
- `LongestRuleDecides` (`RobotsDecision`): the one pass over a robots file, with its
  two flags and its best rule so far, gives what the definition over all rules of
  the agent's groups gives. The invariant of the fold (`BestKept`) says so of the
  lines read, and whether they end in a group of the agent (`InGroup`).
- `EvidenceGraphSound` (`GraphSound`) and `UnverifiedIsSilent`
  (`UnverifiedMovesNothing`), from `EvidenceInv`: the second adds that only a
  verification gives an envelope a confidence (`VerifiedOnly`), and that a sum of
  contributions without any is zero.

ComponentModelsProofs:

- `IdentityClaimsBacked` (`ClaimsBacked`), from `IdentityInv`: whatever the order of
  capture, hashing and manifests, an answer about the weights comes from the
  manifest read last and never against a known mismatch, and so do the model that
  the text report names and, with known provenance, the one of the JSON; inductive
  with what each field remembers of that manifest.
- `LoadedFlagMeansWhole` (`LoadedIsWhole`), from `BlockInv`, in which only a valid
  configuration has a block; `ConvertedMaps` shows that the engine's count of a
  block's floats and NiyahMini's own agree for every valid configuration.
- `LogitsAreSound` (`LogitsSound`): whenever a token is picked, its logits were
  computed from exactly the text so far and from tensors inside the blob. One
  layer changes one entry of the cache (`LayerStep`), so a pass over all layers
  that starts from a cache filled with the text before leaves one filled with the
  token too, and its hidden state is the whole text (`ForwardSeesAll`, by a fold
  over the layers). `GenerationInv` says of a running `niyah_llm_generate` which
  part of its tokens was read (`Read`), that the cache is filled with it and that
  the blob fits once a pass succeeded; `ContextInv` says the same of NiyahMini, whose
  cache may hold entries of any earlier call beyond the text. Tokens are identifiers
  because each step of the tokenizer reaches further in the text (`BestReaches`,
  `TokensUnfold`). `TensorsTile` adds up the sizes of the tensors (`SumConcat`,
  `LayersLaid`): for every configuration with a shape their end is the number of
  floats that the loader asked for, head included.
- `ConnectivesAreStrong`, `ConnectivesAreMonotone`, `DeMorgan`: a connective answers
  exactly when every way to settle its operands gives that answer, and learning
  more about them never takes an answer back.

TokenizerProofs:

- `RoundTripHolds` (`RoundTrip`), for every vocabulary and every text. A tokenizer
  scans: at each place its recursion gives one token and goes on further behind
  (`Says`). The invariant of decoding is that the first tokens say the text up to
  the place from which the remaining ones were taken (`SaysSoFar`, `SaysOn`), so all
  of them say the text and the first ones a prefix of it (`SaysAll`). What is left
  is that a token says what stands at its place. For `niyah_tokenize` that is the
  longest match, unless it is a byte token that is spelled in the text, or the
  fallback, whose identifier is taken for no entry if the vocabulary covers the
  text (`MatchSays`, `FallbackSays`, `CoveredSays`); without that condition each
  token still decodes to a part of the text or to `<unk>` (`TokensAreSpoken`). For
  NiyahMini it is the longest entry, which exists because the vocabulary was built
  from the text: the loops over names and over bytes add an entry for each symbol
  that occurs, and fail at byte 0 (`NamesAdded`, `BytesAdded`, `BuiltIs`, with
  `CountIs`: a byte is counted if and only if it occurs). The theorem about the
  state needs of `GenerationInv` only that the vocabulary is one of those loaded.
  `VocabAssumption` says that the names of special tokens and all bytes together
  fit into `NIYAH_MAX_VOCAB` (13 names and 256 bytes in the code).

### Only model-checked

Liveness (`Recovers`, `Terminates`, `Returns`, `CrawlEnds`) depends on fairness,
which the prover does not support. All other properties of the passing runs have
a theorem. The violations of section 6 need a run, not a proof.

## 6. Findings

1. `pull_race_blob` (`native/niyah_cli.c:692`). A niyah killed while it waits for
   curl (line 344) leaves curl running. The next pull lets its own curl write the
   same `.part`, verifies and links it, and the curl left behind, which still has
   it open, writes into the installed blob. From then on every pull of that
   artifact returns 5. One niyah at a time is enough for this; two overlapping
   pulls do the same to each other.
2. `pull_race_manifest` (`native/niyah_cli.c:765`). `copy_file` reads the shared
   cache file again after the artifact loop; another pull, or the curl that a killed
   one left behind, may have truncated it by then. The pull reports success and
   `inspect` then returns 4.
3. `csp_first_solution` (`native/constraint_solver.c:215`). The header says the
   variables hold the first solution after `solve`; they are unassigned.
4. `index_rollback` (`search/niyah_index.c:479`). `README.md:107` promises
   "checkpoint/rollback on insert failure". `add_document` registers the document
   and returns false when a posting list cannot grow, undoing nothing; the half
   indexed document is found by some of its terms, counts in every statistic,
   and cannot be inserted again.
5. `mini_untrained` (`native/niyah_mini/niyah_mini_bridge.c:184`). The header
   (lines 13-14) promises `NIYAH_ERR_NO_WEIGHTS` and no text when no weights are
   loaded. `niyah_mini_to_niyah_model` copies the block whether or not a file was
   read into it; after `init` alone it holds small numbers, after a broken read a
   mixture, and `niyah_llm_generate` answers from it.
6. `local_store` (`storage/local_store.c:185`). `insert_document` names eleven
   columns and binds ten texts, with an integer over the eighth: the arguments
   behind it stand one column early, `status` stays NULL and the row is refused.
   The header declares the call and `storage/README.md:11` counts documents, chunks
   and claims to the logical model; none of them can be stored.

Seen without a run of their own:

- `constraint_solver.h:32-37` and `:100-103` say that `add_constraint` refuses a
  constraint that contradicts an earlier one; the function contains no such test
  and never returns that status.
- `search/search_engine.cpp:112-114` uses fields `url`, `title` and an array
  `text` that `search/niyah_index.h` does not declare.
- The robots rules are never consulted by the crawl, although `search/README.md:7`
  says the crawler must obey robots.txt.
- A `.part` with some bytes of an artifact whose server does not answer range
  requests stays for good (`native/niyah_cli.c:692`): curl refuses to resume it each
  time, and only a part that fails verification is removed.
- `niyah_identity.h:126` calls the JSON report "Same content as flat JSON". It prints
  `model_name` also when the provenance is unknown (`native/niyah_identity.c:550`),
  where the text report refuses to name one: after a second manifest without a name
  that is the name of the first. It also gives hash and match without loaded weights
  and carries no warning that the fields are void.
- A page known by a query alone (`http://h?q`) has no directory: its reference
  `x` resolves to the host `hx`. `LinksStayOnSite`, a part of `UrlsSound`, excludes
  exactly that case.
- `http://:80/` has a port and no host. `niyah_url_canonicalize` takes the port away
  and leaves `http:///`, which is enqueued although the function refuses it.
  `SearchAssumption` leaves such texts out (`PortsFollowHosts`).
- `niyah_mini_wrapped_generate` never generates: with a tokenizer it asks for the
  number of tokens with no room for any, which `niyah_tokenize` refuses; without
  one it builds a byte vocabulary, which fails on byte 0. `WrappedStatus` shows
  each outcome.
- A NiyahMini vocabulary with the token of a line end does not survive `save` and
  `load`: it is written as an empty line, which is skipped, and the identifiers
  after it shift.
- `test_niyah_mini_vocab.c:85-88` expects two tokens for "hello world" from a
  vocabulary to which it has added a space; the tokenizer finds three.
- `niyah_identity.h:103` speaks of "verified provenance"; `niyah_identity_is`
  answers TRUE for a manifest whose hash was never compared. A manifest without a
  hash keeps the match that an earlier one earned.
- Grouped heads share keys by `h / group` in `niyah_attention.c:229` and by
  `h % kv_heads` in `niyah_mini_model.c:508`: a block converted from NiyahMini is
  read differently when 1 < kv_heads < heads.
- A prompt that fills the context makes `niyah_llm_generate` return
  `NIYAH_ERR_SHAPE`, not an empty text.

## 7. Not modelled

Inside modelled components: the grammar of manifests and versions, path
construction and directory creation; the Windows branches (`MoveFileEx`), which
have their own atomicity; durability (the code never calls fsync, so a power
failure may lose or reorder what a killed process would have kept); what curl does
beyond writing, failing and ending (its own retries, its timeouts); a user who
edits the store by hand; SHA-256 collisions; `--max-tokens` of `run`; JSON
scanners and writers; `is_self_query`, a list of phrases; `html_extract` and DNS,
which appear as sets of what they may yield; products that overflow `size_t` in
the size of a huge configuration; the batched forms of attention and of a layer,
which generation does not call; training, saving and the evidence envelope of
NiyahMini (string formatting).

Whole components, with status `not_modelled`: the sampler and the embedding
(floating point and pseudo-random numbers; `Inference` lets the sampler pick any
token), the numeric kernels and SHA-256 (arithmetic out of TLC's reach), the
native containers for documents, sources and telemetry (arrays that are appended
to), the token tax benchmark (an offline tool), the Python pipelines (batch
scripts), the SQL schemas for databases that no code opens, and the desktop
front end.
