---------------------------- MODULE SearchEngine ----------------------------
(***************************************************************************)
(* The search engine (search/search_engine.cpp) over the crawl frontier    *)
(* (Crawler), URL handling (Url), the fetch of a page (http_fetch.cpp) and *)
(* the inverted index, of which only the answer of add_document is kept    *)
(* here (InvertedIndex models it).  The web is external: which authorities *)
(* resolve to an address the fetch policy accepts, what a server answers   *)
(* and which references a page holds.                                      *)
(***************************************************************************)
EXTENDS Url, Crawler, FiniteSets

CONSTANTS
  SeedUrls,      \* texts users pass to seed
  References,    \* [canonical URL -> references on that page, in order]
  Reachable,     \* authorities with an address the policy accepts
  BodySizes,     \* sizes of bodies servers send
  MaxBody,       \* max_body_bytes
  MaxDepth,      \* max_depth
  MaxDocuments,  \* max_documents
  MaxSeeds,      \* bound: calls of seed
  Limits         \* limits callers pass to search

\* The links of all pages, and the tokens that texts consist of
LinkTexts ==
  UNION {{References[page][i] : i \in DOMAIN References[page]} : page \in DOMAIN References}
Words == UNION {Range(text) : text \in SeedUrls \cup LinkTexts \cup DOMAIN References}

SearchAssumption ==
  /\ MaxDepth \in Nat /\ MaxDocuments \in Nat /\ MaxSeeds \in Nat
  /\ BodySizes \subseteq Nat /\ MaxBody \in Nat \ {0} /\ Limits \subseteq Nat
  /\ Capacity >= MaxDocuments
  /\ \A page \in DOMAIN References :
       /\ References[page] \in Seq({References[page][i] : i \in DOMAIN References[page]})
       /\ Canonical(page)
  /\ SeedUrls \cup LinkTexts \cup DOMAIN References \subseteq Seq(Words)
  /\ \A text \in SeedUrls \cup LinkTexts : PortsFollowHosts(text)

VARIABLES
  frontier,           \* frontier_
  fetched_documents,  \* fetched_documents_
  next_document_id,   \* next_document_id_
  documents,          \* index_: document identifier -> url
  results,            \* what the last search returned
  seeds,              \* bound: calls of seed so far
  crawled             \* history: identifiers of the calls that returned 1

vars == <<frontier, fetched_documents, next_document_id, documents, results,
          seeds, crawled>>

-----------------------------------------------------------------------------
(* http_get                                                                *)

NoAnswer == [status |-> 0, body |-> 0]

\* One host and at most one port, no "localhost", and an address that the
\* policy accepts
PolicyAccepts(url) ==
  LET authority == AuthorityOf(url)[2]
  IN  /\ IsAbsolute(url)
      /\ authority # <<>> /\ authority[1] # "localhost"
      /\ authority \in Reachable

\* The body arrives whole or, over the limit, the transfer fails
Transfers(sizes) == {size \in sizes : size <= MaxBody}

\* A redirect is an answer like any other: FOLLOWLOCATION is off.  NoAnswer
\* is also what every failure of curl yields.
HttpGet(url) ==
  {NoAnswer}
    \cup (IF PolicyAccepts(url)
          THEN [status : {200, 301, 404}, body : Transfers(BodySizes)] ELSE {})

-----------------------------------------------------------------------------

Init ==
  /\ frontier = <<>> /\ documents = <<>>
  /\ fetched_documents = 0 /\ next_document_id = 1
  /\ results = <<>> /\ seeds = 0 /\ crawled = {}

Seed(text) ==
  LET url == Canonicalize(text)
  IN  /\ seeds < MaxSeeds
      /\ seeds' = seeds + 1
      /\ frontier' = IF url # Refused /\ fetched_documents < MaxDocuments
                     THEN Enqueue(frontier, url, 0) ELSE frontier
      /\ UNCHANGED <<fetched_documents, next_document_id, documents, results, crawled>>

Links(url) == IF url \in DOMAIN References THEN References[url] ELSE <<>>

\* What the links of a page do to a queue, given the count after this page
Follow(queue, page, depth, count) ==
  IF depth >= MaxDepth \/ count >= MaxDocuments THEN queue
  ELSE FoldLeft(LAMBDA q, link : Enqueue(q, Resolve(page, link), depth + 1),
                queue, Links(page))

CanCrawl == fetched_documents < MaxDocuments /\ frontier # <<>>

\* The page could not be had: the item is gone and nothing else happens.
\* (No queued item is deeper than MaxDepth, so the test of line 85 never bites.)
FetchFails ==
  /\ CanCrawl
  /\ \E answer \in HttpGet(Head(frontier).url) :
       answer.status # 200 \/ answer.body = 0
  /\ frontier' = Pop(frontier)
  /\ UNCHANGED <<fetched_documents, next_document_id, documents, results, seeds, crawled>>

Fetched(url) == \E answer \in HttpGet(url) : answer.status = 200 /\ answer.body > 0

\* Mutant: the identifier of a page is its place among the pages counted
TakeIdentifierCounted == fetched_documents + 1

TakeIdentifier == next_document_id

WithDocument(id, url) ==
  [d \in DOMAIN documents \cup {id} |-> IF d = id THEN url ELSE documents[d]]

\* add_document fails before or after it registered the document; either way
\* its identifier is used up and its links are not followed
IndexFails ==
  LET id == TakeIdentifier
      url == Head(frontier).url
  IN  /\ CanCrawl /\ Fetched(url)
      /\ frontier' = Pop(frontier)
      /\ next_document_id' = id + 1
      /\ \/ UNCHANGED documents
         \/ id \notin DOMAIN documents /\ documents' = WithDocument(id, url)
      /\ UNCHANGED <<fetched_documents, results, seeds, crawled>>

PageIndexed ==
  LET id == TakeIdentifier
      item == Head(frontier)
  IN  /\ CanCrawl /\ Fetched(item.url) /\ id \notin DOMAIN documents
      /\ documents' = WithDocument(id, item.url)
      /\ next_document_id' = id + 1
      /\ fetched_documents' = fetched_documents + 1
      /\ crawled' = crawled \cup {id}
      /\ frontier' = Follow(Pop(frontier), item.url, item.depth, fetched_documents + 1)
      /\ UNCHANGED <<results, seeds>>

\* crawl_once; with nothing to do or the limit reached it returns 0
CrawlOnce == FetchFails \/ IndexFails \/ PageIndexed

\* Any documents may match, in any order of scores
Search(limit) ==
  /\ \E hits \in SUBSET DOMAIN documents :
       /\ Cardinality(hits) <= limit
       /\ results' = [id \in hits |-> documents[id]]
  /\ UNCHANGED <<frontier, fetched_documents, next_document_id, documents, seeds, crawled>>

Next ==
  \/ \E text \in SeedUrls : Seed(text)
  \/ CrawlOnce
  \/ \E limit \in Limits : Search(limit)

Spec == Init /\ [][Next]_vars

\* A caller that crawls keeps calling crawl_once until it returns 0 twice
LiveSpec == Spec /\ WF_vars(CrawlOnce)

-----------------------------------------------------------------------------
(* Properties                                                              *)

\* The queue fits its storage and holds no item deeper than the configuration
\* allows.
TypeOK ==
  /\ Len(frontier) <= Capacity
  /\ \A i \in DOMAIN frontier :
       frontier[i].depth \in 0 .. MaxDepth /\ frontier[i].url # Refused
  /\ fetched_documents \in 0 .. MaxDocuments
  /\ next_document_id \in Nat \ {0}
  /\ crawled \subseteq DOMAIN documents

\* However seeds and the links of many pages interleave, and whatever was
\* refused when the queue was full, no URL waits in the frontier twice.
QueuedOnce ==
  \A i, j \in DOMAIN frontier : frontier[i].url = frontier[j].url => i = j

\* URLs wait in the form that the search for duplicates compares.
QueueCanonical == \A i \in DOMAIN frontier : Canonical(frontier[i].url)

\* The identifier the next page gets was never given before, also when the
\* index failed after it registered a document: add_document can then not
\* refuse the page as a duplicate, and a result a caller kept names one page.
IdentifierUnused == TakeIdentifier \notin DOMAIN documents

\* A relative reference stays on the scheme and the authority of its page, if
\* the page's URL has a path.  (A page known by a query alone, "http://h?q",
\* has no directory: its reference "x" becomes the host "hx".)
LinksStayOnSite ==
  \A page \in DOMAIN References : \A i \in DOMAIN References[page] :
    LET link == References[page][i]
        url  == Resolve(page, link)
    IN  (/\ page[Find(Tail(page), {"/", "?"}) + 1] = "/"
         /\ ~IsAbsolute(link) /\ ~IsNetworkPath(link))
          => url = Refused \/ AuthorityOf(url) = AuthorityOf(page)

\* Of the rules that match a path in the groups of the agent the longest
\* decides, an Allow before a Disallow of its length, wherever they stand.
LongestRuleDecides(path, body, agent) ==
  LET Group(i) == SelectLastInSubSeq(body, 1, i, LAMBDA l : l.field = "User-agent")
      rules == {i \in DOMAIN body :
                  /\ body[i].field \in {"Allow", "Disallow"} /\ body[i].value # <<>>
                  /\ IsPrefix(body[i].value, path)
                  /\ Group(i) > 0 /\ body[Group(i)].value \in {agent, "*"}}
      longest == {i \in rules : \A j \in rules : Len(body[i].value) >= Len(body[j].value)}
  IN  RobotsPathAllowed(path, body, agent)
        <=> (rules = {} \/ \E i \in longest : body[i].field = "Allow")

\* Every crawl ends, whatever fails: the caller's loop runs out of queue or
\* reaches the limit although pages link to each other.
CrawlEnds == (frontier # <<>>) ~> ~CanCrawl

=============================================================================
