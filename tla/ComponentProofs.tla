---------------------------- MODULE ComponentProofs ----------------------------
(***************************************************************************)
(* Search engine and frontier, URLs, robots rules and evidence, the arena, *)
(* the document store of the bridge, the local store and the knowledge     *)
(* graph, for all webs, files, capacities and texts and all sequences of   *)
(* calls.  The components share no state: each invariant is kept by the    *)
(* steps of its own component, and asked only where that component runs.   *)
(* What their loops do is shown by FoldTheorems.                           *)
(***************************************************************************)
EXTENDS Components, SequenceTheorems, TLAPS

\* A step is one of the component that runs, or changes nothing of it.
LEMMA SearchSteps ==
  ASSUME [Next]_vars
  PROVE  /\ part' = part
         /\ part = "search" => S!Next \/ UNCHANGED sVars
         /\ part = "robots" => ReadOn \/ UNCHANGED robots
         /\ part = "evidence" => E!Next \/ UNCHANGED eVars
BY DEF Next, vars, OnlySearch, OnlyRobots, OnlyEvidence, OnlyBridge, OnlyGraph, OnlyArena,
       OnlyStore, OnlyGeneration, OnlyIdentity, OnlyMini

-----------------------------------------------------------------------------
(* Identifiers of pages                                                    *)

\* Identifiers are taken in order, also by pages that were not indexed
IdentifierInv ==
  /\ next_document_id \in Nat \ {0}
  /\ DOMAIN documents \subseteq Nat
  /\ \A id \in DOMAIN documents : id < next_document_id
  /\ crawled \subseteq DOMAIN documents

\* The page that takes an identifier is the only document that can have it.
LEMMA TakenOnce ==
  ASSUME IdentifierInv, NEW url, next_document_id' = next_document_id + 1,
         \/ documents' = documents /\ crawled' = crawled
         \/ /\ documents' = S!WithDocument(next_document_id, url)
            /\ crawled' \subseteq crawled \cup {next_document_id}
  PROVE  IdentifierInv'
<1>1. /\ DOMAIN documents' \subseteq DOMAIN documents \cup {next_document_id}
      /\ crawled' \subseteq DOMAIN documents'
  BY DEF S!WithDocument, IdentifierInv
<1> QED
  BY <1>1 DEF IdentifierInv

LEMMA IdentifierInvariant == Spec => [](part = "search" => IdentifierInv)
<1>1. Init => (part = "search" => IdentifierInv)
  BY DEF Init, S!Init, IdentifierInv
<1>2. (part = "search" => IdentifierInv) /\ [Next]_vars => (part = "search" => IdentifierInv)'
  <2> SUFFICES ASSUME part = "search", IdentifierInv, S!Next \/ UNCHANGED sVars
               PROVE  IdentifierInv'
    BY SearchSteps
  <2>1. ASSUME UNCHANGED <<next_document_id, documents, crawled>> PROVE IdentifierInv'
    BY <2>1 DEF IdentifierInv
  <2>2. ASSUME NEW text \in SeedUrls, S!Seed(text) PROVE IdentifierInv'
    BY <2>1, <2>2 DEF S!Seed
  <2>3. ASSUME S!FetchFails PROVE IdentifierInv'
    BY <2>1, <2>3 DEF S!FetchFails
  <2>4. ASSUME S!IndexFails PROVE IdentifierInv'
    BY <2>4, TakenOnce DEF S!IndexFails, S!TakeIdentifier
  <2>5. ASSUME S!PageIndexed PROVE IdentifierInv'
    BY <2>5, TakenOnce DEF S!PageIndexed, S!TakeIdentifier
  <2>6. ASSUME NEW limit \in Limits, S!Search(limit) PROVE IdentifierInv'
    BY <2>1, <2>6 DEF S!Search
  <2> QED
    BY <2>1, <2>2, <2>3, <2>4, <2>5, <2>6 DEF S!Next, S!CrawlOnce, sVars
<1> QED
  BY <1>1, <1>2, PTL DEF Spec

\* A page never gets the identifier of a stored document, not even after the
\* index failed half way through an earlier page (crawl_once,
\* search_engine.cpp): add_document cannot refuse it as a duplicate.
THEOREM PageIdentifiersUnused == Spec => []IdentifierUnused
<1>1. (part = "search" => IdentifierInv) => IdentifierUnused
  BY DEF IdentifierInv, IdentifierUnused, S!IdentifierUnused, S!TakeIdentifier
<1> QED
  BY <1>1, IdentifierInvariant, PTL

-----------------------------------------------------------------------------
(* The frontier                                                            *)

\* The texts of links, and the URLs that seeds and links can become
Link == UNION {{References[page][i] : i \in DOMAIN References[page]} : page \in DOMAIN References}
QueueUrl ==
  {S!Canonicalize(text) : text \in SeedUrls}
    \cup UNION {{S!Resolve(page, link) : link \in Link} : page \in DOMAIN References}
QueueItem == [url : QueueUrl, depth : 0 .. MaxDepth]

QueueSound(queue) ==
  /\ queue \in Seq(QueueItem) /\ Len(queue) <= Capacity
  /\ \A i \in DOMAIN queue : queue[i].url # S!Refused
  /\ \A i, j \in DOMAIN queue : queue[i].url = queue[j].url => i = j

FrontierInv ==
  /\ QueueSound(frontier)
  /\ fetched_documents \in 0 .. MaxDocuments

\* S!Follow as a loop over the links of a page; p is [queue, page, depth]
BeforeLinks(p) == p.queue
FollowLink(p, queue, link) == S!Enqueue(queue, S!Resolve(p.page, link), p.depth + 1)
QueueKept(p, s, queue) ==
  /\ p.page \in DOMAIN References /\ p.depth + 1 \in 0 .. MaxDepth /\ QueueSound(p.queue)
  => QueueSound(queue)
Following == INSTANCE FoldTheorems
  WITH T <- Link, Base <- BeforeLinks, Op <- FollowLink, P <- QueueKept

LEMMA EnqueueSound ==
  ASSUME S!FrontierAssumption, NEW queue, QueueSound(queue), NEW url \in QueueUrl,
         NEW depth \in 0 .. MaxDepth
  PROVE  QueueSound(S!Enqueue(queue, url, depth))
<1>1. CASE S!Decision(queue, url) # "allow"
  BY <1>1 DEF S!Enqueue
<1>2. CASE S!Decision(queue, url) = "allow"
  <2>1. url # S!Refused /\ Len(queue) < Capacity /\ ~S!Queued(queue, url)
    BY <1>2 DEF S!Decision, S!Refused, QueueSound, S!FrontierAssumption
  <2> SUFFICES ASSUME NEW item, item = S!Item(url, depth), NEW t, t = Append(queue, item)
               PROVE  QueueSound(t)
    BY <1>2 DEF S!Enqueue
  <2>2. item \in QueueItem /\ item.url = url
    BY DEF S!Item, QueueItem
  <2>3. /\ t \in Seq(QueueItem) /\ Len(t) = Len(queue) + 1 /\ t[Len(t)] = item
        /\ DOMAIN t = 1 .. Len(t) /\ DOMAIN queue = 1 .. Len(queue) /\ Len(queue) \in Nat
        /\ \A i \in DOMAIN queue : t[i] = queue[i]
    BY <2>2 DEF QueueSound
  <2>4. Len(t) <= Capacity
    BY <2>1, <2>3 DEF S!FrontierAssumption
  <2>5. \A i \in DOMAIN t : t[i].url # S!Refused
    BY <2>1, <2>2, <2>3 DEF QueueSound
  <2>6. \A i, j \in DOMAIN t : t[i].url = t[j].url => i = j
    BY <2>1, <2>2, <2>3 DEF QueueSound, S!Queued
  <2> QED
    BY <2>3, <2>4, <2>5, <2>6 DEF QueueSound
<1> QED
  BY <1>1, <1>2

LEMMA PopSound ==
  ASSUME S!FrontierAssumption, NEW queue, QueueSound(queue), queue # <<>>
  PROVE  QueueSound(S!Pop(queue)) /\ Head(queue) \in QueueItem
<1> SUFFICES ASSUME NEW t, t = Tail(queue) PROVE QueueSound(t) /\ Head(queue) \in QueueItem
  BY DEF S!Pop
<1>1. /\ t \in Seq(QueueItem) /\ Len(t) = Len(queue) - 1 /\ Len(queue) \in Nat
      /\ DOMAIN t = 1 .. Len(t) /\ DOMAIN queue = 1 .. Len(queue)
      /\ \A i \in DOMAIN t : i + 1 \in DOMAIN queue /\ t[i] = queue[i + 1]
      /\ Head(queue) \in QueueItem
  BY DEF QueueSound
<1>2. \A i, j \in DOMAIN t : t[i].url = t[j].url => i = j
  BY <1>1 DEF QueueSound
<1>3. Len(t) <= Capacity /\ \A i \in DOMAIN t : t[i].url # S!Refused
  BY <1>1 DEF QueueSound, S!FrontierAssumption
<1> QED
  BY <1>1, <1>2, <1>3 DEF QueueSound

LEMMA LinksKeepQueue ==
  ASSUME S!FrontierAssumption, NEW p
  PROVE  \A s \in Seq(Link) : QueueKept(p, s, Following!Fold(p, s))
<1>1. QueueKept(p, <<>>, BeforeLinks(p))
  BY DEF QueueKept, BeforeLinks
<1>2. ASSUME NEW s \in Seq(Link), NEW link \in Link, NEW queue, QueueKept(p, s, queue)
      PROVE  QueueKept(p, Append(s, link), FollowLink(p, queue, link))
  <2> SUFFICES ASSUME p.page \in DOMAIN References, p.depth + 1 \in 0 .. MaxDepth,
                      QueueSound(p.queue)
               PROVE  QueueSound(FollowLink(p, queue, link))
    BY DEF QueueKept
  <2>1. QueueSound(queue)
    BY <1>2 DEF QueueKept
  <2>2. S!Resolve(p.page, link) \in QueueUrl
    BY DEF QueueUrl
  <2> QED
    BY <2>1, <2>2, EnqueueSound DEF FollowLink
<1> QED
  BY <1>1, <1>2, Following!FoldInduction

LEMMA FollowSound ==
  ASSUME S!FrontierAssumption, S!SearchAssumption, NEW queue, QueueSound(queue), NEW page,
         NEW depth \in 0 .. MaxDepth, NEW count
  PROVE  QueueSound(S!Follow(queue, page, depth, count))
<1> DEFINE p == [queue |-> queue, page |-> page, depth |-> depth]
<1>1. CASE depth >= MaxDepth \/ count >= MaxDocuments
  BY <1>1 DEF S!Follow
<1>2. CASE ~(depth >= MaxDepth \/ count >= MaxDocuments)
  <2>1. S!Follow(queue, page, depth, count) = Following!Fold(p, S!Links(page))
    BY <1>2 DEF S!Follow, S!FoldLeft, S!MapThenFoldSet, S!Max, Following!Fold,
       Following!FoldLeft, Following!MapThenFoldSet, Following!Max, BeforeLinks, FollowLink
  <2>2. p.queue = queue /\ p.page = page /\ p.depth + 1 \in 0 .. MaxDepth
    BY <1>2 DEF S!SearchAssumption
  <2> HIDE DEF p
  <2>3. CASE page \in DOMAIN References
    <3>1. References[page] \in Seq(Link)
      <4> DEFINE Here == {References[page][i] : i \in DOMAIN References[page]}
      <4>1. References[page] \in Seq(Here)
        BY <2>3 DEF S!SearchAssumption
      <4>2. Here \subseteq Link
        BY <2>3 DEF Link
      <4> HIDE DEF Here
      <4> QED
        BY <4>1, <4>2
    <3>2. QueueKept(p, References[page], Following!Fold(p, References[page]))
      BY <3>1, LinksKeepQueue
    <3> QED
      BY <2>1, <2>2, <2>3, <3>2 DEF QueueKept, S!Links
  <2>4. CASE page \notin DOMAIN References
    <3>1. Following!Fold(p, <<>>) = BeforeLinks(p)
      BY Following!FoldEmpty
    <3> QED
      BY <2>1, <2>2, <2>4, <3>1 DEF S!Links, BeforeLinks
  <2> QED
    BY <2>3, <2>4
<1> QED
  BY <1>1, <1>2

LEMMA FrontierInvariant == Spec => [](part = "search" => FrontierInv)
<1> USE Assumptions DEF Assumptions
<1>1. Init => (part = "search" => FrontierInv)
  BY DEF Init, S!Init, FrontierInv, QueueSound, S!FrontierAssumption, S!SearchAssumption
<1>2. (part = "search" => FrontierInv) /\ [Next]_vars => (part = "search" => FrontierInv)'
  <2> SUFFICES ASSUME part = "search", FrontierInv, S!Next \/ UNCHANGED sVars
               PROVE  FrontierInv'
    BY SearchSteps
  <2>1. ASSUME NEW text \in SeedUrls, S!Seed(text) PROVE FrontierInv'
    <3>1. S!Canonicalize(text) \in QueueUrl /\ 0 \in 0 .. MaxDepth
      BY DEF QueueUrl, S!SearchAssumption
    <3>2. QueueSound(S!Enqueue(frontier, S!Canonicalize(text), 0))
      BY <3>1, EnqueueSound DEF FrontierInv
    <3> QED
      BY <2>1, <3>2 DEF S!Seed, FrontierInv
  <2>2. ASSUME frontier # <<>>, frontier' = S!Pop(frontier), UNCHANGED fetched_documents
        PROVE  FrontierInv'
    BY <2>2, PopSound DEF FrontierInv
  <2>3. ASSUME S!PageIndexed PROVE FrontierInv'
    <3>1. /\ fetched_documents < MaxDocuments /\ frontier # <<>>
          /\ fetched_documents' = fetched_documents + 1
          /\ frontier' = S!Follow(S!Pop(frontier), Head(frontier).url, Head(frontier).depth,
                                  fetched_documents + 1)
      BY <2>3 DEF S!PageIndexed, S!CanCrawl
    <3>2. QueueSound(S!Pop(frontier)) /\ Head(frontier).depth \in 0 .. MaxDepth
      BY <3>1, PopSound DEF FrontierInv, QueueItem
    <3>3. QueueSound(frontier')
      BY <3>1, <3>2, FollowSound
    <3> QED
      BY <3>1, <3>3 DEF FrontierInv, S!SearchAssumption
  <2>4. ASSUME UNCHANGED <<frontier, fetched_documents>> PROVE FrontierInv'
    BY <2>4 DEF FrontierInv
  <2> QED
    BY <2>1, <2>2, <2>3, <2>4 DEF S!Next, S!CrawlOnce, S!FetchFails, S!IndexFails, S!Search,
       S!CanCrawl, sVars
<1> QED
  BY <1>1, <1>2, PTL DEF Spec

\* However seeds, failures and the links of pages interleave, no URL waits in the
\* frontier twice, none is empty or deeper than the configuration allows, and the
\* queue and the number of pages stay within their limits (niyah_frontier_enqueue,
\* seed, crawl_once).
THEOREM FrontierIsSound == Spec => []FrontierSound
<1>1. ASSUME FrontierInv, IdentifierInv PROVE S!TypeOK /\ S!QueuedOnce
  <2>1. \A i \in DOMAIN frontier : frontier[i] \in QueueItem
    BY <1>1 DEF FrontierInv, QueueSound
  <2>2. \A i \in DOMAIN frontier :
          frontier[i].depth \in 0 .. MaxDepth /\ frontier[i].url # S!Refused
    BY <1>1, <2>1 DEF FrontierInv, QueueSound, QueueItem
  <2> QED
    BY <1>1, <2>2 DEF FrontierInv, QueueSound, IdentifierInv, S!TypeOK, S!QueuedOnce
<1>2. (part = "search" => FrontierInv) /\ (part = "search" => IdentifierInv) => FrontierSound
  BY <1>1 DEF FrontierSound
<1> QED
  BY <1>2, FrontierInvariant, IdentifierInvariant, PTL

-----------------------------------------------------------------------------
(* URLs                                                                    *)

\* The tokens of URLs
Token == S!Words \cup S!Schemes \cup {Lower[t] : t \in DOMAIN Lower} \cup {"/"}
Marks == {"/", "?", "#"}

Without(s, marks) == \A i \in DOMAIN s : s[i] \notin marks

\* A part of a text
LEMMA PartOf ==
  ASSUME NEW s \in Seq(Token), NEW m \in Nat, NEW n \in Nat, m > 0, n <= Len(s)
  PROVE  /\ SubSeq(s, m, n) \in Seq(Token)
         /\ m <= n => Len(SubSeq(s, m, n)) = n - m + 1
         /\ n < m => SubSeq(s, m, n) = <<>>
         /\ \A i \in 1 .. n - m + 1 : SubSeq(s, m, n)[i] = s[m + i - 1]
<1>1. \A i \in m .. n : s[i] \in Token
  OBVIOUS
<1>2. m \in Int /\ n \in Int
  OBVIOUS
<1>3. /\ SubSeq(s, m, n) \in Seq(Token)
      /\ Len(SubSeq(s, m, n)) = IF m <= n THEN n - m + 1 ELSE 0
      /\ \A i \in 1 .. n - m + 1 : SubSeq(s, m, n)[i] = s[m + i - 1]
  BY <1>1, <1>2, SubSeqProperties
<1>4. n < m => SubSeq(s, m, n) = <<>>
  BY <1>2, SubSeqEmpty
<1> QED
  BY <1>3, <1>4

LEMMA StartOf ==
  ASSUME NEW s \in Seq(Token), NEW k \in Nat, k <= Len(s)
  PROVE  /\ SubSeq(s, 1, k) \in Seq(Token) /\ Len(SubSeq(s, 1, k)) = k
         /\ \A i \in 1 .. k : SubSeq(s, 1, k)[i] = s[i]
OBVIOUS

\* Two texts one after the other
LEMMA Joined ==
  ASSUME NEW b \in Seq(Token), NEW a \in Seq(Token)
  PROVE  /\ b \o a \in Seq(Token) /\ Len(b \o a) = Len(b) + Len(a)
         /\ \A i \in 1 .. Len(b) : (b \o a)[i] = b[i]
         /\ \A i \in 1 .. Len(a) : (b \o a)[Len(b) + i] = a[i]
OBVIOUS

LEMMA TextsAssociate ==
  ASSUME NEW x \in Seq(Token), NEW y \in Seq(Token), NEW z \in Seq(Token)
  PROVE  (x \o y) \o z = x \o (y \o z)
BY ConcatAssociative

\* A text is the two parts it is cut into.
LEMMA PartsJoin ==
  ASSUME NEW s \in Seq(Token), NEW k \in Nat, k <= Len(s)
  PROVE  s = SubSeq(s, 1, k) \o SubSeq(s, k + 1, Len(s))
<1> SUFFICES ASSUME NEW b, b = SubSeq(s, 1, k), NEW a, a = SubSeq(s, k + 1, Len(s))
             PROVE  s = b \o a
  OBVIOUS
<1>1. Len(s) \in Nat
  OBVIOUS
<1>2. /\ b \in Seq(Token) /\ Len(b) = k
      /\ \A i \in 1 .. k : b[i] = s[i]
  BY <1>1
<1>3. /\ a \in Seq(Token) /\ Len(a) = Len(s) - k
      /\ \A i \in 1 .. Len(s) - k : a[i] = s[k + i]
  <2>1. a \in Seq(Token) /\ Len(a) = Len(s) - k
    BY <1>1
  <2>2. \A i \in 1 .. Len(s) - k : a[i] = s[(k + 1) + i - 1] /\ (k + 1) + i - 1 = k + i
    BY <1>1
  <2> QED
    BY <2>1, <2>2
<1>0. Len(b) + Len(a) = Len(s)
  <2>1. k + (Len(s) - k) = Len(s)
    BY <1>1
  <2> QED
    BY <1>2, <1>3, <2>1, Zenon
<1> SUFFICES ASSUME NEW t, t = b \o a PROVE s = t
  OBVIOUS
<1>4. /\ t \in Seq(Token) /\ Len(t) = Len(s)
      /\ \A i \in 1 .. k : t[i] = s[i]
      /\ \A i \in 1 .. Len(s) - k : t[k + i] = s[k + i]
  <2>1. /\ t \in Seq(Token) /\ Len(t) = Len(b) + Len(a)
        /\ \A i \in 1 .. Len(b) : t[i] = b[i]
        /\ \A i \in 1 .. Len(a) : t[Len(b) + i] = a[i]
    BY <1>2, <1>3, Joined, Zenon
  <2>3. \A i \in 1 .. k : t[i] = s[i]
    BY <1>2, <2>1
  <2>4. \A i \in 1 .. Len(s) - k : t[k + i] = s[k + i]
    BY <1>2, <1>3, <2>1
  <2> QED
    BY <1>0, <2>1, <2>3, <2>4
<1>5. ASSUME NEW i \in 1 .. Len(s) PROVE s[i] = t[i]
  <2>1. CASE i <= k
    <3>1. i \in 1 .. k
      BY <1>1, <2>1
    <3> QED
      BY <1>4, <3>1
  <2>2. CASE ~(i <= k)
    <3>1. i - k \in 1 .. Len(s) - k /\ k + (i - k) = i
      BY <1>1, <2>2
    <3> QED
      BY <1>4, <3>1
  <2> QED
    BY <2>1, <2>2
<1> QED
  BY <1>4, <1>5, SeqEqual

\* The first mark of a text
LEMMA FindIs ==
  ASSUME NEW s \in Seq(Token), NEW marks
  PROVE  /\ S!Find(s, marks) \in 1 .. Len(s) + 1
         /\ \A i \in 1 .. S!Find(s, marks) - 1 : s[i] \notin marks
         /\ S!Find(s, marks) <= Len(s) => s[S!Find(s, marks)] \in marks
<1> DEFINE places == {i \in 1 .. Len(s) : s[i] \in marks}
<1>1. Len(s) \in Nat
  OBVIOUS
<1>2. S!SelectInSeq(s, LAMBDA t : t \in marks) = IF places # {} THEN S!Min(places) ELSE 0
  BY DEF S!SelectInSeq
<1>3. CASE places = {}
  <2>1. S!Find(s, marks) = Len(s) + 1
    BY <1>2, <1>3 DEF S!Find
  <2> QED
    BY <1>1, <1>3, <2>1
<1>4. CASE places # {}
  <2>1. places \in SUBSET Nat
    OBVIOUS
  <2>2. S!Min(places) \in places /\ \A k \in places : S!Min(places) <= k
    <3> HIDE DEF places
    <3> QED
      BY <1>4, <2>1, Following!SmallestOf DEF S!Min
  <2> SUFFICES ASSUME NEW m, m = S!Min(places)
               PROVE  /\ m \in 1 .. Len(s) + 1 /\ S!Find(s, marks) = m
                      /\ \A i \in 1 .. m - 1 : s[i] \notin marks
                      /\ s[m] \in marks
    OBVIOUS
  <2>3. m \in 1 .. Len(s) /\ s[m] \in marks /\ \A k \in places : m <= k
    BY <2>2
  <2>4. S!Find(s, marks) = m
    BY <1>1, <1>2, <1>4, <2>3 DEF S!Find
  <2>5. \A i \in 1 .. m - 1 : i \in 1 .. Len(s) /\ ~(m <= i)
    BY <1>1, <2>3
  <2> QED
    BY <1>1, <2>3, <2>4, <2>5
<1> QED
  BY <1>3, <1>4

\* No other place is that of the first mark.
LEMMA FindAt ==
  ASSUME NEW s \in Seq(Token), NEW marks, NEW k \in 1 .. Len(s) + 1,
         \A i \in 1 .. k - 1 : s[i] \notin marks, k <= Len(s) => s[k] \in marks
  PROVE  S!Find(s, marks) = k
<1>1. Len(s) \in Nat
  OBVIOUS
<1> SUFFICES ASSUME NEW m, m = S!Find(s, marks) PROVE m = k
  OBVIOUS
<1>2. m \in 1 .. Len(s) + 1 /\ (\A i \in 1 .. m - 1 : s[i] \notin marks)
      /\ (m <= Len(s) => s[m] \in marks)
  BY FindIs
<1>3. ~(m < k)
  BY <1>1, <1>2
<1>4. ~(k < m)
  BY <1>1, <1>2
<1> QED
  BY <1>1, <1>2, <1>3, <1>4

\* A text is cut at its first mark.
LEMMA Cut ==
  ASSUME NEW s \in Seq(Token), NEW marks
  PROVE  LET before == S!Before(s, marks)
             after  == S!After(s, marks)
         IN  /\ before \in Seq(Token) /\ after \in Seq(Token) /\ s = before \o after
             /\ Without(before, marks)
             /\ after # <<>> => after[1] \in marks
<1> SUFFICES ASSUME NEW m, m = S!Find(s, marks), NEW b, b = SubSeq(s, 1, m - 1),
                    NEW a, a = SubSeq(s, m, Len(s))
             PROVE  /\ b \in Seq(Token) /\ a \in Seq(Token) /\ s = b \o a
                    /\ Without(b, marks)
                    /\ a # <<>> => a[1] \in marks
  BY DEF S!Before, S!After
<1>1. m \in 1 .. Len(s) + 1 /\ (\A i \in 1 .. m - 1 : s[i] \notin marks)
      /\ (m <= Len(s) => s[m] \in marks)
  BY FindIs
<1>2. Len(s) \in Nat /\ m \in Nat \ {0} /\ m - 1 \in Nat /\ m - 1 <= Len(s) /\ m <= Len(s) + 1
  BY <1>1
<1>3. /\ b \in Seq(Token) /\ Len(b) = m - 1 /\ DOMAIN b = 1 .. m - 1
      /\ \A i \in 1 .. m - 1 : b[i] = s[i]
  BY <1>2
<1>4. /\ a \in Seq(Token) /\ Len(a) = Len(s) - m + 1
      /\ \A i \in 1 .. Len(s) - m + 1 : a[i] = s[m + i - 1]
  BY <1>2
<1>5. a # <<>> => a[1] \in marks
  <2> SUFFICES ASSUME a # <<>> PROVE a[1] \in marks
    OBVIOUS
  <2>1. Len(a) # 0
    BY <1>4
  <2>2. m <= Len(s) /\ 1 \in 1 .. Len(s) - m + 1 /\ m + 1 - 1 = m
    BY <1>2, <1>4, <2>1
  <2> QED
    BY <1>1, <1>4, <2>2
<1>6. s = b \o a
  <2>1. s = SubSeq(s, 1, m - 1) \o SubSeq(s, (m - 1) + 1, Len(s))
    BY <1>2, PartsJoin, Zenon
  <2>2. (m - 1) + 1 = m
    BY <1>2
  <2> QED
    BY <2>1, <2>2, Zenon
<1> QED
  BY <1>1, <1>3, <1>4, <1>5, <1>6 DEF Without

\* A text that is put together at its first mark is cut there.
LEMMA CutThere ==
  ASSUME NEW h \in Seq(Token), NEW t \in Seq(Token), NEW marks, Without(h, marks),
         t # <<>> => t[1] \in marks
  PROVE  S!Before(h \o t, marks) = h /\ S!After(h \o t, marks) = t
<1> SUFFICES ASSUME NEW s, s = h \o t PROVE S!Before(s, marks) = h /\ S!After(s, marks) = t
  OBVIOUS
<1>1. /\ s \in Seq(Token) /\ Len(h) \in Nat /\ Len(t) \in Nat /\ Len(s) = Len(h) + Len(t)
      /\ \A i \in 1 .. Len(h) : s[i] = h[i]
      /\ \A i \in 1 .. Len(t) : s[Len(h) + i] = t[i]
      /\ DOMAIN h = 1 .. Len(h) /\ (t # <<>> <=> Len(t) > 0)
  OBVIOUS
<1>2. S!Find(s, marks) = Len(h) + 1
  <2>1. \A i \in 1 .. (Len(h) + 1) - 1 : s[i] \notin marks
    BY <1>1 DEF Without
  <2>2. Len(h) + 1 <= Len(s) => s[Len(h) + 1] \in marks
    <3> SUFFICES ASSUME Len(h) + 1 <= Len(s) PROVE s[Len(h) + 1] \in marks
      OBVIOUS
    <3>1. Len(t) > 0 /\ 1 \in 1 .. Len(t)
      BY <1>1
    <3> QED
      BY <1>1, <3>1
  <2>3. Len(h) + 1 \in 1 .. Len(s) + 1
    BY <1>1
  <2> QED
    BY <1>1, <2>1, <2>2, <2>3, FindAt
<1>3. (Len(h) + 1) - 1 = Len(h)
  BY <1>1
<1>4. SubSeq(s, 1, Len(h)) = h
  <2> DEFINE b == SubSeq(s, 1, Len(h))
  <2>1. b \in Seq(Token) /\ Len(b) = Len(h) /\ \A i \in 1 .. Len(h) : b[i] = h[i]
    BY <1>1
  <2> HIDE DEF b
  <2>2. b = h
    BY <2>1
  <2> QED
    BY <2>2 DEF b
<1>5. SubSeq(s, Len(h) + 1, Len(s)) = t
  <2> DEFINE a == SubSeq(s, Len(h) + 1, Len(s))
  <2>1. a \in Seq(Token) /\ Len(a) = Len(t)
    BY <1>1
  <2>2. ASSUME NEW i \in 1 .. Len(t) PROVE a[i] = t[i]
    <3>1. a[i] = s[(Len(h) + 1) + i - 1] /\ (Len(h) + 1) + i - 1 = Len(h) + i
      BY <1>1
    <3> QED
      BY <1>1, <3>1
  <2> HIDE DEF a
  <2>3. a = t
    BY <2>1, <2>2
  <2> QED
    BY <2>3 DEF a
<1> QED
  BY <1>2, <1>3, <1>4, <1>5 DEF S!Before, S!After

\* A text after its first token
LEMMA FirstAnd ==
  ASSUME NEW s \in Token, NEW x \in Seq(Token)
  PROVE  /\ <<s>> \o x \in Seq(Token) /\ <<s>> \o x # <<>>
         /\ Len(<<s>> \o x) = Len(x) + 1
         /\ (<<s>> \o x)[1] = s /\ Tail(<<s>> \o x) = x
         /\ \A i \in 1 .. Len(x) : (<<s>> \o x)[i + 1] = x[i]
<1> SUFFICES ASSUME NEW y, y = <<s>> \o x
             PROVE  /\ y \in Seq(Token) /\ y # <<>> /\ Len(y) = Len(x) + 1
                    /\ y[1] = s /\ Tail(y) = x
                    /\ \A i \in 1 .. Len(x) : y[i + 1] = x[i]
  OBVIOUS
<1>1. /\ y \in Seq(Token) /\ Len(y) = Len(x) + 1 /\ Len(x) \in Nat
      /\ y[1] = s /\ \A i \in 1 .. Len(x) : y[i + 1] = x[i]
  OBVIOUS
<1>2. y # <<>>
  BY <1>1
<1>3. /\ Tail(y) \in Seq(Token) /\ Len(Tail(y)) = Len(x)
      /\ \A i \in 1 .. Len(x) : Tail(y)[i] = y[i + 1]
  BY <1>1, <1>2
<1>4. Tail(y) = x
  BY <1>1, <1>3, SeqEqual
<1> QED
  BY <1>1, <1>2, <1>4

\* A text that is cut after its first token
LEMMA FirstOf ==
  ASSUME NEW y \in Seq(Token), y # <<>>
  PROVE  y[1] \in Token /\ Tail(y) \in Seq(Token) /\ y = <<y[1]>> \o Tail(y)
<1>1. y[1] \in Token /\ Tail(y) \in Seq(Token) /\ Len(Tail(y)) = Len(y) - 1 /\ Len(y) \in Nat \ {0}
      /\ \A i \in 1 .. Len(y) - 1 : Tail(y)[i] = y[i + 1]
  OBVIOUS
<1> SUFFICES ASSUME NEW x, x = Tail(y), NEW z, z = <<y[1]>> \o x PROVE z = y
  BY <1>1
<1>2. x \in Seq(Token) /\ Len(x) = Len(y) - 1 /\ \A i \in 1 .. Len(y) - 1 : x[i] = y[i + 1]
  BY <1>1, Zenon
<1>3. z \in Seq(Token) /\ Len(z) = Len(y) /\ z[1] = y[1]
  BY <1>1, <1>2
<1>4. ASSUME NEW i \in 1 .. Len(z), i # 1 PROVE z[i] = y[i]
  <2>1. i - 1 \in 1 .. Len(y) - 1 /\ (i - 1) + 1 = i
    BY <1>1, <1>3, <1>4
  <2>2. x[i - 1] = y[i]
    BY <1>2, <2>1
  <2>3. z[i] = x[i - 1]
    BY <1>1, <1>2, <2>1
  <2> QED
    BY <2>2, <2>3
<1>5. \A i \in 1 .. Len(z) : z[i] = y[i]
  BY <1>3, <1>4
<1> QED
  BY <1>3, <1>5, SeqEqual

-----------------------------------------------------------------------------
(* The host                                                                *)

\* A default port that goes leaves no other one behind.
HostStays(s, a) ==
  a # <<>> /\ (S!Last(a) = S!DefaultPort[s] => Len(a) > 1 /\ a[Len(a) - 1] # S!DefaultPort[s])

\* What is kept of an authority
LEMMA HostIs ==
  ASSUME S!UrlAssumption, NEW s \in S!Schemes, NEW a \in Seq(Token), Without(a, Marks), a # <<>>
  PROVE  LET h == S!HostOf(s, a)
         IN  /\ h \in Seq(Token) /\ Without(h, Marks)
             /\ Len(h) = IF a[Len(a)] = S!DefaultPort[s] THEN Len(a) - 1 ELSE Len(a)
             /\ \A i \in 1 .. Len(h) :
                  h[i] = IF a[i] \in DOMAIN Lower THEN Lower[a[i]] ELSE a[i]
<1> SUFFICES ASSUME NEW h, h = S!HostOf(s, a)
             PROVE  /\ h \in Seq(Token) /\ Without(h, Marks)
                    /\ Len(h) = IF a[Len(a)] = S!DefaultPort[s] THEN Len(a) - 1 ELSE Len(a)
                    /\ \A i \in 1 .. Len(h) :
                         h[i] = IF a[i] \in DOMAIN Lower THEN Lower[a[i]] ELSE a[i]
  OBVIOUS
<1> DEFINE kept == IF a[Len(a)] = S!DefaultPort[s] THEN SubSeq(a, 1, Len(a) - 1) ELSE a
<1>0. h = [i \in DOMAIN kept |-> IF kept[i] \in DOMAIN Lower THEN Lower[kept[i]] ELSE kept[i]]
  BY Zenon DEF S!HostOf, S!Last, S!Front
<1>1. Len(a) \in Nat \ {0} /\ \A i \in 1 .. Len(a) : a[i] \in Token /\ a[i] \notin Marks
  BY DEF Without
<1> DEFINE n == IF a[Len(a)] = S!DefaultPort[s] THEN Len(a) - 1 ELSE Len(a)
<1>2. n \in 0 .. Len(a)
  BY <1>1
<1>3. kept \in Seq(Token) /\ Len(kept) = n /\ \A i \in 1 .. n : kept[i] = a[i]
  <2>1. CASE a[Len(a)] = S!DefaultPort[s]
    <3>1. kept = SubSeq(a, 1, n) /\ n = Len(a) - 1
      BY <2>1
    <3> HIDE DEF n, kept
    <3>2. /\ SubSeq(a, 1, n) \in Seq(Token) /\ Len(SubSeq(a, 1, n)) = n
          /\ \A i \in 1 .. n : SubSeq(a, 1, n)[i] = a[i]
      BY <1>2
    <3> QED
      BY <3>1, <3>2, Zenon
  <2>2. CASE a[Len(a)] # S!DefaultPort[s]
    BY <1>1, <2>2
  <2> QED
    BY <2>1, <2>2
<1> HIDE DEF n, kept
<1>4. DOMAIN kept = 1 .. n
  BY <1>3
<1>5. \A t \in Token \ Marks : (IF t \in DOMAIN Lower THEN Lower[t] ELSE t) \in Token \ Marks
  BY DEF S!UrlAssumption, Token, Marks
<1>6. /\ DOMAIN h = 1 .. n
      /\ \A i \in 1 .. n : h[i] = IF a[i] \in DOMAIN Lower THEN Lower[a[i]] ELSE a[i]
  BY <1>0, <1>3, <1>4
<1>7. \A i \in 1 .. n : h[i] \in Token \ Marks
  BY <1>1, <1>2, <1>5, <1>6
<1>8. h \in Seq(Token) /\ Len(h) = n
  <2>1. h = [i \in 1 .. n |-> h[i]]
    BY <1>0, <1>4
  <2>2. h \in [1 .. n -> Token]
    BY <1>7, <2>1
  <2>3. Seq(Token) = UNION {[1 .. k -> Token] : k \in Nat}
    BY SeqDef, Zenon
  <2>4. n \in Nat
    BY <1>1, <1>2
  <2>5. h \in Seq(Token)
    BY <2>2, <2>3, <2>4, Zenon
  <2>6. Len(h) \in Nat /\ 1 .. Len(h) = 1 .. n
    BY <1>6, <2>5
  <2>7. /\ n > 0 => n \in 1 .. Len(h)
        /\ Len(h) > 0 => Len(h) \in 1 .. n
    BY <2>4, <2>6
  <2>8. \A l \in Nat : (n > 0 => n \in 1 .. l) /\ (l > 0 => l \in 1 .. n) => l = n
    BY <2>4
  <2> QED
    BY <2>5, <2>6, <2>7, <2>8, Zenon
<1>9. Without(h, Marks)
  BY <1>6, <1>7 DEF Without
<1> QED
  BY <1>6, <1>8, <1>9 DEF n

\* A host that was kept is kept as it is.
LEMMA HostKept ==
  ASSUME S!UrlAssumption, NEW s \in S!Schemes, NEW a \in Seq(Token), Without(a, Marks),
         HostStays(s, a)
  PROVE  S!HostOf(s, a) # <<>> /\ S!HostOf(s, S!HostOf(s, a)) = S!HostOf(s, a)
<1> SUFFICES ASSUME NEW h, h = S!HostOf(s, a), NEW g, g = S!HostOf(s, h)
             PROVE  h # <<>> /\ g = h
  OBVIOUS
<1>1. /\ h \in Seq(Token) /\ Without(h, Marks)
      /\ Len(h) = IF a[Len(a)] = S!DefaultPort[s] THEN Len(a) - 1 ELSE Len(a)
      /\ \A i \in 1 .. Len(h) : h[i] = IF a[i] \in DOMAIN Lower THEN Lower[a[i]] ELSE a[i]
  BY HostIs DEF HostStays
<1>2. /\ Len(a) \in Nat \ {0} /\ Len(h) \in 1 .. Len(a)
      /\ a[Len(h)] # S!DefaultPort[s]
  BY <1>1 DEF HostStays, S!Last
<1>3. h # <<>>
  BY <1>2
<1>4. S!DefaultPort[s] \in S!Ports
  BY DEF S!Ports
<1>5. h[Len(h)] # S!DefaultPort[s]
  BY <1>1, <1>2, <1>4 DEF S!UrlAssumption
<1>6. /\ g \in Seq(Token) /\ Len(g) = Len(h)
      /\ \A i \in 1 .. Len(g) : g[i] = IF h[i] \in DOMAIN Lower THEN Lower[h[i]] ELSE h[i]
  BY <1>1, <1>3, <1>5, HostIs
<1>7. \A i \in 1 .. Len(h) : h[i] \notin DOMAIN Lower
  BY <1>1 DEF S!UrlAssumption
<1>8. \A i \in 1 .. Len(g) : g[i] = h[i]
  BY <1>6, <1>7
<1> QED
  BY <1>1, <1>3, <1>6, <1>8, SeqEqual

-----------------------------------------------------------------------------
(* Canonical URLs                                                          *)

\* The parts of a URL that canonicalize leaves as it is
Clean(url, s, h, t) ==
  /\ s \in S!Schemes
  /\ h \in Seq(Token) /\ h # <<>> /\ Without(h, Marks) /\ S!HostOf(s, h) = h
  /\ t \in Seq(Token) /\ t # <<>> /\ t[1] \in Marks /\ Without(t, {"#"})
  /\ url = <<s>> \o h \o t

LEMMA SchemesAreTokens == S!Schemes \subseteq Token /\ "/" \in Token
BY DEF Token

\* A URL whose authority ends before its tail
LEMMA CanonicalizeParts ==
  ASSUME NEW s \in S!Schemes, NEW a \in Seq(Token), Without(a, Marks),
         NEW t \in Seq(Token), t # <<>> => t[1] \in Marks
  PROVE  S!Canonicalize(<<s>> \o (a \o t)) =
           IF a = <<>> THEN S!Refused
           ELSE S!Fits(<<s>> \o S!HostOf(s, a)
                       \o (IF S!Before(t, {"#"}) = <<>> THEN <<"/">> ELSE S!Before(t, {"#"})))
<1>1. a \o t \in Seq(Token) /\ s \in Token
  BY SchemesAreTokens
<1> SUFFICES ASSUME NEW input, input = <<s>> \o (a \o t)
             PROVE  S!Canonicalize(input) =
                      IF a = <<>> THEN S!Refused
                      ELSE S!Fits(<<s>> \o S!HostOf(s, a) \o (IF S!Before(t, {"#"}) = <<>>
                                                             THEN <<"/">> ELSE S!Before(t, {"#"})))
  OBVIOUS
<1>2. input # <<>> /\ input[1] = s /\ Tail(input) = a \o t
  BY <1>1, FirstAnd
<1>3. S!Before(a \o t, Marks) = a /\ S!After(a \o t, Marks) = t
  BY CutThere
<1>4. S!IsAbsolute(input)
  BY <1>2 DEF S!IsAbsolute
<1> QED
  BY <1>2, <1>3, <1>4, Zenon DEF S!Canonicalize, Marks

\* The parts of any URL
LEMMA PartsOf ==
  ASSUME NEW url \in Seq(Token), S!IsAbsolute(url)
  PROVE  LET a == S!Before(Tail(url), Marks)
             t == S!After(Tail(url), Marks)
         IN  /\ url[1] \in S!Schemes
             /\ a \in Seq(Token) /\ Without(a, Marks)
             /\ t \in Seq(Token) /\ (t # <<>> => t[1] \in Marks)
             /\ url = <<url[1]>> \o (a \o t)
<1>1. url # <<>> /\ url[1] \in S!Schemes
  BY DEF S!IsAbsolute
<1>2. url[1] \in Token /\ Tail(url) \in Seq(Token) /\ url = <<url[1]>> \o Tail(url)
  BY <1>1, FirstOf
<1> QED
  BY <1>1, <1>2, Cut, Zenon

LEMMA SlashIs ==
  /\ <<"/">> \in Seq(Token) /\ <<"/">> # <<>> /\ Len(<<"/">>) = 1
  /\ <<"/">>[1] = "/" /\ DOMAIN <<"/">> = 1 .. 1
BY SchemesAreTokens

\* The tail without the fragment
LEMMA TailIs ==
  ASSUME NEW t \in Seq(Token), t # <<>> => t[1] \in Marks
  PROVE  LET u == IF S!Before(t, {"#"}) = <<>> THEN <<"/">> ELSE S!Before(t, {"#"})
         IN  /\ u \in Seq(Token) /\ u # <<>> /\ u[1] \in Marks /\ Without(u, {"#"})
             /\ t # <<>> /\ t[1] = "/" => u[1] = "/"
<1> SUFFICES ASSUME NEW b, b = S!Before(t, {"#"}), NEW c, c = S!After(t, {"#"}),
                    NEW u, u = IF b = <<>> THEN <<"/">> ELSE b
             PROVE  /\ u \in Seq(Token) /\ u # <<>> /\ u[1] \in Marks /\ Without(u, {"#"})
                    /\ t # <<>> /\ t[1] = "/" => u[1] = "/"
  OBVIOUS
<1>1. b \in Seq(Token) /\ c \in Seq(Token) /\ t = b \o c /\ Without(b, {"#"})
      /\ (c # <<>> => c[1] \in {"#"})
  BY Cut, Zenon
<1>2. CASE b = <<>>
  <2>1. u = <<"/">>
    BY <1>2, Zenon
  <2>2. u \in Seq(Token) /\ u # <<>> /\ Len(u) = 1 /\ u[1] = "/" /\ DOMAIN u = 1 .. 1
    BY <2>1, SlashIs, Zenon
  <2> QED
    BY <2>2 DEF Without, Marks
<1>3. CASE b # <<>>
  <2>1. u = b /\ 1 \in 1 .. Len(b) /\ t[1] = b[1] /\ t # <<>>
    <3>1. Len(b) \in Nat \ {0}
      BY <1>1, <1>3
    <3>2. 1 \in 1 .. Len(b)
      BY <3>1
    <3>3. t[1] = b[1] /\ Len(t) = Len(b) + Len(c) /\ Len(c) \in Nat
      BY <1>1, <3>2, Joined
    <3>4. t # <<>>
      BY <3>1, <3>3
    <3> QED
      BY <1>3, <3>2, <3>3, <3>4
  <2> QED
    BY <1>1, <1>3, <2>1, Zenon
<1> QED
  BY <1>2, <1>3

LEMMA PartsAssociate ==
  ASSUME NEW s \in S!Schemes, NEW h \in Seq(Token), NEW t \in Seq(Token)
  PROVE  <<s>> \o h \o t = <<s>> \o (h \o t)
<1>1. <<s>> \in Seq(Token)
  BY SchemesAreTokens
<1> QED
  BY <1>1, ConcatAssociative

\* Where an authority stays a host, canonicalize leaves a clean URL.
LEMMA CanonicalizeCleans ==
  ASSUME S!UrlAssumption, NEW s \in S!Schemes, NEW a \in Seq(Token), Without(a, Marks),
         NEW t \in Seq(Token), t # <<>> => t[1] \in Marks, HostStays(s, a),
         NEW url, url = S!Canonicalize(<<s>> \o (a \o t)), url # S!Refused
  PROVE  /\ \E u : Clean(url, s, S!HostOf(s, a), u)
         /\ Len(url) < MaxTokens
<1> DEFINE u == IF S!Before(t, {"#"}) = <<>> THEN <<"/">> ELSE S!Before(t, {"#"})
           h == S!HostOf(s, a)
<1>1. h \in Seq(Token) /\ Without(h, Marks) /\ h # <<>> /\ S!HostOf(s, h) = h
  BY HostIs, HostKept DEF HostStays
<1>2. u \in Seq(Token) /\ u # <<>> /\ u[1] \in Marks /\ Without(u, {"#"})
  BY TailIs
<1>3. url = S!Fits(<<s>> \o h \o u)
  BY CanonicalizeParts DEF HostStays
<1> HIDE DEF h, u
<1>4. url = <<s>> \o h \o u /\ Len(url) < MaxTokens
  BY <1>3 DEF S!Fits
<1>5. Clean(url, s, h, u)
  BY <1>1, <1>2, <1>4 DEF Clean
<1> QED
  BY <1>4, <1>5 DEF h

\* A clean URL is canonical.
LEMMA CleanIsCanonical ==
  ASSUME NEW url, NEW s, NEW h, NEW t, Clean(url, s, h, t), Len(url) < MaxTokens
  PROVE  S!Canonical(url)
<1>1. url = <<s>> \o (h \o t)
  BY PartsAssociate DEF Clean
<1>2. S!Before(t, {"#"}) = t
  <2>1. t \in Seq(Token) /\ <<>> \in Seq(Token) /\ t \o <<>> = t /\ Without(t, {"#"})
    BY ConcatEmptySeq DEF Clean
  <2>2. S!Before(t \o <<>>, {"#"}) = t
    BY <2>1, CutThere
  <2> QED
    BY <2>1, <2>2
<1>3. S!Canonicalize(url) = S!Fits(<<s>> \o S!HostOf(s, h) \o t)
  BY <1>1, <1>2, CanonicalizeParts DEF Clean
<1>4. S!Canonicalize(url) = url
  BY <1>3 DEF Clean, S!Fits
<1>5. url # <<>>
  BY <1>1, FirstAnd, SchemesAreTokens DEF Clean
<1> QED
  BY <1>4, <1>5 DEF S!Canonical, S!Refused

\* A canonical URL is clean.
LEMMA CanonicalIsClean ==
  ASSUME S!UrlAssumption, NEW url \in Seq(Token), S!Canonical(url)
  PROVE  \E s, h, t : Clean(url, s, h, t)
<1>1. S!Canonicalize(url) = url /\ url # S!Refused
  BY DEF S!Canonical
<1>2. S!IsAbsolute(url)
  BY <1>1 DEF S!Canonicalize
<1> SUFFICES ASSUME NEW s, s = url[1], NEW a, a = S!Before(Tail(url), Marks),
                    NEW x, x = S!After(Tail(url), Marks)
             PROVE  \E t : Clean(url, s, a, t)
  BY Zenon
<1>3. /\ s \in S!Schemes /\ a \in Seq(Token) /\ Without(a, Marks)
      /\ x \in Seq(Token) /\ (x # <<>> => x[1] \in Marks)
      /\ url = <<s>> \o (a \o x)
  BY <1>2, PartsOf, Zenon
<1> DEFINE t == IF S!Before(x, {"#"}) = <<>> THEN <<"/">> ELSE S!Before(x, {"#"})
           h == S!HostOf(s, a)
<1>4. a # <<>> /\ url = S!Fits(<<s>> \o h \o t)
  <2>1. S!Canonicalize(<<s>> \o (a \o x)) = IF a = <<>> THEN S!Refused ELSE S!Fits(<<s>> \o h \o t)
    BY <1>3, CanonicalizeParts, Zenon
  <2>2. url = IF a = <<>> THEN S!Refused ELSE S!Fits(<<s>> \o h \o t)
    BY <1>1, <1>3, <2>1, Zenon
  <2> QED
    BY <1>1, <2>2, Zenon
<1>5. t \in Seq(Token) /\ t # <<>> /\ t[1] \in Marks /\ Without(t, {"#"})
  BY <1>3, TailIs
<1>6. h \in Seq(Token) /\ Without(h, Marks)
  BY <1>3, <1>4, HostIs
<1> HIDE DEF h, t
<1>7. url = <<s>> \o (h \o t)
  BY <1>1, <1>3, <1>4, <1>5, <1>6, PartsAssociate DEF S!Fits
<1>8. Tail(url) = a \o x /\ Tail(url) = h \o t
  <2>1. s \in Token /\ a \o x \in Seq(Token) /\ h \o t \in Seq(Token)
    BY <1>3, <1>5, <1>6, SchemesAreTokens, Joined
  <2>2. Tail(<<s>> \o (a \o x)) = a \o x /\ Tail(<<s>> \o (h \o t)) = h \o t
    BY <2>1, FirstAnd, Zenon
  <2> QED
    BY <1>3, <1>7, <2>2, Zenon
<1>9. S!Before(Tail(url), Marks) = h
  BY <1>5, <1>6, <1>8, CutThere
<1>10. h = a
  BY <1>9
<1>11. url = <<s>> \o a \o t
  BY <1>3, <1>5, <1>7, <1>10, PartsAssociate
<1>12. S!HostOf(s, a) = a
  BY <1>10 DEF h
<1> QED
  BY <1>3, <1>4, <1>5, <1>11, <1>12 DEF Clean

-----------------------------------------------------------------------------
(* Paths                                                                   *)

Ported(s) == S!PortsFollowHosts(s)

\* Where ports follow hosts, they do in a text that ends earlier.
LEMMA PortedPart ==
  ASSUME NEW s \in Seq(Token), NEW k \in Nat, k <= Len(s), Ported(s)
  PROVE  Ported(SubSeq(s, 1, k))
<1> SUFFICES ASSUME NEW b, b = SubSeq(s, 1, k) PROVE Ported(b)
  OBVIOUS
<1>1. b \in Seq(Token) /\ Len(b) = k /\ DOMAIN b = 1 .. k /\ \A i \in 1 .. k : b[i] = s[i]
  BY PartOf
<1>2. DOMAIN s = 1 .. Len(s) /\ Len(s) \in Nat
  OBVIOUS
<1> SUFFICES ASSUME NEW i \in 1 .. k, b[i] \in S!Ports
             PROVE  i > 1 /\ b[i - 1] \notin S!Ports \cup S!Schemes \cup {"/"}
  BY <1>1 DEF Ported, S!PortsFollowHosts
<1>3. i \in DOMAIN s /\ s[i] \in S!Ports
  BY <1>1, <1>2
<1>4. i > 1 /\ s[i - 1] \notin S!Ports \cup S!Schemes \cup {"/"}
  BY <1>3 DEF Ported, S!PortsFollowHosts
<1>5. i - 1 \in 1 .. k
  BY <1>4
<1> QED
  BY <1>1, <1>4, <1>5

\* ... and in two such texts one after the other.
LEMMA PortedJoined ==
  ASSUME NEW b \in Seq(Token), NEW a \in Seq(Token), Ported(b), Ported(a)
  PROVE  Ported(b \o a)
<1> SUFFICES ASSUME NEW s, s = b \o a PROVE Ported(s)
  OBVIOUS
<1>1. /\ s \in Seq(Token) /\ Len(s) = Len(b) + Len(a)
      /\ \A i \in 1 .. Len(b) : s[i] = b[i]
      /\ \A i \in 1 .. Len(a) : s[Len(b) + i] = a[i]
  BY Joined, Zenon
<1>2. /\ Len(b) \in Nat /\ Len(a) \in Nat
      /\ DOMAIN s = 1 .. Len(s) /\ DOMAIN b = 1 .. Len(b) /\ DOMAIN a = 1 .. Len(a)
  BY <1>1
<1> SUFFICES ASSUME NEW i \in 1 .. Len(s), s[i] \in S!Ports
             PROVE  i > 1 /\ s[i - 1] \notin S!Ports \cup S!Schemes \cup {"/"}
  BY <1>2 DEF Ported, S!PortsFollowHosts
<1>3. CASE i <= Len(b)
  <2>1. i \in DOMAIN b /\ b[i] \in S!Ports
    BY <1>1, <1>2, <1>3
  <2>2. i > 1 /\ b[i - 1] \notin S!Ports \cup S!Schemes \cup {"/"}
    BY <2>1 DEF Ported, S!PortsFollowHosts
  <2>3. i - 1 \in 1 .. Len(b)
    BY <1>2, <2>1, <2>2
  <2> QED
    BY <1>1, <2>2, <2>3
<1>4. CASE ~(i <= Len(b))
  <2> SUFFICES ASSUME NEW k, k = i - Len(b)
               PROVE  i > 1 /\ s[i - 1] \notin S!Ports \cup S!Schemes \cup {"/"}
    OBVIOUS
  <2>1. k \in DOMAIN a /\ k \in 1 .. Len(a) /\ i = Len(b) + k
    BY <1>1, <1>2, <1>4
  <2>2. a[k] \in S!Ports
    BY <1>1, <2>1
  <2>3. k > 1 /\ a[k - 1] \notin S!Ports \cup S!Schemes \cup {"/"}
    BY <2>1, <2>2 DEF Ported, S!PortsFollowHosts
  <2>4. k - 1 \in 1 .. Len(a) /\ i - 1 = Len(b) + (k - 1) /\ i > 1
    BY <1>2, <2>1, <2>3
  <2>5. s[i - 1] = a[k - 1]
    BY <1>1, <2>4
  <2> QED
    BY <2>3, <2>4, <2>5
<1> QED
  BY <1>3, <1>4

LEMMA PortedShort == Ported(<<>>) /\ Ported(<<"/">>)
<1>1. "/" \notin S!Ports
  BY DEF S!Ports, S!DefaultPort, S!Schemes
<1>2. DOMAIN <<>> = {} /\ DOMAIN <<"/">> = {1} /\ <<"/">>[1] = "/"
  OBVIOUS
<1> QED
  BY <1>1, <1>2 DEF Ported, S!PortsFollowHosts

\* The last slash of a text
LEMMA LastSlash ==
  ASSUME NEW s \in Seq(Token), NEW n, n = S!SelectLastInSeq(s, LAMBDA t : t = "/")
  PROVE  n \in 0 .. Len(s) /\ (s # <<>> /\ s[1] = "/" => n >= 1)
<1> DEFINE places == {i \in 1 .. Len(s) : s[i] = "/"}
<1>1. Len(s) \in Nat
  OBVIOUS
<1>2. n = IF places # {} THEN S!Max(places) ELSE 0
  BY DEF S!SelectLastInSeq
<1>3. places # {} => S!Max(places) \in places /\ \A i \in places : S!Max(places) >= i
  <2>1. places \in SUBSET (1 .. Len(s))
    OBVIOUS
  <2> HIDE DEF places
  <2> QED
    BY <1>1, <2>1, Following!MaxExists DEF Following!Max, S!Max
<1>4. s # <<>> /\ s[1] = "/" => 1 \in places
  BY <1>1
<1>5. places \subseteq 1 .. Len(s)
  OBVIOUS
<1> HIDE DEF places
<1> QED
  BY <1>1, <1>2, <1>3, <1>4, <1>5

\* A path that starts with a slash keeps it.
Rooted(s, root) == root = 1 => s # <<>> /\ s[1] = "/"

LEMMA RootedPart ==
  ASSUME NEW s \in Seq(Token), NEW root \in {0, 1}, NEW k \in Nat, root <= k, k <= Len(s),
         Rooted(s, root)
  PROVE  Rooted(SubSeq(s, 1, k), root)
<1> SUFFICES ASSUME NEW b, b = SubSeq(s, 1, k), root = 1 PROVE b # <<>> /\ b[1] = "/"
  BY DEF Rooted
<1>1. b \in Seq(Token) /\ Len(b) = k /\ b[1] = s[1]
  BY PartOf
<1>2. b # <<>>
  BY <1>1
<1> QED
  BY <1>1, <1>2 DEF Rooted

LEMMA RootedJoined ==
  ASSUME NEW b \in Seq(Token), NEW a \in Seq(Token), NEW root, Rooted(b, root)
  PROVE  Rooted(b \o a, root)
<1> SUFFICES ASSUME NEW s, s = b \o a, root = 1 PROVE s # <<>> /\ s[1] = "/"
  BY DEF Rooted
<1>1. b # <<>> /\ b[1] = "/"
  BY DEF Rooted
<1>2. Len(b) \in Nat \ {0} /\ 1 \in 1 .. Len(b) /\ Len(a) \in Nat
  BY <1>1
<1>3. s \in Seq(Token) /\ Len(s) = Len(b) + Len(a) /\ s[1] = b[1]
  BY <1>2, Joined
<1>4. s # <<>>
  BY <1>2, <1>3
<1> QED
  BY <1>1, <1>3, <1>4

\* What a segment leaves of the output
LEMMA DropKeeps ==
  ASSUME NEW out0 \in Seq(Token), NEW root \in {0, 1}, Rooted(out0, root)
  PROVE  LET new == S!DropSegment(out0, root)
         IN  new \in Seq(Token) /\ Rooted(new, root) /\ (Ported(out0) => Ported(new))
<1>1. CASE Len(out0) <= root
  BY <1>1 DEF S!DropSegment
<1>2. CASE ~(Len(out0) <= root)
  <2>1. Len(out0) \in Nat /\ root \in Nat /\ Len(out0) - 1 \in Nat /\ root <= Len(out0) - 1
    BY <1>2
  <2> SUFFICES ASSUME NEW open, open = IF S!Last(out0) = "/" THEN S!Front(out0) ELSE out0,
                      NEW slash, slash = S!SelectLastInSeq(open, LAMBDA t : t = "/"),
                      NEW n, n = IF slash > root THEN slash ELSE root,
                      NEW new, new = SubSeq(open, 1, n)
               PROVE  new \in Seq(Token) /\ Rooted(new, root) /\ (Ported(out0) => Ported(new))
    BY <1>2 DEF S!DropSegment
  <2>2. open \in Seq(Token) /\ Rooted(open, root) /\ (Ported(out0) => Ported(open))
        /\ root <= Len(open)
    <3>1. CASE S!Last(out0) = "/"
      <4> SUFFICES ASSUME NEW m, m = Len(out0) - 1
                   PROVE  /\ open \in Seq(Token) /\ Rooted(open, root)
                          /\ (Ported(out0) => Ported(open)) /\ root <= Len(open)
        OBVIOUS
      <4>1. open = SubSeq(out0, 1, m) /\ m \in Nat /\ root <= m /\ m <= Len(out0)
        BY <2>1, <3>1 DEF S!Front
      <4>2. SubSeq(out0, 1, m) \in Seq(Token) /\ Len(SubSeq(out0, 1, m)) = m
        BY <4>1, StartOf, Zenon
      <4>3. Rooted(SubSeq(out0, 1, m), root)
        BY <4>1, RootedPart, Zenon
      <4>4. Ported(out0) => Ported(SubSeq(out0, 1, m))
        BY <4>1, PortedPart, Zenon
      <4> QED
        BY <4>1, <4>2, <4>3, <4>4, Zenon
    <3>2. CASE S!Last(out0) # "/"
      BY <2>1, <3>2
    <3> QED
      BY <3>1, <3>2
  <2>3. slash \in 0 .. Len(open)
    BY <2>2, LastSlash
  <2>4. n \in Nat /\ root <= n /\ n <= Len(open)
    BY <2>2, <2>3
  <2>5. new \in Seq(Token)
    BY <2>2, <2>4
  <2>6. Rooted(new, root)
    BY <2>2, <2>4, RootedPart
  <2>7. Ported(open) => Ported(new)
    BY <2>2, <2>4, PortedPart
  <2> QED
    BY <2>2, <2>5, <2>6, <2>7
<1> QED
  BY <1>1, <1>2

LEMMA AddKeeps ==
  ASSUME NEW out0 \in Seq(Token), NEW segment \in Seq(Token), NEW root \in {0, 1},
         Rooted(out0, root)
  PROVE  LET new == S!AddSegment(out0, segment, root)
         IN  new \in Seq(Token) /\ Rooted(new, root)
             /\ (Ported(out0) /\ Ported(segment) => Ported(new))
<1> SUFFICES ASSUME NEW new, new = S!AddSegment(out0, segment, root)
             PROVE  new \in Seq(Token) /\ Rooted(new, root)
                    /\ (Ported(out0) /\ Ported(segment) => Ported(new))
  OBVIOUS
<1>1. \/ new = out0
      \/ new = S!DropSegment(out0, root)
      \/ new = out0 \o <<"/">> \o segment
      \/ new = out0 \o segment
  BY DEF S!AddSegment
<1>2. CASE new = out0
  BY <1>2
<1>3. CASE new = S!DropSegment(out0, root)
  BY <1>3, DropKeeps
<1>4. CASE new = out0 \o <<"/">> \o segment
  <2>1. out0 \o <<"/">> \in Seq(Token) /\ Rooted(out0 \o <<"/">>, root)
    BY SlashIs, Joined, RootedJoined
  <2>2. Ported(out0) => Ported(out0 \o <<"/">>)
    BY SlashIs, PortedShort, PortedJoined
  <2>3. new \in Seq(Token) /\ Rooted(new, root)
    <3>1. (out0 \o <<"/">>) \o segment \in Seq(Token)
      BY <2>1, Joined, Zenon
    <3>2. Rooted((out0 \o <<"/">>) \o segment, root)
      BY <2>1, RootedJoined, Zenon
    <3> QED
      BY <1>4, <3>1, <3>2, Zenon
  <2>4. Ported(out0) /\ Ported(segment) => Ported(new)
    BY <1>4, <2>1, <2>2, PortedJoined
  <2> QED
    BY <2>3, <2>4
<1>5. CASE new = out0 \o segment
  <2>1. new \in Seq(Token) /\ Rooted(new, root)
    BY <1>5, Joined, RootedJoined
  <2>2. Ported(out0) /\ Ported(segment) => Ported(new)
    BY <1>5, PortedJoined
  <2> QED
    BY <2>1, <2>2
<1> QED
  BY <1>1, <1>2, <1>3, <1>4, <1>5

\* normalize_path as a loop over the tokens of a path
RootOf(path) == IF path # <<>> /\ path[1] = "/" THEN 1 ELSE 0
PathOpened(path) == [out |-> SubSeq(path, 1, RootOf(path)), segment |-> <<>>]
PathRead(path, acc, t) ==
  IF t = "/" THEN [out |-> S!AddSegment(acc.out, acc.segment, RootOf(path)), segment |-> <<>>]
  ELSE [acc EXCEPT !.segment = Append(@, t)]

\* The segment that is open ends where the part that was read ends.
SegmentOpen(s, segment) ==
  /\ segment = <<>> => s = <<>> \/ s[Len(s)] = "/"
  /\ segment # <<>> => s # <<>> /\ s[Len(s)] = segment[Len(segment)]
PathKept(path, s, acc) ==
  path \in Seq(Token) =>
    /\ acc \in [out : Seq(Token), segment : Seq(Token)]
    /\ Rooted(acc.out, RootOf(path))
    /\ SegmentOpen(s, acc.segment)
    /\ Ported(s) => Ported(acc.out) /\ Ported(acc.segment)
Normalizing == INSTANCE FoldTheorems
  WITH T <- Token, Base <- PathOpened, Op <- PathRead, P <- PathKept

\* The next token of a segment
LEMMA SegmentGrows ==
  ASSUME NEW s \in Seq(Token), NEW segment \in Seq(Token), NEW e \in Token, e # "/",
         SegmentOpen(s, segment)
  PROVE  /\ SegmentOpen(Append(s, e), Append(segment, e))
         /\ Ported(Append(s, e)) /\ Ported(segment) => Ported(Append(segment, e))
<1> SUFFICES ASSUME NEW t, t = Append(s, e), NEW g, g = Append(segment, e)
             PROVE  /\ SegmentOpen(t, g)
                    /\ Ported(t) /\ Ported(segment) => Ported(g)
  OBVIOUS
<1>1. /\ t \in Seq(Token) /\ Len(t) = Len(s) + 1 /\ t[Len(s) + 1] = e /\ Len(s) \in Nat
      /\ \A i \in 1 .. Len(s) : t[i] = s[i]
  OBVIOUS
<1>2. /\ g \in Seq(Token) /\ Len(g) = Len(segment) + 1 /\ g[Len(segment) + 1] = e
      /\ Len(segment) \in Nat /\ \A i \in 1 .. Len(segment) : g[i] = segment[i]
  OBVIOUS
<1>3. SegmentOpen(t, g)
  <2>1. t # <<>> /\ g # <<>>
    <3>1. Len(t) # 0 /\ Len(g) # 0
      BY <1>1, <1>2
    <3> QED
      BY <3>1, EmptySeq
  <2>2. t[Len(t)] = e /\ g[Len(g)] = e
    BY <1>1, <1>2
  <2> QED
    BY <2>1, <2>2 DEF SegmentOpen
<1>4. ASSUME Ported(t), Ported(segment) PROVE Ported(g)
  <2>1. DOMAIN g = 1 .. Len(segment) + 1 /\ DOMAIN segment = 1 .. Len(segment)
        /\ Len(s) + 1 \in DOMAIN t
    BY <1>1, <1>2
  <2> SUFFICES ASSUME NEW i \in 1 .. Len(segment) + 1, g[i] \in S!Ports
               PROVE  i > 1 /\ g[i - 1] \notin S!Ports \cup S!Schemes \cup {"/"}
    BY <2>1 DEF Ported, S!PortsFollowHosts
  <2>2. CASE i <= Len(segment)
    <3>1. i \in DOMAIN segment /\ segment[i] \in S!Ports
      BY <1>2, <2>1, <2>2
    <3>2. i > 1 /\ segment[i - 1] \notin S!Ports \cup S!Schemes \cup {"/"}
      BY <1>4, <3>1 DEF Ported, S!PortsFollowHosts
    <3>3. i - 1 \in 1 .. Len(segment)
      BY <1>2, <2>2, <3>2
    <3> QED
      BY <1>2, <3>2, <3>3
  <2>3. CASE ~(i <= Len(segment))
    <3>1. i = Len(segment) + 1 /\ g[i] = e
      BY <1>2, <2>3
    <3>2. /\ Len(s) + 1 > 1
          /\ t[(Len(s) + 1) - 1] \notin S!Ports \cup S!Schemes \cup {"/"}
      BY <1>1, <1>4, <2>1, <3>1 DEF Ported, S!PortsFollowHosts
    <3>3. /\ Len(s) \in 1 .. Len(s) /\ (Len(s) + 1) - 1 = Len(s) /\ s # <<>>
          /\ s[Len(s)] \notin S!Ports \cup S!Schemes \cup {"/"}
      BY <1>1, <3>2
    <3>4. segment # <<>> /\ segment[Len(segment)] = s[Len(s)]
      BY <3>3 DEF SegmentOpen
    <3>5. Len(segment) \in 1 .. Len(segment) /\ i - 1 = Len(segment) /\ i > 1
      BY <1>2, <3>1, <3>4
    <3> QED
      BY <1>2, <3>3, <3>4, <3>5
  <2> QED
    BY <2>2, <2>3
<1> QED
  BY <1>3, <1>4

\* A path is read into segments of tokens, and keeps its first slash.
LEMMA PathsRead ==
  ASSUME NEW path
  PROVE  \A s \in Seq(Token) : PathKept(path, s, Normalizing!Fold(path, s))
<1> DEFINE root == RootOf(path)
<1>1. PathKept(path, <<>>, PathOpened(path))
  <2> SUFFICES ASSUME path \in Seq(Token)
               PROVE  LET acc == PathOpened(path)
                      IN  /\ acc \in [out : Seq(Token), segment : Seq(Token)]
                          /\ Rooted(acc.out, root)
                          /\ SegmentOpen(<<>>, acc.segment)
                          /\ Ported(acc.out) /\ Ported(acc.segment)
    BY DEF PathKept
  <2>1. Rooted(path, root) /\ root \in {0, 1} /\ root <= Len(path)
    BY DEF RootOf, Rooted
  <2>2. SubSeq(path, 1, root) \in Seq(Token) /\ Rooted(SubSeq(path, 1, root), root)
    <3> HIDE DEF root
    <3> QED
      BY <2>1, StartOf, RootedPart
  <2>3. Ported(SubSeq(path, 1, root))
    <3>1. CASE root = 0
      <4>1. SubSeq(path, 1, 0) = <<>>
        OBVIOUS
      <4> QED
        BY <3>1, <4>1, PortedShort
    <3>2. CASE root = 1
      <4>1. 1 \in Nat /\ 1 <= Len(path) /\ path[1] = "/"
        BY <2>1, <3>2 DEF Rooted
      <4>2. /\ SubSeq(path, 1, 1) \in Seq(Token) /\ Len(SubSeq(path, 1, 1)) = 1
            /\ \A i \in 1 .. 1 : SubSeq(path, 1, 1)[i] = <<"/">>[i]
        BY <4>1, SlashIs, StartOf
      <4>3. SubSeq(path, 1, 1) = <<"/">>
        BY <4>2, SlashIs, SeqEqual
      <4> QED
        BY <3>2, <4>3, PortedShort
    <3> QED
      BY <2>1, <3>1, <3>2
  <2>4. SegmentOpen(<<>>, <<>>) /\ <<>> \in Seq(Token)
    BY DEF SegmentOpen
  <2> QED
    BY <2>2, <2>3, <2>4, PortedShort DEF PathOpened
<1>2. ASSUME NEW s \in Seq(Token), NEW e \in Token, NEW acc, PathKept(path, s, acc)
      PROVE  PathKept(path, Append(s, e), PathRead(path, acc, e))
  <2> SUFFICES ASSUME path \in Seq(Token), NEW new, new = PathRead(path, acc, e),
                      NEW t, t = Append(s, e)
               PROVE  /\ new \in [out : Seq(Token), segment : Seq(Token)]
                      /\ Rooted(new.out, root)
                      /\ SegmentOpen(t, new.segment)
                      /\ Ported(t) => Ported(new.out) /\ Ported(new.segment)
    BY DEF PathKept
  <2>1. /\ acc \in [out : Seq(Token), segment : Seq(Token)]
        /\ Rooted(acc.out, root) /\ SegmentOpen(s, acc.segment)
        /\ Ported(s) => Ported(acc.out) /\ Ported(acc.segment)
    BY <1>2 DEF PathKept
  <2>2. root \in {0, 1}
    BY DEF RootOf
  <2>3. /\ t \in Seq(Token) /\ Len(t) = Len(s) + 1 /\ t[Len(t)] = e /\ t # <<>>
        /\ Len(s) \in Nat /\ Len(s) <= Len(t) /\ SubSeq(t, 1, Len(s)) = s
    <3>1. /\ t \in Seq(Token) /\ Len(t) = Len(s) + 1 /\ t[Len(t)] = e /\ Len(s) \in Nat
          /\ \A i \in 1 .. Len(s) : t[i] = s[i]
      OBVIOUS
    <3>2. t # <<>> /\ Len(s) <= Len(t)
      BY <3>1
    <3>3. SubSeq(t, 1, Len(s)) = s
      <4>1. /\ SubSeq(t, 1, Len(s)) \in Seq(Token) /\ Len(SubSeq(t, 1, Len(s))) = Len(s)
            /\ \A i \in 1 .. Len(s) : SubSeq(t, 1, Len(s))[i] = s[i]
        BY <3>1, <3>2, StartOf
      <4> QED
        BY <4>1, SeqEqual
    <3> QED
      BY <3>1, <3>2, <3>3
  <2>4. Ported(t) => Ported(s)
    <3>1. Ported(t) => Ported(SubSeq(t, 1, Len(s)))
      BY <2>3, PortedPart, Zenon
    <3> QED
      BY <2>3, <3>1
  <2> HIDE DEF root
  <2>5. CASE e = "/"
    <3>1. new = [out |-> S!AddSegment(acc.out, acc.segment, root), segment |-> <<>>]
      BY <2>5 DEF PathRead, root
    <3>2. /\ S!AddSegment(acc.out, acc.segment, root) \in Seq(Token)
          /\ Rooted(S!AddSegment(acc.out, acc.segment, root), root)
          /\ Ported(acc.out) /\ Ported(acc.segment)
             => Ported(S!AddSegment(acc.out, acc.segment, root))
      BY <2>1, <2>2, AddKeeps
    <3>3. SegmentOpen(t, <<>>) /\ <<>> \in Seq(Token)
      BY <2>3, <2>5 DEF SegmentOpen
    <3> QED
      BY <2>1, <2>4, <3>1, <3>2, <3>3, PortedShort
  <2>6. CASE e # "/"
    <3>1. new = [acc EXCEPT !.segment = Append(acc.segment, e)]
      BY <2>6 DEF PathRead
    <3>2. /\ new \in [out : Seq(Token), segment : Seq(Token)]
          /\ new.out = acc.out /\ new.segment = Append(acc.segment, e)
      <4>1. acc.segment \in Seq(Token) /\ acc.out \in Seq(Token)
        BY <2>1
      <4>2. Append(acc.segment, e) \in Seq(Token)
        BY <4>1
      <4> SUFFICES ASSUME NEW g, g = Append(acc.segment, e)
                   PROVE  /\ new \in [out : Seq(Token), segment : Seq(Token)]
                          /\ new.out = acc.out /\ new.segment = g
        BY Zenon
      <4> QED
        BY <2>1, <3>1, <4>2
    <3>3. /\ SegmentOpen(t, Append(acc.segment, e))
          /\ Ported(t) /\ Ported(acc.segment) => Ported(Append(acc.segment, e))
      BY <2>1, <2>6, SegmentGrows
    <3> QED
      BY <2>1, <2>4, <3>2, <3>3
  <2> QED
    BY <2>5, <2>6
<1> QED
  BY <1>1, <1>2, Normalizing!FoldInduction

\* The path that normalize_path makes
LEMMA NormalizeKeeps ==
  ASSUME NEW path \in Seq(Token)
  PROVE  LET new == S!NormalizePath(path)
         IN  new \in Seq(Token) /\ Rooted(new, RootOf(path)) /\ (Ported(path) => Ported(new))
<1> DEFINE last == Normalizing!Fold(path, path)
<1>1. S!NormalizePath(path) = S!AddSegment(last.out, last.segment, RootOf(path))
  BY DEF S!NormalizePath, S!FoldLeft, S!MapThenFoldSet, S!Max, Normalizing!Fold,
     Normalizing!FoldLeft, Normalizing!MapThenFoldSet, Normalizing!Max, PathOpened, PathRead,
     RootOf
<1>2. PathKept(path, path, last)
  BY PathsRead
<1> HIDE DEF last
<1>3. /\ last \in [out : Seq(Token), segment : Seq(Token)]
      /\ Rooted(last.out, RootOf(path))
      /\ Ported(path) => Ported(last.out) /\ Ported(last.segment)
  BY <1>2 DEF PathKept
<1>4. RootOf(path) \in {0, 1}
  BY DEF RootOf
<1> QED
  BY <1>1, <1>3, <1>4, AddKeeps

-----------------------------------------------------------------------------
(* References                                                              *)

\* A text that ends before its first mark
LEMMA BeforeIs ==
  ASSUME NEW s \in Seq(Token), NEW marks
  PROVE  LET b == S!Before(s, marks)
         IN  /\ b \in Seq(Token)
             /\ Ported(s) => Ported(b)
             /\ s # <<>> /\ s[1] \notin marks => b # <<>> /\ b[1] = s[1]
             /\ s # <<>> /\ s[1] \in marks => b = <<>>
<1>0. \A l \in Nat : l # 0 => 1 \in 1 .. l
  OBVIOUS
<1> SUFFICES ASSUME NEW k, k = S!Find(s, marks) - 1, NEW b, b = SubSeq(s, 1, k)
             PROVE  /\ b \in Seq(Token)
                    /\ Ported(s) => Ported(b)
                    /\ s # <<>> /\ s[1] \notin marks => b # <<>> /\ b[1] = s[1]
                    /\ s # <<>> /\ s[1] \in marks => b = <<>>
  BY DEF S!Before
<1>1. /\ k \in Nat /\ k <= Len(s) /\ Len(s) \in Nat
      /\ \A i \in 1 .. k : s[i] \notin marks
      /\ k + 1 <= Len(s) => s[k + 1] \in marks
  <2>1. /\ S!Find(s, marks) \in 1 .. Len(s) + 1
        /\ \A i \in 1 .. S!Find(s, marks) - 1 : s[i] \notin marks
        /\ S!Find(s, marks) <= Len(s) => s[S!Find(s, marks)] \in marks
    BY FindIs
  <2>2. Len(s) \in Nat
    OBVIOUS
  <2> SUFFICES ASSUME NEW m, m = S!Find(s, marks)
               PROVE  /\ k \in Nat /\ k <= Len(s)
                      /\ \A i \in 1 .. k : s[i] \notin marks
                      /\ k + 1 <= Len(s) => s[k + 1] \in marks
    BY <2>2
  <2>3. /\ m \in 1 .. Len(s) + 1 /\ k = m - 1
        /\ \A i \in 1 .. m - 1 : s[i] \notin marks
        /\ m <= Len(s) => s[m] \in marks
    BY <2>1, Zenon
  <2>4. k \in Nat /\ k <= Len(s) /\ k + 1 = m
    BY <2>2, <2>3
  <2> QED
    BY <2>3, <2>4
<1>2. b \in Seq(Token) /\ Len(b) = k /\ \A i \in 1 .. k : b[i] = s[i]
  BY <1>1, StartOf, Zenon
<1>3. Ported(s) => Ported(b)
  BY <1>1, PortedPart, Zenon
<1>4. ASSUME s # <<>>, s[1] \notin marks PROVE b # <<>> /\ b[1] = s[1]
  <2>1. ASSUME k = 0 PROVE FALSE
    <3>1. k + 1 = 1 /\ 1 <= Len(s)
      BY <1>1, <1>4, <2>1
    <3> QED
      BY <1>1, <1>4, <3>1
  <2>2. k # 0
    BY <2>1
  <2>3. 1 \in 1 .. k
    BY <1>0, <1>1, <2>2, Zenon
  <2>4. b # <<>>
    BY <1>2, <2>2
  <2> QED
    BY <1>2, <2>3, <2>4
<1>5. ASSUME s # <<>>, s[1] \in marks PROVE b = <<>>
  <2>1. k # 0 => 1 \in 1 .. k
    BY <1>0, <1>1, Zenon
  <2>2. k = 0
    BY <1>1, <1>5, <2>1
  <2> QED
    BY <1>2, <2>2
<1> QED
  BY <1>2, <1>3, <1>4, <1>5

\* The part of a path up to its last slash
LEMMA DirectoryIs ==
  ASSUME NEW s \in Seq(Token)
  PROVE  LET d == S!Directory(s)
         IN  /\ d \in Seq(Token)
             /\ Ported(s) => Ported(d)
             /\ s # <<>> /\ s[1] = "/" => d # <<>> /\ d[1] = "/"
<1> SUFFICES ASSUME NEW k, k = S!SelectLastInSeq(s, LAMBDA t : t = "/"),
                    NEW d, d = SubSeq(s, 1, k)
             PROVE  /\ d \in Seq(Token)
                    /\ Ported(s) => Ported(d)
                    /\ s # <<>> /\ s[1] = "/" => d # <<>> /\ d[1] = "/"
  BY DEF S!Directory
<1>1. k \in 0 .. Len(s) /\ (s # <<>> /\ s[1] = "/" => k >= 1)
  BY LastSlash
<1>2. k \in Nat /\ k <= Len(s)
  BY <1>1
<1>3. d \in Seq(Token) /\ Len(d) = k /\ \A i \in 1 .. k : d[i] = s[i]
  BY <1>2, StartOf, Zenon
<1>4. Ported(s) => Ported(d)
  BY <1>2, PortedPart, Zenon
<1>5. ASSUME s # <<>>, s[1] = "/" PROVE d # <<>> /\ d[1] = "/"
  <2>1. 1 \in 1 .. k /\ Len(d) # 0
    BY <1>1, <1>2, <1>3, <1>5
  <2> QED
    BY <1>3, <1>5, <2>1
<1> QED
  BY <1>3, <1>4, <1>5

\* Slashed texts are paths from the root of a site.
Slashed(s) == s # <<>> /\ s[1] = "/"

LEMMA SlashedJoined ==
  ASSUME NEW b \in Seq(Token), NEW a \in Seq(Token), Slashed(b)
  PROVE  Slashed(b \o a)
BY RootedJoined DEF Slashed, Rooted

\* From a path a reference leads to a path, from a query alone to a text that is
\* put behind the host.
LEMMA TargetIs ==
  ASSUME NEW t \in Seq(Token), t # <<>>, t[1] \in Marks, Without(t, {"#"}),
         NEW link \in Seq(Token), link # <<>>, Ported(link)
  PROVE  LET target == S!TargetPath(t, link)
         IN  target \in Seq(Token) /\ IF t[1] = "/" THEN Slashed(target) ELSE Ported(target)
<1> SUFFICES ASSUME NEW path, path = S!Before(t, {"?"}), NEW ref, ref = S!Before(link, {"#"}),
                    NEW target, target = S!TargetPath(t, link)
             PROVE  target \in Seq(Token) /\ IF t[1] = "/" THEN Slashed(target) ELSE Ported(target)
  OBVIOUS
<1>1. path \in Seq(Token) /\ IF t[1] = "/" THEN Slashed(path) ELSE path = <<>>
  <2>1. t[1] \in {"/", "?"}
    <3>1. 1 \in DOMAIN t
      OBVIOUS
    <3> QED
      BY <3>1 DEF Without, Marks
  <2>2. /\ path \in Seq(Token) /\ (t[1] \notin {"?"} => path # <<>> /\ path[1] = t[1])
        /\ (t[1] \in {"?"} => path = <<>>)
    BY BeforeIs
  <2> QED
    BY <2>1, <2>2 DEF Slashed
<1>2. ref \in Seq(Token) /\ Ported(ref) /\ (link[1] # "#" => ref # <<>> /\ ref[1] = link[1])
  <2>1. /\ ref \in Seq(Token) /\ (Ported(link) => Ported(ref))
        /\ (link[1] \notin {"#"} => ref # <<>> /\ ref[1] = link[1])
    BY BeforeIs
  <2> QED
    BY <2>1
<1>3. CASE link[1] = "#"
  <2>1. target = path
    BY <1>3 DEF S!TargetPath
  <2> QED
    BY <1>1, <2>1, PortedShort
<1>4. CASE link[1] = "?"
  <2>1. target = path \o ref
    BY <1>4 DEF S!TargetPath
  <2> QED
    BY <1>1, <1>2, <2>1, Joined, SlashedJoined, PortedShort, PortedJoined
<1>5. CASE link[1] = "/"
  <2>1. target = ref
    BY <1>5 DEF S!TargetPath
  <2> QED
    BY <1>2, <1>5, <2>1 DEF Slashed
<1>6. CASE link[1] \notin {"#", "?", "/"}
  <2>1. target = S!Directory(path) \o ref
    BY <1>6 DEF S!TargetPath
  <2> SUFFICES ASSUME NEW d, d = S!Directory(path)
               PROVE  /\ target \in Seq(Token)
                      /\ IF t[1] = "/" THEN Slashed(target) ELSE Ported(target)
    OBVIOUS
  <2>2. d \in Seq(Token) /\ IF t[1] = "/" THEN Slashed(d) ELSE Ported(d)
    BY <1>1, DirectoryIs, PortedShort DEF Slashed
  <2> QED
    BY <1>2, <2>1, <2>2, Joined, SlashedJoined, PortedJoined
<1> QED
  BY <1>3, <1>4, <1>5, <1>6

\* A reference that stays on its page's site leads behind the page's host.
LEMMA ResolveIs ==
  ASSUME NEW page, NEW s, NEW h, NEW t, Clean(page, s, h, t),
         NEW link \in Seq(Token), link # <<>>, Ported(link),
         ~S!IsAbsolute(link), ~S!IsNetworkPath(link)
  PROVE  \E n \in Seq(Token) :
           /\ S!Resolve(page, link) = S!Canonicalize(<<s>> \o (h \o n))
           /\ n # <<>> /\ IF t[1] = "/" THEN Slashed(n) ELSE Ported(n)
<1>1. /\ s \in Token /\ h \o t \in Seq(Token) /\ page = <<s>> \o (h \o t)
  BY PartsAssociate, Joined, SchemesAreTokens DEF Clean
<1>2. page # <<>> /\ page[1] = s /\ Tail(page) = h \o t
  BY <1>1, FirstAnd
<1>3. S!Before(Tail(page), Marks) = h /\ S!After(Tail(page), Marks) = t
  BY <1>2, CutThere DEF Clean
<1>4. S!Before(t, {"#"}) = t
  <2>1. t \in Seq(Token) /\ <<>> \in Seq(Token) /\ t \o <<>> = t /\ Without(t, {"#"})
    BY ConcatEmptySeq DEF Clean
  <2>2. S!Before(t \o <<>>, {"#"}) = t
    BY <2>1, CutThere
  <2> QED
    BY <2>1, <2>2
<1>5. S!SplitBase(page) = [scheme |-> s, authority |-> h, path |-> t]
  BY <1>2, <1>3, <1>4 DEF S!SplitBase, Marks
<1>6. S!IsAbsolute(page)
  BY <1>2 DEF S!IsAbsolute, Clean
<1> DEFINE target == S!TargetPath(t, link)
           new == S!NormalizePath(target)
           n == IF new = <<>> THEN <<"/">> ELSE new
<1>7. S!Resolve(page, link) = S!Canonicalize(<<s>> \o h \o n)
  BY <1>5, <1>6 DEF S!Resolve
<1>8. target \in Seq(Token) /\ IF t[1] = "/" THEN Slashed(target) ELSE Ported(target)
  BY TargetIs DEF Clean
<1> HIDE DEF target
<1>9. new \in Seq(Token) /\ Rooted(new, RootOf(target)) /\ (Ported(target) => Ported(new))
  BY <1>8, NormalizeKeeps
<1> HIDE DEF new
<1>10. Slashed(target) => Slashed(new)
  BY <1>9 DEF Slashed, Rooted, RootOf
<1>11. n \in Seq(Token) /\ n # <<>> /\ IF t[1] = "/" THEN Slashed(n) ELSE Ported(n)
  BY <1>8, <1>9, <1>10, SlashIs, PortedShort DEF Slashed
<1> HIDE DEF n
<1>12. S!Resolve(page, link) = S!Canonicalize(<<s>> \o (h \o n))
  BY <1>7, <1>11, PartsAssociate DEF Clean
<1> QED
  BY <1>11, <1>12

\* Behind a host that was kept a host stays, whatever of a path joins it.
LEMMA HostGrows ==
  ASSUME S!UrlAssumption, NEW s \in S!Schemes, NEW h \in Seq(Token), h # <<>>, Without(h, Marks),
         S!HostOf(s, h) = h,
         NEW b \in Seq(Token), Without(b, Marks), b # <<>> => Ported(b)
  PROVE  /\ h \o b \in Seq(Token) /\ Without(h \o b, Marks)
         /\ HostStays(s, h \o b)
<1> SUFFICES ASSUME NEW a, a = h \o b
             PROVE  a \in Seq(Token) /\ Without(a, Marks) /\ HostStays(s, a)
  OBVIOUS
<1>1. /\ a \in Seq(Token) /\ Len(a) = Len(h) + Len(b)
      /\ \A i \in 1 .. Len(h) : a[i] = h[i]
      /\ \A i \in 1 .. Len(b) : a[Len(h) + i] = b[i]
  BY Joined, Zenon
<1>2. /\ Len(h) \in Nat \ {0} /\ Len(b) \in Nat
      /\ DOMAIN h = 1 .. Len(h) /\ DOMAIN b = 1 .. Len(b) /\ DOMAIN a = 1 .. Len(a)
  BY <1>1
<1>3. Without(a, Marks)
  <2> SUFFICES ASSUME NEW i \in 1 .. Len(a) PROVE a[i] \notin Marks
    BY <1>2 DEF Without
  <2>1. CASE i <= Len(h)
    <3>1. i \in 1 .. Len(h)
      BY <1>1, <1>2, <2>1
    <3> QED
      BY <1>1, <1>2, <3>1 DEF Without
  <2>2. CASE ~(i <= Len(h))
    <3>1. i - Len(h) \in 1 .. Len(b) /\ i = Len(h) + (i - Len(h))
      BY <1>1, <1>2, <2>2
    <3>2. a[i] = b[i - Len(h)]
      BY <1>1, <3>1
    <3> QED
      BY <1>2, <3>1, <3>2 DEF Without
  <2> QED
    BY <2>1, <2>2
<1>4. a # <<>>
  BY <1>1, <1>2
<1>5. S!DefaultPort[s] \in S!Ports
  BY DEF S!Ports
<1>6. CASE b = <<>>
  <2>1. a = h
    BY <1>6, ConcatEmptySeq
  <2>2. h[Len(h)] # S!DefaultPort[s]
    <3>1. Len(h) = IF h[Len(h)] = S!DefaultPort[s] THEN Len(h) - 1 ELSE Len(h)
      BY HostIs
    <3>2. \A n \in Nat \ {0} : n # n - 1
      OBVIOUS
    <3> QED
      BY <1>2, <3>1, <3>2, Zenon
  <2> QED
    BY <1>1, <1>3, <1>4, <2>1, <2>2 DEF HostStays, S!Last
<1>7. CASE b # <<>>
  <2>1. Len(b) \in 1 .. Len(b) /\ Len(b) \in DOMAIN b /\ a[Len(a)] = b[Len(b)]
    BY <1>1, <1>2, <1>7
  <2>2. b[Len(b)] \in S!Ports => Len(b) > 1 /\ b[Len(b) - 1] \notin S!Ports
    BY <1>7, <2>1 DEF Ported, S!PortsFollowHosts
  <2>3. ASSUME Len(b) > 1 PROVE Len(a) > 1 /\ a[Len(a) - 1] = b[Len(b) - 1]
    <3>1. Len(b) - 1 \in 1 .. Len(b) /\ Len(a) - 1 = Len(h) + (Len(b) - 1) /\ Len(a) > 1
      BY <1>1, <1>2, <2>3
    <3> QED
      BY <1>1, <3>1
  <2>4. HostStays(s, a)
    BY <1>4, <1>5, <2>1, <2>2, <2>3 DEF HostStays, S!Last
  <2> QED
    BY <1>1, <1>3, <2>4
<1> QED
  BY <1>6, <1>7

\* What a reference becomes on its page's site is clean, and where the page has a
\* path, it has the page's host.
LEMMA ReferenceCleans ==
  ASSUME S!UrlAssumption, NEW page, NEW s, NEW h, NEW t, Clean(page, s, h, t),
         NEW link \in Seq(Token), link # <<>>, Ported(link),
         ~S!IsAbsolute(link), ~S!IsNetworkPath(link),
         NEW url, url = S!Resolve(page, link), url # S!Refused
  PROVE  /\ Len(url) < MaxTokens
         /\ \E g, u : Clean(url, s, g, u) /\ (t[1] = "/" => g = h)
<1>1. PICK n \in Seq(Token) :
        /\ url = S!Canonicalize(<<s>> \o (h \o n))
        /\ n # <<>> /\ IF t[1] = "/" THEN Slashed(n) ELSE Ported(n)
  BY ResolveIs
<1> SUFFICES ASSUME NEW b, b = S!Before(n, Marks), NEW c, c = S!After(n, Marks),
                    NEW a, a = h \o b
             PROVE  /\ Len(url) < MaxTokens
                    /\ \E u : Clean(url, s, S!HostOf(s, a), u)
                    /\ t[1] = "/" => S!HostOf(s, a) = h
  BY Zenon
<1>2. /\ b \in Seq(Token) /\ c \in Seq(Token) /\ n = b \o c
      /\ Without(b, Marks) /\ (c # <<>> => c[1] \in Marks)
  BY Cut, Zenon
<1>3. /\ Ported(n) => Ported(b)
      /\ Slashed(n) => b = <<>>
  BY BeforeIs DEF Slashed, Marks
<1>4. b # <<>> => Ported(b)
  BY <1>1, <1>3
<1>5. /\ s \in S!Schemes /\ h \in Seq(Token) /\ h # <<>> /\ Without(h, Marks)
      /\ S!HostOf(s, h) = h
  BY DEF Clean
<1>6. a \in Seq(Token) /\ Without(a, Marks) /\ HostStays(s, a)
  BY <1>2, <1>4, <1>5, HostGrows, Zenon
<1>7. h \o (b \o c) = a \o c
  <2>1. (h \o b) \o c = h \o (b \o c)
    BY <1>2, <1>5, TextsAssociate, Zenon
  <2> QED
    BY <2>1, Zenon
<1>8. url = S!Canonicalize(<<s>> \o (a \o c))
  BY <1>1, <1>2, <1>7, Zenon
<1>9. (\E u : Clean(url, s, S!HostOf(s, a), u)) /\ Len(url) < MaxTokens
  BY <1>2, <1>5, <1>6, <1>8, CanonicalizeCleans
<1>10. t[1] = "/" => S!HostOf(s, a) = h
  <2>1. h \o <<>> = h
    BY <1>5, ConcatEmptySeq
  <2> QED
    BY <1>1, <1>3, <1>5, <2>1
<1> QED
  BY <1>9, <1>10

\* A whole URL whose ports follow hosts
LEMMA AbsoluteCleans ==
  ASSUME S!UrlAssumption, NEW text \in Seq(Token), Ported(text),
         NEW url, url = S!Canonicalize(text), url # S!Refused
  PROVE  S!Canonical(url)
<1>1. S!IsAbsolute(text)
  BY DEF S!Canonicalize
<1> SUFFICES ASSUME NEW s, s = text[1], NEW a, a = S!Before(Tail(text), Marks),
                    NEW t, t = S!After(Tail(text), Marks)
             PROVE  S!Canonical(url)
  BY Zenon
<1>2. /\ s \in S!Schemes /\ a \in Seq(Token) /\ Without(a, Marks)
      /\ t \in Seq(Token) /\ (t # <<>> => t[1] \in Marks)
      /\ text = <<s>> \o (a \o t)
  BY <1>1, PartsOf, Zenon
<1>3. a # <<>>
  <2>1. a = <<>> => S!Canonicalize(<<s>> \o (a \o t)) = S!Refused
    BY <1>2, CanonicalizeParts, Zenon
  <2> QED
    BY <1>2, <2>1, Zenon
<1>4. /\ Len(a) \in Nat \ {0} /\ DOMAIN text = 1 .. Len(text)
      /\ Len(text) >= Len(a) + 1 /\ Len(text) \in Nat
      /\ \A i \in 1 .. Len(a) : text[i + 1] = a[i]
  <2>1. /\ a \o t \in Seq(Token) /\ Len(a \o t) = Len(a) + Len(t)
        /\ \A i \in 1 .. Len(a) : (a \o t)[i] = a[i]
    BY <1>2, Joined
  <2>2. Len(a) \in Nat \ {0} /\ Len(t) \in Nat
    BY <1>2, <1>3
  <2>3. s \in Token
    BY <1>2, SchemesAreTokens
  <2>0. SUFFICES ASSUME NEW x, x = a \o t
                 PROVE  /\ DOMAIN text = 1 .. Len(text)
                        /\ Len(text) >= Len(a) + 1 /\ Len(text) \in Nat
                        /\ \A i \in 1 .. Len(a) : text[i + 1] = a[i]
    BY <2>2, Zenon
  <2>4. x \in Seq(Token) /\ Len(x) = Len(a) + Len(t) /\ \A i \in 1 .. Len(a) : x[i] = a[i]
    BY <2>0, <2>1, Zenon
  <2>5. Len(text) = Len(x) + 1 /\ \A i \in 1 .. Len(x) : text[i + 1] = x[i]
    <3>1. text = <<s>> \o x
      BY <1>2, <2>0, Zenon
    <3>2. Len(<<s>> \o x) = Len(x) + 1 /\ \A i \in 1 .. Len(x) : (<<s>> \o x)[i + 1] = x[i]
      BY <2>3, <2>4, FirstAnd
    <3> QED
      BY <3>1, <3>2, Zenon
  <2>6. \A i \in 1 .. Len(a) : i \in 1 .. Len(x)
    BY <2>2, <2>4
  <2>7. \A i \in 1 .. Len(a) : text[i + 1] = a[i]
    BY <2>4, <2>5, <2>6, Zenon
  <2>8. DOMAIN text = 1 .. Len(text) /\ Len(text) \in Nat
    OBVIOUS
  <2>9. Len(text) >= Len(a) + 1
    BY <2>2, <2>4, <2>5
  <2> QED
    BY <2>7, <2>8, <2>9
<1>5. HostStays(s, a)
  <2> SUFFICES ASSUME a[Len(a)] = S!DefaultPort[s]
               PROVE  Len(a) > 1 /\ a[Len(a) - 1] # S!DefaultPort[s]
    BY <1>3 DEF HostStays, S!Last
  <2>1. S!DefaultPort[s] \in S!Ports
    BY <1>2 DEF S!Ports
  <2>2. Len(a) + 1 \in DOMAIN text /\ text[Len(a) + 1] \in S!Ports /\ (Len(a) + 1) - 1 = Len(a)
    BY <1>4, <2>1
  <2>3. text[Len(a)] \notin S!Ports \cup S!Schemes
    BY <2>2 DEF Ported, S!PortsFollowHosts
  <2>4. Len(a) # 1
    BY <1>2, <2>3
  <2>5. Len(a) > 1 /\ Len(a) - 1 \in 1 .. Len(a) /\ (Len(a) - 1) + 1 = Len(a)
    <3>1. \A n \in Nat \ {0} : n # 1 => n > 1 /\ n - 1 \in 1 .. n /\ (n - 1) + 1 = n
      OBVIOUS
    <3> QED
      BY <1>4, <2>4, <3>1, Zenon
  <2>6. text[Len(a)] = a[Len(a) - 1]
    BY <1>4, <2>5
  <2> QED
    BY <2>1, <2>3, <2>5, <2>6
<1>6. (\E u : Clean(url, s, S!HostOf(s, a), u)) /\ Len(url) < MaxTokens
  BY <1>2, <1>5, CanonicalizeCleans
<1> QED
  BY <1>6, CleanIsCanonical

\* A reference that gives another host takes the scheme of its page.
LEMMA NetworkPathPorted ==
  ASSUME NEW s \in S!Schemes, NEW link \in Seq(Token), Ported(link), S!IsNetworkPath(link)
  PROVE  LET text == <<s>> \o SubSeq(link, 3, Len(link))
         IN  text \in Seq(Token) /\ Ported(text)
<1>1. Len(link) \in Nat /\ Len(link) > 1 /\ link[1] = "/" /\ link[2] = "/"
      /\ DOMAIN link = 1 .. Len(link)
  BY DEF S!IsNetworkPath
<1>0. SUFFICES ASSUME NEW x, x = SubSeq(link, 3, Len(link)), NEW text, text = <<s>> \o x
               PROVE  text \in Seq(Token) /\ Ported(text)
  OBVIOUS
<1>2. x \in Seq(Token) /\ Len(x) = Len(link) - 2 /\ \A i \in 1 .. Len(x) : x[i] = link[i + 2]
  <2>1. x \in Seq(Token) /\ Len(x) = Len(link) - 2
    BY <1>0, <1>1
  <2>2. \A i \in 1 .. Len(x) : x[i] = link[3 + i - 1] /\ 3 + i - 1 = i + 2
    BY <1>0, <1>1, <2>1
  <2> QED
    BY <2>1, <2>2
<1>3. /\ text \in Seq(Token) /\ Len(text) = Len(x) + 1 /\ text[1] = s
      /\ \A i \in 1 .. Len(x) : text[i + 1] = x[i]
  <2>1. s \in Token
    BY SchemesAreTokens
  <2> QED
    BY <1>0, <1>2, <2>1, FirstAnd
<1>4. DOMAIN text = 1 .. Len(x) + 1 /\ Len(x) \in Nat
  BY <1>2, <1>3
<1>5. ASSUME NEW i \in 1 .. Len(x) + 1, text[i] \in S!Ports
      PROVE  i > 1 /\ text[i - 1] \notin S!Ports \cup S!Schemes \cup {"/"}
  <2>1. i # 1
    <3>1. s \notin S!Ports
      BY DEF S!Ports, S!Schemes, S!DefaultPort
    <3> QED
      BY <1>3, <1>5, <3>1
  <2>2. i - 1 \in 1 .. Len(x) /\ i = (i - 1) + 1 /\ (i - 1) + 2 = i + 1 /\ i > 1
    BY <1>4, <2>1
  <2>3. text[i] = link[i + 1]
    BY <1>2, <1>3, <2>2
  <2>4. i + 1 \in DOMAIN link /\ (i + 1) - 1 = i
    BY <1>1, <1>2, <1>4
  <2>5. link[i] \notin S!Ports \cup S!Schemes \cup {"/"}
    BY <1>5, <2>3, <2>4 DEF Ported, S!PortsFollowHosts
  <2>6. i # 2
    BY <1>1, <2>5
  <2>7. i - 2 \in 1 .. Len(x) /\ (i - 2) + 1 = i - 1 /\ (i - 2) + 2 = i
    BY <1>4, <2>1, <2>6
  <2>8. text[i - 1] = link[i]
    BY <1>2, <1>3, <2>7
  <2> QED
    BY <2>2, <2>5, <2>8
<1>6. Ported(text)
  BY <1>4, <1>5 DEF Ported, S!PortsFollowHosts
<1> QED
  BY <1>3, <1>6

LEMMA TextsAreTokens ==
  ASSUME S!SearchAssumption
  PROVE  SeedUrls \cup Link \cup DOMAIN References \subseteq Seq(Token)
<1>1. SeedUrls \cup Link \cup DOMAIN References \subseteq Seq(S!Words)
  BY DEF S!SearchAssumption, S!LinkTexts, Link
<1>2. S!Words \subseteq Token
  BY DEF Token
<1> QED
  BY <1>1, <1>2, SeqMonotonic

LEMMA ResolveCases ==
  ASSUME NEW page, NEW link
  PROVE  /\ link = <<>> => S!Resolve(page, link) = S!Refused
         /\ S!IsAbsolute(link) => S!Resolve(page, link) = S!Canonicalize(link)
<1>1. CASE link = <<>>
  <2>1. ~S!IsAbsolute(link) /\ ~S!IsNetworkPath(link)
    BY <1>1 DEF S!IsAbsolute, S!IsNetworkPath
  <2> QED
    BY <1>1, <2>1 DEF S!Resolve
<1>2. CASE S!IsAbsolute(link)
  BY <1>2 DEF S!Resolve, S!IsAbsolute, S!IsNetworkPath, S!Schemes
<1> QED
  BY <1>1, <1>2

\* What seeds and links become, is refused or canonical.
LEMMA QueueUrlsCanonical ==
  ASSUME S!UrlAssumption, S!SearchAssumption, NEW url \in QueueUrl, url # S!Refused
  PROVE  S!Canonical(url)
<1>1. \A text \in SeedUrls \cup Link : text \in Seq(Token) /\ Ported(text)
  BY TextsAreTokens DEF S!SearchAssumption, S!LinkTexts, Link, Ported
<1>2. ASSUME NEW text \in SeedUrls, url = S!Canonicalize(text) PROVE S!Canonical(url)
  BY <1>1, <1>2, AbsoluteCleans
<1>3. ASSUME NEW page \in DOMAIN References, NEW link \in Link, url = S!Resolve(page, link)
      PROVE  S!Canonical(url)
  <2>1. link \in Seq(Token) /\ Ported(link)
    BY <1>1
  <2>2. page \in Seq(Token) /\ S!Canonical(page)
    BY TextsAreTokens DEF S!SearchAssumption
  <2>3. PICK s, h, t : Clean(page, s, h, t)
    BY <2>2, CanonicalIsClean
  <2>4. link # <<>>
    BY <1>3, ResolveCases
  <2>5. CASE S!IsAbsolute(link)
    <3>1. url = S!Canonicalize(link)
      BY <1>3, <2>5, ResolveCases
    <3> QED
      BY <2>1, <3>1, AbsoluteCleans
  <2>6. CASE ~S!IsAbsolute(link) /\ S!IsNetworkPath(link)
    <3>1. page[1] = s /\ S!IsAbsolute(page) /\ s \in S!Schemes
      <4>1. s \in S!Schemes /\ s \in Token /\ h \o t \in Seq(Token) /\ page = <<s>> \o (h \o t)
        BY <2>3, PartsAssociate, Joined, SchemesAreTokens DEF Clean
      <4>2. page # <<>> /\ page[1] = s
        BY <4>1, FirstAnd
      <4> QED
        BY <4>1, <4>2 DEF S!IsAbsolute
    <3>2. url = S!Canonicalize(<<s>> \o SubSeq(link, 3, Len(link)))
      BY <1>3, <2>4, <2>6, <3>1 DEF S!Resolve, S!SplitBase
    <3>3. <<s>> \o SubSeq(link, 3, Len(link)) \in Seq(Token)
          /\ Ported(<<s>> \o SubSeq(link, 3, Len(link)))
      BY <2>1, <2>6, <3>1, NetworkPathPorted
    <3> QED
      BY <3>2, <3>3, AbsoluteCleans
  <2>7. CASE ~S!IsAbsolute(link) /\ ~S!IsNetworkPath(link)
    <3>1. Len(url) < MaxTokens /\ \E g, u : Clean(url, s, g, u)
      BY <1>3, <2>1, <2>3, <2>4, <2>7, ReferenceCleans
    <3> QED
      BY <3>1, CleanIsCanonical
  <2> QED
    BY <2>5, <2>6, <2>7
<1> QED
  BY <1>2, <1>3 DEF QueueUrl

\* A page with a path has a slash behind its host.
LEMMA PathFollowsHost ==
  ASSUME NEW page, NEW s, NEW h, NEW t, Clean(page, s, h, t)
  PROVE  /\ S!AuthorityOf(page) = <<s, h>>
         /\ page[S!Find(Tail(page), {"/", "?"}) + 1] = t[1]
<1>1. /\ s \in Token /\ h \o t \in Seq(Token) /\ page = <<s>> \o (h \o t)
      /\ h \in Seq(Token) /\ t \in Seq(Token) /\ t # <<>>
  BY PartsAssociate, Joined, SchemesAreTokens DEF Clean
<1>2. page[1] = s /\ Tail(page) = h \o t /\ \A i \in 1 .. Len(h \o t) : page[i + 1] = (h \o t)[i]
  BY <1>1, FirstAnd
<1>3. S!Before(h \o t, Marks) = h
  BY CutThere DEF Clean
<1>4. S!AuthorityOf(page) = <<s, h>>
  BY <1>2, <1>3 DEF S!AuthorityOf, Marks
<1>5. /\ Len(h \o t) = Len(h) + Len(t) /\ \A i \in 1 .. Len(h) : (h \o t)[i] = h[i]
      /\ \A i \in 1 .. Len(t) : (h \o t)[Len(h) + i] = t[i]
  BY <1>1, Joined
<1>0. SUFFICES ASSUME NEW x, x = h \o t PROVE page[S!Find(x, {"/", "?"}) + 1] = t[1]
  BY <1>2, <1>4
<1>6. /\ x \in Seq(Token) /\ Len(x) = Len(h) + Len(t)
      /\ \A i \in 1 .. Len(h) : x[i] = h[i]
      /\ \A i \in 1 .. Len(t) : x[Len(h) + i] = t[i]
      /\ \A i \in 1 .. Len(x) : page[i + 1] = x[i]
  BY <1>0, <1>1, <1>2, <1>5, Zenon
<1>7. /\ Len(h) \in Nat /\ Len(t) \in Nat \ {0} /\ DOMAIN h = 1 .. Len(h) /\ 1 \in DOMAIN t
  BY <1>1
<1>8. Len(h) + 1 \in 1 .. Len(x) + 1 /\ (Len(h) + 1) - 1 = Len(h) /\ Len(h) + 1 \in 1 .. Len(x)
      /\ 1 \in 1 .. Len(t)
  BY <1>6, <1>7
<1>9. \A i \in 1 .. Len(h) : x[i] \notin {"/", "?"}
  BY <1>6, <1>7 DEF Clean, Without, Marks
<1>10. x[Len(h) + 1] = t[1] /\ t[1] \in {"/", "?"}
  BY <1>6, <1>7, <1>8 DEF Clean, Without, Marks
<1>11. S!Find(x, {"/", "?"}) = Len(h) + 1
  BY <1>6, <1>8, <1>9, <1>10, FindAt
<1> QED
  BY <1>6, <1>8, <1>10, <1>11

LEMMA SitesKept ==
  ASSUME S!UrlAssumption, S!SearchAssumption
  PROVE  S!LinksStayOnSite
<1> SUFFICES ASSUME NEW page \in DOMAIN References, NEW i \in DOMAIN References[page],
                    NEW link, link = References[page][i], NEW url, url = S!Resolve(page, link),
                    page[S!Find(Tail(page), {"/", "?"}) + 1] = "/",
                    ~S!IsAbsolute(link), ~S!IsNetworkPath(link), url # S!Refused
             PROVE  S!AuthorityOf(url) = S!AuthorityOf(page)
  BY Zenon DEF S!LinksStayOnSite
<1>1. link \in Link
  BY DEF Link
<1>2. link \in Seq(Token) /\ Ported(link) /\ page \in Seq(Token) /\ S!Canonical(page)
  BY <1>1, TextsAreTokens DEF S!SearchAssumption, S!LinkTexts, Link, Ported
<1>3. PICK s, h, t : Clean(page, s, h, t)
  BY <1>2, CanonicalIsClean
<1>4. S!AuthorityOf(page) = <<s, h>> /\ t[1] = "/"
  BY <1>3, PathFollowsHost
<1>5. link # <<>>
  BY ResolveCases
<1>6. \E u : Clean(url, s, h, u)
  BY <1>2, <1>3, <1>4, <1>5, ReferenceCleans
<1> QED
  BY <1>4, <1>6, PathFollowsHost

\* A relative reference of a page that has a path stays on the page's site, and
\* every URL that waits in the frontier is canonical, so that the test for
\* duplicates compares what it was meant to compare (niyah_url_resolve,
\* niyah_url_canonicalize, enqueue).
THEOREM UrlsAreSound == Spec => []UrlsSound
<1>1. S!LinksStayOnSite
  BY Assumptions, SitesKept
<1>2. (part = "search" => FrontierInv) => UrlsSound
  <2> SUFFICES ASSUME FrontierInv PROVE S!QueueCanonical
    BY <1>1 DEF UrlsSound
  <2> SUFFICES ASSUME NEW i \in DOMAIN frontier PROVE S!Canonical(frontier[i].url)
    BY DEF S!QueueCanonical
  <2>1. frontier[i] \in QueueItem /\ frontier[i].url # S!Refused
    BY DEF FrontierInv, QueueSound
  <2>2. frontier[i].url \in QueueUrl
    BY <2>1 DEF QueueItem
  <2> QED
    BY <2>1, <2>2, Assumptions, QueueUrlsCanonical
<1> QED
  BY <1>2, FrontierInvariant, PTL

-----------------------------------------------------------------------------
(* The robots rules                                                        *)

\* The group that line i is in was opened for the agent
InGroup(s, i, agent) ==
  \E k \in 1 .. i :
    /\ s[k].field = "User-agent" /\ s[k].value \in {agent, "*"}
    /\ \A m \in k + 1 .. i : s[m].field # "User-agent"

Applies(line, path) ==
  line.field \in {"Allow", "Disallow"} /\ line.value # <<>> /\ S!IsPrefix(line.value, path)

\* What decides on a question [path, agent]
RulesOf(q, s) == {i \in DOMAIN s : Applies(s[i], q.path) /\ InGroup(s, i, q.agent)}

\* S!RobotsPathAllowed as a loop over the lines
NothingRead(q) ==
  [active |-> FALSE, best |-> [matched |-> FALSE, allowed |-> TRUE, length |-> 0]]
LineRead(q, acc, line) == S!ReadLine(acc, line, q.path, q.agent)

\* What the loop knows of the lines it read: the best rule is a longest one, and
\* allows when one of the longest does
BestKept(q, s, best) ==
  /\ best.matched <=> RulesOf(q, s) # {}
  /\ best.matched =>
       /\ \A i \in RulesOf(q, s) : Len(s[i].value) <= best.length
       /\ \E i \in RulesOf(q, s) : Len(s[i].value) = best.length
       /\ best.allowed <=>
            \E i \in RulesOf(q, s) : Len(s[i].value) = best.length /\ s[i].field = "Allow"
Best == [matched : BOOLEAN, allowed : BOOLEAN, length : Nat]
LinesRead(q, s, acc) ==
  /\ acc \in [active : BOOLEAN, best : Best]
  /\ acc.active <=> InGroup(s, Len(s), q.agent)
  /\ BestKept(q, s, acc.best)
Reading == INSTANCE FoldTheorems
  WITH T <- Lines, Base <- NothingRead, Op <- LineRead, P <- LinesRead

\* The group of a line that is read next, and of the lines before it.
LEMMA GroupGrows ==
  ASSUME NEW s \in Seq(Lines), NEW line \in Lines, NEW agent, NEW t, t = Append(s, line)
  PROVE  /\ \A i \in DOMAIN s : InGroup(t, i, agent) <=> InGroup(s, i, agent)
         /\ InGroup(t, Len(t), agent) <=>
              IF line.field = "User-agent" THEN line.value \in {agent, "*"}
              ELSE InGroup(s, Len(s), agent)
<1>1. /\ Len(s) \in Nat /\ Len(t) = Len(s) + 1 /\ t[Len(t)] = line /\ DOMAIN s = 1 .. Len(s)
      /\ \A k \in 1 .. Len(s) : t[k] = s[k]
  OBVIOUS
<1>2. ASSUME NEW i \in DOMAIN s PROVE InGroup(t, i, agent) <=> InGroup(s, i, agent)
  BY <1>1 DEF InGroup
<1>3. CASE line.field = "User-agent"
  BY <1>1, <1>3 DEF InGroup
<1>4. CASE line.field # "User-agent"
  <2>1. ASSUME InGroup(t, Len(t), agent) PROVE InGroup(s, Len(s), agent)
    <3>1. PICK k \in 1 .. Len(t) :
            /\ t[k].field = "User-agent" /\ t[k].value \in {agent, "*"}
            /\ \A m \in k + 1 .. Len(t) : t[m].field # "User-agent"
      BY <2>1 DEF InGroup
    <3>2. k \in 1 .. Len(s)
      BY <1>1, <1>4, <3>1
    <3>3. \A m \in k + 1 .. Len(s) : s[m].field # "User-agent"
      BY <1>1, <3>1, <3>2
    <3> QED
      BY <1>1, <3>1, <3>2, <3>3 DEF InGroup
  <2>2. ASSUME InGroup(s, Len(s), agent) PROVE InGroup(t, Len(t), agent)
    <3>1. PICK k \in 1 .. Len(s) :
            /\ s[k].field = "User-agent" /\ s[k].value \in {agent, "*"}
            /\ \A m \in k + 1 .. Len(s) : s[m].field # "User-agent"
      BY <2>2 DEF InGroup
    <3>2. k \in 1 .. Len(t) /\ \A m \in k + 1 .. Len(t) : t[m].field # "User-agent"
      BY <1>1, <1>4, <3>1
    <3> QED
      BY <1>1, <3>1, <3>2 DEF InGroup
  <2> QED
    BY <1>2, <1>4, <2>1, <2>2
<1> QED
  BY <1>2, <1>3, <1>4

\* The rules that count once another line was read.
LEMMA RulesGrow ==
  ASSUME NEW q, NEW s \in Seq(Lines), NEW line \in Lines, NEW t, t = Append(s, line)
  PROVE  RulesOf(q, t) =
           RulesOf(q, s) \cup
             IF Applies(line, q.path) /\ InGroup(s, Len(s), q.agent) THEN {Len(t)} ELSE {}
<1>1. /\ Len(s) \in Nat /\ Len(t) = Len(s) + 1 /\ t[Len(t)] = line
      /\ DOMAIN s = 1 .. Len(s) /\ DOMAIN t = 1 .. Len(t)
      /\ \A k \in DOMAIN s : t[k] = s[k]
  OBVIOUS
<1>2. \A i \in DOMAIN s : InGroup(t, i, q.agent) <=> InGroup(s, i, q.agent)
  BY GroupGrows
<1>3. /\ \A i \in DOMAIN s : i \in RulesOf(q, t) <=> i \in RulesOf(q, s)
      /\ Len(t) \in RulesOf(q, t) <=> Applies(line, q.path) /\ InGroup(s, Len(s), q.agent)
  <2>1. \A i \in DOMAIN s : i \in RulesOf(q, t) <=> i \in RulesOf(q, s)
    BY <1>1, <1>2 DEF RulesOf
  <2>2. Applies(line, q.path) => (InGroup(t, Len(t), q.agent) <=> InGroup(s, Len(s), q.agent))
    <3>1. Applies(line, q.path) => line.field # "User-agent"
      BY DEF Applies
    <3>2. InGroup(t, Len(t), q.agent) <=>
            IF line.field = "User-agent" THEN line.value \in {q.agent, "*"}
            ELSE InGroup(s, Len(s), q.agent)
      BY GroupGrows
    <3> QED
      BY <3>1, <3>2
  <2>3. Len(t) \in DOMAIN t
    BY <1>1
  <2> QED
    BY <1>1, <2>1, <2>2, <2>3 DEF RulesOf
<1>4. RulesOf(q, s) \subseteq DOMAIN s /\ RulesOf(q, t) \subseteq DOMAIN s \cup {Len(t)}
  BY <1>1 DEF RulesOf
<1>5. Len(t) \notin DOMAIN s
  BY <1>1
<1> QED
  BY <1>3, <1>4, <1>5

\* A line that does not count leaves the best rule what it is.
LEMMA OtherRead ==
  ASSUME NEW q, NEW s \in Seq(Lines), NEW line \in Lines, NEW t, t = Append(s, line),
         NEW best, BestKept(q, s, best),
         ~(Applies(line, q.path) /\ InGroup(s, Len(s), q.agent))
  PROVE  BestKept(q, t, best)
<1>1. RulesOf(q, t) = RulesOf(q, s)
  <2>1. RulesOf(q, t) = RulesOf(q, s) \cup {}
    BY RulesGrow, Zenon
  <2> QED
    BY <2>1
<1>2. \A i \in RulesOf(q, s) : t[i] = s[i]
  BY DEF RulesOf
<1> QED
  BY <1>1, <1>2 DEF BestKept

\* A rule that counts is compared with the best one so far.
LEMMA RuleRead ==
  ASSUME RobotsAssumption, NEW q, NEW s \in Seq(Lines), NEW line \in Lines,
         NEW t, t = Append(s, line), NEW best \in Best, BestKept(q, s, best),
         Applies(line, q.path), InGroup(s, Len(s), q.agent)
  PROVE  LET next == S!Better(best, line, q.path)
         IN  next \in Best /\ BestKept(q, t, next)
<1> DEFINE n == Len(line.value)
           R == RulesOf(q, s)
           next == S!Better(best, line, q.path)
<1>1. n \in Nat /\ line.field \in {"Allow", "Disallow"} /\ best.length \in Nat
      /\ best.matched \in BOOLEAN
  BY DEF RobotsAssumption, Applies, Best
<1>2. RulesOf(q, t) = R \cup {Len(t)}
  BY RulesGrow
<1>3. t[Len(t)] = line /\ \A i \in R : t[i] = s[i] /\ Len(t) \notin R
  BY DEF RulesOf
<1>4. next = IF best.matched /\ (n < best.length \/ (line.field = "Disallow" /\ n = best.length))
             THEN best
             ELSE [matched |-> TRUE, allowed |-> line.field = "Allow", length |-> n]
  BY DEF S!Better, Applies
<1>5. \A i \in R : best.matched
  BY DEF BestKept
<1>6. best.matched =>
        /\ \A i \in R : Len(s[i].value) <= best.length
        /\ \E i \in R : Len(s[i].value) = best.length
        /\ best.allowed <=> \E i \in R : Len(s[i].value) = best.length /\ s[i].field = "Allow"
  BY DEF BestKept
<1>7. \A i \in R : Len(s[i].value) \in Nat
  BY DEF RobotsAssumption, RulesOf, Applies
<1> HIDE DEF n, R, next
<1>8. CASE best.matched /\ (n < best.length \/ (line.field = "Disallow" /\ n = best.length))
  <2>1. next = best
    BY <1>4, <1>8
  <2>2. n <= best.length /\ (n = best.length => line.field # "Allow")
    BY <1>1, <1>8
  <2>3. \A i \in RulesOf(q, t) : Len(t[i].value) <= best.length
    BY <1>1, <1>2, <1>3, <1>6, <1>8, <2>2 DEF n
  <2>4. \E i \in RulesOf(q, t) : Len(t[i].value) = best.length
    BY <1>2, <1>3, <1>6, <1>8
  <2>5. best.allowed <=>
          \E i \in RulesOf(q, t) : Len(t[i].value) = best.length /\ t[i].field = "Allow"
    BY <1>2, <1>3, <1>6, <1>8, <2>2 DEF n
  <2>6. best.matched <=> RulesOf(q, t) # {}
    BY <1>2, <1>8
  <2> QED
    BY <2>1, <2>3, <2>4, <2>5, <2>6 DEF BestKept, next
<1>9. CASE ~(best.matched /\ (n < best.length \/ (line.field = "Disallow" /\ n = best.length)))
  <2>1. next = [matched |-> TRUE, allowed |-> line.field = "Allow", length |-> n]
    BY <1>4, <1>9
  <2>2. next \in Best /\ next.matched /\ next.length = n
        /\ (next.allowed <=> line.field = "Allow")
    BY <1>1, <2>1 DEF Best
  <2>3. \A i \in R : /\ Len(s[i].value) <= n
                     /\ Len(s[i].value) = n => line.field = "Allow"
    BY <1>1, <1>5, <1>6, <1>7, <1>9
  <2>4. \A i \in RulesOf(q, t) : Len(t[i].value) <= n
    <3>1. Len(t[Len(t)].value) = n /\ n <= n
      BY <1>1, <1>3 DEF n
    <3> QED
      BY <1>2, <1>3, <2>3, <3>1
  <2>5. \E i \in RulesOf(q, t) : Len(t[i].value) = n
    BY <1>2, <1>3 DEF n
  <2>6. next.allowed <=>
          \E i \in RulesOf(q, t) : Len(t[i].value) = n /\ t[i].field = "Allow"
    BY <1>2, <1>3, <2>2, <2>3 DEF n
  <2>7. next.matched <=> RulesOf(q, t) # {}
    BY <1>2, <2>2
  <2> QED
    BY <2>2, <2>4, <2>5, <2>6, <2>7 DEF BestKept, next
<1> QED
  BY <1>8, <1>9

\* What is known of the lines read is kept by the next one.
LEMMA LineStep ==
  ASSUME RobotsAssumption, NEW q, NEW s \in Seq(Lines), NEW line \in Lines, NEW acc,
         LinesRead(q, s, acc)
  PROVE  LinesRead(q, Append(s, line), LineRead(q, acc, line))
<1> SUFFICES ASSUME NEW t, t = Append(s, line) PROVE LinesRead(q, t, LineRead(q, acc, line))
  OBVIOUS
<1>1. /\ acc \in [active : BOOLEAN, best : Best] /\ BestKept(q, s, acc.best)
      /\ acc.active <=> InGroup(s, Len(s), q.agent)
  BY DEF LinesRead
<1>2. InGroup(t, Len(t), q.agent) <=>
        IF line.field = "User-agent" THEN line.value \in {q.agent, "*"}
        ELSE InGroup(s, Len(s), q.agent)
  BY GroupGrows
<1>3. CASE line.field = "User-agent"
  <2> DEFINE matches == S!UserAgentMatches(line.value, q.agent)
  <2>1. matches \in BOOLEAN /\ (matches <=> InGroup(t, Len(t), q.agent))
    BY <1>2, <1>3 DEF S!UserAgentMatches
  <2>2. LineRead(q, acc, line) = [acc EXCEPT !.active = matches]
    BY <1>3 DEF LineRead, S!ReadLine
  <2>3. BestKept(q, t, acc.best)
    BY <1>1, <1>3, OtherRead DEF Applies
  <2> HIDE DEF matches
  <2> QED
    BY <1>1, <2>1, <2>2, <2>3 DEF LinesRead
<1>4. CASE line.field \in {"Allow", "Disallow"} /\ acc.active
  <2> DEFINE next == S!Better(acc.best, line, q.path)
  <2>1. LineRead(q, acc, line) = [acc EXCEPT !.best = next]
    BY <1>1, <1>4 DEF LineRead, S!ReadLine
  <2>2. next \in Best /\ BestKept(q, t, next)
    <3>1. CASE Applies(line, q.path)
      BY <1>1, <1>4, <3>1, RuleRead
    <3>2. CASE ~Applies(line, q.path)
      <4>1. next = acc.best
        BY <1>4, <3>2 DEF S!Better, Applies
      <4>2. BestKept(q, t, acc.best)
        BY <1>1, <3>2, OtherRead, Zenon
      <4>3. acc.best \in Best
        BY <1>1
      <4> HIDE DEF next
      <4> QED
        BY <4>1, <4>2, <4>3
    <3> QED
      BY <3>1, <3>2
  <2> HIDE DEF next
  <2> QED
    BY <1>1, <1>2, <1>4, <2>1, <2>2 DEF LinesRead
<1>5. CASE line.field # "User-agent" /\ ~(line.field \in {"Allow", "Disallow"} /\ acc.active)
  <2>1. LineRead(q, acc, line) = acc
    BY <1>5 DEF LineRead, S!ReadLine
  <2>2. BestKept(q, t, acc.best)
    BY <1>1, <1>5, OtherRead DEF Applies
  <2> QED
    BY <1>1, <1>2, <1>5, <2>1, <2>2 DEF LinesRead
<1> QED
  BY <1>3, <1>4, <1>5

LEMMA LinesAreRead ==
  ASSUME RobotsAssumption, NEW q
  PROVE  \A s \in Seq(Lines) : LinesRead(q, s, Reading!Fold(q, s))
<1>1. LinesRead(q, <<>>, NothingRead(q))
  <2>1. RulesOf(q, <<>>) = {} /\ ~InGroup(<<>>, Len(<<>>), q.agent)
    BY DEF RulesOf, InGroup
  <2> QED
    BY <2>1 DEF LinesRead, NothingRead, BestKept, Best
<1>2. \A s \in Seq(Lines), line \in Lines : \A acc :
        LinesRead(q, s, acc) => LinesRead(q, Append(s, line), LineRead(q, acc, line))
  BY LineStep
<1> QED
  BY <1>1, <1>2, Reading!FoldInduction

\* The group that the property looks up is the one the loop is in.
LEMMA GroupOf ==
  ASSUME NEW s \in Seq(Lines), NEW i \in DOMAIN s, NEW agent
  PROVE  LET group == S!SelectLastInSubSeq(s, 1, i, LAMBDA l : l.field = "User-agent")
         IN  InGroup(s, i, agent) <=> (group > 0 /\ s[group].value \in {agent, "*"})
<1> DEFINE opened == {k \in 1 .. i : s[k].field = "User-agent"}
           group == S!SelectLastInSubSeq(s, 1, i, LAMBDA l : l.field = "User-agent")
<1>1. i \in Nat /\ opened \in SUBSET (1 .. i)
  OBVIOUS
<1>2. group = IF opened # {} THEN Reading!Max(opened) ELSE 0
  BY DEF S!SelectLastInSubSeq, S!Max, Reading!Max
<1>3. CASE opened = {}
  <2>1. ~InGroup(s, i, agent)
    BY <1>3 DEF InGroup
  <2> QED
    BY <1>2, <1>3, <2>1
<1>4. CASE opened # {}
  <2>1. group \in opened /\ \A k \in opened : group >= k
    <3> HIDE DEF opened, group
    <3> QED
      BY <1>1, <1>2, <1>4, Reading!MaxExists
  <2> HIDE DEF group
  <2>2. group \in 1 .. i /\ s[group].field = "User-agent"
        /\ \A m \in group + 1 .. i : s[m].field # "User-agent"
    BY <2>1
  <2>3. \A k \in 1 .. i : /\ s[k].field = "User-agent"
                          /\ \A m \in k + 1 .. i : s[m].field # "User-agent"
                          => k = group
    BY <2>2
  <2> QED
    BY <2>2, <2>3 DEF InGroup, group
<1> QED
  BY <1>3, <1>4

LEMMA LinesInvariant == Spec => [](part = "robots" => robots \in Seq(Lines))
<1>1. Init => (part = "robots" => robots \in Seq(Lines))
  BY DEF Init
<1>2. (part = "robots" => robots \in Seq(Lines)) /\ [Next]_vars
        => (part = "robots" => robots \in Seq(Lines))'
  BY SearchSteps DEF ReadOn
<1> QED
  BY <1>1, <1>2, PTL DEF Spec

\* For every robots file, path and agent: of the rules that match the path in the
\* groups of the agent the longest decides, an Allow before a Disallow of its
\* length, wherever they stand (niyah_robots_path_allowed); without a rule the
\* path is allowed.
THEOREM LongestRuleDecides == Spec => []RobotsDecision
<1>1. ASSUME robots \in Seq(Lines), NEW path, NEW agent
      PROVE  S!LongestRuleDecides(path, robots, agent)
  <2> DEFINE q == [path |-> path, agent |-> agent]
             best == Reading!Fold(q, robots).best
             Group(i) == S!SelectLastInSubSeq(robots, 1, i, LAMBDA l : l.field = "User-agent")
             rules == {i \in DOMAIN robots :
                         /\ robots[i].field \in {"Allow", "Disallow"} /\ robots[i].value # <<>>
                         /\ S!IsPrefix(robots[i].value, path)
                         /\ Group(i) > 0 /\ robots[Group(i)].value \in {agent, "*"}}
             longest == {i \in rules :
                           \A j \in rules : Len(robots[i].value) >= Len(robots[j].value)}
  <2>1. q.path = path /\ q.agent = agent
    OBVIOUS
  <2>2. S!RobotsPathAllowed(path, robots, agent) <=> (~best.matched \/ best.allowed)
    BY DEF S!RobotsPathAllowed, S!FoldLeft, S!MapThenFoldSet, S!Max, Reading!Fold,
       Reading!FoldLeft, Reading!MapThenFoldSet, Reading!Max, NothingRead, LineRead
  <2>3. rules = RulesOf(q, robots)
    <3>1. \A i \in DOMAIN robots :
            InGroup(robots, i, agent) <=> (Group(i) > 0 /\ robots[Group(i)].value \in {agent, "*"})
      BY <1>1, GroupOf
    <3> HIDE DEF Group
    <3> QED
      BY <3>1 DEF RulesOf, Applies
  <2>4. best \in Best /\ BestKept(q, robots, best)
    <3> HIDE DEF q
    <3> QED
      BY <1>1, LinesAreRead, Assumptions DEF Assumptions, LinesRead
  <2>5. S!LongestRuleDecides(path, robots, agent) <=>
          (S!RobotsPathAllowed(path, robots, agent)
             <=> (rules = {} \/ \E i \in longest : robots[i].field = "Allow"))
    BY DEF S!LongestRuleDecides
  <2>6. \A i \in rules : Len(robots[i].value) \in Nat
    BY <1>1, <2>3, Assumptions DEF Assumptions, RobotsAssumption, RulesOf, Applies
  <2> HIDE DEF q, best, rules
  <2>7. CASE ~best.matched
    BY <2>2, <2>3, <2>4, <2>5, <2>7 DEF BestKept
  <2>8. CASE best.matched
    <3>1. \A i \in rules : i \in longest <=> Len(robots[i].value) = best.length
      BY <2>3, <2>4, <2>6, <2>8 DEF BestKept, Best
    <3>2. best.allowed <=> \E i \in longest : robots[i].field = "Allow"
      BY <2>3, <2>4, <2>8, <3>1 DEF BestKept
    <3> QED
      BY <2>2, <2>3, <2>4, <2>5, <2>8, <3>2 DEF BestKept
  <2> QED
    BY <2>7, <2>8
<1>2. (part = "robots" => robots \in Seq(Lines)) => RobotsDecision
  BY <1>1 DEF RobotsDecision
<1> QED
  BY <1>2, LinesInvariant, PTL

-----------------------------------------------------------------------------
(* Evidence                                                                *)

Verdict == [verified : BOOLEAN, confidence : Int]
ClaimNode == [node_id : ClaimId, envelope : Envelope \cup {NoEnvelope}]
VoteEdge == [from_node : Nat, to_node : Nat, edge_type : E!EdgeTypes, weight : Int]

EvidenceTyped ==
  /\ DOMAIN envelopes \subseteq Envelope /\ envelopes \in [DOMAIN envelopes -> Verdict]
  /\ nodes \in Seq(ClaimNode) /\ edges \in Seq(VoteEdge)

\* Only a verification gives an envelope a confidence, and it marks it
VerifiedOnly == \A e \in DOMAIN envelopes : ~envelopes[e].verified => envelopes[e].confidence = 0

EvidenceInv == EvidenceTyped /\ VerifiedOnly /\ E!GraphSound

\* E!Aggregate as a loop over the edges, before its clamp
NoVotes(n) == 0
AddVote(n, sum, e) == IF e.to_node = n THEN sum + E!Contribution(e) ELSE sum
Silent(n, s, sum) ==
  (\A i \in DOMAIN s : s[i].to_node = n => E!Contribution(s[i]) = 0) => sum = 0
Votes == INSTANCE FoldTheorems
  WITH T <- VoteEdge, Base <- NoVotes, Op <- AddVote, P <- Silent

\* What the graph asks of its envelopes is kept when none of those it uses goes.
LEMMA EnvelopesStep ==
  ASSUME EvidenceInv, UNCHANGED <<nodes, edges>>, DOMAIN envelopes' \subseteq Envelope,
         envelopes' \in [DOMAIN envelopes' -> Verdict],
         \A e \in DOMAIN envelopes' : ~envelopes'[e].verified => envelopes'[e].confidence = 0,
         \A i \in DOMAIN nodes : nodes[i].envelope \in DOMAIN envelopes' \cup {NoEnvelope}
  PROVE  EvidenceInv'
<1>1. EvidenceTyped' /\ VerifiedOnly'
  BY DEF EvidenceInv, EvidenceTyped, VerifiedOnly
<1>2. E!GraphSound'
  BY DEF EvidenceInv, E!GraphSound, E!InUnit
<1> QED
  BY <1>1, <1>2 DEF EvidenceInv

LEMMA CreateStep ==
  ASSUME EvidenceInv, NEW e \in Envelope, E!Create(e) PROVE EvidenceInv'
<1> DEFINE fresh == [verified |-> FALSE, confidence |-> 0]
<1>1. /\ DOMAIN envelopes \subseteq Envelope /\ envelopes \in [DOMAIN envelopes -> Verdict]
      /\ \A i \in DOMAIN nodes : nodes[i].envelope \in DOMAIN envelopes \cup {NoEnvelope}
      /\ \A x \in DOMAIN envelopes : ~envelopes[x].verified => envelopes[x].confidence = 0
  BY DEF EvidenceInv, EvidenceTyped, VerifiedOnly, E!GraphSound
<1>2. /\ envelopes' = [x \in DOMAIN envelopes \cup {e} |-> IF x = e THEN fresh ELSE envelopes[x]]
      /\ UNCHANGED <<nodes, edges>>
  BY DEF E!Create
<1>3. fresh \in Verdict /\ fresh.confidence = 0
  BY DEF Verdict
<1> HIDE DEF fresh
<1>4. /\ DOMAIN envelopes' = DOMAIN envelopes \cup {e}
      /\ envelopes' \in [DOMAIN envelopes' -> Verdict]
      /\ \A x \in DOMAIN envelopes' : ~envelopes'[x].verified => envelopes'[x].confidence = 0
  BY <1>1, <1>2, <1>3
<1> QED
  BY <1>1, <1>2, <1>4, EnvelopesStep

LEMMA DestroyStep ==
  ASSUME EvidenceInv, NEW e \in Envelope, E!Destroy(e) PROVE EvidenceInv'
<1>1. /\ DOMAIN envelopes \subseteq Envelope /\ envelopes \in [DOMAIN envelopes -> Verdict]
      /\ \A i \in DOMAIN nodes : nodes[i].envelope \in DOMAIN envelopes \cup {NoEnvelope}
      /\ \A x \in DOMAIN envelopes : ~envelopes[x].verified => envelopes[x].confidence = 0
  BY DEF EvidenceInv, EvidenceTyped, VerifiedOnly, E!GraphSound
<1>2. /\ envelopes' = [x \in DOMAIN envelopes \ {e} |-> envelopes[x]]
      /\ UNCHANGED <<nodes, edges>> /\ \A i \in DOMAIN nodes : nodes[i].envelope # e
  BY DEF E!Destroy
<1>3. /\ DOMAIN envelopes' = DOMAIN envelopes \ {e}
      /\ envelopes' \in [DOMAIN envelopes' -> Verdict]
      /\ \A x \in DOMAIN envelopes' : ~envelopes'[x].verified => envelopes'[x].confidence = 0
  BY <1>1, <1>2
<1> QED
  BY <1>1, <1>2, <1>3, EnvelopesStep

LEMMA VerifyStep ==
  ASSUME E!EvidenceAssumption, EvidenceInv, NEW e \in Envelope, NEW c \in Floats, E!Verify(e, c)
  PROVE  EvidenceInv'
<1> DEFINE given == [verified |-> TRUE, confidence |-> c]
<1>1. /\ DOMAIN envelopes \subseteq Envelope /\ envelopes \in [DOMAIN envelopes -> Verdict]
      /\ \A i \in DOMAIN nodes : nodes[i].envelope \in DOMAIN envelopes \cup {NoEnvelope}
      /\ \A x \in DOMAIN envelopes : ~envelopes[x].verified => envelopes[x].confidence = 0
  BY DEF EvidenceInv, EvidenceTyped, VerifiedOnly, E!GraphSound
<1>2. /\ envelopes' = envelopes \/ envelopes' = [envelopes EXCEPT ![e] = given]
      /\ e \in DOMAIN envelopes /\ UNCHANGED <<nodes, edges>>
  BY DEF E!Verify
<1>3. given \in Verdict /\ given.verified
  BY DEF Verdict, E!EvidenceAssumption
<1> HIDE DEF given
<1>4. /\ DOMAIN envelopes' = DOMAIN envelopes
      /\ envelopes' \in [DOMAIN envelopes' -> Verdict]
      /\ \A x \in DOMAIN envelopes' : ~envelopes'[x].verified => envelopes'[x].confidence = 0
  BY <1>1, <1>2, <1>3
<1> QED
  BY <1>1, <1>2, <1>4, EnvelopesStep

LEMMA ClaimStep ==
  ASSUME E!EvidenceAssumption, EvidenceInv, NEW id \in ClaimId,
         NEW e \in Envelope \cup {NoEnvelope}, E!AddNode(id, e)
  PROVE  EvidenceInv'
<1>1. CASE E!AddNodeStatus(id) # "ok"
  <2>1. UNCHANGED <<envelopes, nodes, edges>>
    BY <1>1 DEF E!AddNode
  <2> QED
    BY <2>1 DEF EvidenceInv, EvidenceTyped, VerifiedOnly, E!GraphSound, E!InUnit
<1>2. CASE E!AddNodeStatus(id) = "ok"
  <2> SUFFICES ASSUME NEW new, new = [node_id |-> id, envelope |-> e],
                      nodes' = Append(nodes, new), UNCHANGED <<envelopes, edges>>
               PROVE  EvidenceInv'
    BY <1>2 DEF E!AddNode
  <2>1. Len(nodes) < MaxNodes /\ \A i \in DOMAIN nodes : nodes[i].node_id # id
    BY <1>2 DEF E!AddNodeStatus, EvidenceInv, EvidenceTyped, E!EvidenceAssumption
  <2>2. new \in ClaimNode /\ new.node_id = id /\ new.envelope = e
    BY DEF ClaimNode
  <2>3. /\ nodes' \in Seq(ClaimNode) /\ Len(nodes') = Len(nodes) + 1 /\ Len(nodes) \in Nat
        /\ DOMAIN nodes = 1 .. Len(nodes) /\ DOMAIN nodes' = 1 .. Len(nodes')
        /\ \A i \in DOMAIN nodes : nodes'[i] = nodes[i]
        /\ nodes'[Len(nodes')] = new
    BY <2>2 DEF EvidenceInv, EvidenceTyped
  <2>4. Len(nodes') <= MaxNodes
    BY <2>1, <2>3 DEF E!EvidenceAssumption
  <2>5. \A i, j \in DOMAIN nodes' : nodes'[i].node_id = nodes'[j].node_id => i = j
    BY <2>1, <2>2, <2>3 DEF EvidenceInv, E!GraphSound
  <2>6. \A i \in DOMAIN nodes' : nodes'[i].envelope \in DOMAIN envelopes \cup {NoEnvelope}
    BY <2>2, <2>3 DEF EvidenceInv, E!GraphSound, E!AddNode
  <2>7. \A i \in DOMAIN edges :
          /\ {edges[i].from_node, edges[i].to_node} \subseteq DOMAIN nodes'
          /\ edges[i].from_node # edges[i].to_node /\ E!InUnit(edges[i].weight)
    BY <2>3 DEF EvidenceInv, E!GraphSound
  <2>8. E!GraphSound'
    BY <2>4, <2>5, <2>6, <2>7 DEF EvidenceInv, E!GraphSound, E!InUnit
  <2> QED
    BY <2>3, <2>8 DEF EvidenceInv, EvidenceTyped, VerifiedOnly
<1> QED
  BY <1>1, <1>2

LEMMA VoteStep ==
  ASSUME E!EvidenceAssumption, EvidenceInv, NEW from \in 1 .. MaxNodes + 1,
         NEW to \in 1 .. MaxNodes + 1, NEW type \in E!EdgeTypes, NEW w \in Floats,
         E!AddEdge(from, to, type, w)
  PROVE  EvidenceInv'
<1>1. CASE E!AddEdgeStatus(from, to, w) # "ok"
  <2>1. UNCHANGED <<envelopes, nodes, edges>>
    BY <1>1 DEF E!AddEdge
  <2> QED
    BY <2>1 DEF EvidenceInv, EvidenceTyped, VerifiedOnly, E!GraphSound, E!InUnit
<1>2. CASE E!AddEdgeStatus(from, to, w) = "ok"
  <2> SUFFICES ASSUME NEW new,
                      new = [from_node |-> from, to_node |-> to, edge_type |-> type, weight |-> w],
                      edges' = Append(edges, new), UNCHANGED <<envelopes, nodes>>
               PROVE  EvidenceInv'
    BY <1>2 DEF E!AddEdge
  <2>1. /\ from <= Len(nodes) /\ to <= Len(nodes) /\ from # to /\ E!InUnit(w)
        /\ ~(Len(edges) >= MaxEdges)
    BY <1>2 DEF E!AddEdgeStatus
  <2>2. /\ new \in VoteEdge /\ new.from_node = from /\ new.to_node = to /\ new.weight = w
    BY DEF VoteEdge, E!EvidenceAssumption
  <2>3. /\ edges' \in Seq(VoteEdge) /\ Len(edges') = Len(edges) + 1 /\ Len(edges) \in Nat
        /\ DOMAIN edges = 1 .. Len(edges) /\ DOMAIN edges' = 1 .. Len(edges')
        /\ \A i \in DOMAIN edges : edges'[i] = edges[i]
        /\ edges'[Len(edges')] = new
    BY <2>2 DEF EvidenceInv, EvidenceTyped
  <2>4. Len(edges') <= MaxEdges
    BY <2>1, <2>3 DEF E!EvidenceAssumption
  <2>5. {from, to} \subseteq DOMAIN nodes
    BY <2>1 DEF EvidenceInv, EvidenceTyped, E!EvidenceAssumption
  <2>6. \A i \in DOMAIN edges' :
          /\ {edges'[i].from_node, edges'[i].to_node} \subseteq DOMAIN nodes
          /\ edges'[i].from_node # edges'[i].to_node /\ E!InUnit(edges'[i].weight)
    BY <2>1, <2>2, <2>3, <2>5 DEF EvidenceInv, E!GraphSound
  <2>7. E!GraphSound'
    BY <2>4, <2>6 DEF EvidenceInv, E!GraphSound, E!InUnit
  <2> QED
    BY <2>3, <2>7 DEF EvidenceInv, EvidenceTyped, VerifiedOnly
<1> QED
  BY <1>1, <1>2

LEMMA EvidenceInvariant == Spec => [](part = "evidence" => EvidenceInv)
<1> USE Assumptions DEF Assumptions
<1>1. Init => (part = "evidence" => EvidenceInv)
  <2> SUFFICES ASSUME E!Init PROVE EvidenceInv
    BY DEF Init
  <2> QED
    BY DEF E!Init, EvidenceInv, EvidenceTyped, VerifiedOnly, E!GraphSound, E!EvidenceAssumption
<1>2. (part = "evidence" => EvidenceInv) /\ [Next]_vars => (part = "evidence" => EvidenceInv)'
  <2> SUFFICES ASSUME part = "evidence", EvidenceInv, E!Next \/ UNCHANGED eVars
               PROVE  EvidenceInv'
    BY SearchSteps
  <2>1. ASSUME NEW e \in Envelope, E!Create(e) PROVE EvidenceInv'
    BY <2>1, CreateStep
  <2>2. ASSUME NEW e \in Envelope, E!Destroy(e) PROVE EvidenceInv'
    BY <2>2, DestroyStep
  <2>3. ASSUME NEW e \in Envelope, NEW c \in Floats, E!Verify(e, c) PROVE EvidenceInv'
    BY <2>3, VerifyStep
  <2>4. ASSUME NEW id \in ClaimId, NEW e \in Envelope \cup {NoEnvelope}, E!AddNode(id, e)
        PROVE  EvidenceInv'
    BY <2>4, ClaimStep
  <2>5. ASSUME NEW from \in 1 .. MaxNodes + 1, NEW to \in 1 .. MaxNodes + 1,
               NEW type \in E!EdgeTypes, NEW w \in Floats, E!AddEdge(from, to, type, w)
        PROVE  EvidenceInv'
    BY <2>5, VoteStep
  <2>6. ASSUME UNCHANGED eVars PROVE EvidenceInv'
    BY <2>6 DEF eVars, EvidenceInv, EvidenceTyped, VerifiedOnly, E!GraphSound, E!InUnit
  <2> QED
    BY <2>1, <2>2, <2>3, <2>4, <2>5, <2>6 DEF E!Next
<1> QED
  BY <1>1, <1>2, PTL DEF Spec

\* Through calls that are refused because the graph is full, the claim is there or
\* an index or a weight is out of range, every edge joins two different claims of
\* the graph and every claim is there once (add_node, add_edge).
THEOREM EvidenceGraphSound == Spec => []GraphSound
<1>1. (part = "evidence" => EvidenceInv) => GraphSound
  BY DEF EvidenceInv, GraphSound
<1> QED
  BY <1>1, EvidenceInvariant, PTL

\* A loop over edges that contribute nothing sums up to nothing.
LEMMA SilentVotes == ASSUME NEW n PROVE \A s \in Seq(VoteEdge) : Silent(n, s, Votes!Fold(n, s))
<1>1. Silent(n, <<>>, NoVotes(n))
  BY DEF Silent, NoVotes
<1>2. ASSUME NEW s \in Seq(VoteEdge), NEW e \in VoteEdge, NEW sum, Silent(n, s, sum)
      PROVE  Silent(n, Append(s, e), AddVote(n, sum, e))
  <2> SUFFICES ASSUME NEW t, t = Append(s, e),
                      \A i \in DOMAIN t : t[i].to_node = n => E!Contribution(t[i]) = 0
               PROVE  AddVote(n, sum, e) = 0
    BY DEF Silent
  <2>1. /\ \A i \in DOMAIN s : i \in DOMAIN t /\ t[i] = s[i]
        /\ Len(t) \in DOMAIN t /\ t[Len(t)] = e
    OBVIOUS
  <2>2. sum = 0
    BY <1>2, <2>1 DEF Silent
  <2> QED
    BY <2>1, <2>2 DEF AddVote
<1> QED
  BY <1>1, <1>2, Votes!FoldInduction

\* Verifications, failed ones and shared envelopes in any order: claims whose
\* neighbours' evidence was never verified stay uncertain with a confidence of
\* nothing (aggregate_confidence, classify, evidence_graph.c).
THEOREM UnverifiedIsSilent == Spec => []UnverifiedMovesNothing
<1> USE Assumptions DEF Assumptions
<1>1. ASSUME EvidenceInv, NEW n \in DOMAIN nodes,
             \A i \in DOMAIN edges : edges[i].to_node = n => E!Unverified(edges[i].from_node)
      PROVE  E!EvaluateClaim(n) = [net_confidence |-> 0, verdict_type |-> "uncertain"]
  <2>1. ASSUME NEW i \in DOMAIN edges, edges[i].to_node = n
        PROVE  E!Contribution(edges[i]) = 0
    <3>1. edges[i].weight \in Int /\ edges[i].from_node \in DOMAIN nodes
      <4>1. edges[i] \in VoteEdge
        BY <1>1 DEF EvidenceInv, EvidenceTyped
      <4>2. edges[i].from_node \in DOMAIN nodes
        BY <1>1 DEF EvidenceInv, E!GraphSound
      <4> QED
        BY <4>1, <4>2 DEF VoteEdge
    <3>2. E!Confidence(edges[i].from_node) = 0
      <4> SUFFICES ASSUME NEW m \in DOMAIN nodes, E!Unverified(m) PROVE E!Confidence(m) = 0
        BY <1>1, <2>1, <3>1
      <4>1. nodes[m].envelope \in DOMAIN envelopes \cup {NoEnvelope}
        BY <1>1 DEF EvidenceInv, E!GraphSound
      <4>2. nodes[m].envelope \in DOMAIN envelopes =>
              envelopes[nodes[m].envelope].confidence = 0
        BY <1>1, <4>1 DEF E!Unverified, E!EvidenceAssumption, EvidenceInv, EvidenceTyped,
           VerifiedOnly
      <4> QED
        BY <4>1, <4>2 DEF E!Confidence
    <3> QED
      BY <3>1, <3>2 DEF E!Contribution
  <2>2. E!Aggregate(n) = E!Clamp(Votes!Fold(n, edges))
    BY DEF E!Aggregate, E!FoldLeft, E!MapThenFoldSet, E!Max, Votes!Fold, Votes!FoldLeft,
       Votes!MapThenFoldSet, Votes!Max, NoVotes, AddVote
  <2>3. Votes!Fold(n, edges) = 0
    BY <1>1, <2>1, SilentVotes DEF EvidenceInv, EvidenceTyped, Silent
  <2>4. Scale * Scale > 0 /\ Scale * Scale \in Int
    BY DEF E!EvidenceAssumption
  <2>5. E!Aggregate(n) = 0
    BY <2>2, <2>3, <2>4 DEF E!Clamp
  <2>6. ASSUME NEW a, NEW b PROVE E!Classify(0, a, b) = "uncertain"
    BY <2>4 DEF E!Classify, E!EvidenceAssumption
  <2> QED
    BY <2>5, <2>6 DEF E!EvaluateClaim
<1>2. (part = "evidence" => EvidenceInv) => UnverifiedMovesNothing
  BY <1>1 DEF UnverifiedMovesNothing, E!UnverifiedMovesNothing
<1> QED
  BY <1>2, EvidenceInvariant, PTL

-----------------------------------------------------------------------------
(* The stores                                                              *)

\* A step is one of the component that runs, or changes nothing of it.
LEMMA StoreSteps ==
  ASSUME [Next]_vars
  PROVE  /\ part' = part
         /\ part = "arena" => A!Next \/ UNCHANGED aVars
         /\ part = "bridge" => B!Next \/ UNCHANGED bVars
         /\ part = "store" => L!Next \/ UNCHANGED lVars
         /\ part = "graph" => G!Next \/ UNCHANGED gVars
BY DEF Next, vars, OnlySearch, OnlyRobots, OnlyEvidence, OnlyBridge, OnlyGraph, OnlyArena,
       OnlyStore, OnlyGeneration, OnlyIdentity, OnlyMini

-----------------------------------------------------------------------------
(* The arena                                                               *)

Block == [first : Nat, size : Nat \ {0}]

ArenaTyped == base \in Bases /\ used \in Nat /\ blocks \subseteq Block

ArenaInv == ArenaTyped /\ A!BlocksApart

\* A!Padding brings an address to the next multiple of the alignment.
LEMMA PaddingAligns ==
  ASSUME NEW a \in Nat \ {0}, NEW x \in Nat
  PROVE  /\ x % a \in 0 .. a - 1
         /\ (x + (a - (x % a))) % a = 0
<1>1. x % a \in 0 .. a - 1
  BY SMT
<1>2. x = a * (x \div a) + (x % a) /\ x \div a \in Int
  BY SMT
<1>3. ASSUME NEW q \in Int, NEW r \in Int, x = (a * q) + r
      PROVE  (x + (a - r)) % a = 0
  <2>1. x + (a - r) = a * (q + 1)
    BY <1>3, SMT
  <2>2. \A k \in Int : (a * k) % a = 0
    BY SMT
  <2> QED
    BY <2>1, <2>2
<1>4. x % a \in Int
  BY <1>1
<1> QED
  BY <1>1, <1>2, <1>3, <1>4, Zenon

\* What alloc and alloc_floats need to know of the padding they add.
LEMMA PaddingFacts ==
  ASSUME A!ArenaAssumption, ArenaTyped
  PROVE  /\ A!Padding \in Nat /\ A!Padding < Align /\ A!PoolCapacity \in Nat
         /\ (base + used + A!Padding) % Align = 0
         /\ base \in Nat /\ base + A!PoolCapacity + Align < WordSize
<1> USE DEF A!ArenaAssumption, ArenaTyped
<1>1. base + used \in Nat /\ Align \in Nat \ {0}
  OBVIOUS
<1>2. /\ (base + used) % Align \in 0 .. Align - 1
      /\ (base + used + (Align - ((base + used) % Align))) % Align = 0
  BY <1>1, PaddingAligns
<1>3. A!Padding \in Nat /\ A!Padding < Align /\ (base + used + A!Padding) % Align = 0
  <2>1. CASE (base + used) % Align = 0
    BY <1>1, <2>1 DEF A!Padding
  <2>2. CASE (base + used) % Align # 0
    <3>1. A!Padding = Align - ((base + used) % Align)
      BY <2>2 DEF A!Padding
    <3> QED
      BY <1>1, <1>2, <2>2, <3>1
  <2> QED
    BY <2>1, <2>2
<1>4. A!PoolCapacity \in Nat /\ base \in Nat /\ base + A!PoolCapacity + Align < WordSize
  BY DEF A!PoolCapacity
<1> QED
  BY <1>3, <1>4

\* A block that fits lies behind all the others and before the end of the pool.
LEMMA AllocStep ==
  ASSUME A!ArenaAssumption, ArenaInv, NEW bytes \in Nat, A!Alloc(bytes)
  PROVE  ArenaInv'
<1> DEFINE new == [first |-> base + used + A!Padding, size |-> bytes]
<1>1. /\ A!Padding \in Nat /\ A!PoolCapacity \in Nat /\ base \in Nat /\ WordSize \in Nat
      /\ (base + used + A!Padding) % Align = 0 /\ base + A!PoolCapacity + Align < WordSize
      /\ used \in Nat /\ blocks \subseteq Block /\ Align \in Nat
  BY PaddingFacts DEF ArenaInv, ArenaTyped, A!ArenaAssumption
<1>2. /\ bytes > 0 /\ A!Padding <= A!PoolCapacity - used /\ bytes <= A!PoolCapacity - (used + A!Padding)
      /\ blocks' = blocks \cup {new} /\ base' = base
      /\ used' = (used + A!Padding + bytes) % WordSize
  BY DEF A!Alloc, A!Fits
<1>3. used' = used + A!Padding + bytes /\ used' <= A!PoolCapacity
  <2>1. used + A!Padding + bytes \in Nat /\ used + A!Padding + bytes < WordSize
    BY <1>1, <1>2
  <2>2. \A n \in Nat : n < WordSize => n % WordSize = n
    BY <1>1, SMT
  <2> QED
    BY <1>1, <1>2, <2>1, <2>2
<1>4. new \in Block /\ new.first = base + used + A!Padding /\ new.size = bytes
  BY <1>1, <1>2 DEF Block
<1>5. ArenaTyped'
  BY <1>1, <1>2, <1>3, <1>4 DEF ArenaTyped, ArenaInv
<1>6. /\ \A b \in blocks : b.first % Align = 0 /\ base <= b.first /\ A!Ends(b) <= base + used
      /\ \A b, c \in blocks : b # c => A!Ends(b) <= c.first \/ A!Ends(c) <= b.first
  BY DEF ArenaInv, A!BlocksApart
<1>7. A!Ends(new) = base + used' /\ base <= new.first /\ new.first % Align = 0
  BY <1>1, <1>3, <1>4 DEF A!Ends
<1>8. \A b \in blocks : A!Ends(b) <= new.first /\ A!Ends(b) <= base + used'
  <2> TAKE b \in blocks
  <2>1. A!Ends(b) <= base + used /\ A!Ends(b) \in Nat
    BY <1>1, <1>6 DEF A!Ends, Block
  <2> QED
    BY <1>1, <1>2, <1>3, <1>4, <2>1
<1>9. \A b \in blocks' : b.first % Align = 0 /\ base <= b.first /\ A!Ends(b) <= base + used'
  <2>1. A!Ends(new) <= base + used'
    BY <1>1, <1>2, <1>3, <1>7
  <2> QED
    BY <1>2, <1>6, <1>7, <1>8, <2>1, Zenon
<1>10. \A b, c \in blocks' : b # c => A!Ends(b) <= c.first \/ A!Ends(c) <= b.first
  BY <1>2, <1>6, <1>8, Zenon
<1>11. A!BlocksApart'
  BY <1>2, <1>3, <1>9, <1>10 DEF A!BlocksApart, A!Ends, A!PoolCapacity
<1> QED
  BY <1>5, <1>11 DEF ArenaInv

LEMMA ArenaInvariant == Spec => [](part = "arena" => ArenaInv)
<1> USE Assumptions DEF Assumptions
<1>1. Init => (part = "arena" => ArenaInv)
  BY DEF Init, A!Init, ArenaInv, ArenaTyped, A!BlocksApart, A!PoolCapacity, A!ArenaAssumption
<1>2. (part = "arena" => ArenaInv) /\ [Next]_vars => (part = "arena" => ArenaInv)'
  <2> SUFFICES ASSUME part = "arena", ArenaInv, A!Next \/ UNCHANGED aVars PROVE ArenaInv'
    BY StoreSteps
  <2>1. ASSUME NEW bytes \in 0 .. WordSize - 1, A!Alloc(bytes) PROVE ArenaInv'
    BY <2>1, AllocStep
  <2>2. ASSUME NEW count \in 1 .. WordSize - 1, A!AllocFloats(count) PROVE ArenaInv'
    <3>1. (count * FloatSize) % WordSize \in Nat
      <4>1. WordSize \in Nat \ {0} /\ count * FloatSize \in Nat
        BY PaddingFacts, <2>2 DEF ArenaInv, A!ArenaAssumption
      <4> QED
        BY <4>1, PaddingAligns
    <3> QED
      BY <2>2, <3>1, AllocStep DEF A!AllocFloats
  <2>3. ASSUME A!Reset PROVE ArenaInv'
    BY <2>3, PaddingFacts DEF A!Reset, ArenaInv, ArenaTyped, A!BlocksApart, A!PoolCapacity
  <2>4. ASSUME UNCHANGED aVars PROVE ArenaInv'
    BY <2>4 DEF aVars, ArenaInv, ArenaTyped, A!BlocksApart, A!Ends, A!PoolCapacity
  <2> QED
    BY <2>1, <2>2, <2>3, <2>4 DEF A!Next, A!AllocFails, A!vars, aVars
<1> QED
  BY <1>1, <1>2, PTL DEF Spec

\* After every sequence of allocations and resets the blocks handed out lie in the
\* pool, aligned and apart (niyah_arena_alloc): no rounding to the alignment, no
\* request near the width of a word lets one reach into another.
THEOREM ArenaBlocksApart == Spec => []BlocksApart
<1>1. (part = "arena" => ArenaInv) => BlocksApart
  BY DEF ArenaInv, BlocksApart
<1> QED
  BY <1>1, ArenaInvariant, PTL

-----------------------------------------------------------------------------
(* The document store of the bridge                                        *)

Document == [id : Nat, content : Content]

BridgeTyped ==
  /\ docs \in Seq(Document)
  /\ capacity \in Nat /\ next_id \in Nat

\* Documents, identifiers and what callers were given go together
Numbered ==
  /\ next_id = Len(docs) + 1 /\ Len(docs) <= capacity
  /\ DOMAIN handles = 1 .. Len(docs)
  /\ \A i \in 1 .. Len(docs) : docs[i].id = i /\ docs[i].content = handles[i]

BridgeInv == BridgeTyped /\ Numbered

\* Growing makes room for one more document.
LEMMA GrownFits ==
  ASSUME B!BridgeAssumption, BridgeInv
  PROVE  B!Grown \in Nat /\ B!Grown >= capacity /\ Len(docs) + 1 <= B!Grown
<1>1. Len(docs) \in Nat /\ capacity \in Nat /\ Len(docs) <= capacity /\ FirstRoom \in Nat \ {0}
  BY DEF BridgeInv, BridgeTyped, Numbered, B!BridgeAssumption
<1> QED
  BY <1>1 DEF B!Grown

LEMMA AddStep ==
  ASSUME B!BridgeAssumption, BridgeInv, NEW c \in Content, B!AddDocument(c)
  PROVE  BridgeInv'
<1> DEFINE new == [id |-> next_id, content |-> c]
<1>1. /\ BridgeTyped /\ Numbered /\ docs' = Append(docs, new) /\ capacity' = B!Grown
      /\ next_id' = next_id + 1
      /\ handles' = [id \in DOMAIN handles \cup {next_id} |->
                       IF id = next_id THEN c ELSE handles[id]]
  BY DEF BridgeInv, B!AddDocument
<1>2. new \in Document /\ Len(docs) \in Nat
  BY <1>1 DEF BridgeTyped, Document
<1>3. /\ docs' \in Seq(Document) /\ Len(docs') = Len(docs) + 1
      /\ \A i \in 1 .. Len(docs') : docs'[i] = IF i = Len(docs) + 1 THEN new ELSE docs[i]
  BY <1>1, <1>2 DEF BridgeTyped
<1>4. BridgeTyped'
  BY <1>1, <1>2, <1>3, GrownFits DEF BridgeTyped
<1>5. DOMAIN handles' = 1 .. Len(docs')
  BY <1>1, <1>2, <1>3 DEF Numbered
<1>6. ASSUME NEW i \in 1 .. Len(docs')
      PROVE  docs'[i].id = i /\ docs'[i].content = handles'[i]
  <2>1. CASE i = Len(docs) + 1
    BY <1>1, <1>2, <1>3, <1>5, <2>1 DEF Numbered
  <2>2. CASE i \in 1 .. Len(docs)
    <3>1. docs'[i] = docs[i] /\ handles'[i] = handles[i]
      BY <1>1, <1>2, <1>3, <2>2 DEF Numbered
    <3> QED
      BY <1>1, <2>2, <3>1 DEF Numbered
  <2> QED
    BY <1>2, <1>3, <2>1, <2>2
<1>7. Numbered'
  BY <1>1, <1>2, <1>3, <1>5, <1>6, GrownFits DEF Numbered
<1> QED
  BY <1>4, <1>7 DEF BridgeInv

LEMMA BridgeInvariant == Spec => [](part = "bridge" => BridgeInv)
<1> USE Assumptions DEF Assumptions
<1>1. Init => (part = "bridge" => BridgeInv)
  BY DEF Init, B!Init, BridgeInv, BridgeTyped, Numbered
<1>2. (part = "bridge" => BridgeInv) /\ [Next]_vars => (part = "bridge" => BridgeInv)'
  <2> SUFFICES ASSUME part = "bridge", BridgeInv, B!Next \/ UNCHANGED bVars PROVE BridgeInv'
    BY StoreSteps
  <2>1. ASSUME B!AddFails PROVE BridgeInv'
    BY <2>1, GrownFits DEF B!AddFails, BridgeInv, BridgeTyped, Numbered
  <2>2. ASSUME NEW c \in Content, B!AddDocument(c) PROVE BridgeInv'
    BY <2>2, AddStep
  <2>3. ASSUME B!Clear PROVE BridgeInv'
    BY <2>3 DEF B!Clear, BridgeInv, BridgeTyped, Numbered
  <2>4. ASSUME UNCHANGED <<docs, capacity, next_id, handles>> PROVE BridgeInv'
    BY <2>4 DEF BridgeInv, BridgeTyped, Numbered
  <2>5. ASSUME NEW q \in Query, B!Search(q) PROVE BridgeInv'
    BY <2>4, <2>5 DEF B!Search
  <2> QED
    BY <2>1, <2>2, <2>3, <2>4, <2>5 DEF B!Next, bVars
<1> QED
  BY <1>1, <1>2, PTL DEF Spec

\* Failed additions, growths and clears in any number: an identifier handed out
\* since the last clear names one stored document and the text added under it
\* (niyah_bridge_add_document, niyah_bridge_clear).
THEOREM BridgeHandlesName == Spec => []HandlesName
<1>1. ASSUME BridgeInv PROVE B!HandlesName
  <2>1. DOMAIN docs = 1 .. Len(docs) /\ Len(docs) \in Nat
    BY <1>1 DEF BridgeInv, BridgeTyped
  <2>2. ASSUME NEW n \in DOMAIN handles
        PROVE  \E i \in DOMAIN docs :
                 /\ docs[i] = [id |-> n, content |-> handles[n]]
                 /\ \A j \in DOMAIN docs : docs[j].id = n => j = i
    <3>1. n \in 1 .. Len(docs)
      BY <1>1, <2>2 DEF BridgeInv, Numbered
    <3>2. n \in DOMAIN docs /\ docs[n] \in Document
      BY <1>1, <2>1, <3>1 DEF BridgeInv, BridgeTyped
    <3>3. docs[n] = [id |-> n, content |-> handles[n]]
      BY <1>1, <3>1, <3>2 DEF BridgeInv, Numbered, Document
    <3>4. \A j \in DOMAIN docs : docs[j].id = n => j = n
      BY <1>1, <2>1, <3>1 DEF BridgeInv, Numbered
    <3> QED
      BY <3>2, <3>3, <3>4
  <2> QED
    BY <1>1, <2>2 DEF B!HandlesName, BridgeInv, Numbered
<1>2. (part = "bridge" => BridgeInv) => HandlesName
  BY <1>1 DEF HandlesName
<1> QED
  BY <1>2, BridgeInvariant, PTL

-----------------------------------------------------------------------------
(* The local store                                                         *)

\* A stored row is one of a source, with the arguments of its call in place.
StoreInv ==
  /\ DOMAIN rows = L!Tables
  /\ \A t \in L!Tables : rows[t] # {} => t = "sources"
  /\ \A r \in rows["sources"] : \A c \in DOMAIN r :
       IF c = "id" THEN r[c] \in Key ELSE r[c] \in {c, NULL}

\* The seven texts of a source meet the columns of their names.
LEMMA SourceRow ==
  ASSUME NEW id \in Key, NEW given \in SUBSET L!Optional
  PROVE  LET row == L!Row("sources", L!SourceTexts(id, given), <<>>)
         IN  \A c \in DOMAIN row : IF c = "id" THEN row[c] \in Key ELSE row[c] \in {c, NULL}
<1> DEFINE columns == L!Columns["sources"]
           texts == L!SourceTexts(id, given)
           none == <<>>
           row == L!Row("sources", texts, none)
           Number(c) == CHOOSE n \in DOMAIN columns : columns[n] = c
<1>1. columns = <<"id", "canonical_uri", "title", "media_type", "language",
                  "content_sha256", "source_kind">>
  BY DEF L!Columns
<1>2. texts = <<id, "canonical_uri", L!Arg("title", given), L!Arg("media_type", given),
                L!Arg("language", given), "content_sha256", "source_kind">>
  BY DEF L!SourceTexts
<1>3. /\ DOMAIN columns = 1 .. 7 /\ Len(texts) = 7 /\ DOMAIN none = {}
      /\ \A i, j \in 1 .. 7 : columns[i] = columns[j] => i = j
  BY <1>1, <1>2
<1>4. ASSUME NEW i \in 1 .. 7
      PROVE  IF columns[i] = "id" THEN texts[i] \in Key ELSE texts[i] \in {columns[i], NULL}
  BY <1>1, <1>2 DEF L!Arg
<1>5. row = [c \in L!Range(columns) |->
               CASE Number(c) \in DOMAIN none -> none[Number(c)]
                 [] Number(c) \notin DOMAIN none /\ Number(c) <= Len(texts) -> texts[Number(c)]
                 [] OTHER -> NULL]
  BY Zenon DEF L!Row
<1> HIDE DEF columns, texts, none, row
<1> SUFFICES ASSUME NEW c \in L!Range(columns)
             PROVE  IF c = "id" THEN row[c] \in Key ELSE row[c] \in {c, NULL}
  BY <1>5 DEF row, texts, none
<1>6. PICK i \in 1 .. 7 : columns[i] = c
  BY <1>3 DEF L!Range
<1>7. Number(c) = i
  BY <1>3, <1>6
<1> HIDE DEF Number
<1>8. row[c] = texts[i]
  BY <1>3, <1>5, <1>7
<1> QED
  BY <1>4, <1>6, <1>8

\* Ten texts and an integer over one of them leave the eleventh column, the
\* status of a document, without a value, and that column may not be NULL.
LEMMA DocumentRefused ==
  ASSUME NEW id, NEW source, NEW given
  PROVE  ~L!Accepted("documents",
                     L!Row("documents", L!DocumentTexts(id, source, given), L!DocumentIntegers))
<1> DEFINE columns == L!Columns["documents"]
           texts == L!DocumentTexts(id, source, given)
           integers == L!DocumentIntegers
           row == L!Row("documents", texts, integers)
           Bound(n) == CASE n \in DOMAIN integers -> integers[n]
                         [] n \notin DOMAIN integers /\ n <= Len(texts) -> texts[n]
                         [] OTHER -> NULL
<1>1. columns = <<"id", "source_id", "canonical_uri", "title", "media_type", "language",
                  "content_sha256", "content_bytes", "retrieved_at", "parser_version", "status">>
  BY DEF L!Columns
<1>2. /\ DOMAIN columns = 1 .. 11 /\ columns[11] = "status"
      /\ \A n \in 1 .. 11 : columns[n] = "status" => n = 11
  BY <1>1
<1>3. (CHOOSE n \in DOMAIN columns : columns[n] = "status") = 11
  BY <1>2
<1>4. Len(texts) = 10
  BY DEF L!DocumentTexts
<1>5. DOMAIN integers = {8}
  BY DEF L!DocumentIntegers
<1>6. Bound(11) = NULL
  <2> HIDE DEF texts, integers
  <2> QED
    BY <1>4, <1>5
<1>7. row = [c \in L!Range(columns) |-> Bound(CHOOSE n \in DOMAIN columns : columns[n] = c)]
  BY Zenon DEF L!Row
<1> HIDE DEF Bound, row, columns
<1>8. "status" \in L!Range(columns)
  BY <1>2 DEF L!Range
<1>9. "status" \in DOMAIN row /\ row["status"] = NULL
  BY <1>3, <1>6, <1>7, <1>8
<1>10. "status" \notin L!Nullable \cup L!NullMediaType["documents"]
  BY DEF L!Nullable, L!NullMediaType, L!Tables, L!Columns
<1> QED
  BY <1>9, <1>10, Zenon DEF L!Accepted, row

\* A row whose parent table is empty is refused as well.
LEMMA OrphanRefused ==
  ASSUME StoreInv, NEW table \in {"document_chunks", "claims"}, NEW row
  PROVE  ~L!Accepted(table, row)
<1>1. "documents" \in L!Tables /\ "document_chunks" \in L!Tables
  BY DEF L!Tables, L!Columns
<1>2. table \in DOMAIN L!Parent /\ rows[L!Parent[table].table] = {}
  BY <1>1 DEF StoreInv, L!Parent
<1> QED
  BY <1>2 DEF L!Accepted

\* An insertion that is refused, as those of all tables but one are.
LEMMA InsertRefused ==
  ASSUME StoreInv, NEW table, NEW texts, NEW integers, L!Insert(table, texts, integers),
         ~L!Accepted(table, L!Row(table, texts, integers))
  PROVE  StoreInv'
<1>1. UNCHANGED rows
  BY DEF L!Insert
<1> QED
  BY <1>1 DEF StoreInv

LEMMA InsertSourceStep ==
  ASSUME StoreInv, NEW id \in Key, NEW given \in SUBSET L!Optional, L!InsertSource(id, given)
  PROVE  StoreInv'
<1> DEFINE row == L!Row("sources", L!SourceTexts(id, given), <<>>)
<1>1. "sources" \in L!Tables
  BY DEF L!Tables, L!Columns
<1>2. \A c \in DOMAIN row : IF c = "id" THEN row[c] \in Key ELSE row[c] \in {c, NULL}
  BY SourceRow
<1>3. UNCHANGED rows \/ rows' = [rows EXCEPT !["sources"] = @ \cup {row}]
  BY DEF L!InsertSource, L!Insert
<1> HIDE DEF row
<1>4. CASE UNCHANGED rows
  BY <1>4 DEF StoreInv
<1>5. CASE rows' = [rows EXCEPT !["sources"] = @ \cup {row}]
  BY <1>1, <1>2, <1>5 DEF StoreInv
<1> QED
  BY <1>3, <1>4, <1>5

LEMMA StoreInvariant == Spec => [](part = "store" => StoreInv)
<1>1. Init => (part = "store" => StoreInv)
  <2> SUFFICES ASSUME rows = [t \in L!Tables |-> {}] PROVE StoreInv
    BY DEF Init, L!Init
  <2>1. "sources" \in L!Tables
    BY DEF L!Tables, L!Columns
  <2> QED
    BY <2>1 DEF StoreInv
<1>2. (part = "store" => StoreInv) /\ [Next]_vars => (part = "store" => StoreInv)'
  <2> SUFFICES ASSUME part = "store", StoreInv, L!Next \/ UNCHANGED lVars
               PROVE  StoreInv'
    BY StoreSteps
  <2>1. ASSUME NEW id \in Key, NEW given \in SUBSET L!Optional, L!InsertSource(id, given)
        PROVE  StoreInv'
    BY <2>1, InsertSourceStep
  <2>2. ASSUME NEW id \in Key, NEW source \in Key, NEW given \in SUBSET L!Optional,
               L!InsertDocument(id, source, given)
        PROVE  StoreInv'
    BY <2>2, InsertRefused, DocumentRefused DEF L!InsertDocument
  <2>3. ASSUME NEW id \in Key, NEW document \in Key, NEW heading \in {"heading", NULL},
               L!InsertChunk(id, document, heading)
        PROVE  StoreInv'
    BY <2>3, InsertRefused, OrphanRefused DEF L!InsertChunk
  <2>4. ASSUME NEW id \in Key, NEW chunk \in Key, L!InsertClaim(id, chunk)
        PROVE  StoreInv'
    BY <2>4, InsertRefused, OrphanRefused DEF L!InsertClaim
  <2>5. ASSUME UNCHANGED rows PROVE StoreInv'
    BY <2>5 DEF StoreInv
  <2> QED
    BY <2>1, <2>2, <2>3, <2>4, <2>5 DEF L!Next, L!InitSchema, L!Reopen, lVars
<1> QED
  BY <1>1, <1>2, PTL DEF Spec

\* Whatever identifiers and optional texts callers pass, and in any order with
\* reopening and I/O errors, a row that is stored has each argument of its call in
\* the column of its name (prepare_and_bind_text, niyah_store_insert_source).  The
\* rows of documents, which would not, are refused, and with them what needs them.
THEOREM StoreInPlace == Spec => []StoredInPlace
<1>1. (part = "store" => StoreInv) => StoredInPlace
  <2> SUFFICES ASSUME StoreInv PROVE L!StoredInPlace
    BY DEF StoredInPlace
  <2>1. L!KeyColumns("sources") = {"id"}
    BY DEF L!KeyColumns, L!Parent
  <2>2. ASSUME NEW t \in L!Tables, NEW r \in rows[t], NEW c \in DOMAIN r
        PROVE  IF c \in L!KeyColumns(t) THEN r[c] \in Key ELSE r[c] \in {c, NULL}
    <3>1. t = "sources"
      BY <2>2 DEF StoreInv
    <3> QED
      BY <2>1, <2>2, <3>1 DEF StoreInv
  <2> QED
    BY <2>2 DEF L!StoredInPlace
<1> QED
  BY <1>1, StoreInvariant, PTL

-----------------------------------------------------------------------------
(* The knowledge graph                                                     *)

GraphEdge == [number : Nat, from : NodeId, to : NodeId]

\* G!Leaving as a loop over the edges
NoEdges(id) == <<>>
KeepLeaving(id, list, e) == IF e.from = id THEN Append(list, e) ELSE list
AnyList(id, s, list) == TRUE
Listing == INSTANCE FoldTheorems
  WITH T <- GraphEdge, Base <- NoEdges, Op <- KeepLeaving, P <- AnyList

\* An array of nodes within its capacity, without duplicates
NodesSound(array, most) ==
  /\ array \in Seq(NodeId) /\ most \in Nat /\ Len(array) <= most
  /\ \A i, j \in DOMAIN array : array[i] = array[j] => i = j

GraphInv ==
  /\ NodesSound(gnodes, room.nodes)
  /\ gedges \in Seq(GraphEdge) /\ out \in [NodeId -> Seq(GraphEdge)]
  /\ room \in [nodes : Nat, edges : Nat, out : [NodeId -> Nat]] /\ made \in Nat
  /\ Len(gedges) <= room.edges /\ \A id \in NodeId : Len(out[id]) <= room.out[id]
  /\ \A id \in NodeId : out[id] = G!Leaving(id)
  /\ \A i \in DOMAIN gedges :
       G!Holds(gnodes, gedges[i].from) /\ G!Holds(gnodes, gedges[i].to)
  /\ \A id \in NodeId : \A i \in DOMAIN out[id] : G!Holds(gnodes, out[id][i].to)

LEMMA LeavingLoop ==
  \A id : G!Leaving(id) = Listing!Fold(id, gedges) /\ G!Leaving(id)' = Listing!Fold(id, gedges')
BY DEF G!Leaving, G!FoldLeft, G!MapThenFoldSet, G!Max, Listing!Fold, Listing!FoldLeft,
       Listing!MapThenFoldSet, Listing!Max, NoEdges, KeepLeaving

\* Making room leaves room for one more.
LEMMA RoomFits ==
  ASSUME NEW n \in Nat, NEW have \in Nat, NEW first \in Nat \ {0}, n <= have
  PROVE  /\ G!RoomFor(n, have, first) \in Nat /\ G!RoomFor(n, have, first) >= have
         /\ n + 1 <= G!RoomFor(n, have, first)
<1>1. CASE n = have
  <2>1. CASE have = 0
    BY <1>1, <2>1 DEF G!RoomFor, G!Doubled
  <2>2. CASE have # 0
    BY <1>1, <2>2 DEF G!RoomFor, G!Doubled
  <2> QED
    BY <2>1, <2>2
<1>2. CASE n # have
  BY <1>2 DEF G!RoomFor
<1> QED
  BY <1>1, <1>2

\* A node that is added, refused or there already leaves a sound array, which
\* lost no node; an answer of yes means that the node is there.
LEMMA AddedNodeSound ==
  ASSUME G!GraphAssumption, NEW g, NEW array, NEW most, array = g.ids, most = g.room,
         NodesSound(array, most), NEW id \in NodeId, NEW h \in G!AddedNode(g, id)
  PROVE  /\ NodesSound(h.ids, h.room)
         /\ \A n : G!Holds(array, n) => G!Holds(h.ids, n)
         /\ h.ok => G!Holds(h.ids, id)
<1> DEFINE grown == G!RoomFor(Len(array), most, FirstNodes)
<1>1. /\ array \in Seq(NodeId) /\ most \in Nat /\ Len(array) <= most /\ Len(array) \in Nat
      /\ \A i, j \in DOMAIN array : array[i] = array[j] => i = j
      /\ FirstNodes \in Nat \ {0}
  BY DEF NodesSound, G!GraphAssumption
<1>2. grown \in Nat /\ grown >= most /\ Len(array) + 1 <= grown
  BY <1>1, RoomFits
<1> HIDE DEF grown
<1>3. CASE G!Holds(array, id)
  <2>1. h = [ids |-> array, room |-> most, ok |-> TRUE]
    BY <1>3 DEF G!AddedNode
  <2> QED
    BY <1>3, <2>1
<1>4. CASE ~G!Holds(array, id)
  <2>1. \/ \E r \in {most, grown} : h = [ids |-> array, room |-> r, ok |-> FALSE]
        \/ h = [ids |-> Append(array, id), room |-> grown, ok |-> TRUE]
    BY <1>4 DEF G!AddedNode, grown
  <2>2. ASSUME NEW r \in {most, grown}, h = [ids |-> array, room |-> r, ok |-> FALSE]
        PROVE  /\ NodesSound(h.ids, h.room)
               /\ \A n : G!Holds(array, n) => G!Holds(h.ids, n)
               /\ h.ok => G!Holds(h.ids, id)
    <3>1. r \in Nat /\ Len(array) <= r
      BY <1>1, <1>2, <2>2
    <3> QED
      BY <1>1, <2>2, <3>1 DEF NodesSound
  <2>3. CASE h = [ids |-> Append(array, id), room |-> grown, ok |-> TRUE]
    <3> SUFFICES ASSUME NEW t, t = Append(array, id)
                 PROVE  /\ NodesSound(t, grown) /\ G!Holds(t, id)
                        /\ \A n : G!Holds(array, n) => G!Holds(t, n)
      BY <2>3
    <3>1. /\ t \in Seq(NodeId) /\ Len(t) = Len(array) + 1 /\ t[Len(t)] = id
          /\ DOMAIN t = 1 .. Len(t) /\ DOMAIN array = 1 .. Len(array)
          /\ \A i \in DOMAIN array : t[i] = array[i]
      BY <1>1
    <3>2. \A i, j \in DOMAIN t : t[i] = t[j] => i = j
      BY <1>1, <1>4, <3>1 DEF G!Holds
    <3> QED
      BY <1>1, <1>2, <3>1, <3>2 DEF NodesSound, G!Holds
  <2> QED
    BY <2>1, <2>2, <2>3
<1> QED
  BY <1>3, <1>4

\* The same of the two nodes that an edge asks for.
LEMMA WithNodesSound ==
  ASSUME G!GraphAssumption, NodesSound(gnodes, room.nodes), NEW from \in NodeId,
         NEW to \in NodeId, NEW p \in G!WithNodes(from, to)
  PROVE  /\ NodesSound(p[2].ids, p[2].room)
         /\ \A n : G!Holds(gnodes, n) => G!Holds(p[2].ids, n)
         /\ p[1].ok /\ p[2].ok => G!Holds(p[2].ids, from) /\ G!Holds(p[2].ids, to)
<1>0. PICK f \in G!AddedNode(G!GraphNodes, from) : \E t \in G!AddedNode(f, to) : p = <<f, t>>
  BY DEF G!WithNodes
<1>1. PICK t \in G!AddedNode(f, to) : p = <<f, t>>
  BY <1>0
<1>2. G!GraphNodes.ids = gnodes /\ G!GraphNodes.room = room.nodes
  BY DEF G!GraphNodes
<1>3. /\ NodesSound(f.ids, f.room)
      /\ f.ok => G!Holds(f.ids, from)
      /\ \A n : G!Holds(gnodes, n) => G!Holds(f.ids, n)
  BY <1>2, AddedNodeSound
<1>4. /\ NodesSound(t.ids, t.room)
      /\ t.ok => G!Holds(t.ids, to)
      /\ \A n : G!Holds(f.ids, n) => G!Holds(t.ids, n)
  BY <1>3, AddedNodeSound
<1>5. p[1] = f /\ p[2] = t
  BY <1>1
<1> QED
  BY <1>3, <1>4, <1>5

\* Other nodes and more room for them and for edges leave the edges sound.
LEMMA NodesStep ==
  ASSUME GraphInv, UNCHANGED <<gedges, out, made>>, NEW most, NEW edgeRoom \in Nat,
         NodesSound(gnodes', most), \A n : G!Holds(gnodes, n) => G!Holds(gnodes', n),
         edgeRoom >= room.edges, room' = [room EXCEPT !.nodes = most, !.edges = edgeRoom]
  PROVE  GraphInv'
<1> DEFINE Rooms == [nodes : Nat, edges : Nat, out : [NodeId -> Nat]]
<1>1. room \in Rooms /\ room.out \in [NodeId -> Nat] /\ room.edges \in Nat
  BY DEF GraphInv
<1>2. room' = [nodes |-> most, edges |-> edgeRoom, out |-> room.out]
  BY <1>1
<1>3. /\ room' \in Rooms
      /\ room'.nodes = most /\ room'.edges = edgeRoom /\ room'.out = room.out
      /\ Len(gedges) <= room.edges /\ room.edges \in Nat /\ Len(gedges) \in Nat
  BY <1>1, <1>2 DEF GraphInv, NodesSound
<1>4. Len(gedges) <= edgeRoom
  BY <1>3
<1>5. \A id \in NodeId : out[id] = G!Leaving(id)' /\ Len(out[id]) <= room'.out[id]
  BY <1>3, LeavingLoop DEF GraphInv
<1>6. \A n : G!Holds(gnodes, n) => G!Holds(gnodes, n)'
  BY DEF G!Holds
<1> QED
  BY <1>3, <1>4, <1>5, <1>6 DEF GraphInv

LEMMA NodeStep ==
  ASSUME G!GraphAssumption, GraphInv, NEW id \in NodeId, G!AddNode(id)
  PROVE  GraphInv'
<1>1. PICK g \in G!AddedNode(G!GraphNodes, id) :
        gnodes' = g.ids /\ room' = [room EXCEPT !.nodes = g.room]
  BY DEF G!AddNode
<1>2. /\ NodesSound(g.ids, g.room) /\ \A n : G!Holds(gnodes, n) => G!Holds(g.ids, n)
  <2>1. G!GraphNodes.ids = gnodes /\ G!GraphNodes.room = room.nodes
    BY DEF G!GraphNodes
  <2>2. NodesSound(gnodes, room.nodes)
    BY DEF GraphInv
  <2> QED
    BY <2>1, <2>2, AddedNodeSound
<1>3. room.edges \in Nat /\ room.edges >= room.edges
  BY DEF GraphInv
<1>4. room' = [room EXCEPT !.nodes = g.room, !.edges = room.edges]
  BY <1>1 DEF GraphInv
<1> QED
  BY <1>1, <1>2, <1>3, <1>4, NodesStep DEF G!AddNode

LEMMA EdgeFailsStep ==
  ASSUME G!GraphAssumption, GraphInv, NEW from \in NodeId, NEW to \in NodeId,
         G!AddEdgeFails(from, to)
  PROVE  GraphInv'
<1>1. PICK p \in G!WithNodes(from, to) :
        /\ gnodes' = p[2].ids
        /\ \E edgeRoom \in {room.edges, G!EdgeRoom} :
             room' = [room EXCEPT !.nodes = p[2].room, !.edges = edgeRoom]
        /\ UNCHANGED <<gedges, out, made>>
  BY DEF G!AddEdgeFails
<1>2. PICK edgeRoom \in {room.edges, G!EdgeRoom} :
        room' = [room EXCEPT !.nodes = p[2].room, !.edges = edgeRoom]
  BY <1>1
<1>3. /\ NodesSound(p[2].ids, p[2].room)
      /\ \A n : G!Holds(gnodes, n) => G!Holds(p[2].ids, n)
  BY WithNodesSound DEF GraphInv
<1>4. edgeRoom \in Nat /\ edgeRoom >= room.edges
  <2>1. /\ room.edges \in Nat /\ Len(gedges) \in Nat /\ Len(gedges) <= room.edges
        /\ FirstEdges \in Nat \ {0}
    BY DEF GraphInv, G!GraphAssumption
  <2>2. G!EdgeRoom \in Nat /\ G!EdgeRoom >= room.edges
    BY <2>1, RoomFits DEF G!EdgeRoom
  <2> QED
    BY <2>1, <2>2
<1> QED
  BY <1>1, <1>2, <1>3, <1>4, NodesStep

\* An edge is appended to the array of the graph and to the list of its node.
LEMMA EdgeStep ==
  ASSUME G!GraphAssumption, GraphInv, NEW from \in NodeId, NEW to \in NodeId,
         G!AddEdge(from, to)
  PROVE  GraphInv'
<1> DEFINE edge == [number |-> made + 1, from |-> from, to |-> to]
           outRoom == [room.out EXCEPT ![from] = G!OutRoom(from)]
<1>1. PICK p \in G!WithNodes(from, to) :
        /\ p[1].ok /\ p[2].ok /\ made' = made + 1 /\ gnodes' = p[2].ids
        /\ room' = [nodes |-> p[2].room, edges |-> G!EdgeRoom, out |-> outRoom]
        /\ out' = [out EXCEPT ![from] = Append(@, edge)]
        /\ gedges' = Append(gedges, edge)
  BY DEF G!AddEdge
<1>2. /\ NodesSound(gnodes', p[2].room)
      /\ \A n : G!Holds(gnodes, n) => G!Holds(gnodes', n)
      /\ G!Holds(gnodes', from) /\ G!Holds(gnodes', to)
  BY <1>1, WithNodesSound DEF GraphInv
<1>3. /\ made \in Nat /\ gedges \in Seq(GraphEdge) /\ out \in [NodeId -> Seq(GraphEdge)]
      /\ room.edges \in Nat /\ room.out \in [NodeId -> Nat]
      /\ Len(gedges) <= room.edges /\ Len(gedges) \in Nat
      /\ \A id \in NodeId : Len(out[id]) <= room.out[id] /\ Len(out[id]) \in Nat
      /\ {FirstEdges, FirstOut} \subseteq Nat \ {0}
  BY DEF GraphInv, G!GraphAssumption
<1>4. edge \in GraphEdge /\ edge.from = from /\ edge.to = to
  BY <1>3 DEF GraphEdge
<1> HIDE DEF edge, outRoom
<1>5. G!EdgeRoom \in Nat /\ Len(gedges) + 1 <= G!EdgeRoom
  BY <1>3, RoomFits DEF G!EdgeRoom
<1>6. G!OutRoom(from) \in Nat /\ Len(out[from]) + 1 <= G!OutRoom(from)
  BY <1>3, RoomFits DEF G!OutRoom
<1>7. outRoom \in [NodeId -> Nat] /\ \A id \in NodeId :
        outRoom[id] = IF id = from THEN G!OutRoom(from) ELSE room.out[id]
  BY <1>3, <1>6 DEF outRoom
<1>8. p[2].room \in Nat
  BY <1>2 DEF NodesSound
<1>9. /\ room' \in [nodes : Nat, edges : Nat, out : [NodeId -> Nat]]
      /\ room'.nodes = p[2].room /\ room'.edges = G!EdgeRoom /\ room'.out = outRoom
  BY <1>1, <1>5, <1>7, <1>8
<1>10. /\ gedges' \in Seq(GraphEdge) /\ Len(gedges') = Len(gedges) + 1
       /\ \A i \in DOMAIN gedges' :
            gedges'[i] = IF i = Len(gedges) + 1 THEN edge ELSE gedges[i]
       /\ \A i \in DOMAIN gedges' : i = Len(gedges) + 1 \/ i \in DOMAIN gedges
  BY <1>1, <1>3, <1>4
<1>11. /\ out' \in [NodeId -> Seq(GraphEdge)]
       /\ \A id \in NodeId : out'[id] = IF id = from THEN Append(out[id], edge) ELSE out[id]
  BY <1>1, <1>3, <1>4
<1>12. \A id \in NodeId : Len(out'[id]) <= room'.out[id]
  <2> TAKE id \in NodeId
  <2>1. CASE id # from
    BY <1>3, <1>7, <1>9, <1>11, <2>1
  <2>2. CASE id = from
    <3>1. out[from] \in Seq(GraphEdge) /\ out'[from] = Append(out[from], edge)
      BY <1>3, <1>11
    <3>2. Len(out'[from]) = Len(out[from]) + 1
      BY <1>4, <3>1
    <3> QED
      BY <1>6, <1>7, <1>9, <2>2, <3>2
  <2> QED
    BY <2>1, <2>2
<1>13. \A id \in NodeId : out'[id] = G!Leaving(id)'
  <2> TAKE id \in NodeId
  <2>1. G!Leaving(id)' = KeepLeaving(id, Listing!Fold(id, gedges), edge)
    BY <1>1, <1>3, <1>4, LeavingLoop, Listing!FoldAppend
  <2>2. out[id] = Listing!Fold(id, gedges)
    BY LeavingLoop DEF GraphInv
  <2> QED
    BY <1>4, <1>11, <2>1, <2>2 DEF KeepLeaving
<1>14. \A i \in DOMAIN gedges' :
         G!Holds(gnodes', gedges'[i].from) /\ G!Holds(gnodes', gedges'[i].to)
  BY <1>2, <1>4, <1>10 DEF GraphInv
<1>15. \A id \in NodeId : \A i \in DOMAIN out'[id] : G!Holds(gnodes', out'[id][i].to)
  <2> TAKE id \in NodeId
  <2>1. \A i \in DOMAIN out[id] : G!Holds(gnodes', out[id][i].to)
    BY <1>2 DEF GraphInv
  <2>2. CASE id # from
    BY <1>11, <2>1, <2>2
  <2>3. CASE id = from
    <3>1. out[id] \in Seq(GraphEdge) /\ out'[id] = Append(out[id], edge)
      BY <1>3, <1>11, <2>3
    <3>2. \A i \in DOMAIN out'[id] : \/ i \in DOMAIN out[id] /\ out'[id][i] = out[id][i]
                                     \/ out'[id][i] = edge
      BY <1>4, <3>1
    <3> QED
      BY <1>2, <1>4, <2>1, <3>2
  <2> QED
    BY <2>2, <2>3
<1>16. made' \in Nat /\ Len(gedges') <= room'.edges /\ NodesSound(gnodes', room'.nodes)
  BY <1>1, <1>2, <1>3, <1>5, <1>9, <1>10
<1> QED
  BY <1>9, <1>10, <1>11, <1>12, <1>13, <1>14, <1>15, <1>16 DEF GraphInv, NodesSound, G!Holds

LEMMA GraphInvariant == Spec => [](part = "graph" => GraphInv)
<1> USE Assumptions DEF Assumptions
<1>1. Init => (part = "graph" => GraphInv)
  <2> SUFFICES ASSUME G!Init PROVE GraphInv
    BY DEF Init
  <2>1. \A id \in NodeId : G!Leaving(id) = <<>>
    BY LeavingLoop, Listing!FoldEmpty DEF G!Init, NoEdges
  <2> QED
    BY <2>1 DEF G!Init, GraphInv, NodesSound
<1>2. (part = "graph" => GraphInv) /\ [Next]_vars => (part = "graph" => GraphInv)'
  <2> SUFFICES ASSUME part = "graph", GraphInv, G!Next \/ UNCHANGED gVars PROVE GraphInv'
    BY StoreSteps
  <2>1. ASSUME NEW id \in NodeId, G!AddNode(id) PROVE GraphInv'
    BY <2>1, NodeStep
  <2>2. ASSUME NEW from \in NodeId, NEW to \in NodeId, G!AddEdgeFails(from, to) PROVE GraphInv'
    BY <2>2, EdgeFailsStep
  <2>3. ASSUME NEW from \in NodeId, NEW to \in NodeId, G!AddEdge(from, to) PROVE GraphInv'
    BY <2>3, EdgeStep
  <2>4. ASSUME UNCHANGED gVars PROVE GraphInv'
    <3>1. \A id : G!Leaving(id)' = G!Leaving(id)
      BY <2>4, LeavingLoop DEF gVars
    <3> QED
      BY <2>4, <3>1 DEF gVars, GraphInv, NodesSound, G!Holds
  <2> QED
    BY <2>1, <2>2, <2>3, <2>4 DEF G!Next
<1> QED
  BY <1>1, <1>2, PTL DEF Spec

\* Whichever allocation fails in whatever sequence of additions, the edges on a
\* node are those of the graph that leave it, each once and in order, no node is
\* there twice and no array fuller than its capacity (add_node, add_edge,
\* neighbors, niyah_graph.c).
THEOREM GraphEdgesListed == Spec => []EdgesListedOnce
<1>1. ASSUME GraphInv PROVE G!EdgesListedOnce
  <2>1. ASSUME NEW id \in NodeId, NEW i \in DOMAIN G!Neighbors(id, Len(gedges))
        PROVE  G!Holds(gnodes, G!Neighbors(id, Len(gedges))[i])
    <3>1. Len(out[id]) \in Nat /\ Len(gedges) \in Nat /\ DOMAIN out[id] = 1 .. Len(out[id])
      BY <1>1 DEF GraphInv
    <3>2. G!Holds(gnodes, id)
      BY <2>1 DEF G!Neighbors
    <3>3. i \in DOMAIN out[id] /\ G!Neighbors(id, Len(gedges))[i] = out[id][i].to
      BY <2>1, <3>1, <3>2 DEF G!Neighbors
    <3> QED
      BY <1>1, <3>3 DEF GraphInv
  <2> QED
    BY <1>1, <2>1 DEF GraphInv, NodesSound, G!EdgesListedOnce
<1>2. (part = "graph" => GraphInv) => EdgesListedOnce
  BY <1>1 DEF EdgesListedOnce
<1> QED
  BY <1>2, GraphInvariant, PTL

=============================================================================
