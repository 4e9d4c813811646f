------------------------------ MODULE Crawler ------------------------------
(***************************************************************************)
(* The crawl frontier and the robots rules (search/niyah_crawler.c).  The  *)
(* frontier is a bounded queue over the caller's storage; the operators    *)
(* below are its operations on the queue's value.  A path and the value of *)
(* a robots rule are sequences of tokens, so the longest rule among those  *)
(* that match one path is also the one with most characters.               *)
(***************************************************************************)
EXTENDS Naturals, Sequences, SequencesExt

CONSTANT Capacity   \* items in the caller's storage

FrontierAssumption == Capacity \in Nat \ {0}

Item(url, depth) == [url |-> url, depth |-> depth]

Queued(frontier, url) == \E i \in DOMAIN frontier : frontier[i].url = url

\* The answers of enqueue, in the order the code tries them: a full frontier
\* is reported before a duplicate
Decision(frontier, url) ==
  CASE url = <<>> -> "invalid_url"
    [] url # <<>> /\ Len(frontier) >= Capacity -> "frontier_full"
    [] url # <<>> /\ Len(frontier) < Capacity /\ Queued(frontier, url) -> "duplicate"
    [] OTHER -> "allow"

\* Mutant: the search for a duplicate forgets the last item
EnqueueTwice(frontier, url, depth) ==
  IF url # <<>> /\ Len(frontier) < Capacity
     /\ (frontier = <<>> \/ ~Queued(Front(frontier), url))
  THEN Append(frontier, Item(url, depth)) ELSE frontier

Enqueue(frontier, url, depth) ==
  IF Decision(frontier, url) = "allow"
  THEN Append(frontier, Item(url, depth)) ELSE frontier

\* Mutant: a page that failed goes back to the end of the queue
PopAndRetry(frontier) == Append(Tail(frontier), Head(frontier))

Pop(frontier) == Tail(frontier)

-----------------------------------------------------------------------------
(* robots.txt: a sequence of lines [field, value].                         *)

UserAgentMatches(value, agent) == value = agent \/ value = "*"

\* Mutant: the last rule of a length wins
BetterLast(best, line, path) ==
  LET n == Len(line.value)
  IN  IF line.value = <<>> \/ ~IsPrefix(line.value, path)
         \/ (best.matched /\ n < best.length)
      THEN best
      ELSE [matched |-> TRUE, allowed |-> line.field = "Allow", length |-> n]

\* The best rule so far: an Allow replaces one that is not longer, a
\* Disallow only a shorter one; an empty value has no effect
Better(best, line, path) ==
  LET n == Len(line.value)
  IN  IF line.value = <<>> \/ ~IsPrefix(line.value, path) THEN best
      ELSE IF best.matched /\ (n < best.length \/ (line.field = "Disallow" /\ n = best.length))
      THEN best
      ELSE [matched |-> TRUE, allowed |-> line.field = "Allow", length |-> n]

\* Every User-agent line opens a group of its own; the rules that follow it
\* count when it matches
ReadLine(acc, line, path, agent) ==
  CASE line.field = "User-agent" ->
         [acc EXCEPT !.active = UserAgentMatches(line.value, agent)]
    [] line.field \in {"Allow", "Disallow"} /\ acc.active ->
         [acc EXCEPT !.best = Better(@, line, path)]
    [] OTHER -> acc

RobotsPathAllowed(path, body, agent) ==
  LET best == FoldLeft(LAMBDA acc, line : ReadLine(acc, line, path, agent),
                       [active |-> FALSE,
                        best |-> [matched |-> FALSE, allowed |-> TRUE, length |-> 0]],
                       body).best
  IN  ~best.matched \/ best.allowed

=============================================================================
