-------------------------------- MODULE Url --------------------------------
(***************************************************************************)
(* URL handling of the search core (search/niyah_url.c).  A URL is a       *)
(* sequence of tokens: a scheme, pieces of an authority, and the tail of   *)
(* "/", "?", "#", "." , ".." and names.  Buffer sizes are one limit,       *)
(* MaxTokens; a text that does not fit is refused, as the C code refuses   *)
(* to truncate.  Authorities carry at most one port and are not IPv6.      *)
(***************************************************************************)
EXTENDS Naturals, Sequences, SequencesExt

CONSTANTS
  Lower,      \* [upper-case token -> lower-case token], tolower on a host
  MaxTokens   \* output_size, in tokens

Schemes == {"http://", "https://"}
DefaultPort == [s \in Schemes |-> IF s = "http://" THEN ":80" ELSE ":443"]
Ports == {DefaultPort[s] : s \in Schemes}

\* tolower neither makes another capital nor ends a host
UrlAssumption ==
  /\ MaxTokens \in Nat \ {0}
  /\ \A t \in DOMAIN Lower : Lower[t] \notin DOMAIN Lower \cup Ports \cup {"/", "?", "#"}

\* Every port is that of a host.  ("http://:80/" has none; canonicalize leaves
\* "http:///" of it, which canonicalize refuses.)
PortsFollowHosts(s) ==
  \A i \in DOMAIN s :
    s[i] \in Ports => i > 1 /\ s[i - 1] \notin Ports \cup Schemes \cup {"/"}

Refused == <<>>

\* The index of the first token of s that is in marks, or Len(s) + 1
Find(s, marks) ==
  LET i == SelectInSeq(s, LAMBDA t : t \in marks)
  IN  IF i = 0 THEN Len(s) + 1 ELSE i

Before(s, marks) == SubSeq(s, 1, Find(s, marks) - 1)
After(s, marks) == SubSeq(s, Find(s, marks), Len(s))

Fits(s) == IF Len(s) < MaxTokens THEN s ELSE Refused

IsAbsolute(s) == s # <<>> /\ s[1] \in Schemes

\* The authority, in lower case and without the scheme's default port
HostOf(scheme, authority) ==
  LET kept == IF Last(authority) = DefaultPort[scheme]
              THEN Front(authority) ELSE authority
  IN  [i \in DOMAIN kept |->
         IF kept[i] \in DOMAIN Lower THEN Lower[kept[i]] ELSE kept[i]]

\* The fragment goes; an empty tail becomes "/", a query alone gets no "/"
Canonicalize(input) ==
  LET rest == Tail(input)
      authority == Before(rest, {"/", "?", "#"})
      tail == Before(After(rest, {"/", "?", "#"}), {"#"})
  IN  IF ~IsAbsolute(input) \/ authority = <<>> THEN Refused
      ELSE Fits(<<input[1]>> \o HostOf(input[1], authority)
                \o (IF tail = <<>> THEN <<"/">> ELSE tail))

-----------------------------------------------------------------------------
(* normalize_path: one pass over the segments between slashes.             *)

\* ".." takes the last segment away and leaves the slash before it
DropSegment(out, root) ==
  IF Len(out) <= root THEN out
  ELSE LET open == IF Last(out) = "/" THEN Front(out) ELSE out
           slash == SelectLastInSeq(open, LAMBDA t : t = "/")
       IN  SubSeq(open, 1, IF slash > root THEN slash ELSE root)

\* A C string compares equal to "." only as a whole segment
AddSegment(out, segment, root) ==
  CASE segment \in {<<>>, <<".">>} -> out
    [] segment = <<"..">> -> DropSegment(out, root)
    [] OTHER -> IF out # <<>> /\ Last(out) # "/"
                THEN out \o <<"/">> \o segment ELSE out \o segment

NormalizePath(path) ==
  LET root == IF path # <<>> /\ path[1] = "/" THEN 1 ELSE 0
      Read(acc, t) ==
        IF t = "/" THEN [out |-> AddSegment(acc.out, acc.segment, root),
                         segment |-> <<>>]
        ELSE [acc EXCEPT !.segment = Append(@, t)]
      last == FoldLeft(Read, [out |-> SubSeq(path, 1, root), segment |-> <<>>], path)
  IN  AddSegment(last.out, last.segment, root)

\* split_base: scheme, authority, and the path with its query
SplitBase(base) ==
  LET rest == Tail(base)
  IN  [scheme    |-> base[1],
       authority |-> Before(rest, {"/", "?", "#"}),
       path      |-> Before(After(rest, {"/", "?", "#"}), {"#"})]

\* Mutant: the last slash is left out
DirectoryOpen(path) == SubSeq(path, 1, SelectLastInSeq(path, LAMBDA t : t = "/") - 1)

\* Everything up to and including the last slash; nothing without a slash
Directory(path) == SubSeq(path, 1, SelectLastInSeq(path, LAMBDA t : t = "/"))

TargetPath(basePath, reference) ==
  LET path == Before(basePath, {"?"})
      ref  == Before(reference, {"#"})
  IN  CASE reference[1] = "#" -> path
        [] reference[1] = "?" -> path \o ref
        [] reference[1] = "/" -> ref
        [] OTHER -> Directory(path) \o ref

\* "//authority/...": only the scheme comes from the base
IsNetworkPath(s) == Len(s) > 1 /\ s[1] = "/" /\ s[2] = "/"

Resolve(base, reference) ==
  LET b == SplitBase(base)
      normalized == NormalizePath(TargetPath(b.path, reference))
  IN  CASE reference = <<>> \/ (~IsAbsolute(reference) /\ ~IsAbsolute(base)) -> Refused
        [] IsAbsolute(reference) -> Canonicalize(reference)
        [] IsAbsolute(base) /\ IsNetworkPath(reference) ->
             Canonicalize(<<b.scheme>> \o SubSeq(reference, 3, Len(reference)))
        [] OTHER ->
             Canonicalize(<<b.scheme>> \o b.authority
                          \o (IF normalized = <<>> THEN <<"/">> ELSE normalized))

-----------------------------------------------------------------------------
(* What the search engine relies on.                                       *)

Canonical(url) == url # Refused /\ Canonicalize(url) = url

AuthorityOf(url) == <<url[1], Before(Tail(url), {"/", "?", "#"})>>

=============================================================================
