------------------------------ MODULE Identity ------------------------------
(***************************************************************************)
(* What the engine says it is (native/niyah_identity.c): an identity is    *)
(* captured from a loaded model, its weights may be hashed, and manifests  *)
(* say where they come from, all in any order and any number of times.     *)
(* Weights are known by their hash.  Of the texts in a manifest only the   *)
(* model name and the declared hash decide anything; matching a claim      *)
(* against a name is a table of substrings.                                *)
(***************************************************************************)
EXTENDS FiniteSets

CONSTANTS
  Hash,        \* hashes that weights may have
  Name,        \* model names
  Claim,       \* what users ask about
  OfEngine,    \* claims that contain the engine's name
  NameHas,     \* [Name -> the claims the name contains]
  Absent       \* no such key in a file, no weights, nothing there

IdentityAssumption ==
  /\ OfEngine \subseteq Claim /\ NameHas \in [Name -> SUBSET Claim]
  /\ Absent \notin Hash \cup Name

VARIABLES
  weights,   \* llm->model.weights: their hash, or Absent
  identity,  \* the NiyahIdentity of the caller
  lastRead   \* history: the last manifest read to its end since the capture

vars == <<weights, identity, lastRead>>

Unnamed == ""   \* "model_name": ""
Manifests == [model_name : Name \cup {Absent, Unnamed}, weights_sha256 : Hash \cup {Absent}]
NoManifest == [model_name |-> Absent, weights_sha256 |-> Absent]

Zeroed ==
  [weights_loaded |-> FALSE, parameters |-> "none", weights_hashed |-> FALSE,
   weights_sha256 |-> Absent, provenance_known |-> "unknown", model_name |-> Unnamed,
   declared_weights_sha256 |-> Absent, weights_match_manifest |-> "unknown"]

Init == weights = Absent /\ identity = Zeroed /\ lastRead = NoManifest

\* The model behind the identity changes without its knowledge
ChangeWeights(w) == weights' = w /\ UNCHANGED <<identity, lastRead>>

\* With no model at all only what is compiled in is known
Capture(llm) ==
  /\ identity' =
       IF ~llm THEN Zeroed
       ELSE [Zeroed EXCEPT !.weights_loaded = weights # Absent,
               !.parameters = IF weights # Absent THEN "measured" ELSE "implied"]
  /\ lastRead' = NoManifest
  /\ UNCHANGED weights

\* The comparison is settled once there is something to compare, else kept
Matches(id) ==
  IF id.weights_hashed /\ id.declared_weights_sha256 # Absent
  THEN IF id.weights_sha256 = id.declared_weights_sha256 THEN "true" ELSE "false"
  ELSE id.weights_match_manifest

Settled(id) == [id EXCEPT !.weights_match_manifest = Matches(id)]

\* Without weights it is refused
HashWeights ==
  /\ weights # Absent
  /\ identity' = Settled([identity EXCEPT !.weights_hashed = TRUE, !.weights_sha256 = weights])
  /\ UNCHANGED <<weights, lastRead>>

\* A key that is missing leaves the field of an earlier manifest
Read(id, m) ==
  [id EXCEPT
     !.model_name = IF m.model_name = Absent THEN @ ELSE m.model_name,
     !.declared_weights_sha256 = IF m.weights_sha256 = Absent THEN @ ELSE m.weights_sha256]

\* Mutant: only hashing settles the comparison
LoadManifestUnsettled(m) ==
  LET read == Read(identity, m)
  IN  /\ identity' = [read EXCEPT !.provenance_known =
                        IF m.model_name \in Name THEN "true" ELSE "unknown"]
      /\ lastRead' = m
      /\ UNCHANGED weights

\* A manifest that cannot be read changes nothing.  One without a name "proves
\* nothing", but what it declares stays, and is compared only later.
LoadManifest(m) ==
  LET read == Read(identity, m)
  IN  /\ identity' =
           IF m.model_name \notin Name THEN [read EXCEPT !.provenance_known = "unknown"]
           ELSE Settled([read EXCEPT !.provenance_known = "true"])
      /\ lastRead' = m
      /\ UNCHANGED weights

Next ==
  \/ \E w \in Hash \cup {Absent} : ChangeWeights(w)
  \/ \E llm \in BOOLEAN : Capture(llm)
  \/ HashWeights
  \/ \E m \in Manifests : LoadManifest(m)

Spec == Init /\ [][Next]_vars

-----------------------------------------------------------------------------
(* What the identity answers.                                              *)

Is(claim) ==
  CASE claim \in OfEngine -> "true"
    [] claim \notin OfEngine /\ (\/ identity.provenance_known # "true"
                                 \/ identity.weights_match_manifest = "false") -> "unknown"
    [] OTHER -> IF claim \in NameHas[identity.model_name] THEN "true" ELSE "false"

\* The statements of the two reports, whose wording is left out: the text ...
Report ==
  LET known == identity.provenance_known = "true"
  IN  [loaded  |-> identity.weights_loaded,
       parameters |-> IF identity.weights_loaded THEN identity.parameters ELSE "none",
       sha256  |-> IF identity.weights_loaded /\ identity.weights_hashed
                   THEN identity.weights_sha256 ELSE Absent,
       matches |-> IF identity.weights_loaded
                   THEN identity.weights_match_manifest ELSE "unknown",
       model   |-> IF known THEN identity.model_name ELSE Absent,
       void    |-> known /\ identity.weights_match_manifest = "false"]

\* ... and the JSON, which gives the fields as they stand
ReportJson ==
  [weights_loaded   |-> identity.weights_loaded,
   parameter_count  |-> identity.parameters,
   weights_sha256   |-> IF identity.weights_hashed THEN identity.weights_sha256 ELSE Absent,
   provenance_known |-> identity.provenance_known,
   model_name       |-> identity.model_name,
   weights_match_manifest |-> identity.weights_match_manifest]

-----------------------------------------------------------------------------
(* Properties                                                              *)

\* The manifest read last declares another hash than that of the weights
Contradicted ==
  /\ identity.weights_hashed /\ lastRead.weights_sha256 # Absent
  /\ lastRead.weights_sha256 # identity.weights_sha256

\* In whatever order capture, hashing and manifests come, a claim about the
\* weights is answered with yes or no only from the manifest read last, by its
\* name, and never when the hash it declares is known to differ from that of
\* the weights ("never TRUE and never FALSE", niyah_identity.h:108-109).  The
\* text report names the model of no other manifest and then says whether what
\* it says is void.  The JSON names that model where it gives the provenance as
\* known, and then says whether the hashes match; where it gives it as unknown
\* its model_name may be left from an earlier manifest, and nothing is promised.
ClaimsBacked ==
  /\ \A claim \in Claim \ OfEngine :
       Is(claim) # "unknown" =>
         /\ lastRead.model_name \in Name /\ ~Contradicted
         /\ (Is(claim) = "true") <=> (claim \in NameHas[lastRead.model_name])
  /\ Report.model # Absent =>
       Report.model = lastRead.model_name /\ (Contradicted => Report.void)
  /\ ReportJson.provenance_known = "true" =>
       /\ ReportJson.model_name = lastRead.model_name
       /\ Contradicted => ReportJson.weights_match_manifest = "false"

=============================================================================
