------------------------ MODULE ComponentModelsProofs ------------------------
(***************************************************************************)
(* The components that load, describe and talk about models: what the      *)
(* engine claims about its weights, the logic it claims it in, what        *)
(* NiyahMini says it has loaded, and what the logits of both generators    *)
(* are computed from, for every value of the constants.                    *)
(***************************************************************************)
EXTENDS Components, Truth, TLAPS

\* A step is one of the component that runs, or changes nothing of it.
LEMMA ModelSteps ==
  ASSUME [Next]_vars
  PROVE  /\ part' = part
         /\ part = "identity" => D!Next \/ UNCHANGED dVars
         /\ part = "mini" => M!Next \/ UNCHANGED mVars
         /\ part = "generation" => I!Next \/ UNCHANGED iVars
BY DEF Next, vars, OnlySearch, OnlyRobots, OnlyEvidence, OnlyBridge, OnlyGraph, OnlyArena,
       OnlyStore, OnlyGeneration, OnlyIdentity, OnlyMini

-----------------------------------------------------------------------------
(* Identity.  Its fields survive from one manifest to the next; the        *)
(* invariant relates them to the manifest read last.                       *)

IdentityTyped ==
  /\ identity \in [weights_loaded : BOOLEAN, parameters : {"none", "implied", "measured"},
                   weights_hashed : BOOLEAN, weights_sha256 : Hash \cup {Absent},
                   provenance_known : {"unknown", "true"},
                   model_name : Name \cup {Absent, D!Unnamed},
                   declared_weights_sha256 : Hash \cup {Absent},
                   weights_match_manifest : {"false", "unknown", "true"}]
  /\ weights \in Hash \cup {Absent}
  /\ lastRead \in D!Manifests

\* Provenance is known of the manifest read last only
Known ==
  identity.provenance_known = "true" =>
    lastRead.model_name \in Name /\ identity.model_name = lastRead.model_name

\* A hash declared by that manifest is the one compared
Declared ==
  lastRead.weights_sha256 # Absent =>
    identity.declared_weights_sha256 = lastRead.weights_sha256

\* While provenance is known the comparison is up to date.  Without a name it
\* need not be: the hash declared last has then not been compared yet.
Compared ==
  identity.provenance_known = "true" /\ identity.weights_hashed
    /\ identity.declared_weights_sha256 # Absent =>
       identity.weights_match_manifest =
         IF identity.weights_sha256 = identity.declared_weights_sha256
         THEN "true" ELSE "false"

IdentityInv == IdentityTyped /\ Known /\ Declared /\ Compared

LEMMA CaptureStep ==
  ASSUME NEW llm \in BOOLEAN, IdentityInv, D!Capture(llm)
  PROVE  IdentityInv'
<1>1. /\ D!Zeroed \in [weights_loaded : BOOLEAN, parameters : {"none"},
                       weights_hashed : {FALSE}, weights_sha256 : {Absent},
                       provenance_known : {"unknown"}, model_name : {D!Unnamed},
                       declared_weights_sha256 : {Absent}, weights_match_manifest : {"unknown"}]
      /\ lastRead' = D!NoManifest /\ weights' = weights
      /\ \/ identity' = D!Zeroed
         \/ \E loaded \in BOOLEAN, p \in {"measured", "implied"} :
              identity' = [D!Zeroed EXCEPT !.weights_loaded = loaded, !.parameters = p]
  BY DEF D!Capture, D!Zeroed
<1>2. /\ identity'.provenance_known = "unknown" /\ lastRead'.weights_sha256 = Absent
      /\ IdentityTyped'
  BY <1>1 DEF IdentityInv, IdentityTyped, D!NoManifest, D!Manifests
<1> QED
  BY <1>2 DEF IdentityInv, Known, Declared, Compared

LEMMA HashStep ==
  ASSUME IdentityInv, D!HashWeights
  PROVE  IdentityInv'
<1> DEFINE hashed == [identity EXCEPT !.weights_hashed = TRUE, !.weights_sha256 = weights]
<1>1. /\ IdentityTyped /\ Known /\ Declared /\ weights \in Hash /\ UNCHANGED <<weights, lastRead>>
      /\ identity' = [hashed EXCEPT !.weights_match_manifest = D!Matches(hashed)]
  BY DEF IdentityInv, D!HashWeights, D!Settled, IdentityTyped
<1>2. D!Matches(hashed) =
        IF identity.declared_weights_sha256 # Absent
        THEN IF weights = identity.declared_weights_sha256 THEN "true" ELSE "false"
        ELSE identity.weights_match_manifest
  BY <1>1 DEF D!Matches, IdentityTyped
<1>3. IdentityTyped'
  BY <1>1, <1>2 DEF IdentityTyped
<1>4. Known' /\ Declared'
  BY <1>1 DEF Known, Declared, IdentityTyped
<1>5. Compared'
  BY <1>1, <1>2 DEF Compared, IdentityTyped
<1> QED
  BY <1>3, <1>4, <1>5 DEF IdentityInv

LEMMA ManifestStep ==
  ASSUME D!IdentityAssumption, NEW m \in D!Manifests, IdentityInv, D!LoadManifest(m)
  PROVE  IdentityInv'
<1> DEFINE read == D!Read(identity, m)
<1>1. IdentityTyped /\ Declared /\ lastRead' = m /\ weights' = weights
  BY DEF IdentityInv, D!LoadManifest
<1>2. /\ read = [identity EXCEPT !.model_name = read.model_name,
                  !.declared_weights_sha256 = read.declared_weights_sha256]
      /\ read.model_name = IF m.model_name = Absent
                           THEN identity.model_name ELSE m.model_name
      /\ read.declared_weights_sha256 =
           IF m.weights_sha256 = Absent
           THEN identity.declared_weights_sha256 ELSE m.weights_sha256
  BY <1>1 DEF D!Read, IdentityTyped
<1>3. CASE m.model_name \notin Name
  <2>1. identity' = [read EXCEPT !.provenance_known = "unknown"]
    BY <1>3 DEF D!LoadManifest
  <2> QED
    BY <1>1, <1>2, <2>1 DEF IdentityInv, IdentityTyped, Known, Declared, Compared, D!Manifests
<1>4. CASE m.model_name \in Name
  <2> DEFINE known == [read EXCEPT !.provenance_known = "true"]
  <2>1. identity' = [known EXCEPT !.weights_match_manifest = D!Matches(known)]
    BY <1>4 DEF D!LoadManifest, D!Settled
  <2>2. D!Matches(known) =
          IF identity.weights_hashed /\ read.declared_weights_sha256 # Absent
          THEN IF identity.weights_sha256 = read.declared_weights_sha256
               THEN "true" ELSE "false"
          ELSE identity.weights_match_manifest
    BY <1>1, <1>2 DEF D!Matches, IdentityTyped
  <2>3. m.model_name # Absent
    BY <1>4 DEF D!IdentityAssumption
  <2> HIDE DEF read
  <2>4. IdentityTyped'
    BY <1>1, <1>2, <2>1, <2>2 DEF IdentityTyped, D!Manifests
  <2>5. Known' /\ Declared'
    BY <1>1, <1>2, <1>4, <2>1, <2>3 DEF Known, Declared, IdentityTyped
  <2>6. Compared'
    BY <1>1, <1>2, <2>1, <2>2 DEF Compared, IdentityTyped
  <2> QED
    BY <2>4, <2>5, <2>6 DEF IdentityInv
<1> QED
  BY <1>3, <1>4

LEMMA IdentityInvariant == Spec => [](part = "identity" => IdentityInv)
<1> USE Assumptions DEF Assumptions
<1>1. Init => (part = "identity" => IdentityInv)
  <2> SUFFICES ASSUME D!Init PROVE IdentityInv
    BY DEF Init
  <2>1. identity = D!Zeroed /\ lastRead = D!NoManifest /\ weights = Absent
    BY DEF D!Init
  <2>2. IdentityTyped
    BY <2>1 DEF IdentityTyped, D!Zeroed, D!NoManifest, D!Manifests, D!Unnamed
  <2>3. Known /\ Declared /\ Compared
    BY <2>1 DEF Known, Declared, Compared, D!Zeroed, D!NoManifest
  <2> QED
    BY <2>2, <2>3 DEF IdentityInv
<1>2. (part = "identity" => IdentityInv) /\ [Next]_vars => (part = "identity" => IdentityInv)'
  <2> SUFFICES ASSUME part = "identity", IdentityInv, D!Next \/ UNCHANGED dVars
               PROVE  IdentityInv'
    BY ModelSteps
  <2>1. ASSUME NEW w \in Hash \cup {Absent}, D!ChangeWeights(w) PROVE IdentityInv'
    BY <2>1 DEF D!ChangeWeights, IdentityInv, IdentityTyped, Known, Declared, Compared
  <2>2. ASSUME NEW llm \in BOOLEAN, D!Capture(llm) PROVE IdentityInv'
    BY <2>2, CaptureStep
  <2>3. ASSUME D!HashWeights PROVE IdentityInv'
    BY <2>3, HashStep
  <2>4. ASSUME NEW m \in D!Manifests, D!LoadManifest(m) PROVE IdentityInv'
    BY <2>4, ManifestStep
  <2>5. ASSUME UNCHANGED dVars PROVE IdentityInv'
    BY <2>5 DEF dVars, IdentityInv, IdentityTyped, Known, Declared, Compared
  <2> QED
    BY <2>1, <2>2, <2>3, <2>4, <2>5 DEF D!Next
<1> QED
  BY <1>1, <1>2, PTL DEF Spec

\* An answer of yes or no about the weights comes from the manifest read last and
\* is given only while no hash contradicts it (niyah_identity_is), the text report
\* and the JSON with known provenance name the model of that manifest and say when
\* the weights are others, in whatever order captures, hashing, manifests and
\* changes of the model come.
THEOREM IdentityClaimsBacked == Spec => []ClaimsBacked
<1>1. (part = "identity" => IdentityInv) => ClaimsBacked
  <2> SUFFICES ASSUME IdentityInv PROVE D!ClaimsBacked
    BY DEF ClaimsBacked
  <2> DEFINE known == identity.provenance_known = "true"
             void == identity.weights_match_manifest = "false"
  <2>1. D!Contradicted /\ known => void
    BY DEF IdentityInv, Declared, Compared, D!Contradicted
  <2>2. known => lastRead.model_name \in Name /\ identity.model_name = lastRead.model_name
    BY DEF IdentityInv, Known
  <2>3. ASSUME NEW claim \in Claim \ OfEngine, D!Is(claim) # "unknown"
        PROVE  /\ lastRead.model_name \in Name /\ ~D!Contradicted
               /\ (D!Is(claim) = "true") <=> (claim \in NameHas[lastRead.model_name])
    <3>1. known /\ ~void
      BY <2>3 DEF D!Is
    <3>2. D!Is(claim) = IF claim \in NameHas[identity.model_name] THEN "true" ELSE "false"
      BY <2>3, <3>1 DEF D!Is
    <3> QED
      BY <2>1, <2>2, <3>1, <3>2
  <2>4. D!Report.model = (IF known THEN identity.model_name ELSE Absent)
          /\ D!Report.void = (known /\ void)
    BY DEF D!Report
  <2>5. /\ (D!ReportJson.provenance_known = "true") <=> known
        /\ D!ReportJson.model_name = identity.model_name
        /\ (D!ReportJson.weights_match_manifest = "false") <=> void
    BY DEF D!ReportJson
  <2> QED
    BY <2>1, <2>2, <2>3, <2>4, <2>5 DEF D!ClaimsBacked
<1> QED
  BY <1>1, IdentityInvariant, PTL

-----------------------------------------------------------------------------
(* NiyahMini: the flag and the block                                       *)

MiniTyped ==
  /\ mini \in [config : M!Configuration, block : {"none", "initial", "mixed", "file"}]
  /\ wrapped \in [config : M!Configuration, loaded : BOOLEAN]

\* Only a valid configuration gets a block
BlockInv == MiniTyped /\ (mini.block # "none" => M!Valid(mini.config)) /\ M!LoadedIsWhole

\* What the defaults of the loader change, field by field.
LEMMA NormalizedFields ==
  ASSUME NEW k \in I!ModelConfig, NEW n, n = I!Normalize(k)
  PROVE  /\ n \in I!ModelConfig
         /\ n.n_vocab = k.n_vocab /\ n.n_embd = k.n_embd
         /\ n.n_head = k.n_head /\ n.n_layer = k.n_layer
         /\ n.eos_token_id = k.eos_token_id /\ n.bos_token_id = k.bos_token_id
         /\ n.tie_word_embeddings = k.tie_word_embeddings
         /\ n.n_kv_head = IF k.n_kv_head <= 0 THEN k.n_head ELSE k.n_kv_head
         /\ n.n_ff = IF k.n_ff <= 0 THEN 4 * k.n_embd ELSE k.n_ff
         /\ n.rope_theta = IF k.rope_theta <= 0 THEN 10000 ELSE k.rope_theta
         /\ n.norm_eps = IF k.norm_eps <= 0 THEN 1 ELSE k.norm_eps
         /\ n.n_ctx = IF k.n_ctx <= 0 THEN 2048 ELSE k.n_ctx
<1>1. n = [k EXCEPT !.n_kv_head = IF k.n_kv_head <= 0 THEN k.n_head ELSE k.n_kv_head,
                    !.n_ff = IF k.n_ff <= 0 THEN 4 * k.n_embd ELSE k.n_ff,
                    !.rope_theta = IF k.rope_theta <= 0 THEN 10000 ELSE k.rope_theta,
                    !.norm_eps = IF k.norm_eps <= 0 THEN 1 ELSE k.norm_eps,
                    !.n_ctx = IF k.n_ctx <= 0 THEN 2048 ELSE k.n_ctx]
  BY DEF I!Normalize, I!ModelConfig
<1>2. /\ k.n_kv_head \in Int /\ k.n_head \in Int /\ k.n_ff \in Int /\ k.n_embd \in Int
      /\ k.rope_theta \in Int /\ k.norm_eps \in Int /\ k.n_ctx \in Int
  BY DEF I!ModelConfig
<1>3. PICK a \in Int : a = IF k.n_kv_head <= 0 THEN k.n_head ELSE k.n_kv_head
  BY <1>2
<1>4. PICK b \in Int : b = IF k.n_ff <= 0 THEN 4 * k.n_embd ELSE k.n_ff
  BY <1>2
<1>5. PICK c \in Int : c = IF k.rope_theta <= 0 THEN 10000 ELSE k.rope_theta
  BY <1>2
<1>6. PICK d \in Int : d = IF k.norm_eps <= 0 THEN 1 ELSE k.norm_eps
  BY <1>2
<1>7. PICK e \in Int : e = IF k.n_ctx <= 0 THEN 2048 ELSE k.n_ctx
  BY <1>2
<1>8. n = [k EXCEPT !.n_kv_head = a, !.n_ff = b, !.rope_theta = c, !.norm_eps = d, !.n_ctx = e]
  BY <1>1, <1>3, <1>4, <1>5, <1>6, <1>7
<1>9. n \in I!ModelConfig
  <2>1. ASSUME NEW r \in I!ModelConfig, NEW v \in Int
        PROVE  /\ [r EXCEPT !.n_kv_head = v] \in I!ModelConfig
               /\ [r EXCEPT !.n_ff = v] \in I!ModelConfig
               /\ [r EXCEPT !.rope_theta = v] \in I!ModelConfig
               /\ [r EXCEPT !.norm_eps = v] \in I!ModelConfig
               /\ [r EXCEPT !.n_ctx = v] \in I!ModelConfig
    <3>1. [r EXCEPT !.n_kv_head = v] \in I!ModelConfig
      BY DEF I!ModelConfig
    <3>2. [r EXCEPT !.n_ff = v] \in I!ModelConfig
      BY DEF I!ModelConfig
    <3>3. [r EXCEPT !.rope_theta = v] \in I!ModelConfig
      BY DEF I!ModelConfig
    <3>4. [r EXCEPT !.norm_eps = v] \in I!ModelConfig
      BY DEF I!ModelConfig
    <3>5. [r EXCEPT !.n_ctx = v] \in I!ModelConfig
      BY DEF I!ModelConfig
    <3> QED
      BY <3>1, <3>2, <3>3, <3>4, <3>5
  <2>2. n = [[[[[k EXCEPT !.n_kv_head = a] EXCEPT !.n_ff = b] EXCEPT !.rope_theta = c]
               EXCEPT !.norm_eps = d] EXCEPT !.n_ctx = e]
    BY <1>8, Zenon
  <2>3. [k EXCEPT !.n_kv_head = a] \in I!ModelConfig
    BY <2>1
  <2>4. [[k EXCEPT !.n_kv_head = a] EXCEPT !.n_ff = b] \in I!ModelConfig
    BY <2>1, <2>3, Zenon
  <2>5. [[[k EXCEPT !.n_kv_head = a] EXCEPT !.n_ff = b] EXCEPT !.rope_theta = c]
          \in I!ModelConfig
    BY <2>1, <2>4, Zenon
  <2>6. [[[[k EXCEPT !.n_kv_head = a] EXCEPT !.n_ff = b] EXCEPT !.rope_theta = c]
          EXCEPT !.norm_eps = d] \in I!ModelConfig
    BY <2>1, <2>5, Zenon
  <2>7. [[[[[k EXCEPT !.n_kv_head = a] EXCEPT !.n_ff = b] EXCEPT !.rope_theta = c]
          EXCEPT !.norm_eps = d] EXCEPT !.n_ctx = e] \in I!ModelConfig
    BY <2>1, <2>6, Zenon
  <2> QED
    BY <2>2, <2>7
<1>10. /\ n.n_vocab = k.n_vocab /\ n.n_embd = k.n_embd
       /\ n.n_head = k.n_head /\ n.n_layer = k.n_layer
       /\ n.eos_token_id = k.eos_token_id /\ n.bos_token_id = k.bos_token_id
       /\ n.tie_word_embeddings = k.tie_word_embeddings
       /\ n.n_kv_head = a /\ n.n_ff = b /\ n.rope_theta = c
       /\ n.norm_eps = d /\ n.n_ctx = e
  BY <1>8, <1>9 DEF I!ModelConfig
<1> QED
  BY <1>3, <1>4, <1>5, <1>6, <1>7, <1>9, <1>10

\* Nothing is left out any more once the defaults are in.
LEMMA NormalizedOnce ==
  ASSUME NEW k \in I!ModelConfig, I!Shaped(k)
  PROVE  I!Normalize(I!Normalize(k)) = I!Normalize(k)
<1>1. PICK n : n = I!Normalize(k)
  OBVIOUS
<1>2. PICK m : m = I!Normalize(n)
  OBVIOUS
<1>3. k.n_head > 0 /\ k.n_embd > 0 /\ k.n_head \in Int /\ k.n_embd \in Int
  BY DEF I!Shaped, I!ModelConfig
<1>4. n \in I!ModelConfig /\ m \in I!ModelConfig
  BY <1>1, <1>2, NormalizedFields
<1>5. n.n_kv_head > 0 /\ n.n_ff > 0 /\ n.rope_theta > 0 /\ n.norm_eps > 0 /\ n.n_ctx > 0
  <2>1. /\ k.n_kv_head \in Int /\ k.n_ff \in Int /\ k.rope_theta \in Int
        /\ k.norm_eps \in Int /\ k.n_ctx \in Int
    BY DEF I!ModelConfig
  <2> QED
    BY <1>1, <1>3, <2>1, NormalizedFields
<1>6. ~(n.n_kv_head <= 0) /\ ~(n.n_ff <= 0) /\ ~(n.rope_theta <= 0) /\ ~(n.norm_eps <= 0)
      /\ ~(n.n_ctx <= 0)
  BY <1>4, <1>5 DEF I!ModelConfig
<1>7. /\ m.n_vocab = n.n_vocab /\ m.n_embd = n.n_embd
      /\ m.n_head = n.n_head /\ m.n_layer = n.n_layer
      /\ m.eos_token_id = n.eos_token_id /\ m.bos_token_id = n.bos_token_id
      /\ m.tie_word_embeddings = n.tie_word_embeddings
      /\ m.n_kv_head = n.n_kv_head /\ m.n_ff = n.n_ff /\ m.rope_theta = n.rope_theta
      /\ m.norm_eps = n.norm_eps /\ m.n_ctx = n.n_ctx
  BY <1>2, <1>4, <1>6, NormalizedFields
<1> QED
  BY <1>1, <1>2, <1>4, <1>7 DEF I!ModelConfig

\* A configuration in the engine's words keeps its defaults away, and the loader
\* counts the floats of its block as NiyahMini did.
LEMMA ConvertedMaps ==
  ASSUME M!MiniAssumption, NEW c \in M!Configuration, M!Valid(c)
  PROVE  I!Maps(M!Converted(c), M!BlockFloats(c))
<1> DEFINE k == M!Converted(c)
           n == I!Normalize(k)
           kv == c.n_kv_heads * (c.n_dim \div c.n_heads)
           one == 2 * c.n_dim + 2 * c.n_dim * c.n_dim + 2 * kv * c.n_dim
                    + 3 * c.n_ff * c.n_dim
<1>1. /\ c.n_layers \in Nat \ {0} /\ c.n_dim \in Nat \ {0} /\ c.n_heads \in Nat \ {0}
      /\ c.n_kv_heads \in Nat \ {0} /\ c.n_ff \in Nat \ {0}
      /\ c.n_vocab \in Nat \ {0} /\ c.n_ctx \in Nat \ {0}
      /\ c.n_dim % c.n_heads = 0 /\ c.tie_word_embeddings \in BOOLEAN
  BY DEF M!Valid, M!Configuration, M!MiniAssumption
<1>2. /\ k.n_embd = c.n_dim /\ k.n_head = c.n_heads /\ k.n_layer = c.n_layers
      /\ k.n_vocab = c.n_vocab /\ k.n_kv_head = c.n_kv_heads /\ k.n_ff = c.n_ff
      /\ k.tie_word_embeddings = c.tie_word_embeddings /\ k \in I!ModelConfig
  BY <1>1 DEF M!Converted, I!ModelConfig, M!EOS, M!BOS
<1> HIDE DEF k
<1>3. /\ n.n_embd = c.n_dim /\ n.n_head = c.n_heads /\ n.n_layer = c.n_layers
      /\ n.n_vocab = c.n_vocab /\ n.n_kv_head = c.n_kv_heads /\ n.n_ff = c.n_ff
      /\ n.tie_word_embeddings = c.tie_word_embeddings
  BY <1>1, <1>2, NormalizedFields
<1>4. I!Normalize(n) = n
  BY <1>1, <1>2, NormalizedOnce DEF I!Shaped
<1> HIDE DEF n
<1>5. I!Shaped(n)
  BY <1>1, <1>3 DEF I!Shaped
<1>6. I!Embedding(n) = c.n_vocab * c.n_dim /\ I!LayerFloats(n) = one
  BY <1>3 DEF I!Embedding, I!LayerFloats, I!KvDim
<1>7. I!ExpectedFloats(n) = 2 * (c.n_vocab * c.n_dim) + c.n_layers * one + c.n_dim
  BY <1>3, <1>4, <1>5, <1>6 DEF I!ExpectedFloats
<1>8. M!BlockFloats(c) = c.n_vocab * c.n_dim + c.n_layers * one + c.n_dim
                          + (IF c.tie_word_embeddings THEN 0 ELSE c.n_vocab * c.n_dim)
  BY DEF M!BlockFloats, M!KvWidth
<1>9. kv \in Int /\ one \in Int /\ c.n_layers * one \in Int /\ c.n_vocab * c.n_dim \in Int
  <2>1. c.n_dim \div c.n_heads \in Int
    BY <1>1
  <2>2. kv \in Int
    BY <1>1, <2>1
  <2> HIDE DEF kv
  <2>3. one \in Int
    BY <1>1, <2>2
  <2> QED
    BY <1>1, <2>2, <2>3 DEF kv
<1>10. ASSUME NEW e \in Int, NEW l \in Int, NEW d \in Int, NEW t \in BOOLEAN
       PROVE  e + l + d + (IF t THEN 0 ELSE e) = 2 * e + l + d - (IF t THEN e ELSE 0)
  OBVIOUS
<1> HIDE DEF one, kv
<1>11. M!BlockFloats(c)
        = I!ExpectedFloats(n) - (IF n.tie_word_embeddings THEN I!Embedding(n) ELSE 0)
  BY <1>1, <1>3, <1>6, <1>7, <1>8, <1>9, <1>10
<1> QED
  BY <1>5, <1>11 DEF I!Maps, n, k

LEMMA BlockInvariant == Spec => [](part = "mini" => BlockInv)
<1> USE Assumptions DEF Assumptions
<1> USE DEF BlockInv, MiniTyped, M!LoadedIsWhole
<1>0. M!NoConfig \in M!Configuration
  BY DEF M!NoConfig, M!Configuration
<1>1. Init => (part = "mini" => BlockInv)
  BY <1>0 DEF Init, M!Init, M!Nothing
<1>2. (part = "mini" => BlockInv) /\ [Next]_vars => (part = "mini" => BlockInv)'
  <2> SUFFICES ASSUME part = "mini", BlockInv, M!Next \/ UNCHANGED mVars PROVE BlockInv'
    BY ModelSteps
  <2>0. MiniConfigs \subseteq M!Configuration
    BY DEF M!MiniAssumption
  <2>1. ASSUME UNCHANGED <<wrapped, mini>> PROVE BlockInv'
    BY <2>1 DEF M!Valid
  <2>2. ASSUME NEW c \in MiniConfigs, M!WrappedInit(c) PROVE BlockInv'
    BY <1>0, <2>0, <2>2 DEF M!WrappedInit, M!InitModel, M!Nothing
  <2>3. ASSUME NEW c \in MiniConfigs, M!LoadFails(c) PROVE BlockInv'
    <3>1. wrapped' = [wrapped EXCEPT !.loaded = FALSE]
      BY <2>3 DEF M!LoadFails
    <3>2. wrapped' \in [config : M!Configuration, loaded : BOOLEAN] /\ ~wrapped'.loaded
      BY <3>1
    <3>3. \/ mini' = mini \/ mini' = M!Nothing
          \/ /\ M!Valid(c)
             /\ \E block \in {"initial", "mixed"} : mini' = [config |-> c, block |-> block]
      BY <2>3 DEF M!LoadFails
    <3>4. CASE mini' = mini
      BY <3>2, <3>4 DEF M!Valid
    <3>5. CASE mini' = M!Nothing
      BY <1>0, <3>2, <3>5 DEF M!Nothing
    <3>6. CASE /\ M!Valid(c)
               /\ \E block \in {"initial", "mixed"} : mini' = [config |-> c, block |-> block]
      BY <2>0, <3>2, <3>6 DEF M!Valid
    <3> QED
      BY <3>3, <3>4, <3>5, <3>6
  <2>4. ASSUME NEW c \in MiniConfigs, NEW size \in FileSizes, M!WrappedLoad(c, size)
        PROVE  BlockInv'
    BY <2>0, <2>4 DEF M!WrappedLoad
  <2>5. ASSUME M!WrappedFree PROVE BlockInv'
    BY <1>0, <2>5 DEF M!WrappedFree, M!Nothing
  <2>6. ASSUME NEW p \in MiniPrompts, M!GetLogits(p) \/ M!GenerateRefused(p) PROVE BlockInv'
    BY <2>1, <2>6 DEF M!GetLogits, M!GenerateRefused, M!Return
  <2>7. ASSUME NEW p \in MiniPrompts, NEW n \in 0 .. MaxNew, M!Generate(p, n) PROVE BlockInv'
    BY <2>1, <2>7 DEF M!Generate
  <2>8. ASSUME M!Prompt \/ M!PromptFails \/ M!GenerateEnds \/ M!GenerateToken PROVE BlockInv'
    BY <2>1, <2>8 DEF M!Prompt, M!PromptFails, M!GenerateEnds, M!GenerateToken, M!Return
  <2>9. ASSUME NEW empty \in BOOLEAN, NEW tokenizer \in BOOLEAN,
               M!WrappedGenerate(empty, tokenizer)
        PROVE  BlockInv'
    BY <2>1, <2>9 DEF M!WrappedGenerate, M!modelVars
  <2>10. ASSUME UNCHANGED mVars PROVE BlockInv'
    BY <2>1, <2>10 DEF mVars
  <2> QED
    BY <2>2, <2>3, <2>4, <2>5, <2>6, <2>7, <2>8, <2>9, <2>10 DEF M!Next
<1> QED
  BY <1>1, <1>2, PTL DEF Spec

\* Through loads that fail before or after the old model was freed, short files,
\* frees and generations, the flag means a whole file of the wrapper's own
\* configuration (niyah_mini_wrapped_load), and every block has exactly the
\* floats that the engine's loader asks for (niyah_model_expected_floats).
THEOREM LoadedFlagMeansWhole == Spec => []LoadedIsWhole
<1> USE Assumptions DEF Assumptions
<1>1. (part = "mini" => BlockInv) => LoadedIsWhole
  BY ConvertedMaps DEF BlockInv, MiniTyped, LoadedIsWhole
<1> QED
  BY <1>1, BlockInvariant, PTL

-----------------------------------------------------------------------------
(* The tensors of a blob, one after the other                              *)

NothingSummed(x) == 0
AddSize(x, sum, size) == sum + size
\* x: the sizes before this sequence
SumsUp(x, s, sum) ==
  x \in Seq(Int) /\ I!Sum(x) \in Int => sum \in Int /\ I!Sum(x \o s) = I!Sum(x) + sum
Adding == INSTANCE FoldTheorems
  WITH T <- Int, Base <- NothingSummed, Op <- AddSize, P <- SumsUp

LEMMA SumLoop == \A x, s : I!Sum(s) = Adding!Fold(x, s)
BY DEF I!Sum, I!FoldLeft, I!MapThenFoldSet, I!Max, Adding!Fold, Adding!FoldLeft,
       Adding!MapThenFoldSet, Adding!Max, NothingSummed, AddSize

\* One more size.
LEMMA SumAppend ==
  ASSUME NEW s \in Seq(Int), NEW e \in Int
  PROVE  I!Sum(Append(s, e)) = I!Sum(s) + e
BY SumLoop, Adding!FoldAppend DEF AddSize

\* The sum of two parts is the sum of their sums.
LEMMA SumConcat ==
  ASSUME NEW s \in Seq(Int), NEW t \in Seq(Int)
  PROVE  I!Sum(t) \in Int /\ I!Sum(s \o t) = I!Sum(s) + I!Sum(t)
<1>0. I!Sum(<<>>) = 0
  BY SumLoop, Adding!FoldEmpty DEF NothingSummed
<1>1. ASSUME NEW x PROVE \A r \in Seq(Int) : SumsUp(x, r, Adding!Fold(x, r))
  <2>1. SumsUp(x, <<>>, NothingSummed(x))
    <3> SUFFICES ASSUME x \in Seq(Int), I!Sum(x) \in Int PROVE I!Sum(x \o <<>>) = I!Sum(x) + 0
      BY DEF SumsUp, NothingSummed
    <3>1. x \o <<>> = x
      OBVIOUS
    <3> QED
      BY <3>1, <1>0
  <2>2. ASSUME NEW r \in Seq(Int), NEW e \in Int, NEW sum, SumsUp(x, r, sum)
        PROVE  SumsUp(x, Append(r, e), AddSize(x, sum, e))
    <3> SUFFICES ASSUME x \in Seq(Int), I!Sum(x) \in Int
                 PROVE  sum + e \in Int /\ I!Sum(x \o Append(r, e)) = I!Sum(x) + (sum + e)
      BY DEF SumsUp, AddSize
    <3>1. x \o Append(r, e) = Append(x \o r, e) /\ x \o r \in Seq(Int)
      OBVIOUS
    <3>2. I!Sum(x \o Append(r, e)) = I!Sum(x \o r) + e
      BY <3>1, SumAppend
    <3>3. sum \in Int /\ I!Sum(x \o r) = I!Sum(x) + sum
      BY <2>2 DEF SumsUp
    <3> QED
      BY <3>2, <3>3
  <2> QED
    BY <2>1, <2>2, Adding!FoldInduction
<1>2. <<>> \in Seq(Int)
  OBVIOUS
<1>3. ASSUME NEW r \in Seq(Int) PROVE I!Sum(r) \in Int
  <2>1. SumsUp(<<>>, r, Adding!Fold(<<>>, r))
    BY <1>1
  <2>2. Adding!Fold(<<>>, r) \in Int
    BY <1>0, <1>2, <2>1 DEF SumsUp
  <2> QED
    BY <2>2, SumLoop
<1> QED
  BY <1>1, <1>3, SumLoop DEF SumsUp

\* The tensors of the layers, after the embedding
EmbeddingFirst(n) == <<I!Embedding(n)>>
TensorsOfLayer(n, before, layer) == before \o I!LayerTensors(n)
LayersSum(n, s, before) ==
  n \in I!ModelConfig /\ I!Shaped(n) =>
    /\ before \in Seq(Int)
    /\ I!Sum(before) = I!Embedding(n) + Len(s) * I!LayerFloats(n)
Laying == INSTANCE FoldTheorems
  WITH T <- Int, Base <- EmbeddingFirst, Op <- TensorsOfLayer, P <- LayersSum

LEMMA LayerLoop ==
  \A n, s : I!FoldLeft(LAMBDA before, layer : before \o I!LayerTensors(n),
                       <<I!Embedding(n)>>, s) = Laying!Fold(n, s)
BY DEF I!FoldLeft, I!MapThenFoldSet, I!Max, Laying!Fold, Laying!FoldLeft,
       Laying!MapThenFoldSet, Laying!Max, EmbeddingFirst, TensorsOfLayer

\* The sum of three sizes.
LEMMA SumOfThree ==
  ASSUME NEW a \in Int, NEW b \in Int, NEW c \in Int
  PROVE  I!Sum(<<a, b, c>>) = a + b + c
<1>1. I!Sum(<<>>) = 0
  BY SumLoop, Adding!FoldEmpty DEF NothingSummed
<1>2. <<>> \in Seq(Int) /\ <<a>> \in Seq(Int) /\ <<a, b>> \in Seq(Int)
  OBVIOUS
<1>3. Append(<<>>, a) = <<a>> /\ Append(<<a>>, b) = <<a, b>> /\ Append(<<a, b>>, c) = <<a, b, c>>
  <2>1. Append(<<>>, a) = <<a>>
    OBVIOUS
  <2>2. <<a, b>> = Append(<<a>>, b)
    OBVIOUS
  <2>3. <<a, b, c>> = Append(<<a, b>>, c)
    OBVIOUS
  <2> QED
    BY <2>1, <2>2, <2>3
<1>4. /\ I!Sum(Append(<<>>, a)) = I!Sum(<<>>) + a
      /\ I!Sum(Append(<<a>>, b)) = I!Sum(<<a>>) + b
      /\ I!Sum(Append(<<a, b>>, c)) = I!Sum(<<a, b>>) + c
  BY <1>2, SumAppend
<1>5. /\ I!Sum(<<a>>) = 0 + a /\ I!Sum(<<a, b>>) = (0 + a) + b
      /\ I!Sum(<<a, b, c>>) = ((0 + a) + b) + c
  BY <1>1, <1>3, <1>4, Zenon
<1> QED
  BY <1>5

\* What a layer takes is what the loader counts for it.
LEMMA LayerSum ==
  ASSUME NEW n \in I!ModelConfig, I!Shaped(n)
  PROVE  /\ I!LayerTensors(n) \in Seq(Int) /\ I!LayerFloats(n) \in Int
         /\ I!Sum(I!LayerTensors(n)) = I!LayerFloats(n)
<1> DEFINE dim == n.n_embd
           kv == I!KvDim(n)
           ff == n.n_ff
<1>1. dim \in Int /\ kv \in Int /\ ff \in Int
  <2>1. n.n_embd \in Int /\ n.n_head \in Nat \ {0} /\ n.n_kv_head \in Int /\ n.n_ff \in Int
    BY DEF I!ModelConfig, I!Shaped
  <2>2. n.n_embd \div n.n_head \in Int
    BY <2>1
  <2> QED
    BY <2>1, <2>2 DEF I!KvDim
<1>2. I!LayerTensors(n)
        = <<dim, dim * dim, kv * dim, kv * dim, dim * dim, dim, ff * dim, ff * dim, dim * ff>>
  BY DEF I!LayerTensors
<1>3. I!LayerFloats(n) = 2 * dim + 2 * dim * dim + 2 * kv * dim + 3 * ff * dim
  BY DEF I!LayerFloats
<1> HIDE DEF dim, kv, ff
<1>4. PICK b \in Int : b = dim * dim
  BY <1>1
<1>5. PICK c \in Int : c = kv * dim
  BY <1>1
<1>6. PICK d \in Int : d = ff * dim
  BY <1>1
<1>7. dim * ff = d /\ 2 * dim * dim = 2 * b /\ 2 * kv * dim = 2 * c /\ 3 * ff * dim = 3 * d
  BY <1>1, <1>4, <1>5, <1>6
<1>8. I!LayerTensors(n) = <<dim, b, c, c, b, dim, d, d, d>>
  BY <1>2, <1>4, <1>5, <1>6, <1>7, Zenon
<1>9. I!LayerFloats(n) = 2 * dim + 2 * b + 2 * c + 3 * d
  BY <1>3, <1>7, Zenon
<1>10. <<dim, b, c, c, b, dim, d, d, d>> = <<dim, b, c>> \o <<c, b, dim>> \o <<d, d, d>>
  BY <1>1
<1>11. <<dim, b, c>> \in Seq(Int) /\ <<c, b, dim>> \in Seq(Int) /\ <<d, d, d>> \in Seq(Int)
  BY <1>1
<1>12. <<dim, b, c>> \o <<c, b, dim>> \in Seq(Int)
  BY <1>11
<1>13. /\ I!Sum(<<dim, b, c>>) = dim + b + c /\ I!Sum(<<c, b, dim>>) = c + b + dim
       /\ I!Sum(<<d, d, d>>) = d + d + d
  BY <1>1, SumOfThree
<1>14. I!Sum(<<dim, b, c>> \o <<c, b, dim>>) = (dim + b + c) + (c + b + dim)
  BY <1>11, <1>13, SumConcat
<1>15. I!Sum(<<dim, b, c>> \o <<c, b, dim>> \o <<d, d, d>>)
        = ((dim + b + c) + (c + b + dim)) + (d + d + d)
  BY <1>11, <1>12, <1>13, <1>14, SumConcat
<1>16. <<dim, b, c>> \o <<c, b, dim>> \o <<d, d, d>> \in Seq(Int)
  BY <1>11, <1>12
<1>17. I!LayerTensors(n) \in Seq(Int)
  BY <1>8, <1>10, <1>16, Zenon
<1>18. I!Sum(I!LayerTensors(n)) = ((dim + b + c) + (c + b + dim)) + (d + d + d)
  BY <1>8, <1>10, <1>15, Zenon
<1> QED
  BY <1>1, <1>9, <1>17, <1>18

\* A layer takes no less than nothing.
LEMMA LayerPositive ==
  ASSUME NEW n \in I!ModelConfig, I!Shaped(n), n.n_kv_head > 0, n.n_ff > 0
  PROVE  I!LayerFloats(n) \in Nat
<1> DEFINE kv == I!KvDim(n)
<1>1. n.n_embd \in Nat /\ n.n_head \in Nat \ {0} /\ n.n_kv_head \in Nat /\ n.n_ff \in Nat
  BY DEF I!ModelConfig, I!Shaped
<1>2. n.n_embd \div n.n_head \in Nat
  BY <1>1
<1>3. kv \in Nat
  BY <1>1, <1>2 DEF I!KvDim
<1> HIDE DEF kv
<1>4. n.n_embd * n.n_embd \in Nat /\ kv * n.n_embd \in Nat /\ n.n_ff * n.n_embd \in Nat
  BY <1>1, <1>3
<1>5. I!LayerFloats(n)
        = 2 * n.n_embd + 2 * (n.n_embd * n.n_embd) + 2 * (kv * n.n_embd) + 3 * (n.n_ff * n.n_embd)
  BY <1>1, <1>3 DEF I!LayerFloats, kv
<1> QED
  BY <1>1, <1>4, <1>5

\* The embedding, so many layers, and nothing else.
LEMMA LayersLaid ==
  ASSUME NEW n \in I!ModelConfig, I!Shaped(n), NEW s \in Seq(Int)
  PROVE  /\ Laying!Fold(n, s) \in Seq(Int)
         /\ I!Sum(Laying!Fold(n, s)) = I!Embedding(n) + Len(s) * I!LayerFloats(n)
<1>1. I!Embedding(n) \in Int
  BY DEF I!Embedding, I!ModelConfig
<1>2. LayersSum(n, <<>>, EmbeddingFirst(n))
  <2>1. /\ EmbeddingFirst(n) \in Seq(Int) /\ EmbeddingFirst(n) = Append(<<>>, I!Embedding(n))
        /\ <<>> \in Seq(Int)
    BY <1>1 DEF EmbeddingFirst
  <2>2. I!Sum(<<>>) = 0
    BY SumLoop, Adding!FoldEmpty DEF NothingSummed
  <2>3. I!Sum(EmbeddingFirst(n)) = 0 + I!Embedding(n)
    BY <1>1, <2>1, <2>2, SumAppend
  <2>4. Len(<<>>) * I!LayerFloats(n) = 0
    BY LayerSum
  <2> QED
    BY <1>1, <2>1, <2>3, <2>4 DEF LayersSum
<1>3. ASSUME NEW r \in Seq(Int), NEW e \in Int, NEW before, LayersSum(n, r, before)
      PROVE  LayersSum(n, Append(r, e), TensorsOfLayer(n, before, e))
  <2>1. before \in Seq(Int) /\ I!Sum(before) = I!Embedding(n) + Len(r) * I!LayerFloats(n)
    BY <1>3 DEF LayersSum
  <2>2. /\ before \o I!LayerTensors(n) \in Seq(Int)
        /\ I!Sum(before \o I!LayerTensors(n)) = I!Sum(before) + I!LayerFloats(n)
    BY <2>1, LayerSum, SumConcat
  <2>3. Len(r) \in Nat /\ Len(Append(r, e)) = Len(r) + 1 /\ I!LayerFloats(n) \in Int
    BY LayerSum
  <2>4. Len(Append(r, e)) * I!LayerFloats(n) = Len(r) * I!LayerFloats(n) + I!LayerFloats(n)
    BY <2>3
  <2>5. Len(r) * I!LayerFloats(n) \in Int
    BY <2>3
  <2> QED
    BY <1>1, <2>1, <2>2, <2>3, <2>4, <2>5 DEF LayersSum, TensorsOfLayer
<1>4. \A r \in Seq(Int) : LayersSum(n, r, Laying!Fold(n, r))
  BY <1>2, <1>3, Laying!FoldInduction
<1> QED
  BY <1>4 DEF LayersSum

\* A blob that weights_map accepts is tiled by its tensors.
LEMMA TensorsTile ==
  ASSUME model.config \in I!ModelConfig, I!Maps(model.config, model.floats)
  PROVE  I!TensorsInBlob
<1> DEFINE c == model.config
           embedding == I!Embedding(c)
<1>1. PICK n : n = I!Normalize(c)
  OBVIOUS
<1>2. /\ n \in I!ModelConfig /\ I!Shaped(n)
      /\ n.n_embd = c.n_embd /\ n.n_vocab = c.n_vocab
      /\ n.tie_word_embeddings = c.tie_word_embeddings
  BY <1>1, NormalizedFields DEF I!Maps
<1>3. I!Shaped(c)
  BY <1>1, <1>2, NormalizedFields DEF I!Shaped
<1>4. I!Embedding(n) = embedding /\ embedding \in Int /\ n.n_embd \in Int /\ n.n_layer \in Nat
      /\ n.n_embd > 0 /\ embedding > 0
  <2>1. c.n_embd \in Nat \ {0} /\ c.n_vocab \in Nat \ {0} /\ n.n_layer \in Nat
    BY <1>2, <1>3 DEF I!ModelConfig, I!Shaped
  <2> QED
    BY <1>2, <2>1 DEF I!Embedding
<1>5. PICK layers : layers = [l \in 1 .. n.n_layer |-> l]
  OBVIOUS
<1>6. layers \in Seq(Int) /\ Len(layers) = n.n_layer
  BY <1>4, <1>5
<1>7. PICK most : most = Laying!Fold(n, layers)
  OBVIOUS
<1>8. most \in Seq(Int) /\ I!Sum(most) = embedding + n.n_layer * I!LayerFloats(n)
  BY <1>2, <1>4, <1>6, <1>7, LayersLaid
<1>9. PICK sizes : sizes = Append(most, n.n_embd)
  OBVIOUS
<1>10. PICK last : last = Len(sizes)
  OBVIOUS
<1>11. /\ sizes \in Seq(Int) /\ last = Len(most) + 1 /\ last \in DOMAIN sizes
       /\ sizes[last] = n.n_embd /\ SubSeq(sizes, 1, last - 1) = most
  BY <1>4, <1>8, <1>9, <1>10
<1>12. I!Sum(sizes) = I!Sum(most) + n.n_embd /\ I!Sum(most) \in Int
  BY <1>4, <1>8, <1>9, SumAppend, SumConcat
<1>13. I!TensorMap(c) =
         [first |-> [i \in DOMAIN sizes |-> I!Sum(SubSeq(sizes, 1, i - 1))], sizes |-> sizes,
          lm_head |-> IF n.tie_word_embeddings THEN 0 ELSE I!Sum(sizes)]
  BY <1>1, <1>5, <1>7, <1>9, LayerLoop DEF I!TensorMap
<1>14. PICK map : map = I!TensorMap(c)
  OBVIOUS
<1>15. /\ map.sizes = sizes /\ map.first[last] = I!Sum(most)
       /\ map.lm_head = IF c.tie_word_embeddings THEN 0 ELSE I!Sum(sizes)
  <2>1. /\ map.first = [i \in DOMAIN sizes |-> I!Sum(SubSeq(sizes, 1, i - 1))]
        /\ map.sizes = sizes /\ map.lm_head = IF n.tie_word_embeddings THEN 0 ELSE I!Sum(sizes)
    BY <1>13, <1>14
  <2>2. map.first[last] = I!Sum(SubSeq(sizes, 1, last - 1))
    BY <1>11, <2>1
  <2> QED
    BY <1>2, <1>11, <2>1, <2>2
<1>16. model.floats = I!Sum(sizes) + (IF c.tie_word_embeddings THEN 0 ELSE embedding)
  <2>1. model.floats = I!ExpectedFloats(n) - (IF c.tie_word_embeddings THEN embedding ELSE 0)
    BY <1>1, <1>2, <1>4 DEF I!Maps
  <2>2. I!ExpectedFloats(n) = 2 * embedding + n.n_layer * I!LayerFloats(n) + n.n_embd
    BY <1>1, <1>2, <1>3, <1>4, NormalizedOnce DEF I!ExpectedFloats
  <2>3. n.n_layer * I!LayerFloats(n) \in Int
    BY <1>2, <1>4, LayerSum
  <2>4. PICK all \in Int : all = n.n_layer * I!LayerFloats(n)
    BY <2>3
  <2>5. /\ I!Sum(sizes) = embedding + all + n.n_embd
        /\ I!ExpectedFloats(n) = 2 * embedding + all + n.n_embd
    BY <1>8, <1>12, <2>2, <2>4
  <2> HIDE DEF embedding, c
  <2> QED
    BY <1>4, <2>1, <2>4, <2>5
<1>17. PICK tied \in BOOLEAN : tied = c.tie_word_embeddings
  BY DEF I!ModelConfig
<1>18. \/ map.lm_head = 0 /\ model.floats = I!Sum(sizes)
       \/ map.lm_head = I!Sum(sizes) /\ model.floats = I!Sum(sizes) + embedding
  <2>1. CASE tied
    BY <1>4, <1>12, <1>15, <1>16, <1>17, <2>1
  <2>2. CASE ~tied
    BY <1>4, <1>12, <1>15, <1>16, <1>17, <2>2
  <2> QED
    BY <2>1, <2>2
<1>19. embedding <= I!Sum(most)
  <2>1. n.n_kv_head > 0 /\ n.n_ff > 0
    <3>1. /\ n.n_kv_head = (IF c.n_kv_head <= 0 THEN c.n_head ELSE c.n_kv_head)
          /\ n.n_ff = (IF c.n_ff <= 0 THEN 4 * c.n_embd ELSE c.n_ff)
      BY <1>1, NormalizedFields
    <3>2. /\ c.n_kv_head \in Int /\ c.n_head \in Int /\ c.n_head > 0 /\ c.n_ff \in Int
          /\ c.n_embd \in Int /\ c.n_embd > 0
      BY <1>3 DEF I!ModelConfig, I!Shaped
    <3> QED
      BY <3>1, <3>2
  <2>2. I!LayerFloats(n) \in Nat
    BY <1>2, <2>1, LayerPositive
  <2>3. n.n_layer * I!LayerFloats(n) \in Nat
    BY <1>4, <2>2
  <2> QED
    BY <1>4, <1>8, <2>3
<1>20. map.first[last] + map.sizes[last] = I!Sum(sizes)
  BY <1>11, <1>12, <1>15
<1>21. I!Sum(sizes) \in Int /\ embedding <= I!Sum(sizes)
  BY <1>4, <1>12, <1>19
<1> HIDE DEF c, embedding
<1>22. /\ map.lm_head + embedding <= model.floats
       /\ model.floats = IF map.lm_head + embedding > map.first[last] + map.sizes[last]
                         THEN map.lm_head + embedding ELSE map.first[last] + map.sizes[last]
  BY <1>4, <1>18, <1>20, <1>21
<1> QED
  BY <1>10, <1>14, <1>15, <1>22 DEF I!TensorsInBlob, c, embedding

-----------------------------------------------------------------------------
(* The key/value cache: a forward pass computes from the whole text        *)

K == INSTANCE KVCache

Pair == Nat \X Nat
Entries(layers, ctx) == [1 .. layers -> [0 .. ctx - 1 -> SUBSET Pair]]

\* What the entries before the next position were computed from
Filled(entries, layers, text) ==
  \A l \in 1 .. layers : \A p \in 0 .. Len(text) - 1 :
    <<p, text[p + 1]>> \in entries[l][p] /\ entries[l][p] \subseteq K!Whole(text)

\* K!Forward as a loop over the layers
Pass == [entries : UNION {Entries(layers, ctx) : layers \in Nat, ctx \in Nat},
         layers : Nat, ctx : Nat, position : Nat, token : Nat, text : Seq(Nat)]
Embedded(x) == [slots |-> x.entries, hidden |-> {<<x.position, x.token>>}]
ThroughLayer(x, state, layer) == K!Layer(state, layer, x.position)

\* The layers are read in order, at a position of the cache
InOrder(x, s) ==
  /\ \A i \in DOMAIN s : s[i] = i
  /\ Len(s) <= x.layers /\ x.position < x.ctx /\ x.entries \in Entries(x.layers, x.ctx)
\* The text before is in the cache
Prefixed(x) == Len(x.text) = x.position /\ Filled(x.entries, x.layers, x.text)
StateTyped(x, state) ==
  /\ state = [slots |-> state.slots, hidden |-> state.hidden]
  /\ state.slots \in Entries(x.layers, x.ctx) /\ state.hidden \in SUBSET Pair
\* Each layer sees all of the text and adds the new token
SeesAll(x, s, state) ==
  LET new == <<x.position, x.token>>
      whole == K!Whole(Append(x.text, x.token))
  IN  /\ new \in state.hidden /\ state.hidden \subseteq whole
      /\ Len(s) > 0 => state.hidden = whole
      /\ \A l \in 1 .. x.layers : \A p \in 0 .. x.position - 1 :
           state.slots[l][p] = x.entries[l][p]
      /\ \A l \in 1 .. Len(s) :
           new \in state.slots[l][x.position] /\ state.slots[l][x.position] \subseteq whole
Through(x, s, state) ==
  InOrder(x, s) => StateTyped(x, state) /\ (Prefixed(x) => SeesAll(x, s, state))
Passing == INSTANCE FoldTheorems
  WITH T <- Nat, Base <- Embedded, Op <- ThroughLayer, P <- Through

\* The text so far, and with one token more.
LEMMA WholeText ==
  ASSUME NEW text \in Seq(Nat), NEW token \in Nat
  PROVE  /\ K!Whole(text) \in SUBSET Pair
         /\ K!Whole(Append(text, token)) = K!Whole(text) \cup {<<Len(text), token>>}
         /\ \A k : k \in K!Whole(text) <=>
              \E p \in 0 .. Len(text) - 1 : k = <<p, text[p + 1]>>
<1>1. Len(text) \in Nat /\ DOMAIN text = 1 .. Len(text)
  OBVIOUS
<1>2. \A k : k \in K!Whole(text) <=> \E p \in 0 .. Len(text) - 1 : k = <<p, text[p + 1]>>
  <2>1. ASSUME NEW k, k \in K!Whole(text) PROVE \E p \in 0 .. Len(text) - 1 : k = <<p, text[p + 1]>>
    <3>1. PICK i \in 1 .. Len(text) : k = <<i - 1, text[i]>>
      BY <1>1, <2>1 DEF K!Whole
    <3>2. i - 1 \in 0 .. Len(text) - 1 /\ (i - 1) + 1 = i
      BY <1>1, <3>1
    <3> QED
      BY <3>1, <3>2
  <2>2. ASSUME NEW k, NEW p \in 0 .. Len(text) - 1, k = <<p, text[p + 1]>> PROVE k \in K!Whole(text)
    <3>1. p + 1 \in DOMAIN text /\ (p + 1) - 1 = p
      BY <1>1
    <3> QED
      BY <2>2, <3>1 DEF K!Whole
  <2> QED
    BY <2>1, <2>2
<1>3. K!Whole(text) \in SUBSET Pair
  <2>1. ASSUME NEW k, NEW p \in 0 .. Len(text) - 1, k = <<p, text[p + 1]>> PROVE k \in Pair
    <3>1. p \in Nat /\ p + 1 \in DOMAIN text
      BY <1>1
    <3> QED
      BY <2>1, <3>1 DEF Pair
  <2> QED
    BY <1>2, <2>1
<1>4. \A k : k \in K!Whole(Append(text, token))
               <=> k \in K!Whole(text) \cup {<<Len(text), token>>}
  <2>1. PICK all : all = Append(text, token)
    OBVIOUS
  <2>2. /\ DOMAIN all = 1 .. Len(text) + 1 /\ all[Len(text) + 1] = token
        /\ \A i \in 1 .. Len(text) : all[i] = text[i]
    BY <1>1, <2>1
  <2>3. ASSUME NEW k, k \in K!Whole(all) PROVE k \in K!Whole(text) \cup {<<Len(text), token>>}
    <3>1. PICK i \in 1 .. Len(text) + 1 : k = <<i - 1, all[i]>>
      BY <2>2, <2>3 DEF K!Whole
    <3>2. CASE i = Len(text) + 1
      BY <1>1, <2>2, <3>1, <3>2
    <3>3. CASE i # Len(text) + 1
      <4>1. i \in 1 .. Len(text)
        BY <1>1, <3>1, <3>3
      <4> QED
        BY <1>1, <2>2, <3>1, <4>1 DEF K!Whole
    <3> QED
      BY <3>2, <3>3
  <2>4. ASSUME NEW k, k \in K!Whole(text) PROVE k \in K!Whole(all)
    <3>1. PICK i \in 1 .. Len(text) : k = <<i - 1, text[i]>>
      BY <1>1, <2>4 DEF K!Whole
    <3>2. i \in DOMAIN all /\ all[i] = text[i]
      BY <1>1, <2>2
    <3> QED
      BY <3>1, <3>2 DEF K!Whole
  <2>5. <<Len(text), token>> \in K!Whole(all)
    <3>1. Len(text) + 1 \in DOMAIN all /\ (Len(text) + 1) - 1 = Len(text)
      BY <1>1, <2>2
    <3>2. <<(Len(text) + 1) - 1, all[Len(text) + 1]>> \in K!Whole(all)
      BY <3>1 DEF K!Whole
    <3> QED
      BY <2>2, <3>1, <3>2
  <2> QED
    BY <2>1, <2>3, <2>4, <2>5
<1> QED
  BY <1>2, <1>3, <1>4, Zenon

\* What one layer changes: its own entry of the position, and what it read.
LayerChanged(entries, hidden, layer, position, layers, ctx, after) ==
  /\ after = [slots |-> after.slots, hidden |-> after.hidden]
  /\ after.slots \in Entries(layers, ctx) /\ after.hidden \in SUBSET Pair
  /\ after.slots[layer][position] = hidden
  /\ \A l \in 1 .. layers : \A p \in 0 .. ctx - 1 :
       l # layer \/ p # position => after.slots[l][p] = entries[l][p]
  /\ after.hidden = UNION {after.slots[layer][k] : k \in 0 .. position}

LEMMA LayerStep ==
  ASSUME NEW layers \in Nat, NEW ctx \in Nat, NEW entries \in Entries(layers, ctx),
         NEW hidden \in SUBSET Pair, NEW layer \in 1 .. layers, NEW position \in 0 .. ctx - 1
  PROVE  LayerChanged(entries, hidden, layer, position, layers, ctx,
                      K!Layer([slots |-> entries, hidden |-> hidden], layer, position))
<1> SUFFICES ASSUME NEW after,
                    after = K!Layer([slots |-> entries, hidden |-> hidden], layer, position)
             PROVE  LayerChanged(entries, hidden, layer, position, layers, ctx, after)
  OBVIOUS
<1>1. PICK row : row = [entries[layer] EXCEPT ![position] = hidden]
  OBVIOUS
<1>2. PICK written : written = [entries EXCEPT ![layer] = row]
  OBVIOUS
<1>3. after = [slots |-> written, hidden |-> UNION {written[layer][t] : t \in 0 .. position}]
  BY <1>1, <1>2 DEF K!Layer, K!Attended
<1>4. /\ entries[layer] \in [0 .. ctx - 1 -> SUBSET Pair]
      /\ row \in [0 .. ctx - 1 -> SUBSET Pair] /\ row[position] = hidden
      /\ \A p \in 0 .. ctx - 1 : p # position => row[p] = entries[layer][p]
  BY <1>1 DEF Entries
<1>5. /\ written \in Entries(layers, ctx) /\ written[layer] = row
      /\ \A l \in 1 .. layers : l # layer => written[l] = entries[l]
  BY <1>2, <1>4 DEF Entries
<1>6. \A t \in 0 .. position : written[layer][t] \in SUBSET Pair
  <2>1. \A t \in 0 .. position : t \in 0 .. ctx - 1
    OBVIOUS
  <2> QED
    BY <1>4, <1>5, <2>1
<1>7. after.slots = written /\ after.hidden = UNION {written[layer][t] : t \in 0 .. position}
  BY <1>3
<1> QED
  BY <1>3, <1>4, <1>5, <1>6, <1>7 DEF LayerChanged

LEMMA LayerKeeps ==
  ASSUME NEW x \in Pass, NEW s \in Seq(Nat), NEW e \in Nat, NEW state, Through(x, s, state)
  PROVE  Through(x, Append(s, e), ThroughLayer(x, state, e))
<1> SUFFICES ASSUME NEW t, t = Append(s, e), InOrder(x, t),
                    NEW after, after = ThroughLayer(x, state, e)
             PROVE  StateTyped(x, after) /\ (Prefixed(x) => SeesAll(x, t, after))
  BY DEF Through
<1> DEFINE whole == K!Whole(Append(x.text, x.token))
           new == <<x.position, x.token>>
<1>1. /\ x.layers \in Nat /\ x.ctx \in Nat /\ x.position \in Nat /\ x.token \in Nat
      /\ x.text \in Seq(Nat)
  BY DEF Pass
<1>2. /\ Len(s) \in Nat /\ Len(t) = Len(s) + 1 /\ t[Len(s) + 1] = e /\ Len(s) + 1 \in DOMAIN t
      /\ \A i \in 1 .. Len(s) : i \in DOMAIN t /\ t[i] = s[i]
  OBVIOUS
<1>3. /\ e = Len(s) + 1 /\ e \in 1 .. x.layers /\ InOrder(x, s)
      /\ Len(s) <= x.layers /\ x.position \in 0 .. x.ctx - 1
  <2>1. e = Len(s) + 1 /\ e \in 1 .. x.layers /\ Len(s) <= x.layers
    BY <1>1, <1>2 DEF InOrder
  <2>2. x.position \in 0 .. x.ctx - 1
    BY <1>1 DEF InOrder
  <2>3. \A i \in DOMAIN s : s[i] = i
    <3>1. DOMAIN s = 1 .. Len(s)
      OBVIOUS
    <3> QED
      BY <1>2, <3>1 DEF InOrder
  <2> QED
    BY <2>1, <2>2, <2>3 DEF InOrder
<1>4. /\ state = [slots |-> state.slots, hidden |-> state.hidden]
      /\ state.slots \in Entries(x.layers, x.ctx) /\ state.hidden \in SUBSET Pair
  BY <1>3 DEF Through, StateTyped
<1>5. after = K!Layer([slots |-> state.slots, hidden |-> state.hidden], e, x.position)
  BY <1>4 DEF ThroughLayer
<1>6. /\ after = [slots |-> after.slots, hidden |-> after.hidden]
      /\ after.slots \in Entries(x.layers, x.ctx) /\ after.hidden \in SUBSET Pair
      /\ after.slots[e][x.position] = state.hidden
      /\ \A l \in 1 .. x.layers : \A p \in 0 .. x.ctx - 1 :
           l # e \/ p # x.position => after.slots[l][p] = state.slots[l][p]
      /\ after.hidden = UNION {after.slots[e][k] : k \in 0 .. x.position}
  <2>1. LayerChanged(state.slots, state.hidden, e, x.position, x.layers, x.ctx, after)
    BY <1>1, <1>3, <1>4, <1>5, LayerStep, Zenon
  <2> QED
    BY <2>1 DEF LayerChanged
<1>7. ASSUME Prefixed(x)
      PROVE  /\ new \in after.hidden /\ after.hidden = whole
             /\ \A l \in 1 .. x.layers : \A p \in 0 .. x.position - 1 :
                  after.slots[l][p] = x.entries[l][p]
             /\ \A l \in 1 .. Len(t) :
                  new \in after.slots[l][x.position] /\ after.slots[l][x.position] \subseteq whole
  <2>1. /\ new \in state.hidden /\ state.hidden \subseteq whole
        /\ \A l \in 1 .. x.layers : \A p \in 0 .. x.position - 1 :
             state.slots[l][p] = x.entries[l][p]
        /\ \A l \in 1 .. Len(s) :
             new \in state.slots[l][x.position] /\ state.slots[l][x.position] \subseteq whole
    BY <1>3, <1>7 DEF Through, SeesAll
  <2>2. ASSUME NEW l \in 1 .. x.layers, NEW p \in 0 .. x.position - 1
        PROVE  after.slots[l][p] = x.entries[l][p]
    <3>1. p \in 0 .. x.ctx - 1 /\ p # x.position
      BY <1>1, <1>3
    <3> QED
      BY <1>6, <2>1, <3>1
  <2>3. ASSUME NEW l \in 1 .. Len(t)
        PROVE  new \in after.slots[l][x.position] /\ after.slots[l][x.position] \subseteq whole
    <3>1. CASE l = e
      BY <1>6, <2>1, <3>1
    <3>2. CASE l # e
      <4>1. l \in 1 .. Len(s) /\ l \in 1 .. x.layers
        BY <1>1, <1>2, <1>3, <3>2
      <4>2. after.slots[l][x.position] = state.slots[l][x.position]
        BY <1>3, <1>6, <3>2, <4>1
      <4> QED
        BY <2>1, <4>1, <4>2
    <3> QED
      BY <3>1, <3>2
  <2>4. /\ whole = K!Whole(x.text) \cup {new}
        /\ \A k : k \in K!Whole(x.text) <=>
             \E p \in 0 .. Len(x.text) - 1 : k = <<p, x.text[p + 1]>>
    <3>1. /\ whole = K!Whole(x.text) \cup {<<Len(x.text), x.token>>}
          /\ \A k : k \in K!Whole(x.text) <=>
               \E p \in 0 .. Len(x.text) - 1 : k = <<p, x.text[p + 1]>>
      BY <1>1, WholeText
    <3> QED
      BY <1>7, <3>1, Zenon DEF Prefixed
  <2>5. ASSUME NEW p \in 0 .. x.position - 1
        PROVE  /\ <<p, x.text[p + 1]>> \in after.slots[e][p]
               /\ after.slots[e][p] \subseteq whole
    <3>1. /\ <<p, x.text[p + 1]>> \in x.entries[e][p]
          /\ x.entries[e][p] \subseteq K!Whole(x.text)
      BY <1>3, <1>7 DEF Prefixed, Filled
    <3> QED
      BY <1>3, <2>2, <2>4, <3>1
  <2>6. new \in after.slots[e][x.position] /\ after.slots[e][x.position] \subseteq whole
    BY <1>6, <2>1
  <2>7. \A p \in 0 .. x.position : p = x.position \/ p \in 0 .. x.position - 1
    BY <1>1
  <2>8. \A p \in 0 .. x.position - 1 : p \in 0 .. x.position
    BY <1>1
  <2>9. x.position \in 0 .. x.position
    BY <1>1
  <2> HIDE DEF new, whole
  <2>10. after.hidden \subseteq whole
    <3>1. \A p \in 0 .. x.position : after.slots[e][p] \subseteq whole
      BY <2>5, <2>6, <2>7
    <3> QED
      BY <1>6, <3>1
  <2>11. whole \subseteq after.hidden
    <3>1. new \in after.hidden
      BY <1>6, <2>6, <2>9
    <3>2. ASSUME NEW k \in K!Whole(x.text) PROVE k \in after.hidden
      <4>1. PICK p \in 0 .. x.position - 1 : k = <<p, x.text[p + 1]>>
        BY <1>7, <2>4, <3>2 DEF Prefixed
      <4> QED
        BY <1>6, <2>5, <2>8, <4>1
    <3> QED
      BY <2>4, <3>1, <3>2
  <2>12. after.hidden = whole /\ new \in after.hidden
    BY <2>4, <2>10, <2>11
  <2> QED
    BY <2>2, <2>3, <2>12
<1> QED
  BY <1>6, <1>7 DEF StateTyped, SeesAll

\* One pass over the cache keeps its shape, and with the text before in it the
\* logits are computed from that text and the token, which the cache then holds.
LEMMA ForwardSeesAll ==
  ASSUME NEW layers \in Nat \ {0}, NEW ctx \in Nat, NEW entries \in Entries(layers, ctx),
         NEW position \in 0 .. ctx - 1, NEW token \in Nat, NEW text \in Seq(Nat),
         NEW after, after = K!Forward(entries, position, token)
  PROVE  /\ after.slots \in Entries(layers, ctx)
         /\ Len(text) = position /\ Filled(entries, layers, text) =>
              /\ after.hidden = K!Whole(Append(text, token))
              /\ Filled(after.slots, layers, Append(text, token))
<1>1. PICK x : x = [entries |-> entries, layers |-> layers, ctx |-> ctx,
                    position |-> position, token |-> token, text |-> text]
  OBVIOUS
<1>2. x \in Pass
  <2>1. entries \in UNION {Entries(n, m) : n \in Nat, m \in Nat}
    OBVIOUS
  <2> QED
    BY <1>1, <2>1 DEF Pass
<1>3. /\ x.entries = entries /\ x.layers = layers /\ x.ctx = ctx
      /\ x.position = position /\ x.token = token /\ x.text = text
  BY <1>1
<1>4. PICK list : list = [l \in DOMAIN entries |-> l]
  OBVIOUS
<1>5. DOMAIN entries = 1 .. layers
  BY DEF Entries
<1>6. /\ list \in Seq(Nat) /\ Len(list) = layers /\ \A i \in DOMAIN list : list[i] = i
  BY <1>4, <1>5
<1>7. after = Passing!Fold(x, list)
  BY <1>3, <1>4 DEF K!Forward, K!FoldLeft, K!MapThenFoldSet, K!Max, Passing!Fold, Passing!FoldLeft,
       Passing!MapThenFoldSet, Passing!Max, Embedded, ThroughLayer
<1>8. Through(x, <<>>, Embedded(x))
  <2>1. /\ Embedded(x) = [slots |-> entries, hidden |-> {<<position, token>>}]
        /\ Embedded(x).slots = entries /\ Embedded(x).hidden = {<<position, token>>}
    BY <1>3 DEF Embedded
  <2>2. position \in Nat /\ {<<position, token>>} \in SUBSET Pair
    BY DEF Pair
  <2>3. Len(text) = position => {<<position, token>>} \subseteq K!Whole(Append(text, token))
    BY WholeText
  <2>4. Len(<<>>) = 0 /\ 1 .. 0 = {}
    OBVIOUS
  <2> QED
    BY <1>3, <2>1, <2>2, <2>3, <2>4 DEF Through, StateTyped, SeesAll, InOrder, Prefixed
<1>9. \A s \in Seq(Nat) : Through(x, s, Passing!Fold(x, s))
  BY <1>2, <1>8, LayerKeeps, Passing!FoldInduction
<1>10. Through(x, list, after)
  BY <1>6, <1>7, <1>9
<1>11. /\ after.slots \in Entries(layers, ctx)
       /\ Len(text) = position /\ Filled(entries, layers, text) =>
           /\ after.hidden = K!Whole(Append(text, token))
           /\ \A l \in 1 .. layers : \A p \in 0 .. position - 1 :
                after.slots[l][p] = entries[l][p]
           /\ \A l \in 1 .. layers :
                /\ <<position, token>> \in after.slots[l][position]
                /\ after.slots[l][position] \subseteq K!Whole(Append(text, token))
  <2>1. InOrder(x, list)
    BY <1>3, <1>6 DEF InOrder
  <2>2. StateTyped(x, after) /\ (Prefixed(x) => SeesAll(x, list, after))
    BY <1>10, <2>1 DEF Through
  <2>3. after.slots \in Entries(layers, ctx)
    BY <1>3, <2>2 DEF StateTyped
  <2>4. ASSUME Len(text) = position, Filled(entries, layers, text)
        PROVE  /\ after.hidden = K!Whole(Append(text, token))
               /\ \A l \in 1 .. layers : \A p \in 0 .. position - 1 :
                    after.slots[l][p] = entries[l][p]
               /\ \A l \in 1 .. layers :
                    /\ <<position, token>> \in after.slots[l][position]
                    /\ after.slots[l][position] \subseteq K!Whole(Append(text, token))
    <3>1. SeesAll(x, list, after) /\ Len(list) = layers /\ layers > 0
      BY <1>3, <1>6, <2>2, <2>4 DEF Prefixed
    <3>2. /\ after.hidden = K!Whole(Append(x.text, x.token))
          /\ \A l \in 1 .. x.layers : \A p \in 0 .. x.position - 1 :
               after.slots[l][p] = x.entries[l][p]
          /\ \A l \in 1 .. layers :
               /\ <<x.position, x.token>> \in after.slots[l][x.position]
               /\ after.slots[l][x.position] \subseteq K!Whole(Append(x.text, x.token))
      BY <3>1 DEF SeesAll
    <3> QED
      BY <1>3, <3>2, Zenon
  <2> QED
    BY <2>3, <2>4
<1>12. ASSUME Len(text) = position, Filled(entries, layers, text)
       PROVE  Filled(after.slots, layers, Append(text, token))
  <2>1. PICK all : all = Append(text, token)
    OBVIOUS
  <2>2. /\ Len(all) = position + 1 /\ all[position + 1] = token
        /\ \A p \in 0 .. position - 1 : all[p + 1] = text[p + 1]
    BY <1>12, <2>1
  <2>3. K!Whole(text) \subseteq K!Whole(all)
    BY <2>1, WholeText
  <2>4. ASSUME NEW l \in 1 .. layers, NEW p \in 0 .. Len(all) - 1
        PROVE  <<p, all[p + 1]>> \in after.slots[l][p] /\ after.slots[l][p] \subseteq K!Whole(all)
    <3>1. CASE p = position
      BY <1>11, <1>12, <2>1, <2>2, <3>1
    <3>2. CASE p # position
      <4>1. p \in 0 .. position - 1 /\ p \in 0 .. Len(text) - 1
        BY <1>12, <2>2, <3>2
      <4>2. <<p, text[p + 1]>> \in entries[l][p] /\ entries[l][p] \subseteq K!Whole(text)
        BY <1>12, <4>1 DEF Filled
      <4>3. after.slots[l][p] = entries[l][p] /\ all[p + 1] = text[p + 1]
        BY <1>11, <1>12, <2>2, <4>1
      <4> QED
        BY <2>3, <4>2, <4>3
    <3> QED
      BY <3>1, <3>2
  <2> QED
    BY <2>1, <2>4 DEF Filled
<1> QED
  BY <1>11, <1>12

-----------------------------------------------------------------------------
(* NiyahMini's cache outlives the calls.  While there is one it has the    *)
(* shape of the model; during a call it holds what was put out so far.     *)

CacheShaped ==
  cache # <<>> =>
    /\ M!Valid(mini.config)
    /\ cache \in Entries(mini.config.n_layers, mini.config.n_ctx)

\* A call that runs has a valid model, and room for the prompt
CallTyped ==
  /\ step \in {"idle", "prompt", "generate"}
  /\ step # "idle" =>
       /\ M!Valid(mini.config)
       /\ ids \in Seq(Nat) /\ Len(ids) <= mini.config.n_ctx
       /\ task \in [prompt : Seq(Nat), n_prompt : Nat, max_tokens : Nat, next : Nat]
       /\ task.n_prompt = Len(task.prompt)
       /\ step = "prompt" => Len(ids) < task.n_prompt

\* The cache holds the text so far, whatever calls before left in it
CallSeen ==
  step # "idle" =>
    /\ cacheLength = Len(ids) /\ context = K!Whole(ids)
    /\ ids # <<>> => cache # <<>> /\ Filled(cache, mini.config.n_layers, ids)

ContextInv == BlockInv /\ CacheShaped /\ CallTyped /\ CallSeen

\* NiyahMini computes with the same cache.
LEMMA SamePass ==
  /\ \A entries, position, token :
       /\ M!Forward(entries, position, token) = K!Forward(entries, position, token)
       /\ I!Forward(entries, position, token) = K!Forward(entries, position, token)
  /\ \A text : M!Whole(text) = K!Whole(text) /\ I!Whole(text) = K!Whole(text)
  /\ \A layers, ctx : /\ M!Fresh(layers, ctx) = K!Fresh(layers, ctx)
                      /\ I!Fresh(layers, ctx) = K!Fresh(layers, ctx)
BY DEF M!Forward, I!Forward, K!Forward, M!FoldLeft, I!FoldLeft, K!FoldLeft,
       M!MapThenFoldSet, I!MapThenFoldSet, K!MapThenFoldSet, M!Max, I!Max, K!Max,
       M!Layer, I!Layer, K!Layer, M!Attended, I!Attended, K!Attended,
       M!Whole, I!Whole, K!Whole, M!Fresh, I!Fresh, K!Fresh

LEMMA FreshEntries ==
  ASSUME NEW layers \in Nat, NEW ctx \in Nat
  PROVE  K!Fresh(layers, ctx) \in Entries(layers, ctx)
BY DEF K!Fresh, Entries

\* A cache with a layer is allocated.
LEMMA EntriesThere ==
  ASSUME NEW layers \in Nat \ {0}, NEW ctx \in Nat, NEW entries \in Entries(layers, ctx)
  PROVE  entries # <<>>
<1>1. DOMAIN entries = 1 .. layers /\ 1 \in 1 .. layers
  BY DEF Entries
<1>2. DOMAIN <<>> = {}
  OBVIOUS
<1> QED
  BY <1>1, <1>2

\* Fields of a configuration that NiyahMini accepts.
LEMMA ValidFields ==
  ASSUME M!MiniAssumption, NEW c \in M!Configuration, M!Valid(c)
  PROVE  /\ c.n_layers \in Nat \ {0} /\ c.n_ctx \in Nat \ {0} /\ c.n_vocab \in Nat \ {0}
BY DEF M!Valid, M!Configuration, M!MiniAssumption

\* One pass of a call puts the token into the text, the cache and the context.
LEMMA PassSeen ==
  ASSUME M!MiniAssumption, ContextInv, step # "idle",
         NEW token, M!ForwardToken(token, Len(ids)), mini' = mini, ids' = Append(ids, token)
  PROVE  /\ token \in Nat /\ ids' \in Seq(Nat) /\ Len(ids') = Len(ids) + 1
         /\ Len(ids') <= mini.config.n_ctx
         /\ cache' \in Entries(mini.config.n_layers, mini.config.n_ctx) /\ cache' # <<>>
         /\ cacheLength' = Len(ids') /\ context' = K!Whole(ids')
         /\ Filled(cache', mini.config.n_layers, ids')
<1> DEFINE layers == mini.config.n_layers
           ctx == mini.config.n_ctx
<1>1. /\ mini.config \in M!Configuration /\ M!Valid(mini.config)
      /\ ids \in Seq(Nat) /\ cacheLength = Len(ids)
      /\ cache # <<>> => cache \in Entries(layers, ctx)
      /\ ids # <<>> => cache # <<>> /\ Filled(cache, layers, ids)
  BY DEF ContextInv, BlockInv, MiniTyped, CacheShaped, CallTyped, CallSeen
<1>2. layers \in Nat \ {0} /\ ctx \in Nat \ {0} /\ mini.config.n_vocab \in Nat \ {0}
  BY <1>1, ValidFields
<1>3. token \in Nat /\ Len(ids) < ctx /\ Len(ids) \in 0 .. ctx - 1
  BY <1>1, <1>2 DEF M!ForwardToken, M!InModel
<1>4. PICK entries : entries = M!Slots
  OBVIOUS
<1>5. entries \in Entries(layers, ctx)
  BY <1>1, <1>2, <1>4, SamePass, FreshEntries DEF M!Slots
<1>6. Filled(entries, layers, ids)
  <2>1. CASE ids = <<>>
    <3>1. Len(ids) = 0
      BY <2>1
    <3> QED
      BY <3>1 DEF Filled
  <2>2. CASE ids # <<>>
    BY <1>1, <1>4, <2>2 DEF M!Slots
  <2> QED
    BY <2>1, <2>2
<1>7. PICK after : after = K!Forward(entries, Len(ids), token)
  OBVIOUS
<1>8. cache' = after.slots /\ context' = after.hidden
  BY <1>4, <1>7, SamePass DEF M!ForwardToken
<1> HIDE DEF layers, ctx
<1>9. /\ after.slots \in Entries(layers, ctx)
      /\ after.hidden = K!Whole(Append(ids, token))
      /\ Filled(after.slots, layers, Append(ids, token))
  BY <1>1, <1>2, <1>3, <1>5, <1>6, <1>7, ForwardSeesAll
<1>10. Append(ids, token) \in Seq(Nat) /\ Len(Append(ids, token)) = Len(ids) + 1
  BY <1>1, <1>3
<1>11. cacheLength' = Len(ids) + 1
  BY <1>1 DEF M!ForwardToken
<1>12. cache' # <<>>
  BY <1>2, <1>8, <1>9, EntriesThere
<1> QED
  BY <1>2, <1>3, <1>8, <1>9, <1>10, <1>11, <1>12 DEF layers, ctx

\* M!GetLogits as a loop over the places of a sequence
Reading == [sequence : Seq(Nat), layers : Nat \ {0}, ctx : Nat]
FreshCache(x) == M!Fresh(x.layers, x.ctx)
ReadToken(x, entries, i) == M!Forward(entries, i - 1, x.sequence[i]).slots
KeepsShape(x, s, entries) ==
  (\A k \in DOMAIN s : s[k] \in 1 .. Len(x.sequence)) /\ Len(x.sequence) <= x.ctx =>
    entries \in Entries(x.layers, x.ctx)
Resetting == INSTANCE FoldTheorems
  WITH T <- Nat, Base <- FreshCache, Op <- ReadToken, P <- KeepsShape

LEMMA ReadKeeps ==
  ASSUME NEW x \in Reading, NEW s \in Seq(Nat), NEW e \in Nat, NEW entries, KeepsShape(x, s, entries)
  PROVE  KeepsShape(x, Append(s, e), ReadToken(x, entries, e))
<1> SUFFICES ASSUME NEW t, t = Append(s, e), \A k \in DOMAIN t : t[k] \in 1 .. Len(x.sequence),
                    Len(x.sequence) <= x.ctx
             PROVE  ReadToken(x, entries, e) \in Entries(x.layers, x.ctx)
  BY DEF KeepsShape
<1>1. /\ DOMAIN s = 1 .. Len(s) /\ Len(s) \in Nat /\ DOMAIN t = 1 .. Len(s) + 1
      /\ t[Len(s) + 1] = e /\ \A k \in 1 .. Len(s) : t[k] = s[k]
  OBVIOUS
<1>2. e \in 1 .. Len(x.sequence) /\ \A k \in DOMAIN s : s[k] \in 1 .. Len(x.sequence)
  <2>1. Len(s) + 1 \in DOMAIN t /\ \A k \in 1 .. Len(s) : k \in DOMAIN t
    BY <1>1
  <2> QED
    BY <1>1, <2>1
<1>3. entries \in Entries(x.layers, x.ctx)
  BY <1>2 DEF KeepsShape
<1>4. /\ x.sequence \in Seq(Nat) /\ x.layers \in Nat \ {0} /\ x.ctx \in Nat
  BY DEF Reading
<1>5. e - 1 \in 0 .. x.ctx - 1 /\ x.sequence[e] \in Nat
  BY <1>2, <1>4
<1>6. PICK after : after = K!Forward(entries, e - 1, x.sequence[e])
  OBVIOUS
<1>7. after.slots \in Entries(x.layers, x.ctx)
  <2>1. PICK layers \in Nat \ {0}, ctx \in Nat : layers = x.layers /\ ctx = x.ctx
    BY <1>4
  <2>2. PICK position, token : position = e - 1 /\ token = x.sequence[e]
    OBVIOUS
  <2>3. /\ entries \in Entries(layers, ctx) /\ position \in 0 .. ctx - 1 /\ token \in Nat
        /\ after = K!Forward(entries, position, token) /\ <<>> \in Seq(Nat)
    BY <1>3, <1>5, <1>6, <2>1, <2>2
  <2>4. after.slots \in Entries(layers, ctx)
    BY <2>3, ForwardSeesAll
  <2> QED
    BY <2>1, <2>4
<1> QED
  BY <1>6, <1>7, SamePass DEF ReadToken

\* The logits of a sequence are computed over a cache of the model's shape.
LEMMA GetLogitsShaped ==
  ASSUME M!MiniAssumption, BlockInv, NEW sequence \in MiniPrompts, M!GetLogits(sequence)
  PROVE  M!Valid(mini.config) /\ cache' \in Entries(mini.config.n_layers, mini.config.n_ctx)
<1>1. /\ mini.config \in M!Configuration /\ M!Valid(mini.config) /\ sequence \in Seq(Nat)
      /\ Len(sequence) <= mini.config.n_ctx
  BY DEF BlockInv, MiniTyped, M!GetLogits, M!MiniAssumption
<1>2. mini.config.n_layers \in Nat \ {0} /\ mini.config.n_ctx \in Nat \ {0}
  BY <1>1, ValidFields
<1>3. PICK bad : bad = {i \in 1 .. Len(sequence) : ~M!InModel(sequence[i], 0)}
  OBVIOUS
<1>4. PICK good : good = (IF bad # {} THEN M!Min(bad) ELSE 0) - 1
  OBVIOUS
<1>5. PICK passed : passed = IF good < 0 THEN Len(sequence) ELSE good
  OBVIOUS
<1>6. passed \in Nat /\ passed <= Len(sequence)
  <2>1. Len(sequence) \in Nat
    BY <1>1
  <2>2. bad # {} => M!Min(bad) \in 1 .. Len(sequence)
    <3>1. bad \in SUBSET Nat /\ bad \subseteq 1 .. Len(sequence)
      BY <1>3, <2>1
    <3> QED
      BY <3>1, Passing!SmallestOf DEF M!Min
  <2> QED
    BY <1>4, <1>5, <2>1, <2>2
<1>7. PICK x : x = [sequence |-> sequence, layers |-> mini.config.n_layers,
                    ctx |-> mini.config.n_ctx]
  OBVIOUS
<1>8. /\ x \in Reading /\ x.sequence = sequence
      /\ x.layers = mini.config.n_layers /\ x.ctx = mini.config.n_ctx
  BY <1>1, <1>2, <1>7 DEF Reading
<1>9. PICK list : list = [i \in 1 .. passed |-> i]
  OBVIOUS
<1>10. cache' = Resetting!Fold(x, list)
  <2>1. cache' = M!FoldLeft(LAMBDA entries, i : M!Forward(entries, i - 1, sequence[i]).slots,
                            M!Fresh(x.layers, x.ctx), list)
    BY <1>3, <1>4, <1>5, <1>8, <1>9, Zenon DEF M!GetLogits, M!SelectInSeq
  <2>2. Resetting!Fold(x, list)
          = M!FoldLeft(LAMBDA entries, i : M!Forward(entries, i - 1, sequence[i]).slots,
                       M!Fresh(x.layers, x.ctx), list)
    BY <1>8 DEF M!FoldLeft, M!MapThenFoldSet, M!Max, Resetting!Fold, Resetting!FoldLeft,
           Resetting!MapThenFoldSet, Resetting!Max, FreshCache, ReadToken
  <2> QED
    BY <2>1, <2>2
<1>11. KeepsShape(x, <<>>, FreshCache(x))
  BY <1>2, <1>8, FreshEntries, SamePass DEF KeepsShape, FreshCache
<1>12. \A s \in Seq(Nat) : KeepsShape(x, s, Resetting!Fold(x, s))
  BY <1>8, <1>11, ReadKeeps, Resetting!FoldInduction
<1>13. list \in Seq(Nat) /\ \A k \in DOMAIN list : list[k] \in 1 .. Len(sequence)
  BY <1>1, <1>6, <1>9
<1> QED
  BY <1>1, <1>8, <1>10, <1>12, <1>13 DEF KeepsShape

\* NiyahMini's cache and calls, beside what BlockInvariant says of its blocks.
LEMMA ContextInvariant == Spec => [](part = "mini" => ContextInv)
<1> USE Assumptions DEF Assumptions
<1> DEFINE CallInv == CacheShaped /\ CallTyped /\ CallSeen
<1>1. Init => (part = "mini" => CallInv)
  BY DEF Init, M!Init, CacheShaped, CallTyped, CallSeen
<1>2. /\ part = "mini" => BlockInv /\ CallInv
      /\ (part = "mini" => BlockInv)' /\ [Next]_vars
      => (part = "mini" => CallInv)'
  <2> SUFFICES ASSUME part = "mini", BlockInv, CallInv, BlockInv', M!Next \/ UNCHANGED mVars
               PROVE  CallInv'
    BY ModelSteps
  <2>0. /\ mini.config \in M!Configuration /\ M!MiniAssumption /\ ContextInv
        /\ step # "idle" => /\ ids \in Seq(Nat) /\ M!Valid(mini.config)
                            /\ mini.config.n_layers \in Nat \ {0}
                            /\ mini.config.n_ctx \in Nat \ {0}
    BY ValidFields DEF BlockInv, MiniTyped, CallTyped, ContextInv
  <2>1. ASSUME step' = "idle", CacheShaped' PROVE CallInv'
    BY <2>1 DEF CallTyped, CallSeen
  <2>2. ASSUME step = "idle", step' = step, cache' = <<>> PROVE CallInv'
    BY <2>1, <2>2 DEF CacheShaped
  <2>3. ASSUME cache' = cache, mini' = mini PROVE CacheShaped'
    BY <2>3 DEF CacheShaped, M!Valid
  <2>slots. ASSUME mini' = mini, cache' = M!Slots, step # "idle" PROVE CacheShaped'
    <3>1. cache' \in Entries(mini.config.n_layers, mini.config.n_ctx)
      BY <2>0, <2>slots, FreshEntries, SamePass DEF M!Slots, CacheShaped
    <3> QED
      BY <2>0, <2>slots, <3>1 DEF CacheShaped, M!Valid
  <2>4. ASSUME NEW c \in MiniConfigs,
               M!WrappedInit(c) \/ M!LoadFails(c) \/ \E size \in FileSizes : M!WrappedLoad(c, size)
        PROVE  CallInv'
    BY <2>1, <2>2, <2>3, <2>4
       DEF M!WrappedInit, M!LoadFails, M!WrappedLoad, M!callVars
  <2>5. ASSUME M!WrappedFree PROVE CallInv'
    BY <2>2, <2>5 DEF M!WrappedFree, M!callVars
  <2>6. ASSUME NEW p \in MiniPrompts, M!GetLogits(p) PROVE CallInv'
    <3>1. /\ M!Valid(mini.config) /\ cache' \in Entries(mini.config.n_layers, mini.config.n_ctx)
          /\ mini' = mini /\ step = "idle" /\ step' = step
      <4>1. mini' = mini /\ step = "idle" /\ step' = step
        BY <2>6 DEF M!GetLogits, M!callVars
      <4> QED
        BY <2>0, <2>6, <4>1, GetLogitsShaped
    <3>2. CacheShaped'
      BY <3>1 DEF CacheShaped, M!Valid
    <3> QED
      BY <2>1, <3>1, <3>2
  <2>7. ASSUME NEW p \in MiniPrompts, M!GenerateRefused(p) PROVE CallInv'
    BY <2>1, <2>3, <2>7 DEF M!GenerateRefused, M!Return
  <2>8. ASSUME NEW p \in MiniPrompts, NEW n \in 0 .. MaxNew, M!Generate(p, n) PROVE CallInv'
    <3>1. /\ M!Valid(mini.config) /\ mini' = mini /\ ids' = <<>> /\ context' = {}
          /\ cacheLength' = 0 /\ cache' = M!ResetCache /\ Len(p) <= mini.config.n_ctx
          /\ step' = IF p = <<>> THEN "generate" ELSE "prompt"
          /\ task' = [prompt |-> p, n_prompt |-> Len(p), max_tokens |-> n, next |-> M!BOS]
      BY <2>8 DEF M!Generate
    <3>2. p \in Seq(Nat) /\ (p # <<>> => 0 < Len(p))
      BY <2>0 DEF M!MiniAssumption
    <3>3. mini.config.n_layers \in Nat \ {0} /\ mini.config.n_ctx \in Nat \ {0}
      BY <2>0, <3>1, ValidFields
    <3>4. CacheShaped'
      <4>1. cache' # <<>> => cache' \in Entries(mini.config.n_layers, mini.config.n_ctx)
        BY <3>1, <3>3, FreshEntries, SamePass DEF M!ResetCache
      <4> QED
        BY <3>1, <4>1 DEF CacheShaped, M!Valid
    <3>5. CallTyped'
      BY <3>1, <3>2, <3>3 DEF CallTyped, M!BOS, M!Valid
    <3>6. CallSeen'
      <4>1. K!Whole(<<>>) = {}
        BY DEF K!Whole
      <4> QED
        BY <3>1, <4>1 DEF CallSeen
    <3> QED
      BY <3>4, <3>5, <3>6
  <2>9. ASSUME M!Prompt PROVE CallInv'
    <3>1. PICK token : token = task.prompt[Len(ids) + 1]
      OBVIOUS
    <3>2. /\ step = "prompt" /\ M!ForwardToken(token, Len(ids)) /\ ids' = Append(ids, token)
          /\ mini' = mini
          /\ IF Len(ids') < task.n_prompt THEN UNCHANGED <<step, task>>
             ELSE /\ step' = "generate"
                  /\ \E next \in 0 .. mini.config.n_vocab - 1 : task' = [task EXCEPT !.next = next]
      BY <2>9, <3>1 DEF M!Prompt
    <3>3. /\ ids' \in Seq(Nat) /\ Len(ids') <= mini.config.n_ctx
          /\ cache' \in Entries(mini.config.n_layers, mini.config.n_ctx) /\ cache' # <<>>
          /\ cacheLength' = Len(ids') /\ context' = K!Whole(ids')
          /\ Filled(cache', mini.config.n_layers, ids')
      BY <2>0, <3>2, PassSeen
    <3>4. CacheShaped' /\ CallSeen'
      BY <2>0, <3>2, <3>3 DEF CacheShaped, CallSeen, M!Valid
    <3>5. CallTyped'
      <4>1. step' \in {"prompt", "generate"} /\ (step' = "prompt" => Len(ids') < task'.n_prompt)
        BY <3>2
      <4>2. /\ task' \in [prompt : Seq(Nat), n_prompt : Nat, max_tokens : Nat, next : Nat]
            /\ task'.n_prompt = Len(task'.prompt)
        <5>1. /\ task \in [prompt : Seq(Nat), n_prompt : Nat, max_tokens : Nat, next : Nat]
              /\ task.n_prompt = Len(task.prompt)
          BY <3>2 DEF CallTyped
        <5>2. CASE task' = task
          BY <5>1, <5>2
        <5>3. ASSUME NEW next \in 0 .. mini.config.n_vocab - 1, task' = [task EXCEPT !.next = next]
              PROVE  task'.prompt = task.prompt /\ task'.n_prompt = task.n_prompt
                     /\ task' \in [prompt : Seq(Nat), n_prompt : Nat, max_tokens : Nat, next : Nat]
          BY <5>1, <5>3
        <5> QED
          BY <3>2, <5>1, <5>2, <5>3
      <4> QED
        BY <2>0, <3>2, <3>3, <4>1, <4>2 DEF CallTyped, M!Valid
    <3> QED
      BY <3>4, <3>5
  <2>10. ASSUME M!PromptFails PROVE CallInv'
    <3>1. /\ step' = "idle" /\ mini' = mini /\ (cache' = cache \/ cache' = M!Slots)
          /\ step = "prompt"
      BY <2>10 DEF M!PromptFails, M!ForwardFails, M!Return
    <3> QED
      BY <2>0, <2>1, <2>3, <2>slots, <3>1
  <2>11. ASSUME M!GenerateEnds PROVE CallInv'
    <3>1. /\ step' = "idle" /\ mini' = mini /\ (cache' = cache \/ cache' = M!Slots)
          /\ step = "generate"
      BY <2>11 DEF M!GenerateEnds, M!ForwardFails, M!Return
    <3> QED
      BY <2>0, <2>1, <2>3, <2>slots, <3>1
  <2>12. ASSUME M!GenerateToken PROVE CallInv'
    <3>1. PICK next \in 0 .. mini.config.n_vocab - 1 : task' = [task EXCEPT !.next = next]
      BY <2>12 DEF M!GenerateToken
    <3>2. /\ step = "generate" /\ step' = step /\ M!ForwardToken(task.next, Len(ids))
          /\ ids' = Append(ids, task.next) /\ mini' = mini
      BY <2>12 DEF M!GenerateToken
    <3>3. /\ ids' \in Seq(Nat) /\ Len(ids') <= mini.config.n_ctx
          /\ cache' \in Entries(mini.config.n_layers, mini.config.n_ctx) /\ cache' # <<>>
          /\ cacheLength' = Len(ids') /\ context' = K!Whole(ids')
          /\ Filled(cache', mini.config.n_layers, ids')
      BY <2>0, <3>2, PassSeen
    <3>4. CacheShaped' /\ CallSeen'
      BY <2>0, <3>2, <3>3 DEF CacheShaped, CallSeen, M!Valid
    <3>5. /\ task' \in [prompt : Seq(Nat), n_prompt : Nat, max_tokens : Nat, next : Nat]
          /\ task'.n_prompt = Len(task'.prompt)
      <4>1. /\ task \in [prompt : Seq(Nat), n_prompt : Nat, max_tokens : Nat, next : Nat]
            /\ task.n_prompt = Len(task.prompt)
        BY <3>2 DEF CallTyped
      <4> QED
        BY <3>1, <4>1
    <3>6. CallTyped'
      BY <2>0, <3>2, <3>3, <3>5 DEF CallTyped, M!Valid
    <3> QED
      BY <3>4, <3>6
  <2>13. ASSUME NEW empty \in BOOLEAN, NEW tokenizer \in BOOLEAN,
                M!WrappedGenerate(empty, tokenizer)
         PROVE  CallInv'
    BY <2>1, <2>3, <2>13 DEF M!WrappedGenerate, M!modelVars
  <2>14. ASSUME UNCHANGED mVars PROVE CallInv'
    BY <2>3, <2>14 DEF mVars, CallTyped, CallSeen, M!Valid
  <2> QED
    BY <2>4, <2>5, <2>6, <2>7, <2>8, <2>9, <2>10, <2>11, <2>12, <2>13, <2>14 DEF M!Next
<1> QED
  BY <1>1, <1>2, BlockInvariant, PTL DEF Spec, ContextInv

-----------------------------------------------------------------------------
(* The tokenizer reads a text from left to right: its recursion is on the  *)
(* place, and each token reaches further.                                  *)

\* Entries and texts are sequences
Spelled(entries, text) ==
  /\ \E symbols : entries \in Seq(Seq(symbols))
  /\ text \in Seq(Byte)

\* One of the longest entries that go on reaches further, within the text.
LEMMA BestReaches ==
  ASSUME NEW entries, NEW text, Spelled(entries, text), NEW pos \in 1 .. Len(text),
         I!Matches(entries, text, pos) # {},
         NEW i, i = I!BestMatch(entries, text, pos)
  PROVE  /\ i \in I!Matches(entries, text, pos) /\ i \in 1 .. Len(entries)
         /\ pos + Len(entries[i]) \in pos + 1 .. Len(text) + 1
<1>1. PICK symbols : entries \in Seq(Seq(symbols))
  BY DEF Spelled
<1>2. PICK all : all = I!Matches(entries, text, pos)
  OBVIOUS
<1>3. /\ all \subseteq 1 .. Len(entries) /\ Len(entries) \in Nat /\ Len(text) \in Nat
      /\ DOMAIN entries = 1 .. Len(entries)
  BY <1>1, <1>2 DEF I!Matches, Spelled
<1>4. \A k \in all : Len(entries[k]) \in Nat /\ Len(entries[k]) > 0
                     /\ Len(entries[k]) <= Len(text) - pos + 1
  <2>1. ASSUME NEW k \in all PROVE /\ entries[k] \in Seq(symbols) /\ entries[k] # <<>>
                                   /\ Len(entries[k]) <= Len(SubSeq(text, pos, Len(text)))
    BY <1>1, <1>2, <1>3 DEF I!Matches, I!IsPrefix
  <2>2. Len(SubSeq(text, pos, Len(text))) = Len(text) - pos + 1
    BY <1>3 DEF Spelled
  <2> QED
    BY <1>3, <2>1, <2>2
<1>5. PICK short \in all : \A k \in all : Len(text) - Len(entries[short]) <= Len(text) - Len(entries[k])
  <2> DEFINE Left == {Len(text) - Len(entries[k]) : k \in all}
  <2>1. Left \in SUBSET Nat /\ Left # {}
    BY <1>2, <1>3, <1>4
  <2>2. \E m \in Left : \A k \in Left : m <= k
    <3> HIDE DEF Left
    <3> QED
      BY <2>1, Passing!SmallestOf
  <2> QED
    BY <2>2
<1>6. PICK longest : longest = {k \in all : \A j \in all : Len(entries[k]) >= Len(entries[j])}
  OBVIOUS
<1>7. longest \in SUBSET Nat /\ longest # {} /\ longest \subseteq all
  <2>1. ASSUME NEW k \in all PROVE Len(entries[short]) >= Len(entries[k])
    <3>1. PICK a \in Nat, b \in Nat, c \in Nat :
            a = Len(text) /\ b = Len(entries[short]) /\ c = Len(entries[k])
      BY <1>3, <1>4
    <3>2. a - b <= a - c
      BY <1>5, <3>1
    <3> QED
      BY <3>1, <3>2
  <2>2. short \in longest
    BY <1>6, <2>1
  <2>3. \A k \in 1 .. Len(entries) : k \in Nat
    BY <1>3
  <2> QED
    BY <1>3, <1>6, <2>2, <2>3
<1>8. I!BestMatch(entries, text, pos) = CHOOSE x \in longest : \A y \in longest : x <= y
  BY <1>2, <1>6 DEF I!BestMatch, I!Min0
<1>9. i \in all
  BY <1>7, <1>8, Passing!SmallestOf
<1>10. Len(entries[i]) \in Nat /\ Len(entries[i]) > 0 /\ Len(entries[i]) <= Len(text) - pos + 1
  BY <1>4, <1>9
<1> QED
  BY <1>2, <1>3, <1>9, <1>10

\* An identifier of an entry is its index, from 0.
LEMMA LookupIs ==
  ASSUME NEW entries, NEW symbols, entries \in Seq(Seq(symbols)), NEW piece
  PROVE  I!Lookup(entries, piece) = I!None \/ I!Lookup(entries, piece) \in Nat
<1>1. PICK found : found = {i \in DOMAIN entries : entries[i] = piece}
  OBVIOUS
<1>2. found \subseteq 1 .. Len(entries) /\ Len(entries) \in Nat
  BY <1>1
<1>3. CASE found = {}
  BY <1>1, <1>3 DEF I!Lookup
<1>4. CASE found # {}
  <2>1. found \in SUBSET Nat
    BY <1>2
  <2>2. I!Min0(found) \in found
    BY <1>4, <2>1, Passing!SmallestOf DEF I!Min0
  <2>3. I!Min0(found) - 1 \in Nat
    <3>1. PICK m \in 1 .. Len(entries) : m = I!Min0(found)
      BY <1>2, <2>2
    <3> QED
      BY <1>2, <3>1
  <2>4. I!Lookup(entries, piece) = I!Min0(found) - 1
    BY <1>1, <1>4 DEF I!Lookup
  <2> QED
    BY <2>3, <2>4
<1> QED
  BY <1>3, <1>4

\* The fallback of a byte is an identifier, or none.
LEMMA FallbackIs ==
  ASSUME I!ByteAssumption, NEW entries, NEW symbols, entries \in Seq(Seq(symbols)), NEW b \in Byte
  PROVE  I!Fallback(entries, b) = I!None \/ I!Fallback(entries, b) \in Nat
<1>1. Code[b] \in Nat
  <2>1. PICK value \in 1 .. 255 : value = Code[b]
    BY DEF I!ByteAssumption
  <2>2. value \in Nat
    OBVIOUS
  <2> QED
    BY <2>1, <2>2
<1>2. \A piece : I!Lookup(entries, piece) = I!None \/ I!Lookup(entries, piece) \in Nat
  BY LookupIs
<1> QED
  BY <1>1, <1>2 DEF I!Fallback

-----------------------------------------------------------------------------

\* The tokens from a place on, given those from the places after it
TokensOn(entries, text, from, pos) ==
  IF pos > Len(text) THEN <<>>
  ELSE IF I!Matches(entries, text, pos) # {}
  THEN <<I!BestMatch(entries, text, pos) - 1>>
         \o from[pos + Len(entries[I!BestMatch(entries, text, pos)])]
  ELSE (IF I!Fallback(entries, text[pos]) = I!None THEN <<>>
        ELSE <<I!Fallback(entries, text[pos])>>) \o from[pos + 1]

\* They only depend on places further on, and are identifiers if those are.
LEMMA TokensOnward ==
  ASSUME I!ByteAssumption, NEW entries, NEW text, Spelled(entries, text),
         NEW pos \in 1 .. Len(text) + 1, NEW f,
         \A p \in pos + 1 .. Len(text) + 1 : f[p] \in Seq(Nat)
  PROVE  /\ TokensOn(entries, text, f, pos) \in Seq(Nat)
         /\ \A g : (\A p \in pos + 1 .. Len(text) + 1 : g[p] = f[p]) =>
              TokensOn(entries, text, g, pos) = TokensOn(entries, text, f, pos)
<1>1. Len(text) \in Nat /\ (pos <= Len(text) => text[pos] \in Byte)
  BY DEF Spelled
<1>2. CASE pos > Len(text)
  BY <1>2 DEF TokensOn
<1>3. CASE ~(pos > Len(text)) /\ I!Matches(entries, text, pos) # {}
  <2>1. pos \in 1 .. Len(text)
    BY <1>1, <1>3
  <2>2. PICK i : i = I!BestMatch(entries, text, pos)
    OBVIOUS
  <2>3. i \in 1 .. Len(entries) /\ pos + Len(entries[i]) \in pos + 1 .. Len(text) + 1
    BY <1>3, <2>1, <2>2, BestReaches
  <2>4. \A g : TokensOn(entries, text, g, pos) = <<i - 1>> \o g[pos + Len(entries[i])]
    BY <1>3, <2>2 DEF TokensOn
  <2>5. <<i - 1>> \in Seq(Nat)
    BY <2>3
  <2>6. f[pos + Len(entries[i])] \in Seq(Nat)
    BY <2>3
  <2>7. <<i - 1>> \o f[pos + Len(entries[i])] \in Seq(Nat)
    BY <2>5, <2>6
  <2> QED
    BY <2>3, <2>4, <2>7
<1>4. CASE ~(pos > Len(text)) /\ I!Matches(entries, text, pos) = {}
  <2>1. pos \in 1 .. Len(text) /\ text[pos] \in Byte /\ pos + 1 \in pos + 1 .. Len(text) + 1
    BY <1>1, <1>4
  <2>2. PICK id : id = I!Fallback(entries, text[pos])
    OBVIOUS
  <2>3. PICK one : one = IF id = I!None THEN <<>> ELSE <<id>>
    OBVIOUS
  <2>4. \A g : TokensOn(entries, text, g, pos) = one \o g[pos + 1]
    BY <1>4, <2>2, <2>3 DEF TokensOn
  <2>5. one \in Seq(Nat)
    <3>1. id = I!None \/ id \in Nat
      BY <2>1, <2>2, FallbackIs DEF Spelled
    <3>2. CASE id = I!None
      BY <2>3, <3>2
    <3>3. CASE id \in Nat /\ id # I!None
      BY <2>3, <3>3
    <3> QED
      BY <3>1, <3>2, <3>3
  <2>6. one \o f[pos + 1] \in Seq(Nat)
    BY <2>1, <2>5
  <2> QED
    BY <2>1, <2>4, <2>6
<1> QED
  BY <1>2, <1>3, <1>4

\* The recursion of the tokenizer is one that a function satisfies, and its
\* tokens are identifiers.
LEMMA TokensUnfold ==
  ASSUME I!ByteAssumption, NEW entries, NEW text, Spelled(entries, text)
  PROVE  \E f : /\ I!TokensFrom(entries, text) = f[1]
                /\ \A pos \in 1 .. Len(text) + 1 :
                     f[pos] \in Seq(Nat) /\ f[pos] = TokensOn(entries, text, f, pos)
<1> DEFINE Places(n) == Len(text) + 1 - n .. Len(text) + 1
           Good == {n \in Nat : n <= Len(text) =>
                     \E f : \A pos \in Places(n) :
                       f[pos] \in Seq(Nat) /\ f[pos] = TokensOn(entries, text, f, pos)}
<1>1. Len(text) \in Nat
  BY DEF Spelled
<1>2. 0 \in Good
  <2> DEFINE f == [pos \in 1 .. Len(text) + 1 |-> <<>>]
  <2>1. TokensOn(entries, text, f, Len(text) + 1) = <<>>
    BY <1>1 DEF TokensOn
  <2>2. Len(text) + 1 \in 1 .. Len(text) + 1 /\ \A pos \in Places(0) : pos = Len(text) + 1
    BY <1>1
  <2>3. f[Len(text) + 1] = <<>> /\ <<>> \in Seq(Nat)
    BY <2>2
  <2> HIDE DEF f
  <2> QED
    BY <2>1, <2>2, <2>3
<1>3. ASSUME NEW n \in Nat, n \in Good PROVE n + 1 \in Good
  <2> SUFFICES ASSUME n + 1 <= Len(text)
               PROVE  \E g : \A pos \in Places(n + 1) :
                        g[pos] \in Seq(Nat) /\ g[pos] = TokensOn(entries, text, g, pos)
    OBVIOUS
  <2>1. PICK f : \A pos \in Places(n) :
                   f[pos] \in Seq(Nat) /\ f[pos] = TokensOn(entries, text, f, pos)
    BY <1>1, <1>3
  <2>2. PICK next : next = Len(text) - n /\ next \in 1 .. Len(text)
    BY <1>1
  <2> DEFINE g == [pos \in 1 .. Len(text) + 1 |->
                    IF pos = next THEN TokensOn(entries, text, f, next) ELSE f[pos]]
  <2>3. /\ \A pos \in Places(n + 1) : pos = next \/ pos \in Places(n)
        /\ \A pos \in Places(n) : pos # next /\ pos \in 1 .. Len(text) + 1
                                  /\ pos + 1 .. Len(text) + 1 \subseteq Places(n)
        /\ next + 1 .. Len(text) + 1 \subseteq Places(n) /\ next \in 1 .. Len(text) + 1
    BY <1>1, <2>2
  <2>4. /\ \A pos \in Places(n) : g[pos] = f[pos]
        /\ g[next] = TokensOn(entries, text, f, next)
    BY <2>3
  <2> HIDE DEF g, Places
  <2>5. ASSUME NEW pos \in 1 .. Len(text) + 1, pos + 1 .. Len(text) + 1 \subseteq Places(n)
        PROVE  /\ TokensOn(entries, text, f, pos) \in Seq(Nat)
               /\ TokensOn(entries, text, g, pos) = TokensOn(entries, text, f, pos)
    <3>1. \A p \in pos + 1 .. Len(text) + 1 : f[p] \in Seq(Nat) /\ g[p] = f[p]
      BY <2>1, <2>4, <2>5
    <3> QED
      BY <3>1, TokensOnward
  <2>6. ASSUME NEW pos \in Places(n + 1)
        PROVE  g[pos] \in Seq(Nat) /\ g[pos] = TokensOn(entries, text, g, pos)
    <3>1. CASE pos = next
      BY <2>3, <2>4, <2>5, <3>1
    <3>2. CASE pos \in Places(n)
      BY <2>1, <2>3, <2>4, <2>5, <3>2
    <3> QED
      BY <2>3, <3>1, <3>2
  <2> QED
    BY <2>6
<1> HIDE DEF Good
<1>4. Len(text) \in Good
  BY <1>1, <1>2, <1>3, Passing!EveryNumber
<1>5. PICK f : \A pos \in 1 .. Len(text) + 1 :
                 f[pos] \in Seq(Nat) /\ f[pos] = TokensOn(entries, text, f, pos)
  <2>1. Places(Len(text)) = 1 .. Len(text) + 1
    BY <1>1
  <2> HIDE DEF Places
  <2> QED
    BY <1>1, <1>4, <2>1 DEF Good
<1>6. PICK chosen : chosen = CHOOSE g : g = [pos \in 1 .. Len(text) + 1 |->
                                           TokensOn(entries, text, g, pos)]
  OBVIOUS
<1>7. chosen = [pos \in 1 .. Len(text) + 1 |-> TokensOn(entries, text, chosen, pos)]
  <2>1. PICK g : g = [pos \in 1 .. Len(text) + 1 |-> f[pos]]
    OBVIOUS
  <2>2. ASSUME NEW pos \in 1 .. Len(text) + 1
        PROVE  TokensOn(entries, text, g, pos) = f[pos]
    <3>1. \A p \in pos + 1 .. Len(text) + 1 : p \in 1 .. Len(text) + 1
      BY <1>1
    <3>2. \A p \in pos + 1 .. Len(text) + 1 : f[p] \in Seq(Nat) /\ g[p] = f[p]
      BY <1>5, <2>1, <3>1
    <3>3. TokensOn(entries, text, g, pos) = TokensOn(entries, text, f, pos)
      BY <3>2, TokensOnward
    <3> QED
      BY <1>5, <3>3
  <2>3. g = [pos \in 1 .. Len(text) + 1 |-> TokensOn(entries, text, g, pos)]
    BY <2>1, <2>2, Zenon
  <2> QED
    BY <1>6, <2>3
<1>8. I!TokensFrom(entries, text) = chosen[1]
  BY <1>6 DEF I!TokensFrom, TokensOn
<1>9. \A pos \in 1 .. Len(text) + 1 : chosen[pos] \in Seq(Nat)
  <2> DEFINE Typed == {n \in Nat : n <= Len(text) =>
                         \A pos \in Places(n) : chosen[pos] \in Seq(Nat)}
  <2>1. 0 \in Typed
    <3>1. \A pos \in Places(0) : pos = Len(text) + 1 /\ pos \in 1 .. Len(text) + 1
      BY <1>1
    <3>2. chosen[Len(text) + 1] = TokensOn(entries, text, chosen, Len(text) + 1)
      BY <1>1, <1>7
    <3>3. TokensOn(entries, text, chosen, Len(text) + 1) = <<>>
      BY <1>1 DEF TokensOn
    <3>4. <<>> \in Seq(Nat)
      OBVIOUS
    <3> HIDE DEF Places
    <3> QED
      BY <3>1, <3>2, <3>3, <3>4
  <2>2. ASSUME NEW n \in Nat, n \in Typed PROVE n + 1 \in Typed
    <3> SUFFICES ASSUME n + 1 <= Len(text), NEW pos \in Places(n + 1)
                 PROVE  chosen[pos] \in Seq(Nat)
      OBVIOUS
    <3>1. /\ pos \in Places(n) \/ pos = Len(text) - n
          /\ pos \in 1 .. Len(text) + 1
          /\ \A p \in pos + 1 .. Len(text) + 1 : p \in Places(n)
      BY <1>1
    <3>2. \A p \in Places(n) : chosen[p] \in Seq(Nat)
      BY <1>1, <2>2
    <3> HIDE DEF Places
    <3>3. TokensOn(entries, text, chosen, pos) \in Seq(Nat)
      BY <3>1, <3>2, TokensOnward
    <3> QED
      BY <1>7, <3>1, <3>3
  <2> HIDE DEF Typed
  <2>3. Len(text) \in Typed
    BY <1>1, <2>1, <2>2, Passing!EveryNumber
  <2>4. Places(Len(text)) = 1 .. Len(text) + 1
    BY <1>1
  <2> HIDE DEF Places
  <2> QED
    BY <1>1, <2>3, <2>4 DEF Typed
<1> QED
  BY <1>7, <1>8, <1>9

\* What a text is tokenized to.
LEMMA TokenizeIs ==
  ASSUME I!ByteAssumption, NEW entries, NEW text, Spelled(entries, text), NEW max \in Nat
  PROVE  /\ I!Tokenize(entries, text, max) \in Seq(Nat)
         /\ Len(I!Tokenize(entries, text, max)) <= max
<1>1. PICK all : all = I!TokensFrom(entries, text)
  OBVIOUS
<1>2. all \in Seq(Nat)
  <2>1. 1 \in 1 .. Len(text) + 1
    BY DEF Spelled
  <2> QED
    BY <1>1, <2>1, TokensUnfold
<1>3. PICK m \in Nat : m = (IF Len(all) < max THEN Len(all) ELSE max) /\ m <= Len(all) /\ m <= max
  BY <1>2
<1>4. SubSeq(all, 1, m) \in Seq(Nat) /\ Len(SubSeq(all, 1, m)) = m
  BY <1>2, <1>3
<1> QED
  BY <1>1, <1>3, <1>4 DEF I!Tokenize

-----------------------------------------------------------------------------
(* Text generation.  The cache of a call holds the tokens before the next  *)
(* position, whatever the sampler picked.                                  *)

F == INSTANCE ModelFile

LEMMA SameMaps == \A c, floats : I!Maps(c, floats) <=> F!Maps(c, floats)
<1>1. \A c : I!Normalize(c) = F!Normalize(c)
  BY DEF I!Normalize, F!Normalize
<1>2. \A c : I!Shaped(c) <=> F!Shaped(c)
  BY DEF I!Shaped, F!Shaped
<1>3. \A c : I!Embedding(c) = F!Embedding(c) /\ I!LayerFloats(c) = F!LayerFloats(c)
  BY DEF I!Embedding, F!Embedding, I!LayerFloats, F!LayerFloats, I!KvDim, F!KvDim
<1>4. \A c : I!ExpectedFloats(c) = F!ExpectedFloats(c)
  BY <1>1, <1>2, <1>3, Zenon DEF I!ExpectedFloats, F!ExpectedFloats
<1> QED
  BY <1>1, <1>2, <1>3, <1>4, Zenon DEF I!Maps, F!Maps

\* Weights that are there have a shape
ModelKept ==
  /\ model \in [config : I!ModelConfig, floats : Int]
  /\ model.floats # 0 => I!Shaped(model.config)
  /\ vocab \in Vocabularies \cup {<<>>}

\* The call that runs
CallKept ==
  /\ pc \in {"idle", "prefill", "decode"}
  /\ pc # "idle" =>
       /\ model.floats # 0
       /\ tokens \in Seq(Nat) /\ Len(tokens) <= I!Config.n_ctx
       /\ call \in [n_prompt : Nat, position : Nat, max_tokens : Nat]
       /\ slots \in Entries(I!Config.n_layer, I!Config.n_ctx)
       /\ pc = "prefill" => call.position < call.n_prompt /\ call.n_prompt = Len(tokens)

\* The tokens that passed
Read == IF pc = "prefill" THEN SubSeq(tokens, 1, call.position) ELSE tokens

\* What they left: the cache and its length, and once one passed, a blob that fits
ReadSeen ==
  pc # "idle" =>
    /\ length = Len(Read) /\ Filled(slots, I!Config.n_layer, Read)
    /\ pc = "decode" => seen = K!Whole(tokens) /\ F!Maps(I!Config, model.floats)

GenerationInv == ModelKept /\ CallKept /\ ReadSeen

\* A configuration that was read has integer fields.
LEMMA ConfigsTyped ==
  ASSUME I!InferenceAssumption PROVE I!Configs \subseteq I!ModelConfig
<1>1. ASSUME NEW file \in ConfigFiles PROVE I!Parsed(file) \in I!ModelConfig
  <2>1. \A key : I!Value(file, key) \in Int
    BY DEF I!Value, I!InferenceAssumption
  <2> QED
    BY <2>1 DEF I!Parsed, I!ModelConfig
<1> QED
  BY <1>1 DEF I!Configs, I!InferenceAssumption

\* A blob is kept with a configuration that has a shape.
LEMMA LoadedShaped ==
  ASSUME NEW c \in I!ModelConfig, NEW bytes \in Nat, NEW kept \in I!LoadedConfigs(c, bytes)
  PROVE  kept \in I!ModelConfig /\ I!Shaped(kept)
<1>1. PICK n : n = I!Normalize(c)
  OBVIOUS
<1>2. n \in I!ModelConfig
  BY <1>1, NormalizedFields
<1>3. I!Shaped(n)
  BY <1>1 DEF I!LoadedConfigs, I!ExpectedFloats
<1>4. \E tied \in BOOLEAN : kept = [n EXCEPT !.tie_word_embeddings = tied]
  BY <1>1 DEF I!LoadedConfigs
<1>5. PICK tied \in BOOLEAN : kept = [n EXCEPT !.tie_word_embeddings = tied]
  BY <1>4
<1>6. kept \in I!ModelConfig
  BY <1>2, <1>5 DEF I!ModelConfig
<1>7. /\ kept.n_embd = n.n_embd /\ kept.n_head = n.n_head
      /\ kept.n_layer = n.n_layer /\ kept.n_vocab = n.n_vocab
  BY <1>2, <1>5 DEF I!ModelConfig
<1> QED
  BY <1>3, <1>6, <1>7 DEF I!Shaped

\* The configuration that a call works with.
LEMMA ConfigFields ==
  ASSUME ModelKept, model.floats # 0
  PROVE  /\ I!Config \in I!ModelConfig /\ I!Config.n_layer \in Nat \ {0}
         /\ I!Config.n_ctx \in Nat \ {0} /\ I!Config.n_vocab \in Nat
<1>1. model.config \in I!ModelConfig /\ I!Shaped(model.config)
  BY DEF ModelKept
<1>2. /\ model.config.n_layer \in Int /\ model.config.n_layer > 0
      /\ model.config.n_vocab \in Int /\ model.config.n_vocab > 0 /\ model.config.n_ctx \in Int
  BY <1>1 DEF I!Shaped, I!ModelConfig
<1>3. PICK n : n = I!Normalize(model.config)
  OBVIOUS
<1>4. /\ n \in I!ModelConfig /\ n.n_layer = model.config.n_layer
      /\ n.n_vocab = model.config.n_vocab
      /\ n.n_ctx = IF model.config.n_ctx <= 0 THEN 2048 ELSE model.config.n_ctx
  BY <1>1, <1>3, NormalizedFields
<1> QED
  BY <1>2, <1>3, <1>4 DEF I!Config

\* The prompt of a call.
LEMMA PromptIs ==
  ASSUME I!ByteAssumption, I!InferenceAssumption, ModelKept, model.floats # 0,
         NEW text \in Prompts
  PROVE  /\ I!PromptTokens(text) \in Seq(Nat)
         /\ Len(I!PromptTokens(text)) <= I!Config.n_ctx
<1>1. I!Config.n_ctx \in Nat \ {0} /\ I!Config \in I!ModelConfig
  BY ConfigFields
<1>2. Spelled(vocab, text)
  <2>1. vocab \in Seq(Seq(I!Symbols))
    <3>1. \A symbols : <<>> \in Seq(symbols)
      OBVIOUS
    <3>2. vocab = <<>> \/ vocab \in Seq(Seq(I!Symbols))
      BY Zenon DEF ModelKept, I!InferenceAssumption
    <3> QED
      BY <3>1, <3>2
  <2> QED
    BY <2>1 DEF Spelled, I!InferenceAssumption
<1>3. PICK list : list = I!Tokenize(vocab, text, I!Config.n_ctx)
  OBVIOUS
<1>4. list \in Seq(Nat) /\ Len(list) <= I!Config.n_ctx
  BY <1>1, <1>2, <1>3, TokenizeIs
<1>5. PICK bos \in Int : bos = I!Config.bos_token_id
  BY <1>1 DEF I!ModelConfig
<1>6. I!PromptTokens(text) = IF list = <<>> /\ bos > 0 /\ bos < I!Config.n_vocab
                             THEN <<bos>> ELSE list
  BY <1>3, <1>5 DEF I!PromptTokens
<1>7. CASE list = <<>> /\ bos > 0 /\ bos < I!Config.n_vocab
  <2>1. <<bos>> \in Seq(Nat) /\ Len(<<bos>>) = 1
    BY <1>7
  <2> QED
    BY <1>1, <1>6, <1>7, <2>1
<1>8. CASE ~(list = <<>> /\ bos > 0 /\ bos < I!Config.n_vocab)
  BY <1>4, <1>6, <1>8
<1> QED
  BY <1>7, <1>8

\* One pass of a call that is behind all tokens before.
LEMMA ForwardSeen ==
  ASSUME ModelKept, model.floats # 0, NEW text \in Seq(Nat), NEW token,
         slots \in Entries(I!Config.n_layer, I!Config.n_ctx),
         length = Len(text), Filled(slots, I!Config.n_layer, text),
         I!ForwardToken(token, Len(text))
  PROVE  LET all == Append(text, token)
         IN  /\ token \in Nat /\ all \in Seq(Nat) /\ Len(all) = Len(text) + 1
             /\ Len(all) <= I!Config.n_ctx
             /\ slots' \in Entries(I!Config.n_layer, I!Config.n_ctx)
             /\ Filled(slots', I!Config.n_layer, all)
             /\ length' = Len(all) /\ seen' = K!Whole(all)
             /\ F!Maps(I!Config, model.floats)
<1>1. PICK layers \in Nat \ {0}, ctx \in Nat \ {0} :
        layers = I!Config.n_layer /\ ctx = I!Config.n_ctx
  BY ConfigFields
<1>2. /\ token \in Nat /\ F!Maps(I!Config, model.floats) /\ ~(Len(text) >= ctx)
  <2>1. I!Refused(token, Len(text)) = "ok"
    BY DEF I!ForwardToken
  <2>2. I!Config.n_vocab \in Nat
    BY ConfigFields
  <2>3. token \in 0 .. I!Config.n_vocab - 1 /\ F!Maps(I!Config, model.floats)
        /\ ~(Len(text) >= ctx)
    BY <1>1, <2>1, SameMaps, Zenon DEF I!Refused
  <2> QED
    BY <2>2, <2>3
<1>3. PICK position : position = Len(text)
  OBVIOUS
<1>4. position \in 0 .. ctx - 1 /\ position \in Nat
  BY <1>2, <1>3
<1>5. PICK after : after = K!Forward(slots, position, token)
  OBVIOUS
<1>6. PICK entries : entries = slots
  OBVIOUS
<1>7. /\ entries \in Entries(layers, ctx) /\ after = K!Forward(entries, position, token)
      /\ Len(text) = position /\ Filled(entries, layers, text)
  BY <1>1, <1>3, <1>5, <1>6
<1>8. /\ after.slots \in Entries(layers, ctx) /\ after.hidden = K!Whole(Append(text, token))
      /\ Filled(after.slots, layers, Append(text, token))
  BY <1>2, <1>4, <1>7, ForwardSeesAll
<1>9. /\ slots' = after.slots /\ seen' = after.hidden
      /\ length' = IF length < position + 1 THEN position + 1 ELSE length
  BY <1>3, <1>5, SamePass DEF I!ForwardToken
<1>10. /\ Append(text, token) \in Seq(Nat) /\ Len(Append(text, token)) = position + 1
       /\ position + 1 <= ctx /\ length' = position + 1
  BY <1>2, <1>3, <1>4, <1>9
<1> QED
  BY <1>1, <1>2, <1>3, <1>8, <1>9, <1>10

LEMMA GenerationInvariant == Spec => [](part = "generation" => GenerationInv)
<1> USE Assumptions DEF Assumptions
<1>1. Init => (part = "generation" => GenerationInv)
  <2>1. I!Parsed(<<>>) \in I!ModelConfig
    <3>1. \A key : I!Value(<<>>, key) = 0
      BY DEF I!Value
    <3> QED
      BY <3>1 DEF I!Parsed, I!ModelConfig
  <2> QED
    BY <2>1 DEF Init, I!Init, I!NoModel, GenerationInv, ModelKept, CallKept, ReadSeen
<1>2. (part = "generation" => GenerationInv) /\ [Next]_vars
        => (part = "generation" => GenerationInv)'
  <2> SUFFICES ASSUME part = "generation", GenerationInv, I!Next \/ UNCHANGED iVars
               PROVE  GenerationInv'
    BY ModelSteps
  <2>0. ModelKept /\ CallKept /\ ReadSeen
    BY DEF GenerationInv
  <2>1. ASSUME UNCHANGED <<model, vocab>> PROVE ModelKept'
    BY <2>0, <2>1 DEF ModelKept, I!Shaped
  <2>same. ASSUME model' = model PROVE I!Config' = I!Config
    BY <2>same DEF I!Config, I!Normalize
  <2>2. ASSUME pc' = "idle", ModelKept' PROVE GenerationInv'
    BY <2>2 DEF GenerationInv, CallKept, ReadSeen
  <2>3. ASSUME NEW result, I!Return(result) PROVE GenerationInv'
    BY <2>1, <2>2, <2>3 DEF I!Return
  <2>4. ASSUME NEW bytes \in BlobSizes, I!LoadModel(bytes) PROVE GenerationInv'
    <3>1. PICK c \in I!Configs : \E kept \in I!LoadedConfigs(c, bytes) :
            model' = [config |-> kept, floats |-> bytes \div FloatSize]
      BY <2>4 DEF I!LoadModel
    <3>2. PICK kept \in I!LoadedConfigs(c, bytes) :
            model' = [config |-> kept, floats |-> bytes \div FloatSize]
      BY <3>1
    <3>3. c \in I!ModelConfig /\ bytes \in Nat
      BY ConfigsTyped DEF I!InferenceAssumption
    <3>4. kept \in I!ModelConfig /\ I!Shaped(kept) /\ bytes \div FloatSize \in Int
      <4>1. bytes \div FloatSize \in Int
        BY <3>3 DEF I!FloatAssumption
      <4> QED
        BY <3>2, <3>3, <4>1, LoadedShaped
    <3>5. ModelKept'
      BY <2>0, <2>4, <3>2, <3>4 DEF ModelKept, I!LoadModel, I!Shaped
    <3> QED
      BY <2>2, <2>4, <3>5 DEF I!LoadModel
  <2>5. ASSUME I!FreeModel PROVE GenerationInv'
    <3>1. model' = [model EXCEPT !.floats = 0] /\ vocab' = vocab
      BY <2>5 DEF I!FreeModel
    <3>2. ModelKept'
      BY <2>0, <3>1 DEF ModelKept
    <3> QED
      BY <2>2, <2>5, <3>2 DEF I!FreeModel
  <2>6. ASSUME NEW lines \in Vocabularies, I!LoadVocabulary(lines) PROVE GenerationInv'
    <3>1. ModelKept'
      BY <2>0, <2>6 DEF ModelKept, I!LoadVocabulary, I!Shaped
    <3> QED
      BY <2>2, <2>6, <3>1 DEF I!LoadVocabulary
  <2>7. ASSUME NEW text \in Prompts, I!GenerateRefused(text) PROVE GenerationInv'
    BY <2>3, <2>7 DEF I!GenerateRefused
  <2>8. ASSUME NEW text \in Prompts, NEW n \in 1 .. MaxNewTokens, I!Generate(text, n)
        PROVE  GenerationInv'
    <3>1. /\ model.floats # 0 /\ I!PromptTokens(text) # <<>> /\ pc' = "prefill"
          /\ tokens' = I!PromptTokens(text)
          /\ call' = [n_prompt |-> Len(I!PromptTokens(text)), position |-> 0, max_tokens |-> n]
          /\ slots' = I!Fresh(I!Config.n_layer, I!Config.n_ctx) /\ length' = 0
          /\ model' = model /\ vocab' = vocab
      BY <2>8 DEF I!Generate
    <3>2. PICK prompt : prompt = I!PromptTokens(text)
      OBVIOUS
    <3>3. prompt \in Seq(Nat) /\ Len(prompt) <= I!Config.n_ctx /\ Len(prompt) > 0
      BY <2>0, <3>1, <3>2, PromptIs
    <3>4. slots' \in Entries(I!Config.n_layer, I!Config.n_ctx)
      BY <2>0, <3>1, ConfigFields, FreshEntries, SamePass
    <3>5. I!Config' = I!Config
      BY <3>1 DEF I!Config, I!Normalize
    <3>6. call' \in [n_prompt : Nat, position : Nat, max_tokens : Nat]
          /\ call'.position = 0 /\ call'.n_prompt = Len(prompt)
      BY <3>1, <3>2, <3>3 DEF I!InferenceAssumption
    <3>7. CallKept'
      BY <3>1, <3>2, <3>3, <3>4, <3>5, <3>6 DEF CallKept
    <3>8. ReadSeen'
      <4>1. Read' = <<>> /\ Len(<<>>) = 0
        <5>1. SubSeq(prompt, 1, 0) = <<>>
          BY <3>3
        <5> QED
          BY <3>1, <3>2, <3>6, <5>1 DEF Read
      <4>2. Filled(slots', I!Config'.n_layer, <<>>)
        BY DEF Filled
      <4> QED
        BY <3>1, <4>1, <4>2 DEF ReadSeen
    <3> QED
      BY <2>1, <3>1, <3>7, <3>8 DEF GenerationInv
  <2>9. ASSUME I!PrefillFails \/ I!DecodeEnds PROVE GenerationInv'
    BY <2>3, <2>9 DEF I!PrefillFails, I!DecodeEnds, I!ForwardFails, I!Finish
  <2>10. ASSUME I!Prefill PROVE GenerationInv'
    <3>1. PICK position : position = call.position
      OBVIOUS
    <3>2. PICK token : token = tokens[position + 1]
      OBVIOUS
    <3>3. /\ pc = "prefill" /\ I!ForwardToken(token, position)
          /\ call' = [call EXCEPT !.position = @ + 1]
          /\ pc' = IF position + 1 = call.n_prompt THEN "decode" ELSE pc
          /\ model' = model /\ vocab' = vocab /\ tokens' = tokens
      BY <2>10, <3>1, <3>2 DEF I!Prefill
    <3>4. /\ position \in Nat /\ tokens \in Seq(Nat) /\ position < Len(tokens)
          /\ call.n_prompt = Len(tokens) /\ Len(tokens) <= I!Config.n_ctx /\ model.floats # 0
          /\ call \in [n_prompt : Nat, position : Nat, max_tokens : Nat]
          /\ slots \in Entries(I!Config.n_layer, I!Config.n_ctx)
      BY <2>0, <3>1, <3>3 DEF CallKept
    <3>5. PICK text : text = SubSeq(tokens, 1, position)
      OBVIOUS
    <3>6. /\ text \in Seq(Nat) /\ Len(text) = position
          /\ Append(text, token) = SubSeq(tokens, 1, position + 1)
          /\ (position + 1 = Len(tokens) => Append(text, token) = tokens)
      BY <3>2, <3>4, <3>5
    <3>7. length = Len(text) /\ Filled(slots, I!Config.n_layer, text)
      BY <2>0, <3>1, <3>3, <3>5 DEF ReadSeen, Read
    <3>8. PICK all : all = Append(text, token)
      OBVIOUS
    <3>9. /\ slots' \in Entries(I!Config.n_layer, I!Config.n_ctx)
          /\ Filled(slots', I!Config.n_layer, all)
          /\ length' = Len(all) /\ seen' = K!Whole(all) /\ F!Maps(I!Config, model.floats)
      BY <2>0, <3>3, <3>4, <3>6, <3>7, <3>8, ForwardSeen
    <3>10. I!Config' = I!Config
      BY <2>same, <3>3
    <3>11. call' \in [n_prompt : Nat, position : Nat, max_tokens : Nat]
           /\ call'.position = position + 1 /\ call'.n_prompt = call.n_prompt
      BY <3>1, <3>3, <3>4
    <3>12. CallKept'
      BY <3>3, <3>4, <3>9, <3>10, <3>11 DEF CallKept
    <3>13. Read' = all
      BY <3>3, <3>4, <3>6, <3>8, <3>11 DEF Read
    <3>14. pc' = "decode" => all = tokens'
      BY <3>3, <3>4, <3>6, <3>8
    <3>15. ReadSeen'
      BY <3>3, <3>9, <3>10, <3>13, <3>14 DEF ReadSeen
    <3> QED
      BY <2>1, <3>3, <3>12, <3>15 DEF GenerationInv
  <2>11. ASSUME NEW token \in 0 .. I!Config.n_vocab - 1, I!Decode(token) PROVE GenerationInv'
    <3>1. PICK all : all = Append(tokens, token)
      OBVIOUS
    <3>2. CASE I!Finish(all) \/ I!ForwardFails(token, Len(all) - 1)
      BY <2>3, <3>2 DEF I!Finish, I!ForwardFails
    <3>3. CASE /\ I!ForwardToken(token, Len(all) - 1) /\ tokens' = all
               /\ UNCHANGED <<model, vocab, pc, call, output>>
      <4>1. /\ pc = "decode" /\ tokens \in Seq(Nat) /\ model.floats # 0
            /\ call \in [n_prompt : Nat, position : Nat, max_tokens : Nat]
            /\ slots \in Entries(I!Config.n_layer, I!Config.n_ctx)
        BY <2>0, <2>11 DEF CallKept, I!Decode
      <4>2. length = Len(tokens) /\ Filled(slots, I!Config.n_layer, tokens)
        BY <2>0, <4>1 DEF ReadSeen, Read
      <4>3. Len(all) - 1 = Len(tokens) /\ I!ForwardToken(token, Len(tokens))
        <5>1. token \in Nat
          BY <2>0, <4>1, ConfigFields
        <5>2. Len(all) - 1 = Len(tokens)
          BY <3>1, <4>1, <5>1
        <5> QED
          BY <3>3, <5>2
      <4>4. /\ all \in Seq(Nat) /\ Len(all) <= I!Config.n_ctx
            /\ slots' \in Entries(I!Config.n_layer, I!Config.n_ctx)
            /\ Filled(slots', I!Config.n_layer, all)
            /\ length' = Len(all) /\ seen' = K!Whole(all) /\ F!Maps(I!Config, model.floats)
        BY <2>0, <3>1, <4>1, <4>2, <4>3, ForwardSeen
      <4>5. I!Config' = I!Config
        BY <2>same, <3>3
      <4>6. CallKept'
        BY <3>3, <4>1, <4>4, <4>5 DEF CallKept
      <4>7. ReadSeen'
        <5>1. Read' = all /\ pc' = "decode" /\ tokens' = all /\ model' = model
          BY <3>3, <4>1 DEF Read
        <5> QED
          BY <4>4, <4>5, <5>1 DEF ReadSeen
      <4> QED
        BY <2>1, <3>3, <4>6, <4>7 DEF GenerationInv
    <3> QED
      BY <2>11, <3>1, <3>2, <3>3 DEF I!Decode
  <2>12. ASSUME UNCHANGED iVars PROVE GenerationInv'
    <3>1. I!Config' = I!Config
      BY <2>12, <2>same DEF iVars
    <3>2. CallKept'
      BY <2>0, <2>12, <3>1 DEF CallKept, iVars
    <3>3. ReadSeen'
      BY <2>0, <2>12, <3>1 DEF ReadSeen, Read, iVars
    <3> QED
      BY <2>1, <2>12, <3>2, <3>3 DEF GenerationInv, iVars
  <2> QED
    BY <2>4, <2>5, <2>6, <2>7, <2>8, <2>9, <2>10, <2>11, <2>12 DEF I!Next, I!Continue
<1> QED
  BY <1>1, <1>2, PTL DEF Spec

\* Whenever a token is picked, its logits were computed from exactly the text so
\* far: through every layer, up to the last position of the context, over a
\* cache that an earlier call left or not, and from tensors that lie in the blob
\* one after the other and leave no part of it unread (niyah_llm_generate,
\* niyah_mini_generate, weights_map).
THEOREM LogitsAreSound == Spec => []LogitsSound
<1> USE Assumptions DEF Assumptions
<1>1. (part = "generation" => GenerationInv) => (part = "generation" => I!LogitsSound)
  <2> SUFFICES ASSUME GenerationInv, pc = "decode" PROVE I!LogitsSound
    BY DEF I!LogitsSound
  <2>1. /\ tokens \in Seq(Nat) /\ Len(tokens) <= I!Config.n_ctx /\ length = Len(tokens)
        /\ seen = K!Whole(tokens) /\ F!Maps(I!Config, model.floats)
        /\ model.config \in I!ModelConfig /\ I!Shaped(model.config)
    BY DEF GenerationInv, ModelKept, CallKept, ReadSeen, Read
  <2>2. I!Normalize(I!Config) = I!Normalize(model.config)
    BY <2>1, NormalizedOnce DEF I!Config
  <2>3. I!Maps(model.config, model.floats)
    BY <2>1, <2>2, SameMaps, Zenon DEF I!Maps, I!Config
  <2> QED
    BY <2>1, <2>3, TensorsTile, SamePass DEF I!LogitsSound
<1>2. (part = "mini" => ContextInv) => (part = "mini" => M!MiniContextIsPrefix)
  BY SamePass DEF ContextInv, CallSeen, M!MiniContextIsPrefix
<1> QED
  BY <1>1, <1>2, GenerationInvariant, ContextInvariant, PTL DEF LogitsSound

-----------------------------------------------------------------------------
(* The three-valued logic: the connectives answer exactly as much as the   *)
(* known operands decide, and learning more never changes an answer.       *)

Decided == {"false", "true"}

\* The ways to settle what a truth value leaves open
Possible(a) == {x \in Decided : Refines(x, a)}

\* Settling the operands of a connective always makes it true, or always false
Always(v, a, b, Holds(_, _)) ==
  \A x \in Possible(a), y \in Possible(b) : Holds(x, y) <=> (v = "true")

\* The connectives stay among the three values.
LEMMA Closed ==
  ASSUME NEW a \in NiyahTruth, NEW b \in NiyahTruth
  PROVE  /\ Not(a) \in NiyahTruth /\ And(a, b) \in NiyahTruth
         /\ Or(a, b) \in NiyahTruth /\ Implies(a, b) \in NiyahTruth
BY DEF NiyahTruth, Not, And, Or, Implies

\* What is left open by each of the three values.
LEMMA PossibleValues ==
  /\ Possible("true") = {"true"} /\ Possible("false") = {"false"}
  /\ Possible("unknown") = Decided
BY DEF Possible, Refines, Decided

\* A connective answers if and only if every way to settle its operands gives
\* that answer: "UNKNOWN propagates unless the other operand already decides the
\* result" (niyah_truth_and, niyah_truth_or, niyah_truth_implies).
THEOREM ConnectivesAreStrong ==
  ASSUME NEW a \in NiyahTruth, NEW b \in NiyahTruth, NEW v \in Decided
  PROVE  /\ And(a, b) = v <=> Always(v, a, b, LAMBDA x, y : x = "true" /\ y = "true")
         /\ Or(a, b) = v <=> Always(v, a, b, LAMBDA x, y : x = "true" \/ y = "true")
         /\ Implies(a, b) = v <=> Always(v, a, b, LAMBDA x, y : x = "true" => y = "true")
<1>1. a = "true" \/ a = "false" \/ a = "unknown"
  BY DEF NiyahTruth
<1>2. b = "true" \/ b = "false" \/ b = "unknown"
  BY DEF NiyahTruth
<1> USE PossibleValues DEF Not, And, Or, Implies, Always, Decided
<1>3. CASE a = "true"
  BY <1>2, <1>3
<1>4. CASE a = "false"
  BY <1>2, <1>4
<1>5. CASE a = "unknown"
  BY <1>2, <1>5
<1> QED
  BY <1>1, <1>3, <1>4, <1>5

\* Learning more about the operands never takes back or changes an answer.
THEOREM ConnectivesAreMonotone ==
  ASSUME NEW a \in NiyahTruth, NEW b \in NiyahTruth,
         NEW c \in NiyahTruth, NEW d \in NiyahTruth,
         Refines(c, a), Refines(d, b)
  PROVE  /\ Refines(Not(c), Not(a)) /\ Refines(And(c, d), And(a, b))
         /\ Refines(Or(c, d), Or(a, b)) /\ Refines(Implies(c, d), Implies(a, b))
BY DEF NiyahTruth, Refines, Not, And, Or, Implies

\* De Morgan's laws hold with UNKNOWN, too.
THEOREM DeMorgan ==
  ASSUME NEW a \in NiyahTruth, NEW b \in NiyahTruth
  PROVE  /\ Not(And(a, b)) = Or(Not(a), Not(b))
         /\ Not(Or(a, b)) = And(Not(a), Not(b))
BY DEF NiyahTruth, Not, And, Or

=============================================================================
