---------------------------- MODULE AbstractStore ----------------------------
(***************************************************************************)
(* What the package store promises to `niyah list`, `inspect` and `run`:   *)
(* a set of blobs that only grows, a shelf of manifests each of which is   *)
(* put there, at once, when all its blobs are present, and for each        *)
(* package a chosen version whose manifest is on the shelf.  No staging    *)
(* file, transfer, process or crash appears here.                          *)
(***************************************************************************)
EXTENDS Naturals, Sequences

CONSTANTS Package, Version, Blob, Manifest, NameOf, VersionOf, ArtifactsOf

ASSUME ManifestAssumption ==
  /\ NameOf \in [Manifest -> Package]
  /\ VersionOf \in [Manifest -> Version]
  /\ ArtifactsOf \in [Manifest -> Seq(Blob)]

VARIABLES
  blobs,   \* hashes whose genuine bytes are in the store
  shelf,   \* <<m>> when manifest m is installed for package and version
  chosen   \* <<v>> when `current` of the package names version v

vars == <<blobs, shelf, chosen>>

Init ==
  /\ blobs = {}
  /\ shelf = [k \in Package |-> [v \in Version |-> <<>>]]
  /\ chosen = [k \in Package |-> <<>>]

AddBlob ==
  /\ \E b \in Blob \ blobs : blobs' = blobs \cup {b}
  /\ UNCHANGED <<shelf, chosen>>

InstallEarly ==  \* mutant: the manifest is installed before its blobs
  /\ \E m \in Manifest :
       /\ ArtifactsOf[m] # <<>>
       /\ shelf' = [shelf EXCEPT ![NameOf[m]][VersionOf[m]] = <<m>>]
  /\ UNCHANGED <<blobs, chosen>>

Install ==
  /\ \E m \in Manifest :
       /\ ArtifactsOf[m] # <<>>
       /\ \A n \in 1 .. Len(ArtifactsOf[m]) : ArtifactsOf[m][n] \in blobs
       /\ shelf' = [shelf EXCEPT ![NameOf[m]][VersionOf[m]] = <<m>>]
  /\ UNCHANGED <<blobs, chosen>>

ChooseCollecting ==  \* mutant: blobs of other versions are dropped
  \E k \in Package, v \in Version :
    /\ shelf[k][v] # <<>>
    /\ chosen' = [chosen EXCEPT ![k] = <<v>>]
    /\ blobs' = blobs \cap {ArtifactsOf[shelf[k][v][1]][n] :
                              n \in 1 .. Len(ArtifactsOf[shelf[k][v][1]])}
    /\ UNCHANGED shelf

Choose ==
  /\ \E k \in Package, v \in Version :
       /\ shelf[k][v] # <<>>
       /\ chosen' = [chosen EXCEPT ![k] = <<v>>]
  /\ UNCHANGED <<blobs, shelf>>

Next == AddBlob \/ Install \/ Choose

Spec == Init /\ [][Next]_vars

=============================================================================
