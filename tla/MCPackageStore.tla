--------------------------- MODULE MCPackageStore ---------------------------
(* Instances of PackageStore for TLC: two packages that share an artifact,  *)
(* two versions, a version published twice, and a manifest of another         *)
(* package, which the name check refuses.                                     *)
EXTENDS PackageStore, TLC

CONSTANTS p1, p2, k1, k2, v1, v2, b1, b2, m1, m2, m3, mOther

\* m3 publishes v1 again, with another artifact
MCNameOf == [m \in Manifest |-> IF m = mOther THEN k2 ELSE k1]
MCVersionOf == [m \in Manifest |-> IF m = m2 THEN v2 ELSE v1]
MCArtifactsOf ==
  [m \in Manifest |-> CASE m = m1 -> <<b1>>
                        [] m = m2 -> <<b1, b2>>
                        [] m = m3 -> <<b2>>
                        [] OTHER -> <<b1>>]

\* Two processes are interchangeable (safety runs only).
ProcSymmetry == Permutations(Proc)

=============================================================================
