---------------------------- MODULE MCPackageRun ----------------------------
(* An instance of PackageRun for TLC: one package in two versions, the     *)
(* second republished without an adapter, and two runs.                    *)
EXTENDS PackageRun, TLC

CONSTANTS k1, v1, v2, b1, b2, b3, m1, m2, m3, r1, r2, t1, o1, o2, q1

MCNameOf      == [m \in Manifest |-> k1]
MCVersionOf   == [m \in Manifest |-> IF m = m1 THEN v1 ELSE v2]
MCArtifactsOf == [m \in Manifest |-> CASE m = m1 -> <<b1, b2>>
                                       [] m = m2 -> <<b1, b3>>
                                       [] OTHER -> <<b3>>]
MCBaseOf      == [m \in Manifest |-> IF m = m3 THEN b3 ELSE b1]
MCAdapterOf   == [m \in Manifest |-> CASE m = m1 -> b2
                                       [] m = m2 -> b3
                                       [] OTHER -> NoRole]

RunSymmetry == Permutations(Runner) \cup Permutations(Output)

=============================================================================
