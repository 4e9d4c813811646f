SPECIFICATION RunSpec
CONSTANTS
  k1 = k1  v1 = v1  v2 = v2  b1 = b1  b2 = b2  b3 = b3
  m1 = m1  m2 = m2  m3 = m3  r1 = r1  r2 = r2  t1 = t1
  o1 = o1  o2 = o2  q1 = q1
  Package = {k1}
  Version = {v1, v2}
  Blob = {b1, b2, b3}
  Manifest = {m1, m2, m3}
  NameOf <- MCNameOf
  VersionOf <- MCVersionOf
  ArtifactsOf <- MCArtifactsOf
  BaseOf <- MCBaseOf
  AdapterOf <- MCAdapterOf
  NoRole = NoRole
  Runner = {r1, r2}
  Pid = {1, 2}
  Target = {t1}
  NoTarget = NoTarget
  Prompt = {q1}
  Output = {o1}
  ChildCode = {127}
  Absent = Absent  Partial = Partial  Foreign = Foreign
INVARIANTS RunTypeOK ReceiptsTruthful ChildRunsVerified InstalledStaysRunnable
PROPERTIES ReceiptsPermanent SuccessMeansReceipt
SYMMETRY RunSymmetry
