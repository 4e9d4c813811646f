SPECIFICATION Spec
CONSTANTS
  p1 = p1  p2 = p2  k1 = k1  k2 = k2  v1 = v1  v2 = v2  b1 = b1  b2 = b2
  m1 = m1  m2 = m2  m3 = m3  mOther = mOther
  Proc = {p1, p2}
  Package = {k1}  Pulled = {k1}
  Version = {v2}
  Blob = {b1, b2}
  Manifest = {m2}
  NameOf <- MCNameOf
  VersionOf <- MCVersionOf
  ArtifactsOf <- MCArtifactsOf
  MaxArtifacts = 2
  Chunks = 1
  Absent = Absent  NoFile = NoFile  Orphan = Orphan
INVARIANT RegistersWithBlobs
PROPERTIES InstalledStays BlobsNeverReplaced
SYMMETRY ProcSymmetry
