SPECIFICATION Spec
CONSTANTS
  h1 = h1
  h2 = h2
  s1 = s1
  s2 = s2
  s3 = s3
  None = None
  Handlers = {h1, h2}
  Sessions = {s1, s2, s3}
  UploadMax = 2
  Expiry = TRUE
SYMMETRY Symmetry
CHECK_DEADLOCK FALSE
INVARIANTS
  NoOrphanFile
  UploadsBounded
PROPERTIES
  FileFinal
