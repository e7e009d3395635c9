SPECIFICATION Spec
CONSTANTS
  a = a
  b = b
  sha256 = sha256
  sha512 = sha512
  Handlers = {h1, h2}
  Sessions = {s1}
  Want <- MCWant
  Algorithms = {sha256, sha512}
  Source <- MCSource
  MaxSize = 3
  MaxBlobs = 2
  None = None
SYMMETRY Symmetry
INVARIANTS
  StoredIsNamed
  InOrder
PROPERTIES
  CreatedIsStored
