SPECIFICATION Spec
CONSTANTS
  image = image
  signature = signature
  listed = listed
  empty = empty
  None = None
  Digests <- MCDigests
  Members <- MCMembers
  Answers <- MCAnswers
  Tags = {t1, t2}
INVARIANTS
  TypeOK
  WellFormed
  HistoryTracksTags
PROPERTIES
  TagSpec
SYMMETRY Symmetry
