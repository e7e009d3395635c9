SPECIFICATION PagesSpec
CONSTANTS
  layer1 = layer1
  layer2 = layer2
  image1 = image1
  image2 = image2
  list = list
  sig1 = sig1
  sig2 = sig2
  sign = sign
  t1 = t1
  h1 = h1
  h2 = h2
  None = None
  Tags = {t1}
  Blobs = {layer1, layer2}
  Handlers = {h1, h2}
  Manifests = {image1, image2, list, sig1, sig2}
  Content <- AllContent
  Servers <- AllServers
  ArtifactType <- MCArtifactType
  Size <- MCSize
  MaxCached = 2
SYMMETRY Symmetry
INVARIANTS
  TypeOK
  Pullable
  ReferrersAgree
  PagesComplete
PROPERTIES
  GCKeepsTagged
  GCKeepsFresh
  GCIdempotent
