SPECIFICATION DirSpec
CONSTANTS
  layer1 = layer1
  image1 = image1
  list = list
  sig1 = sig1
  sig2 = sig2
  sigList = sigList
  t1 = t1
  f1 = f1
  f2 = f2
  f3 = f3
  None = None
  Blobs = {layer1}
  Tags = {t1, f1, f2, f3}
  FallbackTags = {f1, f2, f3}
  Manifests = {image1, list, sig1, sig2, sigList}
  Content <- AllContent
  Pushes <- AllPushes
  DeleteTags = {t1}
  DeleteDigests = {image1}
  Directories <- NewOnly
  Policy <- Strictest
  EmptyRepo = TRUE
  LoadFails = TRUE
  SaveFails = FALSE
INVARIANTS
  Durable
