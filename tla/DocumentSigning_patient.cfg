\* Two documents over one IDHashtable (of one file or of two), a lossy orderer, patient users.
SPECIFICATION Spec
CONSTANTS
  ann = ann
  bob = bob
  cat = cat
  h1 = h1
  h2 = h2
  NoUser = NoUser
  Platform = Platform
  NoHash = NoHash
  Users <- AnnAndBob
  Docs = {d1, d2}
  Hashes <- TwoFiles
  Threads = {t1, t2}
  SignersChoices <- PresentChoices
  Patient = TRUE
  LossyOrderer = TRUE
  MaxPosts = 4
  MaxFailures = 1
SYMMETRY FullSymmetry
INVARIANTS
  ShownFinalizedIsFinal
  OneEndPerDocument
  HistoryIsTrue
PROPERTIES
  DocumentsOnlyAdvance
