\* Two documents, one request thread: requests do not overlap.
SPECIFICATION FairSpec
CONSTANTS
  ann = ann
  bob = bob
  cat = cat
  h1 = h1
  h2 = h2
  NoUser = NoUser
  Platform = Platform
  NoHash = NoHash
  Users <- AnnAndBob
  Docs = {d1, d2}
  Hashes <- TwoFiles
  Threads = {t1}
  SignersChoices <- BobChoices
  Patient = TRUE
  LossyOrderer = FALSE
  MaxPosts = 5
  MaxFailures = 1
INVARIANTS
  OfferedCanBeSigned
  EndIsUnderWay
PROPERTIES
  EverySignerSigns
  FinalizedUnlessFailed
