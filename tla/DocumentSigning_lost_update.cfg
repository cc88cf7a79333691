\* Two uploads at the same time: the second save drops the first one's ids.
SPECIFICATION Spec
CONSTANTS
  ann = ann
  bob = bob
  cat = cat
  h1 = h1
  h2 = h2
  NoUser = NoUser
  Platform = Platform
  NoHash = NoHash
  Users <- AnnAndBob
  Docs = {d1, d2}
  Hashes <- TwoFiles
  Threads = {t1, t2}
  SignersChoices <- BobChoices
  Patient = TRUE
  LossyOrderer = FALSE
  MaxPosts = 2
  MaxFailures = 0
INVARIANTS
  OfferedCanBeSigned
