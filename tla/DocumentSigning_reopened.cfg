\* A form posted twice.
SPECIFICATION Spec
CONSTANTS
  ann = ann
  bob = bob
  cat = cat
  h1 = h1
  h2 = h2
  NoUser = NoUser
  Platform = Platform
  NoHash = NoHash
  Users <- AnnAndBob
  Docs = {d1}
  Hashes <- OneFile
  Threads = {t1, t2}
  SignersChoices <- BobChoices
  Patient = FALSE
  LossyOrderer = FALSE
  MaxPosts = 3
  MaxFailures = 0
PROPERTIES
  FinalizedIsFinal
