\* Two documents, one request thread; the backoffice saves and restarts in between.
SPECIFICATION SharedSpec
CONSTANTS
  ann = ann
  bob = bob
  h1 = h1
  h2 = h2
  NoUser = NoUser
  Platform = Platform
  NoHash = NoHash
  Users <- AnnAndBob
  Docs = {d1, d2}
  Hashes <- TwoFiles
  Threads = {t1}
  SignersChoices <- PresentChoices
  Patient = TRUE
  LossyOrderer = FALSE
  MaxPosts = 4
  MaxFailures = 1
  MaxSaves = 2
SYMMETRY FullSymmetry
INVARIANTS
  SharedTypeOK
  LoadedCanBeSigned
  EndIsUnderWay
  HistoryIsTrue
  ShownFinalizedIsFinal
