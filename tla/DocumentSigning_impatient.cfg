\* One document, three users who may post a form twice, two request threads, one failed request.
SPECIFICATION Spec
CONSTANTS
  ann = ann
  bob = bob
  cat = cat
  h1 = h1
  h2 = h2
  NoUser = NoUser
  Platform = Platform
  NoHash = NoHash
  Users <- Everybody
  Docs = {d1}
  Hashes <- OneFile
  Threads = {t1, t2}
  SignersChoices <- ThreePartyChoices
  Patient = FALSE
  LossyOrderer = FALSE
  MaxPosts = 4
  MaxFailures = 1
SYMMETRY ThreadSymmetry
INVARIANTS
  TypeOK
  LedgerIsChained
  HistoryIsTrue
  SignaturesFollowTheList
  PendingRowIsConsistent
  FinalizedIsFullySigned
PROPERTIES
  LogSpec
