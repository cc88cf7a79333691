\* Two administrators, two owners, three accounts.
SPECIFICATION Spec
CONSTANTS
  Admins = {a1, a2}
  Keys = {k1, k2}
  NoKey = NoKey
  Apps = {p1}
  MaxIds = 3
SYMMETRY Symmetry
INVARIANTS
  TypeOK
  AccountsAsIntended
  BlankRowsFollowRemovals
