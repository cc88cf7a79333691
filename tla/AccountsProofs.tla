--------------------------- MODULE AccountsProofs ---------------------------
(***************************************************************************)
(* Theorems about Accounts, for any number of administrators, owners,      *)
(* applications and accounts.                                              *)
(***************************************************************************)
EXTENDS Accounts, TLAPS

\* Removed, or never written: no action brings such an id back.
Dead(id) == id < nextId /\ users[id] = NoRow

\* An account was removed while a log-in held a copy of its row, before id was inserted.
BroughtBack(id) ==
  \E gone \in raced : gone < id /\ users[gone] = NoRow

\* How account id may have come to be, or to be copied, as row.
Explained(id, row) ==
  \/ row = intended[id]
  \/ id \in raced
  \/ intended[id] = NoRow /\ BroughtBack(id)

(* Ids are used once, and a row that is gone is meant to be gone. *)
IdsInv ==
  \A id \in Ids :
    /\ id >= nextId => users[id] = NoRow /\ id \notin raced
    /\ users[id] = NoRow => intended[id] = NoRow
    /\ id \in raced /\ intended[id] = NoRow => users[id] = NoRow

(* Log-ins in progress hold copies of explained rows, with their owner's key. *)
CopiesInv ==
  \A k \in Keys : login[k] # Nobody =>
    /\ login[k].userid \in Ids /\ login[k].userid < nextId
    /\ login[k].row.key = k
    /\ Explained(login[k].userid, login[k].row)

AsIntendedInv ==
  /\ IdsInv
  /\ CopiesInv
  /\ \A id \in Ids : Explained(id, users[id])

AfterDead(id) == \E gone \in Ids : gone < id /\ Dead(gone)

(* A row without a certificate, stored or about to be, comes after a dead one. *)
BlankRows == \A id \in Ids : Exists(id) /\ users[id].key = NoKey => AfterDead(id)

BlankEdits ==
  \A a \in Admins : edit[a] # Nobody /\ edit[a].row.key = NoKey => AfterDead(edit[a].userid)

BlankInv == BlankRows /\ BlankEdits

Inv == TypeOK /\ AsIntendedInv /\ BlankInv

----------------------------------------------------------------------------
(* Types *)

LEMMA RowTypes ==
  /\ NoRow \notin Row
  /\ Nobody \notin Entity /\ Nobody \notin NewEntity
  /\ \A e \in Entity : e.userid \in Ids /\ e.row \in Row
  /\ \A e \in NewEntity : e.userid = MaxIds + 1 /\ e.row \in Row
  /\ MaxIds + 1 \notin Ids /\ Nobody.userid \notin Ids
BY MaxIdsIsNatural DEF Row, NoRow, Nobody, Entity, NewEntity, Ids

\* An insertion takes an id never used before.
LEMMA InsertFacts ==
  ASSUME TypeOK, NEW row \in Row, Insert(row)
  PROVE  /\ nextId \in Ids
         /\ users' = [users EXCEPT ![nextId] = row]
         /\ users' \in [Ids -> Row \cup {NoRow}]
         /\ nextId' = nextId + 1 /\ nextId' \in 1..(MaxIds + 1)
BY MaxIdsIsNatural DEF TypeOK, Insert, Ids

LEMMA DecideTypes ==
  ASSUME TypeOK, NEW id \in Ids, NEW row \in Row \cup {NoRow}, Decide(id, row)
  PROVE  /\ intended' \in [Ids -> Row \cup {NoRow}]
         /\ raced' \subseteq Ids
BY DEF TypeOK, Decide

LEMMA TypeInit == Init => TypeOK
BY MaxIdsIsNatural DEF Init, TypeOK, Ids

LEMMA AddNewUserTypes ==
  ASSUME TypeOK, NEW a \in Admins, AddNewUser(a)
  PROVE  TypeOK'
<1>1. PICK row \in [key : Keys, app : Apps] : Insert(row) /\ Decide(nextId, row)
  BY DEF AddNewUser
<1>2. row \in Row
  BY DEF Row
<1>3. nextId \in Ids
  BY <1>1, <1>2, InsertFacts
<1> QED
  BY <1>1, <1>2, <1>3, InsertFacts, DecideTypes DEF TypeOK, AddNewUser

LEMMA EditUserTypes ==
  ASSUME TypeOK, NEW a \in Admins, EditUser(a)
  PROVE  TypeOK'
<1>1. PICK id \in 1..(nextId - 1), app \in Apps, key \in Keys \cup {NoKey} :
        edit' = [edit EXCEPT ![a] =
          IF Exists(id)
            THEN [userid |-> id, row |-> [key |-> IF key = NoKey THEN users[id].key ELSE key,
                                          app |-> app]]
            ELSE [userid |-> MaxIds + 1, row |-> [key |-> key, app |-> app]]]
  BY DEF EditUser
<1>2. id \in Ids
  BY MaxIdsIsNatural DEF TypeOK, Ids
<1>3. Exists(id) => users[id] \in Row /\ users[id].key \in Keys \cup {NoKey}
  BY <1>2 DEF TypeOK, Exists, Row
<1>4. edit'[a] \in Entity \cup NewEntity
  BY <1>1, <1>2, <1>3 DEF TypeOK, Entity, NewEntity, Row
<1> QED
  BY <1>1, <1>4 DEF TypeOK, EditUser, table, history

LEMMA SaveEditTypes ==
  ASSUME TypeOK, NEW a \in Admins, SaveEdit(a)
  PROVE  TypeOK'
<1>1. edit[a] \in Entity \cup NewEntity /\ edit[a].row \in Row
  BY RowTypes DEF SaveEdit, TypeOK
<1>2. edit' \in [Admins -> Entity \cup NewEntity \cup {Nobody}]
  BY DEF SaveEdit, TypeOK
<1>3. UNCHANGED <<login, principal>>
  BY DEF SaveEdit
<1>4. CASE edit[a].userid \in Ids /\ Update(edit[a].userid, edit[a].row)
             /\ Decide(edit[a].userid, edit[a].row)
  BY <1>1, <1>2, <1>3, <1>4, DecideTypes DEF TypeOK, Update
<1>5. CASE Insert(edit[a].row) /\ Decide(nextId, edit[a].row)
  BY <1>1, <1>2, <1>3, <1>5, InsertFacts, DecideTypes DEF TypeOK
<1>6. CASE UNCHANGED <<table, history>>
  BY <1>2, <1>3, <1>6 DEF TypeOK, table, history
<1> QED
  BY <1>4, <1>5, <1>6 DEF SaveEdit

LEMMA DeleteUserTypes ==
  ASSUME TypeOK, NEW a \in Admins, DeleteUser(a)
  PROVE  TypeOK'
<1>1. PICK id \in 1..(nextId - 1) : Exists(id) /\ Update(id, NoRow) /\ Decide(id, NoRow)
  BY DEF DeleteUser
<1>2. id \in Ids
  BY MaxIdsIsNatural DEF TypeOK, Ids
<1> QED
  BY <1>1, <1>2, DecideTypes DEF TypeOK, Update, DeleteUser

LEMMA BrowseTypes ==
  ASSUME TypeOK, NEW k \in Keys, Browse(k)
  PROVE  TypeOK'
<1>1. CASE Authenticate(k)
  <2>1. PICK id \in Ids : Exists(id) /\ login' = [login EXCEPT ![k] = [userid |-> id, row |-> users[id]]]
    BY <1>1 DEF Authenticate
  <2>2. [userid |-> id, row |-> users[id]] \in Entity
    BY <2>1 DEF TypeOK, Exists, Entity
  <2> QED
    BY <1>1, <2>1, <2>2 DEF TypeOK, Authenticate, table, history
<1>2. CASE RegisterUserLogin(k)
  <2>1. login[k] \in Entity /\ login[k].userid \in Ids /\ login[k].row \in Row
    BY <1>2, RowTypes DEF RegisterUserLogin, TypeOK
  <2>2. /\ users' \in [Ids -> Row \cup {NoRow}]
        /\ nextId' \in 1..(MaxIds + 1)
    <3>1. CASE Update(login[k].userid, login[k].row)
      BY <2>1, <3>1 DEF Update, TypeOK
    <3>2. CASE Insert(login[k].row)
      BY <2>1, <3>2, InsertFacts
    <3> QED
      BY <1>2, <3>1, <3>2 DEF RegisterUserLogin
  <2> QED
    BY <1>2, <2>1, <2>2 DEF TypeOK, RegisterUserLogin, history
<1>3. CASE LoginFails(k)
  BY <1>3 DEF TypeOK, LoginFails, table, history
<1>4. CASE Leave(k)
  BY <1>4 DEF TypeOK, Leave, table, history
<1> QED
  BY <1>1, <1>2, <1>3, <1>4 DEF Browse

LEMMA TypeStep == TypeOK /\ [Next]_vars => TypeOK'
<1> SUFFICES ASSUME TypeOK, [Next]_vars PROVE TypeOK'
  OBVIOUS
<1>1. ASSUME NEW a \in Admins, Administration(a) PROVE TypeOK'
  BY <1>1, AddNewUserTypes, EditUserTypes, SaveEditTypes, DeleteUserTypes DEF Administration
<1>2. ASSUME NEW k \in Keys, Browse(k) PROVE TypeOK'
  BY <1>2, BrowseTypes
<1>3. CASE UNCHANGED vars
  BY <1>3 DEF TypeOK, vars
<1> QED
  BY <1>1, <1>2, <1>3 DEF Next

\* The table, the log-ins and the edits have their types in every behaviour.
THEOREM TypeCorrect == Spec => []TypeOK
BY TypeInit, TypeStep, PTL DEF Spec

----------------------------------------------------------------------------
(* Explanations last.  The steps of the model change the table in four ways: a row is      *)
(* inserted or changed, by an administrator who means it or by a log-in.                    *)

LEMMA AsIntendedInit == Init => AsIntendedInv
BY DEF Init, AsIntendedInv, IdsInv, CopiesInv, Explained, Ids, Nobody, NoRow

\* A row an administrator inserts: nobody holds a copy of it.
LEMMA DecidedInsert ==
  ASSUME TypeOK, AsIntendedInv, NEW row \in Row, Insert(row), Decide(nextId, row), UNCHANGED login
  PROVE  AsIntendedInv'
<1>1. /\ nextId \in Ids /\ nextId \in Nat
      /\ users' = [users EXCEPT ![nextId] = row]
      /\ nextId' = nextId + 1
      /\ intended' = [intended EXCEPT ![nextId] = row]
  BY InsertFacts DEF Decide, TypeOK
<1>2. raced' = raced
  <2>1. ~Held(nextId)
    BY <1>1, RowTypes DEF Held, AsIntendedInv, CopiesInv, Nobody
  <2>2. nextId \notin raced
    BY <1>1 DEF AsIntendedInv, IdsInv
  <2> QED
    BY <2>1, <2>2 DEF Decide
<1>3. ASSUME NEW id \in Ids, BroughtBack(id) PROVE BroughtBack(id)'
  BY <1>1, <1>2, <1>3 DEF BroughtBack, AsIntendedInv, IdsInv, TypeOK, Ids
<1>4. ASSUME NEW id \in Ids, NEW r, id # nextId, Explained(id, r) PROVE Explained(id, r)'
  BY <1>1, <1>2, <1>3, <1>4 DEF Explained, TypeOK
<1>5. IdsInv'
  BY <1>1, <1>2, RowTypes DEF AsIntendedInv, IdsInv, TypeOK, Ids
<1>6. CopiesInv'
  BY <1>1, <1>4 DEF AsIntendedInv, CopiesInv, Ids
<1>7. ASSUME NEW id \in Ids PROVE Explained(id, users[id])'
  <2>1. CASE id = nextId
    BY <1>1, <2>1 DEF Explained, TypeOK
  <2>2. CASE id # nextId
    BY <1>1, <1>4, <2>2 DEF AsIntendedInv, TypeOK
  <2> QED
    BY <2>1, <2>2
<1> QED
  BY <1>5, <1>6, <1>7 DEF AsIntendedInv

\* A row an administrator changes or removes: copies of it are now raced.
LEMMA DecidedUpdate ==
  ASSUME TypeOK, AsIntendedInv, NEW id \in Ids, NEW row \in Row \cup {NoRow},
         Exists(id), Update(id, row), Decide(id, row), UNCHANGED login
  PROVE  AsIntendedInv'
<1>1. /\ users' = [users EXCEPT ![id] = row]
      /\ nextId' = nextId
      /\ intended' = [intended EXCEPT ![id] = row]
      /\ raced' = IF Held(id) THEN raced \cup {id} ELSE raced \ {id}
  BY DEF Update, Decide
<1>2. id < nextId
  BY DEF Exists, AsIntendedInv, IdsInv, TypeOK, Ids
<1>3. ASSUME NEW i \in Ids, BroughtBack(i) PROVE BroughtBack(i)'
  <2>1. PICK gone \in raced : gone < i /\ users[gone] = NoRow
    BY <1>3 DEF BroughtBack
  <2>2. gone # id /\ gone \in Ids
    BY <2>1 DEF Exists, TypeOK
  <2> QED
    BY <1>1, <2>1, <2>2 DEF BroughtBack, TypeOK
<1>4. ASSUME NEW i \in Ids, NEW r, i # id, Explained(i, r) PROVE Explained(i, r)'
  BY <1>1, <1>3, <1>4 DEF Explained, TypeOK
<1>5. IdsInv'
  BY <1>1, <1>2 DEF AsIntendedInv, IdsInv, TypeOK, Ids
<1>6. CopiesInv'
  <2> SUFFICES ASSUME NEW k \in Keys, login[k] # Nobody
               PROVE  /\ login[k].userid \in Ids /\ login[k].userid < nextId
                      /\ login[k].row.key = k
                      /\ Explained(login[k].userid, login[k].row)'
    BY <1>1 DEF CopiesInv
  <2>1. /\ login[k].userid \in Ids /\ login[k].userid < nextId
        /\ login[k].row.key = k
        /\ Explained(login[k].userid, login[k].row)
    BY DEF AsIntendedInv, CopiesInv
  <2>2. CASE login[k].userid = id
    <3>1. id \in raced'
      BY <1>1, <2>2 DEF Held
    <3> QED
      BY <2>1, <2>2, <3>1 DEF Explained
  <2>3. CASE login[k].userid # id
    BY <1>4, <2>1, <2>3
  <2> QED
    BY <2>1, <2>2, <2>3
<1>7. ASSUME NEW i \in Ids PROVE Explained(i, users[i])'
  <2>1. CASE i = id
    BY <1>1, <2>1 DEF Explained, TypeOK
  <2>2. CASE i # id
    BY <1>1, <1>4, <2>2 DEF AsIntendedInv, TypeOK
  <2> QED
    BY <2>1, <2>2
<1> QED
  BY <1>5, <1>6, <1>7 DEF AsIntendedInv

\* A log-in that finds the row it read: what it writes is explained.
LEMMA LoginUpdate ==
  ASSUME TypeOK, AsIntendedInv, NEW k \in Keys, login[k] # Nobody,
         Exists(login[k].userid), Update(login[k].userid, login[k].row),
         login' = [login EXCEPT ![k] = Nobody], UNCHANGED history
  PROVE  AsIntendedInv'
<1> DEFINE i0 == login[k].userid
<1>1. /\ i0 \in Ids /\ login[k].row \in Row
      /\ users' = [users EXCEPT ![i0] = login[k].row]
      /\ nextId' = nextId /\ intended' = intended /\ raced' = raced
      /\ Explained(i0, login[k].row)
  BY RowTypes DEF TypeOK, Update, AsIntendedInv, CopiesInv, history
<1>2. ASSUME NEW i \in Ids, NEW r, Explained(i, r) PROVE Explained(i, r)'
  BY <1>1, <1>2 DEF Explained, BroughtBack, Exists, TypeOK
<1>3. IdsInv'
  BY <1>1, RowTypes DEF AsIntendedInv, IdsInv, CopiesInv, Exists, TypeOK
<1>4. CopiesInv'
  BY <1>1, <1>2 DEF AsIntendedInv, CopiesInv, TypeOK
<1>5. ASSUME NEW i \in Ids PROVE Explained(i, users[i])'
  BY <1>1, <1>2 DEF AsIntendedInv, TypeOK
<1> QED
  BY <1>3, <1>4, <1>5 DEF AsIntendedInv

\* A log-in whose row was removed: the account it brings back comes after a raced one.
LEMMA LoginInsert ==
  ASSUME TypeOK, AsIntendedInv, NEW k \in Keys, login[k] # Nobody,
         ~Exists(login[k].userid), Insert(login[k].row),
         login' = [login EXCEPT ![k] = Nobody], UNCHANGED history
  PROVE  AsIntendedInv'
<1> DEFINE i0 == login[k].userid
<1>1. /\ i0 \in Ids /\ i0 < nextId /\ login[k].row \in Row
      /\ Explained(i0, login[k].row)
  BY RowTypes DEF TypeOK, AsIntendedInv, CopiesInv
<1>2. /\ nextId \in Ids /\ nextId \in Nat
      /\ users' = [users EXCEPT ![nextId] = login[k].row]
      /\ nextId' = nextId + 1 /\ intended' = intended /\ raced' = raced
  BY <1>1, InsertFacts DEF history, TypeOK
<1>3. ASSUME NEW i \in Ids, BroughtBack(i) PROVE BroughtBack(i)'
  BY <1>2, <1>3 DEF BroughtBack, AsIntendedInv, IdsInv, TypeOK, Ids
<1>4. ASSUME NEW i \in Ids, NEW r, Explained(i, r) PROVE Explained(i, r)'
  BY <1>2, <1>3, <1>4 DEF Explained
<1>5. BroughtBack(nextId)
  <2>1. intended[i0] = NoRow /\ users[i0] = NoRow
    BY <1>1 DEF Exists, AsIntendedInv, IdsInv
  <2>2. CASE i0 \in raced
    BY <1>1, <2>1, <2>2 DEF BroughtBack
  <2>3. CASE BroughtBack(i0)
    BY <1>1, <1>2, <2>3 DEF BroughtBack, TypeOK, Ids
  <2> QED
    BY <1>1, <2>1, <2>2, <2>3, RowTypes DEF Explained
<1>6. IdsInv'
  BY <1>2, <1>1, RowTypes DEF AsIntendedInv, IdsInv, TypeOK, Ids
<1>7. CopiesInv'
  BY <1>2, <1>4 DEF AsIntendedInv, CopiesInv, TypeOK, Ids
<1>8. ASSUME NEW i \in Ids PROVE Explained(i, users[i])'
  <2>1. CASE i = nextId
    <3>1. intended[i] = NoRow
      BY <1>2, <2>1 DEF AsIntendedInv, IdsInv
    <3> QED
      BY <1>2, <1>3, <1>5, <2>1, <3>1 DEF Explained
  <2>2. CASE i # nextId
    BY <1>2, <1>4, <2>2 DEF AsIntendedInv, TypeOK
  <2> QED
    BY <2>1, <2>2
<1> QED
  BY <1>6, <1>7, <1>8 DEF AsIntendedInv

\* Steps that only move copies around.
LEMMA CopyStep ==
  ASSUME TypeOK, AsIntendedInv, UNCHANGED <<table, history>>,
         \A k \in Keys : \/ login'[k] = login[k]
                         \/ login'[k] = Nobody
                         \/ \E id \in Ids : /\ Exists(id) /\ users[id].key = k
                                            /\ login'[k] = [userid |-> id, row |-> users[id]]
  PROVE  AsIntendedInv'
<1>1. users' = users /\ nextId' = nextId /\ intended' = intended /\ raced' = raced
  BY DEF table, history
<1>2. ASSUME NEW id \in Ids, NEW r PROVE Explained(id, r)' <=> Explained(id, r)
  BY <1>1 DEF Explained, BroughtBack
<1>3. CopiesInv'
  <2> SUFFICES ASSUME NEW k \in Keys, login'[k] # Nobody
               PROVE  /\ login'[k].userid \in Ids /\ login'[k].userid < nextId
                      /\ login'[k].row.key = k
                      /\ Explained(login'[k].userid, login'[k].row)
    BY <1>1, <1>2 DEF CopiesInv
  <2>1. CASE login'[k] = login[k]
    BY <2>1 DEF AsIntendedInv, CopiesInv
  <2>2. ASSUME NEW id \in Ids, Exists(id), users[id].key = k,
               login'[k] = [userid |-> id, row |-> users[id]]
        PROVE  /\ login'[k].userid \in Ids /\ login'[k].userid < nextId
               /\ login'[k].row.key = k
               /\ Explained(login'[k].userid, login'[k].row)
    BY <2>2 DEF Exists, AsIntendedInv, IdsInv, TypeOK, Ids
  <2> QED
    BY <2>1, <2>2
<1> QED
  BY <1>1, <1>2, <1>3 DEF AsIntendedInv, IdsInv

LEMMA AsIntendedAdministration ==
  ASSUME TypeOK, AsIntendedInv, NEW a \in Admins, Administration(a)
  PROVE  AsIntendedInv'
<1>1. CASE AddNewUser(a)
  <2>1. PICK row \in [key : Keys, app : Apps] : Insert(row) /\ Decide(nextId, row)
    BY <1>1 DEF AddNewUser
  <2> QED
    BY <1>1, <2>1, DecidedInsert DEF AddNewUser, Row
<1>2. CASE EditUser(a)
  BY <1>2, CopyStep DEF EditUser
<1>3. CASE SaveEdit(a)
  <2>1. edit[a].row \in Row /\ UNCHANGED login
    BY <1>3, RowTypes DEF SaveEdit, TypeOK
  <2>2. CASE /\ edit[a].userid \in Ids /\ Exists(edit[a].userid)
             /\ Update(edit[a].userid, edit[a].row) /\ Decide(edit[a].userid, edit[a].row)
    BY <2>1, <2>2, DecidedUpdate
  <2>3. CASE Insert(edit[a].row) /\ Decide(nextId, edit[a].row)
    BY <2>1, <2>3, DecidedInsert
  <2>4. CASE UNCHANGED <<table, history>>
    BY <2>1, <2>4, CopyStep
  <2> QED
    BY <1>3, <2>2, <2>3, <2>4 DEF SaveEdit
<1>4. CASE DeleteUser(a)
  <2>1. PICK id \in 1..(nextId - 1) : Exists(id) /\ Update(id, NoRow) /\ Decide(id, NoRow)
    BY <1>4 DEF DeleteUser
  <2>2. id \in Ids
    BY MaxIdsIsNatural DEF TypeOK, Ids
  <2> QED
    BY <1>4, <2>1, <2>2, DecidedUpdate DEF DeleteUser
<1> QED
  BY <1>1, <1>2, <1>3, <1>4 DEF Administration

LEMMA AsIntendedBrowse ==
  ASSUME TypeOK, AsIntendedInv, NEW k \in Keys, Browse(k)
  PROVE  AsIntendedInv'
<1>1. CASE Authenticate(k)
  <2>1. PICK id \in Ids : /\ Exists(id) /\ users[id].key = k
                          /\ login' = [login EXCEPT ![k] = [userid |-> id, row |-> users[id]]]
    BY <1>1 DEF Authenticate
  <2> QED
    BY <1>1, <2>1, CopyStep DEF Authenticate, TypeOK
<1>2. CASE RegisterUserLogin(k)
  BY <1>2, LoginUpdate, LoginInsert DEF RegisterUserLogin
<1>3. CASE LoginFails(k)
  BY <1>3, CopyStep DEF LoginFails, TypeOK
<1>4. CASE Leave(k)
  BY <1>4, CopyStep DEF Leave
<1> QED
  BY <1>1, <1>2, <1>3, <1>4 DEF Browse

LEMMA AsIntendedStep == TypeOK /\ AsIntendedInv /\ [Next]_vars => AsIntendedInv'
<1> SUFFICES ASSUME TypeOK, AsIntendedInv, [Next]_vars PROVE AsIntendedInv'
  OBVIOUS
<1>1. CASE UNCHANGED vars
  BY <1>1, CopyStep DEF vars, table, history
<1> QED
  BY <1>1, AsIntendedAdministration, AsIntendedBrowse DEF Next

\* What the invariant says of the rows that differ from what was intended.
LEMMA ExplainedIsIntended == TypeOK /\ AsIntendedInv => AccountsAsIntended
<1> SUFFICES ASSUME TypeOK, AsIntendedInv, NEW id \in Ids, users[id] # intended[id]
             PROVE  \/ id \in raced
                    \/ intended[id] = NoRow /\ \E gone \in raced : gone < id /\ intended[gone] = NoRow
  BY DEF AccountsAsIntended
<1>1. id \in raced \/ (intended[id] = NoRow /\ BroughtBack(id))
  BY DEF AsIntendedInv, Explained
<1> QED
  BY <1>1 DEF BroughtBack, AsIntendedInv, IdsInv, TypeOK

\* However log-ins, edits and removals interleave, a log-in undoes an administrator's work
\* only if it had read the row before that was saved.
THEOREM AsIntended == Spec => []AccountsAsIntended
<1>1. Init => TypeOK /\ AsIntendedInv
  BY TypeInit, AsIntendedInit
<1>2. TypeOK /\ AsIntendedInv /\ [Next]_vars => (TypeOK /\ AsIntendedInv)'
  BY TypeStep, AsIntendedStep
<1> QED
  BY <1>1, <1>2, ExplainedIsIntended, PTL DEF Spec

----------------------------------------------------------------------------
(* Rows without a certificate *)

LEMMA BlankInit == Init => BlankInv
BY DEF Init, BlankInv, BlankRows, BlankEdits, Exists, Ids, Nobody

\* Ids that are gone stay gone.
LEMMA DeadStaysDead ==
  ASSUME TypeOK, AsIntendedInv, [Next]_vars, NEW gone \in Ids, Dead(gone)
  PROVE  Dead(gone)'
<1> DEFINE Changed == \/ UNCHANGED table
                      \/ \E id \in Ids, row \in Row \cup {NoRow} : Exists(id) /\ Update(id, row)
                      \/ \E row \in Row : Insert(row)
<1>1. ASSUME NEW a \in Admins, Administration(a) PROVE Changed
  <2>1. CASE AddNewUser(a)
    BY <2>1 DEF AddNewUser, Row
  <2>2. CASE EditUser(a)
    BY <2>2 DEF EditUser
  <2>3. CASE SaveEdit(a)
    <3>1. edit[a].row \in Row
      BY <2>3, RowTypes DEF SaveEdit, TypeOK
    <3> QED
      BY <2>3, <3>1 DEF SaveEdit
  <2>4. CASE DeleteUser(a)
    <3>1. 1..(nextId - 1) \subseteq Ids
      BY MaxIdsIsNatural DEF TypeOK, Ids
    <3> QED
      BY <2>4, <3>1 DEF DeleteUser
  <2> QED
    BY <1>1, <2>1, <2>2, <2>3, <2>4 DEF Administration
<1>2. ASSUME NEW k \in Keys, Browse(k) PROVE Changed
  <2>1. CASE RegisterUserLogin(k)
    <3>1. login[k].row \in Row /\ login[k].userid \in Ids
      BY <2>1, RowTypes DEF RegisterUserLogin, TypeOK
    <3> QED
      BY <2>1, <3>1 DEF RegisterUserLogin
  <2> QED
    BY <1>2, <2>1 DEF Browse, Authenticate, LoginFails, Leave
<1>3. Changed
  BY <1>1, <1>2 DEF Next, vars, table
<1>4. CASE UNCHANGED table
  BY <1>4 DEF table, Dead
<1>5. ASSUME NEW id \in Ids, NEW row \in Row \cup {NoRow}, Exists(id), Update(id, row)
      PROVE  Dead(gone)'
  BY <1>5 DEF Exists, Update, Dead, TypeOK
<1>6. ASSUME NEW row \in Row, Insert(row) PROVE Dead(gone)'
  <2>1. /\ users' = [users EXCEPT ![nextId] = row]
        /\ nextId' = nextId + 1
        /\ nextId \in Nat /\ gone < nextId /\ gone \in Nat
    BY <1>6 DEF Insert, Dead, TypeOK, Ids
  <2> QED
    BY <2>1 DEF Dead, TypeOK
<1> QED
  BY <1>3, <1>4, <1>5, <1>6

LEMMA AfterDeadLasts ==
  ASSUME TypeOK, AsIntendedInv, [Next]_vars, NEW id, AfterDead(id)
  PROVE  AfterDead(id)'
<1>1. PICK gone \in Ids : gone < id /\ Dead(gone)
  BY DEF AfterDead
<1>2. Dead(gone)'
  BY <1>1, DeadStaysDead
<1> QED
  BY <1>1, <1>2 DEF AfterDead

\* A row that is changed or inserted is blank only after a dead one: so are the others.
LEMMA BlankRowsWritten ==
  ASSUME TypeOK, AsIntendedInv, BlankInv, [Next]_vars,
         NEW id \in Ids, NEW row, users' = [users EXCEPT ![id] = row],
         row # NoRow /\ row.key = NoKey => AfterDead(id)
  PROVE  BlankRows'
<1> SUFFICES ASSUME NEW i \in Ids, users'[i] # NoRow, users'[i].key = NoKey
             PROVE  AfterDead(i)'
  BY DEF BlankRows, Exists
<1>1. CASE i = id
  BY <1>1, AfterDeadLasts DEF TypeOK
<1>2. CASE i # id
  BY <1>2, AfterDeadLasts DEF BlankInv, BlankRows, Exists, TypeOK
<1> QED
  BY <1>1, <1>2

LEMMA BlankRowsKept ==
  ASSUME TypeOK, AsIntendedInv, BlankInv, [Next]_vars, users' = users
  PROVE  BlankRows'
BY AfterDeadLasts DEF BlankInv, BlankRows, Exists

LEMMA BlankEditsKept ==
  ASSUME TypeOK, AsIntendedInv, BlankInv, [Next]_vars,
         \A a \in Admins : edit'[a] = edit[a] \/ edit'[a] = Nobody
  PROVE  BlankEdits'
BY AfterDeadLasts DEF BlankInv, BlankEdits

LEMMA BlankAdministration ==
  ASSUME TypeOK, AsIntendedInv, BlankInv, NEW a \in Admins, Administration(a)
  PROVE  BlankInv'
<1> [Next]_vars
  BY DEF Next
<1>1. CASE AddNewUser(a)
  <2>1. PICK row \in [key : Keys, app : Apps] : Insert(row)
    BY <1>1 DEF AddNewUser
  <2>2. nextId \in Ids /\ users' = [users EXCEPT ![nextId] = row] /\ row.key # NoKey
    BY <2>1, InsertFacts, NoKeyIsNoKey DEF Row
  <2>3. BlankRows'
    BY <2>2, BlankRowsWritten
  <2>4. BlankEdits'
    BY <1>1, BlankEditsKept DEF AddNewUser
  <2> QED
    BY <2>3, <2>4 DEF BlankInv
<1>2. CASE EditUser(a)
  <2>1. PICK id \in 1..(nextId - 1), app \in Apps, key \in Keys \cup {NoKey} :
          edit' = [edit EXCEPT ![a] =
            IF Exists(id)
              THEN [userid |-> id, row |-> [key |-> IF key = NoKey THEN users[id].key ELSE key,
                                            app |-> app]]
              ELSE [userid |-> MaxIds + 1, row |-> [key |-> key, app |-> app]]]
    BY <1>2 DEF EditUser
  <2>2. id \in Ids /\ id < nextId /\ id < MaxIds + 1
    BY MaxIdsIsNatural DEF TypeOK, Ids
  <2>3. edit'[a].row.key = NoKey => AfterDead(edit'[a].userid)
    <3>1. CASE Exists(id)
      <4>1. edit'[a].userid = id /\ edit'[a].row.key = IF key = NoKey THEN users[id].key ELSE key
        BY <2>1, <3>1 DEF TypeOK
      <4> QED
        BY <2>2, <3>1, <4>1 DEF BlankInv, BlankRows
    <3>2. CASE ~Exists(id)
      <4>1. edit'[a].userid = MaxIds + 1 /\ Dead(id)
        BY <2>1, <2>2, <3>2 DEF TypeOK, Exists, Dead
      <4> QED
        BY <2>2, <4>1 DEF AfterDead
    <3> QED
      BY <3>1, <3>2
  <2>4. BlankEdits'
    <3>1. ASSUME NEW b \in Admins, edit'[b] # Nobody, edit'[b].row.key = NoKey
          PROVE  AfterDead(edit'[b].userid)
      <4>1. CASE b = a
        BY <2>3, <3>1, <4>1
      <4>2. CASE b # a
        BY <2>1, <3>1, <4>2 DEF BlankInv, BlankEdits, TypeOK
      <4> QED
        BY <4>1, <4>2
    <3> QED
      BY <3>1, AfterDeadLasts DEF BlankEdits
  <2>5. BlankRows'
    BY <1>2, BlankRowsKept DEF EditUser, table
  <2> QED
    BY <2>4, <2>5 DEF BlankInv
<1>3. CASE SaveEdit(a)
  <2>1. edit[a] \in Entity \cup NewEntity /\ edit[a].row \in Row
    BY <1>3, RowTypes DEF SaveEdit, TypeOK
  <2>2. BlankEdits'
    BY <1>3, BlankEditsKept DEF SaveEdit, TypeOK
  <2>3. edit[a].row.key = NoKey => AfterDead(edit[a].userid)
    BY <1>3 DEF SaveEdit, BlankInv, BlankEdits
  <2>4. ASSUME edit[a].userid \in Ids, Update(edit[a].userid, edit[a].row) PROVE BlankRows'
    BY <2>3, <2>4, BlankRowsWritten DEF Update
  <2>5. ASSUME edit[a].userid \notin Ids, Insert(edit[a].row) PROVE BlankRows'
    <3>1. nextId \in Ids /\ users' = [users EXCEPT ![nextId] = edit[a].row]
      BY <2>1, <2>5, InsertFacts
    <3>2. edit[a].row.key = NoKey => AfterDead(nextId)
      BY <2>3 DEF AfterDead, Dead
    <3> QED
      BY <3>1, <3>2, BlankRowsWritten
  <2>6. ASSUME UNCHANGED <<table, history>> PROVE BlankRows'
    BY <2>6, BlankRowsKept DEF table
  <2>7. BlankRows'
    BY <1>3, <2>4, <2>5, <2>6 DEF SaveEdit
  <2> QED
    BY <2>2, <2>7 DEF BlankInv
<1>4. CASE DeleteUser(a)
  <2>1. PICK id \in 1..(nextId - 1) : Update(id, NoRow)
    BY <1>4 DEF DeleteUser
  <2>2. id \in Ids
    BY MaxIdsIsNatural DEF TypeOK, Ids
  <2>3. BlankRows'
    BY <2>1, <2>2, BlankRowsWritten DEF Update
  <2>4. BlankEdits'
    BY <1>4, BlankEditsKept DEF DeleteUser
  <2> QED
    BY <2>3, <2>4 DEF BlankInv
<1> QED
  BY <1>1, <1>2, <1>3, <1>4 DEF Administration

LEMMA BlankBrowse ==
  ASSUME TypeOK, AsIntendedInv, BlankInv, NEW k \in Keys, Browse(k)
  PROVE  BlankInv'
<1> [Next]_vars
  BY DEF Next
<1>1. BlankEdits'
  BY BlankEditsKept DEF Browse, Authenticate, RegisterUserLogin, LoginFails, Leave
<1>2. CASE RegisterUserLogin(k)
  <2>1. login[k].userid \in Ids /\ login[k].row \in Row /\ login[k].row.key # NoKey
    BY <1>2, NoKeyIsNoKey, RowTypes DEF RegisterUserLogin, AsIntendedInv, CopiesInv, TypeOK
  <2>2. ASSUME Update(login[k].userid, login[k].row) PROVE BlankRows'
    BY <2>1, <2>2, BlankRowsWritten DEF Update
  <2>3. ASSUME Insert(login[k].row) PROVE BlankRows'
    <3>1. nextId \in Ids /\ users' = [users EXCEPT ![nextId] = login[k].row]
      BY <2>1, <2>3, InsertFacts
    <3> QED
      BY <2>1, <3>1, BlankRowsWritten
  <2> QED
    BY <1>1, <1>2, <2>2, <2>3 DEF RegisterUserLogin, BlankInv
<1>3. CASE UNCHANGED table
  BY <1>1, <1>3, BlankRowsKept DEF BlankInv, table
<1> QED
  BY <1>2, <1>3 DEF Browse, Authenticate, LoginFails, Leave

LEMMA BlankStep == TypeOK /\ AsIntendedInv /\ BlankInv /\ [Next]_vars => BlankInv'
<1> SUFFICES ASSUME TypeOK, AsIntendedInv, BlankInv, [Next]_vars PROVE BlankInv'
  OBVIOUS
<1>1. CASE UNCHANGED vars
  BY <1>1, BlankRowsKept, BlankEditsKept DEF vars, BlankInv
<1> QED
  BY <1>1, BlankAdministration, BlankBrowse DEF Next

LEMMA BlankIsBlankAfterRemovals == TypeOK /\ AsIntendedInv /\ BlankInv => BlankRowsFollowRemovals
<1> SUFFICES ASSUME TypeOK, AsIntendedInv, BlankInv, NEW id \in Ids, Exists(id), users[id].key = NoKey
             PROVE  \E gone \in 1..(id - 1) : intended[gone] = NoRow
  BY DEF BlankRowsFollowRemovals
<1>1. PICK gone \in Ids : gone < id /\ Dead(gone)
  BY DEF BlankInv, BlankRows, AfterDead
<1>2. gone \in 1..(id - 1)
  BY <1>1, MaxIdsIsNatural DEF Ids
<1>3. intended[gone] = NoRow
  BY <1>1 DEF Dead, AsIntendedInv, IdsInv
<1> QED
  BY <1>2, <1>3

\* Rows that lock out everybody listed after them come from editing removed accounts only.
THEOREM BlankAfterRemovals == Spec => []BlankRowsFollowRemovals
<1>1. Init => Inv
  BY TypeInit, AsIntendedInit, BlankInit DEF Inv
<1>2. Inv /\ [Next]_vars => Inv'
  BY TypeStep, AsIntendedStep, BlankStep DEF Inv
<1>3. Inv => BlankRowsFollowRemovals
  BY BlankIsBlankAfterRemovals DEF Inv
<1> QED
  BY <1>1, <1>2, <1>3, PTL DEF Spec
=============================================================================
