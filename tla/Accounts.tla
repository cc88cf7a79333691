------------------------------ MODULE Accounts ------------------------------
(***************************************************************************)
(* The Users table: administrators of the backoffice add, edit and remove  *)
(* accounts while their owners log in to the client application.           *)
(*                                                                         *)
(* A log-in looks for the row whose certificate has the key presented, in  *)
(* a read that no transaction goes on with, and then saves that copy with  *)
(* the time of the log-in: a merge of ALL columns.  If the row has been    *)
(* removed meanwhile, the merge inserts the copy as a new row.  An edit    *)
(* reads the row and writes it back as well; an edit of a removed account  *)
(* finds nothing and saves a new row.  No row has a version column.        *)
(*                                                                         *)
(* A row is its certificate's key and its application; the name, the state *)
(* and the time of the last log-in behave like the application.            *)
(***************************************************************************)
EXTENDS Naturals

CONSTANTS
  Admins,   \* request threads of the backoffice
  Keys,     \* key pairs of certificates; each stands for its owner's browser
  NoKey,    \* the certificate column is null
  Apps,     \* names of applications
  MaxIds    \* bound on the accounts ever inserted

ASSUME NoKeyIsNoKey == NoKey \notin Keys

ASSUME MaxIdsIsNatural == MaxIds \in Nat

VARIABLES
  users,     \* the Users table, by userid
  nextId,    \* the next value of the identity column
  edit,      \* each administrator's edit in progress
  login,     \* each owner's log-in in progress: the row it read
  principal, \* the user each session holds
  intended,  \* history: what the administrators last made of each account
  raced      \* history: accounts last changed while a log-in held a copy of the row

table == <<users, nextId>>
history == <<intended, raced>>
vars == <<users, nextId, edit, login, principal, intended, raced>>

----------------------------------------------------------------------------
(* Rows *)

Row == [key : Keys \cup {NoKey}, app : Apps]

NoRow == [key |-> NoKey]

Ids == 1..MaxIds

Exists(id) == users[id] # NoRow

\* A detached or managed entity: the row as it was read, and its id.
Entity == [userid : Ids, row : Row]

Nobody == [userid |-> 0]

\* new Users(): an edit that found no row; saving it inserts one.
NewEntity == [userid : {MaxIds + 1}, row : Row]

Insert(row) ==
  /\ nextId <= MaxIds
  /\ users' = [users EXCEPT ![nextId] = row]
  /\ nextId' = nextId + 1

Update(id, row) ==
  /\ users' = [users EXCEPT ![id] = row]
  /\ UNCHANGED nextId

\* A log-in is about to write a copy of account id.
Held(id) == \E k \in Keys : login[k].userid = id

\* An administrator decided what account id is.
Decide(id, row) ==
  /\ intended' = [intended EXCEPT ![id] = row]
  /\ raced' = IF Held(id) THEN raced \cup {id} ELSE raced \ {id}

----------------------------------------------------------------------------
(* The backoffice *)

\* POST /lists/users/edit for a new user.  Nobody looks for an equal certificate.
AddNewUser(a) ==
  /\ edit[a] = Nobody
  /\ \E row \in [key : Keys, app : Apps] :
       Insert(row) /\ Decide(nextId, row)
  /\ UNCHANGED <<edit, login, principal>>

\* Mutant: a form without a certificate clears the column.
EditUser_ClearsKey(a) ==
  /\ edit[a] = Nobody
  /\ \E id \in 1..(nextId - 1), app \in Apps, key \in Keys \cup {NoKey} :
       edit' = [edit EXCEPT ![a] =
         [userid |-> IF Exists(id) THEN id ELSE MaxIds + 1, row |-> [key |-> key, app |-> app]]]
  /\ UNCHANGED <<table, login, principal, history>>

\* POST /lists/users/edit: findAll, then the fields of the form; the certificate only if
\* one was sent along.  The form may be of an account that is gone.
EditUser(a) ==
  /\ edit[a] = Nobody
  /\ \E id \in 1..(nextId - 1), app \in Apps, key \in Keys \cup {NoKey} :
       edit' = [edit EXCEPT ![a] =
         IF Exists(id)
           THEN [userid |-> id, row |-> [key |-> IF key = NoKey THEN users[id].key ELSE key,
                                         app |-> app]]
           ELSE [userid |-> MaxIds + 1, row |-> [key |-> key, app |-> app]]]
  /\ UNCHANGED <<table, login, principal, history>>

\* save: an update of every column, an insertion of a new entity, or an error (the row
\* was removed since it was read, or the database refuses).
SaveEdit(a) ==
  /\ edit[a] # Nobody
  /\ LET e == edit[a]
     IN  \/ /\ e.userid \in Ids /\ Exists(e.userid)
            /\ Update(e.userid, e.row) /\ Decide(e.userid, e.row)
         \/ /\ e.userid \notin Ids
            /\ Insert(e.row) /\ Decide(nextId, e.row)
         \/ UNCHANGED <<table, history>>
  /\ edit' = [edit EXCEPT ![a] = Nobody]
  /\ UNCHANGED <<login, principal>>

\* GET /lists/users/delete/{id}
DeleteUser(a) ==
  /\ edit[a] = Nobody
  /\ \E id \in 1..(nextId - 1) :
       Exists(id) /\ Update(id, NoRow) /\ Decide(id, NoRow)
  /\ UNCHANGED <<edit, login, principal>>

----------------------------------------------------------------------------
(* The client *)

\* authenticate: the first row with the key, in the database's order.  A row without a
\* certificate that comes before it ends the search, and the log-in is denied.
Authenticate(k) ==
  /\ login[k] = Nobody /\ principal[k] = Nobody
  /\ \E id \in Ids :
       /\ Exists(id) /\ users[id].key = k
       /\ login' = [login EXCEPT ![k] = [userid |-> id, row |-> users[id]]]
  /\ UNCHANGED <<table, edit, principal, history>>

\* Mutant: the session does not keep the row.
RegisterUserLogin_IdOnly(k) ==
  /\ login[k] # Nobody
  /\ IF Exists(login[k].userid)
       THEN Update(login[k].userid, login[k].row)
       ELSE Insert(login[k].row)
  /\ principal' = [principal EXCEPT ![k] = [userid |-> login[k].userid]]
  /\ login' = [login EXCEPT ![k] = Nobody]
  /\ UNCHANGED <<edit, history>>

\* registerUserLogin merges the copy into the row that has its id, or into a new one.  The
\* session keeps the copy, with its id.
RegisterUserLogin(k) ==
  /\ login[k] # Nobody
  /\ IF Exists(login[k].userid)
       THEN Update(login[k].userid, login[k].row)
       ELSE Insert(login[k].row)
  /\ principal' = [principal EXCEPT ![k] = login[k]]
  /\ login' = [login EXCEPT ![k] = Nobody]
  /\ UNCHANGED <<edit, history>>

\* The merge fails: authenticate returns null.
LoginFails(k) ==
  /\ login[k] # Nobody
  /\ login' = [login EXCEPT ![k] = Nobody]
  /\ UNCHANGED <<table, edit, principal, history>>

\* Mutant: the session's user is saved when it ends.
Leave_Saves(k) ==
  /\ principal[k] # Nobody
  /\ Exists(principal[k].userid)
  /\ Update(principal[k].userid, principal[k].row)
  /\ principal' = [principal EXCEPT ![k] = Nobody]
  /\ UNCHANGED <<edit, login, history>>

\* The session ends.
Leave(k) ==
  /\ principal[k] # Nobody
  /\ principal' = [principal EXCEPT ![k] = Nobody]
  /\ UNCHANGED <<table, edit, login, history>>

----------------------------------------------------------------------------
Init ==
  /\ users = [id \in Ids |-> NoRow]
  /\ nextId = 1
  /\ edit = [a \in Admins |-> Nobody]
  /\ login = [k \in Keys |-> Nobody]
  /\ principal = [k \in Keys |-> Nobody]
  /\ intended = [id \in Ids |-> NoRow]
  /\ raced = {}

Administration(a) == AddNewUser(a) \/ EditUser(a) \/ SaveEdit(a) \/ DeleteUser(a)

Browse(k) == Authenticate(k) \/ RegisterUserLogin(k) \/ LoginFails(k) \/ Leave(k)

Next ==
  \/ \E a \in Admins : Administration(a)
  \/ \E k \in Keys : Browse(k)

Spec == Init /\ [][Next]_vars

----------------------------------------------------------------------------
\* The variables have the types the Java fields and columns give them.
TypeOK ==
  /\ users \in [Ids -> Row \cup {NoRow}]
  /\ nextId \in 1..(MaxIds + 1)
  /\ edit \in [Admins -> Entity \cup NewEntity \cup {Nobody}]
  /\ login \in [Keys -> Entity \cup {Nobody}]
  /\ principal \in [Keys -> Entity \cup {Nobody}]
  /\ intended \in [Ids -> Row \cup {NoRow}]
  /\ raced \subseteq Ids

\* Log-ins leave accounts as the administrators made them.  An edit is undone by one only
\* if that had read the row before the edit was saved, and an account that no
\* administrator made is a removed one that such a log-in brought back.
AccountsAsIntended ==
  \A id \in Ids : users[id] # intended[id] =>
    \/ id \in raced
    \/ intended[id] = NoRow /\ \E gone \in raced : gone < id /\ intended[gone] = NoRow

\* Rows without a certificate, which deny the log-in of everybody listed after them, come
\* from editing an account that had been removed: log-ins and other edits never make one.
BlankRowsFollowRemovals ==
  \A id \in Ids : Exists(id) /\ users[id].key = NoKey =>
    \E gone \in 1..(id - 1) : intended[gone] = NoRow
=============================================================================
