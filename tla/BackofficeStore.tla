-------------------------- MODULE BackofficeStore --------------------------
(***************************************************************************)
(* What survives of a chaincode's life cycle in the database that the      *)
(* backoffice and the client application share.                            *)
(*                                                                         *)
(* The backoffice works on the Blockchain object of ChaincodeLifecycle,    *)
(* which it loaded when it started, and writes it to a BlockchainInfo row  *)
(* after each request.  The client reads that row, adds a file to the      *)
(* IDHashtable of its copy, and writes the copy back.  Either write        *)
(* replaces the whole object.  The backoffice may die at any point and     *)
(* then starts again from the rows.                                        *)
(*                                                                         *)
(* Every writer takes all the columns of a row from one Blockchain object, *)
(* so a row is that object; of IDHashtable only the keys are modelled.     *)
(***************************************************************************)
EXTENDS ChaincodeLifecycle

CONSTANTS
  Clients,     \* request threads of the client application
  Hashes,      \* digests of the files the client may upload
  MaxRows,     \* bound on the rows of this name
  MaxMishaps   \* bound on the restarts and the failed saves of the backoffice

ASSUME StoreBoundsAreNatural == MaxRows \in Nat /\ MaxMishaps \in Nat

VARIABLES
  hashes,   \* keys of Blockchain.IDHashtable in the backoffice's object
  saving,   \* what each administrator's request still has to save
  rows,     \* the BlockchainInfo rows with the chaincode's name
  copy,     \* the row each client request read, and what it made of it
  mishaps,  \* restarts and failed saves of the backoffice (bounded by MaxMishaps)
  lost      \* history: a save failed, or an older object replaced a newer one

store == <<hashes, saving, rows, copy, mishaps, lost>>
allVars == <<vars, store>>

----------------------------------------------------------------------------
(* Objects and rows *)

Blockchain == [currentVersion : Double, instantiated : BOOLEAN,
               chaincodeVersions : Seq(Double), hashes : SUBSET Hashes]

\* new Blockchain(chaincodeName)
NewBlockchain == [currentVersion |-> Zero, instantiated |-> FALSE,
                  chaincodeVersions |-> <<>>, hashes |-> {}]

\* Mutant: the id table is not part of what is serialized.
Memory_NoTable ==
  [currentVersion |-> currentVersion, instantiated |-> instantiated,
   chaincodeVersions |-> chaincodeVersions, hashes |-> {}]

\* The object FireStarter.getChaincode returns.
Memory == [currentVersion |-> currentVersion, instantiated |-> instantiated,
           chaincodeVersions |-> chaincodeVersions, hashes |-> hashes]

\* Mutant: instantiated is worked out from the version.
Load_ByVersion(b) ==
  /\ currentVersion' = b.currentVersion
  /\ instantiated' = (b.currentVersion # Zero)
  /\ chaincodeVersions' = b.chaincodeVersions
  /\ hashes' = b.hashes

\* Mutant: the versions of the row are added to those in memory.
Load_Adds(b) ==
  /\ currentVersion' = b.currentVersion
  /\ instantiated' = b.instantiated
  /\ chaincodeVersions' = chaincodeVersions \o b.chaincodeVersions
  /\ hashes' = b.hashes

Load(b) ==
  /\ currentVersion' = b.currentVersion
  /\ instantiated' = b.instantiated
  /\ chaincodeVersions' = b.chaincodeVersions
  /\ hashes' = b.hashes

\* How many versions the object lists.
Listed(b) == Len(b.chaincodeVersions)

\* b knows less of the life cycle than the object it replaces.
Older(b, replaced) ==
  \/ Listed(b) < Listed(replaced)
  \/ replaced.instantiated /\ ~b.instantiated

Copy == [row : Nat, blockchain : Blockchain]

NoCopy == [row |-> 0]

\* Mutant: the list inside the serialized object is not taken for dirty.
Write_KeepsVersions(i, b) ==
  /\ rows' = [rows EXCEPT ![i] = [b EXCEPT !.chaincodeVersions = rows[i].chaincodeVersions]]
  /\ lost' = (lost \/ Older(b, rows[i]))

\* An update of row i: every column is written.
Write(i, b) ==
  /\ rows' = [rows EXCEPT ![i] = b]
  /\ lost' = (lost \/ Older(b, rows[i]))

----------------------------------------------------------------------------
(* The backoffice *)

Ready(a) == Idle(a) /\ saving[a] = "nothing"

\* Mutant: what is to be saved is left empty.
Then_NoKind(a, what) ==
  /\ saving' = [saving EXCEPT ![a] = ""]
  /\ UNCHANGED <<hashes, rows, copy, mishaps, lost>>

\* The network part of a request, and what it will save when that is over.
Then(a, what) ==
  /\ saving' = [saving EXCEPT ![a] = what]
  /\ UNCHANGED <<hashes, rows, copy, mishaps, lost>>

\* Mutant: the upgraded chaincode is not saved.
UpgradeChaincode_NoSave(a) == Ready(a) /\ Update(a) /\ Then(a, "nothing")

\* POST /lists/chaincode/upgrade
UpgradeChaincode(a) == Ready(a) /\ Update(a) /\ Then(a, "changes")

\* GET /lists/chaincode/install/{chaincode}: nothing asks whether it was followed before.
InstallChaincode(a) ==
  /\ Ready(a)
  /\ Len(rows) < MaxRows
  /\ Update(a)
  /\ Then(a, "new row")

\* POST /lists/chaincode/downgrade.  A refused one changes nothing and is saved too.
DowngradeChaincode(a) ==
  /\ Ready(a)
  /\ Downgrade(a) \/ UNCHANGED vars
  /\ Then(a, "changes")

Continue(a) == Proceed(a) /\ UNCHANGED store

\* saveChaincodeChanges finds the first row of the name; without one it throws.
SaveChaincodeChanges(a) ==
  /\ Idle(a) /\ saving[a] = "changes"
  /\ \/ \E i \in DOMAIN rows : Write(i, Memory)
     \/ rows = <<>> /\ lost' = TRUE /\ UNCHANGED rows
  /\ saving' = [saving EXCEPT ![a] = "nothing"]
  /\ UNCHANGED <<vars, hashes, copy, mishaps>>

\* newChaincode
NewChaincode(a) ==
  /\ Idle(a) /\ saving[a] = "new row"
  /\ rows' = Append(rows, Memory)
  /\ saving' = [saving EXCEPT ![a] = "nothing"]
  /\ UNCHANGED <<vars, hashes, copy, mishaps, lost>>

\* The database refuses: the request answers /error and the object stays as it is.
SaveFails(a) ==
  /\ Idle(a) /\ saving[a] # "nothing"
  /\ saving' = [saving EXCEPT ![a] = "nothing"]
  /\ lost' = TRUE
  /\ mishaps < MaxMishaps /\ mishaps' = mishaps + 1
  /\ UNCHANGED <<vars, hashes, rows, copy>>

\* The backoffice dies and starts again: WebService loads the objects of all rows, and
\* getChaincode will find the first of this name, or create one.  An installation or a
\* transaction that was under way may still reach the peers.
Crash ==
  /\ mishaps < MaxMishaps
  /\ mishaps' = mishaps + 1
  /\ \/ \E i \in DOMAIN rows : Load(rows[i])
     \/ rows = <<>> /\ Load(NewBlockchain)
  /\ \E done \in SUBSET { a \in Admins : request[a].step = "installing" } :
       installed' = installed \cup { request[a].version : a \in done }
  /\ late' = late \cup { [base |-> request[a].base, version |-> request[a].version] :
                           a \in { b \in Admins : request[b].step = "sent" } }
  /\ request' = [a \in Admins |-> NoRequest]
  /\ saving' = [a \in Admins |-> "nothing"]
  /\ UNCHANGED <<running, faults, rows, copy, lost>>

----------------------------------------------------------------------------
(* The client *)

\* getChaincodeObject
Lookup(c) ==
  /\ copy[c] = NoCopy
  /\ \E i \in DOMAIN rows :
       copy' = [copy EXCEPT ![c] = [row |-> i, blockchain |-> rows[i]]]
  /\ UNCHANGED <<vars, hashes, saving, rows, mishaps, lost>>

\* start_op puts a list under the file's hash, sign_op and end_op add to one that is there;
\* the flush that follows writes the changed entity.
Flush(c) ==
  /\ copy[c] # NoCopy
  /\ \E h \in Hashes :
       Write(copy[c].row, [copy[c].blockchain EXCEPT !.hashes = @ \cup {h}])
  /\ copy' = [copy EXCEPT ![c] = NoCopy]
  /\ UNCHANGED <<vars, hashes, saving, mishaps>>

\* An exception, or a hash the copy does not list: nothing is saved.
Abandon(c) ==
  /\ copy[c] # NoCopy
  /\ copy' = [copy EXCEPT ![c] = NoCopy]
  /\ UNCHANGED <<vars, hashes, saving, rows, mishaps, lost>>

----------------------------------------------------------------------------
StoreInit ==
  /\ Init
  /\ hashes = {}
  /\ saving = [a \in Admins |-> "nothing"]
  /\ rows = <<>>
  /\ copy = [c \in Clients |-> NoCopy]
  /\ mishaps = 0
  /\ lost = FALSE

Save(a) == SaveChaincodeChanges(a) \/ NewChaincode(a) \/ SaveFails(a)

Administration(a) ==
  \/ UpgradeChaincode(a)
  \/ InstallChaincode(a)
  \/ DowngradeChaincode(a)
  \/ Continue(a)
  \/ Save(a)

Service(c) == Lookup(c) \/ Flush(c) \/ Abandon(c)

StoreNext ==
  \/ \E a \in Admins : Administration(a)
  \/ \E c \in Clients : Service(c)
  \/ LateCommit /\ UNCHANGED store
  \/ Crash

StoreSpec == StoreInit /\ [][StoreNext]_allVars

----------------------------------------------------------------------------
\* The variables have the types the Java fields and columns give them.
StoreTypeOK ==
  /\ TypeOK
  /\ hashes \subseteq Hashes
  /\ saving \in [Admins -> {"nothing", "changes", "new row"}]
  /\ rows \in Seq(Blockchain)
  /\ copy \in [Clients -> Copy \cup {NoCopy}]
  /\ mishaps \in 0..MaxMishaps
  /\ lost \in BOOLEAN

\* While no save was lost some row lists all versions the network ran but perhaps the
\* last: however often the backoffice dies between the network and the save, and however
\* late transactions commit, the store is never two versions behind.
StoreFollowsNetwork ==
  ~lost => \/ running.tenths <= 10
           \/ \E i \in DOMAIN rows : running.tenths <= 10 + Listed(rows[i])

\* Neither restarts nor late transactions nor downgrades alone take the network back to an
\* earlier version: it needs a lost save, or a second row of the same name.
RegressionHasACause ==
  [][ running'.tenths < running.tenths => lost \/ Len(rows) > 1 ]_allVars

\* The backoffice's writes wipe what the client stored since the backoffice started, but
\* nothing older: what was in the object at start-up stays in the row (for one client).
StartUpHashesSurvive ==
  Len(rows) = 1 => hashes \subseteq rows[1].hashes

\* What the backoffice takes for instantiated after any restart, and what any row or copy
\* says is instantiated, does run.
StoredInstantiatedRuns ==
  (instantiated \/ \E i \in DOMAIN rows : rows[i].instantiated) => running # Zero

\* Neither crashes nor failed saves leave upgrades blocked, although a restart may have
\* forgotten the version that runs: once the row says the chaincode is instantiated, an
\* administrator who keeps asking gets the newest version to run (within the bounds).  Only
\* a restart from an object that was stored before the instantiation stops it.
StoreFairness ==
  \A a \in Admins :
    /\ SF_allVars(UpgradeChaincode(a))
    /\ WF_allVars(Continue(a))
    /\ WF_allVars(Save(a))

FairStoreSpec == StoreSpec /\ StoreFairness

UpgradesSurviveCrashes ==
  (rows # <<>> /\ rows[1].instantiated)
    ~> \/ chaincodeVersions # <<>> /\ running = Last(chaincodeVersions)
       \/ Len(chaincodeVersions) = MaxVersions
       \/ ~instantiated /\ (lost \/ Len(rows) > 1)

\* "Upgrade will increment, downgrade will decrement" (Blockchain.java): what the network
\* runs is never replaced by an earlier version when an upgrade succeeds.
UpgradeIncrements == [][ running'.tenths >= running.tenths ]_running
=============================================================================
