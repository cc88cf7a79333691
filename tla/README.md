# Verification of MTChain

MTChain lets the users of a company's applications sign documents in turn and keeps every
signature on a Hyperledger Fabric ledger.  This directory holds TLA+ models of its Java
code, the TLC runs that check them and the TLAPS proofs about them.

Paths below are relative to the repository; `core/`, `client/` and `backoffice/` are the
Maven modules under `MTChain/`.  Everything outside `MTChain/` is third-party code,
prototypes, static pages and material of a test network.

## 1. The system

Two web applications (Spring Boot, Hibernate) share one PostgreSQL database and one Fabric
channel, and both use the class `core/Blockchain.java`.

| Component | State | Operations | Talks to |
|---|---|---|---|
| Signature cycle: `client/.../service/ServiceController.java`, `repository/document/*` | `documents` rows: hash, signers map, `nextsigner`, `currentsigner`, `signedhash`, `state` | GET index, POST newsignature, POST signdocument, history and query | `Blockchain` object, ledger, browser |
| Ledger operations: `core/Blockchain.java` 237-256, 372-561 | `IDHashtable`: hash -> ids of its transactions, serialized in the `BlockchainInfo` row | `start_op`, `sign_op`, `end_op`, `op_query` | Fabric peers and orderer |
| Chaincode: `backoffice/src/chaincode/cc2.go` | key-value state: id -> record | `op_start`, `op_sign`, `op_end`, `op_query` | |
| Chaincode life cycle: `core/Blockchain.java` 22-234, 311-336, 574-740 | `currentVersion` (a double), `instantiated`, `chaincodeVersions` | `updateChaincode`, `upgradeChaincode`, two `downgradeChaincode` | Fabric peers and orderer |
| Backoffice controllers: `FireStarter.java`, `Entities/Chaincodes/*`, `WebService.java` | a static list of `Blockchain` objects, loaded at start-up; `BlockchainInfo` rows | install, upgrade, downgrade, save | `Blockchain`, database |
| Catalogue: `Entities/NotInstalledChaincode/*` | rows name -> Installed | refresh from the directory of chaincode sources | list of `Blockchain` objects |
| Accounts: `Entities/Users/*`, `Entities/App/*`, `client/.../repository/users`, `app`, `security` | `Users`, `App` rows, the session's principal | create, edit, delete, log in | everything that reads a user |
| Set-up, cryptography, utilities | none | | |

How a document is signed: the upload stores the document and its signers, the platform
signs the hash and sends `op_start`.  The index page shows the document to its current
signer together with `signedhash`, the last signature.  The browser signs *that* and posts
it; the server checks it against the row's `signedhash` with the user's certificate, sends
`op_sign`, stores the new `signedhash` and moves `nextsigner` on.  When there is no next
signer the platform sends `op_end` and the state becomes `FINALIZED AT ...`.  The server
never checks whose turn it is, nor the state: the order rests on the page and on the chain
of signatures.

### What is hard here

* **Whole-row writes.**  A request keeps its session open to its end and works on private
  copies of the document row and of the `BlockchainInfo` row.  A save flushes every changed
  row with all its columns, and no entity has a version column: the last writer wins.
  The row that holds `IDHashtable` is one for all documents of a chaincode.
* **Effects that are not in one transaction.**  A ledger transaction is sent in the middle
  of a request; an exception, a null list or a crash afterwards leaves it there.
* **Double posts and old pages.**  A form can be posted twice and a page can be old.
* **Unsynchronized administration.**  All administrators' requests change the one
  `Blockchain` object of a chaincode while they wait for the network, up to 100 seconds.
* **Late answers.**  The wait ends and the transaction commits afterwards.
* **Two programs, one row.**  The backoffice writes the object it loaded when it started; the
  client writes the copy a request read.  Each write replaces what the other stored.
* **Restarts.**  The backoffice may die between the network's answer and its save, and then
  works on from the row, while what was under way still reaches the network.
* **Merges.**  A log-in writes the whole account it read, and inserts it if it was removed.
* **Versions as doubles.**  Increments are rounded to one decimal, decrements are not.

`PROJECT.json` lists each of these, and the others we found, at its line ("hazards").

### What makes each component correct

* Signature cycle: users sign in turn and over the signature before theirs; a row agrees
  with the ledger; a document is finalized after its last signer, once, and for good; every
  signer gets to sign.
* Ledger operations: the ids listed under a hash are its history; a hash a page offers has one.
* Chaincode: fresh ids, so that no record overwrites another.
* Life cycle: the list of versions is consecutive; the network runs a recorded version and
  never an earlier one than before; a success message is true; upgrades get through.
* Backoffice rows: what is stored is never far from what the network runs; a restart goes on
  from there without taking the network back; what was stored is not wiped.
* Catalogue: a chaincode is marked installed iff it is in the list.
* Accounts: they are what the administrators made of them; nobody is locked out by another's row.

## 2. The modules

| Module | What it is |
|---|---|
| `SignatureLog` | abstract: what the ledger promises to its readers |
| `DocumentSigning` | the signature cycle with the database, the ledger and the browser |
| `MCDocumentSigning` | its instances for TLC |
| `DocumentSigningProofs` | theorems: types, the chain of signatures, `SignatureLog` implemented |
| `SigningOrderProofs` | theorems: users sign in the order of the list, rows stay consistent, a finalized document is fully signed |
| `SignatureHistoryProofs` | theorems: what is listed under a hash is true; with one thread, a hash on offer is listed and no end is forgotten |
| `PatientSigningProofs` | theorems for patient users: documents only advance, finalized ones stay, one end each, what the page shows |
| `SharedRow` | extends `DocumentSigning` with the backoffice, which writes its object over the row that holds `IDHashtable` |
| `MCSharedRow` | its instances for TLC |
| `SharedRowProofs` | theorems: what of the signature cycle survives those writes |
| `ReleaseRegister` | abstract: what one administrator at a time may rely on |
| `ChaincodeLifecycle` | install, instantiate, upgrade, downgrade against the network |
| `MCChaincodeLifecycle` | its instances for TLC |
| `ChaincodeLifecycleProofs` | theorems for one administrator at a time; types and the flag for any number |
| `BackofficeStore` | extends `ChaincodeLifecycle` with the shared rows, the client's copies, failed saves and restarts |
| `MCBackofficeStore` | its instances for TLC |
| `BackofficeStoreProofs` | theorems for one administrator at a time, any number of clients and restarts; without restarts, `ChaincodeLifecycle` implemented |
| `Accounts` | the `Users` table, edited by administrators while its owners log in |
| `MCAccounts` | its instance for TLC |
| `AccountsProofs` | theorems about it, for any constants |

### DocumentSigning

State: the `documents` table, the stored `IDHashtable` (`idTable`; `<<>>` is an absent key),
the `ledger` in the order the orderer accepts, the `forms` each user has open, and for each
server thread its `request`: the next step and the copies it holds.

A signature is the list of those who signed, each over the signature before:
`<<Platform, u1, u2>>`.  RSA with SHA-1 and PKCS #1 padding is deterministic, so equal
lists are equal signatures, and verifying the posted signature is comparing what the
browser signed with what the row now holds.

| Action | Code |
|---|---|
| `LoadIndex` | GET /index, `getAllPendentDocuments` |
| `NewSignature` | POST /newsignature as far as the commit of `addNewDocument` |
| `LookupChaincode` | `getChaincodeObject` |
| `StartOp`, `SaveStart` | `documentStartOP`: `start_op`, then the save |
| `SignDocument` | POST /signdocument as far as `verifySignature` |
| `SignOp`, `SaveSignature` | `sign_op`; the save and the test for a current signer |
| `EndOp`, `SaveEnd` | `documentEndOP`: `end_op`, then the save |
| `RequestFails` | an exception or the death of the server between any two of these |

One action is what happens between two points where another thread or server can be seen:
a read or a commit of the database, or a transaction sent.  `SendAndRecord` keeps the order
of `sign_op` and `end_op`: first the transaction, then the list, which may be missing.
`Flush` writes both rows.  `documentEndOP` finds the `BlockchainInfo` entity in the session
and so does not read it again.  A user may be `Patient` (one request at a time, and the
page is gone when its answer comes) or not (double posts, old pages).

A removed account that was still ticked becomes a null entry in the signers map, which
`setFollowingSigners` takes for the end of the list.  Combined with a double post, a later
signer can then be offered and sign a document that was finalized before.  So
`SignaturesFollowTheList` and `PendingRowIsConsistent` speak of lists without such an entry
(`AllPresent`), and `FinalizedIsFullySigned` says what remains true with one.

### SharedRow

Composes the signature cycle with the other program that writes the `BlockchainInfo` row.
State, beyond that of `DocumentSigning`: `loaded`, the `IDHashtable` of the object in the
backoffice's memory, and `saves`, their number so far.  The backoffice never changes that table
itself.  What its requests do to the chaincode is left to `BackofficeStore`; here only their
last step counts, and it may come between any two steps of the client's requests.

| Action | Code |
|---|---|
| `BackofficeStarts` | `WebService.getChaincodes`: start or restart, from the row |
| `BackofficeSaves` | `saveChaincodeChanges`, at the end of every upgrade and downgrade |
| `Next` of `DocumentSigning` | the client, as above |

`BackofficeStore` has the same overwriting with only the keys of the table; it shows what the
backoffice keeps, `SharedRow` what the signing users are left with.

### ChaincodeLifecycle

State: the three fields of the `Blockchain` object, each administrator's `request`
(installing, deploying, sent, committed), and the network: versions `installed`, the one
`running`, and the `late` transactions nobody waits for.  A version is its tenths and
whether the double is the one nearest to that decimal; `Inexact` holds the values where
subtracting 0.1 leaves it (computed in IEEE 754 arithmetic up to 4.0).

| Action | Code |
|---|---|
| `Update` (`FirstUpdate`, `UpgradeUpdate`) | `updateChaincode`, `upgradeChaincode` as far as the first network call |
| `InstallReturns`, `InstallThrows` | `install` and what follows it; failed responses are only logged |
| `Endorsed`, `Refused` | the proposal of `instantiate` or `upgrade` |
| `Committed`, `Invalidated`, `TimedOut` | `future.get(100, SECONDS)` |
| `Succeeds` | the success message |
| `LateCommit` | external: the orderer, after the wait |
| `DowngradeToPrevious`, `DowngradeTo` | the two `downgradeChaincode` |

A request is taken to run without pause between two network calls: interleavings of two
requests *within* such a stretch are not modelled.  The peers' rules are external: a
version must be installed, a chaincode can be instantiated once, an upgrade must change the
version, and a transaction endorsed before another one committed is invalid.

### BackofficeStore

Composes the life cycle with the database.  State, beyond that of `ChaincodeLifecycle` (whose
three fields are the backoffice's object in memory): the keys of its id table (`hashes`), what
each administrator's request has still to save (`saving`), the `rows` of the chaincode's name
and the `copy` each client request holds.  A row is the serialized object: every writer takes
all columns from one.  `mishaps` counts restarts and failed saves; `lost` is a history
variable: a save failed, or an object that lists fewer versions replaced one that lists more.

| Action | Code |
|---|---|
| `UpgradeChaincode`, `InstallChaincode`, `DowngradeChaincode` | the three requests as far as the first network call (an `Update` or `Downgrade` of the life cycle) |
| `Continue` | the rest of their network part (`Proceed` of the life cycle) |
| `SaveChaincodeChanges` | `findByBlockchain`, which takes the first row of the name, and the update of all its columns; without a row it throws |
| `NewChaincode` | the insertion that follows every install request, also a repeated or failed one |
| `SaveFails` | the database refuses: `/error`, and the object stays as it is |
| `Crash` | the backoffice dies and `WebService` loads the rows again; `getChaincode` finds the first of the name or makes an empty object; an installation or transaction under way may still reach the network |
| `Lookup`, `Flush`, `Abandon` | a client request: `getChaincodeObject`; the flush of a changed table at its end, or none |
| `LateCommit` | as in the life cycle |

"First" is the order in which the database returns rows, which no query fixes: any row.

### Accounts

State: the `users` table by `userid`, the edits and log-ins in progress with the entity each
read, the `principal` of each session.  A key stands for its owner's browser and certificate.
`intended` and `raced` are history: what the administrators last made of an account, and
whether a log-in held a copy of its row at that moment.

| Action | Code |
|---|---|
| `AddNewUser`, `DeleteUser` | POST `lists/users/edit` for a new user; GET `lists/users/delete/{id}` |
| `EditUser`, `SaveEdit` | the same POST for an old one: `findAll` and the fields of the form; then `save`.  An id that is not found leaves a fresh `Users`, which the save inserts |
| `Authenticate`, `RegisterUserLogin`, `LoginFails` | the search for the certificate's key; the merge of the row with the time of the log-in; its failure |
| `Leave` | the end of the session |

### The refinements

`DocumentSigning` implements `SignatureLog` with `log <- ledger`, `Signers <- Users`,
`Digests <- Hashes`.  Each `Send` is an `OpStart`, `OpSign` or `OpEnd` of the log; all else
stutters.  The log says what an auditor who reads only the ledger may rely on: fresh ids,
each user's signature over one recorded earlier for the same hash, and no `op_end` before
some `op_sign`.

`ChaincodeLifecycle` implements `ReleaseRegister` when one administrator works at a time, with
`released` the length of the list, `running` the place of the running version in it,
`inService` the flag `instantiated`, and `report` the version that a success message is about to
name.  `InstallReturns` is a `Release`, `Committed` a `RunReported`, `Succeeds` an
`Acknowledge`; `LateCommit` is a `RunLate` or a stutter, and everything else stutters: failures,
downgrades and the drift of the current version are not visible in it.

## 3. The runs

| Run | Instance | Asks |
|---|---|---|
| `signing_impatient` | 1 document, 3 users, 2 threads, 4 verified posts, 1 failure, removed accounts | order and consistency under double posts, old pages and a crash; the refinement |
| `signing_patient` | 2 documents of 1 or 2 files, 2 users, 2 threads, 4 posts, 1 failure, lossy orderer | what lost updates and lost transactions cannot break |
| `signing_serial` | 2 documents, 2 users, 1 thread, 5 posts, 1 failure, fairness | progress when requests do not overlap |
| `signing_lost_update` | 2 documents, 2 threads, no failure | **violated**: two uploads at once |
| `signing_reopened` | 1 document, 2 threads, impatient | **violated**: a form posted twice |
| `lifecycle_alone` | 1 administrator, 6 versions, 4 faults, fairness | the version list, the network and progress; the refinement |
| `lifecycle_together` | 2 administrators | **violated**: the success message |
| `lifecycle_late` | 1 administrator, 1 fault | **violated**: the flag tells whether it runs |
| `store_crashes` | 1 administrator, 1 client request, 1 hash, 1 row, 3 versions, 2 faults, 3 restarts or failed saves, fairness | what survives in the row, and progress after restarts |
| `store_regress` | the same without faults, 1 restart | **violated**: an upgrade increments |
| `shared_serial` | 2 documents of 1 or 2 files, 2 users, 1 thread, 4 posts, 1 failure, 2 saves | what still works when the client's requests do not overlap |
| `accounts_together` | 2 administrators, 2 owners, 1 application, 3 accounts | edits, removals and log-ins that interleave |

Deadlock is checked in all of them.

What the passing runs show, in words: however requests interleave, die, or are posted twice,
nobody's signature reaches the ledger out of turn, and a pending row carries exactly the
signatures that `nextsigner` has passed; the history a page reads may lose entries but never
tells of another document.  Users who wait for answers never see a document go back, closed
twice or finalized too early, and neither a save nor a restart of the backoffice changes that
(proved for any number of threads).  What such a save does break is the signing of documents
uploaded since the backoffice started, and, if the client's requests do not overlap, of no
others.  While no request fails, a document
that waits for nobody is finalized or has a request at work on it.  In the life cycle, the
drift of `currentVersion` never reaches the list of versions, because `upgradeChaincode` starts
from the last one recorded, and for the same reason no upgrade after a downgrade takes the
network back, and no upgrade is proposed that the channel must refuse because it runs nothing
or that very version: the branch that would retry an installed version is never taken with one
administrator at a time.  Through restarts and failed saves the row never falls two versions
behind the network, and only a lost save (or a second row of the name) can take the network
back; the backoffice wipes the client's ids, but none that were in its object when it started.
A save that failed, or an old object written over a newer one, makes a restart forget the version
that runs; the next upgrade proposes it again and is refused, and the one after it gets through
(`UpgradesSurviveCrashes`), unless the restart also forgot that the chaincode is instantiated.
Log-ins change accounts only if they had read the row before an administrator's change.

What the violated runs show (details in `PROJECT.json`, "findings"):

* `signing_lost_update`: both uploads read the row, the second save drops the first one's
  ids; the document stays on the page, and signing it fails after `op_sign` was sent.
* `signing_reopened`: the second post read the row before the first saved it, and writes its
  copy over the finalized row.
* `lifecycle_together`: one administrator's failed install sets the version to 0 while
  another's deployment succeeds; the message names version 0.0.
* `lifecycle_late`: the instantiation commits after its wait; every later request tries to
  instantiate again and is refused.
* `store_regress`: a client request reads the row, two upgrades are saved, the client's flush
  writes its old copy back, the backoffice restarts from it, and its next upgrade deploys 1.1
  over the running 1.2.

Three more disagreements have no run of their own.  `OfferedCanBeSigned` fails in `SharedRow`
without any two requests of the client at once: a document is uploaded, an upgrade ends and
writes back the table the backoffice had loaded before, and the next signer's `op_sign` is sent
by a request that then fails; TLC finds it within six states when the property is added to
`shared_serial`, and `LoadedCanBeSigned` says what is left of it.  And a downgrade changes the
backoffice's number only, not the version the network runs, although `core/Blockchain.java` 22
calls it "the version of the chaincode functioning": one step, seen in the code.  The "previous"
version of such a downgrade is the last but one of the list, whatever the current one is, so it
may raise the number, although line 23 says "downgrade will decrement": after two upgrades and a
downgrade to 1.0, "previous" is 1.1; and after two failed upgrades it is 1.1 while 1.0 runs.

Some hazards of `PROJECT.json` are what the code does, and no property excludes them; their notes
say which property bounds the damage instead:

* an account removed during an upload ends the list of signers early: `FinalizedIsFullySigned`
  asks for the signers before it;
* a log-in undoes an edit, or brings a removed account back: `AccountsAsIntended` allows both for
  accounts changed while a log-in held their row, and nothing else;
* an edit of a removed account makes a row without a certificate: `BlankRowsFollowRemovals` allows
  it after a removal only;
* a downgrade leaves the network where it is: `RunningNeverRegresses`, `CurrentIsNearRecorded`;
* a second row of one name: what is proved of any number of rows (`StoreVersionsConsecutive`,
  `StoreFollows`, `StoredInstantiated`).

Concurrent administrators are covered by `lifecycle_together` only, where the property fails; the
passing runs and most proofs of the life cycle have one.

### Bounds

`MaxPosts` bounds the posted signatures that verify: four let three signers sign with one
double post, or two documents be signed by two users; five allow one retry after the failure in
the serial run.  `MaxFailures = 1`: after a failure a request has no memory, and the ones
that follow start from rows and ledger, which the other interleavings reach as well.  Two
threads show every race of two requests.  `MaxVersions = 6` passes the two first values
where a decrement drifts (1.2 and 1.4); `MaxFaults = 4` allows a silent install failure, a
refusal, a timeout with its late commit and one more in one behaviour.  In `BackofficeStore`
three versions are the least with a version that can be lost, one before it and one after it;
`MaxMishaps = 3` lets a failed save, a restart and a second restart follow each other.
`MaxRows = 1` makes the runs affordable: with two rows the same properties held with
`MaxMishaps = 2` and no fault, and the theorems cover any number.  In `SharedRow` one save is enough
to wipe, and two let a restart reload a wiped table and save again; four posts
let two documents be signed by two users.  Its one thread is what `LoadedCanBeSigned` and
`EndIsUnderWay` need; the other properties also held with two threads, a lossy orderer, one save
and two posts, and the theorems cover any number.  In `Accounts`, `MaxIds = 3`
is one account, the one that a merge or a late edit inserts, and one between.  Symmetry is used
for threads, documents and hashes, only in runs without liveness; users differ (the
choices of signers name Bob and Cat).

### Fairness

`DocumentSigning`: weak fairness of a running request (server threads are scheduled, and
every network wait of the SDK is bounded), weak fairness of loading the page (a user comes
back), strong fairness of signing each document on offer (users alternate between reading
and posting, so the action is enabled again and again).  Nobody is obliged to upload.
`ChaincodeLifecycle`: weak fairness of a running request (waits end after 100 seconds) and
of an administrator asking again.  `LateCommit` is not fair.  `UpgradesGetThrough` starts
from an instantiated chaincode on purpose: after a silent failure of the *first* install,
version 1.0 is recorded and not installed, and every later request is refused.
`BackofficeStore`: weak fairness of the network part and the save of a request, strong fairness
of the upgrade request (an administrator may be busy with downgrades in between, but returns to
it).  Nothing obliges a client to act, or the backoffice to die: restarts end at `MaxMishaps`.

## 4. The proofs

TLAPS proves, for every value of the constants:

* `DocumentSigningProofs`, from the assumptions of `DocumentSigning` only:
  * `TypeCorrect`: `[]TypeOK`.  `TypeOK` is not inductive: ledger records need a hash in
    `Hashes`, and a failed upload stores `NoHash`.  `HashesKnown` adds that a running
    request's document has a real hash.
  * `LedgerChained`: `[]LedgerIsChained`, if the orderer loses nothing.  The ledger alone
    does not say why the next signature will be chained.  `RowsKnown` adds that the
    `signedhash` of every row is on the ledger under the row's hash, `RequestKnown` the same
    for the copies and posted signatures the requests hold, so a stale copy written back is
    known too.
  * `ImplementsLog`: `LogSpec`, if the orderer loses nothing; from the same invariant, one
    step per action.
* `SigningOrderProofs`, from the same assumptions: `SignersInOrder`
  (`[]SignaturesFollowTheList`) and `PendingRowsConsistent` (`[]PendingRowIsConsistent`), for
  impatient users and lossy orderers alike.  `OrderInv` says that a pending row *or copy* has
  the signature of the signers it has passed (`RowInOrder`), and that a form, however old,
  shows the signature before its user's place in the list (`FormInTurn`).  The lemma
  `SignatureToFacts` gives the rest: a signature's length tells whose turn follows, so a form
  that agrees with the row also agrees with its `nextsigner`, which the server never checks.
  `FinalizedSigned` (`[]FinalizedIsFullySigned`), if the orderer loses nothing: a reopened
  document may be signed and ended again in any order, so the invariant `FinalInv` is a
  disjunction for each document: either the ledger has what the property asks for (`Done`, which
  stays, since the ledger grows and lists do not change), or the row, every form and every copy
  of it still follow the list (`Orderly`).  The step that sends the `op_end` takes a document
  from the second to the first.  It stands on `OrderInv` and `ChainInv`.
* `SignatureHistoryProofs`, from the same assumptions: `HistoryTrue` (`[]HistoryIsTrue`).
  `HistoryInv` says it of the stored id table and of every copy a request holds; a copy that
  was true stays true while the ledger grows, because new ids are larger than all before.
  For one thread, `OfferedSignable` (`[]OfferedCanBeSigned`): a copy lists every hash the row
  lists (`CopyLists`), so the save that replaces the row drops none; `signing_lost_update`
  shows that a second thread defeats this.  For one thread again, `EndUnderWay`
  (`[]EndIsUnderWay`): `EndInv` says that, until a request fails, every document without a
  current signer is finalized (`Settled`) or has a request, that a request works on the row as it
  is, and that it begins only on a document that waits for somebody or is finalized
  (`WorksOnRow`).  It needs `CopiesInv`: the request finds the hash in its copy, so `end_op` does
  not fail for want of it.  The liveness property `FinalizedUnlessFailed` rests on this.
* `PatientSigningProofs`, for `Patient` users and any number of threads, with a lossy orderer or
  not: `OnlyAdvance` (`DocumentsOnlyAdvance`), `FinalizedStays` (`FinalizedIsFinal`), `OneEnd`
  (`[]OneEndPerDocument`, for finitely many documents) and `ShownIsFinal` (`[]ShownFinalizedIsFinal`).
  `PatientInv` says that the copy a
  request works on *is* the row: only the `Owner` of a document (whose turn it is, or who signed
  last) has a request on it, and owns no form meanwhile, so nobody else changes the row.
  `EndsInv` counts `op_end` records against documents that are complete and have no request
  about to send one (`Closed`).  `ShownInv` adds that no list of ids but that of the request
  about to save `FINALIZED` holds an `op_end` of an unfinished document.
  `signing_reopened` shows that `Patient` cannot be dropped for the first two.
* `SharedRowProofs`: what of all this survives the backoffice.  Every step of `SharedSpec` is a
  step of `DocumentSigning`, a start of the backoffice, or `Overwrites`, which changes the table
  and nothing else (`SharedSteps`); so each invariant above is taken over with a lemma for
  `Overwrites`, and what it says of the row's table is added for `loaded`.
  * `SharedTypeCorrect`, `SharedSignersInOrder`, and, if the orderer loses nothing,
    `SharedImplementsLog` and `SharedFinalizedSigned`: these rest on rows, forms and the ledger,
    and say nothing of the table.
  * `SharedHistoryTrue`: the table in the backoffice's memory is true as well
    (`SharedHistoryInv`), and stays true while the ledger grows.
  * `LoadedSignable` and `SharedEndUnderWay`, for one client thread: what `loaded` lists the row
    lists, and what the row lists a copy lists (`LoadedInv`).  A wiped row lists less, which the
    copies allow.  `OfferedCanBeSigned` itself is lost (section 3).
  * `SharedOnlyAdvance`, `SharedOneEnd` and `SharedShownIsFinal`, for patient users:
    `SharedShownInv` adds that `loaded` lists no `op_end` of a hash with an unfinished document.
* `ChaincodeLifecycleProofs`, for any number of administrators: `TypeCorrect` (`TypeOK` is
  inductive by itself), and `FlagRightUnlessLate`: as long as no transaction is late,
  `RunningIsInstantiated` holds.  `FlagInv` says that what runs was instantiated or has a
  request about to say so, and that an upgrade waits only for a chaincode that ran when it was
  endorsed.  Under the further assumption `Alone` (one administrator):
  `VersionsConsecutive`, `RunningRecorded`, `SuccessRuns`, `InstantiatedRuns`,
  `CurrentNearRecorded` (for at least one administrator) and `NeverRegresses`.  The inductive
  invariant has two parts.  `Shape` says for each phase of the one request how the current
  version relates to the list (`Resting`, `Installing`, `Deploying`); it holds whatever the
  network does, so it is inductive by itself and is used again for `BackofficeStore`.  `Inv`
  adds that late transactions carry recorded versions above their base (`NetworkInv`) and
  the same for the one a request waits for (`SentInv`).  `UpgradesEndorsable`
  (`[]UpgradesAreEndorsable`) needs more, because a late transaction can replace what runs while
  an upgrade is being proposed: `EndorsableInv` adds that neither what runs nor what is late is
  as new as the version proposed (`Proposed`).  `ImplementsRegister` (`RegisterSpec`) follows
  from `Inv`, one lemma per kind of step; the one that needs most is `LateCommit`: a late
  transaction must not replace a version while its success is being reported, which holds
  because it goes to a recorded version above its base, and none is above the one reported.
  `lifecycle_together` shows that
  `Alone` cannot be dropped for `SuccessRuns`.
* `BackofficeStoreProofs`, also under `Alone`, for any number of client requests, rows,
  versions, faults and restarts.  The invariants, each on top of the ones before:
  * `ObjectsInv`: every stored object and every copy looks like the backoffice's own between
    requests (`Sound`), so a restart from any of them has `Shape`: `StoreTypeCorrect`,
    `StoreVersionsConsecutive`.
  * `RunsInv`: whatever says "instantiated", something runs; late transactions carry released
    versions: `StoredInstantiated`.
  * `BoundsInv`: unless something was lost, neither the network nor a late transaction is more
    than one version beyond the longest row, nor the object in memory, which is so far only
    while a save is due: `StoreFollows`.
  * `AheadInv` and `ForwardInv`, for one row and nothing lost: the object lists no less than
    the row, and more when it is about to upgrade; hence every transaction sent goes to a
    later version than the one it was endorsed on: `Regression`.
  * `TableInv`, for one client request at a time (`OneClient`): the object's hashes are in the
    row and the row's in the copy: `StartUpSurvive`.

  For any number of administrators and behaviours without a restart, `StoreImplementsLifecycle`:
  the composition implements `ChaincodeLifecycle`, since a save or a step of a client changes
  neither the object nor the network (`StoreStep`); with `Alone`, `IncrementsUnlessRestarted`
  (`UpgradeIncrements` and `RegisterSpec`) follows.
* `AccountsProofs`, from the assumptions of `Accounts` only: `TypeCorrect`, `AsIntended` and
  `BlankAfterRemovals`.  `AsIntendedInv` adds to the property that ids are used once
  (`IdsInv`) and that every copy a log-in holds is explained like a row (`CopiesInv`);
  `BlankInv` adds the edits that are about to store a row without a certificate.

For each statement of the code that a violated run refutes, a theorem says when it does hold:

| Statement | Refuted by | Holds |
|---|---|---|
| `OfferedCanBeSigned` | `signing_lost_update`: two requests at once | one client thread (`OfferedSignable`) |
| `FinalizedIsFinal` | `signing_reopened`: a form posted twice | patient users (`FinalizedStays`) |
| `SuccessMeansRunning` | `lifecycle_together`: two administrators | one administrator (`SuccessRuns`) |
| `RunningIsInstantiated` | `lifecycle_late`: a transaction that commits after its wait | no transaction late, any number of administrators (`FlagRightUnlessLate`) |
| `UpgradeIncrements` | `store_regress`: a restart from an old copy | one administrator, no restart (`IncrementsUnlessRestarted`) |

Every safety property that a passing run checks is proved.  Model-checked only are the liveness
properties (`EverySignerSigns`, `FinalizedUnlessFailed`, `UpgradesGetThrough`,
`UpgradesSurviveCrashes`), which are beyond the prover.  `SharedRow` states no liveness: when the
backoffice has wiped a document's ids nobody can sign it any more, and for
the documents it had loaded the bound `MaxPosts` would end the attempts first.

## 5. Plan

Done: all modules of section 2, their runs and the proofs of section 4.

Left: a second application in `DocumentSigning`, for users who move between applications during
a session; two administrators in `BackofficeStore`, where the life cycle's own properties already
fail (`lifecycle_together`).

## 6. Not modelled

* The program is about 4000 lines of Java, the chaincode `cc2.go` and the page script
  `signature-performer.js`; the models stand for that code.  The other JavaScript of the
  repository, about 80000 lines, is copies of bootstrap, jQuery, DataTables and jsrsasign in
  sources and build outputs, which hold none of the program's logic.
* Cryptography and certificates: who can sign what is given by the abstraction above.
* Applications (name -> chaincode): rows are added and removed one at a time; `DocumentSigning`
  has the users of one application, and a lookup that fails is a `RequestFails`.
* The catalogue of chaincode sources: one request recomputes it from a directory and the list of
  objects; its rows only ever turn to Yes, and only its own page reads them.
* Log-in of the backoffice: a certificate looked up in a table, no state of its own.
* Interleavings of two administrators' requests inside one stretch between two network calls,
  and with restarts: `BackofficeStore` is checked for one administrator at a time.
* Two rows of one name in the runs of `BackofficeStore` (see Bounds; the proofs cover them).
* The ledger below `sendTransaction`: blocks, endorsement of signature transactions and
  their versions.  The chaincode's functions write one fresh key, so they never conflict.
* `op_query` failures: the page then shows an error and nothing changes.
* Names, descriptions, times, certificates' dates and the pages' layout.
* `fallback/Blockchain.java` (an earlier copy), build outputs, vendored code, prototypes.
