------------------------ MODULE BackofficeStoreProofs ------------------------
(***************************************************************************)
(* Theorems about BackofficeStore when one administrator works at a time:  *)
(* for any number of versions, faults, client requests, rows and restarts. *)
(* The last section is about any number of administrators, and no restart. *)
(*                                                                         *)
(* A step of the store is a step of the life cycle, a save, a restart or a *)
(* step of a client, so the invariant Shape of ChaincodeLifecycleProofs    *)
(* needs a new argument for restarts only.  What that module proves of the *)
(* network does not survive a restart: it is replaced by bounds that       *)
(* compare what runs with what some row lists.                             *)
(***************************************************************************)
EXTENDS BackofficeStore, ChaincodeLifecycleProofs, SequenceTheorems

(* What a stored object looks like: as the backoffice's own between requests. *)
Sound(b) ==
  /\ \A i \in DOMAIN b.chaincodeVersions : b.chaincodeVersions[i] = V(9 + i)
  /\ \/ Listed(b) = 0 /\ ~b.instantiated /\ b.currentVersion = Zero
     \/ Listed(b) = 1 /\ ~b.instantiated /\ b.currentVersion = V(10)
     \/ Listed(b) >= 1 /\ b.instantiated /\ b.currentVersion.tenths \in 10..(9 + Listed(b))

StoreTypes ==
  /\ hashes \subseteq Hashes
  /\ saving \in [Admins -> {"nothing", "changes", "new row"}]
  /\ rows \in Seq(Blockchain)
  /\ copy \in [Clients -> Copy \cup {NoCopy}]
  /\ mishaps \in 0..MaxMishaps
  /\ lost \in BOOLEAN

ObjectsInv ==
  /\ Shape
  /\ StoreTypes
  /\ \A i \in DOMAIN rows : Sound(rows[i])
  /\ \A c \in Clients : copy[c] # NoCopy =>
       copy[c].row \in DOMAIN rows /\ Sound(copy[c].blockchain)
  /\ \A a \in Admins : saving[a] = "nothing" => Idle(a)

----------------------------------------------------------------------------
(* Objects *)

LEMMA NewIsSound == NewBlockchain \in Blockchain /\ Sound(NewBlockchain) /\ Listed(NewBlockchain) = 0
BY VersionTypes DEF NewBlockchain, Blockchain, Sound, Listed

LEMMA MemoryIsSound ==
  ASSUME Shape, hashes \subseteq Hashes, NEW a \in Admins, Idle(a)
  PROVE  Memory \in Blockchain /\ Sound(Memory) /\ Listed(Memory) = Count
<1>1. TypeOK /\ VersionsAreConsecutive /\ Resting
  BY DEF Shape, RequestShape, Idle
<1>2. Memory \in Blockchain
  BY <1>1 DEF TypeOK, Memory, Blockchain
<1>3. Listed(Memory) = Count
  BY DEF Listed, Memory, Count
<1>4. /\ Memory.chaincodeVersions = chaincodeVersions
      /\ Memory.instantiated = instantiated /\ Memory.currentVersion = currentVersion
  BY DEF Memory
<1> QED
  BY <1>1, <1>2, <1>3, <1>4 DEF Sound, VersionsAreConsecutive, Resting

LEMMA CopyTypes ==
  /\ NoCopy \notin Copy
  /\ \A x \in Copy : x.blockchain \in Blockchain
  /\ \A b \in Blockchain : Listed(b) \in Nat /\ b.hashes \subseteq Hashes
BY DEF NoCopy, Copy, Blockchain, Listed

LEMMA ObjectsInit == StoreInit => ObjectsInv
<1> SUFFICES ASSUME StoreInit PROVE ObjectsInv
  OBVIOUS
<1>1. Shape
  BY InvInit DEF StoreInit, Inv
<1>2. StoreTypes
  <2>1. rows \in Seq(Blockchain)
    BY DEF StoreInit
  <2>2. mishaps \in 0..MaxMishaps
    BY StoreBoundsAreNatural DEF StoreInit
  <2> QED
    BY <2>1, <2>2 DEF StoreInit, StoreTypes
<1>3. rows = <<>> /\ DOMAIN rows = {}
  BY DEF StoreInit
<1> QED
  BY <1>1, <1>2, <1>3 DEF StoreInit, ObjectsInv, Init, Idle, NoRequest

----------------------------------------------------------------------------
(* The steps, as the proofs below see them *)

\* A step of the life cycle that a request of the backoffice makes.
NetworkStep(a) ==
  /\ \/ Proceed(a) /\ UNCHANGED saving
     \/ /\ saving[a] = "nothing" /\ saving'[a] \in {"changes", "new row"}
        /\ Update(a) \/ Downgrade(a) \/ UNCHANGED vars
  /\ \A b \in Admins : b # a => saving'[b] = saving[b]
  /\ UNCHANGED <<hashes, rows, copy, mishaps, lost>>

LEMMA NetworkSteps ==
  ASSUME StoreTypes, NEW a \in Admins,
         UpgradeChaincode(a) \/ InstallChaincode(a) \/ DowngradeChaincode(a) \/ Continue(a)
  PROVE  /\ NetworkStep(a)
         /\ saving' \in [Admins -> {"nothing", "changes", "new row"}]
<1>1. CASE Continue(a)
  BY <1>1 DEF Continue, NetworkStep, store, StoreTypes
<1>2. CASE UpgradeChaincode(a)
  BY <1>2 DEF UpgradeChaincode, Ready, Then, NetworkStep, StoreTypes
<1>3. CASE InstallChaincode(a)
  BY <1>3 DEF InstallChaincode, Ready, Then, NetworkStep, StoreTypes
<1>4. CASE DowngradeChaincode(a)
  BY <1>4 DEF DowngradeChaincode, Ready, Then, NetworkStep, StoreTypes
<1> QED
  BY <1>1, <1>2, <1>3, <1>4

LEMMA NetworkStepIsNext ==
  ASSUME NEW a \in Admins, NetworkStep(a)
  PROVE  [Next]_vars
BY DEF NetworkStep, Next

LEMMA NetworkObjects ==
  ASSUME Alone, ObjectsInv, NEW a \in Admins, NetworkStep(a),
         saving' \in [Admins -> {"nothing", "changes", "new row"}]
  PROVE  ObjectsInv'
<1>1. Shape'
  BY NetworkStepIsNext, ShapeNext DEF ObjectsInv
<1>2. UNCHANGED <<hashes, rows, copy, mishaps, lost>>
  BY DEF NetworkStep
<1>3. StoreTypes'
  BY <1>2 DEF ObjectsInv, StoreTypes
<1>4. saving'[a] = "nothing" => Idle(a)'
  <2>1. CASE saving'[a] = "nothing"
    <3>1. Idle(a) /\ Proceed(a)
      BY <2>1 DEF NetworkStep, ObjectsInv
    <3> QED
      BY <3>1 DEF Idle, Proceed, InstallReturns, InstallThrows, Endorsed, Refused, Committed,
                  Invalidated, TimedOut, Succeeds
  <2> QED
    BY <2>1
<1>5. \A i \in DOMAIN rows' : Sound(rows'[i])
  BY <1>2 DEF ObjectsInv
<1>6. \A c \in Clients : copy'[c] # NoCopy =>
        copy'[c].row \in DOMAIN rows' /\ Sound(copy'[c].blockchain)
  BY <1>2 DEF ObjectsInv
<1> QED
  BY <1>1, <1>3, <1>4, <1>5, <1>6 DEF Alone, ObjectsInv, Sound, Listed

LEMMA WriteFacts ==
  ASSUME StoreTypes, NEW i \in DOMAIN rows, NEW b \in Blockchain, Write(i, b)
  PROVE  /\ rows' = [rows EXCEPT ![i] = b] /\ rows' \in Seq(Blockchain)
         /\ DOMAIN rows' = DOMAIN rows /\ Len(rows') = Len(rows)
         /\ lost' \in BOOLEAN
         /\ ~lost' => ~lost /\ Listed(rows[i]) <= Listed(b)
                      /\ (rows[i].instantiated => b.instantiated)
<1>1. rows \in Seq(Blockchain) /\ i \in 1..Len(rows) /\ DOMAIN rows = 1..Len(rows)
  BY LenProperties DEF StoreTypes
<1>2. rows[i] \in Blockchain /\ Listed(rows[i]) \in Nat /\ Listed(b) \in Nat
  BY <1>1, ElementOfSeq, CopyTypes
<1>3. /\ rows' = [rows EXCEPT ![i] = b] /\ rows' \in Seq(Blockchain)
      /\ DOMAIN rows' = DOMAIN rows /\ Len(rows') = Len(rows)
  BY <1>1, ExceptSeq DEF Write
<1>4. lost' = (lost \/ Older(b, rows[i]))
  BY DEF Write
<1>5. lost' \in BOOLEAN /\ (~lost' => ~lost /\ ~Older(b, rows[i]))
  BY <1>4
<1>6. ~Older(b, rows[i]) =>
        Listed(rows[i]) <= Listed(b) /\ (rows[i].instantiated => b.instantiated)
  BY <1>2 DEF Older
<1> QED
  BY <1>2, <1>3, <1>5, <1>6

\* Every way of writing a row keeps the rows and the copies sound.
LEMMA WriteObjects ==
  ASSUME ObjectsInv, UNCHANGED vars, NEW i \in DOMAIN rows, NEW b \in Blockchain, Write(i, b),
         Sound(b), UNCHANGED <<hashes, mishaps>>,
         saving' \in [Admins -> {"nothing", "changes", "new row"}],
         \A a \in Admins : saving'[a] = "nothing" => Idle(a),
         \A c \in Clients : copy'[c] = copy[c] \/ copy'[c] = NoCopy,
         copy' \in [Clients -> Copy \cup {NoCopy}]
  PROVE  ObjectsInv'
<1>1. /\ rows' = [rows EXCEPT ![i] = b] /\ rows' \in Seq(Blockchain)
      /\ DOMAIN rows' = DOMAIN rows /\ lost' \in BOOLEAN
  BY WriteFacts DEF ObjectsInv
<1>2. Shape'
  BY ShapeStays DEF ObjectsInv
<1>3. StoreTypes'
  BY <1>1 DEF ObjectsInv, StoreTypes
<1>4. \A j \in DOMAIN rows' : Sound(rows'[j])
  BY <1>1 DEF ObjectsInv
<1>5. \A c \in Clients : copy'[c] # NoCopy =>
        copy'[c].row \in DOMAIN rows' /\ Sound(copy'[c].blockchain)
  BY <1>1 DEF ObjectsInv
<1>6. request' = request
  BY DEF vars
<1> QED
  BY <1>2, <1>3, <1>4, <1>5, <1>6 DEF ObjectsInv, Sound, Listed, Idle

LEMMA SaveChangesObjects ==
  ASSUME ObjectsInv, NEW a \in Admins, SaveChaincodeChanges(a)
  PROVE  ObjectsInv'
<1>1. Memory \in Blockchain /\ Sound(Memory)
  BY MemoryIsSound DEF ObjectsInv, StoreTypes, SaveChaincodeChanges
<1>2. UNCHANGED <<hashes, copy, mishaps>> /\ UNCHANGED vars
  BY DEF SaveChaincodeChanges
<1>3. /\ saving' \in [Admins -> {"nothing", "changes", "new row"}]
      /\ \A b \in Admins : saving'[b] = "nothing" => Idle(b)
  BY DEF SaveChaincodeChanges, ObjectsInv, StoreTypes
<1>4. ASSUME NEW i \in DOMAIN rows, Write(i, Memory) PROVE ObjectsInv'
  BY <1>1, <1>2, <1>3, <1>4, WriteObjects DEF ObjectsInv, StoreTypes
<1>5. CASE rows = <<>> /\ lost' = TRUE /\ UNCHANGED rows
  <2>1. Shape' /\ request' = request
    BY <1>2, ShapeStays DEF ObjectsInv, vars
  <2>2. StoreTypes'
    BY <1>2, <1>3, <1>5 DEF ObjectsInv, StoreTypes
  <2>3. \A j \in DOMAIN rows' : Sound(rows'[j])
    BY <1>5 DEF ObjectsInv
  <2>4. \A c \in Clients : copy'[c] # NoCopy =>
          copy'[c].row \in DOMAIN rows' /\ Sound(copy'[c].blockchain)
    BY <1>2, <1>5 DEF ObjectsInv
  <2> QED
    BY <1>3, <2>1, <2>2, <2>3, <2>4 DEF ObjectsInv, Sound, Listed, Idle
<1> QED
  BY <1>4, <1>5 DEF SaveChaincodeChanges

LEMMA AppendFacts ==
  ASSUME StoreTypes, NEW b \in Blockchain, rows' = Append(rows, b)
  PROVE  /\ rows' \in Seq(Blockchain) /\ Len(rows) \in Nat /\ Len(rows') = Len(rows) + 1
         /\ DOMAIN rows = 1..Len(rows) /\ DOMAIN rows' = 1..(Len(rows) + 1)
         /\ \A i \in DOMAIN rows : rows'[i] = rows[i]
         /\ rows'[Len(rows) + 1] = b
<1>1. rows \in Seq(Blockchain) /\ Len(rows) \in Nat /\ DOMAIN rows = 1..Len(rows)
  BY LenProperties DEF StoreTypes
<1>2. rows' \in Seq(Blockchain) /\ Len(rows') = Len(rows) + 1
  BY <1>1, AppendProperties
<1> QED
  BY <1>1, <1>2, AppendProperties, LenProperties

LEMMA NewChaincodeObjects ==
  ASSUME ObjectsInv, NEW a \in Admins, NewChaincode(a)
  PROVE  ObjectsInv'
<1>1. Memory \in Blockchain /\ Sound(Memory)
  BY MemoryIsSound DEF ObjectsInv, StoreTypes, NewChaincode
<1>2. UNCHANGED <<hashes, copy, mishaps, lost>> /\ UNCHANGED vars /\ rows' = Append(rows, Memory)
  BY DEF NewChaincode
<1>3. /\ rows' \in Seq(Blockchain) /\ Len(rows) \in Nat
      /\ DOMAIN rows = 1..Len(rows) /\ DOMAIN rows' = 1..(Len(rows) + 1)
      /\ \A i \in DOMAIN rows : rows'[i] = rows[i]
      /\ rows'[Len(rows) + 1] = Memory
  BY <1>1, <1>2, AppendFacts DEF ObjectsInv
<1>4. Shape' /\ request' = request
  BY <1>2, ShapeStays DEF ObjectsInv, vars
<1>5. /\ saving' \in [Admins -> {"nothing", "changes", "new row"}]
      /\ \A b \in Admins : saving'[b] = "nothing" => Idle(b)
  BY DEF NewChaincode, ObjectsInv, StoreTypes
<1>6. StoreTypes'
  BY <1>2, <1>3, <1>5 DEF ObjectsInv, StoreTypes
<1>7. \A j \in DOMAIN rows' : Sound(rows'[j])
  <2> SUFFICES ASSUME NEW j \in DOMAIN rows' PROVE Sound(rows'[j])
    OBVIOUS
  <2>1. j \in DOMAIN rows \/ j = Len(rows) + 1
    BY <1>3
  <2> QED
    BY <1>1, <1>3, <2>1 DEF ObjectsInv
<1>8. \A c \in Clients : copy'[c] # NoCopy =>
        copy'[c].row \in DOMAIN rows' /\ Sound(copy'[c].blockchain)
  BY <1>2, <1>3 DEF ObjectsInv
<1> QED
  BY <1>4, <1>5, <1>6, <1>7, <1>8 DEF ObjectsInv, Sound, Listed, Idle

\* Where no row is written.
LEMMA SameRowsObjects ==
  ASSUME ObjectsInv, Shape', rows' = rows, StoreTypes',
         \A c \in Clients : \/ copy'[c] = copy[c] \/ copy'[c] = NoCopy
                            \/ copy'[c].row \in DOMAIN rows /\ Sound(copy'[c].blockchain),
         \A a \in Admins : saving'[a] = "nothing" => request'[a].step = "idle"
  PROVE  ObjectsInv'
<1>1. \A c \in Clients : copy'[c] # NoCopy =>
        copy'[c].row \in DOMAIN rows' /\ Sound(copy'[c].blockchain)
  BY DEF ObjectsInv
<1>2. \A j \in DOMAIN rows' : Sound(rows'[j])
  BY DEF ObjectsInv
<1> QED
  BY <1>1, <1>2 DEF ObjectsInv, Sound, Listed, Idle

LEMMA MishapsCount ==
  ASSUME ObjectsInv, mishaps < MaxMishaps, mishaps' = mishaps + 1
  PROVE  mishaps' \in 0..MaxMishaps
<1>1. mishaps \in 0..MaxMishaps /\ MaxMishaps \in Nat
  BY StoreBoundsAreNatural DEF ObjectsInv, StoreTypes
<1> QED
  BY <1>1

LEMMA SaveFailsObjects ==
  ASSUME ObjectsInv, NEW a \in Admins, SaveFails(a)
  PROVE  ObjectsInv'
<1>1. UNCHANGED vars /\ UNCHANGED <<hashes, rows, copy>> /\ lost' = TRUE
  BY DEF SaveFails
<1>2. mishaps' \in 0..MaxMishaps
  BY MishapsCount DEF SaveFails
<1>3. /\ saving' \in [Admins -> {"nothing", "changes", "new row"}]
      /\ \A b \in Admins : saving'[b] = "nothing" => Idle(b)
  BY DEF SaveFails, ObjectsInv, StoreTypes
<1>4. Shape' /\ request' = request
  BY <1>1, ShapeStays DEF ObjectsInv, vars
<1>5. StoreTypes'
  BY <1>1, <1>2, <1>3 DEF ObjectsInv, StoreTypes
<1> QED
  BY <1>1, <1>3, <1>4, <1>5, SameRowsObjects DEF Idle

LEMMA LookupObjects ==
  ASSUME ObjectsInv, NEW c \in Clients, Lookup(c)
  PROVE  ObjectsInv'
<1>1. PICK i \in DOMAIN rows : copy' = [copy EXCEPT ![c] = [row |-> i, blockchain |-> rows[i]]]
  BY DEF Lookup
<1>2. UNCHANGED vars /\ UNCHANGED <<hashes, saving, rows, mishaps, lost>>
  BY DEF Lookup
<1>3. i \in Nat /\ rows[i] \in Blockchain
  <2>1. rows \in Seq(Blockchain)
    BY DEF ObjectsInv, StoreTypes
  <2>2. Len(rows) \in Nat /\ i \in 1..Len(rows)
    BY <2>1, LenProperties
  <2> QED
    BY <2>1, <2>2, ElementOfSeq
<1>4. [row |-> i, blockchain |-> rows[i]] \in Copy
  BY <1>3 DEF Copy
<1>5. StoreTypes'
  BY <1>1, <1>2, <1>4 DEF ObjectsInv, StoreTypes
<1>6. Shape' /\ request' = request
  BY <1>2, ShapeStays DEF ObjectsInv, vars
<1>7. Sound(rows[i])
  BY DEF ObjectsInv
<1>8. \A d \in Clients : \/ copy'[d] = copy[d]
                         \/ copy'[d].row \in DOMAIN rows /\ Sound(copy'[d].blockchain)
  BY <1>1, <1>7 DEF ObjectsInv, StoreTypes
<1> QED
  BY <1>2, <1>5, <1>6, <1>8, SameRowsObjects DEF ObjectsInv, Idle

LEMMA AbandonObjects ==
  ASSUME ObjectsInv, NEW c \in Clients, Abandon(c)
  PROVE  ObjectsInv'
<1>1. UNCHANGED vars /\ UNCHANGED <<hashes, saving, rows, mishaps, lost>>
  BY DEF Abandon
<1>2. /\ copy' \in [Clients -> Copy \cup {NoCopy}]
      /\ \A d \in Clients : copy'[d] = copy[d] \/ copy'[d] = NoCopy
  BY DEF Abandon, ObjectsInv, StoreTypes
<1>3. StoreTypes'
  BY <1>1, <1>2 DEF ObjectsInv, StoreTypes
<1>4. Shape' /\ request' = request
  BY <1>1, ShapeStays DEF ObjectsInv, vars
<1> QED
  BY <1>1, <1>2, <1>3, <1>4, SameRowsObjects DEF ObjectsInv, Idle

\* What a client writes: its copy with one more hash.
LEMMA FlushFacts ==
  ASSUME ObjectsInv, NEW c \in Clients, Flush(c)
  PROVE  \E b \in Blockchain :
           /\ Write(copy[c].row, b) /\ copy[c].row \in DOMAIN rows
           /\ Sound(b) /\ Listed(b) = Listed(copy[c].blockchain)
           /\ b.instantiated = copy[c].blockchain.instantiated
           /\ copy[c].blockchain.hashes \subseteq b.hashes
<1> DEFINE o == copy[c].blockchain
<1>1. o \in Blockchain /\ Sound(o) /\ copy[c].row \in DOMAIN rows
  BY CopyTypes DEF Flush, ObjectsInv, StoreTypes
<1>2. PICK h \in Hashes : Write(copy[c].row, [o EXCEPT !.hashes = @ \cup {h}])
  BY DEF Flush
<1> HIDE DEF o
<1> DEFINE b == [o EXCEPT !.hashes = @ \cup {h}]
<1>3. /\ b \in Blockchain /\ o.hashes \subseteq b.hashes
      /\ b.chaincodeVersions = o.chaincodeVersions /\ b.instantiated = o.instantiated
      /\ b.currentVersion = o.currentVersion
  BY <1>1 DEF Blockchain
<1>4. Sound(b) /\ Listed(b) = Listed(o)
  BY <1>1, <1>3 DEF Sound, Listed
<1> QED
  BY <1>1, <1>2, <1>3, <1>4 DEF o

LEMMA FlushObjects ==
  ASSUME ObjectsInv, NEW c \in Clients, Flush(c)
  PROVE  ObjectsInv'
<1>1. PICK b \in Blockchain :
           Write(copy[c].row, b) /\ copy[c].row \in DOMAIN rows /\ Sound(b)
  BY FlushFacts
<1>2. UNCHANGED vars /\ UNCHANGED <<hashes, saving, mishaps>>
  BY DEF Flush
<1>3. /\ copy' \in [Clients -> Copy \cup {NoCopy}]
      /\ \A d \in Clients : copy'[d] = copy[d] \/ copy'[d] = NoCopy
  BY DEF Flush, ObjectsInv, StoreTypes
<1>4. /\ saving' \in [Admins -> {"nothing", "changes", "new row"}]
      /\ \A a \in Admins : saving'[a] = "nothing" => Idle(a)
  BY <1>2 DEF ObjectsInv, StoreTypes
<1> QED
  BY <1>1, <1>2, <1>3, <1>4, WriteObjects

\* A restart: the object is one that was stored, and no request is left.
LEMMA LoadShape ==
  ASSUME Shape, NEW b \in Blockchain, Sound(b), Load(b),
         request' = [a \in Admins |-> NoRequest], UNCHANGED <<running, faults>>,
         installed' \subseteq Double, late' \subseteq [base : Double, version : Double]
  PROVE  Shape' /\ Count' = Listed(b) /\ hashes' = b.hashes
<1>1. /\ currentVersion' = b.currentVersion /\ instantiated' = b.instantiated
      /\ chaincodeVersions' = b.chaincodeVersions /\ hashes' = b.hashes
  BY DEF Load
<1>2. /\ b.currentVersion \in Double /\ b.instantiated \in BOOLEAN
      /\ b.chaincodeVersions \in Seq(Double)
  BY DEF Blockchain
<1>3. Count' = Listed(b)
  BY <1>1 DEF Count, Listed
<1>4. request' \in [Admins -> Request \cup {NoRequest}]
  OBVIOUS
<1>5. TypeOK'
  BY <1>1, <1>2, <1>4 DEF Shape, TypeOK
<1>6. VersionsAreConsecutive' /\ Resting'
  BY <1>1, <1>3 DEF Sound, VersionsAreConsecutive, Resting
<1>7. \A a \in Admins : RequestShape(request[a])'
  BY <1>6 DEF RequestShape, NoRequest
<1> QED
  BY <1>1, <1>3, <1>5, <1>6, <1>7 DEF Shape

\* What a restart loads and what it leaves on its way to the peers.
LEMMA CrashFacts ==
  ASSUME ObjectsInv, Crash
  PROVE  /\ Shape'
         /\ \/ \E i \in DOMAIN rows : Count' = Listed(rows[i]) /\ Load(rows[i])
            \/ rows = <<>> /\ Count' = 0 /\ Load(NewBlockchain)
         /\ hashes' \subseteq Hashes
<1>1. \A a \in Admins : request[a] # NoRequest => request[a] \in Request
  BY DEF ObjectsInv, Shape, TypeOK
<1>2. installed' \subseteq Double
  <2>1. PICK done \in SUBSET { a \in Admins : request[a].step = "installing" } :
               installed' = installed \cup { request[a].version : a \in done }
    BY DEF Crash
  <2>2. \A a \in done : request[a].version \in Double
    BY <1>1, <2>1 DEF NoRequest, Request
  <2> QED
    BY <2>1, <2>2 DEF ObjectsInv, Shape, TypeOK
<1>3. late' \subseteq [base : Double, version : Double]
  <2>1. \A a \in Admins : request[a].step = "sent" =>
          request[a].version \in Double /\ request[a].base \in Double
    BY <1>1 DEF NoRequest, Request
  <2> QED
    BY <2>1 DEF Crash, ObjectsInv, Shape, TypeOK
<1>4. request' = [a \in Admins |-> NoRequest] /\ UNCHANGED <<running, faults>>
  BY DEF Crash
<1>5. ASSUME NEW b \in Blockchain, Sound(b), Load(b)
      PROVE  Shape' /\ Count' = Listed(b) /\ hashes' \subseteq Hashes
  BY <1>2, <1>3, <1>4, <1>5, LoadShape, CopyTypes DEF ObjectsInv
<1>6. CASE rows = <<>> /\ Load(NewBlockchain)
  BY <1>5, <1>6, NewIsSound
<1>7. ASSUME NEW i \in DOMAIN rows, Load(rows[i])
      PROVE  Shape' /\ Count' = Listed(rows[i]) /\ hashes' \subseteq Hashes
  <2>1. rows[i] \in Blockchain
    <3>1. rows \in Seq(Blockchain)
      BY DEF ObjectsInv, StoreTypes
    <3> QED
      BY <3>1, LenProperties, ElementOfSeq
  <2> QED
    BY <1>5, <1>7, <2>1 DEF ObjectsInv
<1> QED
  BY <1>6, <1>7 DEF Crash

LEMMA CrashObjects ==
  ASSUME ObjectsInv, Crash
  PROVE  ObjectsInv'
<1>1. Shape' /\ hashes' \subseteq Hashes
  BY CrashFacts
<1>2. UNCHANGED <<rows, copy, lost>> /\ mishaps' \in 0..MaxMishaps
  BY MishapsCount DEF Crash
<1>3. saving' = [a \in Admins |-> "nothing"] /\ request' = [a \in Admins |-> NoRequest]
  BY DEF Crash
<1>4. StoreTypes'
  BY <1>1, <1>2, <1>3 DEF ObjectsInv, StoreTypes
<1> QED
  BY <1>1, <1>2, <1>3, <1>4, SameRowsObjects DEF NoRequest

LEMMA LateCommitObjects ==
  ASSUME ObjectsInv, LateCommit, UNCHANGED store
  PROVE  ObjectsInv'
<1>1. Shape' /\ request' = request
  BY LateCommitShape DEF ObjectsInv, LateCommit
<1>2. UNCHANGED <<hashes, saving, rows, copy, mishaps, lost>>
  BY DEF store
<1>3. StoreTypes'
  BY <1>2 DEF ObjectsInv, StoreTypes
<1> QED
  BY <1>1, <1>2, <1>3, SameRowsObjects DEF ObjectsInv, Idle

LEMMA StutterObjects ==
  ASSUME ObjectsInv, UNCHANGED allVars
  PROVE  ObjectsInv'
<1>1. UNCHANGED vars /\ UNCHANGED <<hashes, saving, rows, copy, mishaps, lost>>
  BY DEF allVars, store
<1>2. Shape' /\ request' = request
  BY <1>1, ShapeStays DEF ObjectsInv, vars
<1>3. StoreTypes'
  BY <1>1 DEF ObjectsInv, StoreTypes
<1> QED
  BY <1>1, <1>2, <1>3, SameRowsObjects DEF ObjectsInv, Idle

LEMMA ObjectsNext ==
  ASSUME Alone, ObjectsInv, [StoreNext]_allVars
  PROVE  ObjectsInv'
<1>1. ASSUME NEW a \in Admins, Administration(a) PROVE ObjectsInv'
  <2>1. CASE Save(a)
    BY <2>1, SaveChangesObjects, NewChaincodeObjects, SaveFailsObjects DEF Save
  <2>2. CASE UpgradeChaincode(a) \/ InstallChaincode(a) \/ DowngradeChaincode(a) \/ Continue(a)
    BY <2>2, NetworkSteps, NetworkObjects DEF ObjectsInv
  <2> QED
    BY <1>1, <2>1, <2>2 DEF Administration
<1>2. ASSUME NEW c \in Clients, Service(c) PROVE ObjectsInv'
  BY <1>2, LookupObjects, FlushObjects, AbandonObjects DEF Service
<1> QED
  BY <1>1, <1>2, CrashObjects, LateCommitObjects, StutterObjects DEF StoreNext

\* With one administrator at a time the object, the rows and the copies have their types,
\* through restarts and whatever is written over what.
THEOREM StoreTypeCorrect == ASSUME Alone PROVE StoreSpec => []StoreTypeOK
<1>1. ObjectsInv /\ [StoreNext]_allVars => ObjectsInv'
  BY ObjectsNext
<1>2. ObjectsInv => StoreTypeOK
  BY DEF ObjectsInv, Shape, StoreTypes, StoreTypeOK
<1> QED
  BY <1>1, <1>2, ObjectsInit, PTL DEF StoreSpec

\* The versions of the object stay 1.0, 1.1, ..., whichever row a restart loads.
THEOREM StoreVersionsConsecutive == ASSUME Alone PROVE StoreSpec => []VersionsAreConsecutive
<1>1. ObjectsInv /\ [StoreNext]_allVars => ObjectsInv'
  BY ObjectsNext
<1>2. ObjectsInv => VersionsAreConsecutive
  BY DEF ObjectsInv, Shape
<1> QED
  BY <1>1, <1>2, ObjectsInit, PTL DEF StoreSpec

----------------------------------------------------------------------------
(* What a request may change between two states *)

Starts(a) ==
  /\ saving[a] = "nothing"
  /\ UNCHANGED <<running, late, instantiated>> /\ Count' = Count
  /\ \/ request'[a].step \in {"idle", "installing"}
     \/ request'[a].step = "deploying" /\ request'[a].kind = "first"

Installs(a) ==
  /\ request[a].step = "installing" /\ request'[a].step = "deploying"
  /\ UNCHANGED <<running, late, instantiated>> /\ Count' = Count + 1

Ends(a) ==
  /\ request'[a].step = "idle" /\ ~Idle(a)
  /\ UNCHANGED running /\ Count' = Count
  /\ instantiated' # instantiated => request[a].step = "committed"
  /\ \/ late' = late
     \/ /\ request[a].step = "sent"
        /\ late' = late \cup {[base |-> request[a].base, version |-> request[a].version]}

Endorses(a) ==
  /\ request[a].step = "deploying" /\ Deployable(request[a])
  /\ request'[a].step = "sent" /\ request'[a].base = running
  /\ request'[a].kind = request[a].kind /\ request'[a].version = request[a].version
  /\ UNCHANGED <<running, late, instantiated>> /\ Count' = Count

Commits(a) ==
  /\ request[a].step = "sent" /\ request'[a].step = "committed"
  /\ running = request[a].base /\ running' = request[a].version
  /\ UNCHANGED <<late, instantiated>> /\ Count' = Count

LEMMA UpdateStarts ==
  ASSUME Alone, Shape, NEW a \in Admins, Update(a), saving[a] = "nothing"
  PROVE  Starts(a)
<1>1. TypeOK /\ VersionsAreConsecutive /\ Shape'
  BY UpdateShape DEF Shape
<1>2. UNCHANGED <<running, late, instantiated, chaincodeVersions>> /\ Count' = Count
  BY DEF Update, network, Count
<1>3. CASE FirstUpdate(a)
  BY <1>1, <1>2, <1>3 DEF FirstUpdate, Call, Starts, TypeOK
<1>4. CASE UpgradeUpdate(a)
  <2>1. PICK step \in {"installing", "deploying"} :
          /\ request'[a].step = step
          /\ currentVersion' = (IF Last(chaincodeVersions) = Zero THEN V(10)
                                ELSE Incremented(Last(chaincodeVersions)))
          /\ chaincodeVersions # <<>>
    BY <1>1, <1>4 DEF UpgradeUpdate, Call, TypeOK
  <2>2. Count \in Nat /\ Count >= 1 /\ Last(chaincodeVersions) = V(9 + Count)
    BY <1>1, <2>1, RecordedVersions
  <2>3. currentVersion'.tenths = 10 + Count
    BY <2>1, <2>2, VersionTypes DEF Incremented
  <2>4. request'[a].step # "deploying"
    <3>1. request'[a].step = "deploying" => currentVersion' = V(9 + Count)
      BY <1>1, <1>2 DEF Shape, RequestShape, Deploying
    <3>2. V(9 + Count).tenths = 9 + Count
      BY <2>2, VersionTypes
    <3> QED
      BY <2>2, <2>3, <3>1, <3>2
  <2> QED
    BY <1>2, <2>1, <2>4 DEF Starts
<1> QED
  BY <1>3, <1>4 DEF Update

LEMMA ProceedMoves ==
  ASSUME Alone, Shape, NEW a \in Admins, Proceed(a)
  PROVE  Installs(a) \/ Ends(a) \/ Endorses(a) \/ Commits(a)
<1>1. TypeOK /\ request \in [Admins -> Request \cup {NoRequest}]
  BY DEF Shape, TypeOK
<1>2. CASE InstallReturns(a)
  <2>1. Count' = Count + 1
    BY <1>1, <1>2 DEF InstallReturns, TypeOK, Count
  <2>2. request'[a].step = "deploying"
    BY <1>1, <1>2 DEF InstallReturns, Call
  <2> QED
    BY <1>2, <2>1, <2>2 DEF InstallReturns, Installs
<1>3. CASE InstallThrows(a)
  BY <1>1, <1>3, InstallThrowsShape, ReturnType DEF InstallThrows, Ends, Idle, Count
<1>4. CASE Refused(a) \/ Invalidated(a)
  BY <1>1, <1>4, ReturnType DEF Refused, Invalidated, DeployFails, Ends, Idle, network, Count
<1>5. CASE TimedOut(a)
  BY <1>1, <1>5, ReturnType DEF TimedOut, DeployFails, Ends, Idle, Count
<1>6. CASE Succeeds(a)
  BY <1>1, <1>6, ReturnType DEF Succeeds, Ends, Idle, network, Count
<1>7. CASE Endorsed(a)
  BY <1>7, EndorsedShape DEF Endorsed, Endorses, blockchain, network, Count
<1>8. CASE Committed(a)
  BY <1>8, CommittedShape DEF Committed, Commits, blockchain, Count
<1> QED
  BY <1>2, <1>3, <1>4, <1>5, <1>6, <1>7, <1>8 DEF Proceed

LEMMA RequestMoves ==
  ASSUME Alone, ObjectsInv, NEW a \in Admins, NetworkStep(a)
  PROVE  Starts(a) \/ ((Installs(a) \/ Ends(a) \/ Endorses(a) \/ Commits(a)) /\ saving' = saving)
<1>1. Shape
  BY DEF ObjectsInv
<1>2. CASE Proceed(a) /\ UNCHANGED saving
  BY <1>1, <1>2, ProceedMoves
<1>3. ASSUME saving[a] = "nothing", Update(a) PROVE Starts(a)
  BY <1>1, <1>3, UpdateStarts
<1>4. ASSUME saving[a] = "nothing", Downgrade(a) \/ UNCHANGED vars PROVE Starts(a)
  <2>1. UNCHANGED <<running, late, instantiated, chaincodeVersions, request>>
    BY <1>4 DEF Downgrade, DowngradeToPrevious, DowngradeTo, network, vars
  <2>2. Idle(a)
    BY <1>4 DEF ObjectsInv
  <2> QED
    BY <1>4, <2>1, <2>2 DEF Starts, Idle, Count
<1> QED
  BY <1>2, <1>3, <1>4 DEF NetworkStep

----------------------------------------------------------------------------
(* What runs is what was once deployed; what is said to be instantiated runs *)

Released(v) == \E t \in Nat : t >= 10 /\ v = V(t)

RunsInv ==
  /\ running = Zero \/ Released(running)
  /\ \A tx \in late : Released(tx.version)
  /\ instantiated => running # Zero
  /\ \A a \in Admins : request[a].step = "committed" => running # Zero
  /\ \A i \in DOMAIN rows : rows[i].instantiated => running # Zero
  /\ \A c \in Clients : copy[c] # NoCopy /\ copy[c].blockchain.instantiated => running # Zero

LEMMA ReleasedFacts ==
  ASSUME NEW v, Released(v)
  PROVE  v # Zero /\ v \in Double /\ v.tenths \in Nat /\ v.tenths >= 10 /\ v = V(v.tenths)
<1>1. PICK t \in Nat : t >= 10 /\ v = V(t)
  BY DEF Released
<1> QED
  BY <1>1, VersionTypes

\* What a transaction carries that a request waits for.
LEMMA SentIsReleased ==
  ASSUME Shape, NEW a \in Admins, request[a].step \in {"deploying", "sent"}
  PROVE  /\ request[a].version = V(9 + Count) /\ request[a].version.tenths = 9 + Count
         /\ Released(request[a].version)
         /\ Count \in Nat /\ Count >= 1
         /\ request[a] \in Request
<1>1. Deploying(request[a]) /\ request[a] \in Request
  BY DEF Shape, RequestShape, TypeOK, NoRequest
<1>2. Count \in Nat /\ Count >= 1
  BY <1>1, RecordedVersions DEF Shape, Deploying
<1>3. V(9 + Count).tenths = 9 + Count /\ 9 + Count \in Nat /\ 9 + Count >= 10
  BY <1>2, VersionTypes
<1> QED
  BY <1>1, <1>2, <1>3 DEF Deploying, Released

LEMMA NetworkRuns ==
  ASSUME Alone, ObjectsInv, RunsInv, NEW a \in Admins, NetworkStep(a)
  PROVE  RunsInv'
<1>1. UNCHANGED <<rows, copy>>
  BY DEF NetworkStep
<1>2. \A b \in Admins : b = a
  BY DEF Alone
<1>3. ASSUME UNCHANGED <<running, late, instantiated>>, request'[a].step # "committed"
      PROVE  RunsInv'
  BY <1>1, <1>2, <1>3 DEF RunsInv
<1>4. CASE Ends(a)
  <2>1. \A tx \in late' : Released(tx.version)
    BY <1>4, SentIsReleased DEF Ends, RunsInv, ObjectsInv
  <2>2. instantiated' => running # Zero
    BY <1>4 DEF Ends, RunsInv
  <2> QED
    BY <1>1, <1>2, <1>4, <2>1, <2>2 DEF Ends, RunsInv
<1>5. CASE Commits(a)
  <2>1. Released(running') /\ running' # Zero
    BY <1>5, SentIsReleased, ReleasedFacts DEF Commits, ObjectsInv
  <2> QED
    BY <1>1, <1>2, <1>5, <2>1 DEF Commits, RunsInv
<1> QED
  BY <1>3, <1>4, <1>5, RequestMoves DEF Starts, Installs, Endorses

\* Where the network stays as it is and no flag appears that was not there.
LEMMA QuietRuns ==
  ASSUME RunsInv, running' = running, request' = request, late' = late,
         instantiated' = instantiated,
         \A i \in DOMAIN rows' : rows'[i].instantiated => running # Zero,
         \A c \in Clients : copy'[c] # NoCopy /\ copy'[c].blockchain.instantiated => running # Zero
  PROVE  RunsInv'
BY DEF RunsInv

LEMMA SaveRuns ==
  ASSUME ObjectsInv, RunsInv, NEW a \in Admins, Save(a)
  PROVE  RunsInv'
<1>1. UNCHANGED <<running, request, late, instantiated, copy>>
  BY DEF Save, SaveChaincodeChanges, NewChaincode, SaveFails, vars
<1>2. Memory.instantiated => running # Zero
  BY DEF Memory, RunsInv
<1>3. ASSUME Idle(a) PROVE Memory \in Blockchain
  BY <1>3, MemoryIsSound DEF ObjectsInv, StoreTypes
<1>4. \A i \in DOMAIN rows' : rows'[i].instantiated => running # Zero
  <2>1. CASE SaveChaincodeChanges(a)
    <3>1. ASSUME NEW i \in DOMAIN rows, Write(i, Memory)
          PROVE  \A j \in DOMAIN rows' : rows'[j].instantiated => running # Zero
      BY <1>2, <1>3, <2>1, <3>1, WriteFacts DEF RunsInv, ObjectsInv, SaveChaincodeChanges
    <3> QED
      BY <2>1, <3>1 DEF SaveChaincodeChanges, RunsInv
  <2>2. CASE NewChaincode(a)
    <3>1. /\ DOMAIN rows = 1..Len(rows) /\ DOMAIN rows' = 1..(Len(rows) + 1)
          /\ \A i \in DOMAIN rows : rows'[i] = rows[i]
          /\ rows'[Len(rows) + 1] = Memory /\ Len(rows) \in Nat
      BY <1>3, <2>2, AppendFacts DEF NewChaincode, ObjectsInv
    <3>2. \A i \in DOMAIN rows' : i \in DOMAIN rows \/ i = Len(rows) + 1
      BY <3>1
    <3> QED
      BY <1>2, <3>1, <3>2 DEF RunsInv
  <2>3. CASE SaveFails(a)
    BY <2>3 DEF SaveFails, RunsInv
  <2> QED
    BY <2>1, <2>2, <2>3 DEF Save
<1> QED
  BY <1>1, <1>4, QuietRuns DEF RunsInv

LEMMA ServiceRuns ==
  ASSUME ObjectsInv, RunsInv, NEW c \in Clients, Service(c)
  PROVE  RunsInv'
<1>1. UNCHANGED <<running, request, late, instantiated>>
  BY DEF Service, Lookup, Flush, Abandon, vars
<1>2. CASE Lookup(c)
  <2>1. PICK i \in DOMAIN rows : copy' = [copy EXCEPT ![c] = [row |-> i, blockchain |-> rows[i]]]
    BY <1>2 DEF Lookup
  <2>2. \A d \in Clients : copy'[d] = copy[d] \/ copy'[d].blockchain = rows[i]
    BY <2>1 DEF ObjectsInv, StoreTypes
  <2> QED
    BY <1>1, <1>2, <2>2, QuietRuns DEF Lookup, RunsInv
<1>3. CASE Flush(c)
  <2>1. PICK b \in Blockchain :
             /\ Write(copy[c].row, b) /\ copy[c].row \in DOMAIN rows
             /\ b.instantiated = copy[c].blockchain.instantiated
    BY <1>3, FlushFacts
  <2>2. rows' = [rows EXCEPT ![copy[c].row] = b] /\ DOMAIN rows' = DOMAIN rows
    BY <2>1, WriteFacts DEF ObjectsInv
  <2>3. \A i \in DOMAIN rows' : rows'[i].instantiated => running # Zero
    BY <1>3, <2>1, <2>2 DEF RunsInv, Flush
  <2>4. \A d \in Clients : copy'[d] = copy[d] \/ copy'[d] = NoCopy
    BY <1>3 DEF Flush, ObjectsInv, StoreTypes
  <2> QED
    BY <1>1, <2>3, <2>4, QuietRuns DEF RunsInv
<1>4. CASE Abandon(c)
  <2>1. \A d \in Clients : copy'[d] = copy[d] \/ copy'[d] = NoCopy
    BY <1>4 DEF Abandon, ObjectsInv, StoreTypes
  <2> QED
    BY <1>1, <1>4, <2>1, QuietRuns DEF Abandon, RunsInv
<1> QED
  BY <1>2, <1>3, <1>4 DEF Service

LEMMA CrashRuns ==
  ASSUME ObjectsInv, RunsInv, Crash
  PROVE  RunsInv'
<1>1. UNCHANGED <<running, rows, copy>>
  BY DEF Crash
<1>2. request' = [a \in Admins |-> NoRequest]
  BY DEF Crash
<1>3. instantiated' => running # Zero
  BY CrashFacts DEF Load, NewBlockchain, RunsInv
<1>4. \A tx \in late' : Released(tx.version)
  BY SentIsReleased DEF Crash, RunsInv, ObjectsInv
<1> QED
  BY <1>1, <1>2, <1>3, <1>4 DEF RunsInv, NoRequest

LEMMA LateCommitRuns ==
  ASSUME RunsInv, LateCommit, UNCHANGED store
  PROVE  RunsInv'
<1>1. PICK tx \in late :
           /\ late' = late \ {tx}
           /\ running' = IF running = tx.base THEN tx.version ELSE running
           /\ UNCHANGED <<blockchain, request, installed, faults>>
  BY DEF LateCommit
<1>2. UNCHANGED <<instantiated, request, rows, copy>>
  BY <1>1 DEF blockchain, store
<1>3. Released(tx.version) /\ tx.version # Zero
  BY ReleasedFacts DEF RunsInv
<1> QED
  BY <1>1, <1>2, <1>3 DEF RunsInv

LEMMA RunsNext ==
  ASSUME Alone, ObjectsInv, RunsInv, [StoreNext]_allVars
  PROVE  RunsInv'
<1>1. ASSUME NEW a \in Admins, Administration(a) PROVE RunsInv'
  BY <1>1, SaveRuns, NetworkSteps, NetworkRuns DEF Administration, ObjectsInv
<1>2. CASE UNCHANGED allVars
  <2>1. UNCHANGED <<running, request, late, instantiated, rows, copy>>
    BY <1>2 DEF allVars, vars, store
  <2> QED
    BY <2>1 DEF RunsInv
<1> QED
  BY <1>1, <1>2, ServiceRuns, CrashRuns, LateCommitRuns DEF StoreNext

LEMMA RunsInit == StoreInit => RunsInv
BY DEF StoreInit, Init, RunsInv, NoRequest

\* What the object, a row or a client's copy says is instantiated does run, whichever of
\* them replaces which.
THEOREM StoredInstantiated == ASSUME Alone PROVE StoreSpec => []StoredInstantiatedRuns
<1>1. ObjectsInv /\ RunsInv /\ [StoreNext]_allVars => (ObjectsInv /\ RunsInv)'
  BY ObjectsNext, RunsNext
<1>2. RunsInv => StoredInstantiatedRuns
  BY DEF RunsInv, StoredInstantiatedRuns
<1> QED
  BY <1>1, <1>2, ObjectsInit, RunsInit, PTL DEF StoreSpec

----------------------------------------------------------------------------
(* How far the network may be ahead of the rows *)

\* Some row lists n versions or more.
Known(n) == n <= 0 \/ \E i \in DOMAIN rows : n <= Listed(rows[i])

(* The object lists at most one version that no row lists, and that one only while  *)
(* a request has still to be saved; nothing that runs or is late goes further.      *)
BoundsInv == ~lost =>
  /\ Known(running.tenths - 10)
  /\ \A tx \in late : Known(tx.version.tenths - 10)
  /\ \A a \in Admins :
       /\ Known(Count - 1)
       /\ saving[a] = "nothing" \/ request[a].step = "installing" => Known(Count)

LEMMA ListedTypes ==
  ASSUME ObjectsInv
  PROVE  /\ rows \in Seq(Blockchain) /\ Len(rows) \in Nat /\ DOMAIN rows = 1..Len(rows)
         /\ \A i \in DOMAIN rows : rows[i] \in Blockchain /\ Listed(rows[i]) \in Nat
         /\ \A c \in Clients : copy[c] # NoCopy =>
              copy[c].blockchain \in Blockchain /\ Listed(copy[c].blockchain) \in Nat
         /\ Count \in Nat
         /\ running \in Double /\ running.tenths \in Int
<1>1. rows \in Seq(Blockchain) /\ Len(rows) \in Nat /\ DOMAIN rows = 1..Len(rows)
  BY LenProperties DEF ObjectsInv, StoreTypes
<1>2. \A i \in DOMAIN rows : rows[i] \in Blockchain /\ Listed(rows[i]) \in Nat
  BY <1>1, ElementOfSeq, CopyTypes
<1>3. \A c \in Clients : copy[c] # NoCopy =>
        copy[c].blockchain \in Blockchain /\ Listed(copy[c].blockchain) \in Nat
  BY CopyTypes DEF ObjectsInv, StoreTypes
<1>4. Count \in Nat
  BY RecordedVersions DEF ObjectsInv, Shape
<1>5. running \in Double /\ running.tenths \in Int
  BY DEF ObjectsInv, Shape, TypeOK, Double
<1> QED
  BY <1>1, <1>2, <1>3, <1>4, <1>5

LEMMA KnownDownward ==
  ASSUME ObjectsInv, NEW m \in Int, NEW n \in Int, n <= m, Known(m)
  PROVE  Known(n)
BY ListedTypes DEF Known

\* A request takes the network one version beyond the rows, and no further.
LEMMA NetworkBounds ==
  ASSUME Alone, ObjectsInv, BoundsInv, NEW a \in Admins, NetworkStep(a)
  PROVE  BoundsInv'
<1> SUFFICES ASSUME ~lost' PROVE BoundsInv'
  BY DEF BoundsInv
<1>1. UNCHANGED <<rows, lost>> /\ ~lost /\ \A b \in Admins : b = a
  BY DEF NetworkStep, Alone
<1>2. /\ Known(running.tenths - 10) /\ Known(Count - 1)
      /\ \A tx \in late : Known(tx.version.tenths - 10)
      /\ saving[a] = "nothing" \/ request[a].step = "installing" => Known(Count)
  BY <1>1 DEF BoundsInv
<1>3. \A n : Known(n)' <=> Known(n)
  BY <1>1 DEF Known
<1>4. ASSUME Known(running'.tenths - 10), \A tx \in late' : Known(tx.version.tenths - 10),
             Known(Count' - 1),
             saving'[a] = "nothing" \/ request'[a].step = "installing" => Known(Count')
      PROVE  BoundsInv'
  BY <1>1, <1>4 DEF BoundsInv, Known
<1>5. Count \in Nat
  BY ListedTypes
<1>6. CASE Starts(a)
  BY <1>2, <1>4, <1>6 DEF Starts
<1>7. CASE Installs(a) /\ saving' = saving
  <2>1. saving[a] # "nothing" /\ Count' - 1 = Count
    BY <1>5, <1>7 DEF Installs, ObjectsInv, Idle
  <2> QED
    BY <1>2, <1>4, <1>7, <2>1 DEF Installs
<1>8. CASE Ends(a) /\ saving' = saving
  <2>1. saving[a] # "nothing"
    BY <1>8 DEF Ends, ObjectsInv
  <2>2. \A tx \in late' : Known(tx.version.tenths - 10)
    <3>1. request[a].step = "sent" => request[a].version.tenths - 10 = Count - 1
      BY <1>5, SentIsReleased DEF ObjectsInv
    <3> QED
      BY <1>2, <1>8, <3>1 DEF Ends
  <2> QED
    BY <1>2, <1>4, <1>8, <2>1, <2>2 DEF Ends
<1>9. CASE Endorses(a) /\ saving' = saving
  <2>1. saving[a] # "nothing"
    BY <1>9 DEF Endorses, ObjectsInv, Idle
  <2> QED
    BY <1>2, <1>4, <1>9, <2>1 DEF Endorses
<1>10. CASE Commits(a) /\ saving' = saving
  <2>1. saving[a] # "nothing"
    BY <1>10 DEF Commits, ObjectsInv, Idle
  <2>2. running'.tenths - 10 = Count - 1
    BY <1>5, <1>10, SentIsReleased DEF Commits, ObjectsInv
  <2> QED
    BY <1>2, <1>4, <1>10, <2>1, <2>2 DEF Commits
<1> QED
  BY <1>6, <1>7, <1>8, <1>9, <1>10, RequestMoves

\* Unless one loses something, a write of a row forgets no version.
LEMMA WriteKnown ==
  ASSUME ObjectsInv, NEW i \in DOMAIN rows, NEW b \in Blockchain, Write(i, b), ~lost',
         NEW n \in Int, Known(n)
  PROVE  Known(n)'
<1>1. /\ rows' = [rows EXCEPT ![i] = b] /\ DOMAIN rows' = DOMAIN rows
      /\ Listed(rows[i]) <= Listed(b)
  BY WriteFacts DEF ObjectsInv
<1>2. Listed(b) \in Nat /\ \A j \in DOMAIN rows : Listed(rows[j]) \in Nat
  BY CopyTypes, ListedTypes
<1>3. \A j \in DOMAIN rows : Listed(rows[j]) <= Listed(rows'[j])
  <2> SUFFICES ASSUME NEW j \in DOMAIN rows PROVE Listed(rows[j]) <= Listed(rows'[j])
    OBVIOUS
  <2>1. CASE j = i
    BY <1>1, <2>1
  <2>2. CASE j # i
    BY <1>1, <1>2, <2>2
  <2> QED
    BY <2>1, <2>2
<1>4. \A j \in DOMAIN rows : Listed(rows'[j]) \in Nat
  BY <1>1, <1>2
<1>5. \A j \in DOMAIN rows : n <= Listed(rows[j]) => n <= Listed(rows'[j])
  BY <1>2, <1>3, <1>4
<1> QED
  BY <1>1, <1>5 DEF Known, Listed

LEMMA SaveBounds ==
  ASSUME Alone, ObjectsInv, BoundsInv, NEW a \in Admins, Save(a)
  PROVE  BoundsInv'
<1> SUFFICES ASSUME ~lost' PROVE BoundsInv'
  BY DEF BoundsInv
<1>1. UNCHANGED <<running, late, request>> /\ Count' = Count /\ \A b \in Admins : b = a
  BY DEF Save, SaveChaincodeChanges, NewChaincode, SaveFails, vars, Alone, Count
<1>2. Count \in Nat /\ running.tenths \in Int
      /\ \A tx \in late : tx.version.tenths \in Int
  BY ListedTypes DEF ObjectsInv, Shape, TypeOK, Double
<1>3. ASSUME ~lost, \A n \in Int : Known(n) => Known(n)', Known(Count)'
      PROVE  BoundsInv'
  <2>1. /\ Known(running.tenths - 10)
        /\ \A tx \in late : Known(tx.version.tenths - 10)
        /\ Known(Count - 1)
    BY <1>3 DEF BoundsInv
  <2>2. Known(running.tenths - 10)' /\ Known(Count - 1)'
        /\ \A tx \in late : Known(tx.version.tenths - 10)'
    BY <1>1, <1>2, <1>3, <2>1 DEF Known
  <2> QED
    BY <1>1, <1>3, <2>2 DEF BoundsInv
<1>4. CASE SaveChaincodeChanges(a)
  <2>1. Memory \in Blockchain /\ Listed(Memory) = Count
    BY <1>4, MemoryIsSound DEF SaveChaincodeChanges, ObjectsInv, StoreTypes
  <2>2. PICK i \in DOMAIN rows : Write(i, Memory)
    BY <1>4 DEF SaveChaincodeChanges
  <2>3. ~lost /\ rows' = [rows EXCEPT ![i] = Memory] /\ DOMAIN rows' = DOMAIN rows
    BY <2>1, <2>2, WriteFacts DEF ObjectsInv
  <2>4. \A n \in Int : Known(n) => Known(n)'
    BY <2>1, <2>2, WriteKnown
  <2>5. Known(Count)'
    BY <1>1, <1>2, <2>1, <2>3 DEF Known, Listed
  <2> QED
    BY <1>3, <2>3, <2>4, <2>5
<1>5. CASE NewChaincode(a)
  <2>1. Memory \in Blockchain /\ Listed(Memory) = Count
    BY <1>5, MemoryIsSound DEF NewChaincode, ObjectsInv, StoreTypes
  <2>2. /\ DOMAIN rows = 1..Len(rows) /\ DOMAIN rows' = 1..(Len(rows) + 1)
        /\ \A i \in DOMAIN rows : rows'[i] = rows[i]
        /\ rows'[Len(rows) + 1] = Memory /\ Len(rows) \in Nat
    BY <1>5, <2>1, AppendFacts DEF NewChaincode, ObjectsInv
  <2>3. \A n \in Int : Known(n) => Known(n)'
    BY <2>2 DEF Known, Listed
  <2>4. Known(Count)'
    BY <1>1, <1>2, <2>1, <2>2 DEF Known, Listed
  <2> QED
    BY <1>3, <1>5, <2>3, <2>4 DEF NewChaincode
<1>6. ~SaveFails(a)
  BY DEF SaveFails
<1> QED
  BY <1>4, <1>5, <1>6 DEF Save

LEMMA ServiceBounds ==
  ASSUME ObjectsInv, BoundsInv, NEW c \in Clients, Service(c)
  PROVE  BoundsInv'
<1> SUFFICES ASSUME ~lost' PROVE BoundsInv'
  BY DEF BoundsInv
<1>1. UNCHANGED <<running, late, request, saving>> /\ Count' = Count
  BY DEF Service, Lookup, Flush, Abandon, vars, Count
<1>2. Count \in Nat /\ running.tenths \in Int
      /\ \A tx \in late : tx.version.tenths \in Int
  BY ListedTypes DEF ObjectsInv, Shape, TypeOK, Double
<1>3. ~lost /\ \A n \in Int : Known(n) => Known(n)'
  <2>1. CASE Flush(c)
    <3>1. PICK b \in Blockchain : Write(copy[c].row, b) /\ copy[c].row \in DOMAIN rows
      BY <2>1, FlushFacts
    <3> QED
      BY <3>1, WriteFacts, WriteKnown DEF ObjectsInv
  <2>2. CASE Lookup(c) \/ Abandon(c)
    BY <2>2 DEF Lookup, Abandon, Known
  <2> QED
    BY <2>1, <2>2 DEF Service
<1>4. /\ Known(running.tenths - 10)'
      /\ \A tx \in late : Known(tx.version.tenths - 10)'
      /\ \A a \in Admins :
           /\ Known(Count - 1)'
           /\ saving[a] = "nothing" \/ request[a].step = "installing" => Known(Count)'
  BY <1>1, <1>2, <1>3 DEF BoundsInv, Known
<1> QED
  BY <1>1, <1>4 DEF BoundsInv

LEMMA CrashBounds ==
  ASSUME Alone, ObjectsInv, BoundsInv, Crash
  PROVE  BoundsInv'
<1> SUFFICES ASSUME ~lost' PROVE BoundsInv'
  BY DEF BoundsInv
<1>1. UNCHANGED <<running, rows, lost>>
  BY DEF Crash
<1>2. \A n : Known(n)' <=> Known(n)
  BY <1>1 DEF Known
<1>3. Count \in Nat
  BY ListedTypes
<1>4. \A tx \in late' : Known(tx.version.tenths - 10)
  <2>1. \A a \in Admins : request[a].step = "sent" =>
          Known(request[a].version.tenths - 10)
    <3> SUFFICES ASSUME NEW a \in Admins, request[a].step = "sent"
                 PROVE  Known(request[a].version.tenths - 10)
      OBVIOUS
    <3>1. request[a].version.tenths - 10 = Count - 1
      BY <1>3, SentIsReleased DEF ObjectsInv
    <3> QED
      BY <1>1, <3>1 DEF BoundsInv
  <2> QED
    BY <1>1, <2>1 DEF Crash, BoundsInv
<1>5. Known(Count') /\ Known(Count' - 1)
  <2>1. CASE Count' = 0
    BY <2>1 DEF Known
  <2>2. ASSUME NEW i \in DOMAIN rows, Count' = Listed(rows[i])
        PROVE  Known(Count') /\ Known(Count' - 1)
    BY <2>2, ListedTypes DEF Known
  <2> QED
    BY <2>1, <2>2, CrashFacts
<1> QED
  BY <1>1, <1>2, <1>4, <1>5 DEF BoundsInv, Known

LEMMA BoundsNext ==
  ASSUME Alone, ObjectsInv, BoundsInv, [StoreNext]_allVars
  PROVE  BoundsInv'
<1>1. ASSUME NEW a \in Admins, Administration(a) PROVE BoundsInv'
  BY <1>1, SaveBounds, NetworkSteps, NetworkBounds DEF Administration, ObjectsInv
<1>2. ASSUME LateCommit, UNCHANGED store PROVE BoundsInv'
  <2>1. PICK tx \in late :
             /\ late' = late \ {tx}
             /\ running' = IF running = tx.base THEN tx.version ELSE running
             /\ UNCHANGED <<blockchain, request, installed, faults>>
    BY <1>2 DEF LateCommit
  <2>2. UNCHANGED <<request, rows, saving, lost>> /\ Count' = Count
    BY <1>2, <2>1 DEF blockchain, store, Count
  <2> QED
    BY <2>1, <2>2 DEF BoundsInv, Known
<1>3. CASE UNCHANGED allVars
  <2>1. UNCHANGED <<running, request, late, rows, saving, lost>> /\ Count' = Count
    BY <1>3 DEF allVars, vars, store, Count
  <2> QED
    BY <2>1 DEF BoundsInv, Known
<1> QED
  BY <1>1, <1>2, <1>3, ServiceBounds, CrashBounds DEF StoreNext

LEMMA BoundsInit == StoreInit => BoundsInv
<1> SUFFICES ASSUME StoreInit PROVE BoundsInv
  OBVIOUS
<1>1. Count = 0 /\ running.tenths = 0 /\ late = {}
  BY VersionTypes DEF StoreInit, Init, Count
<1> QED
  BY <1>1 DEF BoundsInv, Known

\* While no save was lost, what the network runs is at most one version further than the
\* row that lists most, through any number of restarts and late transactions.
THEOREM StoreFollows == ASSUME Alone PROVE StoreSpec => []StoreFollowsNetwork
<1>1. ObjectsInv /\ BoundsInv /\ [StoreNext]_allVars => (ObjectsInv /\ BoundsInv)'
  BY ObjectsNext, BoundsNext
<1>2. ObjectsInv /\ BoundsInv => StoreFollowsNetwork
  BY ListedTypes DEF BoundsInv, Known, StoreFollowsNetwork
<1> QED
  BY <1>1, <1>2, ObjectsInit, BoundsInit, PTL DEF StoreSpec

----------------------------------------------------------------------------
(* With one row and no lost save the network is never taken back *)

Single == ~lost /\ Len(rows) <= 1

(* The object lists no less than the row, and more than it when it is about to *)
(* upgrade; copies of clients list no more than the row.                       *)
AheadInv == Single =>
  /\ \A i \in DOMAIN rows :
       /\ Listed(rows[i]) <= Count
       /\ \A a \in Admins :
            request[a].step \in {"deploying", "sent"} /\ request[a].kind = "upgrade" =>
              Listed(rows[i]) < Count
  /\ \A c \in Clients : copy[c] # NoCopy =>
       Listed(copy[c].blockchain) <= Listed(rows[copy[c].row])

(* Every transaction that is waited for or late is an upgrade to a later version. *)
ForwardInv == Single =>
  /\ \A a \in Admins : request[a].step = "sent" =>
       request[a].base.tenths < request[a].version.tenths
  /\ \A tx \in late : tx.base.tenths < tx.version.tenths

LEMMA SingleBefore ==
  ASSUME Alone, ObjectsInv, [StoreNext]_allVars, Single'
  PROVE  Single
<1>1. Len(rows) \in Nat
  BY ListedTypes
<1>2. ASSUME NEW a \in Admins, Administration(a) PROVE Single
  <2>1. CASE SaveChaincodeChanges(a)
    <3>1. Memory \in Blockchain
      BY <2>1, MemoryIsSound DEF SaveChaincodeChanges, ObjectsInv, StoreTypes
    <3>2. PICK i \in DOMAIN rows : Write(i, Memory)
      BY <2>1 DEF SaveChaincodeChanges, Single
    <3> QED
      BY <3>1, <3>2, WriteFacts DEF Single, ObjectsInv
  <2>2. CASE NewChaincode(a)
    <3>1. Memory \in Blockchain
      BY <2>2, MemoryIsSound DEF NewChaincode, ObjectsInv, StoreTypes
    <3>2. Len(rows') = Len(rows) + 1
      BY <2>2, <3>1, AppendFacts DEF NewChaincode, ObjectsInv
    <3>3. lost' = lost
      BY <2>2 DEF NewChaincode
    <3>4. ~lost' /\ Len(rows') <= 1
      BY DEF Single
    <3>5. Len(rows) <= 1
      BY <1>1, <3>2, <3>4
    <3> QED
      BY <3>3, <3>4, <3>5 DEF Single
  <2>3. CASE SaveFails(a)
    BY <2>3 DEF SaveFails, Single
  <2>4. CASE NetworkStep(a)
    BY <2>4 DEF NetworkStep, Single
  <2> QED
    BY <1>2, <2>1, <2>2, <2>3, <2>4, NetworkSteps DEF Administration, Save, ObjectsInv
<1>3. ASSUME NEW c \in Clients, Service(c) PROVE Single
  <2>1. CASE Flush(c)
    <3>1. PICK b \in Blockchain : Write(copy[c].row, b) /\ copy[c].row \in DOMAIN rows
      BY <2>1, FlushFacts
    <3> QED
      BY <3>1, WriteFacts DEF Single, ObjectsInv
  <2>2. CASE Lookup(c) \/ Abandon(c)
    BY <2>2 DEF Lookup, Abandon, Single
  <2> QED
    BY <1>3, <2>1, <2>2 DEF Service
<1>4. ASSUME UNCHANGED <<rows, lost>> PROVE Single
  BY <1>4 DEF Single
<1> QED
  BY <1>2, <1>3, <1>4 DEF StoreNext, Crash, store, allVars

LEMMA NetworkAhead ==
  ASSUME Alone, ObjectsInv, AheadInv, NEW a \in Admins, NetworkStep(a)
  PROVE  AheadInv'
<1>1. UNCHANGED <<rows, copy, lost>> /\ \A b \in Admins : b = a
  BY DEF NetworkStep, Alone
<1>2. Count \in Nat /\ \A i \in DOMAIN rows : Listed(rows[i]) \in Nat
  BY ListedTypes
<1>3. ASSUME Count' = Count,
             request'[a].step \in {"deploying", "sent"} /\ request'[a].kind = "upgrade" =>
               request[a].step \in {"deploying", "sent"} /\ request[a].kind = "upgrade"
      PROVE  AheadInv'
  BY <1>1, <1>3 DEF AheadInv, Single, Listed
<1>4. CASE Installs(a)
  BY <1>1, <1>2, <1>4 DEF Installs, AheadInv, Single, Listed
<1> QED
  BY <1>3, <1>4, RequestMoves DEF Starts, Ends, Endorses, Commits

LEMMA SaveAhead ==
  ASSUME Alone, ObjectsInv, AheadInv, NEW a \in Admins, Save(a), Single, Single'
  PROVE  AheadInv'
<1>1. UNCHANGED <<request, copy>> /\ Count' = Count /\ Idle(a) /\ \A b \in Admins : b = a
  BY DEF Save, SaveChaincodeChanges, NewChaincode, SaveFails, vars, Alone, Count
<1>2. Memory \in Blockchain /\ Listed(Memory) = Count /\ Count \in Nat
  BY <1>1, MemoryIsSound, ListedTypes DEF ObjectsInv, StoreTypes
<1>3. CASE SaveChaincodeChanges(a)
  <2>1. PICK i \in DOMAIN rows : Write(i, Memory)
    BY <1>3 DEF SaveChaincodeChanges, Single
  <2>2. rows' = [rows EXCEPT ![i] = Memory] /\ DOMAIN rows' = DOMAIN rows
    BY <1>2, <2>1, WriteFacts DEF ObjectsInv
  <2>3. \A j \in DOMAIN rows' : Listed(rows'[j]) <= Count
    BY <1>2, <2>2 DEF AheadInv
  <2>4. \A c \in Clients : copy[c] # NoCopy =>
          Listed(copy[c].blockchain) <= Listed(rows'[copy[c].row])
    <3> SUFFICES ASSUME NEW c \in Clients, copy[c] # NoCopy
                 PROVE  Listed(copy[c].blockchain) <= Listed(rows'[copy[c].row])
      OBVIOUS
    <3>1. /\ copy[c].row \in DOMAIN rows
          /\ Listed(copy[c].blockchain) <= Listed(rows[copy[c].row])
          /\ Listed(rows[copy[c].row]) <= Count
      BY DEF AheadInv, ObjectsInv
    <3>2. CASE copy[c].row = i
      BY <1>2, <2>2, <3>1, <3>2, ListedTypes
    <3>3. CASE copy[c].row # i
      BY <2>2, <3>1, <3>3
    <3> QED
      BY <3>2, <3>3
  <2> QED
    BY <1>1, <2>3, <2>4 DEF AheadInv, Idle, Listed
<1>4. CASE NewChaincode(a)
  <2>1. /\ DOMAIN rows = 1..Len(rows) /\ DOMAIN rows' = 1..(Len(rows) + 1)
        /\ Len(rows') = Len(rows) + 1 /\ rows'[Len(rows) + 1] = Memory /\ Len(rows) \in Nat
    BY <1>2, <1>4, AppendFacts DEF NewChaincode, ObjectsInv
  <2>2. Len(rows) = 0
    BY <2>1 DEF Single
  <2>3. \A j \in DOMAIN rows' : Listed(rows'[j]) <= Count
    BY <1>2, <2>1, <2>2
  <2>4. \A c \in Clients : copy[c] = NoCopy
    BY <2>1, <2>2 DEF ObjectsInv
  <2> QED
    BY <1>1, <2>3, <2>4 DEF AheadInv, Idle, Listed
<1>5. ~SaveFails(a)
  BY DEF SaveFails, Single
<1> QED
  BY <1>3, <1>4, <1>5 DEF Save

LEMMA ServiceAhead ==
  ASSUME ObjectsInv, AheadInv, NEW c \in Clients, Service(c), Single, Single'
  PROVE  AheadInv'
<1>1. UNCHANGED request /\ Count' = Count
  BY DEF Service, Lookup, Flush, Abandon, vars, Count
<1>2. CASE Lookup(c)
  <2>1. PICK i \in DOMAIN rows : copy' = [copy EXCEPT ![c] = [row |-> i, blockchain |-> rows[i]]]
    BY <1>2 DEF Lookup
  <2>2. \A d \in Clients : copy'[d] = copy[d] \/ copy'[d] = [row |-> i, blockchain |-> rows[i]]
    BY <2>1 DEF ObjectsInv, StoreTypes
  <2>3. rows' = rows /\ Listed(rows[i]) \in Nat
    BY <1>2, ListedTypes DEF Lookup
  <2>4. \A d \in Clients : copy'[d] # NoCopy =>
          Listed(copy'[d].blockchain) <= Listed(rows[copy'[d].row])
    BY <2>2, <2>3 DEF AheadInv
  <2> QED
    BY <1>1, <2>3, <2>4 DEF AheadInv, Listed
<1>3. CASE Flush(c)
  <2>1. PICK b \in Blockchain :
             /\ Write(copy[c].row, b) /\ copy[c].row \in DOMAIN rows
             /\ Listed(b) = Listed(copy[c].blockchain)
    BY <1>3, FlushFacts
  <2>2. /\ rows' = [rows EXCEPT ![copy[c].row] = b] /\ DOMAIN rows' = DOMAIN rows
        /\ Listed(rows[copy[c].row]) <= Listed(b)
    BY <2>1, WriteFacts DEF ObjectsInv, Single
  <2>3. Listed(b) <= Listed(rows[copy[c].row])
    BY <1>3, <2>1 DEF AheadInv, Flush
  <2>4. \A i \in DOMAIN rows : Listed(rows'[i]) = Listed(rows[i])
    BY <2>1, <2>2, <2>3, ListedTypes, CopyTypes
  <2>5. \A d \in Clients : copy'[d] = copy[d] \/ copy'[d] = NoCopy
    BY <1>3 DEF Flush, ObjectsInv, StoreTypes
  <2>6. \A d \in Clients : copy'[d] # NoCopy =>
          Listed(copy'[d].blockchain) <= Listed(rows'[copy'[d].row])
    BY <2>4, <2>5 DEF AheadInv, ObjectsInv
  <2>7. \A i \in DOMAIN rows' :
          /\ Listed(rows'[i]) <= Count
          /\ \A a \in Admins :
               request[a].step \in {"deploying", "sent"} /\ request[a].kind = "upgrade" =>
                 Listed(rows'[i]) < Count
    BY <2>2, <2>4 DEF AheadInv
  <2> QED
    BY <1>1, <2>6, <2>7 DEF AheadInv, Listed
<1>4. CASE Abandon(c)
  <2>1. \A d \in Clients : copy'[d] = copy[d] \/ copy'[d] = NoCopy
    BY <1>4 DEF Abandon, ObjectsInv, StoreTypes
  <2> QED
    BY <1>1, <1>4, <2>1 DEF Abandon, AheadInv, Listed
<1> QED
  BY <1>2, <1>3, <1>4 DEF Service

LEMMA CrashAhead ==
  ASSUME ObjectsInv, AheadInv, Crash, Single
  PROVE  AheadInv'
<1>1. UNCHANGED <<rows, copy>> /\ request' = [a \in Admins |-> NoRequest]
  BY DEF Crash
<1>2. \A i \in DOMAIN rows : Listed(rows[i]) <= Count'
  <2>1. CASE rows = <<>>
    BY <2>1
  <2>2. ASSUME NEW j \in DOMAIN rows, Count' = Listed(rows[j])
        PROVE  \A i \in DOMAIN rows : Listed(rows[i]) <= Count'
    BY <2>2, ListedTypes DEF Single
  <2> QED
    BY <2>1, <2>2, CrashFacts
<1> QED
  BY <1>1, <1>2 DEF AheadInv, NoRequest, Listed

LEMMA AheadNext ==
  ASSUME Alone, ObjectsInv, AheadInv, [StoreNext]_allVars
  PROVE  AheadInv'
<1> SUFFICES ASSUME Single' PROVE AheadInv'
  BY DEF AheadInv
<1>1. Single
  BY SingleBefore
<1>2. ASSUME NEW a \in Admins, Administration(a) PROVE AheadInv'
  BY <1>1, <1>2, SaveAhead, NetworkSteps, NetworkAhead DEF Administration, ObjectsInv
<1>3. ASSUME UNCHANGED <<request, rows, copy, chaincodeVersions>> PROVE AheadInv'
  BY <1>1, <1>3 DEF AheadInv, Count, Listed
<1> QED
  BY <1>1, <1>2, <1>3, ServiceAhead, CrashAhead
     DEF StoreNext, LateCommit, blockchain, store, allVars, vars

\* A transaction is endorsed only for a version after the one that runs.
LEMMA EndorsesForward ==
  ASSUME Alone, ObjectsInv, RunsInv, BoundsInv, AheadInv, Single, NEW a \in Admins, Endorses(a)
  PROVE  running.tenths < request[a].version.tenths
<1>1. /\ request[a].version = V(9 + Count) /\ request[a].version.tenths = 9 + Count
      /\ Count \in Nat /\ Count >= 1 /\ Deploying(request[a])
      /\ request[a].step = "deploying" /\ Deployable(request[a])
  BY SentIsReleased DEF Endorses, ObjectsInv, Shape, RequestShape
<1>2. CASE request[a].kind = "first"
  BY <1>1, <1>2, VersionTypes DEF Deployable
<1>3. CASE request[a].kind = "upgrade"
  <2>1. Count >= 2 /\ running # Zero /\ running # V(9 + Count)
    BY <1>1, <1>3, VersionTypes DEF Deploying, Deployable
  <2>2. running.tenths \in Nat /\ running.tenths # 9 + Count
    BY <2>1, ReleasedFacts DEF RunsInv
  <2>3. \A i \in DOMAIN rows : Listed(rows[i]) \in Nat /\ Listed(rows[i]) < Count
    BY <1>1, <1>3, ListedTypes DEF AheadInv
  <2>4. Known(running.tenths - 10)
    BY DEF BoundsInv, Single
  <2>5. running.tenths <= 9 + Count
    BY <1>1, <2>1, <2>2, <2>3, <2>4 DEF Known
  <2> QED
    BY <1>1, <2>2, <2>5
<1> QED
  BY <1>1, <1>2, <1>3 DEF Deploying

LEMMA NetworkForward ==
  ASSUME Alone, ObjectsInv, RunsInv, BoundsInv, AheadInv, ForwardInv, Single,
         NEW a \in Admins, NetworkStep(a)
  PROVE  ForwardInv'
<1>1. \A b \in Admins : b = a
  BY DEF Alone
<1>2. /\ request[a].step = "sent" => request[a].base.tenths < request[a].version.tenths
      /\ \A tx \in late : tx.base.tenths < tx.version.tenths
  BY DEF ForwardInv
<1>3. ASSUME late' = late, request'[a].step # "sent" PROVE ForwardInv'
  BY <1>1, <1>2, <1>3 DEF ForwardInv
<1>4. CASE Endorses(a)
  <2>1. request'[a].base.tenths < request'[a].version.tenths /\ late' = late
    BY <1>4, EndorsesForward DEF Endorses
  <2> QED
    BY <1>1, <1>2, <2>1 DEF ForwardInv
<1>5. CASE Ends(a)
  BY <1>1, <1>2, <1>5 DEF Ends, ForwardInv
<1> QED
  BY <1>3, <1>4, <1>5, RequestMoves DEF Starts, Installs, Commits

LEMMA ForwardNext ==
  ASSUME Alone, ObjectsInv, RunsInv, BoundsInv, AheadInv, ForwardInv, [StoreNext]_allVars
  PROVE  ForwardInv'
<1> SUFFICES ASSUME Single' PROVE ForwardInv'
  BY DEF ForwardInv
<1>1. Single
  BY SingleBefore
<1>2. ASSUME request' = request, late' \subseteq late PROVE ForwardInv'
  BY <1>1, <1>2 DEF ForwardInv
<1>3. ASSUME NEW a \in Admins, Administration(a) PROVE ForwardInv'
  <2>1. CASE Save(a)
    BY <1>2, <2>1 DEF Save, SaveChaincodeChanges, NewChaincode, SaveFails, vars
  <2> QED
    BY <1>1, <1>3, <2>1, NetworkSteps, NetworkForward DEF Administration, ObjectsInv
<1>4. CASE Crash
  <2>1. \A tx \in late' : tx.base.tenths < tx.version.tenths
    BY <1>1, <1>4 DEF Crash, ForwardInv
  <2> QED
    BY <1>4, <2>1 DEF Crash, ForwardInv, NoRequest
<1>5. ASSUME NEW c \in Clients, Service(c) PROVE ForwardInv'
  BY <1>2, <1>5 DEF Service, Lookup, Flush, Abandon, vars
<1> QED
  BY <1>2, <1>3, <1>4, <1>5 DEF StoreNext, LateCommit, allVars, vars

LEMMA ForwardInit == StoreInit => AheadInv /\ ForwardInv
<1> SUFFICES ASSUME StoreInit PROVE AheadInv /\ ForwardInv
  OBVIOUS
<1>1. DOMAIN rows = {} /\ late = {} /\ \A c \in Clients : copy[c] = NoCopy
  BY DEF StoreInit, Init
<1>2. \A a \in Admins : request[a].step # "sent"
  BY DEF StoreInit, Init, NoRequest
<1> QED
  BY <1>1, <1>2 DEF AheadInv, ForwardInv

\* With one row and no lost save, neither restarts nor late transactions nor downgrades
\* take the network back to an earlier version.
THEOREM Regression == ASSUME Alone PROVE StoreSpec => RegressionHasACause
<1> DEFINE I == ObjectsInv /\ RunsInv /\ BoundsInv /\ AheadInv /\ ForwardInv
<1>1. I /\ [StoreNext]_allVars => I'
  BY ObjectsNext, RunsNext, BoundsNext, AheadNext, ForwardNext
<1>2. I /\ [StoreNext]_allVars =>
        [running'.tenths < running.tenths => lost \/ Len(rows) > 1]_allVars
  <2> SUFFICES ASSUME I, StoreNext, Single PROVE ~(running'.tenths < running.tenths)
    BY ListedTypes DEF Single
  <2>1. running.tenths \in Int
    BY ListedTypes
  <2>2. ASSUME running' = running PROVE ~(running'.tenths < running.tenths)
    BY <2>1, <2>2
  <2>3. ASSUME NEW a \in Admins, Administration(a) PROVE ~(running'.tenths < running.tenths)
    <3>1. CASE Save(a)
      BY <2>2, <3>1 DEF Save, SaveChaincodeChanges, NewChaincode, SaveFails, vars
    <3>2. CASE Commits(a)
      <4>1. /\ running = request[a].base /\ running' = request[a].version
            /\ request[a].base.tenths < request[a].version.tenths
        BY <3>2 DEF Commits, ForwardInv
      <4>2. request[a].version.tenths \in Int
        BY <3>2, SentIsReleased, ReleasedFacts DEF Commits, ObjectsInv
      <4> QED
        BY <2>1, <4>1, <4>2
    <3>3. CASE NetworkStep(a)
      BY <2>2, <3>2, <3>3, RequestMoves DEF Starts, Installs, Ends, Endorses
    <3> QED
      BY <2>3, <3>1, <3>3, NetworkSteps DEF Administration, ObjectsInv
  <2>4. CASE LateCommit
    <3>1. PICK tx \in late : running' = IF running = tx.base THEN tx.version ELSE running
      BY <2>4 DEF LateCommit
    <3>2. tx.base.tenths < tx.version.tenths /\ tx.version.tenths \in Int
      BY ReleasedFacts DEF ForwardInv, RunsInv
    <3>3. CASE running = tx.base
      BY <2>1, <3>1, <3>2, <3>3
    <3> QED
      BY <2>2, <3>1, <3>3
  <2>5. ASSUME NEW c \in Clients, Service(c) PROVE ~(running'.tenths < running.tenths)
    BY <2>2, <2>5 DEF Service, Lookup, Flush, Abandon, vars
  <2>6. CASE Crash
    BY <2>2, <2>6 DEF Crash
  <2> QED
    BY <2>3, <2>4, <2>5, <2>6 DEF StoreNext
<1>3. StoreInit => I
  BY ObjectsInit, RunsInit, BoundsInit, ForwardInit
<1> QED
  BY <1>1, <1>2, <1>3, PTL DEF StoreSpec, RegressionHasACause

----------------------------------------------------------------------------
(* With one client request at a time, what the backoffice started with stays *)

OneClient == \A c, d \in Clients : c = d

TableInv ==
  /\ Len(rows) = 0 => hashes = {}
  /\ Len(rows) = 1 =>
       /\ hashes \subseteq rows[1].hashes
       /\ \A c \in Clients : copy[c] # NoCopy => rows[1].hashes \subseteq copy[c].blockchain.hashes

LEMMA TableSave ==
  ASSUME ObjectsInv, TableInv, NEW a \in Admins, Save(a)
  PROVE  TableInv'
<1>1. UNCHANGED <<hashes, copy>>
  BY DEF Save, SaveChaincodeChanges, NewChaincode, SaveFails
<1>2. ASSUME rows' = rows PROVE TableInv'
  BY <1>1, <1>2 DEF TableInv
<1>3. Memory.hashes = hashes /\ (Idle(a) => Memory \in Blockchain)
  BY MemoryIsSound DEF Memory, ObjectsInv, StoreTypes
<1>4. DOMAIN rows = 1..Len(rows) /\ Len(rows) \in Nat
  BY ListedTypes
<1>5. ASSUME NEW i \in DOMAIN rows, Write(i, Memory), Idle(a) PROVE TableInv'
  <2>1. rows' = [rows EXCEPT ![i] = Memory] /\ Len(rows') = Len(rows)
    BY <1>3, <1>5, WriteFacts DEF ObjectsInv
  <2>2. CASE Len(rows) = 1
    BY <1>1, <1>3, <1>4, <2>1, <2>2 DEF TableInv
  <2> QED
    BY <1>1, <2>1, <2>2 DEF TableInv
<1>6. CASE NewChaincode(a)
  <2>1. /\ Len(rows') = Len(rows) + 1 /\ rows'[Len(rows) + 1] = Memory
    BY <1>3, <1>6, AppendFacts DEF NewChaincode, ObjectsInv
  <2>2. CASE Len(rows) = 0
    <3>1. \A c \in Clients : copy[c] = NoCopy
      BY <1>4, <2>2 DEF ObjectsInv
    <3> QED
      BY <1>1, <1>3, <2>1, <2>2, <3>1 DEF TableInv
  <2>3. CASE Len(rows) # 0
    BY <1>4, <2>1, <2>3 DEF TableInv
  <2> QED
    BY <2>2, <2>3
<1> QED
  BY <1>2, <1>5, <1>6 DEF Save, SaveChaincodeChanges, SaveFails

LEMMA TableService ==
  ASSUME OneClient, ObjectsInv, TableInv, NEW c \in Clients, Service(c)
  PROVE  TableInv'
<1>1. UNCHANGED hashes /\ \A d \in Clients : d = c
  BY DEF Service, Lookup, Flush, Abandon, OneClient
<1>2. DOMAIN rows = 1..Len(rows) /\ Len(rows) \in Nat
  BY ListedTypes
<1>3. CASE Lookup(c)
  <2>1. PICK i \in DOMAIN rows : copy' = [copy EXCEPT ![c] = [row |-> i, blockchain |-> rows[i]]]
    BY <1>3 DEF Lookup
  <2>2. copy'[c].blockchain = rows[i] /\ rows' = rows
    BY <1>3, <2>1 DEF Lookup, ObjectsInv, StoreTypes
  <2>3. Len(rows) = 1 => rows[i] = rows[1]
    BY <1>2
  <2> QED
    BY <1>1, <2>2, <2>3 DEF TableInv
<1>4. CASE Flush(c)
  <2>1. PICK b \in Blockchain :
             /\ Write(copy[c].row, b) /\ copy[c].row \in DOMAIN rows
             /\ copy[c].blockchain.hashes \subseteq b.hashes
    BY <1>4, FlushFacts
  <2>2. rows' = [rows EXCEPT ![copy[c].row] = b] /\ Len(rows') = Len(rows)
    BY <2>1, WriteFacts DEF ObjectsInv
  <2>3. copy[c] # NoCopy /\ copy'[c] = NoCopy
    BY <1>4 DEF Flush, ObjectsInv, StoreTypes
  <2>4. CASE Len(rows) = 1
    <3>1. copy[c].row = 1 /\ rows'[1] = b
      BY <1>2, <2>1, <2>2, <2>4
    <3>2. hashes \subseteq b.hashes
      BY <2>1, <2>3, <2>4 DEF TableInv
    <3> QED
      BY <1>1, <2>2, <2>3, <2>4, <3>1, <3>2 DEF TableInv
  <2>5. CASE Len(rows) # 1
    BY <1>1, <2>2, <2>5 DEF TableInv
  <2> QED
    BY <2>4, <2>5
<1>5. CASE Abandon(c)
  <2>1. copy'[c] = NoCopy /\ rows' = rows
    BY <1>5 DEF Abandon, ObjectsInv, StoreTypes
  <2> QED
    BY <1>1, <2>1 DEF TableInv
<1> QED
  BY <1>3, <1>4, <1>5 DEF Service

LEMMA TableNext ==
  ASSUME Alone, OneClient, ObjectsInv, TableInv, [StoreNext]_allVars
  PROVE  TableInv'
<1>1. ASSUME UNCHANGED <<hashes, rows, copy>> PROVE TableInv'
  BY <1>1 DEF TableInv
<1>2. ASSUME NEW a \in Admins, Administration(a) PROVE TableInv'
  BY <1>1, <1>2, TableSave, NetworkSteps DEF Administration, NetworkStep, ObjectsInv
<1>3. CASE Crash
  <2>1. UNCHANGED <<rows, copy>> /\ Len(rows) \in Nat /\ DOMAIN rows = 1..Len(rows)
    BY <1>3, ListedTypes DEF Crash
  <2>2. ASSUME NEW i \in DOMAIN rows, Load(rows[i]) PROVE TableInv'
    BY <2>1, <2>2 DEF TableInv, Load
  <2>3. CASE rows = <<>> /\ Load(NewBlockchain)
    BY <2>1, <2>3 DEF TableInv, Load, NewBlockchain
  <2> QED
    BY <1>3, <2>2, <2>3 DEF Crash
<1> QED
  BY <1>1, <1>2, <1>3, TableService DEF StoreNext, store, allVars

\* With one client request at a time and one row, what the backoffice's table held when it
\* started stays in the row, whatever it and the client write over it.
THEOREM StartUpSurvive == ASSUME Alone, OneClient PROVE StoreSpec => []StartUpHashesSurvive
<1>1. ObjectsInv /\ TableInv /\ [StoreNext]_allVars => (ObjectsInv /\ TableInv)'
  BY ObjectsNext, TableNext
<1>2. TableInv => StartUpHashesSurvive
  BY DEF TableInv, StartUpHashesSurvive
<1>3. StoreInit => TableInv
  BY DEF StoreInit, TableInv
<1> QED
  BY <1>1, <1>2, <1>3, ObjectsInit, PTL DEF StoreSpec

----------------------------------------------------------------------------
(* Without restarts the store only watches: what happens to the object and *)
(* on the network is a life cycle as ChaincodeLifecycle describes it, for   *)
(* any number of administrators and clients, whatever is lost on the way to *)
(* the rows.                                                                *)

LEMMA StoreStep == [StoreNext]_allVars /\ [~Crash]_allVars => [Next]_vars
<1> SUFFICES ASSUME [StoreNext]_allVars, [~Crash]_allVars PROVE [Next]_vars
  OBVIOUS
<1>1. CASE UNCHANGED allVars
  BY <1>1 DEF allVars
<1>2. ASSUME NEW a \in Admins, Administration(a) PROVE [Next]_vars
  <2>1. CASE UpgradeChaincode(a) \/ InstallChaincode(a)
    BY <2>1 DEF UpgradeChaincode, InstallChaincode, Next
  <2>2. CASE DowngradeChaincode(a)
    BY <2>2 DEF DowngradeChaincode, Next
  <2>3. CASE Continue(a)
    BY <2>3 DEF Continue, Next
  <2>4. CASE Save(a)
    BY <2>4 DEF Save, SaveChaincodeChanges, NewChaincode, SaveFails
  <2> QED
    BY <1>2, <2>1, <2>2, <2>3, <2>4 DEF Administration
<1>3. ASSUME NEW c \in Clients, Service(c) PROVE [Next]_vars
  BY <1>3 DEF Service, Lookup, Flush, Abandon
<1>4. CASE LateCommit
  BY <1>4 DEF Next
<1> QED
  BY <1>1, <1>2, <1>3, <1>4 DEF StoreNext

\* The composition implements its component: as long as the backoffice does not restart, the
\* rows, the failed saves and the client's writes never change what Blockchain and the
\* network do, and everything proved of ChaincodeLifecycle holds of the whole.
THEOREM StoreImplementsLifecycle == StoreSpec /\ [][~Crash]_allVars => Spec
<1>1. StoreInit => Init
  BY DEF StoreInit
<1> QED
  BY <1>1, StoreStep, PTL DEF StoreSpec, Spec

\* "Upgrade will increment": it does, as long as the backoffice that one administrator works
\* with does not restart, whatever the client writes over the row meanwhile; and what it
\* reports, numbers and runs is what the register promises.
THEOREM IncrementsUnlessRestarted ==
  ASSUME Alone
  PROVE  StoreSpec /\ [][~Crash]_allVars => UpgradeIncrements /\ RegisterSpec
<1>1. RunningNeverRegresses => UpgradeIncrements
  BY PTL DEF RunningNeverRegresses, UpgradeIncrements
<1> QED
  BY <1>1, StoreImplementsLifecycle, NeverRegresses, ImplementsRegister, PTL

=============================================================================
