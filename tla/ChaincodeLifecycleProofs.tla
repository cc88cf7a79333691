---------------------- MODULE ChaincodeLifecycleProofs ----------------------
(***************************************************************************)
(* Theorems about ChaincodeLifecycle, for any number of versions and of    *)
(* faults of the network, and wherever the subtraction of 0.1 is inexact:  *)
(* most of them when one administrator works at a time, the types and what *)
(* the flag means (at the end) for any number of administrators.           *)
(***************************************************************************)
EXTENDS ChaincodeLifecycle, TLAPS, WellFoundedInduction

Alone == \A a, b \in Admins : a = b

Count == Len(chaincodeVersions)

\* What the list holds when it is 1.0, 1.1, ...
Versions == { V(t) : t \in 10..(9 + Count) }

(* Between requests the current version may have drifted, but only once the *)
(* chaincode was instantiated; before that it is 0 or the only version.     *)
Resting ==
  \/ Count = 0 /\ ~instantiated /\ currentVersion = Zero
  \/ Count = 1 /\ ~instantiated /\ currentVersion = V(10)
  \/ Count >= 1 /\ instantiated /\ currentVersion.tenths \in 10..(9 + Count)

(* A request installs the version after the last one recorded ...           *)
Installing(r) ==
  /\ r.version = V(10 + Count) /\ currentVersion = V(10 + Count)
  /\ \/ r.kind = "first" /\ Count = 0 /\ ~instantiated
     \/ r.kind = "upgrade" /\ Count >= 1 /\ instantiated

(* ... and deploys the last one, which it found or put there itself.        *)
Deploying(r) ==
  /\ r.version = V(9 + Count) /\ currentVersion = V(9 + Count)
  /\ \/ r.kind = "first" /\ Count = 1 /\ ~instantiated
     \/ r.kind = "upgrade" /\ Count >= 2 /\ instantiated

RequestShape(r) ==
  /\ r.step = "idle" => Resting
  /\ r.step = "installing" => Installing(r)
  /\ r.step \in {"deploying", "sent", "committed"} => Deploying(r)

(* What holds of the Blockchain object whatever the network does.           *)
Shape ==
  /\ TypeOK
  /\ VersionsAreConsecutive
  /\ \A a \in Admins : RequestShape(request[a])

(* A transaction that is waited for takes the network forward ...           *)
SentInv(r) ==
  /\ r.step = "sent" => r.base \in Versions \cup {Zero} /\ r.base.tenths < 9 + Count
  /\ r.step = "committed" => running = V(9 + Count)

(* ... and so does one that is late.                                        *)
NetworkInv ==
  /\ running \in Versions \cup {Zero}
  /\ instantiated => running # Zero
  /\ \A tx \in late :
       /\ tx.version \in Versions
       /\ tx.base \in Versions \cup {Zero}
       /\ tx.base.tenths < tx.version.tenths

Inv ==
  /\ Shape
  /\ NetworkInv
  /\ \A a \in Admins : SentInv(request[a])

LEMMA VersionTypes ==
  /\ Zero \in Double /\ Zero = V(0)
  /\ \A t \in Int : V(t) \in Double /\ V(t).tenths = t
  /\ \A v \in Double : Incremented(v) \in Double /\ Decremented(v) \in Double
BY DEF Zero, V, Double, Incremented, Decremented

\* A consecutive list records exactly the versions 1.0 ... of its length.
LEMMA RecordedVersions ==
  ASSUME TypeOK, VersionsAreConsecutive
  PROVE  /\ Count \in Nat
         /\ DOMAIN chaincodeVersions = 1..Count
         /\ \A v : Recorded(v) <=> v \in Versions
         /\ Zero \notin Versions
         /\ Count >= 1 => Last(chaincodeVersions) = V(9 + Count)
         /\ chaincodeVersions = <<>> <=> Count = 0
<1>1. Count \in Nat /\ DOMAIN chaincodeVersions = 1..Count
  BY DEF TypeOK, Count
<1>2. \A i \in 1..Count : chaincodeVersions[i] = V(9 + i)
  BY <1>1 DEF VersionsAreConsecutive
<1>3. ASSUME NEW v, Recorded(v) PROVE v \in Versions
  BY <1>1, <1>2, <1>3 DEF Recorded, Versions
<1>4. ASSUME NEW v \in Versions PROVE Recorded(v)
  <2>1. PICK t \in 10..(9 + Count) : v = V(t)
    BY DEF Versions
  <2>2. t - 9 \in 1..Count /\ 9 + (t - 9) = t
    BY <1>1
  <2>3. chaincodeVersions[t - 9] = V(t)
    BY <1>2, <2>2
  <2> QED
    BY <1>1, <2>1, <2>2, <2>3 DEF Recorded
<1>5. Zero \notin Versions
  <2>1. \A t \in 10..(9 + Count) : V(t).tenths = t /\ t # 0
    BY <1>1, VersionTypes
  <2>2. Zero.tenths = 0
    BY VersionTypes
  <2> QED
    BY <2>1, <2>2 DEF Versions
<1>6. Count >= 1 => Last(chaincodeVersions) = V(9 + Count)
  BY <1>1, <1>2 DEF Last, Count
<1>7. chaincodeVersions = <<>> <=> Count = 0
  BY DEF TypeOK, Count
<1> QED
  BY <1>1, <1>3, <1>4, <1>5, <1>6, <1>7

LEMMA InvInit == Init => Inv
<1> SUFFICES ASSUME Init PROVE Inv
  OBVIOUS
<1>1. TypeOK
  <2>1. currentVersion \in Double /\ running \in Double
    BY VersionTypes DEF Init
  <2>2. request \in [Admins -> Request \cup {NoRequest}]
    BY DEF Init
  <2>3. faults \in 0..MaxFaults
    BY BoundsAreNatural DEF Init
  <2>4. chaincodeVersions \in Seq(Double)
    BY DEF Init
  <2>5. installed \subseteq Double /\ late \subseteq [base : Double, version : Double]
    BY DEF Init
  <2> QED
    BY <2>1, <2>2, <2>3, <2>4, <2>5 DEF Init, TypeOK
<1>2. VersionsAreConsecutive
  BY DEF Init, VersionsAreConsecutive
<1>3. NetworkInv
  BY DEF Init, NetworkInv
<1>4. \A a \in Admins : RequestShape(request[a]) /\ SentInv(request[a])
  BY DEF Init, RequestShape, SentInv, NoRequest, Resting, Count
<1> QED
  BY <1>1, <1>2, <1>3, <1>4 DEF Inv, Shape

\* A new request, or the next call of one, has the type of a request.
LEMMA CallType ==
  ASSUME TypeOK, NEW a \in Admins, NEW step \in {"installing", "deploying"},
         NEW kind \in {"first", "upgrade"}, NEW version \in Double,
         Call(a, step, kind, version)
  PROVE  /\ request' \in [Admins -> Request \cup {NoRequest}]
         /\ request'[a] \in Request
         /\ request'[a].step = step /\ request'[a].kind = kind
         /\ request'[a].version = version /\ request'[a].base = Zero
<1> DEFINE r == [step |-> step, kind |-> kind, version |-> version, base |-> Zero]
<1>1. r \in Request
  BY VersionTypes DEF Request
<1>2. r.step = step /\ r.kind = kind /\ r.version = version /\ r.base = Zero
  OBVIOUS
<1>3. request' = [request EXCEPT ![a] = r]
  BY DEF Call
<1> HIDE DEF r
<1> QED
  BY <1>1, <1>2, <1>3 DEF TypeOK

LEMMA ReturnType ==
  ASSUME TypeOK, NEW a \in Admins, Return(a)
  PROVE  /\ request' \in [Admins -> Request \cup {NoRequest}]
         /\ request'[a].step = "idle"
BY DEF TypeOK, Return, NoRequest

LEMMA UpdateShape ==
  ASSUME Alone, Shape, NEW a \in Admins, Update(a)
  PROVE  Shape'
<1>1. TypeOK /\ VersionsAreConsecutive /\ Resting
  BY DEF Shape, RequestShape, Update, Idle
<1>2. /\ Count \in Nat
      /\ \A v : Recorded(v) <=> v \in Versions
      /\ Zero \notin Versions
      /\ Count >= 1 => Last(chaincodeVersions) = V(9 + Count)
      /\ chaincodeVersions = <<>> <=> Count = 0
  BY <1>1, RecordedVersions
<1>3. UNCHANGED <<instantiated, chaincodeVersions, running, late, installed, faults>>
  BY DEF Update, network
<1>4. VersionsAreConsecutive' /\ Count' = Count
  BY <1>1, <1>3 DEF VersionsAreConsecutive, Count
<1>5. /\ currentVersion' \in Double
      /\ request' \in [Admins -> Request \cup {NoRequest}]
      /\ RequestShape(request[a])'
  <2>1. CASE FirstUpdate(a)
    <3>1. ~instantiated
      BY <1>1, <2>1, VersionTypes DEF FirstUpdate, Resting
    <3>2. CASE Count = 0
      <4>1. Versions = {}
        BY <3>2 DEF Versions
      <4>2. currentVersion' = V(10) /\ Call(a, "installing", "first", V(10))
        BY <1>2, <2>1, <4>1 DEF FirstUpdate
      <4>3. /\ request' \in [Admins -> Request \cup {NoRequest}]
            /\ request'[a].step = "installing" /\ request'[a].kind = "first"
            /\ request'[a].version = V(10)
        BY <1>1, <4>2, CallType, VersionTypes
      <4> QED
        BY <1>3, <1>4, <3>1, <3>2, <4>2, <4>3, VersionTypes DEF RequestShape, Installing
    <3>3. CASE Count = 1
      <4>1. currentVersion = V(10)
        BY <1>1, <3>1, <3>3 DEF Resting
      <4>2. V(10) \in Versions
        BY <3>3 DEF Versions
      <4>3. UNCHANGED currentVersion /\ Call(a, "deploying", "first", V(10))
        BY <1>2, <2>1, <4>1, <4>2 DEF FirstUpdate
      <4>4. /\ request' \in [Admins -> Request \cup {NoRequest}]
            /\ request'[a].step = "deploying" /\ request'[a].kind = "first"
            /\ request'[a].version = V(10)
        BY <1>1, <4>3, CallType, VersionTypes
      <4> QED
        BY <1>1, <1>3, <1>4, <3>1, <3>3, <4>1, <4>3, <4>4, VersionTypes
           DEF RequestShape, Deploying
    <3> QED
      BY <1>1, <3>1, <3>2, <3>3 DEF Resting
  <2>2. CASE UpgradeUpdate(a)
    <3>1. instantiated /\ Count >= 1
      BY <1>1, <1>2, <2>2 DEF UpgradeUpdate, Resting
    <3>2. /\ Last(chaincodeVersions) = V(9 + Count)
          /\ V(9 + Count) # Zero
          /\ Incremented(V(9 + Count)) = V(10 + Count)
      BY <1>2, <3>1, VersionTypes DEF Incremented
    <3>3. V(10 + Count) \notin Versions
      <4>1. \A t \in 10..(9 + Count) : V(t).tenths # 10 + Count
        BY <1>2, VersionTypes
      <4> QED
        BY <1>2, <4>1, VersionTypes DEF Versions
    <3>4. /\ currentVersion' = V(10 + Count)
          /\ Call(a, "installing", "upgrade", V(10 + Count))
      BY <1>2, <2>2, <3>2, <3>3 DEF UpgradeUpdate
    <3>5. V(10 + Count) \in Double
      BY <1>2, VersionTypes
    <3>6. /\ request' \in [Admins -> Request \cup {NoRequest}]
          /\ request'[a].step = "installing" /\ request'[a].kind = "upgrade"
          /\ request'[a].version = V(10 + Count)
      BY <1>1, <3>4, <3>5, CallType
    <3> QED
      BY <1>3, <1>4, <3>1, <3>4, <3>5, <3>6 DEF RequestShape, Installing
  <2> QED
    BY <2>1, <2>2 DEF Update
<1>6. TypeOK'
  BY <1>1, <1>3, <1>5 DEF TypeOK
<1> QED
  BY <1>4, <1>5, <1>6 DEF Alone, Shape

LEMMA InstallReturnsShape ==
  ASSUME Alone, Shape, NEW a \in Admins, InstallReturns(a)
  PROVE  Shape'
<1> DEFINE n == Len(chaincodeVersions)
<1>1. TypeOK /\ VersionsAreConsecutive
  BY DEF Shape
<1>2. request[a] \in Request /\ request[a].version \in Double
  BY <1>1 DEF TypeOK, InstallReturns, NoRequest, Request
<1>3. Installing(request[a])
  BY DEF Shape, RequestShape, InstallReturns
<1>4. /\ n \in Nat
      /\ DOMAIN chaincodeVersions = 1..n
      /\ currentVersion = V(10 + n) /\ V(10 + n) \in Double
  BY <1>1, <1>3, VersionTypes DEF Installing, Count, TypeOK
<1>5. /\ chaincodeVersions' = Append(chaincodeVersions, V(10 + n))
      /\ Call(a, "deploying", request[a].kind, V(10 + n))
      /\ UNCHANGED <<currentVersion, instantiated, running, late>>
  BY <1>4 DEF InstallReturns
<1>6. /\ chaincodeVersions' \in Seq(Double)
      /\ Len(chaincodeVersions') = n + 1
      /\ DOMAIN chaincodeVersions' = 1..(n + 1)
      /\ \A i \in 1..n : chaincodeVersions'[i] = chaincodeVersions[i]
      /\ chaincodeVersions'[n + 1] = V(10 + n)
  BY <1>1, <1>4, <1>5 DEF TypeOK
<1>7. /\ request' \in [Admins -> Request \cup {NoRequest}]
      /\ request'[a].step = "deploying" /\ request'[a].kind = request[a].kind
      /\ request'[a].version = V(10 + n)
  <2>1. request[a].kind \in {"first", "upgrade"}
    BY <1>2 DEF Request
  <2> QED
    BY <1>1, <1>4, <1>5, <2>1, CallType
<1>8. Count = n /\ Count' = n + 1
  BY <1>6 DEF Count
<1> HIDE DEF n
<1>9. VersionsAreConsecutive'
  <2>1. ASSUME NEW i \in 1..(n + 1) PROVE chaincodeVersions'[i] = V(9 + i)
    <3>1. CASE i \in 1..n
      BY <1>1, <1>4, <1>6, <3>1 DEF VersionsAreConsecutive
    <3>2. CASE i = n + 1
      BY <1>4, <1>6, <3>2
    <3>3. i \in 1..n \/ i = n + 1
      BY <1>4
    <3> QED
      BY <3>1, <3>2, <3>3
  <2> QED
    BY <1>6, <2>1 DEF VersionsAreConsecutive
<1>10. RequestShape(request[a])'
  <2>1. Deploying(request[a])'
    BY <1>3, <1>4, <1>5, <1>7, <1>8 DEF Installing, Deploying
  <2> QED
    BY <1>7, <2>1 DEF RequestShape
<1>11. faults' \in 0..MaxFaults /\ installed' \subseteq Double
  BY <1>1, <1>2, BoundsAreNatural DEF InstallReturns, Fault, TypeOK
<1>12. TypeOK'
  BY <1>1, <1>5, <1>6, <1>7, <1>11 DEF TypeOK
<1> QED
  BY <1>9, <1>10, <1>12 DEF Alone, Shape

LEMMA InstallThrowsShape ==
  ASSUME Alone, Shape, NEW a \in Admins, InstallThrows(a)
  PROVE  Shape' /\ UNCHANGED chaincodeVersions
<1>1. TypeOK /\ VersionsAreConsecutive
  BY DEF Shape
<1>2. request[a] \in Request /\ request[a].version \in Double
  BY <1>1 DEF TypeOK, InstallThrows, NoRequest, Request
<1>3. Installing(request[a])
  BY DEF Shape, RequestShape, InstallThrows
<1>4. /\ Count \in Nat
      /\ \A v : Recorded(v) <=> v \in Versions
      /\ DOMAIN chaincodeVersions = 1..Count
  BY <1>1, RecordedVersions
<1>5. currentVersion = V(10 + Count) /\ ~Recorded(currentVersion)
  <2>1. \A t \in 10..(9 + Count) : V(t).tenths # 10 + Count
    BY <1>4, VersionTypes
  <2>2. V(10 + Count) \notin Versions
    BY <1>4, <2>1, VersionTypes DEF Versions
  <2> QED
    BY <1>3, <1>4, <2>2 DEF Installing
<1>6. RemoveFirst(chaincodeVersions, currentVersion) = chaincodeVersions
  BY <1>4, <1>5 DEF RemoveFirst, Recorded, Count
<1>7. UNCHANGED <<chaincodeVersions, instantiated, running, late>>
  BY <1>6 DEF InstallThrows
<1>8. VersionsAreConsecutive' /\ Count' = Count
  BY <1>1, <1>7 DEF VersionsAreConsecutive, Count
<1>9. /\ request' \in [Admins -> Request \cup {NoRequest}]
      /\ request'[a].step = "idle"
  BY <1>1, ReturnType DEF InstallThrows
<1>10. currentVersion' \in Double /\ Resting'
  <2>1. CASE request[a].kind = "first"
    BY <1>3, <1>7, <1>8, <2>1, VersionTypes DEF InstallThrows, Installing, Resting
  <2>2. CASE request[a].kind # "first"
    <3>1. Count >= 1 /\ instantiated
      BY <1>3, <2>2 DEF Installing
    <3>2. currentVersion' = Decremented(V(10 + Count))
      BY <1>5, <2>2 DEF InstallThrows
    <3>3. V(10 + Count) \in Double /\ V(10 + Count).tenths = 10 + Count
      BY <1>4, VersionTypes
    <3>4. currentVersion'.tenths = 9 + Count
      BY <1>4, <3>2, <3>3 DEF Decremented
    <3> QED
      BY <1>4, <1>7, <1>8, <3>1, <3>2, <3>3, <3>4, VersionTypes DEF Resting
  <2> QED
    BY <2>1, <2>2
<1>11. faults' \in 0..MaxFaults /\ installed' \subseteq Double
  BY <1>1, <1>2, BoundsAreNatural DEF InstallThrows, Fault, TypeOK
<1>12. TypeOK'
  BY <1>1, <1>7, <1>9, <1>10, <1>11 DEF TypeOK
<1>13. RequestShape(request[a])'
  BY <1>9, <1>10 DEF RequestShape
<1> QED
  BY <1>7, <1>8, <1>12, <1>13 DEF Alone, Shape

\* The three ways a deployment fails: refused, invalid, or not waited for any longer.
LEMMA DeployFailsShape ==
  ASSUME Alone, Shape, NEW a \in Admins, request[a].step \in {"deploying", "sent"},
         DeployFails(a), UNCHANGED <<installed, running>>, faults' \in 0..MaxFaults,
         late' \subseteq [base : Double, version : Double]
  PROVE  Shape'
<1>1. TypeOK /\ VersionsAreConsecutive
  BY DEF Shape
<1>2. request[a] \in Request
  BY <1>1 DEF TypeOK, NoRequest
<1>3. Deploying(request[a])
  BY DEF Shape, RequestShape
<1>4. Count \in Nat
  BY <1>1, RecordedVersions
<1>5. UNCHANGED <<chaincodeVersions, instantiated>> /\ Count' = Count
  BY DEF DeployFails, Count
<1>6. VersionsAreConsecutive'
  BY <1>1, <1>5 DEF VersionsAreConsecutive
<1>7. /\ request' \in [Admins -> Request \cup {NoRequest}]
      /\ request'[a].step = "idle"
  BY <1>1, ReturnType DEF DeployFails
<1>8. currentVersion' \in Double /\ Resting'
  <2>1. CASE request[a].kind = "first"
    BY <1>1, <1>3, <1>5, <2>1 DEF DeployFails, Deploying, Resting, TypeOK
  <2>2. CASE request[a].kind = "upgrade"
    <3>1. Count >= 2 /\ instantiated /\ currentVersion = V(9 + Count)
      BY <1>3, <2>2 DEF Deploying
    <3>2. currentVersion' = Decremented(V(9 + Count))
      BY <2>2, <3>1 DEF DeployFails
    <3>3. V(9 + Count) \in Double /\ V(9 + Count).tenths = 9 + Count
      BY <1>4, VersionTypes
    <3>4. currentVersion'.tenths = 8 + Count
      BY <1>4, <3>2, <3>3 DEF Decremented
    <3> QED
      BY <1>4, <1>5, <3>1, <3>2, <3>3, <3>4, VersionTypes DEF Resting
  <2> QED
    BY <1>2, <2>1, <2>2 DEF Request
<1>9. TypeOK'
  BY <1>1, <1>5, <1>7, <1>8 DEF TypeOK
<1>10. RequestShape(request[a])'
  BY <1>7, <1>8 DEF RequestShape
<1> QED
  BY <1>6, <1>9, <1>10 DEF Alone, Shape

LEMMA RefusedShape ==
  ASSUME Alone, Shape, NEW a \in Admins, Refused(a)
  PROVE  Shape'
<1>1. faults' \in 0..MaxFaults
  BY BoundsAreNatural DEF Refused, Fault, Shape, TypeOK
<1> QED
  BY <1>1, DeployFailsShape DEF Refused, network, Shape, TypeOK

LEMMA InvalidatedShape ==
  ASSUME Alone, Shape, NEW a \in Admins, Invalidated(a)
  PROVE  Shape'
BY DeployFailsShape DEF Invalidated, network, Shape, TypeOK

LEMMA TimedOutShape ==
  ASSUME Alone, Shape, NEW a \in Admins, TimedOut(a)
  PROVE  Shape'
<1> DEFINE tx == [base |-> request[a].base, version |-> request[a].version]
<1>1. faults' \in 0..MaxFaults
  BY BoundsAreNatural DEF TimedOut, Fault, Shape, TypeOK
<1>2. tx \in [base : Double, version : Double]
  BY DEF TimedOut, Shape, TypeOK, Request, NoRequest
<1>3. late' = late \cup {tx} /\ DeployFails(a) /\ UNCHANGED <<installed, running>>
  BY DEF TimedOut
<1> HIDE DEF tx
<1>4. late' \subseteq [base : Double, version : Double]
  BY <1>2, <1>3 DEF Shape, TypeOK
<1> QED
  BY <1>1, <1>3, <1>4, DeployFailsShape DEF TimedOut

LEMMA EndorsedShape ==
  ASSUME Alone, Shape, NEW a \in Admins, Endorsed(a)
  PROVE  /\ Shape'
         /\ request'[a].step = "sent" /\ request'[a].base = running
         /\ request'[a].kind = request[a].kind /\ request'[a].version = request[a].version
<1>1. TypeOK /\ VersionsAreConsecutive
  BY DEF Shape
<1>2. request[a] \in Request /\ Deploying(request[a])
  BY <1>1 DEF Shape, RequestShape, Endorsed, TypeOK, NoRequest
<1>3. UNCHANGED <<currentVersion, instantiated, chaincodeVersions,
                  installed, running, late, faults>>
  BY DEF Endorsed, blockchain, network
<1>4. VersionsAreConsecutive' /\ Count' = Count
  BY <1>1, <1>3 DEF VersionsAreConsecutive, Count
<1> DEFINE r == [request[a] EXCEPT !.step = "sent", !.base = running]
<1>5. /\ r \in Request /\ r.step = "sent" /\ r.base = running
      /\ r.kind = request[a].kind /\ r.version = request[a].version
  BY <1>1, <1>2 DEF Request, TypeOK
<1>6. request' = [request EXCEPT ![a] = r]
  BY <1>1 DEF Endorsed, TypeOK
<1> HIDE DEF r
<1>7. request' \in [Admins -> Request \cup {NoRequest}] /\ request'[a] = r
  BY <1>1, <1>5, <1>6 DEF TypeOK
<1>8. RequestShape(request[a])'
  BY <1>2, <1>3, <1>4, <1>5, <1>7 DEF RequestShape, Deploying
<1>9. TypeOK'
  BY <1>1, <1>3, <1>7 DEF TypeOK
<1> QED
  BY <1>4, <1>5, <1>7, <1>8, <1>9 DEF Alone, Shape

LEMMA CommittedShape ==
  ASSUME Alone, Shape, NEW a \in Admins, Committed(a)
  PROVE  /\ Shape'
         /\ request'[a].step = "committed"
<1>1. TypeOK /\ VersionsAreConsecutive
  BY DEF Shape
<1>2. request[a] \in Request /\ Deploying(request[a])
  BY <1>1 DEF Shape, RequestShape, Committed, TypeOK, NoRequest
<1>3. UNCHANGED <<currentVersion, instantiated, chaincodeVersions, installed, late, faults>>
  BY DEF Committed, blockchain
<1>4. VersionsAreConsecutive' /\ Count' = Count
  BY <1>1, <1>3 DEF VersionsAreConsecutive, Count
<1>5. running' \in Double
  BY <1>2 DEF Committed, Request
<1> DEFINE r == [request[a] EXCEPT !.step = "committed"]
<1>6. /\ r \in Request /\ r.step = "committed"
      /\ r.kind = request[a].kind /\ r.version = request[a].version
  BY <1>2 DEF Request
<1>7. request' = [request EXCEPT ![a] = r]
  BY <1>1 DEF Committed, TypeOK
<1> HIDE DEF r
<1>8. request' \in [Admins -> Request \cup {NoRequest}] /\ request'[a] = r
  BY <1>1, <1>6, <1>7 DEF TypeOK
<1>9. RequestShape(request[a])'
  BY <1>2, <1>3, <1>4, <1>6, <1>8 DEF RequestShape, Deploying
<1>10. TypeOK'
  BY <1>1, <1>3, <1>5, <1>8 DEF TypeOK
<1> QED
  BY <1>4, <1>6, <1>8, <1>9, <1>10 DEF Alone, Shape

LEMMA SucceedsShape ==
  ASSUME Alone, Shape, NEW a \in Admins, Succeeds(a)
  PROVE  /\ Shape'
         /\ request'[a].step = "idle"
<1>1. TypeOK /\ VersionsAreConsecutive
  BY DEF Shape
<1>2. request[a] \in Request /\ Deploying(request[a])
  BY <1>1 DEF Shape, RequestShape, Succeeds, TypeOK, NoRequest
<1>3. Count \in Nat /\ Count >= 1
  BY <1>1, <1>2, RecordedVersions DEF Deploying
<1>4. UNCHANGED <<currentVersion, chaincodeVersions, installed, running, late, faults>>
  BY DEF Succeeds, network
<1>5. VersionsAreConsecutive' /\ Count' = Count
  BY <1>1, <1>4 DEF VersionsAreConsecutive, Count
<1>6. instantiated' = TRUE
  BY <1>1, <1>2 DEF Succeeds, Deploying, TypeOK
<1>7. V(9 + Count).tenths = 9 + Count
  BY <1>3, VersionTypes
<1>8. /\ request' \in [Admins -> Request \cup {NoRequest}]
      /\ request'[a].step = "idle"
  BY <1>1, ReturnType DEF Succeeds
<1>9. Resting'
  <2>1. currentVersion.tenths \in 10..(9 + Count)
    BY <1>2, <1>3, <1>7 DEF Deploying
  <2> QED
    BY <1>3, <1>4, <1>5, <1>6, <2>1 DEF Resting
<1>10. TypeOK'
  BY <1>1, <1>4, <1>6, <1>8 DEF TypeOK
<1>11. RequestShape(request[a])'
  BY <1>8, <1>9 DEF RequestShape
<1> QED
  BY <1>5, <1>8, <1>10, <1>11 DEF Alone, Shape

LEMMA LateCommitShape ==
  ASSUME Shape, LateCommit
  PROVE  Shape'
<1>1. PICK tx \in late :
           /\ late' = late \ {tx}
           /\ running' = IF running = tx.base THEN tx.version ELSE running
           /\ UNCHANGED <<blockchain, request, installed, faults>>
  BY DEF LateCommit
<1>2. UNCHANGED <<currentVersion, instantiated, chaincodeVersions, request, installed, faults>>
  BY <1>1 DEF blockchain
<1>3. VersionsAreConsecutive' /\ Count' = Count
  BY <1>2 DEF Shape, VersionsAreConsecutive, Count
<1>4. TypeOK'
  BY <1>1, <1>2 DEF Shape, TypeOK
<1>5. \A a \in Admins : RequestShape(request[a])'
  BY <1>2, <1>3 DEF Shape, RequestShape, Resting, Installing, Deploying
<1> QED
  BY <1>3, <1>4, <1>5 DEF Shape

LEMMA DowngradeShape ==
  ASSUME Alone, Shape, NEW a \in Admins, Downgrade(a)
  PROVE  Shape'
<1>1. TypeOK /\ VersionsAreConsecutive /\ Resting
  BY DEF Shape, RequestShape, Downgrade, DowngradeToPrevious, DowngradeTo, Idle
<1>2. Count \in Nat /\ DOMAIN chaincodeVersions = 1..Count
  BY <1>1, RecordedVersions
<1>3. PICK k \in 1..Count :
           /\ currentVersion = Zero => instantiated
           /\ currentVersion' = Selected(chaincodeVersions[k])
           /\ UNCHANGED <<instantiated, chaincodeVersions, request, network, faults>>
  BY <1>2 DEF Downgrade, DowngradeToPrevious, DowngradeTo, Count
<1>4. UNCHANGED <<instantiated, chaincodeVersions, request, installed, running, late, faults>>
  BY <1>3 DEF network
<1>5. VersionsAreConsecutive' /\ Count' = Count
  BY <1>1, <1>4 DEF VersionsAreConsecutive, Count
<1>6. currentVersion' = V(9 + k)
  <2>1. chaincodeVersions[k] = V(9 + k)
    BY <1>1, <1>2 DEF VersionsAreConsecutive
  <2>2. currentVersion # Zero
    BY <1>1, <1>2, <1>3, VersionTypes DEF Resting
  <2> QED
    BY <1>3, <2>1, <2>2 DEF Selected
<1>7. V(9 + k) \in Double /\ V(9 + k).tenths = 9 + k
  BY <1>2, VersionTypes
<1>8. Resting'
  BY <1>1, <1>2, <1>4, <1>5, <1>6, <1>7 DEF Resting
<1>9. TypeOK'
  BY <1>1, <1>4, <1>6, <1>7 DEF TypeOK
<1>10. RequestShape(request[a])'
  BY <1>4, <1>8 DEF RequestShape, Downgrade, DowngradeToPrevious, DowngradeTo, Idle
<1> QED
  BY <1>5, <1>9, <1>10 DEF Alone, Shape

LEMMA ShapeStays ==
  ASSUME Shape, UNCHANGED vars
  PROVE  Shape'
<1>1. UNCHANGED <<currentVersion, instantiated, chaincodeVersions, request,
                  installed, running, late, faults>>
  BY DEF vars
<1>2. TypeOK' /\ VersionsAreConsecutive' /\ Count' = Count
  BY <1>1 DEF Shape, TypeOK, VersionsAreConsecutive, Count
<1>3. \A a \in Admins : RequestShape(request[a])'
  BY <1>1, <1>2 DEF Shape, RequestShape, Resting, Installing, Deploying
<1> QED
  BY <1>2, <1>3 DEF Shape

LEMMA ShapeNext ==
  ASSUME Alone, Shape, [Next]_vars
  PROVE  Shape'
<1>1. ASSUME NEW a \in Admins, Proceed(a) PROVE Shape'
  BY <1>1, InstallReturnsShape, InstallThrowsShape, EndorsedShape, RefusedShape, CommittedShape,
     InvalidatedShape, TimedOutShape, SucceedsShape DEF Proceed
<1> QED
  BY <1>1, UpdateShape, DowngradeShape, LateCommitShape, ShapeStays DEF Next

----------------------------------------------------------------------------
(* The network *)

\* Where nothing commits and no version is forgotten, NetworkInv stays.
LEMMA NetworkStays ==
  ASSUME NetworkInv, Versions \subseteq Versions', UNCHANGED <<running, late, instantiated>>
  PROVE  NetworkInv'
BY DEF NetworkInv

LEMMA VersionsKept ==
  ASSUME Count \in Nat, Count' = Count + 1
  PROVE  Versions \subseteq Versions'
<1>1. \A t \in 10..(9 + Count) : t \in 10..(9 + Count')
  OBVIOUS
<1> QED
  BY <1>1 DEF Versions

\* A request that waits for no transaction says nothing of the network.
LEMMA QuietStep ==
  ASSUME Alone, Inv, Shape', NEW a \in Admins, Versions \subseteq Versions',
         UNCHANGED <<running, late, instantiated>>,
         request'[a].step \notin {"sent", "committed"}
  PROVE  Inv'
BY NetworkStays DEF Alone, Inv, SentInv

LEMMA QuietInv ==
  ASSUME Alone, Inv, NEW a \in Admins,
         Update(a) \/ InstallReturns(a) \/ InstallThrows(a) \/ Refused(a) \/ Invalidated(a)
           \/ Downgrade(a)
  PROVE  Inv'
<1>1. TypeOK /\ VersionsAreConsecutive /\ Shape /\ request[a] \in Request \cup {NoRequest}
  BY DEF Inv, Shape, TypeOK
<1>2. Count \in Nat
  BY <1>1, RecordedVersions
<1>3. CASE Update(a)
  <2>1. Shape' /\ UNCHANGED <<running, late, instantiated, chaincodeVersions>>
    BY <1>1, <1>3, UpdateShape DEF Update, network
  <2>2. request'[a].step \in {"installing", "deploying"}
    BY <1>1, <1>3 DEF Update, FirstUpdate, UpgradeUpdate, Call, TypeOK
  <2> QED
    BY <2>1, <2>2, QuietStep DEF Versions, Count
<1>4. CASE InstallReturns(a)
  <2>1. Shape' /\ UNCHANGED <<running, late, instantiated>>
    BY <1>1, <1>4, InstallReturnsShape DEF InstallReturns
  <2>2. request'[a].step = "deploying"
    BY <1>1, <1>4 DEF InstallReturns, Call, TypeOK
  <2>3. Count' = Count + 1
    BY <1>1, <1>4 DEF InstallReturns, TypeOK, Count
  <2> QED
    BY <1>2, <2>1, <2>2, <2>3, VersionsKept, QuietStep
<1>5. CASE InstallThrows(a)
  <2>1. Shape' /\ UNCHANGED <<running, late, instantiated, chaincodeVersions>>
    BY <1>1, <1>5, InstallThrowsShape DEF InstallThrows
  <2>2. request'[a].step = "idle"
    BY <1>1, <1>5, ReturnType DEF InstallThrows
  <2> QED
    BY <2>1, <2>2, QuietStep DEF Versions, Count
<1>6. CASE Refused(a) \/ Invalidated(a)
  <2>1. Shape' /\ UNCHANGED <<running, late, instantiated, chaincodeVersions>>
    BY <1>1, <1>6, RefusedShape, InvalidatedShape DEF Refused, Invalidated, DeployFails, network
  <2>2. request'[a].step = "idle"
    BY <1>1, <1>6, ReturnType DEF Refused, Invalidated, DeployFails
  <2> QED
    BY <2>1, <2>2, QuietStep DEF Versions, Count
<1>7. CASE Downgrade(a)
  <2>1. Shape' /\ UNCHANGED <<running, late, instantiated, chaincodeVersions, request>>
    BY <1>1, <1>7, DowngradeShape DEF Downgrade, DowngradeToPrevious, DowngradeTo, network
  <2>2. request'[a].step = "idle"
    BY <1>7, <2>1 DEF Downgrade, DowngradeToPrevious, DowngradeTo, Idle
  <2> QED
    BY <2>1, <2>2, QuietStep DEF Versions, Count
<1> QED
  BY <1>3, <1>4, <1>5, <1>6, <1>7

\* What a sent transaction would do to the network: take it forward.
LEMMA SentGoesForward ==
  ASSUME Inv, NEW a \in Admins, request[a].step = "sent"
  PROVE  /\ request[a].version = V(9 + Count) /\ request[a].version \in Versions
         /\ request[a].base \in Versions \cup {Zero}
         /\ request[a].base.tenths < request[a].version.tenths
         /\ request[a].version \in Double /\ request[a].base \in Double
<1>1. Deploying(request[a]) /\ SentInv(request[a])
  BY DEF Inv, Shape, RequestShape
<1>2. Count \in Nat /\ Count >= 1
  BY <1>1, RecordedVersions DEF Inv, Shape, Deploying
<1>3. V(9 + Count) \in Versions /\ V(9 + Count).tenths = 9 + Count
  BY <1>2, VersionTypes DEF Versions
<1>4. request[a] \in Request
  BY DEF Inv, Shape, TypeOK, NoRequest
<1> QED
  BY <1>1, <1>3, <1>4 DEF Deploying, Request, SentInv

LEMMA TimedOutInv ==
  ASSUME Alone, Inv, NEW a \in Admins, TimedOut(a)
  PROVE  Inv'
<1> DEFINE tx == [base |-> request[a].base, version |-> request[a].version]
<1>1. Shape'
  BY TimedOutShape DEF Inv
<1>2. /\ tx.version \in Versions
      /\ tx.base \in Versions \cup {Zero}
      /\ tx.base.tenths < tx.version.tenths
  BY SentGoesForward DEF TimedOut
<1>3. /\ late' = late \cup {tx}
      /\ UNCHANGED <<running, instantiated, chaincodeVersions>>
  BY DEF TimedOut, DeployFails
<1> HIDE DEF tx
<1>4. NetworkInv'
  BY <1>2, <1>3 DEF Inv, NetworkInv, Versions, Count
<1>5. SentInv(request[a])'
  BY ReturnType DEF TimedOut, DeployFails, Inv, Shape, SentInv
<1> QED
  BY <1>1, <1>4, <1>5 DEF Alone, Inv

LEMMA EndorsedInv ==
  ASSUME Alone, Inv, NEW a \in Admins, Endorsed(a)
  PROVE  Inv'
<1>1. TypeOK /\ VersionsAreConsecutive /\ NetworkInv /\ Shape
  BY DEF Inv, Shape
<1>2. Deploying(request[a])
  BY <1>1 DEF Shape, RequestShape, Endorsed
<1>3. Count \in Nat
  BY <1>1, RecordedVersions
<1>4. UNCHANGED <<instantiated, chaincodeVersions, running, late>>
  BY DEF Endorsed, blockchain, network
<1>5. Count' = Count /\ Versions' = Versions /\ NetworkInv'
  BY <1>1, <1>4, NetworkStays DEF Count, Versions
<1>6. Shape' /\ request'[a].step = "sent" /\ request'[a].base = running
  BY <1>1, EndorsedShape
<1>7. running.tenths < 9 + Count
  <2>1. Deployable(request[a])
    BY DEF Endorsed
  <2>2. CASE running = Zero
    BY <1>3, <2>2, VersionTypes
  <2>3. CASE running \in Versions
    <3>1. PICK t \in 10..(9 + Count) : running = V(t)
      BY <2>3 DEF Versions
    <3>2. request[a].kind = "upgrade"
      BY <1>1, <1>2, <1>3, <2>1, <2>3, RecordedVersions DEF Deployable, Deploying
    <3>3. running # V(9 + Count)
      BY <1>2, <2>1, <3>2 DEF Deployable, Deploying
    <3> QED
      BY <1>3, <3>1, <3>3, VersionTypes
  <2> QED
    BY <1>1, <2>2, <2>3 DEF NetworkInv
<1>8. SentInv(request[a])'
  BY <1>1, <1>5, <1>6, <1>7 DEF SentInv, NetworkInv
<1> QED
  BY <1>5, <1>6, <1>8 DEF Alone, Inv

LEMMA CommittedInv ==
  ASSUME Alone, Inv, NEW a \in Admins, Committed(a)
  PROVE  Inv'
<1>1. Shape' /\ request'[a].step = "committed"
  BY CommittedShape DEF Inv
<1>2. UNCHANGED <<instantiated, chaincodeVersions, late>>
  BY DEF Committed, blockchain
<1>3. Count' = Count /\ Versions' = Versions
  BY <1>2 DEF Count, Versions
<1>4. running' = V(9 + Count) /\ running' \in Versions
  BY SentGoesForward DEF Committed
<1>5. running' # Zero
  BY <1>4, RecordedVersions DEF Inv, Shape
<1>6. NetworkInv'
  BY <1>2, <1>3, <1>4, <1>5 DEF Inv, NetworkInv
<1>7. SentInv(request[a])'
  BY <1>1, <1>3, <1>4 DEF SentInv
<1> QED
  BY <1>1, <1>6, <1>7 DEF Alone, Inv

LEMMA SucceedsInv ==
  ASSUME Alone, Inv, NEW a \in Admins, Succeeds(a)
  PROVE  Inv'
<1>1. Deploying(request[a]) /\ running = V(9 + Count)
  BY DEF Inv, Shape, RequestShape, SentInv, Succeeds
<1>2. Count \in Nat /\ Count >= 1
  BY <1>1, RecordedVersions DEF Inv, Shape, Deploying
<1>3. Shape' /\ request'[a].step = "idle"
  BY SucceedsShape DEF Inv
<1>4. UNCHANGED <<chaincodeVersions, running, late>>
  BY DEF Succeeds, network
<1>5. Versions' = Versions
  BY <1>4 DEF Versions, Count
<1>6. running # Zero
  BY <1>1, <1>2, VersionTypes
<1>7. NetworkInv'
  BY <1>4, <1>5, <1>6 DEF Inv, NetworkInv
<1>8. SentInv(request[a])'
  BY <1>3 DEF SentInv
<1> QED
  BY <1>3, <1>7, <1>8 DEF Alone, Inv

\* A late transaction takes the network forward or nowhere; nobody has just succeeded
\* with a version that it could still replace.
LEMMA LateCommitInv ==
  ASSUME Inv, LateCommit
  PROVE  Inv' /\ running'.tenths >= running.tenths
<1>1. TypeOK /\ VersionsAreConsecutive /\ NetworkInv /\ Shape'
  BY LateCommitShape DEF Inv, Shape
<1>2. PICK tx \in late :
           /\ late' = late \ {tx}
           /\ running' = IF running = tx.base THEN tx.version ELSE running
           /\ UNCHANGED <<blockchain, request, installed, faults>>
  BY DEF LateCommit
<1>3. /\ tx.version \in Versions /\ tx.base \in Versions \cup {Zero}
      /\ tx.base.tenths < tx.version.tenths
  BY <1>1 DEF NetworkInv
<1>4. tx.version \in Double /\ running \in Double
  BY <1>1 DEF TypeOK
<1>5. UNCHANGED <<instantiated, chaincodeVersions, request>>
  BY <1>2 DEF blockchain
<1>6. Count' = Count /\ Versions' = Versions
  BY <1>5 DEF Count, Versions
<1>7. running'.tenths >= running.tenths
  BY <1>2, <1>3, <1>4 DEF Double
<1>8. Zero \notin Versions /\ Count \in Nat
  BY <1>1, RecordedVersions
<1>9. NetworkInv'
  BY <1>1, <1>2, <1>3, <1>5, <1>6, <1>8 DEF NetworkInv
<1>10. ASSUME NEW a \in Admins PROVE SentInv(request[a])'
  <2>1. SentInv(request[a])
    BY DEF Inv
  <2>2. CASE request[a].step = "committed"
    <3>1. running = V(9 + Count)
      BY <2>1, <2>2 DEF SentInv
    <3>2. \A v \in Versions : v.tenths <= 9 + Count
      BY <1>8, VersionTypes DEF Versions
    <3>3. running.tenths = 9 + Count
      BY <1>8, <3>1, VersionTypes
    <3>4. running # tx.base
      BY <1>3, <1>4, <1>8, <3>2, <3>3 DEF Double
    <3>5. running' = running
      BY <1>2, <3>4
    <3> QED
      BY <1>5, <1>6, <2>1, <2>2, <3>5 DEF SentInv
  <2>3. CASE request[a].step # "committed"
    BY <1>5, <1>6, <2>1, <2>3 DEF SentInv
  <2> QED
    BY <2>2, <2>3
<1> QED
  BY <1>1, <1>7, <1>9, <1>10 DEF Inv

LEMMA InvNext == Alone /\ Inv /\ [Next]_vars => Inv'
<1> SUFFICES ASSUME Alone, Inv, [Next]_vars PROVE Inv'
  OBVIOUS
<1>1. ASSUME NEW a \in Admins, Proceed(a) PROVE Inv'
  BY <1>1, QuietInv, EndorsedInv, CommittedInv, TimedOutInv, SucceedsInv DEF Proceed
<1>2. CASE UNCHANGED vars
  <2>1. UNCHANGED <<instantiated, chaincodeVersions, request, running, late>>
    BY <1>2 DEF vars
  <2>2. Count' = Count /\ Versions' = Versions
    BY <2>1 DEF Count, Versions
  <2> QED
    BY <1>2, <2>1, <2>2, ShapeStays, NetworkStays DEF Inv, SentInv
<1> QED
  BY <1>1, <1>2, QuietInv, LateCommitInv DEF Next

\* Whatever one administrator does, whatever fails and whatever commits late, the list of
\* versions stays 1.0, 1.1, 1.2, ...
THEOREM VersionsConsecutive == ASSUME Alone PROVE Spec => []VersionsAreConsecutive
<1>1. Inv /\ [Next]_vars => Inv'
  BY InvNext
<1>2. Inv => VersionsAreConsecutive
  BY DEF Inv, Shape
<1> QED
  BY <1>1, <1>2, InvInit, PTL DEF Spec

\* ... the network only runs versions that are recorded ...
THEOREM RunningRecorded == ASSUME Alone PROVE Spec => []RunningIsRecorded
<1>1. Inv /\ [Next]_vars => Inv'
  BY InvNext
<1>2. Inv => RunningIsRecorded
  BY RecordedVersions DEF Inv, Shape, NetworkInv, RunningIsRecorded
<1> QED
  BY <1>1, <1>2, InvInit, PTL DEF Spec

\* ... a chaincode that the backoffice takes for instantiated runs, so that upgrading it is
\* right ...
THEOREM InstantiatedRuns == ASSUME Alone PROVE Spec => []InstantiatedIsRunning
<1>1. Inv /\ [Next]_vars => Inv'
  BY InvNext
<1>2. Inv => InstantiatedIsRunning
  BY DEF Inv, NetworkInv, InstantiatedIsRunning
<1> QED
  BY <1>1, <1>2, InvInit, PTL DEF Spec

\* ... a success is reported for the version that runs ...
THEOREM SuccessRuns == ASSUME Alone PROVE Spec => []SuccessMeansRunning
<1>1. Inv /\ [Next]_vars => Inv'
  BY InvNext
<1>2. Inv => SuccessMeansRunning
  BY DEF Inv, Shape, RequestShape, SentInv, Deploying, SuccessMeansRunning
<1> QED
  BY <1>1, <1>2, InvInit, PTL DEF Spec

(* While an upgrade is proposed nothing the network runs, and nothing late   *)
(* that it may still come to run, is as new as the version proposed.        *)
Proposed(r) ==
  r.step = "deploying" /\ r.kind = "upgrade" =>
    /\ running.tenths < 9 + Count
    /\ \A tx \in late : tx.version.tenths < 9 + Count

EndorsableInv == Inv /\ \A a \in Admins : Proposed(request[a])

\* Only an upgrade that has just been installed is proposed, and it is newer than whatever
\* was recorded, hence run or late, before.
LEMMA ProposedInstalled ==
  ASSUME Alone, Inv, NEW a \in Admins, InstallReturns(a)
  PROVE  Proposed(request[a])'
<1>1. TypeOK /\ VersionsAreConsecutive /\ NetworkInv /\ Installing(request[a])
  BY DEF Inv, Shape, RequestShape, InstallReturns
<1>2. Count \in Nat
  BY <1>1, RecordedVersions
<1>3. \A v \in Versions \cup {Zero} : v.tenths \in Int /\ v.tenths < 10 + Count
  BY <1>2, VersionTypes DEF Versions
<1>4. /\ running.tenths < 10 + Count
      /\ \A tx \in late : tx.version.tenths < 10 + Count
  BY <1>1, <1>3 DEF NetworkInv
<1>5. UNCHANGED <<running, late>> /\ Count' = Count + 1
  BY <1>1 DEF InstallReturns, TypeOK, Count
<1>6. 9 + Count' = 10 + Count
  BY <1>2, <1>5
<1> QED
  BY <1>4, <1>5, <1>6 DEF Proposed

\* A request starts by installing, unless it deploys the first version again.
LEMMA UpdateInstalls ==
  ASSUME Alone, Inv, NEW a \in Admins, Update(a)
  PROVE  ~(request'[a].step = "deploying" /\ request'[a].kind = "upgrade")
<1>1. TypeOK /\ VersionsAreConsecutive /\ Resting
  BY DEF Inv, Shape, RequestShape, Update, Idle
<1>2. CASE FirstUpdate(a)
  BY <1>1, <1>2, CallType, VersionTypes DEF FirstUpdate, TypeOK
<1>3. CASE UpgradeUpdate(a)
  <2>1. /\ Count \in Nat
        /\ \A v : Recorded(v) <=> v \in Versions
        /\ Zero \notin Versions
        /\ Count >= 1 => Last(chaincodeVersions) = V(9 + Count)
        /\ chaincodeVersions = <<>> <=> Count = 0
    BY <1>1, RecordedVersions
  <2>2. Count >= 1 /\ Last(chaincodeVersions) = V(9 + Count)
    BY <1>3, <2>1 DEF UpgradeUpdate
  <2>3. V(9 + Count) # Zero /\ Incremented(V(9 + Count)) = V(10 + Count)
    BY <2>1, VersionTypes DEF Incremented
  <2>4. V(10 + Count) \in Double /\ V(10 + Count) \notin Versions
    <3>1. \A t \in 10..(9 + Count) : V(t).tenths # 10 + Count
      BY <2>1, VersionTypes
    <3> QED
      BY <2>1, <3>1, VersionTypes DEF Versions
  <2>5. Call(a, "installing", "upgrade", V(10 + Count))
    BY <1>3, <2>1, <2>2, <2>3, <2>4 DEF UpgradeUpdate
  <2> QED
    BY <1>1, <2>4, <2>5, CallType
<1> QED
  BY <1>2, <1>3 DEF Update

LEMMA EndorsableInvNext == Alone /\ EndorsableInv /\ [Next]_vars => EndorsableInv'
<1> SUFFICES ASSUME Alone, EndorsableInv, [Next]_vars
             PROVE  EndorsableInv'
  OBVIOUS
<1>1. Inv /\ Inv'
  BY InvNext DEF EndorsableInv
<1>2. \A a \in Admins : Proposed(request[a])
  BY DEF EndorsableInv
<1>3. TypeOK /\ \A a \in Admins : request[a] \in Request \cup {NoRequest}
  BY <1>1 DEF Inv, Shape, TypeOK
<1>4. ASSUME NEW a \in Admins, Proceed(a) PROVE Proposed(request[a])'
  <2>1. CASE InstallReturns(a)
    BY <1>1, <2>1, ProposedInstalled
  <2>2. CASE \/ InstallThrows(a) \/ Refused(a) \/ Invalidated(a) \/ TimedOut(a)
             \/ Succeeds(a)
    <3>1. Return(a)
      BY <2>2 DEF InstallThrows, Refused, Invalidated, TimedOut, Succeeds, DeployFails
    <3> QED
      BY <1>3, <3>1, ReturnType DEF Proposed
  <2>3. CASE Endorsed(a) \/ Committed(a)
    <3>1. request'[a].step \in {"sent", "committed"}
      BY <1>1, <2>3, EndorsedShape, CommittedShape DEF Inv
    <3> QED
      BY <3>1 DEF Proposed
  <2> QED
    BY <1>4, <2>1, <2>2, <2>3 DEF Proceed
<1>5. ASSUME NEW a \in Admins, Update(a) PROVE Proposed(request[a])'
  BY <1>1, <1>5, UpdateInstalls DEF Proposed
<1>6. ASSUME NEW a \in Admins, Downgrade(a) PROVE Proposed(request[a])'
  BY <1>6 DEF Downgrade, DowngradeToPrevious, DowngradeTo, Idle, Proposed
<1>7. ASSUME LateCommit, NEW a \in Admins PROVE Proposed(request[a])'
  <2>1. /\ late' \subseteq late
        /\ running' = running \/ \E tx \in late : running' = tx.version
        /\ UNCHANGED <<request, chaincodeVersions>>
    BY <1>7 DEF LateCommit, blockchain
  <2>2. Count' = Count
    BY <2>1 DEF Count
  <2> QED
    BY <1>2, <2>1, <2>2 DEF Proposed
<1>8. ASSUME UNCHANGED vars, NEW a \in Admins PROVE Proposed(request[a])'
  BY <1>2, <1>8 DEF vars, Proposed, Count
<1>9. \A a \in Admins : Proposed(request[a])'
  BY <1>4, <1>5, <1>6, <1>7, <1>8 DEF Alone, Next
<1> QED
  BY <1>1, <1>9 DEF EndorsableInv

\* ... an upgrade is never proposed to a network that runs nothing or runs that version
\* already ...
THEOREM UpgradesEndorsable == ASSUME Alone PROVE Spec => []UpgradesAreEndorsable
<1>1. Init => EndorsableInv
  BY InvInit DEF Init, EndorsableInv, Proposed, NoRequest
<1>2. EndorsableInv /\ [Next]_vars => EndorsableInv'
  BY EndorsableInvNext
<1>3. EndorsableInv => UpgradesAreEndorsable
  <2> SUFFICES ASSUME EndorsableInv, NEW a \in Admins,
                      request[a].step = "deploying", request[a].kind = "upgrade"
               PROVE  running \notin {Zero, request[a].version}
    BY DEF UpgradesAreEndorsable
  <2>1. Deploying(request[a]) /\ NetworkInv /\ Proposed(request[a])
    BY DEF EndorsableInv, Inv, Shape, RequestShape
  <2>2. running # Zero
    BY <2>1 DEF Deploying, NetworkInv
  <2>3. Count \in Nat
    BY RecordedVersions DEF EndorsableInv, Inv, Shape
  <2>4. running.tenths < 9 + Count /\ V(9 + Count).tenths = 9 + Count
    BY <2>1, <2>3, VersionTypes DEF Proposed
  <2>5. running # V(9 + Count)
    BY <2>3, <2>4, VersionTypes
  <2> QED
    BY <2>1, <2>2, <2>5 DEF Deploying
<1> QED
  BY <1>1, <1>2, <1>3, PTL DEF Spec

\* ... between requests the current version, drifted or not, is one of those recorded ...
THEOREM CurrentNearRecorded ==
  ASSUME Alone, Admins # {}
  PROVE  Spec => []CurrentIsNearRecorded
<1>1. Inv /\ [Next]_vars => Inv'
  BY InvNext
<1>2. Inv => CurrentIsNearRecorded
  <2> SUFFICES ASSUME Inv, \A a \in Admins : Idle(a), currentVersion # Zero
               PROVE  \E i \in DOMAIN chaincodeVersions :
                        chaincodeVersions[i].tenths = currentVersion.tenths
    BY DEF CurrentIsNearRecorded
  <2>1. PICK a \in Admins : request[a].step = "idle"
    BY DEF Idle
  <2>2. Resting
    BY <2>1 DEF Inv, Shape, RequestShape
  <2>3. /\ Count \in Nat /\ DOMAIN chaincodeVersions = 1..Count
        /\ \A i \in 1..Count : chaincodeVersions[i].tenths = 9 + i
    BY DEF Inv, Shape, TypeOK, VersionsAreConsecutive, Count, V
  <2>4. currentVersion.tenths \in 10..(9 + Count)
    BY <2>2, <2>3 DEF Resting, V
  <2>5. currentVersion.tenths - 9 \in 1..Count
    BY <2>3, <2>4
  <2> QED
    BY <2>3, <2>4, <2>5
<1> QED
  BY <1>1, <1>2, InvInit, PTL DEF Spec

\* ... and nothing takes the network back to an earlier version.
THEOREM NeverRegresses == ASSUME Alone PROVE Spec => RunningNeverRegresses
<1>1. Inv /\ [Next]_vars => Inv'
  BY InvNext
<1>2. Inv /\ [Next]_vars => [running'.tenths >= running.tenths]_running
  <2> SUFFICES ASSUME Inv, [Next]_vars, running' # running
               PROVE  running'.tenths >= running.tenths
    OBVIOUS
  <2>1. CASE LateCommit
    BY <2>1, LateCommitInv
  <2>2. ASSUME NEW a \in Admins, Committed(a)
        PROVE  running'.tenths >= running.tenths
    <3>1. /\ running = request[a].base /\ running' = request[a].version
          /\ request[a].base.tenths < request[a].version.tenths
          /\ request[a].base \in Double /\ request[a].version \in Double
      BY <2>2, SentGoesForward DEF Committed
    <3> QED
      BY <3>1 DEF Double
  <2>3. LateCommit \/ \E a \in Admins : Committed(a)
    BY DEF Next, vars, Update, Proceed, Downgrade, DowngradeToPrevious, DowngradeTo,
           InstallReturns, InstallThrows, Endorsed, Refused, Invalidated, TimedOut,
           Succeeds, network
  <2> QED
    BY <2>1, <2>2, <2>3
<1> QED
  BY <1>1, <1>2, InvInit, PTL DEF Spec, RunningNeverRegresses

----------------------------------------------------------------------------
(* The refinement of ReleaseRegister, one step per action.                  *)

RegisterStep ==
  [Register!Next]_<<Len(chaincodeVersions), Number(running), Reported, instantiated>>

\* The numbers of releases are ordered like the versions, and none is beyond the list.
LEMMA ReleaseNumbers ==
  ASSUME Inv
  PROVE  /\ Count \in Nat
         /\ \A v \in Versions \cup {Zero} : Number(v) \in 0..Count /\ v.tenths \in Int
         /\ \A v, w \in Versions \cup {Zero} : v.tenths < w.tenths => Number(v) < Number(w)
         /\ Count >= 1 => V(9 + Count) \in Versions /\ Number(V(9 + Count)) = Count
         /\ running \in Versions \cup {Zero}
<1>1. Count \in Nat /\ Zero \notin Versions
  BY RecordedVersions DEF Inv, Shape
<1>2. \A v \in Versions : v.tenths \in 10..(9 + Count) /\ Number(v) = v.tenths - 9
  BY <1>1, VersionTypes DEF Versions, Number
<1>3. Number(Zero) = 0 /\ Zero.tenths = 0
  BY VersionTypes DEF Number
<1>4. Count >= 1 => V(9 + Count) \in Versions /\ V(9 + Count).tenths = 9 + Count
  BY <1>1, VersionTypes DEF Versions
<1>5. running \in Versions \cup {Zero}
  BY DEF Inv, NetworkInv
<1> QED
  BY <1>1, <1>2, <1>3, <1>4, <1>5

\* The one request is the one whose success may be reported.
LEMMA ReportOf ==
  ASSUME Alone, NEW a \in Admins
  PROVE  /\ Reported = IF request[a].step = "committed" THEN Number(currentVersion) ELSE 0
         /\ Reported' = IF request'[a].step = "committed" THEN Number(currentVersion)' ELSE 0
BY DEF Alone, Reported

\* A step before or after which nothing is reported, and which the register does not see.
LEMMA UnseenStep ==
  ASSUME Alone, NEW a \in Admins,
         request[a].step # "committed", request'[a].step # "committed",
         UNCHANGED <<chaincodeVersions, running, instantiated>>
  PROVE  RegisterStep
BY ReportOf DEF RegisterStep, Number

LEMMA UpdateUnseen ==
  ASSUME Alone, Inv, NEW a \in Admins, Update(a) \/ Downgrade(a)
  PROVE  RegisterStep
<1>1. CASE Update(a)
  <2>1. request'[a].step \in {"installing", "deploying"}
    BY <1>1 DEF Update, FirstUpdate, UpgradeUpdate, Call, Inv, Shape, TypeOK
  <2> QED
    BY <1>1, <2>1, UnseenStep DEF Update, Idle, network
<1>2. CASE Downgrade(a)
  BY <1>2, UnseenStep DEF Downgrade, DowngradeToPrevious, DowngradeTo, Idle, network
<1> QED
  BY <1>1, <1>2

\* One more release.
LEMMA InstallReleases ==
  ASSUME Alone, Inv, NEW a \in Admins, InstallReturns(a)
  PROVE  RegisterStep
<1>1. Len(chaincodeVersions') = Len(chaincodeVersions) + 1 /\ request'[a].step = "deploying"
  BY DEF InstallReturns, Call, Inv, Shape, TypeOK
<1>2. Reported = 0 /\ Reported' = 0
  BY <1>1, ReportOf DEF InstallReturns
<1>3. UNCHANGED <<running, instantiated>>
  BY DEF InstallReturns
<1> QED
  BY <1>1, <1>2, <1>3 DEF RegisterStep, Register!Next, Register!Release, Number

\* The channel moves on to the newest release, and no report is pending.
LEMMA CommittedReports ==
  ASSUME Alone, Inv, NEW a \in Admins, Committed(a)
  PROVE  RegisterStep
<1>1. Deploying(request[a])
  BY DEF Inv, Shape, RequestShape, Committed
<1>2. /\ request[a].version = V(9 + Count) /\ request[a].version \in Versions
      /\ request[a].base \in Versions \cup {Zero}
      /\ request[a].base.tenths < request[a].version.tenths
  BY SentGoesForward DEF Committed
<1>3. /\ running = request[a].base /\ running' = V(9 + Count)
      /\ UNCHANGED <<currentVersion, instantiated, chaincodeVersions>>
  BY <1>2 DEF Committed, blockchain
<1>4. request'[a].step = "committed" /\ currentVersion = V(9 + Count)
  BY <1>1, CommittedShape DEF Inv, Deploying
<1>5. Count >= 1 /\ Number(V(9 + Count)) = Count /\ Number(running) < Count
  BY <1>1, <1>2, <1>3, ReleaseNumbers DEF Deploying
<1>6. Number(running)' = Count /\ Number(currentVersion)' = Count
  BY <1>3, <1>4, <1>5 DEF Number
<1>7. Reported = 0 /\ Reported' = Count
  BY <1>4, <1>6, ReportOf DEF Committed
<1> QED
  BY <1>3, <1>5, <1>6, <1>7 DEF RegisterStep, Register!Next, Register!RunReported, Count

\* The report is made: the chaincode is in service.
LEMMA SucceedsAcknowledges ==
  ASSUME Alone, Inv, NEW a \in Admins, Succeeds(a)
  PROVE  RegisterStep
<1>1. Deploying(request[a]) /\ request'[a].step = "idle"
  BY SucceedsShape DEF Inv, Shape, RequestShape, Succeeds
<1>2. Count >= 1 /\ Number(currentVersion) = Count
  BY <1>1, ReleaseNumbers DEF Deploying
<1>3. Reported # 0 /\ Reported' = 0
  BY <1>1, <1>2, ReportOf DEF Succeeds
<1>4. instantiated' = TRUE
  BY <1>1 DEF Succeeds, Deploying
<1>5. UNCHANGED <<chaincodeVersions, running>>
  BY DEF Succeeds, network
<1> QED
  BY <1>3, <1>4, <1>5 DEF RegisterStep, Register!Next, Register!Acknowledge, Number

\* While a report is being made nothing late can replace what it names; otherwise a late
\* transaction takes the channel to a later release, or fails.
LEMMA LateCommitMovesOn ==
  ASSUME Inv, LateCommit
  PROVE  RegisterStep
<1>1. PICK tx \in late :
           /\ running' = IF running = tx.base THEN tx.version ELSE running
           /\ UNCHANGED <<blockchain, request>>
  BY DEF LateCommit
<1>2. /\ UNCHANGED <<chaincodeVersions, instantiated, currentVersion, request>>
      /\ Reported' = Reported
  BY <1>1 DEF blockchain, Reported, Number
<1>3. /\ tx.version \in Versions /\ tx.base \in Versions \cup {Zero}
      /\ tx.base.tenths < tx.version.tenths
  BY DEF Inv, NetworkInv
<1>4. /\ Count \in Nat /\ Number(tx.version) \in 0..Count
      /\ Number(tx.base) \in 0..Count /\ Number(tx.base) < Number(tx.version)
  BY <1>3, ReleaseNumbers
<1>5. CASE running' = running
  BY <1>2, <1>5 DEF RegisterStep, Number
<1>6. CASE running' # running
  <2>1. running = tx.base /\ running' = tx.version
    BY <1>1, <1>6
  <2>2. ASSUME NEW a \in Admins, request[a].step = "committed" PROVE FALSE
    <3>1. running = V(9 + Count) /\ Deploying(request[a])
      BY <2>2 DEF Inv, SentInv, Shape, RequestShape
    <3>2. Number(running) = Count
      BY <3>1, ReleaseNumbers DEF Deploying
    <3> QED
      BY <1>4, <2>1, <3>2
  <2>3. Reported = 0
    BY <2>2 DEF Reported
  <2>4. Number(running)' = Number(tx.version)
    BY <2>1 DEF Number
  <2>5. Number(running)' \in (Number(running) + 1)..Count
    BY <1>4, <2>1, <2>4
  <2>6. Number(running)' \in (Number(running) + 1)..Len(chaincodeVersions)
    BY <2>5 DEF Count
  <2> QED
    BY <1>2, <2>3, <2>6 DEF RegisterStep, Register!Next, Register!RunLate
<1> QED
  BY <1>5, <1>6

LEMMA RegisterNext == Alone /\ Inv /\ [Next]_vars => RegisterStep
<1> SUFFICES ASSUME Alone, Inv, [Next]_vars PROVE RegisterStep
  OBVIOUS
<1>1. ASSUME NEW a \in Admins,
             InstallThrows(a) \/ Refused(a) \/ Invalidated(a) \/ TimedOut(a)
      PROVE  RegisterStep
  <2>1. Return(a) /\ request[a].step # "committed"
    BY <1>1 DEF InstallThrows, Refused, Invalidated, TimedOut, DeployFails
  <2>2. request'[a].step = "idle"
    BY <2>1, ReturnType DEF Inv, Shape
  <2>3. UNCHANGED <<chaincodeVersions, running, instantiated>>
    <3>1. CASE InstallThrows(a)
      BY <3>1, InstallThrowsShape DEF Inv, InstallThrows
    <3>2. CASE ~InstallThrows(a)
      BY <1>1, <3>2 DEF Refused, Invalidated, TimedOut, DeployFails, network
    <3> QED
      BY <3>1, <3>2
  <2> QED
    BY <2>1, <2>2, <2>3, UnseenStep
<1>2. ASSUME NEW a \in Admins, Endorsed(a) PROVE RegisterStep
  <2>1. request[a].step = "deploying" /\ request'[a].step = "sent"
    BY <1>2, EndorsedShape DEF Inv, Endorsed
  <2>2. UNCHANGED <<chaincodeVersions, running, instantiated>>
    BY <1>2 DEF Endorsed, blockchain, network
  <2> QED
    BY <2>1, <2>2, UnseenStep
<1>3. ASSUME NEW a \in Admins, Proceed(a) PROVE RegisterStep
  BY <1>1, <1>2, <1>3, InstallReleases, CommittedReports, SucceedsAcknowledges DEF Proceed
<1>4. CASE UNCHANGED vars
  BY <1>4 DEF vars, RegisterStep, Reported, Number
<1> QED
  BY <1>3, <1>4, UpdateUnseen, LateCommitMovesOn DEF Next

\* With one administrator at a time, whatever fails, drifts, is downgraded or commits late,
\* the backoffice and the network together behave like the register: releases are numbered
\* without gaps, the channel only moves on, and what is reported is the newest and runs.
THEOREM ImplementsRegister == ASSUME Alone PROVE Spec => RegisterSpec
<1>1. Init => Register!Init
  <2> SUFFICES ASSUME Init PROVE Register!Init
    OBVIOUS
  <2>1. Reported = 0
    BY DEF Init, Reported, NoRequest
  <2> QED
    BY <2>1 DEF Init, Register!Init, Number
<1>2. Inv /\ [Next]_vars => Inv'
  BY InvNext
<1>3. Inv /\ [Next]_vars =>
        [Register!Next]_<<Len(chaincodeVersions), Number(running), Reported, instantiated>>
  BY RegisterNext DEF RegisterStep
<1> QED
  BY <1>1, <1>2, <1>3, InvInit, PTL DEF Spec, RegisterSpec, Register!Spec

----------------------------------------------------------------------------
(* Types, for any number of administrators at the same time.                *)

LEMMA MinOfNaturals ==
  ASSUME NEW S \in SUBSET Nat, S # {}
  PROVE  Min(S) \in S
<1>1. PICK x \in S : \A y \in S : ~(<<y, x>> \in OpToRel(<, Nat))
  BY NatLessThanWellFounded, WFMin
<1>2. \A y \in S : x =< y
  <2> SUFFICES ASSUME NEW y \in S PROVE x =< y
    OBVIOUS
  <2>1. <<y, x>> \in Nat \X Nat
    OBVIOUS
  <2>2. ~(y < x)
    BY <1>1, <2>1 DEF OpToRel
  <2> QED
    BY <2>1, <2>2
<1> QED
  BY <1>1, <1>2 DEF Min

\* recoverVersionFromError: what is left of a list is a list.
LEMMA RemoveFirstType ==
  ASSUME NEW S, NEW s \in Seq(S), NEW e
  PROVE  RemoveFirst(s, e) \in Seq(S)
<1> DEFINE I == { i \in 1..Len(s) : s[i] = e }
<1>1. CASE I = {}
  BY <1>1 DEF RemoveFirst
<1>2. CASE I # {}
  <2>1. Len(s) \in Nat /\ I \in SUBSET Nat
    OBVIOUS
  <2>2. Min(I) \in I
    <3> HIDE DEF I
    <3> QED
      BY <1>2, <2>1, MinOfNaturals
  <2>3. SelectInSeq(s, LAMBDA v : v = e) = Min(I)
    BY <1>2 DEF SelectInSeq
  <2>4. RemoveFirst(s, e) = RemoveAt(s, Min(I))
    BY <1>2, <2>3 DEF RemoveFirst
  <2> DEFINE k == Min(I)
  <2>5. k \in 1..Len(s)
    BY <2>2
  <2> HIDE DEF k
  <2>6. SubSeq(s, 1, k - 1) \in Seq(S) /\ SubSeq(s, k + 1, Len(s)) \in Seq(S)
    BY <2>1, <2>5
  <2> QED
    BY <2>4, <2>6 DEF k, RemoveAt
<1> QED
  BY <1>1, <1>2

LEMMA UpdateType ==
  ASSUME TypeOK, NEW a \in Admins, Update(a)
  PROVE  TypeOK'
<1>1. V(10) \in Double /\ currentVersion \in Double
  BY VersionTypes DEF TypeOK
<1>2. PICK step \in {"installing", "deploying"}, kind \in {"first", "upgrade"},
           version \in Double :
        Call(a, step, kind, version) /\ currentVersion' \in Double
  <2>1. CASE FirstUpdate(a)
    BY <1>1, <2>1 DEF FirstUpdate
  <2>2. CASE UpgradeUpdate(a)
    <3>1. Last(chaincodeVersions) \in Double
      BY <2>2 DEF UpgradeUpdate, Last, TypeOK
    <3> DEFINE next == IF Last(chaincodeVersions) = Zero THEN V(10)
                       ELSE Incremented(Last(chaincodeVersions))
    <3>2. next \in Double
      BY <1>1, <3>1, VersionTypes
    <3>3. /\ currentVersion' = next
          /\ Call(a, IF Recorded(next) THEN "deploying" ELSE "installing", "upgrade", next)
      BY <2>2 DEF UpgradeUpdate
    <3> HIDE DEF next
    <3> QED
      BY <3>2, <3>3
  <2> QED
    BY <2>1, <2>2 DEF Update
<1>3. request' \in [Admins -> Request \cup {NoRequest}]
  BY <1>2, CallType
<1> QED
  BY <1>2, <1>3 DEF Update, TypeOK, network

LEMMA InstallReturnsType ==
  ASSUME TypeOK, NEW a \in Admins, InstallReturns(a)
  PROVE  TypeOK'
<1>1. request[a] \in Request
  BY DEF InstallReturns, TypeOK, NoRequest
<1>2. request[a].version \in Double /\ request[a].kind \in {"first", "upgrade"}
  BY <1>1 DEF Request
<1>3. request' \in [Admins -> Request \cup {NoRequest}]
  BY <1>2, CallType DEF InstallReturns, TypeOK
<1>4. installed' \subseteq Double /\ faults' \in 0..MaxFaults
  BY <1>2, BoundsAreNatural DEF InstallReturns, Fault, TypeOK
<1>5. chaincodeVersions' \in Seq(Double)
  BY DEF InstallReturns, TypeOK
<1> QED
  BY <1>3, <1>4, <1>5 DEF InstallReturns, TypeOK

LEMMA InstallThrowsType ==
  ASSUME TypeOK, NEW a \in Admins, InstallThrows(a)
  PROVE  TypeOK'
<1>1. request[a] \in Request
  BY DEF InstallThrows, TypeOK, NoRequest
<1>2. request[a].version \in Double
  BY <1>1 DEF Request
<1>3. request' \in [Admins -> Request \cup {NoRequest}]
  BY ReturnType DEF InstallThrows
<1>4. installed' \subseteq Double /\ faults' \in 0..MaxFaults
  BY <1>2, BoundsAreNatural DEF InstallThrows, Fault, TypeOK
<1>5. currentVersion' \in Double
  BY VersionTypes DEF InstallThrows, TypeOK
<1>6. chaincodeVersions' \in Seq(Double)
  BY RemoveFirstType DEF InstallThrows, TypeOK
<1> QED
  BY <1>3, <1>4, <1>5, <1>6 DEF InstallThrows, TypeOK

LEMMA DeployFailsType ==
  ASSUME TypeOK, NEW a \in Admins, Refused(a) \/ Invalidated(a) \/ TimedOut(a)
  PROVE  TypeOK'
<1>1. DeployFails(a) /\ UNCHANGED <<installed, running>>
  BY DEF Refused, Invalidated, TimedOut, network
<1>2. faults' \in 0..MaxFaults
  BY BoundsAreNatural DEF Refused, Invalidated, TimedOut, Fault, TypeOK
<1>3. request' \in [Admins -> Request \cup {NoRequest}]
  BY <1>1, ReturnType DEF DeployFails
<1>4. /\ currentVersion' \in Double
      /\ UNCHANGED <<instantiated, chaincodeVersions>>
  BY <1>1, VersionTypes DEF DeployFails, TypeOK
<1>5. late' \subseteq [base : Double, version : Double]
  <2>1. CASE TimedOut(a)
    <3> DEFINE tx == [base |-> request[a].base, version |-> request[a].version]
    <3>1. request[a] \in Request
      BY <2>1 DEF TimedOut, TypeOK, NoRequest
    <3>2. tx \in [base : Double, version : Double] /\ late' = late \cup {tx}
      BY <2>1, <3>1 DEF TimedOut, Request
    <3> HIDE DEF tx
    <3> QED
      BY <3>2 DEF TypeOK
  <2>2. CASE UNCHANGED late
    BY <2>2 DEF TypeOK
  <2> QED
    BY <2>1, <2>2 DEF Refused, Invalidated, network
<1> QED
  BY <1>1, <1>2, <1>3, <1>4, <1>5 DEF TypeOK

\* A request whose call to the network goes on.
LEMMA EndorsedStep ==
  ASSUME TypeOK, NEW a \in Admins, Endorsed(a)
  PROVE  /\ TypeOK' /\ request[a] \in Request
         /\ request'[a].step = "sent" /\ request'[a].base = running
         /\ request'[a].kind = request[a].kind /\ request'[a].version = request[a].version
         /\ \A b \in Admins : b # a => request'[b] = request[b]
<1> DEFINE r == [request[a] EXCEPT !.step = "sent", !.base = running]
<1>1. request[a] \in Request
  BY DEF Endorsed, TypeOK, NoRequest
<1>2. /\ r \in Request /\ r.step = "sent" /\ r.base = running
      /\ r.kind = request[a].kind /\ r.version = request[a].version
  BY <1>1 DEF Request, TypeOK
<1>3. request' = [request EXCEPT ![a] = r]
  BY DEF Endorsed, TypeOK
<1> HIDE DEF r
<1>4. /\ request' \in [Admins -> Request \cup {NoRequest}] /\ request'[a] = r
      /\ \A b \in Admins : b # a => request'[b] = request[b]
  BY <1>2, <1>3 DEF TypeOK
<1>5. TypeOK'
  BY <1>4 DEF Endorsed, TypeOK, blockchain, network
<1> QED
  BY <1>1, <1>2, <1>4, <1>5

LEMMA CommittedStep ==
  ASSUME TypeOK, NEW a \in Admins, Committed(a)
  PROVE  /\ TypeOK' /\ request[a] \in Request
         /\ request'[a].step = "committed" /\ request'[a].kind = request[a].kind
         /\ \A b \in Admins : b # a => request'[b] = request[b]
<1> DEFINE r == [request[a] EXCEPT !.step = "committed"]
<1>1. request[a] \in Request
  BY DEF Committed, TypeOK, NoRequest
<1>2. /\ r \in Request /\ r.step = "committed" /\ r.kind = request[a].kind
      /\ request[a].version \in Double
  BY <1>1 DEF Request
<1>3. request' = [request EXCEPT ![a] = r]
  BY DEF Committed, TypeOK
<1> HIDE DEF r
<1>4. /\ request' \in [Admins -> Request \cup {NoRequest}] /\ request'[a] = r
      /\ \A b \in Admins : b # a => request'[b] = request[b]
  BY <1>2, <1>3 DEF TypeOK
<1>5. TypeOK'
  BY <1>2, <1>4 DEF Committed, TypeOK, blockchain
<1> QED
  BY <1>1, <1>2, <1>4, <1>5

LEMMA OtherTypes ==
  ASSUME TypeOK, \/ \E a \in Admins : Succeeds(a) \/ Downgrade(a)
                 \/ LateCommit
  PROVE  TypeOK'
<1>1. ASSUME NEW a \in Admins, Succeeds(a) PROVE TypeOK'
  <2>1. request' \in [Admins -> Request \cup {NoRequest}]
    BY <1>1, ReturnType DEF Succeeds
  <2> QED
    BY <1>1, <2>1 DEF Succeeds, TypeOK, network
<1>2. ASSUME NEW a \in Admins, Downgrade(a) PROVE TypeOK'
  <2>1. currentVersion' \in Double
    <3>1. CASE DowngradeToPrevious(a)
      <4>1. Len(chaincodeVersions) - 1 \in DOMAIN chaincodeVersions
        BY <3>1 DEF DowngradeToPrevious, TypeOK
      <4>2. chaincodeVersions[Len(chaincodeVersions) - 1] \in Double
        BY <4>1 DEF TypeOK
      <4> QED
        BY <3>1, <4>2, VersionTypes DEF DowngradeToPrevious, Selected
    <3>2. ASSUME NEW i \in DOMAIN chaincodeVersions, DowngradeTo(a, chaincodeVersions[i])
          PROVE  currentVersion' \in Double
      <4>1. chaincodeVersions[i] \in Double
        BY DEF TypeOK
      <4> QED
        BY <3>2, <4>1, VersionTypes DEF DowngradeTo, Selected
    <3> QED
      BY <1>2, <3>1, <3>2 DEF Downgrade
  <2>2. UNCHANGED <<instantiated, chaincodeVersions, request, installed, running, late, faults>>
    BY <1>2 DEF Downgrade, DowngradeToPrevious, DowngradeTo, network
  <2> QED
    BY <2>1, <2>2 DEF TypeOK
<1>3. CASE LateCommit
  BY <1>3 DEF LateCommit, TypeOK, blockchain
<1> QED
  BY <1>1, <1>2, <1>3

LEMMA TypeNext == TypeOK /\ [Next]_vars => TypeOK'
<1> SUFFICES ASSUME TypeOK, [Next]_vars PROVE TypeOK'
  OBVIOUS
<1>1. ASSUME NEW a \in Admins, Proceed(a) PROVE TypeOK'
  BY <1>1, InstallReturnsType, InstallThrowsType, DeployFailsType, EndorsedStep, CommittedStep,
     OtherTypes DEF Proceed
<1>2. CASE UNCHANGED vars
  BY <1>2 DEF vars, TypeOK
<1> QED
  BY <1>1, <1>2, UpdateType, OtherTypes DEF Next

\* However many administrators' requests overlap, the variables keep the types of the fields
\* of Blockchain.
THEOREM TypeCorrect == Spec => []TypeOK
<1>1. Init => TypeOK
  BY InvInit DEF Inv, Shape
<1> QED
  BY <1>1, TypeNext, PTL DEF Spec

----------------------------------------------------------------------------
(* The flag, for any number of administrators at the same time.             *)

\* The chaincode that runs was instantiated, or the request that instantiated it is about to
\* say so; and an upgrade is one of a chaincode that runs.
FlagInv ==
  /\ TypeOK
  /\ running # Zero =>
       \/ instantiated
       \/ \E a \in Admins : request[a].step = "committed" /\ request[a].kind = "first"
  /\ \A a \in Admins : request[a].step = "sent" /\ request[a].kind = "upgrade" =>
       request[a].base # Zero

\* A step after which the network runs nothing new, and no request of the two kinds ended or
\* came up.
LEMMA QuietFlag ==
  ASSUME FlagInv, TypeOK', running' = running, instantiated => instantiated',
         \A a \in Admins :
           \/ request'[a] = request[a]
           \/ /\ request[a].step # "committed" \/ request[a].kind # "first" \/ instantiated'
              /\ request'[a].step # "sent"
  PROVE  FlagInv'
<1>1. \/ running' = Zero \/ instantiated'
      \/ \E a \in Admins : request'[a].step = "committed" /\ request'[a].kind = "first"
  BY DEF FlagInv
<1>2. \A a \in Admins : request'[a].step = "sent" /\ request'[a].kind = "upgrade" =>
        request'[a].base # Zero
  BY DEF FlagInv
<1> QED
  BY <1>1, <1>2 DEF FlagInv

\* The one request that a step is about.
LEMMA OwnRequest ==
  ASSUME TypeOK, NEW a \in Admins,
         \/ Return(a)
         \/ \E step, kind, version : step # "sent" /\ Call(a, step, kind, version)
  PROVE  request'[a].step # "sent" /\ \A b \in Admins : b # a => request'[b] = request[b]
BY DEF TypeOK, Return, Call, NoRequest

LEMMA FlagNext ==
  ASSUME FlagInv, late = {}, [Next]_vars
  PROVE  FlagInv'
<1>0. TypeOK /\ TypeOK'
  BY TypeNext DEF FlagInv
<1>1. ASSUME NEW a \in Admins, Update(a) PROVE FlagInv'
  <2>1. \E step, kind, version : step # "sent" /\ Call(a, step, kind, version)
    <3>1. CASE FirstUpdate(a)
      BY <3>1 DEF FirstUpdate
    <3>2. CASE UpgradeUpdate(a)
      <4> DEFINE next == IF Last(chaincodeVersions) = Zero THEN V(10)
                         ELSE Incremented(Last(chaincodeVersions))
      <4>1. Call(a, IF Recorded(next) THEN "deploying" ELSE "installing", "upgrade", next)
        BY <3>2 DEF UpgradeUpdate
      <4> HIDE DEF next
      <4> QED
        BY <4>1
    <3> QED
      BY <1>1, <3>1, <3>2 DEF Update
  <2>2. request[a].step = "idle" /\ UNCHANGED <<running, instantiated>>
    BY <1>1 DEF Update, Idle, network
  <2> QED
    BY <1>0, <2>1, <2>2, OwnRequest, QuietFlag
<1>2. ASSUME NEW a \in Admins,
             \/ InstallReturns(a) \/ InstallThrows(a) \/ Refused(a) \/ Invalidated(a)
             \/ TimedOut(a)
      PROVE  FlagInv'
  <2>1. \/ Return(a)
        \/ \E step, kind, version : step # "sent" /\ Call(a, step, kind, version)
    BY <1>2 DEF InstallReturns, InstallThrows, Refused, Invalidated, TimedOut, DeployFails
  <2>2. request[a].step # "committed" /\ UNCHANGED <<running, instantiated>>
    BY <1>2 DEF InstallReturns, InstallThrows, Refused, Invalidated, TimedOut, DeployFails,
                network
  <2> QED
    BY <1>0, <2>1, <2>2, OwnRequest, QuietFlag
<1>3. ASSUME NEW a \in Admins, Endorsed(a) PROVE FlagInv'
  <2>1. UNCHANGED <<running, instantiated>> /\ request[a].step = "deploying"
    BY <1>3 DEF Endorsed, blockchain, network
  <2>2. request[a].kind = "upgrade" => running # Zero
    BY <1>3 DEF Endorsed, Deployable
  <2> QED
    BY <1>0, <1>3, <2>1, <2>2, EndorsedStep DEF FlagInv
<1>4. ASSUME NEW a \in Admins, Committed(a) PROVE FlagInv'
  <2>1. /\ running = request[a].base /\ request[a].step = "sent" /\ instantiated' = instantiated
        /\ request[a].kind \in {"first", "upgrade"}
    BY <1>0, <1>4, CommittedStep DEF Committed, blockchain, Request
  <2>2. request[a].kind = "upgrade" => running # Zero
    BY <2>1 DEF FlagInv
  <2>3. request'[a].step = "committed" /\ request'[a].kind = request[a].kind
        /\ \A b \in Admins : b # a => request'[b] = request[b]
    BY <1>0, <1>4, CommittedStep
  <2>4. \/ instantiated'
        \/ \E b \in Admins : request'[b].step = "committed" /\ request'[b].kind = "first"
    <3>1. CASE request[a].kind = "first"
      BY <2>3, <3>1
    <3>2. CASE request[a].kind = "upgrade"
      BY <2>1, <2>2, <2>3, <3>2 DEF FlagInv
    <3> QED
      BY <2>1, <3>1, <3>2
  <2>5. \A b \in Admins : request'[b].step = "sent" /\ request'[b].kind = "upgrade" =>
          request'[b].base # Zero
    BY <2>3 DEF FlagInv
  <2> QED
    BY <1>0, <2>4, <2>5 DEF FlagInv
<1>5. ASSUME NEW a \in Admins, Succeeds(a) PROVE FlagInv'
  <2>1. Return(a) /\ running' = running /\ (instantiated => instantiated')
        /\ (request[a].kind = "first" => instantiated')
    BY <1>5 DEF Succeeds, network
  <2> QED
    BY <1>0, <2>1, OwnRequest, QuietFlag
<1>6. ASSUME NEW a \in Admins, Downgrade(a) PROVE FlagInv'
  <2>1. UNCHANGED <<request, running, instantiated>>
    BY <1>6 DEF Downgrade, DowngradeToPrevious, DowngradeTo, network
  <2> QED
    BY <1>0, <2>1, QuietFlag
<1>7. ~LateCommit
  BY DEF LateCommit
<1>8. CASE UNCHANGED vars
  BY <1>0, <1>8, QuietFlag DEF vars
<1>9. ASSUME NEW a \in Admins, Proceed(a) PROVE FlagInv'
  BY <1>2, <1>3, <1>4, <1>5, <1>9 DEF Proceed
<1> QED
  BY <1>1, <1>6, <1>7, <1>8, <1>9 DEF Next

\* "Instantiates if not instantiated, upgrades if instantiated": the flag tells whether the
\* network runs the chaincode, however many administrators' requests overlap and whatever
\* else fails, as long as no transaction that the code gave up waiting for is under way.
\* That one fault alone makes the flag wrong.
THEOREM FlagRightUnlessLate == Spec /\ [](late = {}) => []RunningIsInstantiated
<1>1. Init => FlagInv
  BY InvInit DEF Init, Inv, Shape, FlagInv, NoRequest
<1>2. FlagInv /\ late = {} /\ [Next]_vars => FlagInv'
  BY FlagNext
<1>3. FlagInv => RunningIsInstantiated
  BY DEF FlagInv, RunningIsInstantiated, Idle
<1> QED
  BY <1>1, <1>2, <1>3, PTL DEF Spec

=============================================================================
