------------------------- MODULE ChaincodeLifecycle -------------------------
(***************************************************************************)
(* How the backoffice installs, instantiates, upgrades and downgrades one  *)
(* chaincode (core/Blockchain.java), and what the Fabric network makes of  *)
(* it.                                                                     *)
(*                                                                         *)
(* All administrators share the one Blockchain object that FireStarter     *)
(* keeps per chaincode, and none of its methods is synchronized.  Its      *)
(* version is a double that grows by 0.1.  A request runs without pause    *)
(* between two calls to the network, and other requests run during a call. *)
(*                                                                         *)
(* The network is modelled from how the code uses it (external): peers     *)
(* refuse a version that is not installed, a second instantiation, and an  *)
(* upgrade to the running version; a transaction commits only if nothing   *)
(* was committed since it was endorsed; and one whose answer the code no   *)
(* longer waits for may still commit.                                      *)
(***************************************************************************)
EXTENDS Integers, Sequences, SequencesExt

CONSTANTS
  Admins,       \* request threads of the backoffice
  Inexact,      \* the tenths t for which the double t/10 - 0.1 is not (t-1)/10
  MaxVersions,  \* bound on the versions recorded
  MaxFaults     \* bound on the faults of the network

ASSUME InexactIsNatural == Inexact \subseteq Nat

ASSUME BoundsAreNatural == MaxVersions \in Nat /\ MaxFaults \in Nat

VARIABLES
  currentVersion,     \* Blockchain.currentVersion
  instantiated,       \* Blockchain.instantiated
  chaincodeVersions,  \* Blockchain.chaincodeVersions
  request,            \* what each administrator's request is doing
  installed,          \* the versions the peers have
  running,            \* the version the channel runs, Zero before the first
  late,               \* transactions the code gave up waiting for
  faults              \* how many faults the network had (bounded by MaxFaults)

blockchain == <<currentVersion, instantiated, chaincodeVersions>>
network == <<installed, running, late>>
vars == <<currentVersion, instantiated, chaincodeVersions, request,
          installed, running, late, faults>>

----------------------------------------------------------------------------
(* Versions: doubles up to 4.0.  exact is FALSE for one that is not the double *)
(* nearest to tenths/10, such as 1.2 - 0.1 = 1.0999999999999999.               *)

Double == [tenths : Int, exact : BOOLEAN]

V(t) == [tenths |-> t, exact |-> TRUE]

Zero == V(0)

\* Mutant: the sum is not rounded; 1.1 + 0.1 is 1.2000000000000002.
Incremented_Unrounded(v) == [tenths |-> v.tenths + 1, exact |-> v.exact /\ v.tenths # 11]

\* Utils.round(currentVersion + upgradingPattern, 1)
Incremented(v) == V(v.tenths + 1)

\* Mutant: the version stays when a deployment failed.
Decremented_Not(v) == v

\* currentVersion - upgradingPattern, which nothing rounds.
Decremented(v) == [tenths |-> v.tenths - 1, exact |-> v.exact /\ v.tenths \notin Inexact]

Recorded(v) == \E i \in DOMAIN chaincodeVersions : chaincodeVersions[i] = v

\* updateChaincodeVersion(version), which starts at 1.0 whatever is asked.
Selected(version) == IF currentVersion = Zero THEN V(10) ELSE version

----------------------------------------------------------------------------
(* Requests *)

\* kind is "first" (updateChaincode) or "upgrade" (upgradeChaincode); version is the one
\* the call to the network carries and base the one that ran when it was endorsed.
Request == [step : {"installing", "deploying", "sent", "committed"},
            kind : {"first", "upgrade"}, version : Double, base : Double]

NoRequest == [step |-> "idle"]

Idle(a) == request[a].step = "idle"

\* Mutant: the call does not know whether it is the first deployment.
Call_NoKind(a, step, kind, version) ==
  request' = [request EXCEPT ![a] =
    [step |-> step, kind |-> "", version |-> version, base |-> Zero]]

Call(a, step, kind, version) ==
  request' = [request EXCEPT ![a] =
    [step |-> step, kind |-> kind, version |-> version, base |-> Zero]]

Return(a) == request' = [request EXCEPT ![a] = NoRequest]

\* updateChaincode before the chaincode is instantiated: install 1.0, then instantiate.
FirstUpdate(a) ==
  /\ ~(instantiated /\ currentVersion # Zero)
  /\ IF Recorded(currentVersion)
       THEN /\ Call(a, "deploying", "first", currentVersion)
            /\ UNCHANGED currentVersion
       ELSE /\ currentVersion' = V(10)
            /\ Call(a, "installing", "first", V(10))

\* Mutant: the next version is counted from the current one, also after a downgrade.
UpgradeUpdate_FromCurrent(a) ==
  /\ instantiated /\ currentVersion # Zero
  /\ LET next == Incremented(currentVersion)
     IN  /\ currentVersion' = next
         /\ Call(a, IF Recorded(next) THEN "deploying" ELSE "installing", "upgrade", next)

\* Mutant: a version whose deployment failed is deployed again.
UpgradeUpdate_Retries(a) ==
  /\ instantiated /\ currentVersion # Zero
  /\ chaincodeVersions # <<>>
  /\ LET last == Last(chaincodeVersions)
         retried == currentVersion.tenths < last.tenths
         next == IF retried THEN last ELSE Incremented(last)
     IN  /\ currentVersion' = next
         /\ Call(a, IF retried THEN "deploying" ELSE "installing", "upgrade", next)

\* upgradeChaincode: install and upgrade to the version after the last one recorded (a
\* last one of zero is left like any zero, for 1.0).  An empty list throws.
UpgradeUpdate(a) ==
  /\ instantiated /\ currentVersion # Zero
  /\ chaincodeVersions # <<>>
  /\ LET last == Last(chaincodeVersions)
         next == IF last = Zero THEN V(10) ELSE Incremented(last)
     IN  /\ currentVersion' = next
         /\ Call(a, IF Recorded(next) THEN "deploying" ELSE "installing", "upgrade", next)

\* GET /install/{chaincode} and POST /upgrade: both call updateChaincode.
Update(a) ==
  /\ Idle(a)
  /\ Len(chaincodeVersions) < MaxVersions
  /\ FirstUpdate(a) \/ UpgradeUpdate(a)
  /\ UNCHANGED <<instantiated, chaincodeVersions, network, faults>>

Fault == faults < MaxFaults /\ faults' = faults + 1

\* Mutant: the new version is not recorded.
InstallReturns_Forgets(a) ==
  /\ request[a].step = "installing"
  /\ \/ installed' = installed \cup {request[a].version} /\ UNCHANGED faults
     \/ Fault /\ UNCHANGED installed
  /\ Call(a, "deploying", request[a].kind, currentVersion)
  /\ UNCHANGED <<blockchain, running, late>>

\* install returns: failed responses of the peers are only logged.  The version recorded
\* and deployed next is the current one of that moment.
InstallReturns(a) ==
  /\ request[a].step = "installing"
  /\ \/ installed' = installed \cup {request[a].version} /\ UNCHANGED faults
     \/ Fault /\ UNCHANGED installed
  /\ chaincodeVersions' = Append(chaincodeVersions, currentVersion)
  /\ Call(a, "deploying", request[a].kind, currentVersion)
  /\ UNCHANGED <<currentVersion, instantiated, running, late>>

\* install throws, before or after the peers installed: back to 0 for the first version,
\* recoverVersionFromError(false) for an upgrade.
InstallThrows(a) ==
  /\ request[a].step = "installing"
  /\ Fault
  /\ \/ installed' = installed \cup {request[a].version}
     \/ UNCHANGED installed
  /\ IF request[a].kind = "first"
       THEN /\ currentVersion' = Zero
            /\ UNCHANGED chaincodeVersions
       ELSE /\ currentVersion' = Decremented(currentVersion)
            /\ chaincodeVersions' = RemoveFirst(chaincodeVersions, currentVersion)
  /\ Return(a)
  /\ UNCHANGED <<instantiated, running, late>>

\* Mutant: a failed first deployment counts as one.
DeployFails_Instantiated(a) ==
  /\ IF request[a].kind = "upgrade"
       THEN currentVersion' = Decremented(currentVersion)
       ELSE UNCHANGED currentVersion
  /\ instantiated' = TRUE
  /\ Return(a)
  /\ UNCHANGED chaincodeVersions

\* instantiate or upgrade throws: an error message, or recoverVersionFromError(true).
DeployFails(a) ==
  /\ IF request[a].kind = "upgrade"
       THEN currentVersion' = Decremented(currentVersion)
       ELSE UNCHANGED currentVersion
  /\ Return(a)
  /\ UNCHANGED <<instantiated, chaincodeVersions>>

\* What the peers endorse.
Deployable(r) ==
  /\ r.version \in installed
  /\ r.kind = "first" => running = Zero
  /\ r.kind = "upgrade" => running \notin {Zero, r.version}

\* The proposal is endorsed and the transaction sent to the orderer.
Endorsed(a) ==
  /\ request[a].step = "deploying"
  /\ Deployable(request[a])
  /\ request' = [request EXCEPT ![a].step = "sent", ![a].base = running]
  /\ UNCHANGED <<blockchain, network, faults>>

Refused(a) ==
  /\ request[a].step = "deploying"
  /\ \/ ~Deployable(request[a]) /\ UNCHANGED faults
     \/ Fault
  /\ DeployFails(a)
  /\ UNCHANGED network

\* future.get returns the event of a valid transaction ...
Committed(a) ==
  /\ request[a].step = "sent"
  /\ running = request[a].base
  /\ running' = request[a].version
  /\ request' = [request EXCEPT ![a].step = "committed"]
  /\ UNCHANGED <<blockchain, installed, late, faults>>

\* ... throws for an invalid one ...
Invalidated(a) ==
  /\ request[a].step = "sent"
  /\ running # request[a].base
  /\ DeployFails(a)
  /\ UNCHANGED <<network, faults>>

\* Mutant: the end of the wait is taken for success.
TimedOut_Committed(a) ==
  /\ request[a].step = "sent"
  /\ Fault
  /\ late' = late \cup {[base |-> request[a].base, version |-> request[a].version]}
  /\ request' = [request EXCEPT ![a].step = "committed"]
  /\ UNCHANGED <<blockchain, installed, running>>

\* ... and after 100 seconds throws although the transaction is on its way.
TimedOut(a) ==
  /\ request[a].step = "sent"
  /\ Fault
  /\ late' = late \cup {[base |-> request[a].base, version |-> request[a].version]}
  /\ DeployFails(a)
  /\ UNCHANGED <<installed, running>>

\* Nobody waits for it any more, but it commits if nothing did before it.
LateCommit ==
  \E tx \in late :
    /\ late' = late \ {tx}
    /\ running' = IF running = tx.base THEN tx.version ELSE running
    /\ UNCHANGED <<blockchain, request, installed, faults>>

\* "Success deploying new chaincode version!"
Succeeds(a) ==
  /\ request[a].step = "committed"
  /\ instantiated' = IF request[a].kind = "first" THEN TRUE ELSE instantiated
  /\ Return(a)
  /\ UNCHANGED <<currentVersion, chaincodeVersions, network, faults>>

\* POST /downgrade with "previous": whatever runs, the last version but one.  With fewer
\* than two versions the list throws.
DowngradeToPrevious(a) ==
  /\ Idle(a)
  /\ currentVersion = Zero => instantiated
  /\ Len(chaincodeVersions) >= 2
  /\ currentVersion' = Selected(chaincodeVersions[Len(chaincodeVersions) - 1])
  /\ UNCHANGED <<instantiated, chaincodeVersions, request, network, faults>>

\* POST /downgrade with a version of the list on the page.
DowngradeTo(a, version) ==
  /\ Idle(a)
  /\ currentVersion = Zero => instantiated
  /\ currentVersion' = Selected(version)
  /\ UNCHANGED <<instantiated, chaincodeVersions, request, network, faults>>

Init ==
  /\ currentVersion = Zero
  /\ instantiated = FALSE
  /\ chaincodeVersions = <<>>
  /\ request = [a \in Admins |-> NoRequest]
  /\ installed = {}
  /\ running = Zero
  /\ late = {}
  /\ faults = 0

\* What a request does once it is running; every wait of it is bounded.
Proceed(a) ==
  \/ InstallReturns(a)
  \/ InstallThrows(a)
  \/ Endorsed(a)
  \/ Refused(a)
  \/ Committed(a)
  \/ Invalidated(a)
  \/ TimedOut(a)
  \/ Succeeds(a)

Downgrade(a) ==
  \/ DowngradeToPrevious(a)
  \/ \E i \in DOMAIN chaincodeVersions : DowngradeTo(a, chaincodeVersions[i])

Next ==
  \/ \E a \in Admins : Update(a) \/ Proceed(a) \/ Downgrade(a)
  \/ LateCommit

Spec == Init /\ [][Next]_vars

----------------------------------------------------------------------------
\* The variables have the types the fields of Blockchain give them.
TypeOK ==
  /\ currentVersion \in Double
  /\ instantiated \in BOOLEAN
  /\ chaincodeVersions \in Seq(Double)
  /\ request \in [Admins -> Request \cup {NoRequest}]
  /\ installed \subseteq Double
  /\ running \in Double
  /\ late \subseteq [base : Double, version : Double]
  /\ faults \in 0..MaxFaults

----------------------------------------------------------------------------
(* Properties of one administrator at a time. *)

\* Whatever fails, is late or is downgraded, and however currentVersion drifts, the list
\* of versions is 1.0, 1.1, 1.2, ... without a gap, a repetition or a drifted value.
VersionsAreConsecutive ==
  \A i \in DOMAIN chaincodeVersions : chaincodeVersions[i] = V(9 + i)

\* The network never runs a version the backoffice has no record of, not even when a
\* transaction it took for failed commits later.
RunningIsRecorded == running # Zero => Recorded(running)

\* Neither a downgrade, nor an upgrade after a downgrade, nor a late transaction takes
\* the network back to an earlier version.
RunningNeverRegresses == [][ running'.tenths >= running.tenths ]_running

\* Between requests the current version is, up to its drift, one of those recorded.
CurrentIsNearRecorded ==
  (\A a \in Admins : Idle(a)) /\ currentVersion # Zero =>
    \E i \in DOMAIN chaincodeVersions : chaincodeVersions[i].tenths = currentVersion.tenths

\* "Success deploying new chaincode version! Current Version: " names the version that
\* the network runs.
SuccessMeansRunning ==
  \A a \in Admins : request[a].step = "committed" => running = currentVersion

\* A chaincode taken for instantiated runs: later requests are right to upgrade it.
InstantiatedIsRunning == instantiated => running # Zero

\* An upgrade is never one the channel has no reason to endorse: while its proposal is under
\* way the network runs some version, and not the one proposed, although earlier attempts
\* may have installed or committed what the backoffice took for failed.
UpgradesAreEndorsable ==
  \A a \in Admins : request[a].step = "deploying" /\ request[a].kind = "upgrade" =>
    running \notin {Zero, request[a].version}

\* No failure, late commit or downgrade leaves upgrades blocked: an administrator who
\* keeps asking gets the newest version to run (within the bound on their number).
Fairness == \A a \in Admins : WF_vars(Update(a)) /\ WF_vars(Proceed(a))

FairSpec == Spec /\ Fairness

UpgradesGetThrough ==
  instantiated ~> \/ Len(chaincodeVersions) > 0 /\ running = Last(chaincodeVersions)
                  \/ Len(chaincodeVersions) = MaxVersions

----------------------------------------------------------------------------
(* What one administrator at a time may rely on. *)

\* Versions by their place in the list: 1.0 is the first release, 0.0 none.
Number(version) == IF version = Zero THEN 0 ELSE version.tenths - 9

\* What a message names that is about to be given.
Reported ==
  IF \E a \in Admins : request[a].step = "committed" THEN Number(currentVersion) ELSE 0

Register == INSTANCE ReleaseRegister
              WITH released <- Len(chaincodeVersions), running <- Number(running),
                   report <- Reported, inService <- instantiated

\* Whatever fails, drifts, is downgraded or commits late, every step is a step of the
\* register or none: one more release, the channel moving on, a true report, or its end.
RegisterSpec == Register!Spec

----------------------------------------------------------------------------
(* What the comments of Blockchain.java say of it. *)

\* "Instantiates if not instantiated, upgrades if instantiated": between requests the
\* flag that decides tells whether the network runs the chaincode.
RunningIsInstantiated ==
  (\A a \in Admins : Idle(a)) /\ running # Zero => instantiated

=============================================================================
