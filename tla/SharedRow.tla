----------------------------- MODULE SharedRow -----------------------------
(***************************************************************************)
(* The signature cycle while the backoffice is at work.                    *)
(*                                                                         *)
(* The IDHashtable that the client application keeps for its documents is  *)
(* a field of the Blockchain object in the BlockchainInfo row.  The        *)
(* backoffice loads that object when it starts, never looks at the row     *)
(* again, and at the end of every upgrade and downgrade, successful or     *)
(* not, writes its object over the row.  What such a request does to the   *)
(* chaincode is in BackofficeStore; here only its write matters, which may *)
(* come between any two steps of the client's requests.                    *)
(***************************************************************************)
EXTENDS DocumentSigning

CONSTANT MaxSaves  \* bound on the saves of the backoffice

ASSUME SavesAreNatural == MaxSaves \in Nat

VARIABLES
  loaded,  \* IDHashtable of the Blockchain object in the backoffice's memory
  saves    \* how often the backoffice saved that object (bounded by MaxSaves)

sharedVars == <<vars, loaded, saves>>

\* WebService.getChaincodes: the backoffice starts, or starts again, from the row.
BackofficeStarts ==
  /\ loaded' = idTable
  /\ UNCHANGED <<vars, saves>>

\* Mutant: the table is not serialized with the object.
BackofficeSaves_NoTable ==
  /\ saves < MaxSaves
  /\ saves' = saves + 1
  /\ idTable' = EmptyTable
  /\ UNCHANGED <<documents, chain, forms, request, bounds, loaded>>

\* saveChaincodeChanges: the whole object replaces the one in the row.
BackofficeSaves ==
  /\ saves < MaxSaves
  /\ saves' = saves + 1
  /\ idTable' = loaded
  /\ UNCHANGED <<documents, chain, forms, request, bounds, loaded>>

\* The row was inserted by newChaincode, with the table of a new object.
SharedInit == Init /\ loaded = EmptyTable /\ saves = 0

SharedNext ==
  \/ Next /\ UNCHANGED <<loaded, saves>>
  \/ BackofficeStarts
  \/ BackofficeSaves

SharedSpec == SharedInit /\ [][SharedNext]_sharedVars

----------------------------------------------------------------------------
\* The variables have the types of the fields and columns, and the backoffice's copy that
\* of the table in the row.
SharedTypeOK == TypeOK /\ loaded \in IdTable /\ saves \in 0..MaxSaves

\* The backoffice can wipe the ids of a document that was uploaded since it started, and
\* of no other: one that its object knows can be signed whenever the page offers it,
\* through saves, restarts and failed requests (for one request of the client at a time).
LoadedCanBeSigned ==
  \A d \in Docs :
    /\ Started(d) /\ CurrentSigner(documents[d]) # NoUser
    /\ loaded[documents[d].hash] # <<>>
    => idTable[documents[d].hash] # <<>>

=============================================================================
