-------------------------- MODULE SharedRowProofs --------------------------
(***************************************************************************)
(* What the signature cycle keeps while the backoffice writes its old      *)
(* object over the row, however often it does and whenever it restarts.    *)
(* A save of the backoffice changes the table of ids and nothing else, so  *)
(* the invariants of the signature cycle are taken over from its proofs;   *)
(* what they say of the table is added for the copy of the backoffice.     *)
(***************************************************************************)
EXTENDS SharedRow, SigningOrderProofs, PatientSigningProofs

\* A save of the backoffice, as the client sees it.
Overwrites ==
  /\ idTable' = loaded
  /\ UNCHANGED <<documents, ledger, nextId, forms, request, posts, failures, loaded>>

LEMMA SharedSteps ==
  ASSUME [SharedNext]_sharedVars
  PROVE  \/ [Next]_vars /\ UNCHANGED loaded
         \/ UNCHANGED vars /\ loaded' = idTable
         \/ Overwrites
BY DEF SharedNext, sharedVars, BackofficeStarts, BackofficeSaves, Overwrites, chain, bounds

SharedTypeInv == TypeInv /\ loaded \in IdTable

LEMMA SharedTypeInit == SharedInit => SharedTypeInv
BY TypeInvInit, EmptyTableType DEF SharedInit, SharedTypeInv

LEMMA OverwriteType ==
  ASSUME SharedTypeInv, Overwrites
  PROVE  TypeInv'
BY DEF SharedTypeInv, TypeInv, TypeOK, HashesKnown, Idle, Overwrites

LEMMA UnchangedType ==
  ASSUME TypeInv, UNCHANGED vars
  PROVE  TypeInv'
BY TypeInvNext

LEMMA SharedTypeNext == SharedTypeInv /\ [SharedNext]_sharedVars => SharedTypeInv'
<1> SUFFICES ASSUME SharedTypeInv, [SharedNext]_sharedVars PROVE SharedTypeInv'
  OBVIOUS
<1>1. CASE [Next]_vars /\ UNCHANGED loaded
  BY <1>1, TypeInvNext DEF SharedTypeInv
<1>2. CASE UNCHANGED vars /\ loaded' = idTable
  BY <1>2, UnchangedType DEF SharedTypeInv, TypeInv, TypeOK
<1>3. CASE Overwrites
  BY <1>3, OverwriteType DEF SharedTypeInv, Overwrites
<1> QED
  BY <1>1, <1>2, <1>3, SharedSteps

\* The fields, the columns and the backoffice's copy of the table have their types.
THEOREM SharedTypeCorrect == SharedSpec => []SharedTypeOK
<1>1. SharedInit => saves \in 0..MaxSaves
  BY SavesAreNatural DEF SharedInit
<1>2. saves \in 0..MaxSaves /\ [SharedNext]_sharedVars => (saves \in 0..MaxSaves)'
  BY SavesAreNatural DEF SharedNext, sharedVars, BackofficeStarts, BackofficeSaves
<1>3. SharedTypeInv /\ saves \in 0..MaxSaves => SharedTypeOK
  BY DEF SharedTypeInv, TypeInv, SharedTypeOK
<1> QED
  BY <1>1, <1>2, <1>3, SharedTypeInit, SharedTypeNext, PTL DEF SharedSpec

----------------------------------------------------------------------------
(* The ledger, the rows and the forms: nothing in their invariants is about *)
(* the table, so a save of the backoffice changes none of it.               *)

LEMMA OverwriteChain ==
  ASSUME SharedTypeInv, ChainInv, Overwrites
  PROVE  ChainInv'
<1>1. TypeInv'
  BY OverwriteType
<1>2. UNCHANGED <<documents, ledger, request>>
  BY DEF Overwrites
<1> QED
  BY <1>1, <1>2 DEF ChainInv, RowsKnown, RequestKnown, Known, SomebodySigned, LedgerIsChained

SharedChainInv == SharedTypeInv /\ ChainInv

LEMMA SharedChainInit == SharedInit => SharedChainInv
BY SharedTypeInit, ChainInvInit DEF SharedInit, SharedChainInv

LEMMA SharedChainNext ==
  ASSUME ~LossyOrderer, SharedChainInv, [SharedNext]_sharedVars
  PROVE  SharedChainInv'
<1>1. SharedTypeInv'
  BY SharedTypeNext DEF SharedChainInv
<1>2. CASE [Next]_vars
  BY <1>1, <1>2, ChainInvNext DEF SharedChainInv
<1>3. CASE Overwrites
  BY <1>1, <1>3, OverwriteChain DEF SharedChainInv
<1> QED
  BY <1>2, <1>3, SharedSteps

\* The servers implement SignatureLog on the ledger also while the backoffice wipes ids: a
\* sign_op whose list was wiped fails after it was sent, and what it sent is still in order.
THEOREM SharedImplementsLog == ASSUME ~LossyOrderer PROVE SharedSpec => LogSpec
<1>1. SharedInit => Log!Init
  BY LogInit DEF SharedInit
<1>2. SharedChainInv /\ [SharedNext]_sharedVars => SharedChainInv'
  BY SharedChainNext
<1>3. ASSUME SharedChainInv, [SharedNext]_sharedVars
      PROVE  [Log!Next]_<<ledger, nextId>>
  <2>1. CASE [Next]_vars
    BY <1>3, <2>1, LogStep DEF SharedChainInv
  <2>2. CASE Overwrites
    BY <2>2 DEF Overwrites
  <2> QED
    BY <1>3, <2>1, <2>2, SharedSteps
<1> QED
  BY <1>1, <1>2, <1>3, SharedChainInit, PTL DEF SharedSpec, LogSpec, Log!Spec

LEMMA OverwriteOrder ==
  ASSUME SharedTypeInv, OrderInv, Overwrites
  PROVE  OrderInv'
<1>1. TypeInv'
  BY OverwriteType
<1>2. UNCHANGED <<documents, ledger, forms, request>>
  BY DEF Overwrites
<1> QED
  BY <1>1, <1>2 DEF OrderInv

SharedOrderInv == SharedTypeInv /\ OrderInv

LEMMA SharedOrderInit == SharedInit => SharedOrderInv
BY SharedTypeInit, OrderInvInit DEF SharedInit, SharedOrderInv

LEMMA SharedOrderNext ==
  ASSUME SharedOrderInv, [SharedNext]_sharedVars
  PROVE  SharedOrderInv'
<1>1. SharedTypeInv'
  BY SharedTypeNext DEF SharedOrderInv
<1>2. CASE [Next]_vars
  BY <1>1, <1>2, OrderInvNext DEF SharedOrderInv
<1>3. CASE Overwrites
  BY <1>1, <1>3, OverwriteOrder DEF SharedOrderInv
<1> QED
  BY <1>2, <1>3, SharedSteps

\* A signature whose request failed on a wiped list is on the ledger, and its retry signs
\* again; all the same nobody signs out of turn.
THEOREM SharedSignersInOrder == SharedSpec => []SignaturesFollowTheList
<1>1. SharedOrderInv => SignaturesFollowTheList
  BY OrderSigned DEF SharedOrderInv
<1>2. SharedOrderInv /\ [SharedNext]_sharedVars => SharedOrderInv'
  BY SharedOrderNext
<1> QED
  BY <1>1, <1>2, SharedOrderInit, PTL DEF SharedSpec

LEMMA OverwriteFinal ==
  ASSUME SharedTypeInv, FinalInv, Overwrites
  PROVE  FinalInv'
<1>1. OrderInv' /\ ChainInv'
  BY OverwriteOrder, OverwriteChain DEF FinalInv
<1>2. UNCHANGED <<documents, ledger, forms, request>>
  BY DEF Overwrites
<1>3. \A d \in Docs : (Done(d) => Done(d)') /\ (Orderly(d) => Orderly(d)')
  BY <1>2 DEF Done, Orderly, RequestOrderly, Known
<1> QED
  BY <1>1, <1>3 DEF FinalInv

SharedFinalInv == SharedTypeInv /\ FinalInv

LEMMA SharedFinalInit == SharedInit => SharedFinalInv
BY SharedTypeInit, FinalInvInit DEF SharedInit, SharedFinalInv

LEMMA SharedFinalNext ==
  ASSUME ~LossyOrderer, SharedFinalInv, [SharedNext]_sharedVars
  PROVE  SharedFinalInv'
<1>1. SharedTypeInv'
  BY SharedTypeNext DEF SharedFinalInv
<1>2. CASE [Next]_vars
  BY <1>1, <1>2, FinalInvNext DEF SharedFinalInv
<1>3. CASE Overwrites
  BY <1>1, <1>3, OverwriteFinal DEF SharedFinalInv
<1> QED
  BY <1>2, <1>3, SharedSteps

\* However many ids the backoffice wipes, a document is FINALIZED only after its last signer
\* signed on the ledger and an op_end of its hash followed.
THEOREM SharedFinalizedSigned == ASSUME ~LossyOrderer PROVE SharedSpec => []FinalizedIsFullySigned
<1>1. SharedFinalInv => FinalizedIsFullySigned
  BY FinalSigned DEF SharedFinalInv
<1>2. SharedFinalInv /\ [SharedNext]_sharedVars => SharedFinalInv'
  BY SharedFinalNext
<1> QED
  BY <1>1, <1>2, SharedFinalInit, PTL DEF SharedSpec

----------------------------------------------------------------------------
(* The table: what the backoffice read is true when it read it, and a list  *)
(* that was true stays true while the ledger grows.                         *)

\* A step of the client leaves true what the lists of any table say.
LEMMA TrueTablesStay ==
  ASSUME HistoryInv, [Next]_vars, NEW table \in IdTable, TrueTable(table, ledger, nextId)
  PROVE  TrueTable(table, ledger', nextId')
<1>1. CASE UNCHANGED <<ledger, nextId>>
  BY <1>1
<1>2. ASSUME NEW op \in {"op_start", "op_sign", "op_end"}, NEW signer \in Users \cup {Platform},
             NEW h \in Hashes, NEW signature \in Signatures, Send(op, signer, h, signature)
      PROVE  TrueTable(table, ledger', nextId')
  BY <1>2, SendKeepsHistories DEF TrueTable, IdTable
<1>3. ASSUME NEW t \in Threads, StartOp(t) \/ SignOp(t) \/ EndOp(t)
      PROVE  TrueTable(table, ledger', nextId')
  <2>1. /\ request[t].row.hash \in Hashes /\ request[t].user \in Users
        /\ request[t].signature \in Signatures
    BY <1>3, BusyHasRequest
       DEF StartOp, SignOp, EndOp, SendAndRecord, HistoryInv, Request
  <2> QED
    BY <1>2, <1>3, <2>1, SignaturesGrow DEF StartOp, SignOp, EndOp, SendAndRecord
<1>4. ASSUME NEW t \in Threads,
             \/ LookupChaincode(t, "start_lookup", "start_send") \/ SaveStart(t)
             \/ LookupChaincode(t, "sign_lookup", "sign_send") \/ SaveSignature(t) \/ SaveEnd(t)
      PROVE  UNCHANGED <<ledger, nextId>>
  BY <1>4 DEF LookupChaincode, SaveStart, SaveSignature, SaveEnd, Flush, chain
<1> QED
  BY <1>1, <1>3, <1>4
     DEF Next, Proceed, LoadIndex, NewSignature, SignDocument, RequestFails, vars, chain

SharedHistoryInv ==
  /\ SharedTypeInv
  /\ HistoryInv
  /\ TrueTable(loaded, ledger, nextId)

LEMMA SharedHistoryInit == SharedInit => SharedHistoryInv
BY SharedTypeInit, HistoryInvInit, EmptyTableIsTrue DEF SharedInit, SharedHistoryInv

LEMMA SharedHistoryNext ==
  ASSUME SharedHistoryInv, [SharedNext]_sharedVars
  PROVE  SharedHistoryInv'
<1>1. SharedTypeInv'
  BY SharedTypeNext DEF SharedHistoryInv
<1>2. CASE [Next]_vars /\ UNCHANGED loaded
  <2>1. HistoryInv'
    BY <1>2, HistoryInvNext DEF SharedHistoryInv
  <2>2. TrueTable(loaded, ledger', nextId')
    BY <1>2, TrueTablesStay DEF SharedHistoryInv, SharedTypeInv
  <2> QED
    BY <1>1, <1>2, <2>1, <2>2 DEF SharedHistoryInv
<1>3. CASE UNCHANGED vars /\ loaded' = idTable
  <2>1. HistoryInv'
    BY <1>3, HistoryInvNext DEF SharedHistoryInv
  <2>2. TrueTable(loaded', ledger', nextId')
    BY <1>3 DEF vars, SharedHistoryInv, HistoryInv
  <2> QED
    BY <1>1, <2>1, <2>2 DEF SharedHistoryInv
<1>4. CASE Overwrites
  <2>1. TrueTable(idTable', ledger', nextId') /\ TrueTable(loaded', ledger', nextId')
    BY <1>4 DEF Overwrites, SharedHistoryInv
  <2>2. HistoryInv'
    BY <1>1, <1>4, <2>1 DEF Overwrites, SharedHistoryInv, SharedTypeInv, HistoryInv
  <2> QED
    BY <1>1, <2>1, <2>2 DEF SharedHistoryInv
<1> QED
  BY <1>2, <1>3, <1>4, SharedSteps

\* The backoffice may bring back old lists of ids and drop new ones; what is listed under a
\* hash is nevertheless an op_start of it and later transactions of it.
THEOREM SharedHistoryTrue == SharedSpec => []HistoryIsTrue
<1>1. SharedHistoryInv => HistoryIsTrue
  BY DEF SharedHistoryInv, HistoryInv, TrueTable, TrueHistory, HistoryIsTrue
<1>2. SharedHistoryInv /\ [SharedNext]_sharedVars => SharedHistoryInv'
  BY SharedHistoryNext
<1> QED
  BY <1>1, <1>2, SharedHistoryInit, PTL DEF SharedSpec

----------------------------------------------------------------------------
(* One request of the client at a time: what the backoffice knows is in the *)
(* row, and what is in the row is in the copy that a request saves.         *)

Lists(table, h) == table[h] # <<>>

LoadedInv ==
  /\ SharedTypeInv
  /\ CopiesInv
  /\ \A h \in Hashes : Lists(loaded, h) => Lists(idTable, h)

LEMMA LoadedInit == SharedInit => LoadedInv
BY SharedTypeInit, CopiesInvInit DEF SharedInit, LoadedInv, Lists, EmptyTable, Init

\* The row that a save leaves lists less, so no copy lacks what it lists.
LEMMA OverwriteCopies ==
  ASSUME LoadedInv, Overwrites
  PROVE  CopiesInv'
<1>1. TypeInv'
  BY OverwriteType DEF LoadedInv
<1>2. idTable' = loaded /\ UNCHANGED request
  BY DEF Overwrites
<1>3. \A h \in Hashes : loaded[h] # <<>> => idTable[h] # <<>>
  BY DEF LoadedInv, Lists
<1>4. \A t \in Threads : CopyLists(request[t], idTable) => CopyLists(request'[t], idTable')
  BY <1>2, <1>3 DEF CopyLists
<1> QED
  BY <1>1, <1>4 DEF LoadedInv, CopiesInv

LEMMA LoadedNext ==
  ASSUME \A s, t \in Threads : s = t, LoadedInv, [SharedNext]_sharedVars
  PROVE  LoadedInv'
<1>1. SharedTypeInv'
  BY SharedTypeNext DEF LoadedInv
<1>2. CASE [Next]_vars /\ UNCHANGED loaded
  <2>1. CopiesInv'
    BY <1>2, CopiesInvNext DEF LoadedInv
  <2>2. \A h \in Hashes : idTable[h] # <<>> => idTable'[h] # <<>>
    BY <1>2, ListsGrow DEF LoadedInv
  <2> QED
    BY <1>1, <1>2, <2>1, <2>2 DEF LoadedInv, Lists
<1>3. CASE UNCHANGED vars /\ loaded' = idTable
  <2>1. CopiesInv'
    BY <1>3, CopiesInvNext DEF LoadedInv
  <2> QED
    BY <1>1, <1>3, <2>1 DEF LoadedInv, vars, Lists
<1>4. CASE Overwrites
  BY <1>1, <1>4, OverwriteCopies DEF LoadedInv, Overwrites, Lists
<1> QED
  BY <1>2, <1>3, <1>4, SharedSteps

\* With one request of the client at a time, what saves of the backoffice wipe is only what
\* was uploaded since it started: every document its object knows can be signed when the
\* page offers it, through any number of saves, restarts and failed requests.
THEOREM LoadedSignable ==
  ASSUME \A s, t \in Threads : s = t
  PROVE  SharedSpec => []LoadedCanBeSigned
<1>1. LoadedInv => LoadedCanBeSigned
  BY DEF LoadedInv, LoadedCanBeSigned, Lists, CopiesInv, TypeInv, HashesKnown, Started
<1>2. LoadedInv /\ [SharedNext]_sharedVars => LoadedInv'
  BY LoadedNext
<1> QED
  BY <1>1, <1>2, LoadedInit, PTL DEF SharedSpec

SharedEndInv == LoadedInv /\ EndInv

LEMMA SharedEndInit == SharedInit => SharedEndInv
BY LoadedInit, EndInvInit DEF SharedInit, SharedEndInv

LEMMA SharedEndNext ==
  ASSUME \A s, t \in Threads : s = t, SharedEndInv, [SharedNext]_sharedVars
  PROVE  SharedEndInv'
<1>1. LoadedInv'
  BY LoadedNext DEF SharedEndInv
<1>2. CASE [Next]_vars
  BY <1>1, <1>2, EndInvNext DEF SharedEndInv
<1>3. CASE Overwrites
  <2>1. UNCHANGED <<documents, request, failures>>
    BY <1>3 DEF Overwrites
  <2>2. EndInv'
    BY <1>1, <2>1 DEF SharedEndInv, LoadedInv, EndInv, WorksOnRow
  <2> QED
    BY <1>1, <2>2 DEF SharedEndInv
<1> QED
  BY <1>2, <1>3, SharedSteps

\* A request that reached the last signature gets through to the end whatever the backoffice
\* wipes meanwhile, because it works on a copy of the table that it read before.
THEOREM SharedEndUnderWay ==
  ASSUME \A s, t \in Threads : s = t
  PROVE  SharedSpec => []EndIsUnderWay
<1>1. SharedEndInv => EndIsUnderWay
  BY DEF SharedEndInv, EndInv, EndIsUnderWay, Settled, Started, Idle
<1>2. SharedEndInv /\ [SharedNext]_sharedVars => SharedEndInv'
  BY SharedEndNext
<1> QED
  BY <1>1, <1>2, SharedEndInit, PTL DEF SharedSpec

----------------------------------------------------------------------------
(* Users who wait for answers.                                              *)

LEMMA OverwritePatient ==
  ASSUME SharedTypeInv, PatientInv, Overwrites
  PROVE  PatientInv'
<1>1. TypeInv'
  BY OverwriteType
<1>2. UNCHANGED <<documents, forms, request>>
  BY DEF Overwrites
<1> QED
  BY <1>1, <1>2 DEF PatientInv

SharedPatientInv == SharedTypeInv /\ PatientInv

LEMMA SharedPatientInit == SharedInit => SharedPatientInv
BY SharedTypeInit, PatientInvInit DEF SharedInit, SharedPatientInv

LEMMA SharedPatientNext ==
  ASSUME Patient, SharedPatientInv, [SharedNext]_sharedVars
  PROVE  SharedPatientInv'
<1>1. SharedTypeInv'
  BY SharedTypeNext DEF SharedPatientInv
<1>2. CASE [Next]_vars
  BY <1>1, <1>2, PatientInvNext DEF SharedPatientInv
<1>3. CASE Overwrites
  BY <1>1, <1>3, OverwritePatient DEF SharedPatientInv
<1> QED
  BY <1>2, <1>3, SharedSteps

\* No save of the client or the backoffice takes a document back, and a finalized one is
\* never touched again: the backoffice writes the other row only.
THEOREM SharedOnlyAdvance == ASSUME Patient PROVE SharedSpec => DocumentsOnlyAdvance
<1>1. SharedPatientInv /\ [SharedNext]_sharedVars => SharedPatientInv'
  BY SharedPatientNext
<1>2. ASSUME SharedPatientInv, [SharedNext]_sharedVars
      PROVE  [ \A d \in Docs :
                 /\ documents'[d].nextsigner >= documents[d].nextsigner
                 /\ documents[d].state = "FINALIZED" => documents'[d] = documents[d] ]_vars
  <2>1. CASE [Next]_vars
    BY <1>2, <2>1, RowsStay DEF SharedPatientInv
  <2>2. CASE Overwrites
    <3>1. \A d \in Docs : documents[d].nextsigner \in Nat
      BY <1>2 DEF SharedPatientInv, SharedTypeInv, TypeInv, TypeOK, Document
    <3> QED
      BY <2>2, <3>1 DEF Overwrites
  <2> QED
    BY <1>2, <2>1, <2>2, SharedSteps
<1> QED
  BY <1>1, <1>2, SharedPatientInit, PTL DEF SharedSpec, DocumentsOnlyAdvance

SharedEndsInv == SharedTypeInv /\ EndsInv

LEMMA SharedEndsInit ==
  ASSUME IsFiniteSet(Docs)
  PROVE  SharedInit => SharedEndsInv
BY SharedTypeInit, EndsInvInit DEF SharedInit, SharedEndsInv

LEMMA SharedEndsNext ==
  ASSUME Patient, IsFiniteSet(Docs), SharedEndsInv, [SharedNext]_sharedVars
  PROVE  SharedEndsInv'
<1>1. SharedTypeInv'
  BY SharedTypeNext DEF SharedEndsInv
<1>2. CASE [Next]_vars
  BY <1>1, <1>2, EndsInvNext DEF SharedEndsInv
<1>3. CASE Overwrites
  <2>1. PatientInv'
    BY <1>3, OverwritePatient DEF SharedEndsInv, EndsInv
  <2>2. UNCHANGED <<documents, ledger, request>>
    BY <1>3 DEF Overwrites
  <2>3. \A h : Ends(h)' = Ends(h) /\ ClosedDocs(h)' = ClosedDocs(h)
    BY <2>2 DEF Ends, ClosedDocs, WithHash, Closed
  <2> QED
    BY <1>1, <2>1, <2>3 DEF SharedEndsInv, EndsInv
<1> QED
  BY <1>2, <1>3, SharedSteps

\* Wiped lists make requests fail after they sent, and users try again: there is still at
\* most one op_end for each document of a hash.
THEOREM SharedOneEnd ==
  ASSUME Patient, IsFiniteSet(Docs)
  PROVE  SharedSpec => []OneEndPerDocument
<1>1. SharedEndsInv => OneEndPerDocument
  BY OneEndEach DEF SharedEndsInv
<1>2. SharedEndsInv /\ [SharedNext]_sharedVars => SharedEndsInv'
  BY SharedEndsNext
<1> QED
  BY <1>1, <1>2, SharedEndsInit, PTL DEF SharedSpec

SharedShownInv ==
  /\ SharedHistoryInv
  /\ ShownInv
  /\ \A h \in Hashes : Unfinished(h) => NoEndListed(loaded[h], ledger)

LEMMA SharedShownInit == SharedInit => SharedShownInv
<1> SUFFICES ASSUME SharedInit PROVE SharedShownInv
  OBVIOUS
<1>1. \A h \in Hashes : NoEndListed(loaded[h], ledger)
  BY DEF SharedInit, Init, NoEndListed
<1> QED
  BY <1>1, SharedHistoryInit, ShownInvInit DEF SharedInit, SharedShownInv

LEMMA SharedShownNext ==
  ASSUME Patient, SharedShownInv, [SharedNext]_sharedVars
  PROVE  SharedShownInv'
<1>1. SharedHistoryInv'
  BY SharedHistoryNext DEF SharedShownInv
<1>2. CASE [Next]_vars /\ UNCHANGED loaded
  <2>1. ShownInv'
    BY <1>2, ShownInvNext DEF SharedShownInv
  <2>2. ASSUME NEW h \in Hashes, Unfinished(h)'
        PROVE  NoEndListed(loaded[h], ledger')
    <3>1. Unfinished(h)
      BY <1>2, <2>2, UnfinishedBefore DEF SharedShownInv, ShownInv
    <3>2. loaded[h] \in Seq(Nat) /\ TrueHistory(h, loaded[h], ledger, nextId)
      BY DEF SharedShownInv, SharedHistoryInv, SharedTypeInv, IdTable, TrueTable
    <3> QED
      BY <1>2, <3>1, <3>2, NoEndStays DEF SharedShownInv
  <2> QED
    BY <1>1, <1>2, <2>1, <2>2 DEF SharedShownInv
<1>3. CASE UNCHANGED vars /\ loaded' = idTable
  <2>1. ShownInv'
    BY <1>3, ShownInvNext DEF SharedShownInv
  <2>2. \A h \in Hashes : Unfinished(h)' => NoEndListed(loaded'[h], ledger')
    BY <1>3 DEF vars, SharedShownInv, ShownInv, Unfinished, WithHash
  <2> QED
    BY <1>1, <2>1, <2>2 DEF SharedShownInv
<1>4. CASE Overwrites
  <2>1. PatientInv' /\ HistoryInv'
    BY <1>1, <1>4, OverwritePatient DEF SharedShownInv, SharedHistoryInv, ShownInv
  <2>2. UNCHANGED <<documents, ledger, request, loaded>> /\ idTable' = loaded
    BY <1>4 DEF Overwrites
  <2>3. \A h \in Hashes : Unfinished(h)' => Unfinished(h)
    BY <2>2 DEF Unfinished, WithHash
  <2> QED
    BY <1>1, <2>1, <2>2, <2>3 DEF SharedShownInv, ShownInv
<1> QED
  BY <1>2, <1>3, <1>4, SharedSteps

\* An old list that the backoffice brings back never makes the history page say "Finalized!"
\* of a document that is not, unless its file was uploaded twice.
THEOREM SharedShownIsFinal == ASSUME Patient PROVE SharedSpec => []ShownFinalizedIsFinal
<1>1. SharedShownInv => ShownFinalizedIsFinal
  BY ShownFinal DEF SharedShownInv
<1>2. SharedShownInv /\ [SharedNext]_sharedVars => SharedShownInv'
  BY SharedShownNext
<1> QED
  BY <1>1, <1>2, SharedShownInit, PTL DEF SharedSpec

=============================================================================
