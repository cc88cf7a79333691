-------------------------- MODULE DocumentSigning --------------------------
(***************************************************************************)
(* The signature cycle of the MTChain client application.                  *)
(*                                                                         *)
(* A user uploads a document and lists its signers (POST /newsignature).   *)
(* The platform signs the hash of the document and records op_start on the *)
(* ledger.  Each listed signer in turn is shown the document on the index  *)
(* page, signs in the browser the signature shown there, and posts it      *)
(* (POST /signdocument); the server verifies it, records op_sign, and      *)
(* passes the document on.  After the last signer the platform records     *)
(* op_end and the document becomes FINALIZED.                              *)
(*                                                                         *)
(* Requests run on server threads over three shared stores: the table of   *)
(* documents, the one BlockchainInfo row (whose serialized Blockchain      *)
(* object holds the IDHashtable) and the ledger.  A request works on       *)
(* private copies of both rows and writes them back whole; there is no     *)
(* lock and no version column, so the last writer wins.                    *)
(*                                                                         *)
(* A signature is abstracted to the list of those who signed, each over    *)
(* the signature before it: <<Platform, u1, u2>> is u2's signature of u1's *)
(* signature of the platform's signature of the document's hash.           *)
(***************************************************************************)
EXTENDS Naturals, Sequences, FiniteSets

CONSTANTS
  Users,          \* accounts of one application (all share one chaincode)
  NoUser,         \* a null entry of the signers map, or no current signer
  Platform,       \* the platform's own signing key, signer "Platform"
  Docs,           \* primary keys of the documents table
  Hashes,         \* digests of the files that users upload
  NoHash,         \* the null hash left by a failed computeHash
  Threads,        \* request threads of the server
  SignersChoices, \* what the upload form may list: sequences over Users and NoUser
  Patient,        \* TRUE: a user waits for an answer before any other request
  LossyOrderer,   \* TRUE: a transaction may vanish after its endorsement
  MaxPosts,       \* bound on the POST /signdocument requests that verify
  MaxFailures     \* bound on the requests that fail half way

ASSUME IdentitiesDiffer == /\ Platform \notin Users
                           /\ NoUser \notin Users \cup {Platform}
                           /\ NoHash \notin Hashes

ASSUME SignersAreListed == SignersChoices \subseteq Seq(Users \cup {NoUser})

ASSUME SwitchesAreBoolean == Patient \in BOOLEAN /\ LossyOrderer \in BOOLEAN

ASSUME BoundsAreNatural == MaxPosts \in Nat /\ MaxFailures \in Nat

VARIABLES
  documents,  \* the documents table
  idTable,    \* IDHashtable as stored in the BlockchainInfo row; <<>> is an absent key
  ledger,     \* the transactions the orderer accepted, in order
  nextId,     \* the next fresh transaction id (Utils.generateID)
  forms,      \* the signature forms each user has open in the browser
  request,    \* what each request thread works on: its next step and its copies
  posts,      \* how many posted signatures verified (bounded by MaxPosts)
  failures    \* how many requests failed half way (bounded by MaxFailures)

rows == <<documents, idTable>>
chain == <<ledger, nextId>>
bounds == <<posts, failures>>
vars == <<documents, idTable, ledger, nextId, forms, request, posts, failures>>

----------------------------------------------------------------------------
(* Data *)

Signatures == Seq(Users \cup {Platform})

Document == [hash : Hashes \cup {NoHash}, signers : Seq(Users \cup {NoUser}),
             nextsigner : Nat, signedhash : Signatures,
             state : {"ABSENT", "PENDING", "FINALIZED"}]

Absent == [hash |-> NoHash, signers |-> <<>>, nextsigner |-> 0,
           signedhash |-> <<>>, state |-> "ABSENT"]

\* Mutant: the last signer is taken for the end of the list.
CurrentSigner_OffByOne(doc) ==
  IF doc.nextsigner < Len(doc.signers) THEN doc.signers[doc.nextsigner] ELSE NoUser

\* currentsigner is assigned only together with nextsigner, from the signers map.
CurrentSigner(doc) ==
  IF doc.nextsigner \in DOMAIN doc.signers THEN doc.signers[doc.nextsigner] ELSE NoUser

\* Mutant: the constructor forgets the state.
NewDocument_NoState(h, signers) ==
  [hash |-> h, signers |-> signers, nextsigner |-> 1, signedhash |-> <<>>, state |-> ""]

\* Mutant: the platform's signature is stored at once, before op_start is sent.
NewDocument_SignedEarly(h, signers) ==
  [hash |-> h, signers |-> signers, nextsigner |-> 1, signedhash |-> <<Platform>>,
   state |-> "PENDING"]

\* new Document(...): setFollowingSigners moves nextsigner from 0 to 1.
NewDocument(h, signers) ==
  [hash |-> h, signers |-> signers, nextsigner |-> 1, signedhash |-> <<>>, state |-> "PENDING"]

\* Mutant: setSignedhash is forgotten.
SignedBy_KeepsHash(doc, signature) == [doc EXCEPT !.nextsigner = @ + 1]

\* setSignedhash, setFollowingSigners
SignedBy(doc, signature) ==
  [doc EXCEPT !.signedhash = signature, !.nextsigner = @ + 1]

PlatformSignature == <<Platform>>

Transaction == [id : Nat, op : {"op_start", "op_sign", "op_end"},
                signer : Users \cup {Platform}, hash : Hashes, signature : Signatures]

IdTable == [Hashes -> Seq(Nat)]

EmptyTable == [h \in Hashes |-> <<>>]

Steps == {"start_lookup", "start_send", "start_save",
          "sign_lookup", "sign_send", "sign_save", "end_send", "end_save"}

\* A request in progress: the document's id, the principal, the signature to store, and
\* the session's two entities, the Document and (once looked up) the IDHashtable.
Request == [step : Steps, doc : Docs, user : Users, signature : Signatures,
            row : Document, table : IdTable]

NoRequest == [step |-> "idle"]

Idle(t) == request[t].step = "idle"

Form == [doc : Docs, dochash : Signatures]

\* Mutant: the page offers a pending document to every listed signer.
PendentForms_AnySigner(u) ==
  { [doc |-> d, dochash |-> documents[d].signedhash] :
      d \in { e \in Docs : \E i \in DOMAIN documents[e].signers : documents[e].signers[i] = u } }

\* Mutant: the page also offers the emitter the documents that are done.
PendentForms_Emitter(u) ==
  { [doc |-> d, dochash |-> documents[d].signedhash] :
      d \in { e \in Docs : \/ CurrentSigner(documents[e]) = u
                           \/ /\ documents[e].state = "FINALIZED"
                              /\ documents[e].signers[1] = u } }

\* getAllPendentDocuments: what the index page offers user u to sign.
PendentForms(u) ==
  { [doc |-> d, dochash |-> documents[d].signedhash] :
      d \in { e \in Docs : CurrentSigner(documents[e]) = u } }

\* A patient user has no request in progress when starting another one.
MayAct(u) == Patient => \A t \in Threads : ~Idle(t) => request[t].user # u

\* The page a patient user acts on is gone when the answer comes.
Leave(u) == forms' = [forms EXCEPT ![u] = IF Patient THEN {} ELSE @]

Begin(t, step, u, d, doc, signature) ==
  request' = [request EXCEPT ![t] =
    [step |-> step, doc |-> d, user |-> u, signature |-> signature,
     row |-> doc, table |-> EmptyTable]]

Finish(t) == request' = [request EXCEPT ![t] = NoRequest]

----------------------------------------------------------------------------
(* The browser *)

\* GET /index.  Another page replaces the one shown; an impatient user may keep both.
LoadIndex(u) ==
  /\ MayAct(u)
  /\ \/ forms' = [forms EXCEPT ![u] = PendentForms(u)]
     \/ ~Patient /\ forms' = [forms EXCEPT ![u] = @ \cup PendentForms(u)]
  /\ UNCHANGED <<rows, chain, request, bounds>>

----------------------------------------------------------------------------
(* Sending and saving *)

\* Mutant: the id is not fresh.
Send_SameId(op, signer, h, signature) ==
  /\ ledger' = Append(ledger, [id |-> nextId, op |-> op, signer |-> signer,
                               hash |-> h, signature |-> signature])
  /\ UNCHANGED nextId

\* A proposal endorsed by all peers goes to the orderer; the future is dropped.
Send(op, signer, h, signature) ==
  /\ nextId' = nextId + 1
  /\ \/ ledger' = Append(ledger, [id |-> nextId, op |-> op, signer |-> signer,
                                  hash |-> h, signature |-> signature])
     \/ LossyOrderer /\ UNCHANGED ledger

\* Mutant: the new id goes to the front of the list.
SendAndRecord_Front(t, step, next, op, signer, signature) ==
  LET h == request[t].row.hash
  IN  /\ request[t].step = step
      /\ Send(op, signer, h, signature)
      /\ IF request[t].table[h] = <<>>
           THEN Finish(t)
           ELSE request' = [request EXCEPT ![t].step = next,
                                           ![t].table[h] = <<nextId>> \o @]
      /\ UNCHANGED <<rows, forms, bounds>>

\* sign_op and end_op look the id list up AFTER the transaction was sent.  A hash that
\* the thread's copy does not know ends the request with a NullPointerException.
SendAndRecord(t, step, next, op, signer, signature) ==
  LET h == request[t].row.hash
  IN  /\ request[t].step = step
      /\ Send(op, signer, h, signature)
      /\ IF request[t].table[h] = <<>>
           THEN Finish(t)
           ELSE request' = [request EXCEPT ![t].step = next,
                                           ![t].table[h] = Append(@, nextId)]
      /\ UNCHANGED <<rows, forms, bounds>>

\* Mutant: the changed Blockchain object is not taken for dirty.
Flush_DocumentOnly(t, doc) ==
  /\ documents' = [documents EXCEPT ![request[t].doc] = doc]
  /\ UNCHANGED <<idTable, chain, forms, bounds>>

\* A save commits: Hibernate flushes both dirty rows, every column of each.
Flush(t, doc) ==
  /\ documents' = [documents EXCEPT ![request[t].doc] = doc]
  /\ idTable' = request[t].table
  /\ UNCHANGED <<chain, forms, bounds>>

----------------------------------------------------------------------------
(* POST /newsignature *)

\* computeHash, the signers map, and addNewDocument, which commits the new row.  The
\* form offers the other users; an exception (no one ticked, an unreadable file) leaves
\* the emitter as only signer, and a null hash makes the start_op below fail.
NewSignature(t, u, d) ==
  /\ Idle(t) /\ MayAct(u)
  /\ documents[d].state = "ABSENT"
  /\ \/ \E h \in Hashes, others \in SignersChoices :
          /\ \A i \in DOMAIN others : others[i] # u
          /\ LET doc == NewDocument(h, <<u>> \o others)
             IN  /\ documents' = [documents EXCEPT ![d] = doc]
                 /\ Begin(t, "start_lookup", u, d, doc, PlatformSignature)
     \/ /\ documents' = [documents EXCEPT ![d] = NewDocument(NoHash, <<u>>)]
        /\ UNCHANGED request
  /\ Leave(u)
  /\ UNCHANGED <<idTable, chain, bounds>>

\* getChaincodeObject reads the row that holds the Blockchain object.
LookupChaincode(t, step, next) ==
  /\ request[t].step = step
  /\ request' = [request EXCEPT ![t].step = next, ![t].table = idTable]
  /\ UNCHANGED <<rows, chain, forms, bounds>>

\* Mutant: start_op adds to the list of an earlier upload of the file.
StartOp_Append(t) ==
  /\ request[t].step = "start_send"
  /\ Send("op_start", Platform, request[t].row.hash, PlatformSignature)
  /\ request' = [request EXCEPT ![t].step = "start_save",
                                ![t].table[request[t].row.hash] = Append(@, nextId)]
  /\ UNCHANGED <<rows, forms, bounds>>

\* start_op: IDHashtable.put replaces whatever list the hash had.
StartOp(t) ==
  /\ request[t].step = "start_send"
  /\ Send("op_start", Platform, request[t].row.hash, PlatformSignature)
  /\ request' = [request EXCEPT ![t].step = "start_save",
                                ![t].table[request[t].row.hash] = <<nextId>>]
  /\ UNCHANGED <<rows, forms, bounds>>

SaveStart(t) ==
  /\ request[t].step = "start_save"
  /\ Flush(t, [request[t].row EXCEPT !.signedhash = PlatformSignature])
  /\ Finish(t)

----------------------------------------------------------------------------
(* POST /signdocument *)

\* The browser signed form.dochash with the user's own key, so after findByid the check
\* of verifySignature succeeds exactly when the row still has that signature.  Neither
\* the document's state nor its current signer is consulted.
SignDocument(t, u, form) ==
  /\ Idle(t) /\ MayAct(u)
  /\ Leave(u)
  /\ IF form.dochash # <<>> /\ documents[form.doc].signedhash = form.dochash
       THEN /\ posts < MaxPosts
            /\ posts' = posts + 1
            /\ Begin(t, "sign_lookup", u, form.doc, documents[form.doc], Append(form.dochash, u))
       ELSE UNCHANGED <<request, posts>>
  /\ UNCHANGED <<rows, chain, failures>>

SignOp(t) ==
  SendAndRecord(t, "sign_send", "sign_save", "op_sign", request[t].user, request[t].signature)

\* Mutant: the end of the list is missed by one.
SaveSignature_NoEnd(t) ==
  /\ request[t].step = "sign_save"
  /\ LET doc == SignedBy(request[t].row, request[t].signature)
     IN  /\ Flush(t, doc)
         /\ IF doc.nextsigner > Len(doc.signers) + 1
              THEN request' = [request EXCEPT ![t].step = "end_send", ![t].row = doc]
              ELSE Finish(t)

\* Save the signature; a document without a current signer goes on to documentEndOP.
SaveSignature(t) ==
  /\ request[t].step = "sign_save"
  /\ LET doc == SignedBy(request[t].row, request[t].signature)
     IN  /\ Flush(t, doc)
         /\ IF CurrentSigner(doc) = NoUser
              THEN request' = [request EXCEPT ![t].step = "end_send", ![t].row = doc]
              ELSE Finish(t)

\* documentEndOP: the session still holds the entity that getChaincodeObject returned.
EndOp(t) == SendAndRecord(t, "end_send", "end_save", "op_end", Platform, PlatformSignature)

\* Mutant: finalizeDocument is forgotten.
SaveEnd_NotFinal(t) ==
  /\ request[t].step = "end_save"
  /\ Flush(t, [request[t].row EXCEPT !.signedhash = PlatformSignature])
  /\ Finish(t)

SaveEnd(t) ==
  /\ request[t].step = "end_save"
  /\ Flush(t, [request[t].row EXCEPT !.signedhash = PlatformSignature, !.state = "FINALIZED"])
  /\ Finish(t)

----------------------------------------------------------------------------
\* An exception on the way (no chaincode row, a peer that refuses the proposal, a
\* database error) or the death of the server: what was not saved is gone, what was
\* sent stays sent.  The upload handler swallows it, the signing one answers /error.
RequestFails(t) ==
  /\ ~Idle(t)
  /\ failures < MaxFailures
  /\ failures' = failures + 1
  /\ Finish(t)
  /\ UNCHANGED <<rows, chain, forms, posts>>

Init ==
  /\ documents = [d \in Docs |-> Absent]
  /\ idTable = EmptyTable
  /\ ledger = <<>>
  /\ nextId = 1
  /\ forms = [u \in Users |-> {}]
  /\ request = [t \in Threads |-> NoRequest]
  /\ posts = 0
  /\ failures = 0

\* What a request thread does once it is running.
Proceed(t) ==
  \/ LookupChaincode(t, "start_lookup", "start_send")
  \/ StartOp(t)
  \/ SaveStart(t)
  \/ LookupChaincode(t, "sign_lookup", "sign_send")
  \/ SignOp(t)
  \/ SaveSignature(t)
  \/ EndOp(t)
  \/ SaveEnd(t)

Next ==
  \/ \E u \in Users : LoadIndex(u)
  \/ \E t \in Threads, u \in Users, d \in Docs : NewSignature(t, u, d)
  \/ \E t \in Threads, u \in Users : \E form \in forms[u] : SignDocument(t, u, form)
  \/ \E t \in Threads : Proceed(t)
  \/ \E t \in Threads : RequestFails(t)

Spec == Init /\ [][Next]_vars

----------------------------------------------------------------------------
(* Properties of every behaviour, impatient users and failures included. *)

\* The variables have the types the Java fields and tables give them.
TypeOK ==
  /\ documents \in [Docs -> Document]
  /\ idTable \in IdTable
  /\ ledger \in Seq(Transaction)
  /\ nextId \in Nat
  /\ forms \in [Users -> SUBSET Form]
  /\ request \in [Threads -> Request \cup {NoRequest}]
  /\ posts \in 0..MaxPosts
  /\ failures \in 0..MaxFailures

WithHash(h) == { d \in Docs : documents[d].hash = h }

\* No listed account was removed between the page that offered it and the upload.
AllPresent(doc) == \A i \in DOMAIN doc.signers : doc.signers[i] # NoUser

\* The signature of the first k signers of a document.
SignatureOf(doc, k) == PlatformSignature \o SubSeq(doc.signers, 1, k)

\* Whatever requests interleave, crash or are posted twice, every signature a user has
\* on the ledger is over one that is on the ledger before it (when the orderer loses
\* nothing): sign_op and start_op send before the row that offers the next form is saved.
LedgerIsChained ==
  \A i \in DOMAIN ledger : ledger[i].op = "op_sign" =>
    \E j \in 1..(i - 1) :
      /\ ledger[j].hash = ledger[i].hash
      /\ ledger[i].signature = Append(ledger[j].signature, ledger[i].signer)

\* Nobody signs out of turn: a user's signature on the ledger is that of the first k
\* signers, in the order of the list, of a document with that hash.  The server never
\* asks whose turn it is; the order rests on the form and the chained signatures.  (A
\* removed account in the list ends a document early and defeats this: see the README.)
SignaturesFollowTheList ==
  \A i \in DOMAIN ledger :
    /\ ledger[i].op = "op_sign"
    /\ \A d \in WithHash(ledger[i].hash) : AllPresent(documents[d])
    => \E d \in Docs : \E k \in DOMAIN documents[d].signers :
      /\ documents[d].hash = ledger[i].hash
      /\ documents[d].signers[k] = ledger[i].signer
      /\ ledger[i].signature = SignatureOf(documents[d], k)

\* However stale the copy a request saves, a pending row is consistent: signedhash is the
\* signature of exactly the signers that nextsigner has passed.
PendingRowIsConsistent ==
  \A d \in Docs :
    LET doc == documents[d]
    IN  doc.state = "PENDING" /\ doc.signedhash # <<>> /\ AllPresent(doc) =>
          /\ doc.nextsigner \in 1..(Len(doc.signers) + 1)
          /\ doc.signedhash = SignatureOf(doc, doc.nextsigner - 1)

\* Lost updates may drop ids, but what queryDocument reads under a hash is a true story:
\* it opens with an op_start of that hash, goes on with later transactions of it, and
\* lists nothing the ledger does not have (unless the orderer lost it).
HistoryIsTrue ==
  \A h \in Hashes : LET ids == idTable[h] IN
    \A k \in DOMAIN ids :
      /\ k > 1 => ids[k - 1] < ids[k]
      /\ \A i \in DOMAIN ledger : ledger[i].id = ids[k] =>
           ledger[i].hash = h /\ (ledger[i].op = "op_start" <=> k = 1)
      /\ LossyOrderer \/ \E i \in DOMAIN ledger : ledger[i].id = ids[k]

\* A document is FINALIZED only after its last signer (or the last before an entry whose
\* account was removed) signed on the ledger, and an op_end of its hash followed.
FinalizedIsFullySigned ==
  \A d \in Docs : LET doc == documents[d] IN
    doc.state = "FINALIZED" =>
      \E k \in DOMAIN doc.signers, i, j \in DOMAIN ledger :
        /\ k = Len(doc.signers) \/ doc.signers[k + 1] = NoUser
        /\ ledger[i].hash = doc.hash /\ ledger[i].signature = SignatureOf(doc, k)
        /\ ledger[j].hash = doc.hash /\ ledger[j].op = "op_end" /\ i < j

----------------------------------------------------------------------------
(* Properties that need patient users: one request of a user at a time. *)

\* A saved row never takes a document back: a signer once passed stays passed, and a
\* finalized document is never touched again.
DocumentsOnlyAdvance ==
  [][ \A d \in Docs :
        /\ documents'[d].nextsigner >= documents[d].nextsigner
        /\ documents[d].state = "FINALIZED" => documents'[d] = documents[d] ]_vars

\* generateSignatureHtml: the history page says "Finalized!" when exactly two of the
\* transactions listed under the document's hash carry the signer "Platform".
ShownFinalized(h) ==
  Cardinality({ i \in DOMAIN ledger : /\ ledger[i].signer = Platform
                                      /\ \E k \in DOMAIN idTable[h] :
                                            idTable[h][k] = ledger[i].id }) = 2

\* The history page never says "Finalized!" of a document that is not, unless the same
\* file was uploaded twice: op_end and FINALIZED reach the database in one transaction.
ShownFinalizedIsFinal ==
  \A d \in Docs : WithHash(documents[d].hash) = {d} /\ documents[d].hash \in Hashes =>
    (ShownFinalized(documents[d].hash) => documents[d].state = "FINALIZED")

\* Retries never close a document twice, nor sign for somebody once the document moved
\* on: at most one op_end per uploaded document of a hash.
OneEndPerDocument ==
  \A h \in Hashes :
    Cardinality({ i \in DOMAIN ledger : ledger[i].hash = h /\ ledger[i].op = "op_end" })
      <= Cardinality(WithHash(h))

----------------------------------------------------------------------------
(* The ledger keeps its promise to those who read it. *)

Log == INSTANCE SignatureLog WITH log <- ledger, Signers <- Users, Digests <- Hashes

\* Every step of the servers is, on the ledger, a step of SignatureLog or none: fresh ids,
\* signatures over recorded signatures, no op_end of a document nobody signed.
LogSpec == Log!Spec

----------------------------------------------------------------------------
(* Progress, when requests do not overlap (one request thread).             *)
(* A running request goes on; a user comes back to the page and signs what  *)
(* it offers.  Nothing obliges anybody to upload, or a request to fail.     *)

Fairness ==
  /\ \A t \in Threads : WF_vars(Proceed(t))
  /\ \A u \in Users : WF_vars(LoadIndex(u))
  /\ \A u \in Users, d \in Docs :
       SF_vars(\E t \in Threads : \E form \in forms[u] :
                 form.doc = d /\ SignDocument(t, u, form))

FairSpec == Spec /\ Fairness

Started(d) == documents[d].signedhash # <<>>

\* A document that the index page offers can be signed: sign_op will find the list of ids
\* of its hash, instead of failing after its transaction was sent.
OfferedCanBeSigned ==
  \A d \in Docs : Started(d) /\ CurrentSigner(documents[d]) # NoUser =>
    idTable[documents[d].hash] # <<>>

\* In spite of failed requests every listed signer of a started document gets to sign.
EverySignerSigns ==
  \A d \in Docs : Started(d) ~> Started(d) /\ CurrentSigner(documents[d]) = NoUser

\* Unless a request failed, a started document is finalized in the end.  (After a failure
\* between the last signature and op_end it never is: nothing calls documentEndOP again.)
FinalizedUnlessFailed ==
  \A d \in Docs : Started(d) ~> documents[d].state = "FINALIZED" \/ failures > 0

\* What FinalizedUnlessFailed rests on.  Only the request that saved the last signature ever
\* sends op_end; until a request fails, it gets through: a document that waits for nobody is
\* FINALIZED, or that request is still at work on it.
EndIsUnderWay ==
  failures = 0 =>
    \A d \in Docs : Started(d) /\ CurrentSigner(documents[d]) = NoUser =>
      \/ documents[d].state = "FINALIZED"
      \/ \E t \in Threads : ~Idle(t) /\ request[t].doc = d

\* finalizeDocument ends the cycle: nothing changes a finalized document.
FinalizedIsFinal ==
  [][ \A d \in Docs : documents[d].state = "FINALIZED" =>
        documents'[d] = documents[d] ]_vars

=============================================================================
