----------------------- MODULE DocumentSigningProofs -----------------------
(***************************************************************************)
(* Theorems about DocumentSigning for every set of users, documents, files *)
(* and request threads, and every list of signers.                         *)
(***************************************************************************)
EXTENDS DocumentSigning, TLAPS

(* The type invariant is not inductive alone: the hash of a document may be *)
(* null, and only documents whose hash is not ever get a signature.         *)
HashesKnown ==
  /\ \A d \in Docs : documents[d].signedhash # <<>> => documents[d].hash \in Hashes
  /\ \A t \in Threads : ~Idle(t) => request[t].row.hash \in Hashes

TypeInv == TypeOK /\ HashesKnown

\* A thread that is not idle has a whole request.
LEMMA BusyHasRequest ==
  ASSUME TypeInv, NEW t \in Threads, request[t].step # "idle"
  PROVE  request[t] \in Request /\ request[t].row.hash \in Hashes
BY DEF TypeInv, TypeOK, HashesKnown, NoRequest, Idle

\* Signatures grow by one signer.
LEMMA SignaturesGrow ==
  /\ PlatformSignature \in Signatures
  /\ PlatformSignature # <<>>
  /\ \A s \in Signatures, u \in Users : Append(s, u) \in Signatures
BY DEF Signatures, PlatformSignature

LEMMA EmptyTableType == EmptyTable \in IdTable
BY DEF EmptyTable, IdTable

\* What Send does to the ledger and to the supply of ids has the right types.
LEMMA SendType ==
  ASSUME TypeInv, NEW op \in {"op_start", "op_sign", "op_end"},
         NEW signer \in Users \cup {Platform}, NEW h \in Hashes, NEW signature \in Signatures,
         Send(op, signer, h, signature)
  PROVE  ledger' \in Seq(Transaction) /\ nextId' \in Nat
<1> DEFINE tx == [id |-> nextId, op |-> op, signer |-> signer,
                  hash |-> h, signature |-> signature]
<1>1. ledger \in Seq(Transaction) /\ nextId \in Nat
  BY DEF TypeInv, TypeOK
<1>2. tx \in Transaction
  BY <1>1 DEF Transaction
<1>3. Append(ledger, tx) \in Seq(Transaction)
  BY <1>1, <1>2
<1> QED
  BY <1>1, <1>3 DEF Send

LEMMA DocumentTypes ==
  /\ Absent \in Document
  /\ \A h \in Hashes \cup {NoHash}, signers \in Seq(Users \cup {NoUser}) :
       NewDocument(h, signers) \in Document
  /\ \A doc \in Document, s \in Signatures :
       SignedBy(doc, s) \in Document /\ SignedBy(doc, s).hash = doc.hash
<1>1. Absent \in Document
  BY DEF Absent, Document, Signatures
<1>2. ASSUME NEW h \in Hashes \cup {NoHash}, NEW signers \in Seq(Users \cup {NoUser})
      PROVE  NewDocument(h, signers) \in Document
  BY DEF NewDocument, Document, Signatures
<1>3. ASSUME NEW doc \in Document, NEW s \in Signatures
      PROVE  SignedBy(doc, s) \in Document /\ SignedBy(doc, s).hash = doc.hash
  <2>1. doc.nextsigner + 1 \in Nat
    BY DEF Document
  <2> DEFINE n == doc.nextsigner + 1
  <2>2. SignedBy(doc, s) = [[doc EXCEPT !.signedhash = s] EXCEPT !.nextsigner = n]
    BY DEF SignedBy, Document
  <2> HIDE DEF n
  <2>3. [doc EXCEPT !.signedhash = s] \in Document
    BY DEF Document
  <2>4. \A e \in Document : n \in Nat => [e EXCEPT !.nextsigner = n] \in Document
    BY DEF Document
  <2> QED
    BY <2>1, <2>2, <2>3, <2>4 DEF n, Document
<1> QED
  BY <1>1, <1>2, <1>3

\* Saving a document of a known hash, with the table the request holds.
LEMMA FlushType ==
  ASSUME TypeInv, NEW t \in Threads, request[t].step # "idle",
         NEW doc \in Document, doc.hash = request[t].row.hash, Flush(t, doc)
  PROVE  /\ documents' \in [Docs -> Document]
         /\ idTable' \in IdTable
         /\ \A d \in Docs : documents'[d].signedhash # <<>> => documents'[d].hash \in Hashes
<1>1. request[t] \in Request /\ doc.hash \in Hashes
  BY BusyHasRequest
<1>2. documents \in [Docs -> Document]
  BY DEF TypeInv, TypeOK
<1> QED
  BY <1>1, <1>2 DEF Flush, Request, TypeInv, HashesKnown

LEMMA TypeInvInit == Init => TypeInv
<1> SUFFICES ASSUME Init PROVE TypeInv
  OBVIOUS
<1>1. documents \in [Docs -> Document]
  BY DocumentTypes DEF Init
<1>2. idTable \in IdTable
  BY EmptyTableType DEF Init
<1>3. HashesKnown
  BY DEF Init, HashesKnown, Absent, Idle, NoRequest
<1> QED
  BY <1>1, <1>2, <1>3, BoundsAreNatural DEF Init, TypeInv, TypeOK, Transaction

LEMMA LoadIndexType ==
  ASSUME TypeInv, NEW u \in Users, LoadIndex(u)
  PROVE  TypeInv'
<1>1. PendentForms(u) \in SUBSET Form
  BY DEF TypeInv, TypeOK, PendentForms, Form, Document, Signatures
<1>2. forms' \in [Users -> SUBSET Form]
  BY <1>1 DEF TypeInv, TypeOK, LoadIndex
<1> QED
  BY <1>2 DEF LoadIndex, TypeInv, TypeOK, HashesKnown, Idle, rows, chain, bounds

LEMMA BeginType ==
  ASSUME TypeInv, NEW t \in Threads, NEW step \in Steps, NEW u \in Users, NEW d \in Docs,
         NEW doc \in Document, NEW signature \in Signatures, doc.hash \in Hashes,
         Begin(t, step, u, d, doc, signature)
  PROVE  /\ request' \in [Threads -> Request \cup {NoRequest}]
         /\ \A x \in Threads : request'[x].step # "idle" => request'[x].row.hash \in Hashes
<1> DEFINE r == [step |-> step, doc |-> d, user |-> u, signature |-> signature,
                 row |-> doc, table |-> EmptyTable]
<1>1. r \in Request
  BY EmptyTableType DEF Request
<1>2. request' = [request EXCEPT ![t] = r]
  BY DEF Begin
<1>3. request \in [Threads -> Request \cup {NoRequest}]
  BY DEF TypeInv, TypeOK
<1> HIDE DEF r
<1>4. request' \in [Threads -> Request \cup {NoRequest}]
  BY <1>1, <1>2, <1>3
<1>5. r.row = doc
  BY DEF r
<1> QED
  BY <1>2, <1>3, <1>4, <1>5 DEF TypeInv, HashesKnown, Idle

LEMMA FinishType ==
  ASSUME TypeInv, NEW t \in Threads, Finish(t)
  PROVE  /\ request' \in [Threads -> Request \cup {NoRequest}]
         /\ \A x \in Threads : request'[x].step # "idle" => request'[x].row.hash \in Hashes
BY DEF TypeInv, TypeOK, HashesKnown, Finish, Idle, NoRequest

LEMMA LeaveType ==
  ASSUME TypeInv, NEW u \in Users, Leave(u)
  PROVE  forms' \in [Users -> SUBSET Form]
BY DEF TypeInv, TypeOK, Leave

LEMMA NewSignatureType ==
  ASSUME TypeInv, NEW t \in Threads, NEW u \in Users, NEW d \in Docs, NewSignature(t, u, d)
  PROVE  TypeInv'
<1>1. forms' \in [Users -> SUBSET Form]
  BY LeaveType DEF NewSignature
<1>2. documents \in [Docs -> Document]
  BY DEF TypeInv, TypeOK
<1>3. CASE \E h \in Hashes, others \in SignersChoices :
             /\ \A i \in DOMAIN others : others[i] # u
             /\ LET doc == NewDocument(h, <<u>> \o others)
                IN  /\ documents' = [documents EXCEPT ![d] = doc]
                    /\ Begin(t, "start_lookup", u, d, doc, PlatformSignature)
  <2>1. PICK h \in Hashes, others \in SignersChoices :
             /\ documents' = [documents EXCEPT ![d] = NewDocument(h, <<u>> \o others)]
             /\ Begin(t, "start_lookup", u, d, NewDocument(h, <<u>> \o others), PlatformSignature)
    BY <1>3
  <2> DEFINE doc == NewDocument(h, <<u>> \o others)
  <2>2. <<u>> \o others \in Seq(Users \cup {NoUser})
    BY SignersAreListed
  <2>3. doc \in Document /\ doc.hash = h /\ doc.signedhash = <<>>
    BY <2>2, DocumentTypes DEF NewDocument
  <2>4. /\ documents' \in [Docs -> Document]
        /\ \A x \in Docs : documents'[x].signedhash # <<>> => documents'[x].hash \in Hashes
    BY <1>2, <2>1, <2>3 DEF TypeInv, HashesKnown
  <2>5. /\ request' \in [Threads -> Request \cup {NoRequest}]
        /\ \A x \in Threads : request'[x].step # "idle" => request'[x].row.hash \in Hashes
    BY <2>1, <2>3, BeginType, SignaturesGrow DEF Steps
  <2> QED
    BY <1>1, <2>4, <2>5 DEF NewSignature, TypeInv, TypeOK, HashesKnown, Idle, chain, bounds
<1>4. CASE /\ documents' = [documents EXCEPT ![d] = NewDocument(NoHash, <<u>>)]
           /\ UNCHANGED request
  <2> <<u>> \in Seq(Users \cup {NoUser})
    OBVIOUS
  <2>1. /\ NewDocument(NoHash, <<u>>) \in Document
        /\ NewDocument(NoHash, <<u>>).signedhash = <<>>
    BY DocumentTypes DEF NewDocument
  <2>2. /\ documents' \in [Docs -> Document]
        /\ \A x \in Docs : documents'[x].signedhash # <<>> => documents'[x].hash \in Hashes
    BY <1>2, <1>4, <2>1 DEF TypeInv, HashesKnown
  <2> QED
    BY <1>1, <1>4, <2>2 DEF NewSignature, TypeInv, TypeOK, HashesKnown, Idle, chain, bounds
<1> QED
  BY <1>3, <1>4 DEF NewSignature

\* A request that goes on: only its step, its row and its copy of the table change.
LEMMA GoOnType ==
  ASSUME TypeInv, NEW t \in Threads, request[t].step # "idle",
         NEW step \in Steps, NEW row \in Document, row.hash = request[t].row.hash,
         NEW table \in IdTable,
         request' = [request EXCEPT ![t].step = step, ![t].row = row, ![t].table = table]
  PROVE  /\ request' \in [Threads -> Request \cup {NoRequest}]
         /\ \A x \in Threads : request'[x].step # "idle" => request'[x].row.hash \in Hashes
<1>1. request \in [Threads -> Request \cup {NoRequest}]
  BY DEF TypeInv, TypeOK
<1>2. request[t] \in Request /\ row.hash \in Hashes
  BY BusyHasRequest
<1> DEFINE r == [request[t] EXCEPT !.step = step, !.row = row, !.table = table]
<1>3. r \in Request /\ r.row = row
  BY <1>2 DEF Request
<1>4. request' = [request EXCEPT ![t] = r]
  BY <1>1
<1> HIDE DEF r
<1>5. request' \in [Threads -> Request \cup {NoRequest}]
  BY <1>1, <1>3, <1>4
<1> QED
  BY <1>1, <1>2, <1>3, <1>4, <1>5 DEF TypeInv, HashesKnown, Idle

LEMMA LookupChaincodeType ==
  ASSUME TypeInv, NEW t \in Threads, NEW step \in Steps, NEW next \in Steps,
         LookupChaincode(t, step, next)
  PROVE  TypeInv'
<1>1. request[t].step # "idle"
  BY DEF LookupChaincode, Steps
<1>2. request[t] \in Request
  BY <1>1, BusyHasRequest
<1>3. request' = [request EXCEPT ![t].step = next, ![t].row = request[t].row,
                                 ![t].table = idTable]
  BY <1>2 DEF LookupChaincode, Request, TypeInv, TypeOK
<1>4. /\ request' \in [Threads -> Request \cup {NoRequest}]
      /\ \A x \in Threads : request'[x].step # "idle" => request'[x].row.hash \in Hashes
  BY <1>1, <1>2, <1>3, GoOnType DEF Request, TypeInv, TypeOK
<1> QED
  BY <1>4 DEF LookupChaincode, TypeInv, TypeOK, HashesKnown, Idle, rows, chain, bounds

LEMMA StartOpType ==
  ASSUME TypeInv, NEW t \in Threads, StartOp(t)
  PROVE  TypeInv'
<1> DEFINE h == request[t].row.hash
           table == [request[t].table EXCEPT ![h] = <<nextId>>]
<1>1. request[t].step # "idle"
  BY DEF StartOp
<1>2. request[t] \in Request /\ h \in Hashes
  BY <1>1, BusyHasRequest
<1>3. ledger' \in Seq(Transaction) /\ nextId' \in Nat
  BY <1>2, SendType, SignaturesGrow DEF StartOp
<1>4. table \in IdTable
  BY <1>2 DEF Request, IdTable, TypeInv, TypeOK
<1>5. request' = [request EXCEPT ![t].step = "start_save", ![t].row = request[t].row,
                                 ![t].table = table]
  BY <1>2 DEF StartOp, Request, TypeInv, TypeOK
<1> HIDE DEF table
<1>6. /\ request' \in [Threads -> Request \cup {NoRequest}]
      /\ \A x \in Threads : request'[x].step # "idle" => request'[x].row.hash \in Hashes
  BY <1>1, <1>2, <1>4, <1>5, GoOnType DEF Request, Steps
<1> QED
  BY <1>3, <1>6 DEF StartOp, TypeInv, TypeOK, HashesKnown, Idle, rows, bounds

LEMMA SendAndRecordType ==
  ASSUME TypeInv, NEW t \in Threads, NEW step \in Steps, NEW next \in Steps,
         NEW op \in {"op_start", "op_sign", "op_end"}, NEW signer \in Users \cup {Platform},
         NEW signature \in Signatures,
         SendAndRecord(t, step, next, op, signer, signature)
  PROVE  TypeInv'
<1> DEFINE h == request[t].row.hash
           table == [request[t].table EXCEPT ![h] = Append(@, nextId)]
<1>1. request[t].step # "idle"
  BY DEF SendAndRecord, Steps
<1>2. request[t] \in Request /\ h \in Hashes
  BY <1>1, BusyHasRequest
<1>3. ledger' \in Seq(Transaction) /\ nextId' \in Nat
  BY <1>2, SendType DEF SendAndRecord
<1>4. table \in IdTable
  BY <1>2 DEF Request, IdTable, TypeInv, TypeOK
<1>5. \/ Finish(t)
      \/ request' = [request EXCEPT ![t].step = next, ![t].row = request[t].row,
                                    ![t].table = table]
  BY <1>2 DEF SendAndRecord, Request, TypeInv, TypeOK
<1> HIDE DEF table
<1>6. /\ request' \in [Threads -> Request \cup {NoRequest}]
      /\ \A x \in Threads : request'[x].step # "idle" => request'[x].row.hash \in Hashes
  BY <1>1, <1>2, <1>4, <1>5, GoOnType, FinishType DEF Request
<1> QED
  BY <1>3, <1>6 DEF SendAndRecord, TypeInv, TypeOK, HashesKnown, Idle, rows, bounds

\* A request that goes on keeps its document, its user, its signature and its copy of the row.
KeepsRow(t) ==
  /\ request'[t].doc = request[t].doc
  /\ request'[t].user = request[t].user
  /\ request'[t].signature = request[t].signature
  /\ request'[t].row = request[t].row

\* What becomes of a request that sent op_sign or op_end: it ends if its copy does not know
\* the hash, and otherwise goes on with the new id at the end of the list of that hash.
LEMMA SendAndRecordStep ==
  ASSUME TypeInv, NEW t \in Threads, NEW step \in Steps, NEW next, NEW op, NEW signer,
         NEW signature, SendAndRecord(t, step, next, op, signer, signature),
         NEW h, h = request[t].row.hash
  PROVE  /\ request[t].step = step /\ request[t] \in Request /\ h \in Hashes
         /\ Send(op, signer, h, signature)
         /\ UNCHANGED <<documents, idTable, forms, posts, failures>>
         /\ \A x \in Threads : x # t => request'[x] = request[x]
         /\ \/ /\ Finish(t) /\ request[t].table[h] = <<>> /\ request'[t] = NoRequest
               /\ request'[t].step = "idle"
            \/ /\ request[t].table[h] # <<>> /\ request'[t].step = next /\ KeepsRow(t)
               /\ request'[t].table =
                    [request[t].table EXCEPT ![h] = Append(request[t].table[h], nextId)]
<1> DEFINE table == [request[t].table EXCEPT ![h] = Append(request[t].table[h], nextId)]
           r == [request[t] EXCEPT !.step = next, !.table = table]
<1>1. request[t].step = step /\ request[t].step # "idle"
  BY DEF SendAndRecord, Steps
<1>2. request[t] \in Request /\ h \in Hashes
  BY <1>1, BusyHasRequest
<1>3. request \in [Threads -> Request \cup {NoRequest}]
  BY DEF TypeInv, TypeOK
<1>4. Send(op, signer, h, signature) /\ UNCHANGED <<documents, idTable, forms, posts, failures>>
  BY DEF SendAndRecord, rows, bounds
<1>5. CASE request[t].table[h] = <<>>
  <2>1. Finish(t)
    BY <1>5 DEF SendAndRecord
  <2>2. request'[t] = NoRequest /\ \A x \in Threads : x # t => request'[x] = request[x]
    BY <1>3, <2>1 DEF Finish
  <2> QED
    BY <1>1, <1>2, <1>4, <1>5, <2>1, <2>2 DEF NoRequest
<1>6. CASE request[t].table[h] # <<>>
  <2>0. request' = [request EXCEPT ![t].step = next, ![t].table[h] = Append(@, nextId)]
    BY <1>6 DEF SendAndRecord
  <2>1. request' = [request EXCEPT ![t] = r]
    BY <2>0
  <2>2. /\ r.step = next /\ r.table = table
        /\ r.doc = request[t].doc /\ r.user = request[t].user
        /\ r.signature = request[t].signature /\ r.row = request[t].row
    BY <1>2 DEF Request
  <2> HIDE DEF r, table
  <2>3. request'[t] = r /\ \A x \in Threads : x # t => request'[x] = request[x]
    BY <1>3, <2>1
  <2>4. KeepsRow(t)
    BY <2>2, <2>3 DEF KeepsRow
  <2>5. request'[t].step = next /\ request'[t].table = table
    BY <2>2, <2>3
  <2> QED
    BY <1>1, <1>2, <1>4, <1>6, <2>3, <2>4, <2>5 DEF table
<1> QED
  BY <1>5, <1>6

LEMMA SignOpStep ==
  ASSUME TypeInv, NEW t \in Threads, SignOp(t), NEW h, h = request[t].row.hash
  PROVE  /\ request[t].step = "sign_send" /\ request[t] \in Request /\ h \in Hashes
         /\ Send("op_sign", request[t].user, h, request[t].signature)
         /\ UNCHANGED <<documents, idTable, forms, posts, failures>>
         /\ \A x \in Threads : x # t => request'[x] = request[x]
         /\ \/ /\ Finish(t) /\ request[t].table[h] = <<>> /\ request'[t] = NoRequest
               /\ request'[t].step = "idle"
            \/ /\ request[t].table[h] # <<>> /\ request'[t].step = "sign_save" /\ KeepsRow(t)
               /\ request'[t].table =
                    [request[t].table EXCEPT ![h] = Append(request[t].table[h], nextId)]
<1>1. /\ SendAndRecord(t, "sign_send", "sign_save", "op_sign", request[t].user,
                       request[t].signature)
      /\ "sign_send" \in Steps
  BY DEF SignOp, Steps
<1> QED
  BY <1>1, SendAndRecordStep

LEMMA EndOpStep ==
  ASSUME TypeInv, NEW t \in Threads, EndOp(t), NEW h, h = request[t].row.hash
  PROVE  /\ request[t].step = "end_send" /\ request[t] \in Request /\ h \in Hashes
         /\ Send("op_end", Platform, h, PlatformSignature)
         /\ UNCHANGED <<documents, idTable, forms, posts, failures>>
         /\ \A x \in Threads : x # t => request'[x] = request[x]
         /\ \/ /\ Finish(t) /\ request[t].table[h] = <<>> /\ request'[t] = NoRequest
               /\ request'[t].step = "idle"
            \/ /\ request[t].table[h] # <<>> /\ request'[t].step = "end_save" /\ KeepsRow(t)
               /\ request'[t].table =
                    [request[t].table EXCEPT ![h] = Append(request[t].table[h], nextId)]
<1>1. /\ SendAndRecord(t, "end_send", "end_save", "op_end", Platform, PlatformSignature)
      /\ "end_send" \in Steps
  BY DEF EndOp, Steps
<1> QED
  BY <1>1, SendAndRecordStep

\* What becomes of a request that sent op_start: the new id is the whole list of the hash.
LEMMA StartOpStep ==
  ASSUME TypeInv, NEW t \in Threads, StartOp(t), NEW h, h = request[t].row.hash
  PROVE  /\ request[t].step = "start_send" /\ request[t] \in Request /\ h \in Hashes
         /\ Send("op_start", Platform, h, PlatformSignature)
         /\ UNCHANGED <<documents, idTable, forms, posts, failures>>
         /\ \A x \in Threads : x # t => request'[x] = request[x]
         /\ request'[t].step = "start_save" /\ KeepsRow(t)
         /\ request'[t].table = [request[t].table EXCEPT ![h] = <<nextId>>]
<1> DEFINE table == [request[t].table EXCEPT ![h] = <<nextId>>]
           r == [request[t] EXCEPT !.step = "start_save", !.table = table]
<1>1. request[t].step = "start_send" /\ request[t].step # "idle"
  BY DEF StartOp
<1>2. request[t] \in Request /\ h \in Hashes
  BY <1>1, BusyHasRequest
<1>3. request \in [Threads -> Request \cup {NoRequest}]
  BY DEF TypeInv, TypeOK
<1>4. /\ Send("op_start", Platform, h, PlatformSignature)
      /\ UNCHANGED <<documents, idTable, forms, posts, failures>>
  BY DEF StartOp, rows, bounds
<1>5. request' = [request EXCEPT ![t] = r]
  BY DEF StartOp
<1>6. /\ r.step = "start_save" /\ r.table = table
      /\ r.doc = request[t].doc /\ r.user = request[t].user
      /\ r.signature = request[t].signature /\ r.row = request[t].row
  BY <1>2 DEF Request
<1> HIDE DEF r, table
<1>7. request'[t] = r /\ \A x \in Threads : x # t => request'[x] = request[x]
  BY <1>3, <1>5
<1>8. KeepsRow(t)
  BY <1>6, <1>7 DEF KeepsRow
<1>9. request'[t].step = "start_save" /\ request'[t].table = table
  BY <1>6, <1>7
<1> QED
  BY <1>1, <1>2, <1>4, <1>7, <1>8, <1>9 DEF table

LEMMA SaveStartType ==
  ASSUME TypeInv, NEW t \in Threads, SaveStart(t)
  PROVE  TypeInv'
<1> DEFINE doc == [request[t].row EXCEPT !.signedhash = PlatformSignature]
<1>1. request[t].step # "idle"
  BY DEF SaveStart
<1>2. doc \in Document /\ doc.hash = request[t].row.hash
  BY <1>1, BusyHasRequest, SignaturesGrow DEF Request, Document
<1>3. Flush(t, doc) /\ Finish(t)
  BY DEF SaveStart
<1> HIDE DEF doc
<1> QED
  BY <1>1, <1>2, <1>3, FlushType, FinishType
     DEF Flush, TypeInv, TypeOK, HashesKnown, Idle, chain, bounds

LEMMA SaveEndType ==
  ASSUME TypeInv, NEW t \in Threads, SaveEnd(t)
  PROVE  TypeInv'
<1> DEFINE doc == [request[t].row EXCEPT !.signedhash = PlatformSignature, !.state = "FINALIZED"]
<1>1. request[t].step # "idle"
  BY DEF SaveEnd
<1>2. doc \in Document /\ doc.hash = request[t].row.hash
  BY <1>1, BusyHasRequest, SignaturesGrow DEF Request, Document
<1>3. Flush(t, doc) /\ Finish(t)
  BY DEF SaveEnd
<1> HIDE DEF doc
<1> QED
  BY <1>1, <1>2, <1>3, FlushType, FinishType
     DEF Flush, TypeInv, TypeOK, HashesKnown, Idle, chain, bounds

LEMMA SaveSignatureType ==
  ASSUME TypeInv, NEW t \in Threads, SaveSignature(t)
  PROVE  TypeInv'
<1> DEFINE doc == SignedBy(request[t].row, request[t].signature)
<1>1. request[t].step # "idle"
  BY DEF SaveSignature
<1>2. request[t] \in Request
  BY <1>1, BusyHasRequest
<1>3. doc \in Document /\ doc.hash = request[t].row.hash
  BY <1>2, DocumentTypes DEF Request
<1>4. Flush(t, doc)
  BY DEF SaveSignature
<1>5. \/ Finish(t)
      \/ request' = [request EXCEPT ![t].step = "end_send", ![t].row = doc,
                                    ![t].table = request[t].table]
  BY <1>2 DEF SaveSignature, Request, TypeInv, TypeOK
<1> HIDE DEF doc
<1>6. /\ request' \in [Threads -> Request \cup {NoRequest}]
      /\ \A x \in Threads : request'[x].step # "idle" => request'[x].row.hash \in Hashes
  BY <1>1, <1>2, <1>3, <1>5, GoOnType, FinishType DEF Request, Steps
<1> QED
  BY <1>1, <1>3, <1>4, <1>6, FlushType DEF Flush, TypeInv, TypeOK, HashesKnown, Idle, chain, bounds

LEMMA SignDocumentType ==
  ASSUME TypeInv, NEW t \in Threads, NEW u \in Users, NEW form \in forms[u],
         SignDocument(t, u, form)
  PROVE  TypeInv'
<1>1. form \in Form
  BY DEF TypeInv, TypeOK
<1>2. forms' \in [Users -> SUBSET Form]
  BY LeaveType DEF SignDocument
<1>3. CASE form.dochash # <<>> /\ documents[form.doc].signedhash = form.dochash
  <2>1. posts' \in 0..MaxPosts
    BY <1>3, BoundsAreNatural DEF SignDocument, TypeInv, TypeOK
  <2>2. form.doc \in Docs /\ documents[form.doc] \in Document
        /\ documents[form.doc].hash \in Hashes
    BY <1>1, <1>3 DEF Form, TypeInv, TypeOK, HashesKnown
  <2>3. Append(form.dochash, u) \in Signatures
    BY <1>1, SignaturesGrow DEF Form
  <2>4. Begin(t, "sign_lookup", u, form.doc, documents[form.doc], Append(form.dochash, u))
    BY <1>3 DEF SignDocument
  <2>5. /\ request' \in [Threads -> Request \cup {NoRequest}]
        /\ \A x \in Threads : request'[x].step # "idle" => request'[x].row.hash \in Hashes
    BY <2>2, <2>3, <2>4, BeginType DEF Steps
  <2> QED
    BY <1>2, <2>1, <2>5 DEF SignDocument, TypeInv, TypeOK, HashesKnown, Idle, rows, chain
<1>4. CASE ~(form.dochash # <<>> /\ documents[form.doc].signedhash = form.dochash)
  BY <1>2, <1>4 DEF SignDocument, TypeInv, TypeOK, HashesKnown, Idle, rows, chain
<1> QED
  BY <1>3, <1>4

LEMMA RequestFailsType ==
  ASSUME TypeInv, NEW t \in Threads, RequestFails(t)
  PROVE  TypeInv'
<1>1. failures' \in 0..MaxFailures
  BY BoundsAreNatural DEF RequestFails, TypeInv, TypeOK
<1> QED
  BY <1>1, FinishType DEF RequestFails, TypeInv, TypeOK, HashesKnown, Idle, rows, chain

LEMMA TypeInvNext == TypeInv /\ [Next]_vars => TypeInv'
<1> SUFFICES ASSUME TypeInv, [Next]_vars PROVE TypeInv'
  OBVIOUS
<1>1. CASE \E u \in Users : LoadIndex(u)
  BY <1>1, LoadIndexType
<1>2. CASE \E t \in Threads, u \in Users, d \in Docs : NewSignature(t, u, d)
  BY <1>2, NewSignatureType
<1>3. CASE \E t \in Threads, u \in Users : \E form \in forms[u] : SignDocument(t, u, form)
  BY <1>3, SignDocumentType
<1>4. ASSUME NEW t \in Threads, Proceed(t) PROVE TypeInv'
  <2>1. CASE LookupChaincode(t, "start_lookup", "start_send")
    BY <2>1, LookupChaincodeType DEF Steps
  <2>2. CASE StartOp(t)
    BY <2>2, StartOpType
  <2>3. CASE SaveStart(t)
    BY <2>3, SaveStartType
  <2>4. CASE LookupChaincode(t, "sign_lookup", "sign_send")
    BY <2>4, LookupChaincodeType DEF Steps
  <2>5. CASE SignOp(t)
    <3>1. request[t] \in Request
      BY <2>5, BusyHasRequest DEF SignOp, SendAndRecord
    <3>2. request[t].user \in Users /\ request[t].signature \in Signatures
      BY <3>1 DEF Request
    <3> QED
      BY <2>5, <3>2, SendAndRecordType DEF SignOp, Steps
  <2>6. CASE SaveSignature(t)
    BY <2>6, SaveSignatureType
  <2>7. CASE EndOp(t)
    BY <2>7, SendAndRecordType, SignaturesGrow DEF EndOp, Steps
  <2>8. CASE SaveEnd(t)
    BY <2>8, SaveEndType
  <2> QED
    BY <1>4, <2>1, <2>2, <2>3, <2>4, <2>5, <2>6, <2>7, <2>8 DEF Proceed
<1>5. CASE \E t \in Threads : RequestFails(t)
  BY <1>5, RequestFailsType
<1>6. CASE UNCHANGED vars
  BY <1>6 DEF vars, TypeInv, TypeOK, HashesKnown, Idle
<1> QED
  BY <1>1, <1>2, <1>3, <1>4, <1>5, <1>6 DEF Next

\* Whatever requests interleave, the rows, the ledger, the open forms and the requests'
\* copies of the rows keep their types (TypeOK), for every number of users and threads.
THEOREM TypeCorrect == Spec => []TypeOK
<1>1. TypeInv => TypeOK
  BY DEF TypeInv
<1> QED
  BY <1>1, TypeInvInit, TypeInvNext, PTL DEF Spec

----------------------------------------------------------------------------
(* The chain of signatures, when the orderer loses nothing.                 *)

Known(h, signature) ==
  \E j \in DOMAIN ledger : ledger[j].hash = h /\ ledger[j].signature = signature

SomebodySigned(h) == \E j \in DOMAIN ledger : ledger[j].hash = h /\ ledger[j].op = "op_sign"

(* A signature that a row holds is on the ledger, and so is one that a      *)
(* request is about to save.  A request that has yet to send its op_sign    *)
(* adds its user to the signature of the copy it works on, which stays true *)
(* however stale the copy is.                                               *)
RowsKnown ==
  \A d \in Docs : documents[d].signedhash # <<>> =>
    Known(documents[d].hash, documents[d].signedhash)

RequestKnown(r) ==
  /\ r.step \in {"sign_lookup", "sign_send"} =>
       /\ Known(r.row.hash, r.row.signedhash)
       /\ r.signature = Append(r.row.signedhash, r.user)
  /\ r.step = "sign_save" => Known(r.row.hash, r.signature)
  /\ r.step \in {"sign_save", "end_send"} => SomebodySigned(r.row.hash)
  /\ r.step \in {"start_save", "end_save"} => Known(r.row.hash, PlatformSignature)

ChainInv ==
  /\ TypeInv
  /\ RowsKnown
  /\ \A t \in Threads : RequestKnown(request[t])
  /\ LedgerIsChained

\* One record more on the ledger.
LEMMA LedgerGrows ==
  ASSUME TypeInv, NEW op, NEW signer, NEW h \in Hashes, NEW signature,
         ledger' = Append(ledger, [id |-> nextId, op |-> op, signer |-> signer,
                                   hash |-> h, signature |-> signature])
  PROVE  /\ \A g, s : Known(g, s) => Known(g, s)'
         /\ \A g : SomebodySigned(g) => SomebodySigned(g)'
         /\ Known(h, signature)'
         /\ op = "op_sign" => SomebodySigned(h)'
<1> DEFINE tx == [id |-> nextId, op |-> op, signer |-> signer,
                  hash |-> h, signature |-> signature]
<1>1. ledger \in Seq(Transaction)
  BY DEF TypeInv, TypeOK
<1>2. tx.op = op /\ tx.hash = h /\ tx.signature = signature
  OBVIOUS
<1>3. ledger' = Append(ledger, tx)
  OBVIOUS
<1> HIDE DEF tx
<1>4. /\ DOMAIN ledger' = 1..(Len(ledger) + 1)
      /\ \A j \in DOMAIN ledger : j \in DOMAIN ledger' /\ ledger'[j] = ledger[j]
      /\ Len(ledger) + 1 \in DOMAIN ledger' /\ ledger'[Len(ledger) + 1] = tx
  BY <1>1, <1>3
<1> QED
  BY <1>2, <1>4 DEF Known, SomebodySigned

\* The new record keeps the ledger chained, if it is no signature, or one over a record.
LEMMA ChainGrows ==
  ASSUME TypeInv, LedgerIsChained, NEW op, NEW signer, NEW h \in Hashes, NEW signature,
         op = "op_sign" => \E s : Known(h, s) /\ signature = Append(s, signer),
         ledger' = Append(ledger, [id |-> nextId, op |-> op, signer |-> signer,
                                   hash |-> h, signature |-> signature])
  PROVE  LedgerIsChained'
<1> DEFINE tx == [id |-> nextId, op |-> op, signer |-> signer,
                  hash |-> h, signature |-> signature]
           n == Len(ledger)
<1>1. ledger \in Seq(Transaction) /\ n \in Nat
  BY DEF TypeInv, TypeOK
<1>2. tx.op = op /\ tx.hash = h /\ tx.signature = signature /\ tx.signer = signer
  OBVIOUS
<1>3. ledger' = Append(ledger, tx)
  OBVIOUS
<1> HIDE DEF tx
<1>4. /\ DOMAIN ledger = 1..n
      /\ DOMAIN ledger' = 1..(n + 1)
      /\ \A j \in 1..n : ledger'[j] = ledger[j]
      /\ ledger'[n + 1] = tx
  BY <1>1, <1>3
<1> HIDE DEF n
<1> SUFFICES ASSUME NEW i \in 1..(n + 1), ledger'[i].op = "op_sign"
             PROVE  \E j \in 1..(i - 1) :
                      /\ ledger'[j].hash = ledger'[i].hash
                      /\ ledger'[i].signature = Append(ledger'[j].signature, ledger'[i].signer)
  BY <1>4 DEF LedgerIsChained
<1>5. CASE i \in 1..n
  <2>1. PICK j \in 1..(i - 1) :
             /\ ledger[j].hash = ledger[i].hash
             /\ ledger[i].signature = Append(ledger[j].signature, ledger[i].signer)
    BY <1>4, <1>5 DEF LedgerIsChained
  <2>2. j \in 1..n
    BY <1>1, <1>5
  <2> QED
    BY <1>4, <1>5, <2>1, <2>2
<1>6. CASE i = n + 1
  <2>1. PICK s : Known(h, s) /\ signature = Append(s, signer)
    BY <1>2, <1>4, <1>6
  <2>2. PICK j \in 1..n : ledger[j].hash = h /\ ledger[j].signature = s
    BY <1>4, <2>1 DEF Known
  <2>3. j \in 1..(i - 1)
    BY <1>1, <1>6
  <2>4. ledger'[j] = ledger[j]
    BY <1>4
  <2>5. /\ ledger'[i].hash = h /\ ledger'[i].signer = signer
        /\ ledger'[i].signature = signature
    BY <1>2, <1>4, <1>6
  <2>6. /\ ledger'[j].hash = ledger'[i].hash
        /\ ledger'[i].signature = Append(ledger'[j].signature, ledger'[i].signer)
    BY <2>1, <2>2, <2>4, <2>5
  <2> QED
    BY <2>3, <2>6
<1>7. i \in 1..n \/ i = n + 1
  BY <1>1
<1> QED
  BY <1>5, <1>6, <1>7

LEMMA ChainInvInit == Init => ChainInv
<1> SUFFICES ASSUME Init PROVE ChainInv
  OBVIOUS
<1>1. RowsKnown
  BY DEF Init, RowsKnown, Absent
<1>2. \A t \in Threads : RequestKnown(request[t])
  BY DEF Init, RequestKnown, NoRequest
<1>3. LedgerIsChained
  BY DEF Init, LedgerIsChained
<1> QED
  BY <1>1, <1>2, <1>3, TypeInvInit DEF ChainInv

\* Steps that leave the ledger alone: what changes is one row and one request at most.
LEMMA QuietStep ==
  ASSUME ChainInv, TypeInv', UNCHANGED ledger,
         \A d \in Docs : \/ documents'[d] = documents[d]
                         \/ documents'[d].signedhash = <<>>
                         \/ Known(documents'[d].hash, documents'[d].signedhash),
         \A t \in Threads : \/ request'[t] = request[t]
                            \/ request'[t] = NoRequest
                            \/ RequestKnown(request'[t])
  PROVE  ChainInv'
<1>1. LedgerIsChained'
  BY DEF ChainInv, LedgerIsChained
<1>2. \A g, s : Known(g, s) => Known(g, s)'
  BY DEF Known
<1>3. \A g : SomebodySigned(g) => SomebodySigned(g)'
  BY DEF SomebodySigned
<1>4. RowsKnown'
  BY <1>2 DEF ChainInv, RowsKnown
<1>5. ASSUME NEW t \in Threads PROVE RequestKnown(request[t])'
  <2>1. RequestKnown(request'[t])
    BY DEF ChainInv, RequestKnown, NoRequest
  <2> QED
    BY <1>2, <1>3, <2>1 DEF RequestKnown
<1> QED
  BY <1>1, <1>4, <1>5 DEF ChainInv

\* A step that sends: the ledger grows by one record and one request changes.
LEMMA SendingStep ==
  ASSUME ChainInv, TypeInv', NEW t \in Threads,
         NEW op, NEW signer, NEW h \in Hashes, NEW signature,
         op = "op_sign" => \E s : Known(h, s) /\ signature = Append(s, signer),
         ledger' = Append(ledger, [id |-> nextId, op |-> op, signer |-> signer,
                                   hash |-> h, signature |-> signature]),
         UNCHANGED documents,
         \A x \in Threads : x # t => request'[x] = request[x],
         RequestKnown(request[t])'
  PROVE  ChainInv'
<1>1. TypeInv /\ LedgerIsChained
  BY DEF ChainInv
<1>2. LedgerIsChained'
  BY <1>1, ChainGrows
<1>3. /\ \A g, s : Known(g, s) => Known(g, s)'
      /\ \A g : SomebodySigned(g) => SomebodySigned(g)'
  BY <1>1, LedgerGrows
<1>4. RowsKnown'
  BY <1>3 DEF ChainInv, RowsKnown
<1>5. ASSUME NEW x \in Threads PROVE RequestKnown(request[x])'
  <2>1. CASE x = t
    BY <2>1
  <2>2. CASE x # t
    <3>1. RequestKnown(request[x]) /\ request'[x] = request[x]
      BY <2>2 DEF ChainInv
    <3> QED
      BY <1>3, <3>1 DEF RequestKnown
  <2> QED
    BY <2>1, <2>2
<1> QED
  BY <1>2, <1>4, <1>5 DEF ChainInv

LEMMA LookupChaincodeChain ==
  ASSUME ChainInv, NEW t \in Threads,
         \/ LookupChaincode(t, "start_lookup", "start_send")
         \/ LookupChaincode(t, "sign_lookup", "sign_send")
  PROVE  ChainInv'
<1>1. TypeInv /\ TypeInv'
  BY LookupChaincodeType DEF ChainInv, Steps
<1>2. request[t] \in Request
  BY <1>1, BusyHasRequest DEF LookupChaincode
<1>3. PICK next \in {"start_send", "sign_send"} :
           /\ request[t].step = IF next = "sign_send" THEN "sign_lookup" ELSE "start_lookup"
           /\ request' = [request EXCEPT ![t].step = next, ![t].table = idTable]
  BY DEF LookupChaincode
<1>4. /\ request'[t].step = next
      /\ request'[t].row = request[t].row
      /\ request'[t].user = request[t].user
      /\ request'[t].signature = request[t].signature
  BY <1>1, <1>2, <1>3 DEF Request, TypeInv, TypeOK
<1>5. RequestKnown(request'[t])
  BY <1>3, <1>4 DEF ChainInv, RequestKnown
<1>6. \A x \in Threads : x # t => request'[x] = request[x]
  BY <1>1, <1>3 DEF TypeInv, TypeOK
<1> QED
  BY <1>1, <1>5, <1>6, QuietStep DEF LookupChaincode, rows, chain

LEMMA StartOpChain ==
  ASSUME ~LossyOrderer, ChainInv, NEW t \in Threads, StartOp(t)
  PROVE  ChainInv'
<1>1. TypeInv /\ TypeInv'
  BY StartOpType DEF ChainInv
<1>2. request[t] \in Request
  BY <1>1, BusyHasRequest DEF StartOp
<1>0. PICK h \in Hashes : h = request[t].row.hash
  BY <1>1, BusyHasRequest DEF StartOp
<1>3. ledger' = Append(ledger, [id |-> nextId, op |-> "op_start", signer |-> Platform,
                                hash |-> h, signature |-> PlatformSignature])
  BY <1>0 DEF StartOp, Send
<1>4. Known(h, PlatformSignature)'
  BY <1>1, <1>3, LedgerGrows
<1>5. request'[t].step = "start_save" /\ request'[t].row = request[t].row
  BY <1>1, <1>2 DEF StartOp, Request, TypeInv, TypeOK
<1>6. RequestKnown(request[t])'
  BY <1>4, <1>5, <1>0 DEF RequestKnown
<1>7. \A x \in Threads : x # t => request'[x] = request[x]
  BY <1>1 DEF StartOp, TypeInv, TypeOK
<1>8. UNCHANGED documents
  BY DEF StartOp, rows
<1> QED
  BY <1>1, <1>3, <1>6, <1>7, <1>8, SendingStep

\* sign_op and end_op: either the request goes on with what it sent, or it ends.
LEMMA SignOpChain ==
  ASSUME ~LossyOrderer, ChainInv, NEW t \in Threads, SignOp(t)
  PROVE  ChainInv'
<1>1. TypeInv
  BY DEF ChainInv
<1>2. request[t] \in Request
  BY <1>1, BusyHasRequest DEF SignOp, SendAndRecord
<1>0. PICK h \in Hashes, signer \in Users, signature \in Signatures :
        h = request[t].row.hash /\ signer = request[t].user /\ signature = request[t].signature
  BY <1>1, <1>2, BusyHasRequest DEF SignOp, SendAndRecord, Request
<1>3. TypeInv'
  BY <1>1, <1>2, SendAndRecordType DEF SignOp, Request, Steps
<1>4. ledger' = Append(ledger, [id |-> nextId, op |-> "op_sign", signer |-> signer,
                                hash |-> h, signature |-> signature])
  BY <1>0 DEF SignOp, SendAndRecord, Send
<1>5. Known(h, signature)' /\ SomebodySigned(h)'
  BY <1>1, <1>4, LedgerGrows
<1>6. \E s : Known(h, s) /\ signature = Append(s, signer)
  BY <1>0 DEF ChainInv, RequestKnown, SignOp, SendAndRecord
<1>7. \/ request'[t] = NoRequest
      \/ /\ request'[t].step = "sign_save"
         /\ request'[t].row = request[t].row
         /\ request'[t].signature = signature
  BY <1>1, <1>2, <1>0 DEF SignOp, SendAndRecord, Finish, Request, TypeInv, TypeOK
<1>8. RequestKnown(request[t])'
  BY <1>5, <1>7, <1>0 DEF RequestKnown, NoRequest
<1>9. \A x \in Threads : x # t => request'[x] = request[x]
  BY <1>1 DEF SignOp, SendAndRecord, Finish, TypeInv, TypeOK
<1>10. UNCHANGED documents
  BY DEF SignOp, SendAndRecord, rows
<1> QED
  BY <1>3, <1>4, <1>6, <1>8, <1>9, <1>10, SendingStep

LEMMA EndOpChain ==
  ASSUME ~LossyOrderer, ChainInv, NEW t \in Threads, EndOp(t)
  PROVE  ChainInv'
<1>1. TypeInv
  BY DEF ChainInv
<1>2. request[t] \in Request
  BY <1>1, BusyHasRequest DEF EndOp, SendAndRecord
<1>0. PICK h \in Hashes : h = request[t].row.hash
  BY <1>1, BusyHasRequest DEF EndOp, SendAndRecord
<1>3. TypeInv'
  BY <1>1, <1>2, SendAndRecordType, SignaturesGrow DEF EndOp, Request, Steps
<1>4. ledger' = Append(ledger, [id |-> nextId, op |-> "op_end", signer |-> Platform,
                                hash |-> h, signature |-> PlatformSignature])
  BY <1>0 DEF EndOp, SendAndRecord, Send
<1>5. Known(h, PlatformSignature)'
  BY <1>1, <1>4, LedgerGrows
<1>6. \/ request'[t] = NoRequest
      \/ /\ request'[t].step = "end_save"
         /\ request'[t].row = request[t].row
  BY <1>1, <1>2 DEF EndOp, SendAndRecord, Finish, Request, TypeInv, TypeOK
<1>7. RequestKnown(request[t])'
  BY <1>5, <1>6, <1>0 DEF RequestKnown, NoRequest
<1>8. \A x \in Threads : x # t => request'[x] = request[x]
  BY <1>1 DEF EndOp, SendAndRecord, Finish, TypeInv, TypeOK
<1>9. UNCHANGED documents
  BY DEF EndOp, SendAndRecord, rows
<1> QED
  BY <1>3, <1>4, <1>7, <1>8, <1>9, SendingStep

LEMMA SaveSignatureChain ==
  ASSUME ChainInv, NEW t \in Threads, SaveSignature(t)
  PROVE  ChainInv'
<1> DEFINE doc == SignedBy(request[t].row, request[t].signature)
<1>1. TypeInv /\ TypeInv'
  BY SaveSignatureType DEF ChainInv
<1>2. request[t] \in Request
  BY <1>1, BusyHasRequest DEF SaveSignature
<1>3. doc.hash = request[t].row.hash /\ doc.signedhash = request[t].signature
  BY <1>2 DEF SignedBy, Request, Document
<1>4. /\ Known(doc.hash, doc.signedhash)
      /\ SomebodySigned(doc.hash)
  BY <1>3 DEF ChainInv, RequestKnown, SaveSignature
<1>5. documents' = [documents EXCEPT ![request[t].doc] = doc] /\ UNCHANGED ledger
  BY DEF SaveSignature, Flush, chain
<1>6. \/ Finish(t)
      \/ request' = [request EXCEPT ![t].step = "end_send", ![t].row = doc]
  BY DEF SaveSignature
<1> HIDE DEF doc
<1>7. request'[t] = NoRequest \/ (request'[t].step = "end_send" /\ request'[t].row = doc)
  BY <1>1, <1>2, <1>6 DEF Finish, Request, TypeInv, TypeOK
<1>8. request'[t] = NoRequest \/ RequestKnown(request'[t])
  BY <1>4, <1>7 DEF RequestKnown
<1>9. \A x \in Threads : x # t => request'[x] = request[x]
  BY <1>1, <1>6 DEF Finish, TypeInv, TypeOK
<1>10. \A d \in Docs : documents'[d] = documents[d] \/ documents'[d] = doc
  BY <1>1, <1>5 DEF TypeInv, TypeOK
<1> QED
  BY <1>1, <1>4, <1>5, <1>8, <1>9, <1>10, QuietStep

\* start_op's and end_op's saves store the platform's signature, which is on the ledger.
LEMMA SavePlatformChain ==
  ASSUME ChainInv, TypeInv', NEW t \in Threads, SaveStart(t) \/ SaveEnd(t)
  PROVE  ChainInv'
<1>1. request[t] \in Request
  BY BusyHasRequest DEF ChainInv, SaveStart, SaveEnd
<1>2. PICK doc : /\ doc.hash = request[t].row.hash /\ doc.signedhash = PlatformSignature
                 /\ documents' = [documents EXCEPT ![request[t].doc] = doc]
  BY <1>1 DEF SaveStart, SaveEnd, Flush, Request, Document
<1>3. Known(doc.hash, doc.signedhash)
  BY <1>2 DEF ChainInv, RequestKnown, SaveStart, SaveEnd
<1>4. \A d \in Docs : documents'[d] = documents[d] \/ documents'[d] = doc
  BY <1>2 DEF ChainInv, TypeInv, TypeOK
<1>5. \A x \in Threads : request'[x] = request[x] \/ request'[x] = NoRequest
  BY DEF ChainInv, TypeInv, TypeOK, SaveStart, SaveEnd, Finish
<1> QED
  BY <1>3, <1>4, <1>5, QuietStep DEF SaveStart, SaveEnd, Flush, chain

LEMMA NewSignatureChain ==
  ASSUME ChainInv, NEW t \in Threads, NEW u \in Users, NEW d \in Docs, NewSignature(t, u, d)
  PROVE  ChainInv'
<1>1. TypeInv /\ TypeInv'
  BY NewSignatureType DEF ChainInv
<1>2. PICK h, signers : documents' = [documents EXCEPT ![d] = NewDocument(h, signers)]
  BY DEF NewSignature
<1>5. \A x \in Docs : documents'[x] = documents[x] \/ documents'[x].signedhash = <<>>
  BY <1>1, <1>2 DEF NewDocument, TypeInv, TypeOK
<1>3. \A x \in Threads : request'[x] = request[x] \/ request'[x].step = "start_lookup"
  BY <1>1 DEF NewSignature, Begin, TypeInv, TypeOK
<1>4. \A x \in Threads : request'[x] = request[x] \/ RequestKnown(request'[x])
  BY <1>3 DEF RequestKnown
<1> QED
  BY <1>1, <1>4, <1>5, QuietStep DEF NewSignature, chain

LEMMA SignDocumentChain ==
  ASSUME ChainInv, NEW t \in Threads, NEW u \in Users, NEW form \in forms[u],
         SignDocument(t, u, form)
  PROVE  ChainInv'
<1>1. TypeInv /\ TypeInv'
  BY SignDocumentType DEF ChainInv
<1>2. UNCHANGED <<documents, ledger>>
  BY DEF SignDocument, rows, chain
<1>3. CASE form.dochash # <<>> /\ documents[form.doc].signedhash = form.dochash
  <2> DEFINE doc == documents[form.doc]
  <2>1. form.doc \in Docs
    BY <1>1 DEF TypeInv, TypeOK, Form
  <2>2. Known(doc.hash, doc.signedhash)
    BY <1>3, <2>1 DEF ChainInv, RowsKnown
  <2>3. Begin(t, "sign_lookup", u, form.doc, doc, Append(form.dochash, u))
    BY <1>3 DEF SignDocument
  <2>4. /\ request'[t].step = "sign_lookup" /\ request'[t].row = doc
        /\ request'[t].user = u /\ request'[t].signature = Append(doc.signedhash, u)
        /\ \A x \in Threads : x # t => request'[x] = request[x]
    BY <1>1, <1>3, <2>3 DEF Begin, TypeInv, TypeOK
  <2>5. RequestKnown(request'[t])
    BY <2>2, <2>4 DEF RequestKnown
  <2> QED
    BY <1>1, <1>2, <2>4, <2>5, QuietStep
<1>4. CASE ~(form.dochash # <<>> /\ documents[form.doc].signedhash = form.dochash)
  BY <1>1, <1>2, <1>4, QuietStep DEF SignDocument
<1> QED
  BY <1>3, <1>4

LEMMA ChainInvNext == ~LossyOrderer /\ ChainInv /\ [Next]_vars => ChainInv'
<1> SUFFICES ASSUME ~LossyOrderer, ChainInv, [Next]_vars PROVE ChainInv'
  OBVIOUS
<1>1. TypeInv /\ TypeInv'
  BY TypeInvNext DEF ChainInv
<1>2. CASE \E u \in Users : LoadIndex(u)
  BY <1>1, <1>2, QuietStep DEF LoadIndex, rows, chain
<1>3. CASE \E t \in Threads, u \in Users, d \in Docs : NewSignature(t, u, d)
  BY <1>3, NewSignatureChain
<1>4. CASE \E t \in Threads, u \in Users : \E form \in forms[u] : SignDocument(t, u, form)
  BY <1>4, SignDocumentChain
<1>5. ASSUME NEW t \in Threads, Proceed(t) PROVE ChainInv'
  BY <1>1, <1>5, LookupChaincodeChain, StartOpChain, SignOpChain, SaveSignatureChain,
     EndOpChain, SavePlatformChain DEF Proceed
<1>6. CASE \E t \in Threads : RequestFails(t)
  <2>1. \A x \in Threads : request'[x] = request[x] \/ request'[x] = NoRequest
    BY <1>1, <1>6 DEF RequestFails, Finish, TypeInv, TypeOK
  <2> QED
    BY <1>1, <1>6, <2>1, QuietStep DEF RequestFails, rows, chain
<1>7. CASE UNCHANGED vars
  BY <1>1, <1>7, QuietStep DEF vars
<1> QED
  BY <1>2, <1>3, <1>4, <1>5, <1>6, <1>7 DEF Next

\* While the orderer loses nothing, every signature a user has on the ledger is over one
\* that is there before it, however requests interleave, fail or are posted twice.
THEOREM LedgerChained == ASSUME ~LossyOrderer PROVE Spec => []LedgerIsChained
<1>1. Init => ChainInv
  BY ChainInvInit
<1>2. ChainInv /\ [Next]_vars => ChainInv'
  BY ChainInvNext
<1>3. ChainInv => LedgerIsChained
  BY DEF ChainInv
<1> QED
  BY <1>1, <1>2, <1>3, PTL DEF Spec

----------------------------------------------------------------------------
(* The servers implement SignatureLog on the ledger.                        *)

LEMMA LogInit == Init => Log!Init
BY DEF Init, Log!Init

\* What the three operations send is what SignatureLog allows.
LEMMA LogStep ==
  ASSUME ~LossyOrderer, ChainInv, [Next]_vars
  PROVE  [Log!Next]_<<ledger, nextId>>
<1>1. TypeInv
  BY DEF ChainInv
<1>2. CASE \E u \in Users : LoadIndex(u)
  BY <1>2 DEF LoadIndex, chain
<1>3. CASE \E t \in Threads, u \in Users, d \in Docs : NewSignature(t, u, d)
  BY <1>3 DEF NewSignature, chain
<1>4. CASE \E t \in Threads, u \in Users : \E form \in forms[u] : SignDocument(t, u, form)
  BY <1>4 DEF SignDocument, chain
<1>5. ASSUME NEW t \in Threads, Proceed(t) PROVE [Log!Next]_<<ledger, nextId>>
  <2>1. CASE \/ LookupChaincode(t, "start_lookup", "start_send")
             \/ LookupChaincode(t, "sign_lookup", "sign_send")
    BY <2>1 DEF LookupChaincode, chain
  <2>2. CASE StartOp(t)
    <3>1. request[t].row.hash \in Hashes
      BY <1>1, <2>2, BusyHasRequest DEF StartOp
    <3>2. Log!OpStart(request[t].row.hash)
      BY <2>2 DEF StartOp, Send, PlatformSignature, Log!OpStart, Log!PutState
    <3> QED
      BY <3>1, <3>2 DEF Log!Next
  <2>3. CASE SignOp(t)
    <3>1. request[t].row.hash \in Hashes /\ request[t].user \in Users
      BY <1>1, <2>3, BusyHasRequest DEF SignOp, SendAndRecord, Request
    <3>2. PICK j \in DOMAIN ledger :
               /\ ledger[j].hash = request[t].row.hash
               /\ request[t].signature = Append(ledger[j].signature, request[t].user)
      BY <2>3 DEF ChainInv, RequestKnown, Known, SignOp, SendAndRecord
    <3>3. Log!OpSign(request[t].user, request[t].row.hash)
      BY <2>3, <3>2 DEF SignOp, SendAndRecord, Send, Log!OpSign, Log!PutState
    <3> QED
      BY <3>1, <3>3 DEF Log!Next
  <2>4. CASE EndOp(t)
    <3>1. request[t].row.hash \in Hashes
      BY <1>1, <2>4, BusyHasRequest DEF EndOp, SendAndRecord
    <3>2. SomebodySigned(request[t].row.hash)
      BY <2>4 DEF ChainInv, RequestKnown, EndOp, SendAndRecord
    <3>3. Log!OpEnd(request[t].row.hash)
      BY <2>4, <3>2 DEF EndOp, SendAndRecord, Send, PlatformSignature, SomebodySigned,
                        Log!OpEnd, Log!PutState
    <3> QED
      BY <3>1, <3>3 DEF Log!Next
  <2>5. CASE SaveStart(t) \/ SaveSignature(t) \/ SaveEnd(t)
    BY <2>5 DEF SaveStart, SaveSignature, SaveEnd, Flush, chain
  <2> QED
    BY <1>5, <2>1, <2>2, <2>3, <2>4, <2>5 DEF Proceed
<1>6. CASE \E t \in Threads : RequestFails(t)
  BY <1>6 DEF RequestFails, chain
<1>7. CASE UNCHANGED vars
  BY <1>7 DEF vars
<1> QED
  BY <1>2, <1>3, <1>4, <1>5, <1>6, <1>7 DEF Next

\* While the orderer loses nothing, whatever the servers do is, on the ledger, a behaviour
\* of SignatureLog: fresh ids, signatures over recorded ones, no end without a signature.
THEOREM ImplementsLog == ASSUME ~LossyOrderer PROVE Spec => LogSpec
<1>1. Init => ChainInv
  BY ChainInvInit
<1>2. ChainInv /\ [Next]_vars => ChainInv'
  BY ChainInvNext
<1>3. ChainInv /\ [Next]_vars => [Log!Next]_<<ledger, nextId>>
  BY LogStep
<1> QED
  BY <1>1, <1>2, <1>3, LogInit, PTL DEF Spec, LogSpec, Log!Spec

=============================================================================
