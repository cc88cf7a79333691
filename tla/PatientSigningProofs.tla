----------------------- MODULE PatientSigningProofs -----------------------
(***************************************************************************)
(* What holds while every user waits for the answer to one request before  *)
(* starting another, for every number of users, documents, files and       *)
(* request threads, with an orderer that loses transactions as well as     *)
(* with one that does not.                                                 *)
(***************************************************************************)
EXTENDS SignatureHistoryProofs, FiniteSetTheorems

----------------------------------------------------------------------------
(* The inductive invariant: the copy of a document that a request works on  *)
(* is the row, because only one user at a time can change a document.       *)

\* Whose request may change the row: the one whose turn it is, and after the last
\* signature the one who signed last.
Owner(doc) == IF CurrentSigner(doc) # NoUser THEN CurrentSigner(doc)
                                             ELSE doc.signers[doc.nextsigner - 1]

\* The request holds the row as it is, and its user owns the document.
RequestHoldsRow(r, docs) ==
  /\ docs[r.doc] = r.row /\ r.row.state = "PENDING" /\ Owner(r.row) = r.user
  /\ r.step \in Starting => r.row.signedhash = <<>>
  /\ r.step \in Signing => r.row.signedhash # <<>>
  /\ r.step \in Starting \cup Signing => CurrentSigner(r.row) # NoUser
  /\ r.step \in Ending => CurrentSigner(r.row) = NoUser

\* A form offers the signature of the row to the one whose turn it is.
FormIsCurrent(u, form, docs) ==
  form.dochash # <<>> =>
    /\ docs[form.doc].signedhash = form.dochash
    /\ CurrentSigner(docs[form.doc]) = u

DoneOrAbsent(doc) ==
  /\ doc.state = "FINALIZED" => CurrentSigner(doc) = NoUser
  /\ doc.state = "ABSENT" => doc = Absent

PatientInv ==
  /\ TypeInv
  /\ \A d \in Docs : DoneOrAbsent(documents[d])
  /\ \A t \in Threads : request[t].step # "idle" =>
       /\ RequestHoldsRow(request[t], documents)
       /\ forms[request[t].user] = {}
       /\ \A s \in Threads : request[s].step # "idle" /\ request[s].user = request[t].user =>
            s = t
  /\ \A u \in Users : \A form \in forms[u] : FormIsCurrent(u, form, documents)

LEMMA PatientInvInit == Init => PatientInv
<1> SUFFICES ASSUME Init PROVE PatientInv
  OBVIOUS
<1>1. TypeInv
  BY TypeInvInit
<1>2. \A d \in Docs : DoneOrAbsent(documents[d])
  BY DEF Init, Absent, DoneOrAbsent
<1> QED
  BY <1>1, <1>2 DEF Init, PatientInv, NoRequest

\* No two requests work on the same document: they would be of the same user.
LEMMA OneRequestPerDocument ==
  ASSUME PatientInv, NEW s \in Threads, NEW t \in Threads,
         request[s].step # "idle", request[t].step # "idle", request[s].doc = request[t].doc
  PROVE  s = t
BY DEF PatientInv, RequestHoldsRow

\* A step that changes no row.
LEMMA NoSavePatient ==
  ASSUME PatientInv, TypeInv', UNCHANGED documents,
         \A t \in Threads : request'[t].step # "idle" =>
           /\ RequestHoldsRow(request'[t], documents)
           /\ forms'[request'[t].user] = {}
           /\ \A s \in Threads : request'[s].step # "idle" /\ request'[s].user = request'[t].user =>
                s = t,
         \A u \in Users : \A form \in forms'[u] :
           form \in forms[u] \/ FormIsCurrent(u, form, documents)
  PROVE  PatientInv'
BY DEF PatientInv

LEMMA LoadIndexPatient ==
  ASSUME Patient, PatientInv, TypeInv', NEW u \in Users, LoadIndex(u)
  PROVE  PatientInv'
<1>1. UNCHANGED <<documents, request>> /\ forms' = [forms EXCEPT ![u] = PendentForms(u)]
  BY DEF LoadIndex, rows
<1>2. \A x \in Users : forms'[x] = IF x = u THEN PendentForms(u) ELSE forms[x]
  BY <1>1 DEF PatientInv, TypeInv, TypeOK
<1>3. ASSUME NEW t \in Threads, request[t].step # "idle"
      PROVE  forms'[request[t].user] = {}
  <2>1. request[t].user \in Users /\ request[t].user # u
    BY <1>3, BusyHasRequest DEF PatientInv, Request, LoadIndex, MayAct, Idle
  <2> QED
    BY <1>2, <1>3, <2>1 DEF PatientInv
<1>4. \A form \in PendentForms(u) : FormIsCurrent(u, form, documents)
  BY DEF PendentForms, FormIsCurrent
<1> QED
  BY <1>1, <1>2, <1>3, <1>4, NoSavePatient DEF PatientInv

\* A patient user who starts a request has no other, and leaves the page.
LEMMA BeginPatient ==
  ASSUME Patient, PatientInv, NEW t \in Threads, NEW u \in Users, MayAct(u), Leave(u),
         request[t].step = "idle", NEW step \in Steps, NEW d, NEW doc, NEW signature,
         Begin(t, step, u, d, doc, signature)
  PROVE  /\ request'[t] = [step |-> step, doc |-> d, user |-> u, signature |-> signature,
                           row |-> doc, table |-> EmptyTable]
         /\ \A x \in Threads : x # t => request'[x] = request[x]
         /\ \A x \in Threads : request'[x].step # "idle" =>
              /\ forms'[request'[x].user] = {}
              /\ \A s \in Threads :
                   request'[s].step # "idle" /\ request'[s].user = request'[x].user => s = x
<1> DEFINE r == [step |-> step, doc |-> d, user |-> u, signature |-> signature,
                 row |-> doc, table |-> EmptyTable]
<1>1. request' = [request EXCEPT ![t] = r] /\ r.user = u
  BY DEF Begin
<1> HIDE DEF r
<1>2. request'[t] = r /\ \A x \in Threads : x # t => request'[x] = request[x]
  BY <1>1 DEF PatientInv, TypeInv, TypeOK
<1>3. \A x \in Threads : request[x].step # "idle" => request[x].user \in Users \ {u}
  BY BusyHasRequest DEF PatientInv, Request, MayAct, Idle
<1>4. \A x \in Users : forms'[x] = IF x = u THEN {} ELSE forms[x]
  BY DEF Leave, PatientInv, TypeInv, TypeOK
<1>5. \A x \in Threads : request'[x].step # "idle" => forms'[request'[x].user] = {}
  BY <1>1, <1>2, <1>3, <1>4 DEF PatientInv
<1>6. \A x \in Threads : request'[x].step # "idle" =>
        \A s \in Threads :
          request'[s].step # "idle" /\ request'[s].user = request'[x].user => s = x
  BY <1>1, <1>2, <1>3 DEF PatientInv
<1> QED
  BY <1>2, <1>5, <1>6 DEF r

\* A page that is left offers nothing.
LEMMA LeavePatient ==
  ASSUME PatientInv, NEW u \in Users, Leave(u)
  PROVE  /\ \A x \in Users : \A form \in forms'[x] : form \in forms[x]
         /\ \A x \in Users : forms[x] = {} => forms'[x] = {}
BY DEF Leave, PatientInv, TypeInv, TypeOK

LEMMA NewSignaturePatient ==
  ASSUME Patient, PatientInv, TypeInv', NEW t \in Threads, NEW u \in Users, NEW d \in Docs,
         NewSignature(t, u, d)
  PROVE  PatientInv'
<1>1. documents[d] = Absent /\ request[t].step = "idle"
  BY DEF NewSignature, PatientInv, DoneOrAbsent, Idle
<1>2. PICK h, signers :
        /\ documents' = [documents EXCEPT ![d] = NewDocument(h, signers)]
        /\ signers \in Seq(Users \cup {NoUser}) /\ 1 \in DOMAIN signers /\ signers[1] = u
        /\ \/ UNCHANGED request
           \/ Begin(t, "start_lookup", u, d, NewDocument(h, signers), PlatformSignature)
  <2>1. ASSUME NEW others \in SignersChoices
        PROVE  LET signers == <<u>> \o others
               IN  /\ signers \in Seq(Users \cup {NoUser})
                   /\ 1 \in DOMAIN signers /\ signers[1] = u
    <3>1. others \in Seq(Users \cup {NoUser})
      BY SignersAreListed
    <3> QED
      BY <3>1
  <2>2. <<u>> \in Seq(Users \cup {NoUser}) /\ 1 \in DOMAIN <<u>> /\ <<u>>[1] = u
    OBVIOUS
  <2> QED
    BY <2>1, <2>2 DEF NewSignature
<1> DEFINE doc == NewDocument(h, signers)
<1>3. /\ doc.state = "PENDING" /\ doc.signedhash = <<>>
      /\ CurrentSigner(doc) = u /\ CurrentSigner(doc) # NoUser /\ Owner(doc) = u
  BY <1>2, IdentitiesDiffer DEF NewDocument, CurrentSigner, Owner
<1> HIDE DEF doc
<1>4. /\ documents'[d] = doc
      /\ \A x \in Docs : x # d => documents'[x] = documents[x]
  BY <1>2 DEF doc, PatientInv, TypeInv, TypeOK
<1>5. \A x \in Docs : DoneOrAbsent(documents'[x])
  BY <1>3, <1>4 DEF PatientInv, DoneOrAbsent
<1>6. ASSUME NEW x \in Threads, request[x].step # "idle"
      PROVE  RequestHoldsRow(request[x], documents')
  <2>1. request[x].doc \in Docs /\ RequestHoldsRow(request[x], documents)
    BY <1>6, BusyHasRequest DEF PatientInv, Request
  <2>2. request[x].doc # d
    BY <1>1, <2>1 DEF RequestHoldsRow, Absent
  <2> QED
    BY <1>4, <2>1, <2>2 DEF RequestHoldsRow
<1>7. /\ \A x \in Users : \A form \in forms'[x] : form \in forms[x]
      /\ \A x \in Users : forms[x] = {} => forms'[x] = {}
  BY LeavePatient DEF NewSignature
<1>8. ASSUME NEW x \in Users, NEW form \in forms'[x]
      PROVE  FormIsCurrent(x, form, documents')
  <2>1. form.doc \in Docs /\ FormIsCurrent(x, form, documents)
    BY <1>7 DEF PatientInv, TypeInv, TypeOK, Form
  <2>2. form.doc = d => form.dochash = <<>>
    BY <1>1, <2>1 DEF FormIsCurrent, Absent
  <2> QED
    BY <1>4, <2>1, <2>2 DEF FormIsCurrent
<1>9. CASE UNCHANGED request
  <2>1. ASSUME NEW x \in Threads, request[x].step # "idle"
        PROVE  forms'[request[x].user] = {}
    BY <1>7, <2>1, BusyHasRequest DEF PatientInv, Request
  <2> QED
    BY <1>5, <1>6, <1>8, <1>9, <2>1 DEF PatientInv
<1>10. CASE Begin(t, "start_lookup", u, d, doc, PlatformSignature)
  <2>1. /\ request'[t] = [step |-> "start_lookup", doc |-> d, user |-> u,
                          signature |-> PlatformSignature, row |-> doc, table |-> EmptyTable]
        /\ \A x \in Threads : x # t => request'[x] = request[x]
        /\ \A x \in Threads : request'[x].step # "idle" =>
             /\ forms'[request'[x].user] = {}
             /\ \A s \in Threads :
                  request'[s].step # "idle" /\ request'[s].user = request'[x].user => s = x
    BY <1>1, <1>10, BeginPatient DEF NewSignature, Steps
  <2>2. RequestHoldsRow(request'[t], documents')
    BY <1>3, <1>4, <2>1 DEF RequestHoldsRow, Starting, Signing, Ending
  <2> QED
    BY <1>5, <1>6, <1>8, <2>1, <2>2 DEF PatientInv
<1> QED
  BY <1>2, <1>9, <1>10 DEF doc

LEMMA SignDocumentPatient ==
  ASSUME Patient, PatientInv, TypeInv', NEW t \in Threads, NEW u \in Users,
         NEW form \in forms[u], SignDocument(t, u, form)
  PROVE  PatientInv'
<1>1. UNCHANGED documents /\ form.doc \in Docs /\ request[t].step = "idle"
  BY DEF SignDocument, rows, PatientInv, TypeInv, TypeOK, Form, Idle
<1>2. /\ \A x \in Users : \A f \in forms'[x] : f \in forms[x]
      /\ \A x \in Users : forms[x] = {} => forms'[x] = {}
  BY LeavePatient DEF SignDocument
<1>3. CASE UNCHANGED request
  <2>1. ASSUME NEW x \in Threads, request[x].step # "idle"
        PROVE  forms'[request[x].user] = {}
    BY <1>2, <2>1, BusyHasRequest DEF PatientInv, Request
  <2> QED
    BY <1>1, <1>2, <1>3, <2>1, NoSavePatient DEF PatientInv
<1>4. CASE /\ form.dochash # <<>> /\ documents[form.doc].signedhash = form.dochash
           /\ Begin(t, "sign_lookup", u, form.doc, documents[form.doc],
                    Append(form.dochash, u))
  <2> DEFINE doc == documents[form.doc]
  <2>1. /\ request'[t] = [step |-> "sign_lookup", doc |-> form.doc, user |-> u,
                          signature |-> Append(form.dochash, u), row |-> doc,
                          table |-> EmptyTable]
        /\ \A x \in Threads : x # t => request'[x] = request[x]
        /\ \A x \in Threads : request'[x].step # "idle" =>
             /\ forms'[request'[x].user] = {}
             /\ \A s \in Threads :
                  request'[s].step # "idle" /\ request'[s].user = request'[x].user => s = x
    BY <1>1, <1>4, BeginPatient DEF SignDocument, Steps
  <2>2. CurrentSigner(doc) = u /\ u # NoUser /\ doc.signedhash # <<>>
    BY <1>4, IdentitiesDiffer DEF PatientInv, FormIsCurrent
  <2>3. doc.state = "PENDING"
    BY <1>1, <2>2 DEF PatientInv, DoneOrAbsent, TypeInv, TypeOK, Document, Absent
  <2>4. RequestHoldsRow(request'[t], documents)
    BY <2>1, <2>2, <2>3 DEF RequestHoldsRow, Owner, Starting, Signing, Ending
  <2> QED
    BY <1>1, <1>2, <2>1, <2>4, NoSavePatient DEF PatientInv
<1> QED
  BY <1>3, <1>4 DEF SignDocument

\* A request that ends, or goes on with its copy of the row to the next step of its phase.
SamePhase(step, next) ==
  \/ step \in Starting /\ next \in Starting
  \/ step \in Signing /\ next \in Signing
  \/ step \in Ending /\ next \in Ending

LEMMA GoOnPatient ==
  ASSUME PatientInv, TypeInv', NEW t \in Threads, request[t].step # "idle",
         UNCHANGED <<documents, forms>>,
         \/ request'[t].step = "idle"
         \/ /\ SamePhase(request[t].step, request'[t].step)
            /\ request'[t].doc = request[t].doc /\ request'[t].user = request[t].user
            /\ request'[t].row = request[t].row,
         \A x \in Threads : x # t => request'[x] = request[x]
  PROVE  PatientInv'
<1>1. \A x \in Threads : request'[x].step # "idle" =>
        /\ request[x].step # "idle" /\ request'[x].user = request[x].user
        /\ RequestHoldsRow(request'[x], documents)
  <2> SUFFICES ASSUME NEW x \in Threads, request'[x].step # "idle"
               PROVE  /\ request[x].step # "idle" /\ request'[x].user = request[x].user
                      /\ RequestHoldsRow(request'[x], documents)
    OBVIOUS
  <2>1. CASE x # t
    BY <2>1 DEF PatientInv
  <2>2. CASE x = t
    <3>1. RequestHoldsRow(request[t], documents)
      BY DEF PatientInv
    <3> QED
      BY <2>2, <3>1 DEF RequestHoldsRow, SamePhase, Starting, Signing, Ending
  <2> QED
    BY <2>1, <2>2
<1> QED
  BY <1>1, NoSavePatient DEF PatientInv

LEMMA StepPatient ==
  ASSUME PatientInv, TypeInv', NEW t \in Threads,
         \/ LookupChaincode(t, "start_lookup", "start_send") \/ StartOp(t)
         \/ LookupChaincode(t, "sign_lookup", "sign_send") \/ SignOp(t) \/ EndOp(t)
         \/ RequestFails(t)
  PROVE  PatientInv'
<1>0. TypeInv
  BY DEF PatientInv
<1>1. request[t].step # "idle" /\ UNCHANGED <<documents, forms>>
  BY DEF LookupChaincode, StartOp, SignOp, EndOp, SendAndRecord, RequestFails, Idle, rows
<1>2. request[t] \in Request /\ request \in [Threads -> Request \cup {NoRequest}]
  BY <1>1, BusyHasRequest DEF PatientInv, TypeInv, TypeOK
<1>3. \A x \in Threads : x # t => request'[x] = request[x]
  BY <1>2 DEF LookupChaincode, StartOp, SignOp, EndOp, SendAndRecord, RequestFails, Finish
<1>4. \/ request'[t].step = "idle"
      \/ /\ SamePhase(request[t].step, request'[t].step)
         /\ request'[t].doc = request[t].doc /\ request'[t].user = request[t].user
         /\ request'[t].row = request[t].row
  <2>1. CASE Finish(t)
    BY <1>2, <2>1 DEF Finish, NoRequest
  <2>2. CASE LookupChaincode(t, "start_lookup", "start_send")
    BY <1>2, <2>2 DEF LookupChaincode, SamePhase, Starting, Request
  <2>6. CASE StartOp(t)
    <3>1. /\ request[t].step = "start_send"
          /\ request'[t].step = "start_save" /\ KeepsRow(t)
      BY <1>0, <2>6, StartOpStep
    <3> QED
      BY <3>1 DEF SamePhase, Starting, KeepsRow
  <2>3. CASE LookupChaincode(t, "sign_lookup", "sign_send")
    BY <1>2, <2>3 DEF LookupChaincode, SamePhase, Signing, Request
  <2>4. CASE SignOp(t)
    <3>1. /\ request[t].step = "sign_send"
          /\ request'[t].step = "idle" \/ (request'[t].step = "sign_save" /\ KeepsRow(t))
      BY <1>0, <2>4, SignOpStep
    <3> QED
      BY <3>1 DEF SamePhase, Signing, KeepsRow
  <2>5. CASE EndOp(t)
    <3>1. /\ request[t].step = "end_send"
          /\ request'[t].step = "idle" \/ (request'[t].step = "end_save" /\ KeepsRow(t))
      BY <1>0, <2>5, EndOpStep
    <3> QED
      BY <3>1 DEF SamePhase, Ending, KeepsRow
  <2> QED
    BY <2>1, <2>2, <2>3, <2>4, <2>5, <2>6 DEF RequestFails
<1> QED
  BY <1>1, <1>3, <1>4, GoOnPatient

\* What a save does while users are patient: it moves the row that the request holds, and
\* nobody else's form or request is about that document.
LEMMA SavePatient ==
  ASSUME PatientInv, TypeInv', NEW t \in Threads, request[t].step # "idle",
         NEW doc, Flush(t, doc), DoneOrAbsent(doc),
         request[t].row.signedhash = <<>> \/ CurrentSigner(request[t].row) = NoUser
           \/ CurrentSigner(request[t].row) = request[t].user,
         \/ Finish(t)
         \/ /\ request' = [request EXCEPT ![t].step = "end_send", ![t].row = doc]
            /\ doc.state = "PENDING" /\ Owner(doc) = request[t].user
            /\ CurrentSigner(doc) = NoUser
  PROVE  PatientInv'
<1> DEFINE r == request[t]
<1>1. r \in Request /\ r.doc \in Docs /\ r.user \in Users /\ RequestHoldsRow(r, documents)
  BY BusyHasRequest DEF PatientInv, Request
<1>2. /\ documents'[r.doc] = doc /\ UNCHANGED forms
      /\ \A d \in Docs : d # r.doc => documents'[d] = documents[d]
  BY <1>1 DEF Flush, PatientInv, TypeInv, TypeOK
<1>3. \A d \in Docs : DoneOrAbsent(documents'[d])
  BY <1>1, <1>2 DEF PatientInv
<1>4. ASSUME NEW u \in Users, NEW form \in forms'[u]
      PROVE  FormIsCurrent(u, form, documents')
  <2>1. form.doc \in Docs /\ form \in forms[u] /\ FormIsCurrent(u, form, documents)
    BY <1>2 DEF PatientInv, TypeInv, TypeOK, Form
  <2>2. CASE form.doc # r.doc
    BY <1>2, <2>1, <2>2 DEF FormIsCurrent
  <2>3. CASE form.doc = r.doc
    <3>1. ASSUME form.dochash # <<>> PROVE FALSE
      <4>1. r.row.signedhash # <<>> /\ CurrentSigner(r.row) = u
        BY <1>1, <2>1, <2>3, <3>1 DEF FormIsCurrent, RequestHoldsRow
      <4>2. u # NoUser
        BY IdentitiesDiffer
      <4>3. u = r.user
        BY <4>1, <4>2
      <4> QED
        BY <2>1, <4>3 DEF PatientInv
    <3> QED
      BY <3>1 DEF FormIsCurrent
  <2> QED
    BY <2>2, <2>3
<1>5. ASSUME NEW x \in Threads, request'[x].step # "idle"
      PROVE  /\ request[x].step # "idle" /\ request'[x].user = request[x].user
             /\ RequestHoldsRow(request'[x], documents')
  <2>1. request \in [Threads -> Request \cup {NoRequest}]
    BY DEF PatientInv, TypeInv, TypeOK
  <2>2. CASE x # t
    <3>1. request'[x] = request[x]
      BY <2>1, <2>2 DEF Finish
    <3>0. TypeInv /\ request[x].step # "idle"
      BY <1>5, <3>1 DEF PatientInv
    <3>5. request[x].doc \in Docs
      BY <3>0, BusyHasRequest DEF Request
    <3>2. request[x].doc \in Docs /\ request[x].doc # r.doc
      BY <2>2, <3>0, <3>5, OneRequestPerDocument
    <3>3. request[x].step # "idle" /\ RequestHoldsRow(request[x], documents)
      BY <1>5, <3>1 DEF PatientInv
    <3>4. documents'[request[x].doc] = documents[request[x].doc]
      BY <1>2, <3>2
    <3> QED
      BY <3>1, <3>3, <3>4 DEF RequestHoldsRow
  <2>3. CASE x = t
    <3>1. /\ request' = [request EXCEPT ![t].step = "end_send", ![t].row = doc]
          /\ doc.state = "PENDING" /\ Owner(doc) = request[t].user
          /\ CurrentSigner(doc) = NoUser
      BY <1>5, <2>1, <2>3 DEF Finish, NoRequest
    <3>2. /\ request'[t].step = "end_send" /\ request'[t].row = doc
          /\ request'[t].doc = r.doc /\ request'[t].user = r.user
      BY <1>1, <2>1, <3>1 DEF Request
    <3>3. RequestHoldsRow(request'[t], documents')
      BY <1>2, <3>1, <3>2 DEF RequestHoldsRow, Starting, Signing, Ending
    <3> QED
      BY <2>3, <3>2, <3>3
  <2> QED
    BY <2>2, <2>3
<1> QED
  BY <1>2, <1>3, <1>4, <1>5 DEF PatientInv

\* The three rows that a request may save, and what each does to the copy it held.
LEMMA SavedRows ==
  ASSUME PatientInv, NEW t \in Threads
  PROVE  LET r == request[t]
             start == [r.row EXCEPT !.signedhash = PlatformSignature]
             signed == SignedBy(r.row, r.signature)
             end == [r.row EXCEPT !.signedhash = PlatformSignature, !.state = "FINALIZED"]
         IN  /\ r.step = "start_save" =>
                  /\ DoneOrAbsent(start) /\ start.nextsigner = r.row.nextsigner
                  /\ CurrentSigner(start) = CurrentSigner(r.row)
                  /\ start.hash = r.row.hash /\ start.state = "PENDING"
             /\ r.step = "sign_save" =>
                  /\ DoneOrAbsent(signed) /\ signed.nextsigner = r.row.nextsigner + 1
                  /\ signed.state = "PENDING" /\ signed.hash = r.row.hash
                  /\ CurrentSigner(r.row) = r.user
                  /\ CurrentSigner(signed) = NoUser => Owner(signed) = r.user
             /\ r.step = "end_save" =>
                  /\ DoneOrAbsent(end) /\ end.nextsigner = r.row.nextsigner
                  /\ CurrentSigner(end) = NoUser /\ end.hash = r.row.hash
                  /\ end.state = "FINALIZED"
<1> DEFINE r == request[t]
           start == [r.row EXCEPT !.signedhash = PlatformSignature]
           signed == SignedBy(r.row, r.signature)
           end == [r.row EXCEPT !.signedhash = PlatformSignature, !.state = "FINALIZED"]
<1>1. ASSUME r.step # "idle"
      PROVE  r.row \in Document /\ r.row.state = "PENDING" /\ RequestHoldsRow(r, documents)
  BY <1>1, BusyHasRequest DEF PatientInv, Request, RequestHoldsRow
<1>2. ASSUME r.step = "start_save"
      PROVE  /\ DoneOrAbsent(start) /\ start.nextsigner = r.row.nextsigner
             /\ CurrentSigner(start) = CurrentSigner(r.row)
             /\ start.hash = r.row.hash /\ start.state = "PENDING"
  BY <1>1, <1>2 DEF Document, DoneOrAbsent, CurrentSigner
<1>3. ASSUME r.step = "sign_save"
      PROVE  /\ DoneOrAbsent(signed) /\ signed.nextsigner = r.row.nextsigner + 1
             /\ signed.state = "PENDING" /\ signed.hash = r.row.hash
             /\ CurrentSigner(r.row) = r.user
             /\ CurrentSigner(signed) = NoUser => Owner(signed) = r.user
  <2>1. /\ signed.nextsigner = r.row.nextsigner + 1 /\ signed.state = "PENDING"
        /\ signed.signers = r.row.signers /\ signed.hash = r.row.hash
        /\ r.row.nextsigner \in Nat
    BY <1>1, <1>3 DEF Document, SignedBy
  <2> HIDE DEF signed
  <2>2. CurrentSigner(r.row) = r.user /\ CurrentSigner(r.row) # NoUser
    BY <1>1, <1>3 DEF RequestHoldsRow, Owner, Signing
  <2>3. r.row.signers[r.row.nextsigner] = r.user
    BY <2>2 DEF CurrentSigner
  <2>4. signed.nextsigner - 1 = r.row.nextsigner
    BY <2>1
  <2> QED
    BY <2>1, <2>2, <2>3, <2>4 DEF DoneOrAbsent, Owner
<1>4. ASSUME r.step = "end_save"
      PROVE  /\ DoneOrAbsent(end) /\ end.nextsigner = r.row.nextsigner
             /\ CurrentSigner(end) = NoUser /\ end.hash = r.row.hash
             /\ end.state = "FINALIZED"
  <2>1. /\ end.nextsigner = r.row.nextsigner /\ end.signers = r.row.signers
        /\ end.state = "FINALIZED" /\ end.hash = r.row.hash
    BY <1>1, <1>4 DEF Document
  <2>2. CurrentSigner(r.row) = NoUser
    BY <1>1, <1>4 DEF RequestHoldsRow, Ending
  <2> QED
    BY <2>1, <2>2 DEF DoneOrAbsent, CurrentSigner
<1> QED
  BY <1>2, <1>3, <1>4

LEMMA SavesPatient ==
  ASSUME PatientInv, TypeInv', NEW t \in Threads,
         SaveStart(t) \/ SaveSignature(t) \/ SaveEnd(t)
  PROVE  PatientInv'
<1> DEFINE r == request[t]
<1>1. r.step # "idle" /\ RequestHoldsRow(r, documents)
  BY DEF SaveStart, SaveSignature, SaveEnd, PatientInv
<1>2. CASE SaveStart(t)
  <2> DEFINE doc == [r.row EXCEPT !.signedhash = PlatformSignature]
  <2>1. r.step = "start_save" /\ Flush(t, doc) /\ Finish(t)
    BY <1>2 DEF SaveStart
  <2>2. DoneOrAbsent(doc) /\ r.row.signedhash = <<>>
    BY <1>1, <2>1, SavedRows DEF RequestHoldsRow, Starting
  <2> HIDE DEF doc
  <2> QED
    BY <1>1, <2>1, <2>2, SavePatient
<1>3. CASE SaveSignature(t)
  <2> DEFINE doc == SignedBy(r.row, r.signature)
  <2>1. /\ r.step = "sign_save" /\ Flush(t, doc)
        /\ \/ Finish(t)
           \/ /\ CurrentSigner(doc) = NoUser
              /\ request' = [request EXCEPT ![t].step = "end_send", ![t].row = doc]
    BY <1>3 DEF SaveSignature
  <2>2. /\ DoneOrAbsent(doc) /\ doc.state = "PENDING" /\ CurrentSigner(r.row) = r.user
        /\ CurrentSigner(doc) = NoUser => Owner(doc) = r.user
    BY <2>1, SavedRows
  <2> HIDE DEF doc
  <2> QED
    BY <1>1, <2>1, <2>2, SavePatient
<1>4. CASE SaveEnd(t)
  <2> DEFINE doc == [r.row EXCEPT !.signedhash = PlatformSignature, !.state = "FINALIZED"]
  <2>1. r.step = "end_save" /\ Flush(t, doc) /\ Finish(t)
    BY <1>4 DEF SaveEnd
  <2>2. DoneOrAbsent(doc) /\ CurrentSigner(r.row) = NoUser
    BY <1>1, <2>1, SavedRows DEF RequestHoldsRow, Ending
  <2> HIDE DEF doc
  <2> QED
    BY <1>1, <2>1, <2>2, SavePatient
<1> QED
  BY <1>2, <1>3, <1>4

LEMMA PatientInvNext ==
  ASSUME Patient, PatientInv, [Next]_vars
  PROVE  PatientInv'
<1>1. TypeInv'
  BY TypeInvNext DEF PatientInv
<1>2. CASE \E u \in Users : LoadIndex(u)
  BY <1>1, <1>2, LoadIndexPatient
<1>3. CASE \E t \in Threads, u \in Users, d \in Docs : NewSignature(t, u, d)
  BY <1>1, <1>3, NewSignaturePatient
<1>4. CASE \E t \in Threads, u \in Users : \E form \in forms[u] : SignDocument(t, u, form)
  BY <1>1, <1>4, SignDocumentPatient
<1>5. CASE \E t \in Threads : Proceed(t)
  BY <1>1, <1>5, StepPatient, SavesPatient DEF Proceed
<1>6. CASE \E t \in Threads : RequestFails(t)
  BY <1>1, <1>6, StepPatient
<1>7. CASE UNCHANGED vars
  BY <1>1, <1>7 DEF vars, PatientInv
<1> QED
  BY <1>2, <1>3, <1>4, <1>5, <1>6, <1>7 DEF Next


----------------------------------------------------------------------------
(* Documents only advance. *)

\* What a step does to one row: nothing, the upload, or the save of the request that holds
\* the row.
Uploaded(d) ==
  /\ documents[d] = Absent
  /\ documents'[d].state = "PENDING" /\ documents'[d].nextsigner = 1
  /\ UNCHANGED <<idTable, ledger>>

SavedBy(t, d) ==
  /\ request[t].doc = d /\ documents[d] = request[t].row
  /\ documents[d].state = "PENDING" /\ documents'[d].hash = documents[d].hash
  /\ SaveStart(t) \/ SaveSignature(t) \/ SaveEnd(t)
  /\ SaveStart(t) \/ SaveSignature(t) =>
       CurrentSigner(documents[d]) # NoUser /\ documents'[d].state = "PENDING"
  /\ SaveEnd(t) => CurrentSigner(documents'[d]) = NoUser /\ documents'[d].state = "FINALIZED"
  /\ documents'[d].nextsigner \in {documents[d].nextsigner, documents[d].nextsigner + 1}

LEMMA RowStep ==
  ASSUME PatientInv, [Next]_vars, NEW d \in Docs
  PROVE  \/ documents'[d] = documents[d]
         \/ Uploaded(d)
         \/ \E t \in Threads : SavedBy(t, d)
<1>1. documents \in [Docs -> Document]
  BY DEF PatientInv, TypeInv, TypeOK
<1>2. ASSUME NEW t \in Threads, NEW u \in Users, NEW e \in Docs, NewSignature(t, u, e)
      PROVE  documents'[d] = documents[d] \/ Uploaded(d)
  <2>1. PICK h, signers : documents' = [documents EXCEPT ![e] = NewDocument(h, signers)]
    BY <1>2 DEF NewSignature
  <2>2. d # e => documents'[d] = documents[d]
    BY <1>1, <2>1
  <2>3. documents'[e].state = "PENDING" /\ documents'[e].nextsigner = 1
    BY <1>1, <2>1 DEF NewDocument
  <2>4. documents[e] = Absent /\ UNCHANGED <<idTable, ledger>>
    BY <1>2 DEF NewSignature, PatientInv, DoneOrAbsent, chain
  <2> QED
    BY <2>2, <2>3, <2>4 DEF Uploaded
<1>3. ASSUME NEW t \in Threads, SaveStart(t) \/ SaveSignature(t) \/ SaveEnd(t)
      PROVE  documents'[d] = documents[d] \/ SavedBy(t, d)
  <2> DEFINE r == request[t]
  <2>1. PICK doc : Flush(t, doc)
    BY <1>3 DEF SaveStart, SaveSignature, SaveEnd
  <2>2. r \in Request /\ RequestHoldsRow(r, documents)
    BY <1>3, BusyHasRequest DEF SaveStart, SaveSignature, SaveEnd, PatientInv
  <2>3. r.doc # d => documents'[d] = documents[d]
    BY <1>1, <2>1 DEF Flush
  <2>4. ASSUME r.doc = d PROVE SavedBy(t, d)
    <3>1. documents[d] = r.row /\ documents[d].state = "PENDING"
      BY <2>2, <2>4 DEF RequestHoldsRow
    <3>2. CASE SaveStart(t)
      <4> DEFINE new == [r.row EXCEPT !.signedhash = PlatformSignature]
      <4>1. documents'[d] = new /\ r.step = "start_save"
        BY <1>1, <2>4, <3>2 DEF SaveStart, Flush
      <4>2. CurrentSigner(r.row) # NoUser
        BY <2>2, <4>1 DEF RequestHoldsRow, Starting
      <4>3. new.hash = r.row.hash /\ new.state = "PENDING" /\ new.nextsigner = r.row.nextsigner
        BY <4>1, SavedRows
      <4> HIDE DEF new
      <4> QED
        BY <2>4, <3>1, <3>2, <4>1, <4>2, <4>3 DEF SavedBy, SaveEnd
    <3>3. CASE SaveSignature(t)
      <4> DEFINE new == SignedBy(r.row, r.signature)
      <4>1. documents'[d] = new /\ r.step = "sign_save"
        BY <1>1, <2>4, <3>3 DEF SaveSignature, Flush
      <4>2. CurrentSigner(r.row) # NoUser
        BY <2>2, <4>1 DEF RequestHoldsRow, Signing
      <4>3. /\ new.hash = r.row.hash /\ new.state = "PENDING"
            /\ new.nextsigner = r.row.nextsigner + 1
        BY <4>1, SavedRows
      <4> HIDE DEF new
      <4> QED
        BY <2>4, <3>1, <3>3, <4>1, <4>2, <4>3 DEF SavedBy, SaveEnd
    <3>4. CASE SaveEnd(t)
      <4> DEFINE new == [r.row EXCEPT !.signedhash = PlatformSignature, !.state = "FINALIZED"]
      <4>1. documents'[d] = new /\ r.step = "end_save"
        BY <1>1, <2>4, <3>4 DEF SaveEnd, Flush
      <4>2. /\ new.hash = r.row.hash /\ new.state = "FINALIZED"
            /\ new.nextsigner = r.row.nextsigner /\ CurrentSigner(new) = NoUser
        BY <4>1, SavedRows
      <4> HIDE DEF new
      <4> QED
        BY <2>4, <3>1, <3>4, <4>1, <4>2 DEF SavedBy, SaveStart, SaveSignature
    <3> QED
      BY <1>3, <3>2, <3>3, <3>4
  <2> QED
    BY <2>3, <2>4
<1>4. CASE UNCHANGED documents
  BY <1>4
<1> QED
  BY <1>2, <1>3, <1>4 DEF Next, vars, Proceed, LoadIndex, SignDocument, LookupChaincode,
     StartOp, SignOp, EndOp, SendAndRecord, RequestFails, rows

\* A document that is done, and its hash, stay.
LEMMA RowsStay ==
  ASSUME PatientInv, [Next]_vars, NEW d \in Docs
  PROVE  /\ documents'[d].nextsigner >= documents[d].nextsigner
         /\ documents[d].state = "FINALIZED" => documents'[d] = documents[d]
         /\ documents[d].state # "ABSENT" =>
              documents'[d].hash = documents[d].hash /\ documents'[d].state # "ABSENT"
         /\ documents[d].state # "ABSENT" /\ CurrentSigner(documents[d]) = NoUser =>
              CurrentSigner(documents'[d]) = NoUser
<1>1. documents[d] \in Document
  BY DEF PatientInv, TypeInv, TypeOK
<1>2. documents[d].nextsigner \in Nat
  BY <1>1 DEF Document
<1>3. CASE documents'[d] = documents[d]
  BY <1>2, <1>3
<1>4. CASE Uploaded(d)
  BY <1>4 DEF Uploaded, Absent
<1>5. CASE \E t \in Threads : SavedBy(t, d)
  BY <1>2, <1>5 DEF SavedBy
<1> QED
  BY <1>3, <1>4, <1>5, RowStep

\* While users wait for answers, no save takes a document back, and a finalized document
\* is never touched again, although no save looks at what the row has become.
THEOREM OnlyAdvance == ASSUME Patient PROVE Spec => DocumentsOnlyAdvance
<1>1. PatientInv /\ [Next]_vars => PatientInv'
  BY PatientInvNext
<1>2. PatientInv /\ [Next]_vars =>
        [ \A d \in Docs :
            /\ documents'[d].nextsigner >= documents[d].nextsigner
            /\ documents[d].state = "FINALIZED" => documents'[d] = documents[d] ]_vars
  BY RowsStay
<1> QED
  BY <1>1, <1>2, PatientInvInit, PTL DEF Spec, DocumentsOnlyAdvance

\* finalizeDocument ends the cycle, as it says, as long as users wait for answers: it takes
\* two requests of one user at a time to reopen a document.
THEOREM FinalizedStays == ASSUME Patient PROVE Spec => FinalizedIsFinal
<1>1. PatientInv /\ [Next]_vars => PatientInv'
  BY PatientInvNext
<1>2. PatientInv /\ [Next]_vars =>
        [ \A d \in Docs : documents[d].state = "FINALIZED" =>
            documents'[d] = documents[d] ]_vars
  BY RowsStay
<1> QED
  BY <1>1, <1>2, PatientInvInit, PTL DEF Spec, FinalizedIsFinal

----------------------------------------------------------------------------
(* One op_end for a document: it is sent by the one request that recorded   *)
(* the last signature, while that request is the only one on the document.  *)

\* The document has all its signatures and no request is about to send its op_end.
Closed(d) ==
  /\ documents[d].state # "ABSENT" /\ CurrentSigner(documents[d]) = NoUser
  /\ \A t \in Threads : ~(request[t].step = "end_send" /\ request[t].doc = d)

ClosedDocs(h) == { d \in WithHash(h) : Closed(d) }
Ends(h) == { i \in DOMAIN ledger : ledger[i].hash = h /\ ledger[i].op = "op_end" }

EndsInv ==
  /\ PatientInv
  /\ \A h \in Hashes : Cardinality(Ends(h)) <= Cardinality(ClosedDocs(h))

LEMMA SetsAreFinite ==
  ASSUME IsFiniteSet(Docs), TypeOK, NEW h
  PROVE  IsFiniteSet(Ends(h)) /\ IsFiniteSet(ClosedDocs(h)) /\ IsFiniteSet(WithHash(h))
<1>1. IsFiniteSet(DOMAIN ledger)
  <2>1. DOMAIN ledger = 1..Len(ledger) /\ Len(ledger) \in Nat
    BY DEF TypeOK
  <2> QED
    BY <2>1, FS_Interval
<1>2. Ends(h) \subseteq DOMAIN ledger /\ ClosedDocs(h) \subseteq Docs /\ WithHash(h) \subseteq Docs
  BY DEF Ends, ClosedDocs, WithHash
<1> QED
  BY <1>1, <1>2, FS_Subset

\* A closed document stays closed: only a request that holds a document whose signer is
\* still to sign can come to send its op_end.
LEMMA ClosedStays ==
  ASSUME PatientInv, [Next]_vars, NEW d \in Docs, Closed(d)
  PROVE  Closed(d)' /\ documents'[d].hash = documents[d].hash
<1>1. /\ documents'[d].hash = documents[d].hash /\ documents'[d].state # "ABSENT"
      /\ CurrentSigner(documents'[d]) = NoUser
  BY RowsStay DEF Closed
<1>2. ASSUME NEW t \in Threads, request'[t].step = "end_send", request'[t].doc = d
      PROVE  FALSE
  <2>1. request \in [Threads -> Request \cup {NoRequest}]
    BY DEF PatientInv, TypeInv, TypeOK
  <2>2. request'[t] # request[t]
    BY <1>2 DEF Closed
  <2>3. \A x \in Threads : Finish(x) => request'[t] = request[t] \/ request'[t] = NoRequest
    BY <2>1 DEF Finish
  <2>4. request'[t] # NoRequest
    BY <1>2 DEF NoRequest
  <2>5. CASE UNCHANGED request
    BY <2>2, <2>5
  <2>6. CASE \E x \in Threads : Finish(x)
    BY <2>2, <2>3, <2>4, <2>6
  <2>7. ASSUME NEW x \in Threads, NEW step \in {"start_lookup", "sign_lookup"}, NEW u, NEW e,
               NEW doc, NEW signature, Begin(x, step, u, e, doc, signature)
        PROVE  FALSE
    <3> DEFINE r == [step |-> step, doc |-> e, user |-> u, signature |-> signature,
                     row |-> doc, table |-> EmptyTable]
    <3>1. request' = [request EXCEPT ![x] = r] /\ r.step = step
      BY <2>7 DEF Begin
    <3> HIDE DEF r
    <3> QED
      BY <1>2, <2>1, <2>2, <3>1
  <2>8. ASSUME NEW x \in Threads, SaveSignature(x), ~Finish(x)
        PROVE  FALSE
    <3> DEFINE doc == SignedBy(request[x].row, request[x].signature)
    <3>1. /\ request[x].step = "sign_save"
          /\ request' = [request EXCEPT ![x].step = "end_send", ![x].row = doc]
      BY <2>8 DEF SaveSignature
    <3>2. request[x] \in Request /\ RequestHoldsRow(request[x], documents)
      BY <3>1, BusyHasRequest DEF PatientInv
    <3> HIDE DEF doc
    <3>3. x = t /\ request[t].doc = d
      BY <1>2, <2>1, <2>2, <3>1, <3>2 DEF Request
    <3> QED
      BY <3>1, <3>2, <3>3 DEF RequestHoldsRow, Signing, Closed
  <2>9. ASSUME NEW x \in Threads, NEW step \in Steps,
               NEW next \in {"start_send", "sign_send"}, LookupChaincode(x, step, next)
        PROVE  FALSE
    <3>1. request[x] \in Request
      BY <2>9, BusyHasRequest DEF LookupChaincode, Steps, PatientInv
    <3> QED
      BY <1>2, <2>1, <2>2, <2>9, <3>1 DEF LookupChaincode, Request
  <2>10. ASSUME NEW x \in Threads, StartOp(x) PROVE FALSE
    <3>1. TypeInv
      BY DEF PatientInv
    <3>2. /\ \A y \in Threads : y # x => request'[y] = request[y]
          /\ request'[x].step = "start_save"
      BY <2>10, <3>1, StartOpStep
    <3> QED
      BY <1>2, <2>2, <3>2
  <2>11. ASSUME NEW x \in Threads, SignOp(x) \/ EndOp(x) PROVE FALSE
    <3>1. TypeInv
      BY DEF PatientInv
    <3>2. /\ \A y \in Threads : y # x => request'[y] = request[y]
          /\ request'[x].step \in {"idle", "sign_save", "end_save"}
      <4>1. CASE SignOp(x)
        BY <3>1, <4>1, SignOpStep
      <4>2. CASE EndOp(x)
        BY <3>1, <4>2, EndOpStep
      <4> QED
        BY <2>11, <4>1, <4>2
    <3> QED
      BY <1>2, <2>2, <3>2
  <2>12. CASE \E u \in Users : LoadIndex(u)
    BY <2>5, <2>12 DEF LoadIndex
  <2>13. CASE \E x \in Threads, u \in Users, e \in Docs : NewSignature(x, u, e)
    BY <2>5, <2>7, <2>13 DEF NewSignature
  <2>14. CASE \E x \in Threads, u \in Users : \E form \in forms[u] : SignDocument(x, u, form)
    BY <2>5, <2>7, <2>14 DEF SignDocument
  <2>15. CASE \E x \in Threads : Proceed(x)
    BY <2>6, <2>8, <2>9, <2>10, <2>11, <2>15 DEF Proceed, SaveStart, SaveEnd, Steps
  <2>16. CASE \E x \in Threads : RequestFails(x)
    BY <2>6, <2>16 DEF RequestFails
  <2>17. CASE UNCHANGED vars
    BY <2>5, <2>17 DEF vars
  <2> QED
    BY <2>12, <2>13, <2>14, <2>15, <2>16, <2>17 DEF Next
<1> QED
  BY <1>1, <1>2 DEF Closed


\* What a step appends to the ledger: only EndOp sends an op_end.
LEMMA LedgerStep ==
  ASSUME TypeInv, [Next]_vars, NEW i \in DOMAIN ledger'
  PROVE  \/ i \in DOMAIN ledger /\ ledger'[i] = ledger[i]
         \/ /\ i = Len(ledger) + 1 /\ ledger'[i].id = nextId
            /\ \/ /\ ledger'[i].op = "op_start" /\ ledger'[i].signer = Platform
                  /\ \E t \in Threads : StartOp(t) /\ ledger'[i].hash = request[t].row.hash
               \/ /\ ledger'[i].op = "op_sign" /\ ledger'[i].signer \in Users
                  /\ \E t \in Threads : SignOp(t) /\ ledger'[i].hash = request[t].row.hash
               \/ /\ ledger'[i].op = "op_end" /\ ledger'[i].signer = Platform
                  /\ \E t \in Threads : EndOp(t) /\ ledger'[i].hash = request[t].row.hash
<1>1. ledger \in Seq(Transaction)
  BY DEF TypeInv, TypeOK
<1>2. ASSUME NEW op, NEW signer, NEW h, NEW signature, Send(op, signer, h, signature)
      PROVE  \/ i \in DOMAIN ledger /\ ledger'[i] = ledger[i]
             \/ /\ i = Len(ledger) + 1
                /\ ledger'[i] = [id |-> nextId, op |-> op, signer |-> signer,
                                 hash |-> h, signature |-> signature]
  <2> DEFINE tx == [id |-> nextId, op |-> op, signer |-> signer,
                    hash |-> h, signature |-> signature]
  <2>1. CASE ledger' = Append(ledger, tx)
    <3> HIDE DEF tx
    <3>1. /\ DOMAIN ledger' = 1..(Len(ledger) + 1) /\ DOMAIN ledger = 1..Len(ledger)
          /\ Len(ledger) \in Nat /\ ledger'[Len(ledger) + 1] = tx
          /\ \A j \in 1..Len(ledger) : ledger'[j] = ledger[j]
      BY <1>1, <2>1
    <3>2. i \in 1..Len(ledger) \/ i = Len(ledger) + 1
      BY <3>1
    <3> QED
      BY <3>1, <3>2 DEF tx
  <2>2. CASE UNCHANGED ledger
    BY <2>2
  <2> QED
    BY <1>2, <2>1, <2>2 DEF Send
<1>3. ASSUME NEW t \in Threads, SignOp(t) PROVE request[t].user \in Users
  BY <1>3, BusyHasRequest DEF SignOp, SendAndRecord, Request
<1>4. CASE UNCHANGED ledger
  BY <1>4
<1>5. ASSUME NEW t \in Threads, StartOp(t)
      PROVE  \/ i \in DOMAIN ledger /\ ledger'[i] = ledger[i]
             \/ /\ i = Len(ledger) + 1 /\ ledger'[i].id = nextId
                /\ ledger'[i].op = "op_start" /\ ledger'[i].signer = Platform
                /\ ledger'[i].hash = request[t].row.hash
  <2>1. Send("op_start", Platform, request[t].row.hash, PlatformSignature)
    BY <1>5 DEF StartOp
  <2> QED
    BY <1>2, <2>1
<1>6. ASSUME NEW t \in Threads, SignOp(t)
      PROVE  \/ i \in DOMAIN ledger /\ ledger'[i] = ledger[i]
             \/ /\ i = Len(ledger) + 1 /\ ledger'[i].id = nextId
                /\ ledger'[i].op = "op_sign" /\ ledger'[i].signer \in Users
                /\ ledger'[i].hash = request[t].row.hash
  <2>1. Send("op_sign", request[t].user, request[t].row.hash, request[t].signature)
    BY <1>6, SignOpStep
  <2> QED
    BY <1>2, <1>3, <1>6, <2>1
<1>7. ASSUME NEW t \in Threads, EndOp(t)
      PROVE  \/ i \in DOMAIN ledger /\ ledger'[i] = ledger[i]
             \/ /\ i = Len(ledger) + 1 /\ ledger'[i].id = nextId
                /\ ledger'[i].op = "op_end" /\ ledger'[i].signer = Platform
                /\ ledger'[i].hash = request[t].row.hash
  <2>1. Send("op_end", Platform, request[t].row.hash, PlatformSignature)
    BY <1>7, EndOpStep
  <2> QED
    BY <1>2, <2>1
<1>8. CASE \E t \in Threads : StartOp(t)
  BY <1>5, <1>8
<1>9. CASE \E t \in Threads : SignOp(t)
  BY <1>6, <1>9
<1>10. CASE \E t \in Threads : EndOp(t)
  BY <1>7, <1>10
<1> QED
  BY <1>4, <1>8, <1>9, <1>10 DEF Next, vars, Proceed, LoadIndex, NewSignature, SignDocument,
     LookupChaincode, SaveStart, SaveSignature, SaveEnd, Flush, RequestFails, chain

\* The request that sends an op_end closes its document, which was not closed before.
LEMMA EndOpCloses ==
  ASSUME PatientInv, NEW t \in Threads, EndOp(t), NEW d, d = request[t].doc
  PROVE  /\ d \in Docs /\ documents[d].hash = request[t].row.hash
         /\ ~Closed(d) /\ Closed(d)' /\ UNCHANGED documents
<1> DEFINE r == request[t]
<1>1. r.step = "end_send" /\ r \in Request /\ r.doc \in Docs /\ RequestHoldsRow(r, documents)
  BY BusyHasRequest DEF EndOp, SendAndRecord, PatientInv, Request
<1>2. /\ documents[r.doc] = r.row /\ documents[r.doc].state = "PENDING"
      /\ CurrentSigner(documents[r.doc]) = NoUser /\ ~Closed(d)
  BY <1>1 DEF RequestHoldsRow, Ending, Closed
<1>3. UNCHANGED documents
  BY DEF EndOp, SendAndRecord, rows
<1>4. ASSUME NEW x \in Threads, request'[x].step = "end_send", request'[x].doc = r.doc
      PROVE  FALSE
  <2>1. request \in [Threads -> Request \cup {NoRequest}]
    BY DEF PatientInv, TypeInv, TypeOK
  <2>2. request'[t].step # "end_send"
    BY <1>1, <2>1 DEF EndOp, SendAndRecord, Finish, NoRequest, Request
  <2>3. x # t /\ request'[x] = request[x]
    BY <1>4, <2>1, <2>2 DEF EndOp, SendAndRecord, Finish
  <2> QED
    BY <1>1, <1>4, <2>3, OneRequestPerDocument
<1>5. Closed(d)'
  BY <1>2, <1>3, <1>4 DEF Closed
<1> QED
  BY <1>1, <1>2, <1>3, <1>5 DEF RequestHoldsRow

LEMMA EndsInvInit == Init => EndsInv
<1> SUFFICES ASSUME Init, NEW h \in Hashes
             PROVE  Cardinality(Ends(h)) <= Cardinality(ClosedDocs(h))
  BY PatientInvInit DEF EndsInv
<1>1. Ends(h) = {}
  BY DEF Init, Ends
<1>2. \A d \in Docs : documents[d].state = "ABSENT"
  BY DEF Init, Absent
<1>3. ClosedDocs(h) = {}
  BY <1>2 DEF ClosedDocs, Closed, WithHash
<1> QED
  BY <1>1, <1>3, FS_EmptySet

LEMMA EndsInvNext ==
  ASSUME Patient, IsFiniteSet(Docs), EndsInv, [Next]_vars
  PROVE  EndsInv'
<1>1. PatientInv /\ PatientInv' /\ TypeOK /\ TypeOK'
  BY PatientInvNext DEF EndsInv, PatientInv, TypeInv
<1> SUFFICES ASSUME NEW h \in Hashes
             PROVE  Cardinality(Ends(h)') <= Cardinality(ClosedDocs(h)')
  BY <1>1 DEF EndsInv
<1>2. /\ IsFiniteSet(Ends(h)) /\ IsFiniteSet(ClosedDocs(h))
      /\ IsFiniteSet(Ends(h)') /\ IsFiniteSet(ClosedDocs(h)')
  <2>1. IsFiniteSet(Ends(h)) /\ IsFiniteSet(ClosedDocs(h))
    BY <1>1, SetsAreFinite
  <2>2. IsFiniteSet(DOMAIN ledger')
    <3>1. DOMAIN ledger' = 1..Len(ledger') /\ Len(ledger') \in Nat
      BY <1>1 DEF TypeOK
    <3> QED
      BY <3>1, FS_Interval
  <2>3. Ends(h)' \subseteq DOMAIN ledger' /\ ClosedDocs(h)' \subseteq Docs
    BY DEF Ends, ClosedDocs, WithHash
  <2> QED
    BY <2>1, <2>2, <2>3, FS_Subset
<1>3. ClosedDocs(h) \subseteq ClosedDocs(h)'
  BY <1>1, ClosedStays DEF ClosedDocs, WithHash
<1>4. /\ Cardinality(ClosedDocs(h)) <= Cardinality(ClosedDocs(h)')
      /\ Cardinality(ClosedDocs(h)) \in Nat /\ Cardinality(ClosedDocs(h)') \in Nat
      /\ Cardinality(Ends(h)) \in Nat /\ Cardinality(Ends(h)') \in Nat
      /\ Cardinality(Ends(h)) <= Cardinality(ClosedDocs(h))
  BY <1>2, <1>3, FS_Subset, FS_CardinalityType DEF EndsInv
<1>5. CASE Ends(h)' \subseteq Ends(h)
  <2>1. Cardinality(Ends(h)') <= Cardinality(Ends(h))
    BY <1>2, <1>5, FS_Subset
  <2> QED
    BY <1>4, <2>1
<1>6. CASE \E i \in Ends(h)' : i \notin Ends(h)
  <2>1. PICK i \in DOMAIN ledger' :
          /\ ledger'[i].hash = h /\ ledger'[i].op = "op_end"
          /\ ~(i \in DOMAIN ledger /\ ledger'[i] = ledger[i])
    BY <1>6 DEF Ends
  <2>2. PICK t \in Threads : EndOp(t) /\ request[t].row.hash = h
    BY <1>1, <2>1, LedgerStep DEF PatientInv
  <2>3. PICK d : d = request[t].doc
    OBVIOUS
  <2>4. d \in ClosedDocs(h)' /\ d \notin ClosedDocs(h)
    BY <1>1, <2>2, <2>3, EndOpCloses DEF ClosedDocs, WithHash
  <2>5. ClosedDocs(h) \cup {d} \subseteq ClosedDocs(h)'
    BY <1>3, <2>4
  <2>6. /\ IsFiniteSet(ClosedDocs(h) \cup {d})
        /\ Cardinality(ClosedDocs(h) \cup {d}) = Cardinality(ClosedDocs(h)) + 1
    BY <1>2, <2>4, FS_AddElement
  <2>7. Cardinality(ClosedDocs(h)) + 1 <= Cardinality(ClosedDocs(h)')
    BY <1>2, <2>5, <2>6, FS_Subset
  <2>8. Ends(h)' \subseteq Ends(h) \cup {Len(ledger) + 1}
    <3> SUFFICES ASSUME NEW j \in Ends(h)' PROVE j \in Ends(h) \/ j = Len(ledger) + 1
      OBVIOUS
    <3>1. j \in DOMAIN ledger' /\ ledger'[j].hash = h /\ ledger'[j].op = "op_end"
      BY DEF Ends
    <3> QED
      BY <1>1, <3>1, LedgerStep DEF Ends, PatientInv
  <2>9. Cardinality(Ends(h)') <= Cardinality(Ends(h)) + 1
    <3>1. /\ IsFiniteSet(Ends(h) \cup {Len(ledger) + 1})
          /\ \/ Cardinality(Ends(h) \cup {Len(ledger) + 1}) = Cardinality(Ends(h))
             \/ Cardinality(Ends(h) \cup {Len(ledger) + 1}) = Cardinality(Ends(h)) + 1
      BY <1>2, FS_AddElement
    <3>2. Cardinality(Ends(h)') <= Cardinality(Ends(h) \cup {Len(ledger) + 1})
      BY <2>8, <3>1, FS_Subset
    <3> QED
      BY <1>4, <3>1, <3>2
  <2> QED
    BY <1>4, <2>7, <2>9
<1> QED
  BY <1>5, <1>6

LEMMA OneEndEach ==
  ASSUME IsFiniteSet(Docs), EndsInv
  PROVE  OneEndPerDocument
<1> SUFFICES ASSUME NEW h \in Hashes
             PROVE  Cardinality(Ends(h)) <= Cardinality(WithHash(h))
  BY DEF OneEndPerDocument, Ends
<1>1. IsFiniteSet(Ends(h)) /\ IsFiniteSet(ClosedDocs(h)) /\ IsFiniteSet(WithHash(h))
  BY SetsAreFinite DEF EndsInv, PatientInv, TypeInv
<1>2. Cardinality(ClosedDocs(h)) <= Cardinality(WithHash(h))
  BY <1>1, FS_Subset DEF ClosedDocs
<1>3. /\ Cardinality(Ends(h)) \in Nat /\ Cardinality(ClosedDocs(h)) \in Nat
      /\ Cardinality(WithHash(h)) \in Nat
  BY <1>1, FS_CardinalityType
<1> QED
  BY <1>2, <1>3 DEF EndsInv

\* While users wait for answers, retries after failures and an orderer that loses
\* transactions put at most one op_end on the ledger for each document of a hash.
THEOREM OneEnd ==
  ASSUME Patient, IsFiniteSet(Docs)
  PROVE  Spec => []OneEndPerDocument
<1>1. EndsInv => OneEndPerDocument
  BY OneEndEach
<1>2. EndsInv /\ [Next]_vars => EndsInv'
  BY EndsInvNext
<1> QED
  BY <1>1, <1>2, EndsInvInit, PTL DEF Spec


----------------------------------------------------------------------------
(* The history page shows no op_end before the row is FINALIZED: only the   *)
(* request that sent one has it in its copy, and saves copy and row at once.*)

\* A list of ids under which the ledger has no op_end.
NoEndListed(ids, log) ==
  \A k \in DOMAIN ids : \A i \in DOMAIN log : log[i].id = ids[k] => log[i].op # "op_end"

Unfinished(h) == \A d \in WithHash(h) : documents[d].state # "FINALIZED"

\* Ids are unique, and the platform signs what users do not.
LogInOrder(log) ==
  /\ \A i, j \in DOMAIN log : log[i].id = log[j].id => i = j
  /\ \A i \in DOMAIN log : log[i].op = "op_sign" => log[i].signer \in Users

ShownInv ==
  /\ PatientInv
  /\ HistoryInv
  /\ LogInOrder(ledger)
  /\ \A h \in Hashes : Unfinished(h) =>
       /\ NoEndListed(idTable[h], ledger)
       /\ \A t \in Threads : request[t].step # "idle" =>
            \/ NoEndListed(request[t].table[h], ledger)
            \/ request[t].step = "end_save" /\ request[t].row.hash = h

LEMMA ShownInvInit == Init => ShownInv
<1> SUFFICES ASSUME Init PROVE ShownInv
  OBVIOUS
<1>1. PatientInv /\ HistoryInv
  BY PatientInvInit, HistoryInvInit
<1>2. LogInOrder(ledger) /\ \A h \in Hashes : NoEndListed(idTable[h], ledger)
  BY DEF Init, LogInOrder, NoEndListed
<1>3. \A t \in Threads : request[t].step = "idle"
  BY DEF Init, NoRequest
<1> QED
  BY <1>1, <1>2, <1>3 DEF ShownInv

\* Once finished, a hash stays finished.
LEMMA UnfinishedBefore ==
  ASSUME PatientInv, [Next]_vars, NEW h, Unfinished(h)'
  PROVE  Unfinished(h)
<1> SUFFICES ASSUME NEW d \in WithHash(h), documents[d].state = "FINALIZED" PROVE FALSE
  BY DEF Unfinished
<1>1. d \in Docs /\ documents[d].hash = h /\ documents'[d] = documents[d]
  BY RowsStay DEF WithHash
<1> QED
  BY <1>1 DEF Unfinished, WithHash

LEMMA LogStaysInOrder ==
  ASSUME ShownInv, [Next]_vars
  PROVE  LogInOrder(ledger')
<1>1. /\ ledger \in Seq(Transaction) /\ nextId \in Nat
      /\ \A i \in DOMAIN ledger : ledger[i].id < nextId
  BY DEF ShownInv, HistoryInv, TypeInv, TypeOK
<1>2. \A i \in DOMAIN ledger : ledger[i].id # nextId
  <2>1. \A i \in DOMAIN ledger : ledger[i] \in Transaction
    BY <1>1
  <2> QED
    BY <1>1, <2>1 DEF Transaction
<1>3. \A i \in DOMAIN ledger' :
        \/ i \in DOMAIN ledger /\ ledger'[i] = ledger[i]
        \/ i = Len(ledger) + 1 /\ ledger'[i].id = nextId
  BY LedgerStep DEF ShownInv, PatientInv
<1>4. \A i \in DOMAIN ledger' :
        \/ i \in DOMAIN ledger /\ ledger'[i] = ledger[i]
        \/ ledger'[i].op = "op_sign" => ledger'[i].signer \in Users
  BY LedgerStep DEF ShownInv, PatientInv
<1> QED
  BY <1>2, <1>3, <1>4 DEF ShownInv, LogInOrder

\* Lists with old ids are not changed by what is sent later; new ids are of what is sent.
LEMMA NoEndStays ==
  ASSUME ShownInv, [Next]_vars, NEW h \in Hashes, NEW ids \in Seq(Nat),
         TrueHistory(h, ids, ledger, nextId), NoEndListed(ids, ledger)
  PROVE  NoEndListed(ids, ledger')
<1> SUFFICES ASSUME NEW k \in DOMAIN ids, NEW i \in DOMAIN ledger', ledger'[i].id = ids[k]
             PROVE  ledger'[i].op # "op_end"
  BY DEF NoEndListed
<1>1. ids[k] < nextId /\ ids[k] \in Nat /\ nextId \in Nat
  BY DEF TrueHistory, ShownInv, HistoryInv, TypeInv, TypeOK
<1>2. ids[k] # nextId
  BY <1>1
<1>3. i \in DOMAIN ledger /\ ledger'[i] = ledger[i]
  BY <1>2, LedgerStep DEF ShownInv, PatientInv
<1> QED
  BY <1>3 DEF NoEndListed

\* A step that leaves true what the copies and the row list of the hashes that are not
\* finished afterwards.
LEMMA ShownStep ==
  ASSUME Patient, ShownInv, [Next]_vars,
         \A h \in Hashes : Unfinished(h)' =>
           idTable'[h] = idTable[h] \/ NoEndListed(idTable'[h], ledger'),
         \A t \in Threads : request'[t].step # "idle" =>
           \/ request[t].step # "idle" /\ request'[t] = request[t]
           \/ \A h \in Hashes : Unfinished(h) =>
                \/ NoEndListed(request'[t].table[h], ledger')
                \/ request'[t].step = "end_save" /\ request'[t].row.hash = h
  PROVE  ShownInv'
<1>1. PatientInv' /\ HistoryInv' /\ LogInOrder(ledger')
  BY PatientInvNext, HistoryInvNext, LogStaysInOrder DEF ShownInv
<1>2. ASSUME NEW h \in Hashes, Unfinished(h)' PROVE Unfinished(h)
  BY <1>2, UnfinishedBefore DEF ShownInv
<1>3. ASSUME NEW h \in Hashes, Unfinished(h)'
      PROVE  NoEndListed(idTable'[h], ledger')
  <2>1. /\ idTable[h] \in Seq(Nat) /\ TrueHistory(h, idTable[h], ledger, nextId)
        /\ NoEndListed(idTable[h], ledger)
    BY <1>2, <1>3 DEF ShownInv, HistoryInv, TrueTable, TypeInv, TypeOK, IdTable
  <2>2. NoEndListed(idTable[h], ledger')
    BY <2>1, NoEndStays
  <2> QED
    BY <1>3, <2>2
<1>4. ASSUME NEW h \in Hashes, Unfinished(h)', NEW t \in Threads, request'[t].step # "idle"
      PROVE  \/ NoEndListed(request'[t].table[h], ledger')
             \/ request'[t].step = "end_save" /\ request'[t].row.hash = h
  <2>1. CASE request[t].step # "idle" /\ request'[t] = request[t]
    <3>1. /\ request[t].table[h] \in Seq(Nat)
          /\ TrueHistory(h, request[t].table[h], ledger, nextId)
      BY <2>1, BusyHasRequest DEF ShownInv, HistoryInv, TrueTable, Request, IdTable
    <3>2. \/ NoEndListed(request[t].table[h], ledger)
          \/ request[t].step = "end_save" /\ request[t].row.hash = h
      BY <1>2, <1>4, <2>1 DEF ShownInv
    <3> QED
      BY <2>1, <3>1, <3>2, NoEndStays
  <2> QED
    BY <1>2, <1>4, <2>1
<1> QED
  BY <1>1, <1>3, <1>4 DEF ShownInv

\* A step that neither sends nor saves: copies are the same, the row's, or empty.
LEMMA QuietShown ==
  ASSUME Patient, ShownInv, [Next]_vars, UNCHANGED <<idTable, ledger>>,
         \A t \in Threads : request'[t].step # "idle" =>
           \/ request[t].step # "idle" /\ request'[t] = request[t]
           \/ request'[t].table \in {EmptyTable, idTable}
  PROVE  ShownInv'
<1>1. ASSUME NEW h \in Hashes, Unfinished(h)
      PROVE  NoEndListed(EmptyTable[h], ledger) /\ NoEndListed(idTable[h], ledger)
  BY <1>1 DEF ShownInv, NoEndListed, EmptyTable
<1> QED
  BY <1>1, ShownStep

\* A step that sends a transaction: a list with its id added has no op_end if it had none
\* and the transaction is not one.
LEMMA SendNoEnd ==
  ASSUME ShownInv, NEW op \in {"op_start", "op_sign"}, NEW signer \in Users \cup {Platform},
         NEW h \in Hashes, NEW signature \in Signatures, Send(op, signer, h, signature)
  PROVE  /\ NoEndListed(<<nextId>>, ledger')
         /\ \A ids \in Seq(Nat) :
              NoEndListed(ids, ledger') => NoEndListed(Append(ids, nextId), ledger')
<1>1. /\ nextId \in Nat
      /\ \A i \in DOMAIN ledger : ledger[i].id \in Nat /\ ledger[i].id < nextId
      /\ \A i \in DOMAIN ledger : i \in DOMAIN ledger' /\ ledger'[i] = ledger[i]
      /\ \A i \in DOMAIN ledger' :
           i \in DOMAIN ledger \/ (ledger'[i].id = nextId /\ ledger'[i].op = op)
  BY SendAppends DEF ShownInv, HistoryInv
<1>2. \A i \in DOMAIN ledger' : ledger'[i].id = nextId => ledger'[i].op # "op_end"
  BY <1>1
<1>3. NoEndListed(<<nextId>>, ledger')
  BY <1>2 DEF NoEndListed
<1>4. ASSUME NEW ids \in Seq(Nat), NoEndListed(ids, ledger')
      PROVE  NoEndListed(Append(ids, nextId), ledger')
  <2> DEFINE new == Append(ids, nextId)
  <2>1. \A k \in DOMAIN new : new[k] = nextId \/ (k \in DOMAIN ids /\ new[k] = ids[k])
    BY <1>1
  <2> HIDE DEF new
  <2>2. NoEndListed(new, ledger')
    BY <1>2, <1>4, <2>1 DEF NoEndListed
  <2> QED
    BY <2>2 DEF new
<1> QED
  BY <1>3, <1>4

LEMMA SendingShown ==
  ASSUME Patient, ShownInv, [Next]_vars, NEW t \in Threads, request[t].step \in Steps \ {"end_save"},
         UNCHANGED idTable, NEW ids,
         \/ request'[t].step = "idle"
         \/ /\ request'[t].table = [request[t].table EXCEPT ![request[t].row.hash] = ids]
            /\ \/ NoEndListed(request[t].table[request[t].row.hash], ledger') =>
                    NoEndListed(ids, ledger')
               \/ request'[t].step = "end_save" /\ request'[t].row.hash = request[t].row.hash,
         \A x \in Threads : x # t => request'[x] = request[x]
  PROVE  ShownInv'
<1> DEFINE r == request[t]
           h == r.row.hash
<1>1. r \in Request /\ h \in Hashes /\ r.table \in IdTable
  BY BusyHasRequest DEF ShownInv, HistoryInv, Steps, Request
<1>2. ASSUME NEW g \in Hashes, Unfinished(g)
      PROVE  NoEndListed(r.table[g], ledger')
  <2>1. r.table[g] \in Seq(Nat) /\ TrueHistory(g, r.table[g], ledger, nextId)
    BY <1>1 DEF ShownInv, HistoryInv, TrueTable, IdTable, Steps
  <2>2. NoEndListed(r.table[g], ledger)
    BY <1>2 DEF ShownInv, Steps
  <2> QED
    BY <2>1, <2>2, NoEndStays
<1>3. ASSUME NEW g \in Hashes, Unfinished(g), request'[t].step # "idle"
      PROVE  \/ NoEndListed(request'[t].table[g], ledger')
             \/ request'[t].step = "end_save" /\ request'[t].row.hash = g
  <2>1. request'[t].table[g] = IF g = h THEN ids ELSE r.table[g]
    BY <1>1, <1>3 DEF IdTable
  <2> QED
    BY <1>2, <1>3, <2>1
<1>4. \A x \in Threads : x # t /\ request'[x].step # "idle" =>
        request[x].step # "idle" /\ request'[x] = request[x]
  OBVIOUS
<1> QED
  BY <1>3, <1>4, ShownStep

LEMMA SendsShown ==
  ASSUME Patient, ShownInv, [Next]_vars, NEW t \in Threads, StartOp(t) \/ SignOp(t) \/ EndOp(t)
  PROVE  ShownInv'
<1> DEFINE r == request[t]
           h == r.row.hash
<1>1. r.step \in Steps \ {"end_save"} /\ UNCHANGED idTable
  BY DEF StartOp, SignOp, EndOp, SendAndRecord, Steps, rows
<1>2. /\ r \in Request /\ h \in Hashes /\ nextId \in Nat /\ r.table[h] \in Seq(Nat)
      /\ request \in [Threads -> Request \cup {NoRequest}]
      /\ r.user \in Users /\ r.signature \in Signatures
  BY <1>1, BusyHasRequest DEF ShownInv, HistoryInv, TypeInv, TypeOK, Steps, Request, IdTable
<1>3. \A x \in Threads : x # t => request'[x] = request[x]
  BY <1>2 DEF StartOp, SignOp, EndOp, SendAndRecord, Finish
<1>0. TypeInv
  BY DEF ShownInv, HistoryInv
<1>4. CASE StartOp(t)
  <2>1. request'[t].table = [r.table EXCEPT ![h] = <<nextId>>]
    BY <1>0, <1>4, StartOpStep
  <2>2. Send("op_start", Platform, h, PlatformSignature)
    BY <1>4 DEF StartOp
  <2>3. NoEndListed(<<nextId>>, ledger')
    BY <1>2, <2>2, SendNoEnd, SignaturesGrow
  <2> QED
    BY <1>1, <1>3, <2>1, <2>3, SendingShown
<1>5. CASE SignOp(t)
  <2>1. \/ request'[t].step = "idle"
        \/ request'[t].table = [r.table EXCEPT ![h] = Append(r.table[h], nextId)]
    BY <1>0, <1>5, SignOpStep
  <2>2. Send("op_sign", r.user, h, r.signature)
    BY <1>5 DEF SignOp, SendAndRecord
  <2>3. \A ids \in Seq(Nat) :
          NoEndListed(ids, ledger') => NoEndListed(Append(ids, nextId), ledger')
    <3> HIDE DEF r, h
    <3> QED
      BY <1>2, <2>2, SendNoEnd
  <2>4. PICK ids : ids = Append(r.table[h], nextId)
    OBVIOUS
  <2>5. NoEndListed(r.table[h], ledger') => NoEndListed(ids, ledger')
    BY <1>2, <2>3, <2>4
  <2>6. request'[t].step = "idle" \/ request'[t].table = [r.table EXCEPT ![h] = ids]
    BY <2>1, <2>4
  <2> QED
    BY <1>1, <1>3, <2>5, <2>6, SendingShown
<1>6. CASE EndOp(t)
  <2>1. \/ request'[t].step = "idle"
        \/ /\ request'[t].table = [r.table EXCEPT ![h] = Append(r.table[h], nextId)]
           /\ request'[t].step = "end_save" /\ request'[t].row.hash = h
    BY <1>0, <1>6, EndOpStep DEF KeepsRow
  <2>2. PICK ids : ids = Append(r.table[h], nextId)
    OBVIOUS
  <2>3. \/ request'[t].step = "idle"
        \/ /\ request'[t].table = [r.table EXCEPT ![h] = ids]
           /\ request'[t].step = "end_save" /\ request'[t].row.hash = h
    BY <2>1, <2>2
  <2> QED
    BY <1>1, <1>3, <2>3, SendingShown
<1> QED
  BY <1>4, <1>5, <1>6

LEMMA SavesShown ==
  ASSUME Patient, ShownInv, [Next]_vars, NEW t \in Threads,
         SaveStart(t) \/ SaveSignature(t) \/ SaveEnd(t)
  PROVE  ShownInv'
<1> DEFINE r == request[t]
<1>1. /\ r.step \in Steps /\ r.step # "idle"
      /\ idTable' = r.table /\ UNCHANGED ledger
  BY DEF SaveStart, SaveSignature, SaveEnd, Flush, Steps, chain
<1>2. /\ r \in Request /\ r.doc \in Docs /\ RequestHoldsRow(r, documents)
      /\ request \in [Threads -> Request \cup {NoRequest}]
  BY <1>1, BusyHasRequest DEF ShownInv, PatientInv, TypeInv, TypeOK, Request
<1>3. ASSUME NEW h \in Hashes, Unfinished(h), r.step # "end_save" \/ r.row.hash # h
      PROVE  NoEndListed(r.table[h], ledger)
  BY <1>1, <1>3 DEF ShownInv
<1>4. ASSUME NEW h \in Hashes, Unfinished(h)'
      PROVE  r.step # "end_save" \/ r.row.hash # h
  <2> SUFFICES ASSUME r.step = "end_save", r.row.hash = h PROVE FALSE
    OBVIOUS
  <2> DEFINE new == [r.row EXCEPT !.signedhash = PlatformSignature, !.state = "FINALIZED"]
  <2>1. SaveEnd(t)
    BY DEF SaveStart, SaveSignature
  <2>2. documents'[r.doc] = new
    BY <1>2, <2>1 DEF SaveEnd, Flush, ShownInv, PatientInv, TypeInv, TypeOK
  <2>3. new.hash = h /\ new.state = "FINALIZED"
    BY SavedRows DEF ShownInv
  <2> HIDE DEF new
  <2> QED
    BY <1>2, <1>4, <2>2, <2>3 DEF Unfinished, WithHash
<1>5. \A h \in Hashes : Unfinished(h)' => NoEndListed(idTable'[h], ledger')
  BY <1>1, <1>3, <1>4, UnfinishedBefore DEF ShownInv
<1>6. ASSUME NEW x \in Threads, request'[x].step # "idle"
      PROVE  \/ request[x].step # "idle" /\ request'[x] = request[x]
             \/ \A h \in Hashes : Unfinished(h) => NoEndListed(request'[x].table[h], ledger')
  <2>1. CASE Finish(t)
    BY <1>2, <1>6, <2>1 DEF Finish, NoRequest
  <2>2. CASE SaveSignature(t) /\ ~Finish(t)
    <3>1. /\ \A y \in Threads : y # t => request'[y] = request[y]
          /\ request'[t].table = r.table /\ r.step = "sign_save"
      BY <1>2, <2>2 DEF SaveSignature, Request
    <3> QED
      BY <1>1, <1>3, <1>6, <3>1
  <2> QED
    BY <2>1, <2>2 DEF SaveStart, SaveEnd
<1> QED
  BY <1>5, <1>6, ShownStep

LEMMA ShownInvNext ==
  ASSUME Patient, ShownInv, [Next]_vars
  PROVE  ShownInv'
<1>1. request \in [Threads -> Request \cup {NoRequest}]
  BY DEF ShownInv, PatientInv, TypeInv, TypeOK
<1>2. ASSUME NEW t \in Threads, NEW u, NEW d, NEW doc, NEW signature, NEW step \in Steps,
             Begin(t, step, u, d, doc, signature)
      PROVE  \A x \in Threads : request'[x] = request[x] \/ request'[x].table = EmptyTable
  <2> DEFINE r == [step |-> step, doc |-> d, user |-> u, signature |-> signature,
                   row |-> doc, table |-> EmptyTable]
  <2>1. request' = [request EXCEPT ![t] = r] /\ r.table = EmptyTable
    BY <1>2 DEF Begin
  <2> HIDE DEF r
  <2> QED
    BY <1>1, <2>1
<1>3. CASE \E u \in Users : LoadIndex(u)
  BY <1>3, QuietShown DEF LoadIndex, rows, chain
<1>4. CASE \E t \in Threads, u \in Users, d \in Docs : NewSignature(t, u, d)
  <2>1. UNCHANGED <<idTable, ledger>>
    BY <1>4 DEF NewSignature, chain
  <2>2. \A x \in Threads : request'[x] = request[x] \/ request'[x].table = EmptyTable
    BY <1>2, <1>4 DEF NewSignature, Steps
  <2> QED
    BY <2>1, <2>2, QuietShown
<1>5. CASE \E t \in Threads, u \in Users : \E form \in forms[u] : SignDocument(t, u, form)
  <2>1. UNCHANGED <<idTable, ledger>>
    BY <1>5 DEF SignDocument, rows, chain
  <2>2. \A x \in Threads : request'[x] = request[x] \/ request'[x].table = EmptyTable
    BY <1>2, <1>5 DEF SignDocument, Steps
  <2> QED
    BY <2>1, <2>2, QuietShown
<1>6. ASSUME NEW t \in Threads, NEW step \in Steps, NEW next, LookupChaincode(t, step, next)
      PROVE  ShownInv'
  <2>1. UNCHANGED <<idTable, ledger>> /\ request[t] \in Request
    BY <1>6, BusyHasRequest DEF LookupChaincode, Steps, rows, chain, ShownInv, PatientInv
  <2>2. \A x \in Threads : request'[x] = request[x] \/ request'[x].table = idTable
    BY <1>1, <1>6, <2>1 DEF LookupChaincode, Request
  <2> QED
    BY <2>1, <2>2, QuietShown
<1>7. CASE \E t \in Threads : Proceed(t)
  BY <1>6, <1>7, SendsShown, SavesShown DEF Proceed, Steps
<1>8. CASE \E t \in Threads : RequestFails(t)
  <2>1. UNCHANGED <<idTable, ledger>>
    BY <1>8 DEF RequestFails, rows, chain
  <2>2. \A x \in Threads : request'[x] = request[x] \/ request'[x].step = "idle"
    BY <1>1, <1>8 DEF RequestFails, Finish, NoRequest
  <2> QED
    BY <2>1, <2>2, QuietShown
<1>9. CASE UNCHANGED vars
  BY <1>9, QuietShown DEF vars
<1> QED
  BY <1>3, <1>4, <1>5, <1>7, <1>8, <1>9 DEF Next

LEMMA ShownFinal ==
  ASSUME ShownInv
  PROVE  ShownFinalizedIsFinal
<1> SUFFICES ASSUME NEW d \in Docs, WithHash(documents[d].hash) = {d},
                    documents[d].hash \in Hashes, ShownFinalized(documents[d].hash),
                    documents[d].state # "FINALIZED"
             PROVE  FALSE
  BY DEF ShownFinalizedIsFinal
<1> DEFINE h == documents[d].hash
           shown == { i \in DOMAIN ledger : /\ ledger[i].signer = Platform
                                            /\ \E k \in DOMAIN idTable[h] :
                                                  idTable[h][k] = ledger[i].id }
<1>1. NoEndListed(idTable[h], ledger) /\ TrueHistory(h, idTable[h], ledger, nextId)
  BY DEF ShownInv, Unfinished, HistoryInv, TrueTable
<1>2. \A i \in DOMAIN ledger : ledger[i].op \in {"op_start", "op_sign", "op_end"}
  <2>1. \A i \in DOMAIN ledger : ledger[i] \in Transaction
    BY DEF ShownInv, PatientInv, TypeInv, TypeOK
  <2> QED
    BY <2>1 DEF Transaction
<1>3. \A i \in shown : ledger[i].id = idTable[h][1]
  <2> SUFFICES ASSUME NEW i \in DOMAIN ledger, ledger[i].signer = Platform,
                      NEW k \in DOMAIN idTable[h], idTable[h][k] = ledger[i].id
               PROVE  k = 1
    OBVIOUS
  <2>1. ledger[i].op # "op_end" /\ (ledger[i].op = "op_start" <=> k = 1)
    BY <1>1 DEF NoEndListed, TrueHistory
  <2>2. ledger[i].op # "op_sign"
    BY IdentitiesDiffer DEF ShownInv, LogInOrder
  <2> QED
    BY <1>2, <2>1, <2>2
<1>4. \A i, j \in shown : i = j
  BY <1>3 DEF ShownInv, LogInOrder
<1>5. Cardinality(shown) = 2
  BY DEF ShownFinalized
<1> HIDE DEF shown
<1>6. shown = {} \/ \E i : shown = {i}
  <2>1. ASSUME NEW i \in shown PROVE shown = {i}
    BY <1>4, <2>1
  <2> QED
    BY <2>1
<1>7. Cardinality(shown) \in {0, 1}
  BY <1>6, FS_EmptySet, FS_Singleton
<1> QED
  BY <1>5, <1>7

\* While users wait for answers, the history page never says "Finalized!" of a document
\* that is not, unless the same file was uploaded twice.
THEOREM ShownIsFinal == ASSUME Patient PROVE Spec => []ShownFinalizedIsFinal
<1>1. ShownInv => ShownFinalizedIsFinal
  BY ShownFinal
<1>2. ShownInv /\ [Next]_vars => ShownInv'
  BY ShownInvNext
<1> QED
  BY <1>1, <1>2, ShownInvInit, PTL DEF Spec

=============================================================================
