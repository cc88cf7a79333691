------------------------ MODULE SigningOrderProofs ------------------------
(***************************************************************************)
(* Users sign in the order of the list, and a document is finalized only   *)
(* after they did, for every number of users, documents, files and request *)
(* threads, whether users wait for answers or not.                         *)
(***************************************************************************)
EXTENDS DocumentSigningProofs, SequenceTheorems

----------------------------------------------------------------------------
(* Signatures of a list of signers. *)

SignatureTo(signers, k) == PlatformSignature \o SubSeq(signers, 1, k)

\* Each signer's signature is the one before it with the signer added, and its length
\* tells whose it is.
LEMMA SignatureToFacts ==
  ASSUME NEW S, NEW signers \in Seq(S)
  PROVE  /\ SignatureTo(signers, 0) = PlatformSignature
         /\ \A k \in 0..Len(signers) : Len(SignatureTo(signers, k)) = k + 1
         /\ \A k \in 1..Len(signers) :
              SignatureTo(signers, k) = Append(SignatureTo(signers, k - 1), signers[k])
<1> DEFINE T == S \cup {Platform}
<1>1. PlatformSignature \in Seq(T) /\ Len(PlatformSignature) = 1 /\ signers \in Seq(T)
  BY DEF PlatformSignature
<1>2. ASSUME NEW k \in 0..Len(signers)
      PROVE  /\ SubSeq(signers, 1, k) \in Seq(T) /\ Len(SubSeq(signers, 1, k)) = k
             /\ \A i \in 1..k : SubSeq(signers, 1, k)[i] = signers[i]
  BY <1>1
<1> HIDE DEF T
<1>3. ASSUME NEW k \in 0..Len(signers)
      PROVE  /\ SignatureTo(signers, k) \in Seq(T) /\ Len(SignatureTo(signers, k)) = k + 1
             /\ SignatureTo(signers, k)[1] = PlatformSignature[1]
             /\ \A i \in 2..(k + 1) : SignatureTo(signers, k)[i] = signers[i - 1]
  <2> DEFINE p == PlatformSignature
             q == SubSeq(signers, 1, k)
  <2>1. p \in Seq(T) /\ Len(p) = 1 /\ q \in Seq(T) /\ Len(q) = k /\ k \in Nat
        /\ \A i \in 1..k : q[i] = signers[i]
    BY <1>1, <1>2
  <2> HIDE DEF p, q
  <2>2. /\ p \o q \in Seq(T) /\ Len(p \o q) = 1 + k
        /\ \A i \in 1..(1 + k) : (p \o q)[i] = IF i <= 1 THEN p[i] ELSE q[i - 1]
    <3>1. /\ p \o q \in Seq(T)
          /\ Len(p \o q) = Len(p) + Len(q)
          /\ \A i \in 1..(Len(p) + Len(q)) :
               (p \o q)[i] = IF i <= Len(p) THEN p[i] ELSE q[i - Len(p)]
      BY <2>1, ConcatProperties, Zenon
    <3> QED
      BY <2>1, <3>1
  <2>3. \A i \in 2..(k + 1) : (p \o q)[i] = signers[i - 1]
    BY <2>1, <2>2
  <2>4. p = PlatformSignature /\ SignatureTo(signers, k) = p \o q
    BY DEF SignatureTo, p, q
  <2>5. 1 + k = k + 1 /\ 1 \in 1..(1 + k)
    BY <2>1
  <2>6. (p \o q)[1] = p[1]
    BY <2>2, <2>5
  <2> QED
    BY <2>2, <2>3, <2>4, <2>5, <2>6
<1>4. SignatureTo(signers, 0) = PlatformSignature
  <2>1. SubSeq(signers, 1, 0) = <<>>
    BY SubSeqEmpty
  <2> QED
    BY <1>1, <2>1, ConcatEmptySeq DEF SignatureTo
<1>5. ASSUME NEW k \in 1..Len(signers)
      PROVE  SignatureTo(signers, k) = Append(SignatureTo(signers, k - 1), signers[k])
  <2> DEFINE new == Append(SignatureTo(signers, k - 1), signers[k])
  <2>1. k - 1 \in 0..Len(signers) /\ k \in 0..Len(signers) /\ signers[k] \in T
    BY <1>1
  <2> DEFINE old == SignatureTo(signers, k - 1)
  <2>7. /\ old \in Seq(T) /\ Len(old) = k /\ old[1] = PlatformSignature[1]
        /\ \A i \in 2..k : old[i] = signers[i - 1]
    BY <1>3, <2>1
  <2> HIDE DEF old
  <2>8. /\ Append(old, signers[k]) \in Seq(T) /\ Len(Append(old, signers[k])) = k + 1
        /\ \A i \in 1..k : Append(old, signers[k])[i] = old[i]
        /\ Append(old, signers[k])[k + 1] = signers[k]
    BY <2>1, <2>7, AppendProperties
  <2>2. new \in Seq(T) /\ Len(new) = k + 1
    BY <2>8 DEF old
  <2>3. new[1] = PlatformSignature[1] /\ new[k + 1] = signers[k]
    BY <2>7, <2>8 DEF old
  <2>4. \A i \in 2..k : new[i] = signers[i - 1]
    BY <2>7, <2>8 DEF old
  <2>5. SignatureTo(signers, k) \in Seq(T) /\ Len(SignatureTo(signers, k)) = k + 1
    BY <1>3, <2>1
  <2> HIDE DEF new
  <2>6. \A i \in 1..(k + 1) : SignatureTo(signers, k)[i] = new[i]
    <3> SUFFICES ASSUME NEW i \in 1..(k + 1) PROVE SignatureTo(signers, k)[i] = new[i]
      OBVIOUS
    <3>1. i = 1 \/ i \in 2..k \/ i = k + 1
      OBVIOUS
    <3> QED
      BY <1>3, <2>1, <2>3, <2>4, <3>1
  <2> QED
    BY <2>2, <2>5, <2>6, SeqEqual DEF new
<1> QED
  BY <1>3, <1>4, <1>5

----------------------------------------------------------------------------
(* The inductive invariant.                                                 *)

Present(signers) == \A i \in DOMAIN signers : signers[i] # NoUser

(* A row, or a copy of one, that has a signature has that of the signers it *)
(* has passed; a finalized one has passed them all.                         *)
RowInOrder(doc) ==
  Present(doc.signers) /\ doc.signedhash # <<>> =>
    /\ doc.state = "PENDING" =>
         /\ doc.nextsigner \in 1..(Len(doc.signers) + 1)
         /\ doc.signedhash = SignatureTo(doc.signers, doc.nextsigner - 1)
    /\ doc.state = "FINALIZED" => doc.nextsigner > Len(doc.signers)

\* u is the signer whose turn it is after the signature.
InTurn(signers, u, signature) ==
  Present(signers) =>
    \E k \in DOMAIN signers : signers[k] = u /\ signature = SignatureTo(signers, k - 1)

(* However old a form is, it offered the signature to the one whose turn    *)
(* that was, and equal signatures are followed by the same signer.  This is *)
(* what the server's comparison of the form with the row rests on.          *)
FormInTurn(u, form, docs) ==
  form.dochash # <<>> =>
    /\ docs[form.doc].state # "ABSENT"
    /\ InTurn(docs[form.doc].signers, u, form.dochash)

RequestInOrder(r, docs) ==
  /\ docs[r.doc].state # "ABSENT" /\ r.row.state # "ABSENT"
  /\ r.row.hash = docs[r.doc].hash /\ r.row.signers = docs[r.doc].signers
  /\ r.step \in {"start_lookup", "start_send", "start_save"} =>
       r.row.nextsigner = 1 /\ r.row.state = "PENDING"
  /\ r.step \in {"sign_lookup", "sign_send", "sign_save"} =>
       /\ RowInOrder(r.row) /\ r.row.signedhash # <<>>
       /\ r.signature = Append(r.row.signedhash, r.user)
       /\ InTurn(r.row.signers, r.user, r.row.signedhash)
  /\ r.step \in {"end_send", "end_save"} =>
       (Present(r.row.signers) => r.row.nextsigner > Len(r.row.signers))

SignedInTurn(tx, docs) ==
  tx.op = "op_sign" =>
    \E d \in Docs :
      /\ docs[d].state # "ABSENT" /\ docs[d].hash = tx.hash
      /\ Present(docs[d].signers) =>
           \E k \in DOMAIN docs[d].signers :
             docs[d].signers[k] = tx.signer /\ tx.signature = SignatureTo(docs[d].signers, k)

OrderInv ==
  /\ TypeInv
  /\ \A d \in Docs : /\ RowInOrder(documents[d])
                     /\ documents[d].state = "ABSENT" => documents[d] = Absent
  /\ \A u \in Users : \A form \in forms[u] : FormInTurn(u, form, documents)
  /\ \A t \in Threads : request[t].step # "idle" => RequestInOrder(request[t], documents)
  /\ \A i \in DOMAIN ledger : SignedInTurn(ledger[i], documents)

LEMMA OrderInvInit == Init => OrderInv
<1> SUFFICES ASSUME Init PROVE OrderInv
  OBVIOUS
<1>1. TypeInv
  BY TypeInvInit
<1>2. \A d \in Docs : documents[d] = Absent /\ RowInOrder(documents[d])
  BY DEF Init, Absent, RowInOrder
<1> QED
  BY <1>1, <1>2 DEF Init, OrderInv, NoRequest

(* A document, once uploaded, keeps its hash and its list; then all that    *)
(* was said of forms, requests and the ledger is true of the new rows.      *)
ListsStay ==
  \A d \in Docs : documents[d].state # "ABSENT" =>
    /\ documents'[d].state # "ABSENT"
    /\ documents'[d].hash = documents[d].hash
    /\ documents'[d].signers = documents[d].signers

LEMMA OrderStep ==
  ASSUME OrderInv, TypeInv', ListsStay,
         \A d \in Docs : \/ documents'[d] = documents[d]
                         \/ RowInOrder(documents'[d]) /\ documents'[d].state # "ABSENT",
         \A u \in Users : \A form \in forms'[u] :
           form \in forms[u] \/ FormInTurn(u, form, documents),
         \A t \in Threads : request'[t].step # "idle" =>
           \/ request[t].step # "idle" /\ request'[t] = request[t]
           \/ RequestInOrder(request'[t], documents'),
         \A i \in DOMAIN ledger' :
           \/ i \in DOMAIN ledger /\ ledger'[i] = ledger[i]
           \/ SignedInTurn(ledger'[i], documents)
  PROVE  OrderInv'
<1>1. \A d \in Docs : /\ RowInOrder(documents'[d])
                      /\ documents'[d].state = "ABSENT" => documents'[d] = Absent
  BY DEF OrderInv
<1>2. ASSUME NEW u \in Users, NEW form \in forms'[u]
      PROVE  FormInTurn(u, form, documents')
  <2>1. FormInTurn(u, form, documents) /\ form.doc \in Docs
    BY DEF OrderInv, TypeInv, TypeOK, Form
  <2> QED
    BY <2>1 DEF FormInTurn, ListsStay
<1>3. ASSUME NEW t \in Threads, request'[t].step # "idle"
      PROVE  RequestInOrder(request'[t], documents')
  <2>1. CASE RequestInOrder(request'[t], documents')
    BY <2>1
  <2>2. CASE request[t].step # "idle" /\ request'[t] = request[t]
    <3>1. request[t].doc \in Docs /\ RequestInOrder(request[t], documents)
      BY <2>2, BusyHasRequest DEF OrderInv, Request
    <3> QED
      BY <2>2, <3>1 DEF RequestInOrder, ListsStay
  <2> QED
    BY <1>3, <2>1, <2>2
<1>4. ASSUME NEW i \in DOMAIN ledger'
      PROVE  SignedInTurn(ledger'[i], documents')
  <2>1. SignedInTurn(ledger'[i], documents)
    BY DEF OrderInv
  <2> QED
    BY <2>1 DEF SignedInTurn, ListsStay
<1> QED
  BY <1>1, <1>2, <1>3, <1>4 DEF OrderInv

----------------------------------------------------------------------------
(* The actions. *)

\* What the index page offers is offered to the one whose turn it is.
LEMMA OfferedInTurn ==
  ASSUME OrderInv, NEW u \in Users, NEW form \in PendentForms(u)
  PROVE  FormInTurn(u, form, documents)
<1>1. PICK d \in Docs : /\ CurrentSigner(documents[d]) = u
                        /\ form.doc = d /\ form.dochash = documents[d].signedhash
  BY DEF PendentForms
<1> DEFINE doc == documents[d]
<1>2. doc \in Document /\ RowInOrder(doc) /\ (doc.state = "ABSENT" => doc.signedhash = <<>>)
  BY DEF OrderInv, TypeInv, TypeOK, Absent
<1>3. doc.nextsigner \in DOMAIN doc.signers /\ doc.signers[doc.nextsigner] = u
  BY <1>1, IdentitiesDiffer DEF CurrentSigner
<1> HIDE DEF doc
<1>4. ASSUME doc.signedhash # <<>>, Present(doc.signers)
      PROVE  doc.signedhash = SignatureTo(doc.signers, doc.nextsigner - 1)
  <2>1. doc.state \in {"PENDING", "FINALIZED"} /\ doc.signers \in Seq(Users \cup {NoUser})
    BY <1>2, <1>4 DEF Document
  <2>2. doc.nextsigner \in 1..Len(doc.signers)
    BY <1>3, <2>1
  <2>3. ~(doc.nextsigner > Len(doc.signers))
    BY <2>1, <2>2
  <2> QED
    BY <1>2, <1>4, <2>1, <2>3 DEF RowInOrder
<1>5. InTurn(doc.signers, u, doc.signedhash) \/ doc.signedhash = <<>>
  BY <1>3, <1>4 DEF InTurn
<1> QED
  BY <1>1, <1>2, <1>5 DEF FormInTurn, doc

LEMMA LoadIndexOrder ==
  ASSUME OrderInv, TypeInv', NEW u \in Users, LoadIndex(u)
  PROVE  OrderInv'
<1>1. UNCHANGED <<documents, ledger, request>>
  BY DEF LoadIndex, rows, chain
<1>2. ASSUME NEW x \in Users, NEW form \in forms'[x]
      PROVE  form \in forms[x] \/ FormInTurn(x, form, documents)
  <2>1. form \in forms[x] \/ (x = u /\ form \in PendentForms(u))
    BY DEF LoadIndex, OrderInv, TypeInv, TypeOK
  <2> QED
    BY <2>1, OfferedInTurn
<1> QED
  BY <1>1, <1>2, OrderStep DEF ListsStay

\* A page that is left offers nothing.
LEMMA LeaveOrder ==
  ASSUME OrderInv, NEW u \in Users, Leave(u)
  PROVE  \A x \in Users : \A form \in forms'[x] : form \in forms[x]
BY DEF Leave, OrderInv, TypeInv, TypeOK

LEMMA BeginOrder ==
  ASSUME OrderInv, NEW t \in Threads, NEW step \in Steps, NEW u, NEW d, NEW doc,
         NEW signature, Begin(t, step, u, d, doc, signature)
  PROVE  /\ request'[t] = [step |-> step, doc |-> d, user |-> u, signature |-> signature,
                           row |-> doc, table |-> EmptyTable]
         /\ \A x \in Threads : x # t => request'[x] = request[x]
BY DEF Begin, OrderInv, TypeInv, TypeOK

LEMMA NewSignatureOrder ==
  ASSUME OrderInv, TypeInv', NEW t \in Threads, NEW u \in Users, NEW d \in Docs,
         NewSignature(t, u, d)
  PROVE  OrderInv'
<1>1. UNCHANGED ledger /\ documents[d].state = "ABSENT"
  BY DEF NewSignature, chain
<1>2. \A x \in Users : \A form \in forms'[x] : form \in forms[x]
  BY LeaveOrder DEF NewSignature
<1>3. PICK h, signers :
        /\ documents' = [documents EXCEPT ![d] = NewDocument(h, signers)]
        /\ \/ UNCHANGED request
           \/ Begin(t, "start_lookup", u, d, NewDocument(h, signers), PlatformSignature)
  BY DEF NewSignature
<1> DEFINE doc == NewDocument(h, signers)
<1>4. doc.state = "PENDING" /\ doc.nextsigner = 1 /\ RowInOrder(doc)
  BY DEF NewDocument, RowInOrder
<1> HIDE DEF doc
<1>5. /\ documents'[d] = doc
      /\ \A x \in Docs : x # d => documents'[x] = documents[x]
  BY <1>3 DEF doc, OrderInv, TypeInv, TypeOK
<1>6. ListsStay
  BY <1>1, <1>5 DEF ListsStay
<1>7. ASSUME NEW x \in Threads, request'[x].step # "idle"
      PROVE  \/ request[x].step # "idle" /\ request'[x] = request[x]
             \/ RequestInOrder(request'[x], documents')
  <2>1. CASE UNCHANGED request
    BY <1>7, <2>1
  <2>2. CASE Begin(t, "start_lookup", u, d, doc, PlatformSignature)
    <3>1. /\ request'[t] = [step |-> "start_lookup", doc |-> d, user |-> u,
                            signature |-> PlatformSignature, row |-> doc, table |-> EmptyTable]
          /\ \A y \in Threads : y # t => request'[y] = request[y]
      BY <2>2, BeginOrder DEF Steps
    <3>2. RequestInOrder(request'[t], documents')
      BY <1>4, <1>5, <3>1 DEF RequestInOrder
    <3> QED
      BY <1>7, <3>1, <3>2
  <2> QED
    BY <1>3, <2>1, <2>2 DEF doc
<1> QED
  BY <1>1, <1>2, <1>4, <1>5, <1>6, <1>7, OrderStep

LEMMA SignDocumentOrder ==
  ASSUME OrderInv, TypeInv', NEW t \in Threads, NEW u \in Users, NEW form \in forms[u],
         SignDocument(t, u, form)
  PROVE  OrderInv'
<1>1. UNCHANGED <<documents, ledger>> /\ form.doc \in Docs
  BY DEF SignDocument, rows, chain, OrderInv, TypeInv, TypeOK, Form
<1>2. \A x \in Users : \A f \in forms'[x] : f \in forms[x]
  BY LeaveOrder DEF SignDocument
<1>3. ASSUME NEW x \in Threads, request'[x].step # "idle"
      PROVE  \/ request[x].step # "idle" /\ request'[x] = request[x]
             \/ RequestInOrder(request'[x], documents')
  <2>1. CASE UNCHANGED request
    BY <1>3, <2>1
  <2>2. CASE /\ form.dochash # <<>> /\ documents[form.doc].signedhash = form.dochash
             /\ Begin(t, "sign_lookup", u, form.doc, documents[form.doc],
                      Append(form.dochash, u))
    <3> DEFINE doc == documents[form.doc]
    <3>1. /\ request'[t] = [step |-> "sign_lookup", doc |-> form.doc, user |-> u,
                            signature |-> Append(form.dochash, u), row |-> doc,
                            table |-> EmptyTable]
          /\ \A y \in Threads : y # t => request'[y] = request[y]
      BY <2>2, BeginOrder DEF Steps
    <3>2. RowInOrder(doc) /\ FormInTurn(u, form, documents)
      BY <1>1 DEF OrderInv
    <3>3. RequestInOrder(request'[t], documents)
      BY <2>2, <3>1, <3>2 DEF RequestInOrder, FormInTurn
    <3> QED
      BY <1>1, <1>3, <3>1, <3>3
  <2> QED
    BY <2>1, <2>2 DEF SignDocument
<1> QED
  BY <1>1, <1>2, <1>3, OrderStep DEF ListsStay

\* A request that goes on without a save: its table may change, and its step becomes the
\* next one of the same phase.
GoesOn(t, step) ==
  /\ <<request[t].step, step>> \in
       {<<"start_lookup", "start_send">>, <<"start_send", "start_save">>,
        <<"sign_lookup", "sign_send">>, <<"sign_send", "sign_save">>,
        <<"end_send", "end_save">>}
  /\ request'[t].step = step /\ request'[t].doc = request[t].doc
  /\ request'[t].user = request[t].user /\ request'[t].signature = request[t].signature
  /\ request'[t].row = request[t].row
  /\ \A x \in Threads : x # t => request'[x] = request[x]

LEMMA GoOnOrder ==
  ASSUME OrderInv, NEW t \in Threads, request[t].step # "idle", NEW step, GoesOn(t, step)
  PROVE  \A x \in Threads : request'[x].step # "idle" =>
           \/ request[x].step # "idle" /\ request'[x] = request[x]
           \/ RequestInOrder(request'[x], documents)
<1>1. RequestInOrder(request[t], documents)
  BY DEF OrderInv
<1>2. RequestInOrder(request'[t], documents)
  BY <1>1 DEF RequestInOrder, GoesOn
<1> QED
  BY <1>2 DEF GoesOn

LEMMA LookupChaincodeOrder ==
  ASSUME OrderInv, TypeInv', NEW t \in Threads, NEW step, NEW next,
         <<step, next>> \in {<<"start_lookup", "start_send">>, <<"sign_lookup", "sign_send">>},
         LookupChaincode(t, step, next)
  PROVE  OrderInv'
<1>1. UNCHANGED <<documents, ledger, forms>> /\ request[t].step # "idle"
  BY DEF LookupChaincode, rows, chain
<1>2. request \in [Threads -> Request \cup {NoRequest}] /\ request[t] \in Request
  BY <1>1, BusyHasRequest DEF OrderInv, TypeInv, TypeOK
<1>3. GoesOn(t, next)
  BY <1>2 DEF GoesOn, LookupChaincode, Request
<1>4. \A x \in Threads : request'[x].step # "idle" =>
        \/ request[x].step # "idle" /\ request'[x] = request[x]
        \/ RequestInOrder(request'[x], documents)
  BY <1>1, <1>3, GoOnOrder
<1> QED
  BY <1>1, <1>4, OrderStep DEF ListsStay

\* What a step that sends a transaction adds to the ledger.
LEMMA SendOrder ==
  ASSUME OrderInv, NEW op, NEW signer, NEW h, NEW signature, Send(op, signer, h, signature),
         NEW i \in DOMAIN ledger'
  PROVE  \/ i \in DOMAIN ledger /\ ledger'[i] = ledger[i]
         \/ ledger'[i] = [id |-> nextId, op |-> op, signer |-> signer,
                          hash |-> h, signature |-> signature]
<1> DEFINE tx == [id |-> nextId, op |-> op, signer |-> signer,
                  hash |-> h, signature |-> signature]
<1>1. ledger \in Seq(Transaction)
  BY DEF OrderInv, TypeInv, TypeOK
<1>2. CASE ledger' = Append(ledger, tx)
  <2> HIDE DEF tx
  <2>1. /\ DOMAIN ledger' = 1..(Len(ledger) + 1) /\ DOMAIN ledger = 1..Len(ledger)
        /\ Len(ledger) \in Nat /\ ledger'[Len(ledger) + 1] = tx
        /\ \A j \in 1..Len(ledger) : ledger'[j] = ledger[j]
    BY <1>1, <1>2
  <2>2. i \in 1..Len(ledger) \/ i = Len(ledger) + 1
    BY <2>1
  <2>3. (i \in DOMAIN ledger /\ ledger'[i] = ledger[i]) \/ ledger'[i] = tx
    BY <2>1, <2>2
  <2> QED
    BY <2>3 DEF tx
<1>3. CASE UNCHANGED ledger
  BY <1>3
<1> QED
  BY <1>2, <1>3 DEF Send

LEMMA StartOpOrder ==
  ASSUME OrderInv, TypeInv', NEW t \in Threads, StartOp(t)
  PROVE  OrderInv'
<1>1. UNCHANGED <<documents, forms>> /\ request[t].step = "start_send"
  BY DEF StartOp, rows
<1>2. request[t] \in Request
  BY <1>1, BusyHasRequest DEF OrderInv
<1>3. \A i \in DOMAIN ledger' :
        \/ i \in DOMAIN ledger /\ ledger'[i] = ledger[i]
        \/ ledger'[i].op = "op_start"
  <2>1. Send("op_start", Platform, request[t].row.hash, PlatformSignature)
    BY DEF StartOp
  <2> QED
    BY <2>1, SendOrder
<1>4. GoesOn(t, "start_save")
  <2>1. request \in [Threads -> Request \cup {NoRequest}]
    BY DEF OrderInv, TypeInv, TypeOK
  <2> QED
    BY <1>1, <1>2, <2>1 DEF GoesOn, StartOp, Request
<1>5. \A x \in Threads : request'[x].step # "idle" =>
        \/ request[x].step # "idle" /\ request'[x] = request[x]
        \/ RequestInOrder(request'[x], documents)
  BY <1>1, <1>4, GoOnOrder
<1>6. \A i \in DOMAIN ledger' : \/ i \in DOMAIN ledger /\ ledger'[i] = ledger[i]
                                \/ SignedInTurn(ledger'[i], documents)
  BY <1>3 DEF SignedInTurn
<1> QED
  BY <1>1, <1>5, <1>6, OrderStep DEF ListsStay

\* The signature of the user whose turn it is, is the next one of the list.
LEMMA NextSignature ==
  ASSUME NEW signers \in Seq(Users \cup {NoUser}), NEW u, NEW signature,
         Present(signers), InTurn(signers, u, signature)
  PROVE  \E k \in 1..Len(signers) :
           /\ signers[k] = u /\ signature = SignatureTo(signers, k - 1)
           /\ Append(signature, u) = SignatureTo(signers, k)
<1>1. PICK k \in DOMAIN signers : signers[k] = u /\ signature = SignatureTo(signers, k - 1)
  BY DEF InTurn
<1>2. k \in 1..Len(signers)
  OBVIOUS
<1>3. SignatureTo(signers, k) = Append(SignatureTo(signers, k - 1), signers[k])
  BY <1>2, SignatureToFacts
<1> QED
  BY <1>1, <1>2, <1>3

LEMMA SendAndRecordOrder ==
  ASSUME OrderInv, TypeInv', NEW t \in Threads, SignOp(t) \/ EndOp(t)
  PROVE  OrderInv'
<1> DEFINE r == request[t]
           h == r.row.hash
<1>1. /\ UNCHANGED <<documents, forms>>
      /\ r.step \in {"sign_send", "end_send"}
  BY DEF SignOp, EndOp, SendAndRecord, rows
<1>2. r \in Request /\ RequestInOrder(r, documents)
  BY <1>1, BusyHasRequest DEF OrderInv
<1>3. request \in [Threads -> Request \cup {NoRequest}]
  BY DEF OrderInv, TypeInv, TypeOK
<1>4. \A x \in Threads : request'[x].step # "idle" =>
        \/ request[x].step # "idle" /\ request'[x] = request[x]
        \/ RequestInOrder(request'[x], documents)
  <2>1. CASE Finish(t)
    BY <1>3, <2>1 DEF Finish, NoRequest
  <2>2. CASE SignOp(t) /\ ~Finish(t)
    <3>1. GoesOn(t, "sign_save")
      BY <2>2, SignOpStep DEF GoesOn, KeepsRow, OrderInv
    <3> QED
      BY <1>1, <3>1, GoOnOrder
  <2>3. CASE EndOp(t) /\ ~Finish(t)
    <3>1. GoesOn(t, "end_save")
      BY <2>3, EndOpStep DEF GoesOn, KeepsRow, OrderInv
    <3> QED
      BY <1>1, <3>1, GoOnOrder
  <2> QED
    BY <2>1, <2>2, <2>3
<1>5. ASSUME NEW i \in DOMAIN ledger'
      PROVE  \/ i \in DOMAIN ledger /\ ledger'[i] = ledger[i]
             \/ SignedInTurn(ledger'[i], documents)
  <2>1. CASE SignOp(t)
    <3>1. r.step = "sign_send" /\ Send("op_sign", r.user, h, r.signature)
      BY <2>1 DEF SignOp, SendAndRecord
    <3>2. \/ i \in DOMAIN ledger /\ ledger'[i] = ledger[i]
          \/ ledger'[i] = [id |-> nextId, op |-> "op_sign", signer |-> r.user,
                           hash |-> h, signature |-> r.signature]
      BY <3>1, SendOrder
    <3> DEFINE signers == documents[r.doc].signers
    <3>3. /\ r.doc \in Docs /\ signers \in Seq(Users \cup {NoUser})
          /\ r.row.signers = signers /\ documents[r.doc].hash = h
          /\ documents[r.doc].state # "ABSENT"
      BY <1>2 DEF RequestInOrder, Request, Document
    <3>4. /\ r.signature = Append(r.row.signedhash, r.user)
          /\ InTurn(signers, r.user, r.row.signedhash)
      BY <1>2, <3>1, <3>3 DEF RequestInOrder
    <3> HIDE DEF signers
    <3>5. Present(signers) => \E k \in 1..Len(signers) :
            signers[k] = r.user /\ r.signature = SignatureTo(signers, k)
      <4> SUFFICES ASSUME Present(signers)
                   PROVE  \E k \in 1..Len(signers) :
                            signers[k] = r.user /\ r.signature = SignatureTo(signers, k)
        OBVIOUS
      <4>1. PICK k \in 1..Len(signers) :
                 /\ signers[k] = r.user
                 /\ Append(r.row.signedhash, r.user) = SignatureTo(signers, k)
        BY <3>3, <3>4, NextSignature
      <4> QED
        BY <3>4, <4>1
    <3>6. DOMAIN signers = 1..Len(signers)
      BY <3>3
    <3>7. ASSUME NEW tx, tx = [id |-> nextId, op |-> "op_sign", signer |-> r.user,
                               hash |-> h, signature |-> r.signature]
          PROVE  SignedInTurn(tx, documents)
      <4>1. tx.op = "op_sign" /\ tx.signer = r.user /\ tx.hash = h /\ tx.signature = r.signature
        BY <3>7
      <4> QED
        BY <3>3, <3>5, <3>6, <4>1 DEF SignedInTurn, signers
    <3> QED
      BY <3>2, <3>7
  <2>2. CASE EndOp(t)
    <3>1. Send("op_end", Platform, h, PlatformSignature)
      BY <2>2 DEF EndOp, SendAndRecord
    <3>2. (i \in DOMAIN ledger /\ ledger'[i] = ledger[i]) \/ ledger'[i].op = "op_end"
      BY <3>1, SendOrder
    <3> QED
      BY <3>2 DEF SignedInTurn
  <2> QED
    BY <2>1, <2>2
<1> QED
  BY <1>1, <1>4, <1>5, OrderStep DEF ListsStay

\* A save of a row in order that has the list and the hash of the request's copy.
LEMMA FlushOrder ==
  ASSUME OrderInv, TypeInv', NEW t \in Threads, request[t].step # "idle", NEW doc,
         Flush(t, doc), RowInOrder(doc), doc.state # "ABSENT",
         doc.hash = request[t].row.hash, doc.signers = request[t].row.signers,
         \/ Finish(t)
         \/ /\ request' = [request EXCEPT ![t].step = "end_send", ![t].row = doc]
            /\ Present(doc.signers) => doc.nextsigner > Len(doc.signers)
  PROVE  OrderInv'
<1> DEFINE r == request[t]
<1>1. r \in Request /\ RequestInOrder(r, documents) /\ r.doc \in Docs
  BY BusyHasRequest DEF OrderInv, Request
<1>2. /\ UNCHANGED <<ledger, forms>>
      /\ documents'[r.doc] = doc
      /\ \A d \in Docs : d # r.doc => documents'[d] = documents[d]
  BY <1>1 DEF Flush, chain, OrderInv, TypeInv, TypeOK
<1>3. ListsStay
  BY <1>1, <1>2 DEF ListsStay, RequestInOrder
<1>4. ASSUME NEW x \in Threads, request'[x].step # "idle"
      PROVE  \/ request[x].step # "idle" /\ request'[x] = request[x]
             \/ RequestInOrder(request'[x], documents')
  <2>1. CASE Finish(t)
    BY <1>4, <2>1 DEF Finish, NoRequest, OrderInv, TypeInv, TypeOK
  <2>2. CASE /\ request' = [request EXCEPT ![t].step = "end_send", ![t].row = doc]
             /\ Present(doc.signers) => doc.nextsigner > Len(doc.signers)
    <3>1. request \in [Threads -> Request \cup {NoRequest}]
      BY DEF OrderInv, TypeInv, TypeOK
    <3>2. \A y \in Threads : y # t => request'[y] = request[y]
      BY <2>2, <3>1
    <3>3. /\ request'[t].step = "end_send" /\ request'[t].row = doc
          /\ request'[t].doc = r.doc
      BY <1>1, <2>2, <3>1 DEF Request
    <3>4. RequestInOrder(request'[t], documents')
      BY <1>1, <1>2, <2>2, <3>3 DEF RequestInOrder
    <3> QED
      BY <1>4, <3>2, <3>4
  <2> QED
    BY <2>1, <2>2
<1> QED
  BY <1>2, <1>3, <1>4, OrderStep

LEMMA SaveStartOrder ==
  ASSUME OrderInv, TypeInv', NEW t \in Threads, SaveStart(t)
  PROVE  OrderInv'
<1> DEFINE row == request[t].row
           doc == [row EXCEPT !.signedhash = PlatformSignature]
<1>1. request[t].step = "start_save" /\ Flush(t, doc) /\ Finish(t)
  BY DEF SaveStart
<1>2. request[t] \in Request /\ RequestInOrder(request[t], documents)
  BY <1>1, BusyHasRequest DEF OrderInv
<1>3. /\ doc.hash = row.hash /\ doc.signers = row.signers /\ doc.state = "PENDING"
      /\ doc.nextsigner = 1 /\ doc.signedhash = PlatformSignature
      /\ row.signers \in Seq(Users \cup {NoUser})
  BY <1>1, <1>2 DEF RequestInOrder, Request, Document
<1>4. SignatureTo(row.signers, 0) = PlatformSignature
  BY <1>3, SignatureToFacts
<1> HIDE DEF doc
<1>5. 1 \in 1..(Len(doc.signers) + 1) /\ doc.nextsigner - 1 = 0
  BY <1>3
<1>6. RowInOrder(doc)
  BY <1>3, <1>4, <1>5 DEF RowInOrder
<1> QED
  BY <1>1, <1>3, <1>6, FlushOrder

LEMMA SaveEndOrder ==
  ASSUME OrderInv, TypeInv', NEW t \in Threads, SaveEnd(t)
  PROVE  OrderInv'
<1> DEFINE row == request[t].row
           doc == [row EXCEPT !.signedhash = PlatformSignature, !.state = "FINALIZED"]
<1>1. request[t].step = "end_save" /\ Flush(t, doc) /\ Finish(t)
  BY DEF SaveEnd
<1>2. request[t] \in Request /\ RequestInOrder(request[t], documents)
  BY <1>1, BusyHasRequest DEF OrderInv
<1>3. /\ doc.hash = row.hash /\ doc.signers = row.signers /\ doc.state = "FINALIZED"
      /\ doc.nextsigner = row.nextsigner
      /\ Present(row.signers) => row.nextsigner > Len(row.signers)
  BY <1>1, <1>2 DEF RequestInOrder, Request, Document
<1> HIDE DEF doc
<1>4. RowInOrder(doc)
  BY <1>3 DEF RowInOrder
<1> QED
  BY <1>1, <1>3, <1>4, FlushOrder

\* A pending copy is signed by the one whose turn it is after the signature it carries,
\* which is the signer it comes to next: the lengths of the signatures agree.
LEMMA SignedRowInOrder ==
  ASSUME NEW row \in Document, NEW u, RowInOrder(row), row.signedhash # <<>>,
         row.state # "ABSENT", InTurn(row.signers, u, row.signedhash)
  PROVE  LET doc == SignedBy(row, Append(row.signedhash, u))
         IN  /\ RowInOrder(doc) /\ doc.state = row.state
             /\ doc.hash = row.hash /\ doc.signers = row.signers
             /\ CurrentSigner(doc) = NoUser /\ Present(doc.signers) =>
                  doc.nextsigner > Len(doc.signers)
<1> DEFINE doc == SignedBy(row, Append(row.signedhash, u))
           signers == row.signers
           n == row.nextsigner
<1>1. /\ doc.state = row.state /\ doc.hash = row.hash /\ doc.signers = signers
      /\ doc.nextsigner = n + 1 /\ doc.signedhash = Append(row.signedhash, u)
  BY DEF SignedBy, Document
<1>2. signers \in Seq(Users \cup {NoUser}) /\ n \in Nat /\ row.state \in {"PENDING", "FINALIZED"}
  BY DEF Document
<1> HIDE DEF doc
<1>3. CurrentSigner(doc) = NoUser /\ Present(signers) => n + 1 > Len(signers)
  <2> SUFFICES ASSUME CurrentSigner(doc) = NoUser, Present(signers), ~(n + 1 > Len(signers))
               PROVE  FALSE
    OBVIOUS
  <2>1. n + 1 \in DOMAIN signers
    BY <1>2
  <2> QED
    BY <1>1, <2>1 DEF CurrentSigner, Present
<1>4. ASSUME Present(signers), row.state = "PENDING"
      PROVE  /\ n + 1 \in 1..(Len(signers) + 1)
             /\ Append(row.signedhash, u) = SignatureTo(signers, n)
  <2>1. PICK k \in 1..Len(signers) : /\ row.signedhash = SignatureTo(signers, k - 1)
                                     /\ Append(row.signedhash, u) = SignatureTo(signers, k)
    BY <1>2, <1>4, NextSignature
  <2>2. n \in 1..(Len(signers) + 1) /\ row.signedhash = SignatureTo(signers, n - 1)
    BY <1>4 DEF RowInOrder
  <2>3. k - 1 \in 0..Len(signers) /\ n - 1 \in 0..Len(signers)
    BY <1>2, <2>2
  <2>4. Len(row.signedhash) = (k - 1) + 1 /\ Len(row.signedhash) = (n - 1) + 1
    BY <1>2, <2>1, <2>2, <2>3, SignatureToFacts
  <2>5. k = n
    BY <2>2, <2>4
  <2> QED
    BY <1>2, <2>1, <2>5
<1>5. row.state = "FINALIZED" /\ Present(signers) => n + 1 > Len(signers)
  BY <1>2 DEF RowInOrder
<1>6. (n + 1) - 1 = n
  BY <1>2
<1>7. RowInOrder(doc)
  BY <1>1, <1>4, <1>5, <1>6 DEF RowInOrder
<1> QED
  BY <1>1, <1>3, <1>7 DEF doc

LEMMA SaveSignatureOrder ==
  ASSUME OrderInv, TypeInv', NEW t \in Threads, SaveSignature(t)
  PROVE  OrderInv'
<1> DEFINE r == request[t]
           doc == SignedBy(r.row, r.signature)
<1>1. /\ r.step = "sign_save" /\ Flush(t, doc)
      /\ \/ Finish(t)
         \/ /\ CurrentSigner(doc) = NoUser
            /\ request' = [request EXCEPT ![t].step = "end_send", ![t].row = doc]
  BY DEF SaveSignature
<1>2. r \in Request /\ RequestInOrder(r, documents)
  BY <1>1, BusyHasRequest DEF OrderInv
<1>3. /\ r.row \in Document /\ RowInOrder(r.row) /\ r.row.signedhash # <<>>
      /\ r.row.state # "ABSENT" /\ r.signature = Append(r.row.signedhash, r.user)
      /\ InTurn(r.row.signers, r.user, r.row.signedhash)
  BY <1>1, <1>2 DEF RequestInOrder, Request
<1>4. /\ RowInOrder(doc) /\ doc.state # "ABSENT"
      /\ doc.hash = r.row.hash /\ doc.signers = r.row.signers
      /\ CurrentSigner(doc) = NoUser /\ Present(doc.signers) =>
           doc.nextsigner > Len(doc.signers)
  BY <1>3, SignedRowInOrder
<1> HIDE DEF doc
<1> QED
  BY <1>1, <1>4, FlushOrder

LEMMA OrderInvNext == OrderInv /\ [Next]_vars => OrderInv'
<1> SUFFICES ASSUME OrderInv, [Next]_vars PROVE OrderInv'
  OBVIOUS
<1>1. TypeInv'
  BY TypeInvNext DEF OrderInv
<1>2. CASE \E u \in Users : LoadIndex(u)
  BY <1>1, <1>2, LoadIndexOrder
<1>3. CASE \E t \in Threads, u \in Users, d \in Docs : NewSignature(t, u, d)
  BY <1>1, <1>3, NewSignatureOrder
<1>4. CASE \E t \in Threads, u \in Users : \E form \in forms[u] : SignDocument(t, u, form)
  BY <1>1, <1>4, SignDocumentOrder
<1>5. ASSUME NEW t \in Threads, Proceed(t) PROVE OrderInv'
  BY <1>1, <1>5, LookupChaincodeOrder, StartOpOrder, SaveStartOrder, SendAndRecordOrder,
     SaveSignatureOrder, SaveEndOrder DEF Proceed
<1>6. ASSUME NEW t \in Threads, RequestFails(t) PROVE OrderInv'
  <2>1. UNCHANGED <<documents, ledger, forms>>
    BY <1>6 DEF RequestFails, chain, rows
  <2>2. \A x \in Threads : request'[x].step # "idle" => request'[x] = request[x]
    BY <1>6 DEF RequestFails, Finish, NoRequest, OrderInv, TypeInv, TypeOK
  <2> QED
    BY <1>1, <2>1, <2>2, OrderStep DEF ListsStay
<1>7. CASE UNCHANGED vars
  BY <1>1, <1>7, OrderStep DEF vars, ListsStay
<1> QED
  BY <1>2, <1>3, <1>4, <1>5, <1>6, <1>7 DEF Next

----------------------------------------------------------------------------
LEMMA OrderSigned ==
  ASSUME OrderInv
  PROVE  SignaturesFollowTheList
<1> SUFFICES ASSUME NEW i \in DOMAIN ledger, ledger[i].op = "op_sign",
                    \A d \in WithHash(ledger[i].hash) : AllPresent(documents[d])
             PROVE  \E d \in Docs : \E k \in DOMAIN documents[d].signers :
                      /\ documents[d].hash = ledger[i].hash
                      /\ documents[d].signers[k] = ledger[i].signer
                      /\ ledger[i].signature = SignatureOf(documents[d], k)
  BY DEF SignaturesFollowTheList
<1>1. SignedInTurn(ledger[i], documents)
  BY DEF OrderInv
<1>2. PICK d \in Docs :
        /\ documents[d].hash = ledger[i].hash
        /\ Present(documents[d].signers) =>
             \E k \in DOMAIN documents[d].signers :
               /\ documents[d].signers[k] = ledger[i].signer
               /\ ledger[i].signature = SignatureTo(documents[d].signers, k)
  BY <1>1 DEF SignedInTurn
<1>3. Present(documents[d].signers)
  BY <1>2 DEF WithHash, AllPresent, Present
<1> QED
  BY <1>2, <1>3 DEF SignatureOf, SignatureTo

\* Nobody signs out of turn: although the server never asks whose turn it is, every user's
\* signature on the ledger is that of the first signers of a document's list, in order.
THEOREM SignersInOrder == Spec => []SignaturesFollowTheList
<1>1. OrderInv => SignaturesFollowTheList
  BY OrderSigned
<1> QED
  BY <1>1, OrderInvInit, OrderInvNext, PTL DEF Spec

\* However stale the copies that requests save, a pending row carries the signature of
\* exactly the signers it has passed.
THEOREM PendingRowsConsistent == Spec => []PendingRowIsConsistent
<1>1. OrderInv => PendingRowIsConsistent
  BY DEF OrderInv, RowInOrder, PendingRowIsConsistent, AllPresent, Present, SignatureOf,
         SignatureTo
<1> QED
  BY <1>1, OrderInvInit, OrderInvNext, PTL DEF Spec

----------------------------------------------------------------------------
(* A document is FINALIZED only after its signers signed, while the orderer *)
(* loses nothing.  Once it was finalized, saves of stale copies may reopen  *)
(* it and signers may sign again, but what the ledger has stays.  Until     *)
(* then its row, the forms that offer it and the copies that requests hold  *)
(* follow the list, however old they are: the inductive invariant.          *)

\* The ledger has the last signature of the document, and an op_end after it.
Done(d) ==
  LET signers == documents[d].signers
      hash == documents[d].hash
  IN  \E k \in DOMAIN signers, i, j \in DOMAIN ledger :
        /\ k = Len(signers) \/ signers[k + 1] = NoUser
        /\ ledger[i].hash = hash /\ ledger[i].signature = SignatureTo(signers, k)
        /\ ledger[j].hash = hash /\ ledger[j].op = "op_end" /\ i < j

RowOrderly(doc) ==
  /\ doc.state # "FINALIZED"
  /\ doc.signedhash # <<>> =>
       /\ doc.nextsigner \in 1..(Len(doc.signers) + 1)
       /\ doc.signedhash = SignatureTo(doc.signers, doc.nextsigner - 1)

\* The user of the form is the signer whose turn it was after the signature it offers.
FormOrderly(u, form, signers) ==
  form.dochash # <<>> =>
    \E k \in DOMAIN signers : signers[k] = u /\ form.dochash = SignatureTo(signers, k - 1)

\* The copy signed is one whose turn has come to the user; the copy to end has passed its
\* last signer, whose signature is on the ledger; none has an op_end on the ledger.
RequestOrderly(r) ==
  LET signers == r.row.signers
      n == r.row.nextsigner
  IN  /\ r.row.state = "PENDING"
      /\ r.step \in {"sign_lookup", "sign_send", "sign_save"} =>
           n \in DOMAIN signers /\ r.signature = SignatureTo(signers, n)
      /\ r.step = "end_send" =>
           /\ n \in 2..(Len(signers) + 1) /\ CurrentSigner(r.row) = NoUser
           /\ Known(r.row.hash, SignatureTo(signers, n - 1))
      /\ r.step # "end_save"

Orderly(d) ==
  /\ RowOrderly(documents[d])
  /\ \A u \in Users : \A form \in forms[u] :
       form.doc = d => FormOrderly(u, form, documents[d].signers)
  /\ \A t \in Threads : request[t].step # "idle" /\ request[t].doc = d =>
       RequestOrderly(request[t])

FinalInv ==
  /\ OrderInv
  /\ ChainInv
  /\ \A d \in Docs : Done(d) \/ Orderly(d)

LEMMA FinalInvInit == Init => FinalInv
<1> SUFFICES ASSUME Init PROVE FinalInv
  OBVIOUS
<1>1. OrderInv /\ ChainInv
  BY OrderInvInit, ChainInvInit
<1>2. \A d \in Docs : RowOrderly(documents[d])
  BY DEF Init, Absent, RowOrderly
<1> QED
  BY <1>1, <1>2 DEF Init, FinalInv, Orderly, NoRequest

LedgerKeeps == \A i \in DOMAIN ledger : i \in DOMAIN ledger' /\ ledger'[i] = ledger[i]

LEMMA DoneStays ==
  ASSUME OrderInv, ListsStay, LedgerKeeps, NEW d \in Docs, Done(d)
  PROVE  Done(d)'
<1>1. documents[d].state # "ABSENT"
  <2> SUFFICES ASSUME documents[d] = Absent PROVE FALSE
    BY DEF OrderInv
  <2>1. DOMAIN documents[d].signers = {}
    BY DEF Absent
  <2> QED
    BY <2>1 DEF Done
<1>2. documents'[d].signers = documents[d].signers /\ documents'[d].hash = documents[d].hash
  BY <1>1 DEF ListsStay
<1> QED
  BY <1>2 DEF Done, LedgerKeeps

\* A step, document by document: what is new is orderly if what there was is, unless the
\* document is done afterwards.
LEMMA FinalStep ==
  ASSUME FinalInv, OrderInv', ChainInv', ListsStay, LedgerKeeps,
         \A d \in Docs : Orderly(d) => documents'[d] = documents[d] \/ RowOrderly(documents'[d]),
         \A u \in Users : \A form \in forms'[u] :
           \/ form \in forms[u]
           \/ Orderly(form.doc) => FormOrderly(u, form, documents[form.doc].signers),
         \A t \in Threads : request'[t].step # "idle" =>
           \/ request[t].step # "idle" /\ request'[t] = request[t]
           \/ Orderly(request'[t].doc) =>
                (Done(request[t].doc) \/ RequestOrderly(request[t]))'
  PROVE  FinalInv'
<1> SUFFICES ASSUME NEW d \in Docs, ~(Done(d)') PROVE Orderly(d)'
  BY DEF FinalInv
<1>1. Orderly(d)
  BY DoneStays DEF FinalInv
<1>2. RowOrderly(documents'[d])
  BY <1>1 DEF Orderly
<1>3. ASSUME NEW u \in Users, NEW form \in forms'[u], form.doc = d
      PROVE  FormOrderly(u, form, documents'[d].signers)
  <2>1. FormOrderly(u, form, documents[d].signers)
    BY <1>1, <1>3 DEF Orderly
  <2>2. documents[d].state = "ABSENT" => DOMAIN documents[d].signers = {}
    BY DEF FinalInv, OrderInv, Absent
  <2> QED
    BY <2>1, <2>2 DEF FormOrderly, ListsStay
<1>4. ASSUME NEW t \in Threads, request'[t].step # "idle", request'[t].doc = d
      PROVE  RequestOrderly(request[t])'
  <2>1. CASE request[t].step # "idle" /\ request'[t] = request[t]
    <3>1. RequestOrderly(request[t])
      BY <1>1, <1>4, <2>1 DEF Orderly
    <3>2. \A h, s : Known(h, s) => Known(h, s)'
      BY DEF Known, LedgerKeeps
    <3> QED
      BY <2>1, <3>1, <3>2 DEF RequestOrderly
  <2>2. CASE ~(request[t].step # "idle" /\ request'[t] = request[t])
    BY <1>1, <1>4, <2>2
  <2> QED
    BY <2>1, <2>2
<1> QED
  BY <1>2, <1>3, <1>4 DEF Orderly

----------------------------------------------------------------------------
(* What every step keeps. *)

LEMMA LedgerIsKept ==
  ASSUME TypeInv, [Next]_vars
  PROVE  LedgerKeeps
<1>1. ledger \in Seq(Transaction)
  BY DEF TypeInv, TypeOK
<1>2. ASSUME NEW op, NEW signer, NEW h, NEW signature, Send(op, signer, h, signature)
      PROVE  LedgerKeeps
  <2> DEFINE tx == [id |-> nextId, op |-> op, signer |-> signer,
                    hash |-> h, signature |-> signature]
  <2>1. ledger' = Append(ledger, tx) \/ UNCHANGED ledger
    BY <1>2 DEF Send
  <2> HIDE DEF tx
  <2> QED
    BY <1>1, <2>1 DEF LedgerKeeps
<1>3. CASE UNCHANGED ledger
  BY <1>3 DEF LedgerKeeps
<1>4. ASSUME NEW t \in Threads, StartOp(t) PROVE LedgerKeeps
  <2>1. Send("op_start", Platform, request[t].row.hash, PlatformSignature)
    BY <1>4 DEF StartOp
  <2> QED
    BY <1>2, <2>1
<1>5. ASSUME NEW t \in Threads, SignOp(t) \/ EndOp(t) PROVE LedgerKeeps
  BY <1>2, <1>5 DEF SignOp, EndOp, SendAndRecord
<1> QED
  BY <1>3, <1>4, <1>5 DEF Next, vars, Proceed, LoadIndex, NewSignature, SignDocument,
     LookupChaincode, SaveStart, SaveSignature, SaveEnd, Flush, RequestFails, chain

\* What a save writes has the hash and the list of the row.
LEMMA SavesKeepLists ==
  ASSUME OrderInv, NEW t \in Threads, request[t].step # "idle", NEW doc, Flush(t, doc),
         doc.hash = request[t].row.hash, doc.signers = request[t].row.signers,
         doc.state # "ABSENT"
  PROVE  /\ ListsStay
         /\ documents'[request[t].doc] = doc
         /\ \A d \in Docs : d # request[t].doc => documents'[d] = documents[d]
<1>1. request[t] \in Request /\ RequestInOrder(request[t], documents)
  BY BusyHasRequest DEF OrderInv
<1>2. /\ documents'[request[t].doc] = doc
      /\ \A d \in Docs : d # request[t].doc => documents'[d] = documents[d]
  BY <1>1 DEF Flush, OrderInv, TypeInv, TypeOK, Request
<1> QED
  BY <1>1, <1>2 DEF ListsStay, RequestInOrder

----------------------------------------------------------------------------
(* The actions. *)

LEMMA LoadIndexFinal ==
  ASSUME FinalInv, OrderInv', ChainInv', NEW u \in Users, LoadIndex(u)
  PROVE  FinalInv'
<1>1. UNCHANGED <<documents, ledger, request>>
  BY DEF LoadIndex, rows, chain
<1>2. ASSUME NEW form \in PendentForms(u), Orderly(form.doc)
      PROVE  FormOrderly(u, form, documents[form.doc].signers)
  <2>1. PICK d \in Docs : /\ CurrentSigner(documents[d]) = u
                          /\ form.doc = d /\ form.dochash = documents[d].signedhash
    BY DEF PendentForms
  <2>2. /\ documents[d].nextsigner \in DOMAIN documents[d].signers
        /\ documents[d].signers[documents[d].nextsigner] = u
    BY <2>1, IdentitiesDiffer DEF CurrentSigner
  <2> QED
    BY <1>2, <2>1, <2>2 DEF Orderly, RowOrderly, FormOrderly
<1>3. ASSUME NEW x \in Users, NEW form \in forms'[x]
      PROVE  \/ form \in forms[x]
             \/ Orderly(form.doc) => FormOrderly(x, form, documents[form.doc].signers)
  <2>1. form \in forms[x] \/ (x = u /\ form \in PendentForms(u))
    BY DEF LoadIndex, FinalInv, OrderInv, TypeInv, TypeOK
  <2> QED
    BY <1>2, <2>1
<1>4. ListsStay /\ LedgerKeeps
  BY <1>1 DEF ListsStay, LedgerKeeps
<1> QED
  BY <1>1, <1>3, <1>4, FinalStep

LEMMA NewSignatureFinal ==
  ASSUME FinalInv, OrderInv', ChainInv', NEW t \in Threads, NEW u \in Users, NEW d \in Docs,
         NewSignature(t, u, d)
  PROVE  FinalInv'
<1>1. UNCHANGED ledger /\ documents[d].state = "ABSENT" /\ OrderInv
  BY DEF NewSignature, chain, FinalInv
<1>2. \A x \in Users : \A form \in forms'[x] : form \in forms[x]
  BY <1>1, LeaveOrder DEF NewSignature
<1>3. PICK h, signers :
        /\ documents' = [documents EXCEPT ![d] = NewDocument(h, signers)]
        /\ \/ UNCHANGED request
           \/ Begin(t, "start_lookup", u, d, NewDocument(h, signers), PlatformSignature)
  BY DEF NewSignature
<1> DEFINE doc == NewDocument(h, signers)
<1>4. doc.state = "PENDING" /\ RowOrderly(doc)
  BY DEF NewDocument, RowOrderly
<1> HIDE DEF doc
<1>5. /\ documents'[d] = doc
      /\ \A x \in Docs : x # d => documents'[x] = documents[x]
  BY <1>1, <1>3 DEF doc, OrderInv, TypeInv, TypeOK
<1>6. ListsStay /\ LedgerKeeps
  BY <1>1, <1>5 DEF ListsStay, LedgerKeeps
<1>7. ASSUME NEW x \in Threads, request'[x].step # "idle"
      PROVE  \/ request[x].step # "idle" /\ request'[x] = request[x]
             \/ RequestOrderly(request[x])'
  <2>1. CASE UNCHANGED request
    BY <1>7, <2>1
  <2>2. CASE Begin(t, "start_lookup", u, d, doc, PlatformSignature)
    <3>1. /\ request'[t] = [step |-> "start_lookup", doc |-> d, user |-> u,
                            signature |-> PlatformSignature, row |-> doc, table |-> EmptyTable]
          /\ \A y \in Threads : y # t => request'[y] = request[y]
      BY <1>1, <2>2, BeginOrder DEF Steps
    <3>2. RequestOrderly(request[t])'
      BY <1>4, <3>1 DEF RequestOrderly
    <3> QED
      BY <1>7, <3>1, <3>2
  <2> QED
    BY <1>3, <2>1, <2>2 DEF doc
<1> QED
  BY <1>2, <1>4, <1>5, <1>6, <1>7, FinalStep

LEMMA SignDocumentFinal ==
  ASSUME FinalInv, OrderInv', ChainInv', NEW t \in Threads, NEW u \in Users,
         NEW form \in forms[u], SignDocument(t, u, form)
  PROVE  FinalInv'
<1>1. UNCHANGED <<documents, ledger>> /\ form.doc \in Docs /\ OrderInv
  BY DEF SignDocument, rows, chain, FinalInv, OrderInv, TypeInv, TypeOK, Form
<1>2. \A x \in Users : \A f \in forms'[x] : f \in forms[x]
  BY <1>1, LeaveOrder DEF SignDocument
<1>3. ListsStay /\ LedgerKeeps
  BY <1>1 DEF ListsStay, LedgerKeeps
<1>4. ASSUME NEW x \in Threads, request'[x].step # "idle"
      PROVE  \/ request[x].step # "idle" /\ request'[x] = request[x]
             \/ Orderly(request'[x].doc) => RequestOrderly(request[x])'
  <2>1. CASE UNCHANGED request
    BY <1>4, <2>1
  <2>2. CASE /\ form.dochash # <<>> /\ documents[form.doc].signedhash = form.dochash
             /\ Begin(t, "sign_lookup", u, form.doc, documents[form.doc],
                      Append(form.dochash, u))
    <3> DEFINE doc == documents[form.doc]
               signers == doc.signers
               n == doc.nextsigner
    <3>1. /\ request'[t] = [step |-> "sign_lookup", doc |-> form.doc, user |-> u,
                            signature |-> Append(form.dochash, u), row |-> doc,
                            table |-> EmptyTable]
          /\ \A y \in Threads : y # t => request'[y] = request[y]
      BY <1>1, <2>2, BeginOrder DEF Steps
    <3>2. ASSUME Orderly(form.doc)
          PROVE  /\ doc.state = "PENDING" /\ n \in DOMAIN signers
                 /\ Append(form.dochash, u) = SignatureTo(signers, n)
      <4>1. doc \in Document /\ signers \in Seq(Users \cup {NoUser})
        BY <1>1 DEF OrderInv, TypeInv, TypeOK, Document
      <4>2. doc.state = "PENDING"
        <5>1. doc.state # "ABSENT"
          BY <1>1, <2>2 DEF OrderInv, Absent
        <5> QED
          BY <3>2, <4>1, <5>1 DEF Orderly, RowOrderly, Document
      <4>3. n \in 1..(Len(signers) + 1) /\ form.dochash = SignatureTo(signers, n - 1)
        BY <2>2, <3>2 DEF Orderly, RowOrderly
      <4>4. PICK k \in DOMAIN signers :
              signers[k] = u /\ form.dochash = SignatureTo(signers, k - 1)
        BY <2>2, <3>2 DEF Orderly, FormOrderly
      <4> HIDE DEF doc, signers, n
      <4>5. k \in 1..Len(signers) /\ k - 1 \in 0..Len(signers) /\ n - 1 \in 0..Len(signers)
        BY <4>1, <4>3
      <4>6. Len(form.dochash) = (k - 1) + 1 /\ Len(form.dochash) = (n - 1) + 1
        BY <4>1, <4>3, <4>4, <4>5, SignatureToFacts
      <4>7. k = n
        BY <4>3, <4>5, <4>6
      <4>8. SignatureTo(signers, k) = Append(SignatureTo(signers, k - 1), signers[k])
        BY <4>1, <4>5, SignatureToFacts
      <4> QED
        BY <4>2, <4>4, <4>7, <4>8
    <3>3. Orderly(form.doc) => RequestOrderly(request[t])'
      BY <3>1, <3>2 DEF RequestOrderly
    <3> QED
      BY <1>4, <3>1, <3>3
  <2> QED
    BY <2>1, <2>2 DEF SignDocument
<1> QED
  BY <1>1, <1>2, <1>3, <1>4, FinalStep

\* A request that goes on, before it sends an op_end.
LEMMA GoOnFinal ==
  ASSUME FinalInv, OrderInv', ChainInv', NEW t \in Threads, request[t].step # "idle",
         UNCHANGED <<documents, forms>>, LedgerKeeps,
         \/ Finish(t)
         \/ \E step \in Steps \ {"end_save"} : GoesOn(t, step)
  PROVE  FinalInv'
<1>1. request \in [Threads -> Request \cup {NoRequest}]
  BY DEF FinalInv, OrderInv, TypeInv, TypeOK
<1>2. CASE Finish(t)
  <2>1. \A x \in Threads : request'[x].step # "idle" =>
          request[x].step # "idle" /\ request'[x] = request[x]
    BY <1>1, <1>2 DEF Finish, NoRequest
  <2> QED
    BY <2>1, FinalStep DEF ListsStay
<1>3. CASE \E step \in Steps \ {"end_save"} : GoesOn(t, step)
  <2>1. PICK step \in Steps \ {"end_save"} : GoesOn(t, step)
    BY <1>3
  <2>2. ASSUME Orderly(request[t].doc) PROVE RequestOrderly(request[t])'
    <3>1. RequestOrderly(request[t])
      BY <2>2 DEF Orderly
    <3>2. step \in {"start_send", "start_save", "sign_send", "sign_save"}
          /\ (step \in {"sign_send", "sign_save"} =>
                request[t].step \in {"sign_lookup", "sign_send", "sign_save"})
      BY <2>1 DEF GoesOn
    <3> QED
      BY <2>1, <3>1, <3>2 DEF RequestOrderly, GoesOn
  <2>3. \A x \in Threads : x # t => request'[x] = request[x]
    BY <2>1 DEF GoesOn
  <2>4. request'[t].doc = request[t].doc
    BY <2>1 DEF GoesOn
  <2> QED
    BY <2>2, <2>3, <2>4, FinalStep DEF ListsStay
<1> QED
  BY <1>2, <1>3

\* The request that sends the op_end finds the last signature on the ledger.
LEMMA EndOpFinal ==
  ASSUME ~LossyOrderer, FinalInv, OrderInv', ChainInv', NEW t \in Threads, EndOp(t),
         LedgerKeeps
  PROVE  FinalInv'
<1> DEFINE r == request[t]
           d == r.doc
           signers == r.row.signers
           n == r.row.nextsigner
<1>1. r.step = "end_send" /\ UNCHANGED <<documents, forms>>
  BY DEF EndOp, SendAndRecord, rows
<1>2. /\ r \in Request /\ RequestInOrder(r, documents) /\ ledger \in Seq(Transaction)
      /\ request \in [Threads -> Request \cup {NoRequest}]
  BY <1>1, BusyHasRequest DEF FinalInv, OrderInv, TypeInv, TypeOK
<1>3. /\ signers \in Seq(Users \cup {NoUser})
      /\ documents[d].signers = signers /\ documents[d].hash = r.row.hash
  BY <1>2 DEF RequestInOrder, Request, Document
<1>4. ASSUME Orderly(d), NEW e, e = d PROVE Done(e)'
  <2>1. RequestOrderly(r)
    BY <1>1, <1>4 DEF Orderly
  <2>2. /\ n \in 2..(Len(signers) + 1) /\ CurrentSigner(r.row) = NoUser
        /\ Known(r.row.hash, SignatureTo(signers, n - 1))
    BY <1>1, <2>1 DEF RequestOrderly
  <2>3. PICK i \in DOMAIN ledger : /\ ledger[i].hash = r.row.hash
                                   /\ ledger[i].signature = SignatureTo(signers, n - 1)
    BY <2>2 DEF Known
  <2> DEFINE k == n - 1
  <2>4. /\ k \in DOMAIN signers /\ (k = Len(signers) \/ k + 1 \in DOMAIN signers)
        /\ k + 1 = n
    BY <1>3, <2>2
  <2>5. k = Len(signers) \/ signers[k + 1] = NoUser
    BY <2>2, <2>4 DEF CurrentSigner
  <2>6. Send("op_end", Platform, r.row.hash, PlatformSignature)
    BY DEF EndOp, SendAndRecord
  <2> DEFINE tx == [id |-> nextId, op |-> "op_end", signer |-> Platform,
                    hash |-> r.row.hash, signature |-> PlatformSignature]
             j == Len(ledger) + 1
  <2>7. ledger' = Append(ledger, tx) /\ tx.op = "op_end" /\ tx.hash = r.row.hash
    BY <2>6 DEF Send
  <2> HIDE DEF tx
  <2>8. j \in DOMAIN ledger' /\ ledger'[j] = tx /\ i < j
    BY <1>2, <2>7
  <2> HIDE DEF j, k
  <2>9. i \in DOMAIN ledger' /\ ledger'[i] = ledger[i]
    BY DEF LedgerKeeps
  <2>10. documents'[d].signers = signers /\ documents'[d].hash = r.row.hash
    BY <1>1, <1>3
  <2>11. ledger'[i].signature = SignatureTo(signers, k)
    BY <2>3, <2>9 DEF k
  <2> QED
    BY <1>4, <2>3, <2>4, <2>5, <2>7, <2>8, <2>9, <2>10, <2>11 DEF Done
<1>5. ASSUME NEW x \in Threads, request'[x].step # "idle"
      PROVE  \/ request[x].step # "idle" /\ request'[x] = request[x]
             \/ Orderly(request'[x].doc) => Done(request[x].doc)'
  <2>1. CASE x # t
    BY <1>2, <1>5, <2>1 DEF EndOp, SendAndRecord, Finish
  <2>2. CASE x = t
    <3>0. TypeInv
      BY DEF FinalInv, OrderInv
    <3>1. request'[t].doc = d
      BY <1>5, <2>2, <3>0, EndOpStep DEF KeepsRow
    <3>2. PICK e : e = d
      OBVIOUS
    <3>3. Orderly(d) => Done(e)'
      BY <1>4, <3>2
    <3>4. Done(e)' => Done(request[t].doc)'
      BY <3>1, <3>2
    <3> QED
      BY <2>2, <3>1, <3>3, <3>4
  <2> QED
    BY <2>1, <2>2
<1> QED
  BY <1>1, <1>5, FinalStep DEF ListsStay

LEMMA SendsFinal ==
  ASSUME FinalInv, OrderInv', ChainInv', NEW t \in Threads, LedgerKeeps,
         \/ LookupChaincode(t, "start_lookup", "start_send") \/ StartOp(t)
         \/ LookupChaincode(t, "sign_lookup", "sign_send") \/ SignOp(t)
  PROVE  FinalInv'
<1>1. request[t].step # "idle" /\ UNCHANGED <<documents, forms>>
  BY DEF LookupChaincode, StartOp, SignOp, SendAndRecord, rows
<1>2. request[t] \in Request /\ request \in [Threads -> Request \cup {NoRequest}]
  BY <1>1, BusyHasRequest DEF FinalInv, OrderInv, TypeInv, TypeOK
<1>3. CASE LookupChaincode(t, "start_lookup", "start_send")
  <2>1. GoesOn(t, "start_send")
    BY <1>2, <1>3 DEF GoesOn, LookupChaincode, Request
  <2> QED
    BY <1>1, <2>1, GoOnFinal DEF Steps
<1>4. CASE StartOp(t)
  <2>1. GoesOn(t, "start_save")
    BY <1>2, <1>4 DEF GoesOn, StartOp, Request
  <2> QED
    BY <1>1, <2>1, GoOnFinal DEF Steps
<1>5. CASE LookupChaincode(t, "sign_lookup", "sign_send")
  <2>1. GoesOn(t, "sign_send")
    BY <1>2, <1>5 DEF GoesOn, LookupChaincode, Request
  <2> QED
    BY <1>1, <2>1, GoOnFinal DEF Steps
<1>6. CASE SignOp(t)
  <2>1. GoesOn(t, "sign_save") \/ Finish(t)
    BY <1>6, SignOpStep DEF GoesOn, KeepsRow, FinalInv, OrderInv
  <2> QED
    BY <1>1, <2>1, GoOnFinal DEF Steps
<1> QED
  BY <1>3, <1>4, <1>5, <1>6

\* A save of a row that is orderly if the request is.
LEMMA SaveFinal ==
  ASSUME FinalInv, OrderInv', ChainInv', NEW t \in Threads, request[t].step # "idle",
         NEW doc, Flush(t, doc), doc.hash = request[t].row.hash,
         doc.signers = request[t].row.signers, doc.state # "ABSENT",
         RequestOrderly(request[t]) => RowOrderly(doc),
         \/ Finish(t)
         \/ /\ request' = [request EXCEPT ![t].step = "end_send", ![t].row = doc]
            /\ RequestOrderly(request[t]) => RequestOrderly(request[t])'
  PROVE  FinalInv'
<1>1. /\ ListsStay /\ documents'[request[t].doc] = doc
      /\ \A d \in Docs : d # request[t].doc => documents'[d] = documents[d]
  BY SavesKeepLists DEF FinalInv
<1>2. UNCHANGED <<ledger, forms>> /\ LedgerKeeps
  BY DEF Flush, chain, LedgerKeeps
<1>3. Orderly(request[t].doc) => RequestOrderly(request[t])
  BY DEF Orderly
<1>4. \A d \in Docs : Orderly(d) => documents'[d] = documents[d] \/ RowOrderly(documents'[d])
  BY <1>1, <1>3
<1>5. request \in [Threads -> Request \cup {NoRequest}] /\ request[t] \in Request
  BY BusyHasRequest DEF FinalInv, OrderInv, TypeInv, TypeOK
<1>6. ASSUME NEW x \in Threads, request'[x].step # "idle"
      PROVE  \/ request[x].step # "idle" /\ request'[x] = request[x]
             \/ Orderly(request'[x].doc) => RequestOrderly(request[x])'
  <2>1. CASE Finish(t)
    BY <1>5, <1>6, <2>1 DEF Finish, NoRequest
  <2>2. CASE /\ request' = [request EXCEPT ![t].step = "end_send", ![t].row = doc]
             /\ RequestOrderly(request[t]) => RequestOrderly(request[t])'
    <3>1. request'[t].doc = request[t].doc /\ \A y \in Threads : y # t => request'[y] = request[y]
      BY <1>5, <2>2 DEF Request
    <3> QED
      BY <1>3, <1>6, <2>2, <3>1
  <2> QED
    BY <2>1, <2>2
<1> QED
  BY <1>1, <1>2, <1>4, <1>6, FinalStep

LEMMA SavesFinal ==
  ASSUME FinalInv, OrderInv', ChainInv', NEW t \in Threads,
         SaveStart(t) \/ SaveSignature(t) \/ SaveEnd(t)
  PROVE  FinalInv'
<1> DEFINE r == request[t]
<1>1. r.step # "idle"
  BY DEF SaveStart, SaveSignature, SaveEnd
<1>2. /\ r \in Request /\ r.row \in Document /\ RequestInOrder(r, documents)
      /\ r.row.signers \in Seq(Users \cup {NoUser}) /\ r.row.state # "ABSENT"
      /\ request \in [Threads -> Request \cup {NoRequest}]
  BY <1>1, BusyHasRequest DEF FinalInv, OrderInv, TypeInv, TypeOK, Request, Document,
     RequestInOrder
<1>3. CASE SaveStart(t)
  <2> DEFINE doc == [r.row EXCEPT !.signedhash = PlatformSignature]
  <2>1. r.step = "start_save" /\ Flush(t, doc) /\ Finish(t)
    BY <1>3 DEF SaveStart
  <2>2. /\ doc.hash = r.row.hash /\ doc.signers = r.row.signers
        /\ doc.nextsigner = 1 /\ doc.state = "PENDING"
        /\ doc.signedhash = SignatureTo(doc.signers, 0)
    BY <1>2, <2>1, SignatureToFacts DEF RequestInOrder, Document
  <2> HIDE DEF doc
  <2>3. RowOrderly(doc)
    <3>1. 1 \in 1..(Len(doc.signers) + 1) /\ doc.nextsigner - 1 = 0
      BY <1>2, <2>2
    <3> QED
      BY <2>2, <3>1 DEF RowOrderly
  <2> QED
    BY <1>1, <2>1, <2>2, <2>3, SaveFinal
<1>4. CASE SaveSignature(t)
  <2> DEFINE doc == SignedBy(r.row, r.signature)
             n == r.row.nextsigner
  <2>1. /\ r.step = "sign_save" /\ Flush(t, doc)
        /\ \/ Finish(t)
           \/ /\ CurrentSigner(doc) = NoUser
              /\ request' = [request EXCEPT ![t].step = "end_send", ![t].row = doc]
    BY <1>4 DEF SaveSignature
  <2>2. /\ doc.hash = r.row.hash /\ doc.signers = r.row.signers /\ doc.state = r.row.state
        /\ doc.nextsigner = n + 1 /\ doc.signedhash = r.signature
    BY <1>2 DEF SignedBy, Document
  <2> HIDE DEF doc
  <2>3. ASSUME RequestOrderly(r)
        PROVE  /\ doc.state = "PENDING" /\ doc.nextsigner \in 2..(Len(doc.signers) + 1)
               /\ doc.nextsigner - 1 = n /\ doc.signedhash = SignatureTo(doc.signers, n)
    <3>1. n \in DOMAIN r.row.signers
          /\ r.signature = SignatureTo(r.row.signers, n) /\ r.row.state = "PENDING"
      BY <2>1, <2>3 DEF RequestOrderly
    <3> QED
      BY <1>2, <2>2, <3>1
  <2>4. RequestOrderly(r) => RowOrderly(doc)
    BY <2>3 DEF RowOrderly
  <2>5. ASSUME RequestOrderly(r), CurrentSigner(doc) = NoUser,
               request' = [request EXCEPT ![t].step = "end_send", ![t].row = doc]
        PROVE  RequestOrderly(r)'
    <3>1. request'[t].step = "end_send" /\ request'[t].row = doc
      BY <1>2, <2>5 DEF Request
    <3>2. Known(doc.hash, doc.signedhash)
      BY <2>1, <2>2 DEF FinalInv, ChainInv, RequestKnown
    <3>3. UNCHANGED ledger
      BY <2>1 DEF Flush, chain
    <3>4. PICK j \in DOMAIN ledger : /\ ledger[j].hash = doc.hash
                                     /\ ledger[j].signature = SignatureTo(doc.signers, n)
      BY <2>3, <2>5, <3>2 DEF Known
    <3> QED
      BY <2>3, <2>5, <3>1, <3>3, <3>4 DEF RequestOrderly, Known
  <2> QED
    BY <1>1, <1>2, <2>1, <2>2, <2>4, <2>5, SaveFinal
<1>5. CASE SaveEnd(t)
  <2> DEFINE doc == [r.row EXCEPT !.signedhash = PlatformSignature, !.state = "FINALIZED"]
  <2>1. r.step = "end_save" /\ Flush(t, doc) /\ Finish(t)
    BY <1>5 DEF SaveEnd
  <2>2. /\ doc.hash = r.row.hash /\ doc.signers = r.row.signers /\ doc.state = "FINALIZED"
    BY <1>2 DEF Document
  <2> HIDE DEF doc
  <2>3. ~RequestOrderly(r)
    BY <2>1 DEF RequestOrderly
  <2> QED
    BY <1>1, <2>1, <2>2, <2>3, SaveFinal
<1> QED
  BY <1>3, <1>4, <1>5

LEMMA FinalInvNext ==
  ASSUME ~LossyOrderer, FinalInv, [Next]_vars
  PROVE  FinalInv'
<1>1. OrderInv' /\ ChainInv' /\ LedgerKeeps
  BY OrderInvNext, ChainInvNext, LedgerIsKept DEF FinalInv, OrderInv
<1>2. CASE \E u \in Users : LoadIndex(u)
  BY <1>1, <1>2, LoadIndexFinal
<1>3. CASE \E t \in Threads, u \in Users, d \in Docs : NewSignature(t, u, d)
  BY <1>1, <1>3, NewSignatureFinal
<1>4. CASE \E t \in Threads, u \in Users : \E form \in forms[u] : SignDocument(t, u, form)
  BY <1>1, <1>4, SignDocumentFinal
<1>5. CASE \E t \in Threads : Proceed(t)
  BY <1>1, <1>5, SendsFinal, EndOpFinal, SavesFinal DEF Proceed
<1>6. ASSUME NEW t \in Threads, RequestFails(t) PROVE FinalInv'
  BY <1>1, <1>6, GoOnFinal DEF RequestFails, Idle, rows
<1>7. CASE UNCHANGED vars
  BY <1>1, <1>7, FinalStep DEF vars, ListsStay
<1> QED
  BY <1>2, <1>3, <1>4, <1>5, <1>6, <1>7 DEF Next

LEMMA FinalSigned ==
  ASSUME FinalInv
  PROVE  FinalizedIsFullySigned
<1> SUFFICES ASSUME NEW d \in Docs, documents[d].state = "FINALIZED"
             PROVE  \E k \in DOMAIN documents[d].signers, i, j \in DOMAIN ledger :
                      /\ \/ k = Len(documents[d].signers)
                         \/ documents[d].signers[k + 1] = NoUser
                      /\ ledger[i].hash = documents[d].hash
                      /\ ledger[i].signature = SignatureOf(documents[d], k)
                      /\ ledger[j].hash = documents[d].hash
                      /\ ledger[j].op = "op_end" /\ i < j
  BY DEF FinalizedIsFullySigned
<1>1. Done(d)
  BY DEF FinalInv, Orderly, RowOrderly
<1> QED
  BY <1>1 DEF Done, SignatureOf, SignatureTo

\* Whatever stale copies are saved and forms posted twice, while the orderer loses nothing
\* a document is FINALIZED only after the last signer of its list (or the last before a
\* removed account) signed on the ledger and an op_end of its hash followed.
THEOREM FinalizedSigned == ASSUME ~LossyOrderer PROVE Spec => []FinalizedIsFullySigned
<1>1. FinalInv => FinalizedIsFullySigned
  BY FinalSigned
<1>2. FinalInv /\ [Next]_vars => FinalInv'
  BY FinalInvNext
<1> QED
  BY <1>1, <1>2, FinalInvInit, PTL DEF Spec

=============================================================================
