---------------------- MODULE SignatureHistoryProofs ----------------------
(***************************************************************************)
(* The lists of ids that the history page reads are true, for every number *)
(* of users, documents, files and request threads, with an orderer that    *)
(* loses transactions as well as with one that does not.                   *)
(***************************************************************************)
EXTENDS DocumentSigningProofs

\* What HistoryIsTrue says of the ids of one hash, and that later ids are larger.
TrueHistory(h, ids, log, next) ==
  \A k \in DOMAIN ids :
    /\ ids[k] < next
    /\ k > 1 => ids[k - 1] < ids[k]
    /\ \A i \in DOMAIN log : log[i].id = ids[k] =>
         log[i].hash = h /\ (log[i].op = "op_start" <=> k = 1)
    /\ LossyOrderer \/ \E i \in DOMAIN log : log[i].id = ids[k]

TrueTable(table, log, next) == \A h \in Hashes : TrueHistory(h, table[h], log, next)

(* The stored table is true because it once was a request's copy.  A copy   *)
(* starts as the stored table and may be stale when it is written back, but *)
(* a list that was true stays true while the ledger grows.                  *)
HistoryInv ==
  /\ TypeInv
  /\ \A i \in DOMAIN ledger : ledger[i].id < nextId
  /\ TrueTable(idTable, ledger, nextId)
  /\ \A t \in Threads : request[t].step # "idle" =>
       TrueTable(request[t].table, ledger, nextId)

LEMMA EmptyTableIsTrue ==
  ASSUME NEW log, NEW next
  PROVE  TrueTable(EmptyTable, log, next)
BY DEF TrueTable, TrueHistory, EmptyTable

\* A transaction sent gets the next id; what was on the ledger stays.
LEMMA SendAppends ==
  ASSUME HistoryInv, NEW op \in {"op_start", "op_sign", "op_end"},
         NEW signer \in Users \cup {Platform}, NEW h \in Hashes, NEW signature \in Signatures,
         Send(op, signer, h, signature)
  PROVE  /\ nextId \in Nat /\ nextId' = nextId + 1
         /\ \A i \in DOMAIN ledger : i \in DOMAIN ledger' /\ ledger'[i] = ledger[i]
         /\ \A i \in DOMAIN ledger' :
              \/ i \in DOMAIN ledger
              \/ ledger'[i].id = nextId /\ ledger'[i].hash = h /\ ledger'[i].op = op
         /\ LossyOrderer \/ \E i \in DOMAIN ledger' : ledger'[i].id = nextId
         /\ \A i \in DOMAIN ledger : ledger[i].id \in Nat
<1> DEFINE tx == [id |-> nextId, op |-> op, signer |-> signer,
                  hash |-> h, signature |-> signature]
<1>1. ledger \in Seq(Transaction) /\ nextId \in Nat /\ nextId' = nextId + 1
  BY DEF HistoryInv, TypeInv, TypeOK, Send
<1>2. \A i \in DOMAIN ledger : ledger[i].id \in Nat
  <2>1. \A i \in DOMAIN ledger : ledger[i] \in Transaction
    BY <1>1
  <2> QED
    BY <2>1 DEF Transaction
<1>3. CASE ledger' = Append(ledger, tx)
  <2>1. tx.id = nextId /\ tx.hash = h /\ tx.op = op
    OBVIOUS
  <2> HIDE DEF tx
  <2>2. DOMAIN ledger' = 1..(Len(ledger) + 1) /\ ledger'[Len(ledger) + 1] = tx
    BY <1>1, <1>3
  <2>3. \A i \in 1..Len(ledger) : ledger'[i] = ledger[i]
    BY <1>1, <1>3
  <2>4. DOMAIN ledger = 1..Len(ledger) /\ Len(ledger) \in Nat
    BY <1>1
  <2>5. \A i \in DOMAIN ledger' : i \in DOMAIN ledger \/ i = Len(ledger) + 1
    BY <2>2, <2>4
  <2> QED
    BY <1>1, <1>2, <2>1, <2>2, <2>3, <2>4, <2>5
<1>4. CASE LossyOrderer /\ UNCHANGED ledger
  BY <1>1, <1>2, <1>4
<1> QED
  BY <1>3, <1>4 DEF Send

\* What a step that sends a transaction does to true lists of ids: they stay true, the
\* list that start_op puts is true, and so is one that sign_op or end_op adds to.
LEMMA SendKeepsHistories ==
  ASSUME HistoryInv, NEW op \in {"op_start", "op_sign", "op_end"},
         NEW signer \in Users \cup {Platform}, NEW h \in Hashes, NEW signature \in Signatures,
         Send(op, signer, h, signature)
  PROVE  /\ \A i \in DOMAIN ledger' : ledger'[i].id < nextId'
         /\ \A g \in Hashes, ids \in Seq(Nat) :
              TrueHistory(g, ids, ledger, nextId) => TrueHistory(g, ids, ledger', nextId')
         /\ op = "op_start" => TrueHistory(h, <<nextId>>, ledger', nextId')
         /\ \A ids \in Seq(Nat) :
              op # "op_start" /\ ids # <<>> /\ TrueHistory(h, ids, ledger, nextId) =>
                TrueHistory(h, Append(ids, nextId), ledger', nextId')
<1>1. /\ nextId \in Nat /\ nextId' = nextId + 1
      /\ \A i \in DOMAIN ledger : i \in DOMAIN ledger' /\ ledger'[i] = ledger[i]
      /\ \A i \in DOMAIN ledger' :
           \/ i \in DOMAIN ledger
           \/ ledger'[i].id = nextId /\ ledger'[i].hash = h /\ ledger'[i].op = op
      /\ LossyOrderer \/ \E i \in DOMAIN ledger' : ledger'[i].id = nextId
      /\ \A i \in DOMAIN ledger : ledger[i].id \in Nat
  BY SendAppends
<1>2. \A i \in DOMAIN ledger : ledger[i].id < nextId
  BY DEF HistoryInv
<1>3. \A i \in DOMAIN ledger' : ledger'[i].id < nextId'
  BY <1>1, <1>2
<1>4. ASSUME NEW g \in Hashes, NEW ids \in Seq(Nat), TrueHistory(g, ids, ledger, nextId)
      PROVE  TrueHistory(g, ids, ledger', nextId')
  <2> SUFFICES ASSUME NEW k \in DOMAIN ids
               PROVE  /\ ids[k] < nextId'
                      /\ k > 1 => ids[k - 1] < ids[k]
                      /\ \A i \in DOMAIN ledger' : ledger'[i].id = ids[k] =>
                           ledger'[i].hash = g /\ (ledger'[i].op = "op_start" <=> k = 1)
                      /\ LossyOrderer \/ \E i \in DOMAIN ledger' : ledger'[i].id = ids[k]
    BY DEF TrueHistory
  <2>1. /\ ids[k] < nextId
        /\ k > 1 => ids[k - 1] < ids[k]
        /\ \A i \in DOMAIN ledger : ledger[i].id = ids[k] =>
             ledger[i].hash = g /\ (ledger[i].op = "op_start" <=> k = 1)
        /\ LossyOrderer \/ \E i \in DOMAIN ledger : ledger[i].id = ids[k]
    BY <1>4 DEF TrueHistory
  <2>2. ids[k] \in Nat
    OBVIOUS
  <2>3. ids[k] < nextId' /\ ids[k] # nextId
    BY <1>1, <2>1, <2>2
  <2>4. ASSUME NEW i \in DOMAIN ledger', ledger'[i].id = ids[k]
        PROVE  ledger'[i].hash = g /\ (ledger'[i].op = "op_start" <=> k = 1)
    <3>1. i \in DOMAIN ledger /\ ledger'[i] = ledger[i]
      BY <1>1, <2>3, <2>4
    <3> QED
      BY <2>1, <2>4, <3>1
  <2>5. LossyOrderer \/ \E i \in DOMAIN ledger' : ledger'[i].id = ids[k]
    BY <1>1, <2>1
  <2> QED
    BY <2>1, <2>3, <2>4, <2>5
<1>5. ASSUME NEW i \in DOMAIN ledger', ledger'[i].id = nextId
      PROVE  ledger'[i].hash = h /\ ledger'[i].op = op
  BY <1>1, <1>2, <1>5
<1>6. op = "op_start" => TrueHistory(h, <<nextId>>, ledger', nextId')
  <2> SUFFICES ASSUME op = "op_start", NEW k \in DOMAIN <<nextId>>
               PROVE  /\ <<nextId>>[k] < nextId'
                      /\ k > 1 => <<nextId>>[k - 1] < <<nextId>>[k]
                      /\ \A i \in DOMAIN ledger' : ledger'[i].id = <<nextId>>[k] =>
                           ledger'[i].hash = h /\ (ledger'[i].op = "op_start" <=> k = 1)
                      /\ LossyOrderer \/ \E i \in DOMAIN ledger' : ledger'[i].id = <<nextId>>[k]
    BY DEF TrueHistory
  <2>1. k = 1 /\ <<nextId>>[k] = nextId
    OBVIOUS
  <2> QED
    BY <1>1, <1>5, <2>1
<1>7. ASSUME NEW ids \in Seq(Nat), op # "op_start", ids # <<>>,
             TrueHistory(h, ids, ledger, nextId)
      PROVE  TrueHistory(h, Append(ids, nextId), ledger', nextId')
  <2> DEFINE new == Append(ids, nextId)
             n == Len(ids)
  <2>1. /\ n \in Nat /\ n >= 1 /\ DOMAIN ids = 1..n /\ DOMAIN new = 1..(n + 1)
        /\ new[n + 1] = nextId
        /\ \A k \in 1..n : new[k] = ids[k]
    BY <1>1, <1>7
  <2> HIDE DEF new, n
  <2>2. TrueHistory(h, ids, ledger', nextId')
    BY <1>4, <1>7
  <2> SUFFICES ASSUME NEW k \in 1..(n + 1)
               PROVE  /\ new[k] < nextId'
                      /\ k > 1 => new[k - 1] < new[k]
                      /\ \A i \in DOMAIN ledger' : ledger'[i].id = new[k] =>
                           ledger'[i].hash = h /\ (ledger'[i].op = "op_start" <=> k = 1)
                      /\ LossyOrderer \/ \E i \in DOMAIN ledger' : ledger'[i].id = new[k]
    BY <2>1 DEF TrueHistory, new
  <2>3. CASE k \in 1..n
    <3>1. new[k] = ids[k] /\ (k > 1 => k - 1 \in 1..n)
      BY <2>1, <2>3
    <3>2. k > 1 => new[k - 1] = ids[k - 1]
      BY <2>1, <3>1
    <3> QED
      BY <2>1, <2>2, <2>3, <3>1, <3>2 DEF TrueHistory
  <2>4. CASE k = n + 1
    <3>1. new[k] = nextId /\ k # 1 /\ k - 1 = n /\ n \in 1..n
      BY <2>1, <2>4
    <3>2. new[k - 1] = ids[n] /\ ids[n] < nextId
      BY <1>7, <2>1, <3>1 DEF TrueHistory
    <3>3. new[k] < nextId'
      BY <1>1, <3>1
    <3>4. ASSUME NEW i \in DOMAIN ledger', ledger'[i].id = new[k]
          PROVE  ledger'[i].hash = h /\ (ledger'[i].op = "op_start" <=> k = 1)
      BY <1>5, <1>7, <3>1, <3>4
    <3> QED
      BY <1>1, <3>1, <3>2, <3>3, <3>4
  <2> QED
    BY <2>1, <2>3, <2>4
<1> QED
  BY <1>3, <1>4, <1>6, <1>7

LEMMA HistoryInvInit == Init => HistoryInv
<1> SUFFICES ASSUME Init PROVE HistoryInv
  OBVIOUS
<1>1. TypeInv
  BY TypeInvInit
<1>2. TrueTable(idTable, ledger, nextId)
  BY EmptyTableIsTrue DEF Init
<1> QED
  BY <1>1, <1>2 DEF Init, HistoryInv, NoRequest

\* A step that sends nothing: a table that is stored or copied is one that there was, or
\* the empty one of a request that begins.
LEMMA QuietHistory ==
  ASSUME HistoryInv, TypeInv', UNCHANGED <<ledger, nextId>>,
         \/ idTable' = idTable
         \/ \E t \in Threads : request[t].step # "idle" /\ idTable' = request[t].table,
         \A t \in Threads : request'[t].step # "idle" =>
           \/ request'[t].table \in {EmptyTable, idTable}
           \/ request[t].step # "idle" /\ request'[t].table = request[t].table
  PROVE  HistoryInv'
<1>1. TrueTable(idTable', ledger', nextId')
  BY DEF HistoryInv
<1>2. ASSUME NEW t \in Threads, request'[t].step # "idle"
      PROVE  TrueTable(request'[t].table, ledger', nextId')
  BY <1>2, EmptyTableIsTrue DEF HistoryInv
<1>3. \A i \in DOMAIN ledger' : ledger'[i].id < nextId'
  BY DEF HistoryInv
<1> QED
  BY <1>1, <1>2, <1>3 DEF HistoryInv

\* A step that sends a transaction for thread t, which ends or keeps a table with one list
\* changed.
LEMMA SendingHistory ==
  ASSUME HistoryInv, TypeInv', NEW t \in Threads, request[t].step # "idle",
         NEW op \in {"op_start", "op_sign", "op_end"}, NEW signer \in Users \cup {Platform},
         NEW signature \in Signatures, NEW ids \in Seq(Nat),
         Send(op, signer, request[t].row.hash, signature), UNCHANGED idTable,
         TrueHistory(request[t].row.hash, ids, ledger', nextId'),
         \/ request'[t].step = "idle"
         \/ request'[t].table = [request[t].table EXCEPT ![request[t].row.hash] = ids],
         \A x \in Threads : x # t => request'[x] = request[x]
  PROVE  HistoryInv'
<1> DEFINE h == request[t].row.hash
<1>1. h \in Hashes /\ request[t] \in Request
  BY BusyHasRequest DEF HistoryInv
<1>2. /\ \A i \in DOMAIN ledger' : ledger'[i].id < nextId'
      /\ \A g \in Hashes, s \in Seq(Nat) :
           TrueHistory(g, s, ledger, nextId) => TrueHistory(g, s, ledger', nextId')
  BY <1>1, SendKeepsHistories
<1>3. ASSUME NEW table \in IdTable, TrueTable(table, ledger, nextId)
      PROVE  TrueTable(table, ledger', nextId')
  BY <1>2, <1>3 DEF TrueTable, IdTable
<1>4. TrueTable(idTable', ledger', nextId')
  BY <1>3 DEF HistoryInv, TypeInv, TypeOK
<1>5. ASSUME NEW x \in Threads, request'[x].step # "idle"
      PROVE  TrueTable(request'[x].table, ledger', nextId')
  <2>1. CASE x = t
    <3>1. request[t].table \in IdTable /\ TrueTable(request[t].table, ledger', nextId')
      BY <1>1, <1>3 DEF HistoryInv, Request
    <3> QED
      BY <1>1, <1>5, <2>1, <3>1 DEF TrueTable, IdTable
  <2>2. CASE x # t
    <3>1. request'[x] = request[x] /\ request[x].step # "idle"
      BY <1>5, <2>2
    <3>2. request[x].table \in IdTable
      BY <3>1, BusyHasRequest DEF HistoryInv, Request
    <3> QED
      BY <1>3, <3>1, <3>2 DEF HistoryInv
  <2> QED
    BY <2>1, <2>2
<1> QED
  BY <1>2, <1>4, <1>5 DEF HistoryInv

LEMMA StartOpHistory ==
  ASSUME HistoryInv, TypeInv', NEW t \in Threads, StartOp(t)
  PROVE  HistoryInv'
<1> DEFINE h == request[t].row.hash
<1>1. request[t].step # "idle"
  BY DEF StartOp
<1>2. request[t] \in Request /\ h \in Hashes /\ nextId \in Nat
  BY <1>1, BusyHasRequest DEF HistoryInv, TypeInv, TypeOK
<1>3. Send("op_start", Platform, h, PlatformSignature)
  BY DEF StartOp
<1>4. TrueHistory(h, <<nextId>>, ledger', nextId')
  BY <1>2, <1>3, SendKeepsHistories, SignaturesGrow
<1>5. /\ request'[t].table = [request[t].table EXCEPT ![h] = <<nextId>>]
      /\ \A x \in Threads : x # t => request'[x] = request[x]
  BY <1>2 DEF StartOp, Request, HistoryInv, TypeInv, TypeOK
<1>6. UNCHANGED idTable
  BY DEF StartOp, rows
<1>7. <<nextId>> \in Seq(Nat)
  BY <1>2
<1> QED
  BY <1>1, <1>3, <1>4, <1>5, <1>6, <1>7, SendingHistory, SignaturesGrow

LEMMA SendAndRecordHistory ==
  ASSUME HistoryInv, TypeInv', NEW t \in Threads, NEW step \in Steps, NEW next \in Steps,
         NEW op \in {"op_sign", "op_end"}, NEW signer \in Users \cup {Platform},
         NEW signature \in Signatures,
         SendAndRecord(t, step, next, op, signer, signature)
  PROVE  HistoryInv'
<1> DEFINE h == request[t].row.hash
           ids == request[t].table[h]
<1>1. request[t].step # "idle"
  BY DEF SendAndRecord, Steps
<1>2. request[t] \in Request /\ h \in Hashes /\ nextId \in Nat
  BY <1>1, BusyHasRequest DEF HistoryInv, TypeInv, TypeOK
<1>3. ids \in Seq(Nat) /\ TrueHistory(h, ids, ledger, nextId)
  BY <1>1, <1>2 DEF HistoryInv, TrueTable, Request, IdTable
<1>4. Send(op, signer, h, signature) /\ UNCHANGED idTable
  BY DEF SendAndRecord, rows
<1>5. \A x \in Threads : x # t => request'[x] = request[x]
  BY <1>2 DEF SendAndRecord, Finish, HistoryInv, TypeInv, TypeOK
<1>6. CASE ids = <<>>
  <2>1. request'[t].step = "idle"
    BY <1>6 DEF SendAndRecord, Finish, NoRequest, HistoryInv, TypeInv, TypeOK
  <2>2. TrueHistory(h, ids, ledger', nextId')
    BY <1>2, <1>3, <1>4, SendKeepsHistories
  <2> QED
    BY <1>1, <1>3, <1>4, <1>5, <2>1, <2>2, SendingHistory
<1>7. CASE ids # <<>>
  <2>1. TrueHistory(h, Append(ids, nextId), ledger', nextId')
    BY <1>2, <1>3, <1>4, <1>7, SendKeepsHistories
  <2>2. request'[t].table = [request[t].table EXCEPT ![h] = Append(ids, nextId)]
    <3>1. TypeInv
      BY DEF HistoryInv
    <3> QED
      BY <1>7, <3>1, SendAndRecordStep
  <2>3. Append(ids, nextId) \in Seq(Nat)
    BY <1>2, <1>3
  <2> DEFINE new == Append(ids, nextId)
  <2> HIDE DEF new
  <2>4. /\ TrueHistory(request[t].row.hash, new, ledger', nextId') /\ new \in Seq(Nat)
        /\ request'[t].table = [request[t].table EXCEPT ![request[t].row.hash] = new]
    BY <2>1, <2>2, <2>3 DEF new
  <2> QED
    BY <1>1, <1>4, <1>5, <2>4, SendingHistory
<1> QED
  BY <1>6, <1>7

\* A save stores the copy of the table; the request ends or goes on with it.
LEMMA SaveHistory ==
  ASSUME HistoryInv, TypeInv', NEW t \in Threads, request[t].step # "idle",
         NEW doc, Flush(t, doc),
         \/ Finish(t)
         \/ request' = [request EXCEPT ![t].step = "end_send", ![t].row = doc]
  PROVE  HistoryInv'
<1>1. UNCHANGED <<ledger, nextId>> /\ idTable' = request[t].table
  BY DEF Flush, chain
<1>2. request[t] \in Request
  BY BusyHasRequest DEF HistoryInv
<1>3. ASSUME NEW x \in Threads, request'[x].step # "idle"
      PROVE  request[x].step # "idle" /\ request'[x].table = request[x].table
  <2>1. request \in [Threads -> Request \cup {NoRequest}]
    BY DEF HistoryInv, TypeInv, TypeOK
  <2>2. CASE Finish(t)
    BY <1>3, <2>1, <2>2 DEF Finish, NoRequest
  <2>3. CASE request' = [request EXCEPT ![t].step = "end_send", ![t].row = doc]
    <3>1. x # t => request'[x] = request[x]
      BY <2>1, <2>3
    <3>2. request'[t].table = request[t].table
      BY <1>2, <2>1, <2>3 DEF Request
    <3> QED
      BY <1>3, <3>1, <3>2
  <2> QED
    BY <2>2, <2>3
<1> QED
  BY <1>1, <1>3, QuietHistory

LEMMA HistoryInvNext == HistoryInv /\ [Next]_vars => HistoryInv'
<1> SUFFICES ASSUME HistoryInv, [Next]_vars PROVE HistoryInv'
  OBVIOUS
<1>1. TypeInv'
  BY TypeInvNext DEF HistoryInv
<1>2. request \in [Threads -> Request \cup {NoRequest}]
  BY DEF HistoryInv, TypeInv, TypeOK
<1>3. ASSUME NEW u \in Users, LoadIndex(u) PROVE HistoryInv'
  BY <1>1, <1>3, QuietHistory DEF LoadIndex, rows, chain
<1>4. ASSUME NEW t \in Threads, NEW u \in Users, NEW d \in Docs, NEW doc, NEW signature,
             NEW step, Begin(t, step, u, d, doc, signature)
      PROVE  \A x \in Threads : request'[x].step # "idle" =>
               \/ request'[x].table = EmptyTable
               \/ request[x].step # "idle" /\ request'[x].table = request[x].table
  <2> DEFINE r == [step |-> step, doc |-> d, user |-> u, signature |-> signature,
                   row |-> doc, table |-> EmptyTable]
  <2>1. request' = [request EXCEPT ![t] = r] /\ r.table = EmptyTable
    BY <1>4 DEF Begin
  <2> HIDE DEF r
  <2> QED
    BY <1>2, <2>1
<1>5. ASSUME NEW t \in Threads, NEW u \in Users, NEW d \in Docs, NewSignature(t, u, d)
      PROVE  HistoryInv'
  <2>1. UNCHANGED <<ledger, nextId, idTable>>
    BY <1>5 DEF NewSignature, chain
  <2>2. CASE UNCHANGED request
    BY <1>1, <2>1, <2>2, QuietHistory
  <2>3. CASE \E doc : Begin(t, "start_lookup", u, d, doc, PlatformSignature)
    BY <1>1, <1>4, <2>1, <2>3, QuietHistory
  <2> QED
    BY <1>5, <2>2, <2>3 DEF NewSignature
<1>6. ASSUME NEW t \in Threads, NEW u \in Users, NEW form \in forms[u],
             SignDocument(t, u, form)
      PROVE  HistoryInv'
  <2>1. UNCHANGED <<ledger, nextId, idTable>> /\ form.doc \in Docs
    BY <1>6 DEF SignDocument, chain, rows, HistoryInv, TypeInv, TypeOK, Form
  <2>2. CASE UNCHANGED request
    BY <1>1, <2>1, <2>2, QuietHistory
  <2>3. CASE Begin(t, "sign_lookup", u, form.doc, documents[form.doc],
                   Append(form.dochash, u))
    BY <1>1, <1>4, <2>1, <2>3, QuietHistory
  <2> QED
    BY <1>6, <2>2, <2>3 DEF SignDocument
<1>7. ASSUME NEW t \in Threads, NEW step \in Steps, NEW next \in Steps,
             LookupChaincode(t, step, next)
      PROVE  HistoryInv'
  <2>1. UNCHANGED <<ledger, nextId, idTable>>
    BY <1>7 DEF LookupChaincode, chain, rows
  <2>2. request[t] \in Request
    BY <1>7, BusyHasRequest DEF LookupChaincode, Steps, HistoryInv
  <2>3. \A x \in Threads : \/ request'[x] = request[x]
                           \/ request'[x].table = idTable
    BY <1>2, <1>7, <2>2 DEF LookupChaincode, Request
  <2> QED
    BY <1>1, <2>1, <2>3, QuietHistory
<1>8. ASSUME NEW t \in Threads, Proceed(t) PROVE HistoryInv'
  <2>1. CASE LookupChaincode(t, "start_lookup", "start_send")
    BY <1>7, <2>1 DEF Steps
  <2>2. CASE StartOp(t)
    BY <1>1, <2>2, StartOpHistory
  <2>3. CASE SaveStart(t)
    BY <1>1, <2>3, SaveHistory DEF SaveStart
  <2>4. CASE LookupChaincode(t, "sign_lookup", "sign_send")
    BY <1>7, <2>4 DEF Steps
  <2>5. CASE SignOp(t)
    <3>1. request[t] \in Request
      BY <2>5, BusyHasRequest DEF SignOp, SendAndRecord, HistoryInv
    <3>2. request[t].user \in Users /\ request[t].signature \in Signatures
      BY <3>1 DEF Request
    <3> QED
      BY <1>1, <2>5, <3>2, SendAndRecordHistory DEF SignOp, Steps
  <2>6. CASE SaveSignature(t)
    BY <1>1, <2>6, SaveHistory DEF SaveSignature
  <2>7. CASE EndOp(t)
    BY <1>1, <2>7, SendAndRecordHistory, SignaturesGrow DEF EndOp, Steps
  <2>8. CASE SaveEnd(t)
    BY <1>1, <2>8, SaveHistory DEF SaveEnd
  <2> QED
    BY <1>8, <2>1, <2>2, <2>3, <2>4, <2>5, <2>6, <2>7, <2>8 DEF Proceed
<1>9. ASSUME NEW t \in Threads, RequestFails(t) PROVE HistoryInv'
  <2>1. UNCHANGED <<ledger, nextId, idTable>>
    BY <1>9 DEF RequestFails, chain, rows
  <2>2. \A x \in Threads : request'[x].step # "idle" => request'[x] = request[x]
    BY <1>2, <1>9 DEF RequestFails, Finish, NoRequest
  <2> QED
    BY <1>1, <2>1, <2>2, QuietHistory
<1>10. CASE UNCHANGED vars
  BY <1>1, <1>10, QuietHistory DEF vars
<1> QED
  BY <1>3, <1>5, <1>6, <1>8, <1>9, <1>10 DEF Next

\* Whatever copies of the IDHashtable are written over each other, the ids listed under a
\* hash open with an op_start of it, go on with later transactions of it, and are on the
\* ledger unless the orderer lost them.
THEOREM HistoryTrue == Spec => []HistoryIsTrue
<1>1. HistoryInv => HistoryIsTrue
  BY DEF HistoryInv, TrueTable, TrueHistory, HistoryIsTrue
<1> QED
  BY <1>1, HistoryInvInit, HistoryInvNext, PTL DEF Spec

----------------------------------------------------------------------------
(* One request at a time: nothing comes between the reading of the id lists *)
(* and the save that writes them back, so no list is ever lost.             *)

Looked == {"start_send", "start_save", "sign_send", "sign_save", "end_send", "end_save"}
Recorded == {"start_save", "sign_save", "end_send", "end_save"}

\* A copy read from the row lists every hash that the row lists, and a copy about to be
\* saved lists the hash of the document that is saved with it.
CopyLists(r, table) ==
  /\ r.step \in Looked => \A h \in Hashes : table[h] # <<>> => r.table[h] # <<>>
  /\ r.step \in Recorded => r.table[r.row.hash] # <<>>

(* With one request at a time: what the copies list, the row does not lack. *)
CopiesInv ==
  /\ TypeInv
  /\ \A t \in Threads : CopyLists(request[t], idTable)

LEMMA CopiesInvInit == Init => CopiesInv
BY TypeInvInit DEF Init, CopiesInv, CopyLists, NoRequest, Looked, Recorded

\* A step that saves no request's rows.
LEMMA NoSaveCopies ==
  ASSUME CopiesInv, TypeInv', UNCHANGED idTable,
         \A t \in Threads : request'[t] = request[t] \/ CopyLists(request'[t], idTable)
  PROVE  CopiesInv'
BY DEF CopiesInv

\* A save by the only request there is.
LEMMA SaveCopies ==
  ASSUME CopiesInv, TypeInv', \A s, t \in Threads : s = t,
         NEW t \in Threads, request[t].step \in Recorded, NEW doc, Flush(t, doc),
         doc.hash = request[t].row.hash,
         \/ Finish(t)
         \/ request' = [request EXCEPT ![t].step = "end_send", ![t].row = doc]
  PROVE  CopiesInv'
<1>1. request[t] \in Request /\ request[t].row.hash \in Hashes
  BY BusyHasRequest DEF CopiesInv, Recorded
<1>2. /\ idTable' = request[t].table
      /\ \A h \in Hashes : idTable[h] # <<>> => idTable'[h] # <<>>
      /\ idTable'[doc.hash] # <<>>
  BY DEF Flush, CopiesInv, CopyLists, Recorded, Looked
<1>3. CopyLists(request'[t], idTable')
  <2>1. request \in [Threads -> Request \cup {NoRequest}]
    BY DEF CopiesInv, TypeInv, TypeOK
  <2>2. CASE Finish(t)
    BY <2>1, <2>2 DEF Finish, NoRequest, CopyLists, Looked, Recorded
  <2>3. CASE request' = [request EXCEPT ![t].step = "end_send", ![t].row = doc]
    <3>1. request'[t].row = doc /\ request'[t].table = request[t].table
      BY <1>1, <2>1, <2>3 DEF Request
    <3> QED
      BY <1>2, <3>1 DEF CopyLists
  <2> QED
    BY <2>2, <2>3
<1> QED
  BY <1>3 DEF CopiesInv

LEMMA SendCopies ==
  ASSUME CopiesInv, TypeInv', NEW t \in Threads, NEW step \in Looked, NEW next \in Recorded,
         NEW op, NEW signer, NEW signature,
         SendAndRecord(t, step, next, op, signer, signature)
  PROVE  CopiesInv'
<1> DEFINE r == request[t]
           h == r.row.hash
<1>1. r \in Request /\ h \in Hashes /\ UNCHANGED <<documents, idTable>>
  BY BusyHasRequest DEF SendAndRecord, Looked, CopiesInv, rows
<1>2. r.table \in IdTable /\ CopyLists(r, idTable) /\ r.step = step
  BY <1>1 DEF CopiesInv, Request, SendAndRecord
<1>3. request \in [Threads -> Request \cup {NoRequest}] /\ nextId \in Nat
  BY DEF CopiesInv, TypeInv, TypeOK
<1>4. CASE Finish(t)
  <2>1. request'[t] = NoRequest /\ \A x \in Threads : x # t => request'[x] = request[x]
    BY <1>3, <1>4 DEF Finish
  <2>2. CopyLists(NoRequest, idTable)
    BY DEF CopyLists, NoRequest, Looked, Recorded
  <2> QED
    BY <1>1, <2>1, <2>2, NoSaveCopies
<1>5. CASE request' = [request EXCEPT ![t].step = next, ![t].table[h] = Append(@, nextId)]
  <2> DEFINE new == Append(r.table[h], nextId)
  <2>1. r.table[h] \in Seq(Nat)
    BY <1>1, <1>2 DEF IdTable
  <2>2. new # <<>>
    BY <1>3, <2>1
  <2> HIDE DEF new
  <2>3. /\ request'[t].row = r.row /\ request'[t].table = [r.table EXCEPT ![h] = new]
        /\ \A x \in Threads : x # t => request'[x] = request[x]
    BY <1>1, <1>3, <1>5 DEF Request, new
  <2>4. \A g \in Hashes : request'[t].table[g] = IF g = h THEN new ELSE r.table[g]
    BY <1>1, <1>2, <2>3 DEF IdTable
  <2>5. CopyLists(request'[t], idTable)
    BY <1>1, <1>2, <2>2, <2>3, <2>4 DEF CopyLists
  <2> QED
    BY <1>1, <2>3, <2>5, NoSaveCopies
<1> QED
  BY <1>4, <1>5 DEF SendAndRecord

LEMMA StartOpCopies ==
  ASSUME CopiesInv, TypeInv', NEW t \in Threads, StartOp(t)
  PROVE  CopiesInv'
<1> DEFINE r == request[t]
           h == r.row.hash
<1>1. r \in Request /\ h \in Hashes /\ UNCHANGED <<documents, idTable>>
  BY BusyHasRequest DEF StartOp, CopiesInv, rows
<1>2. /\ request \in [Threads -> Request \cup {NoRequest}]
      /\ request' = [request EXCEPT ![t].step = "start_save", ![t].table[h] = <<nextId>>]
  BY DEF CopiesInv, TypeInv, TypeOK, StartOp
<1>3. /\ request'[t].row = r.row /\ request'[t].table = [r.table EXCEPT ![h] = <<nextId>>]
      /\ \A x \in Threads : x # t => request'[x] = request[x]
  BY <1>1, <1>2 DEF Request
<1>4. r.table \in IdTable /\ CopyLists(r, idTable) /\ r.step = "start_send"
  BY <1>1 DEF CopiesInv, Request, StartOp
<1>5. \A g \in Hashes : request'[t].table[g] = IF g = h THEN <<nextId>> ELSE r.table[g]
  BY <1>1, <1>3, <1>4 DEF IdTable
<1>6. CopyLists(request'[t], idTable)
  BY <1>1, <1>3, <1>4, <1>5 DEF CopyLists, Looked
<1> QED
  BY <1>1, <1>3, <1>6, NoSaveCopies

LEMMA CopiesInvNext ==
  ASSUME \A s, t \in Threads : s = t, CopiesInv, [Next]_vars
  PROVE  CopiesInv'
<1>1. TypeInv'
  BY TypeInvNext DEF CopiesInv
<1>2. request \in [Threads -> Request \cup {NoRequest}] /\ documents \in [Docs -> Document]
  BY DEF CopiesInv, TypeInv, TypeOK
<1>3. ASSUME NEW u \in Users, LoadIndex(u) PROVE CopiesInv'
  BY <1>1, <1>3, NoSaveCopies DEF LoadIndex, rows
<1>4. ASSUME NEW t \in Threads, NEW u \in Users, NEW d \in Docs, NEW doc, NEW signature,
             NEW step \in {"start_lookup", "sign_lookup"}, Begin(t, step, u, d, doc, signature)
      PROVE  \A x \in Threads : request'[x] = request[x] \/ CopyLists(request'[x], idTable)
  <2> DEFINE r == [step |-> step, doc |-> d, user |-> u, signature |-> signature,
                   row |-> doc, table |-> EmptyTable]
  <2>1. request' = [request EXCEPT ![t] = r] /\ r.step = step
    BY <1>4 DEF Begin
  <2> HIDE DEF r
  <2> QED
    BY <1>2, <2>1 DEF CopyLists, Looked, Recorded
<1>5. ASSUME NEW t \in Threads, NEW u \in Users, NEW d \in Docs, NewSignature(t, u, d)
      PROVE  CopiesInv'
  <2>1. PICK h, signers : documents' = [documents EXCEPT ![d] = NewDocument(h, signers)]
    BY <1>5 DEF NewSignature
  <2>2. \A x \in Docs : documents'[x] = documents[x] \/ documents'[x].signedhash = <<>>
    BY <1>2, <2>1 DEF NewDocument
  <2>3. \A x \in Threads : request'[x] = request[x] \/ CopyLists(request'[x], idTable)
    BY <1>4, <1>5 DEF NewSignature
  <2> QED
    BY <1>1, <1>5, <2>2, <2>3, NoSaveCopies DEF NewSignature
<1>6. ASSUME NEW t \in Threads, NEW u \in Users, NEW form \in forms[u],
             SignDocument(t, u, form)
      PROVE  CopiesInv'
  <2>1. form.doc \in Docs /\ UNCHANGED <<documents, idTable>>
    BY <1>6 DEF SignDocument, rows, CopiesInv, TypeInv, TypeOK, Form
  <2>2. \A x \in Threads : request'[x] = request[x] \/ CopyLists(request'[x], idTable)
    BY <1>4, <1>6, <2>1 DEF SignDocument
  <2> QED
    BY <1>1, <2>1, <2>2, NoSaveCopies
<1>7. ASSUME NEW t \in Threads, NEW step \in Steps, NEW next \in {"start_send", "sign_send"},
             LookupChaincode(t, step, next)
      PROVE  CopiesInv'
  <2>1. request[t] \in Request /\ UNCHANGED <<documents, idTable>>
    BY <1>7, BusyHasRequest DEF LookupChaincode, Steps, CopiesInv, rows
  <2>2. request'[t].table = idTable /\ request'[t].step = next
        /\ \A x \in Threads : x # t => request'[x] = request[x]
    BY <1>2, <1>7, <2>1 DEF LookupChaincode, Request
  <2>3. CopyLists(request'[t], idTable)
    BY <2>2 DEF CopyLists, Recorded
  <2> QED
    BY <1>1, <2>1, <2>2, <2>3, NoSaveCopies
<1>8. ASSUME NEW t \in Threads, Proceed(t) PROVE CopiesInv'
  <2>1. CASE LookupChaincode(t, "start_lookup", "start_send")
    BY <1>7, <2>1 DEF Steps
  <2>2. CASE StartOp(t)
    BY <1>1, <2>2, StartOpCopies
  <2>3. CASE SaveStart(t)
    <3>1. request[t].step = "start_save" /\ request[t] \in Request
      BY <2>3, BusyHasRequest DEF SaveStart, CopiesInv
    <3>2. [request[t].row EXCEPT !.signedhash = PlatformSignature].hash = request[t].row.hash
      BY <3>1 DEF Request, Document
    <3> QED
      BY <1>1, <2>3, <3>1, <3>2, SaveCopies DEF SaveStart, Recorded
  <2>4. CASE LookupChaincode(t, "sign_lookup", "sign_send")
    BY <1>7, <2>4 DEF Steps
  <2>5. CASE SignOp(t)
    BY <1>1, <2>5, SendCopies DEF SignOp, Looked, Recorded
  <2>6. CASE SaveSignature(t)
    <3>1. request[t].step = "sign_save" /\ request[t] \in Request
      BY <2>6, BusyHasRequest DEF SaveSignature, CopiesInv
    <3>2. SignedBy(request[t].row, request[t].signature).hash = request[t].row.hash
      BY <3>1 DEF Request, Document, SignedBy
    <3> QED
      BY <1>1, <2>6, <3>1, <3>2, SaveCopies DEF SaveSignature, Recorded
  <2>7. CASE EndOp(t)
    BY <1>1, <2>7, SendCopies DEF EndOp, Looked, Recorded
  <2>8. CASE SaveEnd(t)
    <3>1. request[t].step = "end_save" /\ request[t] \in Request
      BY <2>8, BusyHasRequest DEF SaveEnd, CopiesInv
    <3>2. [request[t].row EXCEPT !.signedhash = PlatformSignature,
                                 !.state = "FINALIZED"].hash = request[t].row.hash
      BY <3>1 DEF Request, Document
    <3> QED
      BY <1>1, <2>8, <3>1, <3>2, SaveCopies DEF SaveEnd, Recorded
  <2> QED
    BY <1>8, <2>1, <2>2, <2>3, <2>4, <2>5, <2>6, <2>7, <2>8 DEF Proceed
<1>9. ASSUME NEW t \in Threads, RequestFails(t) PROVE CopiesInv'
  <2>1. \A x \in Threads : request'[x] = request[x] \/ request'[x] = NoRequest
    BY <1>2, <1>9 DEF RequestFails, Finish
  <2>2. CopyLists(NoRequest, idTable)
    BY DEF CopyLists, NoRequest, Looked, Recorded
  <2> QED
    BY <1>1, <1>9, <2>1, <2>2, NoSaveCopies DEF RequestFails, rows
<1>10. CASE UNCHANGED vars
  BY <1>1, <1>10, NoSaveCopies DEF vars
<1> QED
  BY <1>3, <1>5, <1>6, <1>8, <1>9, <1>10 DEF Next

\* A save never drops a hash from the row, and lists that of the document it saves.
LEMMA ListsGrow ==
  ASSUME CopiesInv, [Next]_vars
  PROVE  /\ \A h \in Hashes : idTable[h] # <<>> => idTable'[h] # <<>>
         /\ \A d \in Docs : \/ documents'[d] = documents[d] \/ documents'[d].signedhash = <<>>
                           \/ idTable'[documents'[d].hash] # <<>>
<1>1. documents \in [Docs -> Document]
  BY DEF CopiesInv, TypeInv, TypeOK
<1>2. ASSUME NEW t \in Threads, request[t].step \in Recorded, NEW doc, Flush(t, doc),
             doc.hash = request[t].row.hash
      PROVE  /\ \A h \in Hashes : idTable[h] # <<>> => idTable'[h] # <<>>
             /\ \A d \in Docs : documents'[d] = documents[d] \/ idTable'[documents'[d].hash] # <<>>
  <2>1. /\ idTable' = request[t].table /\ idTable'[doc.hash] # <<>>
        /\ \A h \in Hashes : idTable[h] # <<>> => idTable'[h] # <<>>
    BY <1>2 DEF Flush, CopiesInv, CopyLists, Recorded, Looked
  <2>2. \A d \in Docs : documents'[d] = documents[d] \/ documents'[d] = doc
    BY <1>1, <1>2 DEF Flush
  <2> QED
    BY <2>1, <2>2
<1>3. ASSUME NEW t \in Threads, SaveStart(t) \/ SaveSignature(t) \/ SaveEnd(t)
      PROVE  \E doc : /\ request[t].step \in Recorded /\ Flush(t, doc)
                      /\ doc.hash = request[t].row.hash
  <2>1. request[t] \in Request
    BY <1>3, BusyHasRequest DEF SaveStart, SaveSignature, SaveEnd, CopiesInv
  <2> DEFINE r == request[t]
             started == [r.row EXCEPT !.signedhash = PlatformSignature]
             ended == [r.row EXCEPT !.signedhash = PlatformSignature, !.state = "FINALIZED"]
  <2>2. /\ started.hash = r.row.hash /\ ended.hash = r.row.hash
        /\ SignedBy(r.row, r.signature).hash = r.row.hash
    BY <2>1 DEF Request, Document, SignedBy
  <2>3. CASE SaveStart(t)
    BY <2>2, <2>3 DEF SaveStart, Recorded
  <2>4. CASE SaveSignature(t)
    BY <2>2, <2>4 DEF SaveSignature, Recorded
  <2>5. CASE SaveEnd(t)
    <3>1. Flush(t, ended) /\ r.step \in Recorded
      BY <2>5 DEF SaveEnd, Recorded
    <3> HIDE DEF ended
    <3> QED
      BY <2>2, <3>1
  <2> QED
    BY <1>3, <2>3, <2>4, <2>5
<1>4. ASSUME NEW t \in Threads, NEW u \in Users, NEW d \in Docs, NewSignature(t, u, d)
      PROVE  UNCHANGED idTable /\ \A x \in Docs : \/ documents'[x] = documents[x]
                                                 \/ documents'[x].signedhash = <<>>
  <2>1. PICK h, signers : documents' = [documents EXCEPT ![d] = NewDocument(h, signers)]
    BY <1>4 DEF NewSignature
  <2> QED
    BY <1>1, <1>4, <2>1 DEF NewDocument, NewSignature
<1> QED
  BY <1>2, <1>3, <1>4 DEF Next, vars, LoadIndex, SignDocument, Proceed, LookupChaincode,
     StartOp, SignOp, EndOp, SendAndRecord, RequestFails, rows

(* With the hashes of the started documents in the row.                     *)
ListsInv ==
  /\ CopiesInv
  /\ \A d \in Docs : Started(d) => idTable[documents[d].hash] # <<>>

LEMMA ListsInvInit == Init => ListsInv
BY CopiesInvInit DEF Init, ListsInv, Started, Absent

LEMMA ListsInvNext ==
  ASSUME \A s, t \in Threads : s = t, ListsInv, [Next]_vars
  PROVE  ListsInv'
<1>1. CopiesInv'
  BY CopiesInvNext DEF ListsInv
<1>2. \A d \in Docs : Started(d)' => idTable'[documents'[d].hash] # <<>>
  BY ListsGrow DEF ListsInv, Started, CopiesInv, TypeInv, HashesKnown
<1> QED
  BY <1>1, <1>2 DEF ListsInv

\* When requests do not overlap, sign_op finds the ids of every document that the index
\* page offers, however often a file is uploaded again and requests fail in between.
THEOREM OfferedSignable ==
  ASSUME \A s, t \in Threads : s = t
  PROVE  Spec => []OfferedCanBeSigned
<1>1. ListsInv => OfferedCanBeSigned
  BY DEF ListsInv, OfferedCanBeSigned
<1>2. ListsInv /\ [Next]_vars => ListsInv'
  BY ListsInvNext
<1> QED
  BY <1>1, <1>2, ListsInvInit, PTL DEF Spec

----------------------------------------------------------------------------
(* One request at a time, and none failed: the request that saved the last  *)
(* signature finds the ids in its copy and finalizes the document.          *)

Starting == {"start_lookup", "start_send", "start_save"}
Signing == {"sign_lookup", "sign_send", "sign_save"}
Ending == {"end_send", "end_save"}

\* A document that waits for nobody is done.
Settled(doc) == doc.signedhash # <<>> /\ CurrentSigner(doc) = NoUser => doc.state = "FINALIZED"

\* A request works on the row as it is; it never begins on one that waits for nobody,
\* except for a finalized one.
WorksOnRow(r) ==
  /\ documents[r.doc] = r.row
  /\ r.step \in Starting => CurrentSigner(r.row) # NoUser
  /\ failures = 0 /\ r.step \in Signing => Settled(r.row)

EndInv ==
  /\ CopiesInv
  /\ \A t \in Threads : request[t].step # "idle" => WorksOnRow(request[t])
  /\ failures = 0 => \A d \in Docs :
       Settled(documents[d]) \/ \E t \in Threads : request[t].step # "idle" /\ request[t].doc = d

LEMMA EndInvInit == Init => EndInv
BY CopiesInvInit DEF Init, EndInv, Settled, Absent, NoRequest

\* A request that goes on, or gives up what it has not begun to end.
LEMMA GoOnEnd ==
  ASSUME \A s, t \in Threads : s = t, EndInv, CopiesInv', NEW t \in Threads,
         request[t].step # "idle", UNCHANGED documents, failures' = 0 => failures = 0,
         \/ /\ request'[t].step # "idle"
            /\ request'[t].doc = request[t].doc /\ request'[t].row = request[t].row
            /\ request'[t].step \in Starting => request[t].step \in Starting
            /\ request'[t].step \in Signing => request[t].step \in Signing
         \/ /\ request'[t].step = "idle"
            /\ request[t].step \in Starting \cup Signing \/ failures' # 0
  PROVE  EndInv'
<1>1. \A x \in Threads : x = t
  OBVIOUS
<1>2. WorksOnRow(request[t])
  BY DEF EndInv
<1>3. CASE /\ request'[t].step # "idle"
           /\ request'[t].doc = request[t].doc /\ request'[t].row = request[t].row
           /\ request'[t].step \in Starting => request[t].step \in Starting
           /\ request'[t].step \in Signing => request[t].step \in Signing
  <2>1. WorksOnRow(request[t])'
    BY <1>2, <1>3 DEF WorksOnRow
  <2>2. ASSUME NEW d \in Docs, failures' = 0
        PROVE  Settled(documents[d]) \/ request'[t].doc = d
    BY <1>1, <1>3, <2>2 DEF EndInv
  <2> QED
    BY <1>1, <1>3, <2>1, <2>2 DEF EndInv
<1>4. CASE /\ request'[t].step = "idle"
           /\ request[t].step \in Starting \cup Signing \/ failures' # 0
  <2>1. ASSUME NEW d \in Docs, failures' = 0 PROVE Settled(documents[d])
    BY <1>1, <1>2, <1>4, <2>1 DEF EndInv, WorksOnRow, Settled
  <2> QED
    BY <1>1, <1>4, <2>1 DEF EndInv
<1> QED
  BY <1>3, <1>4

\* A save of a row that is settled or goes on to its end.
LEMMA SaveEndInv ==
  ASSUME \A s, t \in Threads : s = t, EndInv, CopiesInv', NEW t \in Threads,
         request[t].step # "idle", NEW doc, Flush(t, doc),
         \/ Finish(t) /\ Settled(doc)
         \/ request' = [request EXCEPT ![t].step = "end_send", ![t].row = doc]
  PROVE  EndInv'
<1>1. \A x \in Threads : x = t
  OBVIOUS
<1>2. /\ request \in [Threads -> Request \cup {NoRequest}] /\ request[t] \in Request
      /\ documents \in [Docs -> Document]
  BY BusyHasRequest DEF EndInv, CopiesInv, TypeInv, TypeOK
<1>3. /\ request[t].doc \in Docs /\ documents'[request[t].doc] = doc /\ UNCHANGED failures
      /\ \A d \in Docs : d # request[t].doc => documents'[d] = documents[d]
  BY <1>2 DEF Flush, Request, bounds
<1>4. ASSUME NEW d \in Docs, d # request[t].doc, failures' = 0
      PROVE  Settled(documents'[d])
  BY <1>1, <1>3, <1>4 DEF EndInv
<1>5. CASE Finish(t) /\ Settled(doc)
  <2>1. request'[t].step = "idle"
    BY <1>2, <1>5 DEF Finish, NoRequest
  <2> QED
    BY <1>1, <1>3, <1>4, <1>5, <2>1 DEF EndInv
<1>6. CASE request' = [request EXCEPT ![t].step = "end_send", ![t].row = doc]
  <2>1. /\ request'[t].step = "end_send" /\ request'[t].row = doc
        /\ request'[t].doc = request[t].doc
    BY <1>2, <1>6 DEF Request
  <2>2. WorksOnRow(request[t])'
    BY <1>3, <2>1 DEF WorksOnRow, Starting, Signing
  <2> QED
    BY <1>1, <1>3, <1>4, <2>1, <2>2 DEF EndInv
<1> QED
  BY <1>5, <1>6

\* A request that begins on a row: there was no other.
LEMMA BeginEnd ==
  ASSUME \A s, t \in Threads : s = t, EndInv, CopiesInv', NEW t \in Threads,
         request[t].step = "idle", UNCHANGED failures,
         \A d \in Docs : failures = 0 => Settled(documents'[d]),
         request'[t].step # "idle" => WorksOnRow(request[t])'
  PROVE  EndInv'
<1>1. \A x \in Threads : x = t
  OBVIOUS
<1> QED
  BY <1>1 DEF EndInv

LEMMA NewSignatureEnd ==
  ASSUME \A s, t \in Threads : s = t, EndInv, CopiesInv', NEW t \in Threads, NEW u \in Users,
         NEW d \in Docs, NewSignature(t, u, d)
  PROVE  EndInv'
<1>1. request[t].step = "idle" /\ UNCHANGED failures
  BY DEF NewSignature, Idle, bounds
<1>2. PICK h, signers :
        /\ documents' = [documents EXCEPT ![d] = NewDocument(h, signers)]
        /\ 1 \in DOMAIN signers /\ signers[1] = u
        /\ \/ UNCHANGED request
           \/ Begin(t, "start_lookup", u, d, NewDocument(h, signers), PlatformSignature)
  <2>1. ASSUME NEW others \in SignersChoices
        PROVE  1 \in DOMAIN (<<u>> \o others) /\ (<<u>> \o others)[1] = u
    <3>1. others \in Seq(Users \cup {NoUser})
      BY SignersAreListed
    <3> QED
      BY <3>1
  <2>2. 1 \in DOMAIN <<u>> /\ <<u>>[1] = u
    OBVIOUS
  <2> QED
    BY <2>1, <2>2 DEF NewSignature
<1> DEFINE doc == NewDocument(h, signers)
<1>3. doc.signedhash = <<>> /\ CurrentSigner(doc) # NoUser
  BY <1>2, IdentitiesDiffer DEF NewDocument, CurrentSigner
<1> HIDE DEF doc
<1>4. /\ documents'[d] = doc
      /\ \A x \in Docs : x # d => documents'[x] = documents[x]
  BY <1>2 DEF doc, EndInv, CopiesInv, TypeInv, TypeOK
<1>5. ASSUME NEW x \in Docs, failures = 0 PROVE Settled(documents'[x])
  BY <1>1, <1>3, <1>4, <1>5 DEF EndInv, Settled
<1>6. ASSUME request'[t].step # "idle" PROVE WorksOnRow(request[t])'
  <2> DEFINE r == [step |-> "start_lookup", doc |-> d, user |-> u,
                   signature |-> PlatformSignature, row |-> doc, table |-> EmptyTable]
  <2>1. request' = [request EXCEPT ![t] = r]
    BY <1>1, <1>2, <1>6 DEF Begin, doc
  <2>2. r.doc = d /\ r.row = doc /\ r.step = "start_lookup"
    OBVIOUS
  <2> HIDE DEF r
  <2>3. request'[t] = r
    BY <2>1 DEF EndInv, CopiesInv, TypeInv, TypeOK
  <2> QED
    BY <1>3, <1>4, <2>2, <2>3 DEF WorksOnRow, Signing
<1> QED
  BY <1>1, <1>5, <1>6, BeginEnd

LEMMA SignDocumentEnd ==
  ASSUME \A s, t \in Threads : s = t, EndInv, CopiesInv', NEW t \in Threads, NEW u \in Users,
         NEW form \in forms[u], SignDocument(t, u, form)
  PROVE  EndInv'
<1>1. request[t].step = "idle" /\ UNCHANGED <<documents, failures>> /\ form.doc \in Docs
  BY DEF SignDocument, Idle, rows, EndInv, CopiesInv, TypeInv, TypeOK, Form
<1>2. \A d \in Docs : failures = 0 => Settled(documents'[d])
  BY <1>1 DEF EndInv
<1>3. ASSUME request'[t].step # "idle" PROVE WorksOnRow(request[t])'
  <2> DEFINE r == [step |-> "sign_lookup", doc |-> form.doc, user |-> u,
                   signature |-> Append(form.dochash, u), row |-> documents[form.doc],
                   table |-> EmptyTable]
  <2>1. request' = [request EXCEPT ![t] = r]
    BY <1>1, <1>3 DEF SignDocument, Begin
  <2>2. r.doc = form.doc /\ r.row = documents[form.doc] /\ r.step = "sign_lookup"
    OBVIOUS
  <2> HIDE DEF r
  <2>3. request'[t] = r
    BY <2>1 DEF EndInv, CopiesInv, TypeInv, TypeOK
  <2> QED
    BY <1>1, <1>2, <2>2, <2>3 DEF WorksOnRow, Starting
<1> QED
  BY <1>1, <1>2, <1>3, BeginEnd

\* What the steps that do not save make of the request; end_op always finds its list.
LEMMA SendsEnd ==
  ASSUME \A s, t \in Threads : s = t, EndInv, CopiesInv', NEW t \in Threads,
         \/ LookupChaincode(t, "start_lookup", "start_send") \/ StartOp(t)
         \/ LookupChaincode(t, "sign_lookup", "sign_send") \/ SignOp(t) \/ EndOp(t)
  PROVE  EndInv'
<1>1. request[t].step # "idle" /\ UNCHANGED <<documents, failures>>
  BY DEF LookupChaincode, StartOp, SignOp, EndOp, SendAndRecord, rows, bounds
<1>2. /\ request \in [Threads -> Request \cup {NoRequest}] /\ request[t] \in Request
  BY <1>1, BusyHasRequest DEF EndInv, CopiesInv, TypeInv, TypeOK
<1> DEFINE GoesTo(step) == /\ request'[t].step = step
                           /\ request'[t].doc = request[t].doc
                           /\ request'[t].row = request[t].row
<1>3. CASE LookupChaincode(t, "start_lookup", "start_send")
  <2>1. request[t].step = "start_lookup" /\ GoesTo("start_send")
    BY <1>2, <1>3 DEF LookupChaincode, Request
  <2> QED
    BY <1>1, <2>1, GoOnEnd DEF Starting, Signing
<1>4. CASE StartOp(t)
  <2>1. request[t].step = "start_send" /\ GoesTo("start_save")
    BY <1>2, <1>4 DEF StartOp, Request
  <2> QED
    BY <1>1, <2>1, GoOnEnd DEF Starting, Signing
<1>5. CASE LookupChaincode(t, "sign_lookup", "sign_send")
  <2>1. request[t].step = "sign_lookup" /\ GoesTo("sign_send")
    BY <1>2, <1>5 DEF LookupChaincode, Request
  <2> QED
    BY <1>1, <2>1, GoOnEnd DEF Starting, Signing
<1>0. TypeInv
  BY DEF EndInv, CopiesInv
<1>6. CASE SignOp(t)
  <2>1. /\ request[t].step = "sign_send"
        /\ GoesTo("sign_save") \/ request'[t].step = "idle"
    BY <1>0, <1>6, SignOpStep DEF KeepsRow
  <2> QED
    BY <1>1, <2>1, GoOnEnd DEF Starting, Signing
<1>7. CASE EndOp(t)
  <2>1. request[t].step = "end_send" /\ request[t].table[request[t].row.hash] # <<>>
    BY <1>7 DEF EndOp, SendAndRecord, EndInv, CopiesInv, CopyLists, Recorded
  <2>2. GoesTo("end_save")
    BY <1>0, <1>7, <2>1, EndOpStep DEF KeepsRow
  <2> QED
    BY <1>1, <2>1, <2>2, GoOnEnd DEF Starting, Signing
<1> QED
  BY <1>3, <1>4, <1>5, <1>6, <1>7

LEMMA SavesEnd ==
  ASSUME \A s, t \in Threads : s = t, EndInv, CopiesInv', NEW t \in Threads,
         SaveStart(t) \/ SaveSignature(t) \/ SaveEnd(t)
  PROVE  EndInv'
<1> DEFINE r == request[t]
<1>1. /\ r.step # "idle" /\ r \in Request /\ r.row \in Document /\ WorksOnRow(r)
  BY BusyHasRequest DEF SaveStart, SaveSignature, SaveEnd, EndInv, CopiesInv, Request
<1>2. CASE SaveStart(t)
  <2> DEFINE doc == [r.row EXCEPT !.signedhash = PlatformSignature]
  <2>1. Flush(t, doc) /\ Finish(t)
    BY <1>2 DEF SaveStart
  <2>2. CurrentSigner(doc) = CurrentSigner(r.row)
    BY <1>1 DEF CurrentSigner, Document
  <2>3. Settled(doc)
    BY <1>1, <1>2, <2>2 DEF SaveStart, WorksOnRow, Starting, Settled
  <2> HIDE DEF doc
  <2> QED
    BY <1>1, <2>1, <2>3, SaveEndInv
<1>3. CASE SaveSignature(t)
  <2> DEFINE doc == SignedBy(r.row, r.signature)
  <2>1. /\ Flush(t, doc)
        /\ \/ Finish(t) /\ CurrentSigner(doc) # NoUser
           \/ request' = [request EXCEPT ![t].step = "end_send", ![t].row = doc]
    BY <1>3 DEF SaveSignature
  <2> HIDE DEF doc
  <2> QED
    BY <1>1, <2>1, SaveEndInv DEF Settled
<1>4. CASE SaveEnd(t)
  <2> DEFINE doc == [r.row EXCEPT !.signedhash = PlatformSignature, !.state = "FINALIZED"]
  <2>1. Flush(t, doc) /\ Finish(t)
    BY <1>4 DEF SaveEnd
  <2>2. Settled(doc)
    BY <1>1 DEF Settled, Document
  <2> HIDE DEF doc
  <2> QED
    BY <1>1, <2>1, <2>2, SaveEndInv
<1> QED
  BY <1>2, <1>3, <1>4

LEMMA EndInvNext ==
  ASSUME \A s, t \in Threads : s = t, EndInv, [Next]_vars
  PROVE  EndInv'
<1>1. CopiesInv'
  BY CopiesInvNext DEF EndInv
<1>2. CASE \E u \in Users : LoadIndex(u)
  BY <1>1, <1>2 DEF LoadIndex, rows, bounds, EndInv, WorksOnRow
<1>3. CASE \E t \in Threads, u \in Users, d \in Docs : NewSignature(t, u, d)
  BY <1>1, <1>3, NewSignatureEnd
<1>4. CASE \E t \in Threads, u \in Users : \E form \in forms[u] : SignDocument(t, u, form)
  BY <1>1, <1>4, SignDocumentEnd
<1>5. CASE \E t \in Threads : Proceed(t)
  BY <1>1, <1>5, SendsEnd, SavesEnd DEF Proceed
<1>6. ASSUME NEW t \in Threads, RequestFails(t) PROVE EndInv'
  <2>1. request'[t].step = "idle" /\ UNCHANGED documents
    BY <1>6 DEF RequestFails, Finish, NoRequest, rows, EndInv, CopiesInv, TypeInv, TypeOK
  <2>2. failures' # 0
    BY <1>6, BoundsAreNatural DEF RequestFails, EndInv, CopiesInv, TypeInv, TypeOK
  <2> QED
    BY <1>1, <1>6, <2>1, <2>2, GoOnEnd DEF RequestFails, Idle
<1>7. CASE UNCHANGED vars
  BY <1>1, <1>7 DEF vars, EndInv, WorksOnRow
<1> QED
  BY <1>2, <1>3, <1>4, <1>5, <1>6, <1>7 DEF Next

\* When requests do not overlap and none failed, a started document that waits for nobody
\* is FINALIZED, or the one request that can make it so is at work on it.
THEOREM EndUnderWay ==
  ASSUME \A s, t \in Threads : s = t
  PROVE  Spec => []EndIsUnderWay
<1>1. EndInv => EndIsUnderWay
  BY DEF EndInv, EndIsUnderWay, Settled, Started, Idle
<1>2. EndInv /\ [Next]_vars => EndInv'
  BY EndInvNext
<1> QED
  BY <1>1, <1>2, EndInvInit, PTL DEF Spec

=============================================================================
