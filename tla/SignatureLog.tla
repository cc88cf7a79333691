---------------------------- MODULE SignatureLog ----------------------------
(***************************************************************************)
(* What the ledger promises to those who read it, whatever the servers     *)
(* that write it do: the chaincode's op_start, op_sign and op_end records, *)
(* each under a fresh id, where a signature is always over an earlier one. *)
(***************************************************************************)
EXTENDS Naturals, Sequences

CONSTANTS Signers, Platform, Digests

VARIABLES log, nextId

\* PutState(args[0], ...): the record goes under its id, over whatever was there; as ids
\* are fresh nothing ever is.
PutState(op, signer, h, signature) ==
  /\ log' = Append(log, [id |-> nextId, op |-> op, signer |-> signer,
                         hash |-> h, signature |-> signature])
  /\ nextId' = nextId + 1

OpStart(h) == PutState("op_start", Platform, h, <<Platform>>)

OpSign(u, h) ==
  \E j \in DOMAIN log :
    /\ log[j].hash = h
    /\ PutState("op_sign", u, h, Append(log[j].signature, u))

OpEnd(h) ==
  /\ \E j \in DOMAIN log : log[j].hash = h /\ log[j].op = "op_sign"
  /\ PutState("op_end", Platform, h, <<Platform>>)

Init == log = <<>> /\ nextId = 1

Next ==
  \E h \in Digests :
    \/ OpStart(h)
    \/ \E u \in Signers : OpSign(u, h)
    \/ OpEnd(h)

Spec == Init /\ [][Next]_<<log, nextId>>

=============================================================================
