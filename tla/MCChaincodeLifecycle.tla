------------------------ MODULE MCChaincodeLifecycle ------------------------
(* ChaincodeLifecycle on small instances. *)
EXTENDS ChaincodeLifecycle

\* 1.2 - 0.1 = 1.0999999999999999 and so on, in IEEE 754 double precision.
InexactTenths == {12, 14, 17, 19, 23, 28, 33, 38}
=============================================================================
