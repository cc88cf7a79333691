-------------------------- MODULE ReleaseRegister --------------------------
(***************************************************************************)
(* What the administrators of one chaincode may rely on, whatever fails on *)
(* the way: releases are numbered 1, 2, 3, ..., the channel only moves on  *)
(* to later ones, a release that is reported to run is the newest and runs *)
(* as long as the report is being made, and a chaincode that is in service *)
(* stays in service.                                                       *)
(***************************************************************************)
EXTENDS Naturals

VARIABLES
  released,   \* how many releases there are
  running,    \* the release that the channel runs, 0 before the first
  report,     \* the release that is being reported to run, 0 for none
  inService   \* the chaincode was reported to run once

\* install, and the next version is put on the list.
Release ==
  /\ report = 0
  /\ released' = released + 1
  /\ UNCHANGED <<running, report, inService>>

\* The channel runs the newest release, in time for the one who asked for it.
RunReported ==
  /\ report = 0
  /\ running < released
  /\ running' = released
  /\ report' = released
  /\ UNCHANGED <<released, inService>>

\* The channel moves on to a release that nobody waits for any more.
RunLate ==
  /\ report = 0
  /\ \E n \in (running + 1)..released : running' = n
  /\ UNCHANGED <<released, report, inService>>

\* "Success deploying new chaincode version!"
Acknowledge ==
  /\ report # 0
  /\ report' = 0
  /\ inService' = TRUE
  /\ UNCHANGED <<released, running>>

Init == released = 0 /\ running = 0 /\ report = 0 /\ inService = FALSE

Next == Release \/ RunReported \/ RunLate \/ Acknowledge

Spec == Init /\ [][Next]_<<released, running, report, inService>>

=============================================================================
