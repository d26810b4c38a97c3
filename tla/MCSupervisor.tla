---------------------------- MODULE MCSupervisor ----------------------------
(***************************************************************************)
(* The circumstances TLC checks: unreliable writes of the owner, a mirror  *)
(* that loses nothing, and an attached session.                           *)
(***************************************************************************)
EXTENDS Supervisor

Setup(items, faults, controls_, watched) ==
  [maxItems |-> items, faults |-> faults, controls |-> controls_, watched |-> watched]

Both == {"steer", "cancel"}
AllSetups ==
  { Setup(1, {"mirror", "lease", "persist", "artifact"}, Both, FALSE),
    Setup(2, {"lease", "persist"}, Both, FALSE),
    Setup(2, {"lease", "artifact"}, {}, TRUE),
    Setup(1, {}, {"cancel"}, TRUE) }
ReliableSetups == { Setup(2, {}, Both, FALSE) }
=============================================================================
