-------------------------- MODULE MCManagerClient --------------------------
(***************************************************************************)
(* Two managers, a run (a member of the overview) and a command (which is  *)
(* none), with few changes, switches and failures.                         *)
(***************************************************************************)
EXTENDS ManagerClient

CONSTANTS run, command

Bounds(e, ks, c, b, f, p) ==
  [endpoints |-> e, keys |-> ks, changes |-> c, bindings |-> b, failures |-> f, profiles |-> p]

(* One manager that changes twice; two managers and a switch; and a switch *)
(* that overlaps the names of two granted profiles.                        *)
SafetySetups ==
  { Bounds({"a"}, Keys, 2, 1, 1, 1), Bounds(Endpoints, {run}, 1, 2, 1, 1),
    Bounds(Endpoints, {run}, 2, 2, 0, 1) }
NamesSetups == {Bounds(Endpoints, {run}, 0, 2, 0, 2)}
=============================================================================
