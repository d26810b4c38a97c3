----------------------------- MODULE PlanOrder -----------------------------
(***************************************************************************)
(* What the concurrent interpreter of runtime/src/Agentic/Exec.hs promises *)
(* about the order of the nodes of a plan: an effect starts only after     *)
(* everything before it in plan order has succeeded, and nothing after an  *)
(* effect starts before that effect has succeeded.  Questions between two  *)
(* effects overlap freely.  Nothing is said of workers, lanes, memo slots  *)
(* or failures; Scheduler implements this module.                          *)
(***************************************************************************)
EXTENDS Naturals, Sequences

CONSTANT Plans   \* the plans, each a sequence of nodes with a field "effect"

VARIABLES
  plan,          \* the plan being executed
  running,       \* the occurrences allowed to reach the outside world
  finished       \* the occurrences that have succeeded

vars == <<plan, running, finished>>

Effects == {o \in DOMAIN plan : plan[o].effect}

(* The occurrences that must have succeeded before o may start. *)
Before(o) == IF o \in Effects THEN {p \in DOMAIN plan : p < o}
                              ELSE {p \in Effects : p < o}

Init == /\ plan \in Plans
        /\ running = {}
        /\ finished = {}

Start(o) == /\ o \notin running \cup finished
            /\ Before(o) \subseteq finished
            /\ running' = running \cup {o}
            /\ UNCHANGED <<plan, finished>>

Succeed(o) == /\ o \in running
              /\ running' = running \ {o}
              /\ finished' = finished \cup {o}
              /\ UNCHANGED plan

(* An occurrence that fails or is cancelled stops running for good. *)
Stop(o) == /\ o \in running
           /\ running' = running \ {o}
           /\ UNCHANGED <<plan, finished>>

Next == \E o \in DOMAIN plan : Start(o) \/ Succeed(o) \/ Stop(o)

Spec == Init /\ [][Next]_vars
=============================================================================
