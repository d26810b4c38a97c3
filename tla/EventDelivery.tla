---------------------------- MODULE EventDelivery ----------------------------
(***************************************************************************)
(* What following /v1/events promises to the session that reads behind it: *)
(* the visible events after the cursor of the overview are delivered once, *)
(* in the order of the log and without a gap, until the follow ends.       *)
(* Positions count from the cursor of the overview.                        *)
(***************************************************************************)
EXTENDS Naturals

CONSTANT MaxEvents
VARIABLES high, visible, times, over

vars == <<high, visible, times, over>>

Init == /\ high = 0 /\ visible = {} /\ over = FALSE
        /\ times = [q \in 1..MaxEvents |-> 0]

Publish == /\ high < MaxEvents /\ high' = high + 1
           /\ visible' \in {visible, visible \cup {high + 1}}
           /\ UNCHANGED <<times, over>>

(* Everything visible up to p has been delivered once, nothing twice.      *)
Deliver == /\ ~over
           /\ \E p \in 1..high :
                times' = [q \in 1..MaxEvents |-> IF q \in visible /\ q <= p THEN 1 ELSE times[q]]
           /\ UNCHANGED <<high, visible, over>>

End == over' = TRUE /\ UNCHANGED <<high, visible, times>>

Next == Publish \/ Deliver \/ End
Spec == Init /\ [][Next]_vars
=============================================================================
