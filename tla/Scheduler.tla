----------------------------- MODULE Scheduler -----------------------------
(***************************************************************************)
(* The concurrent memoizing interpreter of runtime/src/Agentic/Exec.hs.    *)
(*                                                                         *)
(* The main thread walks the plan (execIn), reserves FIFO links for each   *)
(* node and forks one worker per node (spawn), then collects the tickets   *)
(* in plan order.  A worker waits for its reservations, aborts if the run  *)
(* has failed, waits for the answers its prompt reads and answers its      *)
(* question: from the run store, from the memo table, by waiting for an    *)
(* equal question in flight, or by walking a fail-over chain.  Any failure *)
(* or a cancellation of the main thread makes it kill every worker and     *)
(* wait for all of them.                                                   *)
(*                                                                         *)
(* The path through PCase and PDyn nodes is fixed with the plan at Init: a *)
(* plan here is the sequence of ask nodes of one path, and "gate" names    *)
(* the answers the traversal awaits before it reaches a node.              *)
(***************************************************************************)
EXTENDS Naturals, Sequences, FiniteSets

CONSTANTS
  Plans,        \* set of plans: sequences of nodes
  Questions,    \* bare questions (EventKey)
  Models,       \* the models a candidate may name
  Unpinned,     \* the candidate of a question that names no model
  Lanes,        \* stateful transport lanes (TurnLane)
  LaneOf,       \* the lane of a candidate, or NoLane
  NoLane,
  Inherited     \* memo keys whose answers a resumed run finds in its store

Candidates == Models \cup {Unpinned}

ASSUME CandidatesAssumption ==
  /\ Unpinned \notin Models
  /\ NoLane \notin Lanes
  /\ LaneOf \in [Candidates -> Lanes \cup {NoLane}]
  /\ Inherited \subseteq Nat \X Questions

(* A node: is it an effect, its question, the earlier nodes its prompt     *)
(* reads, the earlier nodes the traversal awaits before it reaches the     *)
(* node, and its candidates in fail-over order.                            *)
Nodes == [effect : BOOLEAN, q : Questions, deps : SUBSET Nat,
          gate : SUBSET Nat, chain : Seq(Candidates)]

ASSUME PlansAssumption ==
  \A p \in Plans :
    /\ p \in Seq(Nodes)
    /\ \A o \in 1..Len(p) : /\ p[o].deps \subseteq 1..(o-1)
                            /\ p[o].gate \subseteq 1..(o-1)
                            /\ p[o].chain # << >>

VARIABLES
  plan,         \* the path being executed
  main,         \* the thread that called runPlanScoped
  reached,      \* nodes spawned so far (schedulerNextOccurrence)
  collected,    \* tickets awaited so far
  toKill,       \* workers cancelWorkers has still to kill, newest first
  failed,       \* schedulerFailed is full
  effectTail,   \* last effect in schedulerEffects, 0 before the first
  readsSince,   \* schedulerReadsSinceEffect
  epochs,       \* schedulerEpoch
  laneTail,     \* last reservation of each transport lane, 0 if none
  waits,        \* the occurrences whose completion o's reservations await
  epoch,        \* the epoch of o
  pc,           \* where the worker of o is
  todo,         \* the candidates o has still to try
  table,        \* memoTable: key -> owner, 0 if absent
  pending,      \* memoPending: key -> owner, 0 if absent
  slot,         \* the reservation slot o made as an owner
  source,       \* whose answer o waits for or has reused, 0 if its own
  spent         \* memoSpent

schedVars == <<reached, effectTail, readsSince, epochs, laneTail, waits, epoch>>
memoVars  == <<table, pending, slot, source>>
mainVars  == <<main, collected, toKill>>
vars == <<plan, schedVars, memoVars, mainVars, failed, pc, todo, spent>>

Occ     == DOMAIN plan
Keys    == (0..Len(plan)) \X Questions
(* Mutant: reuse is keyed by the bare question alone.                      *)
KeyWithoutEpoch(o) == <<0, plan[o].q>>
Key(o)  == <<epoch[o], plan[o].q>>
Effect(o) == plan[o].effect
Elems(s)  == {s[i] : i \in DOMAIN s}

(* A worker is "reserved" until its reservations complete, "released"      *)
(* until abortIfFailed has let it through, "started" until its prompt can  *)
(* be evaluated.  It then looks the question up ("prompted"), claims it    *)
(* ("claiming"), waits for the owner ("waiting") or walks its chain        *)
(* ("walking", "asking", "gapped"); an owner "storing" writes its answer.  *)
(* "unwinding" is an owner that must still give its slot up; "failing" is  *)
(* every other worker whose exception has not reached its finalizer.       *)
Waiting   == {"none", "reserved", "released"}
InFlight  == {"started", "prompted", "claiming", "waiting", "walking",
              "asking", "gapped", "storing", "answered"}
Unwinding == {"unwinding", "failing"}
Done      == {"ok", "left"}
PC        == Waiting \cup InFlight \cup Unwinding \cup Done

Past(o)    == pc[o] \in InFlight \cup {"ok"}   \* let through by abortIfFailed
Owner(o)   == ~Effect(o) /\ pc[o] \in {"walking", "asking", "gapped"}
Live(c)    == c \notin spent                   \* candidateAvailable
LanesOf(o) == {LaneOf[c] : c \in Elems(plan[o].chain)} \ {NoLane}

TypeOK ==
  /\ plan \in Plans
  /\ main \in {"walking", "collecting", "cancelling", "returned", "raised"}
  /\ reached \in 0..Len(plan) /\ collected \in 0..Len(plan) /\ toKill \in 0..Len(plan)
  /\ failed \in BOOLEAN
  /\ effectTail \in 0..Len(plan) /\ epochs \in 0..Len(plan)
  /\ readsSince \subseteq Occ
  /\ laneTail \in [Lanes -> 0..Len(plan)]
  /\ waits \in [Occ -> SUBSET Occ]
  /\ epoch \in [Occ -> 0..Len(plan)]
  /\ pc \in [Occ -> PC]
  /\ todo \in [Occ -> Seq(Candidates)]
  /\ table \in [Keys -> 0..Len(plan)] /\ pending \in [Keys -> 0..Len(plan)]
  /\ slot \in [Occ -> {"none", "open", "replayable", "once", "error"}]
  /\ source \in [Occ -> 0..Len(plan)]
  /\ spent \subseteq Models

Init ==
  /\ plan \in Plans
  /\ main = "walking" /\ reached = 0 /\ collected = 0 /\ toKill = 0
  /\ failed = FALSE
  /\ effectTail = 0 /\ readsSince = {} /\ epochs = 0
  /\ laneTail = [l \in Lanes |-> 0]
  /\ waits = [o \in Occ |-> {}] /\ epoch = [o \in Occ |-> 0]
  /\ pc = [o \in Occ |-> "none"]
  /\ todo = [o \in Occ |-> << >>]
  /\ table = [k \in Keys |-> 0] /\ pending = [k \in Keys |-> 0]
  /\ slot = [o \in Occ |-> "none"] /\ source = [o \in Occ |-> 0]
  /\ spent = {}

-----------------------------------------------------------------------------
(* The main thread: execIn, spawn, awaitTicket, cancelWorkers.             *)

(* Mutant: an effect joins the effect lane but skips the questions         *)
(* reserved since the previous effect.                                     *)
ReservedWithoutReads(o) ==
  {p \in {effectTail} \cup {laneTail[l] : l \in LanesOf(o)} : p # 0}

(* Mutant: only the lane of the first candidate is reserved.               *)
ReservedFirstLane(o) ==
  {p \in (IF Effect(o) THEN readsSince \cup {effectTail} ELSE {effectTail})
         \cup {laneTail[l] : l \in {LaneOf[Head(plan[o].chain)]} \ {NoLane}} : p # 0}

Reserved(o) ==
  {p \in (IF Effect(o) THEN readsSince \cup {effectTail} ELSE {effectTail})
         \cup {laneTail[l] : l \in LanesOf(o)} : p # 0}

(* One PAsk or PAskC node: occurrenceEpoch, reserveQuestion, fork.  The    *)
(* main thread is masked from the reservation to the fork.                 *)
Spawn(o) ==
  /\ main = "walking"
  /\ o = reached + 1
  /\ \A g \in plan[o].gate : pc[g] = "ok"
  /\ reached' = o
  /\ waits' = [waits EXCEPT ![o] = Reserved(o)]
  /\ epoch' = [epoch EXCEPT ![o] = epochs]
  /\ laneTail' = [l \in Lanes |-> IF l \in LanesOf(o) THEN o ELSE laneTail[l]]
  /\ IF Effect(o) THEN /\ effectTail' = o
                       /\ readsSince' = {}
                       /\ epochs' = epochs + 1
                  ELSE /\ readsSince' = readsSince \cup {o}
                       /\ UNCHANGED <<effectTail, epochs>>
  /\ pc' = [pc EXCEPT ![o] = "reserved"]
  /\ todo' = [todo EXCEPT ![o] = plan[o].chain]
  /\ UNCHANGED <<plan, memoVars, mainVars, failed, spent>>

(* The traversal reached PRet and starts awaiting the tickets.             *)
Walked ==
  /\ main = "walking" /\ reached = Len(plan)
  /\ main' = "collecting"
  /\ UNCHANGED <<plan, schedVars, memoVars, collected, toKill, failed, pc, todo, spent>>

Collect(o) ==
  /\ main = "collecting" /\ o = collected + 1
  /\ pc[o] = "ok"
  /\ collected' = o
  /\ UNCHANGED <<plan, schedVars, memoVars, main, toKill, failed, pc, todo, spent>>

Return ==
  /\ main = "collecting" /\ collected = Len(plan)
  /\ main' = "returned"
  /\ UNCHANGED <<plan, schedVars, memoVars, collected, toKill, failed, pc, todo, spent>>

(* What the main thread is blocked on: the gate of the next node, or the   *)
(* next ticket.                                                            *)
Awaited == IF main = "walking"
             THEN IF reached < Len(plan) THEN plan[reached + 1].gate ELSE {}
             ELSE IF collected < Len(plan) THEN {collected + 1} ELSE {}

(* Mutant: only the awaited cell is watched, not schedulerFailed.          *)
AwaitFailsOnCell ==
  /\ main \in {"walking", "collecting"}
  /\ \E o \in Awaited : pc[o] = "left"
  /\ main' = "cancelling" /\ toKill' = reached
  /\ UNCHANGED <<plan, schedVars, memoVars, collected, failed, pc, todo, spent>>

(* awaitCell and awaitExpr: what they await has not succeeded and the run  *)
(* has failed, so they rethrow the failure.                                *)
AwaitFails ==
  /\ main \in {"walking", "collecting"}
  /\ failed
  /\ \E o \in Awaited : pc[o] # "ok"
  /\ main' = "cancelling" /\ toKill' = reached
  /\ UNCHANGED <<plan, schedVars, memoVars, collected, failed, pc, todo, spent>>

(* The run is cancelled, or the observer fails in the main thread.         *)
Cancel ==
  /\ main \in {"walking", "collecting"}
  /\ main' = "cancelling" /\ toKill' = reached /\ failed' = TRUE
  /\ UNCHANGED <<plan, schedVars, memoVars, collected, pc, todo, spent>>

(* Where an exception leaves the worker of o: an owner on its chain must   *)
(* still give its slot up.  An owner that is storing its answer does not.  *)
Unwound(o) == IF Owner(o) THEN "unwinding" ELSE "failing"

(* Mutant: the kill also disturbs a worker that is done.                   *)
KillDone(o) ==
  /\ main = "cancelling" /\ o = toKill
  /\ toKill' = toKill - 1
  /\ pc' = IF pc[o] \in Unwinding THEN pc ELSE [pc EXCEPT ![o] = Unwound(o)]
  /\ UNCHANGED <<plan, schedVars, memoVars, main, collected, failed, todo, spent>>

(* killThread of the newest worker not yet killed; a worker that is done   *)
(* or already unwinding is not disturbed.                                  *)
Kill(o) ==
  /\ main = "cancelling" /\ o = toKill
  /\ toKill' = toKill - 1
  /\ pc' = IF pc[o] \in Done \cup Unwinding THEN pc
                                            ELSE [pc EXCEPT ![o] = Unwound(o)]
  /\ UNCHANGED <<plan, schedVars, memoVars, main, collected, failed, todo, spent>>

(* Mutant: the exception is rethrown once the workers have been killed,    *)
(* without waiting for their cells.                                        *)
RaiseEarly ==
  /\ main = "cancelling" /\ toKill = 0
  /\ main' = "raised"
  /\ UNCHANGED <<plan, schedVars, memoVars, collected, toKill, failed, pc, todo, spent>>

Raise ==
  /\ main = "cancelling" /\ toKill = 0
  /\ \A o \in 1..reached : pc[o] \in Done
  /\ main' = "raised"
  /\ UNCHANGED <<plan, schedVars, memoVars, collected, toKill, failed, pc, todo, spent>>

-----------------------------------------------------------------------------
(* The workers.                                                            *)

Goto(o, l) == pc' = [pc EXCEPT ![o] = l]

AwaitReservations(o) ==
  /\ pc[o] = "reserved"
  /\ \A p \in waits[o] : pc[p] \in Done
  /\ Goto(o, "released")
  /\ UNCHANGED <<plan, schedVars, memoVars, mainVars, failed, todo, spent>>

AbortIfFailed(o) ==
  /\ pc[o] = "released"
  /\ Goto(o, IF failed THEN "failing" ELSE "started")
  /\ UNCHANGED <<plan, schedVars, memoVars, mainVars, failed, todo, spent>>

(* awaitExpr on the answers the prompt reads.                              *)
AwaitPrompt(o) ==
  /\ pc[o] = "started"
  /\ \/ /\ \A d \in plan[o].deps : pc[d] = "ok"
        /\ Goto(o, "prompted")
     \/ /\ \E d \in plan[o].deps : pc[d] # "ok"
        /\ failed
        /\ Goto(o, "failing")
  /\ UNCHANGED <<plan, schedVars, memoVars, mainVars, failed, todo, spent>>

(* A question whose answer the run store holds is not asked.               *)
Recall(o) ==
  /\ pc[o] = "prompted" /\ ~Effect(o) /\ Key(o) \in Inherited
  /\ Goto(o, "answered")
  /\ UNCHANGED <<plan, schedVars, memoVars, mainVars, failed, todo, spent>>

(* preferTarget: the i-th candidate first, the others in their order.      *)
Prefer(i, s) == <<s[i]>> \o SubSeq(s, 1, i - 1) \o SubSeq(s, i + 1, Len(s))

(* awaitRuntimeRedirect: nobody redirects the dispatch, or somebody picks  *)
(* one of its candidates.                                                  *)
Dispatch(o) ==
  /\ pc[o] = "prompted" /\ (Effect(o) \/ Key(o) \notin Inherited)
  /\ \E i \in 1..Len(todo[o]) : todo' = [todo EXCEPT ![o] = Prefer(i, todo[o])]
  /\ Goto(o, IF Effect(o) THEN "walking" ELSE "claiming")
  /\ UNCHANGED <<plan, schedVars, memoVars, mainVars, failed, spent>>

(* claimQuestion: one transaction over memoTable and memoPending.          *)
Claim(o) ==
  /\ pc[o] = "claiming"
  /\ LET k == Key(o) IN
       IF table[k] # 0
         THEN /\ source' = [source EXCEPT ![o] = table[k]]
              /\ Goto(o, "answered")
              /\ UNCHANGED <<pending, slot>>
       ELSE IF pending[k] # 0
         THEN /\ source' = [source EXCEPT ![o] = pending[k]]
              /\ Goto(o, "waiting")
              /\ UNCHANGED <<pending, slot>>
       ELSE /\ pending' = [pending EXCEPT ![k] = o]
            /\ slot' = [slot EXCEPT ![o] = "open"]
            /\ source' = [source EXCEPT ![o] = 0]
            /\ Goto(o, "walking")
  /\ UNCHANGED <<plan, schedVars, mainVars, failed, todo, spent, table>>

(* ClaimWait: a replayable answer is shared, a failure too; an answer that *)
(* was steered is not shared, and the waiter claims the question again.    *)
AwaitOwner(o) ==
  /\ pc[o] = "waiting"
  /\ \/ slot[source[o]] = "replayable" /\ Goto(o, "answered") /\ UNCHANGED source
     \/ slot[source[o]] = "error" /\ Goto(o, "failing") /\ UNCHANGED source
     \/ /\ slot[source[o]] = "once"
        /\ Goto(o, "claiming")
        /\ source' = [source EXCEPT ![o] = 0]
  /\ UNCHANGED <<plan, schedVars, mainVars, failed, todo, spent, table, pending, slot>>

(* go: skip a spent candidate, dispatch an available one, give up at the   *)
(* end of the chain (abandonAllSpent).                                     *)
Walk(o) ==
  /\ pc[o] = "walking"
  /\ IF todo[o] = << >>
       THEN Goto(o, Unwound(o)) /\ UNCHANGED todo
     ELSE IF Live(Head(todo[o]))
       THEN Goto(o, "asking") /\ UNCHANGED todo
     ELSE todo' = [todo EXCEPT ![o] = Tail(todo[o])] /\ UNCHANGED pc
  /\ UNCHANGED <<plan, schedVars, memoVars, mainVars, failed, spent>>

Answer(o) ==
  /\ pc[o] = "asking"
  /\ Goto(o, IF Effect(o) THEN "answered" ELSE "storing")
  /\ UNCHANGED <<plan, schedVars, memoVars, mainVars, failed, todo, spent>>

(* Mutant: the candidate of an unpinned question is marked spent.          *)
GapUnpinned(o) ==
  /\ pc[o] = "asking"
  /\ \/ spent' = spent \cup {Head(todo[o])}
     \/ UNCHANGED spent
  /\ todo' = [todo EXCEPT ![o] = Tail(todo[o])]
  /\ Goto(o, "gapped")
  /\ UNCHANGED <<plan, schedVars, memoVars, mainVars, failed>>

(* The turn ended in a typed gap; markSpent if the allowance is exhausted. *)
Gap(o) ==
  /\ pc[o] = "asking"
  /\ \/ spent' = spent \cup ({Head(todo[o])} \cap Models)
     \/ UNCHANGED spent
  /\ todo' = [todo EXCEPT ![o] = Tail(todo[o])]
  /\ Goto(o, "gapped")
  /\ UNCHANGED <<plan, schedVars, memoVars, mainVars, failed>>

(* nextLive over the rest of the chain.                                    *)
FailOver(o) ==
  /\ pc[o] = "gapped"
  /\ Goto(o, IF \E c \in Elems(todo[o]) : Live(c) THEN "walking" ELSE Unwound(o))
  /\ UNCHANGED <<plan, schedVars, memoVars, mainVars, failed, todo, spent>>

(* LiveRedirected: the attempt of a question is stopped and another        *)
(* candidate of the rest of the chain is asked next.                       *)
Reroute(o) ==
  /\ pc[o] = "asking" /\ ~Effect(o)
  /\ \E i \in 1..Len(Tail(todo[o])) :
       todo' = [todo EXCEPT ![o] = Prefer(i, Tail(todo[o]))]
  /\ Goto(o, "walking")
  /\ UNCHANGED <<plan, schedVars, memoVars, mainVars, failed, spent>>

(* Mutant: the reservation is removed but the answer is not published.     *)
StoreUnpublished(o) ==
  /\ pc[o] = "storing"
  /\ slot' = [slot EXCEPT ![o] = "replayable"]
  /\ pending' = [pending EXCEPT ![Key(o)] = 0]
  /\ Goto(o, "answered")
  /\ UNCHANGED <<plan, schedVars, mainVars, failed, todo, spent, source, table>>

(* persistenceStoreAnswer succeeded: the answer is published and the slot  *)
(* filled in one transaction.  A steered answer is not replayable.         *)
Store(o) ==
  /\ pc[o] = "storing"
  /\ \E replayable \in BOOLEAN :
       /\ table' = [table EXCEPT ![Key(o)] = IF replayable THEN o ELSE 0]
       /\ slot' = [slot EXCEPT ![o] = IF replayable THEN "replayable" ELSE "once"]
  /\ pending' = [pending EXCEPT ![Key(o)] = 0]
  /\ Goto(o, "answered")
  /\ UNCHANGED <<plan, schedVars, mainVars, failed, todo, spent, source>>

(* An exception in the worker: a hard engine error, a failing store,       *)
(* checkpoint or observer.                                                 *)
Fault(o) ==
  /\ pc[o] \in {"prompted", "walking", "asking", "storing", "answered"}
  /\ Goto(o, Unwound(o))
  /\ UNCHANGED <<plan, schedVars, memoVars, mainVars, failed, todo, spent>>

(* The owner's handler: the reservation is removed and its waiters fail.   *)
GiveUp(o) ==
  /\ pc[o] = "unwinding"
  /\ pending' = [pending EXCEPT ![Key(o)] = 0]
  /\ slot' = [slot EXCEPT ![o] = "error"]
  /\ Goto(o, "failing")
  /\ UNCHANGED <<plan, schedVars, mainVars, failed, todo, spent, table, source>>

(* The finalizer of forkFinally: completing the reservations, filling the  *)
(* cell and recording a failure are one transaction.                       *)
Finish(o) ==
  /\ \/ pc[o] = "answered" /\ Goto(o, "ok") /\ UNCHANGED failed
     \/ pc[o] = "failing" /\ Goto(o, "left") /\ failed' = TRUE
  /\ UNCHANGED <<plan, schedVars, memoVars, mainVars, todo, spent>>

-----------------------------------------------------------------------------
Turn(o)  == Answer(o) \/ Gap(o) \/ Reroute(o)
Worker(o) ==
  \/ AwaitReservations(o) \/ AbortIfFailed(o) \/ AwaitPrompt(o)
  \/ Recall(o) \/ Dispatch(o) \/ Claim(o) \/ AwaitOwner(o)
  \/ Walk(o) \/ Turn(o) \/ FailOver(o) \/ Store(o) \/ GiveUp(o) \/ Finish(o)
Main == Walked \/ Return \/ AwaitFails \/ Raise
        \/ \E o \in Occ : Spawn(o) \/ Collect(o) \/ Kill(o)
Stopped == main \in {"returned", "raised"} /\ UNCHANGED vars

Next == \/ Main
        \/ Cancel
        \/ \E o \in Occ : Worker(o) \/ Fault(o)
        \/ Stopped

Spec == Init /\ [][Next]_vars

(* The GHC scheduler runs every thread that can run, and an engine turn    *)
(* ends.  Nothing obliges a fault or a cancellation to happen.             *)
Fairness == /\ WF_vars(Main)
            /\ \A p \in Plans : \A o \in DOMAIN p : WF_vars(o \in Occ /\ Worker(o))
FairSpec == Spec /\ Fairness

-----------------------------------------------------------------------------
(* Properties.                                                             *)

(* An effect is let through to the outside world only when everything      *)
(* before it in plan order has succeeded, and an occurrence after an       *)
(* effect only when that effect has succeeded: reservations, abortIfFailed *)
(* and the atomic finalizer together never let a failure be overtaken.     *)
EffectsFollowSuccess ==
  \A o \in Occ : Past(o) =>
    \A p \in 1..(o-1) : Effect(o) \/ Effect(p) => pc[p] = "ok"

(* A stateful transport lane has one holder at a time, in plan order,      *)
(* whatever candidates fail-over, redirection and rerouting choose.        *)
OneTurnPerLane ==
  \A o, p \in Occ :
    p < o /\ pc[o] = "asking" /\ LaneOf[Head(todo[o])] \in LanesOf(p)
      => pc[p] = "ok"

(* A reused answer is the replayable answer of an equal question that has  *)
(* been stored, and no effect lies between the two occurrences.            *)
ReuseStaysInEpoch ==
  \A o \in Occ : pc[o] \in {"answered", "ok"} /\ source[o] # 0 =>
    LET w == source[o] IN
      /\ slot[w] = "replayable"
      /\ plan[w].q = plan[o].q
      /\ \A e \in Occ : Effect(e) => ~(w <= e /\ e < o) /\ ~(o <= e /\ e < w)

(* Equal questions of one epoch are not asked twice: at most one owner is  *)
(* at work, and none while a replayable answer is in the table.            *)
SingleFlight ==
  \A o, p \in Occ :
    /\ o # p /\ Key(o) = Key(p)
    /\ slot[o] = "open" /\ pc[o] \in InFlight
    => ~(slot[p] = "open" /\ pc[p] \in InFlight) /\ slot[p] # "replayable"

(* A run that has returned or raised has no worker left, and it returned   *)
(* only if every node of the plan succeeded.                               *)
NoOrphanWorkers ==
  /\ main \in {"returned", "raised"} => \A o \in Occ : pc[o] \in Done \cup {"none"}
  /\ main = "returned" => \A o \in Occ : pc[o] = "ok"

(* The run always ends: no reservation, prompt, memo slot or kill is       *)
(* awaited for ever, whatever fails and whenever the run is cancelled.     *)
RunEnds == <>(main \in {"returned", "raised"})

(* The interpreter implements the abstract order of a plan.                *)
Order == INSTANCE PlanOrder WITH
           running <- {o \in Occ : pc[o] \in InFlight},
           finished <- {o \in Occ : pc[o] = "ok"}
ImplementsPlanOrder == Order!Spec
=============================================================================
