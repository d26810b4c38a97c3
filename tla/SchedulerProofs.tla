--------------------------- MODULE SchedulerProofs ---------------------------
(***************************************************************************)
(* Proofs about Scheduler for every set of plans, models and lanes.        *)
(*                                                                         *)
(* EffectsFollowSuccess is not inductive: that a completed reservation     *)
(* means success needs the atomic finalizer (a worker that ended in an     *)
(* exception has recorded the failure) and what the reservations of each   *)
(* node cover: all that must precede it is awaited, or precedes an effect  *)
(* that is awaited (OrderInv).  The lanes need the same for every node     *)
(* that shares a lane (LaneInv), the memo the agreement of its two tables, *)
(* the slots and the places of the workers (MemoInv), the end of the run   *)
(* what the main thread has seen (MainInv).                                *)
(***************************************************************************)
EXTENDS Scheduler, SequenceTheorems, TLAPS

(* Exactly the nodes the traversal has reached have a worker.              *)
SpawnedInv == \A o \in Occ : o > reached <=> pc[o] = "none"

(* A worker that ended in an exception has recorded the failure.           *)
FailureInv == \A o \in Occ : pc[o] = "left" => failed

(* The effect lane's tail is the last effect, and the questions after it   *)
(* are those the next effect will wait for.                                *)
TailInv ==
  /\ effectTail \in 0..reached /\ epochs \in 0..reached /\ toKill \in 0..reached
  /\ effectTail # 0 => Effect(effectTail)
  /\ readsSince \subseteq 1..reached
  /\ \A l \in Lanes : laneTail[l] \in 0..reached
  /\ \A o \in 1..reached : o > effectTail => ~Effect(o) /\ o \in readsSince

(* The reservations of a node cover everything that must precede it.       *)
WaitsInv ==
  \A o \in 1..reached :
    /\ waits[o] \subseteq 1..(o-1)
    /\ \A p \in 1..(o-1) : Effect(o) \/ Effect(p) =>
         p \in waits[o] \/ \E e \in waits[o] : Effect(e) /\ p < e

(* A released worker's reservations are complete; one that abortIfFailed   *)
(* let through waited for successes only.                                  *)
ReleasedInv == \A o \in Occ : pc[o] = "released" => \A p \in waits[o] : pc[p] \in Done
PastInv == \A o \in Occ : Past(o) => \A p \in waits[o] : pc[p] = "ok"

OrderInv == /\ SpawnedInv /\ FailureInv /\ TailInv /\ WaitsInv
            /\ ReleasedInv /\ PastInv /\ EffectsFollowSuccess

-----------------------------------------------------------------------------
(* A plan is a finite sequence, so its occurrences are 1..Len(plan).       *)
LEMMA PlanFacts ==
  ASSUME plan \in Plans
  PROVE  /\ Len(plan) \in Nat
         /\ Occ = 1..Len(plan)
         /\ \A o \in Occ : /\ plan[o].chain \in Seq(Candidates)
                           /\ plan[o].q \in Questions
                           /\ plan[o].deps \subseteq 1..(o-1)
                           /\ plan[o].gate \subseteq 1..(o-1)
  <1>1. plan \in Seq(Nodes)
    BY PlansAssumption
  <1>2. Len(plan) \in Nat /\ Occ = 1..Len(plan)
    BY <1>1, LenProperties DEF Occ
  <1>3. ASSUME NEW o \in Occ
        PROVE  plan[o] \in Nodes
    BY <1>1, <1>2, ElementOfSeq
  <1> QED BY <1>2, <1>3, PlansAssumption DEF Nodes

(* Reordering a fail-over chain yields a fail-over chain.                  *)
LEMMA PreferType ==
  ASSUME NEW S, NEW s \in Seq(S), NEW i \in 1..Len(s)
  PROVE  Prefer(i, s) \in Seq(S)
  <1>1. s[i] \in S
    BY ElementOfSeq
  <1>2. SubSeq(s, 1, i - 1) \in Seq(S)
    <2>1. \A k \in 1..(i-1) : s[k] \in S
      BY ElementOfSeq
    <2> QED BY <2>1, SubSeqProperties
  <1>3. SubSeq(s, i + 1, Len(s)) \in Seq(S)
    <2>1. \A k \in (i+1)..Len(s) : s[k] \in S
      BY ElementOfSeq
    <2> QED BY <2>1, SubSeqProperties
  <1>4. <<s[i]>> \in Seq(S)
    BY <1>1
  <1> QED BY <1>2, <1>3, <1>4, ConcatProperties DEF Prefer

LEMMA UpdateType ==
  ASSUME NEW S, NEW T, NEW f \in [S -> T], NEW k, NEW v \in T
  PROVE  [f EXCEPT ![k] = v] \in [S -> T]
  OBVIOUS

LEMMA TailType ==
  ASSUME NEW s \in Seq(Candidates), s # << >>
  PROVE  /\ Tail(s) \in Seq(Candidates)
         /\ Head(s) \in Candidates
  BY HeadTailProperties

(* A worker that asks has a candidate to ask.                              *)
AskingInv == \A o \in Occ : pc[o] = "asking" => todo[o] # << >>

(* The type invariant with the bounds it needs: reservations, epochs and   *)
(* kills never run ahead of the traversal.                                 *)
Typed == TypeOK /\ TailInv /\ AskingInv

LEMMA TypedInit == Init => Typed
  <1> SUFFICES ASSUME Init PROVE Typed
    OBVIOUS
  <1> USE DEF Init
  <1>1. plan \in Plans
    OBVIOUS
  <1>2. Len(plan) \in Nat /\ Occ = 1..Len(plan)
    BY <1>1, PlanFacts
  <1>3. << >> \in Seq(Candidates)
    OBVIOUS
  <1>4. TypeOK
    <2>1. todo \in [Occ -> Seq(Candidates)]
      BY <1>3
    <2>2. pc \in [Occ -> PC]
      BY DEF PC, Waiting
    <2>3. table \in [Keys -> 0..Len(plan)] /\ pending \in [Keys -> 0..Len(plan)]
      BY <1>2
    <2>4. /\ slot \in [Occ -> {"none", "open", "replayable", "once", "error"}]
          /\ source \in [Occ -> 0..Len(plan)] /\ epoch \in [Occ -> 0..Len(plan)]
          /\ waits \in [Occ -> SUBSET Occ] /\ laneTail \in [Lanes -> 0..Len(plan)]
      BY <1>2
    <2>5. /\ main \in {"walking", "collecting", "cancelling", "returned", "raised"}
          /\ failed \in BOOLEAN /\ readsSince \subseteq Occ /\ spent \subseteq Models
      OBVIOUS
    <2>6. /\ reached \in 0..Len(plan) /\ collected \in 0..Len(plan)
          /\ toKill \in 0..Len(plan)
          /\ effectTail \in 0..Len(plan) /\ epochs \in 0..Len(plan)
      BY <1>2
    <2> QED BY <1>1, <2>1, <2>2, <2>3, <2>4, <2>5, <2>6 DEF TypeOK
  <1>5. TailInv
    BY <1>2 DEF TailInv
  <1>6. AskingInv
    BY DEF AskingInv
  <1> QED BY <1>4, <1>5, <1>6 DEF Typed

(* What a step that leaves the traversal alone must still show.            *)
LEMMA SpawnTyped ==
  ASSUME Typed, NEW o \in Occ, Spawn(o)
  PROVE  Typed'
  <1> USE DEF Typed
  <1>1. /\ Len(plan) \in Nat /\ Occ = 1..Len(plan) /\ Occ' = Occ /\ plan' = plan
        /\ plan[o].chain \in Seq(Candidates)
    BY PlanFacts DEF TypeOK, Spawn, Occ
  <1>2. o = reached + 1 /\ reached' = o /\ o \in 1..Len(plan) /\ reached \in 0..Len(plan)
    BY <1>1 DEF Spawn, TypeOK
  <1>3. Reserved(o) \subseteq Occ
    <2>1. LanesOf(o) \subseteq Lanes
      BY <1>1, CandidatesAssumption, ElementOfSeq, LenProperties DEF LanesOf, Elems
    <2>2. \A l \in Lanes : laneTail[l] # 0 => laneTail[l] \in Occ
      BY <1>1 DEF TypeOK
    <2>3. readsSince \subseteq Occ /\ (effectTail # 0 => effectTail \in Occ)
      BY <1>1 DEF TypeOK
    <2> QED BY <2>1, <2>2, <2>3 DEF Reserved
  <1>4. laneTail' \in [Lanes -> 0..Len(plan)]
    BY <1>1, <1>2 DEF Spawn, TypeOK
  <1>5. effectTail' \in 0..reached' /\ epochs' \in 0..reached' /\ readsSince' \subseteq 1..reached'
    <2>1. CASE Effect(o)
      BY <1>2, <2>1 DEF Spawn, TailInv
    <2>2. CASE ~Effect(o)
      <3>1. effectTail' = effectTail /\ epochs' = epochs /\ readsSince' = readsSince \cup {o}
        BY <2>2 DEF Spawn
      <3> QED BY <1>2, <3>1 DEF TailInv
    <2> QED BY <2>1, <2>2
  <1>6. TypeOK'
    <2>1. waits' \in [Occ -> SUBSET Occ] /\ epoch' \in [Occ -> 0..Len(plan)]
      BY <1>1, <1>3 DEF Spawn, TypeOK
    <2>2. pc' \in [Occ -> PC] /\ todo' \in [Occ -> Seq(Candidates)]
      BY <1>1 DEF Spawn, TypeOK, PC, Waiting
    <2>3. readsSince' \subseteq Occ /\ effectTail' \in 0..Len(plan) /\ epochs' \in 0..Len(plan)
      BY <1>1, <1>2, <1>5
    <2>4. Keys' = Keys
      BY <1>1 DEF Keys
    <2> QED BY <1>1, <1>2, <1>4, <2>1, <2>2, <2>3, <2>4 DEF TypeOK, Spawn, memoVars, mainVars
  <1>7. TailInv'
    <2>1. \A l \in Lanes : laneTail'[l] \in 0..reached'
      BY <1>2 DEF Spawn, TailInv
    <2>2. effectTail' # 0 => plan[effectTail'].effect
      BY <1>2 DEF Spawn, TailInv, Effect
    <2>3. \A p \in 1..reached' : p > effectTail' => ~plan[p].effect /\ p \in readsSince'
      BY <1>2 DEF Spawn, TailInv, Effect
    <2>4. toKill' \in 0..reached'
      BY <1>2 DEF Spawn, TailInv, mainVars
    <2> QED BY <1>1, <1>5, <2>1, <2>2, <2>3, <2>4 DEF TailInv, Effect
  <1>8. AskingInv'
    BY <1>1 DEF AskingInv, Spawn, TypeOK
  <1> QED BY <1>6, <1>7, <1>8

LEMMA TypedStep ==
  ASSUME Typed, [Next]_vars
  PROVE  Typed'
  <1> USE DEF Typed
  <1>1. /\ Len(plan) \in Nat /\ Occ = 1..Len(plan)
        /\ \A o \in Occ : todo[o] \in Seq(Candidates)
    BY PlanFacts DEF TypeOK
  <1>2. ASSUME plan' = plan, UNCHANGED schedVars, toKill' \in 0..reached
        PROVE  TailInv' /\ Keys' = Keys /\ Occ' = Occ
    BY <1>2 DEF TailInv, schedVars, Keys, Occ, Effect
  <1>3. CASE UNCHANGED vars
    <2>1. UNCHANGED schedVars /\ toKill' = toKill /\ plan' = plan
      BY <1>3 DEF vars, mainVars
    <2>2. TailInv' /\ Keys' = Keys /\ Occ' = Occ
      BY <1>2, <2>1 DEF TailInv
    <2> QED BY <1>3, <2>2 DEF TypeOK, AskingInv, vars, schedVars, memoVars, mainVars
  <1>4. CASE Main
    <2>1. CASE \E o \in Occ : Spawn(o)
      BY <2>1, SpawnTyped
    <2>2. CASE Walked \/ Return \/ AwaitFails \/ Raise \/ \E o \in Occ : Collect(o)
      <3>1. UNCHANGED <<plan, schedVars, memoVars, failed, pc, todo, spent>> /\ toKill' \in 0..reached
        BY <1>1, <2>2 DEF Walked, Return, AwaitFails, Raise, Collect, TailInv, TypeOK
      <3>2. TailInv' /\ Keys' = Keys /\ Occ' = Occ
        BY <1>2, <3>1
      <3>3. main' \in {"walking", "collecting", "cancelling", "returned", "raised"}
        BY <2>2 DEF Walked, Return, AwaitFails, Raise, Collect, TypeOK
      <3>4. collected' \in 0..Len(plan)
        BY <1>1, <2>2 DEF Walked, Return, AwaitFails, Raise, Collect, TypeOK
      <3> QED BY <1>1, <3>1, <3>2, <3>3, <3>4 DEF TypeOK, AskingInv, schedVars, memoVars, TailInv
    <2>3. ASSUME NEW o \in Occ, Kill(o)
          PROVE  Typed'
      <3>1. UNCHANGED <<plan, schedVars>> /\ toKill' \in 0..reached /\ toKill' \in 0..Len(plan)
        BY <1>1, <2>3 DEF Kill, TailInv, TypeOK
      <3>2. TailInv' /\ Keys' = Keys /\ Occ' = Occ
        BY <1>2, <3>1
      <3>3. pc' \in [Occ -> PC]
        BY <2>3 DEF Kill, TypeOK, Unwound, PC, Unwinding
      <3>4. AskingInv'
        BY <2>3, <3>2 DEF AskingInv, Kill, TypeOK, Unwound
      <3> QED BY <2>3, <3>1, <3>2, <3>3, <3>4 DEF TypeOK, Kill, schedVars, memoVars
    <2> QED BY <1>4, <2>1, <2>2, <2>3 DEF Main
  <1>5. CASE Cancel
    <2>1. UNCHANGED <<plan, schedVars>> /\ toKill' \in 0..reached
      BY <1>1, <1>5 DEF Cancel, TypeOK
    <2>2. TailInv' /\ Keys' = Keys /\ Occ' = Occ
      BY <1>2, <2>1
    <2> QED BY <1>1, <1>5, <2>1, <2>2 DEF TypeOK, AskingInv, Cancel, schedVars, memoVars
  <1>6. ASSUME NEW o \in Occ, Worker(o) \/ Fault(o)
        PROVE  Typed'
    <2>1. UNCHANGED <<plan, schedVars, mainVars>>
      BY <1>6 DEF Worker, Turn, Fault, AwaitReservations, AbortIfFailed, AwaitPrompt, Recall,
         Dispatch, Claim, AwaitOwner, Walk, Answer, Gap, Reroute, FailOver, Store, GiveUp, Finish
    <2>2. TailInv' /\ Keys' = Keys /\ Occ' = Occ
      BY <1>2, <2>1 DEF mainVars, TailInv
    <2>3. pc' \in [Occ -> PC]
      BY <1>6 DEF Worker, Turn, Fault, AwaitReservations, AbortIfFailed, AwaitPrompt, Recall,
         Dispatch, Claim, AwaitOwner, Walk, Answer, Gap, Reroute, FailOver, Store, GiveUp, Finish,
         Goto, TypeOK, PC, Waiting, InFlight, Unwinding, Done, Unwound
    <2>4. todo' \in [Occ -> Seq(Candidates)]
      <3>1. CASE Dispatch(o)
        <4>1. PICK i \in 1..Len(todo[o]) : todo' = [todo EXCEPT ![o] = Prefer(i, todo[o])]
          BY <3>1 DEF Dispatch
        <4>2. Prefer(i, todo[o]) \in Seq(Candidates)
          BY <1>1, PreferType
        <4> QED BY <4>1, <4>2 DEF TypeOK
      <3>2. CASE Gap(o) \/ Reroute(o) \/ Walk(o)
        <4>1. CASE UNCHANGED todo
          BY <4>1 DEF TypeOK
        <4>2. CASE todo[o] # << >> /\ todo' = [todo EXCEPT ![o] = Tail(todo[o])]
          BY <1>1, <4>2, TailType DEF TypeOK
        <4>3. CASE todo[o] # << >> /\ Reroute(o)
          <5>1. PICK i \in 1..Len(Tail(todo[o])) :
                  todo' = [todo EXCEPT ![o] = Prefer(i, Tail(todo[o]))]
            BY <4>3 DEF Reroute
          <5>2. Prefer(i, Tail(todo[o])) \in Seq(Candidates)
            BY <1>1, <4>3, TailType, PreferType
          <5> QED BY <5>1, <5>2 DEF TypeOK
        <4>4. pc[o] = "asking" => todo[o] # << >>
          BY DEF AskingInv
        <4> QED BY <3>2, <4>1, <4>2, <4>3, <4>4 DEF Gap, Walk, Reroute
      <3>3. CASE UNCHANGED todo
        BY <3>3 DEF TypeOK
      <3> QED BY <1>6, <3>1, <3>2, <3>3 DEF Worker, Turn, Fault, AwaitReservations, AbortIfFailed,
           AwaitPrompt, Recall, Claim, AwaitOwner, Answer, FailOver, Store, GiveUp, Finish
    <2>5. table' \in [Keys -> 0..Len(plan)] /\ pending' \in [Keys -> 0..Len(plan)]
      <3> DEFINE M == [Keys -> 0..Len(plan)]
      <3>0. /\ table \in M /\ pending \in M /\ 0 \in 0..Len(plan) /\ o \in 0..Len(plan)
            /\ \A f \in M, k, v \in 0..Len(plan) : [f EXCEPT ![k] = v] \in M
        BY <1>1, UpdateType DEF TypeOK
      <3> HIDE DEF M
      <3>1. CASE Claim(o)
        <4>1. table' = table /\ (pending' = pending \/ pending' = [pending EXCEPT ![Key(o)] = o])
          BY <3>1 DEF Claim
        <4> QED BY <3>0, <4>1 DEF M
      <3>3. CASE Store(o)
        <4>1. /\ pending' = [pending EXCEPT ![Key(o)] = 0]
              /\ table' = [table EXCEPT ![Key(o)] = o] \/ table' = [table EXCEPT ![Key(o)] = 0]
          BY <3>3 DEF Store
        <4> QED BY <3>0, <4>1 DEF M
      <3>4. CASE GiveUp(o)
        <4>1. table' = table /\ pending' = [pending EXCEPT ![Key(o)] = 0]
          BY <3>4 DEF GiveUp
        <4> QED BY <3>0, <4>1 DEF M
      <3>2. CASE UNCHANGED <<table, pending>>
        BY <3>2 DEF TypeOK
      <3> QED BY <1>6, <3>1, <3>2, <3>3, <3>4 DEF Worker, Turn, Fault, AwaitReservations, AbortIfFailed,
           AwaitPrompt, Recall, Dispatch, AwaitOwner, Walk, Answer, Gap, Reroute, FailOver, Finish,
           memoVars
    <2>6. /\ slot' \in [Occ -> {"none", "open", "replayable", "once", "error"}]
          /\ source' \in [Occ -> 0..Len(plan)]
      <3>1. CASE Claim(o)
        <4>1. Key(o) \in Keys
          BY <1>1, PlanFacts DEF Key, Keys, TypeOK
        <4> QED BY <1>1, <3>1, <4>1 DEF Claim, TypeOK
      <3>2. CASE Store(o)
        BY <3>2 DEF Store, TypeOK
      <3>4. CASE GiveUp(o)
        BY <3>4 DEF GiveUp, TypeOK
      <3>5. CASE AwaitOwner(o)
        BY <1>1, <3>5 DEF AwaitOwner, TypeOK
      <3>3. CASE UNCHANGED <<slot, source>>
        BY <3>3 DEF TypeOK
      <3> QED BY <1>6, <3>1, <3>2, <3>3, <3>4, <3>5 DEF Worker, Turn, Fault, AwaitReservations,
           AbortIfFailed, AwaitPrompt, Recall, Dispatch, Walk, Answer, Gap, Reroute, FailOver, Finish, memoVars
    <2>7. spent' \subseteq Models /\ failed' \in BOOLEAN
      BY <1>6 DEF Worker, Turn, Fault, AwaitReservations, AbortIfFailed, AwaitPrompt, Recall,
         Dispatch, Claim, AwaitOwner, Walk, Answer, Gap, Reroute, FailOver, Store, GiveUp, Finish,
         TypeOK
    <2>8. AskingInv'
      <3>1. \A p \in Occ : p # o => pc'[p] = pc[p] /\ todo'[p] = todo[p]
        BY <1>6 DEF Worker, Turn, Fault, AwaitReservations, AbortIfFailed, AwaitPrompt, Recall,
           Dispatch, Claim, AwaitOwner, Walk, Answer, Gap, Reroute, FailOver, Store, GiveUp, Finish,
           Goto, TypeOK
      <3>2. pc'[o] = "asking" => todo'[o] # << >>
        BY <1>6 DEF Worker, Turn, Fault, AwaitReservations, AbortIfFailed, AwaitPrompt, Recall,
           Dispatch, Claim, AwaitOwner, Walk, Answer, Gap, Reroute, FailOver, Store, GiveUp, Finish,
           Goto, TypeOK, Unwound
      <3> QED BY <2>2, <3>1, <3>2 DEF AskingInv
    <2> QED BY <2>1, <2>2, <2>3, <2>4, <2>5, <2>6, <2>7, <2>8 DEF TypeOK, schedVars, mainVars
  <1> QED BY <1>3, <1>4, <1>5, <1>6 DEF Next, Stopped

(* Type correctness of the interpreter's state.                            *)
THEOREM TypeCorrect == Spec => []TypeOK
  <1>1. Typed /\ [Next]_vars => Typed'
    BY TypedStep
  <1> QED BY TypedInit, <1>1, PTL DEF Spec, Typed

-----------------------------------------------------------------------------
(* A worker that moves from one place to another, neither past its         *)
(* reservations nor past abortIfFailed for the first time, disturbs no     *)
(* ordering; if its exception ends it, the failure is recorded.            *)
LEMMA MoveKeepsOrder ==
  ASSUME Typed, OrderInv, NEW o \in Occ, NEW l,
         UNCHANGED <<plan, schedVars>>, toKill' \in 0..reached,
         pc' = [pc EXCEPT ![o] = l],
         pc[o] \notin Done \cup {"none"},
         l # "none", l # "released",
         l \in InFlight \cup {"ok"} => Past(o),
         l = "left" => failed',
         failed => failed'
  PROVE  OrderInv'
  <1> USE DEF Typed, OrderInv
  <1>1. /\ Occ' = Occ /\ plan' = plan /\ waits' = waits /\ reached' = reached
        /\ toKill' \in 0..reached
        /\ Len(plan) \in Nat /\ Occ = 1..Len(plan) /\ pc \in [Occ -> PC]
        /\ reached \in 0..Len(plan)
    BY PlanFacts DEF Occ, schedVars, TypeOK, TailInv
  <1>2. /\ pc'[o] = l
        /\ \A p \in Occ : p # o => pc'[p] = pc[p]
        /\ \A p \in Occ : pc[p] = "ok" => pc'[p] = "ok"
        /\ \A p \in Occ : pc[p] \in Done => pc'[p] \in Done
        /\ \A p \in Occ : pc'[p] \in InFlight \cup {"ok"} => Past(p)
    BY <1>1 DEF Past, Done
  <1>3. SpawnedInv'
    BY <1>1, <1>2 DEF SpawnedInv
  <1>4. FailureInv'
    BY <1>1, <1>2 DEF FailureInv
  <1>5. TailInv'
    BY <1>1 DEF TailInv, schedVars, Effect
  <1>6. WaitsInv'
    BY <1>1 DEF WaitsInv, Effect
  <1>7. ReleasedInv'
    <2> SUFFICES ASSUME NEW p \in Occ, pc'[p] = "released", NEW w \in waits[p]
                 PROVE  pc'[w] \in Done
      BY <1>1 DEF ReleasedInv, Done
    <2>1. pc[p] = "released" /\ w \in Occ
      BY <1>1, <1>2 DEF TypeOK
    <2> QED BY <1>2, <2>1 DEF ReleasedInv
  <1>8. PastInv'
    <2> SUFFICES ASSUME NEW p \in Occ, pc'[p] \in InFlight \cup {"ok"}, NEW w \in waits[p]
                 PROVE  pc'[w] = "ok"
      BY <1>1 DEF PastInv, Past
    <2>1. Past(p) /\ w \in Occ
      BY <1>1, <1>2 DEF TypeOK
    <2> QED BY <1>2, <2>1 DEF PastInv
  <1>9. EffectsFollowSuccess'
    <2> SUFFICES ASSUME NEW p \in Occ, pc'[p] \in InFlight \cup {"ok"}, NEW w \in 1..(p-1),
                        Effect(p) \/ Effect(w)
                 PROVE  pc'[w] = "ok"
      BY <1>1 DEF EffectsFollowSuccess, Past, Effect
    <2>1. Past(p) /\ w \in Occ
      BY <1>1, <1>2
    <2> QED BY <1>2, <2>1 DEF EffectsFollowSuccess
  <1> QED BY <1>3, <1>4, <1>5, <1>6, <1>7, <1>8, <1>9

(* A step that moves no worker and spawns none disturbs no ordering.       *)
LEMMA StillKeepsOrder ==
  ASSUME Typed, OrderInv, UNCHANGED <<plan, schedVars, pc>>,
         toKill' \in 0..reached, failed => failed'
  PROVE  OrderInv'
  <1>1. /\ Occ' = Occ /\ plan' = plan /\ waits' = waits /\ reached' = reached /\ pc' = pc
    BY DEF Occ, schedVars
  <1> QED BY <1>1 DEF OrderInv, SpawnedInv, FailureInv, TailInv, WaitsInv, ReleasedInv, PastInv,
        EffectsFollowSuccess, Past, Effect, schedVars, Done

(* Spawning extends the traversal by one node, whose reservations cover    *)
(* the nodes that must precede it.                                         *)
LEMMA SpawnKeepsOrder ==
  ASSUME Typed, OrderInv, NEW o \in Occ, Spawn(o)
  PROVE  OrderInv'
  <1> USE DEF Typed, OrderInv
  <1>1. /\ Occ' = Occ /\ plan' = plan /\ Len(plan) \in Nat /\ Occ = 1..Len(plan)
        /\ pc \in [Occ -> PC] /\ waits \in [Occ -> SUBSET Occ]
        /\ reached \in 0..Len(plan) /\ o = reached + 1 /\ reached' = o
        /\ waits' = [waits EXCEPT ![o] = Reserved(o)]
        /\ pc' = [pc EXCEPT ![o] = "reserved"] /\ failed' = failed
    BY PlanFacts DEF TypeOK, Spawn, Occ
  <1>2. pc[o] = "none"
    BY <1>1 DEF SpawnedInv
  <1>3. /\ \A p \in Occ : p # o => pc'[p] = pc[p] /\ waits'[p] = waits[p]
        /\ pc'[o] = "reserved" /\ waits'[o] = Reserved(o)
    BY <1>1
  <1>4. SpawnedInv' /\ FailureInv'
    BY <1>1, <1>3 DEF SpawnedInv, FailureInv
  <1>5. TailInv'
    BY SpawnTyped
  <1>6. WaitsInv'
    <2>1. Reserved(o) \subseteq 1..(o-1)
      <3>1. LanesOf(o) \subseteq Lanes
        BY <1>1, PlanFacts, CandidatesAssumption, ElementOfSeq, LenProperties
           DEF LanesOf, Elems, TypeOK
      <3>2. \A l \in Lanes : laneTail[l] # 0 => laneTail[l] \in 1..(o-1)
        BY <1>1 DEF TailInv
      <3>3. readsSince \subseteq 1..(o-1) /\ (effectTail # 0 => effectTail \in 1..(o-1))
        BY <1>1 DEF TailInv
      <3> QED BY <3>1, <3>2, <3>3 DEF Reserved
    <2>2. ASSUME NEW p \in 1..(o-1), Effect(o) \/ Effect(p)
          PROVE  p \in Reserved(o) \/ \E e \in Reserved(o) : Effect(e) /\ p < e
      <3>1. p \in 1..reached /\ p \in Nat /\ effectTail \in Nat
        BY <1>1 DEF TailInv
      <3>2. CASE p > effectTail
        BY <2>2, <3>1, <3>2 DEF TailInv, Reserved
      <3>3. CASE p <= effectTail
        <4>1. effectTail \in Reserved(o) /\ Effect(effectTail)
          BY <3>1, <3>3 DEF TailInv, Reserved
        <4> QED BY <3>1, <3>3, <4>1
      <3> QED BY <3>1, <3>2, <3>3
    <2> QED BY <1>1, <1>3, <2>1, <2>2 DEF WaitsInv, Effect
  <1>7. \A p \in Occ : p # o /\ pc[p] # "none" => o \notin waits[p] /\ o \notin 1..(p-1)
    BY <1>1 DEF SpawnedInv, WaitsInv
  <1>8. ReleasedInv'
    BY <1>1, <1>3, <1>7 DEF ReleasedInv, Done, TypeOK
  <1>9. PastInv' /\ EffectsFollowSuccess'
    <2>1. \A p \in Occ : pc'[p] \in InFlight \cup {"ok"} => p # o /\ Past(p) /\ pc[p] # "none"
      BY <1>3 DEF InFlight, Past
    <2>2. PastInv'
      BY <1>1, <1>3, <1>7, <2>1 DEF PastInv, Past, TypeOK
    <2>3. EffectsFollowSuccess'
      BY <1>1, <1>3, <1>7, <2>1 DEF EffectsFollowSuccess, Past, Effect
    <2> QED BY <2>2, <2>3
  <1> QED BY <1>4, <1>5, <1>6, <1>8, <1>9

(* A released worker's reservations are complete.                          *)
LEMMA ReleaseKeepsOrder ==
  ASSUME Typed, OrderInv, NEW o \in Occ, AwaitReservations(o)
  PROVE  OrderInv'
  <1> USE DEF Typed, OrderInv
  <1>1. /\ Occ' = Occ /\ plan' = plan /\ waits' = waits /\ reached' = reached /\ failed' = failed
        /\ pc \in [Occ -> PC] /\ pc' = [pc EXCEPT ![o] = "released"]
        /\ pc[o] = "reserved" /\ waits \in [Occ -> SUBSET Occ]
        /\ Occ = 1..Len(plan) /\ Len(plan) \in Nat
    BY PlanFacts DEF AwaitReservations, Goto, Occ, schedVars, TypeOK
  <1>2. /\ \A p \in Occ : p # o => pc'[p] = pc[p]
        /\ \A p \in Occ : pc'[p] \in InFlight \cup {"ok"} <=> Past(p)
        /\ \A p \in Occ : pc[p] \in Done => pc'[p] = pc[p]
    BY <1>1 DEF Past, InFlight, Done
  <1>3. SpawnedInv' /\ FailureInv'
    BY <1>1 DEF SpawnedInv, FailureInv
  <1>4. TailInv' /\ WaitsInv'
    BY <1>1 DEF AwaitReservations, TailInv, WaitsInv, Effect, schedVars, mainVars
  <1>5. ReleasedInv'
    BY <1>1, <1>2 DEF AwaitReservations, ReleasedInv, Done
  <1>6. PastInv'
    BY <1>1, <1>2 DEF PastInv, Past, Done
  <1>7. EffectsFollowSuccess'
    BY <1>1, <1>2 DEF EffectsFollowSuccess, Past, Done, Effect
  <1> QED BY <1>3, <1>4, <1>5, <1>6, <1>7

(* abortIfFailed lets a worker through only when no failure has been       *)
(* recorded: its completed reservations are then all successes, and by     *)
(* what they cover so is everything that must precede it.                  *)
LEMMA AbortKeepsOrder ==
  ASSUME Typed, OrderInv, NEW o \in Occ, AbortIfFailed(o)
  PROVE  OrderInv'
  <1> USE DEF Typed, OrderInv
  <1>1. UNCHANGED <<plan, schedVars, failed>> /\ toKill' \in 0..reached /\ pc[o] = "released"
    BY DEF AbortIfFailed, mainVars, TailInv
  <1>2. CASE failed
    <2>1. pc' = [pc EXCEPT ![o] = "failing"]
      BY <1>2 DEF AbortIfFailed, Goto
    <2>2. failed => failed'
      BY <1>1
    <2>3. UNCHANGED <<plan, schedVars>> /\ toKill' \in 0..reached
      BY <1>1
    <2>4. pc[o] \notin Done \cup {"none"} /\ "failing" \notin InFlight \cup {"ok"}
      BY <1>1 DEF Done, InFlight
    <2> HIDE DEF Typed, OrderInv
    <2> QED BY <2>1, <2>2, <2>3, <2>4, MoveKeepsOrder
  <1>3. CASE ~failed
    <2>1. /\ Occ' = Occ /\ plan' = plan /\ waits' = waits /\ reached' = reached
          /\ pc \in [Occ -> PC] /\ pc' = [pc EXCEPT ![o] = "started"]
          /\ waits \in [Occ -> SUBSET Occ] /\ Occ = 1..Len(plan) /\ Len(plan) \in Nat
          /\ reached \in 0..Len(plan)
      BY <1>1, <1>3, PlanFacts DEF AbortIfFailed, Goto, Occ, schedVars, TypeOK
    <2>2. /\ \A p \in Occ : p # o => pc'[p] = pc[p]
          /\ \A p \in Occ : p # o /\ pc'[p] \in InFlight \cup {"ok"} => Past(p)
          /\ \A p \in Occ : pc[p] \in Done => pc'[p] = pc[p]
      BY <1>1, <2>1 DEF Past, InFlight, Done
    <2>3. \A p \in waits[o] : p \in Occ /\ pc[p] = "ok" /\ pc'[p] = "ok"
      BY <1>1, <1>3, <2>1, <2>2 DEF ReleasedInv, FailureInv, Done
    <2>4. SpawnedInv' /\ FailureInv'
      BY <1>1, <1>3, <2>1 DEF SpawnedInv, FailureInv
    <2>5. TailInv' /\ WaitsInv'
      BY <1>1, <2>1 DEF TailInv, WaitsInv, Effect, schedVars
    <2>6. ReleasedInv'
      BY <2>1, <2>2 DEF ReleasedInv, Done
    <2>7. PastInv'
      BY <2>1, <2>2, <2>3 DEF PastInv, Past, Done
    <2>8. ASSUME NEW p \in 1..(o-1), Effect(o) \/ Effect(p)
          PROVE  pc[p] = "ok"
      <3>1. o \in 1..reached
        BY <1>1, <2>1 DEF SpawnedInv
      <3>2. CASE p \in waits[o]
        BY <2>3, <3>2
      <3>3. CASE p \notin waits[o]
        <4>1. PICK e \in waits[o] : Effect(e) /\ p < e
          BY <2>8, <3>1, <3>3 DEF WaitsInv
        <4>2. e \in Occ /\ Past(e)
          BY <2>3 DEF Past
        <4> QED BY <2>1, <4>1, <4>2 DEF EffectsFollowSuccess
      <3> QED BY <3>2, <3>3
    <2>9. EffectsFollowSuccess'
      <3> SUFFICES ASSUME NEW x \in Occ, pc'[x] \in InFlight \cup {"ok"}, NEW p \in 1..(x-1),
                          Effect(x) \/ Effect(p)
                   PROVE  pc'[p] = "ok"
        BY <2>1 DEF EffectsFollowSuccess, Past, Effect
      <3>1. p \in Occ
        BY <2>1
      <3>2. pc[p] = "ok"
        <4>1. CASE x = o
          BY <2>8, <4>1
        <4>2. CASE x # o
          BY <2>2, <4>2 DEF EffectsFollowSuccess
        <4> QED BY <4>1, <4>2
      <3> QED BY <2>2, <3>1, <3>2 DEF Done
    <2> QED BY <2>4, <2>5, <2>6, <2>7, <2>9
  <1> QED BY <1>2, <1>3

LEMMA OrderInit == Init => OrderInv
  <1> SUFFICES ASSUME Init PROVE OrderInv
    OBVIOUS
  <1>1. Len(plan) \in Nat /\ Occ = 1..Len(plan)
    BY PlanFacts DEF Init
  <1> QED BY <1>1 DEF Init, OrderInv, SpawnedInv, FailureInv, TailInv, WaitsInv, ReleasedInv,
        PastInv, EffectsFollowSuccess, Past, InFlight

LEMMA OrderStep ==
  ASSUME Typed, OrderInv, [Next]_vars
  PROVE  OrderInv'
  <1>0. Len(plan) \in Nat /\ Occ = 1..Len(plan) /\ toKill \in 0..reached /\ reached \in Nat
        /\ pc \in [Occ -> PC]
    BY PlanFacts DEF Typed, TypeOK, TailInv
  <1>1. CASE UNCHANGED vars
    BY <1>0, <1>1, StillKeepsOrder DEF vars, mainVars
  <1>2. CASE Walked \/ Return \/ AwaitFails \/ Raise \/ Cancel \/ \E o \in Occ : Collect(o)
    <2>1. /\ UNCHANGED <<plan, schedVars, pc>> /\ toKill' \in 0..reached /\ (failed => failed')
      BY <1>0, <1>2 DEF Walked, Return, AwaitFails, Raise, Cancel, Collect
    <2> QED BY <2>1, StillKeepsOrder
  <1>3. ASSUME NEW o \in Occ, Spawn(o) PROVE OrderInv'
    BY <1>3, SpawnKeepsOrder
  <1>4. ASSUME NEW o \in Occ, Kill(o) PROVE OrderInv'
    <2>1. UNCHANGED <<plan, schedVars, failed>> /\ toKill' \in 0..reached
      BY <1>0, <1>4 DEF Kill
    <2>2. CASE pc' = pc
      BY <2>1, <2>2, StillKeepsOrder
    <2>3. CASE pc' = [pc EXCEPT ![o] = Unwound(o)] /\ pc[o] \notin Done
      <3>1. pc[o] # "none"
        BY <1>0, <1>4 DEF OrderInv, SpawnedInv, Kill
      <3>2. Unwound(o) \in {"unwinding", "failing"}
        BY DEF Unwound
      <3> QED BY <2>1, <2>3, <3>1, <3>2, MoveKeepsOrder DEF InFlight
    <2> QED BY <1>4, <2>2, <2>3 DEF Kill
  <1>5. ASSUME NEW o \in Occ, Worker(o) \/ Fault(o) PROVE OrderInv'
    <2>1. UNCHANGED <<plan, schedVars>> /\ toKill' \in 0..reached /\ (failed => failed')
      BY <1>0, <1>5 DEF Worker, Turn, Fault, AwaitReservations, AbortIfFailed, AwaitPrompt, Recall,
         Dispatch, Claim, AwaitOwner, Walk, Answer, Gap, Reroute, FailOver, Store, GiveUp, Finish,
         mainVars
    <2>2. CASE AwaitReservations(o)
      BY <2>2, ReleaseKeepsOrder
    <2>3. CASE AbortIfFailed(o)
      BY <2>3, AbortKeepsOrder
    <2>4. CASE pc' = pc
      BY <2>1, <2>4, StillKeepsOrder
    <2>5. ASSUME NEW l \in InFlight \cup {"ok", "unwinding", "failing"},
                 Past(o), pc[o] # "ok", pc' = [pc EXCEPT ![o] = l]
          PROVE  OrderInv'
      BY <2>1, <2>5, MoveKeepsOrder DEF Past, InFlight, Done
    <2>6. CASE GiveUp(o) \/ (Finish(o) /\ pc[o] = "failing")
      <3>1. /\ pc[o] \in {"unwinding", "failing"}
            /\ \/ pc' = [pc EXCEPT ![o] = "failing"]
               \/ pc' = [pc EXCEPT ![o] = "left"] /\ failed'
        BY <2>6 DEF GiveUp, Finish, Goto
      <3> QED BY <2>1, <3>1, MoveKeepsOrder DEF Done, InFlight
    <2>7. CASE \/ AwaitPrompt(o) \/ Recall(o) \/ Dispatch(o) \/ Claim(o) \/ AwaitOwner(o) \/ Walk(o)
               \/ Turn(o) \/ FailOver(o) \/ Store(o) \/ Fault(o) \/ (Finish(o) /\ pc[o] = "answered")
      <3>1. Past(o) /\ pc[o] # "ok"
        BY <2>7 DEF Past, InFlight, Turn, Fault, AwaitPrompt, Recall, Dispatch, Claim, AwaitOwner,
           Walk, Answer, Gap, Reroute, FailOver, Store, Finish
      <3>2. \/ pc' = pc
            \/ \E l \in InFlight \cup {"ok", "unwinding", "failing"} : pc' = [pc EXCEPT ![o] = l]
        BY <2>7 DEF InFlight, Turn, Fault, AwaitPrompt, Recall, Dispatch, Claim, AwaitOwner, Walk,
           Answer, Gap, Reroute, FailOver, Store, Finish, Goto, Unwound
      <3> QED BY <2>4, <2>5, <3>1, <3>2
    <2>8. Finish(o) => pc[o] = "answered" \/ pc[o] = "failing"
      BY DEF Finish
    <2> QED BY <1>5, <2>2, <2>3, <2>6, <2>7, <2>8 DEF Worker
  <1> QED BY <1>1, <1>2, <1>3, <1>4, <1>5 DEF Next, Main, Stopped

(* No effect overtakes a failure and nothing overtakes an effect, for      *)
(* every plan, every chain and every lane assignment.                      *)
THEOREM EffectOrder == Spec => []EffectsFollowSuccess
  <1>1. Init => Typed /\ OrderInv
    BY TypedInit, OrderInit
  <1>2. (Typed /\ OrderInv) /\ [Next]_vars => (Typed /\ OrderInv)'
    BY TypedStep, OrderStep
  <1>3. OrderInv => EffectsFollowSuccess
    BY DEF OrderInv
  <1> QED BY <1>1, <1>2, <1>3, PTL DEF Spec

-----------------------------------------------------------------------------
(* The step of one worker from a place to another, seen by PlanOrder: it   *)
(* starts, succeeds, stops, or nothing happens.                            *)
LEMMA MoveRefines ==
  ASSUME Typed, OrderInv', NEW o \in Occ, NEW l, plan' = plan,
         pc' = [pc EXCEPT ![o] = l],
         pc[o] \notin Done \cup Unwinding \/ l \notin InFlight \cup {"ok"},
         pc[o] # "ok",
         l = "ok" => pc[o] \in InFlight
  PROVE  Order!Next \/ UNCHANGED Order!vars
  <1> DEFINE R == {x \in Occ : pc[x] \in InFlight}
             F == {x \in Occ : pc[x] = "ok"}
  <1>1. /\ pc \in [Occ -> PC] /\ Occ' = Occ /\ pc'[o] = l
        /\ \A p \in Occ : p # o => pc'[p] = pc[p]
        /\ Len(plan) \in Nat /\ Occ = 1..Len(plan)
    BY PlanFacts DEF Typed, TypeOK, Occ
  <1>2. CASE l \in InFlight /\ pc[o] \notin InFlight
    <2>1. R' = R \cup {o} /\ F' = F /\ o \notin R \cup F
      BY <1>1, <1>2 DEF InFlight
    <2>2. \A p \in 1..(o-1) : Effect(o) \/ Effect(p) => p \in F
      BY <1>1, <1>2 DEF OrderInv, EffectsFollowSuccess, Past, Effect, InFlight
    <2>3. Order!Before(o) \subseteq F
      BY <1>1, <2>2 DEF Order!Before, Order!Effects, Effect, Occ
    <2>4. Order!Start(o)
      BY <2>1, <2>3 DEF Order!Start
    <2> QED BY <2>4 DEF Order!Next, Occ
  <1>3. CASE l \in InFlight /\ pc[o] \in InFlight
    <2>1. R' = R /\ F' = F
      BY <1>1, <1>3 DEF InFlight
    <2> QED BY <2>1 DEF Order!vars
  <1>4. CASE l = "ok"
    <2>1. R' = R \ {o} /\ F' = F \cup {o} /\ o \in R
      BY <1>1, <1>4 DEF InFlight
    <2>2. Order!Succeed(o)
      BY <2>1 DEF Order!Succeed
    <2> QED BY <2>2 DEF Order!Next, Occ
  <1>5. CASE l \notin InFlight \cup {"ok"} /\ pc[o] \in InFlight
    <2>1. R' = R \ {o} /\ F' = F /\ o \in R
      BY <1>1, <1>5 DEF InFlight
    <2>2. Order!Stop(o)
      BY <2>1 DEF Order!Stop
    <2> QED BY <2>2 DEF Order!Next, Occ
  <1>6. CASE l \notin InFlight \cup {"ok"} /\ pc[o] \notin InFlight
    <2>1. R' = R /\ F' = F
      BY <1>1, <1>6 DEF InFlight
    <2> QED BY <2>1 DEF Order!vars
  <1> QED BY <1>2, <1>3, <1>4, <1>5, <1>6

LEMMA StepRefines ==
  ASSUME Typed, OrderInv, OrderInv', [Next]_vars
  PROVE  Order!Next \/ UNCHANGED Order!vars
  <1>1. CASE plan' = plan /\ pc' = pc
    BY <1>1 DEF Order!vars, Occ
  <1>2. ASSUME NEW o \in Occ, Spawn(o)
        PROVE  Order!Next \/ UNCHANGED Order!vars
    <2>1. pc[o] = "none"
      BY <1>2, PlanFacts DEF Spawn, OrderInv, SpawnedInv, Typed, TypeOK
    <2>2. plan' = plan /\ pc' = [pc EXCEPT ![o] = "reserved"]
      BY <1>2 DEF Spawn
    <2> QED BY <2>1, <2>2, MoveRefines DEF InFlight, Done, Unwinding
  <1>3. ASSUME NEW o \in Occ, Kill(o), pc' # pc
        PROVE  Order!Next \/ UNCHANGED Order!vars
    <2>1. plan' = plan /\ pc' = [pc EXCEPT ![o] = Unwound(o)] /\ pc[o] \notin Done
      BY <1>3 DEF Kill
    <2>2. Unwound(o) \in {"unwinding", "failing"}
      BY DEF Unwound
    <2> QED BY <2>1, <2>2, MoveRefines DEF InFlight, Done
  <1>4. ASSUME NEW o \in Occ, Worker(o) \/ Fault(o), pc' # pc
        PROVE  Order!Next \/ UNCHANGED Order!vars
    <2>1. plan' = plan
      BY <1>4 DEF Worker, Turn, Fault, AwaitReservations, AbortIfFailed, AwaitPrompt, Recall,
         Dispatch, Claim, AwaitOwner, Walk, Answer, Gap, Reroute, FailOver, Store, GiveUp, Finish
    <2>2. CASE AwaitReservations(o) \/ AbortIfFailed(o)
      <3>1. /\ pc[o] \in {"reserved", "released"}
            /\ \E l \in {"released", "failing", "started"} : pc' = [pc EXCEPT ![o] = l]
        BY <2>2 DEF AwaitReservations, AbortIfFailed, Goto
      <3> QED BY <2>1, <3>1, MoveRefines DEF InFlight, Done, Unwinding
    <2>3. CASE GiveUp(o) \/ (Finish(o) /\ pc[o] = "failing")
      <3>1. /\ pc[o] \in {"unwinding", "failing"}
            /\ \E l \in {"failing", "left"} : pc' = [pc EXCEPT ![o] = l]
        BY <2>3 DEF GiveUp, Finish, Goto
      <3> QED BY <2>1, <3>1, MoveRefines DEF InFlight
    <2>4. CASE \/ AwaitPrompt(o) \/ Recall(o) \/ Dispatch(o) \/ Claim(o) \/ AwaitOwner(o) \/ Walk(o)
               \/ Turn(o) \/ FailOver(o) \/ Store(o) \/ Fault(o) \/ (Finish(o) /\ pc[o] = "answered")
      <3>1. pc[o] \in InFlight
        BY <2>4 DEF InFlight, Turn, Fault, AwaitPrompt, Recall, Dispatch, Claim, AwaitOwner,
           Walk, Answer, Gap, Reroute, FailOver, Store, Finish
      <3>2. \E l \in InFlight \cup {"ok", "unwinding", "failing"} : pc' = [pc EXCEPT ![o] = l]
        BY <1>4, <2>4 DEF InFlight, Turn, Fault, AwaitPrompt, Recall, Dispatch, Claim, AwaitOwner,
           Walk, Answer, Gap, Reroute, FailOver, Store, Finish, Goto, Unwound
      <3> QED BY <2>1, <3>1, <3>2, MoveRefines DEF InFlight, Done, Unwinding
    <2>5. Finish(o) => pc[o] = "answered" \/ pc[o] = "failing"
      BY DEF Finish
    <2> QED BY <1>4, <2>2, <2>3, <2>4, <2>5 DEF Worker
  <1>5. CASE Walked \/ Return \/ AwaitFails \/ Raise \/ Cancel \/ \E o \in Occ : Collect(o)
    <2>1. plan' = plan /\ pc' = pc
      BY <1>5 DEF Walked, Return, AwaitFails, Raise, Cancel, Collect
    <2> QED BY <1>1, <2>1
  <1>6. CASE UNCHANGED vars
    BY <1>1, <1>6 DEF vars
  <1>7. ASSUME NEW o \in Occ, Kill(o) \/ Worker(o) \/ Fault(o)
        PROVE  plan' = plan
    BY <1>7 DEF Kill, Worker, Turn, Fault, AwaitReservations, AbortIfFailed, AwaitPrompt, Recall,
       Dispatch, Claim, AwaitOwner, Walk, Answer, Gap, Reroute, FailOver, Store, GiveUp, Finish
  <1> QED BY <1>1, <1>2, <1>3, <1>4, <1>5, <1>6, <1>7 DEF Next, Main, Stopped

(* The interpreter implements the abstract plan order.                     *)
THEOREM RefinesPlanOrder == Spec => ImplementsPlanOrder
  <1>1. Init => Typed /\ OrderInv
    BY TypedInit, OrderInit
  <1>2. (Typed /\ OrderInv) /\ [Next]_vars => (Typed /\ OrderInv)'
    BY TypedStep, OrderStep
  <1>3. Init => Order!Init
    BY DEF Init, Order!Init, InFlight
  <1>4. (Typed /\ OrderInv) /\ OrderInv' /\ [Next]_vars => [Order!Next]_(Order!vars)
    BY StepRefines
  <1> QED BY <1>1, <1>2, <1>3, <1>4, PTL DEF Spec, ImplementsPlanOrder, Order!Spec

-----------------------------------------------------------------------------
(* Epochs count the effects before a node.                                 *)
EpochInv ==
  \A o \in 1..reached :
    /\ epoch[o] <= epochs /\ (Effect(o) => epoch[o] < epochs)
    /\ \A p \in 1..(o-1) : epoch[p] <= epoch[o] /\ (Effect(p) => epoch[p] < epoch[o])

(* A question is reserved by the one owner whose slot is open, and is not  *)
(* in the table meanwhile; a replayable answer stays in the table.         *)
PendingInv ==
  \A k \in Keys : pending[k] # 0 =>
    /\ pending[k] \in Occ /\ Key(pending[k]) = k /\ slot[pending[k]] = "open" /\ table[k] = 0
TableInv ==
  \A k \in Keys : table[k] # 0 =>
    table[k] \in Occ /\ Key(table[k]) = k /\ slot[table[k]] = "replayable"
SlotInv ==
  \A o \in Occ :
    /\ slot[o] = "open" => pending[Key(o)] = o
    /\ slot[o] = "replayable" => table[Key(o)] = o

(* Where a worker is says whether it owns a slot: from its claim on, until *)
(* it has stored its answer or given the slot up.                          *)
Unclaimed == {"none", "reserved", "released", "started", "prompted", "claiming", "waiting"}
ClaimInv ==
  \A o \in Occ :
    /\ pc[o] \in Unclaimed => slot[o] = "none"
    /\ ~Effect(o) /\ pc[o] \in {"walking", "asking", "gapped", "storing"} => slot[o] = "open"
    /\ pc[o] = "unwinding" => slot[o] = "open"
    /\ pc[o] \in {"claiming", "waiting", "storing", "unwinding"} => ~Effect(o)

(* Only a worker that waits for another, or has taken its answer, names a  *)
(* source, which is an owner of the same question.                         *)
SourceInv ==
  \A o \in Occ : source[o] # 0 =>
    /\ pc[o] \in {"waiting", "answered", "ok", "failing", "left"}
    /\ source[o] \in Occ /\ Key(source[o]) = Key(o) /\ slot[source[o]] # "none"
    /\ pc[o] \in {"answered", "ok"} => slot[source[o]] = "replayable"

MemoInv == EpochInv /\ PendingInv /\ TableInv /\ SlotInv /\ ClaimInv /\ SourceInv

(* Every occurrence has a key, and a key determines epoch and question.    *)
LEMMA KeyFacts ==
  ASSUME TypeOK
  PROVE  /\ \A o \in Occ : Key(o) \in Keys
         /\ \A o, p \in Occ : Key(o) = Key(p) => epoch[o] = epoch[p] /\ plan[o].q = plan[p].q
  BY PlanFacts DEF TypeOK, Key, Keys

(* A step of one worker that changes neither the tables nor the traversal. *)
LEMMA MoveKeepsMemo ==
  ASSUME Typed, MemoInv, NEW o \in Occ, NEW l,
         UNCHANGED <<plan, schedVars, memoVars>>, pc' = [pc EXCEPT ![o] = l],
         l \in Unclaimed => pc[o] \in Unclaimed,
         l \in {"claiming", "waiting", "storing", "unwinding"} => ~Effect(o),
         ~Effect(o) /\ l \in {"walking", "asking", "gapped", "storing", "unwinding"} =>
           pc[o] \in {"walking", "asking", "gapped", "storing"},
         source[o] # 0 => l \in {"ok", "failing", "left"} /\ (l = "ok" => pc[o] = "answered")
  PROVE  MemoInv'
  <1>1. /\ Occ' = Occ /\ Keys' = Keys /\ pc \in [Occ -> PC]
        /\ \A p : Key(p)' = Key(p) /\ Effect(p)' = Effect(p)
        /\ pending' = pending /\ table' = table /\ slot' = slot /\ source' = source
        /\ epoch' = epoch /\ epochs' = epochs /\ reached' = reached
    BY DEF Occ, Keys, schedVars, memoVars, Key, Effect, Typed, TypeOK
  <1>2. pc'[o] = l /\ \A p \in Occ : p # o => pc'[p] = pc[p]
    BY <1>1
  <1>3. EpochInv' /\ PendingInv' /\ TableInv' /\ SlotInv'
    BY <1>1 DEF MemoInv, EpochInv, PendingInv, TableInv, SlotInv
  <1>4. ClaimInv'
    BY <1>1, <1>2 DEF MemoInv, ClaimInv
  <1>5. SourceInv'
    BY <1>1, <1>2 DEF MemoInv, SourceInv
  <1> QED BY <1>3, <1>4, <1>5 DEF MemoInv

LEMMA StillKeepsMemo ==
  ASSUME MemoInv, UNCHANGED <<plan, schedVars, memoVars, pc>>
  PROVE  MemoInv'
  <1>1. /\ Occ' = Occ /\ Keys' = Keys /\ pc' = pc
        /\ \A p : Key(p)' = Key(p) /\ Effect(p)' = Effect(p)
        /\ pending' = pending /\ table' = table /\ slot' = slot /\ source' = source
        /\ epoch' = epoch /\ epochs' = epochs /\ reached' = reached
    BY DEF Occ, Keys, schedVars, memoVars, Key, Effect
  <1> QED BY <1>1 DEF MemoInv, EpochInv, PendingInv, TableInv, SlotInv, ClaimInv, SourceInv

(* A spawned node belongs to the epoch of the effects spawned before it,   *)
(* and its slot is still free.                                             *)
LEMMA SpawnKeepsMemo ==
  ASSUME Typed, OrderInv, MemoInv, NEW o \in Occ, Spawn(o)
  PROVE  MemoInv'
  <1>1. /\ Occ' = Occ /\ Keys' = Keys /\ pc \in [Occ -> PC] /\ epoch \in [Occ -> 0..Len(plan)]
        /\ pending' = pending /\ table' = table /\ slot' = slot /\ source' = source
        /\ \A p : Effect(p)' = Effect(p)
        /\ pc' = [pc EXCEPT ![o] = "reserved"] /\ epoch' = [epoch EXCEPT ![o] = epochs]
        /\ o = reached + 1 /\ reached' = o /\ reached \in 0..Len(plan) /\ epochs \in 0..Len(plan)
        /\ Len(plan) \in Nat /\ Occ = 1..Len(plan) /\ plan' = plan
    BY PlanFacts DEF Spawn, Typed, TypeOK, Occ, Keys, memoVars, Effect
  <1>2. pc[o] = "none"
    BY <1>1 DEF OrderInv, SpawnedInv
  <1>3. slot[o] = "none" /\ source[o] = 0
    BY <1>2 DEF MemoInv, ClaimInv, SourceInv, Unclaimed
  <1>4. /\ pc'[o] = "reserved" /\ epoch'[o] = epochs
        /\ \A p \in Occ : p # o => pc'[p] = pc[p] /\ epoch'[p] = epoch[p] /\ Key(p)' = Key(p)
    BY <1>1 DEF Key
  <1>5. EpochInv'
    <2>1. CASE Effect(o)
      <3>1. epochs' = epochs + 1
        BY <2>1 DEF Spawn
      <3> QED BY <1>1, <1>4, <2>1, <3>1 DEF MemoInv, EpochInv
    <2>2. CASE ~Effect(o)
      <3>1. epochs' = epochs
        BY <2>2 DEF Spawn
      <3> QED BY <1>1, <1>4, <2>2, <3>1 DEF MemoInv, EpochInv
    <2> QED BY <2>1, <2>2
  <1>6. PendingInv' /\ TableInv'
    BY <1>1, <1>3, <1>4 DEF MemoInv, PendingInv, TableInv
  <1>7. SlotInv'
    BY <1>1, <1>3, <1>4 DEF MemoInv, SlotInv
  <1>8. ClaimInv'
    BY <1>1, <1>3, <1>4 DEF MemoInv, ClaimInv, Unclaimed
  <1>9. SourceInv'
    BY <1>1, <1>3, <1>4 DEF MemoInv, SourceInv
  <1> QED BY <1>5, <1>6, <1>7, <1>8, <1>9 DEF MemoInv

(* claimQuestion reserves a key only while nobody else has it.             *)
LEMMA ClaimKeepsMemo ==
  ASSUME Typed, MemoInv, NEW o \in Occ, Claim(o)
  PROVE  MemoInv'
  <1> DEFINE k == Key(o)
  <1>1. /\ Occ' = Occ /\ Keys' = Keys /\ pc \in [Occ -> PC] /\ k \in Keys
        /\ \A p : Key(p)' = Key(p) /\ Effect(p)' = Effect(p)
        /\ table' = table /\ epoch' = epoch /\ epochs' = epochs /\ reached' = reached
        /\ pending \in [Keys -> 0..Len(plan)] /\ source \in [Occ -> 0..Len(plan)]
        /\ slot \in [Occ -> {"none", "open", "replayable", "once", "error"}]
        /\ 0 \notin Occ
    BY KeyFacts, PlanFacts DEF Claim, Typed, TypeOK, Occ, Keys, schedVars, Key, Effect
  <1>2. pc[o] = "claiming" /\ slot[o] = "none" /\ ~Effect(o)
    BY DEF Claim, MemoInv, ClaimInv, Unclaimed
  <1>3. EpochInv'
    BY <1>1 DEF MemoInv, EpochInv
  <1>4. CASE table[k] # 0
    <2>1. /\ source' = [source EXCEPT ![o] = table[k]] /\ pc' = [pc EXCEPT ![o] = "answered"]
          /\ pending' = pending /\ slot' = slot
      BY <1>4 DEF Claim, Goto
    <2>2. PendingInv' /\ TableInv' /\ SlotInv'
      BY <1>1, <2>1 DEF MemoInv, PendingInv, TableInv, SlotInv
    <2>3. ClaimInv'
      BY <1>1, <1>2, <2>1 DEF MemoInv, ClaimInv, Unclaimed
    <2>4. table[k] \in Occ /\ Key(table[k]) = k /\ slot[table[k]] = "replayable"
      BY <1>1, <1>4 DEF MemoInv, TableInv
    <2>5. SourceInv'
      BY <1>1, <1>2, <2>1, <2>4 DEF MemoInv, SourceInv
    <2> QED BY <1>3, <2>2, <2>3, <2>5 DEF MemoInv
  <1>5. CASE table[k] = 0 /\ pending[k] # 0
    <2>1. /\ source' = [source EXCEPT ![o] = pending[k]] /\ pc' = [pc EXCEPT ![o] = "waiting"]
          /\ pending' = pending /\ slot' = slot
      BY <1>5 DEF Claim, Goto
    <2>2. PendingInv' /\ TableInv' /\ SlotInv'
      BY <1>1, <2>1 DEF MemoInv, PendingInv, TableInv, SlotInv
    <2>3. ClaimInv'
      BY <1>1, <1>2, <2>1 DEF MemoInv, ClaimInv, Unclaimed
    <2>4. pending[k] \in Occ /\ Key(pending[k]) = k /\ slot[pending[k]] = "open"
      BY <1>1, <1>5 DEF MemoInv, PendingInv
    <2>5. SourceInv'
      BY <1>1, <1>2, <2>1, <2>4 DEF MemoInv, SourceInv
    <2> QED BY <1>3, <2>2, <2>3, <2>5 DEF MemoInv
  <1>6. CASE table[k] = 0 /\ pending[k] = 0
    <2>1. /\ source' = [source EXCEPT ![o] = 0] /\ pc' = [pc EXCEPT ![o] = "walking"]
          /\ pending' = [pending EXCEPT ![k] = o] /\ slot' = [slot EXCEPT ![o] = "open"]
      BY <1>6 DEF Claim, Goto
    <2>2. /\ \A p \in Occ : p # o => slot'[p] = slot[p] /\ pc'[p] = pc[p] /\ source'[p] = source[p]
          /\ slot'[o] = "open" /\ pc'[o] = "walking" /\ source'[o] = 0 /\ pending'[k] = o
          /\ \A j \in Keys : j # k => pending'[j] = pending[j]
      BY <1>1, <2>1
    <2> HIDE DEF k
    <2>3. PendingInv'
      BY <1>1, <1>2, <1>6, <2>2 DEF MemoInv, PendingInv, k
    <2>4. TableInv'
      BY <1>1, <1>2, <2>2 DEF MemoInv, TableInv
    <2>5. SlotInv'
      <3> SUFFICES ASSUME NEW p \in Occ
                   PROVE  /\ slot'[p] = "open" => pending'[Key(p)] = p
                          /\ slot'[p] = "replayable" => table[Key(p)] = p
        BY <1>1 DEF SlotInv
      <3>1. CASE p = o
        BY <2>2, <3>1 DEF k
      <3>2. CASE p # o
        <4>1. slot'[p] = slot[p]
          BY <2>2, <3>2
        <4>2. Key(p) \in Keys
          BY KeyFacts DEF Typed
        <4>3. slot[p] = "open" => pending[Key(p)] = p /\ p # 0
          BY <1>1 DEF MemoInv, SlotInv
        <4>4. slot[p] = "open" => Key(p) # k
          BY <1>6, <4>3
        <4> QED BY <2>2, <4>1, <4>2, <4>3, <4>4 DEF MemoInv, SlotInv
      <3> QED BY <3>1, <3>2
    <2>6. ClaimInv'
      BY <1>1, <1>2, <2>2 DEF MemoInv, ClaimInv, Unclaimed
    <2>7. SourceInv'
      BY <1>1, <1>2, <2>2 DEF MemoInv, SourceInv
    <2> QED BY <1>3, <2>3, <2>4, <2>5, <2>6, <2>7 DEF MemoInv
  <1> QED BY <1>4, <1>5, <1>6

(* A waiter takes the answer of the owner it named only when it is         *)
(* replayable; it claims the question again when it is not.                *)
LEMMA AwaitOwnerKeepsMemo ==
  ASSUME Typed, MemoInv, NEW o \in Occ, AwaitOwner(o)
  PROVE  MemoInv'
  <1>1. /\ Occ' = Occ /\ Keys' = Keys /\ pc \in [Occ -> PC]
        /\ \A p : Key(p)' = Key(p) /\ Effect(p)' = Effect(p)
        /\ table' = table /\ pending' = pending /\ slot' = slot
        /\ epoch' = epoch /\ epochs' = epochs /\ reached' = reached
        /\ source \in [Occ -> 0..Len(plan)]
    BY DEF AwaitOwner, Typed, TypeOK, Occ, Keys, schedVars, Key, Effect
  <1>2. pc[o] = "waiting" /\ slot[o] = "none" /\ ~Effect(o)
    BY DEF AwaitOwner, MemoInv, ClaimInv, Unclaimed
  <1>3. /\ \/ pc'[o] = "answered" /\ source'[o] = source[o] /\ slot[source[o]] = "replayable"
           \/ pc'[o] = "failing" /\ source'[o] = source[o]
           \/ pc'[o] = "claiming" /\ source'[o] = 0
        /\ \A p \in Occ : p # o => pc'[p] = pc[p] /\ source'[p] = source[p]
    BY <1>1 DEF AwaitOwner, Goto
  <1>4. EpochInv' /\ PendingInv' /\ TableInv' /\ SlotInv'
    BY <1>1 DEF MemoInv, EpochInv, PendingInv, TableInv, SlotInv
  <1>5. ClaimInv'
    BY <1>1, <1>2, <1>3 DEF MemoInv, ClaimInv, Unclaimed
  <1>6. SourceInv'
    BY <1>1, <1>2, <1>3 DEF MemoInv, SourceInv
  <1> QED BY <1>4, <1>5, <1>6 DEF MemoInv

(* The owner fills its slot, or gives it up, and frees the key.            *)
LEMMA SettleKeepsMemo ==
  ASSUME Typed, MemoInv, NEW o \in Occ, Store(o) \/ GiveUp(o)
  PROVE  MemoInv'
  <1> DEFINE k == Key(o)
  <1>1. /\ Occ' = Occ /\ Keys' = Keys /\ pc \in [Occ -> PC] /\ k \in Keys
        /\ \A p : Key(p)' = Key(p) /\ Effect(p)' = Effect(p)
        /\ epoch' = epoch /\ epochs' = epochs /\ reached' = reached /\ source' = source
        /\ pending \in [Keys -> 0..Len(plan)] /\ table \in [Keys -> 0..Len(plan)]
        /\ slot \in [Occ -> {"none", "open", "replayable", "once", "error"}]
        /\ 0 \notin Occ
    <2>1. UNCHANGED <<plan, schedVars, source>>
      BY DEF Store, GiveUp
    <2>2. k \in Keys /\ 0 \notin Occ
      BY KeyFacts, PlanFacts DEF Typed, TypeOK
    <2>3. /\ Occ' = Occ /\ Keys' = Keys /\ epoch' = epoch /\ epochs' = epochs
          /\ reached' = reached /\ source' = source
          /\ \A p : Key(p)' = Key(p) /\ Effect(p)' = Effect(p)
      BY <2>1 DEF Occ, Keys, schedVars, Key, Effect
    <2> HIDE DEF k
    <2> QED BY <2>2, <2>3 DEF Typed, TypeOK
  <1>2. pc[o] \in {"storing", "unwinding"} /\ slot[o] = "open" /\ ~Effect(o)
    BY DEF Store, GiveUp, MemoInv, ClaimInv
  <1>3. pending[k] = o /\ table[k] = 0
    BY <1>1, <1>2 DEF MemoInv, SlotInv, PendingInv
  <1>4. /\ pending' = [pending EXCEPT ![k] = 0]
        /\ \/ /\ table' = [table EXCEPT ![k] = o] /\ slot' = [slot EXCEPT ![o] = "replayable"]
              /\ pc' = [pc EXCEPT ![o] = "answered"]
           \/ /\ table' = [table EXCEPT ![k] = 0] /\ slot' = [slot EXCEPT ![o] = "once"]
              /\ pc' = [pc EXCEPT ![o] = "answered"]
           \/ /\ table' = table /\ slot' = [slot EXCEPT ![o] = "error"]
              /\ pc' = [pc EXCEPT ![o] = "failing"]
    BY DEF Store, GiveUp, Goto
  <1>5. /\ pending'[k] = 0
        /\ \A j \in Keys : j # k => pending'[j] = pending[j] /\ table'[j] = table[j]
        /\ \A p \in Occ : p # o => slot'[p] = slot[p] /\ pc'[p] = pc[p]
        /\ \/ table'[k] = o /\ slot'[o] = "replayable" /\ pc'[o] = "answered"
           \/ table'[k] = 0 /\ slot'[o] = "once" /\ pc'[o] = "answered"
           \/ table'[k] = 0 /\ slot'[o] = "error" /\ pc'[o] = "failing"
    BY <1>1, <1>3, <1>4
  <1> HIDE DEF k
  <1>6. EpochInv'
    BY <1>1 DEF MemoInv, EpochInv
  <1>7. \A p \in Occ : p # o /\ slot[p] \in {"open", "replayable"} => Key(p) # k /\ Key(p) \in Keys
    BY <1>1, <1>3, KeyFacts DEF MemoInv, SlotInv, Typed
  <1>8. PendingInv'
    <2> SUFFICES ASSUME NEW j \in Keys, pending'[j] # 0
                 PROVE  /\ pending'[j] \in Occ /\ Key(pending'[j]) = j
                        /\ slot'[pending'[j]] = "open" /\ table'[j] = 0
      BY <1>1 DEF PendingInv
    <2>1. j # k /\ pending'[j] = pending[j] /\ table'[j] = table[j]
      BY <1>5
    <2>2. pending[j] \in Occ /\ Key(pending[j]) = j /\ slot[pending[j]] = "open" /\ table[j] = 0
      BY <2>1 DEF MemoInv, PendingInv
    <2> QED BY <1>5, <2>1, <2>2 DEF k
  <1>9. TableInv'
    <2> SUFFICES ASSUME NEW j \in Keys, table'[j] # 0
                 PROVE  table'[j] \in Occ /\ Key(table'[j]) = j /\ slot'[table'[j]] = "replayable"
      BY <1>1 DEF TableInv
    <2>1. CASE j = k
      BY <1>5, <2>1 DEF k
    <2>2. CASE j # k
      <3>1. table'[j] = table[j]
        BY <1>5, <2>2
      <3>2. table[j] \in Occ /\ Key(table[j]) = j /\ slot[table[j]] = "replayable"
        BY <3>1 DEF MemoInv, TableInv
      <3> QED BY <1>2, <1>5, <3>1, <3>2
    <2> QED BY <2>1, <2>2
  <1>10. SlotInv'
    <2> SUFFICES ASSUME NEW p \in Occ
                 PROVE  /\ slot'[p] = "open" => pending'[Key(p)] = p
                        /\ slot'[p] = "replayable" => table'[Key(p)] = p
      BY <1>1 DEF SlotInv
    <2>1. CASE p = o
      BY <1>5, <2>1 DEF k
    <2>2. CASE p # o
      BY <1>5, <1>7, <2>2 DEF MemoInv, SlotInv
    <2> QED BY <2>1, <2>2
  <1>11. ClaimInv'
    BY <1>1, <1>2, <1>5 DEF MemoInv, ClaimInv, Unclaimed
  <1>12. SourceInv'
    BY <1>1, <1>2, <1>5 DEF MemoInv, SourceInv
  <1> QED BY <1>6, <1>8, <1>9, <1>10, <1>11, <1>12 DEF MemoInv

LEMMA MemoInit == Init => MemoInv
  <1> SUFFICES ASSUME Init PROVE MemoInv
    OBVIOUS
  <1>1. Len(plan) \in Nat /\ Occ = 1..Len(plan)
    BY PlanFacts DEF Init
  <1> QED BY <1>1 DEF Init, MemoInv, EpochInv, PendingInv, TableInv, SlotInv, ClaimInv, SourceInv

LEMMA MemoStep ==
  ASSUME Typed, OrderInv, MemoInv, [Next]_vars
  PROVE  MemoInv'
  <1>1. CASE UNCHANGED vars
    BY <1>1, StillKeepsMemo DEF vars
  <1>2. CASE Walked \/ Return \/ AwaitFails \/ Raise \/ Cancel \/ \E o \in Occ : Collect(o)
    BY <1>2, StillKeepsMemo DEF Walked, Return, AwaitFails, Raise, Cancel, Collect
  <1>3. ASSUME NEW o \in Occ, Spawn(o) PROVE MemoInv'
    BY <1>3, SpawnKeepsMemo
  <1>4. ASSUME NEW o \in Occ, Kill(o) PROVE MemoInv'
    <2>1. UNCHANGED <<plan, schedVars, memoVars>>
      BY <1>4 DEF Kill
    <2>2. CASE pc' = pc
      BY <2>1, <2>2, StillKeepsMemo
    <2>3. CASE pc' = [pc EXCEPT ![o] = Unwound(o)]
      <3>1. \/ Unwound(o) = "failing"
            \/ /\ Unwound(o) = "unwinding" /\ ~Effect(o) /\ pc[o] \in {"walking", "asking", "gapped"}
               /\ source[o] = 0
        BY DEF Unwound, Owner, MemoInv, SourceInv
      <3> QED BY <2>1, <2>3, <3>1, MoveKeepsMemo DEF Unclaimed
    <2> QED BY <1>4, <2>2, <2>3 DEF Kill
  <1>5. ASSUME NEW o \in Occ, Worker(o) \/ Fault(o) PROVE MemoInv'
    <2>1. CASE Claim(o)
      BY <2>1, ClaimKeepsMemo
    <2>2. CASE AwaitOwner(o)
      BY <2>2, AwaitOwnerKeepsMemo
    <2>3. CASE Store(o) \/ GiveUp(o)
      BY <2>3, SettleKeepsMemo
    <2>4. ASSUME UNCHANGED <<plan, schedVars, memoVars>>, pc' = pc
          PROVE  MemoInv'
      BY <2>4, StillKeepsMemo
    <2>5. CASE AwaitReservations(o) \/ AbortIfFailed(o) \/ AwaitPrompt(o) \/ Recall(o) \/ Dispatch(o)
      <3>1. /\ UNCHANGED <<plan, schedVars, memoVars>>
            /\ pc[o] \in {"reserved", "released", "started", "prompted"}
            /\ \E l \in {"released", "failing", "started", "prompted", "answered", "walking", "claiming"} :
                 /\ pc' = [pc EXCEPT ![o] = l]
                 /\ l = "walking" => Effect(o)
                 /\ l = "claiming" => ~Effect(o)
        BY <2>5 DEF AwaitReservations, AbortIfFailed, AwaitPrompt, Recall, Dispatch, Goto
      <3>2. source[o] = 0
        BY <3>1 DEF MemoInv, SourceInv
      <3>3. PICK l \in {"released", "failing", "started", "prompted", "answered", "walking", "claiming"} :
                 /\ pc' = [pc EXCEPT ![o] = l]
                 /\ l = "walking" => Effect(o)
                 /\ l = "claiming" => ~Effect(o)
        BY <3>1
      <3> QED BY <3>1, <3>2, <3>3, MoveKeepsMemo DEF Unclaimed
    <2>6. CASE Walk(o) \/ Turn(o) \/ FailOver(o) \/ Fault(o)
      <3>1. /\ UNCHANGED <<plan, schedVars, memoVars>>
            /\ pc[o] \in {"prompted", "walking", "asking", "gapped", "storing", "answered"}
        BY <2>6 DEF Walk, Turn, Answer, Gap, Reroute, FailOver, Fault
      <3>2. \/ pc' = pc
            \/ \E l \in {"unwinding", "failing", "asking", "answered", "storing", "gapped", "walking"} :
                 /\ pc' = [pc EXCEPT ![o] = l]
                 /\ l \in {"storing", "unwinding"} => ~Effect(o)
                 /\ l \notin {"failing"} => pc[o] \in {"walking", "asking", "gapped"}
        BY <2>6 DEF Walk, Turn, Answer, Gap, Reroute, FailOver, Fault, Goto, Unwound, Owner
      <3>3. pc[o] \in {"walking", "asking", "gapped"} => source[o] = 0
        BY DEF MemoInv, SourceInv
      <3>4. ASSUME NEW l \in {"unwinding", "failing", "asking", "answered", "storing", "gapped", "walking"},
                   pc' = [pc EXCEPT ![o] = l],
                   l \in {"storing", "unwinding"} => ~Effect(o),
                   l \notin {"failing"} => pc[o] \in {"walking", "asking", "gapped"}
            PROVE  MemoInv'
        BY <3>1, <3>3, <3>4, MoveKeepsMemo DEF Unclaimed
      <3> QED BY <2>4, <3>1, <3>2, <3>4
    <2>7. CASE Finish(o)
      <3>1. /\ UNCHANGED <<plan, schedVars, memoVars>>
            /\ \/ pc[o] = "answered" /\ pc' = [pc EXCEPT ![o] = "ok"]
               \/ pc' = [pc EXCEPT ![o] = "left"]
        BY <2>7 DEF Finish, Goto
      <3> QED BY <3>1, MoveKeepsMemo DEF Unclaimed
    <2> QED BY <1>5, <2>1, <2>2, <2>3, <2>5, <2>6, <2>7 DEF Worker
  <1> QED BY <1>1, <1>2, <1>3, <1>4, <1>5 DEF Next, Main, Stopped

(* What the memo table and the reservation slots remember for every plan.  *)
LEMMA MemoHolds == Spec => [](Typed /\ OrderInv /\ MemoInv)
  <1>1. Init => Typed /\ OrderInv /\ MemoInv
    BY TypedInit, OrderInit, MemoInit
  <1>2. (Typed /\ OrderInv /\ MemoInv) /\ [Next]_vars => (Typed /\ OrderInv /\ MemoInv)'
    BY TypedStep, OrderStep, MemoStep
  <1> QED BY <1>1, <1>2, PTL DEF Spec

(* No two workers ask the same question of one epoch, and none asks a      *)
(* question whose replayable answer was published, for every plan: the     *)
(* transactions of claimQuestion, of the store and of giving up suffice.   *)
THEOREM SingleFlightHolds == Spec => []SingleFlight
  <1>1. Typed /\ MemoInv => SingleFlight
    <2> SUFFICES ASSUME Typed, MemoInv, NEW o \in Occ, NEW p \in Occ, o # p, Key(o) = Key(p),
                        slot[o] = "open"
                 PROVE  slot[p] # "open" /\ slot[p] # "replayable"
      BY DEF SingleFlight
    <2>0. Occ = 1..Len(plan) /\ Len(plan) \in Nat
      BY PlanFacts DEF Typed, TypeOK
    <2>1. pending[Key(o)] = o /\ Key(o) \in Keys /\ o # 0 /\ p # 0
      BY <2>0, KeyFacts DEF MemoInv, SlotInv, Typed
    <2>2. table[Key(o)] = 0
      BY <2>1 DEF MemoInv, PendingInv
    <2> QED BY <2>1, <2>2 DEF MemoInv, SlotInv
  <1> QED BY <1>1, MemoHolds, PTL

(* An answer is reused only from an equal question whose answer is         *)
(* replayable, and never across an effect, for every plan.                 *)
THEOREM ReuseHolds == Spec => []ReuseStaysInEpoch
  <1>1. Typed /\ OrderInv /\ MemoInv => ReuseStaysInEpoch
    <2> SUFFICES ASSUME Typed, OrderInv, MemoInv, NEW o \in Occ,
                        pc[o] \in {"answered", "ok"}, source[o] # 0
                 PROVE  LET w == source[o] IN
                          /\ slot[w] = "replayable" /\ plan[w].q = plan[o].q
                          /\ \A e \in Occ : Effect(e) => ~(w <= e /\ e < o) /\ ~(o <= e /\ e < w)
      BY DEF ReuseStaysInEpoch
    <2> DEFINE w == source[o]
    <2>1. w \in Occ /\ slot[w] = "replayable" /\ Key(w) = Key(o)
      BY DEF MemoInv, SourceInv
    <2>2. epoch[w] = epoch[o] /\ plan[w].q = plan[o].q
      BY <2>1, KeyFacts DEF Typed
    <2>3. pc[w] # "none" /\ pc[o] # "none"
      BY <2>1 DEF MemoInv, ClaimInv, Unclaimed
    <2>4. /\ w \in 1..reached /\ o \in 1..reached /\ reached \in Nat /\ Occ = 1..Len(plan)
          /\ Len(plan) \in Nat /\ \A x \in Occ : epoch[x] \in Nat
      BY <2>1, <2>3, PlanFacts DEF OrderInv, SpawnedInv, Typed, TypeOK
    <2>5. ASSUME NEW a \in 1..reached, NEW b \in 1..reached, epoch[a] = epoch[b],
                 NEW e \in Occ, Effect(e), a <= e, e < b
          PROVE  FALSE
      <3>1. e \in 1..reached /\ e \in 1..(b-1) /\ epoch[e] \in Nat /\ epoch[a] \in Nat /\ a \in Occ
        BY <2>4, <2>5 DEF Typed, TypeOK
      <3>2. epoch[e] < epoch[b]
        BY <2>5, <3>1 DEF MemoInv, EpochInv
      <3>3. epoch[a] <= epoch[e]
        <4>1. CASE a = e
          BY <3>1, <4>1
        <4>2. CASE a < e
          <5>1. a \in 1..(e-1)
            BY <2>4, <3>1, <4>2
          <5> QED BY <3>1, <5>1 DEF MemoInv, EpochInv
        <4> QED BY <2>4, <2>5, <4>1, <4>2
      <3> QED BY <2>5, <3>1, <3>2, <3>3
    <2> HIDE DEF w
    <2>6. \A e \in Occ : Effect(e) => ~(w <= e /\ e < o) /\ ~(o <= e /\ e < w)
      BY <2>2, <2>4, <2>5
    <2> QED BY <2>1, <2>2, <2>6 DEF w
  <1> QED BY <1>1, MemoHolds, PTL

-----------------------------------------------------------------------------
(* The tail of a lane is the last node that may use it, so the             *)
(* reservations of a node cover every earlier node that shares a lane.     *)
LaneTailInv ==
  \A l \in Lanes :
    /\ \A p \in 1..reached : l \in LanesOf(p) => p <= laneTail[l]
    /\ laneTail[l] # 0 => l \in LanesOf(laneTail[l])
LaneWaitsInv ==
  \A o \in 1..reached : \A l \in LanesOf(o) : \A p \in 1..(o-1) : l \in LanesOf(p) =>
    p \in waits[o] \/ \E t \in waits[o] : p < t /\ l \in LanesOf(t)
LanePastInv ==
  \A o \in Occ : Past(o) =>
    \A p \in 1..(o-1) : LanesOf(o) \cap LanesOf(p) # {} => pc[p] = "ok"

(* Fail-over, redirection and rerouting only choose among the candidates   *)
(* of the node.                                                            *)
ChainInv == \A o \in Occ : Elems(todo[o]) \subseteq Elems(plan[o].chain)

LaneInv == LaneTailInv /\ LaneWaitsInv /\ LanePastInv /\ ChainInv

(* The elements of a sequence over S are in S, and a sequence is one over  *)
(* its elements.                                                           *)
LEMMA ElemsOfSeq ==
  ASSUME NEW S, NEW s \in Seq(S)
  PROVE  Elems(s) \subseteq S /\ s \in Seq(Elems(s))
  <1>1. Len(s) \in Nat /\ s \in [1..Len(s) -> S] /\ DOMAIN s = 1..Len(s)
    BY LenProperties
  <1>2. s \in [1..Len(s) -> Elems(s)]
    BY <1>1 DEF Elems
  <1>3. Elems(s) \subseteq S
    BY <1>1 DEF Elems
  <1> DEFINE T == Elems(s)
  <1> HIDE DEF T
  <1>4. s \in UNION {[1..n -> T] : n \in Nat}
    BY <1>1, <1>2 DEF T
  <1>5. s \in Seq(T)
    BY <1>4, SeqDef, Zenon
  <1> QED BY <1>3, <1>5 DEF T

(* Reordering or shortening a fail-over chain adds no candidate to it.     *)
LEMMA PreferElems ==
  ASSUME NEW S, NEW s \in Seq(S), NEW i \in 1..Len(s)
  PROVE  Elems(Prefer(i, s)) \subseteq Elems(s)
  <1>1. s \in Seq(Elems(s))
    BY ElemsOfSeq
  <1>2. Prefer(i, s) \in Seq(Elems(s))
    BY <1>1, PreferType
  <1> QED BY <1>2, ElemsOfSeq

LEMMA TailElems ==
  ASSUME NEW S, NEW s \in Seq(S), s # << >>
  PROVE  Elems(Tail(s)) \subseteq Elems(s) /\ Head(s) \in Elems(s)
  <1>1. s \in Seq(Elems(s))
    BY ElemsOfSeq
  <1>2. Tail(s) \in Seq(Elems(s)) /\ Head(s) \in Elems(s)
    BY <1>1, HeadTailProperties
  <1> QED BY <1>2, ElemsOfSeq

(* A worker that moves keeps the lanes in order if it is not let through   *)
(* by this step and does not leave success.                                *)
LEMMA MoveKeepsLanes ==
  ASSUME Typed, LaneInv, NEW o \in Occ, NEW l,
         UNCHANGED <<plan, schedVars>>, ChainInv',
         pc' = [pc EXCEPT ![o] = l], pc[o] # "ok",
         l \in InFlight \cup {"ok"} => Past(o)
  PROVE  LaneInv'
  <1>1. /\ Occ' = Occ /\ \A p : LanesOf(p)' = LanesOf(p)
        /\ reached' = reached /\ laneTail' = laneTail /\ waits' = waits
    BY DEF Occ, LanesOf, schedVars
  <1>2. LaneTailInv' /\ LaneWaitsInv'
    BY <1>1 DEF LaneInv, LaneTailInv, LaneWaitsInv
  <1>3. pc \in [Occ -> PC] /\ Occ = 1..Len(plan) /\ Len(plan) \in Nat
    BY PlanFacts DEF Typed, TypeOK
  <1>4. /\ \A p \in Occ : pc'[p] \in InFlight \cup {"ok"} => Past(p)
        /\ \A p \in Occ : pc[p] = "ok" => pc'[p] = "ok"
    BY <1>3 DEF Past
  <1>5. LanePastInv'
    <2> SUFFICES ASSUME NEW x \in Occ, pc'[x] \in InFlight \cup {"ok"}, NEW p \in 1..(x-1),
                        LanesOf(x) \cap LanesOf(p) # {}
                 PROVE  pc'[p] = "ok"
      BY <1>1 DEF LanePastInv, Past
    <2>1. pc[p] = "ok" /\ p \in Occ
      BY <1>3, <1>4 DEF LaneInv, LanePastInv
    <2> QED BY <1>4, <2>1
  <1> QED BY <1>2, <1>5 DEF LaneInv

LEMMA StillKeepsLanes ==
  ASSUME LaneInv, UNCHANGED <<plan, schedVars, pc>>, ChainInv'
  PROVE  LaneInv'
  <1>1. /\ Occ' = Occ /\ \A p : LanesOf(p)' = LanesOf(p) /\ Past(p)' = Past(p)
        /\ reached' = reached /\ laneTail' = laneTail /\ waits' = waits
    BY DEF Occ, LanesOf, schedVars, Past
  <1> QED BY <1>1 DEF LaneInv, LaneTailInv, LaneWaitsInv, LanePastInv

(* spawn reserves every lane of the node behind the tail of that lane.     *)
LEMMA SpawnKeepsLanes ==
  ASSUME Typed, OrderInv, LaneInv, NEW o \in Occ, Spawn(o)
  PROVE  LaneInv'
  <1>1. /\ Occ' = Occ /\ plan' = plan /\ \A p : LanesOf(p)' = LanesOf(p)
        /\ pc \in [Occ -> PC] /\ waits \in [Occ -> SUBSET Occ] /\ todo \in [Occ -> Seq(Candidates)]
        /\ pc' = [pc EXCEPT ![o] = "reserved"] /\ waits' = [waits EXCEPT ![o] = Reserved(o)]
        /\ todo' = [todo EXCEPT ![o] = plan[o].chain]
        /\ laneTail' = [l \in Lanes |-> IF l \in LanesOf(o) THEN o ELSE laneTail[l]]
        /\ o = reached + 1 /\ reached' = o /\ reached \in 0..Len(plan)
    BY DEF Spawn, Typed, TypeOK, Occ, LanesOf
  <1>2. Occ = 1..Len(plan) /\ Len(plan) \in Nat /\ plan[o].chain \in Seq(Candidates)
    BY PlanFacts DEF Typed, TypeOK
  <1>3. \A l \in Lanes : laneTail[l] \in 0..reached
    BY DEF Typed, TailInv
  <1>4. LanesOf(o) \subseteq Lanes
    BY <1>2, CandidatesAssumption, ElementOfSeq, LenProperties DEF LanesOf, Elems
  <1>5. LaneTailInv'
    <2> SUFFICES ASSUME NEW l \in Lanes
                 PROVE  /\ \A p \in 1..o : l \in LanesOf(p) => p <= laneTail'[l]
                        /\ laneTail'[l] # 0 => l \in LanesOf(laneTail'[l])
      BY <1>1 DEF LaneTailInv
    <2>1. CASE l \in LanesOf(o)
      BY <1>1, <1>2, <2>1
    <2>2. CASE l \notin LanesOf(o)
      BY <1>1, <1>2, <2>2 DEF LaneInv, LaneTailInv
    <2> QED BY <2>1, <2>2
  <1>6. LaneWaitsInv'
    <2> SUFFICES ASSUME NEW x \in 1..o, NEW l \in LanesOf(x), NEW p \in 1..(x-1), l \in LanesOf(p)
                 PROVE  p \in waits'[x] \/ \E t \in waits'[x] : p < t /\ l \in LanesOf(t)
      BY <1>1 DEF LaneWaitsInv
    <2>1. CASE x = o
      <3>1. waits'[x] = Reserved(o) /\ l \in LanesOf(o) /\ l \in Lanes /\ p \in 1..reached
        BY <1>1, <1>2, <1>4, <2>1
      <3>2. p <= laneTail[l] /\ l \in LanesOf(laneTail[l]) /\ laneTail[l] # 0
        BY <1>3, <3>1 DEF LaneInv, LaneTailInv
      <3>3. laneTail[l] \in Reserved(o)
        BY <3>1, <3>2 DEF Reserved
      <3> QED BY <1>1, <1>2, <1>3, <3>1, <3>2, <3>3
    <2>2. CASE x # o
      <3>1. x \in 1..reached /\ waits'[x] = waits[x]
        BY <1>1, <1>2, <2>2
      <3> QED BY <3>1 DEF LaneInv, LaneWaitsInv
    <2> QED BY <2>1, <2>2
  <1>7. LanePastInv'
    <2>1. pc[o] = "none"
      BY <1>1, <1>2 DEF OrderInv, SpawnedInv
    <2>2. /\ \A p \in Occ : pc'[p] \in InFlight \cup {"ok"} => Past(p)
          /\ \A p \in Occ : pc[p] = "ok" => pc'[p] = "ok"
      BY <1>1, <2>1 DEF Past, InFlight
    <2> SUFFICES ASSUME NEW x \in Occ, pc'[x] \in InFlight \cup {"ok"}, NEW p \in 1..(x-1),
                        LanesOf(x) \cap LanesOf(p) # {}
                 PROVE  pc'[p] = "ok"
      BY <1>1 DEF LanePastInv, Past
    <2>3. pc[p] = "ok" /\ p \in Occ
      BY <1>2, <2>2 DEF LaneInv, LanePastInv
    <2> QED BY <2>2, <2>3
  <1>8. ChainInv'
    BY <1>1 DEF LaneInv, ChainInv
  <1> QED BY <1>5, <1>6, <1>7, <1>8 DEF LaneInv

(* A worker let through has the successes of its reservations before it,   *)
(* and whoever shares a lane with it is one of them or precedes one.       *)
LEMMA AbortKeepsLanes ==
  ASSUME Typed, OrderInv, LaneInv, NEW o \in Occ, AbortIfFailed(o), ChainInv'
  PROVE  LaneInv'
  <1>1. UNCHANGED <<plan, schedVars, failed>> /\ pc[o] = "released"
    BY DEF AbortIfFailed
  <1>2. CASE failed
    <2>1. pc' = [pc EXCEPT ![o] = "failing"]
      BY <1>2 DEF AbortIfFailed, Goto
    <2> QED BY <1>1, <2>1, MoveKeepsLanes DEF InFlight
  <1>3. CASE ~failed
    <2>1. /\ Occ' = Occ /\ waits' = waits /\ reached' = reached /\ laneTail' = laneTail
          /\ \A p : LanesOf(p)' = LanesOf(p)
          /\ pc \in [Occ -> PC] /\ pc' = [pc EXCEPT ![o] = "started"]
          /\ waits \in [Occ -> SUBSET Occ]
      BY <1>1, <1>3 DEF AbortIfFailed, Goto, Occ, schedVars, Typed, TypeOK, LanesOf
    <2>2. Occ = 1..Len(plan) /\ Len(plan) \in Nat /\ reached \in 0..Len(plan)
      BY PlanFacts DEF Typed, TypeOK
    <2>3. /\ \A p \in Occ : p # o /\ pc'[p] \in InFlight \cup {"ok"} => Past(p)
          /\ \A p \in Occ : pc[p] = "ok" => pc'[p] = "ok"
      BY <1>1, <2>1 DEF Past, InFlight
    <2>4. \A p \in waits[o] : p \in Occ /\ pc[p] = "ok"
      BY <1>1, <1>3, <2>1 DEF OrderInv, ReleasedInv, FailureInv, Done
    <2>5. o \in 1..reached
      BY <1>1, <2>2 DEF OrderInv, SpawnedInv
    <2>6. ASSUME NEW p \in 1..(o-1), NEW l \in LanesOf(o), l \in LanesOf(p)
          PROVE  pc[p] = "ok"
      <3>1. CASE p \in waits[o]
        BY <2>4, <3>1
      <3>2. CASE p \notin waits[o]
        <4>1. PICK t \in waits[o] : p < t /\ l \in LanesOf(t)
          BY <2>5, <2>6, <3>2 DEF LaneInv, LaneWaitsInv
        <4>2. t \in Occ /\ Past(t) /\ p \in 1..(t-1)
          BY <2>2, <2>4, <4>1 DEF Past
        <4> QED BY <2>6, <4>1, <4>2 DEF LaneInv, LanePastInv
      <3> QED BY <3>1, <3>2
    <2>7. LanePastInv'
      <3> SUFFICES ASSUME NEW x \in Occ, pc'[x] \in InFlight \cup {"ok"}, NEW p \in 1..(x-1),
                          NEW l \in LanesOf(x), l \in LanesOf(p)
                   PROVE  pc'[p] = "ok"
        BY <2>1 DEF LanePastInv, Past
      <3>1. CASE x = o
        BY <2>2, <2>3, <2>6, <3>1
      <3>2. CASE x # o
        <4>1. pc[p] = "ok" /\ p \in Occ
          BY <2>2, <2>3, <3>2 DEF LaneInv, LanePastInv
        <4> QED BY <2>3, <4>1
      <3> QED BY <3>1, <3>2
    <2>8. LaneTailInv' /\ LaneWaitsInv'
      BY <2>1 DEF LaneInv, LaneTailInv, LaneWaitsInv
    <2> QED BY <2>7, <2>8 DEF LaneInv
  <1> QED BY <1>2, <1>3

(* Fail-over, redirection and rerouting reorder or shorten the chain.      *)
LEMMA WorkerKeepsChain ==
  ASSUME Typed, ChainInv, NEW o \in Occ, Worker(o) \/ Fault(o)
  PROVE  ChainInv'
  <1>1. /\ Occ' = Occ /\ plan' = plan /\ todo \in [Occ -> Seq(Candidates)]
        /\ pc[o] = "asking" => todo[o] # << >>
    BY DEF Typed, TypeOK, AskingInv, Occ, Worker, Turn, Fault, AwaitReservations, AbortIfFailed,
       AwaitPrompt, Recall, Dispatch, Claim, AwaitOwner, Walk, Answer, Gap, Reroute, FailOver,
       Store, GiveUp, Finish
  <1>2. ASSUME NEW s, Elems(s) \subseteq Elems(todo[o]), todo' = [todo EXCEPT ![o] = s]
        PROVE  ChainInv'
    BY <1>1, <1>2 DEF ChainInv
  <1>3. CASE UNCHANGED todo
    BY <1>1, <1>3 DEF ChainInv
  <1>4. CASE Dispatch(o)
    <2>1. PICK i \in 1..Len(todo[o]) : todo' = [todo EXCEPT ![o] = Prefer(i, todo[o])]
      BY <1>4 DEF Dispatch
    <2> QED BY <1>1, <1>2, <2>1, PreferElems
  <1>5. CASE todo[o] # << >> /\ todo' = [todo EXCEPT ![o] = Tail(todo[o])]
    BY <1>1, <1>2, <1>5, TailElems
  <1>6. CASE Reroute(o)
    <2>1. PICK i \in 1..Len(Tail(todo[o])) : todo' = [todo EXCEPT ![o] = Prefer(i, Tail(todo[o]))]
      BY <1>6 DEF Reroute
    <2>2. todo[o] # << >> /\ todo[o] \in Seq(Candidates)
      BY <1>1, <1>6 DEF Reroute
    <2>3. Tail(todo[o]) \in Seq(Candidates) /\ Elems(Tail(todo[o])) \subseteq Elems(todo[o])
      BY <2>2, TailType, TailElems
    <2>4. Elems(Prefer(i, Tail(todo[o]))) \subseteq Elems(Tail(todo[o]))
      BY <2>3, PreferElems
    <2> QED BY <1>2, <2>1, <2>3, <2>4
  <1>7. Gap(o) \/ Walk(o) =>
          UNCHANGED todo \/ (todo[o] # << >> /\ todo' = [todo EXCEPT ![o] = Tail(todo[o])])
    BY <1>1 DEF Gap, Walk
  <1> QED BY <1>3, <1>4, <1>5, <1>6, <1>7 DEF Worker, Turn, Fault, AwaitReservations, AbortIfFailed,
        AwaitPrompt, Recall, Claim, AwaitOwner, Answer, FailOver, Store, GiveUp, Finish

LEMMA LaneInit == Init => LaneInv
  <1> SUFFICES ASSUME Init PROVE LaneInv
    OBVIOUS
  <1>1. Len(plan) \in Nat /\ Occ = 1..Len(plan)
    BY PlanFacts DEF Init
  <1>2. Elems(<< >>) = {}
    BY DEF Elems
  <1> QED BY <1>1, <1>2 DEF Init, LaneInv, LaneTailInv, LaneWaitsInv, LanePastInv, ChainInv, Past, InFlight

LEMMA LaneStep ==
  ASSUME Typed, OrderInv, LaneInv, [Next]_vars
  PROVE  LaneInv'
  <1>1. CASE UNCHANGED <<plan, schedVars, pc, todo>>
    <2>1. ChainInv'
      BY <1>1 DEF LaneInv, ChainInv, Occ
    <2> QED BY <1>1, <2>1, StillKeepsLanes
  <1>2. CASE Walked \/ Return \/ AwaitFails \/ Raise \/ Cancel \/ \E o \in Occ : Collect(o)
    BY <1>1, <1>2 DEF Walked, Return, AwaitFails, Raise, Cancel, Collect
  <1>3. ASSUME NEW o \in Occ, Spawn(o) PROVE LaneInv'
    BY <1>3, SpawnKeepsLanes
  <1>4. ASSUME NEW o \in Occ, Kill(o) PROVE LaneInv'
    <2>1. UNCHANGED <<plan, schedVars, todo>>
      BY <1>4 DEF Kill
    <2>2. CASE pc' = pc
      BY <1>1, <2>1, <2>2
    <2>3. CASE pc' = [pc EXCEPT ![o] = Unwound(o)] /\ pc[o] \notin Done
      <3>1. ChainInv'
        BY <2>1 DEF LaneInv, ChainInv, Occ
      <3>2. Unwound(o) \in {"unwinding", "failing"} /\ pc[o] # "ok"
        BY <2>3 DEF Unwound, Done
      <3> QED BY <2>1, <2>3, <3>1, <3>2, MoveKeepsLanes DEF InFlight
    <2> QED BY <1>4, <2>2, <2>3 DEF Kill
  <1>5. ASSUME NEW o \in Occ, Worker(o) \/ Fault(o) PROVE LaneInv'
    <2>1. UNCHANGED <<plan, schedVars>>
      BY <1>5 DEF Worker, Turn, Fault, AwaitReservations, AbortIfFailed, AwaitPrompt, Recall,
         Dispatch, Claim, AwaitOwner, Walk, Answer, Gap, Reroute, FailOver, Store, GiveUp, Finish
    <2>2. ChainInv'
      BY <1>5, WorkerKeepsChain DEF LaneInv
    <2>3. CASE AbortIfFailed(o)
      BY <2>2, <2>3, AbortKeepsLanes
    <2>4. CASE pc' = pc
      BY <2>1, <2>2, <2>4, StillKeepsLanes
    <2>5. CASE AwaitReservations(o) \/ GiveUp(o) \/ (Finish(o) /\ pc[o] = "failing")
      <3>1. /\ pc[o] # "ok"
            /\ \E l \in {"released", "failing", "left"} : pc' = [pc EXCEPT ![o] = l]
        BY <2>5 DEF AwaitReservations, GiveUp, Finish, Goto
      <3> QED BY <2>1, <2>2, <3>1, MoveKeepsLanes DEF InFlight
    <2>6. CASE \/ AwaitPrompt(o) \/ Recall(o) \/ Dispatch(o) \/ Claim(o) \/ AwaitOwner(o) \/ Walk(o)
               \/ Turn(o) \/ FailOver(o) \/ Store(o) \/ Fault(o) \/ (Finish(o) /\ pc[o] = "answered")
      <3>1. Past(o) /\ pc[o] # "ok"
        BY <2>6 DEF Past, InFlight, Turn, Fault, AwaitPrompt, Recall, Dispatch, Claim, AwaitOwner,
           Walk, Answer, Gap, Reroute, FailOver, Store, Finish
      <3>2. \/ pc' = pc
            \/ \E l \in InFlight \cup {"ok", "unwinding", "failing"} : pc' = [pc EXCEPT ![o] = l]
        BY <2>6 DEF InFlight, Turn, Fault, AwaitPrompt, Recall, Dispatch, Claim, AwaitOwner, Walk,
           Answer, Gap, Reroute, FailOver, Store, Finish, Goto, Unwound
      <3> QED BY <2>1, <2>2, <2>4, <3>1, <3>2, MoveKeepsLanes
    <2>7. Finish(o) => pc[o] = "answered" \/ pc[o] = "failing"
      BY DEF Finish
    <2> QED BY <1>5, <2>3, <2>5, <2>6, <2>7 DEF Worker
  <1>6. CASE UNCHANGED vars
    BY <1>1, <1>6 DEF vars
  <1> QED BY <1>2, <1>3, <1>4, <1>5, <1>6 DEF Next, Main, Stopped

(* A transport lane has one holder at a time, in plan order, for every     *)
(* plan and every assignment of lanes.                                     *)
THEOREM LaneOrder == Spec => []OneTurnPerLane
  <1>1. Init => Typed /\ OrderInv /\ LaneInv
    BY TypedInit, OrderInit, LaneInit
  <1>2. (Typed /\ OrderInv /\ LaneInv) /\ [Next]_vars => (Typed /\ OrderInv /\ LaneInv)'
    BY TypedStep, OrderStep, LaneStep
  <1>3. Typed /\ LaneInv => OneTurnPerLane
    <2> SUFFICES ASSUME Typed, LaneInv, NEW o \in Occ, NEW p \in Occ, p < o, pc[o] = "asking",
                        LaneOf[Head(todo[o])] \in LanesOf(p)
                 PROVE  pc[p] = "ok"
      BY DEF OneTurnPerLane
    <2>1. Occ = 1..Len(plan) /\ Len(plan) \in Nat /\ todo[o] \in Seq(Candidates) /\ todo[o] # << >>
      BY PlanFacts DEF Typed, TypeOK, AskingInv
    <2>2. Head(todo[o]) \in Elems(plan[o].chain)
      BY <2>1, TailElems DEF LaneInv, ChainInv
    <2>3. LaneOf[Head(todo[o])] \in LanesOf(o)
      BY <2>2 DEF LanesOf
    <2>4. Past(o) /\ p \in 1..(o-1)
      BY <2>1 DEF Past, InFlight
    <2> QED BY <2>3, <2>4 DEF LaneInv, LanePastInv
  <1> QED BY <1>1, <1>2, <1>3, PTL DEF Spec

-----------------------------------------------------------------------------
(* The main thread collects successes, and raises when every worker it     *)
(* spawned has reached its finalizer.                                      *)
MainInv ==
  /\ \A o \in 1..collected : pc[o] = "ok"
  /\ main = "returned" => collected = Len(plan)
  /\ main = "raised" => \A o \in 1..reached : pc[o] \in Done

LEMMA MainInit == Init => MainInv
  BY DEF Init, MainInv

LEMMA MainStep ==
  ASSUME Typed, OrderInv, MainInv, [Next]_vars
  PROVE  MainInv'
  <1>0. /\ Len(plan) \in Nat /\ Occ = 1..Len(plan) /\ reached \in 0..Len(plan)
        /\ collected \in 0..Len(plan) /\ pc \in [Occ -> PC]
        /\ \A o \in Occ : o > reached <=> pc[o] = "none"
    BY PlanFacts DEF Typed, TypeOK, OrderInv, SpawnedInv
  <1>1. ASSUME \A o \in Occ : pc[o] \in Done => pc'[o] = pc[o],
               UNCHANGED <<plan, main, collected>>, reached' = reached \/ main = "walking"
        PROVE  MainInv'
    BY <1>0, <1>1 DEF MainInv, Done
  <1>2. CASE UNCHANGED vars
    BY <1>1, <1>2 DEF vars, schedVars, mainVars
  <1>3. CASE Walked \/ AwaitFails \/ Cancel
    BY <1>0, <1>3 DEF Walked, AwaitFails, Cancel, MainInv, schedVars
  <1>4. ASSUME NEW o \in Occ, Collect(o) PROVE MainInv'
    BY <1>0, <1>4 DEF Collect, MainInv, schedVars
  <1>5. CASE Return
    BY <1>0, <1>5 DEF Return, MainInv, schedVars
  <1>6. CASE Raise
    BY <1>0, <1>6 DEF Raise, MainInv, schedVars
  <1>7. ASSUME NEW o \in Occ, Spawn(o) PROVE MainInv'
    <2>1. pc[o] = "none" /\ pc' = [pc EXCEPT ![o] = "reserved"]
      BY <1>0, <1>7 DEF Spawn
    <2> QED BY <1>0, <1>1, <1>7, <2>1 DEF Spawn, mainVars, Done
  <1>8. ASSUME NEW o \in Occ, Kill(o) PROVE MainInv'
    BY <1>0, <1>1, <1>8 DEF Kill, schedVars, Done, Unwinding
  <1>9. ASSUME NEW o \in Occ, Worker(o) \/ Fault(o) PROVE MainInv'
    <2>1. UNCHANGED <<plan, schedVars, mainVars>>
      BY <1>9 DEF Worker, Turn, Fault, AwaitReservations, AbortIfFailed, AwaitPrompt, Recall,
         Dispatch, Claim, AwaitOwner, Walk, Answer, Gap, Reroute, FailOver, Store, GiveUp, Finish
    <2>2. pc[o] \notin Done /\ (pc' = pc \/ \E l \in PC : pc' = [pc EXCEPT ![o] = l])
      BY <1>9 DEF Worker, Turn, Fault, AwaitReservations, AbortIfFailed, AwaitPrompt, Recall,
         Dispatch, Claim, AwaitOwner, Walk, Answer, Gap, Reroute, FailOver, Store, GiveUp, Finish,
         Goto, Unwound, Done, PC, Waiting, InFlight, Unwinding
    <2> QED BY <1>0, <1>1, <2>1, <2>2 DEF schedVars, mainVars
  <1> QED BY <1>2, <1>3, <1>4, <1>5, <1>6, <1>7, <1>8, <1>9 DEF Next, Main, Stopped

(* A run that has ended left no worker behind, and one that returned saw   *)
(* every node of its plan succeed, for every plan.                         *)
THEOREM NoOrphans == Spec => []NoOrphanWorkers
  <1>1. Init => Typed /\ OrderInv /\ MainInv
    BY TypedInit, OrderInit, MainInit
  <1>2. (Typed /\ OrderInv /\ MainInv) /\ [Next]_vars => (Typed /\ OrderInv /\ MainInv)'
    BY TypedStep, OrderStep, MainStep
  <1>3. Typed /\ OrderInv /\ MainInv => NoOrphanWorkers
    <2> SUFFICES ASSUME Typed, OrderInv, MainInv PROVE NoOrphanWorkers
      OBVIOUS
    <2>1. Len(plan) \in Nat /\ Occ = 1..Len(plan) /\ reached \in 0..Len(plan)
      BY PlanFacts DEF Typed, TypeOK
    <2> QED BY <2>1 DEF OrderInv, SpawnedInv, MainInv, NoOrphanWorkers, Done
  <1> QED BY <1>1, <1>2, <1>3, PTL DEF Spec
=============================================================================
