-------------------------- MODULE ExtensionProofs --------------------------
(***************************************************************************)
(* Proofs about what the Pi extension keeps of its own runs: Supervisor,   *)
(* for every number of events, set of failing writes and set of controls,  *)
(* and CurrentSession, for every set of runs and every bound on prompts.   *)
(* The two share no state.                                                 *)
(*                                                                         *)
(* What an owner reports and what a later session restores agree because   *)
(* journal, mirror, queue and pipe are consecutive stretches of one        *)
(* sequence of lines, and because snapshot.json is written only by an      *)
(* owner whose child is gone, whose queues are drained and whose artifact  *)
(* is verified.  A cancellation is confirmed because run.cancelled is in   *)
(* the journal before it is anywhere else.                                 *)
(*                                                                         *)
(* A turn is nobody's when its run is no longer the pending one.  That it  *)
(* is then aborted needs that a pending prompt belongs to the turn in      *)
(* progress and to a live socket: only the close handler of that socket    *)
(* and the end of that turn can then take the prompt away.                 *)
(***************************************************************************)
EXTENDS Supervisor, CurrentSession, SequenceTheorems, TLAPS

-----------------------------------------------------------------------------
(* The supervisor.                                                         *)

(* What the owner may say of a run, what snapshot.json may hold and what   *)
(* an observer may conclude.                                               *)
OwnStates ==
  {Running, Status("succeeded", "none")}
    \cup { Status("failed", c) : c \in {"runtime", "supervisor", "persistence"} }
    \cup { Status("cancelled", c) :
             c \in {"cancelled", "forced-termination", "missing-terminal-event"} }
Snapshots == {Absent, Truncated} \cup (OwnStates \ {Running})
Verdicts ==
  OwnStates \cup {Corrupt, Status("failed", "reattachment"), Status("orphaned", "lost-ownership")}
Owners ==
  [pc : {"open", "closing", "verified", "released", "persisting", "done", "dead"},
   state : OwnStates, cancel : BOOLEAN, forced : BOOLEAN, fatal : BOOLEAN,
   waiter : {"idle", "waiting", "resolved", "rejected"}]
Observers ==
  [pc : {"none", "checked", "journal", "journals", "watching", "settled"}, live : BOOLEAN,
   log : Seq(Line), mirror : Seq(Line), first : BOOLEAN, state : Verdicts]

(* Types, and that a line being written is in the journal.                 *)
FileTypes ==
  /\ setup \in Setups
  /\ machine \in {"run", "ended", "gone"} /\ writing \in BOOLEAN /\ thrown \in BOOLEAN
  /\ log \in Seq(Line) /\ pipe \in Seq(Line) /\ queue \in Seq(Line) /\ mirror \in Seq(Line)
  /\ artifact \in BOOLEAN /\ lease \in BOOLEAN /\ snapshot \in Snapshots
  /\ controls \in Seq({"steer", "cancel"})
  /\ writing => log # << >>
ProcessTypes ==
  /\ own \in Owners /\ obs \in Observers
  /\ obs.pc \in {"none", "watching"} => obs.state = Running
  /\ obs.pc = "settled" => isTerminal(obs.state)

(* run.cancelled is nowhere before it is in the journal, and #closed runs  *)
(* only when the child is gone.                                            *)
Cancels(s) == \E i \in DOMAIN s : s[i].kind = "cancelled"
CancelLines ==
  \A s \in {pipe, queue, mirror, obs.log, obs.mirror} : Cancels(s) => Cancels(log)
CancelWords ==
  /\ own.pc \notin {"open", "dead"} => machine = "gone"
  /\ \A s \in {own.state, obs.state, snapshot} :
       s.status = "cancelled" => machine = "gone" \/ Cancels(log)

(* How far #closed has come: what is drained, what snapshot.json holds,     *)
(* and that a success has its artifact.                                    *)
ClosingInv ==
  /\ own.pc \notin {"open", "dead"} => isTerminal(own.state) /\ pipe = << >>
  /\ own.pc \in {"verified", "released", "persisting", "done"} => queue = << >>
  /\ own.pc \in {"verified", "released", "persisting"} /\ own.state.status = "succeeded" => artifact
  /\ own.pc \in {"open", "closing", "verified", "released"} => snapshot = Absent
  /\ own.pc = "persisting" => snapshot = Truncated
  /\ own.pc = "done" =>
       \/ own.state.class = "persistence"
       \/ snapshot = own.state /\ (own.state.status = "succeeded" => artifact)

(* Where no line of the mirror is lost, every line of the journal but the  *)
(* one being written is in the mirror, its queue or the pipe, in that      *)
(* order, and a success is the last line consumed.                         *)
Taken == Len(mirror) + Len(queue)
StreamInv ==
  "mirror" \notin Faults /\ own.pc # "dead" =>
    /\ Len(log) = Taken + Len(pipe) + (IF writing THEN 1 ELSE 0)
    /\ \A i \in 1..Len(mirror) : mirror[i] = log[i]
    /\ \A i \in 1..Len(queue) : queue[i] = log[Len(mirror) + i]
    /\ \A i \in 1..Len(pipe) : pipe[i] = log[Taken + i]
    /\ own.state.status = "succeeded" => Taken > 0 /\ log[Taken].kind = "completed"

SupervisorInv ==
  /\ FileTypes /\ ProcessTypes /\ CancelLines /\ CancelWords /\ ClosingInv /\ StreamInv

-----------------------------------------------------------------------------
(* The operators of the supervisor.                                        *)

(* The status a terminal event stands for.                                 *)
LEMMA StatusOfKind ==
  ASSUME NEW k \in TerminalKinds
  PROVE  /\ StatusOf(k) \in OwnStates \ {Running} /\ isTerminal(StatusOf(k))
         /\ StatusOf(k).status = "succeeded" <=> k = "completed"
         /\ StatusOf(k).status = "cancelled" <=> k = "cancelled"
  <1>1. CASE k = "completed"
    BY <1>1 DEF StatusOf, OwnStates, isTerminal, Status, Running
  <1>2. CASE k = "failed"
    BY <1>2 DEF StatusOf, OwnStates, isTerminal, Status, Running
  <1>3. CASE k = "cancelled"
    BY <1>3 DEF StatusOf, OwnStates, isTerminal, Status, Running
  <1> QED BY <1>1, <1>2, <1>3 DEF TerminalKinds

(* The fields of the states an owner can be in.                            *)
LEMMA OwnStateFields ==
  ASSUME NEW s \in OwnStates
  PROVE  /\ s.status \in {"running", "succeeded", "failed", "cancelled"}
         /\ isTerminal(s) <=> s # Running
         /\ s.status = "running" <=> s = Running
         /\ s.status = "succeeded" <=> s = Status("succeeded", "none")
  BY DEF OwnStates, Running, Status, isTerminal

(* What #fail leaves of an owner.                                          *)
FailsOnly(o, p) ==
  /\ p \in Owners /\ p.pc = o.pc
  /\ p.state = o.state \/ (o.pc = "open" /\ p.state.status = "failed")

LEMMA FailKeeps ==
  ASSUME NEW o \in Owners
  PROVE  /\ FailsOnly(o, Fail(o))
         /\ o.pc = "open" => Fail(o).state.status = "failed"
  <1> DEFINE st == IF o.state.status = "failed" THEN o.state ELSE Status("failed", "supervisor")
             w == IF o.waiter = "waiting" THEN "rejected" ELSE o.waiter
             p == [[[o EXCEPT !.state = st] EXCEPT !.waiter = w] EXCEPT !.fatal = TRUE]
  <1>1. st \in OwnStates /\ st.status = "failed"
    BY DEF Owners, OwnStates, Status, Running
  <1>2. w \in {"idle", "waiting", "resolved", "rejected"}
    BY DEF Owners
  <1>3. Fail(o) = IF o.pc # "open" THEN o ELSE p
    BY DEF Fail, Owners
  <1> HIDE DEF st, w
  <1>4. p \in Owners /\ p.pc = o.pc /\ p.state = st
    BY <1>1, <1>2 DEF Owners
  <1> HIDE DEF p
  <1> QED BY <1>1, <1>3, <1>4 DEF FailsOnly

(* What a consumed line leaves: a success only by run.completed, and a     *)
(* cancellation only by run.cancelled or as it was.                        *)
LEMMA ConsumedKeeps ==
  ASSUME NEW o \in Owners, o.pc = "open", NEW k \in Kinds
  PROVE  /\ Consumed(o, k) \in Owners /\ Consumed(o, k).pc = "open"
         /\ Consumed(o, k).state.status = "succeeded" => k = "completed"
         /\ Consumed(o, k).state.status = "cancelled" => k = "cancelled"
  <1>1. o.state \in OwnStates
    BY DEF Owners
  <1>2. CASE isTerminal(o.state)
    BY <1>2, FailKeeps DEF Consumed, FailsOnly
  <1>3. CASE ~isTerminal(o.state) /\ k \in TerminalKinds
    <2>1. StatusOf(k) \in OwnStates
      BY <1>3, StatusOfKind
    <2>2. Consumed(o, k) = [o EXCEPT !.state = StatusOf(k)]
      BY <1>3 DEF Consumed
    <2>3. /\ Consumed(o, k) \in Owners /\ Consumed(o, k).pc = "open"
          /\ Consumed(o, k).state = StatusOf(k)
      BY <2>1, <2>2 DEF Owners
    <2> QED BY <1>3, <2>3, StatusOfKind
  <1>4. CASE ~isTerminal(o.state) /\ k \notin TerminalKinds
    <2>1. o.state.status = "running"
      BY <1>1, <1>4, OwnStateFields
    <2>2. Consumed(o, k) = o \/ Consumed(o, k) = [o EXCEPT !.waiter = "resolved"]
      BY <1>4 DEF Consumed
    <2>3. Consumed(o, k) \in Owners /\ Consumed(o, k).pc = "open" /\ Consumed(o, k).state = o.state
      BY <2>2 DEF Owners
    <2> QED BY <2>1, <2>3
  <1> QED BY <1>2, <1>3, <1>4

(* The state #closed settles on when stdout is drained.                    *)
LEMMA EndedKeeps ==
  ASSUME NEW o \in Owners, o.pc = "open"
  PROVE  /\ Ended(o) \in Owners /\ isTerminal(Ended(o).state)
         /\ Ended(o).state.status = "succeeded" => o.state.status = "succeeded"
  <1>1. o.state \in OwnStates
    BY DEF Owners
  <1>2. CASE isTerminal(o.state)
    BY <1>2 DEF Ended
  <1>3. CASE ~isTerminal(o.state) /\ o.cancel
    <2> DEFINE c == IF o.forced THEN "forced-termination" ELSE "missing-terminal-event"
    <2>1. Status("cancelled", c) \in OwnStates
      BY DEF OwnStates
    <2>2. Ended(o) = [o EXCEPT !.state = Status("cancelled", c)]
      BY <1>3 DEF Ended
    <2> HIDE DEF c
    <2>3. Ended(o) \in Owners /\ Ended(o).state = Status("cancelled", c)
      BY <2>1, <2>2 DEF Owners
    <2> QED BY <2>3 DEF isTerminal, Status
  <1>4. CASE ~isTerminal(o.state) /\ ~o.cancel
    BY <1>4, FailKeeps DEF Ended, FailsOnly, isTerminal
  <1> QED BY <1>2, <1>3, <1>4

(* The finally of #closed leaves the state as it is.                       *)
LEMMA FinishedKeeps ==
  ASSUME NEW o \in Owners
  PROVE  Finished(o) \in Owners /\ Finished(o).pc = "done" /\ Finished(o).state = o.state
  <1> DEFINE w == IF o.waiter = "waiting" THEN "rejected" ELSE o.waiter
             p == [[o EXCEPT !.pc = "done"] EXCEPT !.waiter = w]
  <1>1. w \in {"idle", "waiting", "resolved", "rejected"}
    BY DEF Owners
  <1>2. Finished(o) = p
    BY DEF Finished, Owners
  <1> HIDE DEF w
  <1>3. p \in Owners /\ p.pc = "done" /\ p.state = o.state
    BY <1>1 DEF Owners
  <1> QED BY <1>2, <1>3

LEMMA PersistenceFailureKeeps ==
  ASSUME NEW o \in Owners
  PROVE  /\ PersistenceFailure(o) \in Owners /\ PersistenceFailure(o).pc = "done"
         /\ PersistenceFailure(o).state = Status("failed", "persistence")
  <1> DEFINE p == [o EXCEPT !.state = Status("failed", "persistence")]
  <1>1. Status("failed", "persistence") \in OwnStates
    BY DEF OwnStates
  <1>2. p \in Owners /\ p.state = Status("failed", "persistence")
    BY <1>1 DEF Owners
  <1>3. PersistenceFailure(o) = Finished(p)
    BY DEF PersistenceFailure
  <1> HIDE DEF p
  <1> QED BY <1>2, <1>3, FinishedKeeps

(* What a journal is reduced to.                                           *)
LEMMA ReducedStates ==
  ASSUME NEW j \in Seq(Line)
  PROVE  /\ reduceJournal(j) \in OwnStates
         /\ reduceJournal(j).status = "cancelled" => Cancels(j)
  <1>1. CASE j # << >> /\ Last(j).kind \in TerminalKinds
    <2>1. Len(j) \in DOMAIN j
      BY <1>1, EmptySeq, LenProperties
    <2>2. reduceJournal(j) = StatusOf(Last(j).kind) /\ Last(j) = j[Len(j)]
      BY <1>1 DEF reduceJournal, Last
    <2> QED BY <1>1, <2>1, <2>2, StatusOfKind DEF Cancels
  <1>2. CASE ~(j # << >> /\ Last(j).kind \in TerminalKinds)
    BY <1>2 DEF reduceJournal, OwnStates, Running, Status
  <1> QED BY <1>1, <1>2

(* What a restore may conclude.  A success is the journal's and the        *)
(* snapshot's where there is one; a cancellation is in one of the three    *)
(* files; a verdict that is not final is that the run goes on.             *)
LEMMA RestoreVerdicts ==
  ASSUME NEW live \in BOOLEAN, NEW j \in Seq(Line), NEW m \in Seq(Line), NEW snap \in Snapshots
  PROVE  LET v == restoreSnapshot(live, j, m, snap) IN
           /\ v \in Verdicts
           /\ ~isTerminal(v) => v = Running
           /\ v.status = "succeeded" => snap \in {Absent, v}
           /\ v.status = "cancelled" => Cancels(j) \/ Cancels(m) \/ snap.status = "cancelled"
  <1> DEFINE v == restoreSnapshot(live, j, m, snap)
             reduced == reduceJournal(IF Len(m) > Len(j) THEN m ELSE j)
             stored == IF snap = Absent THEN reduced ELSE snap
             agreed == isTerminal(reduced) /\ isTerminal(stored) => stored = reduced
  <1>1. /\ reduced \in OwnStates
        /\ reduced.status = "cancelled" => Cancels(j) \/ Cancels(m)
    BY ReducedStates
  <1>2. \/ v = Corrupt
        \/ v = reduced /\ isTerminal(reduced) /\ agreed /\ snap # Truncated
        \/ v = FromSnapshot(live, stored) /\ ~isTerminal(reduced) /\ snap # Truncated
    BY DEF restoreSnapshot
  <1> SUFFICES /\ v \in Verdicts
               /\ ~isTerminal(v) => v = Running
               /\ v.status = "succeeded" => snap \in {Absent, v}
               /\ v.status = "cancelled" => Cancels(j) \/ Cancels(m) \/ snap.status = "cancelled"
    OBVIOUS
  <1> HIDE DEF v, reduced
  <1>3. snap \in {Absent, Truncated} \/ (snap \in OwnStates /\ isTerminal(snap) /\ snap # Absent)
    BY DEF Snapshots, OwnStates, Absent, Truncated, Running, Status, isTerminal
  <1>4. CASE v = Corrupt
    BY <1>4 DEF Corrupt, Verdicts, isTerminal, Status
  <1>5. CASE v = reduced /\ isTerminal(reduced) /\ agreed /\ snap # Truncated
    BY <1>1, <1>3, <1>5 DEF Verdicts
  <1>6. CASE v = FromSnapshot(live, stored) /\ ~isTerminal(reduced) /\ snap # Truncated
    <2>1. stored = Running \/ (stored = snap /\ snap \in OwnStates /\ isTerminal(snap))
      BY <1>1, <1>3, <1>6, OwnStateFields
    <2>2. CASE stored = Running
      BY <1>6, <2>2 DEF FromSnapshot, Verdicts, OwnStates, isTerminal, Running, Status
    <2>3. CASE stored = snap /\ snap \in OwnStates /\ isTerminal(snap)
      <3>1. v = Corrupt \/ (v = snap /\ snap.class \in SupervisorClasses)
        BY <1>6, <2>3 DEF FromSnapshot
      <3>2. snap.class \in SupervisorClasses => snap.status # "succeeded"
        BY <2>3 DEF OwnStates, SupervisorClasses, Status, Running
      <3> QED BY <1>4, <2>3, <3>1, <3>2 DEF Verdicts
    <2> QED BY <2>1, <2>2, <2>3
  <1> QED BY <1>2, <1>4, <1>5, <1>6

(* Two equal journals that reduce to a success, with its artifact and its  *)
(* snapshot, are restored as that success.                                 *)
LEMMA RestoreSuccess ==
  ASSUME NEW live \in BOOLEAN, NEW j \in Seq(Line), Reduces(j), artifact,
         j # << >>, Last(j).kind = "completed"
  PROVE  restoreSnapshot(live, j, j, Status("succeeded", "none")).status = "succeeded"
  <1>1. reduceJournal(j) = Status("succeeded", "none")
    BY DEF reduceJournal, StatusOf, TerminalKinds
  <1>2. ~Disagree(live, j, j)
    BY LenProperties DEF Disagree, IsPrefix
  <1>3. /\ Status("succeeded", "none") # Truncated /\ Status("succeeded", "none") # Absent
        /\ isTerminal(Status("succeeded", "none"))
    BY DEF Truncated, Absent, Status, isTerminal
  <1>4. restoreSnapshot(live, j, j, Status("succeeded", "none")) = Status("succeeded", "none")
    BY <1>1, <1>2, <1>3 DEF restoreSnapshot
  <1> QED BY <1>4 DEF Status

(* A sequence after Append and after Tail: what it says of a cancellation  *)
(* was there before or is the line added.                                  *)
LEMMA CancelsAppend ==
  ASSUME NEW s \in Seq(Line), NEW e \in Line
  PROVE  Cancels(Append(s, e)) <=> Cancels(s) \/ e.kind = "cancelled"
  <1>1. /\ Append(s, e) \in Seq(Line) /\ Len(Append(s, e)) = Len(s) + 1
        /\ \A i \in 1..Len(s) : Append(s, e)[i] = s[i]
        /\ Append(s, e)[Len(s) + 1] = e
    BY AppendProperties
  <1>2. /\ Len(s) \in Nat /\ DOMAIN s = 1..Len(s)
        /\ DOMAIN Append(s, e) = 1..(Len(s) + 1)
    BY <1>1, LenProperties
  <1> QED BY <1>1, <1>2 DEF Cancels

LEMMA CancelsHeadTail ==
  ASSUME NEW s \in Seq(Line), s # << >>
  PROVE  /\ Head(s) \in Line /\ Tail(s) \in Seq(Line)
         /\ Head(s).kind = "cancelled" => Cancels(s)
         /\ Cancels(Tail(s)) => Cancels(s)
  <1>1. /\ Head(s) = s[1] /\ Head(s) \in Line /\ Tail(s) \in Seq(Line)
        /\ Len(Tail(s)) = Len(s) - 1
        /\ \A i \in 1..Len(Tail(s)) : Tail(s)[i] = s[i + 1]
    BY HeadTailProperties
  <1>2. /\ Len(s) \in Nat \ {0} /\ DOMAIN s = 1..Len(s)
        /\ DOMAIN Tail(s) = 1..(Len(s) - 1)
    BY <1>1, LenProperties, EmptySeq
  <1> QED BY <1>1, <1>2 DEF Cancels

LEMMA CancelsLast ==
  ASSUME NEW s \in Seq(Line), s # << >>
  PROVE  Last(s) \in Line /\ Last(s) = s[Len(s)] /\ (Last(s).kind = "cancelled" => Cancels(s))
  <1>1. Len(s) \in DOMAIN s /\ s[Len(s)] \in Line
    BY EmptySeq, LenProperties, ElementOfSeq
  <1> QED BY <1>1 DEF Last, Cancels

LEMMA NoCancels == ~Cancels(<< >>)
  BY DEF Cancels

-----------------------------------------------------------------------------
(* The inductive invariant of the supervisor.                              *)

LEMMA SupervisorInit == Init => SupervisorInv
  <1> SUFFICES ASSUME Init PROVE SupervisorInv
    OBVIOUS
  <1> USE DEF Init
  <1>1. << >> \in Seq(Line) /\ << >> \in Seq({"steer", "cancel"}) /\ Len(<< >>) = 0
    BY EmptySeq
  <1>2. Running \in OwnStates /\ Running \in Verdicts /\ Running.status = "running"
    BY DEF OwnStates, Verdicts, Running, Status
  <1>3. FileTypes
    BY <1>1 DEF FileTypes, Snapshots
  <1>4. ProcessTypes
    BY <1>1, <1>2 DEF ProcessTypes, Owners, Observers
  <1>5. CancelLines
    BY NoCancels DEF CancelLines
  <1>6. CancelWords
    BY <1>2 DEF CancelWords, Absent, Status
  <1>7. ClosingInv
    BY DEF ClosingInv
  <1>8. StreamInv
    BY <1>1, <1>2 DEF StreamInv, Taken
  <1> QED BY <1>3, <1>4, <1>5, <1>6, <1>7, <1>8 DEF SupervisorInv

(* An event is journaled: no other file has it yet.                        *)
LEMMA JournalKeeps ==
  ASSUME SupervisorInv, EmitItem \/ EmitTerminal \/ EmitCancelled \/ ReadControl
  PROVE  SupervisorInv'
  <1> USE DEF SupervisorInv
  <1>1. /\ \E k \in Kinds : Journal(k)
        /\ UNCHANGED <<setup, artifact, pipe, own, queue, mirror, lease, snapshot, obs>>
        /\ machine' \in {machine, "ended"} /\ thrown' \in {thrown, TRUE, FALSE}
        /\ controls' = controls \/ (controls # << >> /\ controls' = Tail(controls))
    BY DEF EmitItem, EmitTerminal, EmitCancelled, ReadControl, ownerVars, Kinds, TerminalKinds
  <1>2. PICK k \in Kinds : Journal(k)
    BY <1>1
  <1> DEFINE e == [seq |-> Len(log), kind |-> k]
  <1>3. e \in Line
    BY LenProperties DEF Line, FileTypes
  <1>4. log' = Append(log, e) /\ writing' = TRUE /\ writing = FALSE /\ machine # "gone"
    BY <1>2 DEF Journal, FileTypes
  <1> HIDE DEF e
  <1>5. /\ log' \in Seq(Line) /\ log' # << >> /\ Len(log') = Len(log) + 1
        /\ \A i \in 1..Len(log) : log'[i] = log[i]
    BY <1>3, <1>4, AppendProperties DEF FileTypes
  <1>6. FileTypes'
    <2>1. controls' \in Seq({"steer", "cancel"})
      BY <1>1, HeadTailProperties DEF FileTypes
    <2> QED BY <1>1, <1>4, <1>5, <2>1 DEF FileTypes
  <1>7. ProcessTypes'
    BY <1>1 DEF ProcessTypes
  <1>8. Cancels(log) => Cancels(log')
    BY <1>3, <1>4, CancelsAppend DEF FileTypes
  <1>9. CancelLines'
    BY <1>1, <1>8 DEF CancelLines
  <1>10. CancelWords'
    BY <1>1, <1>4, <1>8 DEF CancelWords
  <1>11. ClosingInv'
    BY <1>1 DEF ClosingInv
  <1>12. StreamInv'
    <2>1. Len(log) \in Nat /\ Len(mirror) \in Nat /\ Len(queue) \in Nat /\ Len(pipe) \in Nat
      BY LenProperties DEF FileTypes
    <2> QED BY <1>1, <1>4, <1>5, <2>1 DEF StreamInv, Taken, Faults
  <1> QED BY <1>6, <1>7, <1>9, <1>10, <1>11, <1>12

(* The line journaled last reaches stdout, or nobody.                      *)
LEMMA WriteOutKeeps ==
  ASSUME SupervisorInv, WriteOut
  PROVE  SupervisorInv'
  <1> USE DEF SupervisorInv
  <1>1. /\ writing = TRUE /\ writing' = FALSE
        /\ UNCHANGED <<setup, machine, thrown, log, artifact, controls>>
        /\ UNCHANGED <<own, queue, mirror, lease, snapshot, obs>>
        /\ machine # "gone"
        /\ IF own.pc = "dead" THEN UNCHANGED pipe ELSE pipe' = Append(pipe, Last(log))
    BY DEF WriteOut, ownerVars, FileTypes
  <1>2. /\ Last(log) \in Line /\ Last(log) = log[Len(log)]
        /\ Last(log).kind = "cancelled" => Cancels(log)
    BY <1>1, CancelsLast DEF FileTypes
  <1>3. pipe' \in Seq(Line) /\ (Cancels(pipe') => Cancels(pipe) \/ Cancels(log))
    <2>1. CASE own.pc = "dead"
      BY <1>1, <2>1 DEF FileTypes
    <2>2. CASE own.pc # "dead"
      <3>1. pipe' = Append(pipe, Last(log)) /\ pipe \in Seq(Line)
        BY <1>1, <2>2 DEF FileTypes
      <3> QED BY <1>2, <3>1, CancelsAppend, AppendProperties
    <2> QED BY <2>1, <2>2
  <1>4. FileTypes' /\ ProcessTypes'
    BY <1>1, <1>3 DEF FileTypes, ProcessTypes
  <1>5. CancelLines' /\ CancelWords'
    BY <1>1, <1>3 DEF CancelLines, CancelWords
  <1>6. ClosingInv'
    BY <1>1 DEF ClosingInv, CancelWords
  <1>7. StreamInv'
    <2> SUFFICES ASSUME "mirror" \notin Faults, own.pc # "dead" PROVE StreamInv'
      BY <1>1 DEF StreamInv, Faults
    <2>1. Len(log) \in Nat /\ Len(mirror) \in Nat /\ Len(queue) \in Nat /\ Len(pipe) \in Nat
      BY LenProperties DEF FileTypes
    <2>2. /\ Len(pipe') = Len(pipe) + 1 /\ pipe'[Len(pipe) + 1] = log[Len(log)]
          /\ \A i \in 1..Len(pipe) : pipe'[i] = pipe[i]
      BY <1>1, <1>2, AppendProperties DEF FileTypes
    <2> QED BY <1>1, <2>1, <2>2 DEF StreamInv, Taken, Faults
  <1> QED BY <1>4, <1>5, <1>6, <1>7

(* The runtime is interrupted, leaves, dies or is killed.                  *)
LEMMA RuntimeKeeps ==
  ASSUME SupervisorInv, ControlClosed \/ RuntimeExits \/ RuntimeDies \/ Kill
  PROVE  SupervisorInv'
  <1> USE DEF SupervisorInv
  <1>1. /\ UNCHANGED <<setup, writing, log, artifact, pipe, controls>>
        /\ UNCHANGED <<own, queue, mirror, lease, snapshot, obs>>
        /\ machine' \in {machine, "gone"} /\ thrown' \in {thrown, TRUE}
    BY DEF ControlClosed, RuntimeExits, RuntimeDies, Kill, ownerVars
  <1>2. FileTypes' /\ ProcessTypes'
    BY <1>1 DEF FileTypes, ProcessTypes
  <1>3. CancelLines' /\ CancelWords'
    BY <1>1 DEF CancelLines, CancelWords
  <1>4. ClosingInv' /\ StreamInv'
    BY <1>1 DEF ClosingInv, StreamInv, Taken, Faults
  <1> QED BY <1>2, <1>3, <1>4

(* A line is queued for the mirror and reduced.                            *)
LEMMA ConsumeKeeps ==
  ASSUME SupervisorInv, Consume
  PROVE  SupervisorInv'
  <1> USE DEF SupervisorInv
  <1>1. /\ UNCHANGED <<setup, machine, writing, thrown, log, artifact, controls>>
        /\ UNCHANGED <<mirror, lease, snapshot, obs>>
        /\ own.pc = "open" /\ pipe # << >>
        /\ own' = Consumed(own, Head(pipe).kind)
        /\ queue' = Append(queue, Head(pipe)) /\ pipe' = Tail(pipe)
    BY DEF Consume, runtimeVars
  <1>2. /\ pipe \in Seq(Line) /\ queue \in Seq(Line) /\ mirror \in Seq(Line) /\ log \in Seq(Line)
        /\ own \in Owners
    BY DEF FileTypes, ProcessTypes
  <1>3. /\ Head(pipe) \in Line /\ pipe' \in Seq(Line)
        /\ Head(pipe).kind = "cancelled" => Cancels(pipe)
        /\ Cancels(pipe') => Cancels(pipe)
    BY <1>1, <1>2, CancelsHeadTail
  <1>4. queue' \in Seq(Line) /\ (Cancels(queue') => Cancels(queue) \/ Cancels(pipe))
    BY <1>1, <1>2, <1>3, CancelsAppend, AppendProperties
  <1>5. Head(pipe).kind \in Kinds
    BY <1>3 DEF Line
  <1>6. /\ own' \in Owners /\ own'.pc = "open"
        /\ own'.state.status = "succeeded" => Head(pipe).kind = "completed"
        /\ own'.state.status = "cancelled" => Head(pipe).kind = "cancelled"
    BY <1>1, <1>2, <1>5, ConsumedKeeps
  <1>7. FileTypes' /\ ProcessTypes'
    BY <1>1, <1>3, <1>4, <1>6 DEF FileTypes, ProcessTypes
  <1>8. CancelLines'
    BY <1>1, <1>3, <1>4 DEF CancelLines
  <1>9. CancelWords'
    <2>1. own'.state.status = "cancelled" => Cancels(log)
      BY <1>3, <1>6 DEF CancelLines
    <2> QED BY <1>1, <1>6, <2>1 DEF CancelWords
  <1>10. ClosingInv'
    BY <1>1, <1>6 DEF ClosingInv
  <1>11. StreamInv'
    <2> SUFFICES ASSUME "mirror" \notin Faults PROVE StreamInv'
      BY <1>1 DEF StreamInv, Faults
    <2>1. Len(log) \in Nat /\ Len(mirror) \in Nat /\ Len(queue) \in Nat /\ Len(pipe) \in Nat \ {0}
      BY <1>1, <1>2, LenProperties, EmptySeq
    <2>2. /\ Len(pipe') = Len(pipe) - 1 /\ Head(pipe) = pipe[1]
          /\ \A i \in 1..Len(pipe') : pipe'[i] = pipe[i + 1]
      BY <1>1, <1>2, HeadTailProperties
    <2>3. /\ Len(queue') = Len(queue) + 1 /\ queue'[Len(queue) + 1] = Head(pipe)
          /\ \A i \in 1..Len(queue) : queue'[i] = queue[i]
      BY <1>1, <1>2, <1>3, AppendProperties
    <2>4. /\ Len(log) = Taken + Len(pipe) + (IF writing THEN 1 ELSE 0)
          /\ \A i \in 1..Len(mirror) : mirror[i] = log[i]
          /\ \A i \in 1..Len(queue) : queue[i] = log[Len(mirror) + i]
          /\ \A i \in 1..Len(pipe) : pipe[i] = log[Taken + i]
      BY <1>1 DEF StreamInv
    <2>5. Taken \in Nat /\ Taken' = Taken + 1 /\ Head(pipe) = log[Taken + 1]
      <3>1. Taken \in Nat /\ Taken' = Taken + 1
        BY <1>1, <2>1, <2>3 DEF Taken
      <3>2. 1 \in 1..Len(pipe)
        BY <2>1
      <3> QED BY <2>2, <2>4, <3>1, <3>2
    <2>6. \A i \in 1..Len(queue') : queue'[i] = log[Len(mirror) + i]
      <3> SUFFICES ASSUME NEW i \in 1..Len(queue') PROVE queue'[i] = log[Len(mirror) + i]
        OBVIOUS
      <3>1. CASE i \in 1..Len(queue)
        BY <2>3, <2>4, <3>1
      <3>2. CASE i = Len(queue) + 1
        <4>1. Len(mirror) + i = Taken + 1
          BY <2>1, <3>2 DEF Taken
        <4> QED BY <2>3, <2>5, <3>2, <4>1
      <3> QED BY <2>1, <2>3, <3>1, <3>2
    <2>7. \A i \in 1..Len(pipe') : pipe'[i] = log[(Taken + 1) + i]
      <3> SUFFICES ASSUME NEW i \in 1..Len(pipe') PROVE pipe'[i] = log[(Taken + 1) + i]
        OBVIOUS
      <3>1. i + 1 \in 1..Len(pipe) /\ pipe'[i] = pipe[i + 1] /\ Taken + (i + 1) = (Taken + 1) + i
        BY <2>1, <2>2, <2>5
      <3> QED BY <2>4, <3>1
    <2>8. Len(log) = (Taken + 1) + Len(pipe') + (IF writing THEN 1 ELSE 0)
      BY <2>1, <2>2, <2>4, <2>5
    <2>9. own'.state.status = "succeeded" => Taken + 1 > 0 /\ log[Taken + 1].kind = "completed"
      BY <1>6, <2>5
    <2> QED BY <1>1, <2>4, <2>5, <2>6, <2>7, <2>8, <2>9 DEF StreamInv
  <1> QED BY <1>7, <1>8, <1>9, <1>10, <1>11

(* The invariant where the owner changes at most as #fail changes it, and  *)
(* no line moves.                                                          *)
LEMMA FailingKeeps ==
  ASSUME SupervisorInv, FailsOnly(own, own'),
         UNCHANGED <<setup, machine, writing, thrown, log, artifact, pipe>>,
         UNCHANGED <<queue, mirror, snapshot, obs>>,
         lease' \in BOOLEAN, controls' \in Seq({"steer", "cancel"})
  PROVE  SupervisorInv'
  <1> USE DEF SupervisorInv, FailsOnly
  <1>1. FileTypes' /\ ProcessTypes'
    BY DEF FileTypes, ProcessTypes
  <1>2. CancelLines' /\ CancelWords'
    BY DEF CancelLines, CancelWords
  <1>3. ClosingInv'
    BY DEF ClosingInv
  <1>4. StreamInv'
    BY DEF StreamInv, Taken, Faults
  <1> QED BY <1>1, <1>2, <1>3, <1>4

(* The head of the queue reaches the mirror, or its write fails the run.   *)
LEMMA MirrorKeeps ==
  ASSUME SupervisorInv, Mirror
  PROVE  SupervisorInv'
  <1> USE DEF SupervisorInv
  <1>1. /\ UNCHANGED <<setup, machine, writing, thrown, log, artifact, controls>>
        /\ UNCHANGED <<pipe, lease, snapshot, obs>>
        /\ own.pc \in {"open", "closing"} /\ queue # << >> /\ queue' = Tail(queue)
        /\ \/ mirror' = Append(mirror, Head(queue)) /\ own' = own
           \/ "mirror" \in Faults /\ own' = Fail(own) /\ mirror' = mirror
    BY DEF Mirror, runtimeVars
  <1>2. /\ pipe \in Seq(Line) /\ queue \in Seq(Line) /\ mirror \in Seq(Line) /\ log \in Seq(Line)
        /\ own \in Owners
    BY DEF FileTypes, ProcessTypes
  <1>3. /\ Head(queue) \in Line /\ queue' \in Seq(Line)
        /\ Head(queue).kind = "cancelled" => Cancels(queue)
        /\ Cancels(queue') => Cancels(queue)
    BY <1>1, <1>2, CancelsHeadTail
  <1>4. mirror' \in Seq(Line) /\ (Cancels(mirror') => Cancels(mirror) \/ Cancels(queue))
    <2>1. CASE mirror' = mirror
      BY <1>2, <2>1
    <2>2. CASE mirror' = Append(mirror, Head(queue))
      BY <1>2, <1>3, <2>2, CancelsAppend, AppendProperties
    <2> QED BY <1>1, <2>1, <2>2
  <1>5. FailsOnly(own, own')
    BY <1>1, <1>2, FailKeeps DEF FailsOnly
  <1>6. FileTypes' /\ ProcessTypes'
    BY <1>1, <1>3, <1>4, <1>5 DEF FileTypes, ProcessTypes, FailsOnly
  <1>7. CancelLines'
    BY <1>1, <1>3, <1>4 DEF CancelLines
  <1>8. CancelWords'
    BY <1>1, <1>5 DEF CancelWords, FailsOnly
  <1>9. ClosingInv'
    BY <1>1, <1>5 DEF ClosingInv, FailsOnly
  <1>10. StreamInv'
    <2> SUFFICES ASSUME "mirror" \notin Faults PROVE StreamInv'
      BY <1>1 DEF StreamInv, Faults
    <2>1. own' = own /\ mirror' = Append(mirror, Head(queue))
      BY <1>1
    <2>2. Len(log) \in Nat /\ Len(mirror) \in Nat /\ Len(queue) \in Nat \ {0} /\ Len(pipe) \in Nat
      BY <1>1, <1>2, LenProperties, EmptySeq
    <2>3. /\ Len(queue') = Len(queue) - 1 /\ Head(queue) = queue[1]
          /\ \A i \in 1..Len(queue') : queue'[i] = queue[i + 1]
      BY <1>1, <1>2, HeadTailProperties
    <2>4. /\ Len(mirror') = Len(mirror) + 1 /\ mirror'[Len(mirror) + 1] = Head(queue)
          /\ \A i \in 1..Len(mirror) : mirror'[i] = mirror[i]
      BY <1>2, <1>3, <2>1, AppendProperties
    <2>5. Taken' = Taken
      BY <2>2, <2>3, <2>4 DEF Taken
    <2>6. /\ \A i \in 1..Len(mirror) : mirror[i] = log[i]
          /\ \A i \in 1..Len(queue) : queue[i] = log[Len(mirror) + i]
      BY <1>1 DEF StreamInv
    <2>7. \A i \in 1..Len(mirror') : mirror'[i] = log[i]
      BY <2>2, <2>3, <2>4, <2>6
    <2>8. \A i \in 1..Len(queue') : queue'[i] = log[Len(mirror') + i]
      <3> SUFFICES ASSUME NEW i \in 1..Len(queue') PROVE queue'[i] = log[Len(mirror') + i]
        OBVIOUS
      <3>1. /\ i + 1 \in 1..Len(queue) /\ queue'[i] = queue[i + 1]
            /\ Len(mirror) + (i + 1) = Len(mirror') + i
        BY <2>2, <2>3, <2>4
      <3> QED BY <2>6, <3>1
    <2> QED BY <1>1, <2>1, <2>5, <2>7, <2>8 DEF StreamInv
  <1> QED BY <1>6, <1>7, <1>8, <1>9, <1>10

(* The heartbeat, the controls and the timers of the owner.                *)
LEMMA TimerKeeps ==
  ASSUME SupervisorInv, Heartbeat \/ SendControl \/ ControlTimeout \/ Cancel \/ Escalate
  PROVE  SupervisorInv'
  <1> USE DEF SupervisorInv
  <1>1. /\ UNCHANGED <<setup, machine, writing, thrown, log, artifact, pipe>>
        /\ UNCHANGED <<queue, mirror, snapshot, obs>>
    BY DEF Heartbeat, SendControl, ControlTimeout, Cancel, Escalate, runtimeVars
  <1>2. /\ own \in Owners /\ lease \in BOOLEAN /\ controls \in Seq({"steer", "cancel"})
    BY DEF FileTypes, ProcessTypes
  <1>3. lease' \in BOOLEAN
    BY <1>2 DEF Heartbeat, SendControl, ControlTimeout, Cancel, Escalate
  <1>4. controls' \in Seq({"steer", "cancel"})
    <2>1. \/ controls' = controls
          \/ \E c \in {"steer", "cancel"} : controls' = Append(controls, c)
      BY DEF Heartbeat, SendControl, ControlTimeout, Cancel, Escalate
    <2> QED BY <1>2, <2>1, AppendProperties
  <1>5. FailsOnly(own, own')
    <2>1. CASE Heartbeat
      <3>1. own' = own \/ own' = Fail(own)
        BY <2>1 DEF Heartbeat
      <3> QED BY <1>2, <3>1, FailKeeps DEF FailsOnly
    <2>2. CASE SendControl \/ ControlTimeout
      <3>1. \E w \in {"rejected", "waiting"} : own' = [own EXCEPT !.waiter = w]
        BY <2>2 DEF SendControl, ControlTimeout
      <3> QED BY <1>2, <3>1 DEF FailsOnly, Owners
    <2>3. CASE Cancel \/ Escalate
      <3>1. own' = [own EXCEPT !.cancel = TRUE] \/ own' = [own EXCEPT !.forced = TRUE]
        BY <2>3 DEF Cancel, Escalate
      <3> QED BY <1>2, <3>1 DEF FailsOnly, Owners
    <2> QED BY <2>1, <2>2, <2>3
  <1> QED BY <1>1, <1>3, <1>4, <1>5, FailingKeeps

(* All but ClosingInv: a step of #closed moves no line, makes no success,  *)
(* and runs when the child is gone.                                        *)
LEMMA ClosingFrame ==
  ASSUME SupervisorInv, machine = "gone", own.pc # "dead",
         own' \in Owners, own'.state.status = "succeeded" => own.state.status = "succeeded",
         UNCHANGED <<setup, machine, writing, thrown, log, artifact, pipe, controls>>,
         UNCHANGED <<queue, mirror, obs>>,
         lease' \in BOOLEAN, snapshot' \in Snapshots
  PROVE  FileTypes' /\ ProcessTypes' /\ CancelLines' /\ CancelWords' /\ StreamInv'
  <1> USE DEF SupervisorInv
  <1>1. FileTypes' /\ ProcessTypes'
    BY DEF FileTypes, ProcessTypes
  <1>2. CancelLines' /\ CancelWords'
    BY DEF CancelLines, CancelWords
  <1>3. StreamInv'
    BY DEF StreamInv, Taken, Faults
  <1> QED BY <1>1, <1>2, <1>3

(* The steps of #closed.                                                   *)
LEMMA ClosingKeeps ==
  ASSUME SupervisorInv, Closing
  PROVE  SupervisorInv'
  <1> USE DEF SupervisorInv
  <1>1. /\ own \in Owners /\ own.state \in OwnStates /\ lease \in BOOLEAN
        /\ snapshot \in Snapshots /\ artifact \in BOOLEAN
    BY DEF FileTypes, ProcessTypes, Owners
  <1>2. /\ UNCHANGED <<setup, machine, writing, thrown, log, artifact, pipe, controls>>
        /\ UNCHANGED <<queue, mirror, obs>>
        /\ own.pc # "dead"
    BY DEF Closing, Closed, Verify, Release, Truncate, Persist, runtimeVars
  <1>3. machine = "gone"
    BY DEF Closing, Closed, Verify, Release, Truncate, Persist, CancelWords
  <1>4. SUFFICES /\ own' \in Owners /\ lease' \in BOOLEAN /\ snapshot' \in Snapshots
                 /\ own'.state.status = "succeeded" => own.state.status = "succeeded"
                 /\ ClosingInv'
    BY <1>2, <1>3, ClosingFrame
  <1>5. CASE Closed
    <2>1. /\ own.pc = "open" /\ pipe = << >> /\ UNCHANGED <<lease, snapshot>>
          /\ own' = [Ended(own) EXCEPT !.pc = "closing"]
      BY <1>5 DEF Closed
    <2>2. /\ Ended(own) \in Owners /\ isTerminal(Ended(own).state)
          /\ Ended(own).state.status = "succeeded" => own.state.status = "succeeded"
      BY <1>1, <2>1, EndedKeeps
    <2>3. own' \in Owners /\ own'.pc = "closing" /\ own'.state = Ended(own).state
      BY <2>1, <2>2 DEF Owners
    <2> QED BY <1>1, <1>2, <2>1, <2>2, <2>3 DEF ClosingInv
  <1>6. CASE Verify
    <2>1. own.pc = "closing" /\ queue = << >> /\ UNCHANGED <<lease, snapshot>>
      BY <1>6 DEF Verify
    <2>2. CASE own.state.status = "succeeded" /\ ~artifact
      <3>1. own' = PersistenceFailure(own)
        BY <1>6, <2>2 DEF Verify
      <3>2. own' \in Owners /\ own'.pc = "done" /\ own'.state = Status("failed", "persistence")
        BY <1>1, <3>1, PersistenceFailureKeeps
      <3> QED BY <1>1, <1>2, <2>1, <3>2 DEF ClosingInv, Status, isTerminal
    <2>3. CASE ~(own.state.status = "succeeded" /\ ~artifact)
      <3>1. own' = [own EXCEPT !.pc = "verified"]
        BY <1>6, <2>3 DEF Verify
      <3>2. own' \in Owners /\ own'.pc = "verified" /\ own'.state = own.state
        BY <1>1, <3>1 DEF Owners
      <3> QED BY <1>1, <1>2, <2>1, <2>3, <3>2 DEF ClosingInv
    <2> QED BY <2>2, <2>3
  <1>7. CASE Release
    <2>1. own.pc = "verified" /\ UNCHANGED snapshot /\ lease' = FALSE
      BY <1>7 DEF Release
    <2>2. own' \in Owners /\ own'.pc = "released" /\ own'.state = own.state
      BY <1>1, <1>7 DEF Release, Owners
    <2> QED BY <1>1, <1>2, <2>1, <2>2 DEF ClosingInv
  <1>8. CASE Truncate
    <2>1. own.pc = "released" /\ snapshot' = Truncated /\ UNCHANGED lease
      BY <1>8 DEF Truncate
    <2>2. own' \in Owners /\ own'.pc = "persisting" /\ own'.state = own.state
      BY <1>1, <1>8 DEF Truncate, Owners
    <2>3. snapshot' \in Snapshots
      BY <2>1 DEF Snapshots
    <2> QED BY <1>1, <1>2, <2>1, <2>2, <2>3 DEF ClosingInv
  <1>9. CASE Persist
    <2>1. own.pc = "persisting" /\ UNCHANGED lease
      BY <1>9 DEF Persist
    <2>2. CASE own' = Finished(own) /\ snapshot' = own.state
      <3>1. own' \in Owners /\ own'.pc = "done" /\ own'.state = own.state
        BY <1>1, <2>2, FinishedKeeps
      <3>2. snapshot' \in Snapshots
        BY <1>1, <2>1, <2>2, OwnStateFields DEF ClosingInv, Snapshots
      <3> QED BY <1>1, <1>2, <2>1, <2>2, <3>1, <3>2 DEF ClosingInv
    <2>3. CASE own' = PersistenceFailure(own) /\ UNCHANGED snapshot
      <3>1. own' \in Owners /\ own'.pc = "done" /\ own'.state = Status("failed", "persistence")
        BY <1>1, <2>3, PersistenceFailureKeeps
      <3> QED BY <1>1, <1>2, <2>1, <2>3, <3>1 DEF ClosingInv, Status, isTerminal
    <2> QED BY <1>9, <2>2, <2>3 DEF Persist
  <1> QED BY <1>5, <1>6, <1>7, <1>8, <1>9 DEF Closing

(* A dead owner leaves the files as they are.                              *)
LEMMA OwnerDiesKeeps ==
  ASSUME SupervisorInv, OwnerDies
  PROVE  SupervisorInv'
  <1> USE DEF SupervisorInv
  <1>1. /\ UNCHANGED <<setup, machine, writing, thrown, log, artifact, controls>>
        /\ UNCHANGED <<mirror, lease, snapshot, obs>>
        /\ pipe' = << >> /\ queue' = << >>
    BY DEF OwnerDies, runtimeVars
  <1> DEFINE w == IF own.waiter = "waiting" THEN "rejected" ELSE own.waiter
  <1>2. own \in Owners
    BY DEF ProcessTypes
  <1>3. own' = [[own EXCEPT !.pc = "dead"] EXCEPT !.waiter = w]
    BY <1>2 DEF OwnerDies, Owners
  <1>4. w \in {"idle", "waiting", "resolved", "rejected"}
    BY <1>2 DEF Owners
  <1> HIDE DEF w
  <1>5. own' \in Owners /\ own'.pc = "dead" /\ own'.state = own.state
    BY <1>2, <1>3, <1>4 DEF Owners
  <1>6. FileTypes' /\ ProcessTypes'
    <2>1. << >> \in Seq(Line)
      BY EmptySeq
    <2> QED BY <1>1, <1>5, <2>1 DEF FileTypes, ProcessTypes
  <1>7. CancelLines' /\ CancelWords'
    BY <1>1, <1>5, NoCancels DEF CancelLines, CancelWords
  <1>8. ClosingInv' /\ StreamInv'
    BY <1>1, <1>5 DEF ClosingInv, StreamInv
  <1> QED BY <1>6, <1>7, <1>8

(* All but what is said of the observer: an observer only reads.           *)
LEMMA ObserverFrame ==
  ASSUME SupervisorInv,
         UNCHANGED <<setup, machine, writing, thrown, log, artifact, pipe, controls>>,
         UNCHANGED <<own, queue, mirror, lease, snapshot>>,
         obs' \in Observers,
         obs'.pc \in {"none", "watching"} => obs'.state = Running,
         obs'.pc = "settled" => isTerminal(obs'.state),
         Cancels(obs'.log) \/ Cancels(obs'.mirror) => Cancels(log),
         obs'.state.status = "cancelled" => machine = "gone" \/ Cancels(log)
  PROVE  SupervisorInv'
  <1> USE DEF SupervisorInv
  <1>1. FileTypes' /\ ProcessTypes'
    BY DEF FileTypes, ProcessTypes
  <1>2. CancelLines' /\ CancelWords'
    BY DEF CancelLines, CancelWords
  <1>3. ClosingInv' /\ StreamInv'
    BY DEF ClosingInv, StreamInv, Taken, Faults
  <1> QED BY <1>1, <1>2, <1>3

(* The reads of the observer, one after another.                           *)
LEMMA ReadsKeep ==
  ASSUME SupervisorInv, CheckOwner \/ ReadJournal \/ ReadMirror
  PROVE  SupervisorInv'
  <1> USE DEF SupervisorInv
  <1>1. /\ UNCHANGED <<setup, machine, writing, thrown, log, artifact, pipe, controls>>
        /\ UNCHANGED <<own, queue, mirror, lease, snapshot>>
    BY DEF CheckOwner, ReadJournal, ReadMirror, runtimeVars, ownerVars
  <1>2. /\ obs \in Observers /\ log \in Seq(Line) /\ mirror \in Seq(Line) /\ lease \in BOOLEAN
        /\ Cancels(obs.log) => Cancels(log)
        /\ Cancels(obs.mirror) => Cancels(log)
        /\ Cancels(mirror) => Cancels(log)
        /\ obs.state.status = "cancelled" => machine = "gone" \/ Cancels(log)
    BY DEF FileTypes, ProcessTypes, CancelLines, CancelWords
  <1>3. SUFFICES /\ obs' \in Observers /\ obs'.pc \in {"checked", "journal", "journals"}
                 /\ obs'.state = obs.state
                 /\ obs'.log \in {obs.log, log} /\ obs'.mirror \in {obs.mirror, mirror}
    BY <1>1, <1>2, ObserverFrame
  <1>4. CASE CheckOwner
    <2> DEFINE l == ownerIsLive
               p == [[obs EXCEPT !.pc = "checked"] EXCEPT !.live = l]
    <2>1. l \in BOOLEAN
      BY <1>2 DEF ownerIsLive
    <2>2. obs' = p
      BY <1>2, <1>4 DEF CheckOwner, Observers
    <2> HIDE DEF l
    <2> QED BY <1>2, <2>1, <2>2 DEF Observers
  <1>5. CASE ReadJournal
    <2>1. obs' = [[obs EXCEPT !.pc = "journal"] EXCEPT !.log = log]
      BY <1>2, <1>5 DEF ReadJournal, Observers
    <2> QED BY <1>2, <2>1 DEF Observers
  <1>6. CASE ReadMirror
    <2>1. obs' = [[obs EXCEPT !.pc = "journals"] EXCEPT !.mirror = mirror]
      BY <1>2, <1>6 DEF ReadMirror, Observers
    <2> QED BY <1>2, <2>1 DEF Observers
  <1> QED BY <1>4, <1>5, <1>6

(* The verdict: a cancellation it reports was read in one of the files.    *)
LEMMA ConcludeKeeps ==
  ASSUME SupervisorInv, Conclude
  PROVE  SupervisorInv'
  <1> USE DEF SupervisorInv
  <1>1. /\ UNCHANGED <<setup, machine, writing, thrown, log, artifact, pipe, controls>>
        /\ UNCHANGED <<own, queue, mirror, lease, snapshot>>
    BY DEF Conclude, runtimeVars, ownerVars
  <1>2. /\ obs \in Observers /\ obs.live \in BOOLEAN /\ snapshot \in Snapshots
        /\ obs.log \in Seq(Line) /\ obs.mirror \in Seq(Line)
        /\ Cancels(obs.log) \/ Cancels(obs.mirror) => Cancels(log)
        /\ snapshot.status = "cancelled" => machine = "gone" \/ Cancels(log)
    BY DEF FileTypes, ProcessTypes, CancelLines, CancelWords, Observers
  <1> DEFINE v == restoreSnapshot(obs.live, obs.log, obs.mirror, snapshot)
             pc == IF isTerminal(v) THEN "settled" ELSE "watching"
             st == IF v = Corrupt /\ ~obs.first THEN Status("failed", "reattachment") ELSE v
             o == [[[[[obs EXCEPT !.pc = pc] EXCEPT !.state = st] EXCEPT !.log = << >>]
                     EXCEPT !.mirror = << >>] EXCEPT !.first = FALSE]
  <1>3. /\ v \in Verdicts
        /\ ~isTerminal(v) => v = Running
        /\ v.status = "cancelled" => machine = "gone" \/ Cancels(log)
    BY <1>2, RestoreVerdicts
  <1>4. obs' = o
    BY <1>2 DEF Conclude, Observers
  <1> HIDE DEF v
  <1>5. /\ st \in Verdicts
        /\ pc = "watching" => st = Running
        /\ pc = "settled" => isTerminal(st)
        /\ st.status = "cancelled" => machine = "gone" \/ Cancels(log)
        /\ pc \in {"watching", "settled"}
    <2>1. CASE v = Corrupt /\ ~obs.first
      BY <1>3, <2>1 DEF Verdicts, Corrupt, isTerminal, Status
    <2>2. CASE ~(v = Corrupt /\ ~obs.first)
      BY <1>3, <2>2
    <2> QED BY <2>1, <2>2
  <1>6. << >> \in Seq(Line)
    BY EmptySeq
  <1> HIDE DEF pc, st
  <1>7. /\ obs' \in Observers /\ obs'.pc = pc /\ obs'.state = st
        /\ obs'.log = << >> /\ obs'.mirror = << >>
    BY <1>2, <1>4, <1>5, <1>6 DEF Observers
  <1> QED BY <1>1, <1>5, <1>7, NoCancels, ObserverFrame

LEMMA SupervisorStep ==
  ASSUME SupervisorInv, [Next]_vars
  PROVE  SupervisorInv'
  <1>1. CASE UNCHANGED vars
    BY <1>1 DEF vars, runtimeVars, ownerVars, SupervisorInv, FileTypes, ProcessTypes, CancelLines,
       CancelWords, ClosingInv, StreamInv, Taken, Faults
  <1>2. CASE Runtime
    BY <1>2, JournalKeeps, WriteOutKeeps, RuntimeKeeps DEF Runtime
  <1>3. CASE Owner
    BY <1>3, ConsumeKeeps, MirrorKeeps, TimerKeeps, RuntimeKeeps, ClosingKeeps, OwnerDiesKeeps
       DEF Owner
  <1>4. CASE Observer
    BY <1>4, ReadsKeep, ConcludeKeeps DEF Observer
  <1> QED BY <1>1, <1>2, <1>3, <1>4 DEF Next

(* The owner calls a run succeeded that a later session restores as        *)
(* succeeded.                                                              *)
LEMMA SuccessConfirmed == SupervisorInv => SuccessIsConfirmed
  <1> SUFFICES ASSUME SupervisorInv, own.pc = "done", Recorded.status = "succeeded",
                      own.state.class # "persistence"
               PROVE  own.state.status = "succeeded"
    BY DEF SuccessIsConfirmed
  <1>1. /\ log \in Seq(Line) /\ mirror \in Seq(Line) /\ snapshot \in Snapshots
        /\ ownerIsLive \in BOOLEAN /\ own.state \in OwnStates
    BY DEF SupervisorInv, FileTypes, ProcessTypes, ownerIsLive, Owners
  <1>2. snapshot \in {Absent, Recorded}
    BY <1>1, RestoreVerdicts DEF Recorded
  <1>3. snapshot = own.state
    BY DEF SupervisorInv, ClosingInv
  <1>4. own.state.status # "absent"
    BY <1>1, OwnStateFields
  <1> QED BY <1>2, <1>3, <1>4 DEF Absent, Status

(* A run the owner called succeeded is restored as succeeded: with the     *)
(* queue and the pipe drained the mirror is the journal up to its          *)
(* run.completed, and that is its last line.                               *)
LEMMA SuccessRestored == SupervisorInv => SuccessIsRestored
  <1> SUFFICES ASSUME SupervisorInv, own.pc = "done", own.state.status = "succeeded",
                      "mirror" \notin Faults, Reduces(log)
               PROVE  Recorded.status = "succeeded"
    BY DEF SuccessIsRestored, EventsAfterTerminal
  <1>1. /\ log \in Seq(Line) /\ mirror \in Seq(Line) /\ own.state \in OwnStates
        /\ ownerIsLive \in BOOLEAN
    BY DEF SupervisorInv, FileTypes, ProcessTypes, Owners, ownerIsLive
  <1>2. own.state = Status("succeeded", "none")
    BY <1>1, OwnStateFields
  <1>3. snapshot = Status("succeeded", "none") /\ artifact
    BY <1>2 DEF SupervisorInv, ClosingInv, Status
  <1>4. pipe = << >> /\ queue = << >> /\ Len(pipe) = 0 /\ Len(queue) = 0
    BY EmptySeq DEF SupervisorInv, ClosingInv
  <1>5. Len(log) \in Nat /\ Len(mirror) \in Nat /\ DOMAIN log = 1..Len(log)
    BY <1>1, LenProperties
  <1>6. /\ Len(log) = Len(mirror) + (IF writing THEN 1 ELSE 0)
        /\ \A i \in 1..Len(mirror) : mirror[i] = log[i]
        /\ Len(mirror) > 0 /\ log[Len(mirror)].kind = "completed"
    <2>1. Taken = Len(mirror)
      BY <1>4, <1>5 DEF Taken
    <2>2. /\ Len(log) = Taken + Len(pipe) + (IF writing THEN 1 ELSE 0)
          /\ \A i \in 1..Len(mirror) : mirror[i] = log[i]
          /\ Taken > 0 /\ log[Taken].kind = "completed"
      BY DEF SupervisorInv, StreamInv
    <2> QED BY <1>4, <1>5, <2>1, <2>2
  <1>7. Len(mirror) = Len(log)
    BY <1>5, <1>6 DEF Reduces, TerminalKinds
  <1>8. mirror = log
    BY <1>1, <1>6, <1>7, SeqEqual
  <1>9. log # << >> /\ Last(log).kind = "completed"
    BY <1>6, <1>7, EmptySeq DEF Last
  <1> QED BY <1>1, <1>3, <1>8, <1>9, RestoreSuccess DEF Recorded

(* Where a run ends, its owner and every session that restores it later    *)
(* agree on a success: the one reported is restored when the mirror loses  *)
(* no line and no event follows run.completed, and the one restored was    *)
(* reported unless snapshot.json itself could not be written.  For every   *)
(* number of events, every set of failing writes and of controls.          *)
THEOREM OwnersAndSessionsAgree == Spec => []OneStory
  <1>1. SupervisorInv => TypeOK
    <2> SUFFICES ASSUME SupervisorInv PROVE TypeOK
      OBVIOUS
    <2> USE DEF SupervisorInv
    <2>1. own.state \in OwnStates /\ snapshot \in Snapshots /\ obs.state \in Verdicts
      BY DEF FileTypes, ProcessTypes, Owners, Observers
    <2>2. snapshot.status \in {"absent", "empty", "succeeded", "failed", "cancelled"}
      BY <2>1 DEF Snapshots, OwnStates, Absent, Truncated, Running, Status
    <2>3. obs.state.status \in {"running", "succeeded", "failed", "cancelled", "orphaned"}
      BY <2>1, OwnStateFields DEF Verdicts, Corrupt, Status
    <2>4. own.state.status \in {"running", "succeeded", "failed", "cancelled"}
      BY <2>1, OwnStateFields
    <2> QED BY <2>2, <2>3, <2>4 DEF TypeOK, FileTypes, ProcessTypes, Owners, Observers
  <1>2. SupervisorInv => OneStory
    BY <1>1, SuccessConfirmed, SuccessRestored DEF OneStory
  <1> QED BY <1>2, SupervisorInit, SupervisorStep, PTL DEF Spec

(* Neither the owner nor an attached session shows a run as cancelled      *)
(* before its process is gone or has journaled run.cancelled, whatever     *)
(* the order of controls, timers, deaths and reads.                        *)
THEOREM CancellationIsConfirmed == Spec => []CancelledIsConfirmed
  <1>1. SupervisorInv => CancelledIsConfirmed
    BY DEF SupervisorInv, CancelWords, Cancels, CancelledIsConfirmed
  <1> QED BY <1>1, SupervisorInit, SupervisorStep, PTL DEF Spec

-----------------------------------------------------------------------------
(* The current-session bridge.                                             *)

Turns == [by : Runs \cup {None, "user"}, aborted : BOOLEAN]

(* What the bridge and the runners keep, and the identifiers they were     *)
(* given: an ACP session id is one that was handed out.                    *)
BridgeTypes ==
  /\ bridge \in {"off", "listening", "closing", "closed"}
  /\ client \in Runs \cup {None} /\ pending \in Runs \cup {None}
  /\ turn \in Turns
  /\ sock \in [Runs -> {"none", "open", "authed", "closed"}]
RunnerTypes ==
  /\ launch \in [Runs -> {"idle", "asked", "running", "ended"}]
  /\ asking \in [Runs -> {"no", "sent", "answered", "refused", "lost"}]
  /\ inbox \in [Runs -> Seq({"prompt", "steer", "cancel"})]
IdsInv ==
  /\ ids \in Nat /\ sessionId \in Nat /\ known \in [Runs -> Nat]
  /\ sessionId <= ids /\ \A r \in Runs : known[r] <= ids

(* The pending prompt is that of the turn in progress, and its socket is   *)
(* alive; a turn whose run has no pending prompt is aborted.               *)
PendingInv == pending # None => sock[pending] = "authed" /\ turn.by = pending
AbortedInv == turn.by \in Runs /\ pending # turn.by => turn.aborted

BridgeInv == BridgeTypes /\ RunnerTypes /\ IdsInv /\ PendingInv /\ AbortedInv

(* The names of the user and of nobody are not names of runs.              *)
LEMMA Names == None \notin Runs /\ "user" \notin Runs /\ None # "user"
  BY CurrentSessionAssumption DEF None

LEMMA BridgeInit == SessionInit => BridgeInv
  <1> SUFFICES ASSUME SessionInit PROVE BridgeInv
    OBVIOUS
  <1> USE DEF SessionInit, NoTurn
  <1>1. << >> \in Seq({"prompt", "steer", "cancel"})
    OBVIOUS
  <1>2. RunnerTypes
    BY <1>1 DEF RunnerTypes
  <1>3. BridgeTypes /\ IdsInv
    BY DEF BridgeTypes, IdsInv, Turns
  <1>4. PendingInv /\ AbortedInv
    BY Names DEF PendingInv, AbortedInv
  <1> QED BY <1>2, <1>3, <1>4 DEF BridgeInv

(* Launching, ending and the listening of the bridge touch no turn.        *)
LEMMA LaunchKeeps ==
  ASSUME BridgeInv,
         \/ start \/ closeEnds
         \/ \E r \in Runs : LaunchChecked(r) \/ Launched(r) \/ RunEnds(r)
  PROVE  BridgeInv'
  <1>1. /\ UNCHANGED <<inbox, asking, prompts, known, client, sessionId, ids, pending, sock, turn>>
        /\ bridge' \in {bridge, "listening", "closed"}
        /\ launch' \in [Runs -> {"idle", "asked", "running", "ended"}]
    BY DEF start, closeEnds, LaunchChecked, Launched, RunEnds, runnerVars, bridgeVars, BridgeInv,
       RunnerTypes
  <1> QED BY <1>1 DEF BridgeInv, BridgeTypes, RunnerTypes, IdsInv, PendingInv, AbortedInv

(* A socket that comes up has no pending prompt yet.                       *)
LEMMA ConnectKeeps ==
  ASSUME BridgeInv, NEW r \in Runs, accept(r) \/ authenticate(r)
  PROVE  BridgeInv'
  <1>1. /\ UNCHANGED <<runnerVars, bridge, sessionId, ids, pending, turn>>
        /\ sock[r] \in {"none", "open"}
        /\ \E s \in {"open", "authed", "closed"} : sock' = [sock EXCEPT ![r] = s]
        /\ client' \in {client, r}
    BY DEF accept, authenticate, bridgeVars
  <1>2. pending # r
    BY <1>1, Names DEF BridgeInv, PendingInv
  <1>3. PendingInv'
    BY <1>1, <1>2 DEF BridgeInv, BridgeTypes, PendingInv
  <1>4. BridgeTypes'
    BY <1>1 DEF BridgeInv, BridgeTypes
  <1> QED BY <1>1, <1>3, <1>4 DEF BridgeInv, RunnerTypes, IdsInv, AbortedInv, runnerVars

(* The close handler aborts the turn of the prompt it takes away.          *)
LEMMA ClosedKeeps ==
  ASSUME BridgeInv, NEW r \in Runs, closed(r)
  PROVE  BridgeInv'
  <1> USE DEF BridgeInv
  <1>1. /\ UNCHANGED <<launch, prompts, known, bridge, ids>>
        /\ sock' = [sock EXCEPT ![r] = "closed"] /\ inbox' = [inbox EXCEPT ![r] = << >>]
        /\ \/ client' = None /\ sessionId' = 0
           \/ UNCHANGED <<client, sessionId>>
    BY DEF closed
  <1>2. RunnerTypes'
    <2>1. asking' \in [Runs -> {"no", "sent", "answered", "refused", "lost"}]
      BY DEF closed, RunnerTypes
    <2>2. << >> \in Seq({"prompt", "steer", "cancel"})
      OBVIOUS
    <2> QED BY <1>1, <2>1, <2>2 DEF RunnerTypes
  <1>3. IdsInv'
    BY <1>1 DEF IdsInv
  <1>4. CASE pending = r
    <2>1. pending' = None /\ turn' = [turn EXCEPT !.aborted = TRUE]
      BY <1>4 DEF closed, Abort
    <2>2. turn' \in Turns /\ turn'.aborted
      BY <2>1 DEF BridgeTypes, Turns
    <2> QED BY <1>1, <1>2, <1>3, <2>1, <2>2 DEF BridgeTypes, PendingInv, AbortedInv
  <1>5. CASE pending # r
    <2>1. UNCHANGED <<pending, turn>>
      BY <1>5 DEF closed
    <2> QED BY <1>1, <1>2, <1>3, <1>5, <2>1 DEF BridgeTypes, PendingInv, AbortedInv
  <1> QED BY <1>4, <1>5

(* What a runner writes, and the session id it is given.                   *)
LEMMA RunnerKeeps ==
  ASSUME BridgeInv, NEW r \in Runs, Runner(r)
  PROVE  BridgeInv'
  <1> USE DEF BridgeInv
  <1>1. UNCHANGED <<launch, bridge, client, pending, sock, turn>>
    BY DEF Runner, newSession, Ask, Interrupt, bridgeVars
  <1>2. BridgeTypes' /\ PendingInv' /\ AbortedInv'
    BY <1>1 DEF BridgeTypes, PendingInv, AbortedInv
  <1>3. CASE newSession(r)
    <2>1. IdsInv'
      BY <1>3 DEF newSession, IdsInv
    <2> QED BY <1>1, <1>2, <1>3, <2>1 DEF newSession, RunnerTypes
  <1>4. CASE Ask(r) \/ Interrupt(r)
    <2>1. PICK m \in {"prompt", "steer", "cancel"} : Write(r, m)
      BY <1>4 DEF Ask, Interrupt
    <2>2. Append(inbox[r], m) \in Seq({"prompt", "steer", "cancel"})
      BY AppendProperties DEF RunnerTypes
    <2>3. inbox' \in [Runs -> Seq({"prompt", "steer", "cancel"})]
      BY <2>1, <2>2 DEF Write, RunnerTypes
    <2>4. IdsInv' /\ asking' \in [Runs -> {"no", "sent", "answered", "refused", "lost"}]
      BY <1>4 DEF Ask, Interrupt, bridgeVars, IdsInv, RunnerTypes
    <2> QED BY <1>1, <1>2, <2>3, <2>4 DEF RunnerTypes
  <1> QED BY <1>3, <1>4 DEF Runner

(* A line the bridge handles: a prompt that is admitted starts its turn,   *)
(* and a cancellation leaves the turn to whoever asked for it.             *)
LEMMA HandleKeeps ==
  ASSUME BridgeInv, NEW r \in Runs, Handle(r)
  PROVE  BridgeInv'
  <1> USE DEF BridgeInv
  <1>1. UNCHANGED <<launch, known, bridge, client, sessionId, ids, sock>> /\ sock[r] = "authed"
    BY DEF Handle, prompt, promptThrows, steer, cancel, Received, bridgeVars
  <1>2. RunnerTypes' /\ IdsInv'
    <2>1. inbox[r] # << >> /\ inbox' = [inbox EXCEPT ![r] = Tail(inbox[r])]
      BY DEF Handle, prompt, promptThrows, steer, cancel, Received
    <2>2. Tail(inbox[r]) \in Seq({"prompt", "steer", "cancel"})
      BY <2>1, HeadTailProperties DEF RunnerTypes
    <2>3. asking' \in [Runs -> {"no", "sent", "answered", "refused", "lost"}]
      BY DEF Handle, prompt, promptThrows, steer, cancel, RunnerTypes
    <2> QED BY <1>1, <2>1, <2>2, <2>3 DEF RunnerTypes, IdsInv
  <1>3. CASE UNCHANGED <<pending, turn>>
    BY <1>1, <1>2, <1>3 DEF BridgeTypes, PendingInv, AbortedInv
  <1>4. CASE pending' = r /\ turn' = [by |-> r, aborted |-> FALSE]
    BY <1>1, <1>2, <1>4 DEF BridgeTypes, PendingInv, AbortedInv, Turns
  <1>5. CASE pending' = pending /\ turn' = [turn EXCEPT !.aborted = TRUE]
    <2>1. turn' \in Turns /\ turn'.aborted /\ turn'.by = turn.by
      BY <1>5 DEF BridgeTypes, Turns
    <2> QED BY <1>1, <1>2, <1>5, <2>1 DEF BridgeTypes, PendingInv, AbortedInv
  <1>6. \/ UNCHANGED <<pending, turn>>
        \/ pending' = r /\ turn' = [by |-> r, aborted |-> FALSE]
        \/ pending' = pending /\ turn' = [turn EXCEPT !.aborted = TRUE]
    BY DEF Handle, prompt, promptThrows, steer, cancel, bridgeVars, Abort
  <1> QED BY <1>3, <1>4, <1>5, <1>6

(* The turns of the session: a turn that ends takes its own prompt away,   *)
(* and the user's turns are not a run's.                                   *)
LEMMA TurnKeeps ==
  ASSUME BridgeInv, turnEnds \/ UserPrompts \/ UserTurnEnds \/ close
  PROVE  BridgeInv'
  <1> USE DEF BridgeInv
  <1>1. UNCHANGED <<launch, inbox, known, client, sessionId, ids, sock>>
    BY DEF turnEnds, UserPrompts, UserTurnEnds, close, runnerVars, bridgeVars
  <1>2. IdsInv' /\ bridge' \in {"off", "listening", "closing", "closed"}
    BY <1>1 DEF IdsInv, turnEnds, UserPrompts, UserTurnEnds, close, bridgeVars, BridgeTypes
  <1>3. CASE turnEnds
    <2>1. turn' = NoTurn /\ turn.by \in Runs
      BY <1>3 DEF turnEnds, BridgeTypes, Turns
    <2>2. asking' \in [Runs -> {"no", "sent", "answered", "refused", "lost"}]
      BY <1>3, <2>1 DEF turnEnds, RunnerTypes
    <2>3. pending' = None
      BY <1>3 DEF turnEnds, PendingInv
    <2>4. turn' \in Turns /\ turn'.by = None
      BY <2>1 DEF NoTurn, Turns
    <2> QED BY <1>1, <1>2, <2>2, <2>3, <2>4, Names DEF BridgeTypes, RunnerTypes, PendingInv, AbortedInv
  <1>4. CASE UserPrompts
    <2>1. turn' \in Turns /\ turn'.by = "user" /\ pending = None /\ UNCHANGED <<pending, asking>>
      BY <1>4 DEF UserPrompts, busy, runnerVars, bridgeVars, Turns
    <2> QED BY <1>1, <1>2, <2>1, Names DEF BridgeTypes, RunnerTypes, PendingInv, AbortedInv
  <1>5. CASE UserTurnEnds
    <2>1. turn.by = "user" /\ UNCHANGED <<pending, asking>> /\ turn' = NoTurn
      BY <1>5 DEF UserTurnEnds, runnerVars, bridgeVars
    <2>2. pending = None
      BY <2>1, Names DEF PendingInv, BridgeTypes
    <2>3. turn' \in Turns /\ turn'.by = None
      BY <2>1 DEF NoTurn, Turns
    <2> QED BY <1>1, <1>2, <2>1, <2>2, <2>3, Names DEF BridgeTypes, RunnerTypes, PendingInv, AbortedInv
  <1>6. CASE close
    <2>1. /\ UNCHANGED <<pending, asking>>
          /\ UNCHANGED turn \/ turn' = [turn EXCEPT !.aborted = TRUE]
      BY <1>6 DEF close, runnerVars, Abort
    <2>2. turn' \in Turns /\ turn'.by = turn.by /\ (turn.aborted => turn'.aborted)
      BY <2>1 DEF BridgeTypes, Turns
    <2> QED BY <1>1, <1>2, <2>1, <2>2 DEF BridgeTypes, RunnerTypes, PendingInv, AbortedInv
  <1> QED BY <1>3, <1>4, <1>5, <1>6

LEMMA BridgeStep ==
  ASSUME BridgeInv, [SessionNext]_sessionVars
  PROVE  BridgeInv'
  <1>1. CASE UNCHANGED sessionVars
    BY <1>1 DEF sessionVars, runnerVars, bridgeVars, BridgeInv, BridgeTypes, RunnerTypes, IdsInv,
       PendingInv, AbortedInv
  <1>2. CASE start \/ closeEnds \/ \E r \in Runs : LaunchChecked(r) \/ Launched(r) \/ RunEnds(r)
    BY <1>2, LaunchKeeps
  <1>3. CASE turnEnds \/ UserPrompts \/ UserTurnEnds \/ close
    BY <1>3, TurnKeeps
  <1>4. ASSUME NEW r \in Runs, accept(r) \/ authenticate(r) PROVE BridgeInv'
    BY <1>4, ConnectKeeps
  <1>5. ASSUME NEW r \in Runs, closed(r) PROVE BridgeInv'
    BY <1>5, ClosedKeeps
  <1>6. ASSUME NEW r \in Runs, Handle(r) PROVE BridgeInv'
    BY <1>6, HandleKeeps
  <1>7. ASSUME NEW r \in Runs, Runner(r) PROVE BridgeInv'
    BY <1>7, RunnerKeeps
  <1> QED BY <1>1, <1>2, <1>3, <1>4, <1>5, <1>6, <1>7 DEF SessionNext

(* The turn of a run that has lost its socket is aborted, for every number *)
(* of runs, prompts and turns.                                             *)
THEOREM TurnsAreWanted == SessionSpec => []NoTurnForNobody
  <1>1. BridgeInv => NoTurnForNobody
    BY DEF BridgeInv, BridgeTypes, RunnerTypes, IdsInv, PendingInv, AbortedInv, NoTurnForNobody,
       SessionTypeOK, Turns
  <1> QED BY <1>1, BridgeInit, BridgeStep, PTL DEF SessionSpec
=============================================================================
