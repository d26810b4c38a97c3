----------------------------- MODULE Supervisor -----------------------------
(***************************************************************************)
(* One run as the Pi extension supervises it: OwnedRun and RestoredRun of  *)
(* ext-pi/src/supervisor.ts, over the event writer and the control reader  *)
(* of runtime/src/Agentic/Runtime/Machine.hs.                              *)
(*                                                                         *)
(* Three processes share a run directory.  The runtime appends each event  *)
(* to runtime/events.ndjson and then writes it to stdout.  The owner       *)
(* reduces each line it reads, mirrors it to live-events.ndjson, holds     *)
(* owner.json, and leaves snapshot.json when the child is gone.  An        *)
(* observer, another session, decides from those four files alone what     *)
(* became of the run.  Runtime and owner may die anywhere.                 *)
(***************************************************************************)
EXTENDS Naturals, Sequences, SequencesExt

CONSTANT Setups   \* the circumstances of a run, see below

(* A bound on the events that are neither terminal nor an acknowledgement, *)
(* the writes of the owner that may fail, what the operator may send, and  *)
(* whether a second session attaches to the run.                           *)
ASSUME SetupsAssumption ==
  Setups \subseteq [maxItems : Nat \ {0}, watched : BOOLEAN,
                   controls : SUBSET {"steer", "cancel"},
                   faults : SUBSET {"mirror", "lease", "persist", "artifact"}]

VARIABLES
  setup,        \* the member of Setups this run is
  machine,      \* the runtime process: "run", "ended" (terminal event written) or "gone"
  writing,      \* the event writer is between its journal and stdout
  thrown,       \* MachineCancelled is on its way to the main thread
  log,          \* runtime/events.ndjson
  artifact,     \* runtime/result.json matches its reference
  pipe,         \* the runtime's stdout, not yet read
  controls,     \* the control lines written and not yet read
  own,          \* the OwnedRun
  queue,        \* #eventMirrorQueue
  mirror,       \* live-events.ndjson
  lease,        \* owner.json exists
  snapshot,     \* snapshot.json
  obs           \* the RestoredRun

runtimeVars == <<machine, writing, thrown, log>>
ownerVars == <<own, queue, mirror, lease, snapshot>>
vars == <<setup, runtimeVars, artifact, pipe, controls, ownerVars, obs>>

MaxItems == setup.maxItems
Faults   == setup.faults
Controls == setup.controls
Watched  == setup.watched

TerminalKinds == {"completed", "failed", "cancelled"}
Kinds == {"item", "ack"} \cup TerminalKinds
Line == [seq : Nat, kind : Kinds]

(* A snapshot as far as the restore tells two of them apart: its status    *)
(* and the class of its failure.                                           *)
Status(s, c) == [status |-> s, class |-> c]
Running == Status("running", "none")
Absent == Status("absent", "none")
Truncated == Status("empty", "none")
StatusOf(kind) ==
  CASE kind = "completed" -> Status("succeeded", "none")
    [] kind = "failed" -> Status("failed", "runtime")
    [] kind = "cancelled" -> Status("cancelled", "cancelled")

isTerminal(s) == s.status \in {"succeeded", "failed", "cancelled", "orphaned"}

TypeOK ==
  /\ setup \in Setups
  /\ machine \in {"run", "ended", "gone"} /\ writing \in BOOLEAN /\ thrown \in BOOLEAN
  /\ log \in Seq(Line) /\ pipe \in Seq(Line) /\ queue \in Seq(Line) /\ mirror \in Seq(Line)
  /\ controls \in Seq({"steer", "cancel"})
  /\ own.pc \in {"open", "closing", "verified", "released", "persisting", "done", "dead"}
  /\ own.state.status \in {"running", "succeeded", "failed", "cancelled"}
  /\ own.waiter \in {"idle", "waiting", "resolved", "rejected"}
  /\ snapshot.status \in {"absent", "empty", "succeeded", "failed", "cancelled"}
  /\ obs.pc \in {"none", "checked", "journal", "journals", "watching", "settled"}
  /\ obs.state.status \in {"running", "succeeded", "failed", "cancelled", "orphaned"}
  /\ obs.pc \in {"none", "watching"} => obs.state = Running
  /\ obs.pc = "settled" => isTerminal(obs.state)

Init ==
  /\ setup \in Setups
  /\ machine = "run" /\ writing = FALSE /\ thrown = FALSE /\ log = << >>
  /\ artifact \in (IF "artifact" \in Faults THEN BOOLEAN ELSE {TRUE})
  /\ pipe = << >> /\ controls = << >>
  /\ own = [pc |-> "open", state |-> Running, cancel |-> FALSE, forced |-> FALSE,
            fatal |-> FALSE, waiter |-> "idle"]
  /\ queue = << >> /\ mirror = << >> /\ lease = FALSE /\ snapshot = Absent
  /\ obs = [pc |-> "none", live |-> FALSE, log |-> << >>, mirror |-> << >>, first |-> TRUE,
            state |-> Running]

-----------------------------------------------------------------------------
(* The runtime: the event writer, the main thread and the control reader.  *)

(* The first half of writeEvent, under the writer lock: the next sequence  *)
(* number and the durable line.                                            *)
Journal(kind) ==
  /\ machine # "gone" /\ ~writing
  /\ log' = Append(log, [seq |-> Len(log), kind |-> kind])
  /\ writing' = TRUE

(* The second half: the line reaches stdout, or the write fails because    *)
(* the owner is gone; only a terminal event survives that failure.         *)
WriteOut ==
  /\ machine # "gone" /\ writing
  /\ writing' = FALSE
  /\ IF own.pc = "dead" THEN UNCHANGED pipe ELSE pipe' = Append(pipe, Last(log))
  /\ UNCHANGED <<setup, machine, thrown, log, artifact, controls, ownerVars, obs>>

(* An event of the interpreter: run.started is the first.  A run whose     *)
(* stdout failed emits only its terminal event.                            *)
EmitItem ==
  /\ machine = "run" /\ ~thrown /\ own.pc # "dead"
  /\ Len(SelectSeq(log, LAMBDA e : e.kind = "item")) < MaxItems
  /\ Journal("item")
  /\ UNCHANGED <<setup, machine, thrown, artifact, pipe, controls, ownerVars, obs>>

(* executeRun: the result of the run and its terminal event.               *)
EmitTerminal ==
  /\ machine = "run" /\ log # << >>
  /\ \E kind \in {"completed", "failed"} : Journal(kind)
  /\ machine' = "ended"
  /\ UNCHANGED <<setup, thrown, artifact, pipe, controls, ownerVars, obs>>

(* The handler of MachineCancelled.  run.completed is emitted inside the   *)
(* scope it guards, so the exception may still arrive after that event;    *)
(* run.failed is emitted outside it.                                       *)
EmitCancelled ==
  /\ thrown /\ log # << >>
  /\ \A i \in DOMAIN log : log[i].kind \notin {"failed", "cancelled"}
  /\ Journal("cancelled")
  /\ machine' = "ended"
  /\ UNCHANGED <<setup, thrown, artifact, pipe, controls, ownerVars, obs>>

(* The loop of the control reader: it acknowledges the next control, and a *)
(* cancelRun ends the loop and interrupts the main thread.  The reader is  *)
(* joined only when the scope of the run is left.  Controls wait for       *)
(* run.started (a run cancelled before it has no journal).                 *)
ReadControl ==
  /\ controls # << >> /\ ~thrown /\ log # << >>
  /\ Journal("ack")
  /\ thrown' = (Head(controls) = "cancel")
  /\ controls' = Tail(controls)
  /\ UNCHANGED <<setup, machine, artifact, pipe, ownerVars, obs>>

(* End of the control input: the owner is gone, or destroyed the pipe.     *)
ControlClosed ==
  /\ machine # "gone" /\ ~thrown /\ controls = << >> /\ log # << >>
  /\ own.pc = "dead" \/ own.fatal
  /\ thrown' = TRUE
  /\ UNCHANGED <<setup, machine, writing, log, artifact, pipe, controls, ownerVars, obs>>

RuntimeExits ==
  /\ machine = "ended" /\ ~writing
  /\ machine' = "gone"
  /\ UNCHANGED <<setup, writing, thrown, log, artifact, pipe, controls, ownerVars, obs>>

RuntimeDies ==
  /\ machine # "gone"
  /\ machine' = "gone"
  /\ UNCHANGED <<setup, writing, thrown, log, artifact, pipe, controls, ownerVars, obs>>

-----------------------------------------------------------------------------
(* The owner.                                                              *)

(* #fail: after #closed has begun it does nothing.                         *)
Fail(o) ==
  IF o.pc # "open" THEN o
  ELSE [o EXCEPT !.state = IF @.status = "failed" THEN @ ELSE Status("failed", "supervisor"),
                 !.waiter = IF @ = "waiting" THEN "rejected" ELSE @,
                 !.fatal = TRUE]

(* One line of #consume: queued for the mirror, then reduced; reduceEvent  *)
(* throws on any event after a terminal status.                            *)
Consumed(o, kind) ==
  IF isTerminal(o.state) THEN Fail(o)
  ELSE IF kind \in TerminalKinds THEN [o EXCEPT !.state = StatusOf(kind)]
  ELSE IF kind = "ack" /\ o.waiter = "waiting" THEN [o EXCEPT !.waiter = "resolved"]
  ELSE o

Consume ==
  /\ own.pc = "open" /\ pipe # << >>
  /\ own' = Consumed(own, Head(pipe).kind)
  /\ queue' = Append(queue, Head(pipe))
  /\ pipe' = Tail(pipe)
  /\ UNCHANGED <<setup, runtimeVars, artifact, controls, mirror, lease, snapshot, obs>>

(* The head of #eventMirrorQueue: a failed append fails the run and the    *)
(* queue goes on with the next line.                                       *)
Mirror ==
  /\ own.pc \in {"open", "closing"} /\ queue # << >>
  /\ queue' = Tail(queue)
  /\ \/ mirror' = Append(mirror, Head(queue)) /\ UNCHANGED own
     \/ "mirror" \in Faults /\ own' = Fail(own) /\ UNCHANGED mirror
  /\ UNCHANGED <<setup, runtimeVars, artifact, pipe, controls, lease, snapshot, obs>>

(* #queueOwnerHeartbeat.  A #closed that throws before it clears the timer *)
(* (done, and no snapshot begun) leaves the heartbeat running.             *)
Heartbeat ==
  /\ own.pc \in {"open", "closing"} \/ (own.pc = "done" /\ snapshot = Absent)
  /\ \/ lease' = TRUE /\ UNCHANGED own
     \/ "lease" \in Faults /\ own' = Fail(own) /\ UNCHANGED lease
  /\ UNCHANGED <<setup, runtimeVars, artifact, pipe, controls, queue, mirror, snapshot, obs>>

(* steer, retry, recover and redirect: a control and its waiter.  The pipe *)
(* of a child that is gone refuses the line or loses it.                   *)
SendControl ==
  /\ "steer" \in Controls
  /\ own.pc = "open" /\ ~isTerminal(own.state) /\ own.waiter = "idle"
  /\ queue # << >> \/ mirror # << >>
  /\ \/ machine = "gone" /\ UNCHANGED controls
        /\ \E w \in {"rejected", "waiting"} : own' = [own EXCEPT !.waiter = w]
     \/ machine # "gone" /\ controls' = Append(controls, "steer")
        /\ own' = [own EXCEPT !.waiter = "waiting"]
  /\ UNCHANGED <<setup, runtimeVars, artifact, pipe, queue, mirror, lease, snapshot, obs>>

ControlTimeout ==
  /\ own.waiter = "waiting" /\ own.pc # "dead"
  /\ own' = [own EXCEPT !.waiter = "rejected"]
  /\ UNCHANGED <<setup, runtimeVars, artifact, pipe, controls, queue, mirror, lease, snapshot, obs>>

\* A cancel that reports its outcome when it asks for it.
CancelAtOnce ==
  /\ own.pc = "open" /\ ~isTerminal(own.state) /\ ~own.cancel
  /\ own' = [own EXCEPT !.cancel = TRUE, !.state = Status("cancelled", "cancelled")]
  /\ IF machine = "gone" THEN UNCHANGED controls ELSE controls' = Append(controls, "cancel")
  /\ UNCHANGED <<setup, runtimeVars, artifact, pipe, queue, mirror, lease, snapshot, obs>>

(* cancel: the control line cannot be written once the child is gone.      *)
Cancel ==
  /\ "cancel" \in Controls
  /\ own.pc = "open" /\ ~isTerminal(own.state) /\ ~own.cancel
  /\ own' = [own EXCEPT !.cancel = TRUE]
  /\ IF machine = "gone" THEN UNCHANGED controls ELSE controls' = Append(controls, "cancel")
  /\ UNCHANGED <<setup, runtimeVars, artifact, pipe, queue, mirror, lease, snapshot, obs>>

(* Five seconds after cancel the child has not closed.                     *)
Escalate ==
  /\ own.pc = "open" /\ own.cancel /\ ~own.forced
  /\ own' = [own EXCEPT !.forced = TRUE]
  /\ UNCHANGED <<setup, runtimeVars, artifact, pipe, controls, queue, mirror, lease, snapshot, obs>>

\* A cancel that waits for the child without a limit.
KillFatalOnly ==
  /\ own.pc = "open" /\ own.fatal /\ machine # "gone"
  /\ machine' = "gone"
  /\ UNCHANGED <<setup, writing, thrown, log, artifact, pipe, controls, ownerVars, obs>>

(* SIGTERM and SIGKILL to the process group, by cancel or by               *)
(* #terminateFatalProcessGroup.                                            *)
Kill ==
  /\ own.pc = "open" /\ (own.forced \/ own.fatal) /\ machine # "gone"
  /\ machine' = "gone"
  /\ UNCHANGED <<setup, writing, thrown, log, artifact, pipe, controls, ownerVars, obs>>

(* #closed up to its first await: the child is gone and stdout is drained. *)
Ended(o) ==
  IF isTerminal(o.state) THEN o
  ELSE IF o.cancel
    THEN [o EXCEPT !.state = Status("cancelled",
                     IF o.forced THEN "forced-termination" ELSE "missing-terminal-event")]
    ELSE Fail(o)

Closed ==
  /\ own.pc = "open" /\ machine = "gone" /\ pipe = << >>
  /\ own' = [Ended(own) EXCEPT !.pc = "closing"]
  /\ UNCHANGED <<setup, runtimeVars, artifact, pipe, controls, queue, mirror, lease, snapshot, obs>>

(* The finally of #closed: every waiter left is rejected.                  *)
Finished(o) ==
  [o EXCEPT !.pc = "done", !.waiter = IF @ = "waiting" THEN "rejected" ELSE @]
PersistenceFailure(o) == Finished([o EXCEPT !.state = Status("failed", "persistence")])

(* The queues are drained and the result artifact is verified.  When that  *)
(* throws, owner.json stays and no snapshot is written.                    *)
Verify ==
  /\ own.pc = "closing" /\ queue = << >>
  /\ own' = IF own.state.status = "succeeded" /\ ~artifact
              THEN PersistenceFailure(own) ELSE [own EXCEPT !.pc = "verified"]
  /\ UNCHANGED <<setup, runtimeVars, artifact, pipe, controls, queue, mirror, lease, snapshot, obs>>

(* The lease timer is cleared and owner.json removed.                      *)
Release ==
  /\ own.pc = "verified"
  /\ own' = [own EXCEPT !.pc = "released"]
  /\ lease' = FALSE
  /\ UNCHANGED <<setup, runtimeVars, artifact, pipe, controls, queue, mirror, snapshot, obs>>

(* #persistSnapshot: writeFile truncates the file and then writes it.      *)
Truncate ==
  /\ own.pc = "released"
  /\ own' = [own EXCEPT !.pc = "persisting"]
  /\ snapshot' = Truncated
  /\ UNCHANGED <<setup, runtimeVars, artifact, pipe, controls, queue, mirror, lease, obs>>

Persist ==
  /\ own.pc = "persisting"
  /\ \/ own' = Finished(own) /\ snapshot' = own.state
     \/ "persist" \in Faults /\ own' = PersistenceFailure(own) /\ UNCHANGED snapshot
  /\ UNCHANGED <<setup, runtimeVars, artifact, pipe, controls, queue, mirror, lease, obs>>

OwnerDies ==
  /\ own.pc \notin {"done", "dead"}
  /\ own' = [own EXCEPT !.pc = "dead", !.waiter = IF @ = "waiting" THEN "rejected" ELSE @]
  /\ pipe' = << >> /\ queue' = << >>
  /\ UNCHANGED <<setup, runtimeVars, artifact, controls, mirror, lease, snapshot, obs>>

-----------------------------------------------------------------------------
(* The observer.                                                           *)

(* ownerIsLive: owner.json is there and its process alive.                 *)
ownerIsLive == lease /\ own.pc # "dead"

(* reduceJournal: sequence numbers without a gap and nothing after a       *)
(* terminal event.                                                         *)
Reduces(j) ==
  /\ \A i \in DOMAIN j : j[i].seq = i - 1
  /\ \A i \in DOMAIN j : j[i].kind \in TerminalKinds => i = Len(j)
reduceJournal(j) ==
  IF j # << >> /\ Last(j).kind \in TerminalKinds THEN StatusOf(Last(j).kind) ELSE Running

Corrupt == Status("failed", "corrupt-store")
SupervisorClasses == {"supervisor", "forced-termination", "missing-terminal-event"}

(* restoreSnapshot over the two journals and snapshot.json; a journal that *)
(* is not there is empty.  Corrupt stands for each error it throws.        *)
Disagree(live, j, m) ==
  /\ j # << >> /\ m # << >>
  /\ \/ ~live /\ Len(j) # Len(m)
     \/ ~(IsPrefix(j, m) \/ IsPrefix(m, j))

\* A restore that takes the absence of a verdict for life.
FromSnapshotHopeful(live, stored) ==
  IF isTerminal(stored)
    THEN IF stored.class \in SupervisorClasses THEN stored ELSE Corrupt
    ELSE Running

FromSnapshot(live, stored) ==
  IF isTerminal(stored)
    THEN IF stored.class \in SupervisorClasses THEN stored ELSE Corrupt
    ELSE IF live THEN Running ELSE Status("orphaned", "lost-ownership")

\* A restore that trusts the terminal journal over the owner's snapshot.
restoreJournalFirst(live, j, m, snap) ==
  LET reduced == reduceJournal(IF Len(m) > Len(j) THEN m ELSE j)
      stored == IF snap = Absent THEN reduced ELSE snap
      refused == \/ ~Reduces(j) \/ ~Reduces(m) \/ Disagree(live, j, m)
                 \/ snap = Truncated
                 \/ reduced.status = "succeeded" /\ ~artifact
  IN IF refused THEN Corrupt
     ELSE IF isTerminal(reduced) THEN reduced ELSE FromSnapshot(live, stored)

restoreSnapshot(live, j, m, snap) ==
  LET reduced == reduceJournal(IF Len(m) > Len(j) THEN m ELSE j)
      stored == IF snap = Absent THEN reduced ELSE snap
      refused == \/ ~Reduces(j) \/ ~Reduces(m) \/ Disagree(live, j, m)
                 \/ snap = Truncated
                 \/ isTerminal(reduced) /\ isTerminal(stored) /\ stored # reduced
                 \/ reduced.status = "succeeded" /\ ~artifact
  IN IF refused THEN Corrupt
     ELSE IF isTerminal(reduced) THEN reduced ELSE FromSnapshot(live, stored)

(* restore and each #refresh: the lease, the runtime journal, the mirror   *)
(* and the snapshot are read one after another.                            *)
CheckOwner ==
  /\ Watched /\ obs.pc \in {"none", "watching"}
  /\ obs' = [obs EXCEPT !.pc = "checked", !.live = ownerIsLive]
  /\ UNCHANGED <<setup, runtimeVars, artifact, pipe, controls, ownerVars>>

ReadJournal ==
  /\ obs.pc = "checked"
  /\ obs' = [obs EXCEPT !.pc = "journal", !.log = log]
  /\ UNCHANGED <<setup, runtimeVars, artifact, pipe, controls, ownerVars>>

ReadMirror ==
  /\ obs.pc = "journal"
  /\ obs' = [obs EXCEPT !.pc = "journals", !.mirror = mirror]
  /\ UNCHANGED <<setup, runtimeVars, artifact, pipe, controls, ownerVars>>

(* An error of the first restore is corrupt-store, one of a refresh is     *)
(* reattachment; a terminal verdict stops the monitor.                     *)
Conclude ==
  /\ obs.pc = "journals"
  /\ LET verdict == restoreSnapshot(obs.live, obs.log, obs.mirror, snapshot) IN
       obs' = [obs EXCEPT
                 !.pc = IF isTerminal(verdict) THEN "settled" ELSE "watching",
                 !.state = IF verdict = Corrupt /\ ~obs.first
                             THEN Status("failed", "reattachment") ELSE verdict,
                 !.log = << >>, !.mirror = << >>, !.first = FALSE]
  /\ UNCHANGED <<setup, runtimeVars, artifact, pipe, controls, ownerVars>>

-----------------------------------------------------------------------------
Runtime == EmitItem \/ EmitTerminal \/ EmitCancelled \/ WriteOut \/ ReadControl
             \/ ControlClosed \/ RuntimeExits \/ RuntimeDies
Closing == Closed \/ Verify \/ Release \/ Truncate \/ Persist
Owner == Consume \/ Mirror \/ Heartbeat \/ SendControl \/ ControlTimeout \/ Cancel
           \/ Escalate \/ Kill \/ Closing \/ OwnerDies
Observer == CheckOwner \/ ReadJournal \/ ReadMirror \/ Conclude

Next == Runtime \/ Owner \/ Observer
Spec == Init /\ [][Next]_vars

(* The timers of the owner fire, its promises and the reads of an attached *)
(* observer proceed, and a runtime that has written its terminal event     *)
(* leaves.  Nothing makes a runtime emit an event or heed a control.       *)
FairSpec ==
  /\ Spec
  /\ WF_vars(WriteOut) /\ WF_vars(Consume) /\ WF_vars(Mirror)
  /\ WF_vars(Escalate) /\ WF_vars(Kill) /\ WF_vars(Closing)
  /\ WF_vars(obs.pc # "none" /\ Observer)

-----------------------------------------------------------------------------
(* What the files say of the run now.                                      *)
Recorded == restoreSnapshot(ownerIsLive, log, mirror, snapshot)

EventsAfterTerminal == ~Reduces(log)

(* A later session that restores a run as succeeded does not contradict    *)
(* its owner: whatever failed the run after its run.completed (the mirror, *)
(* the lease or a late acknowledgement) shows in the files the restore     *)
(* reads.  Only a failed write of snapshot.json itself, whose error is     *)
(* kept in memory, is invisible to it.                                     *)
SuccessIsConfirmed ==
  own.pc = "done" /\ Recorded.status = "succeeded" =>
    own.state.status = "succeeded" \/ own.state.class = "persistence"

(* The converse: a run its owner reported as succeeded is restored as      *)
(* succeeded by every later session, where the mirror loses no line and    *)
(* the runtime wrote no event after run.completed.                         *)
SuccessIsRestored ==
  /\ own.pc = "done" /\ own.state.status = "succeeded"
  /\ "mirror" \notin Faults /\ ~EventsAfterTerminal
  => Recorded.status = "succeeded"

(* "Never report cancelled before ownership or process state confirms it": *)
(* neither the owner nor an observer shows a run as cancelled while its    *)
(* runtime may go on, that is before the process is gone or has journaled  *)
(* run.cancelled.                                                          *)
CancelledIsConfirmed ==
  \A s \in {own.state, obs.state} :
    s.status = "cancelled" =>
      machine = "gone" \/ \E i \in DOMAIN log : log[i].kind = "cancelled"

(* A cancellation or a fatal error ends the run although nothing makes the *)
(* runtime heed the control: the escalation to the process group, the      *)
(* drain of stdout and the steps of #closed all happen.                    *)
CancelOrFailureEnds ==
  (own.cancel \/ own.fatal) ~> own.pc \in {"done", "dead"}

(* An attached observer settles once the owner has finished or died: no    *)
(* order of its four reads against the owner's last writes leaves it       *)
(* watching a run that nobody owns.                                        *)
ObserverSettles ==
  (own.pc \in {"done", "dead"} /\ obs.pc # "none") ~> obs.pc = "settled"

(* ext-pi/README.md: "a dead owner leaves the run `orphaned`"; a malformed *)
(* run is what corrupt-store is for.                                       *)
DeadOwnerIsNotCorruption ==
  own.pc = "dead" /\ machine = "gone" /\ snapshot = Absent /\ ~EventsAfterTerminal =>
    Recorded # Corrupt

(* Both reducers throw on a post-terminal event; the runtime writes none.  *)
NoEventAfterTerminal == ~EventsAfterTerminal

(* The owner and every later session tell the same story of a success.     *)
OneStory == TypeOK /\ SuccessIsConfirmed /\ SuccessIsRestored
=============================================================================
