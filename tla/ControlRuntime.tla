--------------------------- MODULE ControlRuntime ---------------------------
(***************************************************************************)
(* Live control of a run: runtime/src/Agentic/Runtime/Control.hs, the      *)
(* receiver of Runtime/Machine.hs and the attempts of Exec.hs.             *)
(*                                                                         *)
(* One receiver thread reads controls one at a time: it decides under the  *)
(* state lock, emits that acknowledgement, delivers to a gate, emits the   *)
(* effect event and the terminal acknowledgement, and then runs what the   *)
(* delivery deferred.  Every occurrence has a thread of its own that opens *)
(* and closes the gates: the pre-dispatch redirect window, the steering    *)
(* and the route of an attempt in flight, a recovery choice, and a person  *)
(* answer.  Deciding and delivering are separate critical sections, so an  *)
(* occurrence may move on in between.                                      *)
(***************************************************************************)
EXTENDS Naturals, Sequences, FiniteSets

CONSTANTS
  Setups,         \* what is under control, see Setup
  Targets,
  None            \* no control, no target, no attempt

(* The occurrences of a run, those that are effects, those a person        *)
(* answers through a control, the fail-over chain of each, the controls    *)
(* that may be sent ([id, kind, occ, att, arg]; two may share an id), and  *)
(* two bounds: the attempts of one occurrence and the controls received.   *)
ASSUME SetupsAssumption ==
  /\ None \notin Targets
  /\ \A s \in Setups :
       /\ s.effects \subseteq s.occ /\ s.persons \subseteq s.occ \ s.effects
       /\ s.chain \in [s.occ -> Seq(Targets)] /\ \A o \in s.occ : s.chain[o] # << >>
       /\ s.maxAttempts \in Nat /\ s.maxReceived \in Nat
       /\ None \notin s.controls
       /\ \A c \in s.controls : c.kind \in {"cancel", "steer", "recover", "redirect", "answer"}

VARIABLES
  setup,                  \* the member of Setups this run is
  pc, cand, att,          \* each occurrence's thread, remaining chain, attempts so far
  out,                    \* how its last turn ended
  got,                    \* the control it has taken from a gate
  windowOpen, windowCell,   \* liveRedirects and reservedRedirects
  active, steerers,         \* activeAttempts (and their locks), liveSteerers
  routeOpen, rerouteCell,   \* liveRoutes and liveReroutes
  recoveryQueue, recoveryCell, offered, round,
                            \* recoverableOccurrences, liveRetries, recoveryOptions
  personQueue, personCell,  \* answerablePersonOccurrences, livePersonAnswers
  nonReplayable,            \* liveNonReplayable
  acks,                     \* liveAcks
  rx,                       \* the receiver: [pc, control, action, gate]
  steerLock,                \* the attempt whose steering lock the receiver holds
  received, cancelled,
  released,                 \* controls whose deferred action has run
  steered, ended,           \* attempt.steered and attempt ends emitted
  ackOut,                   \* controls whose terminal acknowledgement was emitted
  deliveries,               \* how often each control id was delivered
  rerouted,                 \* controls delivered to an attempt in flight
  applied,                  \* controls an occurrence has acted upon
  promised,                 \* the choice of a redirect for the next attempt, see Promise
  replayable                \* occurrences whose answer was stored as replayable

threadVars == <<pc, cand, att, out, got>>
gateVars   == <<windowOpen, windowCell, active, steerers, routeOpen, rerouteCell,
                recoveryQueue, recoveryCell, offered, round, personQueue, personCell>>
rxVars     == <<acks, rx, steerLock, received, cancelled, released>>
history    == <<steered, ended, ackOut, deliveries, rerouted, applied, promised, replayable>>
vars == <<setup, threadVars, gateVars, rxVars, history, nonReplayable>>

Occ      == setup.occ
Effects  == setup.effects
Persons  == setup.persons
Chain    == setup.chain
Controls == setup.controls
MaxAttempts == setup.maxAttempts
MaxReceived == setup.maxReceived

Ids      == {c.id : c \in Controls}
Attempts == Occ \X (1..MaxAttempts)
Cell     == Controls \cup {None}
Elems(s) == {s[i] : i \in DOMAIN s}
First(s, x) == CHOOSE i \in DOMAIN s : s[i] = x /\ \A j \in 1..(i - 1) : s[j] # x
RemoveAt(s, i) == SubSeq(s, 1, i - 1) \o SubSeq(s, i + 1, Len(s))
AttemptOf(o)  == <<o, att[o]>>
AckStates == {"none", "accepted", "delivered", "stale", "unsupported", "failed"}
Idle == [pc |-> "idle", control |-> None, action |-> "none", gate |-> 0]

(* preferTarget: the first entry of the target, before all the others.     *)
Prefer(t, s) == IF t \in Elems(s) THEN <<t>> \o RemoveAt(s, First(s, t)) ELSE s

(* The filter of a queue, which holds an occurrence at most once (TypeOK). *)
Without(s, x) == IF x \in Elems(s) THEN RemoveAt(s, First(s, x)) ELSE s
Once(s) == \A i, j \in DOMAIN s : s[i] = s[j] => i = j

(* A choice of the next candidate, and the candidate it stopped.           *)
Promise(to, stopped) == [to |-> to, stopped |-> stopped]

TypeOK ==
  /\ setup \in Setups
  /\ pc \in [Occ -> {"window", "closing", "windowed", "dispatch", "registered", "asking",
                     "person", "gotPerson", "leavePerson", "returned", "routeClosed",
                     "steerClosed", "ended", "recovering", "recovered", "done"}]
  /\ cand \in [Occ -> Seq(Targets)] /\ att \in [Occ -> 0..MaxAttempts]
  /\ out \in [Occ -> {"none", "answer", "gap", "rerouted", "cancelled"}]
  /\ got \in [Occ -> Cell] /\ windowCell \in [Occ -> Cell] /\ rerouteCell \in [Occ -> Cell]
  /\ recoveryCell \in [Occ -> Cell] /\ personCell \in [Occ -> Cell]
  /\ windowOpen \subseteq Occ /\ routeOpen \subseteq Occ
  /\ active \subseteq Attempts /\ steerers \subseteq active
  /\ recoveryQueue \in Seq(Occ) /\ Once(recoveryQueue)
  /\ personQueue \in Seq(Persons) /\ Once(personQueue)
  /\ acks \in [Ids -> AckStates]
  /\ steerLock \in Attempts \cup {None}
  /\ nonReplayable \subseteq Occ /\ steered \subseteq Attempts /\ ended \subseteq Attempts

Init ==
  /\ setup \in Setups
  /\ pc = [o \in Occ |-> IF Len(Chain[o]) > 1 THEN "window" ELSE "dispatch"]
  /\ cand = Chain /\ att = [o \in Occ |-> 0] /\ out = [o \in Occ |-> "none"]
  /\ got = [o \in Occ |-> None]
  /\ windowOpen = {o \in Occ : Len(Chain[o]) > 1}
  /\ windowCell = [o \in Occ |-> None]
  /\ active = {} /\ steerers = {} /\ routeOpen = {}
  /\ rerouteCell = [o \in Occ |-> None]
  /\ recoveryQueue = << >> /\ recoveryCell = [o \in Occ |-> None]
  /\ offered = [o \in Occ |-> {}] /\ round = [o \in Occ |-> 0]
  /\ personQueue = << >> /\ personCell = [o \in Occ |-> None]
  /\ nonReplayable = {} /\ acks = [i \in Ids |-> "none"] /\ rx = Idle /\ steerLock = None
  /\ received = 0 /\ cancelled = FALSE /\ released = {}
  /\ steered = {} /\ ended = {} /\ ackOut = {} /\ deliveries = [i \in Ids |-> 0]
  /\ rerouted = {} /\ applied = {} /\ promised = [o \in Occ |-> None] /\ replayable = {}

Goto(o, l) == pc' = [pc EXCEPT ![o] = l]

-----------------------------------------------------------------------------
(* awaitRuntimeRedirect: a bounded window before the first attempt.        *)

WindowTake(o) ==
  /\ pc[o] = "window" /\ windowCell[o] # None
  /\ got' = [got EXCEPT ![o] = windowCell[o]]
  /\ windowCell' = [windowCell EXCEPT ![o] = None]
  /\ Goto(o, "closing")
  /\ UNCHANGED <<setup, cand, att, out, windowOpen, active, steerers, routeOpen, rerouteCell, recoveryQueue,
       recoveryCell, offered, round, personQueue, personCell, rxVars, history, nonReplayable>>

(* The timeout fires; its exception may also reach the thread after        *)
(* takeMVar emptied the cell and before timeout returned what it took.     *)
WindowTimeout(o) ==
  /\ pc[o] = "window"
  /\ windowCell' \in {windowCell, [windowCell EXCEPT ![o] = None]}
  /\ Goto(o, "closing")
  /\ UNCHANGED <<setup, cand, att, out, got, windowOpen, active, steerers, routeOpen, rerouteCell,
       recoveryQueue, recoveryCell, offered, round, personQueue, personCell, rxVars, history,
       nonReplayable>>

(* Closing under the state lock also takes a delivery that landed late.    *)
CloseWindow(o) ==
  /\ pc[o] = "closing"
  /\ LET taken == IF got[o] # None THEN got[o] ELSE windowCell[o] IN
       /\ got' = [got EXCEPT ![o] = taken]
       /\ Goto(o, IF taken = None THEN "dispatch" ELSE "windowed")
  /\ windowOpen' = windowOpen \ {o}
  /\ windowCell' = [windowCell EXCEPT ![o] = None]
  /\ UNCHANGED <<setup, cand, att, out, active, steerers, routeOpen, rerouteCell, recoveryQueue,
       recoveryCell, offered, round, personQueue, personCell, rxVars, history, nonReplayable>>

(* Mutant: the occurrence dispatches without waiting for the events.       *)
ApplyWindowEarly(o) ==
  /\ pc[o] = "windowed"
  /\ cand' = [cand EXCEPT ![o] = Prefer(got[o].arg, cand[o])]
  /\ promised' = [promised EXCEPT ![o] = Promise(got[o].arg, None)]
  /\ applied' = applied \cup {got[o]}
  /\ got' = [got EXCEPT ![o] = None]
  /\ Goto(o, "dispatch")
  /\ UNCHANGED <<setup, att, out, gateVars, rxVars, nonReplayable,
                 steered, ended, ackOut, deliveries, rerouted, replayable>>

(* The occurrence waits for the events of the redirect, then dispatches.   *)
ApplyWindow(o) ==
  /\ pc[o] = "windowed" /\ got[o].id \in released
  /\ cand' = [cand EXCEPT ![o] = Prefer(got[o].arg, cand[o])]
  /\ promised' = [promised EXCEPT ![o] = Promise(got[o].arg, None)]
  /\ applied' = applied \cup {got[o]}
  /\ got' = [got EXCEPT ![o] = None]
  /\ Goto(o, "dispatch")
  /\ UNCHANGED <<setup, att, out, gateVars, rxVars, nonReplayable,
                 steered, ended, ackOut, deliveries, rerouted, replayable>>

-----------------------------------------------------------------------------
(* withPhysicalAttempt.                                                    *)

(* The chain is exhausted, the bound reached or the run cancelled.         *)
GiveUp(o) ==
  /\ pc[o] = "dispatch"
  /\ cand[o] = << >> \/ att[o] = MaxAttempts \/ cancelled
  /\ Goto(o, "done")
  /\ UNCHANGED <<setup, cand, att, out, got, gateVars, rxVars, history, nonReplayable>>

(* registerControlAttempt, for the next candidate of the chain.            *)
Register(o) ==
  /\ pc[o] = "dispatch" /\ o \notin Persons
  /\ cand[o] # << >> /\ att[o] < MaxAttempts /\ ~cancelled
  /\ att' = [att EXCEPT ![o] = @ + 1]
  /\ active' = active \cup {AttemptOf(o)'}
  /\ steerers' = steerers \cup {AttemptOf(o)'}
  /\ promised' = [promised EXCEPT ![o] = None]
  /\ Goto(o, "registered")
  /\ UNCHANGED <<setup, cand, out, got, windowOpen, windowCell, routeOpen, rerouteCell, recoveryQueue,
       recoveryCell, offered, round, personQueue, personCell, rxVars, nonReplayable,
       steered, ended, ackOut, deliveries, rerouted, applied, replayable>>

(* openAttemptRoute and attempt.started.                                   *)
OpenRoute(o) ==
  /\ pc[o] = "registered"
  /\ routeOpen' = routeOpen \cup {o}
  /\ rerouteCell' = [rerouteCell EXCEPT ![o] = None]
  /\ Goto(o, "asking")
  /\ UNCHANGED <<setup, cand, att, out, got, windowOpen, windowCell, active, steerers, recoveryQueue,
       recoveryCell, offered, round, personQueue, personCell, rxVars, history, nonReplayable>>

(* The engine turn answers or leaves a gap, or the watcher of the route    *)
(* stops it for a delivered redirect (which stays in the gate).            *)
TurnEnds(o) ==
  /\ pc[o] = "asking"
  /\ \E r \in {"answer", "gap"} \cup (IF rerouteCell[o] # None THEN {"rerouted"} ELSE {})
            \cup (IF cancelled THEN {"cancelled"} ELSE {}) :
       out' = [out EXCEPT ![o] = r]
  /\ Goto(o, "returned")
  /\ UNCHANGED <<setup, cand, att, got, gateVars, rxVars, history, nonReplayable>>

(* A person question has no physical attempt: its thread registers the     *)
(* answer gate and waits (answerPerson, waitForRuntimePersonAnswer).       *)
AskPerson(o) ==
  /\ pc[o] = "dispatch" /\ o \in Persons /\ ~cancelled
  /\ personQueue' = Append(personQueue, o)
  /\ Goto(o, "person")
  /\ UNCHANGED <<setup, cand, att, out, got, windowOpen, windowCell, active, steerers, routeOpen,
       rerouteCell, recoveryQueue, recoveryCell, offered, round, personCell, rxVars, history,
       nonReplayable>>

TakePerson(o) ==
  /\ pc[o] = "person" /\ personCell[o] # None
  /\ got' = [got EXCEPT ![o] = personCell[o]]
  /\ personCell' = [personCell EXCEPT ![o] = None]
  /\ Goto(o, "gotPerson")
  /\ UNCHANGED <<setup, cand, att, out, windowOpen, windowCell, active, steerers, routeOpen, rerouteCell,
       recoveryQueue, recoveryCell, offered, round, personQueue, rxVars, history, nonReplayable>>

(* The answer counts once its acknowledgement is out; a cancel interrupts  *)
(* either wait.                                                            *)
AwaitPersonAck(o) ==
  /\ \/ /\ pc[o] = "gotPerson" /\ got[o].id \in released
        /\ out' = [out EXCEPT ![o] = "answer"]
        /\ applied' = applied \cup {got[o]}
     \/ /\ pc[o] \in {"person", "gotPerson"} /\ cancelled
        /\ out' = [out EXCEPT ![o] = "cancelled"]
        /\ UNCHANGED applied
  /\ got' = [got EXCEPT ![o] = None]
  /\ Goto(o, "leavePerson")
  /\ UNCHANGED <<setup, cand, att, gateVars, rxVars, nonReplayable,
                 steered, ended, ackOut, deliveries, rerouted, promised, replayable>>

(* The finally of waitForRuntimePersonAnswer; an answer is then stored.    *)
LeavePerson(o) ==
  /\ pc[o] = "leavePerson"
  /\ personQueue' = Without(personQueue, o)
  /\ personCell' = [personCell EXCEPT ![o] = None]
  /\ replayable' = IF out[o] = "answer" THEN replayable \cup {o} ELSE replayable
  /\ Goto(o, "done")
  /\ UNCHANGED <<setup, cand, att, out, got, windowOpen, windowCell, active, steerers, routeOpen,
       rerouteCell, recoveryQueue, recoveryCell, offered, round, rxVars, nonReplayable,
       steered, ended, ackOut, deliveries, rerouted, applied, promised>>

(* Mutant: the route is closed without looking into its gate again.        *)
CloseRouteBlind(o) ==
  /\ pc[o] = "returned"
  /\ got' = [got EXCEPT ![o] = IF out[o] = "rerouted" THEN rerouteCell[o] ELSE None]
  /\ rerouteCell' = [rerouteCell EXCEPT ![o] = None]
  /\ routeOpen' = routeOpen \ {o}
  /\ Goto(o, "routeClosed")
  /\ UNCHANGED <<setup, cand, att, out, windowOpen, windowCell, active, steerers, recoveryQueue,
       recoveryCell, offered, round, personQueue, personCell, rxVars, history, nonReplayable>>

(* closeAttemptRoute takes a redirect delivered before the close.          *)
CloseRoute(o) ==
  /\ pc[o] = "returned"
  /\ got' = [got EXCEPT ![o] = rerouteCell[o]]
  /\ rerouteCell' = [rerouteCell EXCEPT ![o] = None]
  /\ routeOpen' = routeOpen \ {o}
  /\ Goto(o, "routeClosed")
  /\ UNCHANGED <<setup, cand, att, out, windowOpen, windowCell, active, steerers, recoveryQueue,
       recoveryCell, offered, round, personQueue, personCell, rxVars, history, nonReplayable>>

(* Mutant: closing does not wait for a steer delivery in progress.         *)
CloseSteeringUnlocked(o) ==
  /\ pc[o] = "routeClosed"
  /\ steerers' = steerers \ {AttemptOf(o)}
  /\ Goto(o, "steerClosed")
  /\ UNCHANGED <<setup, cand, att, out, got, windowOpen, windowCell, active, routeOpen, rerouteCell,
       recoveryQueue, recoveryCell, offered, round, personQueue, personCell, rxVars, history,
       nonReplayable>>

(* closeAttemptSteering waits for a steer delivery in progress.            *)
CloseSteering(o) ==
  /\ pc[o] = "routeClosed" /\ steerLock # AttemptOf(o)
  /\ steerers' = steerers \ {AttemptOf(o)}
  /\ Goto(o, "steerClosed")
  /\ UNCHANGED <<setup, cand, att, out, got, windowOpen, windowCell, active, routeOpen, rerouteCell,
       recoveryQueue, recoveryCell, offered, round, personQueue, personCell, rxVars, history,
       nonReplayable>>

(* The end of the attempt: a cancel keeps its meaning, a delivered         *)
(* redirect waits for its events, and the stopped candidate counts         *)
(* against the chain.                                                      *)
EndAttempt(o) ==
  /\ pc[o] = "steerClosed"
  /\ \/ /\ out[o] = "cancelled" \/ got[o] = None
        /\ UNCHANGED <<cand, out, applied, promised>>
     \/ /\ out[o] # "cancelled" /\ got[o] # None /\ got[o].id \in released
        /\ out' = [out EXCEPT ![o] = "rerouted"]
        /\ cand' = [cand EXCEPT ![o] = Prefer(got[o].arg, Tail(cand[o]))]
        /\ promised' = [promised EXCEPT ![o] = Promise(got[o].arg, Head(cand[o]))]
        /\ applied' = applied \cup {got[o]}
  /\ ended' = ended \cup {AttemptOf(o)}
  /\ got' = [got EXCEPT ![o] = None]
  /\ Goto(o, "ended")
  /\ UNCHANGED <<setup, att, gateVars, rxVars, nonReplayable, steered, ackOut, deliveries, rerouted, replayable>>

(* unregisterControlAttempt; then the answer is stored (replayable unless  *)
(* the occurrence was steered), the redirected chain is walked, or a gap   *)
(* is asked again within its budget or waits for a recovery choice         *)
(* (waitForRuntimeRecovery).                                               *)
Unregister(o) ==
  /\ pc[o] = "ended"
  /\ active' = active \ {AttemptOf(o)}
  /\ CASE out[o] = "answer" ->
            /\ Goto(o, "done")
            /\ replayable' = IF o \in nonReplayable \cup Effects THEN replayable
                                                               ELSE replayable \cup {o}
            /\ UNCHANGED <<recoveryQueue, offered, round>>
       [] out[o] = "rerouted" ->
            Goto(o, "dispatch") /\ UNCHANGED <<replayable, recoveryQueue, offered, round>>
       [] out[o] = "cancelled" ->
            Goto(o, "done") /\ UNCHANGED <<replayable, recoveryQueue, offered, round>>
       [] out[o] = "gap" ->
         \/ /\ Goto(o, "dispatch")
            /\ UNCHANGED <<replayable, recoveryQueue, offered, round>>
         \/ /\ recoveryQueue' = Append(recoveryQueue, o)
            /\ offered' = [offered EXCEPT ![o] = {"retry", "abandon"} \cup
                             (IF Len(cand[o]) > 1 THEN {"failover"} ELSE {})]
            /\ round' = [round EXCEPT ![o] = @ + 1]
            /\ Goto(o, "recovering")
            /\ UNCHANGED replayable
  /\ UNCHANGED <<setup, cand, att, out, got, windowOpen, windowCell, steerers, routeOpen, rerouteCell,
       recoveryCell, personQueue, personCell, rxVars, nonReplayable,
       steered, ended, ackOut, deliveries, rerouted, applied, promised>>

TakeRecovery(o) ==
  /\ pc[o] = "recovering"
  /\ recoveryCell[o] # None \/ cancelled
  /\ got' = [got EXCEPT ![o] = recoveryCell[o]]
  /\ applied' = IF recoveryCell[o] = None THEN applied ELSE applied \cup {recoveryCell[o]}
  /\ recoveryCell' = [recoveryCell EXCEPT ![o] = None]
  /\ Goto(o, "recovered")
  /\ UNCHANGED <<setup, cand, att, out, windowOpen, windowCell, active, steerers, routeOpen, rerouteCell,
       recoveryQueue, offered, round, personQueue, personCell, rxVars, nonReplayable,
       steered, ended, ackOut, deliveries, rerouted, promised, replayable>>

(* The finally of waitForRuntimeRecovery, and the choice.                  *)
LeaveRecovery(o) ==
  /\ pc[o] = "recovered"
  /\ recoveryQueue' = Without(recoveryQueue, o)
  /\ offered' = [offered EXCEPT ![o] = {}]
  /\ recoveryCell' = [recoveryCell EXCEPT ![o] = None]
  /\ got' = [got EXCEPT ![o] = None]
  /\ IF got[o] = None \/ (got[o] # None /\ got[o].arg = "abandon")
       THEN Goto(o, "done") /\ UNCHANGED cand
       ELSE /\ Goto(o, "dispatch")
            /\ cand' = IF got[o].arg = "retry" THEN cand
                                               ELSE [cand EXCEPT ![o] = Tail(@)]
  /\ UNCHANGED <<setup, att, out, windowOpen, windowCell, active, steerers, routeOpen, rerouteCell, round,
       personQueue, personCell, rxVars, history, nonReplayable>>

(* A cancelled occurrence leaves its redirect window.                      *)
LeaveWindow(o) ==
  /\ cancelled /\ pc[o] \in {"window", "closing", "windowed"}
  /\ windowOpen' = windowOpen \ {o}
  /\ windowCell' = [windowCell EXCEPT ![o] = None]
  /\ got' = [got EXCEPT ![o] = None]
  /\ Goto(o, "done")
  /\ UNCHANGED <<setup, cand, att, out, active, steerers, routeOpen, rerouteCell, recoveryQueue,
       recoveryCell, offered, round, personQueue, personCell, rxVars, history, nonReplayable>>

Thread(o) ==
  \/ WindowTake(o) \/ WindowTimeout(o) \/ CloseWindow(o) \/ ApplyWindow(o) \/ LeaveWindow(o)
  \/ GiveUp(o) \/ Register(o) \/ OpenRoute(o) \/ TurnEnds(o)
  \/ AskPerson(o) \/ TakePerson(o) \/ AwaitPersonAck(o) \/ LeavePerson(o)
  \/ CloseRoute(o) \/ CloseSteering(o) \/ EndAttempt(o) \/ Unregister(o)
  \/ TakeRecovery(o) \/ LeaveRecovery(o)

-----------------------------------------------------------------------------
(* The receiver.                                                           *)

HeadIs(q, o) == q # << >> /\ Head(q) = o

(* decideControl: the acknowledgement and the action it leads to.          *)
Decide(c) ==
  LET o == c.occ
      a == <<c.occ, c.att>>
      Ack(s, act) == [ack |-> s, action |-> act]
  IN CASE c.kind = "cancel" -> Ack("accepted", IF cancelled THEN "none" ELSE "cancel")
       [] c.kind = "steer" ->
            IF a \notin active THEN Ack("stale", "none")
            ELSE IF a \in steerers THEN Ack("accepted", "steer")
            ELSE Ack("unsupported", "none")
       [] c.kind = "recover" ->
            IF HeadIs(recoveryQueue, o) /\ c.arg \in offered[o]
              THEN Ack("accepted", "recover") ELSE Ack("stale", "none")
       [] c.kind = "redirect" ->
            IF \E n \in 1..MaxAttempts : <<o, n>> \in active
              THEN IF /\ o \in routeOpen \ Effects
                      /\ c.arg \in Elems(Tail(cand[o])) \ {Head(cand[o])}
                     THEN Ack("accepted", "reroute") ELSE Ack("stale", "none")
            ELSE IF o \in windowOpen /\ c.arg \in Elems(Chain[o])
              THEN Ack("accepted", "redirect") ELSE Ack("stale", "none")
       [] c.kind = "answer" ->
            IF HeadIs(personQueue, o) THEN Ack("accepted", "answer") ELSE Ack("stale", "none")

(* Mutant: an id that was acknowledged before is decided again.            *)
ReceiveAgain(c) ==
  /\ rx.pc = "idle" /\ received < MaxReceived
  /\ received' = received + 1
  /\ LET d == Decide(c) IN
       /\ acks' = [acks EXCEPT ![c.id] = d.ack]
       /\ cancelled' = (cancelled \/ d.action = "cancel")
       /\ rx' = CASE d.action = "none"   -> rx
                  [] d.action = "cancel" -> [rx EXCEPT !.pc = "stopped"]
                  [] OTHER -> [pc |-> "decided", control |-> c, action |-> d.action, gate |-> 0]
  /\ UNCHANGED <<setup, threadVars, gateVars, history, nonReplayable, steerLock, released>>

(* One control frame: a known id gets its cached acknowledgement.          *)
Receive(c) ==
  /\ rx.pc = "idle" /\ received < MaxReceived
  /\ received' = received + 1
  /\ IF acks[c.id] # "none"
       THEN UNCHANGED <<acks, rx, cancelled>>
       ELSE LET d == Decide(c) IN
         /\ acks' = [acks EXCEPT ![c.id] = d.ack]
         /\ cancelled' = (cancelled \/ d.action = "cancel")
         /\ rx' = CASE d.action = "none"   -> rx
                    [] d.action = "cancel" -> [rx EXCEPT !.pc = "stopped"]
                    [] OTHER -> [pc |-> "decided", control |-> c, action |-> d.action, gate |-> 0]
  /\ UNCHANGED <<setup, threadVars, gateVars, history, nonReplayable, steerLock, released>>

(* recordAck, and the next place of the receiver.                          *)
Delivered(s) ==
  LET i == rx.control.id IN
  /\ acks' = [acks EXCEPT ![i] = s]
  /\ deliveries' = IF s = "delivered" THEN [deliveries EXCEPT ![i] = @ + 1] ELSE deliveries
  /\ rx' = [rx EXCEPT !.pc = "delivered"]

(* Mutant: a steered occurrence stays replayable.                          *)
DeliverSteerReplayable ==
  /\ rx.pc = "decided" /\ rx.action = "steer"
  /\ LET a == <<rx.control.occ, rx.control.att>> IN
       IF a \notin active
         THEN Delivered("unsupported") /\ UNCHANGED steerLock
         ELSE /\ steerLock' = a
              /\ IF a \notin steerers THEN Delivered("unsupported")
                                      ELSE Delivered("failed") \/ Delivered("delivered")
  /\ UNCHANGED <<setup, threadVars, gateVars, nonReplayable, received, cancelled, released,
                 steered, ended, ackOut, rerouted, applied, promised, replayable>>

(* ActSteer: the attempt's lock is held until the events are out.          *)
DeliverSteer ==
  /\ rx.pc = "decided" /\ rx.action = "steer"
  /\ LET a == <<rx.control.occ, rx.control.att>> IN
       IF a \notin active
         THEN Delivered("unsupported") /\ UNCHANGED <<steerLock, nonReplayable>>
         ELSE /\ steerLock' = a
              /\ IF a \notin steerers
                   THEN Delivered("unsupported") /\ UNCHANGED nonReplayable
                   ELSE \/ Delivered("failed") /\ UNCHANGED nonReplayable
                        \/ /\ Delivered("delivered")
                           /\ nonReplayable' = nonReplayable \cup {a[1]}
  /\ UNCHANGED <<setup, threadVars, gateVars, received, cancelled, released,
                 steered, ended, ackOut, rerouted, applied, promised, replayable>>

(* ActRedirect and ActReroute: lookup and put under the state lock.        *)
DeliverRedirect ==
  /\ rx.pc = "decided" /\ rx.action = "redirect"
  /\ LET o == rx.control.occ IN
       IF o \notin windowOpen THEN Delivered("stale") /\ UNCHANGED windowCell
       ELSE IF windowCell[o] # None THEN Delivered("failed") /\ UNCHANGED windowCell
       ELSE /\ windowCell' = [windowCell EXCEPT ![o] = rx.control]
            /\ Delivered("delivered")
  /\ UNCHANGED <<setup, threadVars, windowOpen, active, steerers, routeOpen, rerouteCell, recoveryQueue,
       recoveryCell, offered, round, personQueue, personCell, nonReplayable, steerLock, received,
       cancelled, released, steered, ended, ackOut, rerouted, applied, promised, replayable>>

DeliverReroute ==
  /\ rx.pc = "decided" /\ rx.action = "reroute"
  /\ LET o == rx.control.occ IN
       IF o \notin routeOpen THEN Delivered("stale") /\ UNCHANGED <<rerouteCell, rerouted>>
       ELSE IF rerouteCell[o] # None THEN Delivered("failed") /\ UNCHANGED <<rerouteCell, rerouted>>
       ELSE /\ rerouteCell' = [rerouteCell EXCEPT ![o] = rx.control]
            /\ rerouted' = rerouted \cup {rx.control}
            /\ Delivered("delivered")
  /\ UNCHANGED <<setup, threadVars, windowOpen, windowCell, active, steerers, routeOpen, recoveryQueue,
       recoveryCell, offered, round, personQueue, personCell, nonReplayable, steerLock, received,
       cancelled, released, steered, ended, ackOut, applied, promised, replayable>>

(* ActRecover and ActAnswerPerson look their gate up in one critical       *)
(* section and put outside it.                                             *)
LookUpGate ==
  /\ rx.pc = "decided" /\ rx.action \in {"recover", "answer"}
  /\ LET o == rx.control.occ
         q == IF rx.action = "recover" THEN recoveryQueue ELSE personQueue IN
       IF o \notin Elems(q)
         THEN Delivered("stale")
       ELSE IF rx.action = "answer" /\ rx.control.arg = "invalid"
         THEN Delivered("failed")
         ELSE /\ rx' = [rx EXCEPT !.pc = "holding", !.gate = round[o]]
              /\ UNCHANGED <<acks, deliveries>>
  /\ UNCHANGED <<setup, threadVars, gateVars, nonReplayable, steerLock, received, cancelled, released,
                 steered, ended, ackOut, rerouted, applied, promised, replayable>>

(* tryPutMVar: the gate held may have been left behind by its occurrence.  *)
PutRecovery ==
  /\ rx.pc = "holding" /\ rx.action = "recover"
  /\ LET o == rx.control.occ IN
       IF o \notin Elems(recoveryQueue) \/ round[o] # rx.gate
         THEN Delivered("delivered") /\ UNCHANGED recoveryCell
       ELSE IF recoveryCell[o] # None THEN Delivered("failed") /\ UNCHANGED recoveryCell
       ELSE /\ recoveryCell' = [recoveryCell EXCEPT ![o] = rx.control]
            /\ Delivered("delivered")
  /\ UNCHANGED <<setup, threadVars, windowOpen, windowCell, active, steerers, routeOpen, rerouteCell,
       recoveryQueue, offered, round, personQueue, personCell, nonReplayable, steerLock, received,
       cancelled, released, steered, ended, ackOut, rerouted, applied, promised, replayable>>

PutAnswer ==
  /\ rx.pc = "holding" /\ rx.action = "answer"
  /\ LET o == rx.control.occ IN
       IF o \notin Elems(personQueue) THEN Delivered("delivered") /\ UNCHANGED personCell
       ELSE IF personCell[o] # None THEN Delivered("failed") /\ UNCHANGED personCell
       ELSE /\ personCell' = [personCell EXCEPT ![o] = rx.control]
            /\ Delivered("delivered")
  /\ UNCHANGED <<setup, threadVars, windowOpen, windowCell, active, steerers, routeOpen, rerouteCell,
       recoveryQueue, recoveryCell, offered, round, personQueue, nonReplayable, steerLock, received,
       cancelled, released, steered, ended, ackOut, rerouted, applied, promised, replayable>>

(* The effect event and the terminal acknowledgement.                      *)
EmitAck ==
  /\ rx.pc = "delivered"
  /\ steered' = IF rx.action = "steer" /\ acks[rx.control.id] = "delivered"
                  THEN steered \cup {<<rx.control.occ, rx.control.att>>} ELSE steered
  /\ ackOut' = ackOut \cup {rx.control.id}
  /\ rx' = [rx EXCEPT !.pc = "acked"]
  /\ UNCHANGED <<setup, threadVars, gateVars, nonReplayable, acks, steerLock, received, cancelled, released,
                 ended, deliveries, rerouted, applied, promised, replayable>>

(* Mutant: the steering lock is not given back.                            *)
AfterAckLocked ==
  /\ rx.pc = "acked"
  /\ released' = released \cup {rx.control.id}
  /\ rx' = Idle
  /\ UNCHANGED <<setup, threadVars, gateVars, history, nonReplayable, acks, steerLock, received, cancelled>>

AfterAck ==
  /\ rx.pc = "acked"
  /\ released' = released \cup {rx.control.id}
  /\ steerLock' = None
  /\ rx' = Idle
  /\ UNCHANGED <<setup, threadVars, gateVars, history, nonReplayable, acks, received, cancelled>>

Receiver == \/ \E c \in Controls : Receive(c)
            \/ DeliverSteer \/ DeliverRedirect \/ DeliverReroute
            \/ LookUpGate \/ PutRecovery \/ PutAnswer \/ EmitAck \/ AfterAck

Next == Receiver \/ \E o \in Occ : Thread(o)

Spec == Init /\ [][Next]_vars

(* Both kinds of thread run when they can; nobody is obliged to send a     *)
(* control, and a window that no redirect ends times out.                  *)
Delivering == /\ rx.pc # "idle" /\ Receiver
AnyOcc == UNION {s.occ : s \in Setups}
Fairness == WF_vars(Delivering) /\ \A o \in AnyOcc : WF_vars(o \in Occ /\ Thread(o))
FairSpec == Spec /\ Fairness

-----------------------------------------------------------------------------
(* Properties.                                                             *)

(* attempt.steered always precedes the end of its attempt, although the    *)
(* receiver emits one and the attempt the other.                           *)
SteeredBeforeEnd == [][(steered' \ steered) \cap ended = {}]_vars

(* An answer that a steer may have changed is never stored as replayable:  *)
(* the mark is set before the attempt can end and the store reads it.      *)
SteeredNotReplayable == \A a \in steered : a[1] \notin replayable

(* A person answer or redirect is acted upon only after its terminal       *)
(* acknowledgement is out.                                                 *)
AckBeforeAction == \A c \in applied : c.kind \in {"redirect", "answer"} => c.id \in ackOut

(* A control id is delivered at most once, however often it is sent.       *)
OneDeliveryPerId == \A i \in Ids : deliveries[i] <= 1

(* A redirect delivered to an attempt in flight is never lost: it is in    *)
(* the gate, in the hands of the attempt or applied, unless the run is     *)
(* cancelled.                                                              *)
NoLostReroute ==
  \A c \in rerouted : cancelled \/ c \in applied
                      \/ \E o \in Occ : c \in {rerouteCell[o], got[o]}

(* An occurrence whose turn has returned, or that has taken a redirect or  *)
(* an answer, is never stuck behind the receiver.                          *)
OccurrenceMovesOn ==
  \A o \in AnyOcc :
    (o \in Occ /\ pc[o] \in {"windowed", "gotPerson", "returned", "routeClosed", "steerClosed"})
      ~> (o \in Occ /\ pc[o] \in {"dispatch", "recovering", "done"})

(* After a redirect the next candidate is the chosen one, although the     *)
(* attempt that was to be redirected may be over before the delivery and   *)
(* the chain moved by an earlier redirect.  The one exception is a second  *)
(* redirect to the same target: its delivery goes to whatever attempt is   *)
(* in flight, and when that one already asks the target, it stops it and   *)
(* the chain goes on to the next candidate.                                *)
RerouteAsksTarget ==
  \A o \in Occ : pc[o] = "dispatch" /\ promised[o] # None =>
    \/ promised[o].to = promised[o].stopped
    \/ cand[o] # << >> /\ Head(cand[o]) = promised[o].to

(* Control.hs says of closing the redirect window: "a delivered redirect   *)
(* is never ignored".                                                      *)
RedirectNeverIgnored ==
  \A c \in Controls \ rerouted :
    c.kind = "redirect" /\ acks[c.id] = "delivered" =>
      cancelled \/ c \in applied \/ \E o \in Occ : c \in {windowCell[o], got[o]}

(* A redirect of an attempt in flight takes its course: it is not lost,    *)
(* and the next attempt asks the candidate it chose (RerouteAsksTarget).   *)
RerouteTakesEffect == TypeOK /\ NoLostReroute /\ RerouteAsksTarget
=============================================================================
