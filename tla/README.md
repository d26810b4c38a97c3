# agent-cat in TLA+

agent-cat runs typed workflows that ask models, tools and people. A workflow is a
plan; a runtime process executes the plan concurrently, journals what happens, and
takes controls while it runs; front ends (a Pi extension in TypeScript, a terminal
interface, a manager service) start, watch, steer, cancel and restore runs. This
directory models the parts whose correctness depends on concurrency, failure and
order, checks them with TLC on small instances and proves most of the safety
properties with TLAPS.

Paths below are relative to the root of the repository.

## 1. Inventory

| Component | State | Operations | Hard behaviour |
|---|---|---|---|
| Plan scheduler, `runtime/src/Agentic/Exec.hs` | workers, tickets, reservations, effect lane, transport lanes, memo table, spent models | traverse a plan, spawn, reserve, ask or reuse, fail over, reroute, cancel | four kinds of waits between workers; a failure must not be overtaken by an effect; single flight of equal questions |
| Live control, `Runtime/Control.hs`, `Runtime/Machine.hs` | active attempts, steerers and their locks, routes, redirect windows, recovery and person gates, acknowledgements | decide, deliver, acknowledge; open and close each gate | decision and delivery are two critical sections; timeouts; duplicate controls |
| Run store and lineage, `Runtime/Store.hs`, `cli/src/Agentic/Cli.hs` | answers, effect journal, checkpoint, manifest | store, journal, checkpoint; restart, resume, fork | crashes between two files; counts kept in memory; answers inherited over a lineage |
| Event sink and control input, `Runtime/Machine.hs`, `Cli.hs` | sequence number, journal, stdout | write an event, read a control, cancel | two copies of each event; reader and main thread race at the end of a run |
| Run supervisor, `ext-pi/src/supervisor.ts` | reduced snapshot, mirror queue, lease, waiters; the files of a run | start, consume, control, cancel, fail, close, restore, refresh | owner and child die anywhere; another session reads the files meanwhile |
| Reducer, `ext-pi/src/reducer.ts`, `Runtime/Snapshot.hs` | the snapshot of a run | reduce one event | lifecycle rules over long event sequences |
| Local commands, `ext-pi/src/index.ts`, `launch.ts`, `root-role.ts` | the handles of a session, the state root shared by sessions, the dialogs | launch, fork, steer, recover, redirect, cancel; restore and prune | choices read before a dialog and used after it; several sessions on one directory; a launch that fails half-way |
| Current-session bridge, `ext-pi/src/current-bridge.ts` | server, client socket, pending prompt, session id | accept, authenticate, new, prompt, steer, cancel, close | the turn of a run in the session of the user; sockets that die in mid-turn; shutdown |
| Manager client, `ext-pi/src/manager/session.ts`, `refresh.ts`, `service-mode.ts` | session, binding, cursor, watched and installed resources, flights and generation, catalogue names | select and switch an endpoint, read, watch, follow, resnapshot, close | stale answers, coalescing of invalidations during a read, a switch while reads and events are in flight |
| Event transport, `ext-pi/src/manager/transport.ts`, `events.ts` | cursor, parser state, failures in a row, preference | follow, drop the stream, poll, close | streams that break inside a chunk; two sources of events; which cursor to resume from |
| Manager commands, `ext-pi/src/manager-ui.ts`, `session.ts` | open dialog, drafts, command records | create, set, enqueue, approve, discard, withdraw, answer, recover, cancel, steer, lineage, export | lost responses; an effect that cannot be told from another client's; a switch under an open dialog |
| Manager service, `manager/src/Agentic/Manager/*.hs` | SQLite store, admission slots, workers, leases, event positions | admit, command, run, quarantine, page | idempotent commands, capacity, crash of the service between a run and its record |
| Run flow log, `Runtime/Flow.hs`, `Runtime/Broker.hs` | append-only log of operations | carry, replay | order of record and operation |
| Terminal front end, `tui/src` | request lane, run model, process | request, render | lane to the manager |
| Engines, `engine/acp`, `engine/agent-deck` | sessions, turns, permission requests | turn, steer, stop | ACP turn protocol |
| Language, plans, cost, Lean model | none at run time | pure functions | not concurrent |

How they interact. The scheduler emits events through the event sink, asks the
control runtime before and during each attempt (`awaitRuntimeRedirect`,
`registerControlAttempt`, `openAttemptRoute`, ...), and calls the persistence hooks
of the store around each answer and effect. The event sink writes a line to
`runtime/events.ndjson` and then to stdout. The supervisor reads stdout, reduces it,
mirrors it to `live-events.ndjson`, keeps `owner.json` fresh, and writes controls to
the control pipe. Another session restores the run from those files. A child run
reads the store of its parent.

Properties that make each component correct: effects happen in plan order and never
after a failure; reuse never crosses an effect; a run always ends and leaves no
worker; a control is delivered once, its acknowledgement precedes its effect, and
nothing delivered is lost; an effect is never repeated by a resume or a fork; a later
session tells the same story of a run as its owner did; a client that stays connected
ends up showing the current state of what it watches and never shows one manager's
answer as another's; an event arrives once and in order whichever way it travels; a
command acts on what the human saw and is reported as what it became; a control goes
to the attempt that was chosen; the user gets the session back.

## 2. Modules

### PlanOrder and Scheduler

`PlanOrder` is the abstract promise of the interpreter: an occurrence *starts* only
when the occurrences that must precede it have *succeeded*; an effect is preceded by
everything before it, a question by the effects before it. `Scheduler` is the
concurrent interpreter and implements it (`running` are the workers past
`abortIfFailed`, `finished` those whose cell holds an answer).

| Model | Code |
|---|---|
| `Spawn`, `Reserved` | `execIn`, `spawn`, `reserveQuestion`, `reserveLane`, `readBehind`, `writeBehind` |
| `AwaitReservations`, `AbortIfFailed`, `AwaitPrompt` | the same names, `awaitExpr` |
| `Recall`, `Dispatch`, `Claim`, `AwaitOwner`, `Store`, `GiveUp` | `askOrMemo`, `claimQuestion` |
| `Walk`, `Answer`, `Gap`, `FailOver`, `Reroute` | `go`, `markSpent`, `nextLive`, `LiveRedirected` |
| `Finish` | the finalizer of `forkFinally`: one STM transaction |
| `Collect`, `AwaitFails`, `Cancel`, `Kill`, `Raise` | `awaitTicket`, `awaitCell`, `cancelWorkers` |

Abstractions. The path through `PCase` and `PDyn` is fixed with the plan: a plan here
is the sequence of ask nodes of one path, and `gate` names the answers the traversal
awaits before it reaches a node. One engine turn includes its own retries. Awaiting
the result of `PRet` is merged with collecting the tickets. A reservation is named by
the occurrence that completes it, so "wait for the previous tail of the lane" is "wait
for that occurrence to be done".

### ControlRuntime

One receiver, one thread per occurrence. The receiver decides (`Receive`, `Decide`),
delivers (`DeliverSteer`, `DeliverRedirect`, `DeliverReroute`, `LookUpGate` then
`PutRecovery` or `PutAnswer`), emits (`EmitAck`) and runs the deferred part
(`AfterAck`). An occurrence opens its redirect window, registers each attempt, opens
and closes its route and its steering, ends the attempt, and waits for a recovery
choice or for a person. Cells are the `MVar`s of `LiveControlState`; a gate looked up
in one critical section and filled in another may have been left behind by then
(`round` tells two recovery gates of one occurrence apart). The set of spent models
belongs to Scheduler and is not in this module.

### RunStore

A process executes a plan in the order of `PlanOrder`; answers, effect records and
the checkpoint are written under separate locks, and the counts of the checkpoint are
in memory in between. `Stop` is a crash, failure or cancellation anywhere. `Child`
launches a restart, resume or fork that `validateLineage` admits. Modelled: at most one
edit per fork, one live process at a time, crashes of the process (not of the
operating system: the atomic rename is atomic). Assumed: a parent is not live, as its
callers check; the launch fingerprint and policy match; equal questions are asked by
one owner (SingleFlight of Scheduler).

### Supervisor

Three processes over the files of a run: the runtime (`Journal` then `WriteOut` for
each event; the control reader beside the main thread), the owner (`Consume`,
`Mirror`, `Heartbeat`, `SendControl`, `Cancel`, `Escalate`, `Kill`, and `#closed` as
`Closed`, `Verify`, `Release`, `Truncate`, `Persist`), and an observer (`CheckOwner`,
`ReadJournal`, `ReadMirror`, `Conclude`). `restoreSnapshot` is the operator of the same
name. Left out: torn records (an append is atomic; a restore refuses a torn one, as
RunStore models for `effects.ndjson`), a cancellation before `run.started`, a final
acknowledgement that does not match its control, more than one steering control,
stderr. Retention, several sessions and a live owner with a stale heartbeat are in
LocalRuns.

### ManagerClient

One session of the manager client under `ServiceMode`, and the managers it talks to.
A manager is a log of changed resources; `Expire` makes old cursors answer 410.

| Model | Code |
|---|---|
| `InvalidateResource`, `CompleteFetch`, `AdvanceGeneration` | the functions of `refresh.ts` of the same names |
| `FetchStart`, `FetchEnd`, `Reread` | `#perform`, `#fetch`, `#complete` and its timer, on the read lane of `session.ts` |
| `Deliver`, `Resnapshot`, `Rebooted`, `FollowRefused`, `FollowMoves` | `#follow` and `#bootstrap` over `followEvents` |
| `Select`, `Load`, `Bind`, `Refuse`, `Started`, `Commit` | `ServiceMode.#select`, `ManagerSession.connect`, `start`, `switchEndpoint` |
| `Install`, `NameRead` | `ServiceMode.#install`, `#loadNames` |
| `Close` | `ServiceMode.close` |

Abstractions. What a read returns is the position of the manager's log at which it was
answered, anywhere between request and response. `followEvents` is in-order delivery
from the last delivered event, which is what EventDelivery says and EventFollow
implements. Resources do not lie below one another. The overview names one workflow. The
manager is external. Left out: the catalogue read that opening the history starts, the
user interface.

### EventDelivery and EventFollow

`EventDelivery` is what the session relies on: the visible events after its cursor are
delivered once, in the order of the log, without a gap, until the follow ends.
`EventFollow` is the loop that does it, and implements it with `over` as `end # "none"`.

| Model | Code |
|---|---|
| `Top`, `Fenced`, `Stop` | the head of the loop of `followEvents`, its checks of `#closed` |
| `Opened`, `OpenFails` | `#streamEvents` up to the response: its acceptance, its refusal, the comparison of `#drops` |
| `Chunk`, `BadChunk`, `StreamEnds`, `StreamBreaks` | the body of `#streamEvents`: `feedSse`, `decodeEventBlock` and the delivery of each item; a chunk that does not decode |
| `Reconnect`, `EndsCounted`, `FollowEnd`, `Wake`, `BackoffPasses` | `reconnectDelay` and the count of ends in a row, the wait, and `followEnd` |
| `PollBatch`, `PollFails`, `PollAgain` | `#pollUntil` |
| `DropStream`, `SetPreference`, `Close` | `dropStream`, the preference of the transport, `close` |
| `Publish`, `Forget` | the manager (external): a new event, hidden or visible; a cursor that expires or a view that changes |

A chunk hands over any prefix of what is pending; a block that was received but not
delivered does not move the cursor (`latest` and `lastId` are separate for that
reason). TLS, headers, keep-alive comments and JSON are abstracted: a chunk decodes or
does not.

### ManagerCommands

One user (or a model whose command a human confirms), one command at a time, against
the part of a manager the user works on (`world`: a question whose stored text can or
cannot be named, a recovery decision, a request on its way to a run, lineage, exports, a
live run).

| Model | Code |
|---|---|
| `Begin`, `Look`, `LookControls` | the entry of each command of `ManagerRequests`, its read and the page shown |
| `Confirm` with `ConfirmAnswer` ... `ConfirmRequest`, `Decline` | the dialogs, and what each sends |
| `ReadBasis` | the read before an operation whose effect is reconciled by a difference |
| `Transmit` | `prepare` with `If-Match`, the check of the binding, `send` |
| `Respond`, `GiveUp` | the answer of `send`; its timeout |
| `Reconcile`, `EffectVisible`, `Settle`, `Await`, `Reread` | `reconcileCommand` and `reconcile`, the record and the notice, the kept draft |
| `Arrive`, `Lost`, `Settles`, `Prepared`, `OtherActs` | the manager and other clients (external) |
| `Switch` | `switchEndpoint` under an open dialog |

`steer` stands for steer and redirect, `fork` for the three lineage operations, since
they share the code. A revision is a counter of each resource; a command takes effect
when its revision is still current. Texts are "what this user typed" and "anything
else". `took` and `fresh` are history: whether a command took effect, and on what was
shown.

### LocalRuns

Several Pi sessions on one state directory. `SessionStart`, `Read`, `Decide`, `Settle`
and `Restored` are `RunSupervisor.restore`: the directories are read one at a time,
retention decides on what was read and removes one directory after another. `Begin`,
`Approve`, `Decline` and `Send` are the control commands of a human and of the model
tool with the guards of `index.ts` and `OwnedRun`; `Preflight`, `Create`, `Commit`,
`Undo` and `supervise` are `preflightLineage`, `prepareLaunch`, its undo and the start
of the supervised run. `RuntimeMoves`, `RunEnds`, `Age`, `Stall`, `Wake`, `Crash` and
`Shutdown` are the environment. Runs are numbered in the order of `createdAt`; what a
restore concludes is `ended`, `orphaned`, `corrupt` or `running`, as `restoreSnapshot`
of Supervisor derives it.

### CurrentSession

The bridge that lets a run ask its questions in the session of the user. The actions
have the names of the handlers of `current-bridge.ts` (`start`, `accept`,
`authenticate`, `newSession`, `prompt`, `promptThrows`, `steer`, `cancel`, `turnEnds`,
`closed`, `close`, `closeEnds`); `LaunchChecked` and `Launched` are the two sides of
the `busy` check of a launch; Pi itself (`UserPrompts`, `UserTurnEnds`, the turn) and
the runner (`Ask`, `Interrupt`, `RunEnds`) are external. A message waits in the
`inbox` of its socket. Frames, tokens and contents are abstracted.

## 3. Runs

Bounds are in the `.cfg` files and the MC modules. Most modules choose their
instance in `Init` (the constant variables `plan`, `setup`, `program` and `world`), so
that one run covers several; the MC modules list the instances.

| Run | Module, configuration | Checks | Instances |
|---|---|---|---|
| `scheduler` | MCScheduler, Scheduler.cfg | type, effect order, lanes, reuse, single flight, no orphan workers; refinement of PlanOrder; the run ends, with fairness | four plans of three or four nodes: equal questions around an effect, questions between two effects sharing a lane, a branch, three equal questions |
| `control` | MCControlRuntime, Control.cfg | steering, acknowledgement before action, one delivery per id, a reroute takes effect; with fairness, no occurrence is stuck behind the receiver | a question with an alternate beside an effect, with all kinds of controls, and again with the effect steered and redirected (two controls received each); a person's question with valid and invalid answers, and a chain of three candidates with three redirects of its attempts (three received each). |
| `run_store` | MCRunStore, RunStore.cfg | a lineage stops at effects, person answers stay local, a completed run's checkpoint counts its answers | a branch on a person's answer (two runs), a person's answer and an effect (three runs), three questions of which two are concurrent (two runs) |
| `supervisor` | MCSupervisor, Supervisor.cfg | owner and later sessions tell one story, cancelled is confirmed; with fairness, cancel or failure ends the run and an observer settles | every write of the owner may fail; a reliable mirror with a longer stream; an observer attached to a run whose lease and artifact check may fail; an observer of a cancelled run |
| `manager_client` | MCManagerClient, ManagerClient.cfg | no invalidation is lost, bindings are separate, connected means following; a connected session becomes current, with fairness | one manager, two resources, two changes and a failure; two managers with a switch, one change and a failure; two managers with a switch and two changes |
| `event_follow` | EventFollow, EventFollow.cfg | type, in order once; refinement of EventDelivery; events keep arriving, with fairness | three events, batches of two, polling after two failed streams, one failed batch, two drops or changes of preference (415,000 states) |
| `manager_commands` | ManagerCommands, ManagerCommands.cfg | refused has no effect, acts on what was seen, a reported effect is real, the draft is kept; every command is reported, with fairness | all seven worlds, two commands, one change by another client, one switch (681,000 states) |
| `local_runs` | MCLocalRuns, LocalRuns.cfg | root in order, owner keeps its handle; a control is current | two sessions, a human and a model, two runs on disk and one more, a limit of one run, two session starts, two commands (1,950,000 states) |
| `current_session` | CurrentSession, CurrentSession.cfg | no turn for nobody; with fairness, prompts settle and the session returns | two runs of two prompts, one turn of the user (261,000 states) |

Some properties are conjunctions of named parts that are stated one by one in the
module: `RerouteTakesEffect` (a redirect in flight is not lost, and the next attempt
asks its target), `LineageStopsAtEffects` (effects are never replayed, inherited
answers precede every effect), `OneStory` (a success the owner shows is restored as
one, and the reverse), `BindingsAreSeparate` (no read in the name of another binding,
no leaked transport), `InOrderOnce` (no event twice, no gap, silence of a dropped
stream), `EventsKeepArriving` (every event arrives, the fallback ends),
`ReportedEffectIsReal` (an observed effect is ours while nobody else acts, a stored
answer stands), `RootInOrder` (retention keeps its limit, a failed launch leaves
nothing), `SessionReturns` (after the runs, and after a shutdown). Several of them
carry the type invariant of their module.

Why the bounds are enough: each hazard needs two or three actors. Two occurrences
before and one after an effect show every relation the reservations have; three equal
questions show an owner, a waiter and a late claim; two controls of any two kinds
received in any order show each pair of gate and receiver step; two runs and a
grandchild show every combination of answering modes; one ordinary event and one
terminal event, each split in its two writes, show every disagreement of journal and
mirror; two changes around one read, or one change around one switch, show every order
of invalidation, response and change of generation; three events and batches of two
show an event before, in and after each chunk and batch that fails; a command, a
change by somebody else and a second command show every order of what was seen, sent
and reconciled; a restoring session beside one that launches, with one run over the
limit, shows each order of reading, removing and forking; two runs show the client
that replaces another.

Deadlock is checked for Scheduler (a run that stops without returning or raising is an
error; `Stopped` is the only stuttering end). ControlRuntime, RunStore,
Supervisor, ManagerClient and the modules after it may really stop: every occurrence is
done, the last allowed run has ended, the run is closed, the session is closed or has
nothing to read, the commands or prompts of the instance are used up.

Every property of a passing run is broken by a mutant of the definition it depends on
(`PROJECT.json`, "mutants"); the mutants are the operators whose comment begins with
"Mutant" or that stand directly before the definition they alter.

### Runs that are violated

Some statements of the documentation, or of the code's own comments, do not hold. Three
have a run that shows it (`PROJECT.json`, "findings").

* `manager_names` (ManagerNames.cfg): the catalogue read that an endpoint switch
  overtakes is installed under the new binding.
* `manager_foreign` (ManagerForeign.cfg): the reference of a create, an approval, a
  discard or a capture is made after the dialog, so what was decided on the page of
  one manager is sent to the one to which the session was switched meanwhile.
* `retention` (Retention.cfg): retention removes an orphaned run that was restored as
  `corrupt-store`, and a parent whose child was prepared after the manifests were read.

Further divergences, each with a configuration that shows it:

* ControlIgnored.cfg of MCControlRuntime, `RedirectNeverIgnored`: a redirect
  acknowledged as delivered is dropped when the timeout's exception arrives after
  `takeMVar` emptied the cell.
* StoreInterrupted.cfg of MCRunStore, `InterruptedRunResumes`: a run that stopped
  between storing an answer and its checkpoint is refused as a parent of a resume.
* SupervisorOrphaned.cfg of MCSupervisor, `DeadOwnerIsNotCorruption`: a dead owner's run
  is shown as corrupt-store, not orphaned.
* SupervisorLate.cfg of MCSupervisor, `NoEventAfterTerminal`: an acknowledgement or
  `run.cancelled` follows `run.completed`.
* CurrentReserved.cfg of CurrentSession, `TurnIsReserved`: `#client` is set at
  authentication and a launch checks `busy` before its dialogs, so two runs may both get
  through, and a control of one reaches the turn of the other.
  `doc/research/pi-workflow-extension.md:810` asks to "reserve the current session for one
  workflow run at a time".

A corner of redirection. A redirect of an attempt in flight is looked up by occurrence
when it is delivered (`Control.hs:480-484`), so one that was decided for attempt 1 may
reach attempt 2. When attempt 2 already asks the target, because an earlier redirect chose
the same one, the delivery stops it and the chain goes on to the next candidate, contrary
to the comment at `Exec.hs:1404-1406` and to `runtime/BROKER.md:560-576`.
`RerouteAsksTarget` states this as its one exception.

Two windows are in the models without a property, because nothing in the repository
excludes them: the second answer of a person question, which is acknowledged and
dropped (`PutAnswer`), and an observer that restores between the removal of
`owner.json` and the write of `snapshot.json` (`Release`, `Truncate`).

## 4. Fairness

* Scheduler: the main thread and every worker that can take a step take one (GHC runs
  every runnable thread, STM waiters are woken), and an engine turn ends. Nothing
  obliges a fault or a cancellation to happen.
* ControlRuntime: the receiver finishes a control it has read, and the thread of each
  occurrence proceeds (its redirect window times out after 30 seconds). Nobody has to
  send a control.
* Supervisor: timers of the owner fire (5 seconds of `cancel`, 1 second of
  `#terminateFatalProcessGroup`), promises and stream callbacks run, the signals of the
  process group kill it, and an attached observer polls. Nothing makes a runtime emit
  an event, exit or heed a control.
* ManagerClient: requests are answered or time out, so the read lane, the follow loop
  and a selection take their next step, and timers fire. Nothing forces a change, a
  refusal, a selection or a close.
* EventFollow: the loop takes its next step (requests and waits are finite) and the
  backoff passes. Streams may fail without bound; polling fails finitely often (the
  bound), and a stream that is opened again and again with events pending hands one
  over at some time (`SF(Advance)`), as the manager writes pending events first.
* ManagerCommands: a command that was sent gets its response, its timeout or its
  reconciliation. A dialog may stay open for ever.
* LocalRuns: none; it has no liveness property.
* CurrentSession: the bridge handles its messages, a turn of the model ends, the
  server closes once its sockets have, and the proxy of a run that ended closes its
  socket. The user may do nothing for ever.

## 5. Proofs

Each proof module extends the module of its component and proves its theorems for
every value of the constants that satisfies the named assumption of that module. The
assumptions say what the constants are: a plan or a program is a finite sequence of
nodes, a setup names controls of the five kinds the receiver knows, bounds are natural
numbers, and the names for "nobody" (`None`, `NoSession`, the `"user"` of
CurrentSession) are not names of somebody. TLC evaluates them in the runs. Each theorem
has the form `Spec => []P` or, for action properties and refinements, `Spec => P`; all
rest on an inductive invariant, since hardly any of the properties is inductive by
itself. The invariants were model-checked before they were proved.

`ExtensionProofs` holds the proofs of two components that share no state, Supervisor and
CurrentSession. It extends both, which is why the top-level names of CurrentSession carry
a prefix (`SessionInit`, `SessionNext`, `SessionSpec`, `SessionFairSpec`).

| Module | Theorem: property | Inductive invariant |
|---|---|---|
| `SchedulerProofs` | `TypeCorrect`: `TypeOK`; `EffectOrder`: `EffectsFollowSuccess`; `RefinesPlanOrder`: `ImplementsPlanOrder`; `LaneOrder`: `OneTurnPerLane`; `SingleFlightHolds`: `SingleFlight`; `ReuseHolds`: `ReuseStaysInEpoch`; `NoOrphans`: `NoOrphanWorkers` | `OrderInv`, `LaneInv`, `MemoInv`, `MainInv` |
| `ControlRuntimeProofs` | `OnceHolds`: `OneDeliveryPerId`; `AckFirst`: `AckBeforeAction`; `SteeredIsNotStored`: `SteeredNotReplayable`; `SteerOrder`: `SteeredBeforeEnd`, of every step; `RedirectsTakeEffect`: `RerouteTakesEffect` | `ControlInv` |
| `RunStoreProofs` | `LineageHolds`: `LineageStopsAtEffects`; `PersonsAnswerLocally`: `PersonAnswersAreLocal`; `CheckpointsCount`: `CompletedRunCounts` | `StoreInv` |
| `ManagerClientProofs` | `InvalidationsAreKept`: `NoLostInvalidation`; `SwitchesSeparate`: `BindingsAreSeparate`; `ConnectionIsFollowed`: `ConnectedFollows` | `ClientInv` |
| `EventFollowProofs` | `TypeCorrect`: `TypeOK`; `DeliversInOrderOnce`: `InOrderOnce`; `RefinesDelivery`: `ImplementsDelivery` | `Inv` |
| `ManagerCommandsProofs` | `RefusalsHold`: `RefusedHasNoEffect`; `SeenIsWhatActs`: `ActsOnWhatWasSeen`; `ReportsAreReal`: `ReportedEffectIsReal`; `DraftsAreKept`: `DraftKept` | `CommandsInv` |
| `LocalRunsProofs` | `RootHolds`: `RootInOrder`; `HandlesAreKept`: `OwnerKeepsHandle`; `ControlsAreCurrent`: `ControlIsCurrent`, of every step | `RunsInv` |
| `ExtensionProofs` | of Supervisor, `OwnersAndSessionsAgree`: `OneStory`; `CancellationIsConfirmed`: `CancelledIsConfirmed` | `SupervisorInv` |
| `ExtensionProofs` | of CurrentSession, `TurnsAreWanted`: `NoTurnForNobody` | `BridgeInv` |

**Scheduler.** That a worker has passed `abortIfFailed` says nothing by itself about
the state of its predecessors; `OrderInv` adds what the reservations remember.
`SpawnedInv`: exactly the first `reached` nodes have been spawned. `TailInv`: the tail
of the effect lane is the last spawned effect, and `readsSince` holds the questions
after it. `WaitsInv`: the reservations of an effect cover the previous effect and every
question since, those of a question the last effect before it, so that by following
effect tails every predecessor is covered. `ReleasedInv`: a worker past its
reservations has only finished predecessors. `FailureInv`: a finished worker without an
answer means that the failure is recorded, which is what the single transaction of
`Finish` gives. `PastInv`: a worker past `abortIfFailed` saw no failure, hence
everything it waited for succeeded. The refinement uses it for `Start`; every other
step maps to `Succeed`, `Stop` or a stutter. `LaneInv` does the same for one transport
lane: its reservations form a chain through every node that shares the lane. `MemoInv`
relates the two tables of the memo, the slots and the labels of the workers: a pending
slot has exactly one owner that is on its way, a waiter waits for a slot of its own
question, and an answer in the table came from the epoch its key names. `MainInv` says
what the main thread knows when it collects, cancels and returns.

**ControlRuntime.** `ControlInv` relates each gate to the label of the thread that
opened it, and what the receiver has decided to what it may still find when it
delivers. `IdInv`: an id is decided once and delivered at most once after that.
`AckInv`: what is released has been acknowledged. `SteerInv`: a steer that was delivered
holds the lock of an attempt that has not ended and has marked its occurrence before
the answer can be stored. `RouteInv`: the target of a redirect is in the rest of the
chain when it is delivered, because only an earlier redirect moves the chain and it
takes its own target out. `PromiseInv` and `LostInv` follow a choice from the gate to
the next attempt.

**RunStore.** `StoreInv` follows an effect and an answer from the worker to the disk.
`JournalInv`: whatever was dispatched is in the journal of its run. `WorkerInv`:
everything that precedes a started worker has succeeded, so that an answer with an
epoch other than 0 is stored beside a journal that is not empty (`AnswerInv`); a parent
without effects has only answers from before every effect. `LineageInv`: runs are
numbered as they are launched and only the newest is live, so that a parent never gets a
new effect once it has a child. `FlightInv`: a question has one owner until its answer is
counted, so that storing replaces nothing. `CountInv`: the counts in memory trail
the stored answers by exactly the workers about to count, and as long as the checkpoint
lags, some worker that read, or will read, the current counts has still to write. This
is why the merge by the larger count is needed.

**ManagerClient.** `ClientInv` says who may still speak for the session. `LaneInv`: one
fetch of the current generation for each flight, none of a later one. `LoopInv`: a loop
at an earlier binding has lost its transport. `ToldInv`: a watched resource that no
fetch is in flight for was read after all that the loop has delivered, where `Told` is
how far that is, also for a loop that has yet to take up the current binding.

**EventFollow.** That no event was delivered twice says nothing about the next
delivery. `Inv` says exactly what was delivered: `UpTo(p)` states that the visible
events up to `p` were delivered once and no other at all, and `Delivered` that this `p`
is the last block parsed while there is a stream (`lastId`, behind `latest` only by
hidden events) and the cursor otherwise. `Chunk` and `PollBatch` move that point forward
over a segment of the log (`HandDelivers`), `Reconnect` resumes from it
(`ReconnectKeeps`), and every other step keeps it. `DroppedIsSilent` is part of it
because a stream that was dropped while it opened must not become the one that
delivers, and `end # "none" <=> pc = "ended"` makes the refinement's `End` the only step
that ends the delivery.

**ManagerCommands.** The core is `Current`: the entity tag that a dialog or a command
holds covers what was seen, since a resource changes what it shows only together with
its revision. `RecordInv` ties the records of the client to what the manager did;
`UntouchedInv` and `StoredInv` say that what a reconciliation looks for cannot appear or
go away while nobody else acts.

**LocalRuns.** `RunsInv` follows a directory from the launch that makes it to the
session that owns its run: until then nobody has a reason to remove it (`LaunchInv`,
`FreshInv`), afterwards the handle of its owner stays (`HandleInv`). That retention keeps
its limit is a count over the records of one restore (`RemovalsKeepLimit`): the kept
runs are the newest, so with the oldest of them the rest is bounded.

**Supervisor.** What the owner reports and what the files say are set by different
steps, so `OneStory` needs to know how the files came about. `StreamInv`: while the
owner lives and the mirror loses nothing, `live-events.ndjson`, its queue and the pipe
are consecutive stretches of the journal, all of it but the line being written, and a
success is the last line consumed. `ClosingInv`: how far `#closed` has come, what is
drained by then, that the artifact of a success was verified, and what `snapshot.json`
holds at each step. So when the owner is done with a success the mirror is the journal
up to `run.completed`, and the restore finds nothing to refuse (`RestoreSuccess`).
Conversely a restore says succeeded only if no snapshot contradicts the journal
(`RestoreVerdicts`), and an owner that is done without having written one reports a
persistence failure. For cancellation, `CancelLines` says that `run.cancelled` is in no
other file, queue or read copy before it is in the journal, and `CancelWords` that
`#closed`, which cancels a run on its own, runs only when the child is gone. The number
of events of the interpreter plays no part: the proof never expands the bound.

**CurrentSession.** `BridgeInv`: a pending prompt belongs to the turn in progress and to
a live socket, so only the close handler of that socket and the end of that turn can
take it away, and both see to the turn.

Only model-checked: the liveness properties; liveness under fairness is outside what the
prover handles. Every safety invariant and action property of a passing run is a theorem.
What the violated runs refute is of course not proved either.

### Not modelled

The manager service in Haskell (admission, commands, worker, store, events) enters only
as the environment of its client. The decoders of `manager/resources.ts`, the lists and
views of `manager-ui.ts` and `monitor.ts`, the catalogue and the configuration are pure
functions or presentation. The display state of `reducer.ts`, the run flow log, the
terminal front end and the engines are listed in `PROJECT.json` with the reason. The
workflow language, its plans and its cost are pure; plans are constants here.

## 6. Plan

Done: 1 Scheduler with PlanOrder and its proofs, 2 ControlRuntime, 3 RunStore,
4 Supervisor, 5 ManagerClient (session, refresh, service mode), 6 EventFollow with
EventDelivery and its proofs, 7 ManagerCommands, 8 LocalRuns with retention,
9 CurrentSession, and the proofs of all of them. Next, in this order:

10. `Admission`, `Commands`, `Worker`: the manager service (capacity, idempotency,
    quarantine, crash of the service), and an abstract specification of "each command
    takes effect at most once" that they and ManagerCommands implement.
11. `RunReducer`: the lifecycle rules of `reducer.ts` and `Snapshot.hs` over an abstract
    event stream; that every stream the scheduler and the receiver can emit is accepted
    (composition with ControlRuntime's events).
12. The ACP turn protocol of `engine/acp`.

## 7. Running

    tlc -workers 4 -config Scheduler.cfg MCScheduler
    tlc -workers 4 -config EventFollow.cfg EventFollow
    for m in Scheduler ControlRuntime RunStore ManagerClient EventFollow \
             ManagerCommands LocalRuns Extension; do tlapm ${m}Proofs.tla; done

The module of each configuration is in the table of section 3 and in `PROJECT.json`.
