------------------------------ MODULE LocalRuns ------------------------------
(***************************************************************************)
(* The local runs of the Pi extension: the commands of ext-pi/src/index.ts *)
(* that launch, fork and control a run, prepareLaunch of launch.ts, and    *)
(* RunSupervisor.restore with its retention (supervisor.ts).               *)
(*                                                                         *)
(* Several Pi sessions share one state directory.  A session restores and  *)
(* prunes it when it starts, one directory at a time, while the others     *)
(* launch runs, fork a run they know, and answer dialogs whose choices     *)
(* were read before the dialog opened.  A session may stall or die.  Runs  *)
(* are numbered in the order of their createdAt.                           *)
(***************************************************************************)
EXTENDS Naturals, FiniteSets, FiniteSetsExt

CONSTANTS
  Sessions,     \* the Pi sessions
  Callers,      \* who gives commands: pairs of a session and "human" or "model"
  Existing,     \* the runs already on disk
  Slots,        \* a bound on the runs ever created
  MaxRuns,      \* AGENT_CAT_MAX_RUNS; 0 disables the count
  MaxRestores,  \* a bound on the session starts
  MaxCommands,  \* a bound on the commands given
  MaxMoves      \* a bound on the steps of the runtimes and the stalls

Runs == 1 .. Slots
NoSession == "nobody"

ASSUME LocalRunsAssumption ==
  /\ Callers \subseteq Sessions \X {"human", "model"} /\ NoSession \notin Sessions
  /\ {Existing, Slots, MaxRuns, MaxRestores, MaxCommands, MaxMoves} \subseteq Nat /\ Existing <= Slots

VARIABLES
  managerRoot,  \* the state directory is a manager root or lies beneath one
  interactive,  \* the project is trusted and the session has a UI
  disk,         \* the run directories: "absent", "bare" (no manifest) or "kept"
  parent,       \* parentRunId of a manifest, 0 for none
  old,          \* the runs created before the cutoff of the retention
  ended,        \* the runs whose journal holds a terminal event
  live,         \* the occurrence a control is for: its state, and how often it moved
  owner,        \* the session that holds the OwnedRun
  stalled,      \* the sessions whose event loop has not run for ten seconds
  behind,       \* the runs whose mirror lacks events of the journal
  known,        \* what supervisor.get of a session returns
  scan,         \* restore of a session
  cmd,          \* the command of a caller
  left,         \* the directories whose session died before the manifest
  created,      \* the directories made so far
  moves, restores, commands

diskVars == <<disk, parent, left, created>>
runVars == <<ended, live, owner, stalled, behind, moves>>
vars == <<managerRoot, interactive, diskVars, old, runVars, known, scan, cmd, commands, restores>>

Rest == [pc |-> "idle", todo |-> {}, records |-> {}, remove |-> {}]
NoCommand == [pc |-> "none", op |-> "none", run |-> 0, seen |-> 0, id |-> 0]

Launches == {"start", "lineage"}
Controls == {"steer", "recover", "redirect", "cancel"}
TerminalStates == {"ended", "orphaned", "corrupt"}

TypeOK ==
  /\ managerRoot \in BOOLEAN /\ interactive \in BOOLEAN
  /\ disk \in [Runs -> {"absent", "bare", "kept"}] /\ parent \in [Runs -> 0 .. Slots]
  /\ (old \cup ended \cup behind \cup left) \subseteq Runs /\ stalled \subseteq Sessions
  /\ live \in [Runs -> [n : Nat, state : {"running", "recovering"}]]
  /\ owner \in [Runs -> Sessions \cup {NoSession}]
  /\ known \in [Sessions -> [Runs -> {"none", "own", "running"} \cup TerminalStates]]
  /\ \A s \in Sessions : scan[s].pc \in {"idle", "reading", "removing", "dead"}
  /\ \A c \in Callers : /\ cmd[c].pc \in {"none", "dialog", "approved", "checked", "writing", "prepared", "sent"}
                        /\ cmd[c].pc \in {"writing", "prepared"} => disk[cmd[c].id] # "absent"

Init ==
  /\ managerRoot \in BOOLEAN /\ interactive \in BOOLEAN
  /\ disk = [i \in Runs |-> IF i <= Existing THEN "kept" ELSE "absent"]
  /\ parent = [i \in Runs |-> 0]
  /\ old \in SUBSET ({1} \cap (1 .. Existing))
  /\ ended \in SUBSET (1 .. Existing)
  /\ live = [i \in Runs |-> [n |-> 0, state |-> "running"]]
  /\ owner = [i \in Runs |-> NoSession]
  /\ stalled = {} /\ behind = {}
  /\ known = [s \in Sessions |-> [i \in Runs |-> "none"]]
  /\ scan = [s \in Sessions |-> Rest] /\ cmd = [c \in Callers |-> NoCommand]
  /\ left = {} /\ created = Existing /\ moves = 0 /\ restores = 0 /\ commands = 0

(* The event loop of a session runs.                                       *)
Active(s) == scan[s].pc # "dead" /\ s \notin stalled

-----------------------------------------------------------------------------
(* The runtimes and their owners.                                          *)

(* The runtime of a run journals an event: the attempt fails into a        *)
(* recovery or the next attempt begins.  An owner that stalls mirrors      *)
(* nothing.                                                                *)
RuntimeMoves(i) ==
  /\ moves < MaxMoves /\ owner[i] # NoSession /\ i \notin ended
  /\ \E state \in {"running", "recovering"} :
       live' = [live EXCEPT ![i] = [n |-> @.n + 1, state |-> state]]
  /\ behind' = IF owner[i] \in stalled THEN behind \cup {i} ELSE behind
  /\ moves' = moves + 1
  /\ UNCHANGED <<managerRoot, interactive, diskVars, old, ended, owner, stalled, known, scan, cmd, commands, restores>>

(* A run reaches its terminal event.                                       *)
RunEnds(i) ==
  /\ owner[i] \in Sessions \ stalled
  /\ ended' = ended \cup {i}
  /\ owner' = [owner EXCEPT ![i] = NoSession]
  /\ UNCHANGED <<managerRoot, interactive, diskVars, old, live, stalled, behind, moves, known, scan, cmd, commands, restores>>

(* The event loop of the owner is blocked or suspended for more than ten   *)
(* seconds, and comes back.                                                *)
Stall(s) ==
  /\ moves < MaxMoves /\ Active(s) /\ \E i \in Runs : owner[i] = s
  /\ stalled' = stalled \cup {s} /\ moves' = moves + 1
  /\ UNCHANGED <<managerRoot, interactive, diskVars, old, ended, live, owner, behind, known, scan, cmd, commands, restores>>

Wake(s) ==
  /\ s \in stalled
  /\ stalled' = stalled \ {s}
  /\ behind' = {i \in behind : owner[i] # s}
  /\ UNCHANGED <<managerRoot, interactive, diskVars, old, ended, live, owner, moves, known, scan, cmd, commands, restores>>

(* A session dies; the runtime may have journalled more than was mirrored. *)
Crash(s) ==
  /\ scan[s].pc # "dead" /\ restores > 0
  /\ stalled' = stalled \ {s}
  /\ scan' = [scan EXCEPT ![s] = [Rest EXCEPT !.pc = "dead"]]
  /\ cmd' = [c \in Callers |-> IF c[1] = s THEN NoCommand ELSE cmd[c]]
  /\ left' = left \cup {i \in Runs : disk[i] = "bare" /\ \E c \in Callers : c[1] = s /\ cmd[c].id = i}
  /\ LET owned == {i \in Runs : owner[i] = s} IN
       /\ owner' = [i \in Runs |-> IF i \in owned THEN NoSession ELSE owner[i]]
       /\ \E torn \in SUBSET owned : behind' = behind \cup torn
  /\ UNCHANGED <<managerRoot, interactive, disk, parent, created, old, ended, live, moves, known, commands, restores>>

(* session_shutdown: shutdown cancels every owned run and waits for its    *)
(* end; the commands of the session end with it.                           *)
Shutdown(s) ==
  /\ Active(s) /\ scan[s].pc = "idle" /\ \A c \in Callers : c[1] = s => cmd[c].pc \in {"none", "dialog"}
  /\ restores > 0
  /\ scan' = [scan EXCEPT ![s] = [Rest EXCEPT !.pc = "dead"]]
  /\ cmd' = [c \in Callers |-> IF c[1] = s THEN NoCommand ELSE cmd[c]]
  /\ LET owned == {i \in Runs : owner[i] = s} IN
       /\ ended' = ended \cup owned
       /\ owner' = [i \in Runs |-> IF i \in owned THEN NoSession ELSE owner[i]]
  /\ UNCHANGED <<managerRoot, interactive, diskVars, old, live, stalled, behind, moves, known, commands, restores>>

(* Time passes the cutoff of a run.                                        *)
Age(i) ==
  /\ disk[i] = "bare" /\ i \in left /\ i \notin old
  /\ old' = old \cup {i}
  /\ UNCHANGED <<managerRoot, interactive, diskVars, runVars, known, scan, cmd, commands, restores>>

-----------------------------------------------------------------------------
(* Restore and retention.                                                  *)

(* ownerIsLive and restoreSnapshot: without a fresh heartbeat the two      *)
(* journals must be equal, and a run that is not terminal is orphaned.     *)
restoreSnapshot(i) ==
  IF i \in ended THEN "ended"
  ELSE IF owner[i] \in Sessions \ stalled THEN "running"
  ELSE IF i \in behind THEN "corrupt"
  ELSE "orphaned"

(* session_start: the root-role check, then the listing of the directory.  *)
SessionStart(s) ==
  /\ Active(s) /\ scan[s].pc = "idle" /\ restores < MaxRestores
  /\ restores' = restores + 1
  /\ IF managerRoot THEN UNCHANGED scan
     ELSE scan' = [scan EXCEPT ![s] = [Rest EXCEPT !.pc = "reading",
                                       !.todo = {i \in Runs : disk[i] # "absent"}]]
  /\ UNCHANGED <<managerRoot, interactive, diskVars, old, runVars, known, cmd, commands>>

(* One directory: an incomplete one is removed once it is old, a manifest  *)
(* gives a record.                                                         *)
Read(s) ==
  /\ Active(s) /\ scan[s].pc = "reading"
  /\ \E i \in scan[s].todo :
       /\ scan' = [scan EXCEPT ![s].todo = @ \ {i},
            ![s].records = IF disk[i] # "kept" THEN @
              ELSE @ \cup {[id |-> i, parent |-> parent[i], state |-> restoreSnapshot(i)]}]
       /\ disk' = IF disk[i] = "bare" /\ i \in old THEN [disk EXCEPT ![i] = "absent"] ELSE disk
  /\ UNCHANGED <<managerRoot, interactive, parent, left, created, old, runVars, known, cmd, commands, restores>>

protectedParents(records) == {r.parent : r \in records}

isPrunable(r, records) ==
  /\ r.state \in TerminalStates \ {"orphaned"}
  /\ r.id \notin protectedParents(records)

(* Mutant: the loop counts the runs it already removed among those left.   *)
RemovalsUncounted(records) ==
  LET prunable == {r.id : r \in {x \in records : isPrunable(x, records)}}
  IN  (prunable \cap old) \cup {i \in prunable : Cardinality({j \in prunable : j < i}) + MaxRuns + 1 < Cardinality(prunable)}

(* The removals: what is older than the cutoff, then the oldest until at   *)
(* most MaxRuns are left.                                                  *)
Removals(records) ==
  LET prunable == {r.id : r \in {x \in records : isPrunable(x, records)}}
      aged == prunable \cap old
      rest == prunable \ aged
      excess == Cardinality(records) - Cardinality(aged)
      older(i) == Cardinality({j \in rest : j < i})
  IN  aged \cup (IF MaxRuns = 0 THEN {}
                 ELSE {i \in rest : excess - older(i) > MaxRuns})

Decide(s) ==
  /\ Active(s) /\ scan[s].pc = "reading" /\ scan[s].todo = {}
  /\ scan' = [scan EXCEPT ![s].pc = "removing", ![s].todo = {r.id : r \in scan[s].records},
                          ![s].remove = Removals(scan[s].records)]
  /\ UNCHANGED <<managerRoot, interactive, diskVars, old, runVars, known, cmd, commands, restores>>

(* Mutant: the restored record replaces the handle the session has.        *)
SettleReplaces(s) ==
  /\ Active(s) /\ scan[s].pc = "removing" /\ scan[s].todo # {}
  /\ LET i == Min(scan[s].todo)
         r == CHOOSE x \in scan[s].records : x.id = i
     IN  /\ scan' = [scan EXCEPT ![s].todo = @ \ {i}]
         /\ IF i \in scan[s].remove
            THEN disk' = [disk EXCEPT ![i] = "absent"] /\ UNCHANGED known
            ELSE known' = [known EXCEPT ![s][i] = r.state] /\ UNCHANGED disk
  /\ UNCHANGED <<managerRoot, interactive, parent, left, created, old, runVars, cmd, commands, restores>>

(* The last loop, oldest record first: remove the directory, or keep the   *)
(* run in the history.                                                     *)
Settle(s) ==
  /\ Active(s) /\ scan[s].pc = "removing" /\ scan[s].todo # {}
  /\ LET i == Min(scan[s].todo)
         r == CHOOSE x \in scan[s].records : x.id = i
     IN  /\ scan' = [scan EXCEPT ![s].todo = @ \ {i}]
         /\ IF i \in scan[s].remove
            THEN disk' = [disk EXCEPT ![i] = "absent"] /\ UNCHANGED known
            ELSE /\ known' = IF known[s][i] = "none" THEN [known EXCEPT ![s][i] = r.state] ELSE known
                 /\ UNCHANGED disk
  /\ UNCHANGED <<managerRoot, interactive, parent, left, created, old, runVars, cmd, commands, restores>>

Restored(s) ==
  /\ Active(s) /\ scan[s].pc = "removing" /\ scan[s].todo = {}
  /\ scan' = [scan EXCEPT ![s] = Rest]
  /\ UNCHANGED <<managerRoot, interactive, diskVars, old, runVars, known, cmd, commands, restores>>

(* #refresh of a RestoredRun that was live when it was restored.           *)
Refresh(s, i) ==
  /\ Active(s) /\ known[s][i] = "running" /\ disk[i] = "kept"
  /\ restoreSnapshot(i) # "running"
  /\ known' = [known EXCEPT ![s][i] = restoreSnapshot(i)]
  /\ UNCHANGED <<managerRoot, interactive, diskVars, old, runVars, scan, cmd, commands, restores>>

-----------------------------------------------------------------------------
(* The commands: launch, lineage and controls.                             *)

Idle(c) == cmd' = [cmd EXCEPT ![c] = NoCommand]
Move(c, pc) == cmd' = [cmd EXCEPT ![c].pc = pc]

Given(command, c) ==
  /\ commands < MaxCommands /\ commands' = commands + 1
  /\ cmd' = [cmd EXCEPT ![c] = command]

terminal(s, i) ==
  IF known[s][i] = "own" THEN i \in ended ELSE known[s][i] \in TerminalStates

Ready(c) == cmd[c].pc = "none" /\ interactive /\ Active(c[1])

Begins(c, op, i, pc) ==
  Given([NoCommand EXCEPT !.op = op, !.run = i, !.pc = pc, !.seen = IF i = 0 THEN 0 ELSE live[i].n], c)

(* /wf, /wf-launch, and start of the model's tool: the checks before the   *)
(* dialogs.                                                                *)
BeginWf(c)     == c[2] = "human" /\ Begins(c, "start", 0, "dialog")
BeginLaunch(c) == c[2] = "human" /\ Begins(c, "start", 0, "dialog")
BeginStart(c)  == c[2] = "model" /\ Begins(c, "start", 0, "dialog")

(* launchLineage: the parent is known to the session and terminal.         *)
BeginLineage(c) == \E i \in Runs : terminal(c[1], i) /\ Begins(c, "lineage", i, "dialog")

(* What a control needs of the occurrence, at the choice and at the send:  *)
(* the attempt chosen must still run, the occurrence must still wait.      *)
steerable(i, n)  == live[i] = [n |-> n, state |-> "running"]
recoverable(i)   == live[i].state = "recovering"
redirectable(i)  == live[i].state = "running"

Fits(op, i, n) ==
  /\ i \notin ended
  /\ op = "steer" => steerable(i, n)
  /\ op = "recover" => recoverable(i)
  /\ op = "redirect" => redirectable(i)

(* The choice of a control from the snapshot of an OwnedRun (a RestoredRun *)
(* refuses each of them).  A person's redirect names everything on its     *)
(* line and opens no dialog.                                               *)
BeginSteer(c, i)    == steerable(i, live[i].n) /\ Begins(c, "steer", i, "dialog")
BeginRecover(c, i)  == recoverable(i) /\ Begins(c, "recover", i, "dialog")
BeginRedirect(c, i) == Begins(c, "redirect", i, "approved")
BeginCancel(c, i)   == Begins(c, "cancel", i, "dialog")

(* The controls of the model's tool name an occurrence and an attempt it   *)
(* saw; the human confirms them.                                           *)
BeginToolControl(c, i) == \E op \in Controls : Begins(c, op, i, "dialog")

Begin(c) ==
  /\ Ready(c)
  /\ \/ /\ scan[c[1]].pc = "idle" /\ restores > 0
        /\ BeginWf(c) \/ BeginLaunch(c) \/ BeginStart(c) \/ BeginLineage(c)
     \/ \E i \in Runs :
          /\ known[c[1]][i] = "own"
          /\ \/ c[2] = "human" /\ i \notin ended /\ (BeginSteer(c, i) \/ BeginRecover(c, i))
             \/ c[2] = "human" /\ (BeginRedirect(c, i) \/ BeginCancel(c, i))
             \/ c[2] = "model" /\ BeginToolControl(c, i)
  /\ UNCHANGED <<managerRoot, interactive, diskVars, old, runVars, known, scan, restores>>

Approve(c) ==
  /\ Active(c[1]) /\ cmd[c].pc = "dialog" /\ Move(c, "approved")
  /\ UNCHANGED <<managerRoot, interactive, diskVars, old, runVars, known, scan, commands, restores>>

Decline(c) ==
  /\ Active(c[1]) /\ cmd[c].pc = "dialog" /\ Idle(c)
  /\ UNCHANGED <<managerRoot, interactive, diskVars, old, runVars, known, scan, commands, restores>>

(* Mutant: the choice made before the dialog is sent as it is.             *)
SendStale(c) ==
  /\ Active(c[1]) /\ cmd[c].pc = "approved" /\ cmd[c].op \in Controls
  /\ Move(c, "sent")
  /\ UNCHANGED <<managerRoot, interactive, diskVars, old, runVars, known, scan, commands, restores>>

(* steer, recover, redirect and cancel of the handle: the OwnedRun checks  *)
(* its own snapshot again, writes the control, and waits for the           *)
(* acknowledgement or the timeout.                                         *)
Send(c) ==
  /\ Active(c[1]) /\ cmd[c].pc = "approved" /\ cmd[c].op \in Controls
  /\ IF Fits(cmd[c].op, cmd[c].run, cmd[c].seen) THEN Move(c, "sent") ELSE Idle(c)
  /\ UNCHANGED <<managerRoot, interactive, diskVars, old, runVars, known, scan, commands, restores>>

Acknowledged(c) ==
  /\ Active(c[1]) /\ cmd[c].pc = "sent"
  /\ Idle(c)
  /\ live' = IF cmd[c].op = "recover" /\ Fits("recover", cmd[c].run, 0)
             THEN [live EXCEPT ![cmd[c].run] = [n |-> @.n + 1, state |-> "running"]] ELSE live
  /\ UNCHANGED <<managerRoot, interactive, diskVars, old, ended, owner, stalled, behind, moves, known, scan, commands, restores>>

(* preflightLineage: the parent store is resolved and checked; a missing   *)
(* one refuses.                                                            *)
Preflight(c) ==
  /\ Active(c[1]) /\ cmd[c].pc = "approved" /\ cmd[c].op = "lineage"
  /\ IF disk[cmd[c].run] = "kept" THEN Move(c, "checked") ELSE Idle(c)
  /\ UNCHANGED <<managerRoot, interactive, diskVars, old, runVars, known, scan, commands, restores>>

(* prepareLaunch up to its first await on the new directory: the parent is *)
(* resolved again, and the directory is made.                              *)
Create(c) ==
  /\ Active(c[1]) /\ cmd[c].pc = (IF cmd[c].op = "lineage" THEN "checked" ELSE "approved") /\ cmd[c].op \in Launches
  /\ IF cmd[c].op = "lineage" /\ disk[cmd[c].run] # "kept"
     THEN Idle(c) /\ UNCHANGED <<disk, created>>
     ELSE /\ created < Slots /\ created' = created + 1
          /\ disk' = [disk EXCEPT ![created + 1] = "bare"]
          /\ cmd' = [cmd EXCEPT ![c].pc = "writing", ![c].id = created + 1]
  /\ UNCHANGED <<managerRoot, interactive, parent, left, old, runVars, known, scan, commands, restores>>

(* The plan, the manifest and its rename; any failure removes the          *)
(* directory again.                                                        *)
Commit(c) ==
  /\ Active(c[1]) /\ cmd[c].pc = "writing"
  /\ disk' = [disk EXCEPT ![cmd[c].id] = "kept"]
  /\ parent' = [parent EXCEPT ![cmd[c].id] = cmd[c].run]
  /\ Move(c, "prepared")
  /\ UNCHANGED <<managerRoot, interactive, left, created, old, runVars, known, scan, commands, restores>>

Undo(c) ==
  /\ Active(c[1]) /\ cmd[c].pc = "writing"
  /\ disk' = [disk EXCEPT ![cmd[c].id] = "absent"]
  /\ Idle(c)
  /\ UNCHANGED <<managerRoot, interactive, parent, left, created, old, runVars, known, scan, commands, restores>>

(* supervise: the supervisor starts the runtime and its heartbeat.         *)
supervise(c) ==
  /\ Active(c[1]) /\ cmd[c].pc = "prepared"
  /\ owner' = [owner EXCEPT ![cmd[c].id] = c[1]]
  /\ known' = [known EXCEPT ![c[1]][cmd[c].id] = "own"]
  /\ Idle(c)
  /\ UNCHANGED <<managerRoot, interactive, diskVars, old, ended, live, stalled, behind, moves, scan, commands, restores>>

-----------------------------------------------------------------------------
Restoring(s) == Read(s) \/ Decide(s) \/ Settle(s) \/ Restored(s)
Launching(c) == Preflight(c) \/ Create(c) \/ Commit(c) \/ Undo(c) \/ supervise(c) \/ Send(c) \/ Acknowledged(c)

Next ==
  \/ \E i \in Runs : RuntimeMoves(i) \/ RunEnds(i) \/ Age(i)
  \/ \E s \in Sessions : \/ Stall(s) \/ Wake(s) \/ Crash(s) \/ Shutdown(s) \/ SessionStart(s)
                         \/ Restoring(s) \/ \E i \in Runs : Refresh(s, i)
  \/ \E c \in Callers : Begin(c) \/ Approve(c) \/ Decline(c) \/ Launching(c)

Spec == Init /\ [][Next]_vars

-----------------------------------------------------------------------------
(* Retention keeps within its limit and takes the oldest: of the runs a    *)
(* restore leaves, at most MaxRuns are left or none of them may be         *)
(* removed, and none that may be removed is older than one it removes for  *)
(* the count.                                                              *)
LimitKept ==
  \A s \in Sessions : scan[s].pc = "removing" =>
    LET kept == {r \in scan[s].records : r.id \notin scan[s].remove}
        spare == {r \in kept : isPrunable(r, scan[s].records)}
    IN  /\ MaxRuns > 0 => Cardinality(kept) <= MaxRuns \/ spare = {}
        /\ \A i \in scan[s].remove \ old, r \in spare : i < r.id

(* A directory without a manifest belongs to a launch that is under way,   *)
(* or its session died: a launch that fails or is refused leaves nothing.  *)
NoStrayDirectory ==
  \A i \in Runs : disk[i] = "bare" => i \in left \/ \E c \in Callers : cmd[c].pc = "writing" /\ cmd[c].id = i

(* The state root holds what it should: retention keeps its limit, and     *)
(* failed launches leave nothing.                                          *)
RootInOrder == TypeOK /\ LimitKept /\ NoStrayDirectory

(* A session that restores again keeps the handle, and with it the control *)
(* channel, of each run it owns.                                           *)
OwnerKeepsHandle ==
  \A i \in Runs : owner[i] \in Sessions => known[owner[i]][i] = "own"

(* A control is written only by the owner of a run that has not ended, and *)
(* a steering only to the very attempt that was chosen before the dialog.  *)
ControlIsCurrent ==
  [][\A c \in Callers : cmd[c].pc # "sent" /\ cmd'[c].pc = "sent" =>
       /\ owner[cmd[c].run] = c[1] /\ cmd[c].run \notin ended
       /\ cmd[c].op = "steer" => live[cmd[c].run] = [n |-> cmd[c].seen, state |-> "running"]]_vars

(* ext-pi/README.md: "Retention never prunes an orphaned run or an         *)
(* immutable parent that retained lineage references."                     *)
RetentionKeeps ==
  [][\A i \in Runs : disk[i] = "kept" /\ disk'[i] = "absent" =>
       i \in ended /\ \A j \in Runs : disk[j] = "kept" => parent[j] # i]_vars
=============================================================================
