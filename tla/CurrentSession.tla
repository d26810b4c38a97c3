--------------------------- MODULE CurrentSession ---------------------------
(***************************************************************************)
(* Workflow runs that ask their questions in the user's own Pi session:    *)
(* CurrentSessionBridge of ext-pi/src/current-bridge.ts, the launch that   *)
(* checks `busy`, and the input handler of ext-pi/src/index.ts.            *)
(*                                                                         *)
(* Each run speaks ACP to the bridge through a proxy process and its       *)
(* socket.  The bridge turns a prompt into one task turn of the session    *)
(* and relays its answer.  Messages wait in the socket while turns end,    *)
(* proxies die and the session shuts down.  Pi itself (startTaskTurn,      *)
(* isIdle, the handle of a turn) and the runner are external.              *)
(***************************************************************************)
EXTENDS Naturals, Sequences, FiniteSets

CONSTANTS
  Runs,         \* the runs launched for the current session
  MaxPrompts,   \* a bound on the prompts of a run
  MaxUserTurns  \* a bound on the user's own prompts

None == "none"

(* No run has the name of the user or of nobody.                           *)
ASSUME CurrentSessionAssumption ==
  /\ {MaxPrompts, MaxUserTurns} \subseteq Nat
  /\ {None, "user"} \cap Runs = {}

VARIABLES
  bridge,     \* "off", "listening", "closing" (close waits for its sockets) or "closed"
  launch,     \* a run: "idle", "asked" (past the busy check), "running" or "ended"
  sock,       \* its socket: "none", "open", "authed" or "closed"
  inbox,      \* the messages written to the socket and not yet handled
  asking,     \* its prompt: "no", "sent", "answered", "refused" or "lost"
  prompts,    \* how many prompts it sent
  known,      \* the ACP session id it was given, 0 for none
  client,     \* #client
  sessionId,  \* #sessionId, 0 for undefined
  ids,        \* the ACP session ids handed out
  pending,    \* #pending: the socket whose prompt is being answered
  turn,       \* the turn of the Pi session: who asked, and whether it was aborted
  meddled,    \* a control of one run reached the turn of another
  userTurns

runnerVars == <<launch, inbox, asking, prompts, known>>
bridgeVars == <<bridge, client, sessionId, ids, pending>>
sessionVars == <<runnerVars, bridgeVars, sock, turn, meddled, userTurns>>

NoTurn == [by |-> None, aborted |-> FALSE]
busy == client # None \/ pending # None
isIdle == turn = NoTurn

SessionTypeOK ==
  /\ bridge \in {"off", "listening", "closing", "closed"}
  /\ launch \in [Runs -> {"idle", "asked", "running", "ended"}]
  /\ sock \in [Runs -> {"none", "open", "authed", "closed"}]
  /\ asking \in [Runs -> {"no", "sent", "answered", "refused", "lost"}]
  /\ inbox \in [Runs -> Seq({"prompt", "steer", "cancel"})]
  /\ client \in Runs \cup {None} /\ pending \in Runs \cup {None}
  /\ turn.by \in Runs \cup {None, "user"} /\ turn.aborted \in BOOLEAN
  /\ sessionId <= ids /\ \A r \in Runs : known[r] <= ids
  /\ pending # None => sock[pending] = "authed" /\ turn.by = pending

SessionInit ==
  /\ bridge = "off" /\ client = None /\ sessionId = 0 /\ ids = 0 /\ pending = None
  /\ launch = [r \in Runs |-> "idle"] /\ sock = [r \in Runs |-> "none"]
  /\ inbox = [r \in Runs |-> << >>] /\ asking = [r \in Runs |-> "no"]
  /\ prompts = [r \in Runs |-> 0] /\ known = [r \in Runs |-> 0]
  /\ turn = NoTurn /\ meddled = FALSE /\ userTurns = 0

-----------------------------------------------------------------------------
(* Launch.                                                                 *)

(* start, in session_start.                                                *)
start ==
  /\ bridge = "off" /\ bridge' = "listening"
  /\ UNCHANGED <<runnerVars, client, sessionId, ids, pending, sock, turn, meddled, userTurns>>

(* The current target of /wf-launch and of a lineage operation: refused    *)
(* while the bridge is busy.  The dialogs, the inputs and prepareLaunch    *)
(* come after the check.                                                   *)
LaunchChecked(r) ==
  /\ bridge = "listening" /\ launch[r] = "idle" /\ ~busy
  /\ launch' = [launch EXCEPT ![r] = "asked"]
  /\ UNCHANGED <<inbox, asking, prompts, known, bridgeVars, sock, turn, meddled, userTurns>>

Launched(r) ==
  /\ launch[r] = "asked"
  /\ \E to \in {"running", "ended"} : launch' = [launch EXCEPT ![r] = to]   \* started, or declined
  /\ UNCHANGED <<inbox, asking, prompts, known, bridgeVars, sock, turn, meddled, userTurns>>

(* A run finishes, fails, or is cancelled and killed; it asks no more.     *)
RunEnds(r) ==
  /\ launch[r] = "running"
  /\ launch' = [launch EXCEPT ![r] = "ended"]
  /\ UNCHANGED <<inbox, asking, prompts, known, bridgeVars, sock, turn, meddled, userTurns>>

-----------------------------------------------------------------------------
(* The sockets.                                                            *)

(* #accept: a second client is refused only once the first is known.       *)
accept(r) ==
  /\ launch[r] = "running" /\ sock[r] = "none"
  /\ sock' = [sock EXCEPT ![r] = IF bridge = "listening" /\ client = None THEN "open" ELSE "closed"]
  /\ UNCHANGED <<runnerVars, bridgeVars, turn, meddled, userTurns>>

(* The first line of a socket carries the token of the bridge.             *)
authenticate(r) ==
  /\ sock[r] = "open"
  /\ sock' = [sock EXCEPT ![r] = "authed"]
  /\ client' = r
  /\ UNCHANGED <<runnerVars, bridge, sessionId, ids, pending, turn, meddled, userTurns>>

Abort == turn' = [turn EXCEPT !.aborted = TRUE]

(* Mutant: the turn of a lost client runs on.                              *)
closeKeepsTurn(r) ==
  /\ sock[r] \in {"open", "authed"} /\ (launch[r] = "ended" \/ bridge = "listening")
  /\ sock' = [sock EXCEPT ![r] = "closed"]
  /\ inbox' = [inbox EXCEPT ![r] = << >>]
  /\ asking' = [asking EXCEPT ![r] = IF @ = "sent" THEN "lost" ELSE @]
  /\ IF client = r THEN client' = None /\ sessionId' = 0 ELSE UNCHANGED <<client, sessionId>>
  /\ pending' = IF pending = r THEN None ELSE pending
  /\ UNCHANGED <<launch, prompts, known, bridge, ids, turn, meddled, userTurns>>

(* Mutant: a socket that was answering stays the client.                   *)
closeForgetsPending(r) ==
  /\ sock[r] \in {"open", "authed"} /\ (launch[r] = "ended" \/ bridge = "listening")
  /\ sock' = [sock EXCEPT ![r] = "closed"]
  /\ inbox' = [inbox EXCEPT ![r] = << >>]
  /\ asking' = [asking EXCEPT ![r] = IF @ = "sent" THEN "lost" ELSE @]
  /\ IF pending = r
     THEN pending' = None /\ Abort /\ UNCHANGED <<client, sessionId>>
     ELSE IF client = r THEN client' = None /\ sessionId' = 0 /\ UNCHANGED <<turn, pending>>
     ELSE UNCHANGED <<turn, pending, client, sessionId>>
  /\ UNCHANGED <<launch, prompts, known, bridge, ids, meddled, userTurns>>

(* The proxy dies with its run, or on its own: the close handler of the    *)
(* socket.                                                                 *)
closed(r) ==
  /\ sock[r] \in {"open", "authed"} /\ (launch[r] = "ended" \/ bridge = "listening")
  /\ sock' = [sock EXCEPT ![r] = "closed"]
  /\ inbox' = [inbox EXCEPT ![r] = << >>]
  /\ asking' = [asking EXCEPT ![r] = IF @ = "sent" THEN "lost" ELSE @]
  /\ IF client = r THEN client' = None /\ sessionId' = 0 ELSE UNCHANGED <<client, sessionId>>
  /\ IF pending = r THEN pending' = None /\ Abort ELSE UNCHANGED <<pending, turn>>
  /\ UNCHANGED <<launch, prompts, known, bridge, ids, meddled, userTurns>>

-----------------------------------------------------------------------------
(* The runner writes; the bridge handles one line at a time.               *)

Write(r, m) == inbox' = [inbox EXCEPT ![r] = Append(@, m)]
CanWrite(r) == launch[r] = "running" /\ sock[r] = "authed" /\ known[r] # 0 /\ Len(inbox[r]) < 2

(* session/new, which the runner awaits.                                   *)
newSession(r) ==
  /\ launch[r] = "running" /\ sock[r] = "authed" /\ known[r] = 0
  /\ ids' = ids + 1 /\ sessionId' = ids'
  /\ known' = [known EXCEPT ![r] = ids']
  /\ UNCHANGED <<launch, inbox, asking, prompts, bridge, client, pending, sock, turn, meddled, userTurns>>

Ask(r) ==
  /\ CanWrite(r) /\ asking[r] # "sent" /\ inbox[r] = << >> /\ prompts[r] < MaxPrompts
  /\ Write(r, "prompt")
  /\ asking' = [asking EXCEPT ![r] = "sent"]
  /\ prompts' = [prompts EXCEPT ![r] = @ + 1]
  /\ UNCHANGED <<launch, known, bridgeVars, sock, turn, meddled, userTurns>>

(* A steering or a cancellation of the attempt, from the runner's view.    *)
Interrupt(r) ==
  /\ CanWrite(r) /\ asking[r] = "sent"
  /\ \E m \in {"steer", "cancel"} : Write(r, m)
  /\ UNCHANGED <<launch, asking, prompts, known, bridgeVars, sock, turn, meddled, userTurns>>

Received(r, m) ==
  /\ sock[r] = "authed" /\ inbox[r] # << >> /\ Head(inbox[r]) = m
  /\ inbox' = [inbox EXCEPT ![r] = Tail(@)]

(* session/prompt.                                                         *)
prompt(r) ==
  /\ Received(r, "prompt")
  /\ IF pending # None \/ ~isIdle \/ known[r] # sessionId
     THEN asking' = [asking EXCEPT ![r] = "refused"] /\ UNCHANGED <<pending, turn>>
     ELSE pending' = r /\ turn' = [by |-> r, aborted |-> FALSE] /\ UNCHANGED asking
  /\ UNCHANGED <<launch, prompts, known, bridge, client, sessionId, ids, sock, meddled, userTurns>>

(* startTaskTurn throws.                                                   *)
promptThrows(r) ==
  /\ Received(r, "prompt") /\ asking' = [asking EXCEPT ![r] = "refused"]
  /\ UNCHANGED <<launch, prompts, known, bridgeVars, sock, turn, meddled, userTurns>>

(* session/steer reaches whatever turn is pending; a late one is refused.  *)
steer(r) ==
  /\ Received(r, "steer")
  /\ meddled' = (meddled \/ (known[r] = sessionId /\ pending \notin {None, r}))
  /\ UNCHANGED <<launch, asking, prompts, known, bridgeVars, sock, turn, userTurns>>

(* session/cancel aborts whatever turn is pending.                         *)
cancel(r) ==
  /\ Received(r, "cancel")
  /\ IF pending = None THEN UNCHANGED turn ELSE Abort
  /\ meddled' = (meddled \/ pending \notin {None, r})
  /\ UNCHANGED <<launch, asking, prompts, known, bridgeVars, sock, userTurns>>

-----------------------------------------------------------------------------
(* The Pi session.                                                         *)

(* Mutant: a turn that was aborted answers nobody.                         *)
turnEndsSilently ==
  /\ turn.by \notin {None, "user"}
  /\ turn' = NoTurn
  /\ pending' = IF pending = turn.by THEN None ELSE pending
  /\ asking' = IF pending = turn.by /\ ~turn.aborted THEN [asking EXCEPT ![turn.by] = "answered"] ELSE asking
  /\ UNCHANGED <<launch, inbox, prompts, known, bridge, client, sessionId, ids, sock, meddled, userTurns>>

(* A turn completes, aborted or not, or fails: #completeTurn, or the error *)
(* of the request, only for the prompt that is still pending.              *)
turnEnds ==
  /\ turn.by \notin {None, "user"}
  /\ turn' = NoTurn
  /\ IF pending = turn.by
     THEN /\ pending' = None
          /\ \E reply \in {"answered", "refused"} : asking' = [asking EXCEPT ![turn.by] = reply]
     ELSE UNCHANGED <<pending, asking>>
  /\ UNCHANGED <<launch, inbox, prompts, known, bridge, client, sessionId, ids, sock, meddled, userTurns>>

(* The input handler keeps the user's text out of an assigned session.     *)
UserPrompts ==
  /\ ~busy /\ isIdle /\ userTurns < MaxUserTurns
  /\ turn' = [by |-> "user", aborted |-> FALSE] /\ userTurns' = userTurns + 1
  /\ UNCHANGED <<runnerVars, bridgeVars, sock, meddled>>

UserTurnEnds ==
  /\ turn.by = "user" /\ turn' = NoTurn
  /\ UNCHANGED <<runnerVars, bridgeVars, sock, meddled, userTurns>>

(* session_shutdown: every run is cancelled to its end, then close aborts  *)
(* the turn, destroys the client and waits for the sockets.                *)
close ==
  /\ bridge = "listening" /\ \A r \in Runs : launch[r] # "running"
  /\ bridge' = "closing"
  /\ IF pending = None THEN UNCHANGED turn ELSE Abort
  /\ UNCHANGED <<runnerVars, client, sessionId, ids, pending, sock, meddled, userTurns>>

closeEnds ==
  /\ bridge = "closing" /\ \A r \in Runs : sock[r] \notin {"open", "authed"}
  /\ bridge' = "closed"
  /\ UNCHANGED <<runnerVars, client, sessionId, ids, pending, sock, turn, meddled, userTurns>>

-----------------------------------------------------------------------------
Handle(r) == prompt(r) \/ promptThrows(r) \/ steer(r) \/ cancel(r)
Runner(r) == newSession(r) \/ Ask(r) \/ Interrupt(r)

SessionNext ==
  \/ start \/ turnEnds \/ UserPrompts \/ UserTurnEnds \/ close \/ closeEnds
  \/ \E r \in Runs : \/ LaunchChecked(r) \/ Launched(r) \/ RunEnds(r)
                     \/ accept(r) \/ authenticate(r) \/ closed(r) \/ Handle(r) \/ Runner(r)

SessionSpec == SessionInit /\ [][SessionNext]_sessionVars

(* The bridge handles what it is sent, a turn of the model ends, and the   *)
(* proxy of a run that ended closes its socket.                            *)
SessionFairSpec ==
  /\ SessionSpec /\ WF_sessionVars(turnEnds) /\ WF_sessionVars(closeEnds)
  /\ \A r \in Runs : /\ WF_sessionVars(Handle(r))
                     /\ WF_sessionVars(launch[r] = "ended" /\ closed(r))

-----------------------------------------------------------------------------
(* The turn of a run that has lost its socket is aborted: the model does   *)
(* not work on, in the user's session, for nobody.                         *)
NoTurnForNobody ==
  /\ SessionTypeOK
  /\ turn.by \in Runs /\ pending # turn.by => turn.aborted

(* Each prompt is answered, refused, or lost with its socket, whichever    *)
(* turns are aborted and whichever clients come and go.                    *)
PromptSettles == \A r \in Runs : asking[r] = "sent" ~> asking[r] # "sent"

(* When no run is left the session is the user's again.                    *)
SessionIsFreed ==
  (bridge = "listening" /\ \A r \in Runs : launch[r] = "ended") ~> ~busy

(* A shutdown ends, and leaves no client and no prompt behind.             *)
ShutdownEnds == bridge = "closing" ~> bridge = "closed" /\ ~busy

(* The session returns to the user, after the runs and after a shutdown.   *)
SessionReturns == SessionIsFreed /\ ShutdownEnds

(* doc/research/pi-workflow-extension.md: "reserve the current session for *)
(* one workflow run at a time": no control of one run reaches the turn of  *)
(* another.                                                                *)
TurnIsReserved == ~meddled
=============================================================================
