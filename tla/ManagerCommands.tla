--------------------------- MODULE ManagerCommands ---------------------------
(***************************************************************************)
(* The commands that the Pi extension sends to a manager: ManagerRequests  *)
(* of ext-pi/src/manager-ui.ts over prepare, send and reconcileCommand of  *)
(* manager/session.ts and reconcile of manager/refresh.ts.                 *)
(*                                                                         *)
(* A user (or a model, whose command a human confirms) reads a resource,   *)
(* decides in a dialog, and one command is sent that binds the revision    *)
(* read.  Its request or its response may be lost, it may arrive after the *)
(* client has given up, another client may act meanwhile, and the session  *)
(* may be switched to another manager while a dialog is open.  A command   *)
(* is never sent again; an uncertain one is reconciled with one read.      *)
(*                                                                         *)
(* Texts are "v", what this user typed or chose, and "w", anything else.   *)
(* A world is the part of the manager that the user works on: a question   *)
(* whose stored text storedAnswerText can name ("exact") or cannot         *)
(* ("question"), a recovery decision, a request on its way to a run, the   *)
(* children and exports of a run, a live run.  steer stands for steer and  *)
(* redirect, fork for the three lineage operations.                        *)
(***************************************************************************)
EXTENDS Naturals

CONSTANTS
  Worlds,        \* the worlds of this instance
  MaxCommands,   \* bound: commands prepared
  MaxChanges     \* bound: changes by other clients and by the run itself

ASSUME CommandsAssumption ==
  /\ Worlds \subseteq {"question", "exact", "recovery", "request", "lineage", "exports", "live"}
  /\ MaxCommands \in Nat /\ MaxChanges \in Nat

VARIABLES
  world, m,          \* the manager's state
  mgr, took, fresh,  \* of each command: its receipt or refusal; it took effect; on what was seen
  wire,              \* commands sent that the manager has not received
  others,            \* changes by others so far
  bid,               \* the binding of the session: 1, and 2 after a switch
  n, cmds, report,   \* commands prepared, their contents, the record of each
  ui,                \* the dialog and the command in progress
  draft, typed       \* the kept draft; a text was typed

managerVars == <<world, m, mgr, took, fresh, wire, others>>
clientVars  == <<bid, n, cmds, report, ui, draft, typed>>
vars == <<managerVars, clientVars>>

Resources == {"decision", "control", "snapshot", "request", "prep", "lineage", "exports"}
Ids == 1..MaxCommands

Operations ==
  CASE world \in {"question", "exact"} -> {"answer"}
    [] world = "recovery" -> {"recover", "retry"}
    [] world = "request"  -> {"create", "set", "withdraw", "discard"}
    [] world = "lineage"  -> {"fork"}
    [] world = "exports"  -> {"export"}
    [] world = "live"     -> {"cancel", "steer"}

Target(op) ==
  CASE op \in {"answer", "recover"}          -> "decision"
    [] op \in {"retry", "cancel", "steer"}   -> "control"
    [] op \in {"set", "enqueue", "withdraw"} -> "request"
    [] op \in {"approve", "discard"}         -> "prep"
    [] op = "fork"                           -> "lineage"
    [] op = "export"                         -> "exports"

OfDecision == {"answer", "recover", "retry"}
Direct == {"create", "capture"}     \* answered at once, without a precondition

Idle == [pc |-> "idle", op |-> "none", model |-> FALSE, at |-> 0, etag |-> 0, ctl |-> 0,
         seen |-> 0, again |-> FALSE]
NoCommand == [op |-> "none", etag |-> 0, seen |-> 0, to |-> 0, basis |-> "none", before |-> 0]

Receipts == {"accepted", "acknowledged", "effect-observed", "refused", "unresolved"}

TypeOK ==
  /\ world \in Worlds
  /\ m \in [rev : [Resources -> Nat], head : {"d", "next", "none"}, text : 0..2,
            running : BOOLEAN, busy : BOOLEAN, prep : Nat, run : Nat, children : Nat, named : BOOLEAN,
            phase : {"none", "draft", "queued", "review", "started", "withdrawn"}]
  /\ mgr \in [Ids -> Receipts \cup {"none", "stale", "problem", "made"}]
  /\ took \in [Ids -> BOOLEAN] /\ fresh \in [Ids -> BOOLEAN]
  /\ wire \subseteq 1..n /\ others \in 0..MaxChanges /\ bid \in 1..2 /\ n \in 0..MaxCommands
  /\ \A i \in Ids : cmds[i].to \in 0..2 /\ cmds[i].basis \in {"none"} \cup Resources
  /\ report \in [Ids -> Receipts \cup {"none", "made", "stale", "unsent", "uncertain", "observed"}]
  /\ ui.pc \in {"idle", "reading", "controls", "shown", "basis", "sent", "reconciling", "settling",
                "reread", "awaiting", "starting"}
  /\ draft \in BOOLEAN /\ typed \in BOOLEAN

Init ==
  /\ world \in Worlds
  /\ \E named \in BOOLEAN, phase \in {"none", "draft", "queued"} :
       /\ named => world = "exports"
       /\ phase # "none" => world = "request"
       /\ m = [rev |-> [r \in Resources |-> 1], head |-> "d", text |-> 0, running |-> TRUE,
               busy |-> FALSE, prep |-> 0, run |-> 0, children |-> 0, named |-> named, phase |-> phase]
  /\ mgr = [i \in Ids |-> "none"] /\ took = [i \in Ids |-> FALSE] /\ fresh = [i \in Ids |-> TRUE]
  /\ wire = {} /\ others = 0 /\ bid = 1
  /\ n = 0 /\ cmds = [i \in Ids |-> NoCommand] /\ report = [i \in Ids |-> "none"]
  /\ ui = Idle /\ draft = FALSE /\ typed = FALSE

-----------------------------------------------------------------------------
(* The manager, as its client knows it.                                    *)

Bump(s, rs) == [s EXCEPT !.rev = [r \in Resources |-> IF r \in rs THEN @[r] + 1 ELSE @[r]]]

(* The decision d is the pending head that the controls offer to answer.   *)
Offered == m.head = "d" /\ m.running /\ ~m.busy

(* What a user looks at before a command: the choice is about this.        *)
Content(op) ==
  CASE op \in OfDecision            -> IF Offered THEN 1 ELSE 0
    [] op = "set"                   -> m.text
    [] op \in {"approve", "discard"} -> m.prep
    [] op = "fork"                  -> m.children
    [] OTHER                        -> 0

Allowed(op) ==
  CASE op \in OfDecision            -> Offered
    [] op \in {"set", "enqueue"}    -> m.phase = "draft"
    [] op \in {"approve", "discard"} -> m.phase = "review"
    [] op = "withdraw"              -> m.phase \in {"draft", "queued", "review"}
    [] op \in {"cancel", "steer"}   -> m.running
    [] op = "create"                -> m.phase = "none"
    [] op = "export"                -> ~m.named
    [] OTHER                        -> TRUE

(* The effect of op with the text t.                                       *)
Effect(op, t) ==
  CASE op \in OfDecision ->
         \E h \in {"next", "none"} :
           m' = Bump([m EXCEPT !.text = t, !.head = h, !.busy = FALSE], {"decision", "control", "snapshot"})
    [] op = "set"      -> m' = Bump([m EXCEPT !.text = t], {"request"})
    [] op = "enqueue"  -> m' = Bump([m EXCEPT !.phase = "queued"], {"request"})
    [] op = "approve"  -> m' = Bump([m EXCEPT !.phase = "started", !.run = m.prep], {"request", "prep"})
    [] op = "discard"  -> m' = Bump([m EXCEPT !.phase = "draft"], {"request", "prep"})
    [] op = "withdraw" -> m' = Bump([m EXCEPT !.phase = "withdrawn"], {"request"})
    [] op = "fork"     -> m' = Bump([m EXCEPT !.children = @ + 1], {"lineage"})
    [] op = "export"   -> m' = Bump([m EXCEPT !.named = TRUE], {"exports"})
    [] op = "cancel"   -> m' = Bump([m EXCEPT !.running = FALSE], {"control", "snapshot"})
    [] op = "steer"    -> m' = Bump(m, {"control"})
    [] op = "create"   -> m' = [m EXCEPT !.phase = "draft"]
    [] op = "capture"  -> UNCHANGED m

(* A command arrives.  A binding other than 1 is a manager without these   *)
(* resources.  Acceptance marks a decision as submitting.                  *)
Arrive(i) ==
  /\ i \in wire /\ wire' = wire \ {i}
  /\ LET c == cmds[i]
         stale == c.to = 1 /\ c.op \notin Direct /\ m.rev[Target(c.op)] # c.etag
         ok == c.to = 1 /\ ~stale /\ Allowed(c.op)
     IN \/ /\ mgr' = [mgr EXCEPT ![i] = IF stale THEN "stale" ELSE "problem"]
           /\ UNCHANGED <<m, took, fresh>>
        \/ /\ ok /\ c.op \in Direct /\ Effect(c.op, 1)
           /\ mgr' = [mgr EXCEPT ![i] = "made"] /\ took' = [took EXCEPT ![i] = TRUE]
           /\ UNCHANGED fresh
        \/ /\ ok /\ c.op \notin Direct
           /\ mgr' = [mgr EXCEPT ![i] = "accepted"]
           /\ fresh' = [fresh EXCEPT ![i] = Content(c.op) = c.seen]
           /\ m' = Bump([m EXCEPT !.busy = c.op \in OfDecision], {Target(c.op)})
           /\ UNCHANGED took
  /\ UNCHANGED <<world, others, clientVars>>

Lost(i) ==
  /\ i \in wire /\ wire' = wire \ {i}
  /\ UNCHANGED <<world, m, mgr, took, fresh, others, clientVars>>

(* The effect of an accepted command, its refusal by the runtime, or a     *)
(* restart of the manager, which leaves it unresolved.                     *)
Settles(i) ==
  /\ mgr[i] = "accepted"
  /\ \E state \in {"effect-observed", "refused", "unresolved"} :
       /\ mgr' = [mgr EXCEPT ![i] = IF state = "effect-observed" /\ cmds[i].op = "cancel"
                                     THEN "acknowledged" ELSE state]
       /\ \/ state # "refused" /\ Effect(cmds[i].op, 1) /\ took' = [took EXCEPT ![i] = TRUE]
          \/ state # "effect-observed" /\ m' = [m EXCEPT !.busy = FALSE] /\ UNCHANGED took
  /\ UNCHANGED <<world, fresh, wire, others, clientVars>>

(* The admission prepares a review of the request.                         *)
Prepared ==
  /\ m.phase = "queued"
  /\ m' = Bump([m EXCEPT !.phase = "review", !.prep = @ + 1], {"request", "prep"})
  /\ UNCHANGED <<world, mgr, took, fresh, wire, others, clientVars>>

(* Another client acts, a resource of the run changes otherwise, or the    *)
(* run ends: its head keeps naming a decision it still waited for.         *)
OtherActs ==
  /\ others < MaxChanges /\ others' = others + 1
  /\ \/ \E op \in (Operations \ {"create"}) \cup (IF world = "request" THEN {"enqueue"} ELSE {}),
           t \in 1..2 : Allowed(op) /\ Effect(op, t)
     \/ Operations \cap (OfDecision \cup {"cancel"}) # {} /\ m.running
        /\ m' = Bump([m EXCEPT !.running = FALSE], {"control", "snapshot"})
     \/ \E op \in Operations \ {"create"} : m' = Bump(m, {Target(op)})
  /\ UNCHANGED <<world, mgr, took, fresh, wire, clientVars>>

(* A selection of /wfm-endpoints commits.                                  *)
Switch ==
  /\ bid = 1 /\ bid' = 2
  /\ UNCHANGED <<managerVars, n, cmds, report, ui, draft, typed>>

-----------------------------------------------------------------------------
(* The commands of ManagerRequests, up to the send.                        *)

Goto(pc) == ui' = [ui EXCEPT !.pc = pc]
Stop == ui' = Idle
Reports(i, outcome) == report' = [report EXCEPT ![i] = outcome]

(* Who gives a command, where that makes a difference: the tool action of  *)
(* a model brings the text, and nothing is edited again after a 412.       *)
managerAction(op) == IF op \in {"answer", "create"} THEN BOOLEAN ELSE {FALSE}

(* A command of the user; the references of its reads are of this binding. *)
Begin(op) ==
  /\ ui.pc = "idle" /\ n < MaxCommands /\ bid = 1
  /\ op \in Operations /\ world = "request" => ((op = "create") <=> (m.phase = "none"))
  /\ \E model \in managerAction(op) :
       ui' = [Idle EXCEPT !.pc = IF op = "create" THEN "shown" ELSE "reading",
                          !.op = op, !.model = model, !.at = bid]
  /\ UNCHANGED <<managerVars, bid, n, cmds, report, draft, typed>>

(* One read of the target of op: what it shows, and its entity tag.        *)
Shows(op, pc) ==
  ui' = [ui EXCEPT !.pc = pc, !.op = op, !.seen = Content(op),
                   !.etag = m.rev[IF op = "retry" THEN "decision" ELSE Target(op)]]

ReadHead     == ui.op \in OfDecision /\ Offered /\ Shows(ui.op, "controls")
ReadControls == ui.op \in {"cancel", "steer"} /\ m.running /\ Shows(ui.op, "shown")
ReadLineage  == ui.op = "fork" /\ Shows("fork", "shown")
ReadExports  == ui.op = "export" /\ Shows("export", "shown")
ReadReview   == ui.op = "discard" /\ m.phase = "review" /\ Shows("discard", "shown")
ReadRequest  == ui.op = "withdraw" /\ Allowed("withdraw") /\ Shows("withdraw", "shown")

(* #continue collects a missing input (or edits one again), enqueues with  *)
(* the revision it just read, or follows a request that is on its way.     *)
Continue ==
  /\ ui.op = "set"
  /\ \/ m.phase \in {"queued", "review"} /\ Goto("awaiting")
     \/ m.phase = "draft" /\ Shows(IF m.text # 0 /\ ~ui.again THEN "enqueue" ELSE "set", "shown")

(* A read that fails, or that comes after a switch, stops the command.     *)
Look ==
  /\ ui.pc = "reading"
  /\ \/ Stop
     \/ ui.at = bid /\ (ReadHead \/ ReadControls \/ ReadLineage \/ ReadExports \/ ReadReview
                        \/ ReadRequest \/ Continue)
  /\ UNCHANGED <<managerVars, bid, n, cmds, report, draft, typed>>

(* #head reads the controls after the decision; decisionOffers and         *)
(* recoveryActions compare the two.                                        *)
LookControls ==
  /\ ui.pc = "controls"
  /\ \/ Stop
     \/ ui.at = bid /\ Offered /\ ui' = [ui EXCEPT !.pc = "shown", !.ctl = m.rev.control]
  /\ UNCHANGED <<managerVars, bid, n, cmds, report, draft, typed>>

(* Mutant: the precondition is the revision at the send, not the one read. *)
TransmitLatest(op, at, basis) ==
  /\ at = bid /\ n < MaxCommands /\ n' = n + 1 /\ wire' = wire \cup {n + 1} /\ UNCHANGED report
  /\ cmds' = [cmds EXCEPT ![n + 1] =
       [op |-> op, etag |-> IF op \in Direct THEN 0 ELSE m.rev[Target(op)], seen |-> ui.seen, to |-> at,
        basis |-> basis, before |-> ui.etag]]
  /\ ui' = [ui EXCEPT !.pc = "sent", !.op = op]

(* Prepare and send one command to the reference of the binding `at`; a    *)
(* reference of an earlier binding refuses and nothing is sent.  `basis`   *)
(* is the resource that reconciles it.                                     *)
Transmit(op, at, basis) ==
  /\ n < MaxCommands /\ n' = n + 1
  /\ cmds' = [cmds EXCEPT ![n + 1] =
       [op |-> op, etag |-> IF op = "retry" THEN ui.ctl ELSE ui.etag, seen |-> ui.seen, to |-> at,
        basis |-> basis, before |-> CASE basis = "control" /\ op \in OfDecision -> ui.ctl
                                     [] basis = "snapshot" -> m.rev.snapshot
                                     [] OTHER              -> ui.etag]]
  /\ IF at = bid
       THEN wire' = wire \cup {n + 1} /\ UNCHANGED report /\ ui' = [ui EXCEPT !.pc = "sent", !.op = op]
       ELSE Reports(n + 1, "unsent") /\ UNCHANGED wire /\ Stop

Editor == ~ui.model /\ ui.op \in {"answer", "set"}

Unsent == UNCHANGED <<n, cmds, report, wire>>

(* The dialogs, each with what it sends.  The references of a create, a    *)
(* capture and of the commands of a review are made only now.              *)
ConfirmAnswer ==
  /\ ui.op = "answer"
  /\ IF world = "exact" /\ ui.at = bid THEN Goto("basis") /\ Unsent
                                        ELSE Transmit("answer", ui.at, "control")

ConfirmRecovery == ui.op \in {"recover", "retry"} /\ Transmit(ui.op, ui.at, "control")

ConfirmInput ==
  /\ ui.op = "set"
  /\ \/ Transmit("set", ui.at, "none")
     \/ ~ui.model /\ Transmit("capture", bid, "none")

ConfirmReview ==
  /\ ui.op = "approve"
  /\ \/ \E op \in {"approve", "discard"} : Transmit(op, bid, "none")
     \/ ui' = [ui EXCEPT !.pc = "reading", !.op = "withdraw"] /\ Unsent

ConfirmCreate  == ui.op = "create" /\ Transmit("create", bid, "none")
ConfirmLineage == ui.op = "fork" /\ Transmit("fork", ui.at, "lineage")
ConfirmExport  == ui.op = "export" /\ Transmit("export", ui.at, "exports")
ConfirmControl == ui.op \in {"cancel", "steer"} /\ Transmit(ui.op, ui.at, "none")
ConfirmRequest == ui.op \in {"enqueue", "withdraw", "discard"} /\ Transmit(ui.op, ui.at, "none")

Confirm ==
  /\ ui.pc = "shown"
  /\ typed' = (typed \/ Editor) /\ draft' = (draft \/ Editor)
  /\ \/ ConfirmAnswer \/ ConfirmRecovery \/ ConfirmInput \/ ConfirmReview \/ ConfirmCreate
     \/ ConfirmLineage \/ ConfirmExport \/ ConfirmControl \/ ConfirmRequest
  /\ UNCHANGED <<world, m, mgr, took, fresh, others, bid>>

(* The dialog is left, or #permitted misses a scope of the operation; a    *)
(* refused text stays as the draft.                                        *)
Decline ==
  /\ ui.pc = "shown" /\ Stop
  /\ draft' \in {draft, draft \/ Editor} /\ typed' = (typed \/ draft')
  /\ UNCHANGED <<managerVars, bid, n, cmds, report>>

(* answerReconciliation reads the snapshot before the send, or falls back. *)
ReadBasis ==
  /\ ui.pc = "basis"
  /\ \E basis \in {"snapshot", "control"} :
       (basis = "snapshot" => ui.at = bid) /\ Transmit("answer", ui.at, basis)
  /\ UNCHANGED <<world, m, mgr, took, fresh, others, bid, draft, typed>>

-----------------------------------------------------------------------------
(* #command after the send.                                                *)

(* The response.  Only a 412 refuses; any other problem is uncertain.      *)
Respond ==
  /\ ui.pc = "sent" /\ mgr[n] # "none"
  /\ CASE mgr[n] = "stale" ->
              /\ Reports(n, "stale") /\ UNCHANGED <<n, cmds, wire>>
              /\ IF Editor THEN ui' = [ui EXCEPT !.pc = IF ui.op = "set" THEN "reading" ELSE "reread",
                                                !.again = ui.op = "set"]
                           ELSE Stop
       [] mgr[n] = "problem" -> Goto("reconciling") /\ UNCHANGED <<n, cmds, report, wire>>
       [] mgr[n] = "made" /\ cmds[n].op = "create" ->
              /\ Reports(n, "made") /\ UNCHANGED <<n, cmds, wire>>
              /\ ui' = [ui EXCEPT !.pc = "reading", !.op = "set", !.at = cmds[n].to]
       [] mgr[n] = "made" /\ cmds[n].op = "capture" ->
              \/ n < MaxCommands /\ ui.at = bid /\ n' = n + 1 /\ wire' = wire \cup {n + 1}
                 /\ Reports(n, "made")
                 /\ cmds' = [cmds EXCEPT ![n + 1] = [cmds[n] EXCEPT !.op = "set", !.to = ui.at]]
                 /\ ui' = [ui EXCEPT !.op = "set"]
              \/ Reports(n, "made") /\ Stop /\ UNCHANGED <<n, cmds, wire>>
       [] mgr[n] \in Receipts /\ cmds[n].op = "approve" ->
              Reports(n, "accepted") /\ Goto("starting") /\ UNCHANGED <<n, cmds, wire>>
       [] mgr[n] \in Receipts /\ cmds[n].op # "approve" ->
              Goto("settling") /\ UNCHANGED <<n, cmds, report, wire>>
  /\ UNCHANGED <<world, m, mgr, took, fresh, others, bid, draft, typed>>

(* Mutant: a request that fails counts as refused.                         *)
GiveUpRefuses ==
  /\ ui.pc = "sent" /\ Reports(n, "stale") /\ Stop
  /\ UNCHANGED <<managerVars, bid, n, cmds, draft, typed>>

(* The request fails, times out or gives a response that does not agree.   *)
GiveUp ==
  /\ ui.pc = "sent" /\ Goto("reconciling")
  /\ UNCHANGED <<managerVars, bid, n, cmds, report, draft, typed>>

(* answerObserved, controlPassed and the effects that a lineage and an     *)
(* export see in their collections; every other command sees none.         *)
EffectVisible(c) ==
  CASE c.op = "answer" /\ c.basis = "snapshot" -> m.head # "d" /\ m.text = 1
    [] c.op = "answer" /\ c.basis = "control"  -> m.head = "next" /\ m.running
    [] c.op \in {"recover", "retry"}           -> m.head # "d"
    [] c.op = "fork"                           -> m.children > c.seen
    [] c.op = "export"                         -> m.named
    [] OTHER                                   -> FALSE

(* The caller after an observed effect: the draft goes, #collect reads on, *)
(* an enqueued request is followed.                                        *)
Finish ==
  /\ draft' = IF ui.op \in {"answer", "set"} THEN FALSE ELSE draft
  /\ ui' = CASE ui.op = "set"     -> [ui EXCEPT !.pc = "reading", !.again = FALSE]
             [] ui.op = "enqueue" -> [ui EXCEPT !.pc = "awaiting"]
             [] OTHER             -> Idle

(* Mutant: the entity tag is not compared with the one before the send.    *)
ReconcileAnyTag ==
  /\ ui.pc = "reconciling" /\ cmds[n].to = bid /\ EffectVisible(cmds[n])
  /\ Reports(n, "observed") /\ Finish
  /\ UNCHANGED <<managerVars, bid, n, cmds, typed>>

Reconcile ==
  /\ ui.pc = "reconciling"
  /\ LET c == cmds[n] IN
       \/ Reports(n, "uncertain") /\ Stop /\ UNCHANGED draft
       \/ /\ c.to = bid /\ c.to = 1 /\ EffectVisible(c) /\ m.rev[c.basis] # c.before
          /\ Reports(n, "observed") /\ Finish
  /\ UNCHANGED <<managerVars, bid, n, cmds, typed>>

(* Mutants: the draft goes when the manager accepts; the wait has no       *)
(* bound; a settled receipt is recorded under a state of its own.          *)
SettleEager ==
  /\ ui.pc = "settling" /\ Reports(n, "accepted") /\ Finish
  /\ UNCHANGED <<managerVars, bid, n, cmds, typed>>

SettlePatient ==
  /\ ui.pc = "settling" /\ mgr[n] # "accepted" /\ Reports(n, mgr[n]) /\ Stop /\ UNCHANGED draft
  /\ UNCHANGED <<managerVars, bid, n, cmds, typed>>

(* waitFor on the receipt until it settles, or the bound of the wait.      *)
Settle ==
  /\ ui.pc = "settling"
  /\ \/ Reports(n, "accepted") /\ Stop /\ UNCHANGED draft
     \/ /\ cmds[n].to = bid /\ mgr[n] # "accepted"
        /\ Reports(n, mgr[n])
        /\ IF mgr[n] = "effect-observed" THEN Finish ELSE Stop /\ UNCHANGED draft
  /\ UNCHANGED <<managerVars, bid, n, cmds, typed>>

(* After a 412 of an answer: again only while d is still the pending head. *)
Reread ==
  /\ ui.pc = "reread"
  /\ Stop \/ (ui.at = bid /\ Offered /\ Goto("reading"))
  /\ UNCHANGED <<managerVars, bid, n, cmds, report, draft, typed>>

(* #awaitReview, and the wait of an approval for its run.                  *)
Await ==
  /\ ui.pc \in {"awaiting", "starting"}
  /\ \/ Stop
     \/ /\ ui.pc = "awaiting" /\ ui.at = bid /\ m.phase = "review"
        /\ ui' = [ui EXCEPT !.pc = "shown", !.op = "approve", !.etag = m.rev.prep, !.seen = m.prep]
  /\ UNCHANGED <<managerVars, bid, n, cmds, report, draft, typed>>

Outcome == Respond \/ GiveUp \/ Reconcile \/ Settle

Next == \/ \E i \in Ids : Arrive(i) \/ Lost(i) \/ Settles(i)
        \/ Prepared \/ OtherActs \/ Switch
        \/ \E op \in Operations : Begin(op)
        \/ Look \/ LookControls \/ Confirm \/ Decline \/ ReadBasis \/ Outcome \/ Reread \/ Await

Spec == Init /\ [][Next]_vars

(* Requests, reads and waits have timeouts; a dialog may stay open.        *)
FairSpec == Spec /\ WF_vars(Outcome)

-----------------------------------------------------------------------------
(* Properties.                                                             *)

(* A command reported as refused (412, not sent, or by its receipt) never  *)
(* takes effect, although it may still be on its way when it is reported.  *)
RefusedHasNoEffect ==
  \A i \in 1..n : report[i] \in {"stale", "unsent", "refused"} => ~took[i]

(* A command acts on what the human saw when deciding: the review that was *)
(* displayed, the decision that was open, the input as it was edited.      *)
ActsOnWhatWasSeen == \A i \in 1..n : fresh[i]

(* As long as nobody else acts, an effect that a reconciliation reports is *)
(* an effect of this client.                                               *)
ObservedIsOurs ==
  \A i \in 1..n : report[i] = "observed" /\ others = 0 => \E k \in 1..i : took[k]

(* An answer reported from the snapshot is the answer that the run stores, *)
(* whoever sent it.                                                        *)
StoredAnswerStands ==
  \A i \in 1..n : report[i] = "observed" /\ cmds[i].basis = "snapshot" => m.text = 1

(* An effect reported after an uncertain send is one that happened.        *)
ReportedEffectIsReal == TypeOK /\ ObservedIsOurs /\ StoredAnswerStands

(* A text that was typed stays as a draft until an effect is observed, and *)
(* is dropped for the text itself, or for controls that moved on.          *)
DraftKept ==
  typed /\ ~draft => \E i \in 1..n : took[i] \/ (report[i] = "observed"
                                                  /\ (m.text = 1 \/ cmds[i].basis = "control"))

(* Every command gets its one record.                                      *)
SentIsReported == \A i \in Ids : (i <= n) ~> (report[i] # "none")

(* A command decided on what one manager showed is never sent to another.  *)
NoForeignCommand == \A i \in 1..n : cmds[i].to # 1 => report[i] = "unsent"
=============================================================================
