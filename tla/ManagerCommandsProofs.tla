------------------------ MODULE ManagerCommandsProofs ------------------------
(***************************************************************************)
(* Proofs about the commands sent to a manager, for every number of        *)
(* commands and of changes by others.                                      *)
(*                                                                         *)
(* The invariant is CommandsInv.  Its core is Current: the entity tag that *)
(* a dialog or a command holds covers what was seen, since a resource      *)
(* changes what it shows only together with its revision (Moves).  The     *)
(* rest ties the records of the client to what the manager did: a refusal  *)
(* that was recorded is the manager's, what took effect was accepted, and  *)
(* what a reconciliation looks for cannot change while nobody acts.        *)
(***************************************************************************)
EXTENDS ManagerCommands, TLAPS

AllWorlds == {"question", "exact", "recovery", "request", "lineage", "exports", "live"}

AllOps == {"answer", "recover", "retry", "create", "set", "enqueue", "withdraw", "discard", "approve",
           "capture", "fork", "export", "cancel", "steer"}

(* The operations that occur in a world, by the user or as a step of a     *)
(* longer command.                                                         *)
OpsOf ==
  CASE world \in {"question", "exact"} -> {"answer"}
    [] world = "recovery" -> {"recover", "retry"}
    [] world = "request"  -> {"create", "set", "enqueue", "withdraw", "discard", "approve", "capture"}
    [] world = "lineage"  -> {"fork"}
    [] world = "exports"  -> {"export"}
    [] world = "live"     -> {"cancel", "steer"}

Commands == [op : AllOps \cup {"none"}, etag : Nat, seen : Nat, to : 0..2,
             basis : {"none"} \cup Resources, before : Nat]
Dialogs == [pc : {"idle", "reading", "controls", "shown", "basis", "sent", "reconciling", "settling",
                  "reread", "awaiting", "starting"},
            op : AllOps \cup {"none"}, model : BOOLEAN, at : 0..2, etag : Nat, ctl : Nat, seen : Nat,
            again : BOOLEAN]
Managers == [rev : [Resources -> Nat], head : {"d", "next", "none"}, text : 0..2,
             running : BOOLEAN, busy : BOOLEAN, prep : Nat, run : Nat, children : Nat, named : BOOLEAN,
             phase : {"none", "draft", "queued", "review", "started", "withdrawn"}]

Types == /\ TypeOK /\ m \in Managers /\ cmds \in [Ids -> Commands] /\ ui \in Dialogs
         /\ m.rev["exports"] >= 1

(* What an entity tag that was read with `seen` says: the tag is not ahead *)
(* of the resource, and as long as the resource has that tag it shows what *)
(* was seen.  The commands on a decision need no tag for this.             *)
Current(op, etag, seen) ==
  /\ op \in {"set", "capture"} => etag <= m.rev["request"] /\ (etag = m.rev["request"] => seen = m.text)
  /\ op \in {"approve", "discard"} => etag <= m.rev["prep"] /\ (etag = m.rev["prep"] => seen = m.prep)
  /\ op = "fork" => etag <= m.rev["lineage"] /\ (etag = m.rev["lineage"] => seen = m.children)
  /\ op \in OfDecision => seen = 1
  /\ op \in {"enqueue", "withdraw", "export", "cancel", "steer"} => seen = 0

AfterSend == {"sent", "reconciling", "settling"}

(* A dialog decides on what was read, and after the send it is about the   *)
(* latest command, which has no record yet.                                *)
DialogInv ==
  /\ ui.op \in OpsOf \cup {"none"}
  /\ ui.pc = "controls" => ui.op \in OfDecision
  /\ ui.pc = "awaiting" => world = "request"
  /\ ui.pc = "basis" => ui.op = "answer" /\ world = "exact"
  /\ ui.pc \in {"controls", "shown", "basis"} => Current(ui.op, ui.etag, ui.seen)
  /\ ui.pc = "shown" /\ ui.op = "export" => ui.etag \in 1..m.rev["exports"]
  /\ ui.pc \in AfterSend => n # 0 /\ report[n] = "none" /\ cmds[n].op = ui.op
  /\ ui.pc = "settling" => mgr[n] \in Receipts

(* So does a command, and the resource that reconciles it goes with it.    *)
CommandInv ==
  \A i \in 1..n :
    /\ cmds[i].op \in OpsOf
    /\ Current(cmds[i].op, cmds[i].etag, cmds[i].seen)
    /\ cmds[i].basis = "snapshot" => cmds[i].op = "answer" /\ world = "exact"
    /\ cmds[i].op = "answer" => cmds[i].basis \in {"snapshot", "control"}
    /\ cmds[i].op = "export" => cmds[i].basis = "exports" /\ cmds[i].before \in 1..m.rev["exports"]

(* A record of a refusal is the manager's own refusal, or is about a       *)
(* command that never left; what took effect was accepted.                 *)
RecordInv ==
  /\ \A i \in wire : i \in 1..n /\ mgr[i] = "none" /\ report[i] # "unsent"
  /\ \A i \in Ids :
       /\ i > n => mgr[i] = "none" /\ report[i] = "none"
       /\ took[i] => mgr[i] \in {"made", "acknowledged", "effect-observed", "unresolved"}
       /\ mgr[i] = "effect-observed" => took[i]
       /\ mgr[i] = "made" => cmds[i].op \in Direct
       /\ report[i] = "stale" => mgr[i] = "stale"
       /\ report[i] = "refused" => mgr[i] = "refused"
       /\ report[i] = "unsent" => mgr[i] = "none"

FreshInv == \A i \in Ids : fresh[i]

(* While neither this client nor another has had an effect, nothing that a *)
(* reconciliation looks for has changed.                                   *)
UntouchedInv ==
  others = 0 /\ (\A k \in Ids : ~took[k]) =>
    /\ m.head = "d" /\ m.children = 0
    /\ m.named => m.rev["exports"] = 1

(* A stored answer that was observed stays: its decision is over.          *)
StoredInv ==
  \A i \in 1..n : report[i] = "observed" /\ cmds[i].basis = "snapshot" => m.text = 1 /\ m.head # "d"

DraftInv ==
  typed /\ ~draft => \E i \in 1..n : took[i] \/ (report[i] = "observed"
                                                  /\ cmds[i].basis \in {"snapshot", "control"})

CommandsInv == /\ Types /\ DialogInv /\ CommandInv /\ RecordInv /\ FreshInv
               /\ UntouchedInv /\ ObservedIsOurs /\ StoredInv /\ DraftInv

-----------------------------------------------------------------------------
(* Bump raises the revisions of rs and leaves what the resources show.     *)
LEMMA BumpFacts ==
  ASSUME NEW s \in Managers, NEW rs
  PROVE  /\ Bump(s, rs) \in Managers
         /\ \A r \in Resources : Bump(s, rs).rev[r] = IF r \in rs THEN s.rev[r] + 1 ELSE s.rev[r]
         /\ Bump(s, rs).head = s.head /\ Bump(s, rs).text = s.text /\ Bump(s, rs).running = s.running
         /\ Bump(s, rs).busy = s.busy /\ Bump(s, rs).prep = s.prep /\ Bump(s, rs).run = s.run
         /\ Bump(s, rs).children = s.children /\ Bump(s, rs).named = s.named
         /\ Bump(s, rs).phase = s.phase
  BY DEF Bump, Managers

(* What a change of the manager may do to what commands bind: revisions    *)
(* only grow, and what a revision covers changes only with it.             *)
Moves ==
  /\ m' \in Managers
  /\ \A r \in Resources : m.rev[r] <= m'.rev[r]
  /\ world = "request" /\ m'.text # m.text => m.rev["request"] < m'.rev["request"]
  /\ m'.prep # m.prep => m.rev["prep"] < m'.rev["prep"]
  /\ m'.children # m.children => m.rev["lineage"] < m'.rev["lineage"]

(* A manager that does not change moves trivially.                         *)
LEMMA StillMoves == m \in Managers /\ m' = m => Moves
  BY DEF Moves, Managers, Resources

(* Every effect moves the manager, and each changes only its own part.     *)
LEMMA EffectMoves ==
  ASSUME m \in Managers, NEW op \in OpsOf, NEW t \in 1..2, Effect(op, t),
         world \in {"question", "exact", "recovery", "request", "lineage", "exports", "live"}
  PROVE  /\ Moves
         /\ m'.head # m.head => m'.head \in {"next", "none"} /\ op \in OfDecision
         /\ op \in OfDecision => m'.head \in {"next", "none"} /\ m'.text = t
         /\ m'.named # m.named => op = "export"
         /\ m'.children # m.children => op = "fork"
         /\ m'.text # m.text => m'.text = t /\ op \in OfDecision \cup {"set"}
         /\ op # "export" => m'.rev["exports"] = m.rev["exports"]
  <1> USE DEF Resources
  <1>1. CASE op \in OfDecision
    <2>1. PICK h \in {"next", "none"} :
            m' = Bump([m EXCEPT !.text = t, !.head = h, !.busy = FALSE], {"decision", "control", "snapshot"})
      BY <1>1 DEF Effect, OfDecision
    <2> DEFINE s == [m EXCEPT !.text = t, !.head = h, !.busy = FALSE]
    <2>2. /\ s \in Managers /\ s.rev = m.rev /\ s.head = h /\ s.text = t /\ s.prep = m.prep
          /\ s.children = m.children /\ s.named = m.named
      <3>1. s \in Managers
        <4> DEFINE s1 == [m EXCEPT !.text = t]
                   s2 == [s1 EXCEPT !.head = h]
        <4>1. s1 \in Managers
          BY DEF Managers
        <4>2. s2 \in Managers
          <5> HIDE DEF s1
          <5> QED BY <4>1 DEF Managers
        <4>3. [s2 EXCEPT !.busy = FALSE] \in Managers
          <5> HIDE DEF s2
          <5> QED BY <4>2 DEF Managers
        <4> QED BY <4>3
      <3>2. s.rev = m.rev /\ s.prep = m.prep /\ s.children = m.children /\ s.named = m.named
        BY DEF Managers
      <3>3. s.head = h /\ s.text = t
        BY DEF Managers
      <3> QED BY <3>1, <3>2, <3>3
    <2>3. world # "request"
      BY <1>1 DEF OpsOf, OfDecision
    <2> HIDE DEF s
    <2>4. m' = Bump(s, {"decision", "control", "snapshot"})
      BY <2>1 DEF s
    <2>5. m.rev \in [Resources -> Nat]
      BY DEF Managers
    <2> QED BY <1>1, <2>2, <2>3, <2>4, <2>5, BumpFacts DEF Moves, OfDecision
  <1>2. ASSUME NEW s \in Managers, NEW rs, m' = Bump(s, rs), s.rev = m.rev, s.head = m.head,
               s.prep = m.prep, op \notin OfDecision,
               s.text = m.text \/ (op = "set" /\ "request" \in rs /\ s.text = t),
               s.children = m.children \/ (op = "fork" /\ "lineage" \in rs),
               s.named = m.named \/ op = "export",
               "exports" \in rs => op = "export"
        PROVE  /\ Moves
               /\ m'.head # m.head => m'.head \in {"next", "none"} /\ op \in OfDecision
               /\ op \in OfDecision => m'.head \in {"next", "none"} /\ m'.text = t
               /\ m'.named # m.named => op = "export"
               /\ m'.children # m.children => op = "fork"
               /\ m'.text # m.text => m'.text = t /\ op \in OfDecision \cup {"set"}
               /\ op # "export" => m'.rev["exports"] = m.rev["exports"]
    <2>1. m.rev \in [Resources -> Nat]
      BY DEF Managers
    <2>2. /\ m' \in Managers
          /\ \A r \in Resources : m'.rev[r] = IF r \in rs THEN m.rev[r] + 1 ELSE m.rev[r]
          /\ m'.head = m.head /\ m'.text = s.text /\ m'.prep = m.prep /\ m'.children = s.children
          /\ m'.named = s.named
      BY <1>2, BumpFacts
    <2> QED BY <1>2, <2>1, <2>2 DEF Moves
  <1>3. CASE op = "set"
    <2> DEFINE s == [m EXCEPT !.text = t]
    <2>1. m' = Bump(s, {"request"})
      BY <1>3 DEF Effect, OfDecision
    <2>2. /\ s \in Managers /\ s.rev = m.rev /\ s.head = m.head /\ s.text = t /\ s.prep = m.prep
          /\ s.children = m.children /\ s.named = m.named
      BY DEF Managers
    <2> HIDE DEF s
    <2> QED BY <1>2, <1>3, <2>1, <2>2 DEF OfDecision
  <1>4. CASE op \in {"enqueue", "approve", "discard", "withdraw"}
    <2>1. PICK s, rs : /\ m' = Bump(s, rs) /\ rs \subseteq {"request", "prep"}
                       /\ s \in Managers /\ s.rev = m.rev /\ s.head = m.head /\ s.text = m.text
                       /\ s.prep = m.prep /\ s.children = m.children /\ s.named = m.named
      <3>1. CASE op = "enqueue"
        <4> DEFINE s == [m EXCEPT !.phase = "queued"]
        <4>1. m' = Bump(s, {"request"})
          BY <3>1 DEF Effect, OfDecision
        <4>2. /\ s \in Managers /\ s.rev = m.rev /\ s.head = m.head /\ s.text = m.text
              /\ s.prep = m.prep /\ s.children = m.children /\ s.named = m.named
          BY DEF Managers
        <4> QED BY <4>1, <4>2
      <3>2. CASE op = "approve"
        <4> DEFINE s == [m EXCEPT !.phase = "started", !.run = m.prep]
        <4>1. m' = Bump(s, {"request", "prep"})
          BY <3>2 DEF Effect, OfDecision
        <4>2. /\ s \in Managers /\ s.rev = m.rev /\ s.head = m.head /\ s.text = m.text
              /\ s.prep = m.prep /\ s.children = m.children /\ s.named = m.named
          BY DEF Managers
        <4> QED BY <4>1, <4>2
      <3>3. CASE op = "discard"
        <4> DEFINE s == [m EXCEPT !.phase = "draft"]
        <4>1. m' = Bump(s, {"request", "prep"})
          BY <3>3 DEF Effect, OfDecision
        <4>2. /\ s \in Managers /\ s.rev = m.rev /\ s.head = m.head /\ s.text = m.text
              /\ s.prep = m.prep /\ s.children = m.children /\ s.named = m.named
          BY DEF Managers
        <4> QED BY <4>1, <4>2
      <3>4. CASE op = "withdraw"
        <4> DEFINE s == [m EXCEPT !.phase = "withdrawn"]
        <4>1. m' = Bump(s, {"request"})
          BY <3>4 DEF Effect, OfDecision
        <4>2. /\ s \in Managers /\ s.rev = m.rev /\ s.head = m.head /\ s.text = m.text
              /\ s.prep = m.prep /\ s.children = m.children /\ s.named = m.named
          BY DEF Managers
        <4> QED BY <4>1, <4>2
      <3> QED BY <1>4, <3>1, <3>2, <3>3, <3>4
    <2>2. op \notin OfDecision /\ "exports" \notin rs
      BY <1>4, <2>1 DEF OfDecision
    <2> QED BY <1>2, <2>1, <2>2
  <1>5. CASE op = "fork"
    <2> DEFINE s == [m EXCEPT !.children = @ + 1]
    <2>1. m' = Bump(s, {"lineage"})
      BY <1>5 DEF Effect, OfDecision
    <2>2. /\ s \in Managers /\ s.rev = m.rev /\ s.head = m.head /\ s.text = m.text /\ s.prep = m.prep
          /\ s.named = m.named
      BY DEF Managers
    <2> HIDE DEF s
    <2> QED BY <1>2, <1>5, <2>1, <2>2 DEF OfDecision
  <1>6. CASE op = "export"
    <2> DEFINE s == [m EXCEPT !.named = TRUE]
    <2>1. m' = Bump(s, {"exports"})
      BY <1>6 DEF Effect, OfDecision
    <2>2. /\ s \in Managers /\ s.rev = m.rev /\ s.head = m.head /\ s.text = m.text /\ s.prep = m.prep
          /\ s.children = m.children
      BY DEF Managers
    <2> HIDE DEF s
    <2> QED BY <1>2, <1>6, <2>1, <2>2 DEF OfDecision
  <1>7. CASE op = "cancel"
    <2> DEFINE s == [m EXCEPT !.running = FALSE]
    <2>1. m' = Bump(s, {"control", "snapshot"})
      BY <1>7 DEF Effect, OfDecision
    <2>2. /\ s \in Managers /\ s.rev = m.rev /\ s.head = m.head /\ s.text = m.text /\ s.prep = m.prep
          /\ s.children = m.children /\ s.named = m.named
      BY DEF Managers
    <2> HIDE DEF s
    <2> QED BY <1>2, <1>7, <2>1, <2>2 DEF OfDecision
  <1>8. CASE op = "steer"
    <2>1. m' = Bump(m, {"control"})
      BY <1>8 DEF Effect, OfDecision
    <2> QED BY <1>2, <1>8, <2>1 DEF OfDecision
  <1>9. CASE op = "create" \/ op = "capture"
    <2>1. /\ m' \in Managers /\ m'.rev = m.rev /\ m'.head = m.head /\ m'.text = m.text
          /\ m'.prep = m.prep /\ m'.children = m.children /\ m'.named = m.named
      BY <1>9 DEF Effect, OfDecision, Managers
    <2>2. m.rev \in [Resources -> Nat]
      BY DEF Managers
    <2> QED BY <1>9, <2>1, <2>2 DEF Moves, OfDecision
  <1> QED BY <1>1, <1>3, <1>4, <1>5, <1>6, <1>7, <1>8, <1>9 DEF OpsOf, OfDecision

(* A change of the manager keeps what the dialog and the commands bind.    *)
LEMMA MovesKeepCurrent ==
  ASSUME m \in Managers, Moves, NEW op \in OpsOf \cup {"none"}, NEW etag \in Nat, NEW seen,
         Current(op, etag, seen), world' = world,
         world \in {"question", "exact", "recovery", "request", "lineage", "exports", "live"}
  PROVE  Current(op, etag, seen)'
  <1>1. m.rev \in [Resources -> Nat] /\ m'.rev \in [Resources -> Nat]
    BY DEF Moves, Managers
  <1>2. op \in {"set", "capture"} => world = "request"
    BY DEF OpsOf
  <1> QED BY <1>1, <1>2 DEF Current, Moves, Resources

(* What a step of the manager has to show, given that the client stands    *)
(* still.                                                                  *)
LEMMA ManagerKeeps ==
  ASSUME CommandsInv, Moves, UNCHANGED <<world, clientVars>>,
         TypeOK', RecordInv', FreshInv', UntouchedInv', StoredInv',
         others <= others', \A k \in Ids : took[k] => took'[k],
         ui.pc = "settling" => mgr'[n] \in Receipts
  PROVE  CommandsInv'
  <1> USE DEF CommandsInv
  <1>1. /\ bid' = bid /\ n' = n /\ cmds' = cmds /\ report' = report /\ ui' = ui /\ draft' = draft
        /\ typed' = typed /\ OpsOf' = OpsOf /\ world' = world
    BY DEF clientVars, OpsOf
  <1>2. /\ n \in Nat /\ others \in Nat /\ others' \in Nat /\ 1..n \subseteq Ids /\ MaxCommands \in Nat
        /\ world \in {"question", "exact", "recovery", "request", "lineage", "exports", "live"}
    BY CommandsAssumption, <1>1 DEF Types, TypeOK, Ids
  <1>4. m.rev \in [Resources -> Nat] /\ m'.rev \in [Resources -> Nat]
    BY DEF Types, Moves, Managers
  <1>3. Types'
    BY <1>1, <1>4 DEF Types, Moves, Resources
  <1>5. DialogInv'
    <2>1. ui.etag \in Nat
      BY DEF Types, Dialogs
    <2>2. ui.pc \in {"controls", "shown", "basis"} => Current(ui.op, ui.etag, ui.seen)'
      BY <1>1, <1>2, <2>1, MovesKeepCurrent DEF DialogInv, Types
    <2> QED BY <1>1, <1>4, <2>1, <2>2 DEF DialogInv, Moves, Resources, Current
  <1>6. CommandInv'
    <2> SUFFICES ASSUME NEW i \in 1..n
                 PROVE  /\ Current(cmds[i].op, cmds[i].etag, cmds[i].seen)'
                        /\ cmds[i].op = "export" => cmds[i].before \in 1..m'.rev["exports"]
      BY <1>1 DEF CommandInv, Current
    <2>1. cmds[i].etag \in Nat /\ cmds[i].before \in Nat /\ cmds[i].op \in OpsOf
      BY <1>2 DEF Types, Commands, CommandInv
    <2>2. Current(cmds[i].op, cmds[i].etag, cmds[i].seen)'
      BY <1>1, <1>2, <2>1, MovesKeepCurrent DEF CommandInv, Types
    <2> QED BY <1>4, <2>1, <2>2 DEF CommandInv, Moves, Resources
  <1>7. ObservedIsOurs'
    BY <1>1, <1>2 DEF ObservedIsOurs
  <1>8. DraftInv'
    BY <1>1, <1>2 DEF DraftInv
  <1> QED BY <1>3, <1>5, <1>6, <1>7, <1>8

(* What the types say where a step needs it.                               *)
LEMMA TypeFacts ==
  ASSUME CommandsInv
  PROVE  /\ world \in AllWorlds /\ m \in Managers /\ m.rev \in [Resources -> Nat]
         /\ MaxCommands \in Nat /\ n \in 0..MaxCommands /\ 1..n \subseteq Ids /\ others \in Nat
         /\ wire \subseteq 1..n
         /\ \A i \in 1..n : cmds[i].op \in OpsOf /\ cmds[i] \in Commands
         /\ took \in [Ids -> BOOLEAN] /\ fresh \in [Ids -> BOOLEAN]
         /\ mgr \in [Ids -> Receipts \cup {"none", "stale", "problem", "made"}]
         /\ report \in [Ids -> Receipts \cup {"none", "made", "stale", "unsent", "uncertain", "observed"}]
  BY CommandsAssumption DEF CommandsInv, Types, TypeOK, CommandInv, Managers, Ids, AllWorlds

(* A command accepted with the tag it binds acts on what was seen.         *)
LEMMA AcceptedIsFresh ==
  ASSUME CommandsInv, NEW i \in 1..n, cmds[i].op \notin Direct, Allowed(cmds[i].op),
         m.rev[Target(cmds[i].op)] = cmds[i].etag
  PROVE  Content(cmds[i].op) = cmds[i].seen
  <1> DEFINE op == cmds[i].op
  <1>1. Current(op, cmds[i].etag, cmds[i].seen) /\ op \in OpsOf /\ world \in AllWorlds
    BY TypeFacts DEF CommandsInv, CommandInv
  <1> HIDE DEF op
  <1>2. CASE op \in OfDecision
    <2>1. Offered
      BY <1>2 DEF Allowed, OfDecision, op
    <2> QED BY <1>1, <1>2, <2>1 DEF Content, Current, OfDecision, op
  <1>3. CASE op = "set"
    BY <1>1, <1>3 DEF Content, Current, OfDecision, Target, op
  <1>4. CASE op \in {"approve", "discard"}
    BY <1>1, <1>4 DEF Content, Current, OfDecision, Target, op
  <1>5. CASE op = "fork"
    BY <1>1, <1>5 DEF Content, Current, OfDecision, Target, op
  <1>6. CASE op \in {"enqueue", "withdraw", "export", "cancel", "steer"}
    BY <1>1, <1>6 DEF Content, Current, OfDecision, op
  <1>7. op \notin Direct
    BY DEF op
  <1> QED BY <1>1, <1>2, <1>3, <1>4, <1>5, <1>6, <1>7 DEF OpsOf, OfDecision, Direct, AllWorlds

(* A command arrives: refused, answered at once, or accepted.              *)
LEMMA ArriveKeeps ==
  ASSUME CommandsInv, NEW i \in Ids, Arrive(i)
  PROVE  CommandsInv'
  <1> DEFINE c == cmds[i]
             stale == c.to = 1 /\ c.op \notin Direct /\ m.rev[Target(c.op)] # c.etag
             ok == c.to = 1 /\ ~stale /\ Allowed(c.op)
  <1>0. /\ i \in wire /\ wire' = wire \ {i} /\ UNCHANGED <<world, others, clientVars>>
        /\ n' = n /\ report' = report /\ cmds' = cmds
    BY DEF Arrive, clientVars
  <1>1. /\ i \in 1..n /\ mgr[i] = "none" /\ report[i] \notin {"unsent", "stale", "refused"}
        /\ ~took[i] /\ c.op \in OpsOf
    BY <1>0, TypeFacts DEF CommandsInv, RecordInv
  <1>2. ASSUME NEW x \in {"stale", "problem", "made", "accepted"}, mgr' = [mgr EXCEPT ![i] = x], Moves,
               \/ took' = took
               \/ took' = [took EXCEPT ![i] = TRUE] /\ x = "made",
               FreshInv', fresh' \in [Ids -> BOOLEAN], UntouchedInv',
               m'.text = m.text /\ m'.head = m.head, x = "made" => cmds[i].op \in Direct
        PROVE  CommandsInv'
    <2>1. TypeOK'
      BY <1>0, <1>1, <1>2, TypeFacts DEF CommandsInv, Types, TypeOK, clientVars, Receipts, Moves, Managers
    <2>2. RecordInv'
      BY <1>0, <1>1, <1>2, TypeFacts DEF CommandsInv, RecordInv
    <2>3. StoredInv'
      BY <1>0, <1>2 DEF CommandsInv, StoredInv
    <2>4. ui.pc = "settling" => mgr'[n] \in Receipts
      BY <1>1, <1>2, TypeFacts DEF CommandsInv, DialogInv, Receipts
    <2>5. others <= others' /\ \A k \in Ids : took[k] => took'[k]
      BY <1>0, <1>2, TypeFacts
    <2> QED BY <1>0, <1>2, <2>1, <2>2, <2>3, <2>4, <2>5, ManagerKeeps
  <1>3. CASE /\ mgr' = [mgr EXCEPT ![i] = IF stale THEN "stale" ELSE "problem"]
             /\ UNCHANGED <<m, took, fresh>>
    <2>1. Moves /\ m'.text = m.text /\ m'.head = m.head
      BY <1>3, StillMoves, TypeFacts
    <2>2. FreshInv' /\ fresh' \in [Ids -> BOOLEAN] /\ UntouchedInv'
      BY <1>0, <1>3, TypeFacts DEF CommandsInv, FreshInv, UntouchedInv
    <2> HIDE DEF stale
    <2> QED BY <1>2, <1>3, <2>1, <2>2
  <1>4. CASE /\ ok /\ c.op \in Direct /\ Effect(c.op, 1)
             /\ mgr' = [mgr EXCEPT ![i] = "made"] /\ took' = [took EXCEPT ![i] = TRUE]
             /\ UNCHANGED fresh
    <2>1. Moves /\ m'.text = m.text /\ m'.head = m.head
      BY <1>1, <1>4, EffectMoves, TypeFacts DEF AllWorlds, Direct, OfDecision
    <2>2. FreshInv' /\ fresh' \in [Ids -> BOOLEAN]
      BY <1>4, TypeFacts DEF CommandsInv, FreshInv
    <2>3. UntouchedInv'
      BY <1>4, TypeFacts DEF UntouchedInv
    <2> QED BY <1>2, <1>4, <2>1, <2>2, <2>3
  <1>5. CASE /\ ok /\ c.op \notin Direct
             /\ mgr' = [mgr EXCEPT ![i] = "accepted"]
             /\ fresh' = [fresh EXCEPT ![i] = Content(c.op) = c.seen]
             /\ m' = Bump([m EXCEPT !.busy = c.op \in OfDecision], {Target(c.op)})
             /\ UNCHANGED took
    <2>1. Content(c.op) = c.seen
      BY <1>1, <1>5, AcceptedIsFresh
    <2>2. FreshInv' /\ fresh' \in [Ids -> BOOLEAN]
      BY <1>5, <2>1, TypeFacts DEF CommandsInv, FreshInv
    <2> DEFINE s == [m EXCEPT !.busy = c.op \in OfDecision]
    <2>3. /\ s \in Managers /\ s.rev = m.rev /\ s.head = m.head /\ s.text = m.text /\ s.prep = m.prep
          /\ s.children = m.children /\ s.named = m.named
      <3>1. s \in Managers
        <4>1. \A b \in BOOLEAN : [m EXCEPT !.busy = b] \in Managers
          BY TypeFacts DEF Managers
        <4>2. (c.op \in OfDecision) \in BOOLEAN
          OBVIOUS
        <4> QED BY <4>1, <4>2, Zenon
      <3> QED BY <3>1, TypeFacts DEF Managers
    <2> HIDE DEF s
    <2>4. /\ m' \in Managers
          /\ \A r \in Resources : m'.rev[r] = IF r \in {Target(c.op)} THEN m.rev[r] + 1 ELSE m.rev[r]
          /\ m'.head = m.head /\ m'.text = m.text /\ m'.prep = m.prep /\ m'.children = m.children
          /\ m'.named = m.named
      <3>1. m' = Bump(s, {Target(c.op)})
        BY <1>5 DEF s
      <3> HIDE DEF c
      <3> QED BY <2>3, <3>1, BumpFacts
    <2>5. Moves
      BY <2>4, TypeFacts DEF Moves
    <2>6. m.named => Target(c.op) # "exports"
      <3>1. m.named => c.op # "export"
        BY <1>5 DEF Allowed, OfDecision
      <3>2. c.op \in AllOps /\ (c.op # "export" => Target(c.op) # "exports")
        BY <1>1, <1>5, TypeFacts DEF OpsOf, AllWorlds, AllOps, Target, Direct
      <3> QED BY <3>1, <3>2
    <2>7. UntouchedInv'
      BY <1>0, <1>5, <2>4, <2>6, TypeFacts DEF CommandsInv, UntouchedInv, Resources
    <2> QED BY <1>2, <1>5, <2>2, <2>4, <2>5, <2>7
  <1>6. \/ /\ mgr' = [mgr EXCEPT ![i] = IF stale THEN "stale" ELSE "problem"]
           /\ UNCHANGED <<m, took, fresh>>
        \/ /\ ok /\ c.op \in Direct /\ Effect(c.op, 1)
           /\ mgr' = [mgr EXCEPT ![i] = "made"] /\ took' = [took EXCEPT ![i] = TRUE]
           /\ UNCHANGED fresh
        \/ /\ ok /\ c.op \notin Direct
           /\ mgr' = [mgr EXCEPT ![i] = "accepted"]
           /\ fresh' = [fresh EXCEPT ![i] = Content(c.op) = c.seen]
           /\ m' = Bump([m EXCEPT !.busy = c.op \in OfDecision], {Target(c.op)})
           /\ UNCHANGED took
    BY DEF Arrive
  <1> QED BY <1>3, <1>4, <1>5, <1>6

(* A request is lost.                                                      *)
LEMMA LostKeeps ==
  ASSUME CommandsInv, NEW i \in Ids, Lost(i)
  PROVE  CommandsInv'
  <1>1. UNCHANGED <<world, m, mgr, took, fresh, others, clientVars>> /\ wire' \subseteq wire
    BY DEF Lost
  <1>2. UNCHANGED <<bid, n, cmds, report, ui, draft, typed>>
    BY <1>1 DEF clientVars
  <1>3. Moves
    BY <1>1, StillMoves, TypeFacts
  <1>4. TypeOK'
    BY <1>1, <1>2 DEF CommandsInv, Types, TypeOK
  <1>5. RecordInv' /\ FreshInv' /\ UntouchedInv' /\ StoredInv'
    BY <1>1, <1>2 DEF CommandsInv, RecordInv, FreshInv, UntouchedInv, StoredInv
  <1>6. ui.pc = "settling" => mgr'[n] \in Receipts
    BY <1>1 DEF CommandsInv, DialogInv
  <1> QED BY <1>1, <1>3, <1>4, <1>5, <1>6, ManagerKeeps, TypeFacts

(* The effect, the refusal or the loss of an accepted command.             *)
LEMMA SettlesKeeps ==
  ASSUME CommandsInv, NEW i \in Ids, Settles(i)
  PROVE  CommandsInv'
  <1>0. /\ mgr[i] = "accepted" /\ UNCHANGED <<world, fresh, wire, others, clientVars>>
        /\ n' = n /\ report' = report /\ cmds' = cmds
    BY DEF Settles, clientVars
  <1>1. /\ i \in 1..n /\ i \notin wire /\ ~took[i] /\ cmds[i].op \in OpsOf
        /\ report[i] \notin {"unsent", "stale", "refused"}
    BY <1>0, TypeFacts DEF CommandsInv, RecordInv, Ids
  <1>2. PICK x \in {"acknowledged", "effect-observed", "refused", "unresolved"} :
          /\ mgr' = [mgr EXCEPT ![i] = x]
          /\ \/ /\ x # "refused" /\ Effect(cmds[i].op, 1) /\ took' = [took EXCEPT ![i] = TRUE]
             \/ /\ x \notin {"effect-observed", "acknowledged"}
                /\ m' = [m EXCEPT !.busy = FALSE] /\ took' = took
    BY DEF Settles
  <1>3. /\ Moves
        /\ took' = took => UntouchedInv'
        /\ StoredInv'
    <2>1. CASE Effect(cmds[i].op, 1) /\ took' = [took EXCEPT ![i] = TRUE]
      <3>1. took' # took
        BY <1>1, <2>1, TypeFacts
      <3>2. Moves
        BY <1>1, <2>1, EffectMoves, TypeFacts DEF AllWorlds
      <3>3. StoredInv'
        <4> SUFFICES ASSUME NEW k \in 1..n, report[k] = "observed", cmds[k].basis = "snapshot"
                     PROVE  m'.text = 1 /\ m'.head # "d"
          BY <1>0 DEF StoredInv
        <4>1. world = "exact"
          BY DEF CommandsInv, CommandInv
        <4>2. cmds[i].op = "answer"
          BY <1>1, <4>1 DEF OpsOf
        <4>3. cmds[i].op \in OfDecision
          BY <4>2 DEF OfDecision
        <4> QED BY <1>1, <2>1, <4>3, EffectMoves, TypeFacts DEF AllWorlds
      <3> QED BY <3>1, <3>2, <3>3
    <2>2. CASE m' = [m EXCEPT !.busy = FALSE] /\ took' = took
      <3>1. m' \in Managers
        BY <2>2, TypeFacts DEF Managers
      <3>2. /\ m'.rev = m.rev /\ m'.head = m.head /\ m'.text = m.text /\ m'.prep = m.prep
            /\ m'.children = m.children /\ m'.named = m.named
        BY <2>2, TypeFacts DEF Managers
      <3> QED BY <1>0, <2>2, <3>1, <3>2, TypeFacts
          DEF Moves, CommandsInv, UntouchedInv, StoredInv, Resources
    <2> QED BY <1>2, <2>1, <2>2
  <1>4. UntouchedInv'
    BY <1>1, <1>2, <1>3, TypeFacts DEF UntouchedInv
  <1>5. TypeOK'
    BY <1>0, <1>2, <1>3, TypeFacts DEF CommandsInv, Types, TypeOK, clientVars, Receipts, Moves, Managers
  <1>6. RecordInv'
    BY <1>0, <1>1, <1>2, TypeFacts DEF CommandsInv, RecordInv
  <1>7. FreshInv'
    BY <1>0 DEF CommandsInv, FreshInv
  <1>8. ui.pc = "settling" => mgr'[n] \in Receipts
    BY <1>1, <1>2, TypeFacts DEF CommandsInv, DialogInv, Receipts
  <1>9. others <= others' /\ \A k \in Ids : took[k] => took'[k]
    BY <1>0, <1>2, TypeFacts
  <1> QED BY <1>0, <1>3, <1>4, <1>5, <1>6, <1>7, <1>8, <1>9, ManagerKeeps

(* A new review comes with a new revision of the preparation.              *)
LEMMA PreparedKeeps ==
  ASSUME CommandsInv, Prepared
  PROVE  CommandsInv'
  <1>0. UNCHANGED <<world, mgr, took, fresh, wire, others, clientVars>>
    BY DEF Prepared
  <1>1. UNCHANGED <<bid, n, cmds, report, ui, draft, typed>>
    BY <1>0 DEF clientVars
  <1> DEFINE s == [m EXCEPT !.phase = "review", !.prep = @ + 1]
  <1>2. /\ s \in Managers /\ s.rev = m.rev /\ s.head = m.head /\ s.text = m.text
        /\ s.children = m.children /\ s.named = m.named
    <2>1. m \in Managers /\ m.prep \in Nat
      BY TypeFacts DEF Managers
    <2>2. s = [[m EXCEPT !.phase = "review"] EXCEPT !.prep = m.prep + 1]
      BY <2>1 DEF Managers
    <2>3. s \in Managers
      <3> DEFINE s1 == [m EXCEPT !.phase = "review"]
      <3>1. s1 \in Managers
        BY <2>1 DEF Managers
      <3> HIDE DEF s1
      <3>2. [s1 EXCEPT !.prep = m.prep + 1] \in Managers
        BY <2>1, <3>1 DEF Managers
      <3> QED BY <2>2, <3>2 DEF s1
    <2> QED BY <2>1, <2>3 DEF Managers
  <1>3. m' = Bump(s, {"request", "prep"})
    BY DEF Prepared
  <1> HIDE DEF s
  <1>4. /\ m' \in Managers
        /\ \A r \in Resources :
             m'.rev[r] = IF r \in {"request", "prep"} THEN m.rev[r] + 1 ELSE m.rev[r]
        /\ m'.head = m.head /\ m'.text = m.text /\ m'.children = m.children /\ m'.named = m.named
    BY <1>2, <1>3, BumpFacts
  <1>5. Moves
    BY <1>4, TypeFacts DEF Moves, Resources
  <1>6. TypeOK'
    BY <1>0, <1>1, <1>4 DEF CommandsInv, Types, TypeOK, Managers
  <1>7. RecordInv' /\ FreshInv' /\ StoredInv'
    BY <1>0, <1>1, <1>4 DEF CommandsInv, RecordInv, FreshInv, StoredInv
  <1>8. UntouchedInv'
    BY <1>0, <1>4, TypeFacts DEF CommandsInv, UntouchedInv, Resources
  <1>9. ui.pc = "settling" => mgr'[n] \in Receipts
    BY <1>0 DEF CommandsInv, DialogInv
  <1> QED BY <1>0, <1>5, <1>6, <1>7, <1>8, <1>9, ManagerKeeps, TypeFacts

(* Another client, or the run itself: a decision that is over stays over.  *)
LEMMA OtherActsKeeps ==
  ASSUME CommandsInv, OtherActs
  PROVE  CommandsInv'
  <1>0. /\ UNCHANGED <<world, mgr, took, fresh, wire, clientVars>> /\ others' = others + 1
        /\ others' \in 0..MaxChanges
    BY CommandsAssumption DEF OtherActs, CommandsInv, Types, TypeOK
  <1>1. UNCHANGED <<bid, n, cmds, report, ui, draft, typed>>
    BY <1>0 DEF clientVars
  <1>2. Moves /\ (m.head # "d" /\ world = "exact" => m'.head = m.head /\ m'.text = m.text)
    <2>1. ASSUME NEW op \in (Operations \ {"create"}) \cup (IF world = "request" THEN {"enqueue"} ELSE {}),
                 NEW t \in 1..2, Allowed(op), Effect(op, t)
          PROVE  Moves /\ (m.head # "d" /\ world = "exact" => m'.head = m.head /\ m'.text = m.text)
      <3>1. op \in OpsOf
        BY <2>1, TypeFacts DEF Operations, OpsOf, AllWorlds
      <3>2. world = "exact" => op = "answer"
        BY <3>1 DEF OpsOf
      <3>3. world = "exact" => m.head = "d"
        BY <2>1, <3>2 DEF Allowed, OfDecision, Offered
      <3> QED BY <2>1, <3>1, <3>3, EffectMoves, TypeFacts DEF AllWorlds
    <2>2. CASE m' = Bump([m EXCEPT !.running = FALSE], {"control", "snapshot"})
      <3> DEFINE s == [m EXCEPT !.running = FALSE]
      <3>1. /\ s \in Managers /\ s.rev = m.rev /\ s.head = m.head /\ s.text = m.text /\ s.prep = m.prep
            /\ s.children = m.children
        BY TypeFacts DEF Managers
      <3> HIDE DEF s
      <3>2. m' = Bump(s, {"control", "snapshot"})
        BY <2>2 DEF s
      <3> QED BY <3>1, <3>2, BumpFacts, TypeFacts DEF Moves
    <2>3. ASSUME NEW op, m' = Bump(m, {Target(op)})
          PROVE  Moves /\ (m.head # "d" /\ world = "exact" => m'.head = m.head /\ m'.text = m.text)
      BY <2>3, BumpFacts, TypeFacts DEF Moves
    <2> QED BY <2>1, <2>2, <2>3 DEF OtherActs
  <1>3. TypeOK'
    BY <1>0, <1>1, <1>2 DEF CommandsInv, Types, TypeOK, Moves, Managers
  <1>4. RecordInv' /\ FreshInv'
    BY <1>0, <1>1 DEF CommandsInv, RecordInv, FreshInv
  <1>5. StoredInv'
    BY <1>0, <1>1, <1>2 DEF CommandsInv, CommandInv, StoredInv
  <1>6. UntouchedInv' /\ others <= others'
    BY <1>0, TypeFacts DEF UntouchedInv
  <1>7. ui.pc = "settling" => mgr'[n] \in Receipts
    BY <1>0 DEF CommandsInv, DialogInv
  <1> QED BY <1>0, <1>2, <1>3, <1>4, <1>5, <1>6, <1>7, ManagerKeeps
-----------------------------------------------------------------------------
(* The client.  A step that sends nothing and records nothing: what is to  *)
(* show is that the dialog still decides on what was read.                 *)
LEMMA DialogKeeps ==
  ASSUME CommandsInv, UNCHANGED <<managerVars, n, cmds, report>>, bid' \in 1..2, ui' \in Dialogs, DialogInv',
         draft' \in BOOLEAN, typed' \in BOOLEAN, typed' /\ ~draft' => typed /\ ~draft
  PROVE  CommandsInv'
  <1>1. UNCHANGED <<world, m, mgr, took, fresh, wire, others, n, cmds, report>> /\ OpsOf' = OpsOf
    BY DEF managerVars, OpsOf
  <1>2. Types'
    BY <1>1 DEF CommandsInv, Types, TypeOK, Dialogs
  <1>3. CommandInv' /\ RecordInv' /\ FreshInv'
    <2>1. CommandInv'
      BY <1>1 DEF CommandsInv, CommandInv, Current
    <2>2. RecordInv' /\ FreshInv'
      BY <1>1 DEF CommandsInv, RecordInv, FreshInv
    <2> QED BY <2>1, <2>2
  <1>4. UntouchedInv' /\ ObservedIsOurs' /\ StoredInv'
    BY <1>1 DEF CommandsInv, UntouchedInv, ObservedIsOurs, StoredInv
  <1>5. DraftInv'
    BY <1>1 DEF CommandsInv, DraftInv
  <1> QED BY <1>2, <1>3, <1>4, <1>5 DEF CommandsInv

(* A dialog that ends shows nothing.                                       *)
LEMMA IdleDialog == ui' = Idle => ui' \in Dialogs /\ DialogInv'
  BY DEF Idle, Dialogs, DialogInv, AfterSend

(* A dialog that goes on to a step that shows nothing.                     *)
LEMMA GotoDialog ==
  ASSUME CommandsInv, UNCHANGED <<managerVars, n, cmds, report>>,
         NEW pc \in {"reading", "reread", "awaiting", "starting"}, Goto(pc),
         pc = "awaiting" => world = "request"
  PROVE  ui' \in Dialogs /\ DialogInv'
  <1>1. ui \in Dialogs /\ DialogInv /\ OpsOf' = OpsOf /\ world' = world
    BY DEF CommandsInv, Types, managerVars, OpsOf
  <1>2. ui' \in Dialogs /\ ui'.pc = pc /\ ui'.op = ui.op
    BY <1>1 DEF Goto, Dialogs
  <1> QED BY <1>1, <1>2 DEF DialogInv, AfterSend

(* What Shows reads is the content of the resource and its tag.            *)
LEMMA ShowsDialog ==
  ASSUME CommandsInv, UNCHANGED <<managerVars, n, cmds, report>>,
         NEW op \in OpsOf \ Direct, NEW pc \in {"controls", "shown"}, Shows(op, pc),
         op \in OfDecision => Offered, pc = "controls" => op \in OfDecision
  PROVE  ui' \in Dialogs /\ DialogInv'
  <1>1. /\ ui \in Dialogs /\ DialogInv /\ OpsOf' = OpsOf /\ m' = m /\ m \in Managers
        /\ world \in AllWorlds /\ m.rev \in [Resources -> Nat] /\ m.rev["exports"] >= 1
    BY TypeFacts DEF CommandsInv, Types, managerVars, OpsOf
  <1> DEFINE r == IF op = "retry" THEN "decision" ELSE Target(op)
             c == Content(op)
             e == m.rev[r]
  <1>2. op \in AllOps /\ r \in Resources
    BY <1>1 DEF OpsOf, AllWorlds, AllOps, Target, Resources, Direct
  <1>3. e \in Nat
    BY <1>1, <1>2
  <1>4. c \in Nat
    BY <1>1 DEF Content, Managers
  <1>5. Current(op, e, c)
    <2>1. CASE op \in OfDecision
      <3>1. c = 1
        BY <2>1 DEF Content, OfDecision
      <3> QED BY <2>1, <3>1 DEF Current, OfDecision
    <2>2. CASE op = "set"
      <3>1. c = m.text /\ r = "request"
        BY <2>2 DEF Content, OfDecision, Target
      <3> QED BY <1>3, <2>2, <3>1 DEF Current, OfDecision
    <2>3. CASE op \in {"approve", "discard"}
      <3>1. c = m.prep /\ r = "prep"
        BY <2>3 DEF Content, OfDecision, Target
      <3> QED BY <1>3, <2>3, <3>1 DEF Current, OfDecision
    <2>4. CASE op = "fork"
      <3>1. c = m.children /\ r = "lineage"
        BY <2>4 DEF Content, OfDecision, Target
      <3> QED BY <1>3, <2>4, <3>1 DEF Current, OfDecision
    <2>5. CASE op \in {"enqueue", "withdraw", "export", "cancel", "steer"}
      <3>1. c = 0
        BY <2>5 DEF Content, OfDecision
      <3> QED BY <2>5, <3>1 DEF Current, OfDecision
    <2> QED BY <1>2, <2>1, <2>2, <2>3, <2>4, <2>5 DEF AllOps, OfDecision, Direct
  <1>6. op = "export" => e \in 1..m.rev["exports"]
    BY <1>1 DEF Target, OfDecision, Resources
  <1>7. ui' = [ui EXCEPT !.pc = pc, !.op = op, !.seen = c, !.etag = e]
    BY DEF Shows
  <1> HIDE DEF c, e
  <1>8. ui'.pc = pc /\ ui'.op = op /\ ui'.seen = c /\ ui'.etag = e
    BY <1>1, <1>7 DEF Dialogs
  <1>9. ui' \in Dialogs
    <2> DEFINE u1 == [ui EXCEPT !.pc = pc]
               u2 == [u1 EXCEPT !.op = op]
               u3 == [u2 EXCEPT !.seen = c]
    <2>1. u1 \in Dialogs
      BY <1>1 DEF Dialogs
    <2>2. u2 \in Dialogs
      <3> HIDE DEF u1
      <3> QED BY <1>2, <2>1 DEF Dialogs
    <2>3. u3 \in Dialogs
      <3> HIDE DEF u2
      <3> QED BY <1>4, <2>2 DEF Dialogs
    <2>4. [u3 EXCEPT !.etag = e] \in Dialogs
      <3> HIDE DEF u3
      <3> QED BY <1>3, <2>3 DEF Dialogs
    <2> QED BY <1>7, <2>4
  <1> QED BY <1>1, <1>5, <1>6, <1>8, <1>9 DEF DialogInv, AfterSend, Current

(* A switch changes the binding alone.                                     *)
LEMMA SwitchKeeps ==
  ASSUME CommandsInv, Switch
  PROVE  CommandsInv'
  <1>1. UNCHANGED <<managerVars, n, cmds, report, ui, draft, typed>> /\ bid' \in 1..2
    BY DEF Switch
  <1>2. UNCHANGED <<world, m, mgr>> /\ OpsOf' = OpsOf
    BY <1>1 DEF managerVars, OpsOf
  <1>3. DialogInv'
    BY <1>1, <1>2 DEF CommandsInv, DialogInv, Current
  <1> QED BY <1>1, <1>3, DialogKeeps DEF CommandsInv, Types, TypeOK

(* A command begins with no tag.                                           *)
LEMMA BeginKeeps ==
  ASSUME CommandsInv, NEW op \in Operations, Begin(op)
  PROVE  CommandsInv'
  <1>1. UNCHANGED <<managerVars, bid, n, cmds, report, draft, typed>> /\ OpsOf' = OpsOf
    BY DEF Begin, managerVars, OpsOf
  <1>2. op \in OpsOf /\ op \in AllOps /\ bid = 1 /\ (op = "create" => world = "request")
    BY TypeFacts DEF Begin, OpsOf, Operations, AllWorlds, AllOps
  <1>3. PICK model \in BOOLEAN, pc \in {"shown", "reading"} :
          /\ ui' = [Idle EXCEPT !.pc = pc, !.op = op, !.model = model, !.at = 1]
          /\ pc = "shown" => op = "create"
    BY <1>2 DEF Begin, managerAction
  <1>4. ui' \in Dialogs /\ ui'.pc = pc /\ ui'.op = op
    <2>1. ui' = [Idle EXCEPT !.pc = pc, !.op = op, !.model = model, !.at = 1]
      BY <1>3
    <2>2. ui' = [pc |-> pc, op |-> op, model |-> model, at |-> 1, etag |-> 0, ctl |-> 0, seen |-> 0,
                 again |-> FALSE]
      BY <2>1 DEF Idle
    <2>3. \A b \in BOOLEAN : [pc |-> pc, op |-> op, model |-> b, at |-> 1, etag |-> 0, ctl |-> 0,
                             seen |-> 0, again |-> FALSE] \in Dialogs
      BY <1>2, <1>3 DEF Dialogs
    <2> QED BY <2>2, <2>3
  <1>5. DialogInv'
    BY <1>1, <1>2, <1>3, <1>4 DEF DialogInv, AfterSend, Current, OfDecision
  <1> QED BY <1>1, <1>4, <1>5, DialogKeeps DEF CommandsInv, Types, TypeOK

(* Each read shows what its tag covers.                                    *)
LEMMA LookKeeps ==
  ASSUME CommandsInv, Look
  PROVE  CommandsInv'
  <1>1. UNCHANGED <<managerVars, bid, n, cmds, report, draft, typed>> /\ ui.op \in OpsOf \cup {"none"}
    BY DEF Look, CommandsInv, DialogInv
  <1>2. ASSUME NEW op \in AllOps \ Direct, NEW pc \in {"controls", "shown"}, Shows(op, pc),
               op = ui.op \/ (ui.op = "set" /\ op = "enqueue"), op \in OfDecision => Offered,
               pc = "controls" => op \in OfDecision
        PROVE  ui' \in Dialogs /\ DialogInv'
    <2>1. op \in OpsOf
      BY <1>1, <1>2, TypeFacts DEF OpsOf, AllOps, AllWorlds
    <2> QED BY <1>1, <1>2, <2>1, ShowsDialog
  <1>3. ui' \in Dialogs /\ DialogInv'
    <2>1. CASE Stop
      BY <2>1, IdleDialog DEF Stop
    <2>2. CASE ReadHead
      BY <1>2, <2>2 DEF ReadHead, OfDecision, AllOps, Direct
    <2>3. CASE ReadControls
      BY <1>2, <2>3 DEF ReadControls, OfDecision, AllOps, Direct
    <2>4. CASE ReadLineage
      BY <1>2, <2>4 DEF ReadLineage, OfDecision, AllOps, Direct
    <2>5. CASE ReadExports
      BY <1>2, <2>5 DEF ReadExports, OfDecision, AllOps, Direct
    <2>6. CASE ReadReview
      BY <1>2, <2>6 DEF ReadReview, OfDecision, AllOps, Direct
    <2>7. CASE ReadRequest
      BY <1>2, <2>7 DEF ReadRequest, OfDecision, AllOps, Direct
    <2>8. CASE Continue
      <3>1. CASE Goto("awaiting")
        <4>1. world = "request"
          BY <1>1, <2>8, TypeFacts DEF Continue, OpsOf, AllWorlds
        <4> QED BY <1>1, <3>1, <4>1, GotoDialog
      <3>2. ASSUME NEW op \in {"set", "enqueue"}, Shows(op, "shown")
            PROVE  ui' \in Dialogs /\ DialogInv'
        BY <1>2, <2>8, <3>2 DEF Continue, OfDecision, AllOps, Direct
      <3> QED BY <2>8, <3>1, <3>2 DEF Continue
    <2> QED BY <2>1, <2>2, <2>3, <2>4, <2>5, <2>6, <2>7, <2>8 DEF Look
  <1> QED BY <1>1, <1>3, DialogKeeps DEF CommandsInv, Types, TypeOK

(* The read of the controls follows the one of the decision.               *)
LEMMA LookControlsKeeps ==
  ASSUME CommandsInv, LookControls
  PROVE  CommandsInv'
  <1>1. UNCHANGED <<managerVars, bid, n, cmds, report, draft, typed>>
    BY DEF LookControls
  <1>2. UNCHANGED <<world, m>> /\ OpsOf' = OpsOf /\ ui \in Dialogs /\ m.rev["control"] \in Nat
    BY <1>1, TypeFacts DEF managerVars, OpsOf, CommandsInv, Types, Resources
  <1>3. CASE Stop
    BY <1>1, <1>3, IdleDialog, DialogKeeps DEF Stop, CommandsInv, Types, TypeOK
  <1>4. CASE ui' = [ui EXCEPT !.pc = "shown", !.ctl = m.rev["control"]]
    <2> DEFINE u1 == [ui EXCEPT !.pc = "shown"]
    <2>1. u1 \in Dialogs
      BY <1>2 DEF Dialogs
    <2>2. [u1 EXCEPT !.ctl = m.rev["control"]] \in Dialogs
      <3> HIDE DEF u1
      <3> QED BY <1>2, <2>1 DEF Dialogs
    <2>3. ui' \in Dialogs
      BY <1>4, <2>2
    <2>4. ui'.pc = "shown" /\ ui'.op = ui.op /\ ui'.etag = ui.etag /\ ui'.seen = ui.seen
      BY <1>2, <1>4 DEF Dialogs
    <2>5. ui.pc = "controls"
      BY DEF LookControls
    <2>6. DialogInv'
      BY <1>1, <1>2, <2>4, <2>5 DEF CommandsInv, DialogInv, AfterSend, Current
    <2> QED BY <1>1, <2>3, <2>6, DialogKeeps DEF CommandsInv, Types, TypeOK
  <1> QED BY <1>3, <1>4 DEF LookControls

(* A dialog that is left may keep a draft, never drop one.                 *)
LEMMA DeclineKeeps ==
  ASSUME CommandsInv, Decline
  PROVE  CommandsInv'
  <1>1. UNCHANGED <<managerVars, bid, n, cmds, report>> /\ ui' = Idle
    BY DEF Decline, Stop
  <1>2. draft' \in BOOLEAN /\ typed' \in BOOLEAN /\ (typed' /\ ~draft' => typed /\ ~draft)
    BY DEF Decline, Editor, CommandsInv, Types, TypeOK
  <1> QED BY <1>1, <1>2, IdleDialog, DialogKeeps DEF CommandsInv, Types, TypeOK

(* After a 412 the dialog reads again.                                     *)
LEMMA RereadKeeps ==
  ASSUME CommandsInv, Reread
  PROVE  CommandsInv'
  <1>1. UNCHANGED <<managerVars, bid, n, cmds, report, draft, typed>> /\ (ui' = Idle \/ Goto("reading"))
    BY DEF Reread, Stop
  <1> QED BY <1>1, IdleDialog, GotoDialog, DialogKeeps DEF CommandsInv, Types, TypeOK

(* A failed request goes to its reconciliation.                            *)
LEMMA GiveUpKeeps ==
  ASSUME CommandsInv, GiveUp
  PROVE  CommandsInv'
  <1>1. UNCHANGED <<managerVars, bid, n, cmds, report, draft, typed>> /\ ui.pc = "sent"
    BY DEF GiveUp
  <1>2. UNCHANGED <<world, m, mgr>> /\ OpsOf' = OpsOf /\ ui \in Dialogs
    BY <1>1 DEF managerVars, OpsOf, CommandsInv, Types
  <1>3. ui' \in Dialogs /\ ui'.pc = "reconciling" /\ ui'.op = ui.op
    BY <1>2 DEF GiveUp, Goto, Dialogs
  <1>4. DialogInv'
    BY <1>1, <1>2, <1>3 DEF CommandsInv, DialogInv, AfterSend
  <1> QED BY <1>1, <1>3, <1>4, DialogKeeps DEF CommandsInv, Types, TypeOK

(* The review that was awaited is read with its tag.                       *)
LEMMA AwaitKeeps ==
  ASSUME CommandsInv, Await
  PROVE  CommandsInv'
  <1>1. UNCHANGED <<managerVars, bid, n, cmds, report, draft, typed>>
    BY DEF Await
  <1>2. CASE Stop
    BY <1>1, <1>2, IdleDialog, DialogKeeps DEF Stop, CommandsInv, Types, TypeOK
  <1>3. CASE /\ ui.pc = "awaiting"
             /\ ui' = [ui EXCEPT !.pc = "shown", !.op = "approve", !.etag = m.rev["prep"], !.seen = m.prep]
    <2>1. Shows("approve", "shown")
      BY <1>3 DEF Shows, Content, Target, OfDecision
    <2>2. "approve" \in OpsOf \ Direct
      BY <1>3 DEF CommandsInv, DialogInv, OpsOf, Direct
    <2> QED BY <1>1, <2>1, <2>2, ShowsDialog, DialogKeeps DEF OfDecision, CommandsInv, Types, TypeOK
  <1> QED BY <1>2, <1>3 DEF Await

-----------------------------------------------------------------------------
(* What is sent.  A new command binds what the dialog read; the records of *)
(* the earlier ones stay, but for one that is recorded as made.            *)
LEMMA SendKeeps ==
  ASSUME CommandsInv, UNCHANGED <<world, m, mgr, took, fresh, others, bid>>,
         n < MaxCommands, n' = n + 1, NEW c \in Commands, cmds' = [cmds EXCEPT ![n + 1] = c],
         c.op \in OpsOf, Current(c.op, c.etag, c.seen),
         c.basis = "snapshot" => c.op = "answer" /\ world = "exact",
         c.op = "answer" => c.basis \in {"snapshot", "control"},
         c.op = "export" => c.basis = "exports" /\ c.before \in 1..m.rev["exports"],
         report' \in [Ids -> Receipts \cup {"none", "made", "stale", "unsent", "uncertain", "observed"}],
         \A i \in Ids : i # n + 1 =>
           \/ report'[i] = report[i]
           \/ i <= n /\ report[i] = "none" /\ report'[i] = "made",
         \/ wire' = wire \cup {n + 1} /\ report'[n + 1] = "none"
         \/ wire' = wire /\ report'[n + 1] = "unsent",
         ui' \in Dialogs, DialogInv',
         draft' \in BOOLEAN, typed' \in BOOLEAN, typed' /\ ~draft' => typed /\ ~draft
  PROVE  CommandsInv'
  <1>1. /\ n \in Nat /\ n + 1 \in Ids /\ n' = n + 1 /\ n' \in 0..MaxCommands /\ 1..n \subseteq Ids
        /\ 1..n' \subseteq Ids /\ 1..n' = 1..n \cup {n + 1} /\ n + 1 \notin 1..n
    BY TypeFacts DEF Ids
  <1>2. OpsOf' = OpsOf /\ cmds \in [Ids -> Commands] /\ wire \subseteq 1..n
    BY TypeFacts DEF OpsOf, CommandsInv, Types
  <1>3. cmds' \in [Ids -> Commands] /\ cmds'[n + 1] = c /\ \A i \in 1..n : cmds'[i] = cmds[i]
    BY <1>1, <1>2
  <1>4. Types'
    <2>1. wire' \subseteq 1..n'
      BY <1>1, <1>2
    <2>2. \A i \in Ids : cmds'[i].to \in 0..2 /\ cmds'[i].basis \in {"none"} \cup Resources
      BY <1>3 DEF Commands
    <2>3. ui'.pc \in {"idle", "reading", "controls", "shown", "basis", "sent", "reconciling", "settling",
                      "reread", "awaiting", "starting"}
      BY DEF Dialogs
    <2> QED BY <1>1, <1>3, <2>1, <2>2, <2>3 DEF CommandsInv, Types, TypeOK
  <1>5. CommandInv'
    <2> SUFFICES ASSUME NEW i \in 1..n'
                 PROVE  /\ cmds'[i].op \in OpsOf
                        /\ Current(cmds[i].op, cmds[i].etag, cmds[i].seen)'
                        /\ cmds'[i].basis = "snapshot" => cmds'[i].op = "answer" /\ world = "exact"
                        /\ cmds'[i].op = "answer" => cmds'[i].basis \in {"snapshot", "control"}
                        /\ cmds'[i].op = "export" => /\ cmds'[i].basis = "exports"
                                                     /\ cmds'[i].before \in 1..m.rev["exports"]
      BY <1>2 DEF CommandInv
    <2>1. CASE i = n + 1
      BY <1>3, <2>1 DEF Current
    <2>2. CASE i \in 1..n
      BY <1>3, <2>2 DEF CommandsInv, CommandInv, Current
    <2> QED BY <1>1, <2>1, <2>2
  <1>6. RecordInv'
    <2>1. ASSUME NEW i \in wire'
          PROVE  i \in 1..n' /\ mgr'[i] = "none" /\ report'[i] # "unsent"
      <3>1. CASE i \in wire
        <4>1. i \in 1..n /\ mgr[i] = "none" /\ report[i] # "unsent"
          BY <3>1 DEF CommandsInv, RecordInv
        <4> QED BY <1>1, <4>1
      <3>2. CASE i = n + 1 /\ report'[n + 1] = "none"
        <4>1. mgr[n + 1] = "none"
          BY <1>1 DEF CommandsInv, RecordInv
        <4> QED BY <1>1, <3>2, <4>1
      <3> QED BY <3>1, <3>2
    <2>2. ASSUME NEW i \in Ids
          PROVE  /\ i > n' => mgr'[i] = "none" /\ report'[i] = "none"
                 /\ took'[i] => mgr'[i] \in {"made", "acknowledged", "effect-observed", "unresolved"}
                 /\ mgr'[i] = "effect-observed" => took'[i]
                 /\ mgr'[i] = "made" => cmds'[i].op \in Direct
                 /\ report'[i] = "stale" => mgr'[i] = "stale"
                 /\ report'[i] = "refused" => mgr'[i] = "refused"
                 /\ report'[i] = "unsent" => mgr'[i] = "none"
      <3>1. mgr[n + 1] = "none" /\ i \in Nat
        BY <1>1 DEF CommandsInv, RecordInv, Ids
      <3> QED BY <1>1, <1>2, <3>1 DEF CommandsInv, RecordInv
    <2> QED BY <2>1, <2>2 DEF RecordInv
  <1>7. FreshInv' /\ UntouchedInv'
    BY DEF CommandsInv, FreshInv, UntouchedInv
  <1>8. \A i \in 1..n' : report'[i] = "observed" => i \in 1..n /\ report[i] = "observed"
    BY <1>1
  <1>9. ObservedIsOurs' /\ StoredInv'
    BY <1>3, <1>8 DEF CommandsInv, ObservedIsOurs, StoredInv
  <1>10. DraftInv'
    <2>1. \A i \in 1..n : report[i] = "observed" => report'[i] = "observed"
      BY <1>1
    <2> QED BY <1>1, <1>3, <2>1 DEF CommandsInv, DraftInv
  <1> QED BY <1>4, <1>5, <1>6, <1>7, <1>9, <1>10 DEF CommandsInv

(* Transmit sends what was seen, with the tag that was read.               *)
LEMMA TransmitKeeps ==
  ASSUME CommandsInv, UNCHANGED <<world, m, mgr, took, fresh, others, bid>>,
         NEW op \in OpsOf, NEW at \in 0..2, NEW basis \in {"none", "control", "snapshot", "lineage", "exports"},
         Transmit(op, at, basis), Current(op, ui.etag, ui.seen),
         basis = "snapshot" => op = "answer" /\ world = "exact",
         op = "answer" => basis \in {"snapshot", "control"},
         op = "export" => basis = "exports" /\ ui.etag \in 1..m.rev["exports"],
         draft' \in BOOLEAN, typed' \in BOOLEAN, typed' /\ ~draft' => typed /\ ~draft
  PROVE  CommandsInv'
  <1> DEFINE e == IF op = "retry" THEN ui.ctl ELSE ui.etag
             b == CASE basis = "control" /\ op \in OfDecision -> ui.ctl
                    [] basis = "snapshot" -> m.rev.snapshot
                    [] OTHER              -> ui.etag
             c == [op |-> op, etag |-> e, seen |-> ui.seen, to |-> at, basis |-> basis, before |-> b]
  <1>1. ui \in Dialogs /\ m.rev["snapshot"] \in Nat /\ world \in AllWorlds
    BY TypeFacts DEF CommandsInv, Types, Resources
  <1>2. op \in AllOps
    BY <1>1 DEF OpsOf, AllWorlds, AllOps
  <1>3. e \in Nat /\ b \in Nat /\ ui.seen \in Nat
    BY <1>1 DEF Dialogs
  <1>4. Current(op, e, ui.seen)
    BY DEF Current, OfDecision
  <1>5. op = "export" => b = ui.etag
    BY DEF OfDecision
  <1>6. /\ n < MaxCommands /\ n' = n + 1 /\ cmds' = [cmds EXCEPT ![n + 1] = c]
        /\ \/ at = bid /\ wire' = wire \cup {n + 1} /\ report' = report /\ ui' = [ui EXCEPT !.pc = "sent", !.op = op]
           \/ report' = [report EXCEPT ![n + 1] = "unsent"] /\ wire' = wire /\ ui' = Idle
    BY DEF Transmit, Reports, Stop
  <1> HIDE DEF e, b
  <1>7. c \in Commands
    BY <1>2, <1>3 DEF Commands, Resources
  <1>8. /\ c.op = op /\ c.etag = e /\ c.seen = ui.seen /\ c.basis = basis /\ c.before = b
    OBVIOUS
  <1> HIDE DEF c
  <1>9. n \in Nat /\ n + 1 \in Ids /\ report[n + 1] = "none" /\ cmds' [n + 1] = c
    BY <1>6, TypeFacts DEF Ids, CommandsInv, RecordInv, Types
  <1>10. ui' \in Dialogs /\ DialogInv'
    <2>1. CASE ui' = Idle
      BY <2>1, IdleDialog
    <2>2. CASE report' = report /\ ui' = [ui EXCEPT !.pc = "sent", !.op = op]
      <3> DEFINE u1 == [ui EXCEPT !.pc = "sent"]
      <3>1. u1 \in Dialogs
        BY <1>1 DEF Dialogs
      <3>2. [u1 EXCEPT !.op = op] \in Dialogs
        <4> HIDE DEF u1
        <4> QED BY <1>2, <3>1 DEF Dialogs
      <3>3. ui' \in Dialogs /\ ui'.pc = "sent" /\ ui'.op = op
        BY <1>1, <2>2, <3>2 DEF Dialogs
      <3>4. OpsOf' = OpsOf /\ n' # 0 /\ n' = n + 1
        BY <1>6, <1>9 DEF OpsOf
      <3> QED BY <1>8, <1>9, <2>2, <3>3, <3>4 DEF DialogInv, AfterSend
    <2> QED BY <1>6, <2>1, <2>2
  <1>11. /\ report' \in [Ids -> Receipts \cup {"none", "made", "stale", "unsent", "uncertain", "observed"}]
         /\ \A i \in Ids : i # n + 1 => report'[i] = report[i]
         /\ \/ wire' = wire \cup {n + 1} /\ report'[n + 1] = "none"
            \/ wire' = wire /\ report'[n + 1] = "unsent"
    BY <1>6, <1>9, TypeFacts
  <1> QED BY <1>4, <1>5, <1>6, <1>7, <1>8, <1>10, <1>11, SendKeeps

(* Each dialog sends the tag under which it was decided.                   *)
LEMMA ConfirmKeeps ==
  ASSUME CommandsInv, Confirm
  PROVE  CommandsInv'
  <1>1. UNCHANGED <<world, m, mgr, took, fresh, others, bid>> /\ ui.pc = "shown"
    BY DEF Confirm
  <1>2. draft' \in BOOLEAN /\ typed' \in BOOLEAN /\ (typed' /\ ~draft' => typed /\ ~draft)
    BY DEF Confirm, Editor, CommandsInv, Types, TypeOK
  <1>3. /\ Current(ui.op, ui.etag, ui.seen) /\ ui.op \in OpsOf \cup {"none"}
        /\ ui.op = "export" => ui.etag \in 1..m.rev["exports"]
    BY <1>1 DEF CommandsInv, DialogInv
  <1>4. ui.at \in 0..2 /\ bid \in 0..2 /\ ui \in Dialogs /\ world \in AllWorlds
    BY TypeFacts DEF CommandsInv, Types, TypeOK, Dialogs
  <1>5. ui.op \in {"set", "approve"} => world = "request" /\ {"capture", "discard", "withdraw"} \subseteq OpsOf
    BY <1>3, <1>4 DEF OpsOf, AllWorlds
  <1>6. ASSUME NEW op \in OpsOf, NEW at \in 0..2,
               NEW basis \in {"none", "control", "lineage", "exports"}, Transmit(op, at, basis),
               \/ op = ui.op
               \/ ui.op = "set" /\ op = "capture"
               \/ ui.op = "approve" /\ op = "discard",
               op = "answer" => basis = "control",
               op = "export" => basis = "exports"
        PROVE  CommandsInv'
    <2>1. Current(op, ui.etag, ui.seen)
      BY <1>3, <1>6 DEF Current, OfDecision
    <2> QED BY <1>1, <1>2, <1>3, <1>6, <2>1, TransmitKeeps
  <1>7. CASE ConfirmAnswer
    <2>1. CASE Goto("basis") /\ Unsent /\ world = "exact"
      <3>1. UNCHANGED <<managerVars, n, cmds, report>> /\ OpsOf' = OpsOf
        BY <1>1, <2>1 DEF Unsent, managerVars, OpsOf
      <3>2. ui' \in Dialogs /\ ui'.pc = "basis" /\ ui'.op = ui.op /\ ui'.etag = ui.etag /\ ui'.seen = ui.seen
        BY <1>4, <2>1 DEF Goto, Dialogs
      <3>3. DialogInv'
        BY <1>1, <1>3, <1>7, <2>1, <3>1, <3>2 DEF ConfirmAnswer, DialogInv, AfterSend, Current
      <3> QED BY <1>1, <1>2, <3>1, <3>2, <3>3, DialogKeeps DEF CommandsInv, Types, TypeOK
    <2>2. CASE Transmit("answer", ui.at, "control")
      BY <1>3, <1>4, <1>6, <1>7, <2>2 DEF ConfirmAnswer
    <2> QED BY <1>7, <2>1, <2>2 DEF ConfirmAnswer
  <1>8. CASE ConfirmRecovery
    BY <1>3, <1>4, <1>6, <1>8 DEF ConfirmRecovery
  <1>9. CASE ConfirmInput
    BY <1>3, <1>4, <1>5, <1>6, <1>9 DEF ConfirmInput
  <1>10. CASE ConfirmReview
    <2>1. CASE \E op \in {"approve", "discard"} : Transmit(op, bid, "none")
      BY <1>3, <1>4, <1>5, <1>6, <1>10, <2>1 DEF ConfirmReview
    <2>2. CASE ui' = [ui EXCEPT !.pc = "reading", !.op = "withdraw"] /\ Unsent
      <3>1. UNCHANGED <<managerVars, n, cmds, report>> /\ OpsOf' = OpsOf
        BY <1>1, <2>2 DEF Unsent, managerVars, OpsOf
      <3> DEFINE u1 == [ui EXCEPT !.pc = "reading"]
      <3>2. u1 \in Dialogs
        BY <1>4 DEF Dialogs
      <3>3. [u1 EXCEPT !.op = "withdraw"] \in Dialogs
        <4> HIDE DEF u1
        <4> QED BY <3>2 DEF Dialogs, AllOps
      <3>4. ui' \in Dialogs /\ ui'.pc = "reading" /\ ui'.op = "withdraw"
        BY <1>4, <2>2, <3>3 DEF Dialogs
      <3>5. DialogInv'
        BY <1>5, <1>10, <3>1, <3>4 DEF ConfirmReview, DialogInv, AfterSend
      <3> QED BY <1>1, <1>2, <3>1, <3>4, <3>5, DialogKeeps DEF CommandsInv, Types, TypeOK
    <2> QED BY <1>10, <2>1, <2>2 DEF ConfirmReview
  <1>11. CASE ConfirmCreate
    BY <1>3, <1>4, <1>6, <1>11 DEF ConfirmCreate
  <1>12. CASE ConfirmLineage
    BY <1>3, <1>4, <1>6, <1>12 DEF ConfirmLineage
  <1>13. CASE ConfirmExport
    BY <1>3, <1>4, <1>6, <1>13 DEF ConfirmExport
  <1>14. CASE ConfirmControl
    BY <1>3, <1>4, <1>6, <1>14 DEF ConfirmControl
  <1>15. CASE ConfirmRequest
    BY <1>3, <1>4, <1>6, <1>15 DEF ConfirmRequest
  <1> QED BY <1>7, <1>8, <1>9, <1>10, <1>11, <1>12, <1>13, <1>14, <1>15 DEF Confirm

(* The basis of an answer is read before the send.                         *)
LEMMA ReadBasisKeeps ==
  ASSUME CommandsInv, ReadBasis
  PROVE  CommandsInv'
  <1>1. UNCHANGED <<world, m, mgr, took, fresh, others, bid, draft, typed>> /\ ui.pc = "basis"
    BY DEF ReadBasis
  <1>2. PICK basis \in {"snapshot", "control"} : Transmit("answer", ui.at, basis)
    BY DEF ReadBasis
  <1>3. /\ Current("answer", ui.etag, ui.seen) /\ "answer" \in OpsOf /\ world = "exact"
    BY <1>1 DEF CommandsInv, DialogInv, OpsOf
  <1>4. ui.at \in 0..2 /\ draft \in BOOLEAN /\ typed \in BOOLEAN
    BY DEF CommandsInv, Types, TypeOK, Dialogs
  <1> QED BY <1>1, <1>2, <1>3, <1>4, TransmitKeeps

-----------------------------------------------------------------------------
(* The records.                                                            *)
LEMMA RecordKeeps ==
  ASSUME CommandsInv, UNCHANGED <<managerVars, bid, n, cmds, typed>>, n # 0, report[n] = "none",
         report' = [report EXCEPT ![n] = report'[n]],
         report'[n] \in Receipts \cup {"made", "stale", "uncertain", "observed"},
         report'[n] \in {"stale", "refused"} => mgr[n] = report'[n],
         report'[n] = "observed" /\ others = 0 => (\E k \in 1..n : took[k]),
         report'[n] = "observed" /\ cmds[n].basis = "snapshot" => m.text = 1 /\ m.head # "d",
         draft' \in BOOLEAN,
         typed /\ ~draft' =>
           \/ ~draft \/ took[n]
           \/ report'[n] = "observed" /\ cmds[n].basis \in {"snapshot", "control"},
         ui' \in Dialogs, DialogInv'
  PROVE  CommandsInv'
  <1>1. UNCHANGED <<world, m, mgr, took, fresh, wire, others, bid, n, cmds, typed>> /\ OpsOf' = OpsOf
    BY DEF managerVars, OpsOf
  <1>2. /\ n \in 1..n /\ 1..n \subseteq Ids /\ n \in Ids
        /\ report \in [Ids -> Receipts \cup {"none", "made", "stale", "unsent", "uncertain", "observed"}]
    BY TypeFacts
  <1>3. Types'
    BY <1>1, <1>2 DEF CommandsInv, Types, TypeOK, Dialogs
  <1>4. CommandInv'
    BY <1>1 DEF CommandsInv, CommandInv, Current
  <1>5. RecordInv'
    <2>1. mgr \in [Ids -> Receipts \cup {"none", "stale", "problem", "made"}] /\ report'[n] # "unsent"
      BY TypeFacts DEF Receipts
    <2> QED BY <1>1, <1>2, <2>1, TypeFacts DEF CommandsInv, RecordInv
  <1>6. FreshInv' /\ UntouchedInv'
    BY <1>1 DEF CommandsInv, FreshInv, UntouchedInv
  <1>7. ObservedIsOurs' /\ StoredInv'
    BY <1>1, <1>2 DEF CommandsInv, ObservedIsOurs, StoredInv
  <1>8. DraftInv'
    BY <1>1, <1>2 DEF CommandsInv, DraftInv
  <1> QED BY <1>3, <1>4, <1>5, <1>6, <1>7, <1>8 DEF CommandsInv

(* Where an observed effect leads the dialog.                              *)
LEMMA FinishDialog ==
  ASSUME CommandsInv, UNCHANGED <<managerVars, n, cmds>>, Finish
  PROVE  /\ ui' \in Dialogs /\ DialogInv' /\ draft' \in BOOLEAN
         /\ ui.op \notin {"answer", "set"} => draft' = draft
  <1>1. ui \in Dialogs /\ ui.op \in OpsOf \cup {"none"} /\ world \in AllWorlds /\ draft \in BOOLEAN
    BY TypeFacts DEF CommandsInv, DialogInv, Types, TypeOK
  <1>2. OpsOf' = OpsOf /\ world' = world
    BY DEF managerVars, OpsOf
  <1>3. draft' \in BOOLEAN /\ (ui.op \notin {"answer", "set"} => draft' = draft)
    BY <1>1 DEF Finish
  <1>4. CASE ui.op = "set"
    <2>1. ui' = [ui EXCEPT !.pc = "reading", !.again = FALSE]
      BY <1>4 DEF Finish
    <2> DEFINE u1 == [ui EXCEPT !.pc = "reading"]
    <2>2. u1 \in Dialogs
      BY <1>1 DEF Dialogs
    <2>3. [u1 EXCEPT !.again = FALSE] \in Dialogs
      <3> HIDE DEF u1
      <3> QED BY <2>2 DEF Dialogs
    <2>4. ui' \in Dialogs /\ ui'.pc = "reading" /\ ui'.op = ui.op
      BY <1>1, <2>1, <2>3 DEF Dialogs
    <2> QED BY <1>1, <1>2, <1>3, <2>4 DEF DialogInv, AfterSend
  <1>5. CASE ui.op = "enqueue"
    <2>1. ui' = [ui EXCEPT !.pc = "awaiting"] /\ world = "request"
      BY <1>1, <1>5 DEF Finish, OpsOf, AllWorlds
    <2>2. ui' \in Dialogs /\ ui'.pc = "awaiting" /\ ui'.op = ui.op
      BY <1>1, <2>1 DEF Dialogs
    <2> QED BY <1>1, <1>2, <1>3, <2>1, <2>2 DEF DialogInv, AfterSend
  <1>6. CASE ui.op \notin {"set", "enqueue"}
    <2>1. ui' = Idle
      BY <1>6 DEF Finish
    <2> QED BY <1>3, <2>1, IdleDialog
  <1> QED BY <1>4, <1>5, <1>6

(* What a reconciliation sees was done by somebody: if nobody else acted,  *)
(* by a command of this client.                                            *)
LEMMA VisibleIsDone ==
  ASSUME CommandsInv, n # 0, EffectVisible(cmds[n]), m.rev[cmds[n].basis] # cmds[n].before, others = 0
  PROVE  \E k \in 1..n : took[k]
  <1> DEFINE c == cmds[n]
  <1>1. n \in 1..n /\ c \in Commands /\ world \in AllWorlds /\ n \in Nat
    BY TypeFacts
  <1>2. /\ c.op = "answer" => c.basis \in {"snapshot", "control"}
        /\ c.op = "export" => c.basis = "exports" /\ c.before \in 1..m.rev["exports"]
    BY <1>1 DEF CommandsInv, CommandInv
  <1>3. SUFFICES ASSUME \A k \in Ids : ~took[k] PROVE FALSE
    <2>1. \A k \in Ids : took[k] => k \in 1..n
      BY <1>1 DEF CommandsInv, RecordInv, Ids
    <2> QED BY <2>1
  <1>4. m.head = "d" /\ m.children = 0 /\ (m.named => m.rev["exports"] = 1)
    BY <1>3 DEF CommandsInv, UntouchedInv
  <1>5. c.seen \in Nat
    BY <1>1 DEF Commands
  <1> QED BY <1>2, <1>4, <1>5 DEF EffectVisible

(* A reconciliation records an effect that is there.                       *)
LEMMA ReconcileKeeps ==
  ASSUME CommandsInv, Reconcile
  PROVE  CommandsInv'
  <1>1. UNCHANGED <<managerVars, bid, n, cmds, typed>> /\ ui.pc = "reconciling"
    BY DEF Reconcile
  <1>2. n # 0 /\ report[n] = "none" /\ cmds[n].op = ui.op /\ n \in 1..n /\ draft \in BOOLEAN
    BY <1>1, TypeFacts DEF CommandsInv, DialogInv, AfterSend, Types, TypeOK
  <1>3. CASE Reports(n, "uncertain") /\ Stop /\ UNCHANGED draft
    <2>1. report' = [report EXCEPT ![n] = report'[n]] /\ report'[n] = "uncertain"
      BY <1>2, <1>3, TypeFacts DEF Reports
    <2> QED BY <1>1, <1>2, <1>3, <2>1, IdleDialog, RecordKeeps DEF Stop
  <1>4. CASE /\ EffectVisible(cmds[n]) /\ m.rev[cmds[n].basis] # cmds[n].before
             /\ Reports(n, "observed") /\ Finish
    <2>1. ui' \in Dialogs /\ DialogInv' /\ draft' \in BOOLEAN /\ (ui.op \notin {"answer", "set"} => draft' = draft)
      BY <1>1, <1>4, FinishDialog
    <2>2. others = 0 => \E k \in 1..n : took[k]
      BY <1>2, <1>4, VisibleIsDone
    <2>3. /\ cmds[n].op = "answer" => cmds[n].basis \in {"snapshot", "control"}
          /\ cmds[n].basis = "snapshot" => cmds[n].op = "answer"
      BY <1>2 DEF CommandsInv, CommandInv
    <2>4. /\ cmds[n].op # "set"
          /\ cmds[n].basis = "snapshot" => m.text = 1 /\ m.head # "d"
      BY <1>4, <2>3 DEF EffectVisible
    <2>5. report' = [report EXCEPT ![n] = report'[n]] /\ report'[n] = "observed"
      BY <1>2, <1>4, TypeFacts DEF Reports
    <2> QED BY <1>1, <1>2, <2>1, <2>2, <2>3, <2>4, <2>5, RecordKeeps
  <1> QED BY <1>3, <1>4 DEF Reconcile

(* A receipt is recorded as the manager gave it.                           *)
LEMMA SettleKeeps ==
  ASSUME CommandsInv, Settle
  PROVE  CommandsInv'
  <1>1. UNCHANGED <<managerVars, bid, n, cmds, typed>> /\ ui.pc = "settling"
    BY DEF Settle
  <1>2. /\ n # 0 /\ report[n] = "none" /\ cmds[n].op = ui.op /\ n \in Ids /\ mgr[n] \in Receipts
        /\ draft \in BOOLEAN /\ (mgr[n] = "effect-observed" => took[n])
    BY <1>1, TypeFacts DEF CommandsInv, DialogInv, AfterSend, RecordInv, Types, TypeOK
  <1>3. CASE Reports(n, "accepted") /\ Stop /\ UNCHANGED draft
    <2>1. report' = [report EXCEPT ![n] = report'[n]] /\ report'[n] = "accepted"
      BY <1>2, <1>3, TypeFacts DEF Reports
    <2> QED BY <1>1, <1>2, <1>3, <2>1, IdleDialog, RecordKeeps DEF Stop, Receipts
  <1>4. CASE Reports(n, mgr[n]) /\ mgr[n] = "effect-observed" /\ Finish
    <2>1. ui' \in Dialogs /\ DialogInv' /\ draft' \in BOOLEAN
      BY <1>1, <1>4, FinishDialog
    <2>2. report' = [report EXCEPT ![n] = report'[n]] /\ report'[n] = "effect-observed"
      BY <1>2, <1>4, TypeFacts DEF Reports
    <2> QED BY <1>1, <1>2, <1>4, <2>1, <2>2, RecordKeeps DEF Receipts
  <1>5. CASE Reports(n, mgr[n]) /\ Stop /\ UNCHANGED draft
    <2>1. report' = [report EXCEPT ![n] = report'[n]] /\ report'[n] = mgr[n]
      BY <1>2, <1>5, TypeFacts DEF Reports
    <2>2. report'[n] # "observed"
      BY <1>2, <2>1 DEF Receipts
    <2> QED BY <1>1, <1>2, <1>5, <2>1, <2>2, IdleDialog, RecordKeeps DEF Stop
  <1> QED BY <1>3, <1>4, <1>5 DEF Settle

(* The response: a refusal, a problem, a reference made, or a receipt.     *)
LEMMA RespondKeeps ==
  ASSUME CommandsInv, Respond
  PROVE  CommandsInv'
  <1>1. UNCHANGED <<world, m, mgr, took, fresh, others, bid, draft, typed>> /\ ui.pc = "sent" /\ mgr[n] # "none"
    BY DEF Respond
  <1>2. /\ n # 0 /\ report[n] = "none" /\ cmds[n].op = ui.op /\ n \in Ids /\ n \in 1..n /\ n \in Nat
        /\ ui \in Dialogs /\ draft \in BOOLEAN /\ typed \in BOOLEAN /\ ui.op \in OpsOf \cup {"none"}
        /\ world \in AllWorlds /\ OpsOf' = OpsOf /\ cmds[n] \in Commands
        /\ mgr[n] \in Receipts \cup {"stale", "problem", "made"}
    <2>1. /\ n # 0 /\ n \in Ids /\ n \in 1..n /\ n \in Nat /\ world \in AllWorlds
          /\ report[n] = "none" /\ cmds[n].op = ui.op /\ ui.op \in OpsOf \cup {"none"}
      BY <1>1, TypeFacts DEF CommandsInv, DialogInv, AfterSend
    <2>2. OpsOf' = OpsOf /\ mgr[n] \in Receipts \cup {"stale", "problem", "made"} /\ cmds[n] \in Commands
      BY <1>1, <2>1, TypeFacts DEF OpsOf
    <2> QED BY <2>1, <2>2 DEF CommandsInv, Types, TypeOK
  <1>3. ASSUME UNCHANGED <<n, cmds, wire>>, NEW x \in {"stale", "made", "accepted"}, Reports(n, x),
               x = "stale" => mgr[n] = "stale", ui' \in Dialogs, DialogInv'
        PROVE  CommandsInv'
    <2>1. report' = [report EXCEPT ![n] = report'[n]] /\ report'[n] = x
      BY <1>2, <1>3, TypeFacts DEF Reports
    <2>2. UNCHANGED managerVars
      BY <1>1, <1>3 DEF managerVars
    <2> QED BY <1>1, <1>2, <1>3, <2>1, <2>2, RecordKeeps DEF Receipts
  <1>4. ASSUME UNCHANGED <<n, cmds, wire, report>>, NEW pc \in {"reconciling", "settling"}, Goto(pc),
               pc = "settling" => mgr[n] \in Receipts
        PROVE  CommandsInv'
    <2>1. ui' \in Dialogs /\ ui'.pc = pc /\ ui'.op = ui.op
      BY <1>2, <1>4 DEF Goto, Dialogs
    <2>2. DialogInv'
      BY <1>1, <1>2, <1>4, <2>1 DEF DialogInv, AfterSend
    <2>3. UNCHANGED managerVars
      BY <1>1, <1>4 DEF managerVars
    <2> QED BY <1>1, <1>2, <1>4, <2>1, <2>2, <2>3, DialogKeeps DEF CommandsInv, Types, TypeOK
  <1>5. CASE mgr[n] = "stale"
    <2>1. /\ Reports(n, "stale") /\ UNCHANGED <<n, cmds, wire>>
          /\ \/ ui' = Idle
             \/ \E pc \in {"reading", "reread"} : ui' = [ui EXCEPT !.pc = pc, !.again = ui.op = "set"]
      BY <1>5 DEF Respond, Stop, Receipts
    <2>2. CASE ui' = Idle
      BY <1>3, <1>5, <2>1, <2>2, IdleDialog
    <2>3. ASSUME NEW pc \in {"reading", "reread"}, ui' = [ui EXCEPT !.pc = pc, !.again = ui.op = "set"]
          PROVE  CommandsInv'
      <3> DEFINE u1 == [ui EXCEPT !.pc = pc]
      <3>1. u1 \in Dialogs
        BY <1>2 DEF Dialogs
      <3>2. [u1 EXCEPT !.again = ui.op = "set"] \in Dialogs
        <4> HIDE DEF u1
        <4>1. \A b \in BOOLEAN : [u1 EXCEPT !.again = b] \in Dialogs
          BY <3>1 DEF Dialogs
        <4>2. (ui.op = "set") \in BOOLEAN
          OBVIOUS
        <4> QED BY <4>1, <4>2, Zenon
      <3>3. ui' \in Dialogs /\ ui'.pc = pc /\ ui'.op = ui.op
        <4>1. ui'.pc = pc /\ ui'.op = ui.op
          BY <1>2, <2>3 DEF Dialogs
        <4>2. ui' = [u1 EXCEPT !.again = ui.op = "set"]
          BY <2>3
        <4> QED BY <3>2, <4>1, <4>2
      <3>4. DialogInv'
        BY <1>2, <2>3, <3>3 DEF DialogInv, AfterSend
      <3> QED BY <1>3, <1>5, <2>1, <3>3, <3>4
    <2> QED BY <2>1, <2>2, <2>3
  <1>6. CASE mgr[n] = "problem"
    <2>1. Goto("reconciling") /\ UNCHANGED <<n, cmds, report, wire>>
      BY <1>6 DEF Respond, Receipts
    <2> QED BY <1>4, <2>1
  <1>7. CASE mgr[n] = "made" /\ cmds[n].op = "create"
    <2>1. /\ Reports(n, "made") /\ UNCHANGED <<n, cmds, wire>>
          /\ ui' = [ui EXCEPT !.pc = "reading", !.op = "set", !.at = cmds[n].to]
      BY <1>7 DEF Respond, Receipts
    <2>2. "set" \in OpsOf /\ cmds[n].to \in 0..2
      BY <1>2, <1>7 DEF OpsOf, AllWorlds, Commands
    <2> DEFINE u1 == [ui EXCEPT !.pc = "reading"]
               u2 == [u1 EXCEPT !.op = "set"]
    <2>3. u1 \in Dialogs
      BY <1>2 DEF Dialogs
    <2>4. u2 \in Dialogs
      <3> HIDE DEF u1
      <3> QED BY <2>3 DEF Dialogs, AllOps
    <2>5. [u2 EXCEPT !.at = cmds[n].to] \in Dialogs
      <3> HIDE DEF u2
      <3> QED BY <2>2, <2>4 DEF Dialogs
    <2>6. ui' \in Dialogs /\ ui'.pc = "reading" /\ ui'.op = "set"
      BY <1>2, <2>1, <2>5 DEF Dialogs
    <2>7. DialogInv'
      BY <1>2, <2>2, <2>6 DEF DialogInv, AfterSend
    <2> QED BY <1>3, <2>1, <2>6, <2>7
  <1>8. CASE mgr[n] = "made" /\ cmds[n].op = "capture"
    <2>1. CASE /\ n < MaxCommands /\ n' = n + 1 /\ wire' = wire \cup {n + 1}
               /\ Reports(n, "made")
               /\ cmds' = [cmds EXCEPT ![n + 1] = [cmds[n] EXCEPT !.op = "set", !.to = ui.at]]
               /\ ui' = [ui EXCEPT !.op = "set"]
      <3> DEFINE c1 == [cmds[n] EXCEPT !.op = "set"]
                 c == [c1 EXCEPT !.to = ui.at]
      <3>1. ui.at \in 0..2 /\ c1 \in Commands
        BY <1>2 DEF Commands, Dialogs, AllOps
      <3>2. c \in Commands
        <4> HIDE DEF c1
        <4> QED BY <3>1 DEF Commands
      <3>3. c.op = "set" /\ c.etag = cmds[n].etag /\ c.seen = cmds[n].seen /\ c.basis = cmds[n].basis
        BY <1>2 DEF Commands
      <3>4. cmds' = [cmds EXCEPT ![n + 1] = c]
        BY <1>2, <2>1 DEF Commands
      <3> HIDE DEF c
      <3>5. /\ Current("capture", cmds[n].etag, cmds[n].seen) /\ c.basis # "snapshot"
            /\ "set" \in OpsOf
        BY <1>2, <1>8, <3>3 DEF CommandsInv, CommandInv, OpsOf, AllWorlds
      <3>6. Current(c.op, c.etag, c.seen)
        BY <3>3, <3>5 DEF Current, OfDecision
      <3>7. /\ n + 1 \in Ids /\ n + 1 # n /\ report[n + 1] = "none" /\ cmds'[n + 1] = c
        BY <1>2, <2>1, <3>4, TypeFacts DEF CommandsInv, RecordInv, Types, Ids
      <3>8. /\ report' \in [Ids -> Receipts \cup {"none", "made", "stale", "unsent", "uncertain", "observed"}]
            /\ report'[n + 1] = "none" /\ report'[n] = "made"
            /\ \A i \in Ids : i # n => report'[i] = report[i]
        BY <1>2, <2>1, <3>7, TypeFacts DEF Reports
      <3>9. ui' \in Dialogs /\ ui'.pc = "sent" /\ ui'.op = "set"
        BY <1>1, <1>2, <2>1 DEF Dialogs, AllOps
      <3>10. DialogInv'
        BY <1>2, <2>1, <3>3, <3>5, <3>7, <3>8, <3>9 DEF DialogInv, AfterSend
      <3>11. \A i \in Ids : i # n + 1 =>
               \/ report'[i] = report[i]
               \/ i <= n /\ report[i] = "none" /\ report'[i] = "made"
        <4> SUFFICES ASSUME NEW i \in Ids
                     PROVE  \/ report'[i] = report[i]
                            \/ i <= n /\ report[i] = "none" /\ report'[i] = "made"
          OBVIOUS
        <4>1. CASE i = n
          <5>1. n <= n
            BY <1>2
          <5> QED BY <1>2, <3>8, <4>1, <5>1
        <4>2. CASE i # n
          BY <3>8, <4>2
        <4> QED BY <4>1, <4>2
      <3> QED BY <1>1, <1>2, <2>1, <3>2, <3>3, <3>4, <3>5, <3>6, <3>8, <3>9, <3>10, <3>11, SendKeeps
    <2>2. CASE Reports(n, "made") /\ Stop /\ UNCHANGED <<n, cmds, wire>>
      BY <1>3, <2>2, IdleDialog DEF Stop
    <2> QED BY <1>8, <2>1, <2>2 DEF Respond, Receipts
  <1>9. CASE mgr[n] \in Receipts /\ cmds[n].op = "approve"
    <2>1. Reports(n, "accepted") /\ Goto("starting") /\ UNCHANGED <<n, cmds, wire>>
      BY <1>9 DEF Respond, Receipts
    <2>2. ui' \in Dialogs /\ ui'.pc = "starting" /\ ui'.op = ui.op
      BY <1>2, <2>1 DEF Goto, Dialogs
    <2>3. DialogInv'
      BY <1>2, <2>2 DEF DialogInv, AfterSend
    <2> QED BY <1>3, <2>1, <2>2, <2>3
  <1>10. CASE mgr[n] \in Receipts /\ cmds[n].op # "approve"
    <2>1. Goto("settling") /\ UNCHANGED <<n, cmds, report, wire>>
      BY <1>10 DEF Respond, Receipts
    <2> QED BY <1>4, <1>10, <2>1
  <1>11. mgr[n] = "made" => cmds[n].op \in Direct
    BY <1>2 DEF CommandsInv, RecordInv
  <1> QED BY <1>2, <1>5, <1>6, <1>7, <1>8, <1>9, <1>10, <1>11 DEF Direct

-----------------------------------------------------------------------------
(* Nothing is sent, seen or typed at the start.                            *)
LEMMA InvInit == Init => CommandsInv
  <1> SUFFICES ASSUME Init PROVE CommandsInv
    OBVIOUS
  <1>1. PICK named \in BOOLEAN, phase \in {"none", "draft", "queued"} :
          m = [rev |-> [r \in Resources |-> 1], head |-> "d", text |-> 0, running |-> TRUE,
               busy |-> FALSE, prep |-> 0, run |-> 0, children |-> 0, named |-> named, phase |-> phase]
    BY DEF Init
  <1>2. m \in Managers /\ m.rev["exports"] = 1 /\ m.head = "d" /\ m.children = 0
    <2>1. \A b \in BOOLEAN :
            [rev |-> [r \in Resources |-> 1], head |-> "d", text |-> 0, running |-> TRUE,
             busy |-> FALSE, prep |-> 0, run |-> 0, children |-> 0, named |-> b, phase |-> phase] \in Managers
      BY DEF Managers
    <2> QED BY <1>1, <2>1 DEF Resources
  <1>3. /\ mgr = [i \in Ids |-> "none"] /\ took = [i \in Ids |-> FALSE] /\ fresh = [i \in Ids |-> TRUE]
        /\ wire = {} /\ others = 0 /\ bid = 1 /\ n = 0 /\ cmds = [i \in Ids |-> NoCommand]
        /\ report = [i \in Ids |-> "none"] /\ ui = Idle /\ draft = FALSE /\ typed = FALSE /\ world \in Worlds
    BY DEF Init
  <1>4. cmds \in [Ids -> Commands]
    BY <1>3 DEF NoCommand, Commands
  <1>5. ui \in Dialogs /\ ui.pc = "idle" /\ ui.op = "none"
    BY <1>3 DEF Idle, Dialogs
  <1>6. Types
    <2>1. \A i \in Ids : cmds[i].to \in 0..2 /\ cmds[i].basis \in {"none"} \cup Resources
      BY <1>4 DEF Commands
    <2>2. took \in [Ids -> BOOLEAN] /\ fresh \in [Ids -> BOOLEAN] /\ draft \in BOOLEAN /\ typed \in BOOLEAN
      BY <1>3, Zenon
    <2>3. /\ mgr \in [Ids -> Receipts \cup {"none", "stale", "problem", "made"}]
          /\ report \in [Ids -> Receipts \cup {"none", "made", "stale", "unsent", "uncertain", "observed"}]
          /\ wire \subseteq 1..n /\ others \in 0..MaxChanges /\ bid \in 1..2 /\ n \in 0..MaxCommands
      BY <1>3, CommandsAssumption
    <2> QED BY <1>2, <1>3, <1>4, <1>5, <2>1, <2>2, <2>3 DEF Types, TypeOK, Managers
  <1>7. DialogInv
    BY <1>5 DEF DialogInv, AfterSend
  <1>8. RecordInv
    BY <1>3 DEF RecordInv, Ids
  <1> QED BY <1>2, <1>3, <1>6, <1>7, <1>8
      DEF CommandsInv, CommandInv, FreshInv, UntouchedInv, ObservedIsOurs, StoredInv, DraftInv

(* Every step of the manager, of others and of the client keeps it.        *)
LEMMA InvStep == CommandsInv /\ [Next]_vars => CommandsInv'
  <1> SUFFICES ASSUME CommandsInv, [Next]_vars PROVE CommandsInv'
    OBVIOUS
  <1>1. CASE \E i \in Ids : Arrive(i) \/ Lost(i) \/ Settles(i)
    BY <1>1, ArriveKeeps, LostKeeps, SettlesKeeps
  <1>2. CASE Prepared \/ OtherActs \/ Switch
    BY <1>2, PreparedKeeps, OtherActsKeeps, SwitchKeeps
  <1>3. CASE \E op \in Operations : Begin(op)
    BY <1>3, BeginKeeps
  <1>4. CASE Look \/ LookControls \/ Confirm \/ Decline \/ ReadBasis
    BY <1>4, LookKeeps, LookControlsKeeps, ConfirmKeeps, DeclineKeeps, ReadBasisKeeps
  <1>5. CASE Outcome
    BY <1>5, RespondKeeps, GiveUpKeeps, ReconcileKeeps, SettleKeeps DEF Outcome
  <1>6. CASE Reread \/ Await
    BY <1>6, RereadKeeps, AwaitKeeps
  <1>7. CASE UNCHANGED vars
    <2>1. UNCHANGED <<managerVars, bid, n, cmds, report, ui, draft, typed>>
      BY <1>7 DEF vars, clientVars
    <2>2. UNCHANGED <<world, m, mgr>> /\ OpsOf' = OpsOf
      BY <2>1 DEF managerVars, OpsOf
    <2>3. DialogInv'
      BY <2>1, <2>2 DEF CommandsInv, DialogInv, Current
    <2> QED BY <2>1, <2>3, DialogKeeps DEF CommandsInv, Types, TypeOK
  <1> QED BY <1>1, <1>2, <1>3, <1>4, <1>5, <1>6, <1>7 DEF Next

(* CommandsInv holds in every state of a behaviour.                        *)
LEMMA CommandsInvariant == Spec => []CommandsInv
  BY InvInit, InvStep, PTL DEF Spec

(* A command that the records of ManagerRequests call refused (a 412, a    *)
(* reference of an earlier binding, a receipt "refused") never takes       *)
(* effect at the manager, whatever is lost, late or done by others.        *)
THEOREM RefusalsHold == Spec => []RefusedHasNoEffect
  <1>1. CommandsInv => RefusedHasNoEffect
    BY TypeFacts DEF CommandsInv, RecordInv, RefusedHasNoEffect
  <1> QED BY <1>1, CommandsInvariant, PTL

(* The entity tag of If-Match makes every accepted command act on what the *)
(* user or the confirming human saw when deciding.                         *)
THEOREM SeenIsWhatActs == Spec => []ActsOnWhatWasSeen
  <1>1. CommandsInv => ActsOnWhatWasSeen
    BY TypeFacts DEF CommandsInv, FreshInv, ActsOnWhatWasSeen
  <1> QED BY <1>1, CommandsInvariant, PTL

(* What reconcileCommand reports as observed happened: by this client if   *)
(* nobody else acted, and a stored answer is the one the run keeps.        *)
THEOREM ReportsAreReal == Spec => []ReportedEffectIsReal
  <1>1. CommandsInv => ReportedEffectIsReal
    BY DEF CommandsInv, Types, StoredInv, ReportedEffectIsReal, StoredAnswerStands
  <1> QED BY <1>1, CommandsInvariant, PTL

(* A draft that ManagerRequests drops was typed for an effect that took    *)
(* place or was observed.                                                  *)
THEOREM DraftsAreKept == Spec => []DraftKept
  <1>1. CommandsInv => DraftKept
    BY DEF CommandsInv, StoredInv, DraftInv, DraftKept
  <1> QED BY <1>1, CommandsInvariant, PTL
=============================================================================
