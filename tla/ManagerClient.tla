--------------------------- MODULE ManagerClient ---------------------------
(***************************************************************************)
(* The manager client of the Pi extension: ManagerSession of               *)
(* ext-pi/src/manager/session.ts with the refresh coordinator of           *)
(* refresh.ts and the follow loop of transport.ts, under ServiceMode of    *)
(* ext-pi/src/service-mode.ts.                                             *)
(*                                                                         *)
(* A manager changes resources and appends an invalidation for each change *)
(* to its event log.  The client reads resources one at a time on its read *)
(* lane, follows the log from the cursor of its overview, and reads a      *)
(* watched resource again after each invalidation.  A 410 makes it read a  *)
(* new overview, and a selection moves the session to another endpoint     *)
(* while reads, events and timers of the earlier binding are in flight.    *)
(*                                                                         *)
(* What a read returns is abstracted to the position of the event log at   *)
(* which the manager answered it, taken between request and response.      *)
(* Resources of one endpoint do not lie below one another.                 *)
(***************************************************************************)
EXTENDS Naturals, Sequences, FiniteSetsExt, SequencesExt

CONSTANTS
  Endpoints,    \* the managers that the configured profiles name
  Keys,         \* the resources that may be watched, without the overview
  Members,      \* the keys isMemberResource holds of
  Overview,     \* the refresh key of the overview, "/v1/snapshot"
  None,
  Setups        \* bounds: changes, bindings and failures; granted profiles; endpoints, keys

ASSUME ClientAssumption ==
  /\ Members \subseteq Keys
  /\ Overview \notin Keys
  /\ Setups \subseteq [changes : Nat, bindings : Nat \ {0}, failures : Nat,
                       profiles : Nat \ {0}, endpoints : SUBSET Endpoints, keys : SUBSET Keys]

VARIABLES
  setup,        \* the member of Setups that bounds this behaviour
  log,          \* log[e]: the resources named by the event log of manager e
  oldest,       \* oldest[e]: cursors below this position give 410
  failures,     \* the refusals and transport failures still to come
  bindings,     \* the endpoint of every transport made; a binding is its index
  open,         \* the transports that are not closed
  closed,       \* ServiceMode.close was called
  sel,          \* the selection in progress
  conn,         \* ServiceMode.#connection
  sess,         \* ServiceMode.#session, named by its first binding; 0 for undefined
  bid,          \* #transport and #identity of the session
  gen,          \* #refresh.generation
  flights,      \* #refresh.flights
  lane,         \* the fetches of #lane that have not started
  reading,      \* the fetch of #lane that awaits its response
  watched,      \* #watched
  installed,    \* #installed and, for Overview, #overview
  rereads,      \* the timers of #complete
  follow,       \* the follow loop
  naming,       \* #naming, the catalogue read in flight
  names,        \* the binding whose catalogue gave #names
  unnamed,      \* the binding that #unnamed was asked for
  namesOf       \* #namesOf

managerVars == <<log, oldest>>
refreshVars == <<gen, flights, lane>>
namesVars   == <<naming, names, unnamed, namesOf>>
vars == <<setup, managerVars, failures, bindings, open, closed, sel, conn, sess, bid,
          refreshVars, reading, watched, installed, rereads, follow, namesVars>>

AllKeys == Keys \cup {Overview}
End(e) == Len(log[e])
Ep(b) == bindings[b]

(* An outcome of a read: its kind, where in the log it was answered, and   *)
(* the binding whose transport carried it.                                 *)
Read(k, p, b) == [kind |-> k, at |-> p, bid |-> b]
Unread == Read("unread", 0, 0)

NoSel == [pc |-> "idle", ep |-> None, bid |-> 0, from |-> 0, at |-> 0]
NoFollow == [pc |-> "off", bid |-> 0, at |-> 0, gen |-> 0]
NoFlight == [gen |-> 0, dirty |-> FALSE, on |-> FALSE]
Flight(g, d) == [gen |-> g, dirty |-> d, on |-> TRUE]
Idle == [k \in AllKeys |-> NoFlight]

-----------------------------------------------------------------------------
(* The pure coordinator of refresh.ts, on a record of the two variables    *)
(* and the fetches that #perform appends to the lane.                      *)
Refresh == [gen |-> gen, flights |-> flights, lane |-> lane]

(* The caller's part of a fetch action: #perform.                          *)
WithFetch(r, k) == [r EXCEPT !.lane = Append(@, [key |-> k, gen |-> r.gen])]

(* Mutant: an invalidation during a fetch is dropped.                      *)
InvalidateForgetful(flight) == IF flight.on THEN flight ELSE Flight(gen, FALSE)

(* A resource with a fetch in flight becomes dirty, an idle one is fetched.*)
InvalidateResource(flight) ==
  IF flight.on THEN [flight EXCEPT !.dirty = TRUE] ELSE Flight(gen, FALSE)

(* #invalidate of several resources, in the order of #watched.             *)
Invalidate(ks) ==
  LET idle == SetToSeq({k \in ks : ~flights[k].on})
  IN  [gen |-> gen,
       flights |-> [k \in AllKeys |-> IF k \in ks THEN InvalidateResource(flights[k]) ELSE flights[k]],
       lane |-> lane \o [i \in DOMAIN idle |-> [key |-> idle[i], gen |-> gen]]]

Installs(k, g) == flights[k].on /\ g = gen /\ flights[k].gen = gen

CompleteFetch(k, g) ==
  IF ~Installs(k, g) THEN Refresh
  ELSE IF flights[k].dirty
       THEN WithFetch([Refresh EXCEPT !.flights[k] = Flight(gen, FALSE)], k)
       ELSE [Refresh EXCEPT !.flights[k] = NoFlight]

AdvanceGeneration == [gen |-> gen + 1, flights |-> Idle, lane |-> lane]

SetRefresh(r) == gen' = r.gen /\ flights' = r.flights /\ lane' = r.lane

-----------------------------------------------------------------------------
(* The outcomes a request of binding b that was sent at position p may     *)
(* have now.  A transport that is closed, or no longer the session's,      *)
(* gives only a failure.                                                   *)
Outcomes(b, p) ==
  (IF b \in open /\ b \in {bid, sel.bid} THEN {Read("ok", q, b) : q \in p..End(Ep(b))} ELSE {})
    \cup (IF b \notin open \/ b \notin {bid, sel.bid} \/ failures > 0
          THEN {Read("failed", p, b)} ELSE {})
    \cup (IF b \in open /\ failures > 0 THEN {Read("transient", p, b)} ELSE {})

(* A failure that a closed transport gives is not one of the bounded ones. *)
Spend(out) ==
  failures' = IF out.kind # "ok" /\ out.bid \in open /\ failures > 0 THEN failures - 1
              ELSE failures

(* #wake calls onChange, which is ServiceMode.#install: it derives the     *)
(* connection from the session and starts a catalogue read when the        *)
(* overview names a workflow without a name.                               *)
Install(s, b, over, ended) ==
  IF closed \/ s = 0 THEN UNCHANGED <<conn, namesVars>>
  ELSE IF ended THEN conn' = "ended" /\ UNCHANGED namesVars
  ELSE LET name   == IF namesOf = b THEN names ELSE 0
           absent == IF namesOf = b THEN unnamed ELSE 0
       IN /\ conn' = "connected"
          /\ namesOf' = b /\ names' = name /\ unnamed' = absent
          /\ naming' = IF naming = None /\ over.kind = "ok" /\ name = 0 /\ absent = 0
                       THEN [sess |-> s, asked |-> b, bid |-> b, left |-> setup.profiles,
                             found |-> 0]
                       ELSE naming

Quiet == UNCHANGED <<conn, namesVars>>

-----------------------------------------------------------------------------
(* The manager, which is outside the extension.                            *)
Change(e, k) ==
  /\ MapThenSumSet(End, Endpoints) < setup.changes
  /\ log' = [log EXCEPT ![e] = Append(@, k)]
  /\ UNCHANGED <<setup, oldest, failures, bindings, open, closed, sel, conn, sess, bid,
                 refreshVars, reading, watched, installed, rereads, follow, namesVars>>

Expire(e) ==
  /\ oldest[e] < End(e)
  /\ oldest' = [oldest EXCEPT ![e] = End(e)]
  /\ UNCHANGED <<setup, log, failures, bindings, open, closed, sel, conn, sess, bid,
                 refreshVars, reading, watched, installed, rereads, follow, namesVars>>

-----------------------------------------------------------------------------
(* The read lane of the session.                                           *)

(* Mutant: a queued fetch is read whatever its generation.                 *)
FetchStartStale ==
  /\ reading = None /\ lane # << >>
  /\ LET f == Head(lane) IN
       reading' = [key |-> f.key, gen |-> f.gen, bid |-> bid, at |-> End(Ep(bid))]
  /\ lane' = Tail(lane)
  /\ UNCHANGED <<setup, managerVars, failures, bindings, open, closed, sel, conn, sess, bid,
                 gen, flights, watched, installed, rereads, follow, namesVars>>

(* #fetch: a queued fetch of an earlier generation is discarded unread.    *)
FetchStart ==
  /\ reading = None /\ lane # << >>
  /\ LET f == Head(lane) IN
       reading' = IF f.gen = gen
                  THEN [key |-> f.key, gen |-> f.gen, bid |-> bid, at |-> End(Ep(bid))]
                  ELSE None
  /\ lane' = Tail(lane)
  /\ UNCHANGED <<setup, managerVars, failures, bindings, open, closed, sel, conn, sess, bid,
                 gen, flights, watched, installed, rereads, follow, namesVars>>

(* Mutant: no timer is set.                                                *)
RereadNever(k, g, out) == {}

(* transientRead: the refusals that a later read can clear.                *)
RereadAfter(k, g, out) == IF out.kind = "transient" THEN {[key |-> k, gen |-> g]} ELSE {}

(* #complete, with the timer of a refusal that a later read can clear.     *)
FetchEnd ==
  /\ reading # None
  /\ \E out \in Outcomes(reading.bid, reading.at) :
       LET k == reading.key
           yes == Installs(k, reading.gen)
       IN /\ Spend(out)
          /\ SetRefresh(CompleteFetch(k, reading.gen))
          /\ installed' = IF yes THEN [installed EXCEPT ![k] = out] ELSE installed
          /\ rereads' = IF yes THEN rereads \cup RereadAfter(k, reading.gen, out) ELSE rereads
          /\ IF yes THEN Install(sess, bid, installed'[Overview], follow.pc = "ended")
             ELSE Quiet
  /\ reading' = None
  /\ UNCHANGED <<setup, managerVars, bindings, open, closed, sel, sess, bid, watched, follow>>

Reread(t) ==
  /\ t \in rereads
  /\ rereads' = rereads \ {t}
  /\ SetRefresh(IF sess # 0 /\ t.gen = gen /\ t.key \in watched
                THEN Invalidate({t.key}) ELSE Refresh)
  /\ UNCHANGED <<setup, managerVars, failures, bindings, open, closed, sel, conn, sess, bid,
                 reading, watched, installed, follow, namesVars>>

(* A command of the user interface watches a resource; it takes a session  *)
(* only while ServiceMode is connected.                                    *)
Watch(k) ==
  /\ conn = "connected" /\ sess # 0 /\ k \notin watched
  /\ watched' = watched \cup {k}
  /\ SetRefresh(Invalidate({k}))
  /\ UNCHANGED <<setup, managerVars, failures, bindings, open, closed, sel, conn, sess, bid,
                 reading, installed, rereads, follow, namesVars>>

-----------------------------------------------------------------------------
(* #follow over followEvents.  Reconnection, backoff and polling go on     *)
(* from the last delivered event, so a broken stream is no step here.      *)
Touched(r) == {k \in watched : IF k = Overview THEN r \in Members ELSE k = r}

Deliver ==
  /\ follow.pc = "follow" /\ follow.bid \in open
  /\ LET e == Ep(follow.bid) IN
       /\ oldest[e] <= follow.at /\ follow.at < End(e)
       /\ follow' = [follow EXCEPT !.at = @ + 1]
       /\ SetRefresh(IF follow.bid = bid THEN Invalidate(Touched(log[e][follow.at + 1]))
                     ELSE Refresh)
  /\ UNCHANGED <<setup, managerVars, failures, bindings, open, closed, sel, conn, sess, bid,
                 reading, watched, installed, rereads, namesVars>>

(* A 410: the generation advances and #bootstrap reads the overview.       *)
Resnapshot ==
  /\ follow.pc = "follow" /\ follow.bid \in open
  /\ follow.at < oldest[Ep(follow.bid)]
  /\ SetRefresh(AdvanceGeneration)
  /\ follow' = [pc |-> "boot", bid |-> bid, at |-> End(Ep(bid)), gen |-> gen + 1]
  /\ UNCHANGED <<setup, managerVars, failures, bindings, open, closed, sel, conn, sess, bid,
                 reading, watched, installed, rereads, namesVars>>

(* The end of that overview read.  A switch of the endpoint in between     *)
(* failed it, and the loop goes on with the binding of the switch.         *)
Continue(over) ==
  [pc |-> "follow", bid |-> bid, at |-> over.at, gen |-> 0]

Rebooted ==
  /\ follow.pc = "boot"
  /\ \E out \in Outcomes(follow.bid, follow.at) :
       LET ok == out.kind = "ok"
           same == follow.gen = gen
           go == ok \/ (follow.bid # bid /\ installed[Overview].kind = "ok")
       IN /\ Spend(out)
          /\ installed' = IF same THEN [installed EXCEPT ![Overview] = out] ELSE installed
          /\ SetRefresh(IF ok THEN Invalidate(watched \ {Overview}) ELSE Refresh)
          /\ follow' = IF go THEN Continue(IF ok THEN out ELSE installed[Overview])
                       ELSE [follow EXCEPT !.pc = "ended"]
          /\ IF same \/ ~go THEN Install(sess, bid, installed'[Overview], ~go) ELSE Quiet
  /\ UNCHANGED <<setup, managerVars, bindings, open, closed, sel, sess, bid, reading, watched,
                 rereads>>

(* Mutant: the loop ends without #wake.                                    *)
FollowRefusedSilently ==
  /\ follow.pc = "follow" /\ follow.bid \in open /\ failures > 0
  /\ failures' = failures - 1
  /\ follow' = [follow EXCEPT !.pc = "ended"]
  /\ Quiet
  /\ UNCHANGED <<setup, managerVars, bindings, open, closed, sel, sess, bid, refreshVars,
                 reading, watched, installed, rereads>>

(* A refused credential ends the loop.                                     *)
FollowRefused ==
  /\ follow.pc = "follow" /\ follow.bid \in open /\ failures > 0
  /\ failures' = failures - 1
  /\ follow' = [follow EXCEPT !.pc = "ended"]
  /\ Install(sess, bid, installed[Overview], TRUE)
  /\ UNCHANGED <<setup, managerVars, bindings, open, closed, sel, sess, bid, refreshVars,
                 reading, watched, installed, rereads>>

(* The transport was closed by a switch: the loop goes on from the new     *)
(* overview.                                                               *)
FollowMoves ==
  /\ follow.pc = "follow" /\ follow.bid \notin open
  /\ IF installed[Overview].kind = "ok"
     THEN follow' = Continue(installed[Overview]) /\ Quiet
     ELSE /\ follow' = [follow EXCEPT !.pc = "ended"]
          /\ Install(sess, bid, installed[Overview], TRUE)
  /\ UNCHANGED <<setup, managerVars, failures, bindings, open, closed, sel, sess, bid,
                 refreshVars, reading, watched, installed, rereads>>

-----------------------------------------------------------------------------
(* ServiceMode.#select, one selection at a time.                           *)

(* The session of #select is dropped: nothing it still awaits is used.     *)
NoSession ==
  /\ sess' = 0 /\ bid' = 0
  /\ gen' = 0 /\ flights' = Idle /\ lane' = << >> /\ reading' = None
  /\ watched' = {} /\ installed' = [k \in AllKeys |-> Unread] /\ rereads' = {}
  /\ follow' = NoFollow

KeepSession ==
  UNCHANGED <<sess, bid, refreshVars, reading, watched, installed, rereads, follow>>

(* A following session switches; any other one is closed first.            *)
Select(e) ==
  /\ ~closed /\ sel.pc = "idle" /\ Len(bindings) < setup.bindings
  /\ IF sess # 0 /\ follow.pc # "ended"
     THEN /\ sel' = [NoSel EXCEPT !.pc = "load", !.ep = e, !.from = bid]
          /\ KeepSession /\ UNCHANGED <<open, conn>>
     ELSE /\ sel' = [NoSel EXCEPT !.pc = "load", !.ep = e]
          /\ NoSession /\ open' = open \ {bid} /\ conn' = "connecting"
  /\ UNCHANGED <<setup, managerVars, failures, bindings, closed, namesVars>>

(* ClientProfile.load, then the transport of the new binding.              *)
Load ==
  /\ sel.pc = "load"
  /\ \/ /\ ~closed
        /\ bindings' = Append(bindings, sel.ep)
        /\ open' = open \cup {Len(bindings')}
        /\ sel' = [sel EXCEPT !.pc = "bind", !.bid = Len(bindings')]
        /\ UNCHANGED <<failures, conn, namesVars>>
     \/ /\ ~closed /\ failures > 0
        /\ failures' = failures - 1
        /\ sel' = NoSel
        /\ IF sel.from # 0 THEN Install(sess, bid, installed[Overview], follow.pc = "ended")
           ELSE conn' = "failed" /\ UNCHANGED namesVars
        /\ UNCHANGED <<bindings, open>>
     \/ /\ closed
        /\ sel' = NoSel
        /\ UNCHANGED <<failures, bindings, open, conn, namesVars>>
  /\ KeepSession
  /\ UNCHANGED <<setup, managerVars, closed>>

(* The capabilities arrive.  A fresh connection becomes the session and    *)
(* reads its overview in start; a switch reads the overview beside the     *)
(* session.  After a close the next failed read ends either of them.       *)
Bind ==
  /\ sel.pc = "bind" /\ ~closed
  /\ sel' = [sel EXCEPT !.pc = "overview", !.at = End(sel.ep)]
  /\ IF sel.from # 0 THEN KeepSession
     ELSE /\ sess' = sel.bid /\ bid' = sel.bid /\ watched' = {Overview}
          /\ UNCHANGED <<refreshVars, reading, installed, rereads, follow>>
  /\ UNCHANGED <<setup, managerVars, failures, bindings, open, closed, conn, namesVars>>

(* start woke ServiceMode with its failed overview before the session was  *)
(* dropped.                                                                *)
Forget ==
  IF sel.pc = "overview" /\ sel.from = 0 /\ ~closed
  THEN namesOf' = bid /\ names' = 0 /\ unnamed' = 0 /\ UNCHANGED naming
  ELSE UNCHANGED namesVars

(* #bind, connect and switchEndpoint close the new transport.              *)
CloseNew(ts) == open \ (ts \cup {sel.bid})

(* The new transport is refused: a switch keeps the session if its loop    *)
(* still runs, and everything else ends without a session.                 *)
Refuse ==
  /\ sel.pc \in {"bind", "overview"} /\ (failures > 0 \/ closed)
  /\ failures' = IF closed THEN failures ELSE failures - 1
  /\ sel' = NoSel
  /\ IF sel.from # 0 /\ follow.pc # "ended" /\ ~closed
     THEN /\ KeepSession /\ Install(sess, bid, installed[Overview], FALSE)
          /\ open' = CloseNew({})
     ELSE /\ NoSession /\ open' = CloseNew({bid})
          /\ conn' = IF closed THEN conn ELSE "failed"
          /\ Forget
  /\ UNCHANGED <<setup, managerVars, bindings, closed>>

(* start has its overview: the loop follows from its cursor.               *)
Started ==
  /\ sel.pc = "overview" /\ sel.from = 0 /\ ~closed
  /\ \E out \in Outcomes(bid, sel.at) :
       /\ out.kind = "ok"
       /\ installed' = [installed EXCEPT ![Overview] = out]
       /\ follow' = Continue(out)
       /\ Install(sess, bid, out, FALSE)
  /\ sel' = NoSel
  /\ UNCHANGED <<setup, managerVars, failures, bindings, open, closed, sess, bid, refreshVars,
                 reading, watched, rereads>>

(* switchEndpoint commits.                                                 *)
Commit ==
  /\ sel.pc = "overview" /\ sel.from # 0 /\ ~closed
  /\ \E out \in Outcomes(sel.bid, sel.at) :
       /\ out.kind = "ok"
       /\ bid' = sel.bid
       /\ SetRefresh(AdvanceGeneration)
       /\ watched' = {Overview}
       /\ installed' = [k \in AllKeys |-> IF k = Overview THEN out ELSE Unread]
       /\ Install(sess, sel.bid, out, follow.pc = "ended")
  /\ open' = open \ {bid}
  /\ sel' = NoSel
  /\ UNCHANGED <<setup, managerVars, failures, bindings, closed, sess, reading, rereads, follow>>

(* ServiceMode.close.  A selection in progress finds it at its next step.  *)
Close ==
  /\ ~closed /\ closed' = TRUE
  /\ conn' = "closed"
  /\ open' = open \ {bid}
  /\ NoSession
  /\ UNCHANGED <<setup, managerVars, failures, bindings, sel, namesVars>>

-----------------------------------------------------------------------------
(* #loadNames: one page set for each granted profile, of the binding that  *)
(* is current when it is asked for; the names are installed at the end if  *)
(* the session and its identity are the ones of #namesOf.                  *)
NameRead ==
  /\ naming # None
  /\ LET same == naming.sess = sess
         live == same /\ naming.bid = bid
     IN \E found \in {naming.found} \cup (IF live THEN {bid} ELSE {}) :
          IF naming.left > 1
          THEN /\ naming' = [naming EXCEPT !.left = @ - 1, !.found = found,
                                           !.bid = IF same THEN bid ELSE @]
               /\ UNCHANGED <<names, unnamed>>
          ELSE /\ naming' = None
               /\ IF ~same \/ bid # namesOf THEN UNCHANGED <<names, unnamed>>
                  ELSE /\ names' = IF found # 0 THEN found ELSE names
                       /\ unnamed' = IF found # 0 THEN 0 ELSE naming.asked
  /\ UNCHANGED <<setup, managerVars, failures, bindings, open, closed, sel, conn, sess, bid,
                 refreshVars, reading, watched, installed, rereads, follow, namesOf>>

-----------------------------------------------------------------------------
Init ==
  /\ setup \in Setups
  /\ log = [e \in Endpoints |-> << >>] /\ oldest = [e \in Endpoints |-> 0]
  /\ failures = setup.failures
  /\ bindings = << >> /\ open = {} /\ closed = FALSE
  /\ sel = NoSel /\ conn = "connecting"
  /\ sess = 0 /\ bid = 0
  /\ gen = 0 /\ flights = Idle /\ lane = << >> /\ reading = None
  /\ watched = {} /\ installed = [k \in AllKeys |-> Unread] /\ rereads = {}
  /\ follow = NoFollow
  /\ naming = None /\ names = 0 /\ unnamed = 0 /\ namesOf = 0

FollowStep == Deliver \/ Resnapshot \/ Rebooted \/ FollowMoves
LaneStep   == FetchStart \/ FetchEnd
SelectStep == Load \/ Bind \/ Refuse \/ Started \/ Commit

Next ==
  \/ \E e \in setup.endpoints : Expire(e) \/ Select(e) \/ \E k \in setup.keys : Change(e, k)
  \/ LaneStep \/ FollowStep \/ SelectStep
  \/ FollowRefused \/ NameRead \/ Close
  \/ \E t \in rereads : Reread(t)
  \/ \E k \in setup.keys : Watch(k)

Spec == Init /\ [][Next]_vars

(* Requests are answered or time out, promises and timers run.             *)
FairSpec ==
  Spec /\ WF_vars(FollowStep) /\ WF_vars(LaneStep) /\ WF_vars(SelectStep)
       /\ WF_vars(\E t \in rereads : Reread(t))

-----------------------------------------------------------------------------
Binding == 0..setup.bindings
Reads == [kind : {"unread", "ok", "failed", "transient"}, at : Nat, bid : Binding]

(* Every variable stays within its type, a lane entry names a resource,    *)
(* and no more transports are made than selections bind.                   *)
TypeOK ==
  /\ setup \in Setups
  /\ log \in [Endpoints -> Seq(Keys)] /\ oldest \in [Endpoints -> Nat]
  /\ failures \in Nat /\ bindings \in Seq(Endpoints) /\ Len(bindings) <= setup.bindings
  /\ open \subseteq 1..Len(bindings) /\ closed \in BOOLEAN
  /\ sel \in [pc : {"idle", "load", "bind", "overview"}, ep : Endpoints \cup {None},
               bid : Binding, from : Binding, at : Nat]
  /\ conn \in {"connecting", "connected", "ended", "failed", "closed"}
  /\ {sess, bid, names, unnamed, namesOf} \subseteq Binding
  /\ gen \in Nat /\ flights \in [AllKeys -> [gen : Nat, dirty : BOOLEAN, on : BOOLEAN]]
  /\ lane \in Seq([key : AllKeys, gen : Nat])
  /\ reading \in [key : AllKeys, gen : Nat, bid : Binding, at : Nat] \cup {None}
  /\ watched \subseteq AllKeys /\ installed \in [AllKeys -> Reads]
  /\ rereads \subseteq [key : AllKeys, gen : Nat]
  /\ follow \in [pc : {"off", "follow", "boot", "ended"}, bid : Binding, at : Nat, gen : Nat]
  /\ naming \in [sess : Binding, asked : Binding, bid : Binding, left : Nat, found : Binding]
                 \cup {None}

Untouched(k, e, p, q) == \A i \in p + 1 .. q : k \notin Touched(log[e][i])

(* No invalidation is lost: when the loop has delivered the log up to its  *)
(* position, a watched resource without a fetch in flight was read after   *)
(* every change delivered so far, whatever reads, resnapshots and switches *)
(* overlapped.                                                             *)
NoLostInvalidation ==
  sess # 0 /\ follow.pc = "follow" /\ follow.bid = bid =>
    \A k \in watched :
      ~flights[k].on /\ installed[k].kind = "ok" =>
        Untouched(k, Ep(bid), installed[k].at, follow.at)

(* A fetch, an install or a timer of an earlier binding never reaches the  *)
(* next one: what is read from the current endpoint is watched there, and  *)
(* what is installed was carried by the current transport.                 *)
NoForeignRead ==
  /\ reading # None /\ reading.bid = bid => reading.key \in watched
  /\ \A k \in AllKeys : installed[k].kind # "unread" => installed[k].bid = bid /\ k \in watched

(* However selections, refusals and close overlap, an open transport is    *)
(* the one of the session or of the selection in progress.                 *)
NoLeakedTransport == open \subseteq {bid, sel.bid}

(* ServiceMode shows a connection only while its session has a follow loop *)
(* that runs, also when the loop ends during a switch.                     *)
ConnectedFollows == conn = "connected" => sess # 0 /\ follow.pc \in {"follow", "boot"}

(* A catalogue read that a switch of the binding overtakes is discarded:   *)
(* names, and the absence of names, come from the current binding.         *)
NamesAreOfBinding == {names, unnamed} \subseteq {0, namesOf}

Fresh ==
  \A k \in watched :
    \/ installed[k].kind = "failed"
    \/ installed[k].kind = "ok" /\ Untouched(k, Ep(bid), installed[k].at, End(Ep(bid)))

(* A session that stays connected ends up showing the current state of     *)
(* every watched resource once the manager stops changing, except where a  *)
(* read failed for good; a storage refusal is read again.                  *)
EventuallyFresh == <>[](conn = "connected") => <>[]Fresh

(* A switch separates two bindings: no read, answer or timer crosses it,   *)
(* and no transport of the earlier binding stays open.                     *)
BindingsAreSeparate == TypeOK /\ NoForeignRead /\ NoLeakedTransport
=============================================================================
