----------------------------- MODULE EventFollow -----------------------------
(***************************************************************************)
(* The event follow loop of one manager transport: followEvents and        *)
(* #pollUntil of ext-pi/src/manager/transport.ts, the stream parser of     *)
(* events.ts and the reconnection rule of refresh.ts.                      *)
(*                                                                         *)
(* The manager appends events to a log, hides some from this client and    *)
(* forgets old ones.  The client follows it from a cursor: over a stream   *)
(* that delivers chunk by chunk and may break anywhere, or by polling,     *)
(* which is its fallback and may be preferred.  A stream resumes after     *)
(* the last event delivered, never after one that was only received.       *)
(* Positions count from the cursor of the overview.                        *)
(***************************************************************************)
EXTENDS Naturals

CONSTANTS
  MaxEvents,           \* bound: events in the log
  BatchLimit,          \* events of one polling batch
  StreamFailureLimit,  \* STREAM_FAILURE_LIMIT
  MaxPollFailures,     \* bound: failed polling batches
  MaxMoves             \* bound: dropStream calls and changes of the preference

ASSUME FollowAssumption ==
  /\ MaxEvents \in Nat /\ BatchLimit \in Nat \ {0} /\ StreamFailureLimit \in Nat \ {0}
  /\ MaxPollFailures \in Nat /\ MaxMoves \in Nat

VARIABLES
  high, visible,   \* the log: its last position, the positions this client may see
  floor,           \* the oldest cursor the manager can resume from
  viewHeld,        \* the view the cursor belongs to is still the client's
  pc,              \* where the loop is
  until,           \* what ends the polling: "prefer" or "backoff"
  cursor,          \* the cursor of the loop
  latest, lastId,  \* last event delivered, last complete block parsed
  delivered,       \* the connection has delivered an item
  failures,        \* consecutive ends of the stream
  due,             \* the reconnection wait has passed
  prefer, drops, dropsAt, closed, moves, pollFailures,
  times,           \* how often each position was delivered
  end              \* how the loop ended

manager == <<high, visible, floor, viewHeld>>
vars == <<manager, pc, until, cursor, latest, lastId, delivered, failures, due,
          prefer, drops, dropsAt, closed, moves, pollFailures, times, end>>

Ends == {"none", "closed", "resnapshot", "refused"}
Position == 0..MaxEvents

Flags == /\ viewHeld \in BOOLEAN /\ delivered \in BOOLEAN
         /\ due \in BOOLEAN /\ closed \in BOOLEAN

Ranges ==
  /\ high \in Position /\ visible \subseteq 1..high /\ floor \in 0..high
  /\ pc \in {"top", "opening", "open", "sleeping", "polling", "pollSleep", "ended"}
  /\ until \in {"prefer", "backoff"}
  /\ cursor \in 0..high /\ latest \in 0..high /\ lastId \in 0..high
  /\ failures \in Nat /\ prefer \in {"sse", "poll"} /\ drops \in Nat /\ dropsAt \in Nat
  /\ moves \in Nat /\ pollFailures \in Nat
  /\ times \in [1..MaxEvents -> Nat] /\ end \in Ends

TypeOK == Ranges /\ Flags

Init ==
  /\ high = 0 /\ visible = {} /\ floor = 0 /\ viewHeld = TRUE
  /\ pc = "top" /\ until = "prefer" /\ cursor = 0 /\ latest = 0 /\ lastId = 0
  /\ delivered = FALSE /\ failures = 0 /\ due = FALSE
  /\ prefer = "sse" /\ drops = 0 /\ dropsAt = 0 /\ closed = FALSE
  /\ moves = 0 /\ pollFailures = 0 /\ times = [q \in 1..MaxEvents |-> 0] /\ end = "none"

-----------------------------------------------------------------------------
(* The manager: Events.hs.                                                 *)

Publish ==
  /\ high < MaxEvents /\ high' = high + 1
  /\ visible' \in {visible, visible \cup {high + 1}}
  /\ UNCHANGED <<floor, viewHeld, pc, until, cursor, latest, lastId, delivered, failures, due,
                 prefer, drops, dropsAt, closed, moves, pollFailures, times, end>>

(* The retention of the log advances, or the grants of the client change.  *)
Forget ==
  /\ \/ floor < high /\ floor' = floor + 1 /\ UNCHANGED viewHeld
     \/ viewHeld /\ viewHeld' = FALSE /\ UNCHANGED floor
  /\ UNCHANGED <<high, visible, pc, until, cursor, latest, lastId, delivered, failures, due,
                 prefer, drops, dropsAt, closed, moves, pollFailures, times, end>>

(* cursor-expired and view-expired, status 410.                            *)
Gone == cursor < floor \/ ~viewHeld

-----------------------------------------------------------------------------
(* The callers of the transport.                                           *)

SetPreference ==
  /\ moves < MaxMoves /\ moves' = moves + 1 /\ ~closed
  /\ prefer' = IF prefer = "sse" THEN "poll" ELSE "sse"
  /\ UNCHANGED <<manager, pc, until, cursor, latest, lastId, delivered, failures, due,
                 drops, dropsAt, closed, pollFailures, times, end>>

Close ==
  /\ ~closed /\ closed' = TRUE
  /\ UNCHANGED <<manager, pc, until, cursor, latest, lastId, delivered, failures, due,
                 prefer, drops, dropsAt, moves, pollFailures, times, end>>

-----------------------------------------------------------------------------
(* The ends of the loop: followEnd.                                        *)

Stop(how) ==
  /\ pc' = "ended" /\ end' = how

(* A failed request or stream: what followEnd answers, and otherwise the   *)
(* step that the loop takes.                                               *)
FollowEnd(failure, step) ==
  CASE failure = "gone"         -> Stop("resnapshot")
    [] failure = "unauthorized" -> Stop("refused")
    [] OTHER                    -> step /\ UNCHANGED end

(* close aborts every request and wait; what they give is fenced.          *)
Fenced ==
  /\ closed /\ pc # "ended" /\ Stop("closed")
  /\ UNCHANGED <<manager, until, cursor, latest, lastId, delivered, failures, due,
                 prefer, drops, dropsAt, closed, moves, pollFailures, times>>

-----------------------------------------------------------------------------
(* The stream.                                                             *)

Top ==
  /\ pc = "top" /\ ~closed
  /\ IF prefer = "poll"
       THEN /\ pc' = "polling" /\ until' = "prefer"
            /\ UNCHANGED <<latest, lastId, delivered, dropsAt>>
       ELSE /\ pc' = "opening" /\ latest' = cursor /\ lastId' = cursor /\ delivered' = FALSE
            /\ dropsAt' = drops /\ UNCHANGED until
  /\ UNCHANGED <<manager, cursor, failures, due, prefer, drops, closed, moves, pollFailures,
                 times, end>>

(* The stream response is accepted, unless a drop fell into its opening.   *)
Opened ==
  /\ pc = "opening" /\ ~closed /\ drops = dropsAt /\ ~Gone
  /\ pc' = "open"
  /\ UNCHANGED <<manager, until, cursor, latest, lastId, delivered, failures, due, prefer, drops,
                 dropsAt, closed, moves, pollFailures, times, end>>

(* Mutant: every connection counts as the first that failed.               *)
EndsForgotten == 1

(* The ends since the last connection that delivered, that one included;   *)
(* only the comparison with the limit matters beyond it.                   *)
EndsCounted ==
  LET n == (IF delivered THEN 0 ELSE failures) + 1
  IN IF n < StreamFailureLimit THEN n ELSE StreamFailureLimit

(* The end of a connection: the cursor it leaves, and then a sleep, or     *)
(* polling after a refusal or too many ends.  The variables of the         *)
(* connection go out of scope.                                             *)
Reconnect(at, failure) ==
  /\ cursor' = at
  /\ failures' = EndsCounted
  /\ due' = FALSE
  /\ FollowEnd(failure,
       IF failure = "refused" \/ failures' >= StreamFailureLimit
         THEN pc' = "polling" /\ until' = "backoff"
         ELSE pc' = "sleeping" /\ UNCHANGED until)
  /\ failure \in {"gone", "unauthorized"} => UNCHANGED until
  /\ latest' = 0 /\ lastId' = 0 /\ delivered' = FALSE /\ dropsAt' = 0
  /\ UNCHANGED <<manager, prefer, closed, pollFailures>>

(* The request fails, is refused or is answered with a stream that a drop  *)
(* has overtaken.                                                          *)
OpenFails ==
  /\ pc = "opening" /\ ~closed
  /\ \E failure \in {"transport", "refused", "unauthorized"} \cup (IF Gone THEN {"gone"} ELSE {}) :
       Reconnect(latest, failure)
  /\ UNCHANGED <<drops, moves, times>>

(* Deliver the visible positions after a and up to b.                      *)
Hand(a, b) ==
  times' = [q \in 1..MaxEvents |-> IF q \in visible /\ a < q /\ q <= b THEN times[q] + 1
                                                                       ELSE times[q]]

(* A chunk that completes the blocks up to p: its invalidations are        *)
(* delivered, or it holds none and a heartbeat is.                         *)
Chunk ==
  /\ pc = "open" /\ ~closed
  /\ \E p \in lastId..high :
       /\ lastId' = p
       /\ Hand(lastId, p)
       /\ latest' \in IF times' = times THEN {latest}
                      ELSE {q \in visible : q <= p /\ \A r \in visible : r <= p => r <= q}
       /\ delivered' \in IF times' = times THEN {delivered, TRUE} ELSE {TRUE}
  /\ UNCHANGED <<manager, pc, until, cursor, failures, due, prefer, drops, dropsAt, closed, moves,
                 pollFailures, end>>

(* Mutant: the loop resumes behind the blocks the bad chunk held.          *)
BadChunkAhead ==
  /\ pc = "open" /\ ~closed
  /\ \E p \in lastId..high : Reconnect(p, "invalid")
  /\ UNCHANGED <<drops, moves, times>>

(* A chunk with a block that refuses delivers none of its items, although  *)
(* the parser may already stand behind the blocks before it.               *)
BadChunk ==
  /\ pc = "open" /\ ~closed
  /\ Reconnect(latest, "invalid")
  /\ UNCHANGED <<drops, moves, times>>

(* The manager ends the response, or the idle bound passes: an incomplete  *)
(* last block is discarded.                                                *)
StreamEnds ==
  /\ pc = "open" /\ ~closed
  /\ Reconnect(lastId, "none")
  /\ UNCHANGED <<drops, moves, times>>

(* The connection breaks: what was delivered counts, the rest does not.    *)
StreamBreaks ==
  /\ pc = "open" /\ ~closed
  /\ Reconnect(latest, "transport")
  /\ UNCHANGED <<drops, moves, times>>

(* dropStream: the open stream breaks; one that opens is dropped later.    *)
DropStream ==
  /\ moves < MaxMoves /\ moves' = moves + 1 /\ ~closed
  /\ drops' = drops + 1
  /\ IF pc = "open"
       THEN Reconnect(latest, "transport")
       ELSE UNCHANGED <<manager, pc, until, cursor, latest, lastId, delivered, failures, due, prefer,
                        dropsAt, closed, pollFailures, end>>
  /\ UNCHANGED times

Wake ==
  /\ pc = "sleeping" /\ ~closed
  /\ pc' = "top"
  /\ UNCHANGED <<manager, until, cursor, latest, lastId, delivered, failures, due, prefer, drops,
                 dropsAt, closed, moves, pollFailures, times, end>>

(* The jittered wait before the next connection passes while polling.      *)
BackoffPasses ==
  /\ ~due /\ until = "backoff" /\ pc \in {"polling", "pollSleep"}
  /\ due' = TRUE
  /\ UNCHANGED <<manager, pc, until, cursor, latest, lastId, delivered, failures, prefer, drops,
                 dropsAt, closed, moves, pollFailures, times, end>>

-----------------------------------------------------------------------------
(* Polling.                                                                *)

(* Mutant: the cursor of a full batch is taken for every batch.            *)
PollBatchBeyond ==
  /\ pc = "polling" /\ ~closed /\ ~Gone
  /\ LET next == cursor + BatchLimit IN
       /\ Hand(cursor, next) /\ cursor' = next
       /\ pc' = IF next < high THEN "polling" ELSE "pollSleep"
  /\ UNCHANGED <<manager, until, latest, lastId, delivered, failures, due, prefer, drops, dropsAt,
                 closed, moves, pollFailures, end>>

(* A batch covers the next positions, the hidden ones too; its cursor is   *)
(* the last of them and hasMore asks for the next batch at once.           *)
PollBatch ==
  /\ pc = "polling" /\ ~closed /\ ~Gone
  /\ LET next == IF cursor + BatchLimit < high THEN cursor + BatchLimit ELSE high IN
       /\ Hand(cursor, next)
       /\ cursor' = next
       /\ pc' = IF next < high THEN "polling" ELSE "pollSleep"
  /\ UNCHANGED <<manager, until, latest, lastId, delivered, failures, due, prefer, drops, dropsAt,
                 closed, moves, pollFailures, end>>

(* Mutant: the end is reported and the loop polls on.                      *)
PollFailsOn ==
  /\ pc = "polling" /\ ~closed
  /\ pollFailures < MaxPollFailures /\ pollFailures' = pollFailures + 1
  /\ pc' = "pollSleep" /\ end' = "refused"
  /\ UNCHANGED <<manager, until, cursor, latest, lastId, delivered, failures, due, prefer, drops,
                 dropsAt, closed, moves, times>>

PollFails ==
  /\ pc = "polling" /\ ~closed
  /\ \E failure \in {"transport", "unauthorized"} \cup (IF Gone THEN {"gone"} ELSE {}) :
       /\ failure = "transport" => pollFailures < MaxPollFailures
       /\ pollFailures' = IF failure = "transport" THEN pollFailures + 1 ELSE pollFailures
       /\ FollowEnd(failure, pc' = "pollSleep")
  /\ UNCHANGED <<manager, until, cursor, latest, lastId, delivered, failures, due, prefer, drops,
                 dropsAt, closed, moves, times>>

(* done: the preference is the stream again, or the wait has passed.       *)
PollAgain ==
  /\ pc = "pollSleep" /\ ~closed
  /\ IF (until = "prefer" /\ prefer # "poll") \/ (until = "backoff" /\ (due \/ prefer = "poll"))
       THEN /\ pc' = "top" /\ due' = FALSE
            /\ failures' = IF until = "prefer" THEN 0 ELSE failures
       ELSE /\ pc' = "polling" /\ UNCHANGED <<failures, due>>
  /\ UNCHANGED <<manager, until, cursor, latest, lastId, delivered, prefer, drops, dropsAt,
                 closed, moves, pollFailures, times, end>>

Loop == \/ Top \/ Opened \/ OpenFails \/ Chunk \/ BadChunk \/ StreamEnds \/ StreamBreaks \/ Wake
        \/ BackoffPasses \/ PollBatch \/ PollFails \/ PollAgain \/ Fenced

Advance == Chunk /\ times' # times

Next == Publish \/ Forget \/ SetPreference \/ DropStream \/ Close \/ Loop
Spec == Init /\ [][Next]_vars

(* Every request ends within its timeout and every wait is finite.  Of the *)
(* manager only this: polling fails finitely often (the bound), and a      *)
(* stream that is accepted again and again with events pending does not    *)
(* withhold them for ever.  Streams may fail without bound.                *)
Fairness == WF_vars(Loop) /\ WF_vars(BackoffPasses) /\ SF_vars(Advance)
FairSpec == Spec /\ Fairness

-----------------------------------------------------------------------------
(* Properties.                                                             *)

(* No event reaches the session twice, however a stream ends and wherever  *)
(* the next one or a poll resumes.                                         *)
DeliveredOnce == \A q \in 1..MaxEvents : times[q] <= 1

(* The cursor from which the loop resumes never lies behind an event that  *)
(* was not delivered, and no event overtakes an earlier one.               *)
NoGap ==
  /\ \A q \in visible : q <= cursor => times[q] > 0
  /\ \A q, r \in visible : q < r /\ times[r] > 0 => times[q] > 0

(* A stream that dropStream overtook while it was opening never delivers:  *)
(* after a change to polling there is one source of events.                *)
DroppedIsSilent == pc = "open" => drops = dropsAt

Delivery == INSTANCE EventDelivery WITH over <- end # "none"

(* Streams, reconnections and polling together deliver what EventDelivery  *)
(* promises: in order, once, and nothing after the end.                    *)
ImplementsDelivery == Delivery!Spec

(* Every visible event arrives although every stream may fail: polling     *)
(* takes over.                                                             *)
EveryEventArrives ==
  \A q \in 1..MaxEvents : (q \in visible) ~> (times[q] > 0 \/ pc = "ended")

(* Polling as a fallback is left again for the stream.                     *)
FallbackEnds ==
  (pc = "polling" /\ until = "backoff") ~> (pc \in {"top", "ended"})

(* Each visible event arrives once and in order, and the loop resumes      *)
(* where the deliveries stand.                                             *)
InOrderOnce == DeliveredOnce /\ NoGap /\ DroppedIsSilent

(* Events keep arriving whichever streams fail, and streams are tried      *)
(* again.                                                                  *)
EventsKeepArriving == EveryEventArrives /\ FallbackEnds
=============================================================================
