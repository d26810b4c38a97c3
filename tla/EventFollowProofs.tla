-------------------------- MODULE EventFollowProofs --------------------------
(***************************************************************************)
(* Theorems about the event follow loop, for every log, batch size and     *)
(* failure limit.                                                          *)
(*                                                                         *)
(* DeliveredOnce and NoGap speak of the cursor, but while a stream is open *)
(* the cursor stands still and the deliveries run ahead of it.  Delivered  *)
(* says what they have reached: exactly the visible events up to the last  *)
(* block parsed (a stream) or up to the cursor (everywhere else), where    *)
(* nothing visible lies between the last event delivered and the last      *)
(* block parsed, so that resuming from either is the same.                 *)
(***************************************************************************)
EXTENDS EventFollow, TLAPS

(* Exactly the visible positions up to p have been delivered, once.        *)
UpTo(p) ==
  \A q \in 1..MaxEvents : times[q] = IF q \in visible /\ q <= p THEN 1 ELSE 0

Streaming == {"opening", "open"}

Delivered ==
  /\ pc \in Streaming =>
       /\ UpTo(lastId) /\ cursor <= lastId /\ latest <= lastId
       /\ \A q \in visible : q <= lastId => q <= latest
  /\ pc \notin Streaming \cup {"ended"} => UpTo(cursor)
  /\ pc = "ended" => \E p \in 0..high : cursor <= p /\ UpTo(p)

Inv == Ranges /\ Delivered /\ DroppedIsSilent /\ (end # "none" <=> pc = "ended")

(* What a connection that ends does to the variables of the loop.          *)
LEMMA ReconnectEnds ==
  ASSUME Ranges, NEW at \in 0..high, NEW failure, Reconnect(at, failure)
  PROVE  /\ cursor' = at /\ latest' = 0 /\ lastId' = 0 /\ dropsAt' = 0
         /\ failures' \in Nat /\ until' \in {"prefer", "backoff"}
         /\ high' = high /\ visible' = visible /\ floor' = floor
         /\ prefer' = prefer /\ pollFailures' = pollFailures
         /\ \/ pc' = "ended" /\ end' \in Ends \ {"none"}
            \/ pc' \in {"polling", "sleeping"} /\ end' = end
<1>1. failures' \in Nat /\ until' \in {"prefer", "backoff"}
  BY FollowAssumption DEF Ranges, Reconnect, FollowEnd, Stop, EndsCounted
<1> QED
  BY <1>1 DEF Reconnect, FollowEnd, Stop, Ends, manager

(* An end of a connection keeps the invariant when it resumes from the     *)
(* last event delivered or from the last block parsed.                     *)
LEMMA ReconnectKeeps ==
  ASSUME Inv, pc \in Streaming, NEW at \in {latest, lastId}, NEW failure, Reconnect(at, failure),
         drops' \in Nat, moves' \in Nat, UNCHANGED times
  PROVE  Inv'
<1>1. Ranges /\ at \in 0..high
  BY DEF Inv, Ranges
<1>2. /\ cursor' = at /\ latest' = 0 /\ lastId' = 0 /\ dropsAt' = 0
      /\ failures' \in Nat /\ until' \in {"prefer", "backoff"}
      /\ high' = high /\ visible' = visible /\ floor' = floor
      /\ prefer' = prefer /\ pollFailures' = pollFailures
      /\ \/ pc' = "ended" /\ end' \in Ends \ {"none"}
         \/ pc' \in {"polling", "sleeping"} /\ end' = end
  BY <1>1, ReconnectEnds
<1>3. Ranges'
  BY <1>1, <1>2 DEF Ranges, Ends, Position
<1>4. UpTo(at)
  BY <1>1 DEF Inv, Delivered, UpTo, Ranges, Position
<1>5. UpTo(at)'
  BY <1>2, <1>4 DEF UpTo
<1>6. Delivered'
  BY <1>1, <1>2, <1>5 DEF Delivered, Streaming, Ranges, Position
<1> QED
  BY <1>2, <1>3, <1>6 DEF Inv, DroppedIsSilent, Streaming, Ends

-----------------------------------------------------------------------------
(* The steps that leave the positions of the loop alone.                   *)
Still == UNCHANGED <<high, visible, cursor, latest, lastId, times>>

LEMMA StillKeeps ==
  ASSUME Inv, Ranges', Still, UNCHANGED end, pc # "ended", pc' # "ended",
         pc' \in Streaming => pc \in Streaming,
         pc \in Streaming => pc' \in Streaming,
         DroppedIsSilent'
  PROVE  Inv'
<1>1. Delivered'
  BY DEF Inv, Delivered, UpTo, Still
<1> QED
  BY <1>1 DEF Inv

(* A step that ends the loop anywhere.                                     *)
LEMMA StopKeeps ==
  ASSUME Inv, Ranges', Still, pc # "ended", pc' = "ended", end' # "none"
  PROVE  Inv'
<1>1. \E p \in 0..high : cursor <= p /\ UpTo(p)
  <2>1. CASE pc \in Streaming
    BY <2>1 DEF Inv, Delivered, Ranges
  <2>2. CASE pc \notin Streaming
    BY <2>2 DEF Inv, Delivered, Ranges, Position
  <2> QED
    BY <2>1, <2>2
<1>2. Delivered'
  BY <1>1 DEF Delivered, UpTo, Still, Streaming
<1> QED
  BY <1>2 DEF Inv, DroppedIsSilent

(* A new position lies behind everything that was delivered.               *)
LEMMA PublishKeeps == Inv /\ Publish => Inv'
<1> SUFFICES ASSUME Inv, Publish PROVE Inv'
  OBVIOUS
<1>1. Ranges'
  BY FollowAssumption DEF Inv, Ranges, Publish, Position
<1>2. ASSUME NEW p \in 0..high, UpTo(p) PROVE UpTo(p)'
  BY <1>2, FollowAssumption DEF Inv, Ranges, Publish, Position, UpTo
<1>3. Delivered'
  <2>1. CASE pc \in Streaming
    <3>1. UpTo(lastId)'
      BY <2>1, <1>2 DEF Inv, Delivered, Ranges, Publish
    <3> QED
      BY <2>1, <3>1, FollowAssumption DEF Inv, Delivered, Ranges, Publish, Position, Streaming
  <2>2. CASE pc \notin Streaming \cup {"ended"}
    <3>1. UpTo(cursor)'
      BY <2>2, <1>2 DEF Inv, Delivered, Ranges, Publish
    <3> QED
      BY <2>2, <3>1 DEF Publish, Delivered, Streaming
  <2>3. CASE pc = "ended"
    <3>1. PICK p \in 0..high : cursor <= p /\ UpTo(p)
      BY <2>3 DEF Inv, Delivered
    <3>2. UpTo(p)' /\ p \in 0..high'
      BY <3>1, <1>2, FollowAssumption DEF Inv, Ranges, Publish, Position
    <3> QED
      BY <2>3, <3>1, <3>2 DEF Publish, Delivered, Streaming
  <2> QED
    BY <2>1, <2>2, <2>3
<1> QED
  BY <1>1, <1>3 DEF Inv, Publish, DroppedIsSilent

(* A chunk delivers exactly the visible events between the last block and  *)
(* the block it completes.                                                 *)
LEMMA ChunkKeeps == Inv /\ Chunk => Inv'
<1> SUFFICES ASSUME Inv, Chunk PROVE Inv'
  OBVIOUS
<1> USE FollowAssumption
<1>1. PICK p \in lastId..high :
        /\ lastId' = p
        /\ Hand(lastId, p)
        /\ latest' \in IF times' = times THEN {latest}
                       ELSE {q \in visible : q <= p /\ \A r \in visible : r <= p => r <= q}
  BY DEF Chunk
<1>2. /\ pc = "open" /\ pc' = "open" /\ high' = high /\ visible' = visible /\ floor' = floor
      /\ cursor' = cursor /\ drops' = drops /\ dropsAt' = dropsAt /\ end' = end
      /\ until' = until /\ failures' = failures /\ prefer' = prefer /\ moves' = moves
      /\ pollFailures' = pollFailures
  BY DEF Chunk, manager
<1>3. times' \in [1..MaxEvents -> Nat]
  BY <1>1 DEF Inv, Ranges, Hand
<1>4. UpTo(p)'
  BY <1>1, <1>2 DEF Inv, Delivered, Streaming, UpTo, Hand, Ranges, Position
<1>5. latest' \in 0..p /\ \A q \in visible : q <= p => q <= latest'
  <2>1. CASE times' = times
    <3>1. ASSUME NEW q \in visible, lastId < q, q <= p PROVE FALSE
      <4>1. q \in 1..MaxEvents /\ times'[q] = times[q] + 1 /\ times[q] \in Nat
        BY <1>1, <3>1 DEF Inv, Ranges, Position, Hand
      <4> QED
        BY <4>1, <2>1
    <3>2. latest' = latest
      BY <1>1, <2>1
    <3>3. \A q \in visible : q <= lastId => q <= latest
      BY <1>2 DEF Inv, Delivered, Streaming
    <3> QED
      BY <1>1, <1>2, <3>1, <3>2, <3>3 DEF Inv, Ranges, Position, Delivered, Streaming
  <2>2. CASE times' # times
    BY <1>1, <2>2 DEF Inv, Ranges, Position
  <2> QED
    BY <2>1, <2>2
<1>6. Ranges'
  BY <1>1, <1>2, <1>3, <1>5 DEF Inv, Ranges, Position, Ends
<1>7. Delivered'
  BY <1>1, <1>2, <1>4, <1>5 DEF Inv, Delivered, Streaming, Ranges, Position
<1> QED
  BY <1>2, <1>6, <1>7 DEF Inv, DroppedIsSilent

(* A batch delivers exactly the visible events that its cursor passes.     *)
LEMMA PollKeeps == Inv /\ PollBatch => Inv'
<1> SUFFICES ASSUME Inv, PollBatch PROVE Inv'
  OBVIOUS
<1> USE FollowAssumption
<1>1. PICK next \in cursor..high :
        Hand(cursor, next) /\ cursor' = next /\ pc' \in {"polling", "pollSleep"}
  BY DEF Inv, Ranges, Position, PollBatch
<1>2. /\ pc = "polling"
      /\ high' = high /\ visible' = visible /\ floor' = floor /\ end' = end
      /\ latest' = latest /\ lastId' = lastId /\ drops' = drops /\ dropsAt' = dropsAt
      /\ until' = until /\ failures' = failures /\ prefer' = prefer /\ moves' = moves
      /\ pollFailures' = pollFailures
  BY DEF PollBatch, manager
<1>3. times' \in [1..MaxEvents -> Nat]
  BY <1>1 DEF Inv, Ranges, Hand
<1>4. UpTo(next)'
  BY <1>1, <1>2 DEF Inv, Delivered, Streaming, UpTo, Hand, Ranges, Position
<1>5. Ranges'
  BY <1>1, <1>2, <1>3 DEF Inv, Ranges, Position, Ends
<1>6. Delivered'
  BY <1>1, <1>2, <1>4 DEF Delivered, Streaming, UpTo
<1> QED
  BY <1>1, <1>2, <1>5, <1>6 DEF Inv, DroppedIsSilent

-----------------------------------------------------------------------------
(* One step per action of the loop, its callers and the manager.           *)
LEMMA InvStep == Inv /\ [Next]_vars => Inv'
<1> SUFFICES ASSUME Inv, [Next]_vars PROVE Inv'
  OBVIOUS
<1> USE FollowAssumption
<1>1. CASE Publish
  BY <1>1, PublishKeeps
<1>2. CASE Forget
  BY <1>2 DEF Forget, Inv, Ranges, Position, Ends, Delivered, UpTo, DroppedIsSilent
<1>3. CASE SetPreference
  BY <1>3 DEF SetPreference, manager, Inv, Ranges, Position, Ends, Delivered, UpTo, DroppedIsSilent
<1>4. CASE Close
  BY <1>4 DEF Close, manager, Inv, Ranges, Position, Ends, Delivered, UpTo, DroppedIsSilent
<1>5. CASE DropStream
  <2>1. drops' \in Nat /\ moves' \in Nat /\ UNCHANGED times
    BY <1>5 DEF DropStream, Inv, Ranges
  <2>2. CASE pc = "open"
    <3>1. Reconnect(latest, "transport") /\ pc \in Streaming
      BY <1>5, <2>2 DEF DropStream, Streaming
    <3> QED
      BY <2>1, <3>1, ReconnectKeeps
  <2>3. CASE pc # "open"
    BY <1>5, <2>1, <2>3
    DEF DropStream, manager, Inv, Ranges, Position, Ends, Delivered, UpTo, DroppedIsSilent
  <2> QED
    BY <2>2, <2>3
<1>6. CASE Top
  <2>1. CASE prefer = "poll"
    BY <1>6, <2>1
    DEF Top, manager, Inv, Ranges, Position, Ends, Delivered, UpTo, Streaming, DroppedIsSilent
  <2>2. CASE prefer # "poll"
    BY <1>6, <2>2
    DEF Top, manager, Inv, Ranges, Position, Ends, Delivered, UpTo, Streaming, DroppedIsSilent
  <2> QED
    BY <2>1, <2>2
<1>7. CASE Opened
  <2>1. Ranges' /\ DroppedIsSilent'
    BY <1>7 DEF Opened, manager, Inv, Ranges, Position, Ends, DroppedIsSilent
  <2> QED
    BY <1>7, <2>1, StillKeeps DEF Opened, manager, Still, Streaming
<1>8. CASE OpenFails
  <2>1. drops' \in Nat /\ moves' \in Nat /\ UNCHANGED times /\ pc \in Streaming
    BY <1>8 DEF OpenFails, Streaming, Inv, Ranges
  <2>2. PICK failure : Reconnect(latest, failure)
    BY <1>8 DEF OpenFails
  <2> QED
    BY <2>1, <2>2, ReconnectKeeps
<1>9. CASE Chunk
  BY <1>9, ChunkKeeps
<1>10. CASE BadChunk \/ StreamEnds \/ StreamBreaks
  <2>1. drops' \in Nat /\ moves' \in Nat /\ UNCHANGED times /\ pc \in Streaming
    BY <1>10 DEF BadChunk, StreamEnds, StreamBreaks, Streaming, Inv, Ranges
  <2>2. \/ Reconnect(latest, "invalid") \/ Reconnect(lastId, "none")
        \/ Reconnect(latest, "transport")
    BY <1>10 DEF BadChunk, StreamEnds, StreamBreaks
  <2>3. ASSUME NEW at \in {latest, lastId}, NEW failure, Reconnect(at, failure) PROVE Inv'
    BY <2>1, <2>3, ReconnectKeeps
  <2> QED
    BY <2>2, <2>3
<1>11. CASE Wake
  <2>1. Ranges' /\ DroppedIsSilent'
    BY <1>11 DEF Wake, manager, Inv, Ranges, Position, Ends, DroppedIsSilent
  <2> QED
    BY <1>11, <2>1, StillKeeps DEF Wake, manager, Still, Streaming
<1>12. CASE BackoffPasses
  <2>1. Ranges' /\ DroppedIsSilent'
    BY <1>12 DEF BackoffPasses, manager, Inv, Ranges, Position, Ends, DroppedIsSilent
  <2> QED
    BY <1>12, <2>1, StillKeeps DEF BackoffPasses, manager, Still, Streaming
<1>13. CASE PollBatch
  BY <1>13, PollKeeps
<1>14. CASE PollFails
  <2>1. PICK failure :
          /\ pollFailures' = IF failure = "transport" THEN pollFailures + 1 ELSE pollFailures
          /\ FollowEnd(failure, pc' = "pollSleep")
    BY <1>14 DEF PollFails
  <2>2. \/ pc' = "ended" /\ end' \in Ends \ {"none"}
        \/ pc' = "pollSleep" /\ end' = end
    BY <2>1 DEF FollowEnd, Stop, Ends
  <2>3. Ranges' /\ DroppedIsSilent'
    BY <1>14, <2>1, <2>2 DEF PollFails, manager, Inv, Ranges, Position, Ends, DroppedIsSilent
  <2>4. Still /\ pc = "polling"
    BY <1>14 DEF PollFails, manager, Still
  <2> QED
    BY <2>2, <2>3, <2>4, StillKeeps, StopKeeps DEF Streaming, Ends
<1>15. CASE PollAgain
  <2>1. Ranges' /\ DroppedIsSilent'
    BY <1>15 DEF PollAgain, manager, Inv, Ranges, Position, Ends, DroppedIsSilent
  <2> QED
    BY <1>15, <2>1, StillKeeps DEF PollAgain, manager, Still, Streaming
<1>16. CASE Fenced
  <2>1. Ranges'
    BY <1>16 DEF Fenced, Stop, manager, Inv, Ranges, Position, Ends
  <2> QED
    BY <1>16, <2>1, StopKeeps DEF Fenced, Stop, manager, Still
<1>17. CASE UNCHANGED vars
  BY <1>17 DEF vars, manager, Inv, Ranges, Position, Ends, Delivered, UpTo, DroppedIsSilent
<1> QED
  BY <1>1, <1>2, <1>3, <1>4, <1>5, <1>6, <1>7, <1>8, <1>9, <1>10, <1>11, <1>12, <1>13, <1>14,
     <1>15, <1>16, <1>17 DEF Next, Loop

LEMMA InvInit == Init => Inv
BY FollowAssumption
DEF Init, Inv, Ranges, Position, Ends, Delivered, UpTo, Streaming, DroppedIsSilent

LEMMA InvHolds == Spec => []Inv
BY InvInit, InvStep, PTL DEF Spec

-----------------------------------------------------------------------------
(* Each visible event arrives once and in order, the cursor of the loop    *)
(* never passes one that was not delivered, and a stream that a drop       *)
(* overtook while it was opening never delivers.                           *)
THEOREM DeliversInOrderOnce == Spec => []InOrderOnce
<1>1. ASSUME Inv PROVE InOrderOnce
  <2>1. PICK p \in 0..high : cursor <= p /\ UpTo(p)
    <3>1. CASE pc \in Streaming
      BY <1>1, <3>1 DEF Inv, Delivered, Ranges
    <3>2. CASE pc \notin Streaming
      BY <1>1, <3>2 DEF Inv, Delivered, Ranges, Position
    <3> QED
      BY <3>1, <3>2
  <2>2. NoGap
    BY <1>1, <2>1, FollowAssumption DEF Inv, UpTo, Ranges, Position, NoGap
  <2>3. DeliveredOnce
    BY <1>1, <2>1, FollowAssumption DEF Inv, UpTo, Ranges, Position, DeliveredOnce
  <2> QED
    BY <1>1, <2>2, <2>3 DEF Inv, InOrderOnce
<1> QED
  BY <1>1, InvHolds, PTL

(* Every variable of the loop keeps its type: cursors stay within the log. *)
THEOREM TypeCorrect == Spec => []TypeOK
<1>1. Init => Flags
  BY DEF Init, Flags
<1>2. Flags /\ [Next]_vars => Flags'
  <2> SUFFICES ASSUME Flags, [Next]_vars PROVE Flags'
    OBVIOUS
  <2>1. ASSUME NEW at, NEW failure, Reconnect(at, failure) PROVE Flags'
    BY <2>1, Zenon DEF Reconnect, manager, Flags
  <2>2. CASE Publish \/ SetPreference \/ Close
    BY <2>2, Zenon DEF Publish, SetPreference, Close, manager, Flags
  <2>3. CASE Forget
    BY <2>3, Zenon DEF Forget, Flags
  <2>4. CASE DropStream
    BY <2>4, <2>1, Zenon DEF DropStream, manager, Flags
  <2>5. CASE Top
    BY <2>5, Zenon DEF Top, manager, Flags
  <2>6. CASE OpenFails \/ BadChunk \/ StreamEnds \/ StreamBreaks
    BY <2>6, <2>1, Zenon DEF OpenFails, BadChunk, StreamEnds, StreamBreaks
  <2>7. CASE Chunk
    BY <2>7, Zenon DEF Chunk, manager, Flags
  <2>8. CASE Opened \/ Wake \/ BackoffPasses \/ Fenced
    BY <2>8, Zenon DEF Opened, Wake, BackoffPasses, Fenced, manager, Flags
  <2>9. CASE PollBatch \/ PollFails
    BY <2>9, Zenon DEF PollBatch, PollFails, manager, Flags
  <2>10. CASE PollAgain
    BY <2>10, Zenon DEF PollAgain, manager, Flags
  <2>11. CASE UNCHANGED vars
    BY <2>11, Zenon DEF vars, manager, Flags
  <2> QED
    BY <2>2, <2>3, <2>4, <2>5, <2>6, <2>7, <2>8, <2>9, <2>10, <2>11 DEF Next, Loop
<1>3. Inv /\ Flags => TypeOK
  BY DEF Inv, TypeOK
<1> QED
  BY <1>1, <1>2, <1>3, InvHolds, PTL DEF Spec

(* Once the loop has ended nothing more is delivered, and what a step      *)
(* delivers is everything visible up to some position.                     *)
LEMMA HandDelivers ==
  ASSUME Inv, NEW a \in 0..high, NEW b \in 0..high, a <= b, UpTo(a), Hand(a, b), end = "none",
         end' = end, high' = high, visible' = visible
  PROVE  Delivery!Deliver \/ times' = times
<1>1. CASE b = 0
  BY <1>1, FollowAssumption DEF Hand, Inv, Ranges, Position
<1>2. CASE b # 0
  <2>1. b \in 1..high
    BY <1>2 DEF Inv, Ranges, Position
  <2>2. times' = [q \in 1..MaxEvents |-> IF q \in visible /\ q <= b THEN 1 ELSE times[q]]
    BY FollowAssumption DEF Hand, UpTo, Inv, Ranges, Position
  <2> QED
    BY <2>1, <2>2 DEF Delivery!Deliver
<1> QED
  BY <1>1, <1>2

(* The loop of streams, reconnections and polling implements EventDelivery *)
(* : every step delivers a prefix of the visible events once, ends the     *)
(* delivery, or is invisible.                                              *)
THEOREM RefinesDelivery == Spec => ImplementsDelivery
<1>1. Init => Delivery!Init
  BY DEF Init, Delivery!Init
<1>2. Inv /\ [Next]_vars => [Delivery!Next]_(Delivery!vars)
  <2> SUFFICES ASSUME Inv, [Next]_vars PROVE [Delivery!Next]_(Delivery!vars)
    OBVIOUS
  <2>1. ASSUME UNCHANGED <<high, visible, times>> PROVE [Delivery!Next]_(Delivery!vars)
    <3>1. CASE end' = end
      BY <2>1, <3>1 DEF Delivery!vars
    <3>2. CASE end' # "none"
      BY <2>1, <3>2 DEF Delivery!Next, Delivery!End
    <3>3. CASE end # "none" /\ end' = "none"
      <4>1. pc = "ended"
        BY <3>3 DEF Inv
      <4>2. end' = end
        BY <4>1, <2>1
        DEF Next, Loop, vars, Publish, Forget, SetPreference, DropStream, Close, Top, Opened,
            OpenFails, Chunk, BadChunk, StreamEnds, StreamBreaks, Wake, BackoffPasses, PollBatch,
            PollFails, PollAgain, Fenced
      <4> QED
        BY <3>3, <4>2
    <3> QED
      BY <3>1, <3>2, <3>3
  <2>2. CASE Publish
    BY <2>2 DEF Publish, Delivery!Next, Delivery!Publish
  <2>3. CASE Chunk
    <3>1. PICK p \in lastId..high : Hand(lastId, p)
      BY <2>3 DEF Chunk
    <3>2. /\ pc = "open" /\ UpTo(lastId) /\ end = "none" /\ end' = end
          /\ high' = high /\ visible' = visible
      BY <2>3 DEF Chunk, manager, Inv, Delivered, Streaming
    <3>3. lastId \in 0..high /\ p \in 0..high /\ lastId <= p
      BY <3>1 DEF Inv, Ranges, Position
    <3>4. Delivery!Deliver \/ times' = times
      BY <3>1, <3>2, <3>3, HandDelivers
    <3> QED
      BY <2>1, <3>2, <3>4 DEF Delivery!Next
  <2>4. CASE PollBatch
    <3>1. PICK next \in cursor..high : Hand(cursor, next)
      BY <2>4, FollowAssumption DEF PollBatch, Inv, Ranges, Position
    <3>2. /\ pc = "polling" /\ UpTo(cursor) /\ end = "none" /\ end' = end
          /\ high' = high /\ visible' = visible
      BY <2>4 DEF PollBatch, manager, Inv, Delivered, Streaming
    <3>3. cursor \in 0..high /\ next \in 0..high /\ cursor <= next
      BY <3>1 DEF Inv, Ranges, Position
    <3>4. Delivery!Deliver \/ times' = times
      BY <3>1, <3>2, <3>3, HandDelivers
    <3> QED
      BY <2>1, <3>2, <3>4 DEF Delivery!Next
  <2>5. ASSUME NEW at, NEW failure, Reconnect(at, failure), UNCHANGED times
        PROVE  UNCHANGED <<high, visible, times>>
    BY <2>5 DEF Reconnect, manager
  <2>6. CASE OpenFails \/ BadChunk \/ StreamEnds \/ StreamBreaks
    BY <2>1, <2>5, <2>6 DEF OpenFails, BadChunk, StreamEnds, StreamBreaks
  <2>7. CASE DropStream
    BY <2>1, <2>5, <2>7 DEF DropStream, manager
  <2>8. CASE \/ Forget \/ SetPreference \/ Close \/ Top \/ Opened \/ Wake \/ BackoffPasses
             \/ PollFails \/ PollAgain \/ Fenced \/ UNCHANGED vars
    BY <2>1, <2>8 DEF Forget, SetPreference, Close, Top, Opened, Wake, BackoffPasses, PollFails,
                      PollAgain, Fenced, vars, manager
  <2> QED
    BY <2>2, <2>3, <2>4, <2>6, <2>7, <2>8 DEF Next, Loop
<1> QED
  BY <1>1, <1>2, InvHolds, PTL DEF Spec, ImplementsDelivery, Delivery!Spec
=============================================================================
