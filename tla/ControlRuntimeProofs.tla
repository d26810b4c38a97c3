------------------------ MODULE ControlRuntimeProofs ------------------------
(***************************************************************************)
(* Proofs about live control, for any setups.                              *)
(*                                                                         *)
(* ControlInv relates the gates to the place of the thread that opened     *)
(* them, and what the receiver has decided to what it may still find when  *)
(* it delivers.                                                            *)
(***************************************************************************)
EXTENDS ControlRuntime, SequenceTheorems, WellFoundedInduction, TLAPS

Pcs == {"window", "closing", "windowed", "dispatch", "registered", "asking",
        "person", "gotPerson", "leavePerson", "returned", "routeClosed",
        "steerClosed", "ended", "recovering", "recovered", "done"}
Steerable == {"registered", "asking", "returned", "routeClosed"}
InFlight  == Steerable \cup {"steerClosed", "ended"}
PersonPcs == {"person", "gotPerson", "leavePerson"}

RxActions == {"none", "steer", "recover", "redirect", "reroute", "answer"}
Working   == {"decided", "holding", "delivered", "acked"}

(* The receiver and the acknowledgements.                                  *)
RxTypes ==
  /\ rx \in [pc : {"idle", "stopped"} \cup Working, control : Cell, action : RxActions, gate : Nat]
  /\ rx.pc \in Working => rx.control \in Controls
  /\ round \in [Occ -> Nat]
  /\ acks \in [Ids -> AckStates] /\ deliveries \in [Ids -> 0..1]

(* A control id is decided once, and a decided one is delivered once.      *)
IdInv ==
  /\ \A i \in Ids : acks[i] = "none" => deliveries[i] = 0
  /\ rx.pc \in {"decided", "holding"} =>
       acks[rx.control.id] # "none" /\ deliveries[rx.control.id] = 0

(* What was applied was released by the receiver after its acknowledgement *)
(* was out, recovery choices apart.                                        *)
AckInv ==
  /\ released \subseteq ackOut
  /\ rx.pc = "acked" => rx.control.id \in ackOut
  /\ rx.pc \in Working /\ rx.action = "recover" => rx.control.kind = "recover"
  /\ \A o \in Occ : recoveryCell[o] # None => recoveryCell[o].kind = "recover"
  /\ AckBeforeAction

(* The threads and the attempts they have registered.                      *)
ThreadTypes ==
  /\ setup \in Setups
  /\ pc \in [Occ -> Pcs] /\ att \in [Occ -> 0..MaxAttempts]
  /\ out \in [Occ -> {"none", "answer", "gap", "rerouted", "cancelled"}]
  /\ \A o \in Occ : pc[o] \in InFlight => o \notin Persons /\ att[o] # 0
  /\ \A o \in Occ : pc[o] \in PersonPcs => o \in Persons
  /\ active \subseteq Attempts /\ steerers \subseteq active
  /\ \A a \in active : a[2] = att[a[1]] /\ pc[a[1]] \in InFlight
  /\ \A a \in steerers : pc[a[1]] \in Steerable

(* The turn has an outcome, and only a cancelled run ends one so.          *)
OutInv ==
  \A o \in Occ : /\ pc[o] \in {"returned", "routeClosed", "steerClosed", "ended"} => out[o] # "none"
                 /\ out[o] = "cancelled" => cancelled

(* A steer that was delivered holds its attempt, which has not ended, and  *)
(* has marked its occurrence before that can store an answer.              *)
SteerDelivered == /\ rx.pc = "delivered" /\ rx.action = "steer"
                  /\ acks[rx.control.id] = "delivered"

SteerInv ==
  /\ steerLock \in Attempts \cup {None}
  /\ nonReplayable \subseteq Occ \ Persons /\ steered \subseteq Attempts /\ ended \subseteq Attempts
  /\ SteerDelivered =>
       LET a == <<rx.control.occ, rx.control.att>> IN
       a \in steerers /\ steerLock = a /\ a[1] \in nonReplayable
  /\ \A a \in steered : a[1] \in nonReplayable
  /\ replayable \subseteq Occ /\ nonReplayable \cap replayable = {}
  /\ \A o \in replayable : pc[o] = "done"
  /\ \A a \in ended : /\ a[2] <= att[a[1]]
                      /\ a[2] = att[a[1]] => pc[a[1]] \notin Steerable \cup {"steerClosed"}

(* The gates hold what they are for only while their thread waits there.   *)
GateTypes ==
  /\ cand \in [Occ -> Seq(Targets)]
  /\ got \in [Occ -> Cell] /\ windowCell \in [Occ -> Cell] /\ rerouteCell \in [Occ -> Cell]
  /\ recoveryCell \in [Occ -> Cell] /\ personCell \in [Occ -> Cell]
  /\ windowOpen \subseteq Occ /\ routeOpen \subseteq Occ
  /\ recoveryQueue \in Seq(Occ) /\ Once(recoveryQueue)
  /\ personQueue \in Seq(Persons) /\ Once(personQueue)

GateInv ==
  /\ \A o \in windowOpen : pc[o] \in {"window", "closing"}
  /\ \A o \in Occ : o \in routeOpen <=> pc[o] \in {"asking", "returned"}
  /\ \A o \in Occ : o \notin routeOpen => rerouteCell[o] = None
  /\ \A o \in Elems(recoveryQueue) : pc[o] \in {"recovering", "recovered"}
  /\ \A o \in Occ : recoveryCell[o] # None => o \in Elems(recoveryQueue)
  /\ \A o \in Elems(personQueue) : pc[o] \in PersonPcs
  /\ \A o \in Occ : got[o] # None =>
       pc[o] \in {"closing", "windowed", "gotPerson", "routeClosed", "steerClosed", "recovered"}
  /\ \A o \in Occ : pc[o] = "windowed" => got[o] # None

(* A redirect of the window chose from the chain, which is still whole.    *)
WindowInv ==
  /\ \A o \in Occ : pc[o] \in {"window", "closing", "windowed"} => cand[o] = Chain[o]
  /\ \A o \in Occ : windowCell[o] # None =>
       o \in windowOpen /\ windowCell[o].arg \in Elems(Chain[o])
  /\ \A o \in Occ : pc[o] \in {"closing", "windowed"} /\ got[o] # None =>
       got[o].arg \in Elems(Chain[o])
  /\ rx.pc = "decided" /\ rx.action = "redirect" =>
       rx.control.occ \in Occ /\ rx.control.arg \in Elems(Chain[rx.control.occ])

(* A redirect of an attempt chose from the rest of the chain; until it is  *)
(* delivered only an earlier redirect can move that chain, and once it has *)
(* the gate is empty, so that the target is there when it is delivered.    *)
HasCandidate(o) == \/ pc[o] \in (InFlight \ {"ended"}) \cup {"recovering", "recovered"}
                   \/ pc[o] = "ended" /\ out[o] = "gap"
InHand(o) == pc[o] \in {"routeClosed", "steerClosed"} /\ got[o] # None

DecidedReroute ==
  rx.pc = "decided" /\ rx.action = "reroute" =>
    LET o == rx.control.occ
        t == rx.control.arg
    IN /\ o \in Occ /\ pc[o] \notin {"window", "closing", "windowed"}
       /\ recoveryCell[o] = None /\ (pc[o] = "recovered" => got[o] = None)
       /\ t \in Elems(cand[o])
       /\ rerouteCell[o] # None \/ InHand(o) => t \in Elems(Tail(cand[o]))

RouteInv ==
  /\ \A o \in Occ : HasCandidate(o) => cand[o] # << >>
  /\ DecidedReroute
  /\ \A o \in Occ : rerouteCell[o] # None => rerouteCell[o].arg \in Elems(cand[o])
  /\ \A o \in Occ : InHand(o) => got[o].arg \in Elems(cand[o])

(* The choice of a redirect is kept until its attempt starts.              *)
PromiseInv ==
  /\ DOMAIN promised = Occ
  /\ \A o \in Occ : promised[o] # None =>
       /\ pc[o] \in {"dispatch", "ended", "done"} \cup PersonPcs
       /\ pc[o] = "ended" => out[o] = "rerouted"
       /\ pc[o] \in {"ended", "dispatch"} =>
            \/ promised[o].to = promised[o].stopped
            \/ cand[o] # << >> /\ Head(cand[o]) = promised[o].to

(* No redirect is lost on the way from the gate to the chain.              *)
LostInv ==
  /\ NoLostReroute /\ rerouted \subseteq Controls
  /\ \A o \in Occ : pc[o] = "recovered" /\ got[o] # None => got[o] \in applied

(* The inductive invariant.                                              *)
ControlInv ==
  /\ RxTypes /\ IdInv /\ AckInv /\ ThreadTypes /\ OutInv /\ SteerInv
  /\ GateTypes /\ GateInv /\ WindowInv /\ RouteInv /\ PromiseInv /\ LostInv
-----------------------------------------------------------------------------
(* Sequences: the chain of candidates and the queues.                      *)

(* A set of natural numbers has a least element.                           *)
LEMMA LeastNatural ==
  ASSUME NEW T, T \subseteq Nat, T # {}
  PROVE  \E i \in T : \A j \in T : ~(j < i)
<1>. DEFINE R == {ss \in Nat \X Nat : ss[1] < ss[2]}
<1>1. IsWellFoundedOn(R, Nat)
  BY NatLessThanWellFounded, Zenon DEF OpToRel
<1>2. \A i, j \in Nat : j < i => <<j, i>> \in R
  OBVIOUS
<1>. HIDE DEF R
<1>3. PICK i \in T : \A j \in T : <<j, i>> \notin R
  BY <1>1, WFMin, Zenon
<1>. QED
  BY <1>2, <1>3

(* So the first position of an element exists.                             *)
LEMMA FirstIs ==
  ASSUME NEW S, NEW s \in Seq(S), NEW x \in Elems(s)
  PROVE  First(s, x) \in 1..Len(s) /\ s[First(s, x)] = x
<1>. DEFINE T == {i \in DOMAIN s : s[i] = x}
            P(i) == s[i] = x /\ \A j \in 1..(i - 1) : s[j] # x
<1>1. T \subseteq Nat /\ T # {}
  BY DEF Elems
<1>2. PICK i \in T : \A j \in T : ~(j < i)
  <2>. HIDE DEF T
  <2>. QED
    BY <1>1, LeastNatural
<1>3. i \in DOMAIN s /\ P(i)
  BY <1>2
<1>4. DOMAIN s = 1..Len(s)
  OBVIOUS
<1>5. First(s, x) = CHOOSE k \in DOMAIN s : P(k)
  BY DEF First
<1>. HIDE DEF P
<1>6. First(s, x) \in DOMAIN s /\ P(First(s, x))
  BY <1>3, <1>5
<1>. QED
  BY <1>4, <1>6 DEF P

(* The sequence without one of its positions.                              *)
LEMMA RemoveAtIs ==
  ASSUME NEW S, NEW s \in Seq(S), NEW i \in 1..Len(s)
  PROVE  /\ RemoveAt(s, i) \in Seq(S) /\ Len(RemoveAt(s, i)) = Len(s) - 1
         /\ \A j \in 1..(Len(s) - 1) : RemoveAt(s, i)[j] = IF j < i THEN s[j] ELSE s[j + 1]
<1>. DEFINE l == SubSeq(s, 1, i - 1)
            r == SubSeq(s, i + 1, Len(s))
<1>1. l \in Seq(S) /\ Len(l) = i - 1 /\ \A j \in 1..(i - 1) : l[j] = s[j]
  OBVIOUS
<1>2. r \in Seq(S) /\ Len(r) = Len(s) - i /\ \A j \in 1..(Len(s) - i) : r[j] = s[i + j]
  <2>1. CASE i = Len(s)
    BY <2>1
  <2>2. CASE i < Len(s)
    BY <2>2
  <2>. QED
    BY <2>1, <2>2
<1>3. RemoveAt(s, i) = l \o r
  BY DEF RemoveAt
<1>. HIDE DEF l, r
<1>4. Len(l \o r) = Len(s) - 1 /\ l \o r \in Seq(S)
  <2>1. Len(l) \in Nat /\ Len(r) \in Nat /\ Len(s) \in Nat
    BY <1>1, <1>2
  <2>2. l \o r \in Seq(S) /\ Len(l \o r) = Len(l) + Len(r)
    BY <1>1, <1>2, ConcatProperties
  <2>. QED
    BY <1>1, <1>2, <2>1, <2>2
<1>5. ASSUME NEW j \in 1..(Len(s) - 1) PROVE (l \o r)[j] = IF j < i THEN s[j] ELSE s[j + 1]
  <2>1. CASE j < i
    BY <2>1, <1>1, <1>2
  <2>2. CASE ~(j < i)
    <3>1. (l \o r)[j] = r[j - (i - 1)]
      BY <2>2, <1>1, <1>2
    <3>2. j - (i - 1) \in 1..(Len(s) - i) /\ i + (j - (i - 1)) = j + 1
      BY <2>2
    <3>. QED
      BY <3>1, <3>2, <2>2, <1>2
  <2>. QED
    BY <2>1, <2>2
<1>. QED
  BY <1>3, <1>4, <1>5

(* preferTarget puts the target first and loses no candidate.              *)
LEMMA PreferIs ==
  ASSUME NEW S, NEW s \in Seq(S), NEW t \in Elems(s)
  PROVE  /\ Prefer(t, s) \in Seq(S) /\ Prefer(t, s) # << >> /\ Head(Prefer(t, s)) = t
         /\ Elems(s) \subseteq Elems(Prefer(t, s))
<1>. DEFINE k == First(s, t)
            r == RemoveAt(s, k)
            p == <<t>> \o r
<1>1. k \in 1..Len(s) /\ s[k] = t
  BY FirstIs
<1>. HIDE DEF k
<1>2. /\ r \in Seq(S) /\ Len(r) = Len(s) - 1
      /\ \A j \in 1..(Len(s) - 1) : r[j] = IF j < k THEN s[j] ELSE s[j + 1]
  BY <1>1, RemoveAtIs
<1>. HIDE DEF r
<1>3. Prefer(t, s) = p
  BY DEF Prefer, k, r
<1>4. t \in S
  BY <1>1
<1>5. /\ p \in Seq(S) /\ Len(p) = Len(s) /\ p[1] = t
      /\ \A j \in 1..(Len(s) - 1) : p[j + 1] = r[j]
  BY <1>2, <1>4
<1>. HIDE DEF p
<1>6. ASSUME NEW i \in 1..Len(s) PROVE \E j \in 1..Len(s) : p[j] = s[i]
  <2>1. CASE i < k
    <3>1. i \in 1..(Len(s) - 1) /\ i + 1 \in 1..Len(s) /\ r[i] = s[i]
      BY <2>1, <1>1, <1>2
    <3>. QED
      BY <3>1, <1>5
  <2>2. CASE i = k
    BY <2>2, <1>1, <1>5
  <2>3. CASE i > k
    <3>1. i - 1 \in 1..(Len(s) - 1) /\ ~(i - 1 < k) /\ (i - 1) + 1 = i
      BY <2>3, <1>1
    <3>. QED
      BY <3>1, <1>2, <1>5
  <2>4. i < k \/ i = k \/ i > k
    BY <1>1
  <2>. QED
    BY <2>1, <2>2, <2>3, <2>4
<1>7. p # << >> /\ Head(p) = t
  <2>1. Len(s) > 0
    BY <1>1
  <2>. QED
    BY <1>5, <2>1
<1>8. Elems(s) \subseteq Elems(p)
  <2>1. DOMAIN s = 1..Len(s) /\ DOMAIN p = 1..Len(s)
    BY <1>5
  <2>2. SUFFICES ASSUME NEW i \in 1..Len(s) PROVE s[i] \in Elems(p)
    BY <2>1 DEF Elems
  <2>3. PICK j \in 1..Len(s) : p[j] = s[i]
    BY <1>6
  <2>. QED
    BY <2>1, <2>3 DEF Elems
<1>. QED
  BY <1>3, <1>5, <1>7, <1>8

(* Leaving a queue removes the occurrence from it, and only that.          *)
LEMMA WithoutIs ==
  ASSUME NEW S, NEW s \in Seq(S), Once(s), NEW x
  PROVE  /\ Without(s, x) \in Seq(S) /\ Once(Without(s, x))
         /\ Elems(Without(s, x)) = Elems(s) \ {x}
<1>1. CASE x \notin Elems(s)
  BY <1>1 DEF Without
<1>2. CASE x \in Elems(s)
  <2>. DEFINE k == First(s, x)
              r == RemoveAt(s, k)
  <2>1. k \in 1..Len(s) /\ s[k] = x
    BY <1>2, FirstIs
  <2>. HIDE DEF k
  <2>2. /\ r \in Seq(S) /\ Len(r) = Len(s) - 1
        /\ \A j \in 1..(Len(s) - 1) : r[j] = IF j < k THEN s[j] ELSE s[j + 1]
    BY <2>1, RemoveAtIs
  <2>3. Without(s, x) = r
    BY <1>2 DEF Without, k
  <2>. HIDE DEF r
  <2>4. DOMAIN s = 1..Len(s) /\ DOMAIN r = 1..(Len(s) - 1) /\ Len(s) \in Nat
    BY <2>2
  <2>5. Once(r)
    <3>1. SUFFICES ASSUME NEW i \in DOMAIN r, NEW j \in DOMAIN r, r[i] = r[j] PROVE i = j
      BY DEF Once
    <3>. DEFINE f(n) == IF n < k THEN n ELSE n + 1
    <3>2. f(i) \in DOMAIN s /\ f(j) \in DOMAIN s /\ r[i] = s[f(i)] /\ r[j] = s[f(j)]
      BY <2>1, <2>2, <2>4
    <3>3. f(i) = f(j)
      <4>. HIDE DEF f
      <4>. QED
        BY <3>1, <3>2 DEF Once
    <3>. QED
      BY <3>3, <2>1, <2>4
  <2>6. Elems(r) \subseteq Elems(s) \ {x}
    <3>1. SUFFICES ASSUME NEW j \in DOMAIN r PROVE r[j] \in Elems(s) /\ r[j] # x
      BY DEF Elems
    <3>2. PICK i \in DOMAIN s : r[j] = s[i] /\ i # k
      BY <2>1, <2>2, <2>4
    <3>. QED
      BY <3>2, <2>1, <2>4 DEF Elems, Once
  <2>7. Elems(s) \ {x} \subseteq Elems(r)
    <3>1. SUFFICES ASSUME NEW i \in DOMAIN s, i # k PROVE s[i] \in Elems(r)
      BY <2>1, <2>4 DEF Elems
    <3>2. CASE i < k
      BY <3>2, <2>1, <2>2, <2>4 DEF Elems
    <3>3. CASE i > k
      <4>1. i - 1 \in DOMAIN r /\ ~(i - 1 < k) /\ (i - 1) + 1 = i
        BY <3>3, <2>1, <2>4
      <4>2. r[i - 1] = s[i]
        BY <4>1, <2>2, <2>4
      <4>. QED
        BY <4>1, <4>2 DEF Elems
    <3>. QED
      BY <3>1, <3>2, <3>3, <2>1, <2>4
  <2>. QED
    BY <2>2, <2>3, <2>5, <2>6, <2>7
<1>. QED
  BY <1>1, <1>2

(* Joining a queue.                                                        *)
LEMMA AppendIs ==
  ASSUME NEW S, NEW s \in Seq(S), Once(s), NEW x \in S, x \notin Elems(s)
  PROVE  /\ Append(s, x) \in Seq(S) /\ Once(Append(s, x))
         /\ Elems(Append(s, x)) = Elems(s) \cup {x}
<1>. DEFINE r == Append(s, x)
<1>1. /\ r \in Seq(S) /\ Len(r) = Len(s) + 1 /\ r[Len(s) + 1] = x
      /\ \A i \in 1..Len(s) : r[i] = s[i]
  OBVIOUS
<1>2. DOMAIN s = 1..Len(s) /\ DOMAIN r = 1..(Len(s) + 1) /\ Len(s) \in Nat
  BY <1>1
<1>. HIDE DEF r
<1>3. \A i \in DOMAIN r : (i \in DOMAIN s /\ r[i] = s[i]) \/ (i = Len(s) + 1 /\ r[i] = x)
  BY <1>1, <1>2
<1>4. Once(r)
  BY <1>2, <1>3 DEF Once, Elems
<1>5. Elems(r) = Elems(s) \cup {x}
  <2>1. Elems(r) \subseteq Elems(s) \cup {x}
    BY <1>3 DEF Elems
  <2>2. x \in Elems(r)
    BY <1>1, <1>2 DEF Elems
  <2>3. Elems(s) \subseteq Elems(r)
    BY <1>1, <1>2 DEF Elems
  <2>. QED
    BY <2>1, <2>2, <2>3
<1>. QED
  BY <1>1, <1>4, <1>5 DEF r

(* The chain is its head and its tail.                                     *)
LEMMA TailIs ==
  ASSUME NEW S, NEW s \in Seq(S), s # << >>
  PROVE  /\ Tail(s) \in Seq(S) /\ Elems(Tail(s)) \subseteq Elems(s)
         /\ Elems(s) \subseteq Elems(Tail(s)) \cup {Head(s)}
<1>1. Len(s) \in Nat \ {0} /\ DOMAIN s = 1..Len(s)
  BY EmptySeq
<1>2. /\ Tail(s) \in Seq(S) /\ DOMAIN Tail(s) = 1..(Len(s) - 1)
      /\ \A i \in 1..(Len(s) - 1) : Tail(s)[i] = s[i + 1]
  BY <1>1
<1>3. Elems(Tail(s)) \subseteq Elems(s)
  <2>1. \A i \in DOMAIN Tail(s) : i + 1 \in DOMAIN s /\ Tail(s)[i] = s[i + 1]
    BY <1>1, <1>2
  <2>. QED
    BY <2>1 DEF Elems
<1>4. \A i \in DOMAIN s : s[i] \in Elems(Tail(s)) \cup {Head(s)}
  <2>1. SUFFICES ASSUME NEW i \in DOMAIN s, i # 1 PROVE s[i] \in Elems(Tail(s))
    BY <1>1
  <2>2. i - 1 \in DOMAIN Tail(s) /\ (i - 1) + 1 = i
    BY <1>1, <1>2, <2>1
  <2>3. Tail(s)[i - 1] = s[i]
    BY <2>2, <1>2
  <2>. QED
    BY <2>2, <2>3 DEF Elems
<1>. QED
  BY <1>2, <1>3, <1>4 DEF Elems

-----------------------------------------------------------------------------
(* The setup of a run.                                                     *)

(* A run does not change what it is about.                                 *)
LEMMA SetupStays ==
  ASSUME Next
  PROVE  /\ setup' = setup /\ Occ' = Occ /\ Persons' = Persons /\ Chain' = Chain
         /\ Controls' = Controls /\ Ids' = Ids /\ Attempts' = Attempts /\ Cell' = Cell
         /\ MaxAttempts' = MaxAttempts /\ Effects' = Effects
<1>1. setup' = setup
  BY DEF Next, Receiver, Thread, WindowTake, WindowTimeout, CloseWindow, ApplyWindow, LeaveWindow,
         GiveUp, Register, OpenRoute, TurnEnds, AskPerson, TakePerson, AwaitPersonAck, LeavePerson,
         CloseRoute, CloseSteering, EndAttempt, Unregister, TakeRecovery, LeaveRecovery, Receive,
         DeliverSteer, DeliverRedirect, DeliverReroute, LookUpGate, PutRecovery, PutAnswer,
         EmitAck, AfterAck
<1>. QED
  BY <1>1 DEF Occ, Persons, Chain, Controls, Ids, Attempts, Cell, MaxAttempts, Effects

(* What the assumption says of the setup at hand.                          *)
LEMMA SetupFacts ==
  ASSUME setup \in Setups
  PROVE  /\ MaxAttempts \in Nat /\ Persons \subseteq Occ
         /\ Chain \in [Occ -> Seq(Targets)] /\ \A o \in Occ : Chain[o] # << >>
         /\ None \notin Controls
         /\ \A c \in Controls :
              c.id \in Ids /\ c.kind \in {"cancel", "steer", "recover", "redirect", "answer"}
BY SetupsAssumption DEF MaxAttempts, Persons, Occ, Chain, Controls, Ids

(* What decideControl may accept, and what it has seen then.               *)
LEMMA Decisions ==
  ASSUME NEW c \in Controls, setup \in Setups
  PROVE  LET d == Decide(c) IN
         /\ d.ack \in AckStates \ {"none"}
         /\ d.action \in {"cancel"} \cup RxActions
         /\ d.action = "steer" => <<c.occ, c.att>> \in steerers
         /\ d.action = "recover" => c.kind = "recover"
         /\ d.action = "redirect" => c.occ \in windowOpen /\ c.arg \in Elems(Chain[c.occ])
         /\ d.action = "reroute" => c.occ \in routeOpen /\ c.arg \in Elems(Tail(cand[c.occ]))
<1>1. c.kind \in {"cancel", "steer", "recover", "redirect", "answer"}
  BY SetupFacts
<1>2. CASE c.kind = "cancel"
  BY <1>2 DEF Decide, AckStates, RxActions
<1>3. CASE c.kind = "steer"
  BY <1>3 DEF Decide, AckStates, RxActions
<1>4. CASE c.kind = "recover"
  BY <1>4 DEF Decide, AckStates, RxActions
<1>5. CASE c.kind = "redirect"
  BY <1>5 DEF Decide, AckStates, RxActions
<1>6. CASE c.kind = "answer"
  BY <1>6 DEF Decide, AckStates, RxActions
<1>. QED
  BY <1>1, <1>2, <1>3, <1>4, <1>5, <1>6

(* A control frame either changes nothing here, stops the receiver, or is  *)
(* a decision, which the receiver then delivers.                           *)
Decided(c) ==
  /\ rx' = [pc |-> "decided", control |-> c, action |-> Decide(c).action, gate |-> 0]
  /\ Decide(c).action \in RxActions \ {"none"}

LEMMA Receiving ==
  ASSUME NEW c \in Controls, setup \in Setups, Receive(c)
  PROVE  /\ rx.pc = "idle"
         /\ \/ acks' = acks /\ rx' = rx
            \/ /\ acks[c.id] = "none"
               /\ acks' = [acks EXCEPT ![c.id] = Decide(c).ack]
               /\ \/ rx' = rx \/ rx' = [rx EXCEPT !.pc = "stopped"]
                  \/ Decided(c)
         /\ cancelled => cancelled'
         /\ UNCHANGED <<threadVars, gateVars, history, nonReplayable, steerLock, released>>
<1>. DEFINE d == Decide(c)
<1>1. d.action \in {"cancel"} \cup RxActions
  BY Decisions
<1>. HIDE DEF d
<1>2. CASE acks[c.id] # "none"
  BY <1>2 DEF Receive
<1>3. CASE acks[c.id] = "none" /\ d.action = "none"
  BY <1>3 DEF Receive, d
<1>4. CASE acks[c.id] = "none" /\ d.action = "cancel"
  BY <1>4 DEF Receive, d
<1>5. CASE acks[c.id] = "none" /\ d.action \notin {"none", "cancel"}
  BY <1>1, <1>5 DEF Receive, d, Decided
<1>. QED
  BY <1>2, <1>3, <1>4, <1>5

(* What follows the end of an attempt, by the outcome of its turn.         *)
LEMMA Unregistering ==
  ASSUME ThreadTypes, OutInv, NEW o \in Occ, Unregister(o)
  PROVE  \/ /\ out[o] = "answer" /\ Goto(o, "done")
            /\ replayable' = replayable \/ (replayable' = replayable \cup {o} /\ o \notin nonReplayable)
            /\ UNCHANGED <<recoveryQueue, round>>
         \/ /\ out[o] \in {"rerouted", "gap"} /\ Goto(o, "dispatch")
            /\ UNCHANGED <<replayable, recoveryQueue, round>>
         \/ out[o] = "cancelled" /\ Goto(o, "done") /\ UNCHANGED <<replayable, recoveryQueue, round>>
         \/ /\ out[o] = "gap" /\ Goto(o, "recovering") /\ UNCHANGED replayable
            /\ recoveryQueue' = Append(recoveryQueue, o)
            /\ round' = [round EXCEPT ![o] = @ + 1]
<1>1. out[o] \in {"answer", "gap", "rerouted", "cancelled"}
  BY DEF ThreadTypes, OutInv, Unregister
<1>2. CASE out[o] = "answer"
  BY <1>2 DEF Unregister
<1>3. CASE out[o] = "rerouted"
  BY <1>3 DEF Unregister
<1>4. CASE out[o] = "cancelled"
  BY <1>4 DEF Unregister
<1>5. CASE out[o] = "gap"
  BY <1>5 DEF Unregister
<1>. QED
  BY <1>1, <1>2, <1>3, <1>4, <1>5

-----------------------------------------------------------------------------
(* The receiver and the control ids.                                       *)

(* recordAck of a delivery: the control was decided, and is not delivered  *)
(* before.                                                                 *)
LEMMA Recorded ==
  ASSUME RxTypes, IdInv, setup \in Setups, rx.pc \in {"decided", "holding"},
         NEW s \in AckStates \ {"none"}, Delivered(s),
         Controls' = Controls, Ids' = Ids, Cell' = Cell, Occ' = Occ, UNCHANGED round
  PROVE  /\ RxTypes' /\ IdInv'
         /\ rx'.pc = "delivered" /\ rx'.control = rx.control /\ rx'.action = rx.action
         /\ acks'[rx.control.id] = s
<1>. DEFINE i == rx.control.id
<1>1. i \in Ids /\ rx.control \in Controls
  BY SetupFacts DEF RxTypes, Working
<1>2. rx' = [rx EXCEPT !.pc = "delivered"] /\ acks' = [acks EXCEPT ![i] = s]
      /\ \/ deliveries' = deliveries
         \/ deliveries' = [deliveries EXCEPT ![i] = @ + 1]
  BY DEF Delivered
<1>3. deliveries[i] = 0
  BY DEF IdInv
<1>. HIDE DEF i
<1>4. acks' \in [Ids -> AckStates] /\ acks'[i] = s /\ \A j \in Ids \ {i} : acks'[j] = acks[j]
  BY <1>1, <1>2 DEF RxTypes
<1>5. deliveries' \in [Ids -> 0..1] /\ \A j \in Ids \ {i} : deliveries'[j] = deliveries[j]
  BY <1>1, <1>2, <1>3 DEF RxTypes
<1>6. rx' \in [pc : {"idle", "stopped"} \cup Working, control : Cell, action : RxActions, gate : Nat]
      /\ rx'.pc = "delivered" /\ rx'.control = rx.control /\ rx'.action = rx.action
  BY <1>2 DEF RxTypes, Working
<1>7. RxTypes'
  BY <1>1, <1>4, <1>5, <1>6 DEF RxTypes
<1>8. IdInv'
  BY <1>4, <1>5, <1>6 DEF IdInv
<1>. QED
  BY <1>4, <1>6, <1>7, <1>8 DEF i

(* The receiver decides a control under a fresh id only, and what it       *)
(* decides it delivers in its next step or the one after.                  *)
LEMMA RxKept ==
  ASSUME ControlInv, Next
  PROVE  RxTypes' /\ IdInv'
<1>. /\ RxTypes /\ IdInv /\ setup \in Setups
  BY DEF ControlInv, ThreadTypes
<1>. Controls' = Controls /\ Ids' = Ids /\ Cell' = Cell /\ Occ' = Occ
  BY SetupStays
<1>1. ASSUME NEW c \in Controls, Receive(c) PROVE RxTypes' /\ IdInv'
  <2>1. c.id \in Ids /\ None \notin Controls /\ c \in Cell
    BY SetupFacts DEF Cell
  <2>2. Decide(c).ack \in AckStates \ {"none"}
    BY Decisions
  <2>3. UNCHANGED <<round, deliveries>> /\ rx.pc = "idle"
    BY <1>1, Receiving DEF gateVars, history
  <2>4. CASE acks' = acks /\ rx' = rx
    BY <2>3, <2>4 DEF RxTypes, IdInv
  <2>5. ASSUME acks[c.id] = "none", acks' = [acks EXCEPT ![c.id] = Decide(c).ack]
        PROVE  /\ acks' \in [Ids -> AckStates] /\ acks'[c.id] # "none" /\ deliveries[c.id] = 0
               /\ \A i \in Ids : acks'[i] = "none" => acks[i] = "none"
    BY <2>1, <2>2, <2>5 DEF RxTypes, IdInv
  <2>6. CASE /\ acks[c.id] = "none" /\ acks' = [acks EXCEPT ![c.id] = Decide(c).ack]
             /\ rx' = rx \/ rx' = [rx EXCEPT !.pc = "stopped"]
    <3>1. rx' \in [pc : {"idle", "stopped"} \cup Working, control : Cell, action : RxActions, gate : Nat]
          /\ rx'.pc \in {"idle", "stopped"}
      BY <2>3, <2>6 DEF RxTypes
    <3>. QED
      BY <2>3, <2>5, <2>6, <3>1 DEF RxTypes, IdInv, Working
  <2>7. CASE acks[c.id] = "none" /\ acks' = [acks EXCEPT ![c.id] = Decide(c).ack] /\ Decided(c)
    <3>1. rx' \in [pc : {"idle", "stopped"} \cup Working, control : Cell, action : RxActions, gate : Nat]
          /\ rx'.control = c
      BY <2>1, <2>7 DEF Decided, Working
    <3>. QED
      BY <2>3, <2>5, <2>7, <3>1 DEF RxTypes, IdInv
  <2>. QED
    BY <1>1, <2>4, <2>6, <2>7, Receiving
<1>2. CASE DeliverSteer
  <2>1. PICK s \in AckStates \ {"none"} : Delivered(s)
    BY <1>2 DEF DeliverSteer, AckStates
  <2>. QED
    BY <1>2, <2>1, Recorded DEF DeliverSteer, gateVars
<1>3. CASE DeliverRedirect
  <2>1. PICK s \in AckStates \ {"none"} : Delivered(s)
    BY <1>3 DEF DeliverRedirect, AckStates
  <2>. QED
    BY <1>3, <2>1, Recorded DEF DeliverRedirect
<1>4. CASE DeliverReroute
  <2>1. PICK s \in AckStates \ {"none"} : Delivered(s)
    BY <1>4 DEF DeliverReroute, AckStates
  <2>. QED
    BY <1>4, <2>1, Recorded DEF DeliverReroute
<1>5. CASE LookUpGate
  <2>1. CASE \E s \in AckStates \ {"none"} : Delivered(s)
    BY <1>5, <2>1, Recorded DEF LookUpGate, gateVars
  <2>2. CASE /\ rx.control.occ \in Elems(IF rx.action = "recover" THEN recoveryQueue ELSE personQueue)
             /\ rx' = [rx EXCEPT !.pc = "holding", !.gate = round[rx.control.occ]]
             /\ UNCHANGED <<acks, deliveries>>
    <3>1. rx.control.occ \in Occ
      BY <2>2, SetupFacts, ElementOfSeq DEF ControlInv, GateTypes, Elems
    <3>2. round[rx.control.occ] \in Nat
      BY <3>1 DEF RxTypes
    <3>3. rx' \in [pc : {"idle", "stopped"} \cup Working, control : Cell, action : RxActions, gate : Nat]
          /\ rx'.pc = "holding" /\ rx'.control = rx.control
      BY <2>2, <3>2 DEF RxTypes, Working
    <3>. QED
      BY <1>5, <2>2, <3>3 DEF LookUpGate, RxTypes, IdInv, Working, gateVars
  <2>. QED
    BY <1>5, <2>1, <2>2 DEF LookUpGate, AckStates
<1>6. CASE PutRecovery
  <2>1. PICK s \in AckStates \ {"none"} : Delivered(s)
    BY <1>6 DEF PutRecovery, AckStates
  <2>. QED
    BY <1>6, <2>1, Recorded DEF PutRecovery
<1>7. CASE PutAnswer
  <2>1. PICK s \in AckStates \ {"none"} : Delivered(s)
    BY <1>7 DEF PutAnswer, AckStates
  <2>. QED
    BY <1>7, <2>1, Recorded DEF PutAnswer
<1>8. CASE EmitAck
  BY <1>8 DEF EmitAck, RxTypes, IdInv, Working, gateVars
<1>9. CASE AfterAck
  BY <1>9 DEF AfterAck, RxTypes, IdInv, Working, Idle, Cell, RxActions, gateVars, history
<1>10. ASSUME NEW o \in Occ, Thread(o) PROVE RxTypes' /\ IdInv'
  <2>1. UNCHANGED <<acks, rx, deliveries>>
    BY <1>10 DEF Thread, WindowTake, WindowTimeout, CloseWindow, ApplyWindow, LeaveWindow, GiveUp,
         Register, OpenRoute, TurnEnds, AskPerson, TakePerson, AwaitPersonAck, LeavePerson, CloseRoute,
         CloseSteering, EndAttempt, Unregister, TakeRecovery, LeaveRecovery, rxVars, history
  <2>2. round' = round \/ round' = [round EXCEPT ![o] = @ + 1]
    BY <1>10, Unregistering DEF ControlInv, Thread, WindowTake, WindowTimeout, CloseWindow, ApplyWindow, LeaveWindow, GiveUp,
         Register, OpenRoute, TurnEnds, AskPerson, TakePerson, AwaitPersonAck, LeavePerson, CloseRoute,
         CloseSteering, EndAttempt, TakeRecovery, LeaveRecovery, gateVars
  <2>3. round' \in [Occ -> Nat]
    BY <2>2 DEF RxTypes
  <2>. QED
    BY <2>1, <2>3 DEF RxTypes, IdInv
<1>. QED
  BY <1>1, <1>2, <1>3, <1>4, <1>5, <1>6, <1>7, <1>8, <1>9, <1>10 DEF Next, Receiver

-----------------------------------------------------------------------------
(* Acknowledgements before actions.                                        *)

(* An occurrence acts on a redirect or an answer after released says so,   *)
(* and the receiver releases what it has acknowledged.                     *)
LEMMA AckKept ==
  ASSUME ControlInv, Next
  PROVE  AckInv'
<1>. /\ RxTypes /\ AckInv /\ setup \in Setups /\ RxTypes'
  BY RxKept DEF ControlInv, ThreadTypes
<1>. /\ recoveryCell \in [Occ -> Cell] /\ got \in [Occ -> Cell]
  BY DEF ControlInv, GateTypes
<1>. Controls' = Controls /\ Ids' = Ids /\ Cell' = Cell /\ Occ' = Occ
  BY SetupStays
<1>1. ASSUME NEW c \in Controls, Receive(c) PROVE AckInv'
  <2>1. UNCHANGED <<recoveryCell, released, ackOut, applied>> /\ rx.pc = "idle"
    BY <1>1, Receiving DEF gateVars, history
  <2>2. rx'.pc \in {"idle", "stopped"} \/ Decided(c)
    BY <1>1, <2>1, Receiving DEF RxTypes
  <2>3. rx'.pc # "acked" /\ (rx'.pc \in Working /\ rx'.action = "recover" => rx'.control.kind = "recover")
    <3>1. Decide(c).action = "recover" => c.kind = "recover"
      BY Decisions
    <3>2. CASE rx'.pc \in {"idle", "stopped"}
      BY <3>2 DEF Working
    <3>3. CASE Decided(c)
      <4>1. rx'.pc = "decided" /\ rx'.action = Decide(c).action /\ rx'.control = c
        BY <3>3 DEF Decided
      <4>. QED
        BY <3>1, <4>1
    <3>. QED
      BY <2>2, <3>2, <3>3
  <2>. QED
    BY <2>1, <2>3 DEF AckInv, AckBeforeAction
<1>2. CASE DeliverSteer \/ DeliverRedirect \/ DeliverReroute \/ PutAnswer \/ LookUpGate
  <2>1. /\ rx.pc \in Working /\ rx'.pc # "acked" /\ rx'.action = rx.action /\ rx'.control = rx.control
        /\ UNCHANGED <<recoveryCell, released, ackOut, applied>>
    BY <1>2 DEF DeliverSteer, DeliverRedirect, DeliverReroute, PutAnswer, LookUpGate, Delivered,
                gateVars, RxTypes, Working
  <2>. QED
    BY <2>1 DEF AckInv, AckBeforeAction
<1>3. CASE PutRecovery
  <2>1. /\ rx.pc \in Working /\ rx'.pc # "acked" /\ rx'.action = rx.action /\ rx'.control = rx.control
        /\ rx.action = "recover" /\ UNCHANGED <<released, ackOut, applied>>
        /\ \/ recoveryCell' = recoveryCell
           \/ recoveryCell' = [recoveryCell EXCEPT ![rx.control.occ] = rx.control]
    BY <1>3 DEF PutRecovery, Delivered, RxTypes, Working
  <2>2. rx.control.kind = "recover"
    BY <2>1 DEF AckInv
  <2>. QED
    BY <2>1, <2>2 DEF AckInv, AckBeforeAction
<1>4. CASE EmitAck
  <2>1. /\ rx'.pc = "acked" /\ rx'.action = rx.action /\ rx'.control = rx.control /\ rx.pc \in Working
        /\ UNCHANGED <<recoveryCell, released, applied>> /\ ackOut' = ackOut \cup {rx.control.id}
    BY <1>4 DEF EmitAck, gateVars, RxTypes, Working
  <2>. QED
    BY <2>1 DEF AckInv, AckBeforeAction
<1>5. CASE AfterAck
  <2>1. /\ rx'.pc = "idle" /\ UNCHANGED <<recoveryCell, applied, ackOut>>
        /\ released' = released \cup {rx.control.id} /\ rx.pc = "acked"
    BY <1>5 DEF AfterAck, Idle, gateVars, history
  <2>. QED
    BY <2>1 DEF AckInv, AckBeforeAction, Working
<1>6. ASSUME NEW o \in Occ, Thread(o) PROVE AckInv'
  <2>. UNCHANGED <<rx, released, ackOut>>
    BY <1>6 DEF Thread, WindowTake, WindowTimeout, CloseWindow, ApplyWindow, LeaveWindow, GiveUp,
         Register, OpenRoute, TurnEnds, AskPerson, TakePerson, AwaitPersonAck, LeavePerson, CloseRoute,
         CloseSteering, EndAttempt, Unregister, TakeRecovery, LeaveRecovery, rxVars, history
  <2>1. CASE ApplyWindow(o) \/ AwaitPersonAck(o) \/ EndAttempt(o)
    <3>1. /\ UNCHANGED recoveryCell
          /\ applied' = applied \/ (applied' = applied \cup {got[o]} /\ got[o].id \in released)
      BY <2>1 DEF ApplyWindow, AwaitPersonAck, EndAttempt, gateVars
    <3>. QED
      BY <3>1 DEF AckInv, AckBeforeAction
  <2>2. CASE TakeRecovery(o)
    <3>1. /\ recoveryCell' = [recoveryCell EXCEPT ![o] = None]
          /\ \/ applied' = applied
             \/ applied' = applied \cup {recoveryCell[o]} /\ recoveryCell[o].kind = "recover"
      BY <2>2 DEF TakeRecovery, AckInv
    <3>. QED
      BY <3>1 DEF AckInv, AckBeforeAction
  <2>3. CASE LeaveRecovery(o)
    <3>1. recoveryCell' = [recoveryCell EXCEPT ![o] = None] /\ applied' = applied
      BY <2>3 DEF LeaveRecovery, history
    <3>. QED
      BY <3>1 DEF AckInv, AckBeforeAction
  <2>4. CASE \/ WindowTake(o) \/ WindowTimeout(o) \/ CloseWindow(o) \/ LeaveWindow(o) \/ GiveUp(o)
             \/ Register(o) \/ OpenRoute(o) \/ TurnEnds(o) \/ AskPerson(o) \/ TakePerson(o)
             \/ LeavePerson(o) \/ CloseRoute(o) \/ CloseSteering(o) \/ Unregister(o)
    <3>1. UNCHANGED <<recoveryCell, applied>>
      BY <2>4 DEF WindowTake, WindowTimeout, CloseWindow, LeaveWindow, GiveUp, Register, OpenRoute,
           TurnEnds, AskPerson, TakePerson, LeavePerson, CloseRoute, CloseSteering, Unregister,
           gateVars, history
    <3>. QED
      BY <3>1 DEF AckInv, AckBeforeAction
  <2>. QED
    BY <1>6, <2>1, <2>2, <2>3, <2>4 DEF Thread
<1>. QED
  BY <1>1, <1>2, <1>3, <1>4, <1>5, <1>6 DEF Next, Receiver

-----------------------------------------------------------------------------
(* The threads, their attempts and their outcomes.                         *)

(* Attempts are registered and steerable exactly where their threads are.  *)
LEMMA ThreadKept ==
  ASSUME ControlInv, Next
  PROVE  ThreadTypes' /\ OutInv'
<1>. ThreadTypes /\ OutInv /\ MaxAttempts \in Nat
  BY SetupFacts DEF ControlInv, ThreadTypes
<1>. /\ setup' = setup /\ Occ' = Occ /\ Persons' = Persons /\ Attempts' = Attempts
     /\ MaxAttempts' = MaxAttempts
  BY SetupStays
<1>1. CASE Receiver
  <2>1. UNCHANGED <<pc, att, out, active, steerers>>
    BY <1>1 DEF Receiver, Receive, DeliverSteer, DeliverRedirect, DeliverReroute, LookUpGate,
                PutRecovery, PutAnswer, EmitAck, AfterAck, threadVars, gateVars
  <2>2. cancelled => cancelled'
    BY <1>1, Receiving DEF ThreadTypes, Receiver, DeliverSteer, DeliverRedirect, DeliverReroute,
                LookUpGate, PutRecovery, PutAnswer, EmitAck, AfterAck
  <2>. QED
    BY <2>1, <2>2 DEF ThreadTypes, OutInv
<1>2. ASSUME NEW o \in Occ, Thread(o) PROVE ThreadTypes' /\ OutInv'
  <2>1. CASE \/ WindowTake(o) \/ WindowTimeout(o) \/ CloseWindow(o) \/ ApplyWindow(o) \/ LeaveWindow(o)
             \/ GiveUp(o) \/ TakeRecovery(o) \/ LeaveRecovery(o)
    <3>1. /\ UNCHANGED <<att, out, active, steerers, cancelled>>
          /\ pc[o] \notin InFlight \cup PersonPcs
          /\ \E l \in Pcs \ (InFlight \cup PersonPcs) : pc' = [pc EXCEPT ![o] = l]
      BY <2>1 DEF WindowTake, WindowTimeout, CloseWindow, ApplyWindow, LeaveWindow, GiveUp, TakeRecovery,
           LeaveRecovery, Goto, gateVars, rxVars, Pcs, InFlight, Steerable, PersonPcs
    <3>. QED
      BY <3>1 DEF ThreadTypes, OutInv, Attempts, InFlight, Steerable, PersonPcs
  <2>2. CASE Register(o)
    BY <2>2 DEF Register, Goto, ThreadTypes, OutInv, Attempts, AttemptOf, rxVars, Pcs, InFlight,
                Steerable, PersonPcs
  <2>3. CASE OpenRoute(o)
    BY <2>3 DEF OpenRoute, Goto, ThreadTypes, OutInv, Attempts, rxVars, Pcs, InFlight, Steerable, PersonPcs
  <2>4. CASE TurnEnds(o)
    BY <2>4 DEF TurnEnds, Goto, ThreadTypes, OutInv, Attempts, gateVars, rxVars, Pcs, InFlight,
                Steerable, PersonPcs
  <2>5. CASE AskPerson(o) \/ TakePerson(o) \/ LeavePerson(o)
    <3>1. /\ UNCHANGED <<att, out, active, steerers, cancelled>>
          /\ pc[o] \notin InFlight /\ o \in Persons
          /\ \E l \in PersonPcs \cup {"done"} : pc' = [pc EXCEPT ![o] = l]
      BY <2>5 DEF AskPerson, TakePerson, LeavePerson, Goto, rxVars, InFlight, Steerable, PersonPcs,
                  ThreadTypes
    <3>. QED
      BY <3>1 DEF ThreadTypes, OutInv, Attempts, Pcs, InFlight, Steerable, PersonPcs
  <2>6. CASE AwaitPersonAck(o)
    BY <2>6 DEF AwaitPersonAck, Goto, ThreadTypes, OutInv, Attempts, gateVars, rxVars, Pcs, InFlight,
                Steerable, PersonPcs
  <2>7. CASE CloseRoute(o)
    BY <2>7 DEF CloseRoute, Goto, ThreadTypes, OutInv, Attempts, rxVars, Pcs, InFlight, Steerable, PersonPcs
  <2>8. CASE CloseSteering(o)
    BY <2>8 DEF CloseSteering, Goto, ThreadTypes, OutInv, Attempts, AttemptOf, rxVars, Pcs, InFlight,
                Steerable, PersonPcs
  <2>9. CASE EndAttempt(o)
    BY <2>9 DEF EndAttempt, Goto, ThreadTypes, OutInv, Attempts, gateVars, rxVars, Pcs, InFlight,
                Steerable, PersonPcs
  <2>10. CASE Unregister(o)
    <3>1. /\ UNCHANGED <<att, out, steerers, cancelled>> /\ active' = active \ {AttemptOf(o)}
          /\ pc[o] = "ended" /\ \E l \in {"done", "dispatch", "recovering"} : pc' = [pc EXCEPT ![o] = l]
      BY <2>10, Unregistering DEF Unregister, Goto, rxVars
    <3>. QED
      BY <3>1 DEF ThreadTypes, OutInv, Attempts, AttemptOf, Pcs, InFlight, Steerable, PersonPcs
  <2>. QED
    BY <1>2, <2>1, <2>2, <2>3, <2>4, <2>5, <2>6, <2>7, <2>8, <2>9, <2>10 DEF Thread
<1>. QED
  BY <1>1, <1>2 DEF Next

-----------------------------------------------------------------------------
(* Steering.                                                               *)

(* The steering lock keeps the attempt of a delivered steer from closing,  *)
(* and the mark is there before the attempt can end.                       *)
LEMMA SteerKept ==
  ASSUME ControlInv, Next
  PROVE  SteerInv'
<1>. /\ ThreadTypes /\ OutInv /\ SteerInv /\ RxTypes /\ MaxAttempts \in Nat /\ Persons \subseteq Occ
     /\ setup \in Setups
  BY SetupFacts DEF ControlInv, ThreadTypes
<1>. ThreadTypes' /\ RxTypes'
  BY ThreadKept, RxKept
<1>. /\ setup' = setup /\ Occ' = Occ /\ Persons' = Persons /\ Attempts' = Attempts
     /\ MaxAttempts' = MaxAttempts
  BY SetupStays
<1>1. ASSUME NEW c \in Controls, Receive(c) PROVE SteerInv'
  <2>1. /\ UNCHANGED <<pc, att, steerers, steerLock, nonReplayable, steered, ended, replayable>>
        /\ rx.pc = "idle"
    BY <1>1, Receiving DEF threadVars, gateVars, history
  <2>2. rx'.pc # "delivered"
    BY <1>1, <2>1, Receiving DEF Decided, RxTypes
  <2>. QED
    BY <2>1, <2>2 DEF SteerInv, SteerDelivered
<1>2. CASE DeliverSteer
  <2>. DEFINE a == <<rx.control.occ, rx.control.att>>
  <2>1. /\ UNCHANGED <<pc, att, steerers, steered, ended, replayable>>
        /\ rx'.control = rx.control /\ rx'.action = rx.action /\ rx.pc = "decided"
        /\ \/ Delivered("unsupported") /\ UNCHANGED <<steerLock, nonReplayable>>
           \/ /\ a \in active /\ steerLock' = a
              /\ Delivered("unsupported") \/ Delivered("failed")
              /\ UNCHANGED nonReplayable
           \/ /\ a \in steerers /\ steerLock' = a /\ Delivered("delivered")
              /\ nonReplayable' = nonReplayable \cup {a[1]}
    BY <1>2 DEF DeliverSteer, Delivered, threadVars, gateVars, RxTypes
  <2>2. rx.control.id \in Ids
    BY <2>1, SetupFacts DEF RxTypes, Working
  <2>3. ASSUME NEW s \in AckStates, Delivered(s) PROVE acks'[rx.control.id] = s
    BY <2>2, <2>3 DEF Delivered, RxTypes
  <2>4. \A b \in active : b \in Attempts /\ b[1] \in Occ \ Persons
    BY DEF ThreadTypes, Attempts, InFlight, Steerable
  <2>5. CASE Delivered("unsupported") /\ UNCHANGED <<steerLock, nonReplayable>>
    BY <2>1, <2>3, <2>5 DEF SteerInv, SteerDelivered, AckStates
  <2>6. CASE /\ a \in active /\ steerLock' = a
             /\ Delivered("unsupported") \/ Delivered("failed")
             /\ UNCHANGED nonReplayable
    BY <2>1, <2>3, <2>4, <2>6 DEF SteerInv, SteerDelivered, AckStates
  <2>7. CASE /\ a \in steerers /\ steerLock' = a /\ Delivered("delivered")
             /\ nonReplayable' = nonReplayable \cup {a[1]}
    <3>1. a[1] \in Occ \ Persons /\ a \in Attempts /\ a[1] \notin replayable
      BY <2>4, <2>7 DEF ThreadTypes, SteerInv, Steerable
    <3>. QED
      BY <2>1, <2>7, <3>1 DEF SteerInv, SteerDelivered
  <2>. QED
    BY <2>1, <2>5, <2>6, <2>7
<1>3. CASE DeliverRedirect \/ DeliverReroute \/ LookUpGate \/ PutRecovery \/ PutAnswer
  <2>1. /\ UNCHANGED <<pc, att, steerers, steerLock, nonReplayable, steered, ended, replayable>>
        /\ rx'.action # "steer"
    BY <1>3 DEF DeliverRedirect, DeliverReroute, LookUpGate, PutRecovery, PutAnswer, Delivered,
                threadVars, gateVars, RxTypes
  <2>. QED
    BY <2>1 DEF SteerInv, SteerDelivered
<1>4. CASE EmitAck
  <2>1. /\ UNCHANGED <<pc, att, steerers, steerLock, nonReplayable, ended, replayable>>
        /\ rx'.pc = "acked"
        /\ \/ steered' = steered
           \/ SteerDelivered /\ steered' = steered \cup {<<rx.control.occ, rx.control.att>>}
    BY <1>4 DEF EmitAck, SteerDelivered, threadVars, gateVars, RxTypes
  <2>. QED
    BY <2>1 DEF SteerInv, SteerDelivered, ThreadTypes
<1>5. CASE AfterAck
  BY <1>5 DEF AfterAck, Idle, SteerInv, SteerDelivered, threadVars, gateVars, history
<1>6. ASSUME NEW o \in Occ, Thread(o) PROVE SteerInv'
  <2>. UNCHANGED <<rx, acks, steerLock, nonReplayable, steered>>
    BY <1>6 DEF Thread, WindowTake, WindowTimeout, CloseWindow, ApplyWindow, LeaveWindow, GiveUp,
         Register, OpenRoute, TurnEnds, AskPerson, TakePerson, AwaitPersonAck, LeavePerson, CloseRoute,
         CloseSteering, EndAttempt, Unregister, TakeRecovery, LeaveRecovery, rxVars, history
  <2>1. CASE \/ WindowTake(o) \/ WindowTimeout(o) \/ CloseWindow(o) \/ ApplyWindow(o) \/ LeaveWindow(o)
             \/ GiveUp(o) \/ AskPerson(o) \/ TakePerson(o) \/ AwaitPersonAck(o) \/ TakeRecovery(o)
             \/ LeaveRecovery(o)
    <3>1. /\ UNCHANGED <<att, steerers, ended, replayable>> /\ pc[o] # "done"
          /\ \E l \in Pcs \ InFlight : pc' = [pc EXCEPT ![o] = l]
      BY <2>1 DEF WindowTake, WindowTimeout, CloseWindow, ApplyWindow, LeaveWindow, GiveUp, TakeRecovery,
           LeaveRecovery, AskPerson, TakePerson, AwaitPersonAck, Goto, gateVars, history, Pcs, InFlight,
           Steerable
    <3>. QED
      BY <3>1 DEF SteerInv, SteerDelivered, ThreadTypes, Attempts, InFlight
  <2>2. CASE Register(o)
    <3>1. /\ att' = [att EXCEPT ![o] = @ + 1] /\ steerers' = steerers \cup {<<o, att'[o]>>}
          /\ UNCHANGED <<ended, replayable>> /\ pc[o] = "dispatch" /\ pc' = [pc EXCEPT ![o] = "registered"]
      BY <2>2 DEF Register, Goto, AttemptOf
    <3>2. \A a \in ended : a[1] \in Occ /\ a[2] \in Nat /\ att[a[1]] \in Nat
      BY DEF SteerInv, Attempts, ThreadTypes
    <3>. QED
      BY <3>1, <3>2 DEF SteerInv, SteerDelivered, ThreadTypes, Steerable
  <2>3. CASE OpenRoute(o) \/ TurnEnds(o) \/ CloseRoute(o)
    <3>1. /\ UNCHANGED <<att, steerers, ended, replayable>> /\ pc[o] \in Steerable
          /\ \E l \in Steerable : pc' = [pc EXCEPT ![o] = l]
      BY <2>3 DEF OpenRoute, TurnEnds, CloseRoute, Goto, gateVars, history, Steerable
    <3>. QED
      BY <3>1 DEF SteerInv, SteerDelivered, ThreadTypes, Attempts, Steerable
  <2>4. CASE LeavePerson(o)
    <3>1. /\ UNCHANGED <<att, steerers, ended>> /\ pc[o] = "leavePerson" /\ o \in Persons
          /\ replayable' = replayable \/ replayable' = replayable \cup {o}
          /\ pc' = [pc EXCEPT ![o] = "done"]
      BY <2>4 DEF LeavePerson, Goto, ThreadTypes, PersonPcs
    <3>. QED
      BY <3>1 DEF SteerInv, SteerDelivered, ThreadTypes, Attempts, Steerable
  <2>5. CASE CloseSteering(o)
    <3>1. /\ UNCHANGED <<att, ended, replayable>> /\ pc[o] = "routeClosed"
          /\ steerers' = steerers \ {<<o, att[o]>>} /\ steerLock # <<o, att[o]>>
          /\ pc' = [pc EXCEPT ![o] = "steerClosed"]
      BY <2>5 DEF CloseSteering, Goto, AttemptOf, history
    <3>. QED
      BY <3>1 DEF SteerInv, SteerDelivered, ThreadTypes, Attempts, Steerable
  <2>6. CASE EndAttempt(o)
    <3>1. /\ UNCHANGED <<att, steerers, replayable>> /\ pc[o] = "steerClosed"
          /\ ended' = ended \cup {<<o, att[o]>>} /\ pc' = [pc EXCEPT ![o] = "ended"]
      BY <2>6 DEF EndAttempt, Goto, AttemptOf, gateVars
    <3>2. <<o, att[o]>> \in Attempts
      BY <3>1 DEF ThreadTypes, Attempts, InFlight
    <3>. QED
      BY <3>1, <3>2 DEF SteerInv, SteerDelivered, ThreadTypes, Attempts, Steerable
  <2>7. CASE Unregister(o)
    <3>1. /\ UNCHANGED <<att, steerers, ended>> /\ pc[o] = "ended"
          /\ \E l \in {"done", "dispatch", "recovering"} :
               /\ pc' = [pc EXCEPT ![o] = l]
               /\ \/ replayable' = replayable
                  \/ l = "done" /\ replayable' = replayable \cup {o} /\ o \notin nonReplayable
      BY <2>7, Unregistering DEF Unregister, Goto
    <3>. QED
      BY <3>1 DEF SteerInv, SteerDelivered, ThreadTypes, Attempts, Steerable
  <2>. QED
    BY <1>6, <2>1, <2>2, <2>3, <2>4, <2>5, <2>6, <2>7 DEF Thread
<1>. QED
  BY <1>1, <1>2, <1>3, <1>4, <1>5, <1>6 DEF Next, Receiver

-----------------------------------------------------------------------------
(* The gates.                                                              *)

(* The queues hold an occurrence at most once, so that their filter is the *)
(* removal of one entry.                                                   *)
LEMMA GateTypesKept ==
  ASSUME ControlInv, Next
  PROVE  GateTypes'
<1>. /\ GateTypes /\ RxTypes /\ ThreadTypes /\ OutInv /\ GateInv /\ RouteInv /\ setup \in Setups
     /\ Persons \subseteq Occ
  BY SetupFacts DEF ControlInv, ThreadTypes
<1>. /\ Occ' = Occ /\ Persons' = Persons /\ Cell' = Cell
  BY SetupStays
<1>1. ASSUME NEW c \in Controls, Receive(c) PROVE GateTypes'
  BY <1>1, Receiving DEF GateTypes, threadVars, gateVars
<1>2. CASE DeliverSteer \/ LookUpGate \/ EmitAck \/ AfterAck
  BY <1>2 DEF DeliverSteer, LookUpGate, EmitAck, AfterAck, GateTypes, threadVars, gateVars
<1>3. CASE DeliverRedirect
  <2>1. /\ UNCHANGED <<cand, got, windowOpen, routeOpen, rerouteCell, recoveryQueue, recoveryCell,
                       personQueue, personCell>>
        /\ \/ windowCell' = windowCell
           \/ windowCell' = [windowCell EXCEPT ![rx.control.occ] = rx.control]
        /\ rx.control \in Cell
    BY <1>3 DEF DeliverRedirect, threadVars, RxTypes
  <2>. QED
    BY <2>1 DEF GateTypes
<1>4. CASE DeliverReroute
  <2>1. /\ UNCHANGED <<cand, got, windowOpen, windowCell, routeOpen, recoveryQueue, recoveryCell,
                       personQueue, personCell>>
        /\ \/ rerouteCell' = rerouteCell
           \/ rerouteCell' = [rerouteCell EXCEPT ![rx.control.occ] = rx.control]
        /\ rx.control \in Cell
    BY <1>4 DEF DeliverReroute, threadVars, RxTypes
  <2>. QED
    BY <2>1 DEF GateTypes
<1>5. CASE PutRecovery
  <2>1. /\ UNCHANGED <<cand, got, windowOpen, windowCell, routeOpen, rerouteCell, recoveryQueue,
                       personQueue, personCell>>
        /\ \/ recoveryCell' = recoveryCell
           \/ recoveryCell' = [recoveryCell EXCEPT ![rx.control.occ] = rx.control]
        /\ rx.control \in Cell
    BY <1>5 DEF PutRecovery, threadVars, RxTypes
  <2>. QED
    BY <2>1 DEF GateTypes
<1>6. CASE PutAnswer
  <2>1. /\ UNCHANGED <<cand, got, windowOpen, windowCell, routeOpen, rerouteCell, recoveryQueue,
                       recoveryCell, personQueue>>
        /\ \/ personCell' = personCell
           \/ personCell' = [personCell EXCEPT ![rx.control.occ] = rx.control]
        /\ rx.control \in Cell
    BY <1>6 DEF PutAnswer, threadVars, RxTypes
  <2>. QED
    BY <2>1 DEF GateTypes
<1>7. ASSUME NEW o \in Occ, Thread(o) PROVE GateTypes'
  <2>. None \in Cell
    BY DEF Cell
  <2>1. CASE \/ WindowTake(o) \/ WindowTimeout(o) \/ CloseWindow(o) \/ LeaveWindow(o) \/ GiveUp(o)
             \/ Register(o) \/ OpenRoute(o) \/ TurnEnds(o)
    BY <2>1 DEF WindowTake, WindowTimeout, CloseWindow, LeaveWindow, GiveUp, Register, OpenRoute,
         TurnEnds, GateTypes, gateVars
  <2>2. CASE TakePerson(o) \/ AwaitPersonAck(o) \/ CloseRoute(o) \/ CloseSteering(o) \/ TakeRecovery(o)
    BY <2>2 DEF TakePerson, AwaitPersonAck, CloseRoute, CloseSteering, TakeRecovery, GateTypes, gateVars
  <2>3. CASE ApplyWindow(o)
    <3>1. Prefer(got[o].arg, cand[o]) \in Seq(Targets)
      BY PreferIs DEF GateTypes, Prefer
    <3>. HIDE DEF Prefer
    <3>. QED
      BY <2>3, <3>1 DEF ApplyWindow, GateTypes, gateVars
  <2>4. CASE EndAttempt(o)
    <3>1. pc[o] = "steerClosed" /\ cand[o] # << >>
      BY <2>4 DEF EndAttempt, RouteInv, HasCandidate, InFlight
    <3>2. Tail(cand[o]) \in Seq(Targets)
      BY <3>1 DEF GateTypes
    <3>3. Prefer(got[o].arg, Tail(cand[o])) \in Seq(Targets)
      BY <3>2, PreferIs DEF Prefer
    <3>. HIDE DEF Prefer
    <3>. QED
      BY <2>4, <3>3 DEF EndAttempt, GateTypes, gateVars
  <2>5. CASE AskPerson(o)
    <3>1. o \in Persons /\ o \notin Elems(personQueue)
      BY <2>5 DEF AskPerson, GateInv, PersonPcs
    <3>2. personQueue' \in Seq(Persons) /\ Once(personQueue')
      BY <2>5, <3>1, AppendIs DEF AskPerson, GateTypes
    <3>. QED
      BY <2>5, <3>2 DEF AskPerson, GateTypes
  <2>6. CASE LeavePerson(o)
    <3>1. personQueue' \in Seq(Persons) /\ Once(personQueue')
      BY <2>6, WithoutIs DEF LeavePerson, GateTypes
    <3>. QED
      BY <2>6, <3>1 DEF LeavePerson, GateTypes
  <2>7. CASE Unregister(o)
    <3>1. o \notin Elems(recoveryQueue)
      BY <2>7 DEF Unregister, GateInv
    <3>2. Append(recoveryQueue, o) \in Seq(Occ) /\ Once(Append(recoveryQueue, o))
      BY <3>1, AppendIs DEF GateTypes
    <3>3. recoveryQueue' = recoveryQueue \/ recoveryQueue' = Append(recoveryQueue, o)
      BY <2>7, Unregistering
    <3>4. recoveryQueue' \in Seq(Occ) /\ Once(recoveryQueue')
      BY <3>2, <3>3 DEF GateTypes
    <3>. QED
      BY <2>7, <3>4 DEF Unregister, GateTypes
  <2>8. CASE LeaveRecovery(o)
    <3>1. recoveryQueue' \in Seq(Occ) /\ Once(recoveryQueue')
      BY <2>8, WithoutIs DEF LeaveRecovery, GateTypes
    <3>2. cand' = cand \/ (got[o] # None /\ cand' = [cand EXCEPT ![o] = Tail(@)])
      BY <2>8 DEF LeaveRecovery
    <3>3. cand' \in [Occ -> Seq(Targets)]
      <4>1. cand[o] # << >>
        BY <2>8 DEF LeaveRecovery, RouteInv, HasCandidate
      <4>2. Tail(cand[o]) \in Seq(Targets)
        BY <4>1 DEF GateTypes
      <4>. QED
        BY <3>2, <4>2 DEF GateTypes
    <3>. QED
      BY <2>8, <3>1, <3>3 DEF LeaveRecovery, GateTypes
  <2>. QED
    BY <1>7, <2>1, <2>2, <2>3, <2>4, <2>5, <2>6, <2>7, <2>8 DEF Thread
<1>. QED
  BY <1>1, <1>2, <1>3, <1>4, <1>5, <1>6, <1>7 DEF Next, Receiver

(* A gate is open while its thread is at the place that opened it.         *)
LEMMA GateKept ==
  ASSUME ControlInv, Next
  PROVE  GateInv'
<1>. /\ GateTypes /\ GateInv /\ ThreadTypes /\ OutInv /\ RxTypes
     /\ setup \in Setups /\ Persons \subseteq Occ
  BY SetupFacts DEF ControlInv, ThreadTypes
<1>. GateTypes'
  BY GateTypesKept
<1>. Occ' = Occ /\ Persons' = Persons /\ Cell' = Cell
  BY SetupStays
<1>0. Elems(recoveryQueue) \subseteq Occ /\ Elems(personQueue) \subseteq Occ
  BY ElementOfSeq DEF GateTypes, Elems
<1>1. ASSUME NEW c \in Controls, Receive(c) PROVE GateInv'
  BY <1>1, Receiving DEF GateInv, threadVars, gateVars
<1>2. CASE DeliverSteer \/ LookUpGate \/ EmitAck \/ AfterAck
  BY <1>2 DEF DeliverSteer, LookUpGate, EmitAck, AfterAck, GateInv, threadVars, gateVars
<1>3. CASE DeliverRedirect \/ PutAnswer
  BY <1>3 DEF DeliverRedirect, PutAnswer, GateInv, threadVars
<1>4. CASE DeliverReroute
  <2>1. /\ UNCHANGED <<pc, got, windowOpen, routeOpen, recoveryQueue, recoveryCell, personQueue>>
        /\ \/ rerouteCell' = rerouteCell
           \/ /\ rx.control.occ \in routeOpen
              /\ rerouteCell' = [rerouteCell EXCEPT ![rx.control.occ] = rx.control]
    BY <1>4 DEF DeliverReroute, threadVars
  <2>. QED
    BY <2>1 DEF GateInv, GateTypes
<1>5. CASE PutRecovery
  <2>1. /\ UNCHANGED <<pc, got, windowOpen, routeOpen, rerouteCell, recoveryQueue, personQueue>>
        /\ \/ recoveryCell' = recoveryCell
           \/ /\ rx.control.occ \in Elems(recoveryQueue)
              /\ recoveryCell' = [recoveryCell EXCEPT ![rx.control.occ] = rx.control]
    BY <1>5 DEF PutRecovery, threadVars
  <2>. QED
    BY <2>1 DEF GateInv, GateTypes
<1>6. ASSUME NEW o \in Occ, Thread(o) PROVE GateInv'
  <2>1. CASE WindowTake(o) \/ WindowTimeout(o)
    <3>1. /\ UNCHANGED <<windowOpen, routeOpen, rerouteCell, recoveryQueue, recoveryCell, personQueue>>
          /\ pc[o] = "window" /\ pc' = [pc EXCEPT ![o] = "closing"]
          /\ \A p \in Occ \ {o} : got'[p] = got[p]
      BY <2>1 DEF WindowTake, WindowTimeout, Goto, GateTypes
    <3>. QED
      BY <1>0, <3>1 DEF GateInv, GateTypes, ThreadTypes, PersonPcs
  <2>2. CASE GiveUp(o)
    BY <1>0, <2>2 DEF GiveUp, Goto, GateInv, GateTypes, ThreadTypes, PersonPcs, gateVars
  <2>3. CASE ApplyWindow(o)
    BY <1>0, <2>3 DEF ApplyWindow, Goto, GateInv, GateTypes, ThreadTypes, PersonPcs, gateVars
  <2>4. CASE LeaveWindow(o)
    BY <1>0, <2>4 DEF LeaveWindow, Goto, GateInv, GateTypes, ThreadTypes, PersonPcs
  <2>5. CASE CloseWindow(o)
    BY <1>0, <2>5 DEF CloseWindow, Goto, GateInv, GateTypes, ThreadTypes, PersonPcs
  <2>6. CASE Register(o)
    BY <1>0, <2>6 DEF Register, Goto, GateInv, GateTypes, ThreadTypes, PersonPcs
  <2>7. CASE OpenRoute(o)
    BY <1>0, <2>7 DEF OpenRoute, Goto, GateInv, GateTypes, ThreadTypes, PersonPcs
  <2>8. CASE TurnEnds(o)
    BY <1>0, <2>8 DEF TurnEnds, Goto, GateInv, GateTypes, ThreadTypes, PersonPcs, gateVars
  <2>9. CASE CloseRoute(o)
    BY <1>0, <2>9 DEF CloseRoute, Goto, GateInv, GateTypes, ThreadTypes, PersonPcs
  <2>10. CASE CloseSteering(o)
    BY <1>0, <2>10 DEF CloseSteering, Goto, GateInv, GateTypes, ThreadTypes, PersonPcs
  <2>11. CASE AskPerson(o)
    <3>1. o \in Persons /\ o \notin Elems(personQueue)
      BY <2>11 DEF AskPerson, GateInv, PersonPcs
    <3>2. Elems(personQueue') = Elems(personQueue) \cup {o}
      BY <2>11, <3>1, AppendIs DEF AskPerson, GateTypes
    <3>. QED
      BY <1>0, <2>11, <3>2 DEF AskPerson, Goto, GateInv, GateTypes, ThreadTypes, PersonPcs
  <2>12. CASE TakePerson(o)
    BY <1>0, <2>12 DEF TakePerson, Goto, GateInv, GateTypes, ThreadTypes, PersonPcs
  <2>13. CASE AwaitPersonAck(o)
    <3>1. /\ UNCHANGED gateVars /\ pc[o] \in {"person", "gotPerson"}
          /\ got' = [got EXCEPT ![o] = None] /\ pc' = [pc EXCEPT ![o] = "leavePerson"]
      BY <2>13 DEF AwaitPersonAck, Goto
    <3>. QED
      BY <1>0, <3>1 DEF GateInv, GateTypes, ThreadTypes, PersonPcs, gateVars
  <2>14. CASE LeavePerson(o)
    <3>1. Elems(personQueue') = Elems(personQueue) \ {o}
      BY <2>14, WithoutIs DEF LeavePerson, GateTypes
    <3>. QED
      BY <1>0, <2>14, <3>1 DEF LeavePerson, Goto, GateInv, GateTypes, ThreadTypes, PersonPcs
  <2>15. CASE EndAttempt(o)
    BY <1>0, <2>15 DEF EndAttempt, Goto, GateInv, GateTypes, ThreadTypes, PersonPcs, gateVars
  <2>16. CASE Unregister(o)
    <3>1. o \notin Elems(recoveryQueue) /\ pc[o] = "ended"
      BY <2>16 DEF Unregister, GateInv
    <3>2. Elems(Append(recoveryQueue, o)) = Elems(recoveryQueue) \cup {o}
      BY <3>1, AppendIs DEF GateTypes
    <3>3. UNCHANGED <<got, windowOpen, routeOpen, rerouteCell, recoveryCell, personQueue>>
      BY <2>16 DEF Unregister
    <3>4. \/ /\ \E l \in {"done", "dispatch"} : pc' = [pc EXCEPT ![o] = l]
             /\ UNCHANGED recoveryQueue
          \/ /\ pc' = [pc EXCEPT ![o] = "recovering"]
             /\ Elems(recoveryQueue') = Elems(recoveryQueue) \cup {o}
      BY <2>16, <3>2, Unregistering DEF Goto
    <3>5. CASE UNCHANGED recoveryQueue /\ \E l \in {"done", "dispatch"} : pc' = [pc EXCEPT ![o] = l]
      BY <1>0, <3>1, <3>3, <3>5 DEF GateInv, GateTypes, ThreadTypes, PersonPcs
    <3>6. CASE /\ pc' = [pc EXCEPT ![o] = "recovering"]
               /\ Elems(recoveryQueue') = Elems(recoveryQueue) \cup {o}
      BY <1>0, <3>1, <3>3, <3>6 DEF GateInv, GateTypes, ThreadTypes, PersonPcs
    <3>. QED
      BY <3>4, <3>5, <3>6
  <2>17. CASE TakeRecovery(o)
    BY <1>0, <2>17 DEF TakeRecovery, Goto, GateInv, GateTypes, ThreadTypes, PersonPcs
  <2>18. CASE LeaveRecovery(o)
    <3>1. Elems(recoveryQueue') = Elems(recoveryQueue) \ {o}
      BY <2>18, WithoutIs DEF LeaveRecovery, GateTypes
    <3>2. /\ UNCHANGED <<windowOpen, routeOpen, rerouteCell, personQueue>> /\ pc[o] = "recovered"
          /\ got' = [got EXCEPT ![o] = None] /\ recoveryCell' = [recoveryCell EXCEPT ![o] = None]
          /\ \E l \in {"done", "dispatch"} : pc' = [pc EXCEPT ![o] = l]
      BY <2>18 DEF LeaveRecovery, Goto
    <3>. QED
      BY <1>0, <3>1, <3>2 DEF GateInv, GateTypes, ThreadTypes, PersonPcs
  <2>. QED
    BY <1>6, <2>1, <2>2, <2>3, <2>4, <2>5, <2>6, <2>7, <2>8, <2>9, <2>10, <2>11, <2>12, <2>13, <2>14,
       <2>15, <2>16, <2>17, <2>18 DEF Thread
<1>. QED
  BY <1>1, <1>2, <1>3, <1>4, <1>5, <1>6 DEF Next, Receiver

-----------------------------------------------------------------------------
(* Redirects before the first attempt.                                     *)

(* The window chooses from the whole chain.                                *)
LEMMA WindowKept ==
  ASSUME ControlInv, Next
  PROVE  WindowInv'
<1>. /\ GateTypes /\ GateInv /\ WindowInv /\ ThreadTypes /\ OutInv /\ RxTypes
     /\ setup \in Setups /\ Persons \subseteq Occ
  BY SetupFacts DEF ControlInv, ThreadTypes
<1>. Occ' = Occ /\ Persons' = Persons /\ Cell' = Cell /\ Chain' = Chain
  BY SetupStays
<1>1. ASSUME NEW c \in Controls, Receive(c) PROVE WindowInv'
  <2>1. UNCHANGED <<pc, cand, got, windowOpen, windowCell>> /\ rx.pc = "idle"
    BY <1>1, Receiving DEF threadVars, gateVars
  <2>2. Decide(c).action = "redirect" => c.occ \in Occ /\ c.arg \in Elems(Chain[c.occ])
    BY Decisions DEF GateTypes
  <2>3. rx'.pc # "decided" \/ (rx'.action = Decide(c).action /\ rx'.control = c)
    BY <1>1, <2>1, Receiving DEF Decided, RxTypes
  <2>. QED
    BY <2>1, <2>2, <2>3 DEF WindowInv
<1>2. CASE DeliverRedirect
  <2>1. /\ UNCHANGED <<pc, cand, got, windowOpen>> /\ rx'.pc # "decided"
        /\ rx.pc = "decided" /\ rx.action = "redirect"
        /\ \/ windowCell' = windowCell
           \/ /\ windowCell' = [windowCell EXCEPT ![rx.control.occ] = rx.control]
              /\ rx.control.occ \in windowOpen
    BY <1>2 DEF DeliverRedirect, Delivered, RxTypes, threadVars
  <2>. QED
    BY <2>1 DEF WindowInv, GateTypes
<1>3. CASE DeliverSteer \/ DeliverReroute \/ LookUpGate \/ PutRecovery \/ PutAnswer \/ EmitAck \/ AfterAck
  <2>1. UNCHANGED <<pc, cand, got, windowOpen, windowCell>> /\ rx'.pc # "decided"
    <3>1. UNCHANGED <<pc, cand, got, windowOpen, windowCell>>
      BY <1>3 DEF DeliverSteer, DeliverReroute, LookUpGate, PutRecovery, PutAnswer, EmitAck, AfterAck,
                  threadVars, gateVars
    <3>2. rx'.pc # "decided"
      <4>1. CASE DeliverSteer \/ DeliverReroute
        BY <4>1 DEF DeliverSteer, DeliverReroute, Delivered, RxTypes
      <4>2. CASE LookUpGate \/ PutRecovery \/ PutAnswer
        BY <4>2 DEF LookUpGate, PutRecovery, PutAnswer, Delivered, RxTypes
      <4>3. CASE EmitAck \/ AfterAck
        BY <4>3 DEF EmitAck, AfterAck, Idle, RxTypes
      <4>. QED
        BY <1>3, <4>1, <4>2, <4>3
    <3>. QED
      BY <3>1, <3>2
  <2>. QED
    BY <2>1 DEF WindowInv
<1>4. ASSUME NEW o \in Occ, Thread(o) PROVE WindowInv'
  <2>. UNCHANGED rx
    BY <1>4 DEF Thread, WindowTake, WindowTimeout, CloseWindow, ApplyWindow, LeaveWindow, GiveUp,
         Register, OpenRoute, TurnEnds, AskPerson, TakePerson, AwaitPersonAck, LeavePerson, CloseRoute,
         CloseSteering, EndAttempt, Unregister, TakeRecovery, LeaveRecovery, rxVars
  <2>1. CASE WindowTake(o)
    BY <2>1 DEF WindowTake, Goto, WindowInv, GateTypes, ThreadTypes
  <2>2. CASE WindowTimeout(o)
    <3>1. /\ UNCHANGED <<cand, got, windowOpen>> /\ pc[o] = "window" /\ pc' = [pc EXCEPT ![o] = "closing"]
          /\ windowCell' = windowCell \/ windowCell' = [windowCell EXCEPT ![o] = None]
          /\ got[o] = None
      BY <2>2 DEF WindowTimeout, Goto, GateInv
    <3>. QED
      BY <3>1 DEF WindowInv, GateTypes, ThreadTypes
  <2>3. CASE CloseWindow(o)
    BY <2>3 DEF CloseWindow, Goto, WindowInv, GateTypes, ThreadTypes
  <2>4. CASE LeaveWindow(o)
    BY <2>4 DEF LeaveWindow, Goto, WindowInv, GateTypes, ThreadTypes
  <2>5. CASE ApplyWindow(o)
    BY <2>5 DEF ApplyWindow, Goto, WindowInv, GateTypes, ThreadTypes, gateVars
  <2>6. CASE \/ GiveUp(o) \/ Register(o) \/ OpenRoute(o) \/ TurnEnds(o) \/ AskPerson(o) \/ TakePerson(o)
             \/ AwaitPersonAck(o) \/ LeavePerson(o) \/ CloseRoute(o) \/ CloseSteering(o) \/ EndAttempt(o)
             \/ Unregister(o) \/ TakeRecovery(o) \/ LeaveRecovery(o)
    <3>1. UNCHANGED <<windowOpen, windowCell>>
      BY <2>6 DEF GiveUp, Register, OpenRoute, TurnEnds, AskPerson, TakePerson, AwaitPersonAck,
           LeavePerson, CloseRoute, CloseSteering, EndAttempt, Unregister, TakeRecovery, LeaveRecovery, gateVars
    <3>2. \E l \in Pcs \ {"window", "closing", "windowed"} : pc' = [pc EXCEPT ![o] = l]
      BY <2>6, Unregistering DEF GiveUp, Register, OpenRoute, TurnEnds, AskPerson, TakePerson, AwaitPersonAck,
           LeavePerson, CloseRoute, CloseSteering, EndAttempt, TakeRecovery, LeaveRecovery, Goto, Pcs
    <3>3. \A p \in Occ \ {o} : got'[p] = got[p] /\ cand'[p] = cand[p]
      BY <2>6 DEF GiveUp, Register, OpenRoute, TurnEnds, AskPerson, TakePerson, AwaitPersonAck,
           LeavePerson, CloseRoute, CloseSteering, EndAttempt, Unregister, TakeRecovery, LeaveRecovery, GateTypes
    <3>. QED
      BY <3>1, <3>2, <3>3 DEF WindowInv, ThreadTypes
  <2>. QED
    BY <1>4, <2>1, <2>2, <2>3, <2>4, <2>5, <2>6 DEF Thread
<1>. QED
  BY <1>1, <1>2, <1>3, <1>4 DEF Next, Receiver

-----------------------------------------------------------------------------
(* Redirects of an attempt in flight.                                      *)

(* A thread changes nothing of another occurrence.                         *)
LEMMA ThreadIsLocal ==
  ASSUME ControlInv, NEW o \in Occ, Thread(o)
  PROVE  /\ \A p \in Occ \ {o} :
              /\ pc'[p] = pc[p] /\ got'[p] = got[p] /\ rerouteCell'[p] = rerouteCell[p]
              /\ cand'[p] = cand[p] /\ out'[p] = out[p] /\ recoveryCell'[p] = recoveryCell[p]
              /\ promised'[p] = promised[p]
         /\ applied \subseteq applied' /\ DOMAIN promised' = DOMAIN promised
<1>. GateTypes /\ ThreadTypes /\ OutInv /\ PromiseInv
  BY DEF ControlInv
<1>1. \A p \in Occ \ {o} : /\ got'[p] = got[p] /\ rerouteCell'[p] = rerouteCell[p]
                           /\ cand'[p] = cand[p] /\ recoveryCell'[p] = recoveryCell[p]
  BY DEF Thread, WindowTake, WindowTimeout, CloseWindow, ApplyWindow, LeaveWindow, GiveUp,
         Register, OpenRoute, TurnEnds, AskPerson, TakePerson, AwaitPersonAck, LeavePerson, CloseRoute,
         CloseSteering, EndAttempt, Unregister, TakeRecovery, LeaveRecovery, GateTypes, gateVars
<1>2. /\ \A p \in Occ \ {o} : promised'[p] = promised[p] /\ out'[p] = out[p]
      /\ applied \subseteq applied' /\ DOMAIN promised' = DOMAIN promised
  BY DEF Thread, WindowTake, WindowTimeout, CloseWindow, ApplyWindow, LeaveWindow, GiveUp,
         Register, OpenRoute, TurnEnds, AskPerson, TakePerson, AwaitPersonAck, LeavePerson, CloseRoute,
         CloseSteering, EndAttempt, Unregister, TakeRecovery, LeaveRecovery, history, PromiseInv, ThreadTypes
<1>3. \E l \in Pcs : pc' = [pc EXCEPT ![o] = l]
  BY Unregistering DEF Thread, WindowTake, WindowTimeout, CloseWindow, ApplyWindow, LeaveWindow, GiveUp,
         Register, OpenRoute, TurnEnds, AskPerson, TakePerson, AwaitPersonAck, LeavePerson, CloseRoute,
         CloseSteering, EndAttempt, TakeRecovery, LeaveRecovery, Goto, Pcs
<1>. QED
  BY <1>1, <1>2, <1>3 DEF ThreadTypes

(* A redirect leaves its gate for the hands of the attempt, and those only *)
(* when it is applied or the run is cancelled.                             *)
LEMMA LostKept ==
  ASSUME ControlInv, Next
  PROVE  LostInv'
<1>. /\ GateTypes /\ GateInv /\ LostInv /\ ThreadTypes /\ OutInv /\ RxTypes
     /\ setup \in Setups /\ None \notin Controls
  BY SetupFacts DEF ControlInv, ThreadTypes
<1>. Occ' = Occ /\ Cell' = Cell /\ Controls' = Controls
  BY SetupStays
<1>1. ASSUME NEW c \in Controls, Receive(c) PROVE LostInv'
  BY <1>1, Receiving DEF LostInv, NoLostReroute, threadVars, gateVars, history
<1>2. CASE DeliverReroute
  <2>1. /\ UNCHANGED <<pc, got, applied, cancelled>>
        /\ \/ UNCHANGED <<rerouteCell, rerouted>>
           \/ /\ rx.control.occ \in routeOpen /\ rerouteCell[rx.control.occ] = None
              /\ rerouteCell' = [rerouteCell EXCEPT ![rx.control.occ] = rx.control]
              /\ rerouted' = rerouted \cup {rx.control}
        /\ rx.control \in Controls
    BY <1>2 DEF DeliverReroute, RxTypes, Working, threadVars
  <2>2. CASE UNCHANGED <<rerouteCell, rerouted>>
    BY <2>1, <2>2 DEF LostInv, NoLostReroute
  <2>3. CASE /\ rx.control.occ \in routeOpen /\ rerouteCell[rx.control.occ] = None
             /\ rerouteCell' = [rerouteCell EXCEPT ![rx.control.occ] = rx.control]
             /\ rerouted' = rerouted \cup {rx.control}
    <3>1. rx.control.occ \in Occ /\ rerouteCell'[rx.control.occ] = rx.control
          /\ \A o \in Occ \ {rx.control.occ} : rerouteCell'[o] = rerouteCell[o]
      BY <2>3 DEF GateTypes
    <3>. QED
      BY <2>1, <2>3, <3>1 DEF LostInv, NoLostReroute
  <2>. QED
    BY <2>1, <2>2, <2>3
<1>3. CASE DeliverSteer \/ DeliverRedirect \/ LookUpGate \/ PutRecovery \/ PutAnswer \/ EmitAck \/ AfterAck
  <2>1. UNCHANGED <<pc, got, applied, cancelled, rerouteCell, rerouted>>
    BY <1>3 DEF DeliverSteer, DeliverRedirect, LookUpGate, PutRecovery, PutAnswer, EmitAck, AfterAck,
                threadVars, gateVars, history
  <2>. QED
    BY <2>1 DEF LostInv, NoLostReroute
<1>4. ASSUME NEW o \in Occ, Thread(o) PROVE LostInv'
  <2>. UNCHANGED <<cancelled, rerouted>>
    BY <1>4 DEF Thread, WindowTake, WindowTimeout, CloseWindow, ApplyWindow, LeaveWindow, GiveUp,
         Register, OpenRoute, TurnEnds, AskPerson, TakePerson, AwaitPersonAck, LeavePerson, CloseRoute,
         CloseSteering, EndAttempt, Unregister, TakeRecovery, LeaveRecovery, rxVars, history
  <2>1. /\ \A p \in Occ \ {o} : pc'[p] = pc[p] /\ got'[p] = got[p] /\ rerouteCell'[p] = rerouteCell[p]
        /\ applied \subseteq applied'
    BY <1>4, ThreadIsLocal
  <2>2. ASSUME NEW c \in Controls, c \in {rerouteCell[o], got[o]}, ~cancelled
        PROVE  c \in {rerouteCell'[o], got'[o]} \/ c \in applied'
    <3>. c # None
      OBVIOUS
    <3>1. CASE \/ WindowTake(o) \/ WindowTimeout(o) \/ CloseWindow(o) \/ ApplyWindow(o) \/ LeaveWindow(o)
               \/ GiveUp(o) \/ Register(o) \/ OpenRoute(o) \/ TurnEnds(o)
      BY <2>2, <3>1 DEF WindowTake, WindowTimeout, CloseWindow, ApplyWindow, LeaveWindow, GiveUp, Register,
         OpenRoute, TurnEnds, GateInv, GateTypes, gateVars
    <3>2. CASE AskPerson(o) \/ TakePerson(o) \/ AwaitPersonAck(o) \/ LeavePerson(o)
      BY <2>2, <3>2 DEF AskPerson, TakePerson, AwaitPersonAck, LeavePerson, GateInv, GateTypes, gateVars
    <3>3. CASE CloseRoute(o) \/ CloseSteering(o) \/ EndAttempt(o) \/ Unregister(o)
      BY <2>2, <3>3 DEF CloseRoute, CloseSteering, EndAttempt, Unregister, GateInv, GateTypes, OutInv, gateVars
    <3>4. CASE TakeRecovery(o) \/ LeaveRecovery(o)
      BY <2>2, <3>4 DEF TakeRecovery, LeaveRecovery, GateInv, GateTypes, LostInv, history
    <3>. QED
      BY <1>4, <3>1, <3>2, <3>3, <3>4 DEF Thread
  <2>3. NoLostReroute'
    BY <2>1, <2>2 DEF LostInv, NoLostReroute
  <2>4. pc'[o] = "recovered" => TakeRecovery(o)
    BY <1>4, Unregistering DEF Thread, WindowTake, WindowTimeout, CloseWindow, ApplyWindow, LeaveWindow, GiveUp,
         Register, OpenRoute, TurnEnds, AskPerson, TakePerson, AwaitPersonAck, LeavePerson, CloseRoute,
         CloseSteering, EndAttempt, LeaveRecovery, Goto, ThreadTypes
  <2>5. TakeRecovery(o) /\ got'[o] # None => got'[o] \in applied'
    BY DEF TakeRecovery, GateTypes
  <2>. QED
    BY <2>1, <2>3, <2>4, <2>5 DEF LostInv
<1>. QED
  BY <1>1, <1>2, <1>3, <1>4 DEF Next, Receiver

(* The thread of the redirected occurrence, one step.                      *)
LEMMA RouteStep ==
  ASSUME ControlInv, Next, NEW o \in Occ, Thread(o)
  PROVE  /\ HasCandidate(o)' => cand'[o] # << >>
         /\ rerouteCell'[o] # None => rerouteCell'[o].arg \in Elems(cand'[o])
         /\ InHand(o)' => got'[o].arg \in Elems(cand'[o])
         /\ \A t \in Targets :
              LET Chosen == /\ pc[o] \notin {"window", "closing", "windowed"}
                            /\ recoveryCell[o] = None /\ (pc[o] = "recovered" => got[o] = None)
                            /\ t \in Elems(cand[o])
                            /\ rerouteCell[o] # None \/ InHand(o) => t \in Elems(Tail(cand[o]))
              IN Chosen => Chosen'
<1>. /\ GateTypes /\ GateInv /\ RouteInv /\ ThreadTypes /\ OutInv
  BY DEF ControlInv
<1>. Occ' = Occ
  BY SetupStays
<1>1. CASE \/ WindowTake(o) \/ WindowTimeout(o) \/ CloseWindow(o) \/ LeaveWindow(o) \/ GiveUp(o)
           \/ AskPerson(o) \/ TakePerson(o) \/ AwaitPersonAck(o) \/ LeavePerson(o)
  <2>1. /\ UNCHANGED <<cand, rerouteCell, recoveryCell>> /\ rerouteCell[o] = None
        /\ \E l \in Pcs \ (InFlight \cup {"recovering", "recovered"}) : pc' = [pc EXCEPT ![o] = l]
        /\ pc[o] \in {"window", "closing", "windowed"}
             \/ \E l \in Pcs \ {"window", "closing", "windowed"} : pc' = [pc EXCEPT ![o] = l]
    BY <1>1 DEF WindowTake, WindowTimeout, CloseWindow, LeaveWindow, GiveUp, AskPerson, TakePerson,
                AwaitPersonAck, LeavePerson, Goto, GateInv, gateVars, Pcs, InFlight, Steerable
  <2>. QED
    BY <2>1 DEF HasCandidate, InHand, ThreadTypes, InFlight, Steerable
<1>2. CASE ApplyWindow(o)
  BY <1>2 DEF ApplyWindow, Goto, HasCandidate, InHand, GateInv, ThreadTypes, InFlight, Steerable, gateVars
<1>3. CASE Register(o)
  BY <1>3 DEF Register, Goto, HasCandidate, InHand, GateInv, ThreadTypes, InFlight, Steerable
<1>4. CASE OpenRoute(o)
  BY <1>4 DEF OpenRoute, Goto, HasCandidate, InHand, RouteInv, GateTypes, ThreadTypes, InFlight, Steerable
<1>5. CASE TurnEnds(o)
  BY <1>5 DEF TurnEnds, Goto, HasCandidate, InHand, RouteInv, ThreadTypes, InFlight, Steerable, gateVars
<1>6. CASE CloseRoute(o)
  BY <1>6 DEF CloseRoute, Goto, HasCandidate, InHand, RouteInv, GateTypes, ThreadTypes, InFlight, Steerable
<1>7. CASE CloseSteering(o)
  BY <1>7 DEF CloseSteering, Goto, HasCandidate, InHand, RouteInv, ThreadTypes, InFlight, Steerable
<1>8. CASE EndAttempt(o)
  <2>. DEFINE t == got[o].arg
  <2>1. /\ cand[o] # << >> /\ cand[o] \in Seq(Targets) /\ pc[o] = "steerClosed" /\ rerouteCell[o] = None
        /\ pc' = [pc EXCEPT ![o] = "ended"] /\ got' = [got EXCEPT ![o] = None] /\ UNCHANGED gateVars
    BY <1>8 DEF EndAttempt, Goto, RouteInv, HasCandidate, GateTypes, GateInv, InFlight
  <2>2. /\ pc'[o] = "ended" /\ got'[o] = None /\ rerouteCell'[o] = None
        /\ recoveryCell'[o] = recoveryCell[o]
    BY <2>1 DEF ThreadTypes, GateTypes, gateVars
  <2>3. CASE UNCHANGED <<cand, out>>
    BY <2>1, <2>2, <2>3 DEF HasCandidate, InHand
  <2>4. CASE /\ got[o] # None /\ out' = [out EXCEPT ![o] = "rerouted"]
             /\ cand' = [cand EXCEPT ![o] = Prefer(t, Tail(cand[o]))]
    <3>1. Tail(cand[o]) \in Seq(Targets)
      BY <2>1, TailIs
    <3>2. Elems(Tail(cand[o])) \subseteq Elems(Prefer(t, Tail(cand[o])))
      BY <3>1, PreferIs DEF Prefer
    <3>3. cand'[o] = Prefer(t, Tail(cand[o])) /\ out'[o] = "rerouted"
      BY <2>4 DEF GateTypes, ThreadTypes
    <3>4. InHand(o)
      BY <2>1, <2>4 DEF InHand
    <3>. QED
      BY <2>1, <2>2, <3>2, <3>3, <3>4 DEF HasCandidate, InHand, InFlight, Steerable
  <2>. QED
    BY <1>8, <2>3, <2>4 DEF EndAttempt
<1>9. CASE Unregister(o)
  <2>1. /\ UNCHANGED <<cand, got, out, rerouteCell, recoveryCell>> /\ pc[o] = "ended"
        /\ \/ \E l \in {"done", "dispatch"} : pc' = [pc EXCEPT ![o] = l]
           \/ out[o] = "gap" /\ pc' = [pc EXCEPT ![o] = "recovering"]
    BY <1>9, Unregistering DEF Unregister, Goto
  <2>. QED
    BY <2>1 DEF HasCandidate, InHand, RouteInv, GateInv, ThreadTypes, InFlight, Steerable
<1>10. CASE TakeRecovery(o)
  BY <1>10 DEF TakeRecovery, Goto, HasCandidate, InHand, RouteInv, GateInv, GateTypes, ThreadTypes,
               InFlight, Steerable
<1>11. CASE LeaveRecovery(o)
  <2>1. /\ UNCHANGED rerouteCell /\ pc[o] = "recovered" /\ got'[o] = None /\ recoveryCell'[o] = None
        /\ \E l \in {"done", "dispatch"} : pc' = [pc EXCEPT ![o] = l]
        /\ got[o] = None => UNCHANGED cand
    BY <1>11 DEF LeaveRecovery, Goto, GateTypes
  <2>. QED
    BY <2>1 DEF HasCandidate, InHand, GateInv, ThreadTypes, InFlight, Steerable
<1>. QED
  BY <1>1, <1>2, <1>3, <1>4, <1>5, <1>6, <1>7, <1>8, <1>9, <1>10, <1>11 DEF Thread

(* A redirect that was decided stays in the chain until it is delivered: a *)
(* thread can drop the target only by the redirect before it, and that one *)
(* leaves the gate empty.                                                  *)
LEMMA RouteKept ==
  ASSUME ControlInv, Next
  PROVE  RouteInv'
<1>. /\ GateTypes /\ GateInv /\ RouteInv /\ ThreadTypes /\ OutInv /\ RxTypes /\ setup \in Setups
  BY DEF ControlInv, ThreadTypes
<1>. Occ' = Occ
  BY SetupStays
<1>1. ASSUME NEW c \in Controls, Receive(c) PROVE RouteInv'
  <2>1. UNCHANGED <<pc, cand, out, got, rerouteCell, recoveryCell>> /\ rx.pc = "idle"
    BY <1>1, Receiving DEF threadVars, gateVars
  <2>2. rx'.pc # "decided" \/ (rx'.action = Decide(c).action /\ rx'.control = c)
    BY <1>1, <2>1, Receiving DEF Decided, RxTypes
  <2>3. ASSUME Decide(c).action = "reroute"
        PROVE  /\ c.occ \in Occ /\ pc[c.occ] \in {"asking", "returned"}
               /\ recoveryCell[c.occ] = None /\ got[c.occ] = None
               /\ c.arg \in Elems(Tail(cand[c.occ])) /\ c.arg \in Elems(cand[c.occ])
    <3>1. c.occ \in routeOpen /\ c.arg \in Elems(Tail(cand[c.occ]))
      BY <2>3, Decisions
    <3>2. c.occ \in Occ /\ pc[c.occ] \in {"asking", "returned"}
      BY <3>1 DEF GateTypes, GateInv
    <3>3. recoveryCell[c.occ] = None /\ got[c.occ] = None
      BY <3>2 DEF GateInv
    <3>4. cand[c.occ] # << >> /\ cand[c.occ] \in Seq(Targets)
      BY <3>2 DEF RouteInv, HasCandidate, InFlight, Steerable, GateTypes
    <3>5. c.arg \in Elems(cand[c.occ])
      BY <3>1, <3>4, TailIs
    <3>. QED
      BY <3>1, <3>2, <3>3, <3>5
  <2>4. DecidedReroute'
    BY <2>1, <2>2, <2>3 DEF DecidedReroute
  <2>. QED
    BY <2>1, <2>4 DEF RouteInv, HasCandidate, InHand
<1>2. CASE DeliverReroute
  <2>1. /\ UNCHANGED <<pc, cand, out, got>> /\ rx'.pc # "decided"
        /\ rx.pc = "decided" /\ rx.action = "reroute"
        /\ \/ rerouteCell' = rerouteCell
           \/ rerouteCell' = [rerouteCell EXCEPT ![rx.control.occ] = rx.control]
    BY <1>2 DEF DeliverReroute, Delivered, RxTypes, threadVars
  <2>2. rx.control.occ \in Occ /\ rx.control.arg \in Elems(cand[rx.control.occ])
    BY <2>1 DEF RouteInv, DecidedReroute
  <2>. QED
    BY <2>1, <2>2 DEF RouteInv, DecidedReroute, HasCandidate, InHand, GateTypes
<1>3. CASE DeliverSteer \/ DeliverRedirect \/ LookUpGate \/ PutRecovery \/ PutAnswer \/ EmitAck \/ AfterAck
  <2>1. UNCHANGED <<pc, cand, out, got, rerouteCell>>
    BY <1>3 DEF DeliverSteer, DeliverRedirect, LookUpGate, PutRecovery, PutAnswer, EmitAck, AfterAck,
                threadVars, gateVars
  <2>2. rx'.pc # "decided"
    <3>1. CASE DeliverSteer \/ DeliverRedirect
      BY <3>1 DEF DeliverSteer, DeliverRedirect, Delivered, RxTypes
    <3>2. CASE LookUpGate \/ PutRecovery \/ PutAnswer
      BY <3>2 DEF LookUpGate, PutRecovery, PutAnswer, Delivered, RxTypes
    <3>3. CASE EmitAck \/ AfterAck
      BY <3>3 DEF EmitAck, AfterAck, Idle, RxTypes
    <3>. QED
      BY <1>3, <3>1, <3>2, <3>3
  <2>. QED
    BY <2>1, <2>2 DEF RouteInv, DecidedReroute, HasCandidate, InHand
<1>4. ASSUME NEW o \in Occ, Thread(o) PROVE RouteInv'
  <2>1. \A p \in Occ \ {o} : /\ pc'[p] = pc[p] /\ got'[p] = got[p] /\ rerouteCell'[p] = rerouteCell[p]
                             /\ cand'[p] = cand[p] /\ out'[p] = out[p] /\ recoveryCell'[p] = recoveryCell[p]
    BY <1>4, ThreadIsLocal
  <2>2. UNCHANGED rx
    BY <1>4 DEF Thread, WindowTake, WindowTimeout, CloseWindow, ApplyWindow, LeaveWindow, GiveUp,
         Register, OpenRoute, TurnEnds, AskPerson, TakePerson, AwaitPersonAck, LeavePerson, CloseRoute,
         CloseSteering, EndAttempt, Unregister, TakeRecovery, LeaveRecovery, rxVars
  <2>3. /\ HasCandidate(o)' => cand'[o] # << >>
        /\ rerouteCell'[o] # None => rerouteCell'[o].arg \in Elems(cand'[o])
        /\ InHand(o)' => got'[o].arg \in Elems(cand'[o])
    BY <1>4, RouteStep
  <2>4. \A p \in Occ \ {o} : (HasCandidate(p)' <=> HasCandidate(p)) /\ (InHand(p)' <=> InHand(p))
    BY <2>1 DEF HasCandidate, InHand
  <2>5. DecidedReroute'
    <3>1. SUFFICES ASSUME rx.pc = "decided", rx.action = "reroute" PROVE DecidedReroute'
      BY <2>2 DEF DecidedReroute
    <3>. DEFINE p == rx.control.occ
                t == rx.control.arg
    <3>2. /\ p \in Occ /\ pc[p] \notin {"window", "closing", "windowed"}
          /\ recoveryCell[p] = None /\ (pc[p] = "recovered" => got[p] = None)
          /\ t \in Elems(cand[p])
          /\ rerouteCell[p] # None \/ InHand(p) => t \in Elems(Tail(cand[p]))
      BY <3>1 DEF RouteInv, DecidedReroute
    <3>3. CASE p # o
      BY <2>1, <2>2, <2>4, <3>2, <3>3 DEF DecidedReroute
    <3>4. CASE p = o
      <4>1. t \in Targets
        BY <3>2, ElementOfSeq DEF GateTypes, Elems
      <4>2. /\ pc'[o] \notin {"window", "closing", "windowed"}
            /\ recoveryCell'[o] = None /\ (pc'[o] = "recovered" => got'[o] = None)
            /\ t \in Elems(cand'[o])
            /\ rerouteCell'[o] # None \/ InHand(o)' => t \in Elems(Tail(cand'[o]))
        BY <1>4, <3>2, <3>4, <4>1, RouteStep
      <4>. QED
        BY <2>2, <3>4, <4>2 DEF DecidedReroute
    <3>. QED
      BY <3>3, <3>4
  <2>. QED
    BY <2>1, <2>3, <2>4, <2>5 DEF RouteInv
<1>. QED
  BY <1>1, <1>2, <1>3, <1>4 DEF Next, Receiver

(* Applying a redirect puts its target first, unless the target is the     *)
(* candidate it stops.                                                     *)
LEMMA PromiseKept ==
  ASSUME ControlInv, Next
  PROVE  PromiseInv'
<1>. /\ GateTypes /\ GateInv /\ WindowInv /\ RouteInv /\ PromiseInv /\ ThreadTypes /\ OutInv
     /\ setup \in Setups
  BY DEF ControlInv, ThreadTypes
<1>. Occ' = Occ
  BY SetupStays
<1>1. CASE Receiver
  <2>1. UNCHANGED <<pc, cand, out, promised>>
    BY <1>1 DEF Receiver, Receive, DeliverSteer, DeliverRedirect, DeliverReroute, LookUpGate,
                PutRecovery, PutAnswer, EmitAck, AfterAck, threadVars, history
  <2>. QED
    BY <2>1 DEF PromiseInv
<1>2. ASSUME NEW o \in Occ, Thread(o) PROVE PromiseInv'
  <2>. DEFINE Kept == promised'[o] # None =>
                /\ pc'[o] \in {"dispatch", "ended", "done"} \cup PersonPcs
                /\ pc'[o] = "ended" => out'[o] = "rerouted"
                /\ pc'[o] \in {"ended", "dispatch"} =>
                     \/ promised'[o].to = promised'[o].stopped
                     \/ cand'[o] # << >> /\ Head(cand'[o]) = promised'[o].to
  <2>1. SUFFICES Kept
    <3>1. \A p \in Occ \ {o} : /\ pc'[p] = pc[p] /\ cand'[p] = cand[p] /\ out'[p] = out[p]
                               /\ promised'[p] = promised[p]
      BY <1>2, ThreadIsLocal
    <3>2. DOMAIN promised' = Occ
      BY <1>2, ThreadIsLocal DEF PromiseInv
    <3>. QED
      BY <3>1, <3>2 DEF PromiseInv
  <2>2. CASE ApplyWindow(o)
    <3>. DEFINE t == got[o].arg
    <3>1. /\ cand[o] = Chain[o] /\ t \in Elems(Chain[o]) /\ cand[o] \in Seq(Targets)
      BY <2>2 DEF ApplyWindow, GateInv, GateTypes, WindowInv
    <3>2. Prefer(t, cand[o]) # << >> /\ Head(Prefer(t, cand[o])) = t
      BY <3>1, PreferIs
    <3>3. /\ cand'[o] = Prefer(t, cand[o]) /\ promised'[o] = Promise(t, None) /\ pc'[o] = "dispatch"
      BY <2>2 DEF ApplyWindow, Goto, GateTypes, ThreadTypes, PromiseInv
    <3>. QED
      BY <3>2, <3>3 DEF Promise
  <2>3. CASE EndAttempt(o)
    <3>. DEFINE t == got[o].arg
    <3>1. pc[o] = "steerClosed" /\ pc'[o] = "ended" /\ promised[o] = None
      BY <2>3 DEF EndAttempt, Goto, ThreadTypes, PromiseInv, PersonPcs
    <3>2. CASE UNCHANGED promised
      BY <3>1, <3>2
    <3>3. CASE /\ got[o] # None /\ out' = [out EXCEPT ![o] = "rerouted"]
               /\ cand' = [cand EXCEPT ![o] = Prefer(t, Tail(cand[o]))]
               /\ promised' = [promised EXCEPT ![o] = Promise(t, Head(cand[o]))]
      <4>1. cand[o] \in Seq(Targets) /\ cand[o] # << >> /\ t \in Elems(cand[o])
        BY <3>1, <3>3 DEF RouteInv, HasCandidate, InHand, GateTypes, InFlight
      <4>2. Tail(cand[o]) \in Seq(Targets) /\ (t = Head(cand[o]) \/ t \in Elems(Tail(cand[o])))
        BY <4>1, TailIs
      <4>3. t \in Elems(Tail(cand[o])) =>
              Prefer(t, Tail(cand[o])) # << >> /\ Head(Prefer(t, Tail(cand[o]))) = t
        BY <4>2, PreferIs
      <4>4. /\ cand'[o] = Prefer(t, Tail(cand[o])) /\ promised'[o] = Promise(t, Head(cand[o]))
            /\ out'[o] = "rerouted"
        BY <3>3 DEF GateTypes, ThreadTypes, PromiseInv
      <4>. QED
        BY <3>1, <4>2, <4>3, <4>4 DEF Promise
    <3>. QED
      BY <2>3, <3>2, <3>3 DEF EndAttempt
  <2>4. CASE Register(o)
    BY <2>4 DEF Register, PromiseInv
  <2>5. CASE \/ WindowTake(o) \/ WindowTimeout(o) \/ CloseWindow(o) \/ LeaveWindow(o) \/ OpenRoute(o)
             \/ TurnEnds(o) \/ CloseRoute(o) \/ CloseSteering(o) \/ TakeRecovery(o) \/ LeaveRecovery(o)
    <3>1. /\ UNCHANGED promised
          /\ pc[o] \in {"window", "closing", "windowed", "recovering", "recovered"} \cup Steerable
      BY <2>5 DEF WindowTake, WindowTimeout, CloseWindow, LeaveWindow, OpenRoute, TurnEnds, CloseRoute,
           CloseSteering, TakeRecovery, LeaveRecovery, history, Steerable
    <3>. QED
      BY <3>1 DEF PromiseInv, PersonPcs, Steerable
  <2>6. CASE GiveUp(o) \/ AskPerson(o) \/ TakePerson(o) \/ AwaitPersonAck(o) \/ LeavePerson(o)
    <3>1. UNCHANGED promised /\ pc'[o] \in {"done"} \cup PersonPcs
      BY <2>6 DEF GiveUp, AskPerson, TakePerson, AwaitPersonAck, LeavePerson, Goto, history, PersonPcs,
           ThreadTypes
    <3>. QED
      BY <3>1 DEF PromiseInv, PersonPcs
  <2>7. CASE Unregister(o)
    <3>1. /\ UNCHANGED <<promised, cand, out>> /\ pc[o] = "ended"
          /\ \/ pc'[o] \in {"done", "dispatch"}
             \/ pc'[o] = "recovering" /\ out[o] = "gap"
      BY <2>7, Unregistering DEF Unregister, Goto, ThreadTypes
    <3>. QED
      BY <3>1 DEF PromiseInv, PersonPcs
  <2>. QED
    BY <1>2, <2>2, <2>3, <2>4, <2>5, <2>6, <2>7 DEF Thread
<1>. QED
  BY <1>1, <1>2 DEF Next

-----------------------------------------------------------------------------
(* The invariant, and what it says.                                        *)

(* The invariant holds of a run that has not begun.                        *)
LEMMA ControlInvInit == ASSUME Init PROVE ControlInv
<1>. /\ setup \in Setups /\ MaxAttempts \in Nat /\ Persons \subseteq Occ
     /\ Chain \in [Occ -> Seq(Targets)] /\ None \in Cell
  BY SetupFacts DEF Init, Cell
<1>0. /\ Elems(<< >>) = {} /\ Once(<< >>)
  BY DEF Elems, Once
<1>1. RxTypes /\ IdInv
  BY DEF Init, RxTypes, IdInv, Idle, RxActions, Working, AckStates
<1>2. AckInv /\ OutInv /\ LostInv
  BY DEF Init, AckInv, AckBeforeAction, OutInv, LostInv, NoLostReroute, Idle, Working
<1>3. ThreadTypes
  BY DEF Init, ThreadTypes, Pcs, InFlight, Steerable, PersonPcs
<1>4. SteerInv
  BY DEF Init, SteerInv, SteerDelivered, Idle
<1>5. GateTypes
  BY <1>0 DEF Init, GateTypes
<1>6. GateInv
  BY <1>0 DEF Init, GateInv, PersonPcs
<1>7. WindowInv
  BY DEF Init, WindowInv, Idle
<1>8. RouteInv
  BY DEF Init, RouteInv, DecidedReroute, HasCandidate, InHand, Idle, InFlight, Steerable
<1>9. PromiseInv
  BY DEF Init, PromiseInv
<1>. QED
  BY <1>1, <1>2, <1>3, <1>4, <1>5, <1>6, <1>7, <1>8, <1>9 DEF ControlInv

(* Every step keeps the invariant.                                         *)
LEMMA ControlInvNext == ASSUME ControlInv, [Next]_vars PROVE ControlInv'
<1>1. CASE Next
  BY <1>1, RxKept, AckKept, ThreadKept, SteerKept, GateTypesKept, GateKept, WindowKept, LostKept,
     RouteKept, PromiseKept DEF ControlInv
<1>2. CASE UNCHANGED vars
  <2>1. /\ RxTypes' /\ IdInv' /\ AckInv' /\ ThreadTypes' /\ OutInv'
    BY <1>2 DEF ControlInv, vars, threadVars, gateVars, rxVars, history, RxTypes, IdInv, AckInv,
         AckBeforeAction, ThreadTypes, OutInv, Occ, Persons, Controls, Ids, Attempts, Cell, MaxAttempts
  <2>2. /\ SteerInv' /\ GateTypes' /\ GateInv'
    BY <1>2 DEF ControlInv, vars, threadVars, gateVars, rxVars, history, SteerInv, SteerDelivered,
         GateTypes, GateInv, Occ, Persons, Controls, Ids, Attempts, Cell, MaxAttempts
  <2>3. /\ WindowInv' /\ RouteInv' /\ PromiseInv' /\ LostInv'
    BY <1>2 DEF ControlInv, vars, threadVars, gateVars, rxVars, history, WindowInv, RouteInv,
         DecidedReroute, HasCandidate, InHand, PromiseInv, LostInv, NoLostReroute, Occ, Chain, Controls
  <2>. QED
    BY <2>1, <2>2, <2>3 DEF ControlInv
<1>. QED
  BY <1>1, <1>2

(* Live control keeps its gates, its receiver and its threads in step.     *)
THEOREM ControlIsSound == Spec => []ControlInv
<1>. QED
  BY ControlInvInit, ControlInvNext, PTL DEF Spec

(* However often a control frame is sent, its id is delivered at most once *)
(* (liveAcks).                                                             *)
THEOREM OnceHolds == Spec => []OneDeliveryPerId
<1>1. ControlInv => OneDeliveryPerId
  BY DEF ControlInv, RxTypes, OneDeliveryPerId
<1>. QED
  BY <1>1, ControlIsSound, PTL

(* An occurrence acts on a redirect or a person answer only after the      *)
(* terminal acknowledgement of that control was emitted.                   *)
THEOREM AckFirst == Spec => []AckBeforeAction
<1>1. ControlInv => AckBeforeAction
  BY DEF ControlInv, AckInv
<1>. QED
  BY <1>1, ControlIsSound, PTL

(* The answer of a steered occurrence is never stored as replayable.       *)
THEOREM SteeredIsNotStored == Spec => []SteeredNotReplayable
<1>1. ControlInv => SteeredNotReplayable
  BY DEF ControlInv, SteerInv, SteeredNotReplayable
<1>. QED
  BY <1>1, ControlIsSound, PTL

(* attempt.steered is never emitted for an attempt whose end was emitted.  *)
THEOREM SteerOrder == Spec => SteeredBeforeEnd
<1>1. ASSUME ControlInv, [Next]_vars PROVE [(steered' \ steered) \cap ended = {}]_vars
  <2>1. CASE EmitAck
    <3>1. \/ steered' = steered
          \/ SteerDelivered /\ steered' = steered \cup {<<rx.control.occ, rx.control.att>>}
      BY <2>1 DEF EmitAck, SteerDelivered
    <3>2. SteerDelivered => <<rx.control.occ, rx.control.att>> \notin ended
      BY <1>1 DEF ControlInv, ThreadTypes, SteerInv
    <3>. QED
      BY <3>1, <3>2
  <2>2. CASE ~EmitAck /\ Next
    <3>1. steered' = steered
      BY <2>2, Receiving, <1>1 DEF Next, Receiver, Thread, WindowTake, WindowTimeout, CloseWindow, ApplyWindow, LeaveWindow,
         GiveUp, Register, OpenRoute, TurnEnds, AskPerson, TakePerson, AwaitPersonAck, LeavePerson,
         CloseRoute, CloseSteering, EndAttempt, Unregister, TakeRecovery, LeaveRecovery, Receive,
         DeliverSteer, DeliverRedirect, DeliverReroute, LookUpGate, PutRecovery, PutAnswer,
         AfterAck, history
    <3>. QED
      BY <3>1
  <2>. QED
    BY <1>1, <2>1, <2>2
<1>. QED
  BY <1>1, ControlIsSound, PTL DEF SteeredBeforeEnd, Spec

(* A redirect of an attempt in flight is not lost, and the chain then asks *)
(* the candidate it chose, unless that is the one it stopped.              *)
THEOREM RedirectsTakeEffect == Spec => []RerouteTakesEffect
<1>1. ControlInv => TypeOK
  BY DEF ControlInv, RxTypes, ThreadTypes, SteerInv, GateTypes, TypeOK, Pcs
<1>2. ControlInv => NoLostReroute
  BY DEF ControlInv, LostInv
<1>3. ControlInv => RerouteAsksTarget
  BY DEF ControlInv, PromiseInv, RerouteAsksTarget
<1>. QED
  BY <1>1, <1>2, <1>3, ControlIsSound, PTL DEF RerouteTakesEffect
=============================================================================
