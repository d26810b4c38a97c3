------------------------- MODULE ManagerClientProofs -------------------------
(***************************************************************************)
(* Proofs about the manager client, for any managers, resources, switches  *)
(* and failures.                                                           *)
(*                                                                         *)
(* ClientInv says who may still speak for the session: a fetch, a timer or *)
(* the follow loop of an earlier binding or generation can be told from    *)
(* one of this, and a resource that no fetch is in flight for was read     *)
(* after all that the loop has delivered.                                  *)
(***************************************************************************)
EXTENDS ManagerClient, FiniteSetTheorems, TLAPS

Entry      == [key : AllKeys, gen : Nat]
FlightType == [gen : Nat, dirty : BOOLEAN, on : BOOLEAN]
Reading    == [key : AllKeys, gen : Nat, bid : Binding, at : Nat]

(* The selection: its transport is the newest, a switch leaves the session *)
(* alone, and a fresh connection has none beside it.                       *)
SelInv ==
  /\ sel.pc \in {"idle", "load"} => sel.bid = 0
  /\ sel.pc = "idle" => sel.from = 0
  /\ sel.pc = "load" => sel.ep \in Endpoints /\ Len(bindings) < setup.bindings
  /\ sel.pc \in {"bind", "overview"} => /\ sel.bid = Len(bindings) /\ sel.bid > 0
                                        /\ sel.ep \in Endpoints /\ Ep(sel.bid) = sel.ep
                                        /\ ~closed => sel.bid \in open
  /\ sel.from # 0 /\ ~closed => sess # 0 /\ follow.pc # "off"
  /\ sel.pc \in {"load", "bind"} /\ sel.from = 0 => sess = 0
  /\ sel.pc = "overview" /\ sel.from = 0 /\ ~closed => sess # 0 /\ bid = sel.bid /\ follow.pc = "off"
  /\ sel.pc \in {"bind", "overview"} /\ sel.from # 0 =>
       bid < sel.bid /\ follow.bid < sel.bid /\ (reading # None => reading.bid < sel.bid)

(* The session: without one there is nothing, and before its loop runs     *)
(* nothing is fetched.                                                     *)
SessInv ==
  /\ bid <= Len(bindings) /\ follow.bid <= Len(bindings) /\ (reading # None => reading.bid <= Len(bindings))
  /\ sess = 0 => bid = 0 /\ follow.pc = "off" /\ watched = {}
  /\ sess # 0 => bid \in open /\ Overview \in watched /\ ~closed
  /\ sess # 0 /\ follow.pc = "off" => sel.pc = "overview" /\ sel.from = 0
  /\ follow.pc = "off" => /\ reading = None /\ lane = << >> /\ rereads = {} /\ conn # "connected"
                          /\ watched \subseteq {Overview}
                          /\ \A k \in AllKeys : ~flights[k].on
  /\ closed => conn = "closed"
  /\ IsFiniteSet(watched)

(* One fetch of the current generation for each resource in flight, queued *)
(* or being read, and none of a later generation.                          *)
LaneInv ==
  /\ \A k \in AllKeys : flights[k].on => flights[k].gen = gen /\ k \in watched
  /\ \A i \in DOMAIN lane : lane[i].gen <= gen /\ (lane[i].gen = gen => flights[lane[i].key].on)
  /\ \A i, j \in DOMAIN lane : i # j /\ lane[i].gen = gen /\ lane[j].gen = gen => lane[i].key # lane[j].key
  /\ reading # None =>
       /\ reading.gen <= gen
       /\ reading.gen = gen =>
            /\ flights[reading.key].on /\ reading.bid = bid
            /\ \A i \in DOMAIN lane : lane[i].gen = gen => lane[i].key # reading.key
  /\ \A t \in rereads : t.gen <= gen

(* The loop: one that still stands at an earlier binding has lost its      *)
(* transport, and until it follows the current one nobody reads the        *)
(* overview again.                                                         *)
Following == follow.pc = "follow" /\ follow.bid = bid
Behind    == follow.pc \in {"follow", "boot"} /\ follow.bid # bid

LoopInv ==
  /\ Behind => follow.bid \notin open /\ installed[Overview].kind = "ok"
  /\ follow.pc = "boot" => follow.gen <= gen /\ (follow.gen = gen <=> follow.bid = bid)
  /\ Following => follow.at <= End(Ep(bid))
  /\ \A k \in AllKeys : installed[k].kind = "ok" => installed[k].at <= End(Ep(bid))
  /\ ~Following /\ follow.pc # "ended" =>
       ~flights[Overview].on /\ \A t \in rereads : t.gen = gen => t.key # Overview

(* How far the loop has told the session of the changes, or will have when *)
(* it takes up the current binding.                                        *)
Told == IF follow.bid = bid THEN follow.at ELSE installed[Overview].at

ToldInv ==
  Following \/ Behind =>
    \A k \in watched :
      /\ ~flights[k].on /\ installed[k].kind = "ok" => Untouched(k, Ep(bid), installed[k].at, Told)
      /\ reading # None /\ reading.key = k /\ reading.gen = gen /\ ~flights[k].dirty =>
           Untouched(k, Ep(bid), reading.at, Told)

(* The inductive invariant.                                                *)
ClientInv ==
  /\ TypeOK /\ NoForeignRead /\ NoLeakedTransport /\ ConnectedFollows
  /\ SelInv /\ SessInv /\ LaneInv /\ LoopInv /\ ToldInv

-----------------------------------------------------------------------------
(* The types, in parts.                                                    *)
BaseTypes ==
  /\ setup \in Setups
  /\ log \in [Endpoints -> Seq(Keys)] /\ oldest \in [Endpoints -> Nat]
  /\ failures \in Nat /\ bindings \in Seq(Endpoints) /\ Len(bindings) <= setup.bindings
  /\ open \subseteq 1..Len(bindings) /\ closed \in BOOLEAN
  /\ conn \in {"connecting", "connected", "ended", "failed", "closed"}
  /\ sess \in Binding /\ bid \in Binding

SelType == sel \in [pc : {"idle", "load", "bind", "overview"}, ep : Endpoints \cup {None},
                    bid : Binding, from : Binding, at : Nat]

NameTypes ==
  /\ names \in Binding /\ unnamed \in Binding /\ namesOf \in Binding
  /\ naming \in [sess : Binding, asked : Binding, bid : Binding, left : Nat, found : Binding] \cup {None}

FlightTypes == gen \in Nat /\ flights \in [AllKeys -> FlightType] /\ lane \in Seq(Entry)

ReadTypes ==
  /\ reading \in Reading \cup {None} /\ watched \subseteq AllKeys
  /\ installed \in [AllKeys -> Reads] /\ rereads \subseteq Entry

FollowType == follow \in [pc : {"off", "follow", "boot", "ended"}, bid : Binding, at : Nat, gen : Nat]

LEMMA TypeParts ==
  TypeOK <=> BaseTypes /\ SelType /\ NameTypes /\ FlightTypes /\ ReadTypes /\ FollowType
BY DEF TypeOK, BaseTypes, SelType, NameTypes, FlightTypes, ReadTypes, FollowType, FlightType, Entry, Reading

LEMMA TypePartsNext ==
  TypeOK' <=> BaseTypes' /\ SelType' /\ NameTypes' /\ FlightTypes' /\ ReadTypes' /\ FollowType'
BY DEF TypeOK, BaseTypes, SelType, NameTypes, FlightTypes, ReadTypes, FollowType, FlightType, Entry, Reading

LEMMA SetupIs ==
  ASSUME BaseTypes
  PROVE  /\ setup.bindings \in Nat \ {0} /\ setup.profiles \in Nat \ {0} /\ setup.endpoints \subseteq Endpoints
         /\ setup.keys \subseteq Keys /\ 0 \in Binding /\ Binding \subseteq Nat
         /\ \A n \in 0 .. Len(bindings) : n \in Binding
         /\ Overview \in AllKeys /\ Keys \subseteq AllKeys /\ Overview \notin Keys
<1>1. /\ setup \in [changes : Nat, bindings : Nat \ {0}, failures : Nat,
                    profiles : Nat \ {0}, endpoints : SUBSET Endpoints, keys : SUBSET Keys]
      /\ Overview \notin Keys
  BY ClientAssumption DEF BaseTypes
<1>2. Len(bindings) \in Nat /\ Len(bindings) <= setup.bindings
  BY DEF BaseTypes
<1>. QED
  BY <1>1, <1>2 DEF Binding, AllKeys

-----------------------------------------------------------------------------
(* The coordinator.                                                        *)

LEMMA SetToSeqIs ==
  ASSUME NEW T, IsFiniteSet(T)
  PROVE  /\ Cardinality(T) \in Nat /\ SetToSeq(T) \in [1..Cardinality(T) -> T]
         /\ \A i, j \in 1..Cardinality(T) : SetToSeq(T)[i] = SetToSeq(T)[j] => i = j
<1>. DEFINE n == Cardinality(T)
<1>1. n \in Nat /\ ExistsBijection(1..n, T)
  BY FS_CardinalityType
<1>2. PICK f : f \in Bijection(1..n, T)
  BY <1>1 DEF ExistsBijection
<1>3. f \in [1..n -> T] /\ IsInjective(f)
  BY <1>2 DEF Bijection, Injection
<1>4. SetToSeq(T) \in [1..n -> T] /\ IsInjective(SetToSeq(T))
  BY <1>3 DEF SetToSeq
<1>. QED
  BY <1>1, <1>4 DEF IsInjective

(* What an invalidation does to the flights and to the lane: the fetches   *)
(* it adds are of the current generation, for resources that had none.     *)
LEMMA InvalidateIs ==
  ASSUME FlightTypes, NEW ks, ks \subseteq AllKeys, IsFiniteSet(ks), SetRefresh(Invalidate(ks))
  PROVE  /\ FlightTypes' /\ gen' = gen
         /\ \A k \in AllKeys \ ks : flights'[k] = flights[k]
         /\ \A k \in ks : flights'[k].on
         /\ \A k \in ks : flights[k].on => flights'[k].dirty /\ flights'[k].gen = flights[k].gen
         /\ \A k \in ks : ~flights[k].on => flights'[k].gen = gen
         /\ Len(lane) <= Len(lane') /\ \A i \in 1..Len(lane) : lane'[i] = lane[i]
         /\ \A i \in Len(lane) + 1 .. Len(lane') :
              lane'[i].gen = gen /\ lane'[i].key \in ks /\ ~flights[lane'[i].key].on
         /\ \A i, j \in Len(lane) + 1 .. Len(lane') : lane'[i].key = lane'[j].key => i = j
<1>. DEFINE T == {k \in ks : ~flights[k].on}
            n == Cardinality(T)
            idle == SetToSeq(T)
            new == [i \in DOMAIN idle |-> [key |-> idle[i], gen |-> gen]]
            fs == [k \in AllKeys |-> IF k \in ks THEN InvalidateResource(flights[k]) ELSE flights[k]]
<1>1. gen' = gen /\ flights' = fs /\ lane' = lane \o new
  BY DEF SetRefresh, Invalidate
<1>2. IsFiniteSet(T)
  <2>1. T \in SUBSET ks
    OBVIOUS
  <2>. HIDE DEF T
  <2>. QED BY <2>1, FS_Subset
<1>3. n \in Nat /\ idle \in [1..n -> T] /\ \A i, j \in 1..n : idle[i] = idle[j] => i = j
  <2>. HIDE DEF T
  <2>. QED BY <1>2, SetToSeqIs
<1>. HIDE DEF idle, n
<1>4. /\ new \in Seq(Entry) /\ Len(new) = n
      /\ \A i \in 1..n : new[i].key = idle[i] /\ new[i].gen = gen
  BY <1>3 DEF FlightTypes, Entry
<1>5. lane \in Seq(Entry)
  BY DEF FlightTypes
<1>. HIDE DEF new
<1>6. /\ lane' \in Seq(Entry) /\ Len(lane') = Len(lane) + n
      /\ \A i \in 1..Len(lane) : lane'[i] = lane[i]
      /\ \A i \in Len(lane) + 1 .. Len(lane') : lane'[i] = new[i - Len(lane)]
  BY <1>1, <1>3, <1>4, <1>5
<1>7. ASSUME NEW i \in Len(lane) + 1 .. Len(lane')
      PROVE  i - Len(lane) \in 1..n /\ lane'[i].key = idle[i - Len(lane)] /\ lane'[i].gen = gen
  <2>1. i - Len(lane) \in 1..n
    BY <1>3, <1>5, <1>6
  <2>. QED
    BY <1>4, <1>6, <2>1
<1>8. \A i \in Len(lane) + 1 .. Len(lane') :
        lane'[i].gen = gen /\ lane'[i].key \in ks /\ ~flights[lane'[i].key].on
  BY <1>3, <1>7
<1>9. ASSUME NEW i \in Len(lane) + 1 .. Len(lane'), NEW j \in Len(lane) + 1 .. Len(lane'), lane'[i].key = lane'[j].key
      PROVE  i = j
  <2>1. i - Len(lane) = j - Len(lane)
    BY <1>3, <1>7, <1>9
  <2>. QED
    BY <1>5, <1>6, <2>1
<1>10. ASSUME NEW k \in AllKeys
       PROVE  /\ InvalidateResource(flights[k]) \in FlightType /\ InvalidateResource(flights[k]).on
              /\ flights[k].on => InvalidateResource(flights[k]).dirty /\ InvalidateResource(flights[k]).gen = flights[k].gen
              /\ ~flights[k].on => InvalidateResource(flights[k]).gen = gen
  BY DEF InvalidateResource, FlightTypes, FlightType, Flight
<1>11. flights' \in [AllKeys -> FlightType]
  BY <1>1, <1>10 DEF FlightTypes
<1>12. FlightTypes'
  BY <1>1, <1>6, <1>11 DEF FlightTypes
<1>13. \A k \in AllKeys : flights'[k] = IF k \in ks THEN InvalidateResource(flights[k]) ELSE flights[k]
  BY <1>1
<1>. HIDE DEF fs
<1>. QED
  BY <1>1, <1>3, <1>5, <1>6, <1>8, <1>9, <1>10, <1>12, <1>13

LEMMA LaneIs ==
  ASSUME NEW q \in Seq(Entry)
  PROVE  /\ DOMAIN q = 1..Len(q) /\ Len(q) \in Nat
         /\ \A i \in DOMAIN q : q[i] \in Entry /\ q[i].key \in AllKeys /\ q[i].gen \in Nat
<1>1. DOMAIN q = 1..Len(q) /\ Len(q) \in Nat /\ \A i \in DOMAIN q : q[i] \in Entry
  OBVIOUS
<1>2. \A x \in Entry : x.key \in AllKeys /\ x.gen \in Nat
  BY DEF Entry
<1>. QED
  BY <1>1, <1>2

(* An invalidation of watched resources keeps one fetch for each flight.   *)
LEMMA InvalidateLane ==
  ASSUME FlightTypes, FlightTypes', ReadTypes, LaneInv, NEW ks, ks \subseteq watched', watched \subseteq watched', watched' \subseteq AllKeys,
         IsFiniteSet(ks), SetRefresh(Invalidate(ks)), reading' = reading, bid' = bid, rereads' \subseteq rereads
  PROVE  LaneInv'
<1>1. /\ gen' = gen /\ ks \subseteq AllKeys
      /\ \A k \in AllKeys \ ks : flights'[k] = flights[k]
      /\ \A k \in ks : flights'[k].on
      /\ \A k \in ks : flights[k].on => flights'[k].gen = flights[k].gen
      /\ \A k \in ks : ~flights[k].on => flights'[k].gen = gen
      /\ Len(lane) <= Len(lane') /\ \A i \in 1..Len(lane) : lane'[i] = lane[i]
      /\ \A i \in Len(lane) + 1 .. Len(lane') :
           lane'[i].gen = gen /\ lane'[i].key \in ks /\ ~flights[lane'[i].key].on
      /\ \A i, j \in Len(lane) + 1 .. Len(lane') : lane'[i].key = lane'[j].key => i = j
  BY InvalidateIs
<1>2. \A k \in AllKeys : flights[k].on => flights'[k].on
  BY <1>1
<1>3. /\ lane \in Seq(Entry) /\ lane' \in Seq(Entry) /\ DOMAIN lane = 1..Len(lane) /\ DOMAIN lane' = 1..Len(lane')
      /\ Len(lane) \in Nat /\ Len(lane') \in Nat /\ gen \in Nat
      /\ \A i \in DOMAIN lane : lane[i].key \in AllKeys
  <2>1. lane \in Seq(Entry) /\ lane' \in Seq(Entry) /\ gen \in Nat
    BY DEF FlightTypes
  <2>. QED
    BY <2>1, LaneIs
<1>4. \A i \in DOMAIN lane' : i \in DOMAIN lane \/ i \in Len(lane) + 1 .. Len(lane')
  BY <1>1, <1>3
<1>5. \A k \in AllKeys : flights'[k].on => flights'[k].gen = gen' /\ k \in watched'
  BY <1>1 DEF LaneInv
<1>6. \A i \in DOMAIN lane' : lane'[i].gen <= gen' /\ (lane'[i].gen = gen' => flights'[lane'[i].key].on)
  BY <1>1, <1>2, <1>3, <1>4 DEF LaneInv
<1>7. ASSUME NEW i \in DOMAIN lane', NEW j \in DOMAIN lane', i # j, lane'[i].gen = gen', lane'[j].gen = gen'
      PROVE  lane'[i].key # lane'[j].key
  <2>1. CASE i \in DOMAIN lane /\ j \in DOMAIN lane
    BY <1>1, <1>3, <1>7, <2>1 DEF LaneInv
  <2>2. CASE i \notin DOMAIN lane /\ j \notin DOMAIN lane
    BY <1>1, <1>4, <1>7, <2>2
  <2>3. ASSUME NEW p \in DOMAIN lane, NEW q \in Len(lane) + 1 .. Len(lane'), lane'[p].gen = gen'
        PROVE  lane'[p].key # lane'[q].key
    BY <1>1, <1>3, <2>3 DEF LaneInv
  <2>. QED
    BY <1>4, <1>7, <2>1, <2>2, <2>3
<1>8. ASSUME reading' # None
      PROVE  /\ reading'.gen <= gen'
             /\ reading'.gen = gen' =>
                  /\ flights'[reading'.key].on /\ reading'.bid = bid'
                  /\ \A i \in DOMAIN lane' : lane'[i].gen = gen' => lane'[i].key # reading'.key
  <2>1. reading.gen <= gen /\ reading.key \in AllKeys
    BY <1>8 DEF LaneInv, ReadTypes, Reading
  <2>2. ASSUME reading.gen = gen
        PROVE  /\ flights[reading.key].on /\ reading.bid = bid
               /\ \A i \in DOMAIN lane : lane[i].gen = gen => lane[i].key # reading.key
    BY <1>8, <2>2 DEF LaneInv
  <2>3. ASSUME reading.gen = gen, NEW i \in DOMAIN lane', lane'[i].gen = gen'
        PROVE  lane'[i].key # reading.key
    BY <1>1, <1>3, <1>4, <2>2, <2>3
  <2>. QED
    BY <1>1, <1>2, <2>1, <2>2, <2>3
<1>9. \A t \in rereads' : t.gen <= gen'
  BY <1>1 DEF LaneInv
<1>. QED
  BY <1>5, <1>6, <1>7, <1>8, <1>9 DEF LaneInv

(* The completion of a fetch: discarded, or installed, with one further    *)
(* fetch when the flight was dirty.                                        *)
LEMMA CompleteIs ==
  ASSUME FlightTypes, NEW k \in AllKeys, NEW g \in Nat, SetRefresh(CompleteFetch(k, g))
  PROVE  /\ FlightTypes' /\ gen' = gen /\ \A j \in AllKeys \ {k} : flights'[j] = flights[j]
         /\ ~Installs(k, g) => flights' = flights /\ lane' = lane
         /\ Installs(k, g) /\ ~flights[k].dirty => ~flights'[k].on /\ lane' = lane
         /\ Installs(k, g) /\ flights[k].dirty =>
              /\ flights'[k].on /\ ~flights'[k].dirty /\ flights'[k].gen = gen
              /\ Len(lane') = Len(lane) + 1 /\ \A i \in 1..Len(lane) : lane'[i] = lane[i]
              /\ lane'[Len(lane')].key = k /\ lane'[Len(lane')].gen = gen
<1>. DEFINE new == [key |-> k, gen |-> gen]
<1>0. gen \in Nat /\ flights \in [AllKeys -> FlightType] /\ lane \in Seq(Entry)
  BY DEF FlightTypes
<1>1. CASE ~Installs(k, g)
  <2>1. gen' = gen /\ flights' = flights /\ lane' = lane
    BY <1>1 DEF SetRefresh, CompleteFetch, Refresh
  <2>. QED
    BY <1>1, <2>1 DEF FlightTypes
<1>2. CASE Installs(k, g) /\ ~flights[k].dirty
  <2>1. gen' = gen /\ flights' = [flights EXCEPT ![k] = NoFlight] /\ lane' = lane
    BY <1>2 DEF SetRefresh, CompleteFetch, Refresh
  <2>2. NoFlight \in FlightType /\ ~NoFlight.on
    BY DEF NoFlight, FlightType
  <2>3. FlightTypes'
    BY <1>0, <2>1, <2>2 DEF FlightTypes
  <2>. QED
    BY <1>0, <1>2, <2>1, <2>2, <2>3
<1>3. CASE Installs(k, g) /\ flights[k].dirty
  <2>1. gen' = gen /\ flights' = [flights EXCEPT ![k] = Flight(gen, FALSE)] /\ lane' = Append(lane, new)
    BY <1>3 DEF SetRefresh, CompleteFetch, Refresh, WithFetch
  <2>2. Flight(gen, FALSE) \in FlightType /\ Flight(gen, FALSE).on /\ ~Flight(gen, FALSE).dirty /\ Flight(gen, FALSE).gen = gen
    BY <1>0 DEF Flight, FlightType
  <2>3. new \in Entry /\ new.key = k /\ new.gen = gen
    BY <1>0 DEF Entry
  <2>. HIDE DEF new
  <2>4. /\ lane' \in Seq(Entry) /\ Len(lane') = Len(lane) + 1 /\ (\A i \in 1..Len(lane) : lane'[i] = lane[i])
        /\ lane'[Len(lane')] = new
    BY <1>0, <2>1, <2>3
  <2>5. flights' \in [AllKeys -> FlightType] /\ flights'[k] = Flight(gen, FALSE) /\ \A j \in AllKeys \ {k} : flights'[j] = flights[j]
    BY <1>0, <2>1, <2>2
  <2>6. FlightTypes'
    BY <1>0, <2>1, <2>4, <2>5 DEF FlightTypes
  <2>. QED
    BY <1>3, <2>1, <2>2, <2>3, <2>4, <2>5, <2>6
<1>. QED
  BY <1>1, <1>2, <1>3

(* The session forgets its flights.                                        *)
LEMMA AdvanceIs ==
  ASSUME FlightTypes, SetRefresh(AdvanceGeneration)
  PROVE  FlightTypes' /\ gen' = gen + 1 /\ lane' = lane /\ \A k \in AllKeys : ~flights'[k].on
<1>1. gen' = gen + 1 /\ lane' = lane /\ flights' = Idle
  BY DEF SetRefresh, AdvanceGeneration
<1>2. Idle \in [AllKeys -> FlightType] /\ \A k \in AllKeys : ~Idle[k].on
  BY DEF Idle, NoFlight, FlightType
<1>. QED
  BY <1>1, <1>2 DEF FlightTypes

(* Nothing of the new generation is in flight yet.                         *)
LEMMA AdvanceLane ==
  ASSUME FlightTypes, ReadTypes, LaneInv, SetRefresh(AdvanceGeneration), reading' = reading, rereads' = rereads
  PROVE  LaneInv'
<1>1. gen' = gen + 1 /\ gen \in Nat /\ lane' = lane /\ \A k \in AllKeys : ~flights'[k].on
  BY AdvanceIs DEF FlightTypes
<1>2. \A i \in DOMAIN lane : lane[i].gen \in Nat /\ lane[i].gen <= gen
  BY LaneIs DEF LaneInv, FlightTypes
<1>3. \A i \in DOMAIN lane' : lane'[i].gen <= gen' /\ lane'[i].gen # gen'
  BY <1>1, <1>2
<1>4. reading' # None => reading'.gen <= gen' /\ reading'.gen # gen'
  BY <1>1 DEF LaneInv, ReadTypes, Reading
<1>5. \A t \in rereads' : t.gen <= gen'
  BY <1>1 DEF LaneInv, ReadTypes, Entry
<1>. QED
  BY <1>1, <1>3, <1>4, <1>5 DEF LaneInv

(* What ServiceMode.#install shows.                                        *)
LEMMA InstallIs ==
  ASSUME BaseTypes, NameTypes, setup' = setup, NEW s \in Binding, NEW b \in Binding, NEW over, NEW end, Install(s, b, over, end)
  PROVE  /\ NameTypes'
         /\ closed \/ s = 0 => conn' = conn
         /\ ~closed /\ s # 0 /\ end => conn' = "ended"
         /\ ~closed /\ s # 0 /\ ~end => conn' = "connected"
<1>0. 0 \in Binding /\ Binding' = Binding /\ setup.profiles \in Nat
  BY SetupIs DEF Binding
<1>1. CASE closed \/ s = 0
  BY <1>0, <1>1 DEF Install, NameTypes, namesVars
<1>2. CASE ~(closed \/ s = 0) /\ end
  BY <1>0, <1>2 DEF Install, NameTypes, namesVars
<1>3. CASE ~(closed \/ s = 0) /\ ~end
  <2>1. /\ conn' = "connected" /\ namesOf' = b /\ names' \in {names, 0} /\ unnamed' \in {unnamed, 0}
        /\ \/ naming' = naming
           \/ naming' = [sess |-> s, asked |-> b, bid |-> b, left |-> setup.profiles, found |-> 0]
    BY <1>3 DEF Install
  <2>. QED
    BY <1>0, <1>3, <2>1 DEF NameTypes
<1>. QED
  BY <1>1, <1>2, <1>3

LEMMA QuietIs ==
  ASSUME NameTypes, setup' = setup, UNCHANGED namesVars
  PROVE  NameTypes'
BY DEF NameTypes, namesVars, Binding

-----------------------------------------------------------------------------
(* What a step keeps when it leaves the session alone, and when it drops   *)
(* it.                                                                     *)
SessionInv == NoForeignRead /\ LaneInv /\ LoopInv /\ ToldInv /\ FlightTypes /\ ReadTypes /\ FollowType

LEMMA KeepsSession ==
  ASSUME ClientInv, KeepSession, log' = log, setup' = setup, Len(bindings) <= Len(bindings'),
         \A b \in 1..Len(bindings) : bindings'[b] = bindings[b],
         follow.bid \notin open => follow.bid \notin open'
  PROVE  SessionInv'
<1>1. /\ sess' = sess /\ bid' = bid /\ gen' = gen /\ flights' = flights /\ lane' = lane /\ reading' = reading
      /\ watched' = watched /\ installed' = installed /\ rereads' = rereads /\ follow' = follow
  BY DEF KeepSession, refreshVars
<1>2. BaseTypes /\ FlightTypes /\ ReadTypes /\ FollowType
  BY TypeParts DEF ClientInv
<1>3. FlightTypes' /\ ReadTypes' /\ FollowType'
  BY <1>1, <1>2 DEF FlightTypes, ReadTypes, FollowType, Reading, Reads, Binding
<1>4. NoForeignRead' /\ LaneInv'
  BY <1>1 DEF ClientInv, NoForeignRead, LaneInv
<1>5. sess # 0 => bid \in 1..Len(bindings) /\ Ep(bid)' = Ep(bid) /\ End(Ep(bid))' = End(Ep(bid))
  BY <1>1, <1>2 DEF ClientInv, SessInv, BaseTypes, Ep, End
<1>6. sess = 0 => ~Following /\ ~Behind /\ \A k \in AllKeys : installed[k].kind # "ok"
  BY DEF ClientInv, SessInv, NoForeignRead, Following, Behind
<1>7. LoopInv'
  BY <1>1, <1>5, <1>6 DEF ClientInv, LoopInv, Following, Behind
<1>8. ToldInv'
  <2>1. (Following <=> Following') /\ (Behind <=> Behind') /\ Told' = Told
    BY <1>1 DEF Following, Behind, Told
  <2>2. \A k, e, p, q : Untouched(k, e, p, q)' = Untouched(k, e, p, q)
    BY <1>1 DEF Untouched, Touched
  <2>3. CASE sess = 0
    BY <1>6, <2>1, <2>3 DEF ToldInv
  <2>4. CASE sess # 0
    <3>1. \A k, p, q : Untouched(k, Ep(bid), p, q) = Untouched(k, Ep(bid), p, q)'
      BY <1>1, <1>5, <2>4 DEF Untouched, Touched
    <3>. QED
      BY <1>1, <2>1, <3>1 DEF ClientInv, ToldInv
  <2>. QED
    BY <2>3, <2>4
<1>. QED
  BY <1>3, <1>4, <1>7, <1>8 DEF SessionInv

LEMMA DropsSession ==
  ASSUME ClientInv, NoSession, setup' = setup
  PROVE  /\ SessionInv' /\ sess' = 0 /\ bid' = 0 /\ watched' = {} /\ reading' = None /\ lane' = << >> /\ rereads' = {}
         /\ follow'.pc = "off" /\ follow'.bid = 0 /\ \A k \in AllKeys : ~flights'[k].on
<1>1. BaseTypes
  BY TypeParts DEF ClientInv
<1>2. 0 \in Binding /\ Binding' = Binding /\ Overview \in AllKeys
  BY <1>1, SetupIs DEF Binding
<1>3. /\ sess' = 0 /\ bid' = 0 /\ watched' = {} /\ reading' = None /\ lane' = << >> /\ rereads' = {} /\ gen' = 0
      /\ follow' = NoFollow /\ flights' = Idle /\ installed' = [k \in AllKeys |-> Unread]
  BY DEF NoSession
<1>4. Idle \in [AllKeys -> FlightType] /\ \A k \in AllKeys : ~Idle[k].on
  BY DEF Idle, NoFlight, FlightType
<1>5. Unread \in Reads /\ Unread.kind = "unread"
  BY <1>2 DEF Unread, Read, Reads
<1>6. /\ NoFollow \in [pc : {"off", "follow", "boot", "ended"}, bid : Binding, at : Nat, gen : Nat]
      /\ NoFollow.pc = "off" /\ NoFollow.bid = 0
  BY <1>2 DEF NoFollow
<1>7. FlightTypes'
  BY <1>3, <1>4 DEF FlightTypes
<1>8. ReadTypes' /\ FollowType'
  <2>1. Reads' = Reads
    BY <1>2 DEF Reads
  <2>. QED
    BY <1>2, <1>3, <1>5, <1>6, <2>1 DEF ReadTypes, FollowType
<1>9. \A k \in AllKeys : installed'[k].kind = "unread" /\ ~flights'[k].on
  BY <1>3, <1>4, <1>5
<1>10. follow'.pc = "off" /\ follow'.bid = 0
  BY <1>3, <1>6
<1>11. NoForeignRead' /\ LaneInv' /\ LoopInv' /\ ToldInv'
  <2>1. NoForeignRead'
    BY <1>3, <1>9 DEF NoForeignRead
  <2>2. LaneInv'
    BY <1>3, <1>9 DEF LaneInv
  <2>3. LoopInv'
    BY <1>2, <1>3, <1>9, <1>10 DEF LoopInv, Following, Behind
  <2>4. ToldInv'
    BY <1>10 DEF ToldInv, Following, Behind
  <2>. QED
    BY <2>1, <2>2, <2>3, <2>4
<1>. QED
  BY <1>3, <1>7, <1>8, <1>9, <1>10, <1>11 DEF SessionInv

(* A session has a transport, of one of the managers.                      *)
LEMMA EpIs ==
  ASSUME BaseTypes, NEW b \in 1..Len(bindings)
  PROVE  Ep(b) \in Endpoints /\ log[Ep(b)] \in Seq(Keys) /\ End(Ep(b)) \in Nat /\ b \in Binding
<1>1. bindings \in Seq(Endpoints) /\ log \in [Endpoints -> Seq(Keys)] /\ Len(bindings) \in Nat
  BY DEF BaseTypes
<1>2. Ep(b) \in Endpoints
  BY <1>1 DEF Ep
<1>3. log[Ep(b)] \in Seq(Keys)
  BY <1>1, <1>2
<1>4. b \in Binding
  BY SetupIs
<1>. QED
  BY <1>2, <1>3, <1>4 DEF End

LEMMA BoundIs ==
  ASSUME ClientInv, sess # 0
  PROVE  bid \in 1..Len(bindings) /\ Ep(bid) \in Endpoints /\ log[Ep(bid)] \in Seq(Keys) /\ End(Ep(bid)) \in Nat
<1>1. BaseTypes /\ bid \in 1..Len(bindings)
  BY TypeParts DEF ClientInv, SessInv, BaseTypes
<1>. QED
  BY <1>1, EpIs

(* The invariant from its parts.                                           *)
LEMMA Assembled ==
  ASSUME SessionInv', BaseTypes', SelType', NameTypes', NoLeakedTransport', ConnectedFollows', SelInv', SessInv'
  PROVE  ClientInv'
<1>1. TypeOK'
  BY TypePartsNext DEF SessionInv
<1>. QED
  BY <1>1 DEF ClientInv, SessionInv

-----------------------------------------------------------------------------
(* The manager, the names and the close.                                   *)

LEMMA ChangeStep ==
  ASSUME ClientInv, NEW e \in setup.endpoints, NEW k \in setup.keys, Change(e, k)
  PROVE  ClientInv'
<1>1. /\ setup' = setup /\ oldest' = oldest /\ failures' = failures /\ bindings' = bindings /\ open' = open /\ closed' = closed
      /\ sel' = sel /\ conn' = conn /\ sess' = sess /\ bid' = bid /\ gen' = gen /\ flights' = flights /\ lane' = lane
      /\ reading' = reading /\ watched' = watched /\ installed' = installed /\ rereads' = rereads /\ follow' = follow
      /\ UNCHANGED namesVars /\ log' = [log EXCEPT ![e] = Append(@, k)]
  BY DEF Change, refreshVars
<1>2. BaseTypes /\ SelType /\ NameTypes /\ FlightTypes /\ ReadTypes /\ FollowType /\ e \in Endpoints /\ k \in Keys
  BY TypeParts, SetupIs DEF ClientInv
<1>3. /\ log' \in [Endpoints -> Seq(Keys)]
      /\ \A d \in Endpoints : /\ Len(log[d]) \in Nat /\ Len(log'[d]) \in Nat /\ Len(log[d]) <= Len(log'[d])
                              /\ \A i \in 1..Len(log[d]) : log'[d][i] = log[d][i]
  <2>1. log \in [Endpoints -> Seq(Keys)]
    BY <1>2 DEF BaseTypes
  <2>2. ASSUME NEW d \in Endpoints
        PROVE  /\ log'[d] \in Seq(Keys) /\ Len(log[d]) <= Len(log'[d]) /\ Len(log[d]) \in Nat /\ Len(log'[d]) \in Nat
               /\ \A i \in 1..Len(log[d]) : log'[d][i] = log[d][i]
    <3>1. CASE d = e
      <4>1. log'[d] = Append(log[d], k) /\ log[d] \in Seq(Keys)
        BY <1>1, <1>2, <2>1, <3>1
      <4>. QED
        BY <1>2, <4>1
    <3>2. CASE d # e
      <4>1. log'[d] = log[d] /\ log[d] \in Seq(Keys)
        BY <1>1, <1>2, <2>1, <3>2
      <4>. QED
        BY <4>1
    <3>. QED
      BY <3>1, <3>2
  <2>. QED
    BY <1>1, <2>1, <2>2
<1>4. BaseTypes' /\ SelType' /\ NameTypes' /\ FlightTypes' /\ ReadTypes' /\ FollowType'
  BY <1>1, <1>2, <1>3 DEF BaseTypes, SelType, NameTypes, FlightTypes, ReadTypes, FollowType, Binding, Reading, Reads, namesVars
<1>5. NoForeignRead' /\ LaneInv' /\ NoLeakedTransport' /\ ConnectedFollows' /\ SelInv' /\ SessInv'
  BY <1>1 DEF ClientInv, NoForeignRead, LaneInv, NoLeakedTransport, ConnectedFollows, SelInv, SessInv, Ep
<1>6. sess # 0 => Ep(bid) \in Endpoints
  BY <1>2, BoundIs
<1>7. sess = 0 => ~Following /\ ~Behind /\ \A j \in AllKeys : installed[j].kind # "ok"
  BY DEF ClientInv, SessInv, NoForeignRead, Following, Behind
<1>8. (Following <=> Following') /\ (Behind <=> Behind') /\ Told' = Told /\ Ep(bid)' = Ep(bid)
  BY <1>1 DEF Following, Behind, Told, Ep
<1>9. LoopInv'
  <2>1. sess # 0 => End(Ep(bid)) \in Nat /\ End(Ep(bid))' \in Nat /\ End(Ep(bid)) <= End(Ep(bid))'
    BY <1>3, <1>6, <1>8 DEF End
  <2>2. follow.at \in Nat /\ \A j \in AllKeys : installed[j].at \in Nat
    BY <1>2 DEF FollowType, ReadTypes, Reads
  <2>. QED
    BY <1>1, <1>7, <1>8, <2>1, <2>2 DEF ClientInv, LoopInv
<1>10. ToldInv'
  <2>. SUFFICES ASSUME Following \/ Behind PROVE ToldInv'
    BY <1>8 DEF ToldInv
  <2>1. sess # 0 /\ Ep(bid) \in Endpoints /\ Overview \in AllKeys
    BY <1>2, <1>6, <1>7, SetupIs
  <2>2. Told \in Nat /\ Told <= Len(log[Ep(bid)])
    BY <1>2, <2>1 DEF ClientInv, LoopInv, Following, Behind, Told, End, FollowType, ReadTypes, Reads
  <2>3. \A j, p : p \in Nat /\ Untouched(j, Ep(bid), p, Told) => Untouched(j, Ep(bid), p, Told)'
    <3>. SUFFICES ASSUME NEW j, NEW p \in Nat, Untouched(j, Ep(bid), p, Told), NEW i \in p + 1 .. Told
                  PROVE  j \notin Touched(log[Ep(bid)][i])'
      BY <1>8 DEF Untouched
    <3>1. log'[Ep(bid)][i] = log[Ep(bid)][i]
      BY <1>3, <2>1, <2>2
    <3>2. j \notin Touched(log[Ep(bid)][i])
      BY DEF Untouched
    <3>. QED
      BY <1>1, <1>8, <3>1, <3>2 DEF Touched
  <2>4. (\A j \in AllKeys : installed[j].at \in Nat) /\ (reading # None => reading.at \in Nat)
    BY <1>2 DEF ReadTypes, Reads, Reading
  <2>5. watched \subseteq AllKeys
    BY <1>2 DEF ReadTypes
  <2>. QED
    BY <1>1, <1>8, <2>3, <2>4, <2>5 DEF ClientInv, ToldInv
<1>11. SessionInv'
  BY <1>4, <1>5, <1>9, <1>10 DEF SessionInv
<1>. QED
  BY <1>4, <1>5, <1>11, Assembled

LEMMA ExpireStep ==
  ASSUME ClientInv, NEW e \in setup.endpoints, Expire(e)
  PROVE  ClientInv'
<1>1. /\ setup' = setup /\ log' = log /\ failures' = failures /\ bindings' = bindings /\ open' = open /\ closed' = closed
      /\ sel' = sel /\ conn' = conn /\ KeepSession /\ UNCHANGED namesVars /\ oldest' = [oldest EXCEPT ![e] = End(e)]
  BY DEF Expire, KeepSession, refreshVars
<1>2. BaseTypes /\ SelType /\ NameTypes /\ e \in Endpoints
  BY TypeParts, SetupIs DEF ClientInv
<1>3. SessionInv'
  BY <1>1, <1>2, KeepsSession DEF BaseTypes
<1>4. sess' = sess /\ bid' = bid /\ reading' = reading /\ follow' = follow /\ watched' = watched /\ lane' = lane
      /\ rereads' = rereads /\ flights' = flights
  BY <1>1 DEF KeepSession, refreshVars
<1>5. BaseTypes'
  <2>1. oldest' \in [Endpoints -> Nat]
    BY <1>1, <1>2 DEF BaseTypes, End
  <2>. QED
    BY <1>1, <1>2, <1>4, <2>1 DEF BaseTypes, Binding
<1>6. SelType' /\ NameTypes'
  BY <1>1, <1>2 DEF SelType, NameTypes, Binding, namesVars
<1>7. NoLeakedTransport' /\ ConnectedFollows' /\ SelInv' /\ SessInv'
  BY <1>1, <1>4 DEF ClientInv, NoLeakedTransport, ConnectedFollows, SelInv, SessInv, Ep
<1>. QED
  BY <1>3, <1>5, <1>6, <1>7, Assembled

LEMMA NameReadStep ==
  ASSUME ClientInv, NameRead
  PROVE  ClientInv'
<1>1. /\ setup' = setup /\ log' = log /\ oldest' = oldest /\ failures' = failures /\ bindings' = bindings /\ open' = open
      /\ closed' = closed /\ sel' = sel /\ conn' = conn /\ KeepSession
  BY DEF NameRead, KeepSession, managerVars, refreshVars
<1>2. BaseTypes /\ SelType /\ NameTypes
  BY TypeParts DEF ClientInv
<1>3. SessionInv'
  BY <1>1, <1>2, KeepsSession DEF BaseTypes
<1>4. sess' = sess /\ bid' = bid /\ reading' = reading /\ follow' = follow /\ watched' = watched /\ lane' = lane
      /\ rereads' = rereads /\ flights' = flights
  BY <1>1 DEF KeepSession, refreshVars
<1>5. BaseTypes' /\ SelType'
  BY <1>1, <1>2, <1>4 DEF BaseTypes, SelType, Binding
<1>6. NameTypes'
  <2>. DEFINE Naming == [sess : Binding, asked : Binding, bid : Binding, left : Nat, found : Binding]
  <2>1. /\ naming # None /\ naming \in Naming /\ bid \in Binding /\ 0 \in Binding /\ Binding' = Binding
        /\ names \in Binding /\ unnamed \in Binding /\ namesOf \in Binding
    BY <1>1, <1>2, SetupIs DEF NameRead, NameTypes, BaseTypes, Binding
  <2>2. PICK found \in {naming.found, bid} :
          \/ /\ naming.left > 1 /\ UNCHANGED <<names, unnamed>>
             /\ \E b \in {naming.bid, bid} : naming' = [naming EXCEPT !.left = @ - 1, !.found = found, !.bid = b]
          \/ naming' = None /\ names' \in {names, found} /\ unnamed' \in {unnamed, 0, naming.asked}
    BY DEF NameRead
  <2>3. found \in Binding /\ naming.asked \in Binding /\ naming.bid \in Binding /\ naming.left \in Nat
    BY <2>1, <2>2
  <2>4. namesOf' = namesOf
    BY DEF NameRead
  <2>5. ASSUME NEW b \in {naming.bid, bid}, naming.left > 1 PROVE [naming EXCEPT !.left = @ - 1, !.found = found, !.bid = b] \in Naming
    <3>. DEFINE x == [naming EXCEPT !.left = naming.left - 1]
                y == [x EXCEPT !.found = found]
    <3>1. x \in Naming
      BY <2>1, <2>3, <2>5
    <3>. HIDE DEF x
    <3>2. y \in Naming
      BY <2>3, <3>1
    <3>3. [naming EXCEPT !.left = @ - 1, !.found = found, !.bid = b] = [y EXCEPT !.bid = b]
      BY DEF x
    <3>. HIDE DEF y
    <3>. QED
      BY <2>1, <2>3, <2>5, <3>2, <3>3
  <2>. HIDE DEF Naming
  <2>6. naming' \in Naming \cup {None}
    BY <2>2, <2>5
  <2>7. names' \in Binding /\ unnamed' \in Binding
    BY <2>1, <2>2, <2>3
  <2>. QED
    BY <2>1, <2>4, <2>6, <2>7 DEF NameTypes, Naming
<1>7. NoLeakedTransport' /\ ConnectedFollows' /\ SelInv' /\ SessInv'
  BY <1>1, <1>4 DEF ClientInv, NoLeakedTransport, ConnectedFollows, SelInv, SessInv, Ep
<1>. QED
  BY <1>3, <1>5, <1>6, <1>7, Assembled

LEMMA CloseStep ==
  ASSUME ClientInv, Close
  PROVE  ClientInv'
<1>1. /\ setup' = setup /\ log' = log /\ oldest' = oldest /\ failures' = failures /\ bindings' = bindings /\ sel' = sel
      /\ UNCHANGED namesVars /\ closed' = TRUE /\ conn' = "closed" /\ open' = open \ {bid} /\ NoSession
  BY DEF Close, managerVars
<1>2. BaseTypes /\ SelType /\ NameTypes
  BY TypeParts DEF ClientInv
<1>3. /\ SessionInv' /\ sess' = 0 /\ bid' = 0 /\ watched' = {} /\ reading' = None /\ lane' = << >> /\ rereads' = {}
      /\ follow'.pc = "off" /\ follow'.bid = 0 /\ \A k \in AllKeys : ~flights'[k].on
  BY <1>1, DropsSession
<1>4. BaseTypes' /\ SelType' /\ NameTypes'
  BY <1>1, <1>2, <1>3, SetupIs DEF BaseTypes, SelType, NameTypes, Binding, namesVars
<1>5. NoLeakedTransport' /\ ConnectedFollows'
  BY <1>1 DEF ClientInv, NoLeakedTransport, ConnectedFollows
<1>6. SelInv'
  BY <1>1, <1>3 DEF ClientInv, SelInv, Ep
<1>7. SessInv'
  BY <1>1, <1>2, <1>3, FS_EmptySet DEF SessInv, BaseTypes
<1>. QED
  BY <1>3, <1>4, <1>5, <1>6, <1>7, Assembled

-----------------------------------------------------------------------------
(* The selection of an endpoint.                                           *)

SelRecord == [pc : {"idle", "load", "bind", "overview"}, ep : Endpoints \cup {None},
              bid : Binding, from : Binding, at : Nat]

LEMMA NoSelIs ==
  ASSUME BaseTypes
  PROVE  /\ NoSel \in SelRecord /\ NoSel.pc = "idle" /\ NoSel.bid = 0 /\ NoSel.from = 0
         /\ \A e \in Endpoints, b \in Binding :
              LET s == [NoSel EXCEPT !.pc = "load", !.ep = e, !.from = b]
                  t == [NoSel EXCEPT !.pc = "load", !.ep = e]
              IN  /\ s \in SelRecord /\ s.pc = "load" /\ s.ep = e /\ s.bid = 0 /\ s.from = b
                  /\ t \in SelRecord /\ t.pc = "load" /\ t.ep = e /\ t.bid = 0 /\ t.from = 0
<1>1. 0 \in Binding
  BY SetupIs
<1>2. NoSel \in SelRecord /\ NoSel.pc = "idle" /\ NoSel.bid = 0 /\ NoSel.from = 0
  BY <1>1 DEF NoSel, SelRecord
<1>3. ASSUME NEW e \in Endpoints, NEW b \in Binding
      PROVE  LET s == [NoSel EXCEPT !.pc = "load", !.ep = e, !.from = b]
                 t == [NoSel EXCEPT !.pc = "load", !.ep = e]
             IN  /\ s \in SelRecord /\ s.pc = "load" /\ s.ep = e /\ s.bid = 0 /\ s.from = b
                 /\ t \in SelRecord /\ t.pc = "load" /\ t.ep = e /\ t.bid = 0 /\ t.from = 0
  <2>. DEFINE x == [NoSel EXCEPT !.pc = "load"]
              t == [x EXCEPT !.ep = e]
              s == [t EXCEPT !.from = b]
  <2>1. x \in SelRecord /\ x.pc = "load" /\ x.bid = 0 /\ x.from = 0
    BY <1>2 DEF SelRecord
  <2>2. /\ t = [NoSel EXCEPT !.pc = "load", !.ep = e]
        /\ s = [NoSel EXCEPT !.pc = "load", !.ep = e, !.from = b]
    OBVIOUS
  <2>. HIDE DEF x
  <2>3. t \in SelRecord /\ t.pc = "load" /\ t.bid = 0 /\ t.from = 0 /\ t.ep = e
    BY <1>3, <2>1 DEF SelRecord
  <2>. HIDE DEF t
  <2>4. s \in SelRecord /\ s.pc = "load" /\ s.bid = 0 /\ s.from = b /\ s.ep = e
    BY <1>3, <2>3 DEF SelRecord
  <2>. HIDE DEF s
  <2>. QED
    BY <2>2, <2>3, <2>4
<1>. QED
  BY <1>2, <1>3

LEMMA SelectStepKeeps ==
  ASSUME ClientInv, NEW e \in setup.endpoints, Select(e)
  PROVE  ClientInv'
<1>1. /\ setup' = setup /\ log' = log /\ oldest' = oldest /\ failures' = failures /\ bindings' = bindings
      /\ closed' = closed /\ UNCHANGED namesVars /\ ~closed /\ sel.pc = "idle" /\ Len(bindings) < setup.bindings
  BY DEF Select, managerVars
<1>2. BaseTypes /\ SelType /\ NameTypes /\ e \in Endpoints /\ bid \in Binding /\ Len(bindings) \in Nat
  <2>1. BaseTypes /\ SelType /\ NameTypes
    BY TypeParts DEF ClientInv
  <2>2. e \in Endpoints
    BY <2>1, SetupIs
  <2>. QED
    BY <2>1, <2>2 DEF BaseTypes
<1>3. NameTypes'
  BY <1>1, <1>2, QuietIs
<1>4. CASE sess # 0 /\ follow.pc # "ended"
  <2>1. sel' = [NoSel EXCEPT !.pc = "load", !.ep = e, !.from = bid] /\ KeepSession /\ open' = open /\ conn' = conn
    BY <1>4 DEF Select
  <2>2. sel' \in SelRecord /\ sel'.pc = "load" /\ sel'.ep = e /\ sel'.bid = 0 /\ sel'.from = bid
    BY <1>2, <2>1, NoSelIs
  <2>3. SessionInv'
    BY <1>1, <1>2, <2>1, KeepsSession DEF BaseTypes
  <2>4. sess' = sess /\ bid' = bid /\ reading' = reading /\ follow' = follow /\ watched' = watched /\ lane' = lane
        /\ rereads' = rereads /\ flights' = flights
    BY <2>1 DEF KeepSession, refreshVars
  <2>5. BaseTypes' /\ SelType'
    BY <1>1, <1>2, <2>1, <2>2, <2>4 DEF BaseTypes, SelType, SelRecord, Binding
  <2>6. follow.pc # "off" /\ bid # 0
    BY <1>1, <1>4, BoundIs DEF ClientInv, SessInv
  <2>7. NoLeakedTransport' /\ ConnectedFollows' /\ SessInv'
    BY <1>1, <2>1, <2>2, <2>4, <2>6 DEF ClientInv, NoLeakedTransport, ConnectedFollows, SessInv, SelInv
  <2>8. SelInv'
    BY <1>1, <1>2, <1>4, <2>2, <2>4, <2>6 DEF SelInv
  <2>. QED
    BY <1>3, <2>3, <2>5, <2>7, <2>8, Assembled
<1>5. CASE ~(sess # 0 /\ follow.pc # "ended")
  <2>1. sel' = [NoSel EXCEPT !.pc = "load", !.ep = e] /\ NoSession /\ open' = open \ {bid} /\ conn' = "connecting"
    BY <1>5 DEF Select
  <2>2. sel' \in SelRecord /\ sel'.pc = "load" /\ sel'.ep = e /\ sel'.bid = 0 /\ sel'.from = 0
    BY <1>2, <2>1, NoSelIs
  <2>3. /\ SessionInv' /\ sess' = 0 /\ bid' = 0 /\ watched' = {} /\ reading' = None /\ lane' = << >> /\ rereads' = {}
        /\ follow'.pc = "off" /\ follow'.bid = 0 /\ \A k \in AllKeys : ~flights'[k].on
    BY <1>1, <2>1, DropsSession
  <2>4. BaseTypes' /\ SelType'
    BY <1>1, <1>2, <2>1, <2>2, <2>3, SetupIs DEF BaseTypes, SelType, SelRecord, Binding
  <2>5. NoLeakedTransport' /\ ConnectedFollows'
    BY <1>1, <2>1, <2>2 DEF ClientInv, NoLeakedTransport, ConnectedFollows, SelInv
  <2>6. SelInv'
    BY <1>1, <1>2, <2>2, <2>3 DEF SelInv
  <2>7. SessInv'
    BY <1>1, <1>2, <2>1, <2>3, FS_EmptySet DEF SessInv, BaseTypes
  <2>. QED
    BY <1>3, <2>3, <2>4, <2>5, <2>6, <2>7, Assembled
<1>. QED
  BY <1>4, <1>5

(* The profile is loaded: the new transport is the newest.                 *)
LEMMA LoadStep ==
  ASSUME ClientInv, Load
  PROVE  ClientInv'
<1>1. setup' = setup /\ log' = log /\ oldest' = oldest /\ closed' = closed /\ KeepSession /\ sel.pc = "load"
  BY DEF Load, managerVars
<1>2. BaseTypes /\ SelType /\ NameTypes /\ sel \in SelRecord /\ Len(bindings) \in Nat /\ 0 \in Binding /\ sess \in Binding /\ bid \in Binding
  <2>1. BaseTypes /\ SelType /\ NameTypes
    BY TypeParts DEF ClientInv
  <2>2. 0 \in Binding
    BY <2>1, SetupIs
  <2>. QED
    BY <2>1, <2>2 DEF BaseTypes, SelType, SelRecord
<1>3. sess' = sess /\ bid' = bid /\ reading' = reading /\ follow' = follow /\ watched' = watched /\ lane' = lane
      /\ rereads' = rereads /\ flights' = flights
  BY <1>1 DEF KeepSession, refreshVars
<1>4. sel.bid = 0 /\ sel.ep \in Endpoints /\ Len(bindings) < setup.bindings
  BY <1>1 DEF ClientInv, SelInv
<1>5. CASE /\ ~closed /\ bindings' = Append(bindings, sel.ep) /\ open' = open \cup {Len(bindings')}
           /\ sel' = [sel EXCEPT !.pc = "bind", !.bid = Len(bindings')] /\ UNCHANGED <<failures, conn, namesVars>>
  <2>1. /\ bindings' \in Seq(Endpoints) /\ Len(bindings') = Len(bindings) + 1 /\ bindings'[Len(bindings')] = sel.ep
        /\ \A b \in 1..Len(bindings) : bindings'[b] = bindings[b]
    BY <1>2, <1>4, <1>5 DEF BaseTypes
  <2>2. Len(bindings') \in Binding /\ Len(bindings') \in Nat /\ Len(bindings') <= setup.bindings
    BY <1>2, <1>4, <2>1, SetupIs DEF Binding
  <2>3. sel' \in SelRecord /\ sel'.pc = "bind" /\ sel'.bid = Len(bindings') /\ sel'.from = sel.from /\ sel'.ep = sel.ep
    <3>. DEFINE x == [sel EXCEPT !.pc = "bind"]
    <3>1. x \in SelRecord /\ x.pc = "bind" /\ x.from = sel.from /\ x.ep = sel.ep
      BY <1>2 DEF SelRecord
    <3>2. sel' = [x EXCEPT !.bid = Len(bindings')]
      BY <1>5
    <3>. HIDE DEF x
    <3>. QED
      BY <2>2, <3>1, <3>2 DEF SelRecord
  <2>4. follow.bid \in Nat /\ follow.bid <= Len(bindings) /\ bid <= Len(bindings) /\ bid \in Nat
        /\ (reading # None => reading.bid \in Nat /\ reading.bid <= Len(bindings))
    BY <1>2, TypeParts, SetupIs DEF ClientInv, SessInv, FollowType, ReadTypes, Reading
  <2>5. SessionInv'
    BY <1>1, <1>2, <1>5, <2>1, <2>4, KeepsSession
  <2>6. BaseTypes' /\ SelType' /\ NameTypes'
    <3>1. open' \subseteq 1..Len(bindings')
      BY <1>2, <1>5, <2>1, <2>2 DEF BaseTypes
    <3>. QED
      BY <1>1, <1>2, <1>3, <1>5, <2>1, <2>2, <2>3, <3>1 DEF BaseTypes, SelType, SelRecord, NameTypes, namesVars, Binding
  <2>7. NoLeakedTransport' /\ ConnectedFollows'
    <3>1. 0 \notin open
      BY <1>2 DEF BaseTypes
    <3>. QED
      BY <1>3, <1>4, <1>5, <2>3, <3>1 DEF ClientInv, NoLeakedTransport, ConnectedFollows
  <2>8. SelInv'
    <3>1. Ep(sel.bid)' = sel.ep
      BY <2>1, <2>3 DEF Ep
    <3>2. sel'.from # 0 /\ ~closed' => sess' # 0 /\ follow'.pc # "off"
      BY <1>1, <1>3, <2>3 DEF ClientInv, SelInv
    <3>3. sel'.from = 0 => sess' = 0
      BY <1>1, <1>3, <2>3 DEF ClientInv, SelInv
    <3>4. bid' < sel'.bid /\ follow'.bid < sel'.bid /\ (reading' # None => reading'.bid < sel'.bid)
      BY <1>2, <1>3, <2>1, <2>2, <2>3, <2>4
    <3>. QED
      BY <1>2, <1>4, <1>5, <2>1, <2>2, <2>3, <3>1, <3>2, <3>3, <3>4 DEF SelInv
  <2>9. SessInv'
    <3>1. bid' <= Len(bindings') /\ follow'.bid <= Len(bindings') /\ (reading' # None => reading'.bid <= Len(bindings'))
      BY <1>2, <1>3, <2>1, <2>2, <2>4
    <3>2. sess' # 0 /\ follow'.pc = "off" => sel'.pc = "overview" /\ sel'.from = 0
      BY <1>1, <1>3 DEF ClientInv, SessInv
    <3>. QED
      BY <1>1, <1>3, <1>5, <3>1, <3>2 DEF ClientInv, SessInv
  <2>. QED
    BY <2>5, <2>6, <2>7, <2>8, <2>9, Assembled
<1>6. CASE bindings' = bindings /\ open' = open /\ sel' = NoSel /\ failures' \in Nat /\
           \/ closed /\ UNCHANGED <<conn, namesVars>>
           \/ ~closed /\ sel.from # 0 /\ Install(sess, bid, installed[Overview], follow.pc = "ended")
           \/ ~closed /\ sel.from = 0 /\ conn' = "failed" /\ UNCHANGED namesVars
  <2>1. sel' \in SelRecord /\ sel'.pc = "idle" /\ sel'.bid = 0 /\ sel'.from = 0
    BY <1>2, <1>6, NoSelIs
  <2>2. SessionInv'
    BY <1>1, <1>2, <1>6, KeepsSession
  <2>3. sess # 0 => follow.pc # "off"
    BY <1>1 DEF ClientInv, SessInv
  <2>4. /\ NameTypes' /\ conn' \in {conn, "failed", "ended", "connected"} /\ (closed => conn' = conn)
        /\ conn' = "connected" => conn = "connected" \/ (sess # 0 /\ follow.pc # "ended")
    <3>1. CASE closed /\ UNCHANGED <<conn, namesVars>>
      BY <1>1, <1>2, <3>1, QuietIs
    <3>2. CASE ~closed /\ Install(sess, bid, installed[Overview], follow.pc = "ended")
      BY <1>1, <1>2, <3>2, InstallIs
    <3>3. CASE ~closed /\ conn' = "failed" /\ UNCHANGED namesVars
      BY <1>1, <1>2, <3>3, QuietIs
    <3>. QED
      BY <1>6, <3>1, <3>2, <3>3
  <2>5. BaseTypes' /\ SelType'
    BY <1>1, <1>2, <1>3, <1>6, <2>1, <2>4 DEF BaseTypes, SelType, SelRecord, Binding
  <2>6. ConnectedFollows'
    <3>1. follow.pc \in {"off", "follow", "boot", "ended"}
      BY TypeParts DEF ClientInv, FollowType
    <3>. QED
      BY <1>3, <2>3, <2>4, <3>1 DEF ClientInv, ConnectedFollows
  <2>7. NoLeakedTransport' /\ SelInv'
    BY <1>3, <1>4, <1>6, <2>1 DEF ClientInv, NoLeakedTransport, SelInv
  <2>8. SessInv'
    <3>1. follow'.pc = "off" => sess' = 0 /\ conn' # "connected"
      BY <1>3, <2>3, <2>6 DEF ConnectedFollows
    <3>. QED
      BY <1>1, <1>3, <1>6, <2>4, <3>1 DEF ClientInv, SessInv
  <2>. QED
    BY <2>2, <2>4, <2>5, <2>6, <2>7, <2>8, Assembled
<1>. QED
  <2>1. failures \in Nat /\ (failures > 0 => failures - 1 \in Nat)
    BY <1>2 DEF BaseTypes
  <2>. QED
    BY <1>5, <1>6, <2>1 DEF Load

(* The capabilities arrive.                                                *)
LEMMA BindStep ==
  ASSUME ClientInv, Bind
  PROVE  ClientInv'
<1>1. /\ setup' = setup /\ log' = log /\ oldest' = oldest /\ failures' = failures /\ bindings' = bindings /\ open' = open
      /\ closed' = closed /\ conn' = conn /\ UNCHANGED namesVars /\ sel.pc = "bind" /\ ~closed
      /\ sel' = [sel EXCEPT !.pc = "overview", !.at = End(sel.ep)]
  BY DEF Bind, managerVars
<1>2. BaseTypes /\ SelType /\ NameTypes /\ sel \in SelRecord
  BY TypeParts DEF ClientInv, SelType, SelRecord
<1>3. /\ sel.bid = Len(bindings) /\ sel.bid > 0 /\ sel.ep \in Endpoints /\ Ep(sel.bid) = sel.ep
      /\ sel.from # 0 => sess # 0 /\ follow.pc # "off"
      /\ sel.from = 0 => sess = 0
  BY <1>1 DEF ClientInv, SelInv
<1>4. End(sel.ep) \in Nat /\ sel.bid \in 1..Len(bindings) /\ sel.bid \in Binding
  BY <1>2, <1>3 DEF BaseTypes, End, SelRecord
<1>5. sel' \in SelRecord /\ sel'.pc = "overview" /\ sel'.bid = sel.bid /\ sel'.from = sel.from /\ sel'.ep = sel.ep
  <2>. DEFINE x == [sel EXCEPT !.pc = "overview"]
  <2>1. x \in SelRecord /\ x.pc = "overview" /\ x.bid = sel.bid /\ x.from = sel.from /\ x.ep = sel.ep
    BY <1>2 DEF SelRecord
  <2>2. sel' = [x EXCEPT !.at = End(sel.ep)]
    BY <1>1
  <2>. HIDE DEF x
  <2>. QED
    BY <1>4, <2>1, <2>2 DEF SelRecord
<1>6. NameTypes'
  BY <1>1, <1>2, QuietIs
<1>7. CASE sel.from # 0
  <2>1. KeepSession
    BY <1>7 DEF Bind
  <2>2. SessionInv'
    BY <1>1, <1>2, <2>1, KeepsSession DEF BaseTypes
  <2>3. sess' = sess /\ bid' = bid /\ reading' = reading /\ follow' = follow /\ watched' = watched /\ lane' = lane
        /\ rereads' = rereads /\ flights' = flights
    BY <2>1 DEF KeepSession, refreshVars
  <2>4. BaseTypes' /\ SelType'
    BY <1>1, <1>2, <1>5, <2>3 DEF BaseTypes, SelType, SelRecord, Binding
  <2>5. NoLeakedTransport' /\ ConnectedFollows'
    BY <1>1, <1>5, <2>3 DEF ClientInv, NoLeakedTransport, ConnectedFollows
  <2>6. SelInv'
    BY <1>1, <1>3, <1>5, <1>7, <2>3 DEF ClientInv, SelInv, Ep
  <2>7. SessInv'
    BY <1>1, <1>3, <1>5, <1>7, <2>3 DEF ClientInv, SessInv
  <2>. QED
    BY <1>6, <2>2, <2>4, <2>5, <2>6, <2>7, Assembled
<1>8. CASE sel.from = 0
  <2>1. /\ sess' = sel.bid /\ bid' = sel.bid /\ watched' = {Overview} /\ gen' = gen /\ flights' = flights /\ lane' = lane
        /\ reading' = reading /\ installed' = installed /\ rereads' = rereads /\ follow' = follow
    BY <1>8 DEF Bind, refreshVars
  <2>2. /\ sess = 0 /\ follow.pc = "off" /\ watched = {} /\ reading = None /\ lane = << >> /\ rereads = {} /\ conn # "connected"
        /\ bid = 0 /\ (\A k \in AllKeys : ~flights[k].on) /\ \A k \in AllKeys : installed[k].kind = "unread"
    BY <1>3, <1>8 DEF ClientInv, SessInv, NoForeignRead
  <2>3. Overview \in AllKeys
    BY <1>2, SetupIs
  <2>4. FlightTypes' /\ ReadTypes' /\ FollowType'
    BY <1>1, <2>1, <2>3, TypeParts DEF ClientInv, FlightTypes, ReadTypes, FollowType, Reading, Reads, Binding
  <2>5. NoForeignRead' /\ LaneInv'
    BY <2>1, <2>2 DEF NoForeignRead, LaneInv
  <2>6. LoopInv' /\ ToldInv'
    BY <2>1, <2>2, <2>3 DEF LoopInv, ToldInv, Following, Behind
  <2>7. SessionInv'
    BY <2>4, <2>5, <2>6 DEF SessionInv
  <2>8. BaseTypes' /\ SelType'
    BY <1>1, <1>2, <1>4, <1>5, <2>1 DEF BaseTypes, SelType, SelRecord, Binding
  <2>9. sel.bid \in open
    BY <1>1 DEF ClientInv, SelInv
  <2>10. NoLeakedTransport' /\ ConnectedFollows'
    BY <1>1, <1>5, <2>1, <2>2, <2>8 DEF ClientInv, NoLeakedTransport, ConnectedFollows, BaseTypes
  <2>11. SelInv'
    BY <1>1, <1>3, <1>4, <1>5, <1>8, <2>1, <2>2, <2>9 DEF SelInv, Ep
  <2>12. SessInv'
    <3>1. IsFiniteSet(watched')
      BY <2>1, FS_Singleton
    <3>2. follow.bid <= Len(bindings)
      BY DEF ClientInv, SessInv
    <3>. QED
      BY <1>1, <1>3, <1>4, <1>5, <1>8, <2>1, <2>2, <2>9, <3>1, <3>2 DEF SessInv
  <2>. QED
    BY <1>6, <2>7, <2>8, <2>10, <2>11, <2>12, Assembled
<1>. QED
  BY <1>7, <1>8

(* The new transport is refused.                                           *)
LEMMA RefuseStep ==
  ASSUME ClientInv, Refuse
  PROVE  ClientInv'
<1>1. /\ setup' = setup /\ log' = log /\ oldest' = oldest /\ bindings' = bindings /\ closed' = closed
      /\ sel.pc \in {"bind", "overview"} /\ sel' = NoSel
  BY DEF Refuse, managerVars
<1>2. /\ BaseTypes /\ SelType /\ NameTypes /\ sess \in Binding /\ bid \in Binding
      /\ follow.pc \in {"off", "follow", "boot", "ended"}
  BY TypeParts DEF ClientInv, BaseTypes, FollowType
<1>3. sel' \in SelRecord /\ sel'.pc = "idle" /\ sel'.bid = 0 /\ sel'.from = 0
  BY <1>1, <1>2, NoSelIs
<1>4. failures' \in Nat
  BY <1>2 DEF Refuse, BaseTypes
<1>5. CASE sel.from # 0 /\ follow.pc # "ended" /\ ~closed
  <2>1. KeepSession /\ Install(sess, bid, installed[Overview], FALSE) /\ open' = open \ {sel.bid}
    BY <1>5 DEF Refuse, CloseNew
  <2>2. SessionInv'
    BY <1>1, <1>2, <2>1, KeepsSession DEF BaseTypes
  <2>3. sess' = sess /\ bid' = bid /\ reading' = reading /\ follow' = follow /\ watched' = watched /\ lane' = lane
        /\ rereads' = rereads /\ flights' = flights
    BY <2>1 DEF KeepSession, refreshVars
  <2>4. sess # 0 /\ follow.pc \in {"follow", "boot"} /\ bid < sel.bid
    BY <1>1, <1>2, <1>5 DEF ClientInv, SelInv
  <2>5. NameTypes' /\ conn' = "connected"
    BY <1>1, <1>2, <1>5, <2>1, <2>4, InstallIs
  <2>6. BaseTypes' /\ SelType'
    BY <1>1, <1>2, <1>3, <1>4, <2>1, <2>3, <2>5 DEF BaseTypes, SelType, SelRecord, Binding
  <2>7. NoLeakedTransport' /\ ConnectedFollows' /\ SelInv'
    BY <1>3, <2>1, <2>3, <2>4 DEF ClientInv, NoLeakedTransport, ConnectedFollows, SelInv
  <2>8. SessInv'
    <3>1. bid \in open'
      BY <1>2, <2>1, <2>4, BoundIs DEF ClientInv, SessInv
    <3>. QED
      BY <1>1, <1>5, <2>3, <2>4, <3>1 DEF ClientInv, SessInv
  <2>. QED
    BY <2>2, <2>5, <2>6, <2>7, <2>8, Assembled
<1>6. CASE ~(sel.from # 0 /\ follow.pc # "ended" /\ ~closed)
  <2>1. NoSession /\ open' = open \ {bid, sel.bid} /\ conn' = (IF closed THEN conn ELSE "failed") /\ Forget
    BY <1>6 DEF Refuse, CloseNew
  <2>2. /\ SessionInv' /\ sess' = 0 /\ bid' = 0 /\ watched' = {} /\ reading' = None /\ lane' = << >> /\ rereads' = {}
        /\ follow'.pc = "off" /\ follow'.bid = 0 /\ \A k \in AllKeys : ~flights'[k].on
    BY <1>1, <2>1, DropsSession
  <2>3. NameTypes'
    <3>1. 0 \in Binding /\ Binding' = Binding
      BY <1>1, <1>2, SetupIs DEF Binding
    <3>. QED
      BY <1>2, <2>1, <3>1 DEF Forget, NameTypes, namesVars
  <2>4. BaseTypes' /\ SelType'
    BY <1>1, <1>2, <1>3, <1>4, <2>1, <2>2, SetupIs DEF BaseTypes, SelType, SelRecord, Binding
  <2>5. conn' # "connected" /\ (closed => conn' = "closed")
    BY <2>1 DEF ClientInv, SessInv
  <2>6. NoLeakedTransport' /\ ConnectedFollows' /\ SelInv'
    BY <1>3, <2>1, <2>2, <2>5 DEF ClientInv, NoLeakedTransport, ConnectedFollows, SelInv
  <2>7. SessInv'
    BY <1>1, <1>2, <2>2, <2>5, FS_EmptySet DEF SessInv, BaseTypes
  <2>. QED
    BY <2>2, <2>3, <2>4, <2>6, <2>7, Assembled
<1>. QED
  BY <1>5, <1>6

(* What an outcome is.                                                     *)
LEMMA OutcomeIs ==
  ASSUME BaseTypes, NEW b \in Binding, NEW p \in Nat, NEW out \in Outcomes(b, p)
  PROVE  /\ out \in Reads /\ out.bid = b /\ out.kind # "unread"
         /\ out.kind = "ok" => /\ b \in open /\ b \in {bid, sel.bid} /\ p <= out.at /\ out.at <= End(Ep(b))
                               /\ End(Ep(b)) \in Nat /\ out.at \in Nat
<1>1. b \in open => End(Ep(b)) \in Nat
  BY EpIs DEF BaseTypes
<1>2. \/ b \in open /\ b \in {bid, sel.bid} /\ \E q \in p..End(Ep(b)) : out = Read("ok", q, b)
      \/ out = Read("failed", p, b)
      \/ out = Read("transient", p, b)
  BY DEF Outcomes
<1>3. CASE out = Read("failed", p, b) \/ out = Read("transient", p, b)
  BY <1>3 DEF Read, Reads
<1>4. ASSUME b \in open, b \in {bid, sel.bid}, NEW q \in p..End(Ep(b)), out = Read("ok", q, b)
      PROVE  /\ out \in Reads /\ out.bid = b /\ out.kind = "ok"
             /\ p <= out.at /\ out.at <= End(Ep(b)) /\ End(Ep(b)) \in Nat /\ out.at \in Nat
  <2>1. q \in Nat /\ p <= q /\ q <= End(Ep(b))
    BY <1>1, <1>4
  <2>. QED
    BY <1>1, <1>4, <2>1 DEF Read, Reads
<1>. QED
  BY <1>2, <1>3, <1>4

LEMMA SpendIs ==
  ASSUME BaseTypes, NEW out, Spend(out)
  PROVE  failures' \in Nat
BY DEF Spend, BaseTypes

(* start has its overview.                                                 *)
LEMMA StartedStep ==
  ASSUME ClientInv, Started
  PROVE  ClientInv'
<1>1. /\ setup' = setup /\ log' = log /\ oldest' = oldest /\ failures' = failures /\ bindings' = bindings /\ open' = open
      /\ closed' = closed /\ sess' = sess /\ bid' = bid /\ gen' = gen /\ flights' = flights /\ lane' = lane
      /\ reading' = reading /\ watched' = watched /\ rereads' = rereads /\ sel' = NoSel
      /\ sel.pc = "overview" /\ sel.from = 0 /\ ~closed
  BY DEF Started, managerVars, refreshVars
<1>2. PICK out \in Outcomes(bid, sel.at) :
        /\ out.kind = "ok" /\ installed' = [installed EXCEPT ![Overview] = out] /\ follow' = Continue(out)
        /\ Install(sess, bid, out, FALSE)
  BY DEF Started
<1>3. /\ BaseTypes /\ NameTypes /\ FlightTypes /\ ReadTypes /\ sess \in Binding /\ bid \in Binding /\ sel.at \in Nat
  BY TypeParts DEF ClientInv, BaseTypes, SelType
<1>4. /\ out \in Reads /\ out.bid = bid /\ out.kind = "ok" /\ out.at \in Nat /\ out.at <= End(Ep(bid)) /\ End(Ep(bid)) \in Nat
  BY <1>2, <1>3, OutcomeIs
<1>5. sess # 0 /\ bid = sel.bid /\ follow.pc = "off" /\ bid \in open /\ Overview \in watched
  BY <1>1 DEF ClientInv, SelInv, SessInv
<1>6. /\ reading = None /\ lane = << >> /\ rereads = {} /\ \A k \in AllKeys : ~flights[k].on
  BY <1>5 DEF ClientInv, SessInv
<1>7. sel' \in SelRecord /\ sel'.pc = "idle" /\ sel'.bid = 0 /\ sel'.from = 0
  BY <1>1, <1>3, NoSelIs
<1>8. NameTypes' /\ conn' = "connected"
  BY <1>1, <1>2, <1>3, <1>5, InstallIs
<1>9. FollowType' /\ follow'.pc = "follow" /\ follow'.bid = bid /\ follow'.at = out.at
  BY <1>1, <1>2, <1>3, <1>4 DEF Continue, FollowType, Binding
<1>10. /\ Overview \in AllKeys /\ installed' \in [AllKeys -> Reads]
       /\ \A k \in AllKeys : installed'[k] = IF k = Overview THEN out ELSE installed[k]
  <2>1. Overview \in AllKeys /\ installed \in [AllKeys -> Reads]
    BY <1>3, SetupIs DEF ReadTypes
  <2>. QED
    BY <1>2, <1>4, <2>1
<1>11. BaseTypes' /\ SelType' /\ FlightTypes' /\ ReadTypes'
  BY <1>1, <1>3, <1>7, <1>8, <1>10 DEF BaseTypes, SelType, SelRecord, FlightTypes, ReadTypes, Reading, Reads, Binding
<1>12. NoForeignRead' /\ LaneInv'
  BY <1>1, <1>4, <1>5, <1>6, <1>10 DEF ClientInv, NoForeignRead, LaneInv
<1>13. \A k \in AllKeys \ {Overview} : installed[k].kind = "unread"
  <2>1. watched \subseteq {Overview}
    BY <1>5 DEF ClientInv, SessInv
  <2>. QED
    BY <2>1 DEF ClientInv, NoForeignRead
<1>14. Ep(bid)' = Ep(bid) /\ End(Ep(bid))' = End(Ep(bid))
  BY <1>1 DEF Ep, End
<1>15. LoopInv'
  BY <1>1, <1>4, <1>5, <1>6, <1>9, <1>10, <1>13, <1>14 DEF LoopInv, Following, Behind
<1>16. ToldInv'
  <2>1. Told' = out.at /\ reading' = None
    BY <1>1, <1>6, <1>9 DEF Told
  <2>3. ASSUME NEW k \in watched', installed'[k].kind = "ok"
        PROVE  Untouched(k, Ep(bid), installed[k].at, Told)'
    <3>1. k \in AllKeys
      BY <1>11 DEF ReadTypes
    <3>2. installed'[k].at = out.at
      BY <1>10, <1>13, <2>3, <3>1
    <3>. QED
      BY <1>4, <2>1, <3>2 DEF Untouched
  <2>. QED
    BY <2>1, <2>3 DEF ToldInv
<1>17. SessionInv'
  BY <1>9, <1>11, <1>12, <1>15, <1>16 DEF SessionInv
<1>18. NoLeakedTransport' /\ ConnectedFollows' /\ SelInv'
  BY <1>1, <1>5, <1>7, <1>9 DEF ClientInv, NoLeakedTransport, ConnectedFollows, SelInv
<1>19. SessInv'
  BY <1>1, <1>5, <1>9 DEF ClientInv, SessInv
<1>. QED
  BY <1>8, <1>11, <1>17, <1>18, <1>19, Assembled

(* switchEndpoint commits: the generation advances, so nothing in flight   *)
(* belongs to the new binding, and the loop is behind it.                  *)
LEMMA CommitStep ==
  ASSUME ClientInv, Commit
  PROVE  ClientInv'
<1>1. /\ setup' = setup /\ log' = log /\ oldest' = oldest /\ failures' = failures /\ bindings' = bindings
      /\ closed' = closed /\ sess' = sess /\ reading' = reading /\ rereads' = rereads /\ follow' = follow
      /\ open' = open \ {bid} /\ sel' = NoSel /\ bid' = sel.bid /\ watched' = {Overview} /\ SetRefresh(AdvanceGeneration)
      /\ sel.pc = "overview" /\ sel.from # 0 /\ ~closed
  BY DEF Commit, managerVars
<1>2. PICK out \in Outcomes(sel.bid, sel.at) :
        /\ out.kind = "ok" /\ installed' = [k \in AllKeys |-> IF k = Overview THEN out ELSE Unread]
        /\ Install(sess, sel.bid, out, follow.pc = "ended")
  BY DEF Commit
<1>3. /\ BaseTypes /\ NameTypes /\ FlightTypes /\ ReadTypes /\ FollowType
      /\ sess \in Binding /\ bid \in Binding /\ sel.at \in Nat /\ sel.bid \in Binding
      /\ follow.pc \in {"off", "follow", "boot", "ended"} /\ follow.gen \in Nat /\ gen \in Nat
  BY TypeParts DEF ClientInv, BaseTypes, SelType, FollowType, FlightTypes
<1>4. /\ out \in Reads /\ out.bid = sel.bid /\ out.at \in Nat /\ out.at <= End(Ep(sel.bid)) /\ End(Ep(sel.bid)) \in Nat
  BY <1>2, <1>3, OutcomeIs
<1>5. /\ sess # 0 /\ follow.pc # "off" /\ sel.bid = Len(bindings) /\ sel.bid \in open
      /\ bid < sel.bid /\ follow.bid < sel.bid /\ (reading # None => reading.bid < sel.bid) /\ bid \in open
  BY <1>1 DEF ClientInv, SelInv, SessInv
<1>6. gen' = gen + 1 /\ lane' = lane /\ FlightTypes' /\ \A k \in AllKeys : ~flights'[k].on
  BY <1>1, <1>3, AdvanceIs
<1>7. /\ 0 \in Binding /\ Overview \in AllKeys /\ Binding' = Binding /\ Binding \subseteq Nat
  BY <1>1, <1>3, SetupIs DEF Binding
<1>8. sel' \in SelRecord /\ sel'.pc = "idle" /\ sel'.bid = 0 /\ sel'.from = 0
  BY <1>1, <1>3, NoSelIs
<1>9. /\ NameTypes' /\ (follow.pc = "ended" => conn' = "ended") /\ (follow.pc # "ended" => conn' = "connected")
  BY <1>1, <1>2, <1>3, <1>5, InstallIs
<1>10. /\ installed' \in [AllKeys -> Reads] /\ installed'[Overview] = out
       /\ \A k \in AllKeys \ {Overview} : installed'[k].kind = "unread"
  <2>1. Unread \in Reads /\ Unread.kind = "unread"
    BY <1>7 DEF Unread, Read, Reads
  <2>. QED
    BY <1>2, <1>4, <1>7, <2>1
<1>11. BaseTypes' /\ SelType' /\ ReadTypes' /\ FollowType'
  <2>1. Reads' = Reads /\ Reading' = Reading
    BY <1>7 DEF Reads, Reading
  <2>2. conn' \in {"ended", "connected"}
    BY <1>9
  <2>3. BaseTypes'
    BY <1>1, <1>3, <1>7, <2>2 DEF BaseTypes
  <2>. QED
    BY <1>1, <1>3, <1>7, <1>8, <1>10, <2>1, <2>3 DEF SelType, SelRecord, ReadTypes, FollowType
<1>12. NoForeignRead'
  BY <1>1, <1>3, <1>4, <1>5, <1>7, <1>10 DEF NoForeignRead, ReadTypes, Reading
<1>13. LaneInv'
  BY <1>1, <1>3, AdvanceLane DEF ClientInv
<1>14. Ep(bid)' = Ep(sel.bid) /\ End(Ep(bid))' = End(Ep(sel.bid))
  BY <1>1 DEF Ep, End
<1>15. ~Following' /\ follow'.bid # bid'
  BY <1>1, <1>3, <1>5, <1>7 DEF Following, FollowType
<1>16. LoopInv'
  <2>1. Behind' => follow'.bid \notin open' /\ installed'[Overview].kind = "ok"
    <3>1. follow.pc \in {"follow", "boot"} => follow.bid = bid \/ follow.bid \notin open
      BY DEF ClientInv, LoopInv, Behind
    <3>. QED
      BY <1>1, <1>2, <1>10, <3>1 DEF Behind
  <2>2. follow'.pc = "boot" => follow'.gen <= gen' /\ ~(follow'.gen = gen')
    BY <1>1, <1>3, <1>6 DEF ClientInv, LoopInv
  <2>3. \A k \in AllKeys : installed'[k].kind = "ok" => installed'[k].at <= End(Ep(bid))'
    BY <1>4, <1>10, <1>14
  <2>4. \A t \in rereads' : t.gen # gen'
    BY <1>1, <1>3, <1>6 DEF ClientInv, LaneInv, ReadTypes, Entry
  <2>. QED
    BY <1>6, <1>7, <1>15, <2>1, <2>2, <2>3, <2>4 DEF LoopInv
<1>17. ToldInv'
  <2>1. Told' = out.at
    BY <1>10, <1>15 DEF Told
  <2>2. reading' # None => reading'.gen # gen'
    BY <1>1, <1>3, <1>6 DEF ClientInv, LaneInv, ReadTypes, Reading
  <2>3. ASSUME NEW k \in watched'
        PROVE  Untouched(k, Ep(bid), installed[k].at, Told)'
    <3>1. installed'[k].at = out.at
      BY <1>1, <1>10, <2>3
    <3>. QED
      BY <1>4, <2>1, <3>1 DEF Untouched
  <2>. QED
    BY <2>2, <2>3 DEF ToldInv
<1>18. SessionInv'
  BY <1>6, <1>11, <1>12, <1>13, <1>16, <1>17 DEF SessionInv
<1>19. NoLeakedTransport' /\ ConnectedFollows' /\ SelInv'
  BY <1>1, <1>3, <1>5, <1>8, <1>9 DEF ClientInv, NoLeakedTransport, ConnectedFollows, SelInv
<1>20. SessInv'
  <2>1. IsFiniteSet(watched')
    BY <1>1, FS_Singleton
  <2>2. sel.bid \in open'
    BY <1>1, <1>3, <1>5, <1>7
  <2>3. bid' <= Len(bindings') /\ follow'.bid <= Len(bindings') /\ (reading' # None => reading'.bid <= Len(bindings'))
    BY <1>1, <1>3, <1>5, <1>7 DEF ClientInv, SessInv
  <2>. QED
    BY <1>1, <1>5, <1>9, <2>1, <2>2, <2>3 DEF SessInv
<1>. QED
  BY <1>9, <1>11, <1>18, <1>19, <1>20, Assembled

-----------------------------------------------------------------------------
(* The session invalidates resources of its own: the frame of Reread and   *)
(* Watch.                                                                  *)
LEMMA InvalidatesOwn ==
  ASSUME ClientInv, NEW ks, ks \subseteq watched', IsFiniteSet(ks), IsFiniteSet(watched'), SetRefresh(Invalidate(ks)), ks \subseteq AllKeys,
         setup' = setup, log' = log, oldest' = oldest, failures' = failures, bindings' = bindings, open' = open,
         closed' = closed, sel' = sel, conn' = conn, sess' = sess, bid' = bid, reading' = reading, installed' = installed,
         follow' = follow, UNCHANGED namesVars, rereads' \subseteq rereads, watched' = watched \cup ks,
         follow.pc # "off", sess # 0, Following \/ follow.pc = "ended" \/ Overview \notin ks
  PROVE  ClientInv'
<1>1. BaseTypes /\ SelType /\ NameTypes /\ FlightTypes /\ ReadTypes /\ FollowType /\ Overview \in AllKeys
  <2>1. BaseTypes /\ SelType /\ NameTypes /\ FlightTypes /\ ReadTypes /\ FollowType
    BY TypeParts DEF ClientInv
  <2>. QED
    BY <2>1, SetupIs
<1>2. /\ FlightTypes' /\ gen' = gen
      /\ \A k \in AllKeys \ ks : flights'[k] = flights[k]
      /\ \A k \in ks : flights'[k].on
      /\ \A k \in ks : flights[k].on => flights'[k].dirty
  BY <1>1, InvalidateIs
<1>3. BaseTypes' /\ SelType' /\ NameTypes' /\ ReadTypes' /\ FollowType'
  BY <1>1 DEF BaseTypes, SelType, NameTypes, ReadTypes, FollowType, Reading, Reads, Binding, namesVars
<1>4. LaneInv'
  <2>1. watched \subseteq watched' /\ watched' \subseteq AllKeys /\ LaneInv
    BY <1>3 DEF ReadTypes, ClientInv
  <2>. QED
    BY <1>1, <1>2, <2>1, InvalidateLane
<1>5. NoForeignRead' /\ NoLeakedTransport' /\ ConnectedFollows' /\ SelInv'
  BY DEF ClientInv, NoForeignRead, NoLeakedTransport, ConnectedFollows, SelInv, Ep
<1>6. SessInv'
  BY DEF ClientInv, SessInv
<1>7. (Following <=> Following') /\ (Behind <=> Behind') /\ Told' = Told /\ Ep(bid)' = Ep(bid) /\ End(Ep(bid))' = End(Ep(bid))
  BY DEF Following, Behind, Told, Ep, End
<1>8. LoopInv'
  BY <1>1, <1>2, <1>7 DEF ClientInv, LoopInv
<1>9. ToldInv'
  <2>. SUFFICES ASSUME Following \/ Behind, NEW k \in watched'
                PROVE  /\ ~flights'[k].on /\ installed'[k].kind = "ok" => Untouched(k, Ep(bid), installed[k].at, Told)'
                       /\ reading' # None /\ reading'.key = k /\ reading'.gen = gen' /\ ~flights'[k].dirty =>
                            Untouched(k, Ep(bid), reading.at, Told)'
    BY <1>7 DEF ToldInv
  <2>1. CASE k \in ks
    <3>1. reading # None /\ reading.key = k /\ reading.gen = gen => flights[k].on
      BY DEF ClientInv, LaneInv
    <3>. QED
      BY <1>2, <2>1, <3>1
  <2>2. CASE k \notin ks
    <3>1. k \in watched /\ k \in AllKeys /\ flights'[k] = flights[k]
      BY <1>1, <1>2, <2>2 DEF ReadTypes
    <3>2. \A p : Untouched(k, Ep(bid), p, Told) => Untouched(k, Ep(bid), p, Told)'
      BY <1>7, <2>2 DEF Untouched, Touched
    <3>3. /\ ~flights[k].on /\ installed[k].kind = "ok" => Untouched(k, Ep(bid), installed[k].at, Told)
          /\ reading # None /\ reading.key = k /\ reading.gen = gen /\ ~flights[k].dirty =>
               Untouched(k, Ep(bid), reading.at, Told)
      BY <3>1 DEF ClientInv, ToldInv
    <3>. QED
      BY <1>2, <3>1, <3>2, <3>3
  <2>. QED
    BY <2>1, <2>2
<1>. QED
  BY <1>2, <1>3, <1>4, <1>5, <1>6, <1>8, <1>9, Assembled DEF SessionInv

(* A timer fires: its resource is read again, if it is still watched.      *)
LEMMA RereadStep ==
  ASSUME ClientInv, NEW t \in rereads, Reread(t)
  PROVE  ClientInv'
<1>1. /\ setup' = setup /\ log' = log /\ oldest' = oldest /\ failures' = failures /\ bindings' = bindings /\ open' = open
      /\ closed' = closed /\ sel' = sel /\ conn' = conn /\ sess' = sess /\ bid' = bid /\ reading' = reading
      /\ watched' = watched /\ installed' = installed /\ follow' = follow /\ UNCHANGED namesVars
      /\ rereads' = rereads \ {t}
  BY DEF Reread, managerVars
<1>2. BaseTypes /\ SelType /\ NameTypes /\ FlightTypes /\ ReadTypes /\ FollowType
  BY TypeParts DEF ClientInv
<1>3. t.key \in AllKeys /\ t.gen \in Nat /\ IsFiniteSet(watched)
  BY <1>2 DEF ReadTypes, Entry, ClientInv, SessInv
<1>4. follow.pc # "off" /\ sess # 0
  BY DEF ClientInv, SessInv
<1>5. CASE sess # 0 /\ t.gen = gen /\ t.key \in watched
  <2>. DEFINE ks == {t.key}
  <2>1. SetRefresh(Invalidate(ks))
    BY <1>5 DEF Reread
  <2>2. ks \subseteq watched' /\ IsFiniteSet(ks) /\ IsFiniteSet(watched') /\ ks \subseteq AllKeys /\ watched' = watched \cup ks
    BY <1>1, <1>3, <1>5, FS_Singleton
  <2>3. Following \/ follow.pc = "ended" \/ Overview \notin ks
    BY <1>5 DEF ClientInv, LoopInv
  <2>4. rereads' \subseteq rereads
    BY <1>1
  <2>. HIDE DEF ks
  <2>. QED
    BY <1>1, <1>4, <2>1, <2>2, <2>3, <2>4, InvalidatesOwn
<1>6. CASE ~(sess # 0 /\ t.gen = gen /\ t.key \in watched)
  <2>1. gen' = gen /\ flights' = flights /\ lane' = lane
    BY <1>6 DEF Reread, SetRefresh, Refresh
  <2>2. BaseTypes' /\ SelType' /\ NameTypes' /\ FlightTypes' /\ ReadTypes' /\ FollowType'
    BY <1>1, <1>2, <2>1 DEF BaseTypes, SelType, NameTypes, FlightTypes, ReadTypes, FollowType, Reading, Reads, Binding, namesVars
  <2>3. NoForeignRead' /\ NoLeakedTransport' /\ ConnectedFollows' /\ SelInv'
    BY <1>1 DEF ClientInv, NoForeignRead, NoLeakedTransport, ConnectedFollows, SelInv, Ep
  <2>4. SessInv' /\ LaneInv'
    BY <1>1, <2>1 DEF ClientInv, SessInv, LaneInv
  <2>5. /\ (Following <=> Following') /\ (Behind <=> Behind') /\ Told' = Told /\ Ep(bid)' = Ep(bid)
        /\ End(Ep(bid))' = End(Ep(bid))
    BY <1>1 DEF Following, Behind, Told, Ep, End
  <2>6. LoopInv'
    BY <1>1, <2>1, <2>5 DEF ClientInv, LoopInv
  <2>7. \A k, p : Untouched(k, Ep(bid), p, Told) => Untouched(k, Ep(bid), p, Told)'
    BY <1>1, <2>5 DEF Untouched, Touched
  <2>8. ToldInv'
    BY <1>1, <2>1, <2>5, <2>7 DEF ClientInv, ToldInv
  <2>. QED
    BY <2>2, <2>3, <2>4, <2>6, <2>8, Assembled DEF SessionInv
<1>. QED
  BY <1>5, <1>6

LEMMA WatchStep ==
  ASSUME ClientInv, NEW k \in setup.keys, Watch(k)
  PROVE  ClientInv'
<1>. DEFINE ks == {k}
<1>1. /\ setup' = setup /\ log' = log /\ oldest' = oldest /\ failures' = failures /\ bindings' = bindings /\ open' = open
      /\ closed' = closed /\ sel' = sel /\ conn' = conn /\ sess' = sess /\ bid' = bid /\ reading' = reading
      /\ installed' = installed /\ follow' = follow /\ UNCHANGED namesVars /\ rereads' = rereads
      /\ watched' = watched \cup ks /\ SetRefresh(Invalidate(ks)) /\ conn = "connected" /\ sess # 0
  BY DEF Watch, managerVars
<1>2. BaseTypes
  BY TypeParts DEF ClientInv
<1>3. k \in AllKeys /\ k # Overview
  BY <1>2, SetupIs
<1>4. IsFiniteSet(watched) /\ follow.pc # "off"
  BY <1>1 DEF ClientInv, SessInv
<1>5. IsFiniteSet(watched')
  BY <1>1, <1>4, FS_AddElement
<1>6. ks \subseteq watched' /\ ks \subseteq AllKeys /\ Overview \notin ks /\ IsFiniteSet(ks) /\ rereads' \subseteq rereads
  BY <1>1, <1>3, FS_Singleton
<1>. HIDE DEF ks
<1>. QED
  BY <1>1, <1>4, <1>5, <1>6, InvalidatesOwn

-----------------------------------------------------------------------------
(* The read lane.                                                          *)

LEMMA FetchStartStep ==
  ASSUME ClientInv, FetchStart
  PROVE  ClientInv'
<1>. DEFINE f == Head(lane)
            r == [key |-> f.key, gen |-> f.gen, bid |-> bid, at |-> End(Ep(bid))]
<1>1. /\ setup' = setup /\ log' = log /\ oldest' = oldest /\ failures' = failures /\ bindings' = bindings /\ open' = open
      /\ closed' = closed /\ sel' = sel /\ conn' = conn /\ sess' = sess /\ bid' = bid /\ gen' = gen /\ flights' = flights
      /\ watched' = watched /\ installed' = installed /\ follow' = follow /\ UNCHANGED namesVars /\ rereads' = rereads
      /\ reading = None /\ lane # << >> /\ lane' = Tail(lane)
      /\ reading' = IF f.gen = gen THEN r ELSE None
  BY DEF FetchStart, managerVars
<1>2. BaseTypes /\ SelType /\ NameTypes /\ FlightTypes /\ ReadTypes /\ FollowType
  BY TypeParts DEF ClientInv
<1>3. follow.pc # "off" /\ sess # 0
  BY <1>1 DEF ClientInv, SessInv
<1>4. /\ lane \in Seq(Entry) /\ lane' \in Seq(Entry) /\ Len(lane) \in Nat \ {0} /\ Len(lane') = Len(lane) - 1 /\ Len(lane') \in Nat
      /\ DOMAIN lane = 1..Len(lane) /\ DOMAIN lane' = 1..Len(lane') /\ f = lane[1] /\ f \in Entry
      /\ \A i \in DOMAIN lane' : i + 1 \in DOMAIN lane /\ i + 1 # 1 /\ lane'[i] = lane[i + 1]
  BY <1>1, <1>2 DEF FlightTypes
<1>5. 1 \in DOMAIN lane
  BY <1>4
<1>6. f.key \in AllKeys /\ f.gen \in Nat /\ f.gen <= gen /\ (f.gen = gen => flights[f.key].on)
  BY <1>4, <1>5 DEF Entry, ClientInv, LaneInv
<1>7. bid \in 1..Len(bindings) /\ End(Ep(bid)) \in Nat /\ bid \in Binding
  BY <1>2, <1>3, BoundIs DEF BaseTypes
<1>. HIDE DEF f
<1>8. /\ r \in Reading /\ r.key = f.key /\ r.gen = f.gen /\ r.bid = bid /\ r.at = End(Ep(bid))
  BY <1>6, <1>7 DEF Reading
<1>. HIDE DEF r
<1>9. BaseTypes' /\ SelType' /\ NameTypes' /\ FlightTypes' /\ FollowType'
  BY <1>1, <1>2, <1>4 DEF BaseTypes, SelType, NameTypes, FlightTypes, FollowType, Reads, Binding, namesVars
<1>10. ReadTypes'
  <2>1. Reading' = Reading /\ Reads' = Reads
    BY <1>1 DEF Reading, Reads, Binding
  <2>. QED
    BY <1>1, <1>2, <1>8, <2>1 DEF ReadTypes
<1>11. reading' # None => reading' = r /\ f.gen = gen /\ f.key \in watched /\ flights[f.key].on
  BY <1>1, <1>6 DEF ClientInv, LaneInv
<1>12. NoForeignRead'
  BY <1>1, <1>8, <1>11 DEF ClientInv, NoForeignRead
<1>13. LaneInv'
  <2>1. \A i \in DOMAIN lane' : lane'[i].gen <= gen /\ (lane'[i].gen = gen => flights[lane'[i].key].on)
    BY <1>4 DEF ClientInv, LaneInv
  <2>2. ASSUME NEW i \in DOMAIN lane', NEW j \in DOMAIN lane', i # j, lane'[i].gen = gen, lane'[j].gen = gen
        PROVE  lane'[i].key # lane'[j].key
    <3>1. i + 1 # j + 1
      BY <1>4, <2>2
    <3>. QED
      BY <1>4, <2>2, <3>1 DEF ClientInv, LaneInv
  <2>3. ASSUME NEW i \in DOMAIN lane', lane'[i].gen = gen, f.gen = gen
        PROVE  lane'[i].key # f.key
    BY <1>4, <1>5, <2>3 DEF ClientInv, LaneInv
  <2>4. \A k \in AllKeys : flights[k].on => flights[k].gen = gen /\ k \in watched
    BY DEF ClientInv, LaneInv
  <2>5. \A t \in rereads : t.gen <= gen
    BY DEF ClientInv, LaneInv
  <2>6. reading' # None => /\ reading'.gen <= gen /\ flights[reading'.key].on /\ reading'.bid = bid
                           /\ \A i \in DOMAIN lane' : lane'[i].gen = gen => lane'[i].key # reading'.key
    BY <1>6, <1>8, <1>11, <2>3
  <2>. QED
    BY <1>1, <2>1, <2>2, <2>4, <2>5, <2>6 DEF LaneInv
<1>14. NoLeakedTransport' /\ ConnectedFollows'
  BY <1>1 DEF ClientInv, NoLeakedTransport, ConnectedFollows
<1>15. SelInv'
  <2>1. sel.pc \in {"bind", "overview"} /\ sel.from # 0 => bid < sel.bid
    BY DEF ClientInv, SelInv
  <2>. QED
    BY <1>1, <1>8, <1>11, <2>1 DEF ClientInv, SelInv, Ep
<1>16. SessInv'
  <2>1. reading' # None => reading'.bid <= Len(bindings')
    BY <1>1, <1>8, <1>11 DEF ClientInv, SessInv
  <2>. QED
    BY <1>1, <1>3, <2>1 DEF ClientInv, SessInv
<1>17. /\ (Following <=> Following') /\ (Behind <=> Behind') /\ Told' = Told /\ Ep(bid)' = Ep(bid)
       /\ End(Ep(bid))' = End(Ep(bid))
  BY <1>1 DEF Following, Behind, Told, Ep, End
<1>18. LoopInv'
  BY <1>1, <1>17 DEF ClientInv, LoopInv
<1>19. ToldInv'
  <2>. SUFFICES ASSUME Following \/ Behind PROVE ToldInv'
    BY <1>17 DEF ToldInv
  <2>1. \A k, p : Untouched(k, Ep(bid), p, Told) => Untouched(k, Ep(bid), p, Told)'
    BY <1>1, <1>17 DEF Untouched, Touched
  <2>2. Told \in Nat /\ Told <= End(Ep(bid))
    <3>1. Overview \in AllKeys
      BY <1>2, SetupIs
    <3>. QED
      BY <1>2, <3>1 DEF ClientInv, LoopInv, Following, Behind, Told, FollowType, ReadTypes, Reads
  <2>3. reading' # None => \A k : Untouched(k, Ep(bid), reading.at, Told)'
    BY <1>7, <1>8, <1>11, <1>17, <2>2 DEF Untouched
  <2>. QED
    BY <1>1, <1>17, <2>1, <2>3 DEF ClientInv, ToldInv
<1>. QED
  BY <1>9, <1>10, <1>12, <1>13, <1>14, <1>15, <1>16, <1>18, <1>19, Assembled DEF SessionInv

(* The end of a fetch: what it read is installed only for the generation   *)
(* it was started in.                                                      *)
LEMMA FetchEndStep ==
  ASSUME ClientInv, FetchEnd
  PROVE  ClientInv'
<1>. DEFINE k == reading.key
            yes == Installs(k, reading.gen)
<1>1. /\ setup' = setup /\ log' = log /\ oldest' = oldest /\ bindings' = bindings /\ open' = open
      /\ closed' = closed /\ sel' = sel /\ sess' = sess /\ bid' = bid /\ watched' = watched /\ follow' = follow
      /\ reading # None /\ reading' = None
  BY DEF FetchEnd, managerVars
<1>2. PICK out \in Outcomes(reading.bid, reading.at) :
        /\ Spend(out) /\ SetRefresh(CompleteFetch(k, reading.gen))
        /\ installed' = IF yes THEN [installed EXCEPT ![k] = out] ELSE installed
        /\ rereads' = IF yes THEN rereads \cup RereadAfter(k, reading.gen, out) ELSE rereads
        /\ IF yes THEN Install(sess, bid, installed'[Overview], follow.pc = "ended") ELSE Quiet
  BY DEF FetchEnd
<1>3. BaseTypes /\ SelType /\ NameTypes /\ FlightTypes /\ ReadTypes /\ FollowType
  BY TypeParts DEF ClientInv
<1>4. /\ k \in AllKeys /\ reading.gen \in Nat /\ reading.bid \in Binding /\ reading.at \in Nat
      /\ sess \in Binding /\ bid \in Binding /\ gen \in Nat /\ follow.pc \in {"off", "follow", "boot", "ended"}
      /\ installed \in [AllKeys -> Reads] /\ Overview \in AllKeys
  <2>1. Overview \in AllKeys
    BY <1>3, SetupIs
  <2>. QED
    BY <1>1, <1>3, <2>1 DEF ReadTypes, Reading, BaseTypes, FlightTypes, FollowType
<1>5. follow.pc # "off" /\ sess # 0 /\ ~closed
  BY <1>1 DEF ClientInv, SessInv
<1>6. /\ out \in Reads /\ out.bid = reading.bid /\ out.kind # "unread" /\ out.at \in Nat
      /\ out.kind = "ok" => reading.at <= out.at /\ out.at <= End(Ep(reading.bid)) /\ End(Ep(reading.bid)) \in Nat
  BY <1>2, <1>3, <1>4, OutcomeIs DEF Reads
<1>7. yes <=> reading.gen = gen
  BY <1>1, <1>4 DEF ClientInv, LaneInv, Installs
<1>8. /\ FlightTypes' /\ gen' = gen /\ (\A j \in AllKeys \ {k} : flights'[j] = flights[j])
      /\ ~yes => flights' = flights /\ lane' = lane
      /\ yes /\ ~flights[k].dirty => ~flights'[k].on /\ lane' = lane
      /\ yes /\ flights[k].dirty =>
              /\ flights'[k].on /\ ~flights'[k].dirty /\ flights'[k].gen = gen
              /\ Len(lane') = Len(lane) + 1 /\ \A i \in 1..Len(lane) : lane'[i] = lane[i]
              /\ lane'[Len(lane')].key = k /\ lane'[Len(lane')].gen = gen
  BY <1>2, <1>3, <1>4, CompleteIs
<1>. HIDE DEF k
<1>9. yes => reading.bid = bid /\ flights[k].on /\ k \in watched /\ \A i \in DOMAIN lane : lane[i].gen = gen => lane[i].key # k
  BY <1>1, <1>4, <1>7 DEF ClientInv, LaneInv, k
<1>. HIDE DEF yes
<1>10. installed' \in [AllKeys -> Reads] /\ \A j \in AllKeys : installed'[j] = IF yes /\ j = k THEN out ELSE installed[j]
  BY <1>2, <1>4, <1>6
<1>11. rereads' \subseteq rereads \cup {[key |-> k, gen |-> gen]} /\ (~yes => rereads' = rereads)
  BY <1>2, <1>7 DEF RereadAfter
<1>12. NameTypes' /\ conn' \in {conn, "ended", "connected"} /\ (conn' = "connected" => conn = "connected" \/ follow.pc # "ended")
  <2>1. CASE yes
    BY <1>1, <1>2, <1>3, <1>4, <1>5, <2>1, InstallIs
  <2>2. CASE ~yes
    BY <1>1, <1>2, <1>3, <2>2, QuietIs DEF Quiet
  <2>. QED
    BY <2>1, <2>2
<1>13. BaseTypes' /\ SelType' /\ FollowType' /\ ReadTypes'
  <2>1. failures' \in Nat
    BY <1>2, <1>3, SpendIs
  <2>2. Binding' = Binding /\ Reads' = Reads
    BY <1>1 DEF Binding, Reads
  <2>3. BaseTypes' /\ SelType' /\ FollowType'
    BY <1>1, <1>3, <1>12, <2>1, <2>2 DEF BaseTypes, SelType, FollowType
  <2>4. [key |-> k, gen |-> gen] \in Entry
    BY <1>4 DEF Entry
  <2>. QED
    BY <1>1, <1>3, <1>10, <1>11, <2>2, <2>3, <2>4 DEF ReadTypes
<1>14. NoForeignRead'
  BY <1>1, <1>6, <1>9, <1>10 DEF ClientInv, NoForeignRead
<1>15. LaneInv'
  <2>1. /\ \A j \in AllKeys : flights[j].on => flights[j].gen = gen /\ j \in watched
        /\ \A i \in DOMAIN lane : lane[i].gen <= gen /\ (lane[i].gen = gen => flights[lane[i].key].on)
        /\ \A i, j \in DOMAIN lane : i # j /\ lane[i].gen = gen /\ lane[j].gen = gen => lane[i].key # lane[j].key
        /\ \A t \in rereads : t.gen <= gen
    BY DEF ClientInv, LaneInv
  <2>2. \A t \in rereads' : t.gen <= gen'
    BY <1>4, <1>8, <1>11, <2>1
  <2>3. \A j \in AllKeys : flights'[j].on => flights'[j].gen = gen' /\ j \in watched'
    BY <1>1, <1>4, <1>8, <1>9, <2>1
  <2>4. /\ lane \in Seq(Entry) /\ lane' \in Seq(Entry) /\ DOMAIN lane = 1..Len(lane) /\ DOMAIN lane' = 1..Len(lane') /\ Len(lane) \in Nat
        /\ \A i \in DOMAIN lane : lane[i].key \in AllKeys
    <3>1. lane \in Seq(Entry) /\ lane' \in Seq(Entry)
      BY <1>3, <1>8 DEF FlightTypes
    <3>. QED
      BY <3>1, LaneIs
  <2>5. CASE ~yes
    BY <1>1, <1>8, <2>1, <2>2, <2>3, <2>5 DEF LaneInv
  <2>6. CASE yes /\ ~flights[k].dirty
    <3>1. \A i \in DOMAIN lane' : lane'[i].gen = gen' => flights'[lane'[i].key].on
      BY <1>8, <1>9, <2>1, <2>4, <2>6
    <3>. QED
      BY <1>1, <1>8, <2>1, <2>2, <2>3, <2>6, <3>1 DEF LaneInv
  <2>7. CASE yes /\ flights[k].dirty
    <3>1. /\ Len(lane') = Len(lane) + 1 /\ (\A i \in DOMAIN lane : lane'[i] = lane[i] /\ i \in DOMAIN lane')
          /\ (\A i \in DOMAIN lane' : i \in DOMAIN lane \/ i = Len(lane'))
          /\ lane'[Len(lane')].key = k /\ lane'[Len(lane')].gen = gen /\ flights'[k].on
      BY <1>8, <2>4, <2>7
    <3>2. \A j \in AllKeys : flights[j].on => flights'[j].on
      BY <1>8, <3>1
    <3>3. \A i \in DOMAIN lane' : lane'[i].gen <= gen' /\ (lane'[i].gen = gen' => flights'[lane'[i].key].on)
      BY <1>4, <1>8, <2>1, <2>4, <3>1, <3>2
    <3>4. \A i, j \in DOMAIN lane' : i # j /\ lane'[i].gen = gen' /\ lane'[j].gen = gen' => lane'[i].key # lane'[j].key
      BY <1>8, <1>9, <2>1, <2>7, <3>1
    <3>. QED
      BY <1>1, <2>2, <2>3, <3>3, <3>4 DEF LaneInv
  <2>. QED
    BY <2>5, <2>6, <2>7
<1>16. NoLeakedTransport' /\ SelInv'
  BY <1>1 DEF ClientInv, NoLeakedTransport, SelInv, Ep
<1>17. ConnectedFollows'
  BY <1>1, <1>4, <1>5, <1>12 DEF ClientInv, ConnectedFollows
<1>18. SessInv'
  BY <1>1, <1>5 DEF ClientInv, SessInv
<1>19. Ep(bid)' = Ep(bid) /\ End(Ep(bid))' = End(Ep(bid)) /\ (Following <=> Following') /\ (Behind <=> Behind')
  BY <1>1 DEF Ep, End, Following, Behind
<1>20. yes /\ ~Following /\ follow.pc # "ended" => k # Overview
  BY <1>9 DEF ClientInv, LoopInv
<1>21. Behind => installed'[Overview] = installed[Overview]
  BY <1>4, <1>10, <1>20 DEF Behind, Following
<1>22. LoopInv'
  <2>1. \A j \in AllKeys : installed'[j].kind = "ok" => installed'[j].at <= End(Ep(bid))
    BY <1>6, <1>9, <1>10 DEF ClientInv, LoopInv
  <2>2. ~Following /\ follow.pc # "ended" => ~flights'[Overview].on
    BY <1>4, <1>8, <1>20 DEF ClientInv, LoopInv
  <2>3. ~Following /\ follow.pc # "ended" => \A t \in rereads' : t.gen = gen' => t.key # Overview
    BY <1>8, <1>11, <1>20 DEF ClientInv, LoopInv
  <2>4. Behind' => follow'.bid \notin open' /\ installed'[Overview].kind = "ok"
    BY <1>1, <1>19, <1>21 DEF ClientInv, LoopInv
  <2>5. follow'.pc = "boot" => follow'.gen <= gen' /\ (follow'.gen = gen' <=> follow'.bid = bid')
    BY <1>1, <1>8 DEF ClientInv, LoopInv
  <2>6. Following' => follow'.at <= End(Ep(bid))'
    BY <1>1, <1>19 DEF ClientInv, LoopInv
  <2>. QED
    BY <1>1, <1>19, <2>1, <2>2, <2>3, <2>4, <2>5, <2>6 DEF LoopInv
<1>23. ToldInv'
  <2>. SUFFICES ASSUME Following \/ Behind, NEW j \in watched, ~flights'[j].on, installed'[j].kind = "ok"
                PROVE  Untouched(j, Ep(bid), installed[j].at, Told)'
    BY <1>1, <1>19 DEF ToldInv
  <2>1. Told' = Told /\ Told \in Nat
    <3>1. follow.at \in Nat /\ installed[Overview].at \in Nat
      BY <1>3, <1>4 DEF FollowType, Reads
    <3>. QED
      BY <1>1, <1>21, <3>1 DEF Following, Behind, Told
  <2>2. \A p : Untouched(j, Ep(bid), p, Told) => Untouched(j, Ep(bid), p, Told)'
    BY <1>1, <1>19, <2>1 DEF Untouched, Touched
  <2>3. j \in AllKeys
    BY <1>3 DEF ReadTypes
  <2>4. CASE yes /\ j = k
    <3>1. ~flights[k].dirty /\ out.kind = "ok" /\ installed'[j].at = out.at /\ reading.at <= out.at
      BY <1>6, <1>8, <1>10, <2>3, <2>4
    <3>2. Untouched(k, Ep(bid), reading.at, Told)
      BY <1>1, <1>7, <2>4, <3>1 DEF ClientInv, ToldInv, k
    <3>3. \A i \in out.at + 1 .. Told : i \in reading.at + 1 .. Told
      BY <1>4, <1>6, <2>1, <3>1
    <3>4. Untouched(k, Ep(bid), out.at, Told)
      BY <3>2, <3>3 DEF Untouched
    <3>5. Untouched(j, Ep(bid), out.at, Told)'
      BY <2>2, <2>4, <3>4
    <3>. QED
      BY <3>1, <3>5
  <2>5. CASE ~(yes /\ j = k)
    <3>1. ~flights[j].on /\ installed'[j] = installed[j]
      BY <1>8, <1>10, <2>3, <2>5
    <3>2. Untouched(j, Ep(bid), installed[j].at, Told)
      BY <3>1 DEF ClientInv, ToldInv
    <3>. QED
      BY <2>2, <3>1, <3>2
  <2>. QED
    BY <2>4, <2>5
<1>. QED
  BY <1>8, <1>12, <1>13, <1>14, <1>15, <1>16, <1>17, <1>18, <1>22, <1>23, Assembled DEF SessionInv

-----------------------------------------------------------------------------
(* The follow loop.                                                        *)

FollowRecord == [pc : {"off", "follow", "boot", "ended"}, bid : Binding, at : Nat, gen : Nat]

(* A loop whose transport is open stands at the binding of the session.    *)
LEMMA OpenIsCurrent ==
  ASSUME ClientInv, follow.pc \in {"follow", "boot"}
  PROVE  sess # 0 /\ ~closed /\ (follow.bid \in open => follow.bid = bid) /\ (follow.bid = bid => ~Behind)
BY DEF ClientInv, SessInv, LoopInv, Behind

(* An event is delivered: what it touches is fetched, or fetched again.    *)
LEMMA DeliverStep ==
  ASSUME ClientInv, Deliver
  PROVE  ClientInv'
<1>. DEFINE r == log[Ep(bid)][follow.at + 1]
            ks == Touched(r)
<1>1. /\ setup' = setup /\ log' = log /\ oldest' = oldest /\ failures' = failures /\ bindings' = bindings /\ open' = open
      /\ closed' = closed /\ sel' = sel /\ conn' = conn /\ sess' = sess /\ bid' = bid /\ reading' = reading
      /\ watched' = watched /\ installed' = installed /\ UNCHANGED namesVars /\ rereads' = rereads
      /\ follow.pc = "follow" /\ follow.bid \in open /\ follow' = [follow EXCEPT !.at = @ + 1]
  BY DEF Deliver, managerVars
<1>2. follow.bid = bid /\ sess # 0
  BY <1>1, OpenIsCurrent
<1>3. SetRefresh(Invalidate(ks)) /\ follow.at < End(Ep(bid))
  BY <1>2 DEF Deliver
<1>4. BaseTypes /\ SelType /\ NameTypes /\ FlightTypes /\ ReadTypes /\ FollowType
  BY TypeParts DEF ClientInv
<1>5. follow \in FollowRecord /\ follow.at \in Nat /\ End(Ep(bid)) \in Nat
  BY <1>2, <1>4, BoundIs DEF FollowType, FollowRecord
<1>6. follow' \in FollowRecord /\ follow'.pc = "follow" /\ follow'.bid = bid /\ follow'.at = follow.at + 1
  BY <1>1, <1>2, <1>5 DEF FollowRecord
<1>7. ks \subseteq watched /\ watched \subseteq AllKeys /\ IsFiniteSet(watched)
  BY <1>4 DEF Touched, ReadTypes, ClientInv, SessInv
<1>. HIDE DEF ks
<1>8. IsFiniteSet(ks) /\ ks \subseteq AllKeys
  BY <1>7, FS_Subset
<1>9. /\ FlightTypes' /\ gen' = gen
      /\ \A k \in AllKeys \ ks : flights'[k] = flights[k]
      /\ \A k \in ks : flights'[k].on
      /\ \A k \in ks : flights[k].on => flights'[k].dirty
  BY <1>3, <1>4, <1>8, InvalidateIs
<1>10. BaseTypes' /\ SelType' /\ NameTypes' /\ ReadTypes'
  BY <1>1, <1>4 DEF BaseTypes, SelType, NameTypes, ReadTypes, Reading, Reads, Binding, namesVars
<1>11. FollowType'
  BY <1>1, <1>6 DEF FollowType, FollowRecord, Binding
<1>12. LaneInv'
  <2>1. ks \subseteq watched' /\ watched \subseteq watched' /\ watched' \subseteq AllKeys /\ rereads' \subseteq rereads /\ LaneInv
    BY <1>1, <1>7 DEF ClientInv
  <2>. QED
    BY <1>1, <1>3, <1>4, <1>8, <1>9, <2>1, InvalidateLane
<1>13. NoForeignRead' /\ NoLeakedTransport' /\ ConnectedFollows' /\ SelInv' /\ SessInv'
  <2>1. NoForeignRead' /\ NoLeakedTransport' /\ ConnectedFollows'
    BY <1>1, <1>2, <1>6 DEF ClientInv, NoForeignRead, NoLeakedTransport, ConnectedFollows
  <2>2. SelInv'
    BY <1>1, <1>2, <1>6 DEF ClientInv, SelInv, Ep
  <2>3. SessInv'
    BY <1>1, <1>2, <1>6 DEF ClientInv, SessInv
  <2>. QED
    BY <2>1, <2>2, <2>3
<1>14. /\ Following /\ Following' /\ ~Behind' /\ Told = follow.at /\ Told' = follow.at + 1 /\ Ep(bid)' = Ep(bid)
       /\ End(Ep(bid))' = End(Ep(bid))
  BY <1>1, <1>2, <1>6 DEF Following, Behind, Told, Ep, End
<1>15. LoopInv'
  BY <1>1, <1>3, <1>5, <1>6, <1>14 DEF ClientInv, LoopInv
<1>16. ToldInv'
  <2>. SUFFICES ASSUME NEW k \in watched
                PROVE  /\ ~flights'[k].on /\ installed'[k].kind = "ok" => Untouched(k, Ep(bid), installed[k].at, Told)'
                       /\ reading' # None /\ reading'.key = k /\ reading'.gen = gen' /\ ~flights'[k].dirty =>
                            Untouched(k, Ep(bid), reading.at, Told)'
    BY <1>1 DEF ToldInv
  <2>1. CASE k \in ks
    <3>1. reading # None /\ reading.key = k /\ reading.gen = gen => flights[k].on
      BY DEF ClientInv, LaneInv
    <3>. QED
      BY <1>1, <1>9, <2>1, <3>1
  <2>2. CASE k \notin ks
    <3>1. k \in AllKeys /\ flights'[k] = flights[k]
      BY <1>7, <1>9, <2>2
    <3>2. ASSUME NEW p \in Nat, Untouched(k, Ep(bid), p, Told)
          PROVE  Untouched(k, Ep(bid), p, Told)'
      <4>. SUFFICES ASSUME NEW i \in p + 1 .. follow.at + 1 PROVE k \notin Touched(log[Ep(bid)][i])
        BY <1>1, <1>14 DEF Untouched, Touched
      <4>1. i = follow.at + 1 \/ i \in p + 1 .. follow.at
        BY <1>5, <3>2
      <4>2. CASE i = follow.at + 1
        BY <2>2, <4>2 DEF ks
      <4>3. CASE i \in p + 1 .. follow.at
        BY <1>14, <3>2, <4>3 DEF Untouched
      <4>. QED
        BY <4>1, <4>2, <4>3
    <3>3. /\ ~flights[k].on /\ installed[k].kind = "ok" => Untouched(k, Ep(bid), installed[k].at, Told)
          /\ reading # None /\ reading.key = k /\ reading.gen = gen /\ ~flights[k].dirty =>
               Untouched(k, Ep(bid), reading.at, Told)
      BY <1>14 DEF ClientInv, ToldInv
    <3>4. installed[k].at \in Nat /\ (reading # None => reading.at \in Nat)
      BY <1>4, <3>1 DEF ReadTypes, Reads, Reading
    <3>5. /\ ~flights[k].on /\ installed[k].kind = "ok" => Untouched(k, Ep(bid), installed[k].at, Told)'
          /\ reading # None /\ reading.key = k /\ reading.gen = gen /\ ~flights[k].dirty =>
               Untouched(k, Ep(bid), reading.at, Told)'
      BY <1>1, <3>2, <3>3, <3>4
    <3>. QED
      BY <1>1, <1>9, <3>1, <3>5
  <2>. QED
    BY <2>1, <2>2
<1>. QED
  BY <1>9, <1>10, <1>11, <1>12, <1>13, <1>15, <1>16, Assembled DEF SessionInv

(* A 410: the generation advances and the overview is read again.          *)
LEMMA ResnapshotStep ==
  ASSUME ClientInv, Resnapshot
  PROVE  ClientInv'
<1>1. /\ setup' = setup /\ log' = log /\ oldest' = oldest /\ failures' = failures /\ bindings' = bindings /\ open' = open
      /\ closed' = closed /\ sel' = sel /\ conn' = conn /\ sess' = sess /\ bid' = bid /\ reading' = reading
      /\ watched' = watched /\ installed' = installed /\ UNCHANGED namesVars /\ rereads' = rereads
      /\ follow.pc = "follow" /\ follow.bid \in open /\ SetRefresh(AdvanceGeneration)
      /\ follow' = [pc |-> "boot", bid |-> bid, at |-> End(Ep(bid)), gen |-> gen + 1]
  BY DEF Resnapshot, managerVars
<1>2. follow.bid = bid /\ sess # 0
  BY <1>1, OpenIsCurrent
<1>3. BaseTypes /\ SelType /\ NameTypes /\ FlightTypes /\ ReadTypes /\ FollowType
  BY TypeParts DEF ClientInv
<1>4. bid \in Binding /\ gen \in Nat /\ End(Ep(bid)) \in Nat
  BY <1>2, <1>3, BoundIs DEF BaseTypes, FlightTypes
<1>5. follow' \in FollowRecord /\ follow'.pc = "boot" /\ follow'.bid = bid /\ follow'.gen = gen + 1
  BY <1>1, <1>4 DEF FollowRecord
<1>6. FlightTypes' /\ gen' = gen + 1 /\ \A k \in AllKeys : ~flights'[k].on
  BY <1>1, <1>3, AdvanceIs
<1>7. LaneInv'
  BY <1>1, <1>3, AdvanceLane DEF ClientInv
<1>8. BaseTypes' /\ SelType' /\ NameTypes' /\ ReadTypes' /\ FollowType'
  <2>1. BaseTypes' /\ SelType' /\ NameTypes' /\ ReadTypes'
    BY <1>1, <1>3 DEF BaseTypes, SelType, NameTypes, ReadTypes, Reading, Reads, Binding, namesVars
  <2>. QED
    BY <1>1, <1>5, <2>1 DEF FollowType, FollowRecord, Binding
<1>9. NoForeignRead' /\ NoLeakedTransport' /\ ConnectedFollows' /\ SelInv' /\ SessInv'
  <2>1. NoForeignRead' /\ NoLeakedTransport' /\ ConnectedFollows'
    BY <1>1, <1>2, <1>5 DEF ClientInv, NoForeignRead, NoLeakedTransport, ConnectedFollows
  <2>2. SelInv'
    BY <1>1, <1>2, <1>5 DEF ClientInv, SelInv, Ep
  <2>3. SessInv'
    BY <1>1, <1>2, <1>5 DEF ClientInv, SessInv
  <2>. QED
    BY <2>1, <2>2, <2>3
<1>10. ~Following' /\ ~Behind' /\ End(Ep(bid))' = End(Ep(bid))
  BY <1>1, <1>5 DEF Following, Behind, Ep, End
<1>11. LoopInv'
  <2>1. \A t \in rereads' : t.gen # gen'
    BY <1>1, <1>3, <1>4, <1>6 DEF ClientInv, LaneInv, ReadTypes, Entry
  <2>2. Overview \in AllKeys
    BY <1>3, SetupIs
  <2>3. follow'.gen <= gen' /\ follow'.gen = gen' /\ follow'.bid = bid'
    BY <1>1, <1>4, <1>5, <1>6
  <2>4. \A k \in AllKeys : installed'[k].kind = "ok" => installed'[k].at <= End(Ep(bid))'
    BY <1>1, <1>10 DEF ClientInv, LoopInv
  <2>. QED
    BY <1>6, <1>10, <2>1, <2>2, <2>3, <2>4 DEF LoopInv
<1>12. ToldInv'
  BY <1>10 DEF ToldInv
<1>. QED
  BY <1>6, <1>7, <1>8, <1>9, <1>11, <1>12, Assembled DEF SessionInv

(* The loop ends, with or without a failed overview.                       *)
LEMMA LoopEnds ==
  ASSUME ClientInv, follow.pc \in {"follow", "boot"}, follow' = [follow EXCEPT !.pc = "ended"],
         setup' = setup, log' = log, oldest' = oldest, failures' \in Nat, bindings' = bindings, open' = open,
         closed' = closed, sel' = sel, sess' = sess, bid' = bid, gen' = gen, flights' = flights, lane' = lane,
         reading' = reading, watched' = watched, rereads' = rereads, NEW over, Install(sess, bid, over, TRUE),
         installed' \in [AllKeys -> Reads],
         \A k \in AllKeys : \/ installed'[k] = installed[k]
                            \/ k = Overview /\ installed'[k].kind # "ok" /\ installed'[k].bid = bid
  PROVE  ClientInv'
<1>1. BaseTypes /\ SelType /\ NameTypes /\ FlightTypes /\ ReadTypes /\ FollowType
  BY TypeParts DEF ClientInv
<1>2. sess # 0 /\ ~closed /\ sess \in Binding /\ bid \in Binding
  BY <1>1, OpenIsCurrent DEF BaseTypes
<1>3. NameTypes' /\ conn' = "ended"
  BY <1>1, <1>2, InstallIs
<1>4. follow' \in FollowRecord /\ follow'.pc = "ended" /\ follow'.bid = follow.bid
  <2>1. follow \in FollowRecord
    BY <1>1 DEF FollowType, FollowRecord
  <2>. QED
    BY <2>1 DEF FollowRecord
<1>5. BaseTypes' /\ SelType' /\ FlightTypes' /\ ReadTypes' /\ FollowType'
  <2>1. Binding' = Binding /\ Reads' = Reads /\ Reading' = Reading
    BY DEF Binding, Reads, Reading
  <2>2. BaseTypes' /\ SelType' /\ FlightTypes'
    BY <1>1, <1>3, <2>1 DEF BaseTypes, SelType, FlightTypes
  <2>. QED
    BY <1>1, <1>4, <2>1, <2>2 DEF ReadTypes, FollowType, FollowRecord
<1>6. Overview \in watched
  BY <1>2 DEF ClientInv, SessInv
<1>7. NoForeignRead' /\ LaneInv'
  BY <1>6 DEF ClientInv, NoForeignRead, LaneInv
<1>8. NoLeakedTransport' /\ ConnectedFollows'
  BY <1>3 DEF ClientInv, NoLeakedTransport, ConnectedFollows
<1>9. SelInv' /\ SessInv'
  <2>1. SelInv'
    BY <1>2, <1>4 DEF ClientInv, SelInv, Ep
  <2>. QED
    BY <1>2, <1>3, <1>4, <2>1 DEF ClientInv, SessInv
<1>10. ~Following' /\ ~Behind' /\ End(Ep(bid))' = End(Ep(bid))
  BY <1>4 DEF Following, Behind, Ep, End
<1>11. LoopInv' /\ ToldInv'
  BY <1>4, <1>10 DEF ClientInv, LoopInv, ToldInv
<1>. QED
  BY <1>3, <1>5, <1>7, <1>8, <1>9, <1>11, Assembled DEF SessionInv

(* The loop takes up the binding that it was behind of: nothing changes    *)
(* for the session, which read the overview that it goes on from.          *)
LEMMA LoopMoves ==
  ASSUME ClientInv, Behind, follow' = Continue(installed[Overview]),
         setup' = setup, log' = log, oldest' = oldest, failures' \in Nat, bindings' = bindings, open' = open,
         closed' = closed, sel' = sel, sess' = sess, bid' = bid, gen' = gen, flights' = flights, lane' = lane,
         reading' = reading, watched' = watched, rereads' = rereads, installed' = installed, Quiet
  PROVE  ClientInv'
<1>1. /\ BaseTypes /\ SelType /\ NameTypes /\ FlightTypes /\ ReadTypes /\ FollowType
      /\ Overview \in AllKeys
  <2>1. BaseTypes /\ SelType /\ NameTypes /\ FlightTypes /\ ReadTypes /\ FollowType
    BY TypeParts DEF ClientInv
  <2>. QED
    BY <2>1, SetupIs
<1>2. sess # 0 /\ ~closed /\ sess \in Binding /\ bid \in Binding /\ installed[Overview].kind = "ok"
  BY <1>1, OpenIsCurrent DEF BaseTypes, Behind, ClientInv, LoopInv
<1>3. NameTypes' /\ conn' = conn
  BY <1>1, QuietIs DEF Quiet
<1>4. installed[Overview].at \in Nat
  BY <1>1 DEF ReadTypes, Reads
<1>5. follow' \in FollowRecord /\ follow'.pc = "follow" /\ follow'.bid = bid /\ follow'.at = installed[Overview].at
  BY <1>2, <1>4 DEF FollowRecord, Continue
<1>6. BaseTypes' /\ SelType' /\ FlightTypes' /\ ReadTypes' /\ FollowType'
  <2>1. Binding' = Binding /\ Reads' = Reads /\ Reading' = Reading
    BY DEF Binding, Reads, Reading
  <2>2. BaseTypes' /\ SelType' /\ FlightTypes'
    BY <1>1, <1>3, <2>1 DEF BaseTypes, SelType, FlightTypes
  <2>. QED
    BY <1>1, <1>5, <2>1, <2>2 DEF ReadTypes, FollowType, FollowRecord
<1>7. NoForeignRead' /\ LaneInv'
  BY DEF ClientInv, NoForeignRead, LaneInv
<1>8. NoLeakedTransport' /\ ConnectedFollows'
  BY <1>2, <1>3, <1>5 DEF ClientInv, NoLeakedTransport, ConnectedFollows
<1>9. SelInv'
  <2>1. follow.pc # "off" /\ (sel.pc \in {"bind", "overview"} /\ sel.from # 0 => bid < sel.bid)
    BY DEF ClientInv, SelInv, Behind
  <2>. QED
    BY <1>2, <1>5, <2>1 DEF ClientInv, SelInv, Ep
<1>10. SessInv'
  BY <1>2, <1>3, <1>5 DEF ClientInv, SessInv
<1>11. Following' /\ ~Behind' /\ Told' = Told /\ End(Ep(bid))' = End(Ep(bid)) /\ Ep(bid)' = Ep(bid)
  BY <1>5 DEF Following, Behind, Told, Ep, End
<1>12. LoopInv'
  BY <1>1, <1>2, <1>5, <1>11 DEF ClientInv, LoopInv
<1>13. ToldInv'
  <2>1. \A k, p : Untouched(k, Ep(bid), p, Told) => Untouched(k, Ep(bid), p, Told)'
    BY <1>11 DEF Untouched, Touched
  <2>. QED
    BY <2>1 DEF ClientInv, ToldInv
<1>. QED
  BY <1>3, <1>6, <1>7, <1>8, <1>9, <1>10, <1>12, <1>13, Assembled DEF SessionInv

LEMMA FollowRefusedStep ==
  ASSUME ClientInv, FollowRefused
  PROVE  ClientInv'
<1>1. /\ setup' = setup /\ log' = log /\ oldest' = oldest /\ bindings' = bindings /\ open' = open
      /\ closed' = closed /\ sel' = sel /\ sess' = sess /\ bid' = bid /\ gen' = gen /\ flights' = flights /\ lane' = lane
      /\ reading' = reading /\ watched' = watched /\ rereads' = rereads /\ installed' = installed
      /\ Install(sess, bid, installed[Overview], TRUE) /\ follow.pc = "follow"
      /\ follow' = [follow EXCEPT !.pc = "ended"] /\ failures > 0 /\ failures' = failures - 1
  BY DEF FollowRefused, managerVars, refreshVars
<1>2. failures' \in Nat /\ installed' \in [AllKeys -> Reads]
  BY <1>1, TypeParts DEF ClientInv, BaseTypes, ReadTypes
<1>. QED
  BY <1>1, <1>2, LoopEnds

LEMMA FollowMovesStep ==
  ASSUME ClientInv, FollowMoves
  PROVE  ClientInv'
<1>1. /\ setup' = setup /\ log' = log /\ oldest' = oldest /\ bindings' = bindings /\ open' = open /\ failures' = failures
      /\ closed' = closed /\ sel' = sel /\ sess' = sess /\ bid' = bid /\ gen' = gen /\ flights' = flights /\ lane' = lane
      /\ reading' = reading /\ watched' = watched /\ rereads' = rereads /\ installed' = installed
      /\ follow.pc = "follow" /\ follow.bid \notin open
  BY DEF FollowMoves, managerVars, refreshVars
<1>2. failures' \in Nat
  BY <1>1, TypeParts DEF ClientInv, BaseTypes
<1>3. Behind
  BY <1>1, OpenIsCurrent DEF ClientInv, SessInv, Behind
<1>4. follow' = Continue(installed[Overview]) /\ Quiet
  BY <1>3 DEF FollowMoves, ClientInv, LoopInv
<1>. QED
  BY <1>1, <1>2, <1>3, <1>4, LoopMoves

(* The overview read of a 410 ends.                                        *)
LEMMA RebootedStep ==
  ASSUME ClientInv, Rebooted
  PROVE  ClientInv'
<1>1. /\ setup' = setup /\ log' = log /\ oldest' = oldest /\ bindings' = bindings /\ open' = open
      /\ closed' = closed /\ sel' = sel /\ sess' = sess /\ bid' = bid
      /\ reading' = reading /\ watched' = watched /\ rereads' = rereads /\ follow.pc = "boot"
  BY DEF Rebooted, managerVars
<1>. DEFINE same == follow.gen = gen
            ok(out) == out.kind = "ok"
            go(out) == ok(out) \/ (follow.bid # bid /\ installed[Overview].kind = "ok")
<1>2. PICK out \in Outcomes(follow.bid, follow.at) :
          /\ Spend(out)
          /\ installed' = IF same THEN [installed EXCEPT ![Overview] = out] ELSE installed
          /\ SetRefresh(IF ok(out) THEN Invalidate(watched \ {Overview}) ELSE Refresh)
          /\ follow' = IF go(out) THEN Continue(IF ok(out) THEN out ELSE installed[Overview])
                       ELSE [follow EXCEPT !.pc = "ended"]
          /\ IF same \/ ~go(out) THEN Install(sess, bid, installed'[Overview], ~go(out)) ELSE Quiet
  BY DEF Rebooted
<1>3. BaseTypes /\ SelType /\ NameTypes /\ FlightTypes /\ ReadTypes /\ FollowType
  BY TypeParts DEF ClientInv
<1>4. /\ follow.bid \in Binding /\ follow.at \in Nat /\ sess \in Binding /\ bid \in Binding
      /\ installed \in [AllKeys -> Reads] /\ Overview \in AllKeys
  <2>1. Overview \in AllKeys
    BY <1>3, SetupIs
  <2>. QED
    BY <1>3, <2>1 DEF FollowType, BaseTypes, ReadTypes
<1>5. /\ out \in Reads /\ out.bid = follow.bid /\ out.kind # "unread" /\ out.at \in Nat
      /\ out.kind = "ok" => follow.bid \in open /\ out.at <= End(Ep(follow.bid)) /\ End(Ep(follow.bid)) \in Nat
  BY <1>2, <1>3, <1>4, OutcomeIs DEF Reads
<1>6. /\ sess # 0 /\ ~closed /\ (follow.bid \in open => follow.bid = bid) /\ (same <=> follow.bid = bid)
      /\ Overview \in watched
  BY <1>1, OpenIsCurrent DEF ClientInv, LoopInv, SessInv
<1>7. failures' \in Nat
  BY <1>2, <1>3, SpendIs
<1>8. CASE out.kind # "ok" /\ follow.bid # bid
  <2>1. Behind /\ installed[Overview].kind = "ok"
    BY <1>1, <1>8 DEF ClientInv, LoopInv, Behind
  <2>2. installed' = installed /\ follow' = Continue(installed[Overview]) /\ Quiet
    BY <1>2, <1>6, <1>8, <2>1
  <2>3. gen' = gen /\ flights' = flights /\ lane' = lane
    BY <1>2, <1>8 DEF SetRefresh, Refresh
  <2>. QED
    BY <1>1, <1>7, <2>1, <2>2, <2>3, LoopMoves
<1>9. CASE out.kind # "ok" /\ follow.bid = bid
  <2>1. /\ installed' = [installed EXCEPT ![Overview] = out] /\ follow' = [follow EXCEPT !.pc = "ended"]
        /\ Install(sess, bid, installed'[Overview], TRUE)
    BY <1>2, <1>6, <1>9
  <2>2. gen' = gen /\ flights' = flights /\ lane' = lane
    BY <1>2, <1>9 DEF SetRefresh, Refresh
  <2>3. /\ installed' \in [AllKeys -> Reads]
        /\ \A k \in AllKeys : \/ installed'[k] = installed[k]
                              \/ k = Overview /\ installed'[k].kind # "ok" /\ installed'[k].bid = bid
    BY <1>4, <1>5, <1>9, <2>1
  <2>. QED
    BY <1>1, <1>7, <2>1, <2>2, <2>3, LoopEnds
<1>10. CASE out.kind = "ok"
  <2>. DEFINE ks == watched \ {Overview}
  <2>1. follow.bid = bid /\ out.bid = bid /\ out.at <= End(Ep(bid)) /\ End(Ep(bid)) \in Nat
    BY <1>5, <1>6, <1>10
  <2>2. /\ installed' = [installed EXCEPT ![Overview] = out] /\ follow' = Continue(out)
        /\ Install(sess, bid, installed'[Overview], FALSE) /\ SetRefresh(Invalidate(ks))
    BY <1>2, <1>6, <1>10, <2>1
  <2>3. NameTypes' /\ conn' = "connected"
    BY <1>1, <1>3, <1>4, <1>6, <2>2, InstallIs
  <2>4. follow' \in FollowRecord /\ follow'.pc = "follow" /\ follow'.bid = bid /\ follow'.at = out.at
    BY <1>4, <1>5, <2>2 DEF FollowRecord, Continue
  <2>5. /\ installed' \in [AllKeys -> Reads]
        /\ \A k \in AllKeys : installed'[k] = IF k = Overview THEN out ELSE installed[k]
    BY <1>4, <1>5, <2>2
  <2>6. ks \subseteq watched /\ watched \subseteq AllKeys /\ ks \subseteq AllKeys /\ IsFiniteSet(watched)
    BY <1>3 DEF ReadTypes, ClientInv, SessInv
  <2>7. \A k \in watched : k = Overview \/ k \in ks
    OBVIOUS
  <2>8. Overview \notin ks
    OBVIOUS
  <2>. HIDE DEF ks
  <2>9. IsFiniteSet(ks)
    BY <2>6, FS_Subset
  <2>10. /\ FlightTypes' /\ gen' = gen
         /\ \A k \in AllKeys \ ks : flights'[k] = flights[k]
         /\ \A k \in ks : flights'[k].on
         /\ \A k \in ks : flights[k].on => flights'[k].dirty
    BY <1>3, <2>2, <2>6, <2>9, InvalidateIs
  <2>11. BaseTypes' /\ SelType' /\ ReadTypes' /\ FollowType'
    <3>1. Binding' = Binding /\ Reads' = Reads /\ Reading' = Reading
      BY <1>1 DEF Binding, Reads, Reading
    <3>2. BaseTypes' /\ SelType'
      BY <1>1, <1>3, <1>7, <2>3, <3>1 DEF BaseTypes, SelType
    <3>. QED
      BY <1>1, <1>3, <2>4, <2>5, <3>1, <3>2 DEF ReadTypes, FollowType, FollowRecord
  <2>12. LaneInv'
    <3>1. ks \subseteq watched' /\ watched \subseteq watched' /\ watched' \subseteq AllKeys /\ rereads' \subseteq rereads /\ LaneInv
      BY <1>1, <2>6 DEF ClientInv
    <3>. QED
      BY <1>1, <1>3, <2>2, <2>9, <2>10, <3>1, InvalidateLane
  <2>13. NoForeignRead'
    BY <1>1, <1>6, <2>1, <2>5 DEF ClientInv, NoForeignRead
  <2>14. NoLeakedTransport' /\ ConnectedFollows'
    BY <1>1, <1>6, <2>4 DEF ClientInv, NoLeakedTransport, ConnectedFollows
  <2>15. SelInv'
    BY <1>1, <1>6, <2>1, <2>4 DEF ClientInv, SelInv, Ep
  <2>16. SessInv'
    BY <1>1, <1>6, <2>4 DEF ClientInv, SessInv
  <2>17. Following' /\ ~Behind' /\ Told' = out.at /\ End(Ep(bid))' = End(Ep(bid))
    BY <1>1, <2>4 DEF Following, Behind, Told, Ep, End
  <2>18. LoopInv'
    BY <1>1, <2>1, <2>4, <2>5, <2>17 DEF ClientInv, LoopInv
  <2>19. ToldInv'
    <3>1. ~flights[Overview].on
      BY <1>1 DEF ClientInv, LoopInv, Following
    <3>2. reading # None /\ reading.gen = gen => flights[reading.key].on
      BY DEF ClientInv, LaneInv
    <3>3. ASSUME NEW k \in watched'
          PROVE  /\ ~flights'[k].on /\ installed'[k].kind = "ok" => Untouched(k, Ep(bid), installed[k].at, Told)'
                 /\ reading' # None /\ reading'.key = k /\ reading'.gen = gen' => flights'[k].dirty
      <4>1. CASE k = Overview
        <5>1. Untouched(k, Ep(bid), installed[k].at, Told)'
          BY <1>4, <1>5, <2>5, <2>17, <4>1 DEF Untouched
        <5>. QED
          BY <1>1, <2>10, <3>1, <3>2, <4>1, <5>1
      <4>2. CASE k \in ks
        BY <1>1, <2>10, <3>2, <4>2
      <4>. QED
        BY <1>1, <2>7, <3>3, <4>1, <4>2
    <3>. QED
      BY <3>3 DEF ToldInv
  <2>. QED
    BY <2>3, <2>10, <2>11, <2>12, <2>13, <2>14, <2>15, <2>16, <2>18, <2>19, Assembled DEF SessionInv
<1>. QED
  BY <1>8, <1>9, <1>10

-----------------------------------------------------------------------------
LEMMA ClientInit ==
  Init => ClientInv
<1>. SUFFICES ASSUME Init PROVE ClientInv
  OBVIOUS
<1>1. /\ setup \in Setups /\ log = [e \in Endpoints |-> << >>] /\ oldest = [e \in Endpoints |-> 0]
      /\ failures = setup.failures /\ bindings = << >> /\ open = {} /\ closed = FALSE /\ sel = NoSel
      /\ conn = "connecting" /\ sess = 0 /\ bid = 0 /\ gen = 0 /\ flights = Idle /\ lane = << >> /\ reading = None
      /\ watched = {} /\ installed = [k \in AllKeys |-> Unread] /\ rereads = {} /\ follow = NoFollow
      /\ naming = None /\ names = 0 /\ unnamed = 0 /\ namesOf = 0
  BY DEF Init
<1>2. setup.failures \in Nat /\ setup.bindings \in Nat
  BY <1>1, ClientAssumption
<1>3. 0 \in Binding
  BY <1>2 DEF Binding
<1>4. BaseTypes
  <2>1. bindings \in Seq(Endpoints) /\ Len(bindings) = 0 /\ open \subseteq 1..Len(bindings)
    BY <1>1
  <2>2. log \in [Endpoints -> Seq(Keys)] /\ oldest \in [Endpoints -> Nat]
    BY <1>1
  <2>3. failures \in Nat /\ 0 <= setup.bindings
    BY <1>1, <1>2
  <2>. QED
    BY <1>1, <1>3, <2>1, <2>2, <2>3 DEF BaseTypes
<1>5. /\ NoSel \in SelRecord /\ NoSel.pc = "idle" /\ NoSel.bid = 0 /\ NoSel.from = 0
  BY <1>4, NoSelIs
<1>6. Idle \in [AllKeys -> FlightType] /\ \A k \in AllKeys : ~Idle[k].on
  BY DEF Idle, NoFlight, FlightType
<1>7. Unread \in Reads /\ Unread.kind = "unread"
  BY <1>3 DEF Unread, Read, Reads
<1>8. /\ NoFollow \in FollowRecord /\ NoFollow.pc = "off" /\ NoFollow.bid = 0
  BY <1>3 DEF NoFollow, FollowRecord
<1>9. \A k \in AllKeys : installed[k].kind = "unread" /\ ~flights[k].on
  BY <1>1, <1>6, <1>7
<1>10. TypeOK
  <2>1. SelType /\ NameTypes /\ FlightTypes
    BY <1>1, <1>3, <1>5, <1>6 DEF SelType, SelRecord, NameTypes, FlightTypes
  <2>2. ReadTypes /\ FollowType
    BY <1>1, <1>7, <1>8 DEF ReadTypes, FollowType, FollowRecord
  <2>. QED
    BY <1>4, <2>1, <2>2, TypeParts
<1>11. NoForeignRead /\ NoLeakedTransport /\ ConnectedFollows
  BY <1>1, <1>9 DEF NoForeignRead, NoLeakedTransport, ConnectedFollows
<1>12. SelInv
  BY <1>1, <1>5 DEF SelInv
<1>13. SessInv
  BY <1>1, <1>8, <1>9, FS_EmptySet DEF SessInv
<1>14. LaneInv
  BY <1>1, <1>9 DEF LaneInv
<1>15. ~Following /\ ~Behind /\ Overview \in AllKeys
  BY <1>1, <1>8 DEF Following, Behind, AllKeys
<1>16. LoopInv /\ ToldInv
  BY <1>1, <1>8, <1>9, <1>15 DEF LoopInv, ToldInv
<1>. QED
  BY <1>10, <1>11, <1>12, <1>13, <1>14, <1>16 DEF ClientInv

LEMMA ClientStep ==
  ClientInv /\ [Next]_vars => ClientInv'
<1>. SUFFICES ASSUME ClientInv, [Next]_vars PROVE ClientInv'
  OBVIOUS
<1>1. ASSUME NEW e \in setup.endpoints, Expire(e) PROVE ClientInv'
  BY <1>1, ExpireStep
<1>2. ASSUME NEW e \in setup.endpoints, Select(e) PROVE ClientInv'
  BY <1>2, SelectStepKeeps
<1>3. ASSUME NEW e \in setup.endpoints, NEW k \in setup.keys, Change(e, k) PROVE ClientInv'
  BY <1>3, ChangeStep
<1>4. CASE LaneStep
  BY <1>4, FetchStartStep, FetchEndStep DEF LaneStep
<1>5. CASE FollowStep
  BY <1>5, DeliverStep, ResnapshotStep, RebootedStep, FollowMovesStep DEF FollowStep
<1>6. CASE SelectStep
  BY <1>6, LoadStep, BindStep, RefuseStep, StartedStep, CommitStep DEF SelectStep
<1>7. CASE FollowRefused
  BY <1>7, FollowRefusedStep
<1>8. CASE NameRead
  BY <1>8, NameReadStep
<1>9. CASE Close
  BY <1>9, CloseStep
<1>10. ASSUME NEW t \in rereads, Reread(t) PROVE ClientInv'
  BY <1>10, RereadStep
<1>11. ASSUME NEW k \in setup.keys, Watch(k) PROVE ClientInv'
  BY <1>11, WatchStep
<1>12. CASE UNCHANGED vars
  <2>1. /\ setup' = setup /\ log' = log /\ oldest' = oldest /\ failures' = failures /\ bindings' = bindings /\ open' = open
        /\ closed' = closed /\ sel' = sel /\ conn' = conn /\ sess' = sess /\ bid' = bid /\ UNCHANGED namesVars /\ KeepSession
    BY <1>12 DEF vars, managerVars, KeepSession
  <2>2. BaseTypes /\ SelType /\ NameTypes /\ Len(bindings) \in Nat
    BY TypeParts DEF ClientInv, BaseTypes
  <2>3. SessionInv'
    BY <2>1, <2>2, KeepsSession
  <2>4. BaseTypes' /\ SelType' /\ NameTypes'
    BY <2>1, <2>2 DEF BaseTypes, SelType, NameTypes, namesVars, Binding
  <2>5. NoLeakedTransport' /\ ConnectedFollows' /\ SelInv' /\ SessInv'
    BY <2>1 DEF KeepSession, refreshVars, ClientInv, NoLeakedTransport, ConnectedFollows, SelInv, SessInv, Ep
  <2>. QED
    BY <2>3, <2>4, <2>5, Assembled
<1>. QED
  BY <1>1, <1>2, <1>3, <1>4, <1>5, <1>6, <1>7, <1>8, <1>9, <1>10, <1>11, <1>12 DEF Next

(* The invariant of the manager client holds of every behaviour, with any  *)
(* number of managers, resources, selections and failures.                 *)
THEOREM ClientIsSound == Spec => []ClientInv
<1>1. Init => ClientInv
  BY ClientInit
<1>2. ClientInv /\ [Next]_vars => ClientInv'
  BY ClientStep
<1>. QED
  BY <1>1, <1>2, PTL DEF Spec

(* A switch separates two bindings: what ManagerSession reads, installs    *)
(* and has open is of the binding of switchEndpoint, and a fetch, answer   *)
(* or timer of an earlier one is told by its generation.                   *)
THEOREM SwitchesSeparate == Spec => []BindingsAreSeparate
<1>1. ClientInv => BindingsAreSeparate
  BY DEF ClientInv, BindingsAreSeparate
<1>. QED
  BY <1>1, ClientIsSound, PTL

(* No invalidation of the event log is lost by the refresh coordinator,    *)
(* however reads, 410s and switches overlap.                               *)
THEOREM InvalidationsAreKept == Spec => []NoLostInvalidation
<1>1. ClientInv => NoLostInvalidation
  BY DEF ClientInv, ToldInv, Following, Told, NoLostInvalidation
<1>. QED
  BY <1>1, ClientIsSound, PTL

(* ServiceMode shows a connection only while the session's follow loop     *)
(* runs.                                                                   *)
THEOREM ConnectionIsFollowed == Spec => []ConnectedFollows
<1>1. ClientInv => ConnectedFollows
  BY DEF ClientInv
<1>. QED
  BY <1>1, ClientIsSound, PTL
=============================================================================
