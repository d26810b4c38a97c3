--------------------------- MODULE LocalRunsProofs ---------------------------
(***************************************************************************)
(* Proofs about the local runs, for any number of sessions, callers and    *)
(* runs.                                                                   *)
(*                                                                         *)
(* RunsInv follows a directory from the launch that makes it to the        *)
(* session that owns its run: until then nobody else has a reason to       *)
(* remove it, and afterwards the handle of the owner stays what it is.     *)
(***************************************************************************)
EXTENDS LocalRuns, FiniteSetTheorems, FunctionTheorems, WellFoundedInduction, TLAPS

Record  == [id : Runs, parent : 0 .. Slots, state : {"running"} \cup TerminalStates]
Scan    == [pc : {"idle", "reading", "removing", "dead"}, todo : SUBSET Runs,
            records : SUBSET Record, remove : SUBSET Runs]
Command == [pc : {"none", "dialog", "approved", "checked", "writing", "prepared", "sent"},
            op : {"none"} \cup Launches \cup Controls, run : 0 .. Slots, seen : Nat, id : 0 .. Slots]

RunTypes ==
  /\ managerRoot \in BOOLEAN /\ interactive \in BOOLEAN
  /\ disk \in [Runs -> {"absent", "bare", "kept"}] /\ parent \in [Runs -> 0 .. Slots]
  /\ old \subseteq Runs /\ ended \subseteq Runs /\ behind \subseteq Runs /\ left \subseteq Runs
  /\ stalled \subseteq Sessions
  /\ live \in [Runs -> [n : Nat, state : {"running", "recovering"}]]
  /\ owner \in [Runs -> Sessions \cup {NoSession}]
  /\ created \in 0 .. Slots

ViewTypes ==
  /\ known \in [Sessions -> [Runs -> {"none", "own", "running"} \cup TerminalStates]]
  /\ scan \in [Sessions -> Scan] /\ cmd \in [Callers -> Command]

(* A restore has at most one record of a run, and settles those it has.    *)
ScanInv ==
  \A s \in Sessions :
    /\ \A r, q \in scan[s].records : r.id = q.id => r = q
    /\ scan[s].pc = "reading" => \A r \in scan[s].records : r.id \notin scan[s].todo
    /\ scan[s].pc = "removing" => scan[s].todo \subseteq {r.id : r \in scan[s].records}

(* The directories that were not made yet have left no trace.              *)
Untouched(i) ==
  /\ i \notin ended \cup behind \cup left \cup old /\ owner[i] = NoSession
  /\ \A s \in Sessions : /\ known[s][i] # "own" /\ i \notin scan[s].remove
                         /\ \A r \in scan[s].records : r.id = i => r.state = "orphaned"

FreshInv ==
  \A i \in Runs : i > created =>
    /\ disk[i] = "absent" /\ Untouched(i)
    /\ \A s \in Sessions : i \notin scan[s].todo /\ \A r \in scan[s].records : r.id # i

(* A launch under way has a directory of its own, which nobody may remove. *)
InLaunch(c) == cmd[c].pc \in {"writing", "prepared"}

LaunchInv ==
  /\ \A c \in Callers : InLaunch(c) =>
       /\ cmd[c].id \in 1 .. created /\ Untouched(cmd[c].id)
       /\ disk[cmd[c].id] = IF cmd[c].pc = "writing" THEN "bare" ELSE "kept"
  /\ \A c \in Callers : ~InLaunch(c) => cmd[c].id = 0
  /\ \A c, d \in Callers : InLaunch(c) /\ InLaunch(d) /\ cmd[c].id = cmd[d].id => c = d

(* The handle of a run that has not ended, and the controls given with it. *)
HandleInv ==
  /\ OwnerKeepsHandle
  /\ \A s \in Sessions, i \in Runs :
       known[s][i] = "own" /\ scan[s].pc # "dead" /\ i \notin ended => owner[i] = s
  /\ \A c \in Callers : cmd[c].pc \in {"dialog", "approved"} /\ cmd[c].op \in Controls =>
       cmd[c].run \in Runs /\ known[c[1]][cmd[c].run] = "own"

(* The inductive invariant.                                                *)
RunsInv == /\ RunTypes /\ ViewTypes /\ ScanInv /\ FreshInv /\ LaunchInv /\ HandleInv
           /\ NoStrayDirectory /\ LimitKept

-----------------------------------------------------------------------------
(* The retention: what Removals leaves of the records of a restore.        *)

(* A non-empty set of runs has an oldest.                                  *)
LEMMA Oldest ==
  ASSUME NEW T, T \subseteq Nat, T # {}
  PROVE  \E i \in T : \A j \in T : i <= j
<1>. DEFINE R == {ss \in Nat \X Nat : ss[1] < ss[2]}
<1>1. IsWellFoundedOn(R, Nat)
  BY NatLessThanWellFounded, Zenon DEF OpToRel
<1>2. \A i, j \in Nat : j < i => <<j, i>> \in R
  OBVIOUS
<1>. HIDE DEF R
<1>3. PICK i \in T : \A j \in T : <<j, i>> \notin R
  BY <1>1, WFMin, Zenon
<1>4. ASSUME NEW j \in T PROVE i <= j
  <2>1. i \in Nat /\ j \in Nat /\ ~(j < i)
    BY <1>2, <1>3
  <2>. QED
    BY <2>1
<1>. QED
  BY <1>4

LEMMA MinIs ==
  ASSUME NEW T, T \subseteq Nat, T # {}
  PROVE  Min(T) \in T
BY Oldest DEF Min

LEMMA RunsFinite ==
  ASSUME NEW T, T \subseteq Runs
  PROVE  IsFiniteSet(T) /\ Cardinality(T) \in Nat
<1>1. Slots \in Nat
  BY LocalRunsAssumption
<1>2. IsFiniteSet(Runs)
  BY <1>1, FS_Interval DEF Runs
<1>3. T \in SUBSET Runs
  OBVIOUS
<1>. QED
  BY <1>2, <1>3, FS_Subset, FS_CardinalityType

(* Records with different ids are counted by their ids.                    *)
LEMMA CountedByIds ==
  ASSUME NEW X, X \subseteq Record, \A r, q \in X : r.id = q.id => r = q
  PROVE  Cardinality(X) = Cardinality({r.id : r \in X})
<1>. DEFINE ids == {r.id : r \in X}
            f == [r \in X |-> r.id]
<1>1. ids \subseteq Runs
  BY DEF Record
<1>2. f \in [X -> ids] /\ \A r, q \in X : f[r] = f[q] => r = q
  OBVIOUS
<1>3. \A i \in ids : \E r \in X : f[r] = i
  OBVIOUS
<1>. HIDE DEF f
<1>4. f \in Injection(X, ids) /\ f \in Surjection(X, ids)
  BY <1>2, <1>3 DEF Injection, Surjection, IsInjective
<1>5. IsFiniteSet(ids)
  BY <1>1, RunsFinite
<1>. HIDE DEF ids
<1>6. Cardinality(X) = Cardinality(ids)
  BY <1>4, <1>5, FS_Injection
<1>. QED
  BY <1>6 DEF ids

(* The promise of the retention, for any records: LimitKept at the moment  *)
(* of the decision.                                                        *)
LEMMA RemovalsKeepLimit ==
  ASSUME NEW records, records \subseteq Record, old \subseteq Runs,
         \A r, q \in records : r.id = q.id => r = q
  PROVE  LET kept == {r \in records : r.id \notin Removals(records)}
             spare == {r \in kept : isPrunable(r, records)}
         IN  /\ Removals(records) \subseteq {r.id : r \in {x \in records : isPrunable(x, records)}}
             /\ MaxRuns > 0 => Cardinality(kept) <= MaxRuns \/ spare = {}
             /\ \A i \in Removals(records) \ old, r \in spare : i < r.id
<1>. DEFINE ids == {r.id : r \in records}
            prunable == {r.id : r \in {x \in records : isPrunable(x, records)}}
            aged == prunable \cap old
            rest == prunable \ aged
            excess == Cardinality(records) - Cardinality(aged)
            below(i) == {j \in rest : j < i}
            older(i) == Cardinality(below(i))
            counted == {i \in rest : excess - older(i) > MaxRuns}
            remove == aged \cup (IF MaxRuns = 0 THEN {} ELSE counted)
            kept == {r \in records : r.id \notin remove}
            spare == {r \in kept : isPrunable(r, records)}
<1>1. Removals(records) = remove
  BY DEF Removals
<1>2. ids \subseteq Runs /\ prunable \subseteq ids /\ rest \subseteq ids /\ aged \subseteq ids /\ MaxRuns \in Nat /\ Runs \subseteq Nat
  BY LocalRunsAssumption DEF Record, Runs
<1>3. \A r \in spare : r.id \in rest /\ r.id \notin remove
  OBVIOUS
<1>4. Cardinality(records) = Cardinality(ids) /\ Cardinality(kept) = Cardinality(ids \ remove)
  <2>1. Cardinality(records) = Cardinality(ids)
    BY CountedByIds
  <2>2. kept \subseteq Record /\ (\A r, q \in kept : r.id = q.id => r = q)
    OBVIOUS
  <2>3. {r.id : r \in kept} = ids \ remove
    OBVIOUS
  <2>. HIDE DEF kept
  <2>4. Cardinality(kept) = Cardinality({r.id : r \in kept})
    BY <2>2, CountedByIds
  <2>. QED
    BY <2>1, <2>3, <2>4
<1>. HIDE DEF prunable, ids, kept
<1>5. \A T : T \subseteq ids => IsFiniteSet(T) /\ Cardinality(T) \in Nat
  BY <1>2, RunsFinite
<1>6. \A T, U : T \subseteq U /\ U \subseteq ids => Cardinality(T) <= Cardinality(U)
  <2>. TAKE T, U
  <2>. HAVE T \subseteq U /\ U \subseteq ids
  <2>1. IsFiniteSet(U) /\ T \in SUBSET U
    BY <1>5
  <2>. QED
    BY <2>1, FS_Subset
<1>7. \A i : below(i) \subseteq ids /\ older(i) \in Nat
  BY <1>2, <1>5
<1>8. MaxRuns > 0 /\ spare # {} => Cardinality(kept) <= MaxRuns
  <2>. SUFFICES ASSUME MaxRuns > 0, spare # {} PROVE Cardinality(kept) <= MaxRuns
    OBVIOUS
  <2>. DEFINE T == rest \ remove
  <2>1. T # {} /\ T \subseteq Nat
    BY <1>2, <1>3
  <2>2. PICK i \in T : \A j \in T : i <= j
    <3>. HIDE DEF T
    <3>. QED BY <2>1, Oldest
  <2>3. ASSUME NEW j \in below(i) PROVE j \in remove
    <3>1. j \in rest /\ j \in Nat /\ i \in Nat /\ ~(i <= j)
      BY <1>2, <2>2
    <3>. HIDE DEF rest, remove
    <3>. QED
      BY <2>2, <3>1
  <2>4. excess - older(i) <= MaxRuns
    <3>1. excess \in Int
      <4>1. Cardinality(records) \in Nat /\ Cardinality(aged) \in Nat
        BY <1>2, <1>4, <1>5
      <4>. QED
        BY <4>1
    <3>2. ~(excess - older(i) > MaxRuns)
      BY <2>2
    <3>. HIDE DEF excess, older
    <3>. QED
      BY <1>2, <1>7, <3>1, <3>2
  <2>5. aged \cap below(i) = {}
    OBVIOUS
  <2>. DEFINE gone == aged \cup below(i)
  <2>6. ids \ remove \subseteq ids \ gone /\ ids \ gone \subseteq ids /\ gone \subseteq ids
    BY <1>2, <1>7, <2>3
  <2>7. Cardinality(gone) = Cardinality(aged) + older(i)
    <3>1. Cardinality(gone) = Cardinality(aged) + older(i) - Cardinality(aged \cap below(i))
      BY <1>2, <1>5, <1>7, FS_Union
    <3>. QED
      BY <1>2, <1>5, <1>7, <2>5, <3>1, FS_EmptySet
  <2>8. Cardinality(ids) = Cardinality(ids \ gone) + Cardinality(gone)
    <3>. HIDE DEF gone
    <3>1. (ids \ gone) \cup gone = ids /\ (ids \ gone) \cap gone = {}
      BY <2>6
    <3>2. IsFiniteSet(ids \ gone) /\ IsFiniteSet(gone) /\ Cardinality(ids \ gone) \in Nat /\ Cardinality(gone) \in Nat
      BY <1>5, <2>6
    <3>3. Cardinality((ids \ gone) \cup gone) = Cardinality(ids \ gone) + Cardinality(gone) - Cardinality((ids \ gone) \cap gone)
      BY <3>2, FS_Union
    <3>4. Cardinality(ids) = Cardinality(ids \ gone) + Cardinality(gone) - 0
      BY <3>1, <3>3, FS_EmptySet
    <3>. QED
      BY <3>2, <3>4
  <2>9. Cardinality(ids \ remove) <= Cardinality(ids \ gone)
    BY <1>6, <2>6
  <2>10. /\ Cardinality(ids \ gone) \in Nat /\ Cardinality(aged) \in Nat /\ Cardinality(ids \ remove) \in Nat
         /\ Cardinality(ids) \in Nat
    BY <1>2, <1>5, <2>6
  <2>11. excess = Cardinality(ids) - Cardinality(aged)
    BY <1>4
  <2>. HIDE DEF gone, older, aged, remove, excess
  <2>. QED
    BY <1>2, <1>4, <1>7, <2>4, <2>7, <2>8, <2>9, <2>10, <2>11
<1>9. ASSUME NEW i \in remove \ old, NEW r \in spare PROVE i < r.id
  <2>1. MaxRuns # 0 /\ i \in rest /\ excess - older(i) > MaxRuns
    OBVIOUS
  <2>2. r.id \in rest /\ ~(excess - older(r.id) > MaxRuns)
    BY <1>3, <2>1
  <2>3. excess \in Int
    <3>1. Cardinality(records) \in Nat /\ Cardinality(aged) \in Nat
      BY <1>2, <1>4, <1>5
    <3>. QED
      BY <3>1
  <2>4. older(i) < older(r.id)
    <3>. HIDE DEF excess, older
    <3>. QED BY <1>2, <1>7, <2>1, <2>2, <2>3
  <2>5. i \in Nat /\ r.id \in Nat
    BY <1>2, <2>1, <2>2
  <2>6. ASSUME r.id <= i PROVE below(r.id) \subseteq below(i)
    <3>. SUFFICES ASSUME NEW j \in below(r.id) PROVE j < i
      OBVIOUS
    <3>1. j \in Nat /\ j < r.id
      BY <1>2
    <3>. QED
      BY <2>5, <2>6, <3>1
  <2>7. r.id <= i => older(r.id) <= older(i)
    BY <1>6, <1>7, <2>6
  <2>. HIDE DEF older
  <2>. QED
    BY <1>7, <2>4, <2>5, <2>7
<1>10. remove \subseteq prunable
  OBVIOUS
<1>. QED
  BY <1>1, <1>8, <1>9, <1>10 DEF kept, prunable

-----------------------------------------------------------------------------
(* What the steps of a restore do to its record and to the directories.    *)

LEMMA StartStep ==
  ASSUME RunTypes, ViewTypes, NEW s \in Sessions, SessionStart(s)
  PROVE  \/ scan' = scan
         \/ /\ scan' \in [Sessions -> Scan] /\ \A t \in Sessions \ {s} : scan'[t] = scan[t]
            /\ scan'[s].pc = "reading" /\ scan'[s].todo = {i \in Runs : disk[i] # "absent"}
            /\ scan'[s].records = {} /\ scan'[s].remove = {} /\ scan[s].pc # "dead"
<1>. DEFINE x == [pc |-> "reading", todo |-> {i \in Runs : disk[i] # "absent"}, records |-> {}, remove |-> {}]
<1>1. x \in Scan /\ x.pc = "reading" /\ x.todo = {i \in Runs : disk[i] # "absent"} /\ x.records = {} /\ x.remove = {}
  BY DEF Scan
<1>2. scan' = scan \/ scan' = [scan EXCEPT ![s] = x]
  BY DEF SessionStart, Rest
<1>3. scan[s].pc # "dead"
  BY DEF SessionStart
<1>. HIDE DEF x
<1>. QED
  BY <1>1, <1>2, <1>3 DEF ViewTypes

LEMMA ReadStep ==
  ASSUME RunTypes, ViewTypes, NEW s \in Sessions, Read(s)
  PROVE  \E i \in scan[s].todo :
           /\ scan' \in [Sessions -> Scan] /\ \A t \in Sessions \ {s} : scan'[t] = scan[t]
           /\ scan[s].pc = "reading" /\ scan'[s].pc = "reading" /\ scan'[s].todo = scan[s].todo \ {i}
           /\ scan'[s].records = IF disk[i] # "kept" THEN scan[s].records
                ELSE scan[s].records \cup {[id |-> i, parent |-> parent[i], state |-> restoreSnapshot(i)]}
           /\ scan'[s].remove = scan[s].remove
           /\ i \in Runs /\ disk \in [Runs -> {"absent", "bare", "kept"}]
           /\ disk' = IF disk[i] = "bare" /\ i \in old THEN [disk EXCEPT ![i] = "absent"] ELSE disk
<1>1. PICK i \in scan[s].todo :
        /\ scan' = [scan EXCEPT ![s].todo = @ \ {i},
             ![s].records = IF disk[i] # "kept" THEN @
               ELSE @ \cup {[id |-> i, parent |-> parent[i], state |-> restoreSnapshot(i)]}]
        /\ disk' = IF disk[i] = "bare" /\ i \in old THEN [disk EXCEPT ![i] = "absent"] ELSE disk
  BY DEF Read
<1>. DEFINE r == [id |-> i, parent |-> parent[i], state |-> restoreSnapshot(i)]
            records == IF disk[i] # "kept" THEN scan[s].records ELSE scan[s].records \cup {r}
            todo == scan[s].todo \ {i}
            y == [scan[s] EXCEPT !.todo = todo]
            x == [y EXCEPT !.records = records]
<1>2. scan \in [Sessions -> Scan] /\ scan[s] \in Scan /\ i \in Runs /\ scan[s].todo \subseteq Runs
        /\ scan[s].records \subseteq Record /\ disk \in [Runs -> {"absent", "bare", "kept"}]
  BY <1>1 DEF RunTypes, ViewTypes, Scan
<1>3. r \in Record
  <2>1. parent[i] \in 0 .. Slots /\ restoreSnapshot(i) \in {"running"} \cup TerminalStates
    BY <1>2 DEF RunTypes, restoreSnapshot, TerminalStates
  <2>. QED
    BY <1>2, <2>1 DEF Record
<1>. HIDE DEF r
<1>4. records \subseteq Record /\ todo \subseteq Runs
  BY <1>2, <1>3
<1>5. scan' = [scan EXCEPT ![s] = x]
  <2>1. scan' = [scan EXCEPT ![s].todo = @ \ {i}, ![s].records = records]
    BY <1>1 DEF r
  <2>. HIDE DEF records
  <2>2. scan' = [scan EXCEPT ![s] = [scan[s] EXCEPT !.todo = todo, !.records = records]]
    BY <2>1
  <2>. QED
    BY <2>2
<1>. HIDE DEF records, todo
<1>6. x \in Scan /\ x.pc = scan[s].pc /\ x.todo = todo /\ x.records = records /\ x.remove = scan[s].remove
  <2>1. /\ y \in Scan /\ y.pc = scan[s].pc /\ y.todo = todo /\ y.records = scan[s].records
        /\ y.remove = scan[s].remove
    BY <1>2, <1>4 DEF Scan
  <2>. HIDE DEF y
  <2>. QED
    BY <1>2, <1>4, <2>1 DEF Scan
<1>7. scan[s].pc = "reading"
  BY DEF Read
<1>. HIDE DEF x
<1>8. /\ scan' \in [Sessions -> Scan] /\ \A t \in Sessions \ {s} : scan'[t] = scan[t]
      /\ scan'[s].pc = "reading" /\ scan'[s].todo = todo /\ scan'[s].records = records
      /\ scan'[s].remove = scan[s].remove
  BY <1>2, <1>5, <1>6, <1>7
<1>. QED
  BY <1>1, <1>2, <1>7, <1>8 DEF todo, records, r

LEMMA DecideStep ==
  ASSUME RunTypes, ViewTypes, NEW s \in Sessions, Decide(s),
         \A r, q \in scan[s].records : r.id = q.id => r = q
  PROVE  /\ scan' \in [Sessions -> Scan] /\ \A t \in Sessions \ {s} : scan'[t] = scan[t]
         /\ scan[s].pc = "reading" /\ scan'[s].pc = "removing" /\ scan'[s].records = scan[s].records
         /\ scan'[s].todo = {r.id : r \in scan[s].records} /\ scan'[s].remove = Removals(scan[s].records)
         /\ scan'[s].remove \subseteq {r.id : r \in {x \in scan[s].records : isPrunable(x, scan[s].records)}}
<1>. DEFINE records == scan[s].records
            ids == {r.id : r \in records}
            remove == Removals(records)
            y == [scan[s] EXCEPT !.pc = "removing"]
            z == [y EXCEPT !.todo = ids]
            x == [z EXCEPT !.remove = remove]
<1>1. scan \in [Sessions -> Scan] /\ scan[s] \in Scan /\ records \subseteq Record /\ ids \subseteq Runs /\ old \subseteq Runs
  BY DEF RunTypes, ViewTypes, Scan, Record
<1>2. remove \subseteq {r.id : r \in {q \in records : isPrunable(q, records)}}
  <2>. HIDE DEF records
  <2>. QED BY <1>1, RemovalsKeepLimit DEF records
<1>3. remove \subseteq Runs
  BY <1>1, <1>2 DEF Record
<1>4. scan' = [scan EXCEPT ![s].pc = "removing", ![s].todo = ids, ![s].remove = remove] /\ scan[s].pc = "reading"
  BY DEF Decide
<1>. HIDE DEF remove, ids
<1>5. scan' = [scan EXCEPT ![s] = x]
  <2>1. scan' = [scan EXCEPT ![s] = [scan[s] EXCEPT !.pc = "removing", !.todo = ids, !.remove = remove]]
    BY <1>4
  <2>. QED
    BY <2>1
<1>6. x \in Scan /\ x.pc = "removing" /\ x.todo = ids /\ x.records = records /\ x.remove = remove
  <2>1. y \in Scan /\ y.pc = "removing" /\ y.records = records
    BY <1>1 DEF Scan
  <2>. HIDE DEF y
  <2>2. ids \in SUBSET Runs /\ remove \in SUBSET Runs
    BY <1>1, <1>3
  <2>3. z \in Scan /\ z.pc = "removing" /\ z.records = records /\ z.todo = ids
    BY <2>1, <2>2 DEF Scan
  <2>. HIDE DEF z
  <2>. QED
    BY <2>2, <2>3 DEF Scan
<1>. HIDE DEF x
<1>7. /\ scan' \in [Sessions -> Scan] /\ \A t \in Sessions \ {s} : scan'[t] = scan[t]
      /\ scan'[s].pc = "removing" /\ scan'[s].todo = ids /\ scan'[s].records = records /\ scan'[s].remove = remove
  BY <1>1, <1>5, <1>6
<1>. QED
  BY <1>2, <1>4, <1>7 DEF ids, remove

LEMMA SettleStep ==
  ASSUME RunTypes, ViewTypes, ScanInv, NEW s \in Sessions, Settle(s)
  PROVE  \E i \in scan[s].todo :
           /\ scan' \in [Sessions -> Scan] /\ \A t \in Sessions \ {s} : scan'[t] = scan[t]
           /\ scan[s].pc = "removing" /\ scan'[s].pc = "removing" /\ scan'[s].todo = scan[s].todo \ {i}
           /\ scan'[s].records = scan[s].records /\ scan'[s].remove = scan[s].remove
           /\ i \in Runs
           /\ \/ i \in scan[s].remove /\ disk' = [disk EXCEPT ![i] = "absent"] /\ known' = known
              \/ disk' = disk /\ known' = known
              \/ /\ disk' = disk /\ known[s][i] = "none"
                 /\ \E state \in {"running"} \cup TerminalStates : known' = [known EXCEPT ![s][i] = state]
<1>. DEFINE i == Min(scan[s].todo)
            r == CHOOSE x \in scan[s].records : x.id = i
            todo == scan[s].todo \ {i}
            x == [scan[s] EXCEPT !.todo = todo]
<1>1. /\ scan[s].pc = "removing" /\ scan[s].todo # {} /\ scan' = [scan EXCEPT ![s].todo = @ \ {i}]
      /\ \/ i \in scan[s].remove /\ disk' = [disk EXCEPT ![i] = "absent"] /\ known' = known
         \/ disk' = disk /\ known' = known
         \/ disk' = disk /\ known[s][i] = "none" /\ known' = [known EXCEPT ![s][i] = r.state]
  BY DEF Settle
<1>2. /\ scan \in [Sessions -> Scan] /\ scan[s] \in Scan /\ scan[s].todo \subseteq Runs /\ Runs \subseteq Nat
      /\ scan[s].records \subseteq Record /\ scan[s].todo \subseteq {q.id : q \in scan[s].records}
  BY <1>1 DEF ViewTypes, Scan, ScanInv, Runs
<1>3. i \in scan[s].todo
  <2>1. scan[s].todo \subseteq Nat /\ scan[s].todo # {}
    BY <1>1, <1>2
  <2>. QED BY <2>1, MinIs
<1>. HIDE DEF i
<1>4. \E q \in scan[s].records : q.id = i
  BY <1>2, <1>3
<1>5. r \in scan[s].records
  BY <1>4
<1>6. r.state \in {"running"} \cup TerminalStates
  <2>. HIDE DEF r
  <2>. QED BY <1>2, <1>5 DEF Record
<1>. HIDE DEF r
<1>7. todo \subseteq Runs
  BY <1>2
<1>8. scan' = [scan EXCEPT ![s] = x]
  <2>1. scan' = [scan EXCEPT ![s] = [scan[s] EXCEPT !.todo = todo]]
    BY <1>1
  <2>. QED
    BY <2>1
<1>. HIDE DEF todo
<1>9. x \in Scan /\ x.pc = "removing" /\ x.todo = todo /\ x.records = scan[s].records /\ x.remove = scan[s].remove
  BY <1>1, <1>2, <1>7 DEF Scan
<1>. HIDE DEF x
<1>10. /\ scan' \in [Sessions -> Scan] /\ \A t \in Sessions \ {s} : scan'[t] = scan[t]
       /\ scan'[s].pc = "removing" /\ scan'[s].todo = todo /\ scan'[s].records = scan[s].records
       /\ scan'[s].remove = scan[s].remove
  BY <1>2, <1>8, <1>9
<1>11. i \in Runs
  BY <1>2, <1>3
<1>. QED
  BY <1>1, <1>3, <1>6, <1>10, <1>11 DEF todo

(* A session that has restored, or is gone.                                *)
LEMMA RestStep ==
  ASSUME ViewTypes, NEW s \in Sessions, NEW pc \in {"idle", "dead"},
         scan' = [scan EXCEPT ![s] = [Rest EXCEPT !.pc = pc]]
  PROVE  /\ scan' \in [Sessions -> Scan] /\ \A t \in Sessions \ {s} : scan'[t] = scan[t]
         /\ scan'[s].pc = pc /\ scan'[s].todo = {} /\ scan'[s].records = {} /\ scan'[s].remove = {}
<1>. DEFINE x == [Rest EXCEPT !.pc = pc]
<1>1. x \in Scan /\ x.pc = pc /\ x.todo = {} /\ x.records = {} /\ x.remove = {}
  BY DEF Rest, Scan
<1>2. scan' = [scan EXCEPT ![s] = x]
  OBVIOUS
<1>. HIDE DEF x
<1>. QED
  BY <1>1, <1>2 DEF ViewTypes

LEMMA RestoredStep ==
  ASSUME ViewTypes, NEW s \in Sessions, Restored(s)
  PROVE  scan' = [scan EXCEPT ![s] = [Rest EXCEPT !.pc = "idle"]] /\ scan[s].pc # "dead"
BY DEF Restored, Rest

-----------------------------------------------------------------------------
(* What the steps of a command do to it.                                   *)

LEMMA CallersAre ==
  ASSUME NEW c \in Callers
  PROVE  c[1] \in Sessions
BY LocalRunsAssumption

LEMMA IdleStep ==
  ASSUME ViewTypes, NEW c \in Callers, Idle(c)
  PROVE  /\ cmd' \in [Callers -> Command] /\ \A d \in Callers \ {c} : cmd'[d] = cmd[d]
         /\ cmd'[c].pc = "none" /\ cmd'[c].id = 0
<1>1. NoCommand \in Command /\ NoCommand.pc = "none" /\ NoCommand.id = 0
  BY LocalRunsAssumption DEF NoCommand, Command
<1>. QED
  BY <1>1 DEF Idle, ViewTypes

LEMMA MoveStep ==
  ASSUME ViewTypes, NEW c \in Callers, NEW pc \in {"approved", "checked", "prepared", "sent"}, Move(c, pc)
  PROVE  /\ cmd' \in [Callers -> Command] /\ \A d \in Callers \ {c} : cmd'[d] = cmd[d]
         /\ cmd'[c].pc = pc /\ cmd'[c].op = cmd[c].op /\ cmd'[c].run = cmd[c].run /\ cmd'[c].id = cmd[c].id
<1>. DEFINE x == [cmd[c] EXCEPT !.pc = pc]
<1>1. cmd \in [Callers -> Command] /\ cmd[c] \in Command
  BY DEF ViewTypes
<1>2. x \in Command /\ x.pc = pc /\ x.op = cmd[c].op /\ x.run = cmd[c].run /\ x.id = cmd[c].id
  BY <1>1 DEF Command
<1>3. cmd' = [cmd EXCEPT ![c] = x]
  BY DEF Move
<1>. HIDE DEF x
<1>. QED
  BY <1>1, <1>2, <1>3

LEMMA BeginsStep ==
  ASSUME RunTypes, ViewTypes, NEW c \in Callers, NEW op \in Launches \cup Controls, NEW i \in 0 .. Slots,
         NEW pc \in {"dialog", "approved"}, Begins(c, op, i, pc)
  PROVE  /\ cmd' \in [Callers -> Command] /\ \A d \in Callers \ {c} : cmd'[d] = cmd[d]
         /\ cmd'[c].pc = pc /\ cmd'[c].op = op /\ cmd'[c].run = i /\ cmd'[c].id = 0
<1>. DEFINE seen == IF i = 0 THEN 0 ELSE live[i].n
            x == [NoCommand EXCEPT !.op = op, !.run = i, !.pc = pc, !.seen = seen]
<1>1. seen \in Nat
  <2>1. i = 0 \/ i \in Runs
    BY LocalRunsAssumption DEF Runs
  <2>. QED
    BY <2>1 DEF RunTypes
<1>2. cmd' = [cmd EXCEPT ![c] = x]
  BY DEF Begins, Given
<1>. HIDE DEF seen
<1>3. x \in Command /\ x.pc = pc /\ x.op = op /\ x.run = i /\ x.id = 0
  <2>. DEFINE a == [NoCommand EXCEPT !.op = op]
              b == [a EXCEPT !.run = i]
              d == [b EXCEPT !.pc = pc]
  <2>1. a \in Command /\ a.op = op /\ a.id = 0
    BY LocalRunsAssumption DEF Command, NoCommand
  <2>. HIDE DEF a
  <2>2. b \in Command /\ b.op = op /\ b.id = 0 /\ b.run = i
    BY <2>1 DEF Command
  <2>. HIDE DEF b
  <2>3. d \in Command /\ d.op = op /\ d.id = 0 /\ d.run = i /\ d.pc = pc
    BY <2>2 DEF Command
  <2>4. x = [d EXCEPT !.seen = seen]
    BY DEF a, b, d
  <2>. HIDE DEF d, x
  <2>. QED
    BY <1>1, <2>3, <2>4 DEF Command
<1>. HIDE DEF x
<1>. QED
  BY <1>2, <1>3 DEF ViewTypes

(* The choice of a command: a control is given with the handle of its run. *)
LEMMA BeginStep ==
  ASSUME RunTypes, ViewTypes, NEW c \in Callers, Begin(c)
  PROVE  /\ cmd' \in [Callers -> Command] /\ \A d \in Callers \ {c} : cmd'[d] = cmd[d]
         /\ cmd[c].pc = "none" /\ cmd'[c].pc \in {"dialog", "approved"} /\ cmd'[c].id = 0
         /\ cmd'[c].op \in Controls => cmd'[c].run \in Runs /\ known[c[1]][cmd'[c].run] = "own"
<1>1. /\ cmd[c].pc = "none"
      /\ \/ Begins(c, "start", 0, "dialog")
         \/ \E i \in Runs : Begins(c, "lineage", i, "dialog")
         \/ \E i \in Runs : /\ known[c[1]][i] = "own"
                            /\ \E op \in Controls, pc \in {"dialog", "approved"} : Begins(c, op, i, pc)
  <2>1. cmd[c].pc = "none"
    BY DEF Begin, Ready
  <2>2. CASE BeginWf(c) \/ BeginLaunch(c) \/ BeginStart(c) \/ BeginLineage(c)
    BY <2>1, <2>2 DEF BeginWf, BeginLaunch, BeginStart, BeginLineage
  <2>3. ASSUME NEW i \in Runs, known[c[1]][i] = "own",
               BeginSteer(c, i) \/ BeginRecover(c, i) \/ BeginRedirect(c, i) \/ BeginCancel(c, i) \/ BeginToolControl(c, i)
        PROVE  \E op \in Controls, pc \in {"dialog", "approved"} : Begins(c, op, i, pc)
    BY <2>3 DEF BeginSteer, BeginRecover, BeginRedirect, BeginCancel, BeginToolControl, Controls
  <2>. QED
    BY <2>1, <2>2, <2>3 DEF Begin
<1>2. Runs \subseteq 0 .. Slots /\ 0 \in 0 .. Slots
  BY LocalRunsAssumption DEF Runs
<1>3. CASE Begins(c, "start", 0, "dialog")
  BY <1>1, <1>2, <1>3, BeginsStep DEF Launches, Controls
<1>4. ASSUME NEW i \in Runs, Begins(c, "lineage", i, "dialog")
      PROVE  /\ cmd' \in [Callers -> Command] /\ \A d \in Callers \ {c} : cmd'[d] = cmd[d]
             /\ cmd'[c].pc = "dialog" /\ cmd'[c].op = "lineage" /\ cmd'[c].id = 0
  BY <1>2, <1>4, BeginsStep DEF Launches
<1>5. ASSUME NEW i \in Runs, known[c[1]][i] = "own", NEW op \in Controls, NEW pc \in {"dialog", "approved"}, Begins(c, op, i, pc)
      PROVE  /\ cmd' \in [Callers -> Command] /\ \A d \in Callers \ {c} : cmd'[d] = cmd[d]
             /\ cmd'[c].pc = pc /\ cmd'[c].op = op /\ cmd'[c].run = i /\ cmd'[c].id = 0
  BY <1>2, <1>5, BeginsStep
<1>. QED
  BY <1>1, <1>3, <1>4, <1>5 DEF Controls

LEMMA CreateStep ==
  ASSUME RunTypes, ViewTypes, NEW c \in Callers, Create(c)
  PROVE  \/ Idle(c) /\ disk' = disk /\ created' = created
         \/ /\ cmd' \in [Callers -> Command] /\ \A d \in Callers \ {c} : cmd'[d] = cmd[d]
            /\ cmd'[c].pc = "writing" /\ cmd'[c].op \in Launches /\ cmd'[c].id = created + 1
            /\ created + 1 \in Runs /\ created' = created + 1
            /\ disk' = [disk EXCEPT ![created + 1] = "bare"]
<1>. DEFINE y == [cmd[c] EXCEPT !.pc = "writing"]
            x == [y EXCEPT !.id = created + 1]
<1>1. cmd \in [Callers -> Command] /\ cmd[c] \in Command
  BY DEF ViewTypes
<1>2. CASE Idle(c) /\ UNCHANGED <<disk, created>>
  BY <1>2
<1>3. CASE ~(Idle(c) /\ UNCHANGED <<disk, created>>)
  <2>1. /\ created < Slots /\ created' = created + 1 /\ disk' = [disk EXCEPT ![created + 1] = "bare"]
        /\ cmd' = [cmd EXCEPT ![c].pc = "writing", ![c].id = created + 1] /\ cmd[c].op \in Launches
    BY <1>3 DEF Create
  <2>2. created + 1 \in 0 .. Slots /\ created + 1 \in Runs
    BY <2>1, LocalRunsAssumption DEF RunTypes, Runs
  <2>3. y \in Command /\ y.pc = "writing" /\ y.op = cmd[c].op
    BY <1>1 DEF Command
  <2>4. cmd' = [cmd EXCEPT ![c] = x]
    BY <2>1
  <2>. HIDE DEF y
  <2>5. x \in Command /\ x.pc = "writing" /\ x.op = cmd[c].op /\ x.id = created + 1
    BY <2>2, <2>3 DEF Command
  <2>. HIDE DEF x
  <2>. QED
    BY <1>1, <2>1, <2>2, <2>4, <2>5
<1>. QED
  BY <1>2, <1>3

(* The commands of a session that ends.                                    *)
LEMMA EndStep ==
  ASSUME ViewTypes, NEW s \in Sessions, cmd' = [c \in Callers |-> IF c[1] = s THEN NoCommand ELSE cmd[c]]
  PROVE  /\ cmd' \in [Callers -> Command]
         /\ \A c \in Callers : IF c[1] = s THEN cmd'[c].pc = "none" /\ cmd'[c].id = 0 ELSE cmd'[c] = cmd[c]
<1>1. NoCommand \in Command /\ NoCommand.pc = "none" /\ NoCommand.id = 0
  BY LocalRunsAssumption DEF NoCommand, Command
<1>. QED
  BY <1>1 DEF ViewTypes

-----------------------------------------------------------------------------
(* The invariant, step by step.                                            *)

(* Nobody is not a session, so only a run with an owner moves.             *)
LEMMA RuntimeStep ==
  ASSUME RunsInv, NEW i \in Runs, RuntimeMoves(i) \/ RunEnds(i) \/ Age(i)
  PROVE  RunsInv'
<1>0. NoSession \notin Sessions
  BY LocalRunsAssumption
<1>1. /\ scan' = scan /\ cmd' = cmd /\ disk' = disk /\ known' = known /\ created' = created /\ left' = left
      /\ parent' = parent /\ stalled' = stalled /\ managerRoot' = managerRoot /\ interactive' = interactive
      /\ \/ /\ owner[i] # NoSession /\ ended' = ended /\ owner' = owner /\ old' = old
            /\ behind' \subseteq behind \cup {i}
            /\ \E state \in {"running", "recovering"} : live' = [live EXCEPT ![i] = [n |-> @.n + 1, state |-> state]]
         \/ /\ owner[i] # NoSession /\ ended' = ended \cup {i} /\ owner' = [owner EXCEPT ![i] = NoSession]
            /\ old' = old /\ live' = live /\ behind' = behind
         \/ i \in left /\ old' = old \cup {i} /\ ended' = ended /\ owner' = owner /\ live' = live /\ behind' = behind
  BY <1>0 DEF RuntimeMoves, RunEnds, Age, diskVars, runVars
<1>2. RunTypes'
  BY <1>1 DEF RunsInv, RunTypes
<1>3. ViewTypes'
  BY <1>1 DEF RunsInv, ViewTypes
<1>4. ScanInv'
  BY <1>1 DEF RunsInv, ScanInv
<1>5. \A j \in Runs : Untouched(j) => Untouched(j)'
  BY <1>1 DEF RunsInv, RunTypes, Untouched
<1>6. FreshInv'
  BY <1>1, <1>5 DEF RunsInv, FreshInv
<1>7. LaunchInv'
  BY <1>1, <1>5 DEF RunsInv, LaunchInv, InLaunch, RunTypes, ViewTypes, Command, Runs
<1>8. HandleInv'
  BY <1>0, <1>1 DEF RunsInv, HandleInv, OwnerKeepsHandle, RunTypes
<1>9. NoStrayDirectory'
  BY <1>1 DEF RunsInv, NoStrayDirectory
<1>10. LimitKept'
  <2>1. old \subseteq old'
    BY <1>1
  <2>. QED BY <1>1, <2>1 DEF RunsInv, LimitKept, isPrunable, protectedParents
<1>. QED
  BY <1>2, <1>3, <1>4, <1>6, <1>7, <1>8, <1>9, <1>10 DEF RunsInv

LEMMA StallStep ==
  ASSUME RunsInv, NEW s \in Sessions, Stall(s) \/ Wake(s)
  PROVE  RunsInv'
<1>1. /\ scan' = scan /\ cmd' = cmd /\ disk' = disk /\ known' = known /\ created' = created /\ left' = left
      /\ parent' = parent /\ managerRoot' = managerRoot /\ interactive' = interactive
      /\ stalled' \subseteq stalled \cup {s} /\ behind' \subseteq behind
      /\ ended' = ended /\ owner' = owner /\ live' = live /\ old' = old
  BY DEF Stall, Wake, diskVars
<1>2. RunTypes'
  BY <1>1 DEF RunsInv, RunTypes
<1>3. ViewTypes'
  BY <1>1 DEF RunsInv, ViewTypes
<1>4. ScanInv' /\ NoStrayDirectory' /\ LimitKept'
  BY <1>1 DEF RunsInv, ScanInv, NoStrayDirectory, LimitKept, isPrunable, protectedParents
<1>5. \A j \in Runs : Untouched(j) => Untouched(j)'
  BY <1>1 DEF RunsInv, RunTypes, Untouched
<1>6. FreshInv'
  BY <1>1, <1>5 DEF RunsInv, FreshInv
<1>7. LaunchInv'
  BY <1>1, <1>5 DEF RunsInv, LaunchInv, InLaunch, RunTypes, ViewTypes, Command, Runs
<1>8. HandleInv'
  BY <1>1 DEF RunsInv, HandleInv, OwnerKeepsHandle
<1>. QED
  BY <1>2, <1>3, <1>4, <1>6, <1>7, <1>8 DEF RunsInv

(* A restore changes no run it does not remove, and the runs of a launch   *)
(* are not among them.                                                     *)
LEMMA QuietStep ==
  ASSUME RunsInv, NEW s \in Sessions, SessionStart(s) \/ Restored(s)
  PROVE  RunsInv'
<1>1. /\ cmd' = cmd /\ disk' = disk /\ known' = known /\ created' = created /\ left' = left /\ parent' = parent
      /\ managerRoot' = managerRoot /\ interactive' = interactive /\ stalled' = stalled /\ behind' = behind
      /\ ended' = ended /\ owner' = owner /\ live' = live /\ old' = old
  BY DEF SessionStart, Restored, diskVars, runVars
<1>2. \/ scan' = scan
      \/ /\ scan' \in [Sessions -> Scan] /\ \A t \in Sessions \ {s} : scan'[t] = scan[t]
         /\ scan'[s].pc \in {"reading", "idle"} /\ scan'[s].todo \subseteq {i \in Runs : disk[i] # "absent"}
         /\ scan'[s].records = {} /\ scan'[s].remove = {} /\ scan[s].pc # "dead"
  BY StartStep, RestoredStep, RestStep DEF RunsInv
<1>3. RunTypes' /\ ViewTypes'
  BY <1>1, <1>2 DEF RunsInv, RunTypes, ViewTypes
<1>4. ScanInv'
  BY <1>2 DEF RunsInv, ScanInv
<1>5. \A j \in Runs : Untouched(j) => Untouched(j)'
  BY <1>1, <1>2 DEF RunsInv, RunTypes, Untouched
<1>6. FreshInv'
  BY <1>1, <1>2, <1>5 DEF RunsInv, FreshInv
<1>7. LaunchInv'
  BY <1>1, <1>5 DEF RunsInv, LaunchInv, InLaunch, RunTypes, ViewTypes, Command, Runs
<1>8. HandleInv'
  BY <1>1, <1>2 DEF RunsInv, HandleInv, OwnerKeepsHandle
<1>9. NoStrayDirectory'
  BY <1>1 DEF RunsInv, NoStrayDirectory
<1>10. LimitKept'
  BY <1>1, <1>2 DEF RunsInv, LimitKept, isPrunable, protectedParents
<1>. QED
  BY <1>3, <1>4, <1>6, <1>7, <1>8, <1>9, <1>10 DEF RunsInv

LEMMA ReadingStep ==
  ASSUME RunsInv, NEW s \in Sessions, Read(s)
  PROVE  RunsInv'
<1>0. RunTypes /\ ViewTypes /\ NoSession \notin Sessions
  BY LocalRunsAssumption DEF RunsInv
<1>1. /\ cmd' = cmd /\ known' = known /\ created' = created /\ left' = left /\ parent' = parent
      /\ managerRoot' = managerRoot /\ interactive' = interactive /\ stalled' = stalled /\ behind' = behind
      /\ ended' = ended /\ owner' = owner /\ live' = live /\ old' = old
  BY DEF Read, runVars
<1>2. PICK i \in scan[s].todo :
        /\ scan' \in [Sessions -> Scan] /\ \A t \in Sessions \ {s} : scan'[t] = scan[t]
        /\ scan[s].pc = "reading" /\ scan'[s].pc = "reading" /\ scan'[s].todo = scan[s].todo \ {i}
        /\ scan'[s].records = IF disk[i] # "kept" THEN scan[s].records
             ELSE scan[s].records \cup {[id |-> i, parent |-> parent[i], state |-> restoreSnapshot(i)]}
        /\ scan'[s].remove = scan[s].remove
        /\ i \in Runs /\ disk \in [Runs -> {"absent", "bare", "kept"}]
        /\ disk' = IF disk[i] = "bare" /\ i \in old THEN [disk EXCEPT ![i] = "absent"] ELSE disk
  BY <1>0, ReadStep
<1>3. \A r \in scan'[s].records : r \in scan[s].records \/ (r.id = i /\ r.state = restoreSnapshot(i))
  BY <1>2
<1>4. RunTypes' /\ ViewTypes'
  BY <1>0, <1>1, <1>2 DEF RunTypes, ViewTypes
<1>5. ScanInv'
  <2>1. \A r, q \in scan'[s].records : r.id = q.id => r = q
    BY <1>2 DEF RunsInv, ScanInv
  <2>2. \A r \in scan'[s].records : r.id \notin scan'[s].todo
    BY <1>2, <1>3 DEF RunsInv, ScanInv
  <2>. QED
    BY <1>2, <2>1, <2>2 DEF RunsInv, ScanInv
<1>6. Untouched(i) => restoreSnapshot(i) = "orphaned"
  BY <1>0 DEF Untouched, restoreSnapshot
<1>7. \A j \in Runs : Untouched(j) => Untouched(j)'
  BY <1>1, <1>2, <1>3, <1>6 DEF Untouched
<1>8. \A j \in Runs : disk'[j] = disk[j] \/ (j \in old /\ disk[j] = "bare" /\ disk'[j] = "absent")
  BY <1>2
<1>9. FreshInv'
  <2>. SUFFICES ASSUME NEW j \in Runs, j > created
                PROVE  /\ disk'[j] = "absent" /\ Untouched(j)'
                       /\ \A t \in Sessions : j \notin scan'[t].todo /\ \A r \in scan'[t].records : r.id # j
    BY <1>1 DEF FreshInv
  <2>1. /\ disk[j] = "absent" /\ Untouched(j)
        /\ \A t \in Sessions : j \notin scan[t].todo /\ \A r \in scan[t].records : r.id # j
    BY DEF RunsInv, FreshInv
  <2>. QED
    BY <1>2, <1>3, <1>7, <1>8, <2>1
<1>10. LaunchInv'
  <2>1. \A j \in Runs : Untouched(j) => disk'[j] = disk[j]
    BY <1>8 DEF Untouched
  <2>. QED
    BY <1>0, <1>1, <1>7, <2>1 DEF RunsInv, LaunchInv, InLaunch, RunTypes, ViewTypes, Command, Runs
<1>11. HandleInv'
  BY <1>1, <1>2 DEF RunsInv, HandleInv, OwnerKeepsHandle
<1>12. NoStrayDirectory'
  BY <1>1, <1>8 DEF RunsInv, NoStrayDirectory
<1>13. LimitKept'
  <2>. SUFFICES ASSUME NEW t \in Sessions, scan'[t].pc = "removing"
                PROVE  scan'[t] = scan[t]
    BY <1>1, Zenon DEF RunsInv, LimitKept, isPrunable, protectedParents
  <2>. QED
    BY <1>2
<1>. QED
  BY <1>4, <1>5, <1>9, <1>10, <1>11, <1>12, <1>13 DEF RunsInv

LEMMA DecidingStep ==
  ASSUME RunsInv, NEW s \in Sessions, Decide(s)
  PROVE  RunsInv'
<1>0. RunTypes /\ ViewTypes /\ ScanInv
  BY DEF RunsInv
<1>1. /\ cmd' = cmd /\ disk' = disk /\ known' = known /\ created' = created /\ left' = left /\ parent' = parent
      /\ managerRoot' = managerRoot /\ interactive' = interactive /\ stalled' = stalled /\ behind' = behind
      /\ ended' = ended /\ owner' = owner /\ live' = live /\ old' = old
  BY DEF Decide, diskVars, runVars
<1>2. \A r, q \in scan[s].records : r.id = q.id => r = q
  BY <1>0 DEF ScanInv
<1>3. /\ scan' \in [Sessions -> Scan] /\ \A t \in Sessions \ {s} : scan'[t] = scan[t]
      /\ scan[s].pc = "reading" /\ scan'[s].pc = "removing" /\ scan'[s].records = scan[s].records
      /\ scan'[s].todo = {r.id : r \in scan[s].records} /\ scan'[s].remove = Removals(scan[s].records)
      /\ scan'[s].remove \subseteq {r.id : r \in {x \in scan[s].records : isPrunable(x, scan[s].records)}}
  BY <1>0, <1>2, DecideStep
<1>4. RunTypes' /\ ViewTypes'
  BY <1>0, <1>1, <1>3 DEF RunTypes, ViewTypes
<1>5. ScanInv'
  BY <1>0, <1>2, <1>3 DEF ScanInv
<1>6. \A i \in scan'[s].remove : \E r \in scan[s].records : r.id = i /\ r.state # "orphaned"
  BY <1>3 DEF isPrunable
<1>7. \A j \in Runs : Untouched(j) => Untouched(j)'
  BY <1>1, <1>3, <1>6 DEF Untouched
<1>8. FreshInv'
  BY <1>1, <1>3, <1>7 DEF RunsInv, FreshInv
<1>9. LaunchInv'
  BY <1>0, <1>1, <1>7 DEF RunsInv, LaunchInv, InLaunch, RunTypes, ViewTypes, Command, Runs
<1>10. HandleInv'
  BY <1>1, <1>3 DEF RunsInv, HandleInv, OwnerKeepsHandle
<1>11. NoStrayDirectory'
  BY <1>1 DEF RunsInv, NoStrayDirectory
<1>12. LimitKept'
  <2>1. scan[s].records \subseteq Record /\ old \subseteq Runs
    BY <1>0 DEF RunTypes, ViewTypes, Scan
  <2>2. LET kept == {r \in scan[s].records : r.id \notin Removals(scan[s].records)}
            spare == {r \in kept : isPrunable(r, scan[s].records)}
        IN  /\ MaxRuns > 0 => Cardinality(kept) <= MaxRuns \/ spare = {}
            /\ \A i \in Removals(scan[s].records) \ old, r \in spare : i < r.id
    BY <1>2, <2>1, RemovalsKeepLimit
  <2>3. LET kept == {r \in scan'[s].records : r.id \notin scan'[s].remove}
            spare == {r \in kept : isPrunable(r, scan'[s].records)}
        IN  /\ MaxRuns > 0 => Cardinality(kept) <= MaxRuns \/ spare = {}
            /\ \A i \in scan'[s].remove \ old', r \in spare : i < r.id
    BY <1>1, <1>3, <2>2, Zenon
  <2>4. ASSUME NEW t \in Sessions, t # s PROVE scan'[t] = scan[t]
    BY <1>3, <2>4
  <2>. QED
    BY <1>1, <2>3, <2>4, Zenon DEF RunsInv, LimitKept, isPrunable, protectedParents
<1>. QED
  BY <1>4, <1>5, <1>8, <1>9, <1>10, <1>11, <1>12 DEF RunsInv

LEMMA SettlingStep ==
  ASSUME RunsInv, NEW s \in Sessions, Settle(s)
  PROVE  RunsInv'
<1>0. RunTypes /\ ViewTypes /\ ScanInv /\ NoSession \notin Sessions
  BY LocalRunsAssumption DEF RunsInv
<1>1. /\ cmd' = cmd /\ created' = created /\ left' = left /\ parent' = parent
      /\ managerRoot' = managerRoot /\ interactive' = interactive /\ stalled' = stalled /\ behind' = behind
      /\ ended' = ended /\ owner' = owner /\ live' = live /\ old' = old
  BY DEF Settle, runVars
<1>2. PICK i \in scan[s].todo :
        /\ scan' \in [Sessions -> Scan] /\ \A t \in Sessions \ {s} : scan'[t] = scan[t]
        /\ scan[s].pc = "removing" /\ scan'[s].pc = "removing" /\ scan'[s].todo = scan[s].todo \ {i}
        /\ scan'[s].records = scan[s].records /\ scan'[s].remove = scan[s].remove
        /\ i \in Runs
        /\ \/ i \in scan[s].remove /\ disk' = [disk EXCEPT ![i] = "absent"] /\ known' = known
           \/ disk' = disk /\ known' = known
           \/ /\ disk' = disk /\ known[s][i] = "none"
              /\ \E state \in {"running"} \cup TerminalStates : known' = [known EXCEPT ![s][i] = state]
  BY <1>0, SettleStep
<1>3. /\ disk' \in [Runs -> {"absent", "bare", "kept"}]
      /\ \A j \in Runs : disk'[j] = disk[j] \/ (j \in scan[s].remove /\ disk'[j] = "absent")
  BY <1>0, <1>2 DEF RunTypes
<1>4. /\ known' \in [Sessions -> [Runs -> {"none", "own", "running"} \cup TerminalStates]]
      /\ \A t \in Sessions, j \in Runs : known[t][j] = "own" <=> known'[t][j] = "own"
  <2>1. known \in [Sessions -> [Runs -> {"none", "own", "running"} \cup TerminalStates]]
    BY <1>0 DEF ViewTypes
  <2>2. CASE known' = known
    BY <2>1, <2>2
  <2>3. ASSUME known[s][i] = "none", NEW state \in {"running"} \cup TerminalStates, known' = [known EXCEPT ![s][i] = state]
        PROVE  /\ known' \in [Sessions -> [Runs -> {"none", "own", "running"} \cup TerminalStates]]
               /\ \A t \in Sessions, j \in Runs : known[t][j] = "own" <=> known'[t][j] = "own"
    BY <1>2, <2>1, <2>3 DEF TerminalStates
  <2>. QED
    BY <1>2, <2>2, <2>3
<1>5. RunTypes' /\ ViewTypes'
  BY <1>0, <1>1, <1>2, <1>3, <1>4 DEF RunTypes, ViewTypes
<1>6. ScanInv'
  BY <1>0, <1>2 DEF ScanInv
<1>7. \A j \in Runs : Untouched(j) => Untouched(j)'
  BY <1>1, <1>2, <1>4 DEF Untouched
<1>8. FreshInv'
  BY <1>1, <1>2, <1>3, <1>7 DEF RunsInv, FreshInv
<1>9. LaunchInv'
  <2>1. \A j \in Runs : Untouched(j) => disk'[j] = disk[j]
    BY <1>3 DEF Untouched
  <2>. QED
    BY <1>0, <1>1, <1>7, <2>1 DEF RunsInv, LaunchInv, InLaunch, RunTypes, ViewTypes, Command, Runs
<1>10. HandleInv'
  <2>1. \A t \in Sessions : scan'[t].pc = scan[t].pc
    BY <1>2
  <2>2. HandleInv
    BY DEF RunsInv
  <2>3. OwnerKeepsHandle'
    BY <1>1, <1>4, <2>2 DEF HandleInv, OwnerKeepsHandle
  <2>4. \A t \in Sessions, j \in Runs :
          known'[t][j] = "own" /\ scan'[t].pc # "dead" /\ j \notin ended' => owner'[j] = t
    BY <1>1, <1>4, <2>1, <2>2 DEF HandleInv
  <2>5. \A c \in Callers : cmd'[c].pc \in {"dialog", "approved"} /\ cmd'[c].op \in Controls =>
          cmd'[c].run \in Runs /\ known'[c[1]][cmd'[c].run] = "own"
    BY <1>1, <1>4, <2>2, CallersAre DEF HandleInv
  <2>. QED
    BY <2>3, <2>4, <2>5 DEF HandleInv
<1>11. NoStrayDirectory'
  BY <1>1, <1>3 DEF RunsInv, NoStrayDirectory
<1>12. LimitKept'
  <2>1. \A t \in Sessions : scan'[t].pc = scan[t].pc /\ scan'[t].records = scan[t].records /\ scan'[t].remove = scan[t].remove
    BY <1>2
  <2>. QED
    BY <1>1, <2>1, Zenon DEF RunsInv, LimitKept, isPrunable, protectedParents
<1>. QED
  BY <1>5, <1>6, <1>8, <1>9, <1>10, <1>11, <1>12 DEF RunsInv

LEMMA RefreshStep ==
  ASSUME RunsInv, NEW s \in Sessions, NEW i \in Runs, Refresh(s, i)
  PROVE  RunsInv'
<1>0. RunTypes /\ ViewTypes /\ NoSession \notin Sessions
  BY LocalRunsAssumption DEF RunsInv
<1>1. /\ cmd' = cmd /\ scan' = scan /\ disk' = disk /\ created' = created /\ left' = left /\ parent' = parent
      /\ managerRoot' = managerRoot /\ interactive' = interactive /\ stalled' = stalled /\ behind' = behind
      /\ ended' = ended /\ owner' = owner /\ live' = live /\ old' = old
  BY DEF Refresh, diskVars, runVars
<1>2. /\ known' \in [Sessions -> [Runs -> {"none", "own", "running"} \cup TerminalStates]]
      /\ \A t \in Sessions, j \in Runs : known[t][j] = "own" <=> known'[t][j] = "own"
  <2>1. known \in [Sessions -> [Runs -> {"none", "own", "running"} \cup TerminalStates]]
    BY <1>0 DEF ViewTypes
  <2>2. restoreSnapshot(i) \in {"running"} \cup TerminalStates
    BY DEF restoreSnapshot, TerminalStates
  <2>3. known[s][i] = "running" /\ known' = [known EXCEPT ![s][i] = restoreSnapshot(i)]
    BY DEF Refresh
  <2>. QED
    BY <2>1, <2>2, <2>3 DEF TerminalStates
<1>3. RunTypes' /\ ViewTypes'
  BY <1>0, <1>1, <1>2 DEF RunTypes, ViewTypes
<1>4. ScanInv' /\ NoStrayDirectory' /\ LimitKept'
  BY <1>1 DEF RunsInv, ScanInv, NoStrayDirectory, LimitKept, isPrunable, protectedParents
<1>5. \A j \in Runs : Untouched(j) => Untouched(j)'
  BY <1>1, <1>2 DEF Untouched
<1>6. FreshInv'
  BY <1>1, <1>5 DEF RunsInv, FreshInv
<1>7. LaunchInv'
  BY <1>0, <1>1, <1>5 DEF RunsInv, LaunchInv, InLaunch, RunTypes, ViewTypes, Command, Runs
<1>8. HandleInv'
  BY <1>0, <1>1, <1>2, CallersAre DEF RunsInv, HandleInv, OwnerKeepsHandle, RunTypes
<1>. QED
  BY <1>3, <1>4, <1>6, <1>7, <1>8 DEF RunsInv

(* A session that ends: its launches are gone, and what they had made is   *)
(* left behind.                                                            *)
LEMMA EndingStep ==
  ASSUME RunsInv, NEW s \in Sessions, Crash(s) \/ Shutdown(s)
  PROVE  RunsInv'
<1>0. RunTypes /\ ViewTypes /\ NoSession \notin Sessions
  BY LocalRunsAssumption DEF RunsInv
<1>. DEFINE owned == {i \in Runs : owner[i] = s}
            dropped == {i \in Runs : disk[i] = "bare" /\ \E c \in Callers : c[1] = s /\ cmd[c].id = i}
<1>1. /\ disk' = disk /\ known' = known /\ created' = created /\ parent' = parent
      /\ managerRoot' = managerRoot /\ interactive' = interactive /\ live' = live /\ old' = old
      /\ stalled' \subseteq stalled
      /\ scan' = [scan EXCEPT ![s] = [Rest EXCEPT !.pc = "dead"]]
      /\ cmd' = [c \in Callers |-> IF c[1] = s THEN NoCommand ELSE cmd[c]]
      /\ owner' = [i \in Runs |-> IF i \in owned THEN NoSession ELSE owner[i]]
      /\ behind' \subseteq behind \cup owned
      /\ ended' \subseteq ended \cup owned /\ ended \subseteq ended'
  BY DEF Crash, Shutdown, diskVars
<1>2. left' \subseteq left \cup dropped /\ left \subseteq left' /\ (left' = left \cup dropped \/ Shutdown(s))
  BY DEF Crash, Shutdown, diskVars
<1>3. /\ scan' \in [Sessions -> Scan] /\ \A t \in Sessions \ {s} : scan'[t] = scan[t]
      /\ scan'[s].pc = "dead" /\ scan'[s].todo = {} /\ scan'[s].records = {} /\ scan'[s].remove = {}
  BY <1>0, <1>1, RestStep
<1>4. /\ cmd' \in [Callers -> Command]
      /\ \A c \in Callers : IF c[1] = s THEN cmd'[c].pc = "none" /\ cmd'[c].id = 0 ELSE cmd'[c] = cmd[c]
  BY <1>0, <1>1, EndStep
<1>5. /\ owner' \in [Runs -> Sessions \cup {NoSession}]
      /\ \A j \in Runs : owner'[j] = IF owner[j] = s THEN NoSession ELSE owner[j]
  BY <1>0, <1>1 DEF RunTypes
<1>6. RunTypes'
  BY <1>0, <1>1, <1>2, <1>5 DEF RunTypes
<1>7. ViewTypes'
  BY <1>0, <1>1, <1>3, <1>4 DEF ViewTypes
<1>8. ScanInv'
  BY <1>3 DEF RunsInv, ScanInv
<1>9. \A j \in Runs \ dropped : Untouched(j) => Untouched(j)'
  BY <1>0, <1>1, <1>2, <1>3, <1>5 DEF Untouched
<1>10. FreshInv'
  <2>. SUFFICES ASSUME NEW j \in Runs, j > created
                PROVE  /\ disk'[j] = "absent" /\ Untouched(j)'
                       /\ \A t \in Sessions : j \notin scan'[t].todo /\ \A r \in scan'[t].records : r.id # j
    BY <1>1 DEF FreshInv
  <2>1. /\ disk[j] = "absent" /\ Untouched(j)
        /\ \A t \in Sessions : j \notin scan[t].todo /\ \A r \in scan[t].records : r.id # j
    BY DEF RunsInv, FreshInv
  <2>2. j \notin dropped
    BY <2>1
  <2>. QED
    BY <1>1, <1>3, <1>9, <2>1, <2>2
<1>11. LaunchInv'
  <2>1. LaunchInv
    BY DEF RunsInv
  <2>2. ASSUME NEW c \in Callers, InLaunch(c)'
        PROVE  cmd'[c] = cmd[c] /\ InLaunch(c) /\ c[1] # s /\ cmd[c].id \in Runs /\ cmd[c].id \notin dropped
    <3>1. cmd'[c] = cmd[c] /\ InLaunch(c) /\ c[1] # s
      BY <1>4, <2>2 DEF InLaunch
    <3>2. cmd[c].id \in Runs
      <4>1. cmd[c].id \in 1 .. created /\ created \in 0 .. Slots
        BY <1>0, <2>1, <3>1 DEF LaunchInv, RunTypes
      <4>. QED
        BY <4>1, LocalRunsAssumption DEF Runs
    <3>3. \A d \in Callers : d[1] = s => cmd[d].id # cmd[c].id
      BY <1>0, <2>1, <3>1, <3>2 DEF LaunchInv, Runs
    <3>. QED
      BY <3>1, <3>2, <3>3
  <2>3. ASSUME NEW c \in Callers, InLaunch(c)'
        PROVE  /\ cmd'[c].id \in 1 .. created' /\ Untouched(cmd[c].id)'
               /\ disk'[cmd'[c].id] = IF cmd'[c].pc = "writing" THEN "bare" ELSE "kept"
    <3>1. cmd[c].id \in 1 .. created /\ Untouched(cmd[c].id)
          /\ disk[cmd[c].id] = IF cmd[c].pc = "writing" THEN "bare" ELSE "kept"
      BY <2>1, <2>2, <2>3 DEF LaunchInv
    <3>2. ASSUME NEW j \in Runs \ dropped, Untouched(j), j = cmd'[c].id PROVE Untouched(cmd[c].id)'
      <4>1. Untouched(j)'
        BY <1>9, <3>2
      <4>. QED
        BY <3>2, <4>1 DEF Untouched
    <3>3. cmd[c].id \in Runs \ dropped /\ cmd[c].id = cmd'[c].id
      BY <2>2, <2>3
    <3>4. Untouched(cmd[c].id)'
      BY <3>1, <3>2, <3>3
    <3>5. disk'[cmd'[c].id] = disk[cmd[c].id] /\ cmd'[c].pc = cmd[c].pc
      BY <1>1, <2>2, <2>3
    <3>. QED
      BY <1>1, <3>1, <3>3, <3>4, <3>5
  <2>4. \A c \in Callers : ~InLaunch(c)' => cmd'[c].id = 0
    BY <1>4, <2>1 DEF LaunchInv, InLaunch
  <2>5. \A c, d \in Callers : InLaunch(c)' /\ InLaunch(d)' /\ cmd'[c].id = cmd'[d].id => c = d
    BY <2>1, <2>2 DEF LaunchInv
  <2>. QED
    BY <2>3, <2>4, <2>5 DEF LaunchInv
<1>12. HandleInv'
  <2>1. HandleInv
    BY DEF RunsInv
  <2>2. OwnerKeepsHandle'
    BY <1>0, <1>1, <1>5, <2>1 DEF HandleInv, OwnerKeepsHandle
  <2>3. \A t \in Sessions, j \in Runs :
          known'[t][j] = "own" /\ scan'[t].pc # "dead" /\ j \notin ended' => owner'[j] = t
    BY <1>0, <1>1, <1>3, <1>5, <2>1 DEF HandleInv
  <2>4. \A c \in Callers : cmd'[c].pc \in {"dialog", "approved"} /\ cmd'[c].op \in Controls =>
          cmd'[c].run \in Runs /\ known'[c[1]][cmd'[c].run] = "own"
    BY <1>1, <1>4, <2>1 DEF HandleInv
  <2>. QED
    BY <2>2, <2>3, <2>4 DEF HandleInv
<1>13. NoStrayDirectory'
  <2>1. \A c \in Callers : c[1] = s /\ Shutdown(s) => cmd[c].pc # "writing"
    BY DEF Shutdown
  <2>2. ASSUME NEW i \in Runs, disk'[i] = "bare"
        PROVE  i \in left' \/ \E c \in Callers : cmd'[c].pc = "writing" /\ cmd'[c].id = i
    <3>1. i \in left \/ \E c \in Callers : cmd[c].pc = "writing" /\ cmd[c].id = i
      BY <1>1, <2>2 DEF RunsInv, NoStrayDirectory
    <3>2. CASE i \in left
      BY <1>2, <3>2
    <3>3. ASSUME NEW c \in Callers, cmd[c].pc = "writing", cmd[c].id = i
          PROVE  i \in left' \/ cmd'[c] = cmd[c]
      BY <1>1, <1>2, <1>4, <2>1, <2>2, <3>3
    <3>. QED
      BY <3>1, <3>2, <3>3
  <2>. QED
    BY <2>2 DEF NoStrayDirectory
<1>14. LimitKept'
  <2>. SUFFICES ASSUME NEW t \in Sessions, scan'[t].pc = "removing"
                PROVE  scan'[t] = scan[t]
    BY <1>1, Zenon DEF RunsInv, LimitKept, isPrunable, protectedParents
  <2>. QED
    BY <1>3
<1>. QED
  BY <1>6, <1>7, <1>8, <1>10, <1>11, <1>12, <1>13, <1>14 DEF RunsInv

(* A command that makes no directory: it begins, waits, is sent or is      *)
(* given up.                                                               *)
LEMMA DialogStep ==
  ASSUME RunsInv, NEW c \in Callers,
         \/ Begin(c) \/ Approve(c) \/ Decline(c) \/ Preflight(c) \/ Send(c) \/ Acknowledged(c)
         \/ Create(c) /\ Idle(c) /\ disk' = disk /\ created' = created
  PROVE  RunsInv'
<1>0. RunTypes /\ ViewTypes
  BY DEF RunsInv
<1>1. /\ scan' = scan /\ disk' = disk /\ known' = known /\ created' = created /\ left' = left /\ parent' = parent
      /\ managerRoot' = managerRoot /\ interactive' = interactive /\ stalled' = stalled /\ behind' = behind
      /\ ended' = ended /\ owner' = owner /\ old' = old
  BY DEF Begin, Approve, Decline, Preflight, Send, Acknowledged, Create, diskVars, runVars
<1>2. live' \in [Runs -> [n : Nat, state : {"running", "recovering"}]]
  <2>1. live \in [Runs -> [n : Nat, state : {"running", "recovering"}]]
    BY <1>0 DEF RunTypes
  <2>2. live' = live \/ \E i \in 0 .. Slots : live' = [live EXCEPT ![i] = [n |-> @.n + 1, state |-> "running"]]
    <3>1. cmd[c].run \in 0 .. Slots
      BY <1>0 DEF ViewTypes, Command
    <3>. QED
      BY <3>1 DEF Begin, Approve, Decline, Preflight, Send, Acknowledged, Create, runVars
  <2>. QED
    BY <2>1, <2>2
<1>3. ~InLaunch(c) /\ cmd[c].id = 0
  <2>1. ~InLaunch(c)
    BY DEF Begin, Ready, Approve, Decline, Preflight, Send, Acknowledged, Create, InLaunch
  <2>. QED
    BY <2>1 DEF RunsInv, LaunchInv
<1>4. /\ cmd' \in [Callers -> Command] /\ \A d \in Callers \ {c} : cmd'[d] = cmd[d]
      /\ cmd'[c].pc \notin {"writing", "prepared"} /\ cmd'[c].id = 0
      /\ cmd'[c].pc \in {"dialog", "approved"} /\ cmd'[c].op \in Controls =>
           cmd'[c].run \in Runs /\ known[c[1]][cmd'[c].run] = "own"
  <2>1. CASE Begin(c)
    BY <1>0, <2>1, BeginStep
  <2>2. CASE Idle(c)
    BY <1>0, <2>2, IdleStep
  <2>3. CASE Move(c, "approved") /\ cmd[c].pc = "dialog"
    BY <1>0, <1>3, <2>3, MoveStep DEF RunsInv, HandleInv
  <2>4. CASE Move(c, "checked") \/ Move(c, "sent")
    BY <1>0, <1>3, <2>4, MoveStep
  <2>. QED
    BY <2>1, <2>2, <2>3, <2>4 DEF Approve, Decline, Preflight, Send, Acknowledged
<1>5. RunTypes' /\ ViewTypes'
  BY <1>0, <1>1, <1>2, <1>4 DEF RunTypes, ViewTypes
<1>6. ScanInv' /\ LimitKept'
  BY <1>1 DEF RunsInv, ScanInv, LimitKept, isPrunable, protectedParents
<1>7. \A j \in Runs : Untouched(j) => Untouched(j)'
  BY <1>1 DEF Untouched
<1>8. FreshInv'
  BY <1>1, <1>7 DEF RunsInv, FreshInv
<1>9. LaunchInv'
  <2>1. LaunchInv
    BY DEF RunsInv
  <2>2. \A d \in Callers : InLaunch(d)' => d # c /\ cmd'[d] = cmd[d] /\ InLaunch(d)
    BY <1>4 DEF InLaunch
  <2>3. \A d \in Callers : InLaunch(d) => Untouched(cmd[d].id)
    BY <2>1 DEF LaunchInv
  <2>4. ASSUME NEW d \in Callers, InLaunch(d)'
        PROVE  /\ cmd'[d].id \in 1 .. created' /\ Untouched(cmd[d].id)'
               /\ disk'[cmd'[d].id] = IF cmd'[d].pc = "writing" THEN "bare" ELSE "kept"
    <3>1. cmd'[d] = cmd[d] /\ InLaunch(d)
      BY <2>2, <2>4
    <3>2. Untouched(cmd[d].id)'
      BY <1>1, <2>3, <3>1 DEF Untouched
    <3>. QED
      BY <1>1, <2>1, <3>1, <3>2 DEF LaunchInv
  <2>5. \A d \in Callers : ~InLaunch(d)' => cmd'[d].id = 0
    BY <1>4, <2>1 DEF LaunchInv, InLaunch
  <2>6. \A d, e \in Callers : InLaunch(d)' /\ InLaunch(e)' /\ cmd'[d].id = cmd'[e].id => d = e
    BY <2>1, <2>2 DEF LaunchInv
  <2>. QED
    BY <2>4, <2>5, <2>6 DEF LaunchInv
<1>10. HandleInv'
  BY <1>1, <1>4 DEF RunsInv, HandleInv, OwnerKeepsHandle
<1>11. NoStrayDirectory'
  <2>1. \A d \in Callers : cmd[d].pc = "writing" => cmd'[d] = cmd[d]
    BY <1>3, <1>4 DEF InLaunch
  <2>. QED
    BY <1>1, <2>1 DEF RunsInv, NoStrayDirectory
<1>. QED
  BY <1>5, <1>6, <1>8, <1>9, <1>10, <1>11 DEF RunsInv

(* A launch makes its directory: no other launch, restore or session knows *)
(* of it.                                                                  *)
LEMMA CreatingStep ==
  ASSUME RunsInv, NEW c \in Callers, Create(c)
  PROVE  RunsInv'
<1>0. RunTypes /\ ViewTypes /\ LaunchInv
  BY DEF RunsInv
<1>1. CASE Idle(c) /\ disk' = disk /\ created' = created
  BY <1>1, DialogStep
<1>2. CASE /\ cmd' \in [Callers -> Command] /\ \A d \in Callers \ {c} : cmd'[d] = cmd[d]
           /\ cmd'[c].pc = "writing" /\ cmd'[c].op \in Launches /\ cmd'[c].id = created + 1
           /\ created + 1 \in Runs /\ created' = created + 1
           /\ disk' = [disk EXCEPT ![created + 1] = "bare"]
  <2>1. /\ scan' = scan /\ known' = known /\ left' = left /\ parent' = parent
        /\ managerRoot' = managerRoot /\ interactive' = interactive /\ stalled' = stalled /\ behind' = behind
        /\ ended' = ended /\ owner' = owner /\ live' = live /\ old' = old
    BY DEF Create, runVars
  <2>2. created \in Nat /\ created + 1 \in Runs /\ created + 1 > created /\ created + 1 \in 0 .. Slots
    BY <1>0, <1>2, LocalRunsAssumption DEF RunTypes, Runs
  <2>3. disk' \in [Runs -> {"absent", "bare", "kept"}] /\ disk'[created + 1] = "bare"
        /\ \A j \in Runs \ {created + 1} : disk'[j] = disk[j]
    BY <1>0, <1>2 DEF RunTypes
  <2>4. RunTypes' /\ ViewTypes'
    BY <1>0, <1>2, <2>1, <2>2, <2>3 DEF RunTypes, ViewTypes
  <2>5. ScanInv' /\ LimitKept'
    BY <2>1 DEF RunsInv, ScanInv, LimitKept, isPrunable, protectedParents
  <2>6. \A j \in Runs : Untouched(j) => Untouched(j)'
    BY <2>1 DEF Untouched
  <2>7. Untouched(created + 1)
    BY <2>2 DEF RunsInv, FreshInv
  <2>8. FreshInv'
    <3>1. \A j \in Runs : j > created' => j > created /\ j # created + 1
      BY <1>2, <2>2 DEF Runs
    <3>. QED
      BY <1>2, <2>1, <2>3, <2>6, <3>1 DEF RunsInv, FreshInv
  <2>9. LaunchInv'
    <3>1. \A d \in Callers \ {c} : cmd'[d] = cmd[d] /\ (InLaunch(d)' <=> InLaunch(d))
      BY <1>2 DEF InLaunch
    <3>2. ASSUME NEW d \in Callers, d # c, InLaunch(d)
          PROVE  /\ cmd[d].id \in 1 .. created /\ cmd[d].id \in Runs /\ cmd[d].id # created + 1 /\ Untouched(cmd[d].id)
                 /\ disk[cmd[d].id] = IF cmd[d].pc = "writing" THEN "bare" ELSE "kept"
      <4>1. /\ cmd[d].id \in 1 .. created /\ Untouched(cmd[d].id)
            /\ disk[cmd[d].id] = IF cmd[d].pc = "writing" THEN "bare" ELSE "kept"
        BY <1>0, <3>2 DEF LaunchInv
      <4>. QED
        BY <2>2, <4>1, LocalRunsAssumption DEF Runs
    <3>3. ASSUME NEW d \in Callers, InLaunch(d)'
          PROVE  /\ cmd'[d].id \in 1 .. created' /\ Untouched(cmd[d].id)'
                 /\ disk'[cmd'[d].id] = IF cmd'[d].pc = "writing" THEN "bare" ELSE "kept"
      <4>1. CASE d = c
        BY <1>2, <2>1, <2>2, <2>3, <2>7, <4>1 DEF Untouched
      <4>2. CASE d # c
        <5>1. cmd'[d] = cmd[d] /\ InLaunch(d)
          BY <3>1, <3>3, <4>2
        <5>2. Untouched(cmd[d].id)'
          BY <2>1, <3>2, <4>2, <5>1 DEF Untouched
        <5>3. disk'[cmd[d].id] = disk[cmd[d].id]
          BY <2>3, <3>2, <4>2, <5>1
        <5>4. cmd[d].id \in 1 .. created'
          BY <1>2, <2>2, <3>2, <4>2, <5>1
        <5>. QED
          BY <3>2, <4>2, <5>1, <5>2, <5>3, <5>4
      <4>. QED
        BY <4>1, <4>2
    <3>4. \A d \in Callers : ~InLaunch(d)' => cmd'[d].id = 0
      BY <1>0, <1>2, <3>1 DEF LaunchInv, InLaunch
    <3>5. \A d, e \in Callers : InLaunch(d)' /\ InLaunch(e)' /\ cmd'[d].id = cmd'[e].id => d = e
      BY <1>0, <1>2, <3>1, <3>2 DEF LaunchInv
    <3>. QED
      BY <3>3, <3>4, <3>5 DEF LaunchInv
  <2>10. HandleInv'
    BY <1>2, <2>1 DEF RunsInv, HandleInv, OwnerKeepsHandle
  <2>11. NoStrayDirectory'
    <3>1. \A d \in Callers : cmd[d].pc = "writing" => cmd'[d] = cmd[d]
      BY <1>2 DEF Create
    <3>. QED
      BY <1>2, <2>1, <2>3, <3>1 DEF RunsInv, NoStrayDirectory
  <2>. QED
    BY <2>4, <2>5, <2>8, <2>9, <2>10, <2>11 DEF RunsInv
<1>. QED
  BY <1>0, <1>1, <1>2, CreateStep

(* The launch ends one way or another: the manifest is written, the        *)
(* directory is removed again, or the session owns the run.                *)
LEMMA LaunchedStep ==
  ASSUME RunsInv, NEW c \in Callers, Commit(c) \/ Undo(c) \/ supervise(c)
  PROVE  RunsInv'
<1>0. RunTypes /\ ViewTypes /\ LaunchInv /\ NoSession \notin Sessions /\ c[1] \in Sessions
  BY LocalRunsAssumption, CallersAre DEF RunsInv
<1>. DEFINE id == cmd[c].id
<1>1. InLaunch(c) /\ id \in 1 .. created /\ id \in Runs /\ Untouched(id)
  <2>1. InLaunch(c)
    BY DEF Commit, Undo, supervise, InLaunch
  <2>2. id \in 1 .. created /\ created \in 0 .. Slots /\ Untouched(id)
    BY <1>0, <2>1 DEF LaunchInv, RunTypes
  <2>. QED
    BY <2>1, <2>2, LocalRunsAssumption DEF Runs
<1>2. /\ scan' = scan /\ left' = left /\ created' = created /\ old' = old
      /\ managerRoot' = managerRoot /\ interactive' = interactive /\ stalled' = stalled /\ behind' = behind
      /\ ended' = ended /\ live' = live
  BY DEF Commit, Undo, supervise, diskVars, runVars
<1>3. /\ cmd' \in [Callers -> Command] /\ \A d \in Callers \ {c} : cmd'[d] = cmd[d]
      /\ \/ /\ cmd[c].pc = "writing" /\ cmd'[c].pc = "prepared" /\ cmd'[c].id = id
            /\ disk' = [disk EXCEPT ![id] = "kept"] /\ owner' = owner /\ known' = known
         \/ /\ cmd[c].pc = "writing" /\ cmd'[c].pc = "none" /\ cmd'[c].id = 0
            /\ disk' = [disk EXCEPT ![id] = "absent"] /\ owner' = owner /\ known' = known
         \/ /\ cmd[c].pc = "prepared" /\ cmd'[c].pc = "none" /\ cmd'[c].id = 0 /\ disk' = disk
            /\ owner' = [owner EXCEPT ![id] = c[1]] /\ known' = [known EXCEPT ![c[1]][id] = "own"]
  <2>1. CASE Commit(c)
    BY <1>0, <2>1, MoveStep DEF Commit, runVars
  <2>2. CASE Undo(c)
    BY <1>0, <2>2, IdleStep DEF Undo, runVars
  <2>3. CASE supervise(c)
    BY <1>0, <2>3, IdleStep DEF supervise, diskVars
  <2>. QED
    BY <2>1, <2>2, <2>3
<1>4. parent' \in [Runs -> 0 .. Slots]
  <2>1. cmd[c].run \in 0 .. Slots /\ parent \in [Runs -> 0 .. Slots]
    BY <1>0 DEF ViewTypes, Command, RunTypes
  <2>. QED
    BY <2>1 DEF Commit, Undo, supervise, diskVars
<1>. HIDE DEF id
<1>5. /\ disk' \in [Runs -> {"absent", "bare", "kept"}] /\ \A j \in Runs \ {id} : disk'[j] = disk[j]
      /\ disk'[id] # "bare" /\ (cmd'[c].pc = "prepared" => disk'[id] = "kept")
  <2>1. cmd[c].pc = "prepared" => disk[id] = "kept"
    BY <1>0, <1>1 DEF LaunchInv, id
  <2>. QED
    BY <1>0, <1>1, <1>3, <2>1 DEF RunTypes
<1>6. owner' \in [Runs -> Sessions \cup {NoSession}] /\ \A j \in Runs \ {id} : owner'[j] = owner[j]
  BY <1>0, <1>1, <1>3 DEF RunTypes
<1>7. /\ known' \in [Sessions -> [Runs -> {"none", "own", "running"} \cup TerminalStates]]
      /\ \A t \in Sessions, j \in Runs : (t # c[1] \/ j # id) => known'[t][j] = known[t][j]
  <2>1. known \in [Sessions -> [Runs -> {"none", "own", "running"} \cup TerminalStates]]
    BY <1>0 DEF ViewTypes
  <2>2. CASE known' = known
    BY <2>1, <2>2
  <2>3. CASE known' = [known EXCEPT ![c[1]][id] = "own"]
    BY <1>0, <1>1, <2>1, <2>3
  <2>. QED
    BY <1>3, <2>2, <2>3
<1>8. \/ owner' = owner /\ known' = known
      \/ owner'[id] = c[1] /\ known'[c[1]][id] = "own" /\ cmd'[c].pc = "none"
  <2>1. owner \in [Runs -> Sessions \cup {NoSession}] /\ known \in [Sessions -> [Runs -> {"none", "own", "running"} \cup TerminalStates]]
    BY <1>0 DEF RunTypes, ViewTypes
  <2>2. CASE owner' = [owner EXCEPT ![id] = c[1]] /\ known' = [known EXCEPT ![c[1]][id] = "own"] /\ cmd'[c].pc = "none"
    BY <1>0, <1>1, <2>1, <2>2
  <2>. QED
    BY <1>3, <2>2
<1>9. RunTypes' /\ ViewTypes'
  BY <1>0, <1>2, <1>3, <1>4, <1>5, <1>6, <1>7 DEF RunTypes, ViewTypes
<1>10. ScanInv' /\ LimitKept'
  BY <1>2 DEF RunsInv, ScanInv, LimitKept, isPrunable, protectedParents
<1>11. \A j \in Runs : Untouched(j) /\ (j # id \/ cmd'[c].pc = "prepared") => Untouched(j)'
  BY <1>2, <1>6, <1>7, <1>8 DEF Untouched
<1>12. FreshInv'
  <2>1. \A j \in Runs : j > created => j # id
    BY <1>0, <1>1 DEF RunTypes, Runs
  <2>. QED
    BY <1>2, <1>5, <1>11, <2>1 DEF RunsInv, FreshInv
<1>13. LaunchInv'
  <2>1. \A d \in Callers \ {c} : cmd'[d] = cmd[d] /\ (InLaunch(d)' <=> InLaunch(d))
    BY <1>3 DEF InLaunch
  <2>2. ASSUME NEW d \in Callers, d # c, InLaunch(d)
        PROVE  /\ cmd[d].id \in 1 .. created /\ cmd[d].id \in Runs /\ cmd[d].id # id /\ Untouched(cmd[d].id)
               /\ disk[cmd[d].id] = IF cmd[d].pc = "writing" THEN "bare" ELSE "kept"
    <3>1. /\ cmd[d].id \in 1 .. created /\ Untouched(cmd[d].id) /\ created \in 0 .. Slots
          /\ disk[cmd[d].id] = IF cmd[d].pc = "writing" THEN "bare" ELSE "kept"
      BY <1>0, <2>2 DEF LaunchInv, RunTypes
    <3>2. cmd[d].id # id
      BY <1>0, <1>1, <2>2 DEF LaunchInv, id
    <3>. QED
      BY <3>1, <3>2, LocalRunsAssumption DEF Runs
  <2>3. ASSUME NEW d \in Callers, InLaunch(d)'
        PROVE  /\ cmd'[d].id \in 1 .. created' /\ Untouched(cmd[d].id)'
               /\ disk'[cmd'[d].id] = IF cmd'[d].pc = "writing" THEN "bare" ELSE "kept"
    <3>1. CASE d = c
      <4>1. cmd'[c].pc = "prepared" /\ cmd'[c].id = id /\ disk'[id] = "kept"
        BY <1>3, <1>5, <2>3, <3>1 DEF InLaunch
      <4>2. Untouched(id) /\ owner' = owner /\ known' = known
        BY <1>1, <1>8, <4>1
      <4>3. Untouched(cmd[d].id)'
        BY <1>2, <3>1, <4>1, <4>2 DEF Untouched
      <4>. QED
        BY <1>1, <1>2, <3>1, <4>1, <4>3
    <3>2. CASE d # c
      <4>1. cmd'[d] = cmd[d] /\ InLaunch(d)
        BY <2>1, <2>3, <3>2
      <4>2. disk'[cmd[d].id] = disk[cmd[d].id]
        BY <1>5, <2>2, <3>2, <4>1
      <4>3. Untouched(cmd[d].id)'
        BY <1>2, <1>6, <1>7, <2>2, <3>2, <4>1 DEF Untouched
      <4>. QED
        BY <1>2, <2>2, <3>2, <4>1, <4>2, <4>3
    <3>. QED
      BY <3>1, <3>2
  <2>4. \A d \in Callers : ~InLaunch(d)' => cmd'[d].id = 0
    BY <1>0, <1>3, <2>1 DEF LaunchInv, InLaunch
  <2>5. \A d, e \in Callers : InLaunch(d)' /\ InLaunch(e)' /\ cmd'[d].id = cmd'[e].id => d = e
    <3>1. InLaunch(c)' => cmd'[c].id = id
      BY <1>3 DEF InLaunch
    <3>. QED
      BY <1>0, <2>1, <2>2, <3>1 DEF LaunchInv
  <2>. QED
    BY <2>3, <2>4, <2>5 DEF LaunchInv
<1>14. HandleInv'
  <2>1. HandleInv /\ owner[id] = NoSession /\ id \notin ended /\ \A t \in Sessions : known[t][id] # "own"
    BY <1>1 DEF RunsInv, Untouched
  <2>2. OwnerKeepsHandle'
    BY <1>0, <1>6, <1>7, <1>8, <2>1 DEF HandleInv, OwnerKeepsHandle
  <2>3. \A t \in Sessions, j \in Runs :
          known'[t][j] = "own" /\ scan'[t].pc # "dead" /\ j \notin ended' => owner'[j] = t
    BY <1>0, <1>2, <1>6, <1>7, <1>8, <2>1 DEF HandleInv
  <2>4. \A d \in Callers : cmd'[d].pc \in {"dialog", "approved"} /\ cmd'[d].op \in Controls =>
          cmd'[d].run \in Runs /\ known'[d[1]][cmd'[d].run] = "own"
    BY <1>3, <1>7, <1>8, <2>1, CallersAre DEF HandleInv
  <2>. QED
    BY <2>2, <2>3, <2>4 DEF HandleInv
<1>15. NoStrayDirectory'
  <2>1. \A d \in Callers : cmd[d].pc = "writing" /\ cmd[d].id # id => cmd'[d] = cmd[d]
    BY <1>3 DEF id
  <2>. QED
    BY <1>2, <1>5, <2>1 DEF RunsInv, NoStrayDirectory
<1>. QED
  BY <1>9, <1>10, <1>12, <1>13, <1>14, <1>15 DEF RunsInv

-----------------------------------------------------------------------------
LEMMA RunsInit == Init => RunsInv
<1>. SUFFICES ASSUME Init PROVE RunsInv
  OBVIOUS
<1>0. Existing \in Nat /\ Slots \in Nat /\ Existing <= Slots /\ NoSession \notin Sessions
  BY LocalRunsAssumption
<1>1. Rest \in Scan /\ Rest.pc = "idle" /\ Rest.todo = {} /\ Rest.records = {} /\ Rest.remove = {}
  BY DEF Rest, Scan
<1>2. NoCommand \in Command /\ NoCommand.pc = "none" /\ NoCommand.id = 0
  BY <1>0 DEF NoCommand, Command
<1>3. RunTypes
  <2>1. 1 .. Existing \subseteq Runs /\ created \in 0 .. Slots
    BY <1>0 DEF Init, Runs
  <2>. QED
    BY <1>0, <2>1 DEF Init, RunTypes
<1>4. ViewTypes
  BY <1>1, <1>2 DEF Init, ViewTypes
<1>5. ScanInv /\ LimitKept
  BY <1>1 DEF Init, ScanInv, LimitKept
<1>6. FreshInv
  <2>. SUFFICES ASSUME NEW i \in Runs, i > created
                PROVE  /\ disk[i] = "absent" /\ Untouched(i)
                       /\ \A s \in Sessions : i \notin scan[s].todo /\ \A r \in scan[s].records : r.id # i
    BY DEF FreshInv
  <2>1. disk[i] = "absent" /\ i \notin ended \cup old
    BY <1>0 DEF Init, Runs
  <2>. QED
    BY <1>1, <2>1 DEF Init, Untouched
<1>7. LaunchInv /\ HandleInv
  BY <1>0, <1>2 DEF Init, LaunchInv, InLaunch, HandleInv, OwnerKeepsHandle
<1>8. NoStrayDirectory
  BY DEF Init, NoStrayDirectory
<1>. QED
  BY <1>3, <1>4, <1>5, <1>6, <1>7, <1>8 DEF RunsInv

LEMMA RunsStep == RunsInv /\ [Next]_vars => RunsInv'
<1>. SUFFICES ASSUME RunsInv, [Next]_vars PROVE RunsInv'
  OBVIOUS
<1>1. CASE UNCHANGED vars
  <2>1. /\ managerRoot' = managerRoot /\ interactive' = interactive /\ scan' = scan /\ cmd' = cmd /\ disk' = disk
        /\ known' = known /\ created' = created /\ left' = left /\ parent' = parent /\ stalled' = stalled
        /\ behind' = behind /\ ended' = ended /\ owner' = owner /\ live' = live /\ old' = old
    BY <1>1 DEF vars, diskVars, runVars
  <2>2. RunTypes' /\ ViewTypes'
    BY <2>1 DEF RunsInv, RunTypes, ViewTypes
  <2>3. ScanInv' /\ NoStrayDirectory' /\ LimitKept'
    BY <2>1 DEF RunsInv, ScanInv, NoStrayDirectory, LimitKept, isPrunable, protectedParents
  <2>4. FreshInv'
    BY <2>1 DEF RunsInv, FreshInv, Untouched
  <2>5. LaunchInv'
    BY <2>1 DEF RunsInv, LaunchInv, InLaunch, Untouched
  <2>6. HandleInv'
    BY <2>1 DEF RunsInv, HandleInv, OwnerKeepsHandle
  <2>. QED
    BY <2>2, <2>3, <2>4, <2>5, <2>6 DEF RunsInv
<1>2. CASE \E i \in Runs : RuntimeMoves(i) \/ RunEnds(i) \/ Age(i)
  BY <1>2, RuntimeStep
<1>3. ASSUME NEW s \in Sessions,
             \/ Stall(s) \/ Wake(s) \/ Crash(s) \/ Shutdown(s) \/ SessionStart(s)
             \/ Restoring(s) \/ \E i \in Runs : Refresh(s, i)
      PROVE  RunsInv'
  BY <1>3, StallStep, EndingStep, QuietStep, ReadingStep, DecidingStep, SettlingStep, RefreshStep DEF Restoring
<1>4. ASSUME NEW c \in Callers, Begin(c) \/ Approve(c) \/ Decline(c) \/ Launching(c)
      PROVE  RunsInv'
  BY <1>4, DialogStep, CreatingStep, LaunchedStep DEF Launching
<1>. QED
  BY <1>1, <1>2, <1>3, <1>4 DEF Next

(* The local runs satisfy RunsInv, whatever the sessions do and whenever   *)
(* one of them stalls or dies.                                             *)
THEOREM RunsAreSound == Spec => []RunsInv
BY RunsInit, RunsStep, PTL DEF Spec

(* restore and prepareLaunch: the retention keeps its limit and takes the  *)
(* oldest, and a launch that fails leaves no directory, for any limit, any *)
(* number of runs and any restore that races them.                         *)
THEOREM RootHolds == Spec => []RootInOrder
<1>1. RunsInv => RootInOrder
  <2>. SUFFICES ASSUME RunsInv PROVE RootInOrder
    OBVIOUS
  <2>1. \A s \in Sessions : scan[s].pc \in {"idle", "reading", "removing", "dead"}
    BY DEF RunsInv, ViewTypes, Scan
  <2>2. \A c \in Callers : /\ cmd[c].pc \in {"none", "dialog", "approved", "checked", "writing", "prepared", "sent"}
                           /\ cmd[c].pc \in {"writing", "prepared"} => disk[cmd[c].id] # "absent"
    BY DEF RunsInv, ViewTypes, Command, LaunchInv, InLaunch
  <2>3. TypeOK
    BY <2>1, <2>2 DEF RunsInv, RunTypes, ViewTypes, TypeOK
  <2>. QED
    BY <2>3 DEF RunsInv, RootInOrder
<1>. QED
  BY <1>1, RunsAreSound, PTL

(* restore: a session that restores again keeps the handle of each run it  *)
(* owns.                                                                   *)
THEOREM HandlesAreKept == Spec => []OwnerKeepsHandle
<1>1. RunsInv => OwnerKeepsHandle
  BY DEF RunsInv, HandleInv
<1>. QED
  BY <1>1, RunsAreSound, PTL

(* steer, recover, redirect and cancel: a control is written only by the   *)
(* owner of a run that has not ended, and a steering only to the attempt   *)
(* that was chosen before the dialog.                                      *)
THEOREM ControlsAreCurrent == Spec => ControlIsCurrent
<1>. DEFINE Current == \A c \in Callers : cmd[c].pc # "sent" /\ cmd'[c].pc = "sent" =>
              /\ owner[cmd[c].run] = c[1] /\ cmd[c].run \notin ended
              /\ cmd[c].op = "steer" => live[cmd[c].run] = [n |-> cmd[c].seen, state |-> "running"]
<1>1. RunsInv /\ [Next]_vars => Current
  <2>. SUFFICES ASSUME RunsInv, [Next]_vars, NEW c \in Callers, cmd[c].pc # "sent", cmd'[c].pc = "sent"
                PROVE  /\ owner[cmd[c].run] = c[1] /\ cmd[c].run \notin ended
                       /\ cmd[c].op = "steer" => live[cmd[c].run] = [n |-> cmd[c].seen, state |-> "running"]
    OBVIOUS
  <2>0. RunTypes /\ ViewTypes /\ HandleInv /\ c[1] \in Sessions
    BY CallersAre DEF RunsInv
  <2>1. cmd' # cmd
    OBVIOUS
  <2>2. ASSUME NEW s \in Sessions, Crash(s) \/ Shutdown(s)
        PROVE  FALSE
    BY <2>0, <2>2, EndStep DEF Crash, Shutdown
  <2>3. ASSUME NEW d \in Callers, Begin(d) \/ Approve(d) \/ Decline(d) \/ Launching(d), ~(d = c /\ Send(c))
        PROVE  FALSE
    <3>1. CASE Begin(d)
      BY <2>0, <3>1, BeginStep
    <3>2. CASE Idle(d)
      BY <2>0, <3>2, IdleStep
    <3>3. CASE Move(d, "approved") \/ Move(d, "checked") \/ Move(d, "prepared")
      BY <2>0, <3>3, MoveStep
    <3>4. CASE Create(d)
      BY <2>0, <3>2, <3>4, CreateStep
    <3>5. CASE Send(d)
      BY <2>0, <2>3, <3>2, <3>5, MoveStep DEF Send
    <3>. QED
      BY <2>3, <3>1, <3>2, <3>3, <3>4, <3>5
         DEF Approve, Decline, Launching, Preflight, Commit, Undo, supervise, Acknowledged
  <2>4. Send(c)
    <3>1. \/ \E s \in Sessions : Crash(s) \/ Shutdown(s)
          \/ \E d \in Callers : Begin(d) \/ Approve(d) \/ Decline(d) \/ Launching(d)
      BY <2>1 DEF Next, Restoring, RuntimeMoves, RunEnds, Age, Stall, Wake, SessionStart, Read, Decide, Settle, Restored,
                  Refresh, vars
    <3>. QED
      BY <2>2, <2>3, <3>1
  <2>5. Fits(cmd[c].op, cmd[c].run, cmd[c].seen) /\ cmd[c].pc = "approved" /\ cmd[c].op \in Controls /\ scan[c[1]].pc # "dead"
    <3>1. CASE Idle(c)
      BY <2>0, <3>1, IdleStep
    <3>. QED
      BY <2>4, <3>1 DEF Send, Active
  <2>6. cmd[c].run \in Runs /\ known[c[1]][cmd[c].run] = "own"
    BY <2>0, <2>5 DEF HandleInv
  <2>. QED
    BY <2>0, <2>5, <2>6 DEF Fits, steerable, HandleInv
<1>. QED
  BY <1>1, RunsAreSound, PTL DEF Spec, ControlIsCurrent
=============================================================================
