--------------------------- MODULE RunStoreProofs ---------------------------
(***************************************************************************)
(* Proofs about the store of a run and its lineage, for every program and  *)
(* any number of runs.                                                     *)
(*                                                                         *)
(* StoreInv follows an effect and an answer from the worker to the disk:   *)
(* whatever was sent to the world is in the journal before, an answer      *)
(* from behind an effect lies beside the journal of that effect, and the   *)
(* counts of the checkpoint trail the stored answers by the workers that   *)
(* have not counted theirs yet.                                            *)
(***************************************************************************)
EXTENDS RunStore, FiniteSetTheorems, SequenceTheorems, TLAPS

Node == UNION {Branches[o] : o \in Occs}
Labels == {"none", "ready", "started", "asking", "storing", "counting", "journaled",
           "performing", "completed", "answered", "checkpointing", "ok"}
StoreDir == [parent : Nat, op : {"none", "root", "restart", "resume", "fork"}, local : BOOLEAN,
             answers : SUBSET Record, effects : SUBSET (Occs \X {"started", "completed"}),
             torn : BOOLEAN, checkpoint : {None} \cup Counts, ended : BOOLEAN]

BaseTypes ==
  /\ program \in Programs
  /\ disk \in [Runs -> StoreDir] /\ cur \in 0..MaxRuns
  /\ nodes \in Seq(Node) /\ Len(nodes) <= Len(Branches)
  /\ pc \in [Occs -> Labels] /\ val \in [Occs -> Values \cup {None}]
  /\ counts \in Counts /\ read \in [Occs -> Counts \cup {None}]

(* A worker exists for each node reached, has what its label promises, and *)
(* everything before it in the order of the plan has succeeded.            *)
Preceded(o) ==
  \A p \in 1..(o-1) : nodes[o].effect \/ nodes[p].effect => pc[p] = "ok"

WorkerInv ==
  /\ cur = 0 => nodes = << >>
  /\ \A o \in Occs : pc[o] = "none" <=> o > Len(nodes)
  /\ \A o \in Occs :
       /\ pc[o] = "storing" => val[o] \in Values
       /\ pc[o] = "checkpointing" => read[o] \in Counts
       /\ pc[o] \in {"asking", "storing", "counting"} => ~nodes[o].effect
       /\ pc[o] \in {"journaled", "performing", "completed"} => nodes[o].effect
       /\ pc[o] \notin {"none", "ready"} => Preceded(o)

(* An effect that got past its journal record is in the journal.           *)
JournalInv ==
  /\ \A o \in 1..Len(nodes) :
       nodes[o].effect /\ pc[o] \notin {"none", "ready", "started"}
         => <<o, "started">> \in disk[cur].effects
  /\ cur # 0 /\ nodes = << >> => disk[cur].effects = {}
  /\ \A r \in Runs, o \in Occs :
       <<r, o>> \in dispatched => <<o, "started">> \in disk[r].effects

(* Runs are numbered as they are launched, and only the last one may be    *)
(* live.                                                                   *)
Newest(k) ==
  /\ \A r \in Runs : disk[r].op # "none" <=> r <= k
  /\ cur # 0 => cur = k

LineageInv ==
  /\ \E k \in 0..MaxRuns : Newest(k)
  /\ \A r \in Runs :
       /\ disk[r].parent < r
       /\ disk[r].op = "none" => disk[r].effects = {}
       /\ disk[r].op \in {"resume", "fork"} => disk[r].parent # 0
  /\ EffectsNeverReplayed

(* Stored answers: one for each key, finitely many, and one from behind an *)
(* effect lies beside the journal of an effect.                            *)
Keyed(answers) ==
  /\ IsFiniteSet(answers)
  /\ \A a, b \in answers : a.q = b.q /\ a.epoch = b.epoch => a = b

AnswerInv ==
  /\ \A r \in Runs : Keyed(disk[r].answers)
  /\ \A r \in Runs : disk[r].effects = {} => \A a \in disk[r].answers : a.epoch = 0
  /\ PersonAnswersAreLocal

(* A question that is being asked is not stored yet, and has one owner.    *)
SameKey(o, p) == nodes[o].q = nodes[p].q /\ Epoch(o) = Epoch(p)
InFlight == {"asking", "storing", "counting"}

FlightInv ==
  /\ \A o \in Occs : pc[o] \in {"asking", "storing"} => Stored(o) = {}
  /\ \A o, p \in Occs : pc[o] \in InFlight /\ pc[p] \in InFlight /\ SameKey(o, p) => o = p

(* The counts in memory trail the answers by the workers about to count,   *)
(* and somebody is still going to write the counts that the checkpoint     *)
(* has not got.                                                            *)
Counting == {o \in Occs : pc[o] = "counting"}

NoEffectCounted ==
  disk[cur].effects = {} =>
    /\ counts.effects = 0
    /\ \A o \in Occs : pc[o] = "checkpointing" => read[o].effects = 0
    /\ disk[cur].checkpoint # None => disk[cur].checkpoint.effects = 0

Trails ==
  /\ \A o \in Occs : pc[o] = "checkpointing" => read[o].answers <= counts.answers
  /\ disk[cur].checkpoint # None => disk[cur].checkpoint.answers <= counts.answers
  /\ \/ \A o \in Occs : pc[o] \notin {"answered", "checkpointing", "ok"}
     \/ \E o \in Occs : pc[o] = "answered"
     \/ \E o \in Occs : pc[o] = "checkpointing" /\ read[o].answers = counts.answers
     \/ disk[cur].checkpoint # None /\ disk[cur].checkpoint.answers = counts.answers

CountInv ==
  cur # 0 =>
    /\ ~disk[cur].ended
    /\ counts.answers + Cardinality(Counting) = Cardinality(disk[cur].answers)
    /\ NoEffectCounted /\ Trails

(* The inductive invariant.                                                *)
StoreInv == /\ BaseTypes /\ WorkerInv /\ JournalInv /\ LineageInv /\ AnswerInv
            /\ FlightInv /\ CountInv /\ CompletedRunCounts

-----------------------------------------------------------------------------
(* The constants of a program and the types of the state.                  *)

(* What the assumptions say of the program that was chosen.                *)
LEMMA ProgramFacts ==
  ASSUME program \in Programs
  PROVE  /\ Len(Branches) \in Nat \ {0} /\ Occs = 1..Len(Branches)
         /\ MaxRuns \in Nat \ {0} /\ Runs = 1..MaxRuns
         /\ \A b \in Node : b.effect \in BOOLEAN /\ b.q \in Questions
BY ProgramsAssumption DEF Branches, Occs, MaxRuns, Runs, Node

(* The nodes reached are nodes of the program.                             *)
LEMMA NodeFacts ==
  ASSUME BaseTypes
  PROVE  /\ Len(nodes) \in Nat /\ 1..Len(nodes) \subseteq Occs
         /\ \A o \in 1..Len(nodes) : /\ nodes[o] \in Node /\ nodes[o].q \in Questions
                                     /\ nodes[o].effect \in BOOLEAN
BY ProgramFacts DEF BaseTypes

(* The program does not change, and neither does what depends on it.       *)
LEMMA Fixed ==
  ASSUME program' = program
  PROVE  /\ Branches' = Branches /\ Occs' = Occs /\ MaxRuns' = MaxRuns /\ Runs' = Runs
         /\ Node' = Node /\ Record' = Record /\ StoreDir' = StoreDir
BY DEF Branches, Occs, MaxRuns, Runs, Node, Record, StoreDir

(* An epoch is the number of effects before an occurrence.                 *)
LEMMA EpochFacts ==
  ASSUME BaseTypes, NEW o \in 1..Len(nodes)
  PROVE  /\ Epoch(o) \in 0..Len(Branches)
         /\ Epoch(o) # 0 => \E p \in 1..(o-1) : nodes[p].effect
<1>. DEFINE E == {p \in 1..(o-1) : nodes[p].effect}
<1>1. o \in Nat /\ o - 1 \in 0..Len(Branches) /\ Len(Branches) \in Nat
  BY NodeFacts, ProgramFacts DEF BaseTypes
<1>2. IsFiniteSet(1..(o-1)) /\ Cardinality(1..(o-1)) = o - 1
  <2>1. 1 \in Int /\ o - 1 \in Int /\ (IF 1 > o - 1 THEN 0 ELSE o - 1 - 1 + 1) = o - 1
    BY <1>1
  <2>. HIDE <1>1
  <2>. QED  BY <2>1, FS_Interval
<1>3. IsFiniteSet(E) /\ Cardinality(E) <= o - 1 /\ Cardinality(E) \in Nat
  BY <1>1, <1>2, FS_Subset, FS_CardinalityType
<1>4. Cardinality(E) # 0 => E # {}
  BY FS_EmptySet
<1>. QED  BY <1>1, <1>3, <1>4 DEF Epoch

(* The epochs of the nodes reached do not change when one more is.         *)
LEMMA EpochStays ==
  ASSUME BaseTypes, NEW o \in 1..Len(nodes),
         nodes' = nodes \/ \E b \in Node : nodes' = Append(nodes, b)
  PROVE  Epoch(o)' = Epoch(o) /\ nodes'[o] = nodes[o]
<1>1. \A p \in 1..Len(nodes) : nodes'[p] = nodes[p]
  BY NodeFacts DEF BaseTypes
<1>2. {p \in 1..(o-1) : nodes'[p].effect} = {p \in 1..(o-1) : nodes[p].effect}
  BY <1>1, NodeFacts
<1>. QED  BY <1>1, <1>2 DEF Epoch

(* The occurrences are finitely many, so are those of any kind.            *)
LEMMA CountingFacts ==
  ASSUME BaseTypes
  PROVE  IsFiniteSet(Counting) /\ Cardinality(Counting) \in Nat
<1>1. IsFiniteSet(Occs)
  BY ProgramFacts, FS_Interval DEF BaseTypes
<1>2. Counting \subseteq Occs
  BY DEF Counting
<1>. QED  BY <1>1, <1>2, FS_Subset, FS_CardinalityType

-----------------------------------------------------------------------------
(* What every step of a worker has in common.                              *)

(* A worker moves on in the process of the live run and undoes nothing.    *)
Moves(o) ==
  /\ cur \in Runs /\ o \in 1..Len(nodes) /\ o \in Occs
  /\ program' = program /\ cur' = cur /\ nodes' = nodes
  /\ pc[o] \notin {"none", "ok"} /\ pc'[o] \in Labels \ {"none", "ready"}
  /\ pc' \in [Occs -> Labels]
  /\ \A p \in Occs : p # o => pc'[p] = pc[p]
  /\ Preceded(o)

(* Every step of a worker is such a move.                                  *)
LEMMA WorkerMoves ==
  ASSUME StoreInv, NEW o \in Occs, Worker(o)
  PROVE  Moves(o)
<1>. USE DEF StoreInv
<1>1. /\ pc[o] \notin {"none", "ok"} /\ pc'[o] \in Labels \ {"none", "ready"}
      /\ pc' \in [Occs -> Labels] /\ \A p \in Occs : p # o => pc'[p] = pc[p]
      /\ program' = program /\ cur' = cur /\ nodes' = nodes
  BY DEF BaseTypes, Labels, Worker, Start, Reuse, Ask, Answer, StoreAnswer, Count, JournalStart,
         Dispatch, Gap, JournalComplete, ReadCounts, WriteCheckpoint, Goto
<1>2. o \in 1..Len(nodes) /\ cur \in Runs
  BY <1>1, ProgramFacts, NodeFacts DEF BaseTypes, WorkerInv
<1>3. Preceded(o)
  <2>1. CASE pc[o] # "ready"
    BY <1>1, <2>1 DEF WorkerInv
  <2>2. CASE Start(o)
    <3>1. \A p \in Order!Before(o) : pc[p] = "ok"
      BY <2>2 DEF Start
    <3>2. \A p \in 1..(o-1) : nodes[o].effect \/ nodes[p].effect => p \in Order!Before(o)
      BY <1>2, NodeFacts DEF Order!Before, Order!Effects, BaseTypes
    <3>. QED  BY <3>1, <3>2 DEF Preceded
  <2>. QED
    BY <2>1, <2>2 DEF Worker, Start, Reuse, Ask, Answer, StoreAnswer, Count, JournalStart,
         Dispatch, Gap, JournalComplete, ReadCounts, WriteCheckpoint
<1>. QED  BY <1>1, <1>2, <1>3 DEF Moves

(* What a step of a worker does to the directory of its run: the runs      *)
(* before are left alone, the journal grows, and the rest is what the run  *)
(* was launched with.                                                      *)
DiskMoves ==
  /\ disk' \in [Runs -> StoreDir]
  /\ \A r \in Runs : r # cur => disk'[r] = disk[r]
  /\ \A r \in Runs : /\ disk'[r].parent = disk[r].parent /\ disk'[r].op = disk[r].op
                      /\ disk'[r].local = disk[r].local /\ disk'[r].ended = disk[r].ended
                      /\ disk[r].effects \subseteq disk'[r].effects

(* The record of an answer is added: its key was not stored.               *)
NewAnswer(o) ==
  [q |-> nodes[o].q, epoch |-> Epoch(o), value |-> val[o], occ |-> o,
   by |-> IF disk[cur].local THEN "local" ELSE "engine"]

(* StoreAnswer adds the record and replaces none.                          *)
LEMMA StoreAnswerDisk ==
  ASSUME StoreInv, NEW o \in Occs, StoreAnswer(o), Moves(o)
  PROVE  /\ DiskMoves /\ NewAnswer(o) \in Record
         /\ disk'[cur].answers = disk[cur].answers \cup {NewAnswer(o)}
         /\ disk'[cur].effects = disk[cur].effects
         /\ disk'[cur].checkpoint = disk[cur].checkpoint
<1>. USE DEF StoreInv
<1>1. disk[cur] \in StoreDir /\ cur \in Runs /\ Stored(o) = {}
  BY DEF BaseTypes, Moves, FlightInv, StoreAnswer
<1>2. NewAnswer(o) \in Record
  <2>1. val[o] \in Values /\ nodes[o].q \in Questions /\ Epoch(o) \in 0..Len(Branches)
    BY NodeFacts, EpochFacts DEF Moves, WorkerInv, StoreAnswer
  <2>2. (IF disk[cur].local THEN "local" ELSE "engine") \in {"engine", "local", "edit"}
    OBVIOUS
  <2>. QED  BY <2>1, <2>2 DEF NewAnswer, Record
<1>. DEFINE A == disk[cur].answers \cup {NewAnswer(o)}
            D == [disk[cur] EXCEPT !.answers = A]
<1>3. A \subseteq Record
  BY <1>1, <1>2 DEF StoreDir
<1>4. disk' = [disk EXCEPT ![cur] = D]
  <2>1. disk' = [disk EXCEPT ![cur].answers = {NewAnswer(o)} \cup (@ \ Stored(o))]
    BY Zenon DEF StoreAnswer, NewAnswer
  <2>2. {NewAnswer(o)} \cup (disk[cur].answers \ Stored(o)) = A
    BY <1>1
  <2>. QED  BY <2>1, <2>2, Zenon
<1>. HIDE DEF A
<1>5. /\ D \in StoreDir /\ D.answers = A /\ D.effects = disk[cur].effects
      /\ D.checkpoint = disk[cur].checkpoint /\ D.parent = disk[cur].parent
      /\ D.op = disk[cur].op /\ D.local = disk[cur].local /\ D.ended = disk[cur].ended
  BY <1>1, <1>3 DEF StoreDir
<1>. HIDE DEF D
<1>6. DiskMoves
  BY <1>1, <1>4, <1>5 DEF DiskMoves, BaseTypes
<1>7. disk'[cur] = D
  BY <1>1, <1>4 DEF BaseTypes
<1>. QED  BY <1>2, <1>5, <1>6, <1>7 DEF A

(* A record is appended to the journal of effects.                         *)
LEMMA JournalDisk ==
  ASSUME StoreInv, NEW o \in Occs, Moves(o), NEW state \in {"started", "completed"},
         disk' = [disk EXCEPT ![cur].effects = @ \cup {<<o, state>>}]
  PROVE  /\ DiskMoves
         /\ disk'[cur].answers = disk[cur].answers
         /\ disk'[cur].effects = disk[cur].effects \cup {<<o, state>>}
         /\ disk'[cur].checkpoint = disk[cur].checkpoint
<1>. USE DEF StoreInv
<1>1. disk[cur] \in StoreDir /\ cur \in Runs
  BY DEF BaseTypes, Moves
<1>. DEFINE E == disk[cur].effects \cup {<<o, state>>}
            D == [disk[cur] EXCEPT !.effects = E]
<1>2. E \subseteq Occs \X {"started", "completed"}
  BY <1>1 DEF StoreDir
<1>3. disk' = [disk EXCEPT ![cur] = D]
  BY Zenon
<1>4. disk[cur].effects \subseteq E
  OBVIOUS
<1>. HIDE DEF E
<1>5. /\ D \in StoreDir /\ D.answers = disk[cur].answers /\ D.effects = E
      /\ D.checkpoint = disk[cur].checkpoint /\ D.parent = disk[cur].parent
      /\ D.op = disk[cur].op /\ D.local = disk[cur].local /\ D.ended = disk[cur].ended
  BY <1>1, <1>2 DEF StoreDir
<1>. HIDE DEF D
<1>6. DiskMoves
  BY <1>1, <1>3, <1>4, <1>5 DEF DiskMoves, BaseTypes
<1>7. disk'[cur] = D
  BY <1>1, <1>3 DEF BaseTypes
<1>. QED  BY <1>5, <1>6, <1>7 DEF E

(* The checkpoint is replaced by the larger counts.                        *)
LEMMA MergedFacts ==
  ASSUME NEW prior \in {None} \cup Counts, NEW c \in Counts
  PROVE  /\ Merged(prior, c) \in Counts
         /\ prior = None => Merged(prior, c) = c
         /\ prior # None =>
              /\ Merged(prior, c).answers = Larger(prior.answers, c.answers)
              /\ Merged(prior, c).effects = Larger(prior.effects, c.effects)
BY DEF Merged, Larger, Counts

(* WriteCheckpoint changes nothing else in the directory.                  *)
LEMMA CheckpointDisk ==
  ASSUME StoreInv, NEW o \in Occs, WriteCheckpoint(o), Moves(o)
  PROVE  /\ DiskMoves /\ read[o] \in Counts
         /\ disk[cur].checkpoint \in {None} \cup Counts
         /\ disk'[cur].answers = disk[cur].answers
         /\ disk'[cur].effects = disk[cur].effects
         /\ disk'[cur].checkpoint = Merged(disk[cur].checkpoint, read[o])
<1>. USE DEF StoreInv
<1>1. disk[cur] \in StoreDir /\ cur \in Runs /\ read[o] \in Counts
  BY DEF BaseTypes, Moves, WorkerInv, WriteCheckpoint
<1>. DEFINE C == Merged(disk[cur].checkpoint, read[o])
            D == [disk[cur] EXCEPT !.checkpoint = C]
<1>2. C \in Counts /\ disk[cur].checkpoint \in {None} \cup Counts
  BY <1>1, MergedFacts DEF StoreDir
<1>3. disk' = [disk EXCEPT ![cur] = D]
  BY Zenon DEF WriteCheckpoint
<1>. HIDE DEF C
<1>5. /\ D \in StoreDir /\ D.answers = disk[cur].answers /\ D.effects = disk[cur].effects
      /\ D.checkpoint = C /\ D.parent = disk[cur].parent
      /\ D.op = disk[cur].op /\ D.local = disk[cur].local /\ D.ended = disk[cur].ended
  BY <1>1, <1>2 DEF StoreDir
<1>. HIDE DEF D
<1>6. DiskMoves
  BY <1>1, <1>3, <1>5 DEF DiskMoves, BaseTypes
<1>7. disk'[cur] = D
  BY <1>1, <1>3 DEF BaseTypes
<1>. QED  BY <1>1, <1>2, <1>5, <1>6, <1>7 DEF C

-----------------------------------------------------------------------------
(* The steps of a worker keep the invariant.                               *)

(* The steps that do not write to the disk.                                *)
Local(o) == \/ Start(o) \/ Reuse(o) \/ Ask(o) \/ Answer(o) \/ Count(o) \/ Dispatch(o) \/ Gap(o)
            \/ ReadCounts(o)

(* They leave the directories as they are.                                 *)
LEMMA LocalDisk ==
  ASSUME StoreInv, NEW o \in Occs, Local(o)
  PROVE  DiskMoves /\ disk' = disk
<1>1. disk' = disk
  BY DEF Local, Start, Reuse, Ask, Answer, Count, Dispatch, Gap, ReadCounts
<1>. QED  BY <1>1 DEF DiskMoves, StoreInv, BaseTypes

(* The types of the state after a step of a worker.                        *)
LEMMA WorkerTypes ==
  ASSUME StoreInv, NEW o \in Occs, Worker(o), Moves(o)
  PROVE  BaseTypes' /\ DiskMoves
<1>. USE DEF StoreInv
<1>1. DiskMoves
  <2>1. CASE Local(o)
    BY <2>1, LocalDisk
  <2>2. CASE StoreAnswer(o)
    BY <2>2, StoreAnswerDisk
  <2>3. CASE JournalStart(o)
    BY <2>3, JournalDisk DEF JournalStart
  <2>4. CASE JournalComplete(o)
    BY <2>4, JournalDisk DEF JournalComplete
  <2>5. CASE WriteCheckpoint(o)
    BY <2>5, CheckpointDisk
  <2>. QED  BY <2>1, <2>2, <2>3, <2>4, <2>5 DEF Worker, Local
<1>2. val' \in [Occs -> Values \cup {None}]
  <2>1. CASE Reuse(o)
    <3>1. PICK a \in Stored(o) : val' = [val EXCEPT ![o] = a.value]
      BY <2>1 DEF Reuse
    <3>2. a.value \in Values
      BY DEF Stored, Moves, BaseTypes, StoreDir, Record
    <3>. QED  BY <3>1, <3>2 DEF BaseTypes
  <2>2. CASE ~Reuse(o)
    BY <2>2 DEF BaseTypes, Worker, Start, Ask, Answer, StoreAnswer, Count, JournalStart,
         Dispatch, Gap, JournalComplete, ReadCounts, WriteCheckpoint
  <2>. QED  BY <2>1, <2>2
<1>3. counts' \in Counts
  <2>1. CASE Count(o)
    BY <2>1 DEF BaseTypes, Count, Counts
  <2>2. CASE ~Count(o)
    BY <2>2 DEF BaseTypes, Worker, Start, Reuse, Ask, Answer, StoreAnswer, JournalStart,
         Dispatch, Gap, JournalComplete, ReadCounts, WriteCheckpoint
  <2>. QED  BY <2>1, <2>2
<1>4. read' \in [Occs -> Counts \cup {None}]
  BY DEF BaseTypes, Worker, Start, Reuse, Ask, Answer, StoreAnswer, Count, JournalStart,
         Dispatch, Gap, JournalComplete, ReadCounts, WriteCheckpoint
<1>5. Counts' = Counts
  BY DEF Counts
<1>. QED  BY <1>1, <1>2, <1>3, <1>4, <1>5, Fixed DEF BaseTypes, DiskMoves, Moves

(* The labels keep their promises.                                         *)
LEMMA WorkerKeepsWorkers ==
  ASSUME StoreInv, NEW o \in Occs, Worker(o), Moves(o), BaseTypes'
  PROVE  WorkerInv'
<1>. USE DEF StoreInv
<1>0. Occs' = Occs
  BY Fixed DEF Moves
<1>1. /\ pc'[o] = "storing" => val'[o] \in Values
      /\ pc'[o] = "checkpointing" => read'[o] \in Counts
      /\ pc'[o] \in {"asking", "storing", "counting"} => ~nodes[o].effect
      /\ pc'[o] \in {"journaled", "performing", "completed"} => nodes[o].effect
      /\ \A p \in Occs : p # o => val'[p] = val[p] /\ read'[p] = read[p]
  BY DEF BaseTypes, WorkerInv, Worker, Start, Reuse, Ask, Answer, StoreAnswer, Count, JournalStart,
         Dispatch, Gap, JournalComplete, ReadCounts, WriteCheckpoint, Goto
<1>2. \A p \in Occs : Preceded(p) => Preceded(p)'
  <2>1. \A i \in Occs : pc[i] = "ok" => pc'[i] = "ok"
    BY DEF Moves
  <2>2. SUFFICES ASSUME NEW p \in Occs, Preceded(p), NEW i \in 1..(p-1),
                        nodes[p].effect \/ nodes[i].effect
                 PROVE  pc'[i] = "ok"
    BY DEF Preceded, Moves
  <2>3. i \in Occs
    BY ProgramFacts DEF BaseTypes
  <2>. QED  BY <2>1, <2>2, <2>3 DEF Preceded
<1>3. \A p \in Occs : pc'[p] \notin {"none", "ready"} => Preceded(p)'
  BY <1>2 DEF Moves, WorkerInv
<1>4. \A p \in Occs : pc'[p] = "none" <=> p > Len(nodes')
  BY NodeFacts, ProgramFacts DEF Moves, WorkerInv, BaseTypes
<1>5. Counts' = Counts
  BY DEF Counts
<1>6. cur' = 0 => nodes' = << >>
  BY DEF Moves, WorkerInv
<1>7. ASSUME NEW p \in Occs
      PROVE  /\ pc'[p] = "storing" => val'[p] \in Values
             /\ pc'[p] = "checkpointing" => read'[p] \in Counts
             /\ pc'[p] \in {"asking", "storing", "counting"} => ~nodes'[p].effect
             /\ pc'[p] \in {"journaled", "performing", "completed"} => nodes'[p].effect
  BY <1>1 DEF Moves, WorkerInv
<1>. QED  BY <1>0, <1>3, <1>4, <1>5, <1>6, <1>7 DEF WorkerInv

(* An effect is sent to the world after its record.                        *)
LEMMA WorkerKeepsJournal ==
  ASSUME StoreInv, NEW o \in Occs, Worker(o), Moves(o), DiskMoves
  PROVE  JournalInv'
<1>. USE DEF StoreInv
<1>0. Occs' = Occs /\ Runs' = Runs
  BY Fixed DEF Moves
<1>1. nodes[o].effect /\ pc'[o] \notin {"none", "ready", "started"}
        => <<o, "started">> \in disk'[cur].effects
  <2>1. CASE JournalStart(o)
    BY <2>1, JournalDisk DEF JournalStart
  <2>2. CASE pc[o] # "started" /\ pc[o] # "ready"
    BY <2>2 DEF Moves, JournalInv, DiskMoves
  <2>3. CASE ~JournalStart(o) /\ pc[o] \in {"started", "ready"}
    BY <2>3 DEF Moves, BaseTypes, Worker, Start, Reuse, Ask, Answer, StoreAnswer, Count, JournalStart,
         Dispatch, Gap, JournalComplete, ReadCounts, WriteCheckpoint, Goto
  <2>. QED  BY <2>1, <2>2, <2>3
<1>2. ASSUME NEW r \in Runs, NEW p \in Occs, <<r, p>> \in dispatched'
      PROVE  <<p, "started">> \in disk'[r].effects
  <2>1. CASE <<r, p>> \in dispatched
    BY <2>1 DEF JournalInv, DiskMoves
  <2>2. CASE <<r, p>> \notin dispatched
    <3>1. Dispatch(o) /\ r = cur /\ p = o
      BY <1>2, <2>2 DEF Worker, Start, Reuse, Ask, Answer, StoreAnswer, Count, JournalStart,
         Dispatch, Gap, JournalComplete, ReadCounts, WriteCheckpoint
    <3>2. <<o, "started">> \in disk[cur].effects
      BY <3>1 DEF Dispatch, WorkerInv, JournalInv, Moves
    <3>. QED  BY <3>1, <3>2 DEF DiskMoves
  <2>. QED  BY <2>1, <2>2
<1>3. ASSUME NEW p \in 1..Len(nodes), nodes[p].effect, pc'[p] \notin {"none", "ready", "started"}
      PROVE  <<p, "started">> \in disk'[cur].effects
  <2>1. CASE p = o
    BY <1>1, <1>3, <2>1
  <2>2. CASE p # o
    BY <1>3, <2>2, NodeFacts DEF JournalInv, DiskMoves, Moves
  <2>. QED  BY <2>1, <2>2
<1>4. nodes # << >>
  BY DEF Moves
<1>. QED  BY <1>0, <1>2, <1>3, <1>4 DEF JournalInv, Moves

(* No effect of the live run is one of a parent.                           *)
LEMMA WorkerKeepsLineage ==
  ASSUME StoreInv, NEW o \in Occs, Worker(o), Moves(o), DiskMoves
  PROVE  LineageInv'
<1>. USE DEF StoreInv
<1>0. Occs' = Occs /\ Runs' = Runs /\ MaxRuns' = MaxRuns
  BY Fixed DEF Moves
<1>1. PICK k \in 0..MaxRuns : Newest(k)
  BY DEF LineageInv
<1>2. Newest(k)'
  BY <1>0, <1>1 DEF Newest, DiskMoves, Moves
<1>3. cur = k /\ k \in Nat /\ cur # 0
  BY <1>1, ProgramFacts DEF Newest, Moves, BaseTypes
<1>4. ASSUME NEW r \in Runs
      PROVE  /\ disk'[r].parent < r
             /\ disk'[r].op = "none" => disk'[r].effects = {}
             /\ disk'[r].op \in {"resume", "fork"} => disk'[r].parent # 0
  <2>1. disk[cur].op # "none"
    BY <1>1, <1>3, ProgramFacts DEF Newest, Moves, BaseTypes
  <2>. QED  BY <2>1 DEF LineageInv, DiskMoves
<1>5. ASSUME NEW c \in Runs, disk'[c].op \in {"resume", "fork"}, NEW p \in Occs
      PROVE  <<disk'[c].parent, p>> \notin dispatched'
  <2>1. <<disk[c].parent, p>> \notin dispatched
    BY <1>5 DEF DiskMoves, LineageInv, EffectsNeverReplayed
  <2>2. disk[c].parent # cur
    <3>1. c <= cur /\ disk[c].parent < c
      BY <1>1, <1>3, <1>5 DEF DiskMoves, LineageInv, Newest
    <3>2. disk[c].parent \in Nat /\ c \in Nat /\ cur \in Nat
      BY ProgramFacts DEF BaseTypes, StoreDir
    <3>. QED  BY <3>1, <3>2
  <2>3. dispatched' \subseteq dispatched \cup {<<cur, o>>}
    BY DEF Worker, Start, Reuse, Ask, Answer, StoreAnswer, Count, JournalStart,
         Dispatch, Gap, JournalComplete, ReadCounts, WriteCheckpoint
  <2>. QED  BY <2>1, <2>2, <2>3 DEF DiskMoves
<1>. QED  BY <1>0, <1>2, <1>4, <1>5 DEF LineageInv, EffectsNeverReplayed

(* Only StoreAnswer changes the stored answers.                            *)
LEMMA AnswersStay ==
  ASSUME StoreInv, NEW o \in Occs, Worker(o), ~StoreAnswer(o), Moves(o), DiskMoves
  PROVE  \A r \in Runs : disk'[r].answers = disk[r].answers
<1>1. disk'[cur].answers = disk[cur].answers
  <2>1. CASE Local(o)
    BY <2>1, LocalDisk
  <2>2. CASE JournalStart(o)
    BY <2>2, JournalDisk DEF JournalStart
  <2>3. CASE JournalComplete(o)
    BY <2>3, JournalDisk DEF JournalComplete
  <2>4. CASE WriteCheckpoint(o)
    BY <2>4, CheckpointDisk
  <2>. QED  BY <2>1, <2>2, <2>3, <2>4 DEF Worker, Local
<1>. QED  BY <1>1 DEF DiskMoves

(* An answer from behind an effect finds that effect in the journal.       *)
LEMMA WorkerKeepsAnswers ==
  ASSUME StoreInv, NEW o \in Occs, Worker(o), Moves(o), DiskMoves
  PROVE  AnswerInv'
<1>. USE DEF StoreInv
<1>0. Runs' = Runs
  BY Fixed DEF Moves
<1>1. CASE ~StoreAnswer(o)
  BY <1>0, <1>1, AnswersStay DEF AnswerInv, PersonAnswersAreLocal, DiskMoves
<1>2. CASE StoreAnswer(o)
  <2>. DEFINE a == NewAnswer(o)
  <2>1. /\ disk'[cur].answers = disk[cur].answers \cup {a}
        /\ disk'[cur].effects = disk[cur].effects
    BY <1>2, StoreAnswerDisk
  <2>2. /\ a.q = nodes[o].q /\ a.epoch = Epoch(o)
        /\ disk[cur].local => a.by = "local"
    BY DEF NewAnswer
  <2>3. \A b \in disk[cur].answers : ~(b.q = a.q /\ b.epoch = a.epoch)
    BY <1>2, <2>2 DEF StoreAnswer, FlightInv, Stored
  <2>4. Epoch(o) # 0 => disk[cur].effects # {}
    <3>1. SUFFICES ASSUME Epoch(o) # 0 PROVE disk[cur].effects # {}
      OBVIOUS
    <3>2. PICK p \in 1..(o-1) : nodes[p].effect
      BY <3>1, EpochFacts DEF Moves
    <3>3. pc[p] = "ok" /\ p \in 1..Len(nodes)
      BY <3>2, NodeFacts DEF Moves, Preceded
    <3>. QED  BY <3>2, <3>3 DEF JournalInv
  <2>. HIDE DEF a
  <2>5. Keyed(disk'[cur].answers)
    <3>1. IsFiniteSet(disk[cur].answers)
      BY DEF AnswerInv, Keyed, Moves
    <3>2. IsFiniteSet(disk'[cur].answers)
      BY <2>1, <3>1, FS_AddElement
    <3>. QED  BY <2>1, <2>3, <3>2 DEF Keyed, AnswerInv, Moves
  <2>6. disk'[cur].effects = {} => \A b \in disk'[cur].answers : b.epoch = 0
    BY <2>1, <2>2, <2>4 DEF AnswerInv, Moves
  <2>7. disk'[cur].local =>
          \A b \in disk'[cur].answers : b.q \in Persons => b.by \in {"local", "edit"}
    BY <2>1, <2>2 DEF AnswerInv, PersonAnswersAreLocal, Moves, DiskMoves
  <2>. QED  BY <1>0, <2>5, <2>6, <2>7 DEF AnswerInv, PersonAnswersAreLocal, DiskMoves
<1>. QED  BY <1>1, <1>2

(* A question has one owner until it is counted.                           *)
LEMMA WorkerKeepsFlights ==
  ASSUME StoreInv, NEW o \in Occs, Worker(o), Moves(o), DiskMoves
  PROVE  FlightInv'
<1>. USE DEF StoreInv
<1>0. Occs' = Occs /\ cur' = cur /\ nodes' = nodes
  BY Fixed DEF Moves
<1>1. \A p \in Occs : Epoch(p)' = Epoch(p)
  BY <1>0 DEF Epoch
<1>2. \A p, i \in Occs : SameKey(p, i)' <=> SameKey(p, i)
  BY <1>0, <1>1 DEF SameKey
<1>3. \A p, i \in Occs : pc'[p] \in InFlight /\ pc'[i] \in InFlight /\ SameKey(p, i) => p = i
  <2>1. CASE Ask(o)
    <3>1. \A p \in Occs : pc[p] \in InFlight => ~SameKey(p, o)
      <4>1. \A p \in 1..Len(nodes) : pc[p] \in InFlight =>
              ~(nodes[p].q = nodes[o].q /\ Epoch(p) = Epoch(o))
        BY <2>1 DEF Ask, InFlight
      <4>2. \A p \in Occs : pc[p] # "none" => p \in 1..Len(nodes)
        BY NodeFacts, ProgramFacts DEF WorkerInv, BaseTypes
      <4>. QED  BY <4>1, <4>2 DEF SameKey, InFlight
    <3>. QED  BY <3>1 DEF FlightInv, Moves, SameKey
  <2>2. CASE ~Ask(o)
    <3>1. pc'[o] \in InFlight => pc[o] \in InFlight
      BY <2>2 DEF InFlight, BaseTypes, Worker, Start, Reuse, Answer, StoreAnswer, Count, JournalStart,
         Dispatch, Gap, JournalComplete, ReadCounts, WriteCheckpoint, Goto
    <3>. QED  BY <3>1 DEF FlightInv, Moves
  <2>. QED  BY <2>1, <2>2
<1>4. ASSUME NEW p \in Occs, pc'[p] \in {"asking", "storing"}
      PROVE  Stored(p)' = {}
  <2>1. Stored(p) = {}
    <3>1. CASE p # o
      BY <1>4, <3>1 DEF FlightInv, Moves
    <3>2. CASE p = o
      BY <1>4, <3>2 DEF FlightInv, BaseTypes, Worker, Start, Reuse, Ask, Answer, StoreAnswer, Count,
         JournalStart, Dispatch, Gap, JournalComplete, ReadCounts, WriteCheckpoint, Goto
    <3>. QED  BY <3>1, <3>2
  <2>2. CASE ~StoreAnswer(o)
    <3>1. disk'[cur].answers = disk[cur].answers
      BY <2>2, AnswersStay DEF Moves
    <3>. QED  BY <1>0, <1>1, <2>1, <3>1 DEF Stored
  <2>3. CASE StoreAnswer(o)
    <3>1. disk'[cur].answers = disk[cur].answers \cup {NewAnswer(o)}
      BY <2>3, StoreAnswerDisk
    <3>2. p # o /\ pc[p] \in InFlight /\ pc[o] \in InFlight
      BY <1>4, <2>3 DEF StoreAnswer, Goto, BaseTypes, Moves, InFlight
    <3>3. ~SameKey(p, o)
      BY <3>2 DEF FlightInv
    <3>4. NewAnswer(o).q = nodes[o].q /\ NewAnswer(o).epoch = Epoch(o)
      BY DEF NewAnswer
    <3>. QED  BY <1>0, <1>1, <2>1, <3>1, <3>3, <3>4 DEF Stored, SameKey
  <2>. QED  BY <2>2, <2>3
<1>. QED  BY <1>0, <1>2, <1>3, <1>4 DEF FlightInv

(* Every stored answer was counted or is about to be.                      *)
LEMMA WorkerKeepsSum ==
  ASSUME StoreInv, NEW o \in Occs, Worker(o), Moves(o), DiskMoves, BaseTypes'
  PROVE  counts'.answers + Cardinality(Counting') = Cardinality(disk'[cur].answers)
<1>. USE DEF StoreInv
<1>0. Occs' = Occs /\ cur # 0
  BY Fixed, ProgramFacts DEF Moves, BaseTypes
<1>1. counts.answers + Cardinality(Counting) = Cardinality(disk[cur].answers)
  BY <1>0 DEF CountInv
<1>2. /\ IsFiniteSet(Counting) /\ Cardinality(Counting) \in Nat
      /\ IsFiniteSet(disk[cur].answers) /\ Cardinality(disk[cur].answers) \in Nat
      /\ counts.answers \in Nat
  BY CountingFacts, FS_CardinalityType DEF AnswerInv, Keyed, Moves, BaseTypes, Counts
<1>3. CASE StoreAnswer(o)
  <2>1. /\ disk'[cur].answers = disk[cur].answers \cup {NewAnswer(o)}
        /\ counts' = counts
    BY <1>3, StoreAnswerDisk DEF StoreAnswer
  <2>2. NewAnswer(o) \notin disk[cur].answers
    <3>1. NewAnswer(o).q = nodes[o].q /\ NewAnswer(o).epoch = Epoch(o)
      BY DEF NewAnswer
    <3>. QED  BY <1>3, <3>1 DEF StoreAnswer, FlightInv, Stored
  <2>3. Counting' = Counting \cup {o} /\ o \notin Counting
    BY <1>0, <1>3 DEF StoreAnswer, Goto, Counting, BaseTypes
  <2>4. Cardinality(disk'[cur].answers) = Cardinality(disk[cur].answers) + 1
    BY <1>2, <2>1, <2>2, FS_AddElement
  <2>5. Cardinality(Counting') = Cardinality(Counting) + 1
    BY <1>2, <2>3, FS_AddElement
  <2>. QED  BY <1>1, <1>2, <2>1, <2>4, <2>5
<1>4. CASE Count(o) /\ pc[o] = "counting"
  <2>1. counts'.answers = counts.answers + 1
    BY <1>4 DEF Count, BaseTypes, Counts
  <2>2. disk'[cur].answers = disk[cur].answers
    BY <1>4 DEF Count
  <2>3. Counting' = Counting \ {o} /\ o \in Counting
    BY <1>0, <1>4 DEF Count, Goto, Counting, BaseTypes
  <2>4. Cardinality(Counting') = Cardinality(Counting) - 1
    BY <1>2, <2>3, FS_RemoveElement
  <2>. QED  BY <1>1, <1>2, <2>1, <2>2, <2>4
<1>5. CASE ~StoreAnswer(o) /\ ~(Count(o) /\ pc[o] = "counting")
  <2>1. disk'[cur].answers = disk[cur].answers
    BY <1>5, AnswersStay DEF Moves
  <2>2. counts'.answers = counts.answers /\ pc[o] # "counting" /\ pc'[o] # "counting"
    BY <1>5 DEF BaseTypes, Counts, Worker, Start, Reuse, Ask, Answer, StoreAnswer, Count,
         JournalStart, Dispatch, Gap, JournalComplete, ReadCounts, WriteCheckpoint, Goto
  <2>3. Counting' = Counting
    BY <1>0, <2>2 DEF Counting, Moves
  <2>. QED  BY <1>1, <2>1, <2>2, <2>3
<1>. QED  BY <1>3, <1>4, <1>5

(* Without an effect in the journal no effect is counted.                  *)
LEMMA WorkerKeepsEffectCount ==
  ASSUME StoreInv, NEW o \in Occs, Worker(o), Moves(o), DiskMoves, BaseTypes'
  PROVE  NoEffectCounted'
<1>. USE DEF StoreInv
<1>0. Occs' = Occs /\ cur # 0 /\ cur' = cur
  BY Fixed, ProgramFacts DEF Moves, BaseTypes
<1>. SUFFICES ASSUME disk'[cur].effects = {}
              PROVE  /\ counts'.effects = 0
                     /\ \A p \in Occs : pc'[p] = "checkpointing" => read'[p].effects = 0
                     /\ disk'[cur].checkpoint # None => disk'[cur].checkpoint.effects = 0
  BY <1>0 DEF NoEffectCounted
<1>1. disk[cur].effects = {}
  BY DEF DiskMoves, Moves
<1>2. /\ counts.effects = 0
      /\ \A p \in Occs : pc[p] = "checkpointing" => read[p].effects = 0
      /\ disk[cur].checkpoint # None => disk[cur].checkpoint.effects = 0
  BY <1>0, <1>1 DEF CountInv, NoEffectCounted
<1>3. pc[o] # "completed"
  BY <1>1 DEF WorkerInv, JournalInv, Moves
<1>4. counts'.effects = 0
  BY <1>2, <1>3 DEF BaseTypes, Counts, Worker, Start, Reuse, Ask, Answer, StoreAnswer, Count,
         JournalStart, Dispatch, Gap, JournalComplete, ReadCounts, WriteCheckpoint
<1>5. pc'[o] = "checkpointing" => read'[o] = counts
  BY DEF BaseTypes, Worker, Start, Reuse, Ask, Answer, StoreAnswer, Count,
         JournalStart, Dispatch, Gap, JournalComplete, ReadCounts, WriteCheckpoint, Goto
<1>6. \A p \in Occs : p # o => read'[p] = read[p]
  BY DEF BaseTypes, Worker, Start, Reuse, Ask, Answer, StoreAnswer, Count,
         JournalStart, Dispatch, Gap, JournalComplete, ReadCounts, WriteCheckpoint
<1>7. \A p \in Occs : pc'[p] = "checkpointing" => read'[p].effects = 0
  BY <1>2, <1>5, <1>6 DEF Moves
<1>8. disk'[cur].checkpoint # None => disk'[cur].checkpoint.effects = 0
  <2>1. CASE WriteCheckpoint(o)
    <3>1. read[o].effects = 0
      BY <1>2, <2>1 DEF WriteCheckpoint
    <3>. QED  BY <1>2, <2>1, <3>1, CheckpointDisk, MergedFacts DEF Larger
  <2>2. CASE ~WriteCheckpoint(o)
    <3>1. disk'[cur].checkpoint = disk[cur].checkpoint
      BY <2>2, LocalDisk, StoreAnswerDisk, JournalDisk
      DEF Worker, Local, JournalStart, JournalComplete
    <3>. QED  BY <1>2, <3>1
  <2>. QED  BY <2>1, <2>2
<1>. QED  BY <1>4, <1>7, <1>8

(* The checkpoint never runs ahead of the counts, and while it lags some   *)
(* worker has still to write them.                                         *)
LEMMA WorkerKeepsTrails ==
  ASSUME StoreInv, NEW o \in Occs, Worker(o), Moves(o), DiskMoves, BaseTypes'
  PROVE  Trails'
<1>. USE DEF StoreInv
<1>0. Occs' = Occs /\ cur # 0 /\ cur' = cur
  BY Fixed, ProgramFacts DEF Moves, BaseTypes
<1>1. Trails
  BY <1>0 DEF CountInv
<1>2. counts.answers \in Nat
  BY DEF BaseTypes, Counts
<1>3. disk[cur].checkpoint # None => disk[cur].checkpoint.answers \in Nat
  BY DEF Moves, BaseTypes, StoreDir, Counts
<1>4. \A p \in Occs : pc[p] = "checkpointing" => read[p].answers \in Nat
  BY DEF WorkerInv, Counts
<1>5. CASE WriteCheckpoint(o)
  <2>1. /\ disk'[cur].checkpoint \in Counts /\ disk'[cur].checkpoint # None
        /\ \/ /\ disk[cur].checkpoint = None
              /\ disk'[cur].checkpoint.answers = read[o].answers
           \/ /\ disk[cur].checkpoint # None
              /\ disk'[cur].checkpoint.answers =
                   Larger(disk[cur].checkpoint.answers, read[o].answers)
    BY <1>5, CheckpointDisk, MergedFacts, ProgramsAssumption DEF Counts
  <2>2. /\ counts' = counts /\ read' = read /\ pc[o] = "checkpointing"
        /\ pc' = [pc EXCEPT ![o] = "ok"]
    BY <1>5 DEF WriteCheckpoint, Goto
  <2>3. disk'[cur].checkpoint.answers <= counts.answers
    BY <1>1, <1>2, <1>3, <1>4, <2>1, <2>2 DEF Trails, Larger
  <2>4. read[o].answers = counts.answers => disk'[cur].checkpoint.answers = counts.answers
    BY <1>1, <1>2, <1>3, <1>4, <2>1, <2>2 DEF Trails, Larger
  <2>5. disk[cur].checkpoint # None /\ disk[cur].checkpoint.answers = counts.answers
          => disk'[cur].checkpoint.answers = counts.answers
    BY <1>1, <1>2, <1>3, <1>4, <2>1, <2>2 DEF Trails, Larger
  <2>6. pc \in [Occs -> Labels] /\ \A p \in Occs : p # o => pc'[p] = pc[p]
    BY DEF BaseTypes, Moves
  <2>7. \/ \E p \in Occs : pc'[p] = "answered"
        \/ \E p \in Occs : pc'[p] = "checkpointing" /\ read'[p].answers = counts'.answers
        \/ disk'[cur].checkpoint.answers = counts'.answers
    BY <1>1, <2>2, <2>4, <2>5, <2>6 DEF Trails
  <2>8. \A p \in Occs : pc'[p] = "checkpointing" => read'[p].answers <= counts'.answers
    BY <1>1, <2>2, <2>6 DEF Trails
  <2>. QED  BY <1>0, <2>1, <2>2, <2>3, <2>7, <2>8 DEF Trails
<1>6. CASE ~WriteCheckpoint(o)
  <2>1. disk'[cur].checkpoint = disk[cur].checkpoint
    BY <1>6, LocalDisk, StoreAnswerDisk, JournalDisk
    DEF Worker, Local, JournalStart, JournalComplete
  <2>2. /\ \A p \in Occs : p # o => read'[p] = read[p] /\ pc'[p] = pc[p]
        /\ counts.answers <= counts'.answers
    BY <1>2 DEF Moves, BaseTypes, Counts, Worker, Start, Reuse, Ask, Answer, StoreAnswer, Count,
         JournalStart, Dispatch, Gap, JournalComplete, ReadCounts, WriteCheckpoint
  <2>3. \/ pc'[o] = "answered"
        \/ pc'[o] = "checkpointing" /\ read'[o] = counts /\ counts' = counts
        \/ /\ pc[o] \notin {"answered", "checkpointing", "ok"}
           /\ pc'[o] \notin {"answered", "checkpointing", "ok"} /\ counts' = counts
    BY <1>6 DEF BaseTypes, Worker, Start, Reuse, Ask, Answer, StoreAnswer, Count,
         JournalStart, Dispatch, Gap, JournalComplete, ReadCounts, WriteCheckpoint, Goto
  <2>4. counts'.answers \in Nat
    BY DEF BaseTypes, Counts
  <2>5. \A p \in Occs : pc'[p] = "checkpointing" => read'[p].answers <= counts'.answers
    BY <1>1, <1>2, <1>4, <2>2, <2>3, <2>4 DEF Trails
  <2>6. disk'[cur].checkpoint # None => disk'[cur].checkpoint.answers <= counts'.answers
    BY <1>1, <1>2, <1>3, <2>1, <2>2, <2>4 DEF Trails
  <2>7. \/ \A p \in Occs : pc'[p] \notin {"answered", "checkpointing", "ok"}
        \/ \E p \in Occs : pc'[p] = "answered"
        \/ \E p \in Occs : pc'[p] = "checkpointing" /\ read'[p].answers = counts'.answers
        \/ disk'[cur].checkpoint # None /\ disk'[cur].checkpoint.answers = counts'.answers
    BY <1>1, <2>1, <2>2, <2>3 DEF Trails
  <2>. QED  BY <1>0, <2>5, <2>6, <2>7 DEF Trails
<1>. QED  BY <1>5, <1>6

(* A step of a worker keeps the invariant.                                 *)
LEMMA WorkerKeeps ==
  ASSUME StoreInv, NEW o \in Occs, Worker(o)
  PROVE  StoreInv'
<1>1. Moves(o)
  BY WorkerMoves
<1>2. BaseTypes' /\ DiskMoves
  BY <1>1, WorkerTypes
<1>3. WorkerInv' /\ JournalInv' /\ LineageInv' /\ AnswerInv' /\ FlightInv'
  BY <1>1, <1>2, WorkerKeepsWorkers, WorkerKeepsJournal, WorkerKeepsLineage, WorkerKeepsAnswers,
     WorkerKeepsFlights
<1>4. cur' = cur /\ cur \in Runs /\ cur # 0 /\ Runs' = Runs
  BY <1>1, Fixed, ProgramFacts DEF Moves, StoreInv, BaseTypes
<1>5. ~disk[cur].ended
  BY <1>4 DEF StoreInv, CountInv
<1>6. ~disk'[cur].ended
  BY <1>2, <1>4, <1>5 DEF DiskMoves
<1>7. CountInv'
  BY <1>1, <1>2, <1>4, <1>6, WorkerKeepsSum, WorkerKeepsEffectCount, WorkerKeepsTrails DEF CountInv
<1>8. CompletedRunCounts'
  BY <1>2, <1>4, <1>6 DEF StoreInv, CompletedRunCounts, CountsMatch, DiskMoves
<1>. QED  BY <1>2, <1>3, <1>7, <1>8 DEF StoreInv

-----------------------------------------------------------------------------
(* The other steps of a process.                                           *)

(* The traversal reaches one more node.                                    *)
LEMMA ReachKeeps ==
  ASSUME StoreInv, NEW o \in Occs, Reach(o)
  PROVE  StoreInv'
<1>. USE DEF StoreInv
<1>1. /\ cur # 0 /\ o = Len(nodes) + 1 /\ pc' = [pc EXCEPT ![o] = "ready"]
      /\ UNCHANGED <<program, disk, cur, val, counts, read, dispatched>>
  BY DEF Reach, Goto
<1>2. PICK b \in Node : nodes' = Append(nodes, b)
  BY DEF Reach, Node
<1>3. /\ Branches' = Branches /\ Occs' = Occs /\ MaxRuns' = MaxRuns /\ Runs' = Runs
      /\ Node' = Node /\ Record' = Record /\ StoreDir' = StoreDir
  BY <1>1, Fixed
<1>4. /\ Len(nodes) \in Nat /\ Len(nodes') = Len(nodes) + 1 /\ nodes' \in Seq(Node)
      /\ \A p \in 1..Len(nodes) : nodes'[p] = nodes[p]
      /\ nodes' # << >>
  BY <1>2, NodeFacts DEF BaseTypes
<1>0. /\ Len(Branches) \in Nat /\ Occs = 1..Len(Branches) /\ pc \in [Occs -> Labels]
      /\ Len(nodes) <= Len(Branches)
  BY ProgramFacts DEF BaseTypes
<1>5. /\ pc[o] = "none" /\ pc'[o] = "ready" /\ \A p \in Occs : p # o => pc'[p] = pc[p]
      /\ pc' \in [Occs -> Labels]
      /\ \A p \in Occs : pc[p] # "none" => p \in 1..Len(nodes)
  <2>1. \A p \in Occs : pc[p] = "none" <=> p > Len(nodes)
    BY DEF WorkerInv
  <2>2. "ready" \in Labels
    BY DEF Labels
  <2>3. o > Len(nodes) /\ \A p \in Occs : ~(p > Len(nodes)) => p \in 1..Len(nodes)
    BY <1>0, <1>1, <1>4
  <2>. QED  BY <1>0, <1>1, <2>1, <2>2, <2>3
<1>6. BaseTypes'
  <2>1. Len(nodes') <= Len(Branches)
    BY <1>0, <1>1, <1>4
  <2>2. Counts' = Counts
    BY DEF Counts
  <2>. QED  BY <1>1, <1>3, <1>4, <1>5, <2>1, <2>2 DEF BaseTypes, Labels
<1>7. \A p \in Occs : pc'[p] \notin {"none", "ready"} => p \in 1..Len(nodes) /\ pc'[p] = pc[p] /\ p # o
  BY <1>1, <1>4, <1>5
<1>8. WorkerInv'
  <2>1. \A p \in Occs : pc'[p] \notin {"none", "ready"} => Preceded(p)'
    <3>1. SUFFICES ASSUME NEW p \in Occs, pc'[p] \notin {"none", "ready"},
                          NEW i \in 1..(p-1), nodes'[p].effect \/ nodes'[i].effect
                   PROVE  pc'[i] = "ok"
      BY DEF Preceded
    <3>2. p \in 1..Len(nodes) /\ i \in 1..Len(nodes) /\ Preceded(p)
      BY <1>4, <1>7, <3>1 DEF WorkerInv
    <3>3. pc[i] = "ok" /\ i \in Occs
      BY <1>4, <3>1, <3>2, NodeFacts DEF Preceded
    <3>. QED  BY <1>5, <3>3
  <2>2. \A p \in Occs : pc'[p] = "none" <=> p > Len(nodes')
    BY <1>1, <1>4, <1>5, ProgramFacts DEF WorkerInv, BaseTypes
  <2>3. Counts' = Counts
    BY DEF Counts
  <2>4. \A p \in Occs :
       /\ pc'[p] = "storing" => val[p] \in Values
       /\ pc'[p] = "checkpointing" => read[p] \in Counts
       /\ pc'[p] \in {"asking", "storing", "counting"} => ~nodes'[p].effect
       /\ pc'[p] \in {"journaled", "performing", "completed"} => nodes'[p].effect
    BY <1>4, <1>7 DEF WorkerInv
  <2>. QED  BY <1>1, <1>3, <2>1, <2>2, <2>3, <2>4 DEF WorkerInv
<1>9. JournalInv'
  <2>1. ASSUME NEW p \in 1..Len(nodes'), nodes'[p].effect,
               pc'[p] \notin {"none", "ready", "started"}
        PROVE  <<p, "started">> \in disk[cur].effects
    <3>1. p \in Occs
      BY <1>0, <1>1, <1>4
    <3>2. p \in 1..Len(nodes) /\ pc'[p] = pc[p]
      BY <1>7, <2>1, <3>1
    <3>. QED  BY <1>4, <2>1, <3>2 DEF JournalInv
  <2>. QED  BY <1>1, <1>3, <1>4, <2>1 DEF JournalInv
<1>10. LineageInv' /\ AnswerInv' /\ CompletedRunCounts'
  BY <1>1, <1>3 DEF LineageInv, Newest, EffectsNeverReplayed, AnswerInv, PersonAnswersAreLocal,
     CompletedRunCounts
<1>11. FlightInv'
  <2>1. \A p \in 1..Len(nodes) : Epoch(p)' = Epoch(p) /\ nodes'[p] = nodes[p]
    BY <1>2, EpochStays
  <2>2. \A p, i \in 1..Len(nodes) : SameKey(p, i)' <=> SameKey(p, i)
    BY <2>1 DEF SameKey
  <2>3. \A p \in 1..Len(nodes) : Stored(p)' = Stored(p)
    BY <1>1, <2>1 DEF Stored
  <2>4. \A p \in Occs : pc'[p] \in {"asking", "storing"} => Stored(p)' = {}
    BY <1>7, <2>3 DEF FlightInv
  <2>5. \A p, i \in Occs :
          pc'[p] \in InFlight /\ pc'[i] \in InFlight /\ SameKey(p, i)' => p = i
    BY <1>7, <2>2 DEF FlightInv, InFlight
  <2>. QED  BY <1>3, <2>4, <2>5 DEF FlightInv, InFlight
<1>12. CountInv'
  <2>1. Counting' = Counting
    BY <1>3, <1>5 DEF Counting
  <2>2. NoEffectCounted /\ Trails /\ ~disk[cur].ended
        /\ counts.answers + Cardinality(Counting) = Cardinality(disk[cur].answers)
    BY <1>1 DEF CountInv
  <2>3. NoEffectCounted'
    BY <1>1, <1>3, <1>5, <2>2 DEF NoEffectCounted
  <2>4. Trails'
    BY <1>1, <1>3, <1>5, <2>2 DEF Trails
  <2>. QED  BY <1>1, <2>1, <2>2, <2>3, <2>4 DEF CountInv
<1>. QED  BY <1>6, <1>8, <1>9, <1>10, <1>11, <1>12

(* The state without a live process.                                       *)
Quiet ==
  /\ cur = 0 /\ nodes = << >>
  /\ pc = [o \in Occs |-> "none"] /\ val = [o \in Occs |-> None]
  /\ counts = [answers |-> 0, effects |-> 0] /\ read = [o \in Occs |-> None]

(* Without a process the invariants of the workers hold.                   *)
LEMMA QuietFacts ==
  program \in Programs /\ disk \in [Runs -> StoreDir] /\ Quiet
    => BaseTypes /\ WorkerInv /\ FlightInv /\ CountInv
<1>. SUFFICES ASSUME program \in Programs, disk \in [Runs -> StoreDir], Quiet
              PROVE  BaseTypes /\ WorkerInv /\ FlightInv /\ CountInv
  OBVIOUS
<1>1. BaseTypes
  BY ProgramFacts DEF Quiet, BaseTypes, Labels, Counts
<1>2. WorkerInv
  BY <1>1, ProgramFacts DEF Quiet, WorkerInv
<1>. QED  BY <1>1, <1>2 DEF Quiet, FlightInv, CountInv, InFlight

(* The process ends: only its directory is closed.                         *)
LEMMA EndKeeps ==
  ASSUME StoreInv, Finish \/ Stop
  PROVE  StoreInv'
<1>. USE DEF StoreInv
<1>1. program' = program /\ dispatched' = dispatched /\ cur # 0 /\ Idle
  BY DEF Finish, Stop
<1>2. /\ Occs' = Occs /\ Runs' = Runs /\ StoreDir' = StoreDir /\ MaxRuns' = MaxRuns
      /\ cur \in Runs /\ program' \in Programs
  BY <1>1, Fixed, ProgramFacts DEF BaseTypes
<1>3. Quiet'
  BY <1>1, <1>2 DEF Quiet, Idle
<1>4. /\ disk' \in [Runs -> StoreDir]
      /\ \A r \in Runs : r # cur => disk'[r] = disk[r]
      /\ \A r \in Runs :
           /\ disk'[r].parent = disk[r].parent /\ disk'[r].op = disk[r].op
           /\ disk'[r].local = disk[r].local /\ disk'[r].effects = disk[r].effects
           /\ disk'[r].answers = disk[r].answers /\ disk'[r].checkpoint = disk[r].checkpoint
      /\ disk'[cur].ended => Finish
  <2>1. disk[cur] \in StoreDir /\ disk[cur].ended = FALSE
    BY <1>1, <1>2 DEF BaseTypes, CountInv, StoreDir
  <2>2. CASE Finish
    <3>. DEFINE D == [disk[cur] EXCEPT !.ended = TRUE]
    <3>1. disk' = [disk EXCEPT ![cur] = D]
      BY <2>2, Zenon DEF Finish
    <3>2. /\ D \in StoreDir /\ D.parent = disk[cur].parent /\ D.op = disk[cur].op
          /\ D.local = disk[cur].local /\ D.effects = disk[cur].effects
          /\ D.answers = disk[cur].answers /\ D.checkpoint = disk[cur].checkpoint
      BY <2>1 DEF StoreDir
    <3>. HIDE DEF D
    <3>. QED  BY <1>2, <2>2, <3>1, <3>2 DEF BaseTypes
  <2>3. CASE Stop
    <3>1. PICK torn \in {FALSE} \cup
                 {\E o \in 1..Len(nodes) : \/ pc[o] = "started" /\ nodes[o].effect
                                           \/ pc[o] = "performing"} :
            disk' = [disk EXCEPT ![cur].torn = torn]
      BY <2>3 DEF Stop
    <3>2. torn \in BOOLEAN
      BY <3>1
    <3>. DEFINE D == [disk[cur] EXCEPT !.torn = torn]
    <3>3. disk' = [disk EXCEPT ![cur] = D]
      BY <3>1, Zenon
    <3>4. /\ D \in StoreDir /\ D.parent = disk[cur].parent /\ D.op = disk[cur].op
          /\ D.local = disk[cur].local /\ D.effects = disk[cur].effects
          /\ D.answers = disk[cur].answers /\ D.checkpoint = disk[cur].checkpoint
          /\ D.ended = FALSE
      BY <2>1, <3>2 DEF StoreDir
    <3>. HIDE DEF D
    <3>. QED  BY <1>2, <3>3, <3>4 DEF BaseTypes
  <2>. QED  BY <2>2, <2>3
<1>5. BaseTypes' /\ WorkerInv' /\ FlightInv' /\ CountInv'
  <2>1. (program \in Programs /\ disk \in [Runs -> StoreDir] /\ Quiet)'
    BY <1>2, <1>3, <1>4
  <2>. QED  BY <2>1, QuietFacts, PTL
<1>6. JournalInv'
  <2>1. nodes' = << >> /\ cur' = 0
    BY <1>3 DEF Quiet
  <2>. QED  BY <1>1, <1>2, <1>4, <2>1 DEF JournalInv
<1>7. LineageInv'
  <2>1. PICK k \in 0..MaxRuns : Newest(k)
    BY DEF LineageInv
  <2>2. Newest(k)'
    BY <1>2, <1>3, <1>4, <2>1 DEF Newest, Quiet
  <2>. QED  BY <1>1, <1>2, <1>4, <2>2 DEF LineageInv, EffectsNeverReplayed
<1>8. AnswerInv'
  BY <1>2, <1>4 DEF AnswerInv, PersonAnswersAreLocal
<1>9. CompletedRunCounts'
  <2>1. disk'[cur].ended /\ disk[cur].effects = {} => CountsMatch(disk[cur])
    <3>1. SUFFICES ASSUME Finish, disk[cur].effects = {} PROVE CountsMatch(disk[cur])
      BY <1>4
    <3>2. (\A o \in Occs : pc[o] = "ok") /\ 1 \in Occs
      BY <3>1, ProgramFacts DEF Finish, BaseTypes
    <3>3. Counting = {}
      BY <3>2 DEF Counting
    <3>4. Cardinality(disk[cur].answers) = counts.answers /\ NoEffectCounted /\ Trails
      BY <1>1, <3>3, FS_EmptySet DEF CountInv, BaseTypes, Counts
    <3>5. disk[cur].checkpoint # None /\ disk[cur].checkpoint.answers = counts.answers
      BY <3>2, <3>4 DEF Trails
    <3>6. disk[cur].checkpoint.effects = 0 /\ Cardinality(disk[cur].effects) = 0
      BY <3>1, <3>4, <3>5, FS_EmptySet DEF NoEffectCounted
    <3>. QED  BY <3>4, <3>5, <3>6 DEF CountsMatch
  <2>2. ASSUME NEW r \in Runs, disk'[r].ended, disk'[r].effects = {}
        PROVE  CountsMatch(disk'[r])
    <3>1. CASE r = cur
      BY <1>4, <2>1, <2>2, <3>1 DEF CountsMatch
    <3>2. CASE r # cur
      BY <1>4, <2>2, <3>2 DEF CompletedRunCounts
    <3>. QED  BY <3>1, <3>2
  <2>. QED  BY <1>2, <2>2 DEF CompletedRunCounts, CountsMatch
<1>. QED  BY <1>5, <1>6, <1>7, <1>8, <1>9

-----------------------------------------------------------------------------
(* A new run.                                                              *)

(* What a run may start with: at most one answer for each key, from before *)
(* every effect, and of a person only what this mode of answering allows.  *)
Inherits(local, answers) ==
  /\ answers \subseteq Record /\ Keyed(answers)
  /\ \A a \in answers : a.epoch = 0
  /\ local => \A a \in answers : a.q \in Persons => a.by \in {"local", "edit"}

(* An edit keeps the keys, and every answer it changes is marked.          *)
LEMMA EditedFacts ==
  ASSUME NEW answers \in SUBSET Record, Keyed(answers), NEW edited \in Edited(answers)
  PROVE  /\ edited \subseteq Record /\ Keyed(edited)
         /\ \A a \in edited :
              \/ a \in answers
              \/ a.by = "edit" /\ \E b \in answers : a.q = b.q /\ a.epoch = b.epoch
<1>1. CASE edited = answers
  BY <1>1
<1>2. CASE \E a \in answers : edited = answers \ {a}
  <2>1. IsFiniteSet(edited)
    BY <1>2, FS_RemoveElement DEF Keyed
  <2>. QED  BY <1>2, <2>1 DEF Keyed
<1>3. CASE \E a \in answers, v \in Values :
             edited = (answers \ {a}) \cup {Replaced(a, v)}
  <2>1. PICK a \in answers, v \in Values :
          edited = (answers \ {a}) \cup {Replaced(a, v)}
    BY <1>3
  <2>. DEFINE e == Replaced(a, v)
  <2>2. e \in Record /\ e.q = a.q /\ e.epoch = a.epoch /\ e.by = "edit"
    BY DEF Record, Replaced
  <2>3. edited = (answers \ {a}) \cup {e}
    BY <2>1
  <2>. HIDE DEF e
  <2>4. IsFiniteSet(answers \ {a})
    BY FS_RemoveElement DEF Keyed
  <2>5. IsFiniteSet(edited)
    BY <2>3, <2>4, FS_AddElement
  <2>6. Keyed(edited)
    BY <2>2, <2>3, <2>5 DEF Keyed
  <2>. QED  BY <2>2, <2>3, <2>6
<1>4. \/ edited = answers
      \/ \E a \in answers : edited = answers \ {a}
      \/ \E a \in answers, v \in Values :
           edited = (answers \ {a}) \cup {Replaced(a, v)}
  BY DEF Edited
<1>. QED  BY <1>1, <1>2, <1>3, <1>4

(* A resume or a fork inherits what a run may start with.                  *)
LEMMA InheritedFacts ==
  ASSUME StoreInv, NEW p \in Runs, Inheritable(disk[p]), NEW local \in BOOLEAN,
         NEW edited \in Edited(disk[p].answers)
  PROVE  Inherits(local, Kept(disk[p], local, edited)) /\ disk[p].effects = {}
<1>. USE DEF StoreInv
<1>. DEFINE A == disk[p].answers
            I == Kept(disk[p], local, edited)
<1>1. A \in SUBSET Record /\ Keyed(A) /\ disk[p].effects = {} /\ \A a \in A : a.epoch = 0
  BY DEF BaseTypes, StoreDir, AnswerInv, Inheritable
<1>2. disk[p].local => \A a \in A : a.q \in Persons => a.by \in {"local", "edit"}
  BY DEF AnswerInv, PersonAnswersAreLocal
<1>. HIDE DEF A
<1>3. /\ edited \subseteq Record /\ Keyed(edited)
      /\ \A a \in edited : a \in A \/ (a.by = "edit" /\ a.epoch = 0)
  <2>1. edited \in Edited(A)
    BY DEF A
  <2>. QED  BY <1>1, <2>1, EditedFacts
<1>4. I \subseteq edited
  BY DEF Kept
<1>5. local => \A a \in I : a.q \in Persons => a.by \in {"local", "edit"}
  BY <1>2, <1>3 DEF Kept
<1>. HIDE DEF I
<1>6. Keyed(I)
  BY <1>3, <1>4, FS_Subset DEF Keyed
<1>7. \A a \in I : a.epoch = 0
  BY <1>1, <1>3, <1>4
<1>. QED  BY <1>1, <1>3, <1>4, <1>5, <1>6, <1>7 DEF Inherits, I

(* The next run has the number after the newest.                           *)
LEMMA NextRunIs ==
  ASSUME BaseTypes, NEW k \in 0..MaxRuns, Newest(k)
  PROVE  NextRun = k + 1
<1>1. MaxRuns \in Nat /\ Runs = 1..MaxRuns /\ k \in Nat /\ k <= MaxRuns
  BY ProgramFacts DEF BaseTypes
<1>2. {r \in Runs : disk[r].op # "none"} = 1..k
  BY <1>1 DEF Newest
<1>3. Cardinality(1..k) = k
  <2>1. 1 \in Int /\ k \in Int /\ (IF 1 > k THEN 0 ELSE k - 1 + 1) = k
    BY <1>1
  <2>. HIDE <1>1
  <2>. QED  BY <2>1, FS_Interval
<1>. QED  BY <1>2, <1>3 DEF NextRun

(* A run is launched with what it inherits, from a parent without effects  *)
(* unless it is a root or a restart.                                       *)
LEMMA LaunchKeeps ==
  ASSUME StoreInv, cur = 0, NEW parent \in 0..MaxRuns,
         parent # 0 => disk[parent].op # "none",
         NEW op \in {"root", "restart", "resume", "fork"}, NEW local \in BOOLEAN, NEW inherited,
         Launch(parent, op, local, inherited), Inherits(local, inherited),
         op \in {"resume", "fork"} => parent # 0 /\ disk[parent].effects = {}
  PROVE  StoreInv'
<1>. USE DEF StoreInv
<1>1. PICK k \in 0..MaxRuns : Newest(k)
  BY DEF LineageInv
<1>. DEFINE n == k + 1
            D == [Absent EXCEPT !.parent = parent, !.op = op, !.local = local,
                                !.answers = inherited]
<1>2. /\ n \in Runs /\ NextRun = n /\ n \in Nat /\ n # 0 /\ MaxRuns \in Nat /\ Runs = 1..MaxRuns
      /\ n \in 0..MaxRuns
  <2>1. NextRun = n /\ NextRun \in Runs
    BY <1>1, NextRunIs DEF Launch
  <2>2. MaxRuns \in Nat /\ Runs = 1..MaxRuns
    BY ProgramFacts DEF BaseTypes
  <2>. QED  BY <1>1, <2>1, <2>2
<1>3. /\ disk' = [disk EXCEPT ![n] = D] /\ cur' = n
      /\ counts' = [answers |-> Cardinality(inherited), effects |-> 0]
      /\ program' = program /\ nodes' = nodes /\ pc' = pc /\ val' = val /\ read' = read
      /\ dispatched' = dispatched
  BY <1>2, Zenon DEF Launch
<1>4. /\ Branches' = Branches /\ Occs' = Occs /\ MaxRuns' = MaxRuns /\ Runs' = Runs
      /\ Node' = Node /\ Record' = Record /\ StoreDir' = StoreDir
  BY <1>3, Fixed
<1>5. /\ D \in StoreDir /\ D.parent = parent /\ D.op = op /\ D.local = local
      /\ D.answers = inherited /\ D.effects = {} /\ D.checkpoint = None /\ D.ended = FALSE
  <2>. DEFINE D1 == [Absent EXCEPT !.parent = parent]
              D2 == [D1 EXCEPT !.op = op]
              D3 == [D2 EXCEPT !.local = local]
              D4 == [D3 EXCEPT !.answers = inherited]
  <2>0. parent \in Nat /\ inherited \subseteq Record
    BY <1>2 DEF Inherits
  <2>1. /\ D1 \in StoreDir /\ D1.parent = parent
        /\ D1.effects = {} /\ D1.checkpoint = None /\ D1.ended = FALSE
    BY <2>0 DEF Absent, StoreDir
  <2>2. /\ D2 \in StoreDir /\ D2.parent = parent /\ D2.op = op
        /\ D2.effects = {} /\ D2.checkpoint = None /\ D2.ended = FALSE
    <3>. HIDE DEF D1
    <3>. QED  BY <2>1 DEF StoreDir
  <2>3. /\ D3 \in StoreDir /\ D3.parent = parent /\ D3.op = op /\ D3.local = local
        /\ D3.effects = {} /\ D3.checkpoint = None /\ D3.ended = FALSE
    <3>. HIDE DEF D2
    <3>. QED  BY <2>2 DEF StoreDir
  <2>4. /\ D4 \in StoreDir /\ D4.parent = parent /\ D4.op = op /\ D4.local = local
        /\ D4.answers = inherited /\ D4.effects = {} /\ D4.checkpoint = None /\ D4.ended = FALSE
    <3>. HIDE DEF D3
    <3>. QED  BY <2>0, <2>3 DEF StoreDir
  <2>5. D = D4
    OBVIOUS
  <2>. HIDE DEF D, D4
  <2>. QED  BY <2>4, <2>5
<1>. HIDE DEF D
<1>7. disk'[n] = D /\ \A r \in Runs : r # n => disk'[r] = disk[r]
  BY <1>2, <1>3 DEF BaseTypes
<1>8. /\ nodes = << >> /\ Len(nodes) = 0 /\ \A o \in Occs : pc[o] = "none"
  BY ProgramFacts DEF WorkerInv, BaseTypes
<1>9. Cardinality(inherited) \in Nat
  BY FS_CardinalityType DEF Inherits, Keyed
<1>10. parent < n
  BY <1>1, <1>2 DEF Newest
<1>. HIDE DEF n
<1>11. BaseTypes'
  <2>1. disk' \in [Runs -> StoreDir]
    BY <1>2, <1>3, <1>5 DEF BaseTypes
  <2>2. counts' \in Counts /\ Counts' = Counts
    BY <1>3, <1>9 DEF Counts
  <2>. QED  BY <1>2, <1>3, <1>4, <2>1, <2>2 DEF BaseTypes, Labels
<1>12. WorkerInv'
  <2>1. Counts' = Counts
    BY DEF Counts
  <2>. QED  BY <1>3, <1>4, <1>8, <2>1, ProgramFacts DEF WorkerInv, BaseTypes
<1>13. disk[n].op = "none" /\ disk[n].effects = {}
  <2>1. ~(n <= k)
    BY <1>2 DEF n
  <2>. QED  BY <1>1, <1>2, <2>1 DEF Newest, LineageInv
<1>14. JournalInv'
  <2>1. ASSUME NEW r \in Runs, NEW o \in Occs, <<r, o>> \in dispatched
        PROVE  <<o, "started">> \in disk'[r].effects
    <3>1. <<o, "started">> \in disk[r].effects
      BY <2>1 DEF JournalInv
    <3>2. r # n
      BY <1>13, <3>1
    <3>. QED  BY <1>7, <3>1, <3>2
  <2>2. disk'[n].effects = {}
    BY <1>5, <1>7
  <2>. QED  BY <1>3, <1>4, <1>8, <2>1, <2>2 DEF JournalInv
<1>15. LineageInv'
  <2>1. Newest(n)'
    <3>1. \A r \in Runs : r # n => (r <= n <=> r <= k)
      BY <1>2 DEF n
    <3>2. \A r \in Runs : disk'[r].op # "none" <=> r <= n
      BY <1>1, <1>2, <1>5, <1>7, <3>1 DEF Newest
    <3>. QED  BY <1>3, <1>4, <3>2 DEF Newest
  <2>2. \A r \in Runs :
          /\ disk'[r].parent < r
          /\ disk'[r].op = "none" => disk'[r].effects = {}
          /\ disk'[r].op \in {"resume", "fork"} => disk'[r].parent # 0
    BY <1>5, <1>7, <1>10 DEF LineageInv
  <2>3. ASSUME NEW c \in Runs, disk'[c].op \in {"resume", "fork"}, NEW o \in Occs
        PROVE  <<disk'[c].parent, o>> \notin dispatched
    <3>1. CASE c = n
      <4>1. disk'[c].parent = parent /\ parent \in Runs /\ disk[parent].effects = {}
        BY <1>2, <1>5, <1>7, <2>3, <3>1
      <4>. QED  BY <4>1 DEF JournalInv
    <3>2. CASE c # n
      BY <1>7, <2>3, <3>2 DEF LineageInv, EffectsNeverReplayed
    <3>. QED  BY <3>1, <3>2
  <2>. QED  BY <1>2, <1>3, <1>4, <2>1, <2>2, <2>3 DEF LineageInv, EffectsNeverReplayed
<1>16. AnswerInv'
  <2>1. \A r \in Runs : Keyed(disk'[r].answers)
    BY <1>5, <1>7 DEF AnswerInv, Inherits
  <2>2. \A r \in Runs : disk'[r].effects = {} => \A a \in disk'[r].answers : a.epoch = 0
    BY <1>5, <1>7 DEF AnswerInv, Inherits
  <2>3. \A r \in Runs : disk'[r].local =>
          \A a \in disk'[r].answers : a.q \in Persons => a.by \in {"local", "edit"}
    BY <1>5, <1>7 DEF AnswerInv, PersonAnswersAreLocal, Inherits
  <2>. QED  BY <1>4, <2>1, <2>2, <2>3 DEF AnswerInv, PersonAnswersAreLocal
<1>17. FlightInv'
  BY <1>3, <1>4, <1>8 DEF FlightInv, InFlight
<1>18. CountInv'
  <2>1. Counting' = {} /\ Cardinality(Counting') = 0
    BY <1>3, <1>4, <1>8, FS_EmptySet DEF Counting
  <2>2. counts'.answers = Cardinality(disk'[n].answers) /\ counts'.effects = 0
    BY <1>3, <1>5, <1>7
  <2>3. NoEffectCounted' /\ Trails'
    BY <1>3, <1>4, <1>5, <1>7, <1>8, <2>2 DEF NoEffectCounted, Trails
  <2>4. counts'.answers + Cardinality(Counting') = Cardinality(disk'[n].answers)
    BY <1>5, <1>7, <1>9, <2>1, <2>2
  <2>. QED  BY <1>3, <1>5, <1>7, <2>3, <2>4 DEF CountInv
<1>19. CompletedRunCounts'
  BY <1>4, <1>5, <1>7 DEF CompletedRunCounts, CountsMatch
<1>. QED  BY <1>11, <1>12, <1>14, <1>15, <1>16, <1>17, <1>18, <1>19

(* A root or a restart inherits nothing.                                   *)
LEMMA NothingInherited ==
  ASSUME NEW local \in BOOLEAN
  PROVE  Inherits(local, {})
BY FS_EmptySet DEF Inherits, Keyed

(* A root or a child starts.                                               *)
LEMMA ChildKeeps ==
  ASSUME StoreInv, Root \/ \E p \in Runs : Child(p)
  PROVE  StoreInv'
<1>1. CASE Root
  BY <1>1, LaunchKeeps, NothingInherited, ProgramFacts DEF Root, StoreInv, BaseTypes
<1>2. CASE \E p \in Runs : Child(p)
  <2>1. PICK p \in Runs : Child(p)
    BY <1>2
  <2>2. p \in 0..MaxRuns /\ p # 0 /\ cur = 0 /\ disk[p].op # "none"
    BY <2>1, ProgramFacts DEF Child, StoreInv, BaseTypes
  <2>3. PICK local \in BOOLEAN :
          \/ Launch(p, "restart", local, {})
          \/ /\ Resumable(disk[p])
             /\ Launch(p, "resume", local, Kept(disk[p], local, disk[p].answers))
          \/ /\ Inheritable(disk[p])
             /\ \E edited \in Edited(disk[p].answers) :
                  Launch(p, "fork", local, Kept(disk[p], local, edited))
    BY <2>1 DEF Child
  <2>4. CASE Launch(p, "restart", local, {})
    BY <2>2, <2>4, LaunchKeeps, NothingInherited
  <2>5. CASE /\ Resumable(disk[p])
             /\ Launch(p, "resume", local, Kept(disk[p], local, disk[p].answers))
    <3>1. Inheritable(disk[p]) /\ disk[p].answers \in Edited(disk[p].answers)
      BY <2>5 DEF Resumable, Edited
    <3>2. /\ Inherits(local, Kept(disk[p], local, disk[p].answers))
          /\ disk[p].effects = {}
      BY <3>1, InheritedFacts
    <3>. QED  BY <2>2, <2>5, <3>2, LaunchKeeps
  <2>6. CASE /\ Inheritable(disk[p])
             /\ \E edited \in Edited(disk[p].answers) :
                  Launch(p, "fork", local, Kept(disk[p], local, edited))
    <3>1. PICK edited \in Edited(disk[p].answers) :
            Launch(p, "fork", local, Kept(disk[p], local, edited))
      BY <2>6
    <3>2. Inherits(local, Kept(disk[p], local, edited)) /\ disk[p].effects = {}
      BY <2>6, <3>1, InheritedFacts
    <3>. QED  BY <2>2, <3>1, <3>2, LaunchKeeps
  <2>. QED  BY <2>3, <2>4, <2>5, <2>6
<1>. QED  BY <1>1, <1>2

-----------------------------------------------------------------------------
(* The store starts empty.                                                 *)
LEMMA InitStore ==
  ASSUME Init
  PROVE  StoreInv
<1>1. program \in Programs /\ Quiet /\ dispatched = {} /\ disk = [r \in Runs |-> Absent]
  BY DEF Init, Quiet
<1>2. /\ Absent \in StoreDir /\ Absent.op = "none" /\ Absent.effects = {} /\ Absent.answers = {}
      /\ Absent.parent = 0 /\ Absent.ended = FALSE /\ Absent.local = FALSE
  BY DEF Absent, StoreDir
<1>3. \A r \in Runs : disk[r] = Absent
  BY <1>1
<1>4. disk \in [Runs -> StoreDir]
  BY <1>1, <1>2
<1>5. BaseTypes /\ WorkerInv /\ FlightInv /\ CountInv
  BY <1>1, <1>4, QuietFacts
<1>6. JournalInv
  BY <1>1 DEF Quiet, JournalInv
<1>7. Newest(0) /\ 0 \in 0..MaxRuns /\ \A r \in Runs : 0 < r
  BY <1>1, <1>2, <1>3, ProgramFacts DEF Newest, Quiet
<1>8. LineageInv
  BY <1>1, <1>2, <1>3, <1>7 DEF LineageInv, EffectsNeverReplayed
<1>9. AnswerInv /\ CompletedRunCounts
  BY <1>2, <1>3, FS_EmptySet DEF AnswerInv, Keyed, PersonAnswersAreLocal, CompletedRunCounts
<1>. QED  BY <1>5, <1>6, <1>8, <1>9 DEF StoreInv

(* Every step of the runs of a lineage keeps the invariant.                *)
LEMMA NextStore ==
  ASSUME StoreInv, [Next]_vars
  PROVE  StoreInv'
<1>1. CASE Next
  BY <1>1, ChildKeeps, EndKeeps, ReachKeeps, WorkerKeeps DEF Next
<1>2. CASE UNCHANGED vars
  <2>1. /\ program' = program /\ disk' = disk /\ cur' = cur /\ nodes' = nodes /\ pc' = pc
        /\ val' = val /\ counts' = counts /\ read' = read /\ dispatched' = dispatched
    BY <1>2 DEF vars, process
  <2>2. /\ Branches' = Branches /\ Occs' = Occs /\ MaxRuns' = MaxRuns /\ Runs' = Runs
        /\ Node' = Node /\ Record' = Record /\ StoreDir' = StoreDir
    BY <2>1, Fixed
  <2>. USE DEF StoreInv
  <2>3. BaseTypes'
    BY <2>1, <2>2 DEF BaseTypes, Labels, Counts
  <2>4. WorkerInv' /\ JournalInv'
    BY <2>1, <2>2 DEF WorkerInv, Preceded, JournalInv, Counts
  <2>5. LineageInv' /\ AnswerInv' /\ CompletedRunCounts'
    BY <2>1, <2>2 DEF LineageInv, Newest, EffectsNeverReplayed, AnswerInv, PersonAnswersAreLocal,
       CompletedRunCounts
  <2>6. FlightInv'
    BY <2>1, <2>2 DEF FlightInv, SameKey, Stored, Epoch, InFlight
  <2>7. Counting' = Counting
    BY <2>1, <2>2 DEF Counting
  <2>8. CountInv'
    BY <2>1, <2>2, <2>7 DEF CountInv, NoEffectCounted, Trails
  <2>. QED  BY <2>3, <2>4, <2>5, <2>6, <2>8
<1>. QED  BY <1>1, <1>2

(* The invariant holds in every state of a lineage.                        *)
LEMMA StoreIsSound == Spec => []StoreInv
<1>1. Init => StoreInv
  BY InitStore
<1>2. StoreInv /\ [Next]_vars => StoreInv'
  BY NextStore
<1>. QED  BY <1>1, <1>2, PTL DEF Spec

(* A resume or a fork repeats no effect that its parent sent to the world, *)
(* and inherits no answer from behind one, wherever the parent stopped.    *)
THEOREM LineageHolds == Spec => []LineageStopsAtEffects
<1>1. StoreInv => LineageStopsAtEffects
  <2>. SUFFICES ASSUME StoreInv PROVE LineageStopsAtEffects
    OBVIOUS
  <2>. USE DEF StoreInv
  <2>1. TypeOK
    <3>1. \A r \in Runs : disk[r] \in StoreDir
      BY DEF BaseTypes
    <3>2. \A r \in Runs : disk[r].parent \in 0..(r-1)
      BY <3>1, ProgramFacts DEF StoreDir, LineageInv, BaseTypes
    <3>3. \A r \in Runs :
            /\ disk[r].op \in {"none", "root", "restart", "resume", "fork"}
            /\ disk[r].answers \subseteq Record
            /\ disk[r].effects \subseteq Occs \X {"started", "completed"}
            /\ disk[r].checkpoint = None \/ disk[r].checkpoint \in Counts
      BY <3>1 DEF StoreDir
    <3>4. \A r \in Runs : \A a, b \in disk[r].answers : a.q = b.q /\ a.epoch = b.epoch => a = b
      BY DEF AnswerInv, Keyed
    <3>. QED  BY <3>2, <3>3, <3>4 DEF TypeOK, BaseTypes, Labels
  <2>2. EffectsNeverReplayed
    BY DEF LineageInv
  <2>3. InheritedBeforeEffects
    BY ProgramFacts DEF InheritedBeforeEffects, JournalInv, AnswerInv, BaseTypes
  <2>. QED  BY <2>1, <2>2, <2>3 DEF LineageStopsAtEffects
<1>. QED  BY <1>1, StoreIsSound, PTL

(* In a run answered through its controls every stored answer of a person  *)
(* was given to it or to such an ancestor, or edited in.                   *)
THEOREM PersonsAnswerLocally == Spec => []PersonAnswersAreLocal
<1>1. StoreInv => PersonAnswersAreLocal
  BY DEF StoreInv, AnswerInv
<1>. QED  BY <1>1, StoreIsSound, PTL

(* The checkpoint of a completed run without effects counts its answers,   *)
(* whatever the order in which the workers stored, counted and wrote.      *)
THEOREM CheckpointsCount == Spec => []CompletedRunCounts
<1>1. StoreInv => CompletedRunCounts
  BY DEF StoreInv
<1>. QED  BY <1>1, StoreIsSound, PTL
=============================================================================
