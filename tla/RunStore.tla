------------------------------ MODULE RunStore ------------------------------
(***************************************************************************)
(* The durable store of a run and what a later run inherits from it:       *)
(* runtime/src/Agentic/Runtime/Store.hs, the persistence hooks and the     *)
(* lineage checks of cli/src/Agentic/Cli.hs.                               *)
(*                                                                         *)
(* A process executes one plan in the order of PlanOrder.  Its workers     *)
(* write answers.json, effects.ndjson and checkpoint.json, each under a    *)
(* lock of its own, and the counts of the checkpoint are kept in memory    *)
(* between them.  The process may stop anywhere (a crash, a failure or a   *)
(* cancellation); a restart, a resume or a fork then reads what is on      *)
(* disk.  A parent is no longer live when a child is made of it: the       *)
(* frontends and the manager refuse a parent that is still owned.          *)
(***************************************************************************)
EXTENDS Naturals, Sequences, FiniteSets

CONSTANTS
  Programs,     \* the programs of a lineage, see below
  Questions,
  Persons,      \* the questions addressed to a person
  Values,
  None

(* A program: for each occurrence the nodes the traversal may reach there, *)
(* and a bound on the runs of its lineage.  A node: is it an effect, its   *)
(* question, and the answers of earlier occurrences on which the traversal *)
(* reaches it.                                                             *)
ASSUME ProgramsAssumption ==
  /\ Persons \subseteq Questions
  /\ None \notin [answers : Nat, effects : Nat]
  /\ \A m \in Programs :
       /\ Len(m.branches) \in Nat \ {0} /\ DOMAIN m.branches = 1..Len(m.branches)
       /\ m.maxRuns \in Nat \ {0}
       /\ \A o \in DOMAIN m.branches : \A b \in m.branches[o] :
            /\ b.effect \in BOOLEAN /\ b.q \in Questions
            /\ DOMAIN b.when \subseteq 1..(o-1)
            /\ \A p \in DOMAIN b.when : b.when[p] \in Values

VARIABLES
  program,      \* the program every run of the lineage executes
  disk,         \* the store directory of each run
  cur,          \* the run whose process is live, 0 if none
  nodes,        \* the nodes its traversal has reached
  pc, val,      \* each worker, and the answer of its occurrence
  counts,       \* answers stored and effects completed (persistenceFor)
  read,         \* the counts a worker has read for its checkpoint
  dispatched    \* <<run, occurrence>> of the effects sent to the world

process == <<cur, nodes, pc, val, counts, read>>
vars == <<program, disk, process, dispatched>>

Branches == program.branches
MaxRuns  == program.maxRuns
Occs     == DOMAIN Branches
Runs     == 1..MaxRuns

(* runStoreAnswers: the key is the epoch and the bare question; "by" keeps *)
(* who answered, and "edit" is answerReplaced.                             *)
Record == [q : Questions, epoch : 0..Len(Branches), value : Values, occ : Occs,
           by : {"engine", "local", "edit"}]
Counts == [answers : Nat, effects : Nat]
Absent == [parent |-> 0, op |-> "none", local |-> FALSE, answers |-> {}, effects |-> {},
           torn |-> FALSE, checkpoint |-> None, ended |-> FALSE]

TypeOK ==
  /\ program \in Programs
  /\ cur \in 0..MaxRuns
  /\ \A r \in Runs :
       /\ disk[r].parent \in 0..(r-1)
       /\ disk[r].op \in {"none", "root", "restart", "resume", "fork"}
       /\ disk[r].answers \subseteq Record
       /\ \A a, b \in disk[r].answers : a.q = b.q /\ a.epoch = b.epoch => a = b
       /\ disk[r].effects \subseteq Occs \X {"started", "completed"}
       /\ disk[r].checkpoint = None \/ disk[r].checkpoint \in Counts
  /\ pc \in [Occs -> {"none", "ready", "started", "asking", "storing", "counting", "journaled",
                      "performing", "completed", "answered", "checkpointing", "ok"}]
  /\ counts \in Counts

Idle ==
  /\ cur' = 0 /\ nodes' = << >>
  /\ pc' = [o \in Occs |-> "none"] /\ val' = [o \in Occs |-> None]
  /\ counts' = [answers |-> 0, effects |-> 0] /\ read' = [o \in Occs |-> None]

Init ==
  /\ program \in Programs
  /\ disk = [r \in Runs |-> Absent]
  /\ cur = 0 /\ nodes = << >>
  /\ pc = [o \in Occs |-> "none"] /\ val = [o \in Occs |-> None]
  /\ counts = [answers |-> 0, effects |-> 0] /\ read = [o \in Occs |-> None]
  /\ dispatched = {}

Order == INSTANCE PlanOrder WITH
           Plans <- {}, plan <- nodes, running <- {o \in Occs : pc[o] = "started"},
           finished <- {o \in Occs : pc[o] = "ok"}

Epoch(o)  == Cardinality({p \in 1..(o-1) : nodes[p].effect})
Stored(o) == {a \in disk[cur].answers : a.q = nodes[o].q /\ a.epoch = Epoch(o)}
Goto(o, l) == pc' = [pc EXCEPT ![o] = l]

-----------------------------------------------------------------------------
(* The plan: the scheduler reaches a node, and starts it in plan order.    *)

Reach(o) ==
  /\ cur # 0 /\ o = Len(nodes) + 1 /\ o \in Occs
  /\ \E b \in Branches[o] :
       /\ \A p \in DOMAIN b.when : pc[p] = "ok" /\ val[p] = b.when[p]
       /\ nodes' = Append(nodes, b)
  /\ Goto(o, "ready")
  /\ UNCHANGED <<program, disk, cur, val, counts, read, dispatched>>

Start(o) ==
  /\ pc[o] = "ready"
  /\ \A p \in Order!Before(o) : pc[p] = "ok"
  /\ Goto(o, "started")
  /\ UNCHANGED <<program, disk, cur, nodes, val, counts, read, dispatched>>

-----------------------------------------------------------------------------
(* A question.                                                             *)

(* persistenceLookupAnswer, or the memo table that holds the same answers. *)
Reuse(o) ==
  /\ pc[o] = "started" /\ ~nodes[o].effect
  /\ \E a \in Stored(o) : val' = [val EXCEPT ![o] = a.value]
  /\ Goto(o, "answered")
  /\ UNCHANGED <<program, disk, cur, nodes, counts, read, dispatched>>

(* Equal questions of one epoch are asked by one owner at a time           *)
(* (SingleFlight of Scheduler).                                            *)
Ask(o) ==
  /\ pc[o] = "started" /\ ~nodes[o].effect /\ Stored(o) = {}
  /\ \A p \in 1..Len(nodes) :
       pc[p] \in {"asking", "storing", "counting"} =>
         <<nodes[p].q, Epoch(p)>> # <<nodes[o].q, Epoch(o)>>
  /\ Goto(o, "asking")
  /\ UNCHANGED <<program, disk, cur, nodes, val, counts, read, dispatched>>

(* An answer arrives; a steered one is not replayable and is not stored.   *)
Answer(o) ==
  /\ pc[o] = "asking"
  /\ \E v \in Values : val' = [val EXCEPT ![o] = v]
  /\ \E replayable \in BOOLEAN : Goto(o, IF replayable THEN "storing" ELSE "answered")
  /\ UNCHANGED <<program, disk, cur, nodes, counts, read, dispatched>>

(* storeReusableAnswer: the record replaces the one with its key, in an    *)
(* atomic write under the lock of the answers.                             *)
StoreAnswer(o) ==
  /\ pc[o] = "storing"
  /\ LET a == [q |-> nodes[o].q, epoch |-> Epoch(o), value |-> val[o], occ |-> o,
               by |-> IF disk[cur].local THEN "local" ELSE "engine"] IN
       disk' = [disk EXCEPT ![cur].answers = {a} \cup (@ \ Stored(o))]
  /\ Goto(o, "counting")
  /\ UNCHANGED <<program, cur, nodes, val, counts, read, dispatched>>

(* The counts in memory follow what was written.                           *)
Count(o) ==
  /\ \/ pc[o] = "counting" /\ counts' = [counts EXCEPT !.answers = @ + 1]
     \/ pc[o] = "completed" /\ counts' = [counts EXCEPT !.effects = @ + 1]
  /\ Goto(o, "answered")
  /\ UNCHANGED <<program, disk, cur, nodes, val, read, dispatched>>

-----------------------------------------------------------------------------
(* An effect: dispatchEffect journals its start, dispatches it and         *)
(* journals its completion.                                                *)

(* Mutant: the effect is dispatched, and only its completion journaled.    *)
JournalStartSkipped(o) ==
  /\ pc[o] = "started" /\ nodes[o].effect
  /\ dispatched' = dispatched \cup {<<cur, o>>}
  /\ Goto(o, "journaled")
  /\ UNCHANGED <<program, disk, cur, nodes, val, counts, read>>

JournalStart(o) ==
  /\ pc[o] = "started" /\ nodes[o].effect
  /\ disk' = [disk EXCEPT ![cur].effects = @ \cup {<<o, "started">>}]
  /\ Goto(o, "journaled")
  /\ UNCHANGED <<program, cur, nodes, val, counts, read, dispatched>>

Dispatch(o) ==
  /\ pc[o] = "journaled"
  /\ dispatched' = dispatched \cup {<<cur, o>>}
  /\ Goto(o, "performing")
  /\ UNCHANGED <<program, disk, cur, nodes, val, counts, read>>

(* A gap: the next candidate of the chain gets the effect.                 *)
Gap(o) ==
  /\ pc[o] = "performing"
  /\ Goto(o, "started")
  /\ UNCHANGED <<program, disk, cur, nodes, val, counts, read, dispatched>>

JournalComplete(o) ==
  /\ pc[o] = "performing"
  /\ disk' = [disk EXCEPT ![cur].effects = @ \cup {<<o, "completed">>}]
  /\ \E v \in Values : val' = [val EXCEPT ![o] = v]
  /\ Goto(o, "completed")
  /\ UNCHANGED <<program, cur, nodes, counts, read, dispatched>>

-----------------------------------------------------------------------------
(* persistenceCheckpoint: the counts are read, then merged under the lock  *)
(* of the checkpoint with what is there.                                   *)

ReadCounts(o) ==
  /\ pc[o] = "answered"
  /\ read' = [read EXCEPT ![o] = counts]
  /\ Goto(o, "checkpointing")
  /\ UNCHANGED <<program, disk, cur, nodes, val, counts, dispatched>>

(* Mutant: the last checkpoint written wins.                               *)
LastWritten(prior, c) == c

Larger(m, n) == IF m >= n THEN m ELSE n
Merged(prior, c) ==
  IF prior = None THEN c
  ELSE [answers |-> Larger(prior.answers, c.answers), effects |-> Larger(prior.effects, c.effects)]

WriteCheckpoint(o) ==
  /\ pc[o] = "checkpointing"
  /\ disk' = [disk EXCEPT ![cur].checkpoint = Merged(@, read[o])]
  /\ Goto(o, "ok")
  /\ UNCHANGED <<program, cur, nodes, val, counts, read, dispatched>>

-----------------------------------------------------------------------------
(* The end of a process.                                                   *)

Finish ==
  /\ cur # 0 /\ Len(nodes) = Len(Branches) /\ \A o \in Occs : pc[o] = "ok"
  /\ disk' = [disk EXCEPT ![cur].ended = TRUE]
  /\ Idle
  /\ UNCHANGED <<program, dispatched>>

(* A crash, a failure or a cancellation; a crash in an append leaves a     *)
(* torn final record.                                                      *)
Stop ==
  /\ cur # 0
  /\ \E torn \in {FALSE} \cup
         {\E o \in 1..Len(nodes) : \/ pc[o] = "started" /\ nodes[o].effect
                                   \/ pc[o] = "performing"} :
       disk' = [disk EXCEPT ![cur].torn = torn]
  /\ Idle
  /\ UNCHANGED <<program, dispatched>>

-----------------------------------------------------------------------------
(* A new run: a root, or a child that validateLineage admits.              *)

NextRun == Cardinality({r \in Runs : disk[r].op # "none"}) + 1

Launch(parent, op, local, inherited) ==
  /\ NextRun \in Runs
  /\ disk' = [disk EXCEPT ![NextRun] =
       [Absent EXCEPT !.parent = parent, !.op = op, !.local = local, !.answers = inherited]]
  /\ cur' = NextRun
  /\ counts' = [answers |-> Cardinality(inherited), effects |-> 0]
  /\ UNCHANGED <<program, nodes, pc, val, read, dispatched>>

(* validateInheritedAnswers: no occurrence has two answers.                *)
Distinct(answers) == \A a, b \in answers : a.occ = b.occ => a = b

CountsMatch(s) == s.checkpoint.answers = Cardinality(s.answers)
                  /\ s.checkpoint.effects = Cardinality(s.effects)

(* A store that a resume or a fork may inherit from: the journal reads, it *)
(* holds no effect, and the checkpoint, if any, counts the answers.        *)
Inheritable(s) ==
  /\ ~s.torn /\ Distinct(s.answers) /\ s.effects = {}
  /\ s.checkpoint # None => CountsMatch(s)
Resumable(s) == s.checkpoint # None /\ Inheritable(s)

(* Mutant: the answering mode of the parent does not matter.               *)
KeptEngine(s, local, answers) == answers

(* inheritedPersonAnswers: a run answered through its controls inherits a  *)
(* person's answer from such a parent only, unless it was edited in.       *)
Kept(s, local, answers) ==
  IF local /\ ~s.local THEN {a \in answers : a.q \notin Persons \/ a.by = "edit"} ELSE answers

(* applyForkEdits with at most one edit: an answer dropped or replaced.    *)
Replaced(a, v) == [a EXCEPT !.value = v, !.by = "edit"]
Edited(answers) ==
  {answers} \cup {answers \ {a} : a \in answers}
  \cup {(answers \ {a}) \cup {Replaced(a, v)} : a \in answers, v \in Values}

Root == cur = 0 /\ NextRun = 1 /\ \E local \in BOOLEAN : Launch(0, "root", local, {})

Child(p) ==
  /\ cur = 0 /\ disk[p].op # "none"
  /\ \E local \in BOOLEAN :
       \/ Launch(p, "restart", local, {})
       \/ /\ Resumable(disk[p])
          /\ Launch(p, "resume", local, Kept(disk[p], local, disk[p].answers))
       \/ /\ Inheritable(disk[p])
          /\ \E edited \in Edited(disk[p].answers) :
               Launch(p, "fork", local, Kept(disk[p], local, edited))

-----------------------------------------------------------------------------
Worker(o) ==
  \/ Start(o) \/ Reuse(o) \/ Ask(o) \/ Answer(o) \/ StoreAnswer(o) \/ Count(o)
  \/ JournalStart(o) \/ Dispatch(o) \/ Gap(o) \/ JournalComplete(o)
  \/ ReadCounts(o) \/ WriteCheckpoint(o)

Next == \/ Root \/ Finish \/ Stop
        \/ \E p \in Runs : Child(p)
        \/ \E o \in Occs : Reach(o) \/ Worker(o)

Spec == Init /\ [][Next]_vars

-----------------------------------------------------------------------------
(* Properties.                                                             *)

(* No run inherits answers from a run that sent an effect to the world,    *)
(* wherever that run stopped: its effects are never repeated by a resume   *)
(* or a fork, only by an explicit restart.                                 *)
EffectsNeverReplayed ==
  \A c \in Runs : disk[c].op \in {"resume", "fork"} =>
    \A o \in Occs : <<disk[c].parent, o>> \notin dispatched

(* Every inherited answer was given before the first effect of the plan,   *)
(* so no answer is reused across an effect from one run to the next.       *)
InheritedBeforeEffects ==
  \A c \in Runs : disk[c].op \in {"resume", "fork"} /\ cur = c /\ nodes = << >> =>
    \A a \in disk[c].answers : a.epoch = 0

(* In a run answered through its controls every stored person answer was   *)
(* given locally or edited in by the operator, however long its lineage.   *)
PersonAnswersAreLocal ==
  \A r \in Runs : disk[r].local =>
    \A a \in disk[r].answers : a.q \in Persons => a.by \in {"local", "edit"}

(* The checkpoint of a run that completed without an effect counts exactly *)
(* its stored answers, in whatever order its workers stored, counted and   *)
(* checkpointed them.                                                      *)
CompletedRunCounts ==
  \A r \in Runs : disk[r].ended /\ disk[r].effects = {} => CountsMatch(disk[r])

(* A research note lists why a resume refuses: effects, a mismatch of the  *)
(* launch or corrupt state.  An interrupted run with a checkpoint and no   *)
(* effect is resumable.                                                    *)
InterruptedRunResumes ==
  \A r \in Runs :
    r # cur /\ disk[r].effects = {} /\ ~disk[r].torn /\ disk[r].checkpoint # None
      => Resumable(disk[r])

(* A resume or a fork continues before the effects of its parent: it       *)
(* repeats none and inherits no answer from behind one.                    *)
LineageStopsAtEffects == TypeOK /\ EffectsNeverReplayed /\ InheritedBeforeEffects
=============================================================================
