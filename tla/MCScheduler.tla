---------------------------- MODULE MCScheduler ----------------------------
(***************************************************************************)
(* Small plans for Scheduler: two equal questions around an effect, two    *)
(* effects with overlapping questions between them, a prompt that reads an *)
(* earlier answer, a branch on one, and chains that share a lane.          *)
(***************************************************************************)
EXTENDS Scheduler

CONSTANTS m1, m2, pane, qa, qb, qc

MCLaneOf == [c \in {m1, m2, Unpinned} |-> IF c = m2 THEN pane ELSE NoLane]

Node(e, q, d, g, c) == [effect |-> e, q |-> q, deps |-> d, gate |-> g, chain |-> c]

(* Two equal questions race, an effect, the same question again.           *)
Around == << Node(FALSE, qa, {}, {}, <<m1, m2>>),
             Node(FALSE, qa, {}, {}, <<m1>>),
             Node(TRUE, qb, {1}, {}, <<m2>>),
             Node(FALSE, qa, {}, {}, <<m1>>) >>

(* Effects around questions that share the stateful lane of m2.            *)
Between == << Node(TRUE, qb, {}, {}, <<Unpinned>>),
              Node(FALSE, qa, {}, {}, <<m2>>),
              Node(FALSE, qb, {}, {}, <<m1, m2>>),
              Node(TRUE, qb, {3}, {}, <<m1>>) >>

(* The traversal branches on the first answer, which the store holds.      *)
Branch == << Node(FALSE, qc, {}, {}, <<m1>>),
             Node(FALSE, qb, {1}, {1}, <<m2, m1>>),
             Node(FALSE, qb, {}, {}, <<m2>>) >>

(* Three equal questions of one epoch, each free to own the answer.        *)
Shared == << Node(FALSE, qa, {}, {}, <<m1>>),
             Node(FALSE, qa, {}, {}, <<m1>>),
             Node(FALSE, qa, {}, {}, <<m1, m2>>) >>

MCPlans == {Around, Between, Branch, Shared}
MCInherited == {<<0, qc>>}
=============================================================================
