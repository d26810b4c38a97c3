----------------------------- MODULE MCRunStore -----------------------------
(***************************************************************************)
(* Small programs for RunStore.                                            *)
(***************************************************************************)
EXTENDS RunStore

CONSTANTS q1, q2, q3, ask

N(e, q, w) == [effect |-> e, q |-> q, when |-> w]
Always == << >>

(* A person's answer decides which question follows; then an effect and    *)
(* the first question again.                                               *)
Mixed == << {N(FALSE, ask, Always)},
            {N(FALSE, q1, <<0>>), N(TRUE, q2, <<1>>)},
            {N(FALSE, ask, Always)} >>

(* A person's answer and an effect, for longer lineages.                   *)
Short == << {N(FALSE, ask, Always)}, {N(TRUE, q2, Always)} >>

(* Two independent questions, and one that depends on the first.           *)
Pure == << {N(FALSE, q1, Always)},
           {N(FALSE, q2, Always)},
           {N(FALSE, q2, <<0>>), N(FALSE, q3, <<1>>)} >>

Program(branches, runs) == [branches |-> branches, maxRuns |-> runs]
AllPrograms == {Program(Mixed, 2), Program(Short, 3), Program(Pure, 2)}
PurePrograms == {Program(Pure, 2)}
=============================================================================
