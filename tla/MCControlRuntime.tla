-------------------------- MODULE MCControlRuntime --------------------------
(***************************************************************************)
(* Two occurrences under control and a handful of controls for each        *)
(* question.                                                               *)
(***************************************************************************)
EXTENDS ControlRuntime

CONSTANTS o1, o2, m1, m2, m3

C(i, k, o, a, x) == [id |-> i, kind |-> k, occ |-> o, att |-> a, arg |-> x]

(* A question with an alternate, and an effect.                            *)
MixedChain == [o \in {o1, o2} |-> IF o = o1 THEN <<m1, m2>> ELSE <<m1>>]
MixedControls ==
  { C("s1", "steer", o1, 1, None), C("s2", "steer", o1, 2, None), C("r1", "redirect", o1, 0, m2),
    C("f1", "recover", o1, 0, "retry"), C("f2", "recover", o1, 0, "failover"),
    C("f3", "recover", o2, 0, "abandon"), C("x", "cancel", o1, 0, None) }
(* The effect steered and redirected, and the question redirected.         *)
SteerControls ==
  { C("s3", "steer", o2, 1, None), C("r1", "redirect", o1, 0, m2), C("r2", "redirect", o2, 0, m1) }

(* A question that a person answers, beside one that may be redirected.    *)
PersonControls ==
  { C("a1", "answer", o2, 0, "valid"), C("a2", "answer", o2, 0, "valid"),
    C("a3", "answer", o2, 0, "invalid"), C("r1", "redirect", o1, 0, m2),
    C("x", "cancel", o1, 0, None) }

LongChain == [o \in {o1} |-> <<m1, m2, m3>>]
LongControls ==
  { C("r1", "redirect", o1, 0, m2), C("r2", "redirect", o1, 0, m3), C("r3", "redirect", o1, 0, m2),
    C("f1", "recover", o1, 0, "failover"), C("f2", "recover", o1, 0, "retry"),
    C("x", "cancel", o1, 0, None) }

Setup(chain, effects, persons, controls, attempts, bound) ==
  [occ |-> DOMAIN chain, effects |-> effects, persons |-> persons, chain |-> chain,
   controls |-> controls, maxAttempts |-> attempts, maxReceived |-> bound]

Mixed  == Setup(MixedChain, {o2}, {}, MixedControls, 2, 2)
Person == Setup(MixedChain, {}, {o2}, PersonControls, 2, 3)
Long   == Setup(LongChain, {}, {}, LongControls, 3, 3)
Steered == Setup(MixedChain, {o2}, {}, SteerControls, 2, 2)

AllSetups == {Mixed, Person, Long, Steered}
LongSetups == {Long}
=============================================================================
