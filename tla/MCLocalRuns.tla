---------------------------- MODULE MCLocalRuns ----------------------------
(* A small instance of LocalRuns: a person and the model command one       *)
(* session while another one starts.                                       *)
EXTENDS LocalRuns

TheCallers == {<<"pi1", "human">>, <<"pi1", "model">>}
=============================================================================
