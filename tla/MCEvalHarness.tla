---- MODULE MCEvalHarness ----
(* Four questions, so that three empty answers may follow one another and the     *)
(* run still have one to ask, and three commands.                                 *)
EXTENDS EvalHarness
====
