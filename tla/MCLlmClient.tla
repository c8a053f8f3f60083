----------------------------- MODULE MCLlmClient ------------------------------
(* Two extraction callers and a judge; one slot or three.  A call costs 9 of a *)
(* cap of 10, so that the first reply throttles and the second exhausts.     *)
EXTENDS LlmClient

CONSTANTS x1, x2, j
===============================================================================
