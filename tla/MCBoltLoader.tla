---- MODULE MCBoltLoader ----
(* One writer loading two histories of one node batch and one edge batch, with  *)
(* the deployment's times in ticks of five seconds.                               *)
EXTENDS BoltLoader
====
