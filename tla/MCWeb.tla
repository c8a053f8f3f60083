--------------------------------- MODULE MCWeb ---------------------------------
(* A city that was revised once and restated without a revision, and a job   *)
(* in dispute; two corrections.                                              *)
EXTENDS Web

Claim(attr, event, conf) ==
  [attr |-> attr, event |-> event, ingest |-> 3, conf |-> conf, polarity |-> "AFFIRM", value |-> Ingested]
MCBaseRow == 11 :> Claim("city", 1, 80) @@ 12 :> Claim("city", 2, 80) @@ 13 :> Claim("city", 3, 72)
             @@ 21 :> Claim("job", 1, 80) @@ 22 :> Claim("job", 2, 80)

Revises(rel, newer, older) == [rel |-> rel, newer |-> newer, older |-> older, ingest |-> 3, conf |-> 70]
MCBaseEdges == {Revises("SUPERSEDES", 12, 11), Revises("CONTRADICTS", 22, 21)}

MCAbout(q) == CASE q = "where" -> "city" [] q = "work" -> "job" [] OTHER -> "nothing"
===============================================================================
