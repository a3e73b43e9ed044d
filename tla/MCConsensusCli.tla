--------------------------- MODULE MCConsensusCli ---------------------------
(* Instances of the two programs of a session for TLC: see client.cfg and   *)
(* client_finish.cfg.                                                       *)
EXTENDS Seeding

MCScenario == <<<<"claim", 0>>, Stance>>
MCOtherFiles ==
  {<< >>, <<JsonOther>>, <<JsonObject(<<JsonOther>>)>>, <<JsonArray(<<NotAnEntry>>)>>}
=============================================================================
