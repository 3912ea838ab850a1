---------------------------- MODULE MCEmbedding ----------------------------
(* Two callers over a cache of two vectors, lists that share questions or   *)
(* repeat one in another spelling, and two documents, one of two jobs.      *)
EXTENDS Embedding, TLC

CONSTANTS a1, a2, d1, d2, Cost, CostAgain, Date, Owner

MCPassages == (d1 :> 3) @@ (d2 :> 1)
MCTexts    == {Cost, CostAgain, Date, Owner}
MCKeyOf    == [t \in MCTexts |-> IF t = CostAgain THEN Cost ELSE t]
MCBatches  == {<<CostAgain, Date>>, <<Cost, Owner>>, <<Owner, Date, Owner>>}
=============================================================================
