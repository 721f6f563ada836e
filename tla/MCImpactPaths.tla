--------------------------- MODULE MCImpactPaths ---------------------------
(* Every graph over three symbols and two consumers, from every start. *)
EXTENDS ImpactPaths

CONSTANTS s1, s2, s3, c1, c2

MCSymbols == {s1, s2, s3}
MCConsumers == {c1, c2}

(* Consumer identifiers sort before symbol identifiers ("consumer:" < "symbol:"). *)
MCRank == c1 :> 1 @@ c2 :> 2 @@ s1 :> 3 @@ s2 :> 4 @@ s3 :> 5
=============================================================================
