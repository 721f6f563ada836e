----------------------------- MODULE MCGraphBuild -----------------------------
(* Up to three consumers, two references and two productions, in any order   *)
(* and with repetitions, over two identifiers, two names and two symbols.    *)
EXTENDS GraphBuild

CONSTANTS s1, s2, c1, c2, n1, n2

MCSymbols == {s1, s2}
MCConsumerIDs == {c1, c2}
MCConsumerNames == {n1, n2}
MCItem == [consumer : MCConsumerIDs, symbol : MCSymbols]
MCDiscoveries ==
    [consumers : BoundedSeq([id : MCConsumerIDs, name : MCConsumerNames], 3),
     references : BoundedSeq(MCItem, 2),
     productions : BoundedSeq(MCItem, 2)]
===============================================================================
