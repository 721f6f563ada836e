--------------------------- MODULE MCAgentProcess ---------------------------
(***************************************************************************)
(* A stdout limit of two bytes and up to four printed, a stderr limit of   *)
(* one byte and up to two printed: below, at and above each limit, over    *)
(* every division into chunks.                                             *)
(***************************************************************************)
EXTENDS AgentProcess

MCBytes == {"x", "y"}
OneByte == {"x"}
MCLimit == [s \in Streams |-> IF s = "stdout" THEN 2 ELSE 1]
MCMaxWritten == [s \in Streams |-> IF s = "stdout" THEN 4 ELSE 2]
=============================================================================
