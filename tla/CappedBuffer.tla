---------------------------- MODULE CappedBuffer ----------------------------
(***************************************************************************)
(* cappedBuffer (internal/agentprocess/runner.go): a writer that keeps the *)
(* first bytes up to a limit, remembers that there were more, and never    *)
(* tells the producer, so that a process which prints too much is drained  *)
(* to its end instead of blocking on a full pipe.                          *)
(***************************************************************************)
EXTENDS Integers, Sequences

EmptyBuffer == [bytes |-> << >>, exceeded |-> FALSE]

(* Mutant: a chunk that does not fit is dropped whole. *)
Write_dropsChunk(buffer, limit, chunk) ==
    IF Len(chunk) > limit - Len(buffer.bytes)
      THEN [buffer EXCEPT !.exceeded = TRUE]
      ELSE [buffer EXCEPT !.bytes = @ \o chunk]

(* Chunks are never empty: io.Copy writes what it has read. *)
Write(buffer, limit, chunk) ==
    LET remaining == limit - Len(buffer.bytes)
    IN  IF Len(chunk) > remaining
          THEN [bytes |-> buffer.bytes \o SubSeq(chunk, 1, remaining), exceeded |-> TRUE]
          ELSE [bytes |-> buffer.bytes \o chunk, exceeded |-> buffer.exceeded]

-----------------------------------------------------------------------------
(* What a buffer must hold after a stream has been written to it, in        *)
(* whatever chunks.                                                         *)
Holds(buffer, limit, stream) ==
    /\ buffer.bytes = SubSeq(stream, 1, IF Len(stream) <= limit THEN Len(stream) ELSE limit)
    /\ buffer.exceeded <=> Len(stream) > limit
=============================================================================
