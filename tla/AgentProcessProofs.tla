-------------------------- MODULE AgentProcessProofs --------------------------
(***************************************************************************)
(* Proofs about the bounded provider call, for every limit, every alphabet *)
(* and every provider.                                                     *)
(***************************************************************************)
EXTENDS AgentProcess, SequenceTheorems, TLAPS

Cap(n, limit) == IF n <= limit THEN n ELSE limit

-----------------------------------------------------------------------------
(* Lemmas about prefixes of a stream.                                       *)
LEMMA PrefixFacts ==
    ASSUME NEW S, NEW w \in Seq(S), NEW t \in 0 .. Len(w)
    PROVE  SubSeq(w, 1, t) \in Seq(S) /\ Len(SubSeq(w, 1, t)) = t
  OBVIOUS

LEMMA PrefixOfPrefix ==
    ASSUME NEW S, NEW w \in Seq(S), NEW t \in 0 .. Len(w), NEW m \in 0 .. t
    PROVE  SubSeq(SubSeq(w, 1, t), 1, m) = SubSeq(w, 1, m)
  OBVIOUS

LEMMA PrefixGrows ==
    ASSUME NEW S, NEW w \in Seq(S), NEW t \in 0 .. Len(w), NEW n \in t .. Len(w)
    PROVE  SubSeq(w, 1, t) \o SubSeq(w, t+1, n) = SubSeq(w, 1, n)
  BY ConcatAdjacentSubSeq

LEMMA CutChunk ==
    ASSUME NEW S, NEW w \in Seq(S), NEW t \in 0 .. Len(w), NEW n \in t+1 .. Len(w),
           NEW r \in 0 .. n - t
    PROVE  SubSeq(SubSeq(w, t+1, n), 1, r) = SubSeq(w, t+1, t+r)
  OBVIOUS

(* What Holds says of a stream that is itself a prefix.                     *)
LEMMA HoldsPrefix ==
    ASSUME NEW S, NEW w \in Seq(S), NEW limit \in Nat, NEW t \in 0 .. Len(w), NEW b
    PROVE  Holds(b, limit, SubSeq(w, 1, t)) <=>
              /\ b.bytes = SubSeq(w, 1, Cap(t, limit))
              /\ b.exceeded <=> t > limit
<1>1. Len(SubSeq(w, 1, t)) = t
  BY PrefixFacts
<1>2. Cap(t, limit) \in 0 .. t
  BY DEF Cap
<1>3. SubSeq(SubSeq(w, 1, t), 1, Cap(t, limit)) = SubSeq(w, 1, Cap(t, limit))
  BY <1>2, PrefixOfPrefix
<1> QED
  BY <1>1, <1>3 DEF Holds, Cap

(* The two cases of Write.                                                  *)
LEMMA WriteCases ==
    ASSUME NEW b, NEW limit, NEW chunk
    PROVE  /\ Len(chunk) > limit - Len(b.bytes) =>
                /\ Write(b, limit, chunk).bytes
                     = b.bytes \o SubSeq(chunk, 1, limit - Len(b.bytes))
                /\ Write(b, limit, chunk).exceeded = TRUE
           /\ ~ (Len(chunk) > limit - Len(b.bytes)) =>
                /\ Write(b, limit, chunk).bytes = b.bytes \o chunk
                /\ Write(b, limit, chunk).exceeded = b.exceeded
  BY DEF Write

(* One more chunk of the stream keeps the buffer right.                     *)
LEMMA WriteHolds ==
    ASSUME NEW S, NEW w \in Seq(S), NEW limit \in Nat,
           NEW t \in 0 .. Len(w), NEW n \in t+1 .. Len(w),
           NEW b \in [bytes : Seq(S), exceeded : BOOLEAN],
           Holds(b, limit, SubSeq(w, 1, t))
    PROVE  Holds(Write(b, limit, SubSeq(w, t+1, n)), limit, SubSeq(w, 1, n))
<1> DEFINE chunk == SubSeq(w, t+1, n)
           m == Cap(t, limit)
           c == Write(b, limit, chunk)
<1>1. /\ b.bytes = SubSeq(w, 1, m)
      /\ b.exceeded <=> t > limit
      /\ m \in 0 .. Len(w) /\ m <= limit /\ m <= t
      /\ Len(b.bytes) = m
  BY HoldsPrefix, PrefixFacts DEF Cap
<1>2. Len(chunk) = n - t /\ chunk \in Seq(S)
  OBVIOUS
<1>c. /\ n - t > limit - m => /\ c.bytes = SubSeq(w, 1, m) \o SubSeq(chunk, 1, limit - m)
                              /\ c.exceeded = TRUE
      /\ ~ (n - t > limit - m) => /\ c.bytes = SubSeq(w, 1, m) \o chunk
                                  /\ c.exceeded = b.exceeded
  <2> HIDE DEF chunk, m
  <2>1. /\ Len(chunk) > limit - Len(b.bytes) =>
             /\ c.bytes = b.bytes \o SubSeq(chunk, 1, limit - Len(b.bytes))
             /\ c.exceeded = TRUE
        /\ ~ (Len(chunk) > limit - Len(b.bytes)) =>
             /\ c.bytes = b.bytes \o chunk
             /\ c.exceeded = b.exceeded
    BY WriteCases
  <2> HIDE DEF c
  <2>2. Len(chunk) = n - t /\ Len(b.bytes) = m /\ b.bytes = SubSeq(w, 1, m)
    BY <1>1, <1>2
  <2> QED
    BY <2>1, <2>2
<1>m. m = Cap(t, limit)
  OBVIOUS
<1> HIDE DEF c, m
<1>3. CASE n - t <= limit - m
  <2>1. t <= limit /\ m = t /\ n <= limit
    BY <1>3, <1>m DEF Cap
  <2>2. c.bytes = SubSeq(w, 1, t) \o chunk /\ c.exceeded = b.exceeded
    BY <1>c, <1>1, <1>3, <2>1
  <2>3. c.bytes = SubSeq(w, 1, n)
    BY <2>2, PrefixGrows
  <2>4. Cap(n, limit) = n /\ n \in 0 .. Len(w)
    BY <2>1 DEF Cap
  <2> QED
    BY <2>1, <2>2, <2>3, <2>4, <1>1, HoldsPrefix DEF c
<1>4. CASE ~ (n - t <= limit - m)
  <2>1. n > limit
    BY <1>4, <1>m DEF Cap
  <2>2. c.bytes = SubSeq(w, 1, m) \o SubSeq(chunk, 1, limit - m) /\ c.exceeded = TRUE
    BY <1>c, <1>1, <1>4
  <2>3. SubSeq(w, 1, m) \o SubSeq(chunk, 1, limit - m) = SubSeq(w, 1, limit)
    <3>1. CASE t <= limit
      <4>1. SubSeq(chunk, 1, limit - t) = SubSeq(w, t+1, limit)
        BY <2>1, <3>1, CutChunk
      <4>2. SubSeq(w, 1, t) \o SubSeq(w, t+1, limit) = SubSeq(w, 1, limit)
        BY <2>1, <3>1, PrefixGrows
      <4> QED
        BY <4>1, <4>2, <3>1, <1>m DEF Cap
    <3>2. CASE t > limit
      <4>1. m = limit /\ limit - m = 0
        BY <3>2, <1>m DEF Cap
      <4>2. SubSeq(chunk, 1, 0) = << >>
        OBVIOUS
      <4>3. SubSeq(w, 1, limit) \in Seq(S)
        BY <3>2, PrefixFacts
      <4>4. SubSeq(w, 1, limit) \o << >> = SubSeq(w, 1, limit)
        BY <4>3
      <4> QED
        BY <4>1, <4>2, <4>4
    <3>3. t <= limit \/ t > limit
      OBVIOUS
    <3> QED
      BY <3>1, <3>2, <3>3
  <2>4. c.bytes = SubSeq(w, 1, limit)
    BY <2>2, <2>3
  <2>5. Cap(n, limit) = limit /\ n \in 0 .. Len(w)
    BY <2>1 DEF Cap
  <2>6. Holds(c, limit, SubSeq(w, 1, n))
    BY <2>1, <2>2, <2>4, <2>5, HoldsPrefix
  <2> QED
    BY <2>6 DEF c
<1> QED
  BY <1>3, <1>4

LEMMA WriteType ==
    ASSUME NEW S, NEW b \in [bytes : Seq(S), exceeded : BOOLEAN], NEW limit \in Nat,
           NEW chunk \in Seq(S), Len(b.bytes) <= limit
    PROVE  Write(b, limit, chunk) \in [bytes : Seq(S), exceeded : BOOLEAN]
<1> DEFINE r == limit - Len(b.bytes)
<1>1. b.bytes \in Seq(S) /\ b.exceeded \in BOOLEAN /\ Len(chunk) \in Nat /\ r \in Nat
  OBVIOUS
<1>2. CASE Len(chunk) > r
  <2>1. SubSeq(chunk, 1, r) \in Seq(S)
    BY <1>1, <1>2
  <2>2. b.bytes \o SubSeq(chunk, 1, r) \in Seq(S)
    BY <1>1, <2>1
  <2> QED
    BY <1>2, <2>2 DEF Write
<1>3. CASE ~ (Len(chunk) > r)
  <2>1. b.bytes \o chunk \in Seq(S)
    BY <1>1
  <2> QED
    BY <1>1, <1>3, <2>1 DEF Write
<1> QED
  BY <1>2, <1>3

(* The whole stream is its own prefix, and printing leaves prefixes alone.  *)
LEMMA FullPrefix ==
    ASSUME NEW S, NEW w \in Seq(S)
    PROVE  SubSeq(w, 1, Len(w)) = w
  OBVIOUS

LEMMA PrefixOfLonger ==
    ASSUME NEW S, NEW w \in Seq(S), NEW x \in S, NEW t \in 0 .. Len(w)
    PROVE  /\ SubSeq(Append(w, x), 1, t) = SubSeq(w, 1, t)
           /\ Append(w, x) \in Seq(S)
           /\ Len(Append(w, x)) = Len(w) + 1
  OBVIOUS

-----------------------------------------------------------------------------
(* The inductive invariant: what a copier has read has been printed, a      *)
(* buffer holds the prefix of what was read, the watcher strikes only when  *)
(* the context has ended and only a process that was started, a process     *)
(* that is reaped without an error has ended by itself, and a result is     *)
(* final.                                                                   *)
StreamInv ==
    /\ written \in [Streams -> Seq(Bytes)]
    /\ taken \in [Streams -> Nat]
    /\ buffer \in [Streams -> [bytes : Seq(Bytes), exceeded : BOOLEAN]]
    /\ \A s \in Streams : taken[s] <= Len(written[s])
    /\ BuffersHoldThePrefix

ResultInv ==
    /\ phase # "returned" => result = "pending"
    /\ phase \in {"validate", "start"} => child = "none" /\ watcher = "armed"
    /\ watcher = "fired" => ctx # "live"
    /\ child = "killed" => watcher = "fired"
    /\ phase = "drain" => /\ child \in {"exit0", "exit1", "killed"}
                          /\ waitErr = "nil" <=> child = "exit0" /\ watcher = "armed"
    /\ phase = "returned" => child # "running"
    /\ SuccessIsGenuine
    /\ ReportIsHowItEnded

Inv == TypeOK /\ StreamInv /\ ResultInv

LEMMA InitInv == Init => Inv
<1> SUFFICES ASSUME Init PROVE Inv
  OBVIOUS
<1>1. << >> \in Seq(Bytes) /\ Len(<< >>) = 0
  OBVIOUS
<1>2. TypeOK
  BY <1>1 DEF Init, TypeOK, Results, EmptyBuffer
<1>3. BuffersHoldThePrefix
  <2> SUFFICES ASSUME NEW s \in Streams
               PROVE  Holds(buffer[s], Limit[s], SubSeq(written[s], 1, taken[s]))
    BY DEF BuffersHoldThePrefix
  <2>1. /\ buffer[s].bytes = << >> /\ buffer[s].exceeded = FALSE
        /\ written[s] = << >> /\ taken[s] = 0 /\ Limit[s] \in Nat
    BY LimitAssumption DEF Init, EmptyBuffer
  <2>2. SubSeq(<< >>, 1, 0) = << >> /\ Len(<< >>) = 0
    OBVIOUS
  <2>3. Holds(buffer[s], Limit[s], << >>)
    BY <2>1, <2>2 DEF Holds
  <2> QED
    BY <2>1, <2>2, <2>3
<1>4. StreamInv
  BY <1>2, <1>3, <1>1 DEF StreamInv, TypeOK, Init
<1>5. ResultInv
  BY DEF Init, ResultInv, SuccessIsGenuine, ReportIsHowItEnded
<1> QED
  BY <1>2, <1>4, <1>5 DEF Inv

(* Steps that touch neither a stream nor a buffer.                          *)
LEMMA StreamsStay ==
    ASSUME StreamInv, UNCHANGED streamVars
    PROVE  StreamInv'
  BY DEF StreamInv, streamVars, BuffersHoldThePrefix

(* Printing: the processes are ahead of the copiers.                        *)
LEMMA PrintKeepsStreams ==
    ASSUME StreamInv, NEW s \in Streams, Emit(s)
    PROVE  StreamInv'
<1>1. PICK x \in Bytes : written' = [written EXCEPT ![s] = Append(@, x)]
  BY DEF Emit
<1>2. UNCHANGED <<taken, buffer>>
  BY DEF Emit
<1>3. \A r \in Streams :
         /\ written'[r] \in Seq(Bytes)
         /\ taken[r] <= Len(written'[r])
         /\ SubSeq(written'[r], 1, taken[r]) = SubSeq(written[r], 1, taken[r])
  <2> SUFFICES ASSUME NEW r \in Streams
               PROVE  /\ written'[r] \in Seq(Bytes)
                      /\ taken[r] <= Len(written'[r])
                      /\ SubSeq(written'[r], 1, taken[r]) = SubSeq(written[r], 1, taken[r])
    OBVIOUS
  <2>1. written[r] \in Seq(Bytes) /\ taken[r] \in 0 .. Len(written[r])
    BY DEF StreamInv
  <2>2. CASE r = s
    <3>1. written'[r] = Append(written[r], x)
      BY <1>1, <2>2 DEF StreamInv
    <3> QED
      BY <2>1, <3>1, PrefixOfLonger
  <2>3. CASE r # s
    BY <1>1, <2>1, <2>3 DEF StreamInv
  <2> QED
    BY <2>2, <2>3
<1>4. written' \in [Streams -> Seq(Bytes)]
  BY <1>1, <1>3 DEF StreamInv
<1> QED
  BY <1>2, <1>3, <1>4 DEF StreamInv, BuffersHoldThePrefix

(* Copying: a chunk of any size moves from the pipe to the buffer.          *)
LEMMA CopyKeepsStreams ==
    ASSUME StreamInv, NEW s \in Streams, CopyChunk(s)
    PROVE  StreamInv'
<1>1. PICK n \in taken[s] + 1 .. Len(written[s]) :
         /\ buffer' = [buffer EXCEPT ![s] =
                         Write(@, Limit[s], SubSeq(written[s], taken[s] + 1, n))]
         /\ taken' = [taken EXCEPT ![s] = n]
  BY DEF CopyChunk
<1>2. written' = written
  BY DEF CopyChunk
<1> DEFINE chunk == SubSeq(written[s], taken[s] + 1, n)
           new == Write(buffer[s], Limit[s], chunk)
<1>3. /\ written[s] \in Seq(Bytes) /\ taken[s] \in 0 .. Len(written[s])
      /\ n \in taken[s] + 1 .. Len(written[s]) /\ n \in Nat /\ n <= Len(written[s])
      /\ buffer[s] \in [bytes : Seq(Bytes), exceeded : BOOLEAN]
      /\ Limit[s] \in Nat
      /\ Holds(buffer[s], Limit[s], SubSeq(written[s], 1, taken[s]))
  BY LimitAssumption DEF StreamInv, BuffersHoldThePrefix
<1>4. Holds(new, Limit[s], SubSeq(written[s], 1, n))
  BY <1>3, WriteHolds
<1>5. chunk \in Seq(Bytes)
  BY <1>3
<1>6. Len(buffer[s].bytes) <= Limit[s]
  <2>1. buffer[s].bytes = SubSeq(written[s], 1, Cap(taken[s], Limit[s]))
    BY <1>3, HoldsPrefix
  <2>2. Cap(taken[s], Limit[s]) \in 0 .. Len(written[s]) /\ Cap(taken[s], Limit[s]) <= Limit[s]
    BY <1>3 DEF Cap
  <2> QED
    BY <1>3, <2>1, <2>2, PrefixFacts
<1>7. new \in [bytes : Seq(Bytes), exceeded : BOOLEAN]
  <2> HIDE DEF chunk
  <2> QED
    BY <1>3, <1>5, <1>6, WriteType
<1>8. buffer' = [buffer EXCEPT ![s] = new]
  BY <1>1
<1> HIDE DEF new
<1>9. /\ buffer' \in [Streams -> [bytes : Seq(Bytes), exceeded : BOOLEAN]]
      /\ taken' \in [Streams -> Nat]
      /\ buffer'[s] = new /\ taken'[s] = n
      /\ \A r \in Streams : r # s => buffer'[r] = buffer[r] /\ taken'[r] = taken[r]
  BY <1>1, <1>3, <1>7, <1>8 DEF StreamInv
<1>10. \A r \in Streams :
          /\ taken'[r] <= Len(written[r])
          /\ Holds(buffer'[r], Limit[r], SubSeq(written[r], 1, taken'[r]))
  <2> SUFFICES ASSUME NEW r \in Streams
               PROVE  /\ taken'[r] <= Len(written[r])
                      /\ Holds(buffer'[r], Limit[r], SubSeq(written[r], 1, taken'[r]))
    OBVIOUS
  <2>1. CASE r = s
    BY <1>3, <1>4, <1>9, <2>1
  <2>2. CASE r # s
    BY <1>9, <2>2 DEF StreamInv, BuffersHoldThePrefix
  <2> QED
    BY <2>1, <2>2
<1> QED
  BY <1>2, <1>9, <1>10 DEF StreamInv, BuffersHoldThePrefix

LEMMA StreamsStep ==
    ASSUME StreamInv, [Next]_vars
    PROVE  StreamInv'
<1>1. CASE \E s \in Streams : Emit(s)
  BY <1>1, PrintKeepsStreams
<1>2. CASE \E s \in Streams : CopyChunk(s)
  BY <1>2, CopyKeepsStreams
<1>3. CASE UNCHANGED streamVars
  BY <1>3, StreamsStay
<1>4. \/ \E s \in Streams : Emit(s)
      \/ \E s \in Streams : CopyChunk(s)
      \/ UNCHANGED streamVars
  BY DEF Next, Call, Environment, vars, Validate, StartFails, Start, Deadline, Cancel, Fork,
         ChildExits, DescendantExits, StdinCopied, WatcherKills, Reap, Conclude
<1> QED
  BY <1>1, <1>2, <1>3, <1>4

-----------------------------------------------------------------------------
LEMMA TypeStep ==
    ASSUME Inv, [Next]_vars, StreamInv'
    PROVE  TypeOK'
<1> USE DEF Results
<1>s. /\ written' \in [Streams -> Seq(Bytes)]
      /\ taken' \in [Streams -> Nat]
      /\ buffer' \in [Streams -> [bytes : Seq(Bytes), exceeded : BOOLEAN]]
  BY DEF StreamInv
<1>t. TypeOK
  BY DEF Inv
<1>1. CASE Validate
  BY <1>s, <1>t, <1>1 DEF Validate, Return, TypeOK
<1>2. CASE StartFails
  BY <1>s, <1>t, <1>2 DEF StartFails, Return, ContextResult, TypeOK
<1>3. CASE Start
  BY <1>s, <1>t, <1>3 DEF Start, TypeOK
<1>4. CASE WatcherKills
  BY <1>s, <1>t, <1>4 DEF WatcherKills, TypeOK
<1>5. CASE Reap
  BY <1>s, <1>t, <1>5 DEF Reap, TypeOK
<1>6. CASE Conclude
  <2>1. Outcome \in Results
    BY <1>t DEF Outcome, ContextResult, TypeOK
  <2>2. buffer["stdout"].bytes \in Seq(Bytes) /\ << >> \in Seq(Bytes)
    BY <1>t DEF TypeOK, Streams
  <2>3. output' \in Seq(Bytes)
    BY <1>6, <2>2 DEF Conclude
  <2> QED
    BY <1>s, <1>t, <1>6, <2>1, <2>3 DEF Conclude, Return, TypeOK
<1>7. CASE StdinCopied
  BY <1>s, <1>t, <1>7 DEF StdinCopied, TypeOK
<1>8. CASE \E s \in Streams : CopyChunk(s)
  BY <1>s, <1>t, <1>8 DEF CopyChunk, TypeOK
<1>9. CASE Deadline \/ Cancel
  BY <1>s, <1>t, <1>9 DEF Deadline, Cancel, TypeOK
<1>10. CASE Fork \/ ChildExits \/ DescendantExits
  BY <1>s, <1>t, <1>10 DEF Fork, ChildExits, DescendantExits, TypeOK
<1>11. CASE \E s \in Streams : Emit(s)
  BY <1>s, <1>t, <1>11 DEF Emit, TypeOK
<1>12. CASE UNCHANGED vars
  BY <1>s, <1>t, <1>12 DEF vars, TypeOK
<1> QED
  BY <1>1, <1>2, <1>3, <1>4, <1>5, <1>6, <1>7, <1>8, <1>9, <1>10, <1>11, <1>12
     DEF Next, Call, Environment

(* At the end of the pipes a buffer that overflowed nothing is the stream.  *)
LEMMA WholeStream ==
    ASSUME StreamInv, NEW s \in Streams, taken[s] = Len(written[s]), ~ buffer[s].exceeded
    PROVE  buffer[s].bytes = written[s] /\ Len(written[s]) <= Limit[s]
<1>1. /\ written[s] \in Seq(Bytes) /\ Len(written[s]) \in Nat /\ Limit[s] \in Nat
      /\ Holds(buffer[s], Limit[s], SubSeq(written[s], 1, taken[s]))
  BY LimitAssumption DEF StreamInv, BuffersHoldThePrefix
<1>2. SubSeq(written[s], 1, Len(written[s])) = written[s]
  BY <1>1, FullPrefix
<1>3. Holds(buffer[s], Limit[s], written[s])
  BY <1>1, <1>2
<1>4. ~ (Len(written[s]) > Limit[s])
  BY <1>3 DEF Holds
<1>5. buffer[s].bytes = SubSeq(written[s], 1, Len(written[s])) /\ Len(written[s]) <= Limit[s]
  BY <1>1, <1>3, <1>4 DEF Holds
<1> QED
  BY <1>2, <1>5

(* At the end of the pipes a buffer knows whether its stream fits.          *)
LEMMA OverflowIsExact ==
    ASSUME StreamInv, NEW s \in Streams, taken[s] = Len(written[s])
    PROVE  buffer[s].exceeded <=> ~ Fits(s)
<1>1. /\ written[s] \in Seq(Bytes) /\ Len(written[s]) \in Nat /\ Limit[s] \in Nat
      /\ Holds(buffer[s], Limit[s], SubSeq(written[s], 1, taken[s]))
  BY LimitAssumption DEF StreamInv, BuffersHoldThePrefix
<1>2. SubSeq(written[s], 1, Len(written[s])) = written[s]
  BY <1>1, FullPrefix
<1>3. Holds(buffer[s], Limit[s], written[s])
  BY <1>1, <1>2
<1> QED
  BY <1>1, <1>3 DEF Holds, Fits

(* The provider is reported as it ended. *)
LEMMA ReportStep ==
    ASSUME Inv, Conclude
    PROVE  ReportIsHowItEnded'
<1>1. /\ child \in {"exit0", "exit1", "killed"}
      /\ waitErr = "nil" <=> child = "exit0" /\ watcher = "armed"
      /\ watcher = "fired" => ctx # "live"
      /\ child = "killed" => watcher = "fired"
      /\ ctx \in {"live", "deadline", "canceled"}
      /\ watcher \in {"armed", "fired"}
  BY DEF Inv, ResultInv, TypeOK, Conclude
<1>2. /\ buffer["stdout"].exceeded <=> ~ Fits("stdout")
      /\ buffer["stderr"].exceeded <=> ~ Fits("stderr")
  BY OverflowIsExact DEF Inv, Conclude, EndOfPipes, Streams
<1>3. /\ result' = Outcome /\ UNCHANGED <<ctx, child, watcher, written>>
  BY DEF Conclude, Return, streamVars
<1>4. \A s : Fits(s)' <=> Fits(s)
  BY <1>3 DEF Fits
<1>5. CASE waitErr = "nil"
  <2>1. /\ child = "exit0" /\ watcher = "armed"
        /\ Outcome = (IF ~ Fits("stdout") THEN "outputTooLong"
                      ELSE IF ~ Fits("stderr") THEN "errorsTooLong" ELSE "ok")
    BY <1>1, <1>2, <1>5 DEF Outcome
  <2> QED
    BY <2>1, <1>3, <1>4 DEF ReportIsHowItEnded
<1>6. CASE waitErr # "nil"
  <2>1. Outcome = ContextResult("failed")
    BY <1>6 DEF Outcome
  <2>2. ~ (child = "exit0" /\ watcher = "armed")
    BY <1>1, <1>6
  <2>3. watcher = "fired" => Outcome = (IF ctx = "deadline" THEN "timedOut" ELSE "canceled")
    BY <1>1, <2>1 DEF ContextResult
  <2>4. Outcome = "failed" <=> child = "exit1" /\ ctx = "live"
    BY <1>1, <2>1, <2>2 DEF ContextResult
  <2> HIDE DEF Outcome
  <2> QED
    BY <2>2, <2>3, <2>4, <1>3 DEF ReportIsHowItEnded
<1> QED
  BY <1>5, <1>6

LEMMA ResultStep ==
    ASSUME Inv, [Next]_vars
    PROVE  ResultInv'
<1>i. ResultInv /\ TypeOK /\ StreamInv
  BY DEF Inv
<1> USE DEF ResultInv, SuccessIsGenuine, ReportIsHowItEnded
<1>1. CASE Validate
  BY <1>i, <1>1 DEF Validate, Return, streamVars
<1>2. CASE StartFails
  <2>1. ContextResult("notStarted") # "ok"
    BY <1>i DEF ContextResult, TypeOK
  <2> QED
    BY <1>i, <1>2, <2>1 DEF StartFails, Return, streamVars
<1>3. CASE Start
  BY <1>i, <1>3 DEF Start, streamVars
<1>4. CASE WatcherKills
  BY <1>i, <1>4 DEF WatcherKills, streamVars, TypeOK
<1>5. CASE Reap
  BY <1>i, <1>5 DEF Reap, TypeOK, streamVars
<1>6. CASE Conclude
  <2>2. Outcome = "ok" => /\ waitErr = "nil"
                          /\ ~ buffer["stdout"].exceeded
                          /\ ~ buffer["stderr"].exceeded
    BY <1>i DEF Outcome, ContextResult, TypeOK
  <2>3. \A s \in Streams : taken[s] = Len(written[s])
    BY <1>6 DEF Conclude, EndOfPipes
  <2>4. Outcome = "ok" => /\ buffer["stdout"].bytes = written["stdout"]
                          /\ Len(written["stdout"]) <= Limit["stdout"]
                          /\ Len(written["stderr"]) <= Limit["stderr"]
    BY <1>i, <2>2, <2>3, WholeStream DEF Streams
  <2>5. Outcome = "ok" => child = "exit0" /\ watcher = "armed"
    BY <1>i, <1>6, <2>2 DEF Conclude
  <2>6. /\ result' = Outcome /\ phase' = "returned"
        /\ UNCHANGED <<ctx, child, watcher, written>>
        /\ Outcome = "ok" => output' = buffer["stdout"].bytes
    BY <1>6 DEF Conclude, Return, streamVars
  <2>7. ReportIsHowItEnded'
    BY <1>6, ReportStep
  <2>8. SuccessIsGenuine'
    <3> HIDE DEF Outcome, ReportIsHowItEnded
    <3> QED
      BY <2>4, <2>5, <2>6
  <2>9. /\ ctx' = ctx /\ child' = child /\ watcher' = watcher
        /\ phase' = "returned" /\ child # "running"
    BY <1>6 DEF Conclude, Return, EndOfPipes, HoldsPipes
  <2> HIDE DEF Outcome, ReportIsHowItEnded, SuccessIsGenuine
  <2> QED
    BY <1>i, <2>9, <2>7, <2>8
<1>f. (\A s : written'[s] = written[s]) => \A s : Fits(s)' <=> Fits(s)
  BY DEF Fits
<1>7. CASE StdinCopied
  BY <1>i, <1>7, <1>f DEF StdinCopied, streamVars
<1>8. CASE \E s \in Streams : CopyChunk(s)
  BY <1>i, <1>8, <1>f DEF CopyChunk
<1>9. CASE Deadline \/ Cancel
  BY <1>i, <1>9, <1>f DEF Deadline, Cancel, streamVars
<1>10. CASE Fork \/ ChildExits \/ DescendantExits
  BY <1>i, <1>10, <1>f DEF Fork, ChildExits, DescendantExits, streamVars
<1>11. CASE \E s \in Streams : Emit(s)
  <2>1. /\ phase # "returned"
        /\ UNCHANGED <<phase, ctx, child, watcher, waitErr, result>>
    BY <1>11 DEF Emit
  <2>2. ReportIsHowItEnded' /\ SuccessIsGenuine'
    BY <1>i, <2>1
  <2> HIDE DEF ReportIsHowItEnded, SuccessIsGenuine
  <2> QED
    BY <1>i, <2>1, <2>2
<1>12. CASE UNCHANGED vars
  BY <1>i, <1>12, <1>f DEF vars, streamVars
<1> QED
  BY <1>1, <1>2, <1>3, <1>4, <1>5, <1>6, <1>7, <1>8, <1>9, <1>10, <1>11, <1>12
     DEF Next, Call, Environment

-----------------------------------------------------------------------------
(* The invariant holds in every state of every call.                        *)
THEOREM CallInvariant == Spec => []Inv
<1>1. Inv /\ [Next]_vars => Inv'
  <2> SUFFICES ASSUME Inv, [Next]_vars PROVE Inv'
    OBVIOUS
  <2>1. StreamInv'
    BY StreamsStep DEF Inv
  <2>2. TypeOK'
    BY <2>1, TypeStep
  <2>3. ResultInv'
    BY ResultStep
  <2> QED
    BY <2>1, <2>2, <2>3 DEF Inv
<1> QED
  BY <1>1, InitInv, PTL DEF Spec

(* Every variable keeps its type: Run returns one of the errors it names.   *)
THEOREM TypeCorrect == Spec => []TypeOK
<1>1. Inv => TypeOK
  BY DEF Inv
<1> QED
  BY <1>1, CallInvariant, PTL

(* cappedBuffer.Write: however a stream is cut into chunks, the buffer is   *)
(* its first bytes, with the overflow recorded, for every limit.            *)
THEOREM BuffersAreExact == Spec => []BuffersHoldThePrefix
<1>1. Inv => BuffersHoldThePrefix
  BY DEF Inv, StreamInv
<1> QED
  BY <1>1, CallInvariant, PTL

(* Command.Run returns output only whole, never the first part of a longer  *)
(* response, and only when the provider ended by itself, with exit status   *)
(* 0, before the watcher killed it.                                         *)
THEOREM SuccessIsReal == Spec => []SuccessIsGenuine
<1>1. Inv => SuccessIsGenuine
  BY DEF Inv, ResultInv
<1> QED
  BY <1>1, CallInvariant, PTL

(* Command.Run reports how the provider ended: an answer given before the   *)
(* watcher struck is returned, whatever the context does while it is        *)
(* copied, a provider the watcher met is reported by the context's reason,  *)
(* and "failed" is said exactly of a provider that failed by itself and was *)
(* drained in time.                                                         *)
THEOREM ReportIsRight == Spec => []ReportIsHowItEnded
<1>1. Inv => ReportIsHowItEnded
  BY DEF Inv, ResultInv
<1> QED
  BY <1>1, CallInvariant, PTL
=============================================================================
