---------------------------- MODULE AgentProcess ----------------------------
(***************************************************************************)
(* agentprocess.Command.Run (internal/agentprocess/runner.go): one bounded *)
(* call of an optional AI provider.  The calling goroutine is in           *)
(* exec.Cmd.Run with three copying goroutines (stdin, stdout, stderr) and  *)
(* a watcher that kills the child when the context ends; the child is      *)
(* arbitrary: it may print, hang, exit, or leave a descendant behind that  *)
(* holds the same pipes.                                                   *)
(*                                                                         *)
(* External to the repository: os/exec, modelled from how Run configures   *)
(* it (CommandContext, writers that are not files, no WaitDelay).  Without *)
(* a WaitDelay, Wait returns only when every copier has seen the end of    *)
(* its pipe.                                                               *)
(***************************************************************************)
EXTENDS CappedBuffer, FiniteSets

CONSTANTS Bytes,        \* what a process may print
          Limit,        \* Limit["stdout"] = MaxOutputBytes, Limit["stderr"]
          MaxWritten    \* bound of this model: bytes printed per stream

Streams == {"stdout", "stderr"}

ASSUME LimitAssumption == Limit \in [Streams -> Nat]
ASSUME MaxWrittenAssumption == MaxWritten \in [Streams -> Nat]

VARIABLES command,    \* which of Run's preconditions its caller satisfies
          phase,      \* "validate", "start", "wait", "drain", "returned"
          ctx,        \* "live", "deadline", "canceled"
          child,      \* "none", "running", "exit0", "exit1", "killed"
          descendant, \* "none", "running", "exited"
          watcher,    \* "armed", "fired": has the context killed the child?
          stdin,      \* "copying", "done"
          written,    \* written[s]: all the bytes printed to stream s
          taken,      \* taken[s]: how many of them the copier has read
          buffer,     \* buffer[s]: the capped buffer of stream s
          waitErr,    \* what exec.Cmd.Wait returns: "nil", "exit", "ctx"
          result,     \* what Run returns
          output      \* the bytes it returns

streamVars == <<written, taken, buffer>>
vars == <<command, phase, ctx, child, descendant, watcher, stdin, streamVars,
          waitErr, result, output>>

Preconditions == {"path", "timeout", "limits", "inputFits"}
Results == {"pending", "invalid", "notStarted", "timedOut", "canceled", "failed",
            "outputTooLong", "errorsTooLong", "ok"}

-----------------------------------------------------------------------------
Init == /\ command \in SUBSET Preconditions
        /\ phase = "validate"
        /\ ctx \in {"live", "canceled"}
        /\ child = "none"
        /\ descendant = "none"
        /\ watcher = "armed"
        /\ stdin = "copying"
        /\ written = [s \in Streams |-> << >>]
        /\ taken = [s \in Streams |-> 0]
        /\ buffer = [s \in Streams |-> EmptyBuffer]
        /\ waitErr = "nil"
        /\ result = "pending"
        /\ output = << >>

Return(r) == phase' = "returned" /\ result' = r

Validate ==
    /\ phase = "validate"
    /\ IF command = Preconditions
         THEN phase' = "start" /\ UNCHANGED result
         ELSE Return("invalid")
    /\ UNCHANGED <<command, ctx, child, descendant, watcher, stdin, streamVars, waitErr, output>>

(* Mutant: the error of the context as it is. *)
ContextResult_raw(otherwise) == IF ctx = "live" THEN otherwise ELSE ctx

(* The error of a process that did not start is reported like one that      *)
(* failed, unless the context is the reason.                                *)
ContextResult(otherwise) ==
    CASE ctx = "deadline" -> "timedOut"
      [] ctx = "canceled" -> "canceled"
      [] ctx = "live" -> otherwise

(* exec.Cmd.Start: refused when the context has ended or the executable     *)
(* cannot be started.                                                       *)
StartFails == /\ phase = "start"
              /\ Return(ContextResult("notStarted"))
              /\ UNCHANGED <<command, ctx, child, descendant, watcher, stdin, streamVars,
                             waitErr, output>>

Start == /\ phase = "start"
         /\ ctx = "live"
         /\ phase' = "wait"
         /\ child' = "running"
         /\ UNCHANGED <<command, ctx, descendant, watcher, stdin, streamVars, waitErr,
                        result, output>>

-----------------------------------------------------------------------------
(* The environment: time, the caller, the child and what it leaves behind.  *)

Deadline == /\ phase \in {"start", "wait", "drain"}
            /\ ctx = "live"
            /\ ctx' = "deadline"
            /\ UNCHANGED <<command, phase, child, descendant, watcher, stdin, streamVars,
                           waitErr, result, output>>

Cancel == /\ phase \in {"start", "wait", "drain"}
          /\ ctx = "live"
          /\ ctx' = "canceled"
          /\ UNCHANGED <<command, phase, child, descendant, watcher, stdin, streamVars,
                         waitErr, result, output>>

HoldsPipes == child = "running" \/ descendant = "running"

(* The child or its descendant prints one byte.  Pipes are unbounded here;  *)
(* a full pipe only delays the process.                                     *)
Emit(s) == /\ HoldsPipes
            /\ phase # "returned"
            /\ Len(written[s]) < MaxWritten[s]
            /\ \E b \in Bytes : written' = [written EXCEPT ![s] = Append(@, b)]
            /\ UNCHANGED <<command, phase, ctx, child, descendant, watcher, stdin, taken,
                           buffer, waitErr, result, output>>

Fork == /\ child = "running"
        /\ descendant = "none"
        /\ descendant' = "running"
        /\ UNCHANGED <<command, phase, ctx, child, watcher, stdin, streamVars, waitErr,
                       result, output>>

ChildExits == /\ child = "running"
              /\ child' \in {"exit0", "exit1"}
              /\ UNCHANGED <<command, phase, ctx, descendant, watcher, stdin, streamVars,
                             waitErr, result, output>>

DescendantExits == /\ descendant = "running"
                   /\ descendant' = "exited"
                   /\ UNCHANGED <<command, phase, ctx, child, watcher, stdin, streamVars,
                                  waitErr, result, output>>

(* Either a process reads all of its input, or none is left to read it and  *)
(* the copier ends with EPIPE, which os/exec ignores.                       *)
StdinCopied == /\ phase \in {"wait", "drain"}
               /\ stdin = "copying"
               /\ stdin' = "done"
               /\ UNCHANGED <<command, phase, ctx, child, descendant, watcher, streamVars,
                              waitErr, result, output>>

-----------------------------------------------------------------------------
(* The watcher goroutine.  Process.Kill reaches the child only: a process   *)
(* that has exited and is not reaped yet still accepts the signal.          *)
WatcherKills == /\ phase = "wait"
                /\ ctx # "live"
                /\ watcher = "armed"
                /\ watcher' = "fired"
                /\ child' = IF child = "running" THEN "killed" ELSE child
                /\ UNCHANGED <<command, phase, ctx, descendant, stdin, streamVars, waitErr,
                               result, output>>

(* Mutant: the copier takes a chunk and forgets to advance. *)
CopyChunk_stuck(s) == UNCHANGED vars

(* A copying goroutine: any chunk of what is in the pipe. *)
CopyChunk(s) ==
    /\ phase \in {"wait", "drain"}
    /\ \E n \in taken[s] + 1 .. Len(written[s]) :
          /\ buffer' = [buffer EXCEPT ![s] =
                          Write(@, Limit[s], SubSeq(written[s], taken[s] + 1, n))]
          /\ taken' = [taken EXCEPT ![s] = n]
    /\ UNCHANGED <<command, phase, ctx, child, descendant, watcher, stdin, written, waitErr,
                   result, output>>

(* Process.Wait returns and the watcher is asked what it did: the exit      *)
(* status goes first, then a kill that came too late to matter.             *)
Reap == /\ phase = "wait"
        /\ child \in {"exit0", "exit1", "killed"}
        /\ phase' = "drain"
        /\ waitErr' = IF child # "exit0" THEN "exit"
                      ELSE IF watcher = "fired" THEN "ctx" ELSE "nil"
        /\ UNCHANGED <<command, ctx, child, descendant, watcher, stdin, streamVars, result,
                       output>>

(* Mutant: what is left in the pipes is not waited for. *)
EndOfPipes_childGone == ~ HoldsPipes

(* Every copier has returned: no process holds the pipes and nothing is     *)
(* left in them.                                                            *)
EndOfPipes == /\ ~ HoldsPipes
              /\ stdin = "done"
              /\ \A s \in Streams : taken[s] = Len(written[s])

(* Mutant: the context is asked before the process. *)
Outcome_contextFirst == IF waitErr # "nil" \/ ctx # "live" THEN ContextResult("failed")
                        ELSE IF buffer["stdout"].exceeded THEN "outputTooLong"
                        ELSE IF buffer["stderr"].exceeded THEN "errorsTooLong"
                        ELSE "ok"

(* What Run makes of it, in the order of its tests. *)
Outcome == IF waitErr # "nil" THEN ContextResult("failed")
           ELSE IF buffer["stdout"].exceeded THEN "outputTooLong"
           ELSE IF buffer["stderr"].exceeded THEN "errorsTooLong"
           ELSE "ok"

Conclude == /\ phase = "drain"
            /\ EndOfPipes
            /\ Return(Outcome)
            /\ output' = IF Outcome = "ok" THEN buffer["stdout"].bytes ELSE << >>
            /\ UNCHANGED <<command, ctx, child, descendant, watcher, stdin, streamVars, waitErr>>

-----------------------------------------------------------------------------
Call == \/ Validate \/ StartFails \/ Start \/ WatcherKills \/ Reap \/ Conclude
        \/ StdinCopied
        \/ \E s \in Streams : CopyChunk(s)

Environment == \/ Deadline \/ Cancel \/ Fork \/ ChildExits \/ DescendantExits
               \/ \E s \in Streams : Emit(s)

Next == Call \/ Environment

(* The Go runtime schedules every goroutine and the clock reaches the       *)
(* deadline.  Nothing is assumed of the provider: it may run for ever, and  *)
(* the copier of stdin ends for certain only when nobody can read it.       *)
Fairness == /\ WF_vars(Validate \/ StartFails \/ Start)
            /\ \A s \in Streams : WF_vars(CopyChunk(s))
            /\ WF_vars(StdinCopied /\ ~ HoldsPipes)
            /\ WF_vars(WatcherKills)
            /\ WF_vars(Reap)
            /\ WF_vars(Conclude)
            /\ WF_vars(Deadline)

Spec == Init /\ [][Next]_vars
FairSpec == Spec /\ Fairness

-----------------------------------------------------------------------------
(* Properties                                                               *)

TypeOK == /\ command \in SUBSET Preconditions
          /\ phase \in {"validate", "start", "wait", "drain", "returned"}
          /\ ctx \in {"live", "deadline", "canceled"}
          /\ child \in {"none", "running", "exit0", "exit1", "killed"}
          /\ descendant \in {"none", "running", "exited"}
          /\ watcher \in {"armed", "fired"}
          /\ stdin \in {"copying", "done"}
          /\ written \in [Streams -> Seq(Bytes)]
          /\ taken \in [Streams -> Nat]
          /\ buffer \in [Streams -> [bytes : Seq(Bytes), exceeded : BOOLEAN]]
          /\ waitErr \in {"nil", "exit", "ctx"}
          /\ result \in Results
          /\ output \in Seq(Bytes)

(* However the copiers cut the streams into chunks, a buffer holds the      *)
(* first bytes up to its limit and knows whether there were more: memory is *)
(* bounded and a long stream is never mistaken for a short one.             *)
BuffersHoldThePrefix ==
    \A s \in Streams :
        Holds(buffer[s], Limit[s], SubSeq(written[s], 1, taken[s]))

(* A successful call returns everything the provider printed, no matter     *)
(* when it exited (a truncated response never reaches the JSON decoder),    *)
(* and the provider was neither killed nor failed, even when the kill races *)
(* its exit and its output looks complete.                                  *)
SuccessIsGenuine ==
    result = "ok" => /\ output = written["stdout"]
                     /\ Len(written["stdout"]) <= Limit["stdout"]
                     /\ Len(written["stderr"]) <= Limit["stderr"]
                     /\ child = "exit0" /\ watcher = "armed"

(* What Run reports is how the provider ended, however the deadline, the    *)
(* caller's cancellation, the kill and the last bytes race each other: an   *)
(* answer given before the watcher struck is returned, or refused for its   *)
(* length alone, even if the context has ended while it was copied; a       *)
(* provider the watcher met is reported by the context's reason, never as   *)
(* one that failed; and one that failed by itself is reported so as long as *)
(* the context lives.  (If a process it left behind holds the pipes until   *)
(* the deadline, its failure is reported as a timeout: runner.go:49.)       *)
Fits(s) == Len(written[s]) <= Limit[s]
ReportIsHowItEnded ==
    phase = "returned" /\ child # "none" =>
        /\ child = "exit0" /\ watcher = "armed" =>
             result = (IF ~ Fits("stdout") THEN "outputTooLong"
                       ELSE IF ~ Fits("stderr") THEN "errorsTooLong" ELSE "ok")
        /\ watcher = "fired" =>
             result = (IF ctx = "deadline" THEN "timedOut" ELSE "canceled")
        /\ result = "failed" <=> child = "exit1" /\ ctx = "live"

(* The call ends, even with a provider that hangs, unless a process the      *)
(* provider left behind never ends.                                         *)
CallReturns == <>(phase = "returned") \/ <>[](descendant = "running")

(* docs/THREAT_MODEL.md, "Availability": input, stdout, stderr, "and        *)
(* execution time are bounded. AI providers have a maximum two-minute       *)
(* timeout": once the deadline has passed, the call ends.                   *)
ExecutionTimeIsBounded == ctx = "deadline" ~> phase = "returned"
=============================================================================
