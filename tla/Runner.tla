------------------------------- MODULE Runner -------------------------------
(***************************************************************************)
(* internal/worker: Runner.Execute, called concurrently for a set of       *)
(* requests.  For every request there are up to four concurrent actors:    *)
(*                                                                         *)
(*   main      the goroutine inside Runner.Execute: takes a permit of the  *)
(*             semaphore, spawns the worker process, waits for the exchange *)
(*             or for the run context, closes the pipes, kills, joins,     *)
(*             reaps, releases the permit and interprets the outcome;      *)
(*   exchange  the goroutine inside runExecExchange, which owns the frames; *)
(*   callback  the goroutine of handleNative that runs one dispatch;       *)
(*   child     the worker process (child.go), which may also die at any    *)
(*             time or never stop computing.                               *)
(*                                                                         *)
(* Frames carry no data here (Protocol.tla counts calls and bytes) and a   *)
(* dispatch is one step of unknown length (Dispatch.tla opens it).         *)
(***************************************************************************)
EXTENDS Naturals, FiniteSets

CONSTANTS
  Requests,                 \* the calls of Execute
  MaxConcurrentExecutions,  \* capacity of the semaphore channel r.sem
  DispatchFailures          \* classes a failing dispatch returns

ASSUME MaxAssumption == MaxConcurrentExecutions \in Nat \ {0}
ASSUME RequestsAssumption == IsFiniteSet(Requests)

\* Errors of the run context as classifyRunContext names them.
CtxErrors == {"Canceled", "Deadline"}

\* Every answer of Execute.  "ChildError" stands for the four classes a
\* final_error frame is mapped to.
ErrorClasses == CtxErrors \cup {"Internal", "ResourceLimit", "ChildError"} \cup DispatchFailures
Classes == ErrorClasses \cup {"value"}

ASSUME FailuresAssumption ==
  DispatchFailures \cap {"value", "ChildError", "none", "running", "oversize", "ErrProtocol"} = {}

VARIABLES
  ctx,       \* ctx[r]: the run context of r: "live" or how it ended
  sem,       \* number of permits taken from r.sem
  held,      \* held[r]: the closure variable of release()
  pc,        \* pc[r]: control of the main goroutine
  pipes,     \* pipes[r]: the parent's open ends of the child's stdin, stdout
  child,     \* child[r]: the worker process
  status,    \* status[r]: how the worker process ended
  toChild,   \* toChild[r]: the frame in the child's stdin
  toParent,  \* toParent[r]: the frame in the child's stdout
  exch,      \* exch[r]: control of the exchange goroutine
  callback,  \* callback[r]: the dispatch goroutine and its results channel
  done,      \* done[r]: the buffered channel the exchange sends its outcome to
  out,       \* out[r]: the outcome the main goroutine works with
  result     \* result[r]: what Execute returned

vars == <<ctx, sem, held, pc, pipes, child, status, toChild, toParent, exch,
          callback, done, out, result>>

procVars == <<child, status, toChild, toParent>>
mainVars == <<sem, held, pc, pipes, out, result>>

MainPCs == {"idle", "acquire", "admitted", "spawning", "running", "closeStdin",
            "kill", "closeStdout", "join", "wait", "release", "interpret", "returned"}
ExchPCs == {"none", "writeExec", "read", "native", "abortEOF", "finalEOF",
            "errorEOF", "finished"}
ChildStates == {"none", "boot", "running", "awaiting", "exiting", "exited", "reaped"}
Statuses == {"none", "zero", "one", "killed", "crash"}
Callbacks == {"none", "running", "value", "oversize", "ErrProtocol"} \cup CtxErrors \cup DispatchFailures

\* execOutcome: kind tells which of value, err and retained is set.
NoOutcome == [kind |-> "none", class |-> "none", kill |-> FALSE]
Outcomes  == [kind : {"value", "err", "retained"}, class : Classes, kill : BOOLEAN]
             \cup {NoOutcome}
Failure(c, k)  == [kind |-> "err", class |-> c, kill |-> k]
RetainedForgotten(c) == [kind |-> "value", class |-> "value", kill |-> FALSE]
Retained(c)    == [kind |-> "retained", class |-> c, kill |-> FALSE]
Succeeded      == [kind |-> "value", class |-> "value", kill |-> FALSE]

Init ==
  /\ ctx      = [r \in Requests |-> "live"]
  /\ sem      = 0
  /\ held     = [r \in Requests |-> FALSE]
  /\ pc       = [r \in Requests |-> "idle"]
  /\ pipes    = [r \in Requests |-> {}]
  /\ child    = [r \in Requests |-> "none"]
  /\ status   = [r \in Requests |-> "none"]
  /\ toChild  = [r \in Requests |-> "none"]
  /\ toParent = [r \in Requests |-> "none"]
  /\ exch     = [r \in Requests |-> "none"]
  /\ callback = [r \in Requests |-> "none"]
  /\ done     = [r \in Requests |-> NoOutcome]
  /\ out      = [r \in Requests |-> NoOutcome]
  /\ result   = [r \in Requests |-> "none"]

-----------------------------------------------------------------------------
(* Helpers *)

\* The worker process runs.
Alive(r) == child[r] \in {"boot", "running", "awaiting", "exiting"}

\* The worker process exists for the operating system: running or unreaped.
Unreaped(r) == Alive(r) \/ child[r] = "exited"

\* classifyRunContext of an ended context; ErrInternal is its default branch.
ClassifyDeadlineAsInternal(r) == IF ctx[r] = "canceled" THEN "Canceled" ELSE "Internal"
classifyRunContext(r) ==
  CASE ctx[r] = "canceled" -> "Canceled"
    [] ctx[r] = "deadline" -> "Deadline"
    [] OTHER -> "Internal"

CtxEnded(r) == ctx[r] # "live"

\* Execute returns c; the deferred cancel() ends a context that is still live.
Return(r, c) ==
  /\ pc'     = [pc EXCEPT ![r] = "returned"]
  /\ result' = [result EXCEPT ![r] = c]
  /\ ctx'    = [ctx EXCEPT ![r] = IF @ = "live" THEN "canceled" ELSE @]

\* release(): gives the permit back once.
release(r) ==
  /\ sem'  = IF held[r] THEN sem - 1 ELSE sem
  /\ held' = [held EXCEPT ![r] = FALSE]

Go(r, from, to) ==
  /\ pc[r] = from
  /\ pc' = [pc EXCEPT ![r] = to]

-----------------------------------------------------------------------------
(* The run context: the caller cancels, or the earlier of its deadline and *)
(* MaxExecutionTime passes.  A caller may pass a context that has ended.   *)

EndContext(r, why) ==
  /\ pc[r] # "returned"
  /\ ctx[r] = "live"
  /\ ctx' = [ctx EXCEPT ![r] = why]
  /\ UNCHANGED <<mainVars, procVars, exch, callback, done>>

-----------------------------------------------------------------------------
(* The main goroutine *)

\* Execute is called with a source within MaxSourceBytes.
Call(r) ==
  /\ Go(r, "idle", "acquire")
  /\ UNCHANGED <<ctx, sem, held, pipes, out, result, procVars, exch, callback, done>>

\* The early returns before the run context exists: a nil runner or context
\* ("Internal") and an oversized source ("ResourceLimit").
RejectCall(r) ==
  /\ Go(r, "idle", "returned")
  /\ \E c \in {"Internal", "ResourceLimit"} : result' = [result EXCEPT ![r] = c]
  /\ UNCHANGED <<ctx, sem, held, pipes, out, procVars, exch, callback, done>>

PermitFreeOffByOne == sem <= MaxConcurrentExecutions
PermitFree == sem < MaxConcurrentExecutions

\* The select takes the semaphore case; with both cases ready it may take either.
Acquire(r) ==
  /\ Go(r, "acquire", "admitted")
  /\ PermitFree
  /\ sem'  = sem + 1
  /\ held' = [held EXCEPT ![r] = TRUE]
  /\ UNCHANGED <<ctx, pipes, out, result, procVars, exch, callback, done>>

\* The select takes the context case: no permit, no process.
AcquireEnded(r) ==
  /\ pc[r] = "acquire"
  /\ CtxEnded(r)
  /\ Return(r, classifyRunContext(r))
  /\ UNCHANGED <<sem, held, pipes, out, procVars, exch, callback, done>>

\* The second look at the context, after the permit.
Recheck(r) ==
  /\ \/ /\ ~CtxEnded(r)
        /\ Go(r, "admitted", "spawning")
        /\ UNCHANGED <<ctx, sem, held, result>>
     \/ /\ CtxEnded(r)
        /\ pc[r] = "admitted"
        /\ release(r)
        /\ Return(r, classifyRunContext(r))
  /\ UNCHANGED <<pipes, out, procVars, exch, callback, done>>

\* workerMode() refuses, before the second look at the context, and
\* os.Executable and startWorker fail, after it, in the same way.
SpawnFails(r) ==
  /\ pc[r] \in {"admitted", "spawning"}
  /\ release(r)
  /\ Return(r, "Internal")
  /\ UNCHANGED <<pipes, out, procVars, exch, callback, done>>

\* startWorker succeeds and the exchange goroutine is started.
Spawn(r) ==
  /\ Go(r, "spawning", "running")
  /\ pipes' = [pipes EXCEPT ![r] = {"stdin", "stdout"}]
  /\ child' = [child EXCEPT ![r] = "boot"]
  /\ exch'  = [exch EXCEPT ![r] = "writeExec"]
  /\ UNCHANGED <<ctx, sem, held, out, result, status, toChild, toParent, callback, done>>

\* The select of Execute takes the done case.
SelectDone(r) ==
  /\ done[r].kind # "none"
  /\ Go(r, "running", "closeStdin")
  /\ out'  = [out EXCEPT ![r] = done[r]]
  /\ done' = [done EXCEPT ![r] = NoOutcome]
  /\ UNCHANGED <<ctx, sem, held, pipes, result, procVars, exch, callback>>

EndedOutcomeNoKill(r) == Failure(classifyRunContext(r), FALSE)
EndedOutcome(r) == Failure(classifyRunContext(r), TRUE)

\* The select of Execute takes the context case.  (done, if it is full too,
\* is drained by join.)
SelectEnded(r) ==
  /\ CtxEnded(r)
  /\ Go(r, "running", "closeStdin")
  /\ out' = [out EXCEPT ![r] = EndedOutcome(r)]
  /\ UNCHANGED <<ctx, sem, held, pipes, result, procVars, exch, callback, done>>

\* childSession.finish, step by step.
CloseStdin(r) ==
  /\ Go(r, "closeStdin", "kill")
  /\ pipes' = [pipes EXCEPT ![r] = @ \ {"stdin"}]
  /\ UNCHANGED <<ctx, sem, held, out, result, procVars, exch, callback, done>>

\* Kill on a process that has exited and is not reaped has no effect.
Kill(r) ==
  /\ Go(r, "kill", "closeStdout")
  /\ IF out[r].kill /\ Alive(r)
       THEN /\ child'  = [child EXCEPT ![r] = "exited"]
            /\ status' = [status EXCEPT ![r] = "killed"]
       ELSE UNCHANGED <<child, status>>
  /\ UNCHANGED <<ctx, sem, held, pipes, out, result, toChild, toParent, exch, callback, done>>

CloseStdout(r) ==
  /\ Go(r, "closeStdout", "join")
  /\ pipes' = [pipes EXCEPT ![r] = @ \ {"stdout"}]
  /\ UNCHANGED <<ctx, sem, held, out, result, procVars, exch, callback, done>>

JoinAtOnce(r) == TRUE
JoinReady(r) == exch[r] = "finished"

\* join: waits for the exchange, which has ended already if its outcome was selected.
Join(r) ==
  /\ Go(r, "join", "wait")
  /\ JoinReady(r)
  /\ done' = [done EXCEPT ![r] = NoOutcome]
  /\ UNCHANGED <<ctx, sem, held, pipes, out, result, procVars, exch, callback>>

\* cmd.Wait: blocks, without any timeout, until the process has exited; what
\* nobody read from its pipes is gone with them.
Wait(r) ==
  /\ Go(r, "wait", "release")
  /\ child[r] = "exited"
  /\ child'    = [child EXCEPT ![r] = "reaped"]
  /\ toChild'  = [toChild EXCEPT ![r] = "none"]
  /\ toParent' = [toParent EXCEPT ![r] = "none"]
  /\ UNCHANGED <<ctx, sem, held, pipes, out, result, status, exch, callback, done>>

Release(r) ==
  /\ Go(r, "release", "interpret")
  /\ release(r)
  /\ UNCHANGED <<ctx, pipes, out, result, procVars, exch, callback, done>>

\* interpretExec: retained, then the context, then the exchange's error, then
\* the exit status, then the value.
waitErr(r) == status[r] # "zero"
InterpretIgnoringExit(r) ==
  IF out[r].kind = "retained" THEN out[r].class
  ELSE IF CtxEnded(r) /\ (out[r].kill \/ out[r].kind = "err" \/ waitErr(r)) THEN classifyRunContext(r)
  ELSE IF out[r].kind = "err" THEN out[r].class
  ELSE "value"
interpretExec(r) ==
  IF out[r].kind = "retained" THEN out[r].class
  ELSE IF CtxEnded(r) /\ (out[r].kill \/ out[r].kind = "err" \/ waitErr(r)) THEN classifyRunContext(r)
  ELSE IF out[r].kind = "err" THEN out[r].class
  ELSE IF waitErr(r) THEN "Internal"
  ELSE "value"

\* Execute returns; its locals (the outcome, the exit status) go out of scope.
Interpret(r) ==
  /\ pc[r] = "interpret"
  /\ Return(r, interpretExec(r))
  /\ out'    = [out EXCEPT ![r] = NoOutcome]
  /\ status' = [status EXCEPT ![r] = "none"]
  /\ UNCHANGED <<sem, held, pipes, child, toChild, toParent, exch, callback, done>>

-----------------------------------------------------------------------------
(* The exchange goroutine *)

Writable(r) == "stdin" \in pipes[r] /\ Alive(r)
FrameReady(r, f) == "stdout" \in pipes[r] /\ toParent[r] = f
\* The child's stdout is at its end, or the parent has closed its side of it.
AtEOF(r)  == "stdout" \in pipes[r] /\ toParent[r] = "none" /\ ~Alive(r)
Closed(r) == "stdout" \notin pipes[r]

\* runExecExchange returns o: it goes into the buffered done channel.
Finish(r, o) ==
  /\ exch' = [exch EXCEPT ![r] = "finished"]
  /\ done' = [done EXCEPT ![r] = o]

WriteExec(r) ==
  /\ exch[r] = "writeExec"
  /\ IF Writable(r)
       THEN /\ toChild' = [toChild EXCEPT ![r] = "exec"]
            /\ exch'    = [exch EXCEPT ![r] = "read"]
            /\ UNCHANGED done
       ELSE /\ Finish(r, Failure("Internal", TRUE))
            /\ UNCHANGED toChild
  /\ UNCHANGED <<ctx, mainVars, child, status, toParent, callback>>

\* conn.read fails: truncated stream, or the parent's end was closed under it.
ReadFails(r) ==
  /\ exch[r] = "read"
  /\ AtEOF(r) \/ Closed(r)
  /\ Finish(r, Failure("Internal", TRUE))
  /\ UNCHANGED <<ctx, mainVars, procVars, callback>>

\* A native_call is accepted and its dispatch goroutine started.
ReadCall(r) ==
  /\ exch[r] = "read"
  /\ FrameReady(r, "native_call")
  /\ toParent' = [toParent EXCEPT ![r] = "none"]
  /\ exch'     = [exch EXCEPT ![r] = "native"]
  /\ callback' = [callback EXCEPT ![r] = "running"]
  /\ UNCHANGED <<ctx, mainVars, child, status, toChild, done>>

ReadFinal(r) ==
  /\ exch[r] = "read"
  /\ \E f \in {"final", "final_error"} :
       /\ FrameReady(r, f)
       /\ exch' = [exch EXCEPT ![r] = IF f = "final" THEN "finalEOF" ELSE "errorEOF"]
  /\ toParent' = [toParent EXCEPT ![r] = "none"]
  /\ UNCHANGED <<ctx, mainVars, child, status, toChild, callback, done>>

\* readExecEOF after a terminal frame.
FinalEOF(r) ==
  /\ exch[r] \in {"finalEOF", "errorEOF"}
  /\ \/ AtEOF(r)  /\ Finish(r, IF exch[r] = "finalEOF" THEN Succeeded ELSE Failure("ChildError", FALSE))
     \/ Closed(r) /\ Finish(r, Failure("Internal", TRUE))
  /\ UNCHANGED <<ctx, mainVars, procVars, callback>>

NeverGivesUp(r) == FALSE
GivesUp(r) == CtxEnded(r)

\* The select of handleNative takes the context case; the dispatch goroutine
\* is left behind.
NativeEnded(r) ==
  /\ exch[r] = "native"
  /\ GivesUp(r)
  /\ Finish(r, EndedOutcome(r))
  /\ UNCHANGED <<ctx, mainVars, procVars, callback>>

\* The select takes the result of a dispatch that found the call malformed.
NativeProtocol(r) ==
  /\ exch[r] = "native"
  /\ callback[r] = "ErrProtocol"
  /\ Finish(r, Failure("Internal", TRUE))
  /\ UNCHANGED <<ctx, mainVars, procVars, callback>>

\* The select takes a value: writeNativeResult.
NativeResult(r) ==
  /\ exch[r] = "native"
  /\ callback[r] = "value"
  /\ IF Writable(r)
       THEN /\ toChild'  = [toChild EXCEPT ![r] = "result"]
            /\ exch'     = [exch EXCEPT ![r] = "read"]
            /\ callback' = [callback EXCEPT ![r] = "none"]
            /\ UNCHANGED done
       ELSE /\ Finish(r, Failure("Internal", TRUE))
            /\ UNCHANGED <<toChild, callback>>
  /\ UNCHANGED <<ctx, mainVars, child, status, toParent>>

\* What writeAbort retains for the results that end in an abort.
RetainedClass(cb) == IF cb = "oversize" THEN "ResourceLimit" ELSE cb
AbortResults == {"oversize"} \cup CtxErrors \cup DispatchFailures

\* The select takes an error, or a value that cannot be sent: writeAbort.  The
\* error of the write is ignored.
NativeAbort(r) ==
  /\ exch[r] = "native"
  /\ callback[r] \in AbortResults
  /\ toChild' = [toChild EXCEPT ![r] = IF Writable(r) THEN "abort" ELSE @]
  /\ exch'    = [exch EXCEPT ![r] = "abortEOF"]
  /\ UNCHANGED <<ctx, mainVars, child, status, toParent, callback, done>>

\* readExecEOF of writeAbort: its error is ignored as well.
AbortEOF(r) ==
  /\ exch[r] = "abortEOF"
  /\ AtEOF(r) \/ Closed(r)
  /\ Finish(r, Retained(RetainedClass(callback[r])))
  /\ UNCHANGED <<ctx, mainVars, procVars, callback>>

\* The dispatch returns and its goroutine puts the result into the buffered
\* channel, whether or not anybody is still waiting for it.  A context error
\* is returned only when the context has ended.
DispatchReturns(r, res) ==
  /\ callback[r] = "running"
  /\ res \in CtxErrors => CtxEnded(r) /\ res = classifyRunContext(r)
  /\ callback' = [callback EXCEPT ![r] = res]
  /\ UNCHANGED <<ctx, mainVars, procVars, exch, done>>

-----------------------------------------------------------------------------
(* The worker process *)

Die(r, s) ==
  /\ child'  = [child EXCEPT ![r] = "exited"]
  /\ status' = [status EXCEPT ![r] = s]

\* readInitialFrame and the checks of serveExec.
ChildReadExec(r) ==
  /\ child[r] = "boot"
  /\ toChild[r] = "exec"
  /\ toChild' = [toChild EXCEPT ![r] = "none"]
  /\ child'   = [child EXCEPT ![r] = "running"]
  /\ UNCHANGED <<ctx, mainVars, status, toParent, exch, callback, done>>

\* nativeForwarder writes a native_call; the next read waits for the reply.  (A
\* write never meets a stdout that the parent has closed: finish closes it only
\* when the process is dead.)
ChildCall(r) ==
  /\ child[r] = "running"
  /\ "stdout" \in pipes[r]
  /\ toParent' = [toParent EXCEPT ![r] = "native_call"]
  /\ child'    = [child EXCEPT ![r] = "awaiting"]
  /\ UNCHANGED <<ctx, mainVars, status, toChild, exch, callback, done>>

\* The program completes or fails: serveExec writes its terminal frame.
ChildFinal(r, f) ==
  /\ child[r] = "running"
  /\ "stdout" \in pipes[r]
  /\ toParent' = [toParent EXCEPT ![r] = f]
  /\ child'    = [child EXCEPT ![r] = "exiting"]
  /\ UNCHANGED <<ctx, mainVars, status, toChild, exch, callback, done>>

\* The reply arrives: a result resumes the program, an abort unwinds it and
\* nothing more is written.
ChildReply(r) ==
  /\ child[r] = "awaiting"
  /\ toChild[r] \in {"result", "abort"}
  /\ toChild' = [toChild EXCEPT ![r] = "none"]
  /\ child'   = [child EXCEPT ![r] = IF toChild[r] = "result" THEN "running" ELSE "exiting"]
  /\ UNCHANGED <<ctx, mainVars, status, toParent, exch, callback, done>>

\* Serve returned 0.
ChildExit(r) ==
  /\ child[r] = "exiting"
  /\ Die(r, "zero")
  /\ UNCHANGED <<ctx, mainVars, toChild, toParent, exch, callback, done>>

\* A read meets the end of stdin: Serve returns 1.
ChildStdinEOF(r) ==
  /\ child[r] \in {"boot", "awaiting"}
  /\ toChild[r] = "none"
  /\ "stdin" \notin pipes[r]
  /\ Die(r, "one")
  /\ UNCHANGED <<ctx, mainVars, toChild, toParent, exch, callback, done>>

\* The process dies on its own: memory, a signal, a fatal runtime error.
ChildCrash(r) ==
  /\ Alive(r)
  /\ Die(r, "crash")
  /\ UNCHANGED <<ctx, mainVars, toChild, toParent, exch, callback, done>>

-----------------------------------------------------------------------------
MainStep(r) ==
  \/ Acquire(r) \/ AcquireEnded(r) \/ Recheck(r) \/ SpawnFails(r) \/ Spawn(r)
  \/ SelectDone(r) \/ SelectEnded(r)
  \/ CloseStdin(r) \/ Kill(r) \/ CloseStdout(r) \/ Join(r) \/ Wait(r)
  \/ Release(r) \/ Interpret(r)

ExchangeStep(r) ==
  \/ WriteExec(r) \/ ReadFails(r) \/ ReadCall(r) \/ ReadFinal(r) \/ FinalEOF(r)
  \/ NativeEnded(r) \/ NativeProtocol(r) \/ NativeResult(r) \/ NativeAbort(r) \/ AbortEOF(r)

\* The steps of the process that are not the program's to delay.
ChildService(r) ==
  ChildReadExec(r) \/ ChildReply(r) \/ ChildExit(r) \/ ChildStdinEOF(r)

ChildProgram(r) ==
  ChildCall(r) \/ ChildFinal(r, "final") \/ ChildFinal(r, "final_error")
  \/ ChildCrash(r)

\* Everything has been answered and no dispatch is left running.
Quiescent ==
  /\ \A r \in Requests : pc[r] = "returned" /\ callback[r] # "running"
  /\ UNCHANGED vars

Next ==
  \/ \E r \in Requests :
       \/ Call(r) \/ RejectCall(r)
       \/ EndContext(r, "canceled") \/ EndContext(r, "deadline")
       \/ MainStep(r) \/ ExchangeStep(r)
       \/ \E res \in Callbacks \ {"none", "running"} : DispatchReturns(r, res)
       \/ ChildService(r) \/ ChildProgram(r)
  \/ Quiescent

Spec == Init /\ [][Next]_vars

(***************************************************************************)
(* Fairness.  A goroutine that can run eventually runs, the timer of       *)
(* context.WithTimeout eventually fires once Execute was called, and the   *)
(* worker process is eventually scheduled.  Nothing is assumed of the      *)
(* program (it may compute forever), of the dispatch (an authorizer or     *)
(* handler may never return) or of the caller.                             *)
(***************************************************************************)
Fairness ==
  \A r \in Requests :
    /\ WF_vars(MainStep(r))
    /\ WF_vars(ExchangeStep(r))
    /\ WF_vars(ChildService(r))
    /\ WF_vars(pc[r] # "idle" /\ EndContext(r, "deadline"))

FairSpec == Spec /\ Fairness

-----------------------------------------------------------------------------
(* Properties *)

\* Type correctness.
TypeOK ==
  /\ ctx      \in [Requests -> {"live", "canceled", "deadline"}]
  /\ sem      \in 0..MaxConcurrentExecutions
  /\ held     \in [Requests -> BOOLEAN]
  /\ pc       \in [Requests -> MainPCs]
  /\ pipes    \in [Requests -> SUBSET {"stdin", "stdout"}]
  /\ child    \in [Requests -> ChildStates]
  /\ status   \in [Requests -> Statuses]
  /\ toChild  \in [Requests -> {"none", "exec", "result", "abort"}]
  /\ toParent \in [Requests -> {"none", "native_call", "final", "final_error"}]
  /\ exch     \in [Requests -> ExchPCs]
  /\ callback \in [Requests -> Callbacks]
  /\ done     \in [Requests -> Outcomes]
  /\ out      \in [Requests -> Outcomes]
  /\ result   \in [Requests -> Classes \cup {"none"}]

\* At no moment do more worker processes exist, running or exited and not yet
\* reaped, than MaxConcurrentExecutions allows: the permit outlives the process
\* on every path through Execute and finish.
LiveWorkersBounded ==
  Cardinality({r \in Requests : Unreaped(r)}) <= MaxConcurrentExecutions

\* When Execute has returned, its permit is given back, its worker process is
\* reaped, its pipes are closed and its exchange goroutine has ended, whichever
\* of the returns it took.  (Only a dispatch may still be running.)
NothingLeftBehind ==
  \A r \in Requests : pc[r] = "returned" =>
    /\ ~held[r]
    /\ child[r] \in {"none", "reaped"}
    /\ pipes[r] = {}
    /\ exch[r] \in {"none", "finished"}

\* cmd.Wait has no timeout and no context, so Execute may reach it only with a
\* process that has already exited: finish kills unless the exchange has seen
\* the end of the child's stdout.
WaitOnlyForTheDead ==
  \A r \in Requests : pc[r] = "wait" => child[r] = "exited"

\* A native call whose dispatch failed, or whose result could not be sent, ends
\* the execution: Execute never answers with a value after it.
FailedCallNeverSucceeds ==
  \A r \in Requests : result[r] = "value" => callback[r] = "none"

Answering(r) == pc[r] # "returned" /\ pc'[r] = "returned"

\* Execute answers with a value only if the exchange saw the final frame followed
\* by the end of the stream and the process exited with status 0 by itself; a
\* child that dies after its final frame has not succeeded.
SuccessIsEarned ==
  [][\A r \in Requests : Answering(r) /\ result'[r] = "value" =>
       status[r] = "zero" /\ out[r] = Succeeded]_vars

\* ErrInternal is never the caller's own cancellation in disguise: it means that
\* the call was rejected, that no process could be spawned, that the process died by itself, that the call
\* it made was malformed, or that the dispatch said so.  And a request whose
\* process Execute killed answers with the error of its context unless the kill
\* was for a malformed call.
AnswerNamesItsCause ==
  [][\A r \in Requests : Answering(r) =>
       /\ result'[r] = "Internal" =>
            \/ pc[r] \in {"idle", "admitted", "spawning"}
            \/ status[r] = "crash"
            \/ callback[r] \in {"ErrProtocol", "Internal"}
       /\ status[r] = "killed" /\ callback[r] # "ErrProtocol" =>
            result'[r] = IF ctx[r] = "canceled" THEN "Canceled" ELSE "Deadline"]_vars

\* Every Execute returns, although programs may compute forever and authorizers
\* and handlers may never return: the exchange does not wait for a dispatch
\* beyond the context, and closing the pipes ends its reads and writes.
EveryExecuteReturns ==
  \A r \in Requests : pc[r] # "idle" ~> pc[r] = "returned"

(***************************************************************************)
(* Refinement.  A call works in the sense of ExecuteService while its      *)
(* worker process exists.                                                  *)
(***************************************************************************)
PhaseOf(r) ==
  IF pc[r] = "idle" THEN "idle"
  ELSE IF Unreaped(r) THEN "working"
  ELSE IF pc[r] = "returned" THEN "answered"
  ELSE IF child[r] = "reaped" THEN "stopped"
  ELSE "pending"

Service == INSTANCE ExecuteService WITH
  Calls    <- Requests,
  Slots    <- MaxConcurrentExecutions,
  Answers  <- Classes,
  Value    <- "value",
  NoAnswer <- "none",
  phase    <- [r \in Requests |-> PhaseOf(r)],
  answer   <- result

\* Every behaviour of the runner is one of the abstract service: a call spawns
\* at most one process, within the limit, and answers only when it is gone.
ImplementsService == Service!Spec
=============================================================================
