------------------------------ MODULE Protocol ------------------------------
(***************************************************************************)
(* The framed exchange of one execution: parentConn and runExecExchange on *)
(* one side of two pipes, childConn, serveExec and the Starlark engine on  *)
(* the other.  The parent trusts none of the child's frames: parentConn    *)
(* checks the turn, the number of native calls and the bytes of results    *)
(* for itself.  Frames are named by their type (a final_error by its code); *)
(* a value is its encoded length.                                          *)
(*                                                                         *)
(* Spec runs the worker of this repository; FaultyChildSpec replaces it by *)
(* a process that sends any frame at any time, which is what the parent's  *)
(* checks are for.                                                         *)
(***************************************************************************)
EXTENDS Naturals, Sequences

CONSTANTS
  MaxNativeCalls, MaxValueBytes, MaxIntermediateValueBytes,   \* the limits
  Lengths,     \* encoded lengths a handler's output may have
  PipeBound    \* frames a faulty child may have in flight: a bound for TLC

ASSUME LimitsAssumption ==
  /\ MaxNativeCalls \in Nat \ {0}
  /\ MaxValueBytes \in Nat \ {0}
  /\ MaxIntermediateValueBytes \in Nat \ {0}
ASSUME LengthsAssumption == Lengths \subseteq Nat
ASSUME PipeAssumption == PipeBound \in Nat

FinalErrors  == {"invalid_program", "invalid_arguments", "resource_limit", "internal"}
ParentFrames == {"exec", "native_result", "native_abort"}
ChildFrames  == {"native_call", "final", "malformed"} \cup FinalErrors
ConnStates   == {"Init", "Ready", "AwaitNative", "Done"}

VARIABLES
  \* parent
  pctl,       \* control of runExecExchange and handleNative
  pstate,     \* parentConn.state
  pcalls,     \* parentConn.nativeCalls
  remaining,  \* parentConn.remainingIntermediate
  terminal,   \* the terminal frame that was read
  outcome,    \* the execOutcome: "value", a final_error, "retained" or "kill"
  \* pipes
  toChild, toParent,
  open,       \* the ends of the pipes that the parent has open
  \* child
  proc,       \* control of the process: the engine runs, waits, has returned...
  cstate,     \* childConn.state
  ccalls,     \* childConn.nativeCalls
  phase,      \* executionState.phase
  attempts,   \* executionState.nativeCalls.current
  returned,   \* what engine.Execute returned: "ok" or the code of its error
  status,     \* exit status
  \* history
  results,    \* native_result frames written
  delivered,  \* and the bytes of their bodies
  illegal     \* who met errIllegalState

parentVars  == <<pctl, pstate, pcalls, remaining, terminal, outcome>>
childVars   == <<proc, cstate, ccalls, phase, attempts, returned, status>>
historyVars == <<results, delivered, illegal>>
vars == <<parentVars, toChild, toParent, open, childVars, historyVars>>

Init ==
  /\ pctl = "writeExec" /\ pstate = "Init" /\ pcalls = 0
  /\ remaining = MaxIntermediateValueBytes /\ terminal = "none" /\ outcome = "none"
  /\ toChild = <<>> /\ toParent = <<>> /\ open = {"stdin", "stdout"}
  /\ proc = "boot" /\ cstate = "Init" /\ ccalls = 0 /\ phase = "loading" /\ attempts = 0
  /\ returned = "none" /\ status = "none"
  /\ results = 0 /\ delivered = 0 /\ illegal = {}

Alive == proc # "exited"
Writable == "stdin" \in open /\ Alive
\* What a read of the child's stdout finds: a frame, its end, or an error.
FrameAvailable == "stdout" \in open /\ toParent # <<>>
AtEOF == "stdout" \in open /\ toParent = <<>> /\ ~Alive
ReadBroken == "stdout" \notin open

-----------------------------------------------------------------------------
(* The parent *)

\* runExecExchange returns.
End(o) == pctl' = "ended" /\ outcome' = o

writeExec ==
  /\ pctl = "writeExec"
  /\ IF Writable
       THEN /\ toChild' = Append(toChild, "exec")
            /\ pctl' = "read" /\ pstate' = "Ready"
            /\ UNCHANGED outcome
       ELSE End("kill") /\ UNCHANGED <<toChild, pstate>>
  /\ UNCHANGED <<pcalls, remaining, terminal, toParent, open, childVars, historyVars>>

\* parentConn.read meets the end of the stream, a closed pipe, or a payload that is
\* too long, does not decode or carries a value beyond its limits.
readFails ==
  /\ pctl = "read"
  /\ \/ (AtEOF \/ ReadBroken) /\ UNCHANGED toParent
     \/ FrameAvailable /\ Head(toParent) = "malformed" /\ toParent' = Tail(toParent)
  /\ End("kill")
  /\ UNCHANGED <<pstate, pcalls, remaining, terminal, toChild, open, childVars, historyVars>>

CallBudgetOffByOne == pcalls <= MaxNativeCalls
CallBudgetLeft == pcalls < MaxNativeCalls

\* A native_call is read: accepted, or one too many.
acceptNativeCall ==
  /\ pctl = "read"
  /\ FrameAvailable /\ Head(toParent) = "native_call"
  /\ toParent' = Tail(toParent)
  /\ IF pstate = "Ready" /\ CallBudgetLeft
       THEN /\ pcalls' = pcalls + 1 /\ pstate' = "AwaitNative" /\ pctl' = "native"
            /\ UNCHANGED <<outcome, illegal>>
       ELSE /\ End("kill")
            /\ illegal' = illegal \cup {"parent"}
            /\ UNCHANGED <<pcalls, pstate>>
  /\ UNCHANGED <<remaining, terminal, toChild, open, childVars, results, delivered>>

\* acceptFinal and acceptFinalError.
acceptTerminal ==
  /\ pctl = "read"
  /\ FrameAvailable /\ Head(toParent) \in {"final"} \cup FinalErrors
  /\ toParent' = Tail(toParent)
  /\ IF pstate = "Ready"
       THEN /\ terminal' = Head(toParent) /\ pstate' = "Done" /\ pctl' = "eof"
            /\ UNCHANGED <<outcome, illegal>>
       ELSE /\ End("kill")
            /\ illegal' = illegal \cup {"parent"}
            /\ UNCHANGED <<terminal, pstate>>
  /\ UNCHANGED <<pcalls, remaining, toChild, open, childVars, results, delivered>>

\* readExecEOF after a terminal frame: stray bytes and errors make it a failure.
terminalEOF ==
  /\ pctl = "eof"
  /\ \/ AtEOF /\ End(IF terminal = "final" THEN "value" ELSE terminal) /\ UNCHANGED illegal
     \/ ReadBroken /\ End("kill") /\ UNCHANGED illegal
     \/ FrameAvailable /\ End("kill") /\ illegal' = illegal \cup {"parent"}
  /\ UNCHANGED <<pstate, pcalls, remaining, terminal, toChild, toParent, open, childVars, results, delivered>>

\* handleNative: the context ends, or the dispatch finds the call malformed.
nativeKill ==
  /\ pctl = "native"
  /\ End("kill")
  /\ UNCHANGED <<pstate, pcalls, remaining, terminal, toChild, toParent, open, childVars, historyVars>>

IgnoreAggregate(n) == n <= MaxValueBytes
Fits(n) == n <= MaxValueBytes /\ n <= remaining

\* writeNativeResult of a value whose encoding has length n and fits.
writeNativeResult(n) ==
  /\ pctl = "native" /\ pstate = "AwaitNative"
  /\ Fits(n)
  /\ IF Writable
       THEN /\ toChild' = Append(toChild, "native_result")
            /\ remaining' = remaining - n
            /\ pstate' = "Ready" /\ pctl' = "read"
            /\ results' = results + 1 /\ delivered' = delivered + n
            /\ UNCHANGED outcome
       ELSE End("kill") /\ UNCHANGED <<toChild, remaining, pstate, results, delivered>>
  /\ UNCHANGED <<pcalls, terminal, toParent, open, childVars, illegal>>

\* writeAbort: the dispatch failed, or its value (of length n) does not fit.  An
\* error of the write is ignored and leaves the state as it is.
writeAbort ==
  /\ pctl = "native" /\ pstate = "AwaitNative"
  /\ IF Writable
       THEN toChild' = Append(toChild, "native_abort") /\ pstate' = "Done"
       ELSE UNCHANGED <<toChild, pstate>>
  /\ pctl' = "abortEOF"
  /\ UNCHANGED <<pcalls, remaining, terminal, outcome, toParent, open, childVars, historyVars>>

EOFNotAwaited == TRUE
ReadReturns == AtEOF \/ ReadBroken \/ FrameAvailable

\* readExecEOF after an abort: its result is ignored, the error is retained.
abortEOF ==
  /\ pctl = "abortEOF"
  /\ ReadReturns
  /\ End("retained")
  /\ UNCHANGED <<pstate, pcalls, remaining, terminal, toChild, toParent, open, childVars, historyVars>>

\* finish, called by Execute when its context has ended or the exchange has: it
\* closes stdin, kills the process if needed and closes stdout.
closeStdin ==
  /\ "stdin" \in open
  /\ open' = open \ {"stdin"}
  /\ UNCHANGED <<parentVars, toChild, toParent, childVars, historyVars>>

killChild ==
  /\ "stdin" \notin open /\ Alive
  /\ proc' = "exited" /\ status' = "killed"
  /\ UNCHANGED <<parentVars, toChild, toParent, open, cstate, ccalls, phase, attempts, returned, historyVars>>

closeStdout ==
  /\ open = {"stdout"} /\ ~Alive
  /\ open' = {}
  /\ UNCHANGED <<parentVars, toChild, toParent, childVars, historyVars>>

-----------------------------------------------------------------------------
(* The child *)

\* readInitialFrame and the checks of serveExec, up to engine.Execute.
serveExec ==
  /\ proc = "boot" /\ toChild # <<>> /\ Head(toChild) = "exec"
  /\ toChild' = Tail(toChild)
  /\ proc' = "engine" /\ cstate' = "Ready"
  /\ UNCHANGED <<parentVars, toParent, open, ccalls, phase, attempts, returned, status, historyVars>>

\* The program's top level has run and main exists: beginMain.
beginMain ==
  /\ proc = "engine" /\ phase = "loading"
  /\ phase' = "running"
  /\ UNCHANGED <<parentVars, toChild, toParent, open, proc, cstate, ccalls, attempts, returned, status, historyVars>>

\* engine.Execute returns: a failure while loading leaves the phase, main's end has
\* passed finishMain.
EngineReturns(c) ==
  /\ proc' = "unwound" /\ returned' = c
  /\ phase' = IF phase = "loading" THEN "loading" ELSE "done"

\* Syntax and runtime errors and the step limit; main may also return, and its
\* value converts or does not; a recovered panic passes no finishMain.
programEnds ==
  /\ proc = "engine"
  /\ \/ \E c \in {"invalid_program", "resource_limit"} \cup (IF phase = "running" THEN {"ok"} ELSE {}) :
          EngineReturns(c)
     \/ proc' = "unwound" /\ returned' = "internal" /\ UNCHANGED phase
  /\ UNCHANGED <<parentVars, toChild, toParent, open, cstate, ccalls, attempts, status, historyVars>>

\* callCapability refuses: outside main, or beyond the budget of attempts.
callRefused ==
  /\ proc = "engine"
  /\ \/ phase # "running" /\ EngineReturns("invalid_program")
     \/ phase = "running" /\ attempts >= MaxNativeCalls /\ EngineReturns("resource_limit")
  /\ UNCHANGED <<parentVars, toChild, toParent, open, cstate, ccalls, attempts, status, historyVars>>

AttemptBudgetOffByOne == phase = "running" /\ attempts <= MaxNativeCalls
CallWhileLoading == attempts < MaxNativeCalls
MayAttempt == phase = "running" /\ attempts < MaxNativeCalls

\* The attempt is counted, then the arguments fail to bind or to fit.
bindFails ==
  /\ proc = "engine" /\ MayAttempt
  /\ attempts' = attempts + 1
  /\ \E c \in {"invalid_arguments", "resource_limit", "internal"} : EngineReturns(c)
  /\ UNCHANGED <<parentVars, toChild, toParent, open, cstate, ccalls, status, historyVars>>

\* The attempt is counted and writeNativeCall writes the frame.  Its own checks
\* end in errIllegalState, which the engine reports as an invalid program.
writeNativeCall ==
  /\ proc = "engine" /\ MayAttempt /\ "stdout" \in open
  /\ attempts' = attempts + 1
  /\ IF cstate = "Ready" /\ ccalls < MaxNativeCalls
       THEN /\ toParent' = Append(toParent, "native_call")
            /\ ccalls' = ccalls + 1 /\ cstate' = "AwaitNative" /\ proc' = "forward"
            /\ UNCHANGED <<phase, returned, illegal>>
       ELSE /\ EngineReturns("invalid_program")
            /\ illegal' = illegal \cup {"child"}
            /\ UNCHANGED <<toParent, ccalls, cstate>>
  /\ UNCHANGED <<parentVars, toChild, open, status, results, delivered>>

\* acceptNativeResult; the result may fail to convert.
acceptNativeResult ==
  /\ proc = "forward" /\ toChild # <<>> /\ Head(toChild) = "native_result"
  /\ toChild' = Tail(toChild)
  /\ cstate' = "Ready"
  /\ \/ proc' = "engine" /\ UNCHANGED <<phase, returned>>
     \/ \E c \in {"resource_limit", "internal"} : EngineReturns(c)
  /\ UNCHANGED <<parentVars, toParent, open, ccalls, attempts, status, historyVars>>

\* acceptNativeAbort: the program unwinds.  classifyRuntimeError knows no abort
\* and reports an invalid program (or, with a detail, a capability failure, for
\* which there is no code but internal).
acceptNativeAbort ==
  /\ proc = "forward" /\ toChild # <<>> /\ Head(toChild) = "native_abort"
  /\ toChild' = Tail(toChild)
  /\ cstate' = "Done"
  /\ \E c \in {"invalid_program", "internal"} : EngineReturns(c)
  /\ UNCHANGED <<parentVars, toParent, open, ccalls, attempts, status, historyVars>>

\* The reply never comes: errChildService, which the engine too reports as an
\* invalid program.
replyLost ==
  /\ proc = "forward" /\ toChild = <<>> /\ "stdin" \notin open
  /\ EngineReturns("invalid_program")
  /\ UNCHANGED <<parentVars, toChild, toParent, open, cstate, ccalls, attempts, status, historyVars>>

Exit(s) == proc' = "exited" /\ status' = s

\* What serveExec writes last, if anything: none after an abort.
NoAbortCheck == TRUE
NotAborted == cstate # "Done"

\* After an abort serveExec returns nil at once.
serveSilently ==
  /\ proc = "unwound" /\ ~NotAborted
  /\ Exit("zero")
  /\ UNCHANGED <<parentVars, toChild, toParent, open, cstate, ccalls, phase, attempts, returned, historyVars>>

MayWriteAnyway == TRUE
MayWriteTerminal == cstate = "Ready"

\* The frame serveExec chooses; a value that cannot be encoded is reported instead.
TerminalIgnoresError == {"final"}
TerminalFrames ==
  IF returned = "ok" THEN {"final", "resource_limit", "invalid_program"} ELSE {returned}

\* writeFinal or writeFinalError, which refuse out of turn.
writeTerminal ==
  /\ proc = "unwound" /\ NotAborted /\ "stdout" \in open
  /\ IF MayWriteTerminal
       THEN /\ \E f \in TerminalFrames : toParent' = Append(toParent, f)
            /\ cstate' = "Done"
            /\ Exit("zero")
            /\ UNCHANGED illegal
       ELSE /\ illegal' = illegal \cup {"child"}
            /\ Exit("one")
            /\ UNCHANGED <<toParent, cstate>>
  /\ UNCHANGED <<parentVars, toChild, open, ccalls, phase, attempts, returned, results, delivered>>

\* The first read meets the end of stdin; a write meets a closed stdout; the
\* process dies.
childFails ==
  /\ Alive
  /\ \/ proc = "boot" /\ toChild = <<>> /\ "stdin" \notin open /\ Exit("one")
     \/ Exit("crash")
  /\ UNCHANGED <<parentVars, toChild, toParent, open, cstate, ccalls, phase, attempts, returned, historyVars>>

-----------------------------------------------------------------------------
(* A child that follows no protocol *)

faultySend(f) ==
  /\ Alive /\ Len(toParent) < PipeBound
  /\ toParent' = Append(toParent, f)
  /\ UNCHANGED <<parentVars, toChild, open, childVars, historyVars>>

faultyRead ==
  /\ Alive /\ toChild # <<>>
  /\ toChild' = Tail(toChild)
  /\ UNCHANGED <<parentVars, toParent, open, childVars, historyVars>>

-----------------------------------------------------------------------------
ParentStep ==
  \/ writeExec \/ readFails \/ acceptNativeCall \/ acceptTerminal \/ terminalEOF
  \/ nativeKill \/ (\E n \in Lengths : writeNativeResult(n)) \/ writeAbort \/ abortEOF
  \/ closeStdin \/ killChild \/ closeStdout

ChildStep ==
  \/ serveExec \/ beginMain \/ programEnds \/ callRefused \/ bindFails \/ writeNativeCall
  \/ acceptNativeResult \/ acceptNativeAbort \/ replyLost
  \/ serveSilently \/ writeTerminal \/ childFails

FaultyChildStep ==
  (\E f \in ChildFrames : faultySend(f)) \/ faultyRead \/ childFails

\* The exchange has ended and the process is gone.
Over == pctl = "ended" /\ open = {} /\ UNCHANGED vars

Next == ParentStep \/ ChildStep \/ Over
Spec == Init /\ [][Next]_vars

FaultyChildNext == ParentStep \/ FaultyChildStep \/ Over
FaultyChildSpec == Init /\ [][FaultyChildNext]_vars

-----------------------------------------------------------------------------
(* Properties *)

\* Type correctness.
TypeOK ==
  /\ pctl \in {"writeExec", "read", "native", "eof", "abortEOF", "ended"}
  /\ pstate \in ConnStates /\ cstate \in ConnStates
  /\ pcalls \in 0..MaxNativeCalls
  /\ remaining \in 0..MaxIntermediateValueBytes
  /\ terminal \in {"none", "final"} \cup FinalErrors
  /\ outcome \in {"none", "value", "retained", "kill"} \cup FinalErrors
  /\ toChild \in Seq(ParentFrames) /\ toParent \in Seq(ChildFrames)
  /\ open \subseteq {"stdin", "stdout"}
  /\ proc \in {"boot", "engine", "forward", "unwound", "exited"}
  /\ ccalls \in Nat /\ attempts \in Nat
  /\ phase \in {"loading", "running", "done"}
  /\ returned \in {"none", "ok"} \cup FinalErrors
  /\ status \in {"none", "zero", "one", "killed", "crash"}
  /\ results \in Nat /\ delivered \in Nat
  /\ illegal \subseteq {"parent", "child"}

Frames(f) == {i \in 1..Len(toParent) : toParent[i] = f}

\* The three counters of native calls never disagree by more than the call in
\* flight, and the engine's counter of attempts is the one that stops a program:
\* the connections' own limits are never what a program runs into.
CountersAgree ==
  /\ results <= pcalls /\ pcalls <= ccalls /\ ccalls <= results + 1
  /\ ccalls <= attempts /\ attempts <= MaxNativeCalls
  /\ (ccalls = pcalls) <=> (Frames("native_call") = {})

\* The two connections stay in step: their counters of calls agree, and with this
\* repository's worker neither side ever meets errIllegalState, except a worker whose
\* stdin was closed under it.
PeersInStep ==
  /\ CountersAgree
  /\ "parent" \notin illegal
  /\ "child" \in illegal => "stdin" \notin open

\* The parent dispatches only on behalf of a program that is inside main and waits
\* for the reply (as long as the reply can be delivered).
DispatchOnlyForWaitingMain ==
  pctl = "native" /\ Writable => phase = "running" /\ proc = "forward"

\* A terminal frame is the last frame of its stream and is written only when every
\* call has been answered: a lost reply or an abort is never reported as the
\* program's own failure.
TerminalInTurn ==
  \A i \in 1..Len(toParent) : toParent[i] # "native_call" => i = Len(toParent) /\ results = ccalls

\* An aborted program ends the worker without a further frame and with status 0,
\* unless the process is killed or dies.
AbortEndsCleanly ==
  pstate = "Done" /\ terminal = "none" => toParent = <<>> /\ status # "one"

\* The value of an execution is the value of a main that returned, after exactly
\* the calls it attempted were answered with results.
ValueIsMains ==
  outcome = "value" => returned = "ok" /\ phase = "done" /\ results = attempts

\* Calls and value are those of one run of main: a dispatch serves a main that waits,
\* and a value comes from a main all of whose calls were answered.
MainIsServed == DispatchOnlyForWaitingMain /\ ValueIsMains

\* Execute leaves the process unkilled, and waits for it without a timeout, only
\* when the exchange has seen the end of its output.
UnkilledIsDead == pctl = "ended" /\ outcome # "kill" => ~Alive

Ledger == INSTANCE NativeCallLedger WITH
  MaxCalls  <- MaxNativeCalls,
  Budget    <- MaxIntermediateValueBytes,
  Verdicts  <- {"value", "retained", "kill"} \cup FinalErrors,
  Value     <- "value",
  NoVerdict <- "none",
  calls     <- pcalls,
  answered  <- results,
  spent     <- delivered,
  verdict   <- outcome

\* The exchange keeps the ledger of native calls; with a faulty child too.
KeepsLedger == Ledger!Spec
=============================================================================
