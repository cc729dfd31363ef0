---------------------------- MODULE SessionProofs ----------------------------
(***************************************************************************)
(* Proofs about Session, for every set of requests.  An execution end to   *)
(* end implements Dispatch: whatever the runner, the child and the caller  *)
(* do, the dispatch goroutines see nothing but a context that ends once,   *)
(* and the runner starts their calls one at a time.  What DispatchProofs   *)
(* shows of a dispatch on its own therefore holds in the whole execution.  *)
(***************************************************************************)
EXTENDS Session, RunnerProofs

P == INSTANCE DispatchProofs WITH Sessions <- Requests

\* The context of r is left alone or ends: the end of the context in Dispatch.
ContextStep(r) ==
  \/ UNCHANGED ctx
  \/ ctx[r] = "live" /\ \E why \in {"canceled", "deadline"} : ctx' = [ctx EXCEPT ![r] = why]

\* Execute's deferred cancel ends a live context and leaves an ended one alone.
LEMMA ReturnContext ==
  ASSUME ctx \in [Requests -> D!Contexts], NEW r \in Requests, NEW c, Return(r, c)
  PROVE  ContextStep(r)
<1>1. CASE ctx[r] = "live"
  BY <1>1 DEF Return, ContextStep
<1>2. CASE ctx[r] # "live"
  BY <1>2 DEF Return, ContextStep
<1> QED
  BY <1>1, <1>2

\* No step of the runner, of the child or of the caller does more to the context.
LEMMA RunnerContext ==
  ASSUME ctx \in [Requests -> D!Contexts], NEW r \in Requests, RunnerMoves(r)
  PROVE  ContextStep(r)
<1>1. CASE \E c : Return(r, c)
  BY <1>1, ReturnContext
<1>2. CASE EndContext(r, "canceled") \/ EndContext(r, "deadline")
  BY <1>2 DEF EndContext, ContextStep
<1>3. CASE MainStep(r) /\ ~\E c : Return(r, c)
  BY <1>3 DEF MainStep, Acquire, AcquireEnded, Recheck, SpawnFails, Spawn, SelectDone,
              SelectEnded, CloseStdin, Kill, CloseStdout, Join, Wait, Release, Interpret,
              ContextStep
<1>4. CASE OtherExchangeStep(r)
  BY <1>4 DEF OtherExchangeStep, WriteExec, ReadFails, ReadFinal, FinalEOF, NativeEnded,
              NativeProtocol, NativeResult, NativeAbort, AbortEOF, ContextStep
<1>5. CASE Call(r) \/ RejectCall(r) \/ ChildService(r) \/ ChildProgram(r)
  BY <1>5 DEF Call, RejectCall, ChildService, ChildReadExec, ChildReply, ChildExit,
              ChildStdinEOF, ChildProgram, ChildCall, ChildFinal, ChildCrash, ContextStep
<1> QED
  BY <1>1, <1>2, <1>3, <1>4, <1>5 DEF RunnerMoves

\* Session's instance of Dispatch and that of its proofs are one specification: they
\* have the same steps.
LEMMA SameSteps ==
  ASSUME NEW r \in Requests
  PROVE  /\ D!DispatchStep(r) <=> P!DispatchStep(r)
         /\ D!Sends(r) \/ D!HostCode(r) <=> P!Sends(r) \/ P!HostCode(r)
<1>1. D!DispatchStep(r) <=> P!DispatchStep(r)
  BY DEF D!DispatchStep, D!CheckEntry, D!Reject, D!Resolve, D!CheckBound,
         D!PolicyEnded, D!PolicyDecided, D!CheckAllowed, D!Launch,
         D!HandlerEnded, D!HandlerDone, D!CheckReceived, D!Convert, D!Check,
         D!Go, D!Return, D!contextFailure, D!policyVars, D!handlerVars,
         P!DispatchStep, P!CheckEntry, P!Reject, P!Resolve, P!CheckBound,
         P!PolicyEnded, P!PolicyDecided, P!CheckAllowed, P!Launch,
         P!HandlerEnded, P!HandlerDone, P!CheckReceived, P!Convert, P!Check,
         P!Go, P!Return, P!contextFailure, P!policyVars, P!handlerVars
<1>2. D!Sends(r) \/ D!HostCode(r) <=> P!Sends(r) \/ P!HostCode(r)
  BY DEF D!Sends, D!SendVerdict, D!CanSendVerdict, D!SendOutcome, D!HostCode,
         D!AuthorizerReturns, D!HandlerReturns, D!authorize, D!invoke,
         D!AuthorizerReturnValues, D!HandlerReturnValues, D!Verdicts, D!Outputs,
         D!policyVars, D!handlerVars, P!Sends, P!SendVerdict, P!CanSendVerdict,
         P!SendOutcome, P!HostCode, P!AuthorizerReturns, P!HandlerReturns,
         P!authorize, P!invoke, P!AuthorizerReturnValues, P!HandlerReturnValues,
         P!Verdicts, P!Outputs, P!policyVars, P!handlerVars
<1> QED
  BY <1>1, <1>2

\* Every step of an execution is a step of Dispatch or leaves its state alone.
LEMMA StepImplementsDispatch ==
  ASSUME P!DInv, [SessionNext]_<<vars, dispatchVars>>
  PROVE  [P!Next]_(P!dvars)
<1>0. ctx \in [Requests -> D!Contexts]
  BY DEF P!DInv, P!TypeOK, P!Contexts, D!Contexts
<1>1. ASSUME NEW r \in Requests, RunnerMoves(r) PROVE [P!Next]_(P!dvars)
  <2>1. ContextStep(r) /\ UNCHANGED dispatchVars
    BY <1>0, <1>1, RunnerContext DEF RunnerMoves
  <2>2. CASE UNCHANGED ctx
    BY <2>1, <2>2 DEF P!dvars, dispatchVars
  <2>3. CASE ctx[r] = "live" /\ \E why \in {"canceled", "deadline"} : ctx' = [ctx EXCEPT ![r] = why]
    <3>1. P!EndContext(r, "canceled") \/ P!EndContext(r, "deadline")
      BY <2>1, <2>3 DEF P!EndContext, P!policyVars, P!handlerVars, dispatchVars
    <3> QED
      BY <3>1 DEF P!Next
  <2> QED
    BY <2>1, <2>2, <2>3 DEF ContextStep
<1>2. ASSUME NEW r \in Requests, CallArrives(r) PROVE [P!Next]_(P!dvars)
  <2>1. P!Begin(r) /\ UNCHANGED ctx
    BY <1>2 DEF CallArrives, ReadCall, D!Begin, D!Go, P!Begin, P!Go
  <2> QED
    BY <2>1 DEF P!Next
<1>3. ASSUME NEW r \in Requests, DispatchMoves(r) PROVE [P!Next]_(P!dvars)
  <2>1. UNCHANGED ctx
    BY <1>3 DEF DispatchMoves, DispatchReturns, vars
  <2>2. P!DispatchStep(r)
    BY <1>3, SameSteps DEF DispatchMoves
  <2> QED
    BY <2>1, <2>2 DEF P!Next
<1>4. ASSUME NEW r \in Requests, HostMoves(r) PROVE [P!Next]_(P!dvars)
  <2>1. UNCHANGED ctx
    BY <1>4 DEF HostMoves, vars
  <2>2. P!Sends(r) \/ P!HostCode(r)
    BY <1>4, SameSteps DEF HostMoves
  <2> QED
    BY <2>1, <2>2 DEF P!Next
<1>5. CASE SessionQuiescent \/ UNCHANGED <<vars, dispatchVars>>
  BY <1>5 DEF SessionQuiescent, Quiescent, vars, dispatchVars, P!dvars
<1> QED
  BY <1>1, <1>2, <1>3, <1>4, <1>5 DEF SessionNext

\* An execution starts where Dispatch does.
LEMMA InitImplementsDispatch == SessionInit => P!Init
BY DEF SessionInit, Init, D!DispatchInit, P!Init, P!DispatchInit

\* The invariant of dispatch holds in every execution.
THEOREM DispatchInvariance == SessionSpec => []P!DInv
<1>1. SessionInit => P!DInv
  BY InitImplementsDispatch, P!InitInv
<1>2. P!DInv /\ [SessionNext]_<<vars, dispatchVars>> => P!DInv'
  BY StepImplementsDispatch, P!NextInv
<1> QED
  BY <1>1, <1>2, PTL DEF SessionSpec

\* An execution end to end implements Dispatch.
THEOREM ImplementsDispatch == SessionSpec => P!Spec
<1>1. P!DInv /\ [SessionNext]_<<vars, dispatchVars>> => [P!Next]_(P!dvars)
  BY StepImplementsDispatch
<1> QED
  BY <1>1, InitImplementsDispatch, DispatchInvariance, PTL DEF SessionSpec, P!Spec

\* No handler of any execution runs unless its authorizer returned nil while the run
\* context was live, whatever ends that context.
THEOREM LiveAllow == SessionSpec => []HandlerNeedsLiveAllow
<1>1. P!DInv => HandlerNeedsLiveAllow
  BY P!InvLiveAllow DEF HandlerNeedsLiveAllow, D!HandlerNeedsLiveAllow, P!HandlerNeedsLiveAllow
<1> QED
  BY <1>1, DispatchInvariance, PTL

\* In every execution a denial, an error and a panic of the authorizer fail closed.
THEOREM PolicyFailsClosed == SessionSpec => []FailsClosed
<1>1. P!DInv => FailsClosed
  BY P!InvFailsClosed DEF FailsClosed, D!FailsClosed, P!FailsClosed, P!CtxFailures, D!CtxFailures
<1> QED
  BY <1>1, DispatchInvariance, PTL

\* In every execution what a handler returned after the end of the context is never
\* the answer.
THEOREM LateOutcome == SessionSpec => []LateOutcomeIsDiscarded
<1>1. P!DInv => LateOutcomeIsDiscarded
  BY P!InvLateOutcome DEF LateOutcomeIsDiscarded, D!LateOutcomeIsDiscarded, P!LateOutcomeIsDiscarded, P!CtxFailures, D!CtxFailures
<1> QED
  BY <1>1, DispatchInvariance, PTL

\* In every execution a call that returned a value has left no goroutine.
THEOREM ValueIsComplete == SessionSpec => []ValueLeavesNothingRunning
<1>1. P!DInv => ValueLeavesNothingRunning
  BY P!InvValueIsComplete DEF ValueLeavesNothingRunning, D!ValueLeavesNothingRunning, P!ValueLeavesNothingRunning
<1> QED
  BY <1>1, DispatchInvariance, PTL

-----------------------------------------------------------------------------
(***************************************************************************)
(* The runner's side.  An execution is also a behaviour of Runner, with    *)
(* its one-step dispatch: so everything RunnerProofs shows holds here, and *)
(* what is left is to relate the two sides.                                *)
(***************************************************************************)

USE FailuresAssumption DEF CtxErrors, ErrorClasses, Classes, Callbacks, procVars, mainVars

\* What dispatch returns is a result the runner knows.
LEMMA AnswerIsExpected ==
  ASSUME P!DInv, [SessionNext]_<<vars, dispatchVars>>,
         NEW r \in Requests, D!DispatchStep(r), dpc'[r] \in {"idle", "failed"},
         NEW res \in ResultsOf(answer'[r])
  PROVE  /\ res \in Callbacks \ {"none", "running"}
         /\ dpc'[r] = "idle" => res \in {"value", "oversize"}
         /\ dpc'[r] = "failed" => res = answer'[r] /\ res \notin {"value", "oversize"}
<1>1. P!DInv'
  BY StepImplementsDispatch, P!NextInv
<1>2. dpc'[r] = "idle" => answer'[r] = "value"
  <2>1. dpc \in [Requests -> P!DispatchPCs] /\ answer \in [Requests -> {"none"} \cup P!Answers]
    BY DEF P!DInv, P!TypeOK
  <2>2. ASSUME NEW err, D!Return(r, err), dpc'[r] = "idle" PROVE answer'[r] = "value"
    BY <2>1, <2>2 DEF D!Return
  <2>3. CASE \E err : D!Return(r, err)
    BY <2>2, <2>3
  <2>4. CASE ~\E err : D!Return(r, err)
    BY <2>1, <2>4 DEF D!DispatchStep, D!CheckEntry, D!Reject, D!Resolve, D!CheckBound,
         D!PolicyEnded, D!PolicyDecided, D!CheckAllowed, D!Launch,
         D!HandlerEnded, D!HandlerDone, D!CheckReceived, D!Convert, D!Check, D!Go
  <2> QED
    BY <2>3, <2>4
<1>3. answer'[r] \in P!Answers /\ (dpc'[r] = "failed" => answer'[r] # "value")
  BY <1>1, <1>2 DEF P!DInv, P!TypeOK, P!SessionInv, P!AnswerInv, P!Answers
<1>4. P!Answers \subseteq Callbacks \ {"none", "running", "oversize"}
  BY DispatchFailuresAssumption DEF D!Answers, D!Errors, D!CtxFailures, D!Verdicts, D!Outputs,
     P!Answers, P!Errors, P!CtxFailures, P!Verdicts, P!Outputs
<1> QED
  BY <1>2, <1>3, <1>4 DEF ResultsOf

\* Every step of an execution is a step of Runner or leaves its state alone: what
\* dispatch returns is a result that the runner expects.
LEMMA StepImplementsRunner ==
  ASSUME P!DInv, [SessionNext]_<<vars, dispatchVars>>
  PROVE  [Next]_vars
<1>1. ASSUME NEW r \in Requests, RunnerMoves(r) PROVE [Next]_vars
  BY <1>1 DEF RunnerMoves, OtherExchangeStep, Next, ExchangeStep
<1>2. ASSUME NEW r \in Requests, CallArrives(r) PROVE [Next]_vars
  BY <1>2 DEF CallArrives, Next, ExchangeStep
<1>3. ASSUME NEW r \in Requests, DispatchMoves(r) PROVE [Next]_vars
  <2>1. CASE dpc'[r] \in {"idle", "failed"}
    <3>1. PICK res \in ResultsOf(answer'[r]) : DispatchReturns(r, res)
      BY <1>3, <2>1 DEF DispatchMoves
    <3>2. res \in Callbacks \ {"none", "running"}
      BY <1>3, <2>1, <3>1, AnswerIsExpected DEF DispatchMoves
    <3> QED
      BY <3>1, <3>2 DEF Next
  <2>2. CASE dpc'[r] \notin {"idle", "failed"}
    BY <1>3, <2>2 DEF DispatchMoves
  <2> QED
    BY <2>1, <2>2
<1>4. CASE \/ \E r \in Requests : HostMoves(r)
           \/ SessionQuiescent \/ UNCHANGED <<vars, dispatchVars>>
  BY <1>4 DEF HostMoves, SessionQuiescent, Quiescent, vars
<1> QED
  BY <1>1, <1>2, <1>3, <1>4 DEF SessionNext

\* An execution end to end implements Runner.
THEOREM ImplementsRunner == SessionSpec => Spec
<1>1. SessionInit => Init
  BY DEF SessionInit
<1>2. P!DInv /\ [SessionNext]_<<vars, dispatchVars>> => [Next]_vars
  BY StepImplementsRunner
<1> QED
  BY <1>1, <1>2, DispatchInvariance, PTL DEF SessionSpec, Spec

(***************************************************************************)
(* The joint invariant.  The first part ties the results channel of        *)
(* handleNative to the dispatch it was made for, the second says what      *)
(* Execute answers when it gave up on a dispatch or was told its error.    *)
(***************************************************************************)

\* A call is in progress exactly while its result is awaited, a value leaves dispatch
\* ready for the next call, and an error in the channel is the one dispatch returned.
CallInv(r) ==
  /\ callback[r] = "running" <=> dpc[r] \notin {"idle", "failed"}
  /\ callback[r] \in {"none", "value", "oversize"} => dpc[r] = "idle"
  /\ callback[r] \notin {"none", "running", "value", "oversize"} =>
       dpc[r] = "failed" /\ answer[r] = callback[r]

\* The classes that only a dispatch gives.
HostClasses == {"PermissionDenied", "PolicyFailure", "CapabilityFailure"}

\* The exchange gives up on a dispatch for the context alone, and Execute then says so;
\* what only a dispatch can say, the dispatch said.
AbandonInv(r) ==
  /\ callback[r] \in CtxErrors => CtxEnded(r)
  /\ callback[r] = "running" /\ exch[r] = "finished" => CtxEnded(r)
  /\ pc[r] = "returned" /\ callback[r] \in {"running"} \cup CtxErrors => result[r] \in CtxErrors
  /\ result[r] \in HostClasses => callback[r] = result[r]
  /\ done[r].kind = "err" => done[r].class \in CtxErrors \cup {"Internal", "ChildError"}
  /\ out[r].kind = "err" => out[r].class \in CtxErrors \cup {"Internal", "ChildError"}

JInv == P!DInv /\ AInv /\ \A r \in Requests : CallInv(r) /\ AbandonInv(r)

\* The runner takes a value out of the channel and touches it in no other way.
LEMMA ChannelMoves ==
  ASSUME TypeOK, NEW r \in Requests, RunnerMoves(r), NEW q \in Requests
  PROVE  callback'[q] = callback[q] \/ (callback[q] = "value" /\ callback'[q] = "none")
<1>1. CASE NativeResult(r)
  BY <1>1 DEF NativeResult, TypeOK
<1>2. CASE ~NativeResult(r)
  <2>1. UNCHANGED callback
    BY <1>2 DEF RunnerMoves, Call, RejectCall, EndContext, MainStep, Acquire, AcquireEnded, Recheck,
       SpawnFails, Spawn, SelectDone, SelectEnded, CloseStdin, Kill, CloseStdout, Join, Wait, Release,
       Interpret, OtherExchangeStep, WriteExec, ReadFails, ReadFinal, FinalEOF, NativeEnded,
       NativeProtocol, NativeAbort, AbortEOF, ChildService, ChildReadExec, ChildReply,
       ChildExit, ChildStdinEOF, ChildProgram, ChildCall, ChildFinal, ChildCrash
  <2> QED
    BY <2>1
<1> QED
  BY <1>1, <1>2

\* The steps of dispatch and of its goroutines move one session.
LEMMA DispatchMovesOne ==
  ASSUME P!DInv, NEW r \in Requests, D!DispatchStep(r), NEW q \in Requests, q # r
  PROVE  dpc'[q] = dpc[q] /\ answer'[q] = answer[q]
<1> USE DEF P!DInv, P!TypeOK
<1>1. CASE \E err : D!Return(r, err)
  BY <1>1 DEF D!Return
<1>2. CASE ~\E err : D!Return(r, err)
  BY <1>2 DEF D!DispatchStep, D!CheckEntry, D!Reject, D!Resolve, D!CheckBound,
         D!PolicyEnded, D!PolicyDecided, D!CheckAllowed, D!Launch,
         D!HandlerEnded, D!HandlerDone, D!CheckReceived, D!Convert, D!Check, D!Go
<1> QED
  BY <1>1, <1>2

\* Every step keeps the channel and the dispatch together.
LEMMA CallStep ==
  ASSUME JInv, [SessionNext]_<<vars, dispatchVars>>, NEW q \in Requests
  PROVE  CallInv(q)'
<1>0. CallInv(q) /\ TypeOK /\ P!DInv
  BY DEF JInv, AInv, IInv
<1>1. ASSUME NEW r \in Requests, RunnerMoves(r) PROVE CallInv(q)'
  <2>1. UNCHANGED dispatchVars
    BY <1>1 DEF RunnerMoves
  <2>2. callback'[q] = callback[q] \/ (callback[q] = "value" /\ callback'[q] = "none")
    BY <1>0, <1>1, ChannelMoves
  <2> QED
    BY <1>0, <2>1, <2>2 DEF CallInv, dispatchVars
<1>2. ASSUME NEW r \in Requests, CallArrives(r) PROVE CallInv(q)'
  BY <1>0, <1>2 DEF CallArrives, ReadCall, D!Begin, D!Go, CallInv, TypeOK, P!DInv, P!TypeOK
<1>3. ASSUME NEW r \in Requests, DispatchMoves(r) PROVE CallInv(q)'
  <2>0. D!DispatchStep(r)
    BY <1>3 DEF DispatchMoves
  <2>1. CASE dpc'[r] \in {"idle", "failed"}
    <3>1. PICK res \in ResultsOf(answer'[r]) : DispatchReturns(r, res)
      BY <1>3, <2>1 DEF DispatchMoves
    <3>2. callback' = [callback EXCEPT ![r] = res] /\ callback[r] = "running"
      BY <3>1 DEF DispatchReturns
    <3>3. CASE q = r
      <4>1. /\ res \in Callbacks \ {"none", "running"}
            /\ dpc'[r] = "idle" => res \in {"value", "oversize"}
            /\ dpc'[r] = "failed" => res = answer'[r] /\ res \notin {"value", "oversize"}
        BY <1>0, <2>0, <2>1, <3>1, AnswerIsExpected
      <4>2. callback'[r] = res
        BY <1>0, <3>2 DEF TypeOK
      <4> QED
        BY <2>1, <3>3, <4>1, <4>2 DEF CallInv
    <3>4. CASE q # r
      BY <1>0, <2>0, <3>2, <3>4, DispatchMovesOne DEF CallInv
    <3> QED
      BY <3>3, <3>4
  <2>2. CASE dpc'[r] \notin {"idle", "failed"}
    <3>1. UNCHANGED callback
      BY <1>3, <2>2 DEF DispatchMoves, vars
    <3>2. dpc[r] \notin {"idle", "failed"}
      BY <2>0 DEF D!DispatchStep, D!CheckEntry, D!Reject, D!Resolve, D!CheckBound,
         D!PolicyEnded, D!PolicyDecided, D!CheckAllowed, D!Launch,
         D!HandlerEnded, D!HandlerDone, D!CheckReceived, D!Convert, D!Check, D!Go
    <3>3. CASE q = r
      BY <1>0, <2>2, <3>1, <3>2, <3>3 DEF CallInv
    <3>4. CASE q # r
      BY <1>0, <2>0, <3>1, <3>4, DispatchMovesOne DEF CallInv
    <3> QED
      BY <3>3, <3>4
  <2> QED
    BY <2>1, <2>2
<1>4. ASSUME NEW r \in Requests, HostMoves(r) PROVE CallInv(q)'
  BY <1>0, <1>4 DEF HostMoves, vars, CallInv, D!Sends, D!SendVerdict, D!SendOutcome, D!HostCode,
     D!AuthorizerReturns, D!HandlerReturns
<1>5. CASE SessionQuiescent \/ UNCHANGED <<vars, dispatchVars>>
  BY <1>0, <1>5 DEF SessionQuiescent, Quiescent, vars, dispatchVars, CallInv
<1> QED
  BY <1>1, <1>2, <1>3, <1>4, <1>5 DEF SessionNext

\* What Interpret answers when the exchange gave up on a dispatch or had its error, and
\* when the answer is one of a dispatch.
LEMMA InterpretCall ==
  ASSUME IInv, NEW r \in Requests, AnswerInv(r), AbandonInv(r), pc[r] = "interpret"
  PROVE  /\ callback[r] \in {"running"} \cup CtxErrors => interpretExec(r) \in CtxErrors
         /\ interpretExec(r) \in HostClasses => callback[r] = interpretExec(r)
<1>1. /\ out[r].kind \in {"value", "err", "retained"} /\ exch[r] = "finished"
      /\ out[r].kind = "value" => callback[r] = "none"
      /\ out[r].kind = "retained" =>
           callback[r] \in AbortResults /\ out[r].class = RetainedClass(callback[r])
  BY DEF IInv, RequestInv, ExchInv, ValueInv, AnswerInv, CauseInv, OutcomeTrue
<1>2. CtxEnded(r) => classifyRunContext(r) \in CtxErrors
  BY DEF CtxEnded, classifyRunContext, IInv, TypeOK
<1>3. callback[r] \in {"running"} \cup CtxErrors => CtxEnded(r)
  BY <1>1 DEF AbandonInv
<1>4. CASE out[r].kind = "retained"
  BY <1>1, <1>4 DEF interpretExec, RetainedClass, AbortResults, HostClasses
<1>5. CASE out[r].kind = "err"
  BY <1>1, <1>2, <1>3, <1>5 DEF interpretExec, AbandonInv, HostClasses
<1>6. CASE out[r].kind = "value"
  BY <1>1, <1>2, <1>6 DEF interpretExec, HostClasses
<1> QED
  BY <1>1, <1>4, <1>5, <1>6

\* Every step of the request itself keeps the second part.
LEMMA AbandonStep ==
  ASSUME AInv, NEW r \in Requests, AbandonInv(r), Step(r)
  PROVE  AbandonInv(r)'
<1> USE DEF AbandonInv, HostClasses
<1>0. TypeOK /\ RequestInv(r) /\ AnswerInv(r)
  BY DEF AInv, IInv
<1>1. classifyRunContext(r) \in CtxErrors \cup {"Internal"}
  BY DEF classifyRunContext
<1>2. CtxEnded(r) => classifyRunContext(r) \in CtxErrors
  BY <1>0 DEF CtxEnded, classifyRunContext, TypeOK
<1>3. CASE Interpret(r)
  <2>1. result'[r] = interpretExec(r) /\ out'[r].kind = "none" /\ UNCHANGED <<done, callback, exch>>
    BY <1>0, <1>3 DEF Interpret, Return, TypeOK, NoOutcome
  <2>2. CtxEnded(r)'
    BY <1>0, <1>3 DEF Interpret, Return, CtxEnded, TypeOK
  <2>3. pc[r] = "interpret"
    BY <1>3 DEF Interpret
  <2> QED
    BY <2>1, <2>2, <2>3, InterpretCall DEF AInv
<1>4. CASE RejectCall(r) \/ AcquireEnded(r) \/ Recheck(r) \/ SpawnFails(r)
  <2>1. callback[r] = "none" /\ UNCHANGED <<done, out, callback>>
    BY <1>0, <1>4 DEF RejectCall, AcquireEnded, Recheck, SpawnFails, Go, RequestInv, ExchInv, ValueInv,
       BeforeSpawn
  <2>2. result'[r] \in {"none", "Internal", "ResourceLimit"} \cup CtxErrors
    BY <1>0, <1>1, <1>4 DEF RejectCall, AcquireEnded, Recheck, SpawnFails, Return, Go, RequestInv, ValueInv, TypeOK
  <2> QED
    BY <2>1, <2>2
<1>5. CASE SelectDone(r) \/ SelectEnded(r) \/ Join(r)
  BY <1>0, <1>1, <1>5 DEF SelectDone, SelectEnded, EndedOutcome, Failure, NoOutcome, Join, Go, TypeOK, CtxEnded
<1>6. CASE Call(r) \/ Acquire(r) \/ Spawn(r) \/ CloseStdin(r) \/ Kill(r) \/ CloseStdout(r) \/ Wait(r) \/ Release(r)
  BY <1>0, <1>6 DEF Call, Acquire, Spawn, CloseStdin, Kill, CloseStdout, Wait, Release, Go, CtxEnded, TypeOK
<1>7. CASE ExchangeStep(r)
  <2>0. UNCHANGED <<ctx, mainVars>>
    BY <1>7 DEF ExchangeStep, WriteExec, ReadFails, ReadCall, ReadFinal, FinalEOF, NativeEnded,
       NativeProtocol, NativeResult, NativeAbort, AbortEOF
  <2>1. CASE NativeEnded(r)
    <3>1. /\ done'[r].kind = "err" /\ done'[r].class = classifyRunContext(r)
          /\ UNCHANGED callback /\ CtxEnded(r)
      BY <1>0, <2>1 DEF NativeEnded, GivesUp, Finish, EndedOutcome, Failure, TypeOK
    <3> QED
      BY <1>2, <2>0, <3>1 DEF CtxEnded
  <2>2. CASE AbortEOF(r)
    <3>1. done'[r].kind = "retained" /\ callback[r] \in AbortResults /\ UNCHANGED callback
      BY <1>0, <2>2 DEF AbortEOF, Finish, Retained, RequestInv, ValueInv, TypeOK
    <3>2. callback[r] # "running"
      BY <3>1 DEF AbortResults
    <3> QED
      BY <2>0, <3>1, <3>2 DEF CtxEnded
  <2>3. CASE ReadCall(r)
    <3>1. pc[r] # "returned" /\ result[r] = "none" /\ exch'[r] = "native" /\ callback'[r] = "running"
      BY <1>0, <2>3 DEF ReadCall, RequestInv, ExchInv, ValueInv, TypeOK
    <3> QED
      BY <2>0, <2>3, <3>1 DEF ReadCall
  <2>4. CASE NativeResult(r)
    <3>1. callback[r] = "value" /\ callback'[r] \in {"none", "value"} /\ result[r] = "none"
      BY <1>0, <2>4 DEF NativeResult, RequestInv, ExchInv, ValueInv, TypeOK
    <3>2. done'[r] = done[r] \/ done'[r] = Failure("Internal", TRUE)
      BY <1>0, <2>4 DEF NativeResult, Finish, TypeOK
    <3> QED
      BY <2>0, <3>1, <3>2 DEF Failure
  <2>5. CASE ReadFails(r) \/ FinalEOF(r) \/ WriteExec(r)
    <3>1. callback[r] = "none" /\ UNCHANGED callback
      BY <1>0, <2>5 DEF ReadFails, FinalEOF, WriteExec, RequestInv, ValueInv
    <3>2. done'[r] \in {done[r], Failure("Internal", TRUE), Succeeded, Failure("ChildError", FALSE)}
      <4>1. PICK o \in {done[r], Failure("Internal", TRUE), Succeeded, Failure("ChildError", FALSE)} :
               done' = [done EXCEPT ![r] = o] \/ done' = done
        BY <2>5 DEF ReadFails, FinalEOF, WriteExec, Finish
      <4> QED
        BY <1>0, <4>1 DEF TypeOK
    <3> QED
      BY <2>0, <3>1, <3>2 DEF Failure, Succeeded
  <2>6. CASE NativeProtocol(r)
    <3>1. callback[r] = "ErrProtocol" /\ UNCHANGED callback /\ done'[r] = Failure("Internal", TRUE)
      BY <1>0, <2>6 DEF NativeProtocol, Finish, TypeOK
    <3> QED
      BY <2>0, <3>1 DEF Failure, CtxEnded
  <2>7. CASE ReadFinal(r) \/ NativeAbort(r)
    <3>1. UNCHANGED <<callback, done>> /\ exch'[r] # "finished"
      BY <1>0, <2>7 DEF ReadFinal, NativeAbort, TypeOK
    <3> QED
      BY <2>0, <3>1 DEF CtxEnded
  <2> QED
    BY <1>7, <2>1, <2>2, <2>3, <2>4, <2>5, <2>6, <2>7 DEF ExchangeStep
<1>8. CASE EndContext(r, "canceled") \/ EndContext(r, "deadline")
  BY <1>0, <1>8 DEF EndContext, CtxEnded, TypeOK
<1>9. CASE \E res \in Callbacks \ {"none", "running"} : DispatchReturns(r, res)
  <2>1. PICK res \in Callbacks \ {"none", "running"} : DispatchReturns(r, res)
    BY <1>9
  <2>2. callback[r] = "running" /\ callback'[r] = res /\ (res \in CtxErrors => CtxEnded(r))
    BY <1>0, <2>1 DEF DispatchReturns, TypeOK
  <2>3. UNCHANGED <<ctx, pc, result, done, out, exch>>
    BY <2>1 DEF DispatchReturns
  <2> QED
    BY <2>2, <2>3 DEF CtxEnded
<1>10. CASE ChildService(r) \/ ChildProgram(r)
  BY <1>10 DEF ChildService, ChildReadExec, ChildReply, ChildExit, ChildStdinEOF, ChildProgram,
     ChildCall, ChildFinal, ChildCrash, CtxEnded
<1> QED
  BY <1>3, <1>4, <1>5, <1>6, <1>7, <1>8, <1>9, <1>10 DEF Step, MainStep

\* The joint invariant holds of every execution end to end.
THEOREM JointInvariance == SessionSpec => []JInv
<1>1. SessionInit => \A r \in Requests : CallInv(r) /\ AbandonInv(r)
  BY DEF SessionInit, Init, D!DispatchInit, CallInv, AbandonInv, HostClasses, NoOutcome
<1>2. ASSUME JInv, [SessionNext]_<<vars, dispatchVars>>
      PROVE  (\A r \in Requests : CallInv(r) /\ AbandonInv(r))'
  <2>1. [Next]_vars
    BY <1>2, StepImplementsRunner DEF JInv
  <2>2. ASSUME NEW r \in Requests, Step(r), NEW q \in Requests PROVE AbandonInv(q)'
    <3>1. CASE q = r
      BY <1>2, <2>2, <3>1, AbandonStep DEF JInv
    <3>2. CASE q # r
      BY <1>2, <2>2, <3>2, Frame DEF JInv, AInv, IInv, AbandonInv, CtxEnded
    <3> QED
      BY <3>1, <3>2
  <2>3. ASSUME UNCHANGED vars, NEW q \in Requests PROVE AbandonInv(q)'
    BY <1>2, <2>3 DEF JInv, AbandonInv, CtxEnded, vars
  <2> QED
    BY <1>2, <2>1, <2>2, <2>3, CallStep DEF Next, Step, Quiescent
<1>3. SessionSpec => []AInv
  BY ImplementsRunner, AnswerInvariance, PTL
<1> QED
  BY <1>1, <1>2, <1>3, DispatchInvariance, PTL DEF SessionSpec, JInv

\* The native calls of an execution reach host code one after the other, and host code
\* that outlives Execute was abandoned for the context, which is what Execute answered.
THEOREM CallsAreSequential == SessionSpec => []OneCallAtATime
<1>1. ASSUME JInv, NEW r \in Requests
      PROVE  /\ exch[r] \in {"writeExec", "read", "finalEOF", "errorEOF"} => ~AtWork(r) /\ dpc[r] = "idle"
             /\ pc[r] = "returned" /\ AtWork(r) => result[r] \in CtxErrors
  <2>1. CallInv(r) /\ AbandonInv(r) /\ ValueInv(r) /\ P!AnswerInv(r)
    BY <1>1 DEF JInv, AInv, IInv, RequestInv, P!DInv, P!SessionInv
  <2>2. dpc[r] = "idle" => ~AtWork(r)
    BY <2>1 DEF P!AnswerInv, AtWork
  <2>3. dpc[r] = "failed" /\ AtWork(r) => answer[r] \in CtxErrors
    BY <2>1 DEF P!AnswerInv, AtWork, P!CtxFailures
  <2> QED
    BY <2>1, <2>2, <2>3 DEF CallInv, AbandonInv, ValueInv
<1>2. JInv => OneCallAtATime
  BY <1>1 DEF OneCallAtATime
<1> QED
  BY <1>2, JointInvariance, PTL

\* A denial, a policy failure and a capability failure that Execute answers with are
\* what happened to the call, and a value never passes over a refusal.
THEOREM AnswersTellTheTruth == SessionSpec => []AnswersAreTrue
<1>1. ASSUME JInv, NEW r \in Requests
      PROVE  /\ result[r] = "PermissionDenied" => said[r] = "ErrDenied" /\ handler[r] = "none"
             /\ result[r] = "PolicyFailure" => said[r] \in {"error", "panic"} /\ handler[r] = "none"
             /\ result[r] = "CapabilityFailure" => said[r] = "nil" /\ handler[r] = "ended"
             /\ result[r] = "value" => said[r] \in {"none", "nil"}
  <2>1. /\ CallInv(r) /\ AbandonInv(r) /\ ValueInv(r)
        /\ P!AnswerInv(r) /\ P!AllowInv(r) /\ P!PolicyInv(r)
        /\ said[r] \in {"none"} \cup P!AuthorizerReturnValues
    BY <1>1 DEF JInv, AInv, IInv, RequestInv, P!DInv, P!TypeOK, P!SessionInv
  <2>2. result[r] \in HostClasses => answer[r] = result[r]
    BY <2>1 DEF CallInv, AbandonInv, HostClasses
  <2>3. /\ P!authorize(said[r]) = "PermissionDenied" => said[r] = "ErrDenied"
        /\ P!authorize(said[r]) = "PolicyFailure" => said[r] \notin {"nil", "ErrDenied"}
    BY DEF P!authorize
  <2>4. CASE result[r] = "value"
    <3>1. dpc[r] = "idle" /\ answer[r] \in {"none", "value"}
      BY <2>1, <2>4 DEF CallInv, ValueInv, P!AnswerInv
    <3> QED
      BY <2>1, <2>4, <3>1 DEF P!AnswerInv, P!AllowInv, P!PolicyInv
  <2>5. CASE result[r] \in HostClasses
    BY <2>1, <2>2, <2>3, <2>5 DEF P!AnswerInv, P!AllowInv, P!AuthorizerReturnValues, HostClasses
  <2> QED
    BY <2>4, <2>5 DEF HostClasses
<1>2. JInv => AnswersAreTrue
  BY <1>1 DEF AnswersAreTrue
<1> QED
  BY <1>2, JointInvariance, PTL
=============================================================================
