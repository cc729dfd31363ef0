------------------------------ MODULE Session -------------------------------
(***************************************************************************)
(* An execution end to end: the runner of Runner.tla with the dispatch of  *)
(* Dispatch.tla in place of its one-step dispatch.  The two share the run  *)
(* context: handleNative passes runCtx to dispatch, the authorizer and the *)
(* handler.  The runner starts a dispatch when it reads a native_call      *)
(* (Begin) and learns its result over the buffered channel `results`       *)
(* (DispatchReturns); apart from that, both sides move independently.      *)
(***************************************************************************)
EXTENDS Runner

VARIABLES dpc, policy, policyDone, handler, invocationDone, answer, said, decidedIn, invokedIn

dispatchVars == <<dpc, policy, policyDone, handler, invocationDone, answer, said,
                  decidedIn, invokedIn>>

D == INSTANCE Dispatch WITH Sessions <- Requests

\* The runner is handed the classes dispatch returns; a context error, a malformed call
\* and a value have results of their own.
ASSUME DispatchFailuresAssumption ==
  DispatchFailures = D!Answers \ (CtxErrors \cup {"ErrProtocol", "value"})

SessionInit == Init /\ D!DispatchInit

\* The steps of the exchange goroutine that start no dispatch.
OtherExchangeStep(r) ==
  \/ WriteExec(r) \/ ReadFails(r) \/ ReadFinal(r) \/ FinalEOF(r)
  \/ NativeEnded(r) \/ NativeProtocol(r) \/ NativeResult(r) \/ NativeAbort(r) \/ AbortEOF(r)

\* Steps of the runner, of the child and of the context, other than the two that
\* touch a dispatch.
RunnerMoves(r) ==
  /\ \/ Call(r) \/ RejectCall(r)
     \/ EndContext(r, "canceled") \/ EndContext(r, "deadline")
     \/ MainStep(r) \/ OtherExchangeStep(r)
     \/ ChildService(r) \/ ChildProgram(r)
  /\ UNCHANGED dispatchVars

\* handleNative starts the goroutine that runs dispatch.
CallArrives(r) == ReadCall(r) /\ D!Begin(r)

\* What handleNative can make of the result of dispatch: a value may still turn
\* out too large to be sent.
ResultsOf(a) == IF a = "value" THEN {"value", "oversize"} ELSE {a}

\* dispatch moves; when it returns, its result goes into the results channel.
DispatchMoves(r) ==
  /\ D!DispatchStep(r)
  /\ IF dpc'[r] \in {"idle", "failed"}
       THEN \E res \in ResultsOf(answer'[r]) : DispatchReturns(r, res)
       ELSE UNCHANGED vars

\* The authorizer or the handler returns, or its goroutine sends.
HostMoves(r) ==
  /\ D!Sends(r) \/ D!HostCode(r)
  /\ UNCHANGED vars

\* Work that an execution left to the host.
AtWork(r) == policy[r] \notin {"none", "ended"} \/ handler[r] \notin {"none", "ended"}

SessionQuiescent ==
  /\ Quiescent
  /\ \A r \in Requests : ~AtWork(r)
  /\ UNCHANGED dispatchVars

SessionNext ==
  \/ \E r \in Requests : RunnerMoves(r) \/ CallArrives(r) \/ DispatchMoves(r) \/ HostMoves(r)
  \/ SessionQuiescent

SessionSpec == SessionInit /\ [][SessionNext]_<<vars, dispatchVars>>

\* The fairness of the runner and of the dispatch.
SessionFairness ==
  \A r \in Requests :
    /\ WF_<<vars, dispatchVars>>(MainStep(r) /\ UNCHANGED dispatchVars)
    /\ WF_<<vars, dispatchVars>>(CallArrives(r) \/ (OtherExchangeStep(r) /\ UNCHANGED dispatchVars))
    /\ WF_<<vars, dispatchVars>>(ChildService(r) /\ UNCHANGED dispatchVars)
    /\ WF_<<vars, dispatchVars>>(pc[r] # "idle" /\ EndContext(r, "deadline") /\ UNCHANGED dispatchVars)
    /\ WF_<<vars, dispatchVars>>(DispatchMoves(r))
    /\ WF_<<vars, dispatchVars>>(D!Sends(r) /\ UNCHANGED vars)

FairSessionSpec == SessionSpec /\ SessionFairness

-----------------------------------------------------------------------------
(* Properties *)

\* While the exchange waits for a frame of the child, no authorizer, handler or
\* dispatch of the session is at work: native calls of one execution never overlap,
\* so host code sees them one after the other. Host code that is still at work when
\* Execute has returned was abandoned for the context, and the caller was told so.
OneCallAtATime ==
  \A r \in Requests :
    /\ exch[r] \in {"writeExec", "read", "finalEOF", "errorEOF"} => ~AtWork(r) /\ dpc[r] = "idle"
    /\ pc[r] = "returned" /\ AtWork(r) => result[r] \in CtxErrors

\* What Execute answers about a call is what happened to it: a denial and a policy
\* failure come from the authorizer and left the handler unrun, a capability
\* failure comes from a handler that was allowed to run, and a value is never
\* answered over an authorizer that did not allow.
AnswersAreTrue ==
  \A r \in Requests :
    /\ result[r] = "PermissionDenied" => said[r] = "ErrDenied" /\ handler[r] = "none"
    /\ result[r] = "PolicyFailure" => said[r] \in {"error", "panic"} /\ handler[r] = "none"
    /\ result[r] = "CapabilityFailure" => said[r] = "nil" /\ handler[r] = "ended"
    /\ result[r] = "value" => said[r] \in {"none", "nil"}

\* Every Execute returns, and then dispatch itself returns too, even when the
\* authorizer and the handler never do.
ExecuteAndDispatchEnd ==
  \A r \in Requests : pc[r] # "idle" ~> pc[r] = "returned" /\ callback[r] # "running"

-----------------------------------------------------------------------------
(* Properties of Dispatch, in the company of the runner *)

\* dispatcher.dispatch starts a handler only on an allow given in a live context.
HandlerNeedsLiveAllow == D!HandlerNeedsLiveAllow

\* dispatcher.dispatch discards what a handler returns after the context ended.
LateOutcomeIsDiscarded == D!LateOutcomeIsDiscarded

\* dispatcher.dispatch answers a denial, an error or a panic of the authorizer with its
\* class, and the handler never runs.
FailsClosed == D!FailsClosed

\* A value is dispatcher.dispatch's answer only when both goroutines have ended.
ValueLeavesNothingRunning == D!ValueLeavesNothingRunning

\* The goroutines of dispatcher.dispatch can always send and end.
NoGoroutineLeaks == D!NoGoroutineLeaks
=============================================================================
