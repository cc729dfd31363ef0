------------------------------ MODULE Dispatch ------------------------------
(***************************************************************************)
(* dispatch.go: dispatcher.dispatch, which the parent runs for one native  *)
(* call of a session at a time.  Three goroutines take part in a call:     *)
(*                                                                         *)
(*   dispatch  looks the capability up, rebinds the arguments, asks the    *)
(*             authorizer, invokes the handler and converts its output,    *)
(*             looking at the request context between these;               *)
(*   policy    runs authorize() and sends its verdict;                     *)
(*   handler   runs invoke() and sends its outcome.                        *)
(*                                                                         *)
(* The authorizer and the handler are host code: each may return anything, *)
(* panic, ignore its context, or never return.  dispatch may give up on    *)
(* both, so their sends must not need a receiver.                          *)
(***************************************************************************)
EXTENDS Naturals

CONSTANT Sessions   \* the executions, each with calls of its own

VARIABLES
  ctx,             \* ctx[r]: the run context of the session
  dpc,             \* dpc[r]: control of the dispatch goroutine
  policy,          \* policy[r]: the policy goroutine, or the verdict it is sending
  policyDone,      \* policyDone[r]: its channel, of capacity 1
  handler,         \* handler[r]: the handler goroutine, or the outcome it is sending
  invocationDone,  \* invocationDone[r]: its channel, of capacity 1
  answer,          \* answer[r]: what dispatch returned, "value" for no error
  said,            \* history: what the authorizer did
  decidedIn,       \* history: the context when it did
  invokedIn        \* history: the context when the handler returned

dvars == <<ctx, dpc, policy, policyDone, handler, invocationDone, answer, said, decidedIn, invokedIn>>

Contexts == {"live", "canceled", "deadline"}
CtxFailures == {"Canceled", "Deadline"}
Verdicts == {"nil", "PermissionDenied", "PolicyFailure"}
Outputs  == {"nil", "Internal", "CapabilityFailure"}
Errors   == CtxFailures \cup Verdicts \cup Outputs \cup {"ErrProtocol", "ResourceLimit"}
Answers  == (Errors \ {"nil"}) \cup {"value"}
DispatchPCs == {"idle", "entry", "lookup", "bound", "policy", "allowed", "launch",
                "handler", "received", "convert", "failed"}

\* dispatch and its goroutines before the first call; ctx is the session's.
DispatchInit ==
  /\ dpc            = [r \in Sessions |-> "idle"]
  /\ policy         = [r \in Sessions |-> "none"]
  /\ policyDone     = [r \in Sessions |-> "empty"]
  /\ handler        = [r \in Sessions |-> "none"]
  /\ invocationDone = [r \in Sessions |-> "empty"]
  /\ answer         = [r \in Sessions |-> "none"]
  /\ said           = [r \in Sessions |-> "none"]
  /\ decidedIn      = [r \in Sessions |-> "none"]
  /\ invokedIn      = [r \in Sessions |-> "none"]

Init == ctx = [r \in Sessions |-> "live"] /\ DispatchInit

-----------------------------------------------------------------------------
(* Helpers *)

ContextFailureMissesDeadline(r) == IF ctx[r] = "canceled" THEN "Canceled" ELSE "nil"
contextFailure(r) ==
  CASE ctx[r] = "canceled" -> "Canceled"
    [] ctx[r] = "deadline" -> "Deadline"
    [] OTHER -> "nil"

\* authorize(): a panic and every error but a denial are policy failures.
AuthorizeIgnoringPanic(raw) ==
  CASE raw \in {"nil", "panic"} -> "nil"
    [] raw = "ErrDenied" -> "PermissionDenied"
    [] OTHER -> "PolicyFailure"
authorize(raw) ==
  CASE raw = "nil" -> "nil"
    [] raw = "ErrDenied" -> "PermissionDenied"
    [] OTHER -> "PolicyFailure"
AuthorizerReturnValues == {"nil", "ErrDenied", "error", "panic"}

\* invoke(): a panic and a mismatched input are internal, any other error is
\* the capability's.
invoke(raw) ==
  CASE raw = "output" -> "nil"
    [] raw \in {"panic", "ErrInputTypeMismatch"} -> "Internal"
    [] OTHER -> "CapabilityFailure"
HandlerReturnValues == {"output", "panic", "ErrInputTypeMismatch", "error"}

\* dispatch returns err.  After a value the session may make another call; after
\* an error it makes none (Session.tla derives this from the runner).
Return(r, err) ==
  /\ answer' = [answer EXCEPT ![r] = IF err = "nil" THEN "value" ELSE err]
  /\ dpc'    = [dpc EXCEPT ![r] = IF err = "nil" THEN "idle" ELSE "failed"]

Go(r, from, to) ==
  /\ dpc[r] = from
  /\ dpc' = [dpc EXCEPT ![r] = to]

\* A look at the context between two stages.
Check(r, from, to) ==
  /\ dpc[r] = from
  /\ IF contextFailure(r) # "nil"
       THEN Return(r, contextFailure(r))
       ELSE Go(r, from, to) /\ UNCHANGED answer

policyVars  == <<policy, policyDone, said, decidedIn>>
handlerVars == <<handler, invocationDone, invokedIn>>

-----------------------------------------------------------------------------
(* The dispatch goroutine.  None of its actions constrains ctx': Session   *)
(* composes them with a runner that owns the context.                      *)

\* handleNative calls dispatch for a new call; its channels are made afresh.
Begin(r) ==
  /\ Go(r, "idle", "entry")
  /\ policy'         = [policy EXCEPT ![r] = "none"]
  /\ policyDone'     = [policyDone EXCEPT ![r] = "empty"]
  /\ handler'        = [handler EXCEPT ![r] = "none"]
  /\ invocationDone' = [invocationDone EXCEPT ![r] = "empty"]
  /\ said'           = [said EXCEPT ![r] = "none"]
  /\ decidedIn'      = [decidedIn EXCEPT ![r] = "none"]
  /\ invokedIn'      = [invokedIn EXCEPT ![r] = "none"]
  /\ answer'         = [answer EXCEPT ![r] = "none"]

\* The first look at the context.
CheckEntry(r) == Check(r, "entry", "lookup") /\ UNCHANGED <<policyVars, handlerVars>>

\* LookupID and BindValue: an unknown ID or a call that does not bind.
Reject(r) ==
  /\ dpc[r] = "lookup"
  /\ Return(r, "ErrProtocol")
  /\ UNCHANGED <<policyVars, handlerVars>>

Resolve(r) ==
  /\ Go(r, "lookup", "bound")
  /\ UNCHANGED <<policyVars, handlerVars, answer>>

\* The second look; the policy goroutine is started.
CheckBound(r) ==
  /\ Check(r, "bound", "policy")
  /\ policy' = [policy EXCEPT ![r] = IF contextFailure(r) = "nil" THEN "running" ELSE @]
  /\ UNCHANGED <<policyDone, said, decidedIn, handlerVars>>

\* The select on the policy's channel takes the context case.
PolicyEnded(r) ==
  /\ dpc[r] = "policy"
  /\ ctx[r] # "live"
  /\ Return(r, contextFailure(r))
  /\ UNCHANGED <<policyVars, handlerVars>>

\* The select takes the verdict: an error is returned as it is.
PolicyDecided(r) ==
  /\ dpc[r] = "policy"
  /\ policyDone[r] # "empty"
  /\ policyDone' = [policyDone EXCEPT ![r] = "empty"]
  /\ IF policyDone[r] # "nil"
       THEN Return(r, policyDone[r])
       ELSE Go(r, "policy", "allowed") /\ UNCHANGED answer
  /\ UNCHANGED <<policy, said, decidedIn, handlerVars>>

\* The third look, after an allow.
SkipCheckAllowed(r) == Go(r, "allowed", "launch") /\ UNCHANGED <<answer, policyVars, handlerVars>>
CheckAllowed(r) == Check(r, "allowed", "launch") /\ UNCHANGED <<policyVars, handlerVars>>

\* The handler goroutine is started.
Launch(r) ==
  /\ Go(r, "launch", "handler")
  /\ handler' = [handler EXCEPT ![r] = "running"]
  /\ UNCHANGED <<policyVars, invocationDone, invokedIn, answer>>

\* The select on the handler's channel takes the context case.
HandlerIsAwaited(r) == FALSE
HandlerEnded(r) ==
  /\ dpc[r] = "handler"
  /\ ctx[r] # "live"
  /\ Return(r, contextFailure(r))
  /\ UNCHANGED <<policyVars, handlerVars>>

\* The select takes the outcome, which invocationDone goes on to stand for.
HandlerDone(r) ==
  /\ Go(r, "handler", "received")
  /\ invocationDone[r] # "empty"
  /\ UNCHANGED <<policyVars, handlerVars, answer>>

\* The last look, which comes before the handler's own error.
HandlerErrorFirst(r) ==
  /\ IF invocationDone[r] # "nil"
       THEN dpc[r] = "received" /\ Return(r, invocationDone[r])
       ELSE Check(r, "received", "convert")
  /\ UNCHANGED <<policyVars, handlerVars>>
CheckReceived(r) ==
  /\ dpc[r] = "received"
  /\ CASE contextFailure(r) # "nil" -> Return(r, contextFailure(r))
       [] contextFailure(r) = "nil" /\ invocationDone[r] # "nil" -> Return(r, invocationDone[r])
       [] OTHER -> Go(r, "received", "convert") /\ UNCHANGED answer
  /\ UNCHANGED <<policyVars, handlerVars>>

\* ConvertOutput: the value, or a value beyond its limits, or an unsupported one.
Convert(r) ==
  /\ dpc[r] = "convert"
  /\ \E err \in {"nil", "ResourceLimit", "CapabilityFailure"} : Return(r, err)
  /\ UNCHANGED <<policyVars, handlerVars>>

-----------------------------------------------------------------------------
(* The goroutines that run host code *)

\* The authorizer returns or panics; authorize classifies.
AuthorizerReturns(r, raw) ==
  /\ policy[r] = "running"
  /\ policy'    = [policy EXCEPT ![r] = authorize(raw)]
  /\ said'      = [said EXCEPT ![r] = raw]
  /\ decidedIn' = [decidedIn EXCEPT ![r] = ctx[r]]
  /\ UNCHANGED <<dpc, policyDone, handlerVars, answer>>

UnbufferedPolicy(r) == dpc[r] = "policy"
CanSendVerdict(r) == policyDone[r] = "empty"

\* The send into the buffered channel.
SendVerdict(r) ==
  /\ policy[r] \in Verdicts
  /\ CanSendVerdict(r)
  /\ policyDone' = [policyDone EXCEPT ![r] = policy[r]]
  /\ policy'     = [policy EXCEPT ![r] = "ended"]
  /\ UNCHANGED <<dpc, said, decidedIn, handlerVars, answer>>

\* The handler returns or panics; invoke classifies.
HandlerReturns(r, raw) ==
  /\ handler[r] = "running"
  /\ handler'   = [handler EXCEPT ![r] = invoke(raw)]
  /\ invokedIn' = [invokedIn EXCEPT ![r] = ctx[r]]
  /\ UNCHANGED <<dpc, policyVars, invocationDone, answer>>

SendOutcome(r) ==
  /\ handler[r] \in Outputs
  /\ invocationDone[r] = "empty"
  /\ invocationDone' = [invocationDone EXCEPT ![r] = handler[r]]
  /\ handler'        = [handler EXCEPT ![r] = "ended"]
  /\ UNCHANGED <<dpc, policyVars, invokedIn, answer>>

-----------------------------------------------------------------------------
\* The steps of dispatch within a call, and those of its goroutines.
DispatchStep(r) ==
  \/ CheckEntry(r) \/ Reject(r) \/ Resolve(r) \/ CheckBound(r)
  \/ PolicyEnded(r) \/ PolicyDecided(r) \/ CheckAllowed(r) \/ Launch(r)
  \/ HandlerEnded(r) \/ HandlerDone(r) \/ CheckReceived(r) \/ Convert(r)

Sends(r) == SendVerdict(r) \/ SendOutcome(r)

HostCode(r) ==
  \/ \E raw \in AuthorizerReturnValues : AuthorizerReturns(r, raw)
  \/ \E raw \in HandlerReturnValues : HandlerReturns(r, raw)

\* The request context ends, at any time.
EndContext(r, why) ==
  /\ ctx[r] = "live"
  /\ ctx' = [ctx EXCEPT ![r] = why]
  /\ UNCHANGED <<dpc, policyVars, handlerVars, answer>>

\* The session is over: its last call failed and no goroutine is left.
Quiescent(r) ==
  /\ dpc[r] = "failed"
  /\ policy[r] \in {"none", "ended"} /\ handler[r] \in {"none", "ended"}
  /\ UNCHANGED dvars

Next ==
  \E r \in Sessions :
    \/ (Begin(r) \/ DispatchStep(r) \/ Sends(r) \/ HostCode(r)) /\ UNCHANGED ctx
    \/ EndContext(r, "canceled") \/ EndContext(r, "deadline")
    \/ Quiescent(r)

Spec == Init /\ [][Next]_dvars

-----------------------------------------------------------------------------
(* Properties *)

\* Type correctness.
TypeOK ==
  /\ ctx            \in [Sessions -> Contexts]
  /\ dpc            \in [Sessions -> DispatchPCs]
  /\ policy         \in [Sessions -> {"none", "running", "ended"} \cup Verdicts]
  /\ policyDone     \in [Sessions -> {"empty"} \cup Verdicts]
  /\ handler        \in [Sessions -> {"none", "running", "ended"} \cup Outputs]
  /\ invocationDone \in [Sessions -> {"empty"} \cup Outputs]
  /\ answer         \in [Sessions -> {"none"} \cup Answers]
  /\ said           \in [Sessions -> {"none"} \cup AuthorizerReturnValues]
  /\ decidedIn      \in [Sessions -> {"none"} \cup Contexts]
  /\ invokedIn      \in [Sessions -> {"none"} \cup Contexts]

\* An allow that comes after cancellation or the deadline starts nothing, although
\* the select may prefer it to the context: a handler runs only for a call whose
\* authorizer had returned nil while the context was still live.
HandlerNeedsLiveAllow ==
  \A r \in Sessions : handler[r] # "none" => said[r] = "nil" /\ decidedIn[r] = "live"

\* What a handler returned after the context had ended is never the answer:
\* neither its output nor its error.
LateOutcomeIsDiscarded ==
  \A r \in Sessions :
    invokedIn[r] \notin {"none", "live"} => answer[r] \in CtxFailures \cup {"none"}

\* Denials, errors and panics of the authorizer fail closed: the handler of such a
\* call never runs and the call is answered with a policy class or the error of
\* the context.
FailsClosed ==
  \A r \in Sessions :
    said[r] \notin {"none", "nil"} =>
      /\ handler[r] = "none"
      /\ answer[r] \in {"none", IF said[r] = "ErrDenied" THEN "PermissionDenied" ELSE "PolicyFailure"}
                       \cup CtxFailures

\* When a call returned a value, neither of its goroutines is left: the next call
\* of the session never overlaps this one.
ValueLeavesNothingRunning ==
  \A r \in Sessions :
    answer[r] = "value" => policy[r] = "ended" /\ handler[r] = "ended"

\* A goroutine whose authorizer or handler has returned ends, although dispatch
\* may have given up on it: the send needs no receiver.
NoGoroutineLeaks ==
  \A r \in Sessions :
    /\ policy[r] \in Verdicts ~> policy[r] \notin Verdicts
    /\ handler[r] \in Outputs ~> handler[r] \notin Outputs
=============================================================================
