--------------------------- MODULE DispatchProofs ---------------------------
(***************************************************************************)
(* Proofs about Dispatch, for every set of sessions.                       *)
(***************************************************************************)
EXTENDS Dispatch, TLAPS

(***************************************************************************)
(* The inductive invariant.  It says what each control point of dispatch   *)
(* knows of the two goroutines it started, and that a context, once ended, *)
(* stays ended, so that a look at it also speaks for earlier moments.      *)
(***************************************************************************)

\* What the verdict's way from the authorizer to dispatch preserves.
PolicyInv(r) ==
  /\ said[r] = "none" <=> policy[r] \in {"none", "running"}
  /\ decidedIn[r] = "none" <=> said[r] = "none"
  /\ decidedIn[r] \notin {"none", "live"} => ctx[r] # "live"
  /\ policy[r] \in Verdicts => policy[r] = authorize(said[r]) /\ policyDone[r] = "empty"
  /\ policyDone[r] # "empty" => policy[r] = "ended" /\ policyDone[r] = authorize(said[r])

\* The same for the outcome of the handler.
OutcomeInv(r) ==
  /\ invokedIn[r] = "none" <=> handler[r] \in {"none", "running"}
  /\ invokedIn[r] \notin {"none", "live"} => ctx[r] # "live"
  /\ handler[r] \in Outputs => invocationDone[r] = "empty"
  /\ invocationDone[r] # "empty" => handler[r] = "ended"

\* A handler exists only for a live allow.
AllowInv(r) ==
  handler[r] # "none" => said[r] = "nil" /\ decidedIn[r] = "live" /\ policy[r] = "ended"

\* What each control point of dispatch knows.
ControlInv(r) ==
  /\ dpc[r] \in {"entry", "lookup", "bound"} => policy[r] = "none" /\ handler[r] = "none"
  /\ dpc[r] = "policy" => policy[r] # "none" /\ handler[r] = "none"
  /\ dpc[r] \in {"allowed", "launch"} => policy[r] = "ended" /\ said[r] = "nil" /\ handler[r] = "none"
  /\ dpc[r] = "launch" => decidedIn[r] = "live"
  /\ dpc[r] \in {"handler", "received", "convert"} => handler[r] # "none"
  /\ dpc[r] \in {"received", "convert"} => invocationDone[r] # "empty"
  /\ dpc[r] = "convert" => invokedIn[r] = "live"

\* What the answer says of the call.
AnswerInv(r) ==
  /\ dpc[r] \notin {"idle", "failed"} => answer[r] = "none"
  /\ dpc[r] = "failed" => answer[r] \notin {"none", "value"}
  /\ dpc[r] = "idle" => answer[r] \in {"none", "value"}
  /\ dpc[r] = "idle" /\ answer[r] = "none" => policy[r] = "none" /\ handler[r] = "none"
  /\ answer[r] = "value" => policy[r] = "ended" /\ handler[r] = "ended" /\ invokedIn[r] = "live"
  /\ dpc[r] = "failed" /\ (policy[r] \notin {"none", "ended"} \/ handler[r] \notin {"none", "ended"})
       => answer[r] \in CtxFailures
  /\ answer[r] \in {"PermissionDenied", "PolicyFailure"} =>
       said[r] # "none" /\ answer[r] = authorize(said[r]) /\ handler[r] = "none"
  /\ answer[r] = "CapabilityFailure" => handler[r] = "ended"
  /\ dpc[r] = "failed" /\ said[r] \notin {"none", "nil"}
       => answer[r] \in CtxFailures \cup {authorize(said[r])}
  /\ dpc[r] = "failed" /\ invokedIn[r] \notin {"none", "live"} => answer[r] \in CtxFailures

SessionInv(r) == PolicyInv(r) /\ OutcomeInv(r) /\ AllowInv(r) /\ ControlInv(r) /\ AnswerInv(r)

DInv == TypeOK /\ \A r \in Sessions : SessionInv(r)

USE DEF Contexts, CtxFailures, Verdicts, Outputs, Errors, Answers, DispatchPCs,
        AuthorizerReturnValues, HandlerReturnValues, policyVars, handlerVars, dvars

\* One step of the goroutines of session r, or of its context.
Step(r) ==
  \/ (Begin(r) \/ DispatchStep(r) \/ Sends(r) \/ HostCode(r)) /\ UNCHANGED ctx
  \/ EndContext(r, "canceled") \/ EndContext(r, "deadline")

\* A context failure is nil exactly while the context is live.
LEMMA ContextFailureType ==
  ASSUME TypeOK, NEW r \in Sessions
  PROVE  /\ ctx[r] = "live" => contextFailure(r) = "nil"
         /\ ctx[r] # "live" => contextFailure(r) \in CtxFailures
BY DEF TypeOK, contextFailure

\* A step of one session leaves every other session alone.
LEMMA Frame ==
  ASSUME TypeOK, NEW r \in Sessions, Step(r), NEW q \in Sessions, q # r
  PROVE  /\ ctx'[q] = ctx[q] /\ dpc'[q] = dpc[q] /\ answer'[q] = answer[q]
         /\ policy'[q] = policy[q] /\ policyDone'[q] = policyDone[q]
         /\ handler'[q] = handler[q] /\ invocationDone'[q] = invocationDone[q]
         /\ said'[q] = said[q] /\ decidedIn'[q] = decidedIn[q] /\ invokedIn'[q] = invokedIn[q]
<1> USE DEF TypeOK, Return, Go, Check
<1>1. CASE Begin(r) /\ UNCHANGED ctx
  BY <1>1 DEF Begin
<1>2. CASE DispatchStep(r) /\ UNCHANGED ctx
  BY <1>2 DEF DispatchStep, CheckEntry, Reject, Resolve, CheckBound, PolicyEnded, PolicyDecided,
     CheckAllowed, Launch, HandlerEnded, HandlerDone, CheckReceived, Convert
<1>3. CASE (Sends(r) \/ HostCode(r)) /\ UNCHANGED ctx
  BY <1>3 DEF Sends, SendVerdict, SendOutcome, HostCode, AuthorizerReturns, HandlerReturns
<1>4. CASE EndContext(r, "canceled") \/ EndContext(r, "deadline")
  BY <1>4 DEF EndContext
<1> QED
  BY <1>1, <1>2, <1>3, <1>4 DEF Step

\* Every step keeps every variable within its type.
LEMMA TypeStep ==
  ASSUME TypeOK, NEW r \in Sessions, SessionInv(r), Step(r)
  PROVE  TypeOK'
<1>1. CASE Begin(r) /\ UNCHANGED ctx
  BY <1>1 DEF TypeOK, Begin, Go
<1>2. CASE DispatchStep(r) /\ UNCHANGED ctx
  <2> USE ContextFailureType DEF TypeOK, Return, Go, Check
  <2>1. CASE CheckEntry(r) \/ Reject(r) \/ Resolve(r)
    BY <1>2, <2>1 DEF CheckEntry, Reject, Resolve
  <2>2. CASE CheckBound(r)
    BY <1>2, <2>2 DEF CheckBound
  <2>3. CASE PolicyEnded(r) \/ PolicyDecided(r)
    BY <1>2, <2>3 DEF PolicyEnded, PolicyDecided
  <2>4. CASE CheckAllowed(r) \/ Launch(r)
    BY <1>2, <2>4 DEF CheckAllowed, Launch
  <2>5. CASE HandlerEnded(r) \/ HandlerDone(r)
    BY <1>2, <2>5 DEF HandlerEnded, HandlerDone
  <2>6. CASE CheckReceived(r)
    BY <1>2, <2>6 DEF CheckReceived, SessionInv, ControlInv
  <2>7. CASE Convert(r)
    BY <1>2, <2>7 DEF Convert
  <2> QED
    BY <1>2, <2>1, <2>2, <2>3, <2>4, <2>5, <2>6, <2>7 DEF DispatchStep
<1>3. CASE (Sends(r) \/ HostCode(r)) /\ UNCHANGED ctx
  BY <1>3 DEF TypeOK, Sends, SendVerdict, SendOutcome, HostCode, AuthorizerReturns, HandlerReturns,
     authorize, invoke
<1>4. CASE EndContext(r, "canceled") \/ EndContext(r, "deadline")
  BY <1>4 DEF TypeOK, EndContext
<1> QED
  BY <1>1, <1>2, <1>3, <1>4 DEF Step

\* Every step of a session preserves what its control points know.
LEMMA SessionStep ==
  ASSUME TypeOK, NEW r \in Sessions, SessionInv(r), Step(r)
  PROVE  SessionInv(r)'
<1> USE DEF SessionInv, PolicyInv, OutcomeInv, AllowInv, ControlInv, AnswerInv
<1>1. CASE Begin(r) /\ UNCHANGED ctx
  BY <1>1 DEF TypeOK, Begin, Go
<1>2. CASE DispatchStep(r) /\ UNCHANGED ctx
  <2> USE ContextFailureType DEF TypeOK, Return, Go, Check, authorize
  <2>1. CASE CheckEntry(r) \/ Reject(r) \/ Resolve(r)
    BY <1>2, <2>1 DEF CheckEntry, Reject, Resolve
  <2>2. CASE CheckBound(r)
    BY <1>2, <2>2 DEF CheckBound
  <2>3. CASE PolicyEnded(r)
    BY <1>2, <2>3 DEF PolicyEnded
  <2>4. CASE PolicyDecided(r)
    BY <1>2, <2>4 DEF PolicyDecided
  <2>5. CASE CheckAllowed(r) \/ Launch(r)
    BY <1>2, <2>5 DEF CheckAllowed, Launch
  <2>6. CASE HandlerEnded(r) \/ HandlerDone(r)
    BY <1>2, <2>6 DEF HandlerEnded, HandlerDone
  <2>7. CASE CheckReceived(r)
    BY <1>2, <2>7 DEF CheckReceived
  <2>8. CASE Convert(r)
    BY <1>2, <2>8 DEF Convert
  <2> QED
    BY <1>2, <2>1, <2>2, <2>3, <2>4, <2>5, <2>6, <2>7, <2>8 DEF DispatchStep
<1>3. CASE (Sends(r) \/ HostCode(r)) /\ UNCHANGED ctx
  <2>1. CASE SendVerdict(r)
    BY <1>3, <2>1 DEF SendVerdict, CanSendVerdict, TypeOK
  <2>2. CASE SendOutcome(r)
    BY <1>3, <2>2 DEF SendOutcome, TypeOK
  <2>3. CASE \E raw \in AuthorizerReturnValues : AuthorizerReturns(r, raw)
    BY <1>3, <2>3 DEF AuthorizerReturns, authorize, TypeOK
  <2>4. CASE \E raw \in HandlerReturnValues : HandlerReturns(r, raw)
    BY <1>3, <2>4 DEF HandlerReturns, invoke, TypeOK
  <2> QED
    BY <1>3, <2>1, <2>2, <2>3, <2>4 DEF Sends, HostCode
<1>4. CASE EndContext(r, "canceled") \/ EndContext(r, "deadline")
  BY <1>4 DEF EndContext, TypeOK
<1> QED
  BY <1>1, <1>2, <1>3, <1>4 DEF Step

\* The invariant holds initially.
LEMMA InitInv == Init => DInv
BY DEF Init, DispatchInit, DInv, TypeOK, SessionInv, PolicyInv, OutcomeInv, AllowInv, ControlInv, AnswerInv

\* A session that does not move keeps its invariant.
LEMMA StillInv ==
  ASSUME NEW q \in Sessions, SessionInv(q),
         ctx'[q] = ctx[q], dpc'[q] = dpc[q], answer'[q] = answer[q],
         policy'[q] = policy[q], policyDone'[q] = policyDone[q],
         handler'[q] = handler[q], invocationDone'[q] = invocationDone[q],
         said'[q] = said[q], decidedIn'[q] = decidedIn[q], invokedIn'[q] = invokedIn[q]
  PROVE  SessionInv(q)'
BY DEF SessionInv, PolicyInv, OutcomeInv, AllowInv, ControlInv, AnswerInv

\* The invariant is inductive.
LEMMA NextInv == DInv /\ [Next]_dvars => DInv'
<1> SUFFICES ASSUME DInv, [Next]_dvars PROVE DInv'
  OBVIOUS
<1>1. CASE \E r \in Sessions : Step(r)
  <2>1. PICK r \in Sessions : Step(r)
    BY <1>1
  <2>2. TypeOK' /\ SessionInv(r)'
    BY <2>1, TypeStep, SessionStep DEF DInv
  <2>3. \A q \in Sessions : q # r => SessionInv(q)'
    BY <2>1, Frame, StillInv DEF DInv
  <2> QED
    BY <2>2, <2>3 DEF DInv
<1>2. CASE UNCHANGED dvars
  <2>1. \A q \in Sessions : SessionInv(q)'
    BY <1>2, StillInv DEF DInv
  <2>2. TypeOK'
    BY <1>2 DEF DInv, TypeOK
  <2> QED
    BY <2>1, <2>2 DEF DInv
<1> QED
  BY <1>1, <1>2 DEF Next, Step, Quiescent

\* The invariant of dispatch holds throughout.
THEOREM DispatchInvariance == Spec => []DInv
BY InitInv, NextInv, PTL DEF Spec

\* However cancellation races with the authorizer, no handler runs unless its
\* authorizer returned nil while the context was live.
LEMMA InvLiveAllow == DInv => HandlerNeedsLiveAllow
BY DEF DInv, SessionInv, AllowInv, HandlerNeedsLiveAllow

\* A denial, an error or a panic of the authorizer never reaches the handler and
\* is answered as what it was, or as the context's error.
LEMMA InvFailsClosed == DInv => FailsClosed
<1> SUFFICES ASSUME DInv, NEW r \in Sessions, said[r] \notin {"none", "nil"}
             PROVE  /\ handler[r] = "none"
                    /\ answer[r] \in {"none", IF said[r] = "ErrDenied" THEN "PermissionDenied"
                                              ELSE "PolicyFailure"} \cup CtxFailures
  BY DEF FailsClosed
<1>1. handler[r] = "none"
  BY DEF DInv, SessionInv, AllowInv
<1>2. answer[r] # "value"
  BY <1>1 DEF DInv, SessionInv, AnswerInv
<1>3. CASE dpc[r] = "failed"
  <2>1. answer[r] \in CtxFailures \cup {authorize(said[r])}
    BY <1>3 DEF DInv, SessionInv, AnswerInv
  <2>2. said[r] = "ErrDenied" => authorize(said[r]) = "PermissionDenied"
    BY DEF authorize
  <2>3. said[r] # "ErrDenied" => authorize(said[r]) = "PolicyFailure"
    BY DEF authorize
  <2> QED
    BY <1>1, <2>1, <2>2, <2>3
<1>4. CASE dpc[r] # "failed"
  BY <1>1, <1>2, <1>4 DEF DInv, SessionInv, AnswerInv
<1> QED
  BY <1>3, <1>4

\* Whatever a handler returned after the context ended, dispatch answers with the
\* context's error.
LEMMA InvLateOutcome == DInv => LateOutcomeIsDiscarded
BY DEF DInv, SessionInv, AnswerInv, LateOutcomeIsDiscarded

\* A call that returned a value has no goroutine left, so the calls of a session
\* never overlap.
LEMMA InvValueIsComplete == DInv => ValueLeavesNothingRunning
BY DEF DInv, SessionInv, AnswerInv, ValueLeavesNothingRunning
=============================================================================
