-------------------------- MODULE ErrorProjection ---------------------------
(***************************************************************************)
(* What becomes of an error on its way out: from the evaluator through the *)
(* final_error frame, or from the host's authorizer and handler through    *)
(* the dispatcher, to the runner; from there to Server.Execute and to the  *)
(* MCP tool.                                                               *)
(*                                                                         *)
(* A Go error is the set of sentinels that errors.Is finds in its chain    *)
(* and the detail that execution.SafeDetail finds in it.  Host code may    *)
(* wrap what it likes: context errors of its own calls, public sentinels   *)
(* and, when it runs programs itself, the detail of another execution.     *)
(***************************************************************************)
EXTENDS Naturals, Sequences, SequencesExt

CONSTANT NestedExecutions   \* whether host code passes on errors of other executions

ASSUME NestedAssumption == NestedExecutions \in BOOLEAN

X(class) == <<"execution", class>>    \* sentinels of internal/execution
Pub(class) == <<"codemode", class>>   \* the public ones
Ctx(kind) == <<"context", kind>>      \* Canceled and DeadlineExceeded

Bare(sentinel) == [is |-> {sentinel}, detail |-> "none"]

\* fmt.Errorf("%w: %w", sentinel, err): the whole chain stays reachable.
Wrap(sentinel, err) == [err EXCEPT !.is = @ \cup {sentinel}]

\* Errors that host code can hold.
HostErrors ==
  [is : SUBSET {Ctx("Canceled"), Ctx("DeadlineExceeded"), Pub("ResourceLimit"), Pub("InvalidProgram"),
                Pub("PermissionDenied"), Pub("Internal")},
   detail : IF NestedExecutions THEN {"none", "foreign"} ELSE {"none"}]

VARIABLES
  stage,    \* how far the error has come: "idle", "engine", "runner", "root", "tool"
  err,      \* the error there
  origin    \* history: the class of what happened and the detail it discloses

vars == <<stage, err, origin>>

NoError == [is |-> {}, detail |-> "none"]

Init == stage = "idle" /\ err = NoError /\ origin = [class |-> "none", disclosed |-> "none"]

Raise(at, e, class, disclosed) ==
  /\ stage = "idle" /\ stage' = at /\ err' = e
  /\ origin' = [class |-> class, disclosed |-> disclosed]

\* The first sentinel of a switch that the error matches.
FirstMatch(order, e) == SelectInSeq(order, LAMBDA s : s \in e.is)

-----------------------------------------------------------------------------
(* The program, in the worker process *)

\* classifyRuntimeError on the cause of an evaluator error: the step limit goes
\* before everything, a parse error before the cause.
RuntimeOrder ==
  <<X("InvalidArguments"), X("PermissionDenied"), X("PolicyFailure"), X("ResourceLimit"),
    X("CapabilityFailure"), X("Internal"), X("InvalidProgram")>>
classifyRuntimeError(stepLimited, parse, cause) ==
  LET i == FirstMatch(RuntimeOrder, cause)
      keepsDetail == {X("InvalidArguments"), X("CapabilityFailure"), X("InvalidProgram")}
  IN CASE stepLimited -> Bare(X("ResourceLimit"))
       [] ~stepLimited /\ parse -> [is |-> {X("InvalidProgram")}, detail |-> "program"]
       [] ~stepLimited /\ ~parse /\ i = 0 -> Bare(X("InvalidProgram"))
       [] ~stepLimited /\ ~parse /\ i # 0 ->
            [is |-> {RuntimeOrder[i]},
             detail |-> IF RuntimeOrder[i] \in keepsDetail THEN cause.detail ELSE "none"]

\* What a program's own failure can be: a Starlark error, arguments that do not bind
\* (with the binding's words where they have the expected prefix), a value or a call
\* over a limit, a recovered panic.
Causes ==
  {NoError, Bare(X("InvalidArguments")), [is |-> {X("InvalidArguments")}, detail |-> "argument"],
   Bare(X("ResourceLimit")), Bare(X("Internal"))}

\* The class is that of the cause, unless the steps ran out.
ProgramFails(stepLimited, parse, cause) ==
  LET class == IF stepLimited THEN "ResourceLimit"
               ELSE IF parse \/ cause.is = {} THEN "InvalidProgram"
               ELSE CHOOSE c \in {"InvalidArguments", "ResourceLimit", "Internal"} : X(c) \in cause.is
  IN /\ parse => cause = NoError
     /\ Raise("engine", classifyRuntimeError(stepLimited, parse, cause), class,
              IF stepLimited THEN "none" ELSE IF parse THEN "program" ELSE cause.detail)

\* finalErrorFrom with approvedSafeDetail: the code of the frame and its detail.
FrameOrder == <<X("InvalidProgram"), X("InvalidArguments"), X("ResourceLimit")>>
finalErrorFrom(e) ==
  LET i == FirstMatch(FrameOrder, e)
  IN [code |-> IF i = 0 THEN "Internal" ELSE FrameOrder[i][2],
      detail |-> IF i \in {1, 2} THEN e.detail ELSE "none"]

\* mapFinalError in the parent.
mapFinalError(frame) == [is |-> {X(frame.code)}, detail |-> frame.detail]

FinalErrorArrives ==
  /\ stage = "engine" /\ stage' = "runner"
  /\ err' = mapFinalError(finalErrorFrom(err))
  /\ UNCHANGED origin

-----------------------------------------------------------------------------
(* Host code, in the parent; the runner keeps the dispatcher's error *)

\* authorize, for an authorizer that does not allow.
authorize(denies, panics, e) ==
  IF panics THEN Bare(X("PolicyFailure"))
  ELSE Wrap(IF denies THEN X("PermissionDenied") ELSE X("PolicyFailure"), e)

PolicyFails(denies, panics, e) ==
  Raise("runner", authorize(denies, panics, e),
        IF denies /\ ~panics THEN "PermissionDenied" ELSE "PolicyFailure", "none")

\* The Rego authorizer: only false is a denial; a context that has ended, an
\* evaluation error, an undefined or a non-Boolean decision are errors.
RegoAuthorize(decision) ==
  [denies |-> decision = "false",
   error  |-> IF decision = "contextEnded" THEN Bare(Ctx("Canceled")) ELSE NoError]

RegoRefuses(decision) ==
  Raise("runner", authorize(RegoAuthorize(decision).denies, FALSE, RegoAuthorize(decision).error),
        IF decision = "false" THEN "PermissionDenied" ELSE "PolicyFailure", "none")

\* invoke: of an AgentError only its message is kept, of any other error everything.
AgentErrors == {"absent", "empty", "message"}
DetailDisclosed(h, agent) == [is |-> {X("CapabilityFailure")}, detail |-> "hostText"]
invoke(h, agent) ==
  CASE agent = "message" -> [is |-> {X("CapabilityFailure")}, detail |-> "agent"]
    [] agent = "empty"   -> Bare(X("CapabilityFailure"))
    [] agent = "absent"  -> Wrap(X("CapabilityFailure"), h)

HandlerFails(h, agent) ==
  Raise("runner", invoke(h, agent), "CapabilityFailure", IF agent = "message" THEN "agent" ELSE "none")

\* A panic of the handler, an input of the wrong type, a violation of the protocol.
BoundaryFails == Raise("runner", Bare(X("Internal")), "Internal", "none")

\* ConvertOutput refuses what the handler returned.
ConversionFails(class) ==
  class \in {"ResourceLimit", "CapabilityFailure"} /\ Raise("runner", Bare(X(class)), class, "none")

\* The run context ended: contextFailure and classifyRunContext agree.
ContextEnds(kind) ==
  Raise("runner",
        IF kind = "Canceled" THEN Bare(Ctx(kind)) ELSE Wrap(X("ResourceLimit"), Bare(Ctx(kind))),
        IF kind = "Canceled" THEN "Canceled" ELSE "ResourceLimit", "none")

-----------------------------------------------------------------------------
(* Server.Execute *)

\* projectExecutionError: classes before context errors, so that a context error
\* wrapped by host code does not speak for the request.
Detailed == <<"InvalidProgram", "InvalidArguments", "CapabilityFailure">>
RootOrder ==
  <<X("InvalidProgram"), X("InvalidArguments"), X("PermissionDenied"), X("PolicyFailure"), X("ResourceLimit"),
    X("CapabilityFailure"), X("Internal"), Ctx("Canceled"), Ctx("DeadlineExceeded")>>

Deadline == [is |-> {Pub("ResourceLimit"), Ctx("DeadlineExceeded")}, detail |-> "none"]

\* Both projections keep a detail with the first of three classes, that of the
\* package pkg; without such a class they are coarse.
DetailClass(e, pkg) ==
  IF e.detail = "none" THEN 0 ELSE SelectInSeq(Detailed, LAMBDA c : <<pkg, c>> \in e.is)

Rewrapped(e, pkg) == [is |-> {Pub(Detailed[DetailClass(e, pkg)])}, detail |-> e.detail]

RootClass(e) ==
  LET i == FirstMatch(RootOrder, e)
  IN IF i = 0 THEN Bare(Pub("Internal"))
     ELSE IF RootOrder[i] = Ctx("Canceled") THEN Bare(Ctx("Canceled"))
     ELSE IF RootOrder[i] \in {X("ResourceLimit"), Ctx("DeadlineExceeded")} /\ Ctx("DeadlineExceeded") \in e.is
       THEN Deadline
     ELSE Bare(Pub(RootOrder[i][2]))

ContextFirst(e) == IF Ctx("Canceled") \in e.is THEN Bare(Ctx("Canceled")) ELSE RootClass(e)
projectExecutionError(e) ==
  IF DetailClass(e, "execution") # 0 THEN Rewrapped(e, "execution") ELSE RootClass(e)

Execute ==
  /\ stage = "runner" /\ stage' = "root"
  /\ err' = projectExecutionError(err)
  /\ UNCHANGED origin

\* Refused before there is an execution, or answered by Search and Describe.
Answers(class) == Raise("root", Bare(Pub(class)), class, "none")

-----------------------------------------------------------------------------
(* The MCP adapter *)

\* projectToolError; a bare context error is passed on as such.
ToolOrder ==
  <<Pub("ResourceLimit"), Ctx("Canceled"), Ctx("DeadlineExceeded"), Pub("Unauthenticated"),
    Pub("NotFound"), Pub("InvalidProgram"), Pub("InvalidArguments"), Pub("PermissionDenied"),
    Pub("PolicyFailure"), Pub("CapabilityFailure")>>
ToolClass(e) ==
  LET i == FirstMatch(ToolOrder, e)
  IN Bare(IF i = 0 THEN Pub("Internal") ELSE ToolOrder[i])

projectToolError(e) ==
  IF DetailClass(e, "codemode") # 0 THEN Rewrapped(e, "codemode") ELSE ToolClass(e)

RunToolOperation ==
  /\ stage = "root" /\ stage' = "tool"
  /\ err' = projectToolError(err)
  /\ UNCHANGED origin

\* resolveSubject: the resolver fails, or returns an empty subject.
ResolverFails(e) == Raise("tool", projectToolError(Bare(Pub("Unauthenticated"))), "Unauthenticated", "none")

\* A panic of the resolver or of the service.
AdapterPanics == Raise("tool", projectToolError(Bare(Pub("Internal"))), "Internal", "none")

Done == stage = "tool" /\ UNCHANGED vars

Next ==
  \/ \E stepLimited, parse \in BOOLEAN, cause \in Causes : ProgramFails(stepLimited, parse, cause)
  \/ FinalErrorArrives
  \/ \E denies, panics \in BOOLEAN, e \in HostErrors : PolicyFails(denies, panics, e)
  \/ \E decision \in {"contextEnded", "evaluationError", "undefined", "nonBoolean", "false"} : RegoRefuses(decision)
  \/ \E h \in HostErrors, agent \in AgentErrors : HandlerFails(h, agent)
  \/ BoundaryFails
  \/ \E class \in {"ResourceLimit", "CapabilityFailure"} : ConversionFails(class)
  \/ \E kind \in {"Canceled", "DeadlineExceeded"} : ContextEnds(kind)
  \/ Execute
  \/ \E class \in {"Unauthenticated", "NotFound", "ResourceLimit", "Internal"} : Answers(class)
  \/ RunToolOperation
  \/ \E e \in HostErrors : ResolverFails(e)
  \/ AdapterPanics
  \/ Done

Spec == Init /\ [][Next]_vars

-----------------------------------------------------------------------------
(* Properties *)

Public == stage \in {"root", "tool"}

SentinelOf(class) == IF class = "Canceled" THEN Ctx("Canceled") ELSE Pub(class)

\* Execute and the MCP tool report exactly the class of what happened (the table of
\* the public API), whatever the host's errors wrap: no other class, context error
\* or trusted cause is reachable in a public error, except the deadline behind a
\* resource limit of Execute.
ExactlyItsClass ==
  Public => \/ err.is = {SentinelOf(origin.class)}
            \/ stage = "root" /\ origin.class = "ResourceLimit" /\ err.is = Deadline.is

\* A detail reaches the agent only if the program's own text or an AgentError
\* disclosed it.
DetailIsDisclosed == Public => err.detail \in {"none", origin.disclosed}
=============================================================================
