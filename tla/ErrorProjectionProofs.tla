----------------------- MODULE ErrorProjectionProofs ------------------------
(***************************************************************************)
(* Proofs about ErrorProjection, for host code that does or does not pass  *)
(* on errors of other executions, and whatever its errors wrap.            *)
(***************************************************************************)
EXTENDS ErrorProjection, TLAPS

\* The classes of an execution, those a program can fail with, and all public ones.
ExecutionClasses ==
  {"InvalidProgram", "InvalidArguments", "PermissionDenied", "PolicyFailure", "ResourceLimit",
   "CapabilityFailure", "Internal"}
ProgramClasses == {"InvalidProgram", "InvalidArguments", "ResourceLimit", "Internal"}
PublicClasses  == ExecutionClasses \cup {"Canceled", "Unauthenticated", "NotFound"}

\* Of the sentinels of internal/execution, the error has exactly that of class c.  Host
\* code cannot hold one: this is what makes the order of the projections harmless.
OnlyClass(e, c) == \A d \in ExecutionClasses : X(d) \in e.is <=> d = c

(***************************************************************************)
(* The inductive invariant: what is known of the error at each stage.      *)
(***************************************************************************)
EngineInv == stage = "engine" => origin.class \in ProgramClasses /\ err.is = {X(origin.class)}

RunnerInv == stage = "runner" =>
  \/ origin.class \in ExecutionClasses /\ OnlyClass(err, origin.class)
  \/ origin.class = "Canceled" /\ err.is = {Ctx("Canceled")}

RootInv == stage = "root" =>
  /\ origin.class \in PublicClasses
  /\ \/ err.is = {SentinelOf(origin.class)}
     \/ origin.class = "ResourceLimit" /\ err.is = Deadline.is

ToolInv == stage = "tool" => err.is = {SentinelOf(origin.class)}

ClassInv ==
  /\ stage \in {"idle", "engine", "runner", "root", "tool"}
  /\ EngineInv /\ RunnerInv /\ RootInv /\ ToolInv

-----------------------------------------------------------------------------
(* Sentinels and the first match of a switch *)

\* Sentinels of different packages or names are different.
LEMMA Distinct ==
  /\ \A c, d : (X(c) = X(d) <=> c = d) /\ (Pub(c) = Pub(d) <=> c = d) /\ (Ctx(c) = Ctx(d) <=> c = d)
  /\ \A c, d : X(c) # Pub(d) /\ X(c) # Ctx(d) /\ Pub(c) # Ctx(d)
  /\ \A c : X(c)[2] = c /\ <<"execution", c>> = X(c) /\ <<"codemode", c>> = Pub(c)
BY DEF X, Pub, Ctx

\* SelectInSeq finds the least index that matches.
LEMMA Found ==
  ASSUME NEW order, Len(order) \in Nat, NEW e,
         NEW k \in 1..Len(order), order[k] \in e.is, \A j \in 1..(k - 1) : order[j] \notin e.is
  PROVE  FirstMatch(order, e) = k
<1> DEFINE I == {i \in 1..Len(order) : order[i] \in e.is}
<1>1. k \in I /\ \A j \in I : k <= j
  OBVIOUS
<1>2. \A y \in I : (\A j \in I : y <= j) => y = k
  BY <1>1
<1>3. Min(I) = k
  BY <1>1, <1>2 DEF Min
<1>4. I # {}
  BY <1>1
<1> QED
  BY <1>3, <1>4 DEF FirstMatch, SelectInSeq

\* And 0 when nothing matches.
LEMMA NotFound ==
  ASSUME NEW order, NEW e, \A j \in 1..Len(order) : order[j] \notin e.is
  PROVE  FirstMatch(order, e) = 0
BY DEF FirstMatch, SelectInSeq

-----------------------------------------------------------------------------
(* The projections *)

\* The switch of projectExecutionError finds the one class of an execution.
LEMMA RootFinds ==
  ASSUME NEW e, NEW c \in ExecutionClasses, OnlyClass(e, c)
  PROVE  FirstMatch(RootOrder, e) # 0 /\ RootOrder[FirstMatch(RootOrder, e)] = X(c)
<1>1. /\ Len(RootOrder) = 9
      /\ RootOrder[1] = X("InvalidProgram") /\ RootOrder[2] = X("InvalidArguments")
      /\ RootOrder[3] = X("PermissionDenied") /\ RootOrder[4] = X("PolicyFailure")
      /\ RootOrder[5] = X("ResourceLimit") /\ RootOrder[6] = X("CapabilityFailure")
      /\ RootOrder[7] = X("Internal")
  BY DEF RootOrder
<1>2. PICK k \in 1..7 : RootOrder[k] = X(c) /\ \A j \in 1..(k - 1) : RootOrder[j] \notin e.is
  <2>1. /\ X(c) \in e.is
        /\ \A d \in ExecutionClasses : d # c => X(d) \notin e.is
    BY DEF OnlyClass
  <2> QED
    BY <1>1, <2>1 DEF ExecutionClasses
<1>3. FirstMatch(RootOrder, e) = k
  <2>1. k \in 1..Len(RootOrder) /\ RootOrder[k] \in e.is /\ Len(RootOrder) \in Nat
    BY <1>1, <1>2 DEF OnlyClass
  <2> QED
    BY <1>2, <2>1, Found
<1> QED
  BY <1>2, <1>3

\* A detail is kept only with a class that the error has.
LEMMA DetailMatch ==
  ASSUME NEW e, NEW pkg, DetailClass(e, pkg) # 0
  PROVE  /\ Detailed[DetailClass(e, pkg)] \in {"InvalidProgram", "InvalidArguments", "CapabilityFailure"}
         /\ <<pkg, Detailed[DetailClass(e, pkg)]>> \in e.is
<1> DEFINE I == {i \in 1..Len(Detailed) : <<pkg, Detailed[i]>> \in e.is}
<1>1. /\ Len(Detailed) = 3 /\ Detailed[1] = "InvalidProgram" /\ Detailed[2] = "InvalidArguments"
      /\ Detailed[3] = "CapabilityFailure"
  BY DEF Detailed
<1>2. I # {} /\ DetailClass(e, pkg) = Min(I)
  BY DEF DetailClass, SelectInSeq
<1>3. I \subseteq 1..3
  BY <1>1
<1> HIDE DEF I
<1>4. \E x \in I : \A y \in I : x =< y
  <2>1. CASE 1 \in I
    BY <1>3, <2>1
  <2>2. CASE 1 \notin I /\ 2 \in I
    BY <1>3, <2>2
  <2>3. CASE 1 \notin I /\ 2 \notin I
    <3>1. PICK x \in I : TRUE
      BY <1>2
    <3>2. \A y \in I : y = 3
      BY <1>3, <2>3
    <3> QED
      BY <3>1, <3>2
  <2> QED
    BY <2>1, <2>2, <2>3
<1>5. Min(I) \in I
  BY <1>4 DEF Min
<1> QED
  BY <1>1, <1>2, <1>3, <1>5 DEF I

\* projectExecutionError makes of an error with one class of an execution the public error
\* of that class, and of a deadline its public form.
LEMMA RootProjects ==
  ASSUME NEW e, NEW c \in ExecutionClasses, OnlyClass(e, c)
  PROVE  \/ projectExecutionError(e).is = {Pub(c)}
         \/ c = "ResourceLimit" /\ projectExecutionError(e).is = Deadline.is
<1>1. CASE DetailClass(e, "execution") # 0
  <2>1. /\ Detailed[DetailClass(e, "execution")] \in ExecutionClasses
        /\ X(Detailed[DetailClass(e, "execution")]) \in e.is
    BY <1>1, DetailMatch DEF X, ExecutionClasses
  <2>2. Detailed[DetailClass(e, "execution")] = c
    BY <2>1 DEF OnlyClass
  <2> QED
    BY <1>1, <2>2 DEF projectExecutionError, Rewrapped
<1>2. CASE DetailClass(e, "execution") = 0
  <2>1. projectExecutionError(e) = RootClass(e)
    BY <1>2 DEF projectExecutionError
  <2>2. FirstMatch(RootOrder, e) # 0 /\ RootOrder[FirstMatch(RootOrder, e)] = X(c)
    BY RootFinds
  <2>3. CASE c = "ResourceLimit" /\ Ctx("DeadlineExceeded") \in e.is
    <3>1. RootClass(e) = Deadline
      BY <2>2, <2>3, Distinct DEF RootClass
    <3> QED
      BY <2>1, <2>3, <3>1
  <2>4. CASE ~(c = "ResourceLimit" /\ Ctx("DeadlineExceeded") \in e.is)
    <3>1. RootClass(e) = Bare(Pub(c))
      BY <2>2, <2>4, Distinct DEF RootClass
    <3> QED
      BY <2>1, <3>1 DEF Bare
  <2> QED
    BY <2>3, <2>4
<1> QED
  BY <1>1, <1>2

\* A cancelled request stays one.
LEMMA RootCanceled ==
  ASSUME NEW e, e.is = {Ctx("Canceled")}
  PROVE  projectExecutionError(e).is = {Ctx("Canceled")}
<1>1. DetailClass(e, "execution") = 0
  <2>1. DetailClass(e, "execution") # 0 => X(Detailed[DetailClass(e, "execution")]) \in e.is
    BY DetailMatch DEF X
  <2> QED
    BY <2>1, Distinct
<1>2. FirstMatch(RootOrder, e) = 8
  <2>1. /\ Len(RootOrder) = 9 /\ RootOrder[8] = Ctx("Canceled")
        /\ \A j \in 1..7 : \E c : RootOrder[j] = X(c)
    BY DEF RootOrder
  <2>2. \A j \in 1..(8 - 1) : RootOrder[j] \notin e.is
    BY <2>1, Distinct
  <2>3. Len(RootOrder) \in Nat /\ 8 \in 1..Len(RootOrder) /\ RootOrder[8] \in e.is
    BY <2>1
  <2> QED
    BY <2>2, <2>3, Found
<1>3. RootOrder[8] = Ctx("Canceled")
  BY DEF RootOrder
<1>4. RootClass(e) = Bare(Ctx("Canceled"))
  BY <1>2, <1>3 DEF RootClass
<1> QED
  BY <1>1, <1>4 DEF projectExecutionError, Bare

\* projectToolError keeps a public class and drops the deadline behind a resource limit.
LEMMA ToolProjects ==
  ASSUME NEW e, NEW c \in PublicClasses,
         e.is = {SentinelOf(c)} \/ (c = "ResourceLimit" /\ e.is = Deadline.is)
  PROVE  projectToolError(e).is = {SentinelOf(c)}
<1>0. /\ Len(ToolOrder) = 10 /\ Len(ToolOrder) \in Nat
      /\ ToolOrder[1] = Pub("ResourceLimit") /\ ToolOrder[2] = Ctx("Canceled")
      /\ ToolOrder[3] = Ctx("DeadlineExceeded") /\ ToolOrder[4] = Pub("Unauthenticated")
      /\ ToolOrder[5] = Pub("NotFound") /\ ToolOrder[6] = Pub("InvalidProgram")
      /\ ToolOrder[7] = Pub("InvalidArguments") /\ ToolOrder[8] = Pub("PermissionDenied")
      /\ ToolOrder[9] = Pub("PolicyFailure") /\ ToolOrder[10] = Pub("CapabilityFailure")
  BY DEF ToolOrder
<1>1. CASE DetailClass(e, "codemode") # 0
  <2> DEFINE d == Detailed[DetailClass(e, "codemode")]
  <2>1. d \in {"InvalidProgram", "InvalidArguments", "CapabilityFailure"} /\ Pub(d) \in e.is
    BY <1>1, DetailMatch DEF Pub
  <2>2. projectToolError(e).is = {Pub(d)}
    BY <1>1 DEF projectToolError, Rewrapped
  <2> HIDE DEF d
  <2>3. e.is # Deadline.is
    BY <2>1, Distinct DEF Deadline
  <2> QED
    BY <2>1, <2>2, <2>3
<1>2. CASE DetailClass(e, "codemode") = 0
  <2>1. projectToolError(e) = ToolClass(e)
    BY <1>2 DEF projectToolError
  <2>2. CASE c = "ResourceLimit"
    <3>1. Pub("ResourceLimit") \in e.is
      BY <2>2 DEF SentinelOf, Deadline
    <3>2. FirstMatch(ToolOrder, e) = 1
      <4>1. 1 \in 1..Len(ToolOrder) /\ \A j \in 1..(1 - 1) : ToolOrder[j] \notin e.is
        BY <1>0
      <4> QED
        BY <1>0, <3>1, <4>1, Found
    <3> QED
      BY <1>0, <2>1, <2>2, <3>2 DEF ToolClass, Bare, SentinelOf
  <2>3. CASE c = "Internal"
    <3>1. \A j \in 1..Len(ToolOrder) : ToolOrder[j] \notin e.is
      BY <1>0, <2>3, Distinct DEF SentinelOf
    <3>2. FirstMatch(ToolOrder, e) = 0
      BY <3>1, NotFound
    <3> QED
      BY <2>1, <2>3, <3>2 DEF ToolClass, Bare, SentinelOf
  <2>4. CASE c \notin {"ResourceLimit", "Internal"}
    <3>1. PICK k \in 1..10 : ToolOrder[k] = SentinelOf(c) /\ \A j \in 1..(k - 1) : ToolOrder[j] # SentinelOf(c)
      BY <1>0, <2>4, Distinct DEF PublicClasses, ExecutionClasses, SentinelOf
    <3>2. e.is = {SentinelOf(c)}
      BY <2>4
    <3>3. FirstMatch(ToolOrder, e) = k
      BY <1>0, <3>1, <3>2, Found
    <3> QED
      BY <2>1, <3>1, <3>3 DEF ToolClass, Bare
  <2> QED
    BY <2>2, <2>3, <2>4
<1> QED
  BY <1>1, <1>2

-----------------------------------------------------------------------------
(* The worker's side *)

\* classifyRuntimeError finds the class of a cause that has one.
LEMMA RuntimeFinds ==
  ASSUME NEW cause, NEW c \in {"InvalidArguments", "ResourceLimit", "Internal"}, cause.is = {X(c)}
  PROVE  /\ FirstMatch(RuntimeOrder, cause) # 0
         /\ RuntimeOrder[FirstMatch(RuntimeOrder, cause)] = X(c)
         /\ (CHOOSE d \in {"InvalidArguments", "ResourceLimit", "Internal"} : X(d) \in cause.is) = c
<1>1. /\ Len(RuntimeOrder) = 7 /\ Len(RuntimeOrder) \in Nat
      /\ RuntimeOrder[1] = X("InvalidArguments") /\ RuntimeOrder[2] = X("PermissionDenied")
      /\ RuntimeOrder[3] = X("PolicyFailure") /\ RuntimeOrder[4] = X("ResourceLimit")
      /\ RuntimeOrder[5] = X("CapabilityFailure") /\ RuntimeOrder[6] = X("Internal")
  BY DEF RuntimeOrder
<1>2. PICK k \in 1..6 : RuntimeOrder[k] = X(c) /\ \A j \in 1..(k - 1) : RuntimeOrder[j] # X(c)
  BY <1>1, Distinct
<1>3. FirstMatch(RuntimeOrder, cause) = k
  BY <1>1, <1>2, Found
<1>4. \A d : X(d) \in cause.is <=> d = c
  BY Distinct
<1> QED
  BY <1>2, <1>3, <1>4

\* What the program's failure becomes, and what is recorded of it.
LEMMA ProgramRaises ==
  ASSUME NEW stepLimited \in BOOLEAN, NEW parse \in BOOLEAN, NEW cause \in Causes,
         ProgramFails(stepLimited, parse, cause)
  PROVE  /\ stage = "idle" /\ stage' = "engine"
         /\ origin'.class \in ProgramClasses /\ err'.is = {X(origin'.class)}
         /\ err'.detail \in {"none", origin'.disclosed}
<1> USE DEF ProgramFails, Raise, ProgramClasses
<1>0. parse => cause = NoError
  OBVIOUS
<1>1. CASE stepLimited
  BY <1>1 DEF classifyRuntimeError, Bare
<1>2. CASE ~stepLimited /\ parse
  BY <1>2 DEF classifyRuntimeError
<1>3. CASE ~stepLimited /\ ~parse /\ cause = NoError
  <2>1. FirstMatch(RuntimeOrder, cause) = 0
    BY <1>3, NotFound DEF NoError
  <2> QED
    BY <1>3, <2>1 DEF classifyRuntimeError, Bare, NoError
<1>4. CASE ~stepLimited /\ ~parse /\ cause # NoError
  <2>1. PICK c \in {"InvalidArguments", "ResourceLimit", "Internal"} : cause.is = {X(c)}
    BY <1>4 DEF Causes, Bare
  <2>2. /\ FirstMatch(RuntimeOrder, cause) # 0
        /\ RuntimeOrder[FirstMatch(RuntimeOrder, cause)] = X(c)
        /\ (CHOOSE d \in {"InvalidArguments", "ResourceLimit", "Internal"} : X(d) \in cause.is) = c
    BY <2>1, RuntimeFinds
  <2>3. cause.is # {}
    BY <2>1
  <2>4. classifyRuntimeError(stepLimited, parse, cause).is = {X(c)}
        /\ classifyRuntimeError(stepLimited, parse, cause).detail \in {"none", cause.detail}
    BY <1>4, <2>2 DEF classifyRuntimeError
  <2>5. origin' = [class |-> c, disclosed |-> cause.detail]
    BY <1>4, <2>2, <2>3
  <2>6. stage = "idle" /\ stage' = "engine" /\ err' = classifyRuntimeError(stepLimited, parse, cause)
    OBVIOUS
  <2>7. origin'.class = c /\ origin'.disclosed = cause.detail
    BY <2>5
  <2> HIDE DEF ProgramFails, Raise
  <2> QED
    BY <2>4, <2>6, <2>7
<1> QED
  BY <1>1, <1>2, <1>3, <1>4

\* The final_error frame carries the class, and at most the detail, of a program's failure.
LEMMA FrameCarries ==
  ASSUME NEW e, NEW c \in ProgramClasses, e.is = {X(c)}
  PROVE  /\ mapFinalError(finalErrorFrom(e)).is = {X(c)}
         /\ mapFinalError(finalErrorFrom(e)).detail \in {"none", e.detail}
<1>1. /\ Len(FrameOrder) = 3 /\ Len(FrameOrder) \in Nat /\ FrameOrder[1] = X("InvalidProgram")
      /\ FrameOrder[2] = X("InvalidArguments") /\ FrameOrder[3] = X("ResourceLimit")
  BY DEF FrameOrder
<1>2. CASE c = "Internal"
  <2>1. \A j \in 1..Len(FrameOrder) : FrameOrder[j] \notin e.is
    BY <1>1, <1>2, Distinct
  <2>2. FirstMatch(FrameOrder, e) = 0
    BY <2>1, NotFound
  <2> QED
    BY <1>2, <2>2 DEF mapFinalError, finalErrorFrom
<1>3. CASE c # "Internal"
  <2>1. PICK k \in 1..3 : FrameOrder[k] = X(c) /\ \A j \in 1..(k - 1) : FrameOrder[j] # X(c)
    BY <1>1, <1>3, Distinct DEF ProgramClasses
  <2>2. FirstMatch(FrameOrder, e) = k
    BY <1>1, <2>1, Found
  <2>3. FrameOrder[k][2] = c
    BY <2>1, Distinct
  <2> QED
    BY <2>1, <2>2, <2>3 DEF mapFinalError, finalErrorFrom
<1> QED
  BY <1>2, <1>3

-----------------------------------------------------------------------------
(* The invariant *)

\* An error that host code holds has no sentinel of internal/execution, before and after
\* it is wrapped in the one that names the boundary.
LEMMA WrapNames ==
  ASSUME NEW c \in ExecutionClasses, NEW e, e.is \subseteq {Pub(d) : d \in PublicClasses} \cup
                                        {Ctx("Canceled"), Ctx("DeadlineExceeded")},
         e = [is |-> e.is, detail |-> e.detail]
  PROVE  OnlyClass(Wrap(X(c), e), c) /\ Wrap(X(c), e).detail = e.detail
<1>1. Wrap(X(c), e).is = e.is \cup {X(c)} /\ Wrap(X(c), e).detail = e.detail
  BY DEF Wrap
<1>2. \A d : X(d) \notin e.is
  BY Distinct
<1> QED
  BY <1>1, <1>2, Distinct DEF OnlyClass

\* A bare sentinel names its class.
LEMMA BareNames ==
  ASSUME NEW c \in ExecutionClasses
  PROVE  OnlyClass(Bare(X(c)), c)
BY Distinct DEF OnlyClass, Bare

\* The errors of host code are of that form.
LEMMA HostErrorsForm ==
  ASSUME NEW e \in HostErrors
  PROVE  /\ e.is \subseteq {Pub(d) : d \in PublicClasses} \cup {Ctx("Canceled"), Ctx("DeadlineExceeded")}
         /\ e = [is |-> e.is, detail |-> e.detail]
         /\ ~NestedExecutions => e.detail = "none"
BY DEF HostErrors, PublicClasses, ExecutionClasses

\* What is raised in the parent, by host code or at its boundary: one class of an execution,
\* or the cancellation of the request.
HostFails ==
  \/ \E denies, panics \in BOOLEAN, e \in HostErrors : PolicyFails(denies, panics, e)
  \/ \E decision \in {"contextEnded", "evaluationError", "undefined", "nonBoolean", "false"} : RegoRefuses(decision)
  \/ \E h \in HostErrors, agent \in AgentErrors : HandlerFails(h, agent)
  \/ BoundaryFails
  \/ \E class \in {"ResourceLimit", "CapabilityFailure"} : ConversionFails(class)
  \/ \E kind \in {"Canceled", "DeadlineExceeded"} : ContextEnds(kind)

HostRaised ==
  /\ stage = "idle" /\ stage' = "runner"
  /\ \/ origin'.class \in ExecutionClasses /\ OnlyClass(err', origin'.class)
     \/ origin'.class = "Canceled" /\ err'.is = {Ctx("Canceled")}
  /\ ~NestedExecutions => err'.detail \in {"none", origin'.disclosed}

\* An error wrapped for class c and raised.
LEMMA RaiseNames ==
  ASSUME NEW c \in ExecutionClasses, NEW e, OnlyClass(e, c), NEW disclosed,
         ~NestedExecutions => e.detail \in {"none", disclosed},
         Raise("runner", e, c, disclosed)
  PROVE  HostRaised
BY DEF Raise, HostRaised

\* Everything that fails in the parent is raised so.
LEMMA HostRaises ==
  ASSUME HostFails
  PROVE  HostRaised
<1> USE DEF ExecutionClasses
<1>1. ASSUME NEW denies \in BOOLEAN, NEW panics \in BOOLEAN, NEW e \in HostErrors, PolicyFails(denies, panics, e)
      PROVE  HostRaised
  <2>1. CASE panics
    <3>1. Raise("runner", Bare(X("PolicyFailure")), "PolicyFailure", "none")
      BY <1>1, <2>1 DEF PolicyFails, authorize
    <3> QED
      BY <3>1, BareNames, RaiseNames DEF Bare
  <2>2. CASE ~panics /\ denies
    <3>1. Raise("runner", Wrap(X("PermissionDenied"), e), "PermissionDenied", "none")
      BY <1>1, <2>2 DEF PolicyFails, authorize
    <3> QED
      BY <3>1, HostErrorsForm, WrapNames, RaiseNames
  <2>3. CASE ~panics /\ ~denies
    <3>1. Raise("runner", Wrap(X("PolicyFailure"), e), "PolicyFailure", "none")
      BY <1>1, <2>3 DEF PolicyFails, authorize
    <3> QED
      BY <3>1, HostErrorsForm, WrapNames, RaiseNames
  <2> QED
    BY <2>1, <2>2, <2>3
<1>2. ASSUME NEW decision, RegoRefuses(decision)
      PROVE  HostRaised
  <2> DEFINE e == RegoAuthorize(decision).error
  <2>1. /\ e.is \subseteq {Pub(d) : d \in PublicClasses} \cup {Ctx("Canceled"), Ctx("DeadlineExceeded")}
        /\ e = [is |-> e.is, detail |-> e.detail] /\ e.detail = "none"
    BY DEF RegoAuthorize, Bare, NoError
  <2>2. RegoAuthorize(decision).denies <=> decision = "false"
    BY DEF RegoAuthorize
  <2> HIDE DEF e
  <2>3. CASE decision = "false"
    <3>1. Raise("runner", Wrap(X("PermissionDenied"), e), "PermissionDenied", "none")
      BY <1>2, <2>2, <2>3 DEF RegoRefuses, authorize, e
    <3> QED
      BY <2>1, <3>1, WrapNames, RaiseNames
  <2>4. CASE decision # "false"
    <3>1. Raise("runner", Wrap(X("PolicyFailure"), e), "PolicyFailure", "none")
      BY <1>2, <2>2, <2>4 DEF RegoRefuses, authorize, e
    <3> QED
      BY <2>1, <3>1, WrapNames, RaiseNames
  <2> QED
    BY <2>3, <2>4
<1>3. ASSUME NEW h \in HostErrors, NEW agent \in AgentErrors, HandlerFails(h, agent)
      PROVE  HostRaised
  <2>1. CASE agent = "message"
    <3>1. Raise("runner", [is |-> {X("CapabilityFailure")}, detail |-> "agent"], "CapabilityFailure", "agent")
      BY <1>3, <2>1 DEF HandlerFails, invoke
    <3>2. OnlyClass([is |-> {X("CapabilityFailure")}, detail |-> "agent"], "CapabilityFailure")
      BY Distinct DEF OnlyClass
    <3> QED
      BY <3>1, <3>2, RaiseNames
  <2>2. CASE agent = "empty"
    <3>1. Raise("runner", Bare(X("CapabilityFailure")), "CapabilityFailure", "none")
      BY <1>3, <2>2 DEF HandlerFails, invoke
    <3> QED
      BY <3>1, BareNames, RaiseNames DEF Bare
  <2>3. CASE agent = "absent"
    <3>1. Raise("runner", Wrap(X("CapabilityFailure"), h), "CapabilityFailure", "none")
      BY <1>3, <2>3 DEF HandlerFails, invoke
    <3> QED
      BY <3>1, HostErrorsForm, WrapNames, RaiseNames
  <2> QED
    BY <2>1, <2>2, <2>3 DEF AgentErrors
<1>4. CASE BoundaryFails
  BY <1>4, BareNames, RaiseNames DEF BoundaryFails, Bare
<1>5. ASSUME NEW class \in {"ResourceLimit", "CapabilityFailure"}, ConversionFails(class)
      PROVE  HostRaised
  BY <1>5, BareNames, RaiseNames DEF ConversionFails, Bare
<1>6. ASSUME NEW kind \in {"Canceled", "DeadlineExceeded"}, ContextEnds(kind)
      PROVE  HostRaised
  <2>1. CASE kind = "Canceled"
    BY <1>6, <2>1 DEF ContextEnds, Raise, Bare, HostRaised
  <2>2. CASE kind = "DeadlineExceeded"
    <3> DEFINE e == Bare(Ctx("DeadlineExceeded"))
    <3>1. Raise("runner", Wrap(X("ResourceLimit"), e), "ResourceLimit", "none")
      BY <1>6, <2>2 DEF ContextEnds
    <3>2. e.is \subseteq {Ctx("Canceled"), Ctx("DeadlineExceeded")} /\ e = [is |-> e.is, detail |-> e.detail]
          /\ e.detail = "none"
      BY DEF Bare
    <3> HIDE DEF e
    <3> QED
      BY <3>1, <3>2, WrapNames, RaiseNames
  <2> QED
    BY <2>1, <2>2
<1> QED
  BY <1>1, <1>2, <1>3, <1>4, <1>5, <1>6 DEF HostFails

\* A projection adds no detail.
LEMMA ProjectionsAddNothing ==
  ASSUME NEW e
  PROVE  /\ projectExecutionError(e).detail \in {"none", e.detail}
         /\ projectToolError(e).detail \in {"none", e.detail}
<1>1. RootClass(e).detail = "none" /\ ToolClass(e).detail = "none"
  BY DEF RootClass, ToolClass, Bare, Deadline
<1>2. \A pkg : Rewrapped(e, pkg).detail = e.detail
  BY DEF Rewrapped
<1> QED
  BY <1>1, <1>2 DEF projectExecutionError, projectToolError

DetailInv == ~NestedExecutions => err.detail \in {"none", origin.disclosed}

\* Every step preserves both parts of the invariant.
LEMMA NextClass ==
  ASSUME ClassInv, DetailInv, [Next]_vars
  PROVE  ClassInv' /\ DetailInv'
<1> USE DEF ClassInv, DetailInv, EngineInv, RunnerInv, RootInv, ToolInv
<1>1. ASSUME NEW stepLimited \in BOOLEAN, NEW parse \in BOOLEAN, NEW cause \in Causes,
             ProgramFails(stepLimited, parse, cause)
      PROVE  ClassInv' /\ DetailInv'
  BY <1>1, ProgramRaises
<1>2. CASE FinalErrorArrives
  <2>1. /\ err'.is = {X(origin.class)} /\ err'.detail \in {"none", err.detail}
        /\ origin.class \in ProgramClasses /\ UNCHANGED origin /\ stage' = "runner"
    BY <1>2, FrameCarries DEF FinalErrorArrives
  <2>2. origin'.class \in ExecutionClasses /\ OnlyClass(err', origin'.class)
    BY <2>1, Distinct DEF OnlyClass, ProgramClasses, ExecutionClasses
  <2> QED
    BY <2>1, <2>2
<1>3. CASE HostFails
  BY <1>3, HostRaises DEF HostRaised
<1>4. CASE Execute
  <2>1. stage = "runner" /\ stage' = "root" /\ err' = projectExecutionError(err) /\ UNCHANGED origin
    BY <1>4 DEF Execute
  <2>2. err'.detail \in {"none", err.detail}
    BY <2>1, ProjectionsAddNothing
  <2>3. CASE origin.class \in ExecutionClasses /\ OnlyClass(err, origin.class)
    <3>1. \/ err'.is = {Pub(origin.class)}
          \/ origin.class = "ResourceLimit" /\ err'.is = Deadline.is
      BY <2>1, <2>3, RootProjects
    <3>2. SentinelOf(origin.class) = Pub(origin.class)
      BY <2>3 DEF SentinelOf, ExecutionClasses
    <3> QED
      BY <2>1, <2>2, <2>3, <3>1, <3>2 DEF PublicClasses, SentinelOf
  <2>4. CASE origin.class = "Canceled" /\ err.is = {Ctx("Canceled")}
    <3>1. err'.is = {Ctx("Canceled")}
      BY <2>1, <2>4, RootCanceled
    <3> QED
      BY <2>1, <2>2, <2>4, <3>1 DEF PublicClasses, SentinelOf
  <2> QED
    BY <2>1, <2>3, <2>4
<1>5. ASSUME NEW class \in {"Unauthenticated", "NotFound", "ResourceLimit", "Internal"}, Answers(class)
      PROVE  ClassInv' /\ DetailInv'
  BY <1>5 DEF Answers, Raise, Bare, SentinelOf, PublicClasses, ExecutionClasses
<1>6. CASE RunToolOperation
  <2>1. stage = "root" /\ stage' = "tool" /\ err' = projectToolError(err) /\ UNCHANGED origin
    BY <1>6 DEF RunToolOperation
  <2>2. err'.detail \in {"none", err.detail}
    BY <2>1, ProjectionsAddNothing
  <2>3. err'.is = {SentinelOf(origin.class)}
    BY <2>1, ToolProjects
  <2> QED
    BY <2>1, <2>2, <2>3 DEF SentinelOf
<1>7. CASE AdapterPanics \/ \E e \in HostErrors : ResolverFails(e)
  <2>1. PICK c \in {"Unauthenticated", "Internal"} : Raise("tool", projectToolError(Bare(Pub(c))), c, "none")
    BY <1>7 DEF AdapterPanics, ResolverFails
  <2>2. Bare(Pub(c)).is = {SentinelOf(c)} /\ Bare(Pub(c)).detail = "none" /\ c \in PublicClasses
    BY DEF Bare, SentinelOf, PublicClasses, ExecutionClasses
  <2>3. projectToolError(Bare(Pub(c))).is = {SentinelOf(c)} /\ projectToolError(Bare(Pub(c))).detail = "none"
    BY <2>2, ToolProjects, ProjectionsAddNothing
  <2> QED
    BY <2>1, <2>3 DEF Raise, SentinelOf
<1>8. CASE Done \/ UNCHANGED vars
  BY <1>8 DEF Done, vars, OnlyClass, SentinelOf
<1> QED
  BY <1>1, <1>2, <1>3, <1>4, <1>5, <1>6, <1>7, <1>8 DEF Next, HostFails

-----------------------------------------------------------------------------
(* The theorems *)

\* What is known of an error at every stage of its way.
THEOREM ProjectionInvariance == Spec => [](ClassInv /\ DetailInv)
<1>1. Init => ClassInv /\ DetailInv
  BY DEF Init, NoError, ClassInv, DetailInv, EngineInv, RunnerInv, RootInv, ToolInv
<1>2. ClassInv /\ DetailInv /\ [Next]_vars => (ClassInv /\ DetailInv)'
  BY NextClass
<1> QED
  BY <1>1, <1>2, PTL DEF Spec

\* Whatever host code wraps, Execute and the MCP tool report exactly the class of what
\* happened: projectExecutionError and projectToolError let nothing else through.
THEOREM ExactClass == Spec => []ExactlyItsClass
<1>1. ClassInv => ExactlyItsClass
  BY DEF ClassInv, RootInv, ToolInv, ExactlyItsClass, Public
<1> QED
  BY <1>1, ProjectionInvariance, PTL

\* Unless host code passes on the errors of executions that it runs itself, a detail that
\* reaches the agent is the program's own or an AgentError's.
THEOREM Disclosure ==
  ASSUME ~NestedExecutions
  PROVE  Spec => []DetailIsDisclosed
<1>1. DetailInv => DetailIsDisclosed
  BY DEF DetailInv, DetailIsDisclosed
<1> QED
  BY <1>1, ProjectionInvariance, PTL
=============================================================================
