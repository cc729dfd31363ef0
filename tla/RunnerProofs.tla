---------------------------- MODULE RunnerProofs ----------------------------
(***************************************************************************)
(* Proofs about Runner, for every finite set of requests, every positive   *)
(* MaxConcurrentExecutions and every set of dispatch failures.             *)
(***************************************************************************)
EXTENDS Runner, FiniteSetTheorems, TLAPS

(***************************************************************************)
(* The inductive invariant.  Each part ties one piece of state to the      *)
(* control of the main goroutine, which is what finish and release rely on *)
(* without ever checking it.                                               *)
(***************************************************************************)
BeforeSpawn == {"idle", "acquire", "admitted", "spawning"}
HoldingPCs  == {"admitted", "spawning", "running", "closeStdin", "kill",
                "closeStdout", "join", "wait", "release"}
ProcessPCs  == {"running", "closeStdin", "kill", "closeStdout", "join", "wait"}

Holders == {r \in Requests : held[r]}

\* The semaphore channel holds one token per holder.
SemCounts == sem = Cardinality(Holders)

\* The permit covers the whole life of the process.
PermitInv(r) == held[r] <=> pc[r] \in HoldingPCs

\* Where the process can be at each point of Execute.
ChildInv(r) ==
  /\ pc[r] \in BeforeSpawn => child[r] = "none"
  /\ Unreaped(r) <=> pc[r] \in ProcessPCs
  /\ pc[r] \in {"release", "interpret"} => child[r] = "reaped"
  /\ pc[r] \in {"closeStdout", "join", "wait"} => child[r] = "exited"
  /\ pc[r] = "returned" => child[r] \in {"none", "reaped"}

\* Which of its ends of the pipes the parent has open.
PipesInv(r) ==
  /\ pc[r] \in {"running", "closeStdin"} => pipes[r] = {"stdin", "stdout"}
  /\ pc[r] \in {"kill", "closeStdout"} => pipes[r] = {"stdout"}
  /\ pc[r] \in MainPCs \ {"running", "closeStdin", "kill", "closeStdout"} => pipes[r] = {}

\* The exchange goroutine lives between Spawn and Join.
ExchInv(r) ==
  /\ pc[r] \in BeforeSpawn => exch[r] = "none"
  /\ pc[r] \in {"wait", "release", "interpret"} => exch[r] = "finished"
  /\ pc[r] = "returned" => exch[r] \in {"none", "finished"}
  /\ pc[r] \in ProcessPCs => exch[r] # "none"
  /\ exch[r] # "finished" => done[r].kind = "none"

\* An outcome that does not ask for a kill was seen at the end of the stream.
KillInv(r) ==
  /\ done[r].kind # "none" /\ ~done[r].kill => ~Alive(r)
  /\ pc[r] \in {"closeStdin", "kill"} /\ ~out[r].kill => ~Alive(r)

\* Nothing can succeed after a failed call.
ValueInv(r) ==
  /\ exch[r] \in {"none", "writeExec", "read", "finalEOF", "errorEOF"} => callback[r] = "none"
  /\ exch[r] = "abortEOF" => callback[r] \in AbortResults
  /\ pc[r] \in {"closeStdin", "kill", "closeStdout", "join", "wait", "release", "interpret"}
       => out[r].kind \in {"value", "err", "retained"}
  /\ done[r].kind = "value" => exch[r] = "finished" /\ callback[r] = "none"
  /\ out[r].kind = "value" => exch[r] = "finished" /\ callback[r] = "none"
  /\ result[r] = "value" => callback[r] = "none" /\ pc[r] = "returned"
  /\ done[r].kind = "retained" => done[r].class # "value"
  /\ out[r].kind = "retained" => out[r].class # "value"
  /\ done[r].kind = "err" => done[r].class # "value"
  /\ out[r].kind = "err" => out[r].class # "value"
  /\ pc[r] # "returned" => result[r] = "none"

RequestInv(r) ==
  PermitInv(r) /\ ChildInv(r) /\ PipesInv(r) /\ ExchInv(r) /\ KillInv(r) /\ ValueInv(r)

IInv == TypeOK /\ SemCounts /\ \A r \in Requests : RequestInv(r)

LocalInv == TypeOK /\ \A r \in Requests : RequestInv(r)

(***************************************************************************)
(* A second invariant, for the answers of Execute: who ended the process,  *)
(* and why an outcome says that it failed.  It needs to know where parent  *)
(* and child are in their conversation.                                    *)
(***************************************************************************)

\* How the process ended: by itself, for want of input, or by the kill of finish.
StatusInv(r) ==
  /\ child[r] \notin {"exited", "reaped"} => status[r] = "none"
  /\ child[r] \in {"exited", "reaped"} /\ pc[r] # "returned" => status[r] # "none"
  /\ pc[r] = "returned" => status[r] = "none"
  /\ status[r] = "one" => "stdin" \notin pipes[r]
  /\ status[r] = "killed" =>
       pc[r] \in {"closeStdout", "join", "wait", "release", "interpret"} /\ out[r].kill

\* Where the conversation is: which of the two has the word, and that the stream of a
\* process that ended well still holds its terminal frame until it is read.
DialogInv(r) ==
  /\ child[r] = "none" => toParent[r] = "none" /\ toChild[r] = "none"
  /\ child[r] = "boot" => toParent[r] = "none"
  /\ child[r] = "running" => toParent[r] = "none" /\ toChild[r] = "none"
  /\ toParent[r] = "native_call" =>
       child[r] \in {"awaiting", "exited"} /\ status[r] # "zero" /\ toChild[r] = "none"
  /\ toParent[r] \in {"final", "final_error"} => child[r] \in {"exiting", "exited"} /\ status[r] # "one"
  /\ toChild[r] = "result" => toParent[r] = "none" /\ exch[r] \in {"read", "finished"}
  /\ toChild[r] = "abort" => exch[r] \in {"abortEOF", "finished"}
  /\ exch[r] = "writeExec" =>
       /\ child[r] \in {"boot", "exited"} /\ status[r] # "zero"
       /\ toParent[r] = "none" /\ toChild[r] = "none"
  /\ exch[r] = "read" /\ (child[r] = "exiting" \/ status[r] = "zero")
       => toParent[r] \in {"final", "final_error"}
  /\ exch[r] = "native" =>
       /\ child[r] \in {"awaiting", "exited"} /\ status[r] # "zero"
       /\ toParent[r] = "none" /\ toChild[r] = "none"
  /\ exch[r] \in {"finalEOF", "errorEOF"} => child[r] \in {"exiting", "exited"} /\ status[r] # "one"

\* What can make an exchange fail.
Excused(r) == CtxEnded(r) \/ callback[r] = "ErrProtocol" \/ status[r] = "crash"

\* What an outcome says of the request it is the outcome of.
OutcomeTrue(r, o) ==
  /\ o.kill => o.kind = "err"
  /\ o.kind = "retained" => callback[r] \in AbortResults /\ o.class = RetainedClass(callback[r])
  /\ o.kind = "err" /\ (o.kill \/ o.class = "Internal") => Excused(r)

\* Outcomes are true, and main leaves its select before the exchange has ended only
\* for the context.
CauseInv(r) ==
  /\ OutcomeTrue(r, done[r]) /\ OutcomeTrue(r, out[r])
  /\ exch[r] \notin {"none", "finished"} /\ pc[r] # "running" => CtxEnded(r)
  /\ pc[r] \in {"wait", "release", "interpret", "returned"} => done[r].kind = "none"
  /\ done[r].kind = "value" => done[r] = Succeeded /\ child[r] = "exited" /\ status[r] # "one"
  /\ out[r].kind = "value" => out[r] = Succeeded /\ status[r] \in {"zero", "crash"}
  /\ status[r] = "killed" => CtxEnded(r) \/ callback[r] = "ErrProtocol"

AnswerInv(r) == StatusInv(r) /\ DialogInv(r) /\ CauseInv(r)

AInv == IInv /\ \A r \in Requests : AnswerInv(r)

USE MaxAssumption, FailuresAssumption
    DEF CtxErrors, ErrorClasses, Classes, MainPCs, ExchPCs, ChildStates, Statuses, Callbacks,
        procVars, mainVars, BeforeSpawn, HoldingPCs, ProcessPCs

-----------------------------------------------------------------------------
(* Counting permits *)

\* A finite set of requests, and what taking or giving one permit does to its size.
LEMMA HoldersFinite ==
  /\ IsFiniteSet(Holders)
  /\ Cardinality(Holders) \in Nat
BY RequestsAssumption, FS_Subset, FS_CardinalityType DEF Holders

\* A holder is counted.
LEMMA HolderCounted ==
  ASSUME SemCounts, NEW r \in Requests, held[r]
  PROVE  sem >= 1
<1>1. r \in Holders
  BY DEF Holders
<1>2. Cardinality(Holders) # 0
  BY <1>1, HoldersFinite, FS_EmptySet
<1> QED
  BY <1>2, HoldersFinite DEF SemCounts

\* release() keeps the count right, whether or not the permit is still held.
LEMMA ReleaseCounts ==
  ASSUME TypeOK, SemCounts, NEW r \in Requests, release(r)
  PROVE  SemCounts'
<1>1. Holders' = Holders \ {r}
  BY DEF Holders, release, TypeOK
<1>2. CASE held[r]
  <2>1. r \in Holders
    BY <1>2 DEF Holders
  <2>2. Cardinality(Holders') = Cardinality(Holders) - 1
    BY <1>1, <2>1, HoldersFinite, FS_RemoveElement
  <2> QED
    BY <1>2, <2>2 DEF SemCounts, release
<1>3. CASE ~held[r]
  <2>1. Holders' = Holders
    BY <1>1, <1>3 DEF Holders
  <2> QED
    BY <1>3, <2>1 DEF SemCounts, release
<1> QED
  BY <1>2, <1>3

\* Taking a permit adds one holder.
LEMMA AcquireCounts ==
  ASSUME TypeOK, SemCounts, NEW r \in Requests, RequestInv(r), Acquire(r)
  PROVE  SemCounts'
<1>1. r \notin Holders
  BY DEF Holders, Acquire, Go, RequestInv, PermitInv
<1>2. Holders' = Holders \cup {r}
  BY DEF Holders, Acquire, TypeOK
<1>3. Cardinality(Holders') = Cardinality(Holders) + 1
  BY <1>1, <1>2, HoldersFinite, FS_AddElement
<1> QED
  BY <1>3 DEF SemCounts, Acquire

\* A step that leaves the semaphore and held alone leaves the count alone.
LEMMA SameCount ==
  ASSUME SemCounts, UNCHANGED <<sem, held>>
  PROVE  SemCounts'
BY DEF SemCounts, Holders

-----------------------------------------------------------------------------
(* Every step of a request preserves each part of the invariant *)

Step(r) ==
  \/ Call(r) \/ RejectCall(r)
  \/ EndContext(r, "canceled") \/ EndContext(r, "deadline")
  \/ MainStep(r) \/ ExchangeStep(r)
  \/ \E res \in Callbacks \ {"none", "running"} : DispatchReturns(r, res)
  \/ ChildService(r) \/ ChildProgram(r)

\* The steps that move the main goroutine.
MainMoves(r) == MainStep(r) \/ Call(r) \/ RejectCall(r)

\* Only the main goroutine touches the permits, the pipes and its own state.
LEMMA OthersLeaveMain ==
  ASSUME NEW r \in Requests, Step(r), ~MainMoves(r)
  PROVE  UNCHANGED mainVars
BY DEF Step, MainMoves, EndContext, DispatchReturns,
     ExchangeStep, WriteExec, ReadFails, ReadCall, ReadFinal, FinalEOF, NativeEnded,
     NativeProtocol, NativeResult, NativeAbort, AbortEOF, Finish,
     ChildService, ChildReadExec, ChildReply, ChildExit, ChildStdinEOF, ChildProgram,
     ChildCall, ChildFinal, ChildCrash, Die

\* The permit is held from Acquire to Release and at no other point.
LEMMA PermitStep ==
  ASSUME LocalInv, NEW r \in Requests, Step(r), NEW q \in Requests
  PROVE  PermitInv(q)'
<1>1. PermitInv(q)
  BY DEF LocalInv, RequestInv
<1>2. CASE MainMoves(r)
  BY <1>1, <1>2 DEF LocalInv, TypeOK, PermitInv, MainMoves, Call, RejectCall,
     MainStep, Acquire, AcquireEnded, Recheck, SpawnFails, Spawn, SelectDone, SelectEnded,
     CloseStdin, Kill, CloseStdout, Join, Wait, Release, Interpret, Return, release, Go
<1>3. CASE ~MainMoves(r)
  BY <1>1, <1>3, OthersLeaveMain DEF PermitInv
<1> QED
  BY <1>2, <1>3

\* The open ends of the pipes follow the control of finish.
LEMMA PipesStep ==
  ASSUME LocalInv, NEW r \in Requests, Step(r), NEW q \in Requests
  PROVE  PipesInv(q)'
<1>1. PipesInv(q)
  BY DEF LocalInv, RequestInv
<1>2. CASE MainMoves(r)
  BY <1>1, <1>2 DEF LocalInv, TypeOK, PipesInv, MainMoves, Call, RejectCall,
     MainStep, Acquire, AcquireEnded, Recheck, SpawnFails, Spawn, SelectDone, SelectEnded,
     CloseStdin, Kill, CloseStdout, Join, Wait, Release, Interpret, Return, release, Go
<1>3. CASE ~MainMoves(r)
  BY <1>1, <1>3, OthersLeaveMain DEF PipesInv
<1> QED
  BY <1>2, <1>3

\* The process exists exactly between Spawn and Wait, and has exited when cmd.Wait is reached.
LEMMA ChildStep ==
  ASSUME LocalInv, NEW r \in Requests, Step(r), NEW q \in Requests
  PROVE  ChildInv(q)'
<1>1. ChildInv(q) /\ KillInv(q)
  BY DEF LocalInv, RequestInv
<1> USE DEF LocalInv, TypeOK, ChildInv, Alive, Unreaped
<1>2. CASE MainMoves(r)
  BY <1>1, <1>2 DEF KillInv, MainMoves, Call, RejectCall,
     MainStep, Acquire, AcquireEnded, Recheck, SpawnFails, Spawn, SelectDone, SelectEnded,
     CloseStdin, Kill, CloseStdout, Join, Wait, Release, Interpret, Return, release, Go
<1>3. CASE ChildService(r) \/ ChildProgram(r)
  BY <1>1, <1>3 DEF ChildService, ChildReadExec, ChildReply, ChildExit, ChildStdinEOF, ChildProgram,
     ChildCall, ChildFinal, ChildCrash, Die
<1>4. CASE ~(MainMoves(r) \/ ChildService(r) \/ ChildProgram(r))
  <2>1. UNCHANGED child
    BY <1>4 DEF Step, MainMoves, EndContext, DispatchReturns,
     ExchangeStep, WriteExec, ReadFails, ReadCall, ReadFinal, FinalEOF, NativeEnded,
     NativeProtocol, NativeResult, NativeAbort, AbortEOF, Finish
  <2> QED
    BY <1>1, <1>4, <2>1, OthersLeaveMain
<1> QED
  BY <1>2, <1>3, <1>4

\* The exchange goroutine exists between Spawn and Join.
LEMMA ExchStep ==
  ASSUME LocalInv, NEW r \in Requests, Step(r), NEW q \in Requests
  PROVE  ExchInv(q)'
<1>1. ExchInv(q)
  BY DEF LocalInv, RequestInv
<1> USE DEF LocalInv, TypeOK, ExchInv, NoOutcome
<1>2. CASE MainMoves(r)
  BY <1>1, <1>2 DEF JoinReady, MainMoves, Call, RejectCall,
     MainStep, Acquire, AcquireEnded, Recheck, SpawnFails, Spawn, SelectDone, SelectEnded,
     CloseStdin, Kill, CloseStdout, Join, Wait, Release, Interpret, Return, release, Go
<1>3. CASE ExchangeStep(r)
  <2>1. CASE WriteExec(r)
    <3>1. CASE Writable(r)
      BY <1>1, <2>1, <3>1 DEF WriteExec
    <3>2. CASE ~Writable(r)
      BY <1>1, <2>1, <3>2 DEF WriteExec, Finish
    <3> QED
      BY <3>1, <3>2
  <2>2. CASE ReadFails(r)
    BY <1>1, <2>2 DEF ReadFails, Finish
  <2>3. CASE ReadCall(r)
    BY <1>1, <2>3 DEF ReadCall
  <2>4. CASE ReadFinal(r)
    BY <1>1, <2>4 DEF ReadFinal
  <2>5. CASE FinalEOF(r)
    <3>1. PICK o : Finish(r, o)
      BY <2>5 DEF FinalEOF
    <3> QED
      BY <1>1, <2>5, <3>1 DEF FinalEOF, Finish
  <2>6. CASE NativeEnded(r)
    BY <1>1, <2>6 DEF NativeEnded, Finish
  <2>7. CASE NativeProtocol(r)
    BY <1>1, <2>7 DEF NativeProtocol, Finish
  <2>8. CASE NativeResult(r)
    <3>1. CASE Writable(r)
      BY <1>1, <2>8, <3>1 DEF NativeResult
    <3>2. CASE ~Writable(r)
      BY <1>1, <2>8, <3>2 DEF NativeResult, Finish
    <3> QED
      BY <3>1, <3>2
  <2>9. CASE NativeAbort(r)
    BY <1>1, <2>9 DEF NativeAbort
  <2>10. CASE AbortEOF(r)
    BY <1>1, <2>10 DEF AbortEOF, Finish
  <2> QED
    BY <1>3, <2>1, <2>2, <2>3, <2>4, <2>5, <2>6, <2>7, <2>8, <2>9, <2>10 DEF ExchangeStep
<1>4. CASE ~(MainMoves(r) \/ ExchangeStep(r))
  <2>1. UNCHANGED <<exch, done>>
    BY <1>4 DEF Step, MainMoves, EndContext, DispatchReturns,
     ChildService, ChildReadExec, ChildReply, ChildExit, ChildStdinEOF, ChildProgram,
     ChildCall, ChildFinal, ChildCrash, Die
  <2> QED
    BY <1>1, <1>4, <2>1, OthersLeaveMain
<1> QED
  BY <1>2, <1>3, <1>4

\* An outcome without a kill is produced only for a process that has ended.
LEMMA KillStep ==
  ASSUME LocalInv, NEW r \in Requests, Step(r), NEW q \in Requests
  PROVE  KillInv(q)'
<1>1. KillInv(q) /\ ChildInv(q) /\ PipesInv(q) /\ ExchInv(q)
  BY DEF LocalInv, RequestInv
<1> USE DEF LocalInv, TypeOK, KillInv, Alive, NoOutcome
<1>2. CASE MainMoves(r)
  <2>1. CASE Call(r)
    BY <1>1, <2>1 DEF Call, Go
  <2>2. CASE RejectCall(r)
    BY <1>1, <2>2 DEF RejectCall, Go
  <2>3. CASE Acquire(r)
    BY <1>1, <2>3 DEF Acquire, PermitFree, Go
  <2>4. CASE AcquireEnded(r)
    BY <1>1, <2>4 DEF AcquireEnded, Return, classifyRunContext
  <2>5. CASE Recheck(r)
    BY <1>1, <2>5 DEF Recheck, Return, release, Go, classifyRunContext
  <2>6. CASE SpawnFails(r)
    BY <1>1, <2>6 DEF SpawnFails, Return, release
  <2>7. CASE Spawn(r)
    BY <1>1, <2>7 DEF Spawn, Go, ExchInv
  <2>8. CASE SelectDone(r)
    BY <1>1, <2>8 DEF SelectDone, Go
  <2>9. CASE SelectEnded(r)
    BY <1>1, <2>9 DEF SelectEnded, Go, EndedOutcome, Failure, classifyRunContext
  <2>10. CASE CloseStdin(r)
    BY <1>1, <2>10 DEF CloseStdin, Go
  <2>11. CASE Kill(r)
    BY <1>1, <2>11 DEF Kill, Go, ChildInv
  <2>12. CASE CloseStdout(r)
    BY <1>1, <2>12 DEF CloseStdout, Go
  <2>13. CASE Join(r)
    BY <1>1, <2>13 DEF Join, Go
  <2>14. CASE Wait(r)
    BY <1>1, <2>14 DEF Wait, Go
  <2>15. CASE Release(r)
    BY <1>1, <2>15 DEF Release, release, Go
  <2>16. CASE Interpret(r)
    BY <1>1, <2>16 DEF Interpret, Return, interpretExec, classifyRunContext
  <2> QED
    BY <1>2, <2>1, <2>2, <2>3, <2>4, <2>5, <2>6, <2>7, <2>8, <2>9, <2>10, <2>11, <2>12, <2>13, <2>14, <2>15, <2>16 DEF MainMoves, MainStep
<1>3. CASE ExchangeStep(r)
  BY <1>1, <1>3 DEF AtEOF, Closed, PipesInv, ChildInv, EndedOutcome, Failure, Retained, Succeeded,
     ExchangeStep, WriteExec, ReadFails, ReadCall, ReadFinal, FinalEOF, NativeEnded,
     NativeProtocol, NativeResult, NativeAbort, AbortEOF, Finish
<1>4. CASE ChildService(r) \/ ChildProgram(r)
  BY <1>1, <1>4 DEF ChildService, ChildReadExec, ChildReply, ChildExit, ChildStdinEOF, ChildProgram,
     ChildCall, ChildFinal, ChildCrash, Die
<1>5. CASE ~(MainMoves(r) \/ ExchangeStep(r) \/ ChildService(r) \/ ChildProgram(r))
  BY <1>1, <1>5, OthersLeaveMain DEF Step, MainMoves, EndContext, DispatchReturns
<1> QED
  BY <1>2, <1>3, <1>4, <1>5

\* A failed native call never turns into a value.
LEMMA ValueStep ==
  ASSUME LocalInv, NEW r \in Requests, Step(r), NEW q \in Requests
  PROVE  ValueInv(q)'
<1>1. ValueInv(q) /\ ExchInv(q)
  BY DEF LocalInv, RequestInv
<1> USE DEF LocalInv, TypeOK, ValueInv, NoOutcome, AbortResults
<1>2. CASE MainMoves(r)
  <2>1. CASE Call(r)
    BY <1>1, <2>1 DEF Call, Go, ExchInv
  <2>2. CASE RejectCall(r)
    BY <1>1, <2>2 DEF RejectCall, Go, ExchInv
  <2>3. CASE Acquire(r)
    BY <1>1, <2>3 DEF Acquire, PermitFree, Go, ExchInv
  <2>4. CASE AcquireEnded(r)
    BY <1>1, <2>4 DEF AcquireEnded, Return, classifyRunContext, ExchInv
  <2>5. CASE Recheck(r)
    BY <1>1, <2>5 DEF Recheck, Return, release, Go, classifyRunContext, ExchInv
  <2>6. CASE SpawnFails(r)
    BY <1>1, <2>6 DEF SpawnFails, Return, release, ExchInv
  <2>7. CASE Spawn(r)
    BY <1>1, <2>7 DEF Spawn, Go, ExchInv
  <2>8. CASE SelectDone(r)
    <3>1. done[r].kind \in {"value", "err", "retained", "none"}
      BY DEF Outcomes
    <3> QED
      BY <1>1, <2>8, <3>1 DEF SelectDone, Go, ExchInv
  <2>9. CASE SelectEnded(r)
    BY <1>1, <2>9 DEF SelectEnded, Go, EndedOutcome, Failure, classifyRunContext, ExchInv
  <2>10. CASE CloseStdin(r)
    BY <1>1, <2>10 DEF CloseStdin, Go, ExchInv
  <2>11. CASE Kill(r)
    BY <1>1, <2>11 DEF Kill, Go, ExchInv
  <2>12. CASE CloseStdout(r)
    BY <1>1, <2>12 DEF CloseStdout, Go, ExchInv
  <2>13. CASE Join(r)
    BY <1>1, <2>13 DEF Join, Go, ExchInv
  <2>14. CASE Wait(r)
    BY <1>1, <2>14 DEF Wait, Go, ExchInv
  <2>15. CASE Release(r)
    BY <1>1, <2>15 DEF Release, release, Go, ExchInv
  <2>16. CASE Interpret(r)
    <3>1. classifyRunContext(r) # "value"
      BY DEF classifyRunContext
    <3>2. q = r => (result'[q] = "value" => out[q].kind = "value")
      BY <1>1, <2>16, <3>1 DEF Interpret, Return, interpretExec
    <3> QED
      BY <1>1, <2>16, <3>2 DEF Interpret, Return, ExchInv
  <2> QED
    BY <1>2, <2>1, <2>2, <2>3, <2>4, <2>5, <2>6, <2>7, <2>8, <2>9, <2>10, <2>11, <2>12, <2>13, <2>14, <2>15, <2>16 DEF MainMoves, MainStep
<1>3. CASE ExchangeStep(r)
  <2>1. CASE WriteExec(r)
    BY <1>1, <2>1 DEF WriteExec, Writable, Alive, Finish, Failure
  <2>2. CASE ReadFails(r)
    BY <1>1, <2>2 DEF ReadFails, Finish, Failure
  <2>3. CASE ReadCall(r)
    BY <1>1, <2>3 DEF ReadCall, ExchInv
  <2>4. CASE ReadFinal(r)
    BY <1>1, <2>4 DEF ReadFinal
  <2>5. CASE FinalEOF(r)
    BY <1>1, <2>5 DEF FinalEOF, AtEOF, Closed, Finish, Failure, Succeeded
  <2>6. CASE NativeEnded(r)
    BY <1>1, <2>6 DEF NativeEnded, Finish, Failure, EndedOutcome, classifyRunContext
  <2>7. CASE NativeProtocol(r)
    BY <1>1, <2>7 DEF NativeProtocol, Finish, Failure
  <2>8. CASE NativeResult(r)
    BY <1>1, <2>8 DEF NativeResult, Writable, Alive, Finish, Failure
  <2>9. CASE NativeAbort(r)
    BY <1>1, <2>9 DEF NativeAbort, AbortResults
  <2>10. CASE AbortEOF(r)
    BY <1>1, <2>10 DEF AbortEOF, Finish, Retained, RetainedClass, ExchInv
  <2> QED
    BY <1>3, <2>1, <2>2, <2>3, <2>4, <2>5, <2>6, <2>7, <2>8, <2>9, <2>10 DEF ExchangeStep
<1>4. CASE ChildService(r) \/ ChildProgram(r)
  BY <1>1, <1>4 DEF ChildService, ChildReadExec, ChildReply, ChildExit, ChildStdinEOF, ChildProgram,
     ChildCall, ChildFinal, ChildCrash, Die
<1>5. CASE ~(MainMoves(r) \/ ExchangeStep(r) \/ ChildService(r) \/ ChildProgram(r))
  BY <1>1, <1>5, OthersLeaveMain DEF Step, MainMoves, EndContext, DispatchReturns
<1> QED
  BY <1>2, <1>3, <1>4, <1>5

\* Every step keeps every variable within its type, given the invariant.
LEMMA TypeStep ==
  ASSUME IInv, NEW r \in Requests, Step(r)
  PROVE  TypeOK'
<1> USE DEF IInv, TypeOK
<1>2. CASE MainMoves(r)
  <2>1. CASE Call(r)
    BY <2>1 DEF Call, Go
  <2>2. CASE RejectCall(r)
    BY <2>2 DEF RejectCall, Go
  <2>3. CASE Acquire(r)
    BY <2>3 DEF Acquire, PermitFree, Go
  <2>4. CASE AcquireEnded(r)
    BY <2>4 DEF AcquireEnded, Return, classifyRunContext
  <2>5. CASE Recheck(r)
    <3>1. classifyRunContext(r) \in Classes
      BY DEF classifyRunContext
    <3>2. sem - 1 \in 0..MaxConcurrentExecutions \/ ~held[r]
      BY HolderCounted
    <3>3. CASE CtxEnded(r)
      <4>1. release(r) /\ Return(r, classifyRunContext(r))
        BY <2>5, <3>3 DEF Recheck
      <4>2. sem' \in 0..MaxConcurrentExecutions /\ held' \in [Requests -> BOOLEAN]
        BY <3>2, <4>1 DEF release
      <4> QED
        BY <2>5, <3>1, <4>1, <4>2 DEF Recheck, Return
    <3>4. CASE ~CtxEnded(r)
      BY <2>5, <3>4 DEF Recheck, Go
    <3> QED
      BY <3>3, <3>4
  <2>6. CASE SpawnFails(r)
    BY <2>6, HolderCounted DEF SpawnFails, Return, release
  <2>7. CASE Spawn(r)
    BY <2>7 DEF Spawn, Go
  <2>8. CASE SelectDone(r)
    BY <2>8 DEF SelectDone, Go, Outcomes, NoOutcome
  <2>9. CASE SelectEnded(r)
    BY <2>9 DEF SelectEnded, Go, EndedOutcome, Failure, classifyRunContext, Outcomes, NoOutcome
  <2>10. CASE CloseStdin(r)
    BY <2>10 DEF CloseStdin, Go
  <2>11. CASE Kill(r)
    BY <2>11 DEF Kill, Go
  <2>12. CASE CloseStdout(r)
    BY <2>12 DEF CloseStdout, Go
  <2>13. CASE Join(r)
    BY <2>13 DEF Join, Go, Outcomes, NoOutcome
  <2>14. CASE Wait(r)
    BY <2>14 DEF Wait, Go
  <2>15. CASE Release(r)
    BY <2>15, HolderCounted DEF Release, release, Go
  <2>16. CASE Interpret(r)
    BY <2>16 DEF Interpret, Return, interpretExec, classifyRunContext, Outcomes, NoOutcome
  <2> QED
    BY <1>2, <2>1, <2>2, <2>3, <2>4, <2>5, <2>6, <2>7, <2>8, <2>9, <2>10, <2>11, <2>12, <2>13, <2>14, <2>15, <2>16 DEF MainMoves, MainStep
<1>3. CASE ExchangeStep(r)
  <2>1. CASE WriteExec(r)
    <3>1. Failure("Internal", TRUE) \in Outcomes
      BY DEF Failure, Outcomes
    <3>2. CASE Writable(r)
      BY <2>1, <3>2 DEF WriteExec
    <3>3. CASE ~Writable(r)
      <4>1. PICK o \in Outcomes : Finish(r, o)
        BY <2>1, <3>1, <3>3 DEF WriteExec
      <4> QED
        BY <2>1, <3>3, <4>1 DEF WriteExec, Finish
    <3> QED
      BY <3>2, <3>3
  <2>2. CASE ReadFails(r)
    BY <2>2 DEF ReadFails, Finish, Failure, Outcomes, NoOutcome
  <2>3. CASE ReadCall(r)
    BY <2>3 DEF ReadCall
  <2>4. CASE ReadFinal(r)
    BY <2>4 DEF ReadFinal
  <2>5. CASE FinalEOF(r)
    <3>1. Failure("Internal", TRUE) \in Outcomes /\ Failure("ChildError", FALSE) \in Outcomes
          /\ Succeeded \in Outcomes
      BY DEF Failure, Succeeded, Outcomes
    <3>2. PICK o \in Outcomes : Finish(r, o)
      BY <2>5, <3>1 DEF FinalEOF
    <3> QED
      BY <2>5, <3>2 DEF FinalEOF, Finish
  <2>6. CASE NativeEnded(r)
    BY <2>6 DEF NativeEnded, Finish, Failure, EndedOutcome, Outcomes, NoOutcome, classifyRunContext
  <2>7. CASE NativeProtocol(r)
    BY <2>7 DEF NativeProtocol, Finish, Failure, Outcomes, NoOutcome
  <2>8. CASE NativeResult(r)
    <3>1. Failure("Internal", TRUE) \in Outcomes
      BY DEF Failure, Outcomes
    <3>2. CASE Writable(r)
      BY <2>8, <3>2 DEF NativeResult
    <3>3. CASE ~Writable(r)
      <4>1. PICK o \in Outcomes : Finish(r, o)
        BY <2>8, <3>1, <3>3 DEF NativeResult
      <4> QED
        BY <2>8, <3>3, <4>1 DEF NativeResult, Finish
    <3> QED
      BY <3>2, <3>3
  <2>9. CASE NativeAbort(r)
    BY <2>9 DEF NativeAbort
  <2>10. CASE AbortEOF(r)
    <3>1. RetainedClass(callback[r]) \in Classes
      BY <2>10 DEF AbortEOF, RetainedClass, AbortResults, RequestInv, ValueInv
    <3> QED
      BY <2>10, <3>1 DEF AbortEOF, Finish, Retained, Outcomes, NoOutcome
  <2> QED
    BY <1>3, <2>1, <2>2, <2>3, <2>4, <2>5, <2>6, <2>7, <2>8, <2>9, <2>10 DEF ExchangeStep
<1>4. CASE ChildService(r) \/ ChildProgram(r)
  BY <1>4 DEF ChildService, ChildReadExec, ChildReply, ChildExit, ChildStdinEOF, ChildProgram,
     ChildCall, ChildFinal, ChildCrash, Die
<1>5. CASE ~(MainMoves(r) \/ ExchangeStep(r) \/ ChildService(r) \/ ChildProgram(r))
  BY <1>5, OthersLeaveMain DEF Step, MainMoves, EndContext, DispatchReturns
<1> QED
  BY <1>2, <1>3, <1>4, <1>5

-----------------------------------------------------------------------------
(* The theorems *)

\* The invariant holds initially.
LEMMA InitInv == Init => IInv
<1> SUFFICES ASSUME Init PROVE IInv
  OBVIOUS
<1>1. TypeOK
  BY DEF Init, TypeOK, Outcomes, NoOutcome
<1>2. SemCounts
  <2>1. Holders = {}
    BY DEF Init, Holders
  <2> QED
    BY <2>1, FS_EmptySet DEF Init, SemCounts
<1>3. ASSUME NEW r \in Requests PROVE RequestInv(r)
  BY DEF Init, RequestInv, PermitInv, ChildInv, PipesInv, ExchInv, KillInv, ValueInv,
     NoOutcome, Alive, Unreaped
<1> QED
  BY <1>1, <1>2, <1>3 DEF IInv

\* The semaphore counts the holders after every step.
LEMMA SemStep ==
  ASSUME IInv, NEW r \in Requests, Step(r)
  PROVE  SemCounts'
<1>1. CASE Acquire(r)
  BY <1>1, AcquireCounts DEF IInv
<1>2. CASE Recheck(r) \/ SpawnFails(r) \/ Release(r)
  BY <1>2, ReleaseCounts, SameCount DEF IInv, Recheck, SpawnFails, Release
<1>3. CASE ~(Acquire(r) \/ Recheck(r) \/ SpawnFails(r) \/ Release(r))
  <2>1. UNCHANGED <<sem, held>>
    <3>1. CASE MainMoves(r)
      BY <1>3, <3>1 DEF MainMoves, MainStep, Call, RejectCall, AcquireEnded, Spawn,
         SelectDone, SelectEnded, CloseStdin, Kill, CloseStdout, Join, Wait, Interpret
    <3> QED
      BY <3>1, OthersLeaveMain
  <2> QED
    BY <2>1, SameCount DEF IInv
<1> QED
  BY <1>1, <1>2, <1>3

\* The invariant is inductive.
LEMMA NextInv == IInv /\ [Next]_vars => IInv'
<1> SUFFICES ASSUME IInv, [Next]_vars PROVE IInv'
  OBVIOUS
<1>1. ASSUME NEW r \in Requests, Step(r) PROVE IInv'
  <2>1. LocalInv
    BY DEF IInv, LocalInv
  <2>2. TypeOK' /\ SemCounts'
    BY <1>1, TypeStep, SemStep
  <2>3. ASSUME NEW q \in Requests PROVE RequestInv(q)'
    BY <1>1, <2>1, PermitStep, ChildStep, PipesStep, ExchStep, KillStep, ValueStep DEF RequestInv
  <2> QED
    BY <2>2, <2>3 DEF IInv
<1>2. CASE UNCHANGED vars
  BY <1>2 DEF vars, IInv, TypeOK, SemCounts, Holders, RequestInv, PermitInv, ChildInv, PipesInv,
     ExchInv, KillInv, ValueInv, Alive, Unreaped
<1> QED
  BY <1>1, <1>2 DEF Next, Step, Quiescent

\* The invariant that finish, release and interpretExec rely on holds throughout.
THEOREM Invariance == Spec => []IInv
BY InitInv, NextInv, PTL DEF Spec

\* Type correctness of the runner: in particular the semaphore never holds fewer
\* than none nor more than MaxConcurrentExecutions permits.
THEOREM TypeCorrect == Spec => []TypeOK
<1>1. IInv => TypeOK
  BY DEF IInv
<1> QED
  BY <1>1, Invariance, PTL

\* The processes that exist are among the requests that hold a permit.
LEMMA WorkersHold ==
  ASSUME IInv
  PROVE  {r \in Requests : Unreaped(r)} \subseteq Holders
BY DEF IInv, RequestInv, PermitInv, ChildInv, Holders

\* However the requests interleave, there are never more worker processes than
\* MaxConcurrentExecutions.
THEOREM WorkersBounded == Spec => []LiveWorkersBounded
<1>1. IInv => LiveWorkersBounded
  <2> SUFFICES ASSUME IInv PROVE LiveWorkersBounded
    OBVIOUS
  <2>1. Cardinality({r \in Requests : Unreaped(r)}) <= Cardinality(Holders)
    BY WorkersHold, HoldersFinite, FS_Subset
  <2>2. IsFiniteSet({r \in Requests : Unreaped(r)})
    BY RequestsAssumption, FS_Subset
  <2>3. Cardinality({r \in Requests : Unreaped(r)}) \in Nat
    BY <2>2, FS_CardinalityType
  <2> QED
    BY <2>1, <2>3, HoldersFinite DEF IInv, SemCounts, TypeOK, LiveWorkersBounded
<1> QED
  BY <1>1, Invariance, PTL

\* Every return of Execute leaves no permit, process, pipe or exchange goroutine.
THEOREM ReturnIsClean == Spec => []NothingLeftBehind
<1>1. IInv => NothingLeftBehind
  BY DEF IInv, TypeOK, RequestInv, PermitInv, ChildInv, PipesInv, ExchInv, NothingLeftBehind
<1> QED
  BY <1>1, Invariance, PTL

\* The untimed cmd.Wait is only ever reached with a process that has exited.
THEOREM WaitNeverBlocks == Spec => []WaitOnlyForTheDead
<1>1. IInv => WaitOnlyForTheDead
  BY DEF IInv, RequestInv, ChildInv, WaitOnlyForTheDead
<1> QED
  BY <1>1, Invariance, PTL

\* No execution succeeds after one of its native calls failed.
THEOREM FailClosed == Spec => []FailedCallNeverSucceeds
<1>1. IInv => FailedCallNeverSucceeds
  BY DEF IInv, RequestInv, ValueInv, FailedCallNeverSucceeds
<1> QED
  BY <1>1, Invariance, PTL

-----------------------------------------------------------------------------
(* The runner implements the abstract service *)

Phase == [r \in Requests |-> PhaseOf(r)]

\* A request that does not move keeps its phase.
LEMMA SamePhase ==
  ASSUME NEW q \in Requests, pc'[q] = pc[q], child'[q] = child[q]
  PROVE  PhaseOf(q)' = PhaseOf(q)
BY DEF PhaseOf, Unreaped, Alive

\* A step changes the control and the process of its own request only.
LEMMA OthersStay ==
  ASSUME TypeOK, NEW r \in Requests, Step(r), NEW q \in Requests, q # r
  PROVE  pc'[q] = pc[q] /\ child'[q] = child[q] /\ result'[q] = result[q]
<1> USE DEF TypeOK
<1>1. CASE MainMoves(r)
  BY <1>1 DEF MainMoves, Call, RejectCall,
     MainStep, Acquire, AcquireEnded, Recheck, SpawnFails, Spawn, SelectDone, SelectEnded,
     CloseStdin, Kill, CloseStdout, Join, Wait, Release, Interpret, Return, Go
<1>2. CASE ~MainMoves(r)
  <2>1. CASE ChildService(r) \/ ChildProgram(r)
    BY <1>2, <2>1, OthersLeaveMain DEF
     ChildService, ChildReadExec, ChildReply, ChildExit, ChildStdinEOF, ChildProgram,
     ChildCall, ChildFinal, ChildCrash, Die
  <2>2. CASE ~(ChildService(r) \/ ChildProgram(r))
    <3>1. UNCHANGED child
      BY <1>2, <2>2 DEF Step, MainMoves, EndContext, DispatchReturns,
     ExchangeStep, WriteExec, ReadFails, ReadCall, ReadFinal, FinalEOF, NativeEnded,
     NativeProtocol, NativeResult, NativeAbort, AbortEOF
    <3> QED
      BY <1>2, <3>1, OthersLeaveMain
  <2> QED
    BY <2>1, <2>2
<1> QED
  BY <1>1, <1>2

\* When the phase of r becomes p, the phase function changes at r only.
LEMMA PhaseMoves ==
  ASSUME TypeOK, NEW r \in Requests, Step(r), NEW p, PhaseOf(r)' = p
  PROVE  Phase' = [Phase EXCEPT ![r] = p]
<1>1. \A q \in Requests : q # r => PhaseOf(q)' = PhaseOf(q)
  BY OthersStay, SamePhase
<1> QED
  BY <1>1 DEF Phase

\* A step of r that keeps its phase and answers nothing is invisible.
LEMMA Invisible ==
  ASSUME TypeOK, NEW r \in Requests, Step(r), PhaseOf(r)' = PhaseOf(r), UNCHANGED result
  PROVE  UNCHANGED Service!svars
<1>1. \A q \in Requests : PhaseOf(q)' = PhaseOf(q)
  BY OthersStay, SamePhase
<1> QED
  BY <1>1 DEF Service!svars

\* A step that makes Execute return c is the abstract answer c.
LEMMA Answered ==
  ASSUME TypeOK, NEW r \in Requests, Step(r), NEW c \in Classes,
         PhaseOf(r) \in {"idle", "pending", "stopped"},
         c = "value" => PhaseOf(r) = "stopped",
         PhaseOf(r)' = "answered", result' = [result EXCEPT ![r] = c]
  PROVE  Service!Next
<1>1. Phase' = [Phase EXCEPT ![r] = "answered"]
  BY PhaseMoves
<1>2. Service!Answer(r, c)
  BY <1>1 DEF Service!Answer, Phase
<1> QED
  BY <1>2 DEF Service!Next

\* The worker process of r comes into being while fewer than the limit exist.
LEMMA SpawnIsStart ==
  ASSUME IInv, NEW r \in Requests, Spawn(r)
  PROVE  Service!Start(r)
<1> DEFINE W == {q \in Requests : Unreaped(q)}
<1>1. r \in Holders /\ r \notin W
  BY DEF IInv, RequestInv, PermitInv, ChildInv, Spawn, Go, Holders
<1>2. W \subseteq Holders \ {r}
  BY <1>1, WorkersHold
<1>3. IsFiniteSet(Holders \ {r}) /\ Cardinality(Holders \ {r}) = sem - 1
  BY <1>1, HoldersFinite, FS_RemoveElement DEF IInv, SemCounts
<1>4. Cardinality(W) <= sem - 1
  BY <1>2, <1>3, FS_Subset
<1>5. Cardinality(W) \in Nat
  BY <1>2, <1>3, FS_Subset, FS_CardinalityType
<1>6. Cardinality(W) < MaxConcurrentExecutions
  BY <1>4, <1>5 DEF IInv, TypeOK
<1>7. Service!Working = W
  BY DEF Service!Working, PhaseOf, IInv, RequestInv, ChildInv
<1>8. Phase[r] = "pending" /\ PhaseOf(r)' = "working"
  BY DEF Phase, PhaseOf, IInv, TypeOK, RequestInv, ChildInv, Unreaped, Alive, Spawn, Go
<1>9. Phase' = [Phase EXCEPT ![r] = "working"]
  BY <1>8, PhaseMoves DEF Step, MainStep, IInv
<1>10. Service!Cardinality(Service!Working) = Cardinality(W)
  BY <1>7 DEF Service!Cardinality, Cardinality
<1>11. Service!Cardinality(Service!Working) < MaxConcurrentExecutions /\ UNCHANGED result
  BY <1>6, <1>10 DEF Spawn
<1> QED
  BY <1>8, <1>9, <1>11 DEF Service!Start, Phase

\* Every step of the runner is a step of the service or invisible to it.
LEMMA StepSimulates ==
  ASSUME IInv, NEW r \in Requests, Step(r)
  PROVE  [Service!Next]_(Service!svars)
<1> USE DEF IInv, TypeOK, RequestInv, ChildInv, PhaseOf, Unreaped, Alive
<1>0. TypeOK
  OBVIOUS
<1>1. CASE Call(r)
  <2>1. Phase[r] = "idle" /\ PhaseOf(r)' = "pending" /\ UNCHANGED result
    BY <1>1 DEF Call, Go, Phase
  <2>2. Phase' = [Phase EXCEPT ![r] = "pending"]
    BY <1>0, <2>1, PhaseMoves
  <2>3. Service!Submit(r)
    BY <2>1, <2>2 DEF Service!Submit, Phase
  <2> QED
    BY <2>3 DEF Service!Next
<1>2. CASE RejectCall(r)
  <2>1. PICK c \in {"Internal", "ResourceLimit"} : result' = [result EXCEPT ![r] = c]
    BY <1>2 DEF RejectCall
  <2>2. PhaseOf(r) = "idle" /\ PhaseOf(r)' = "answered"
    BY <1>2 DEF RejectCall, Go
  <2> QED
    BY <1>0, <2>1, <2>2, Answered
<1>3. CASE \E c \in Classes \ {"value"} : Return(r, c) /\ UNCHANGED child /\ pc[r] \in BeforeSpawn \ {"idle"}
  <2>1. PICK c \in Classes \ {"value"} : Return(r, c)
    BY <1>3
  <2>2. PhaseOf(r) = "pending" /\ PhaseOf(r)' = "answered" /\ result' = [result EXCEPT ![r] = c]
    BY <1>3, <2>1 DEF Return
  <2> QED
    BY <1>0, <2>1, <2>2, Answered
<1>4. CASE Spawn(r)
  BY <1>4, SpawnIsStart DEF Service!Next
<1>5. CASE Wait(r)
  <2>1. Phase[r] = "working" /\ PhaseOf(r)' = "stopped" /\ UNCHANGED result
    BY <1>5 DEF Wait, Go, Phase
  <2>2. Phase' = [Phase EXCEPT ![r] = "stopped"]
    BY <1>0, <2>1, PhaseMoves
  <2>3. Service!Stop(r)
    BY <2>1, <2>2 DEF Service!Stop, Phase
  <2> QED
    BY <2>3 DEF Service!Next
<1>6. CASE Interpret(r)
  <2>1. interpretExec(r) \in Classes
    BY DEF interpretExec, classifyRunContext, Outcomes, NoOutcome, ValueInv
  <2>2. PhaseOf(r) = "stopped" /\ PhaseOf(r)' = "answered"
    BY <1>6 DEF Interpret, Return
  <2>3. result' = [result EXCEPT ![r] = interpretExec(r)]
    BY <1>6 DEF Interpret, Return
  <2> QED
    BY <1>0, <2>1, <2>2, <2>3, Answered
<1>7. CASE \/ Acquire(r) \/ SelectDone(r) \/ SelectEnded(r) \/ CloseStdin(r) \/ Kill(r)
           \/ CloseStdout(r) \/ Join(r) \/ Release(r)
           \/ (Recheck(r) /\ ~CtxEnded(r))
  <2>1. PhaseOf(r)' = PhaseOf(r) /\ UNCHANGED result
    BY <1>7 DEF Acquire, SelectDone, SelectEnded, CloseStdin, Kill, CloseStdout, Join, Release, Recheck, Go
  <2> QED
    BY <1>0, <2>1, Invisible
<1>8. CASE ~MainMoves(r)
  <2>1. PhaseOf(r)' = PhaseOf(r)
    <3>1. CASE ChildService(r) \/ ChildProgram(r)
      BY <1>8, <3>1, OthersLeaveMain DEF
       ChildService, ChildReadExec, ChildReply, ChildExit, ChildStdinEOF, ChildProgram,
       ChildCall, ChildFinal, ChildCrash, Die
    <3>2. CASE ~(ChildService(r) \/ ChildProgram(r))
      <4>1. UNCHANGED child
        BY <1>8, <3>2 DEF Step, MainMoves, EndContext, DispatchReturns,
         ExchangeStep, WriteExec, ReadFails, ReadCall, ReadFinal, FinalEOF, NativeEnded,
         NativeProtocol, NativeResult, NativeAbort, AbortEOF
      <4> QED
        BY <1>8, <4>1, OthersLeaveMain
    <3> QED
      BY <3>1, <3>2
  <2> QED
    BY <1>0, <1>8, <2>1, OthersLeaveMain, Invisible
<1>9. CASE AcquireEnded(r) \/ (Recheck(r) /\ CtxEnded(r)) \/ SpawnFails(r)
  <2>1. classifyRunContext(r) \in Classes \ {"value"}
    BY DEF classifyRunContext
  <2> QED
    BY <1>3, <1>9, <2>1 DEF AcquireEnded, Recheck, SpawnFails
<1> QED
  BY <1>1, <1>2, <1>4, <1>5, <1>6, <1>7, <1>8, <1>9 DEF MainMoves, MainStep

\* The runner implements the service that ExecuteService specifies: at most one
\* process per call, never more than the limit at a time, an answer only when the
\* process is gone, and a value only from a call that had one.
THEOREM Refinement == Spec => ImplementsService
<1>1. Init => Service!Init
  BY DEF Init, Service!Init, PhaseOf, Unreaped, Alive
<1>2. IInv /\ [Next]_vars => [Service!Next]_(Service!svars)
  <2> SUFFICES ASSUME IInv, [Next]_vars PROVE [Service!Next]_(Service!svars)
    OBVIOUS
  <2>1. ASSUME NEW r \in Requests, Step(r) PROVE [Service!Next]_(Service!svars)
    BY <2>1, StepSimulates
  <2>2. CASE UNCHANGED vars
    BY <2>2 DEF vars, Service!svars, PhaseOf, Unreaped, Alive
  <2> QED
    BY <2>1, <2>2 DEF Next, Step, Quiescent
<1> QED
  BY <1>1, <1>2, Invariance, PTL DEF Spec, ImplementsService, Service!Spec
-----------------------------------------------------------------------------
(* Who ended the process, and why an exchange failed *)

\* A step of r leaves everything of another request alone.
LEMMA Frame ==
  ASSUME TypeOK, NEW r \in Requests, Step(r), NEW q \in Requests, q # r
  PROVE  /\ ctx'[q] = ctx[q] /\ pc'[q] = pc[q] /\ pipes'[q] = pipes[q] /\ child'[q] = child[q]
         /\ status'[q] = status[q] /\ toChild'[q] = toChild[q] /\ toParent'[q] = toParent[q]
         /\ exch'[q] = exch[q] /\ callback'[q] = callback[q] /\ done'[q] = done[q]
         /\ out'[q] = out[q] /\ result'[q] = result[q]
<1> USE DEF TypeOK
<1>1. CASE MainMoves(r)
  BY <1>1 DEF MainMoves, Call, RejectCall,
     MainStep, Acquire, AcquireEnded, Recheck, SpawnFails, Spawn, SelectDone, SelectEnded,
     CloseStdin, Kill, CloseStdout, Join, Wait, Release, Interpret, Return, Go
<1>2. CASE ExchangeStep(r)
  <2>1. CASE WriteExec(r)
    <3>1. CASE Writable(r)
      BY <2>1, <3>1 DEF WriteExec
    <3>2. CASE ~Writable(r)
      BY <2>1, <3>2 DEF WriteExec, Finish
    <3> QED
      BY <3>1, <3>2
  <2>2. CASE NativeResult(r)
    <3>1. CASE Writable(r)
      BY <2>2, <3>1 DEF NativeResult
    <3>2. CASE ~Writable(r)
      BY <2>2, <3>2 DEF NativeResult, Finish
    <3> QED
      BY <3>1, <3>2
  <2>3. CASE ReadFails(r) \/ FinalEOF(r) \/ NativeEnded(r) \/ NativeProtocol(r) \/ AbortEOF(r)
    <3>1. PICK o : Finish(r, o)
      BY <2>3 DEF ReadFails, FinalEOF, NativeEnded, NativeProtocol, AbortEOF
    <3>2. UNCHANGED <<ctx, mainVars, procVars, callback>>
      BY <2>3 DEF ReadFails, FinalEOF, NativeEnded, NativeProtocol, AbortEOF
    <3> QED
      BY <3>1, <3>2 DEF Finish
  <2>4. CASE ReadCall(r) \/ NativeAbort(r)
    BY <2>4 DEF ReadCall, NativeAbort
  <2>5. CASE ReadFinal(r)
    BY <2>5 DEF ReadFinal
  <2> QED
    BY <1>2, <2>1, <2>2, <2>3, <2>4, <2>5 DEF ExchangeStep
<1>3. CASE ChildService(r) \/ ChildProgram(r)
  BY <1>3 DEF ChildService, ChildReadExec, ChildReply, ChildExit, ChildStdinEOF, ChildProgram,
     ChildCall, ChildFinal, ChildCrash, Die
<1>4. CASE \/ EndContext(r, "canceled") \/ EndContext(r, "deadline")
           \/ \E res \in Callbacks \ {"none", "running"} : DispatchReturns(r, res)
  BY <1>4 DEF EndContext, DispatchReturns
<1> QED
  BY <1>1, <1>2, <1>3, <1>4 DEF Step, MainMoves

\* A request that does not move keeps the invariant.
LEMMA StillAnswer ==
  ASSUME NEW q \in Requests, AnswerInv(q),
         ctx'[q] = ctx[q], pc'[q] = pc[q], pipes'[q] = pipes[q], child'[q] = child[q],
         status'[q] = status[q], toChild'[q] = toChild[q], toParent'[q] = toParent[q],
         exch'[q] = exch[q], callback'[q] = callback[q], done'[q] = done[q], out'[q] = out[q]
  PROVE  AnswerInv(q)'
BY DEF AnswerInv, StatusInv, DialogInv, CauseInv, OutcomeTrue, Excused, CtxEnded, AbortResults,
       RetainedClass

\* Every step keeps the account of how the process ended.
LEMMA StatusStep ==
  ASSUME IInv, NEW r \in Requests, AnswerInv(r), Step(r)
  PROVE  StatusInv(r)'
<1>1. StatusInv(r) /\ ChildInv(r) /\ PipesInv(r)
  BY DEF IInv, RequestInv, AnswerInv
<1> USE DEF IInv, TypeOK, StatusInv, ChildInv, Unreaped, Alive
<1>2. CASE MainMoves(r)
  <2>1. CASE Call(r) \/ RejectCall(r) \/ Acquire(r) \/ AcquireEnded(r) \/ Recheck(r) \/ SpawnFails(r)
    BY <1>1, <2>1 DEF Call, RejectCall, Acquire, AcquireEnded, Recheck, SpawnFails, Return, Go
  <2>2. CASE Spawn(r) \/ CloseStdin(r) \/ CloseStdout(r) \/ Join(r) \/ Wait(r) \/ Release(r)
    BY <1>1, <2>2 DEF Spawn, CloseStdin, CloseStdout, Join, Wait, Release, Go
  <2>3. CASE SelectDone(r) \/ SelectEnded(r)
    BY <1>1, <2>3 DEF SelectDone, SelectEnded, Go
  <2>4. CASE Kill(r)
    BY <1>1, <2>4 DEF Kill, Go, PipesInv
  <2>5. CASE Interpret(r)
    BY <1>1, <2>5 DEF Interpret, Return
  <2> QED
    BY <1>2, <2>1, <2>2, <2>3, <2>4, <2>5 DEF MainMoves, MainStep
<1>3. CASE ChildService(r) \/ ChildProgram(r)
  BY <1>1, <1>3 DEF PipesInv, ChildService, ChildReadExec, ChildReply, ChildExit, ChildStdinEOF,
     ChildProgram, ChildCall, ChildFinal, ChildCrash, Die
<1>4. CASE ~(MainMoves(r) \/ ChildService(r) \/ ChildProgram(r))
  <2>1. UNCHANGED <<child, status>>
    BY <1>4 DEF Step, MainMoves, EndContext, DispatchReturns,
     ExchangeStep, WriteExec, ReadFails, ReadCall, ReadFinal, FinalEOF, NativeEnded,
     NativeProtocol, NativeResult, NativeAbort, AbortEOF, Finish
  <2> QED
    BY <1>1, <1>4, <2>1, OthersLeaveMain
<1> QED
  BY <1>2, <1>3, <1>4

\* Every step keeps the account of the conversation.
LEMMA DialogStep ==
  ASSUME IInv, NEW r \in Requests, AnswerInv(r), Step(r)
  PROVE  DialogInv(r)'
<1>1. DialogInv(r) /\ StatusInv(r) /\ ChildInv(r) /\ PipesInv(r) /\ ExchInv(r)
  BY DEF IInv, RequestInv, AnswerInv
<1> USE DEF IInv, TypeOK, DialogInv, Alive
<1>2. CASE MainMoves(r)
  <2>1. CASE Spawn(r)
    BY <1>1, <2>1 DEF Spawn, Go, ChildInv, StatusInv
  <2>2. CASE Kill(r)
    BY <1>1, <2>2 DEF Kill, Go
  <2>3. CASE Wait(r)
    BY <1>1, <2>3 DEF Wait, Go, ExchInv
  <2>4. CASE Interpret(r)
    BY <1>1, <2>4 DEF Interpret, Return, ExchInv, ChildInv
  <2>5. CASE ~(Spawn(r) \/ Kill(r) \/ Wait(r) \/ Interpret(r))
    <3>1. UNCHANGED <<child, status, toChild, toParent, exch>>
      BY <1>2, <2>5 DEF MainMoves, Call, RejectCall, MainStep, Acquire, AcquireEnded, Recheck,
         SpawnFails, SelectDone, SelectEnded, CloseStdin, CloseStdout, Join, Release
    <3> QED
      BY <1>1, <3>1
  <2> QED
    BY <2>1, <2>2, <2>3, <2>4, <2>5
<1>3. CASE ExchangeStep(r)
  <2>1. CASE WriteExec(r)
    <3>1. CASE Writable(r)
      BY <1>1, <2>1, <3>1 DEF WriteExec
    <3>2. CASE ~Writable(r)
      BY <1>1, <2>1, <3>2 DEF WriteExec, Finish
    <3> QED
      BY <3>1, <3>2
  <2>2. CASE ReadCall(r) \/ ReadFinal(r)
    BY <1>1, <2>2 DEF ReadCall, ReadFinal, FrameReady
  <2>3. CASE NativeResult(r)
    <3>1. CASE Writable(r)
      BY <1>1, <2>3, <3>1 DEF NativeResult
    <3>2. CASE ~Writable(r)
      BY <1>1, <2>3, <3>2 DEF NativeResult, Finish
    <3> QED
      BY <3>1, <3>2
  <2>4. CASE NativeAbort(r)
    BY <1>1, <2>4 DEF NativeAbort
  <2>5. CASE ReadFails(r) \/ FinalEOF(r) \/ NativeEnded(r) \/ NativeProtocol(r) \/ AbortEOF(r)
    <3>1. exch' = [exch EXCEPT ![r] = "finished"] /\ UNCHANGED procVars
      BY <2>5 DEF ReadFails, FinalEOF, NativeEnded, NativeProtocol, AbortEOF, Finish
    <3> QED
      BY <1>1, <3>1
  <2> QED
    BY <1>3, <2>1, <2>2, <2>3, <2>4, <2>5 DEF ExchangeStep
<1>4. CASE ChildService(r) \/ ChildProgram(r)
  BY <1>1, <1>4 DEF StatusInv, ExchInv, ChildInv, Unreaped, PipesInv,
     ChildService, ChildReadExec, ChildReply, ChildExit, ChildStdinEOF,
     ChildProgram, ChildCall, ChildFinal, ChildCrash, Die
<1>5. CASE ~(MainMoves(r) \/ ExchangeStep(r) \/ ChildService(r) \/ ChildProgram(r))
  BY <1>1, <1>5 DEF Step, MainMoves, EndContext, DispatchReturns
<1> QED
  BY <1>2, <1>3, <1>4, <1>5

\* The exchange reports an outcome that is true.
LEMMA FinishCause ==
  ASSUME IInv, NEW r \in Requests, AnswerInv(r), exch[r] \notin {"none", "finished"},
         NEW o, Finish(r, o), UNCHANGED <<ctx, mainVars, procVars, callback>>, OutcomeTrue(r, o),
         o.kind = "value" => o = Succeeded /\ child[r] = "exited" /\ status[r] # "one"
  PROVE  CauseInv(r)'
<1>1. CauseInv(r) /\ ExchInv(r)
  BY DEF AnswerInv, IInv, RequestInv
<1>2. done'[r] = o /\ exch'[r] = "finished"
  BY DEF Finish, IInv, TypeOK
<1> QED
  BY <1>1, <1>2 DEF CauseInv, ExchInv, OutcomeTrue, Excused, CtxEnded, AbortResults, RetainedClass,
     Succeeded

\* A failure of the exchange that is not the parent's own is that of a dead process:
\* as long as main is in its select nothing has closed the pipes or killed it.
LEMMA DeadBySelf ==
  ASSUME IInv, NEW r \in Requests, AnswerInv(r), exch[r] \notin {"none", "finished"},
         \/ "stdin" \notin pipes[r] \/ "stdout" \notin pipes[r]
         \/ ~Alive(r) /\ status[r] # "zero"
  PROVE  Excused(r)
<1>1. StatusInv(r) /\ CauseInv(r) /\ PipesInv(r) /\ ChildInv(r) /\ ExchInv(r)
  BY DEF AnswerInv, IInv, RequestInv
<1>2. CASE pc[r] # "running"
  BY <1>1, <1>2 DEF CauseInv, Excused
<1>3. CASE pc[r] = "running"
  BY <1>1, <1>3 DEF StatusInv, PipesInv, ChildInv, Excused, IInv, TypeOK, Alive, Unreaped
<1> QED
  BY <1>2, <1>3

\* The failures that the exchange itself makes out are excused.
LEMMA FailureTrue ==
  ASSUME NEW r \in Requests, Excused(r)
  PROVE  OutcomeTrue(r, Failure("Internal", TRUE)) /\ Failure("Internal", TRUE).kind # "value"
BY DEF OutcomeTrue, Failure

\* Every step keeps the outcomes true.
LEMMA CauseStep ==
  ASSUME IInv, NEW r \in Requests, AnswerInv(r), Step(r)
  PROVE  CauseInv(r)'
<1>1. /\ CauseInv(r) /\ StatusInv(r) /\ DialogInv(r)
      /\ ChildInv(r) /\ PipesInv(r) /\ ExchInv(r) /\ ValueInv(r)
  BY DEF IInv, RequestInv, AnswerInv
<1>2. /\ done[r].kind = "none" => ~done[r].kill
      /\ out[r].kind = "none" => ~out[r].kill
  BY DEF IInv, TypeOK, Outcomes, NoOutcome
<1>3. NoOutcome.kind = "none" /\ NoOutcome.kill = FALSE
  BY DEF NoOutcome
<1> USE DEF IInv, TypeOK, CtxEnded, Excused, AbortResults, RetainedClass
<1>4. CASE MainMoves(r)
  <2>1. CASE Call(r) \/ RejectCall(r) \/ Acquire(r)
    BY <1>1, <2>1 DEF Call, RejectCall, Acquire, Go, CauseInv, OutcomeTrue, ExchInv
  <2>2. CASE AcquireEnded(r) \/ Recheck(r) \/ SpawnFails(r)
    BY <1>1, <2>2 DEF AcquireEnded, Recheck, SpawnFails, Return, Go, CauseInv, OutcomeTrue, ExchInv
  <2>3. CASE Spawn(r)
    BY <1>1, <2>3 DEF Spawn, Go, CauseInv, OutcomeTrue, ExchInv
  <2>4. CASE SelectDone(r)
    <3>1. out'[r] = done[r] /\ done'[r] = NoOutcome /\ pc'[r] = "closeStdin" /\ exch[r] = "finished"
      BY <1>1, <2>4 DEF SelectDone, Go, ExchInv
    <3>2. done[r].kind = "value" => status[r] \in {"zero", "crash"}
      BY <1>1, <2>4 DEF SelectDone, Go, CauseInv, StatusInv
    <3> QED
      BY <1>1, <1>3, <2>4, <3>1, <3>2 DEF SelectDone, CauseInv, OutcomeTrue
  <2>5. CASE SelectEnded(r)
    <3>1. out'[r] = EndedOutcome(r) /\ pc'[r] = "closeStdin"
      BY <2>5 DEF SelectEnded, Go
    <3>2. OutcomeTrue(r, EndedOutcome(r)) /\ EndedOutcome(r).kind = "err"
      BY <2>5 DEF SelectEnded, OutcomeTrue, EndedOutcome, Failure
    <3> QED
      BY <1>1, <2>5, <3>1, <3>2 DEF SelectEnded, CauseInv, OutcomeTrue
  <2>6. CASE CloseStdin(r) \/ CloseStdout(r) \/ Release(r)
    BY <1>1, <2>6 DEF CloseStdin, CloseStdout, Release, Go, CauseInv, OutcomeTrue
  <2>7. CASE Kill(r)
    BY <1>1, <2>7 DEF Kill, Go, CauseInv, OutcomeTrue, StatusInv, Alive
  <2>8. CASE Join(r)
    BY <1>1, <1>3, <2>8 DEF Join, JoinReady, Go, CauseInv, OutcomeTrue
  <2>9. CASE Wait(r)
    BY <1>1, <2>9 DEF Wait, Go, CauseInv, OutcomeTrue
  <2>10. CASE Interpret(r)
    BY <1>1, <1>3, <2>10 DEF Interpret, Return, CauseInv, OutcomeTrue, ExchInv
  <2> QED
    BY <1>4, <2>1, <2>2, <2>3, <2>4, <2>5, <2>6, <2>7, <2>8, <2>9, <2>10 DEF MainMoves, MainStep
<1>5. CASE ExchangeStep(r)
  <2>1. CASE WriteExec(r)
    <3>1. CASE Writable(r)
      BY <1>1, <2>1, <3>1 DEF WriteExec, CauseInv, OutcomeTrue
    <3>2. CASE ~Writable(r)
      <4>1. Excused(r)
        BY <1>1, <2>1, <3>2, DeadBySelf DEF WriteExec, Writable, DialogInv
      <4> QED
        BY <2>1, <3>2, <4>1, FailureTrue, FinishCause DEF WriteExec
    <3> QED
      BY <3>1, <3>2
  <2>2. CASE ReadFails(r)
    <3>1. Excused(r)
      BY <1>1, <2>2, DeadBySelf DEF ReadFails, AtEOF, Closed, DialogInv
    <3> QED
      BY <2>2, <3>1, FailureTrue, FinishCause DEF ReadFails
  <2>3. CASE ReadCall(r)
    BY <1>1, <1>2, <2>3 DEF ReadCall, CauseInv, OutcomeTrue, ExchInv, ValueInv
  <2>4. CASE ReadFinal(r)
    BY <1>1, <2>4 DEF ReadFinal, CauseInv, OutcomeTrue
  <2>5. CASE FinalEOF(r)
    <3>1. CASE AtEOF(r)
      <4>1. Finish(r, IF exch[r] = "finalEOF" THEN Succeeded ELSE Failure("ChildError", FALSE))
            \/ Closed(r)
        BY <2>5, <3>1 DEF FinalEOF
      <4>2. ~Closed(r) /\ child[r] = "exited" /\ status[r] # "one"
        BY <1>1, <2>5, <3>1 DEF FinalEOF, AtEOF, Closed, DialogInv, Alive
      <4>3. OutcomeTrue(r, Succeeded) /\ OutcomeTrue(r, Failure("ChildError", FALSE))
            /\ Failure("ChildError", FALSE).kind # "value"
        BY DEF OutcomeTrue, Succeeded, Failure
      <4> QED
        BY <2>5, <4>1, <4>2, <4>3, FinishCause DEF FinalEOF
    <3>2. CASE ~AtEOF(r)
      <4>1. Excused(r)
        BY <2>5, <3>2, DeadBySelf DEF FinalEOF, Closed
      <4> QED
        BY <2>5, <3>2, <4>1, FailureTrue, FinishCause DEF FinalEOF
    <3> QED
      BY <3>1, <3>2
  <2>6. CASE NativeEnded(r)
    <3>1. OutcomeTrue(r, EndedOutcome(r)) /\ EndedOutcome(r).kind # "value"
      BY <2>6 DEF NativeEnded, GivesUp, OutcomeTrue, EndedOutcome, Failure
    <3> QED
      BY <2>6, <3>1, FinishCause DEF NativeEnded
  <2>7. CASE NativeProtocol(r)
    BY <2>7, FailureTrue, FinishCause DEF NativeProtocol
  <2>8. CASE NativeResult(r)
    <3>1. CASE Writable(r)
      BY <1>1, <1>2, <2>8, <3>1 DEF NativeResult, CauseInv, OutcomeTrue, ExchInv
    <3>2. CASE ~Writable(r)
      <4>1. Excused(r)
        BY <1>1, <2>8, <3>2, DeadBySelf DEF NativeResult, Writable, DialogInv
      <4> QED
        BY <2>8, <3>2, <4>1, FailureTrue, FinishCause DEF NativeResult
    <3> QED
      BY <3>1, <3>2
  <2>9. CASE NativeAbort(r)
    BY <1>1, <2>9 DEF NativeAbort, CauseInv, OutcomeTrue
  <2>10. CASE AbortEOF(r)
    <3>1. OutcomeTrue(r, Retained(RetainedClass(callback[r])))
          /\ Retained(RetainedClass(callback[r])).kind # "value"
      BY <1>1, <2>10 DEF AbortEOF, ValueInv, OutcomeTrue, Retained
    <3> QED
      BY <2>10, <3>1, FinishCause DEF AbortEOF
  <2> QED
    BY <1>5, <2>1, <2>2, <2>3, <2>4, <2>5, <2>6, <2>7, <2>8, <2>9, <2>10 DEF ExchangeStep
<1>6. CASE ChildService(r) \/ ChildProgram(r)
  BY <1>1, <1>6 DEF CauseInv, OutcomeTrue, StatusInv, Alive,
     ChildService, ChildReadExec, ChildReply, ChildExit, ChildStdinEOF,
     ChildProgram, ChildCall, ChildFinal, ChildCrash, Die
<1>7. CASE EndContext(r, "canceled") \/ EndContext(r, "deadline")
  BY <1>1, <1>7 DEF EndContext, CauseInv, OutcomeTrue
<1>8. CASE \E res \in Callbacks \ {"none", "running"} : DispatchReturns(r, res)
  BY <1>1, <1>8 DEF DispatchReturns, CauseInv, OutcomeTrue
<1> QED
  BY <1>4, <1>5, <1>6, <1>7, <1>8 DEF Step, MainMoves

\* Both invariants hold of every execution.
THEOREM AnswerInvariance == Spec => []AInv
<1>1. Init => AInv
  <2>1. ASSUME Init, NEW r \in Requests PROVE AnswerInv(r)
    BY <2>1 DEF Init, AnswerInv, StatusInv, DialogInv, CauseInv, OutcomeTrue, NoOutcome
  <2> QED
    BY <2>1, InitInv DEF AInv
<1>2. AInv /\ [Next]_vars => AInv'
  <2> SUFFICES ASSUME AInv, [Next]_vars PROVE AInv'
    OBVIOUS
  <2>1. IInv'
    BY NextInv DEF AInv
  <2>2. ASSUME NEW r \in Requests, Step(r), NEW q \in Requests PROVE AnswerInv(q)'
    <3>1. CASE q = r
      BY <2>2, <3>1, StatusStep, DialogStep, CauseStep DEF AInv, AnswerInv
    <3>2. CASE q # r
      BY <2>2, <3>2, Frame, StillAnswer DEF AInv, IInv
    <3> QED
      BY <3>1, <3>2
  <2>3. ASSUME UNCHANGED vars, NEW q \in Requests PROVE AnswerInv(q)'
    BY <2>3, StillAnswer DEF AInv, vars
  <2> QED
    BY <2>1, <2>2, <2>3 DEF AInv, Next, Step, Quiescent
<1> QED
  BY <1>1, <1>2, PTL DEF Spec

\* The steps with which Execute returns.
Returns(r) == RejectCall(r) \/ AcquireEnded(r) \/ Recheck(r) \/ SpawnFails(r) \/ Interpret(r)

\* Nothing else makes a request answered.
LEMMA AnsweringReturns ==
  ASSUME IInv, [Next]_vars, NEW r \in Requests, Answering(r)
  PROVE  Returns(r)
<1> USE DEF IInv, TypeOK, Answering
<1>1. PICK q \in Requests : Step(q)
  BY DEF Next, Step, Quiescent, vars
<1>2. q = r
  BY <1>1, Frame
<1>3. MainMoves(r)
  BY <1>1, <1>2, OthersLeaveMain
<1> QED
  BY <1>3 DEF MainMoves, MainStep, Returns, Call, Acquire, Spawn, SelectDone, SelectEnded,
     CloseStdin, Kill, CloseStdout, Join, Wait, Release, Go

\* What Interpret answers for each outcome, given that outcomes are true.
LEMMA InterpretTrue ==
  ASSUME IInv, NEW r \in Requests, AnswerInv(r), pc[r] = "interpret"
  PROVE  /\ interpretExec(r) = "value" => status[r] = "zero" /\ out[r] = Succeeded
         /\ interpretExec(r) = "Internal" =>
              status[r] = "crash" \/ callback[r] \in {"ErrProtocol", "Internal"}
         /\ status[r] = "killed" /\ callback[r] # "ErrProtocol" =>
              interpretExec(r) = IF ctx[r] = "canceled" THEN "Canceled" ELSE "Deadline"
<1>1. CauseInv(r) /\ StatusInv(r) /\ ValueInv(r) /\ ChildInv(r)
  BY DEF AnswerInv, IInv, RequestInv
<1>2. CtxEnded(r) => classifyRunContext(r) = IF ctx[r] = "canceled" THEN "Canceled" ELSE "Deadline"
  BY DEF CtxEnded, classifyRunContext, IInv, TypeOK
<1>3. CASE out[r].kind = "retained"
  <2>1. interpretExec(r) = RetainedClass(callback[r]) /\ callback[r] \in AbortResults /\ ~out[r].kill
    BY <1>1, <1>3 DEF interpretExec, CauseInv, OutcomeTrue
  <2>2. RetainedClass(callback[r]) # "value"
    BY <2>1 DEF RetainedClass, AbortResults
  <2>3. RetainedClass(callback[r]) = "Internal" => callback[r] = "Internal"
    BY DEF RetainedClass
  <2>4. status[r] # "killed"
    BY <1>1, <2>1 DEF StatusInv
  <2> QED
    BY <2>1, <2>2, <2>3, <2>4
<1>4. CASE out[r].kind = "err"
  <2>1. CASE CtxEnded(r)
    BY <1>2, <1>4, <2>1 DEF interpretExec
  <2>2. CASE ~CtxEnded(r)
    BY <1>1, <1>4, <2>2 DEF interpretExec, CauseInv, OutcomeTrue, Excused, ValueInv
  <2> QED
    BY <2>1, <2>2
<1>5. CASE out[r].kind = "value"
  <2>1. out[r] = Succeeded /\ status[r] \in {"zero", "crash"} /\ out[r].kind = "value" /\ ~out[r].kill
    BY <1>1, <1>5 DEF CauseInv, Succeeded
  <2> QED
    BY <1>2, <2>1 DEF interpretExec, waitErr
<1> QED
  BY <1>1, <1>3, <1>4, <1>5 DEF ValueInv

\* A value is answered only for a worker that sent its final frame, closed its output
\* and exited with status 0.
THEOREM EarnedSuccess == Spec => SuccessIsEarned
<1>1. ASSUME AInv, [Next]_vars, NEW r \in Requests, Answering(r), result'[r] = "value"
      PROVE  status[r] = "zero" /\ out[r] = Succeeded
  <2>1. Returns(r)
    BY <1>1, AnsweringReturns DEF AInv
  <2>2. CASE Interpret(r)
    <3>1. result'[r] = interpretExec(r) /\ pc[r] = "interpret"
      BY <1>1, <2>2 DEF Interpret, Return, AInv, IInv, TypeOK
    <3> QED
      BY <1>1, <3>1, InterpretTrue DEF AInv
  <2>3. CASE ~Interpret(r)
    <3>1. classifyRunContext(r) # "value"
      BY DEF classifyRunContext
    <3>2. result[r] = "none"
      BY <1>1 DEF AInv, IInv, RequestInv, ValueInv, Answering
    <3> QED
      BY <1>1, <2>1, <2>3, <3>1, <3>2 DEF Returns, RejectCall, AcquireEnded, Recheck, SpawnFails, Return,
         AInv, IInv, TypeOK
  <2> QED
    BY <2>2, <2>3
<1>2. AInv /\ [Next]_vars =>
        [\A r \in Requests : Answering(r) /\ result'[r] = "value" =>
           status[r] = "zero" /\ out[r] = Succeeded]_vars
  BY <1>1
<1> QED
  BY <1>2, AnswerInvariance, PTL DEF Spec, SuccessIsEarned

\* ErrInternal and the error of a killed process say what happened.
THEOREM TrueCauses == Spec => AnswerNamesItsCause
<1>1. ASSUME AInv, [Next]_vars, NEW r \in Requests, Answering(r)
      PROVE  /\ result'[r] = "Internal" =>
                  \/ pc[r] \in {"idle", "admitted", "spawning"}
                  \/ status[r] = "crash"
                  \/ callback[r] \in {"ErrProtocol", "Internal"}
             /\ status[r] = "killed" /\ callback[r] # "ErrProtocol" =>
                  result'[r] = IF ctx[r] = "canceled" THEN "Canceled" ELSE "Deadline"
  <2>1. Returns(r) /\ StatusInv(r)
    BY <1>1, AnsweringReturns DEF AInv, AnswerInv
  <2>2. CASE Interpret(r)
    <3>1. result'[r] = interpretExec(r) /\ pc[r] = "interpret"
      BY <1>1, <2>2 DEF Interpret, Return, AInv, IInv, TypeOK
    <3> QED
      BY <1>1, <3>1, InterpretTrue DEF AInv
  <2>3. CASE AcquireEnded(r)
    <3>1. classifyRunContext(r) # "Internal"
      BY <1>1, <2>3 DEF AcquireEnded, CtxEnded, classifyRunContext, AInv, IInv, TypeOK
    <3> QED
      BY <1>1, <2>1, <2>3, <3>1 DEF AcquireEnded, Return, StatusInv, AInv, IInv, TypeOK
  <2>4. CASE RejectCall(r) \/ Recheck(r) \/ SpawnFails(r)
    BY <2>1, <2>4 DEF RejectCall, Recheck, SpawnFails, Go, StatusInv
  <2> QED
    BY <2>1, <2>2, <2>3, <2>4 DEF Returns
<1>2. AInv /\ [Next]_vars =>
        [\A r \in Requests : Answering(r) =>
           /\ result'[r] = "Internal" =>
                \/ pc[r] \in {"idle", "admitted", "spawning"}
                \/ status[r] = "crash"
                \/ callback[r] \in {"ErrProtocol", "Internal"}
           /\ status[r] = "killed" /\ callback[r] # "ErrProtocol" =>
                result'[r] = IF ctx[r] = "canceled" THEN "Canceled" ELSE "Deadline"]_vars
  BY <1>1
<1> QED
  BY <1>2, AnswerInvariance, PTL DEF Spec, AnswerNamesItsCause
=============================================================================
