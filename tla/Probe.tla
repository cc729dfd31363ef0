------------------------------- MODULE Probe --------------------------------
(***************************************************************************)
(* Runner.Probe: Build starts its own executable once and accepts it as a  *)
(* worker only if it answers one probe frame with one acknowledgement and  *)
(* ends with status 0, within five seconds.                                *)
(*                                                                         *)
(* Three actors: the goroutine of Build (main), the exchange goroutine and *)
(* the child.  Until the child calls ServeWorkerAndExit it runs arbitrary  *)
(* host code: that is what the probe is there to find out.                 *)
(*                                                                         *)
(* The child's output is a sequence of chunks: "ack" (an acknowledgement   *)
(* of this version), "ackOther" (of another version: the executable may    *)
(* have been replaced on disk), "badAck" (a malformed one), "junk" (bytes  *)
(* that cannot begin a frame) and "scrap" (the beginning of what might     *)
(* become one).                                                            *)
(***************************************************************************)
EXTENDS Naturals, Sequences, FiniteSets

CONSTANTS
  Descendants,    \* whether the host code in the child may start processes
  MaxChunks       \* bound: chunks the child writes

ASSUME ProbeAssumption == Descendants \in BOOLEAN /\ MaxChunks \in Nat

VARIABLES
  main,           \* control of Probe
  exchange,       \* control of runProbeExchange
  done,           \* the channel of that name: what the exchange reported
  exchangeErr,    \* what main received from it
  deadline,       \* main's variable of that name
  expired,        \* runCtx has ended
  stdin,          \* the parent's end is open
  request,        \* the probe frame: "unsent", "sent", "read"
  stdout,         \* the parent's end is open
  out,            \* chunks written and not yet read
  child,          \* "none", "host", "serving", "acked", "dead"
  childStdin,     \* the child's end is open
  childStdout,    \* the child's end is open
  exit,           \* how the child ended
  held,           \* streams that descendants of the child hold open
  wrote,          \* history: everything the child wrote
  result          \* what Probe returns

mainVars == <<main, exchangeErr, deadline, result>>
childVars == <<child, childStdin, childStdout, exit, held, wrote>>
vars == <<mainVars, exchange, done, expired, stdin, request, stdout, out, childVars>>

Init ==
  /\ main = "start" /\ exchange = "none" /\ done = "none" /\ exchangeErr = "none"
  /\ deadline = FALSE /\ expired = FALSE /\ result = "none"
  /\ stdin = FALSE /\ request = "unsent" /\ stdout = FALSE /\ out = <<>>
  /\ child = "none" /\ childStdin = FALSE /\ childStdout = FALSE /\ exit = "none" /\ held = {} /\ wrote = <<>>

Alive == child \in {"host", "serving", "acked"}

\* Some process has the read end of the input.
InputTaken == childStdin \/ "stdin" \in held

\* No process has the write end of the output.
OutputEnded == ~childStdout /\ "stdout" \notin held

-----------------------------------------------------------------------------
(* The goroutine of Build *)

\* Probe refuses before there is a child: it runs in a worker itself (the child of
\* a host that never serves and calls Build again), or cannot resolve or start the
\* executable.
Refuse(cause) ==
  /\ main = "start" /\ main' = "returned" /\ result' = cause
  /\ UNCHANGED <<exchangeErr, deadline, exchange, done, expired, stdin, request, stdout, out, childVars>>

Start ==
  /\ main = "start" /\ main' = "select"
  /\ child' = "host" /\ childStdin' = TRUE /\ childStdout' = TRUE /\ stdin' = TRUE /\ stdout' = TRUE
  /\ exchange' = "write"
  /\ UNCHANGED <<exchangeErr, deadline, result, done, expired, request, out, exit, held, wrote>>

\* The timer of probeTimeout.
Expire ==
  /\ main \notin {"start", "returned"} /\ ~expired /\ expired' = TRUE
  /\ UNCHANGED <<mainVars, exchange, done, stdin, request, stdout, out, childVars>>

SelectDone ==
  /\ main = "select" /\ done # "none" /\ main' = "closeStdin"
  /\ exchangeErr' = done /\ done' = "none"
  /\ UNCHANGED <<deadline, result, exchange, expired, stdin, request, stdout, out, childVars>>

DeadlineIgnored == FALSE /\ UNCHANGED vars
SelectDeadline ==
  /\ main = "select" /\ expired /\ main' = "closeStdin" /\ deadline' = TRUE
  /\ UNCHANGED <<exchangeErr, result, exchange, done, expired, stdin, request, stdout, out, childVars>>

CloseStdin ==
  /\ main = "closeStdin" /\ main' = "kill" /\ stdin' = FALSE
  /\ UNCHANGED <<exchangeErr, deadline, result, exchange, done, expired, request, stdout, out, childVars>>

MustKill == deadline \/ exchangeErr # "ok"

Kill ==
  /\ main = "kill" /\ main' = "closeStdout"
  /\ IF MustKill /\ Alive
       THEN child' = "dead" /\ childStdin' = FALSE /\ childStdout' = FALSE /\ exit' = "signal"
       ELSE UNCHANGED <<child, childStdin, childStdout, exit>>
  /\ UNCHANGED <<exchangeErr, deadline, result, exchange, done, expired, stdin, request, stdout, out, held, wrote>>

CloseStdout ==
  /\ main = "closeStdout" /\ main' = "join" /\ stdout' = FALSE
  /\ UNCHANGED <<exchangeErr, deadline, result, exchange, done, expired, stdin, request, out, childVars>>

\* After the deadline the exchange is joined through its channel; otherwise main
\* has received from it already.
JoinSkipped == TRUE
JoinReady == deadline => done # "none"

Join ==
  /\ main = "join" /\ JoinReady /\ main' = "wait"
  /\ done' = IF deadline THEN "none" ELSE done
  /\ UNCHANGED <<exchangeErr, deadline, result, exchange, expired, stdin, request, stdout, out, childVars>>

\* classifyProbeFailure with childExitCause: a bad end of the child goes before a
\* stream that merely ended, an accepted one and one with trailing bytes.
ExitStatusIgnored == IF exchangeErr = "ok" THEN "accepted" ELSE exchangeErr
classifyProbeFailure ==
  IF exchangeErr \in {"ok", "stdoutClosed", "dataAfterAck"} /\ exit # "zero"
    THEN exit
    ELSE IF exchangeErr = "ok" THEN "accepted" ELSE exchangeErr

\* After the deadline neither the exchange nor the exit is asked.
KillIsTheCause == IF deadline THEN exit ELSE classifyProbeFailure
ProbeCause == IF deadline THEN "deadline" ELSE classifyProbeFailure

\* cmd.Wait returns when the child is dead and its standard error, which is copied
\* into the capture, has been closed by everyone who inherited it.
Wait ==
  /\ main = "wait" /\ child = "dead" /\ "stderr" \notin held
  /\ main' = "returned"
  /\ result' = ProbeCause
  /\ UNCHANGED <<exchangeErr, deadline, exchange, done, expired, stdin, request, stdout, out, childVars>>

Main ==
  \/ \E cause \in {"workerMode", "resolve", "start"} : Refuse(cause)
  \/ Start \/ SelectDone \/ SelectDeadline
  \/ CloseStdin \/ Kill \/ CloseStdout \/ Join \/ Wait

-----------------------------------------------------------------------------
(* The exchange goroutine *)

Report(cause) == exchange' = "finished" /\ done' = cause

\* writeProbe; it fails when the pipe has lost an end.
WriteProbe ==
  /\ exchange = "write"
  /\ \/ stdin /\ InputTaken /\ request' = "sent" /\ exchange' = "read" /\ UNCHANGED done
     \/ ~(stdin /\ InputTaken) /\ Report("io") /\ UNCHANGED request
  /\ UNCHANGED <<mainVars, expired, stdin, stdout, out, childVars>>

\* What a complete first frame says (classifyProbePayload).
PayloadCause(frame) ==
  CASE frame = "ackOther" -> "version"
    [] frame = "badAck"   -> "malformedAck"

ReadAck ==
  /\ exchange = "read" /\ stdout /\ out # <<>> /\ out' = Tail(out)
  /\ \/ Head(out) = "ack" /\ exchange' = "eof" /\ UNCHANGED done
     \/ Head(out) \in {"ackOther", "badAck"} /\ Report(PayloadCause(Head(out)))
  /\ UNCHANGED <<mainVars, expired, stdin, request, stdout, childVars>>

\* A length, an encoding or a type that is none; a scrap shows it when more follows.
ReadNonProtocol ==
  /\ exchange = "read" /\ stdout /\ out # <<>>
  /\ Head(out) = "junk" \/ (Head(out) = "scrap" /\ Len(out) > 1)
  /\ Report("nonProtocol")
  /\ UNCHANGED <<mainVars, expired, stdin, request, stdout, out, childVars>>

\* The stream ends before or within the first frame.
ReadTruncated ==
  /\ exchange = "read" /\ stdout /\ OutputEnded
  /\ out # <<>> => Head(out) = "scrap"
  /\ Report("stdoutClosed")
  /\ UNCHANGED <<mainVars, expired, stdin, request, stdout, out, childVars>>

\* readProtocolEOF after a good acknowledgement.
TrailingIgnored == Report("ok")
EOFIsAnError == Report(IF out # <<>> THEN "dataAfterAck" ELSE "stdoutClosed")
EndAfterAck == Report(IF out # <<>> THEN "dataAfterAck" ELSE "ok")

ReadEOF ==
  /\ exchange = "eof" /\ stdout /\ (out # <<>> \/ OutputEnded)
  /\ EndAfterAck
  /\ UNCHANGED <<mainVars, expired, stdin, request, stdout, out, childVars>>

\* finish closed the stream under the reader.
ReadClosed ==
  /\ exchange \in {"read", "eof"} /\ ~stdout /\ Report("io")
  /\ UNCHANGED <<mainVars, expired, stdin, request, stdout, out, childVars>>

Exchange ==
  WriteProbe \/ ReadAck \/ ReadNonProtocol \/ ReadTruncated \/ ReadEOF \/ ReadClosed

-----------------------------------------------------------------------------
(* The child *)

Writes(chunk) == out' = Append(out, chunk) /\ wrote' = Append(wrote, chunk)

Dies(status) == child' = "dead" /\ childStdin' = FALSE /\ childStdout' = FALSE /\ exit' = status

\* Host code prints, before ServeWorkerAndExit or from a goroutine of its own.
HostPrints ==
  /\ Alive /\ childStdout /\ stdout /\ Len(wrote) < MaxChunks
  /\ \E chunk \in {"junk", "scrap"} : Writes(chunk)
  /\ UNCHANGED <<mainVars, exchange, done, expired, stdin, request, stdout, child, childStdin, childStdout, exit, held>>

\* Host code, or a process it started, consumes what was meant for the worker.
HostReads ==
  /\ (child = "host" /\ childStdin) \/ "stdin" \in held
  /\ request = "sent" /\ request' = "read"
  /\ UNCHANGED <<mainVars, exchange, done, expired, stdin, stdout, out, childVars>>

HostClosesStdin ==
  /\ child = "host" /\ childStdin /\ childStdin' = FALSE
  /\ UNCHANGED <<mainVars, exchange, done, expired, stdin, request, stdout, out, child, childStdout, exit, held, wrote>>

HostClosesStdout ==
  /\ child = "host" /\ childStdout /\ childStdout' = FALSE
  /\ UNCHANGED <<mainVars, exchange, done, expired, stdin, request, stdout, out, child, childStdin, exit, held, wrote>>

\* Host code starts a process that inherits some of its streams.
HostForks ==
  /\ Descendants /\ child = "host" /\ held = {}
  /\ held' \in SUBSET ({"stderr"} \cup (IF childStdin THEN {"stdin"} ELSE {})
                                   \cup (IF childStdout THEN {"stdout"} ELSE {})) \ {{}}
  /\ UNCHANGED <<mainVars, exchange, done, expired, stdin, request, stdout, out, child, childStdin, childStdout, exit, wrote>>

DescendantEnds ==
  /\ held # {} /\ held' = {}
  /\ UNCHANGED <<mainVars, exchange, done, expired, stdin, request, stdout, out, child, childStdin, childStdout, exit, wrote>>

\* main of the host returns or exits: it never serves.
HostExits ==
  /\ child = "host" /\ \E status \in {"zero", "nonzero"} : Dies(status)
  /\ UNCHANGED <<mainVars, exchange, done, expired, stdin, request, stdout, out, held, wrote>>

ServeWorkerAndExit ==
  /\ child = "host" /\ child' = "serving"
  /\ UNCHANGED <<mainVars, exchange, done, expired, stdin, request, stdout, out, childStdin, childStdout, exit, held, wrote>>

\* serve reads the probe and serveProbe answers it.
ServeProbe ==
  /\ child = "serving" /\ childStdin /\ request = "sent" /\ request' = "read"
  /\ \/ /\ childStdout /\ stdout
        /\ \E chunk \in {"ack", "ackOther", "badAck"} : Writes(chunk)
        /\ child' = "acked" /\ UNCHANGED <<childStdin, childStdout, exit>>
     \/ ~(childStdout /\ stdout) /\ Dies("nonzero") /\ UNCHANGED <<out, wrote>>
  /\ UNCHANGED <<mainVars, exchange, done, expired, stdin, stdout, held>>

\* serve fails at the end of its input, or finds it closed by host code.
ServeEOF ==
  /\ child = "serving" /\ Dies("nonzero")
  /\ ~childStdin \/ (request # "sent" /\ ~stdin)
  /\ UNCHANGED <<mainVars, exchange, done, expired, stdin, request, stdout, out, held, wrote>>

ServeExits ==
  /\ child = "acked" /\ Dies("zero")
  /\ UNCHANGED <<mainVars, exchange, done, expired, stdin, request, stdout, out, held, wrote>>

\* A panic, a fatal signal or a broken pipe, at any time.
Crash ==
  /\ Alive /\ \E status \in {"nonzero", "signal"} : Dies(status)
  /\ UNCHANGED <<mainVars, exchange, done, expired, stdin, request, stdout, out, held, wrote>>

Child ==
  \/ HostPrints \/ HostReads \/ HostClosesStdin \/ HostClosesStdout \/ HostForks \/ DescendantEnds
  \/ HostExits \/ ServeWorkerAndExit \/ ServeProbe \/ ServeEOF \/ ServeExits \/ Crash

-----------------------------------------------------------------------------

Done == main = "returned" /\ exchange \in {"none", "finished"} /\ held = {} /\ UNCHANGED vars

Next == Main \/ Expire \/ Exchange \/ Child \/ Done

\* Goroutines run and the timer fires; nothing is assumed of the child.
Spec == Init /\ [][Next]_vars /\ WF_vars(Main) /\ WF_vars(Exchange) /\ WF_vars(Expire)

-----------------------------------------------------------------------------
(* Properties *)

\* Build goes on only with a real worker: everything the child ever wrote was one
\* acknowledgement of this version, and it ended by itself with status 0. And it never
\* fails against one without reason: only by the deadline.
AcceptsExactlyWorkers ==
  LET worker == wrote = <<"ack">> /\ exit = "zero"
  IN /\ result = "accepted" => worker
     /\ main = "returned" /\ worker => result \in {"accepted", "deadline"}

\* The cause is what happened: of each cause Build reports, the child's output and
\* its end bear witness.  A timeout is reported as one, and never blamed on the kill or
\* on the failed reads and writes that it led to; short of it, "io" means that the
\* request found no one to take it.  (A child is killed for data after its
\* acknowledgement, and "signal" may then be that kill.)
CauseIsTrue ==
  /\ deadline => result \in {"none", "deadline"}
  /\ result = "io" => request = "unsent"
  /\ result \in {"nonzero", "signal"} => exit = result
  /\ result = "stdoutClosed" => exit = "zero" /\ (wrote = <<>> \/ Head(wrote) = "scrap")
  /\ result = "nonProtocol" => Head(wrote) \in {"junk", "scrap"}
  /\ result = "version" => Head(wrote) = "ackOther"
  /\ result = "malformedAck" => Head(wrote) = "badAck"
  /\ result = "dataAfterAck" => Head(wrote) = "ack" /\ Len(wrote) > 1
  /\ result = "deadline" => expired

\* A returned probe leaves no process, no open pipe and no goroutine.
ProbeLeavesNothing ==
  main = "returned" => ~Alive /\ ~stdin /\ ~stdout /\ exchange \in {"none", "finished"} /\ done = "none"

\* Build gets its answer, whatever the child does, provided that the processes the
\* child started do not hold its streams for ever.
ProbeEndsAlone == []<>(held = {}) => <>(main = "returned")

\* Build gets its answer without that proviso.
ProbeReturns == <>(main = "returned")
=============================================================================
