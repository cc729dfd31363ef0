---------------------------- MODULE ProbeProofs -----------------------------
(***************************************************************************)
(* Proofs about Probe, for every number of chunks the child may write and  *)
(* whether or not it starts processes of its own.                          *)
(***************************************************************************)
EXTENDS Probe, TLAPS

Acks   == {"ack", "ackOther", "badAck"}
Prints == {"junk", "scrap"}
Chunks == Acks \cup Prints

Reports  == {"ok", "io", "version", "malformedAck", "nonProtocol", "stdoutClosed", "dataAfterAck"}
MainPCs  == {"start", "select", "closeStdin", "kill", "closeStdout", "join", "wait", "returned"}
Finish   == {"closeStdin", "kill", "closeStdout", "join", "wait"}

(***************************************************************************)
(* The inductive invariant.                                                *)
(***************************************************************************)
ProbeType ==
  /\ main \in MainPCs /\ exchange \in {"none", "write", "read", "eof", "finished"}
  /\ done \in {"none"} \cup Reports /\ exchangeErr \in {"none"} \cup Reports
  /\ deadline \in BOOLEAN /\ expired \in BOOLEAN /\ stdin \in BOOLEAN /\ stdout \in BOOLEAN
  /\ request \in {"unsent", "sent", "read"}
  /\ out \in Seq(Chunks) /\ wrote \in Seq(Chunks)
  /\ child \in {"none", "host", "serving", "acked", "dead"} /\ childStdout \in BOOLEAN
  /\ exit \in {"none", "zero", "nonzero", "signal"}

\* What main has open, and when it has its answer from the exchange: finish is entered
\* with the report of the exchange or with the deadline, and never with both.
MainInv ==
  /\ main = "start" => child = "none" /\ ~deadline /\ exchangeErr = "none"
  /\ main = "select" => child # "none" /\ ~deadline /\ exchangeErr = "none"
  /\ main \in Finish /\ ~deadline => exchange = "finished" /\ done = "none" /\ exchangeErr # "none"
  /\ deadline => expired /\ exchangeErr = "none"
  /\ main \in Finish => child # "none"
  /\ main = "wait" => done = "none" /\ exchange = "finished"
  /\ main = "returned" => done = "none" /\ exchange \in {"none", "finished"} /\ child \in {"none", "dead"}
  /\ stdin <=> main \in {"select", "closeStdin"}
  /\ stdout <=> main \in {"select", "closeStdin", "kill", "closeStdout"}

\* The life of the child; a dead one has its end of the output closed.
ChildInv ==
  /\ child = "none" <=> exchange = "none"
  /\ exit = "none" <=> child # "dead"
  /\ ~Alive => ~childStdout
  /\ child = "none" => wrote = <<>> /\ request = "unsent"

\* How much of the output the exchange has read.
StreamInv ==
  /\ exchange \in {"none", "write", "read"} => out = wrote
  /\ exchange = "eof" => Len(wrote) = Len(out) + 1 /\ Head(wrote) = "ack"
  /\ exchange = "write" => request = "unsent"
  /\ request # "read" => (wrote # <<>> => Head(wrote) \in Prints)
  /\ exchange # "finished" => done = "none" /\ exchangeErr = "none"

\* What a report of the exchange says of the child's output.  A write or a read that
\* fails before the deadline failed for want of a child that never read the request.
Witnessed(c) ==
  /\ c = "ok" => wrote = <<"ack">> /\ ~childStdout
  /\ c = "stdoutClosed" => ~childStdout /\ (wrote = <<>> \/ Head(wrote) = "scrap")
  /\ c = "nonProtocol" => wrote # <<>> /\ Head(wrote) \in Prints
  /\ c = "version" => wrote # <<>> /\ Head(wrote) = "ackOther"
  /\ c = "malformedAck" => wrote # <<>> /\ Head(wrote) = "badAck"
  /\ c = "dataAfterAck" => Len(wrote) > 1 /\ Head(wrote) = "ack"
  /\ c = "io" => deadline \/ request = "unsent"

PInv ==
  /\ ProbeType /\ MainInv /\ ChildInv /\ StreamInv
  /\ Witnessed(done) /\ Witnessed(exchangeErr)
  /\ main # "returned" => result = "none"
  /\ AcceptsExactlyWorkers /\ CauseIsTrue

USE DEF Acks, Prints, Chunks, Reports, MainPCs, Finish

-----------------------------------------------------------------------------
(* Steps *)

\* Appending to a sequence leaves its head and makes it longer.
LEMMA AppendKeeps ==
  ASSUME NEW S, NEW s \in Seq(S), NEW x \in S
  PROVE  /\ Append(s, x) \in Seq(S) /\ Append(s, x) # <<>> /\ Len(Append(s, x)) = Len(s) + 1
         /\ s # <<>> => Head(Append(s, x)) = Head(s)
         /\ s = <<>> => Head(Append(s, x)) = x
OBVIOUS

\* A sequence of one element is that element.
LEMMA Single ==
  ASSUME NEW S, NEW s \in Seq(S), Len(s) = 1
  PROVE  s = <<Head(s)>>
OBVIOUS

\* What is not the output of a worker.
LEMMA NotAck ==
  ASSUME NEW S, NEW s \in Seq(S), s = <<>> \/ Head(s) # "ack" \/ Len(s) > 1
  PROVE  s # <<"ack">>
<1>1. Len(<<"ack">>) = 1 /\ Head(<<"ack">>) = "ack" /\ <<"ack">> # <<>>
  OBVIOUS
<1>2. ASSUME s = <<"ack">> PROVE FALSE
  <2>1. Len(s) = 1 /\ Head(s) = "ack" /\ s # <<>>
    BY <1>1, <1>2, Zenon
  <2>2. ~(Len(s) > 1)
    BY <2>1
  <2> QED
    BY <2>1, <2>2, Zenon
<1> QED
  BY <1>2

\* The invariant holds before Probe has started anything.
LEMMA InitPInv == Init => PInv
<1> SUFFICES ASSUME Init PROVE PInv
  OBVIOUS
<1>1. /\ ~stdin /\ ~stdout /\ ~childStdout /\ ~deadline /\ ~expired
      /\ {stdin, stdout, childStdout, deadline, expired} \subseteq BOOLEAN
  BY Zenon DEF Init
<1> QED
  BY <1>1 DEF Init, PInv, ProbeType, MainInv, ChildInv, StreamInv, Witnessed, AcceptsExactlyWorkers,
     CauseIsTrue, Alive

\* The steps of main, which leave the output alone.
LEMMA MainStep ==
  ASSUME PInv, Main \/ Expire
  PROVE  PInv'
<1> USE DEF PInv, ProbeType, MainInv, ChildInv, StreamInv, Witnessed, AcceptsExactlyWorkers,
            CauseIsTrue, Alive, mainVars, childVars
<1>1. CASE \E cause \in {"workerMode", "resolve", "start"} : Refuse(cause)
  BY <1>1 DEF Refuse
<1>2. CASE Start
  BY <1>2 DEF Start
<1>3. CASE SelectDone
  BY <1>3 DEF SelectDone
<1>4. CASE SelectDeadline
  BY <1>4 DEF SelectDeadline
<1>5. CASE CloseStdin
  <2>1. ~stdin' /\ stdin' \in BOOLEAN
    BY <1>5, Zenon DEF CloseStdin
  <2> QED
    BY <1>5, <2>1 DEF CloseStdin
<1>6. CASE Kill
  <2>1. CASE MustKill /\ Alive
    <3>1. ~childStdout' /\ childStdout' \in BOOLEAN
      BY <1>6, <2>1, Zenon DEF Kill
    <3> QED
      BY <1>6, <2>1, <3>1 DEF Kill
  <2>2. CASE ~(MustKill /\ Alive)
    BY <1>6, <2>2 DEF Kill
  <2> QED
    BY <2>1, <2>2
<1>7. CASE CloseStdout
  <2>1. ~stdout' /\ stdout' \in BOOLEAN
    BY <1>7, Zenon DEF CloseStdout
  <2> QED
    BY <1>7, <2>1 DEF CloseStdout
<1>8. CASE Join
  BY <1>8 DEF Join, JoinReady
<1>9. CASE Wait
  <2>1. ProbeType' /\ MainInv' /\ ChildInv' /\ StreamInv' /\ Witnessed(done)' /\ Witnessed(exchangeErr)'
    BY <1>9 DEF Wait
  <2>2. /\ child = "dead" /\ exit # "none" /\ UNCHANGED <<wrote, exit, expired, deadline, request>>
        /\ main' = "returned"
        /\ deadline => result' = "deadline"
        /\ ~deadline => result' = classifyProbeFailure
    BY <1>9 DEF Wait, ProbeCause
  <2>3. CASE deadline
    BY <2>1, <2>2, <2>3
  <2>4. CASE ~deadline
    <3>1. exchangeErr \in Reports
      BY <1>9, <2>4 DEF Wait
    <3>2. CASE exchangeErr \in {"ok", "stdoutClosed", "dataAfterAck"} /\ exit # "zero"
      BY <2>1, <2>2, <2>4, <3>2 DEF classifyProbeFailure
    <3>3. CASE exchangeErr = "ok" /\ exit = "zero"
      BY <2>1, <2>2, <2>4, <3>3 DEF classifyProbeFailure
    <3>4. CASE exchangeErr = "io"
      <4>1. result' = "io" /\ (wrote # <<>> => Head(wrote) \in Prints)
        BY <2>2, <2>4, <3>4 DEF classifyProbeFailure
      <4>2. wrote # <<"ack">>
        BY <4>1, NotAck
      <4> QED
        BY <2>1, <2>2, <2>4, <3>4, <4>1, <4>2
    <3>5. CASE exchangeErr # "ok" /\ exchangeErr # "io" /\ (exchangeErr \in {"stdoutClosed", "dataAfterAck"} => exit = "zero")
      <4>1. result' = exchangeErr
        BY <2>2, <2>4, <3>5 DEF classifyProbeFailure
      <4>2. wrote # <<"ack">>
        BY <3>1, <3>5, NotAck
      <4> QED
        BY <2>1, <2>2, <3>1, <3>5, <4>1, <4>2
    <3> QED
      BY <3>1, <3>2, <3>3, <3>4, <3>5
  <2> QED
    BY <2>3, <2>4
<1>10. CASE Expire
  BY <1>10 DEF Expire
<1> QED
  BY <1>1, <1>2, <1>3, <1>4, <1>5, <1>6, <1>7, <1>8, <1>9, <1>10 DEF Main

\* The steps of the exchange goroutine.
LEMMA ExchangeStep ==
  ASSUME PInv, Exchange
  PROVE  PInv'
<1> USE DEF PInv, ProbeType, MainInv, ChildInv, StreamInv, Witnessed, AcceptsExactlyWorkers,
            CauseIsTrue, Alive, mainVars, childVars, Report
<1>1. CASE WriteProbe
  BY <1>1 DEF WriteProbe
<1>2. CASE ReadAck
  BY <1>2 DEF ReadAck, PayloadCause
<1>3. CASE ReadNonProtocol
  BY <1>3 DEF ReadNonProtocol
<1>4. CASE ReadTruncated
  BY <1>4 DEF ReadTruncated, OutputEnded
<1>5. CASE ReadEOF
  BY <1>5, Single DEF ReadEOF, EndAfterAck, OutputEnded
<1>6. CASE ReadClosed
  BY <1>6 DEF ReadClosed
<1> QED
  BY <1>1, <1>2, <1>3, <1>4, <1>5, <1>6 DEF Exchange

\* The steps of the child and of what it started.
LEMMA ChildStep ==
  ASSUME PInv, Child
  PROVE  PInv'
<1> USE DEF PInv, ProbeType, MainInv, ChildInv, StreamInv, Witnessed, AcceptsExactlyWorkers,
            CauseIsTrue, Alive, mainVars, childVars, Dies
<1>1. CASE HostPrints
  BY <1>1, AppendKeeps DEF HostPrints, Writes
<1>2. CASE ServeProbe
  <2>1. CASE childStdout /\ stdout
    <3>1. PICK chunk \in Acks : Writes(chunk)
      BY <1>2, <2>1 DEF ServeProbe
    <3>2. UNCHANGED <<mainVars, exchange, done, expired, stdin, stdout, held, childStdout, exit>>
          /\ child' = "acked" /\ child = "serving" /\ request = "sent" /\ request' = "read"
      BY <1>2, <2>1 DEF ServeProbe
    <3> QED
      <4>1. /\ out' \in Seq(Chunks) /\ wrote' \in Seq(Chunks)
            /\ Len(wrote') = Len(wrote) + 1 /\ Len(out') = Len(out) + 1
            /\ wrote # <<>> => wrote' # <<>> /\ Head(wrote') = Head(wrote)
            /\ Len(wrote) > 0 => wrote # <<>>
            /\ Len(out) \in Nat /\ Len(wrote) \in Nat
        BY <3>1, AppendKeeps DEF Writes
      <4>2. out = wrote => out' = wrote'
        BY <3>1 DEF Writes
      <4>3. ProbeType' /\ MainInv' /\ ChildInv'
        BY <2>1, <3>2, <4>1
      <4>4. StreamInv'
        BY <2>1, <3>2, <4>1, <4>2
      <4>5. Witnessed(done)' /\ Witnessed(exchangeErr)'
        BY <2>1, <3>2, <4>1
      <4> QED
        BY <2>1, <3>2, <4>3, <4>4, <4>5
  <2>2. CASE ~(childStdout /\ stdout)
    <3>1. /\ ~childStdout' /\ childStdout' \in BOOLEAN /\ child' = "dead" /\ exit' = "nonzero"
          /\ UNCHANGED <<out, wrote>>
      BY <1>2, <2>2, Zenon DEF ServeProbe
    <3>2. /\ child = "serving" /\ request = "sent" /\ request' = "read"
          /\ UNCHANGED <<mainVars, exchange, done, expired, stdin, stdout>>
      BY <1>2 DEF ServeProbe
    <3> QED
      BY <3>1, <3>2
  <2> QED
    BY <2>1, <2>2
<1>3. CASE HostReads
  BY <1>3 DEF HostReads
<1>4. CASE HostClosesStdout
  <2>1. ~childStdout' /\ childStdout' \in BOOLEAN
    BY <1>4, Zenon DEF HostClosesStdout
  <2> QED
    BY <1>4, <2>1 DEF HostClosesStdout
<1>5. CASE HostForks
  BY <1>5 DEF HostForks
<1>6. CASE DescendantEnds
  BY <1>6 DEF DescendantEnds
<1>7. CASE HostExits
  <2>1. ~childStdout' /\ childStdout' \in BOOLEAN
    BY <1>7, Zenon DEF HostExits
  <2> QED
    BY <1>7, <2>1 DEF HostExits
<1>8. CASE ServeWorkerAndExit
  BY <1>8 DEF ServeWorkerAndExit
<1>9. CASE ServeEOF \/ ServeExits
  <2>1. ~childStdout' /\ childStdout' \in BOOLEAN
    BY <1>9, Zenon DEF ServeEOF, ServeExits
  <2> QED
    BY <1>9, <2>1 DEF ServeEOF, ServeExits
<1>10. CASE Crash
  <2>1. ~childStdout' /\ childStdout' \in BOOLEAN
    BY <1>10, Zenon DEF Crash
  <2> QED
    BY <1>10, <2>1 DEF Crash
<1>11. CASE HostClosesStdin
  BY <1>11 DEF HostClosesStdin
<1> QED
  BY <1>1, <1>2, <1>3, <1>4, <1>5, <1>6, <1>7, <1>8, <1>9, <1>10, <1>11 DEF Child

\* Every step preserves the invariant.
LEMMA NextPInv == PInv /\ [Next]_vars => PInv'
<1> SUFFICES ASSUME PInv, [Next]_vars PROVE PInv'
  OBVIOUS
<1>1. CASE UNCHANGED vars
  BY <1>1 DEF vars, mainVars, childVars, PInv, ProbeType, MainInv, ChildInv, StreamInv, Witnessed,
     AcceptsExactlyWorkers, CauseIsTrue, Alive
<1> QED
  BY <1>1, MainStep, ExchangeStep, ChildStep DEF Next, Done

-----------------------------------------------------------------------------
(* The theorems *)

\* The invariant holds of every probe.
THEOREM ProbeInvariance == Spec => []PInv
BY InitPInv, NextPInv, PTL DEF Spec

\* Build accepts its executable only if everything it wrote was one acknowledgement and
\* it ended well, and it refuses such a worker for the deadline alone, however the kill,
\* the deadline and the reports of the exchange interleave.
THEOREM OnlyWorkers == Spec => []AcceptsExactlyWorkers
<1>1. PInv => AcceptsExactlyWorkers
  BY DEF PInv
<1> QED
  BY <1>1, ProbeInvariance, PTL

\* The cause that Build reports is what the child did; a timeout is reported as one.
THEOREM TrueCause == Spec => []CauseIsTrue
<1>1. PInv => CauseIsTrue
  BY DEF PInv
<1> QED
  BY <1>1, ProbeInvariance, PTL

\* Probe returns with its child dead, its pipes closed and its exchange joined.
THEOREM NothingLeft == Spec => []ProbeLeavesNothing
<1>1. PInv => ProbeLeavesNothing
  BY DEF PInv, MainInv, ProbeLeavesNothing, Alive
<1> QED
  BY <1>1, ProbeInvariance, PTL
=============================================================================
