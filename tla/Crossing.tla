------------------------------ MODULE Crossing -------------------------------
(***************************************************************************)
(* What crosses between a host, its worker and a program, from the         *)
(* registration of a handler's Go types to the value a program gets or     *)
(* returns: the schema and the caps that both processes compute on their   *)
(* own, the arguments of one call, its result, the program's final value   *)
(* and its error. Each is converted and checked against the limits by its  *)
(* sender, checked against a cap, and converted and checked again by its   *)
(* receiver.                                                               *)
(*                                                                         *)
(* The order of frames, the counters and failures of the pipes are the     *)
(* subject of Protocol; here each execution makes one call or one end.     *)
(***************************************************************************)
EXTENDS Binding, PayloadCaps

CONSTANTS
  Configurations,   \* by name: [types, in, out, manifest, id, manifestBytes, sources,
                    \*           calls, outputs, remaining, finals, details]
  MaxSourceBytes

ASSUME SourceAssumption == MaxSourceBytes \in Nat \ {0}

VARIABLES
  config,    \* the host's registrations and limits
  plan,      \* what Compile made of the types
  caps,      \* the caps of the parent and of the child
  pc,        \* where the exchange is
  job,       \* what is crossing, as its producer has it
  sent,      \* the process-neutral value that was sent
  got,       \* the value as its receiver has it
  input,     \* the Go input bound by the parent
  outcome    \* how the exchange ended, "" before

vars == <<config, plan, caps, pc, job, sent, got, input, outcome>>

Host == Configurations[config]
None == [kind |-> "none"]
Smaller(a, b) == IF a < b THEN a ELSE b

Init ==
  /\ config \in DOMAIN Configurations
  /\ plan = InvalidPlan /\ caps = None /\ pc = "register" /\ job = None
  /\ sent = Nil /\ got = Nil /\ input = GoNil /\ outcome = ""

Goto(next) == pc' = next /\ UNCHANGED outcome
Ends(how) == pc' = "ended" /\ outcome' = how

\* writeFrame and, with the reader's cap, readFrame.
Pass(length, maxPayload, next) == IF frameFits(length, maxPayload) THEN Goto(next) ELSE Ends("overcap")

-----------------------------------------------------------------------------
(* Registration and the start of a worker *)

Register ==
  /\ pc = "register"
  /\ plan' = Compile(Host.types, Host.in, Host.out)
  /\ IF plan'.ok THEN Goto("new") ELSE Ends("invalid_plan")
  /\ UNCHANGED <<config, caps, job, sent, got, input>>

NewRunner ==
  LET exec == execPayloadCap(MaxSourceBytes, Host.manifestBytes)
      write == parentPayloadCap(MaxValueBytes)
      read == childPayloadCap(MaxValueBytes, Host.manifest)
      accepted == Validate(plan.inputSchema)
  IN /\ pc = "new"
     /\ caps' = IF accepted THEN [exec |-> exec, write |-> write, read |-> read] ELSE caps
     /\ IF ~accepted THEN Ends("manifest")
        ELSE IF Invalid \in {exec, write, read} THEN Ends("invalid_limits")
        ELSE Goto("execute")
     /\ UNCHANGED <<config, plan, job, sent, got, input>>

\* Runner.Execute up to writeExec.
Execute(source) ==
  /\ pc = "execute"
  /\ job' = [kind |-> "exec", source |-> source]
  /\ IF source.bytes > MaxSourceBytes THEN Ends("resource_limit")
     ELSE Pass(encodeExec(source, Host.manifestBytes, 0), caps.exec, "serve")
  /\ UNCHANGED <<config, plan, caps, sent, got, input>>

\* readInitialFrame and serveExec up to the engine.  Two IDs may be one once they are
\* decoded, which validateManifest refuses; a Text does not say which, only that one of
\* them was then not UTF-8 (Builder has the IDs themselves).
ServeExec ==
  LET manifest == {OnWire(id) : id \in Host.manifest}
      read == parentPayloadCap(MaxValueBytes)
      write == childPayloadCap(MaxValueBytes, manifest)
  IN /\ pc = "serve"
     /\ caps' = caps @@ [childRead |-> read, childWrite |-> write]
     /\ \/ (\E id \in Host.manifest : OnWire(id) # id) /\ Ends("duplicate_ids")
        \/ IF ~Validate(plan.inputSchema) THEN Ends("manifest")
           ELSE IF Invalid \in {read, write} THEN Ends("overcap")
           ELSE IF OnWire(job.source).bytes > MaxSourceBytes THEN Ends("resource_limit")
           ELSE Pass(encodeExec(job.source, Host.manifestBytes, 0), MaxUint32, "ready")
     /\ UNCHANGED <<config, plan, job, sent, got, input>>

-----------------------------------------------------------------------------
(* A native call *)

\* callCapability: Bind.
CallCapability(call) ==
  LET bound == Bind(plan.inputSchema, call.heap, call.positional, call.kwargs)
  IN /\ pc = "ready"
     /\ job' = call @@ [kind |-> "call"]
     /\ sent' = bound.v
     /\ IF bound.err = "" THEN Goto("bound")
        ELSE Ends(IF bound.err = "limit" THEN "resource_limit" ELSE "invalid_arguments")
     /\ UNCHANGED <<config, plan, caps, got, input>>

WriteNativeCall ==
  /\ pc = "bound"
  /\ IF encodeBoundedValue(sent) # "" THEN Ends("resource_limit")
     ELSE Pass(encodeNativeCall(OnWire(Host.id), EncLen(sent)), caps.childWrite, "call")
  /\ UNCHANGED <<config, plan, caps, job, sent, got, input>>

\* parentConn.read: decodeNativeCall and acceptNativeCall.
AcceptNativeCall ==
  /\ pc = "call"
  /\ got' = decodeNormalizedValue(sent)
  /\ IF ~frameFits(encodeNativeCall(OnWire(Host.id), EncLen(sent)), caps.read) THEN Ends("overcap")
     ELSE IF encodeBoundedValue(got') # "" THEN Ends("protocol")
     ELSE Goto("accepted")
  /\ UNCHANGED <<config, plan, caps, job, sent, input>>

\* dispatch up to authorization: the ID that came back, and BindValue.
BindInput ==
  LET bound == BindValue(plan, got)
  IN /\ pc = "accepted"
     /\ IF OnWire(Host.id) # Host.id
          THEN Ends("unknown_id") /\ UNCHANGED <<got, input>>
        ELSE IF ~bound.ok
          THEN Ends("protocol") /\ UNCHANGED <<got, input>>
        ELSE Goto("handled") /\ got' = bound.v /\ input' = bound.go
     /\ UNCHANGED <<config, plan, caps, job, sent>>

\* The handler returns and dispatch converts its output, under what is left of
\* MaxIntermediateValueBytes.
ConvertResult(output, remaining) ==
  LET converted == ConvertOutput(plan, output, Smaller(MaxValueBytes, remaining))
  IN /\ pc = "handled"
     /\ job' = [kind |-> "result", output |-> output, remaining |-> remaining]
     /\ sent' = converted.v
     /\ IF converted.err = "" THEN Goto("converted")
        ELSE Ends(IF converted.err = "limit" THEN "resource_limit" ELSE "capability_failure")
     /\ UNCHANGED <<config, plan, caps, got, input>>

\* handleNative: an output that fails here is aborted as a resource limit.
WriteNativeResult ==
  /\ pc = "converted"
  /\ IF encodeBoundedValue(sent) # "" \/ EncLen(sent) > job.remaining THEN Ends("resource_limit")
     ELSE Pass(encodeNativeResult(EncLen(sent)), caps.write, "result")
  /\ UNCHANGED <<config, plan, caps, job, sent, got, input>>

\* childConn.read, acceptNativeResult and wrapNativeCall.
AcceptNativeResult ==
  /\ pc = "result"
  /\ got' = decodeNormalizedValue(sent)
  /\ IF ~frameFits(encodeNativeResult(EncLen(sent)), caps.childRead) THEN Ends("overcap")
     ELSE IF encodeBoundedValue(got') # "" THEN Ends("protocol")
     ELSE IF ToStarlark(got').err # "" THEN Ends("resource_limit")
     ELSE Ends("value")
  /\ UNCHANGED <<config, plan, caps, job, sent, input>>

\* writeAbort: the error of dispatch.
WriteNativeAbort(detail) ==
  /\ pc = "handled"
  /\ job' = [kind |-> "abort", detail |-> detail]
  /\ Pass(encodeNativeAbort(detail), caps.write, "abort")
  /\ UNCHANGED <<config, plan, caps, sent, got, input>>

\* childConn.read: decodeNativeAbort.
AcceptNativeAbort ==
  /\ pc = "abort"
  /\ IF ~frameFits(encodeNativeAbort(job.detail), caps.childRead) THEN Ends("overcap")
     ELSE IF ~decodeAbortDetail(OnWire(sanitizedAbortDetail(job.detail))) THEN Ends("protocol")
     ELSE Ends("aborted")
  /\ UNCHANGED <<config, plan, caps, job, sent, got, input>>

-----------------------------------------------------------------------------
(* The end of a program *)

\* Engine.Execute: FromStarlark of main's value.
ReturnFinal(final) ==
  LET converted == FromStarlark(final.heap, final.value)
  IN /\ pc = "ready"
     /\ job' = final @@ [kind |-> "final"]
     /\ sent' = converted.v
     /\ IF converted.err = "" THEN Goto("final value")
        ELSE Ends(IF converted.err = "limit" THEN "resource_limit" ELSE "invalid_program")
     /\ UNCHANGED <<config, plan, caps, got, input>>

\* writeFinalResult with finalWriteCode.
WriteFinal ==
  LET err == encodeBoundedValue(sent)
  IN /\ pc = "final value"
     /\ IF err = "errFrameTooLarge" THEN Ends("resource_limit")
        ELSE IF err # "" THEN Ends("invalid_program")
        ELSE Pass(encodeFinal(EncLen(sent)), caps.childWrite, "final")
     /\ UNCHANGED <<config, plan, caps, job, sent, got, input>>

AcceptFinal ==
  /\ pc = "final"
  /\ got' = decodeNormalizedValue(sent)
  /\ IF ~frameFits(encodeFinal(EncLen(sent)), caps.read) THEN Ends("overcap")
     ELSE IF encodeBoundedValue(got') # "" THEN Ends("protocol")
     ELSE Ends("value")
  /\ UNCHANGED <<config, plan, caps, job, sent, input>>

\* writeExecutionError. A detail is UTF-8: it quotes the program, which was decoded.
WriteFinalError(code, detail) ==
  /\ pc = "ready"
  /\ job' = [kind |-> "error", code |-> code, detail |-> detail]
  /\ Pass(encodeFinalError(code, detail), caps.childWrite, "error")
  /\ UNCHANGED <<config, plan, caps, sent, got, input>>

\* parentConn.read: decodeFinalError.
AcceptFinalError ==
  LET detail == OnWire(sanitizedFinalErrorDetail(job.code, job.detail))
  IN /\ pc = "error"
     /\ IF ~frameFits(encodeFinalError(job.code, job.detail), caps.read) THEN Ends("overcap")
        ELSE IF ~decodeFinalErrorDetail(job.code, detail) THEN Ends("protocol")
        ELSE Ends(job.code)
     /\ UNCHANGED <<config, plan, caps, job, sent, got, input>>

Next ==
  \/ Register \/ NewRunner \/ ServeExec
  \/ \E source \in Host.sources : Execute(source)
  \/ \E call \in Host.calls : CallCapability(call)
  \/ WriteNativeCall \/ AcceptNativeCall \/ BindInput
  \/ \E output \in Host.outputs, remaining \in Host.remaining : ConvertResult(output, remaining)
  \/ WriteNativeResult \/ AcceptNativeResult
  \/ \E detail \in Host.details : WriteNativeAbort(detail)
  \/ AcceptNativeAbort
  \/ \E final \in Host.finals : ReturnFinal(final)
  \/ WriteFinal \/ AcceptFinal
  \/ \E code \in FinalErrorCodes, detail \in Host.details : WriteFinalError(code, detail)
  \/ AcceptFinalError

Spec == Init /\ [][Next]_vars

-----------------------------------------------------------------------------
(* Properties *)

\* Compile against InputSchema.Validate: a schema compiled from Go types that registration
\* accepted is refused neither by NewRunner nor by the worker that is sent it.
CompiledSchemasAreAccepted == outcome # "manifest"

\* The caps of worker/limits.go against the limits: a frame whose content keeps the
\* limits is never too large for the cap of its writer or of its reader, and a child can
\* compute its caps whenever NewRunner could.
FramesFitTheirCaps == outcome # "overcap"

\* Bind against BindValue, and every writer against its reader: what the sender converted
\* within its limits is not refused by the receiver, and is the same value there, but for
\* strings that are not UTF-8.
SentIsReceived ==
  /\ outcome # "protocol"
  /\ (pc = "handled" \/ outcome = "value") => got = AsRead(sent)

\* BindValue: the canonical map that is authorized says exactly what the handler's input
\* holds, for every width of integer and float and every optional member.
AuthorizedIsHandled ==
  pc = "handled" => got = Denoted(plan.inputNodes, plan.inputSchema.root, input, TRUE)

RECURSIVE DepthOf(_)
DepthOf(v) ==
  IF v.k \notin {"list", "map"} \/ Children(v) = <<>> THEN 1
  ELSE 1 + Max({DepthOf(Children(v)[i]) : i \in DOMAIN Children(v)})

\* The exchange delivered v if and only if v is within the limits.
Delivered(v, bytes) ==
  LET within == v # Bottom /\ DepthOf(v) <= MaxValueDepth /\ EncLen(v) <= bytes
  IN (outcome = "value" <=> within) /\ (within => got = AsRead(v))

\* ConvertOutput and FromStarlark, with the checks that follow: a result or a final value
\* arrives exactly when it has a process-neutral form, is not cyclic, is at most
\* MaxValueDepth deep and is encoded within the bytes allowed. The node budget and the
\* active path refuse nothing more: containers may be shared.
ArrivesIffWithinLimits ==
  pc = "ended" =>
    /\ job.kind = "final" =>
         Delivered(Unfolded(job.heap, job.value, MaxValueDepth + 1), MaxValueBytes)
    /\ job.kind = "result" =>
         Delivered(Denoted(plan.outputNodes, plan.outputRoot, job.output, FALSE),
                   Smaller(MaxValueBytes, job.remaining))
=============================================================================
