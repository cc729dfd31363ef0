# A TLA+ verification of codemode

codemode lets a host expose Go functions ("capabilities") to programs that a
language model writes. `Server.Execute` runs such a program in a fresh worker
process: the host binary executes itself again, the child interprets the
Starlark source, and every native call of the program crosses a pair of pipes
back to the parent, which binds the arguments again, asks the host's authorizer,
runs the handler and sends the result. This directory models that machinery,
model-checks it with TLC and proves its central properties with TLAPS.

Line numbers refer to the repository at the commit this project was written for;
`PROJECT.json` maps every definition to the lines it models.

## 1. Inventory

| component | state it keeps | operations | talks to | what is hard | what makes it correct |
|---|---|---|---|---|---|
| **Worker runner**, `internal/worker/parent.go` | semaphore of permits; per call: run context, permit, pipes, process, exchange goroutine, its outcome | `Execute`, `finish`, `wait`, `runExecExchange`, `handleNative`, `interpretExec`, `Probe` | spawns the child, calls the dispatcher, answers the server | up to four actors per call; selects with several ready cases; pipes closed under a reader; a `Wait` without timeout | permits bound processes; every call returns; every return is clean; answers are true |
| **Worker protocol**, `internal/worker/frame.go` | per side: state, number of calls, remaining bytes | `writeExec`, `writeNativeCall`, `writeNativeResult`, `writeNativeAbort`, `writeFinal`, `writeFinalError`, the `accept*` functions | both ends of two pipes | two state machines and three counters that must agree; an untrusted peer | bounded serial calls, bounded bytes, no frame out of turn |
| **Worker child**, `internal/worker/child.go` | one connection | `serve`, `serveProbe`, `serveExec`, `nativeForwarder` | parent over stdin and stdout, engine | lost replies and aborts in the middle of a program | exactly one terminal frame, none after an abort |
| **Execution engine**, `internal/execution` | phase, attempted calls, step limit | `Execute`, `callCapability`, `beginMain`, `finishMain` | Starlark, the forwarder | host calls only from `main`; limits | phases, counted attempts, a class for every failure |
| **Dispatcher**, `dispatch.go` | per call: two goroutines and their channels | `dispatch`, `authorize`, `invoke` | authorizer and handler of the host | cancellation at any point; host code that panics or never returns | no handler without an allow in time; failing closed; no leaks |
| **Server and builder**, `builder.go`, `server.go`, `limits.go` | registrations, one-shot build, immutable server | `Register`, `Build`, `Search`, `Describe`, `Execute` | catalog, runner | misuse of the life cycle; classes of errors | a server only from a complete, valid set |
| **Catalog and search**, `internal/catalog` | immutable index | `Build`, `Lookup`, `LookupID`, `Search` | builder, server, dispatcher | name collisions; ranking and packing at their limits | deterministic order, cap respected |
| **Binding**, `internal/binding` | compiled plans | `Compile`, `Bind`, `BindValue`, `ConvertOutput` | engine (child) and dispatcher (parent) | two implementations that must agree; depth and node budgets | what the child binds the parent rebinds |
| **Payload caps**, `internal/worker/limits.go` | none | cap arithmetic in `uint32` | runner, connections | overflow | every legal frame fits its cap |
| **Authorization**, `authz`, `authz/rego` | compiled policy | `Authorize` | dispatcher | shapes of decisions, panics of the engine | fails closed |
| **MCP server**, `mcpserver` | none of its own | `search_api`, `describe_api`, `execute` | server, the MCP library | errors made public | no secret in a message, no unauthenticated call |

`PROJECT.json` lists under "hazards" the places where the code can go wrong in a
way a test would hardly reach, with the properties that watch them.

## 2. Modules

```
ExecuteService <--implements-- Runner <--extends-- Session --implements--> Dispatch
                               RunnerProofs        SessionProofs            DispatchProofs
NativeCallLedger <--implements-- Protocol          Builder        Probe        ErrorProjection
                                 ProtocolProofs    BuilderProofs  ProbeProofs  ErrorProjectionProofs
Values, Schema <--extends-- Binding <--extends-- Crossing --extends--> PayloadCaps
                                                                       ProtocolProofs
Search
SearchProofs
```

Session extends Runner and implements it too: opening a dispatch into its steps
adds no behaviour of the runner.

**ExecuteService** (abstract). What a host may rely on: a call gets at most one
worker process, at most `Slots` exist, a call answers only when its process is
gone, and a value comes only from a call that had one.

**Runner** models `Runner.Execute` for a set of concurrent requests. The main
goroutine is one action per step between which another actor can be scheduled:
`Call`, `RejectCall`, `Acquire`/`AcquireEnded` (the first select), `Recheck`,
`SpawnFails`, `Spawn`, `SelectDone`/`SelectEnded` (the second select), the five
steps of `finish` (`CloseStdin`, `Kill`, `CloseStdout`, `Join`, `Wait`),
`Release` and `Interpret`. The exchange goroutine (`runExecExchange`,
`handleNative`) has ten actions, the dispatch goroutine one, the worker process
seven. A frame is its type, a dispatch is one step of unknown duration with any
result, an error is its class. A select with several ready cases may take any.
`EndContext` is the caller's cancellation or the earlier of its deadline and
`MaxExecutionTime`. The process may crash at any time (`ChildCrash`) and a
program may compute for ever. The child speaks the protocol; malformed frames and
bytes after the terminal one are the subject of `Protocol`.

**Dispatch** opens that one step: `dispatch` with its four looks at the context,
the policy goroutine and the handler goroutine with their buffered channels. The
authorizer may allow, deny, fail or panic and the handler may succeed, fail,
report a mismatched input or panic, both at any time or never. `said`,
`decidedIn` and `invokedIn` are history variables. The test for a nil dispatcher
in `dispatch` is left out: `newServer` always sets its fields.

**Session** composes the two. They share the run context; `CallArrives` joins
the runner's `ReadCall` with the dispatcher's `Begin`, and a dispatch that
returns performs the runner's `DispatchReturns` with its result.

**NativeCallLedger** (abstract). What an execution may do to its host, whatever
the child does: serial calls, at most `MaxCalls`, results of at most `Budget`
bytes, a value only when every call was answered with a result.

**Protocol** models the framed exchange of one execution: `parentConn`,
`childConn`, the engine's phases and counters and the closing of the pipes. The
parent's actions are those of the connection (`writeExec`, `acceptNativeCall`,
`acceptTerminal`, `writeNativeResult`, `writeAbort`, ...). The child is either
this repository's worker (`Spec`) or a process that sends any frame, malformed
ones included, at any time (`FaultyChildSpec`). A value is its encoded length.
`closeStdin`, `killChild` and `closeStdout` are `finish`, which Execute may call
at any moment, because its select may take the ended context whatever the
exchange has done. The worker's terminal frame and its exit are one step, since it
does nothing in between that the parent could see; that it dies before the frame is
a step of its own, and a crash between the two is a step of `Runner`. The child's own validation of limits and manifest is in
`Builder` and `Crossing`.

**Builder** models `Register`, the one-shot `Build`, `catalog.Build`, the
manifest validation that parent and child repeat, and what a program can call in
the end. A dotted name is the sequence of its segments. An ID need not be UTF-8, so
it has an image `OnWire`: the worker validates and binds the manifest that it
decoded, and a call looks up the ID that came back. The validation of types
and metadata is one bit of a registration; limits and authorizer are one bit of
the options; sizes, payload caps and the probe may refuse at any time.

**Probe** models `Runner.Probe`: the goroutine of Build with its select and the
five steps of `finish`, the exchange goroutine, and the child, which may run any
host code before it serves: print, read the request, close its input or output,
start processes that inherit any of its streams, exit or hang. Output is a sequence of chunks of five kinds.

**ErrorProjection** follows one error from where it arises to the public API and
the MCP tool. A Go error is the set of sentinels `errors.Is` finds in its chain
and the detail `SafeDetail` finds in it; host errors may wrap context errors and
public sentinels.

**PayloadCaps** has the sizes of the protocol's frames and the caps of
`internal/worker/limits.go` with their checked arithmetic: `configUint32` and the
sums and products that return no cap when one overflows, `execPayloadCap`,
`parentPayloadCap`, `childPayloadCap`, and how details of errors are cut and
checked. A text is its number of bytes and how `json.Marshal` spells it: as it is,
with six bytes for one, or as U+FFFD because it is not UTF-8.

**Values** models the values that cross the process boundary: process-neutral
values, their JSON form with its length, the value budget (`enter`, `leave`,
`consumeNode`), the conversions from and to Starlark, the encoder's own walk and
the decoder. Starlark values are references into a heap, so containers may be
shared and cyclic. A float is a number of quarters, so that some have a fraction,
some do not, and some do not fit float32.

**Schema** models `Compile` over a graph of Go types (which may be shared and
cyclic), `projectInputSchema` and `InputSchema.Validate`.

**Binding** models `Bind` (the child, Starlark values against a schema),
`BindValue` (the parent, decoded values onto the Go input, with the canonical map
that is authorized) and `ConvertOutput`.

**Crossing** puts these together in the order of the code: `Register`,
`NewRunner`, `Execute`, `ServeExec`, then one call (`CallCapability`,
`WriteNativeCall`, `AcceptNativeCall`, `BindInput`, `ConvertResult`,
`WriteNativeResult`, `AcceptNativeResult`, or `WriteNativeAbort` and
`AcceptNativeAbort`) or one end of a program (`ReturnFinal`, `WriteFinal`,
`AcceptFinal`, or `WriteFinalError` and `AcceptFinalError`). Each action converts,
checks its limits, computes the length of the frame and compares it with its own
cap. It says what the frames of `Protocol` carry, and which of them fit.

**Search** models the index that `catalog.Build` compiles from the enabled
capabilities, and `Search` and `Describe` over it. A text is a sequence of words
with what separates them (a separator, a change of case, the end of an acronym, a
change to digits), so that tokens depend on case as they do in the code; scores
keep the code's integers. The loops of `tokenize` and `packSearchResponse` are
recursive functions whose value at `k` is the state after `k` iterations; sorting is
the choice of the sorted sequence, of which `SearchProofs` shows that it exists.

**MCBuilder**, **MCCrossing** and **MCSearch** give the instances for TLC: names
and disabled lists; Go types, arguments, outputs and texts; capabilities and
queries. The other modules are checked as they are.

## 3. Runs

| run | instance | shows |
|---|---|---|
| `runner` | 2 requests, 1 permit, 1 class of dispatch failure | `LiveWorkersBounded`, `NothingLeftBehind`, `WaitOnlyForTheDead`, `FailedCallNeverSucceeds`, `SuccessIsEarned`, `AnswerNamesItsCause`; the runner implements `ExecuteService`; `EveryExecuteReturns` |
| `session` | 1 request | `OneCallAtATime`, `AnswersAreTrue`, `HandlerNeedsLiveAllow`, `LateOutcomeIsDiscarded`, `FailsClosed`, `ValueLeavesNothingRunning`; `ExecuteAndDispatchEnd`, `NoGoroutineLeaks` |
| `protocol_worker` | 3 calls, values up to 2, 4 bytes in all | `PeersInStep`, `TerminalInTurn`, `AbortEndsCleanly`, `MainIsServed`, `UnkilledIsDead`; keeps `NativeCallLedger` |
| `protocol_faulty` | the same with a faulty child, 2 frames in flight | keeps `NativeCallLedger` |
| `builder` | 4 names (nested, reserved root), 7 IDs (two not UTF-8, and the one JSON makes of both), 5 disabled lists, at most 3 attempts, 2 registrations | `ServerIsExact`, `CallsReachTheirCapability`, `CatalogImpliesManifest` |
| `probe` | 2 chunks besides the acknowledgement, descendants allowed | `AcceptsExactlyWorkers`, `CauseIsTrue`, `ProbeLeavesNothing`, `ProbeEndsAlone` |
| `probe_descendants` | the same | violation: `ProbeReturns` |
| `errors` | host errors with any of 6 sentinels | `ExactlyItsClass`, `DetailIsDisclosed` |
| `errors_nested` | host errors may carry another execution's detail | violation: `DetailIsDisclosed` |
| `crossing` | see below | `CompiledSchemasAreAccepted`, `FramesFitTheirCaps`, `SentIsReceived`, `AuthorizedIsHandled`, `ArrivesIffWithinLimits` |
| `search` | 7 capabilities, enabled or not, at most 3; 16 queries; 2 results, 100 bytes | `PackedPrefix`, `ExactNameFirst`, `DisabledLeavesNoTrace` |
| `search_casefold` | the same, queries are names in lower case | violation: `ExactNameAnyCase` |

Every property has a mutant in `PROJECT.json`: a plausible slip in the code (a
permit test off by one, an outcome without kill, a join that does not wait, an
ignored exit status, a skipped look at the context, an unbuffered channel, ...)
under which TLC finds the property violated.

**Why the bounds are enough.** Requests interact only through the permits: one
permit and two requests make one wait while the other is at every point of its
life. Sessions of `Dispatch` do not interact at all, so one is enough. The limits of `Protocol`
are the smallest at which a program can be stopped by the number of calls with
and without exhausting the bytes, a single value can be too large by itself
(3 > 2) and two values can exhaust the sum exactly (2 + 2 = 4) or not. Two
registrations show every clash, since clashes are between pairs; the third
attempt is one too many, or one that fails after two that succeeded. Two chunks
are one before and one after an acknowledgement, or two of which the first is
incomplete. Errors are followed one at a time and in full. For the properties
that are proved (below) the bounds do not matter.

`crossing` scales the code's constants down together, so that every boundary lies
among the values that are tried: `int64` has 4 bits (`MaxInt64` = 7) and `uint8`
has 3, floats go to 20 and float32 to 10 in steps of a quarter, values may be 3
deep and 24 bytes long, details 4 bytes, sources 3, and `MaxUint32` is 88, which
the caps of the larger manifests exceed. It tries every graph of four Go types
drawn from 25 definitions, arguments against a schema of every kind and width,
outputs and final values with each scalar at its boundary, empty, shared, cyclic
and too deep containers, strings that need escapes or are not UTF-8, results
against the rest of the aggregate, and IDs, sources and details around their caps.
One call and one end are enough, since nothing but the counters of `Protocol` is
carried from one call to the next.

The capabilities of `search` share words, have names that differ only in case, a
camel-case name, a name of connector words, results that fill a response to the
byte and one that cannot fit; the queries reach every way of scoring and of being
refused.

**Fairness.** A goroutine that can run eventually runs; the timer of
`context.WithTimeout` fires, since `MaxExecutionTime` is positive by validation;
the worker process is scheduled for its own reads, writes and exit. Nothing is
assumed of the program, of the authorizer and the handler, of the caller, of the
child of a probe, or of a dispatch beyond the steps of `dispatch` itself.

**Deadlock** is checked: the only states without further steps are
the ones in which everything has been answered and nothing is left at work; they
have an explicit stuttering step. The exception is `crossing`, in which an
exchange simply ends.

## 4. Proofs

TLAPS checks, for every set of requests, every number of permits and all limits:

* `RunnerProofs`: type correctness, `LiveWorkersBounded`, `NothingLeftBehind`,
  `WaitOnlyForTheDead`, `FailedCallNeverSucceeds`, and that the runner implements
  `ExecuteService`. The inductive invariant ties, for every request, the control
  of the main goroutine to its permit, pipes and process; the control of the
  exchange to the callback, the outcome and, where it saw the end of the stream,
  to a dead process; and counts the permits taken as the cardinality of the
  requests that hold one. The bound on processes is not inductive without that
  count, and the `Wait` property is not without the link "an outcome that does
  not ask for a kill comes from a dead process". A second invariant (`AInv`)
  gives `SuccessIsEarned` and `AnswerNamesItsCause`. An answer is computed from the
  outcome, the exit status and the context after everything else has ended, so
  each of these has to be tied to what happened before: who may have ended the
  process at each point (`StatusInv`), where the conversation of child and exchange
  stands and that a final frame followed by the end of the stream is the worker's
  own (`DialogInv`), and what every outcome and every failed call says of the
  context (`CauseInv`).
* `DispatchProofs`: the inductive invariant of `Dispatch`. It says what each point
  of `dispatch` implies for the two goroutines, their channels and the history of
  the context, which never becomes live again.
* `SessionProofs`: an execution end to end implements `Dispatch`. All the runner,
  the child and the caller do to the context is to end it once, and the runner
  starts a call only through `Begin`; every other step leaves the variables of the
  dispatch alone. With the invariant of `DispatchProofs` this gives
  `HandlerNeedsLiveAllow`, `FailsClosed`, `LateOutcomeIsDiscarded` and
  `ValueLeavesNothingRunning` for every execution. It also implements `Runner`: a
  dispatch returns only what the runner allows for. `OneCallAtATime` and
  `AnswersAreTrue` speak of both sides, and need the joint invariant `JInv`: the
  invariants of runner and dispatch, the agreement of the runner's callback with
  the point and the answer of the dispatch (`CallInv`), and that goroutines are at
  work without their dispatch, or a dispatch without its exchange, only after the
  context has ended (`AbandonInv`).
* `ProtocolProofs`: `KeepsLedger` for the worker and for the faulty child, from
  an invariant about the parent's variables only; and the five properties of the
  worker's exchange, from the invariant that a conversation is always at one of
  nine points (`Fresh`, `Idle`, `Asked`, `Taken`, `Answered`, `Aborting`,
  `Aborted`, `Reported`, `Concluded`), each of which fixes both pipes, both states
  and how the counters compare.
* `ProtocolProofs` also has the theorems on the caps of these frames, which
  `PayloadCaps` computes: for all limits, manifests and lengths, a frame whose content
  keeps the limits fits the cap of its writer (`ChildFramesFit`, `ParentFramesFit`,
  `ExecFits`), the caps that the child computes from the manifest it decoded
  exist whenever the parent's do and admit no frame that the parent's refuse
  (`ReaderAdmitsWriter`), and a detail that its sender cut
  is accepted by its receiver (`DetailsAreAccepted`). The argument is that the
  checked arithmetic either has no result or the exact one, and that the factor 6
  bounds every spelling of a byte. `crossing` checks the same on both sides of the
  wire with the lengths of real values.
* `BuilderProofs`: the three properties of `Builder`. Until Build, the
  registrations are exactly the capabilities that were attempted, unless an error
  was recorded; what the catalog checks holds of every subset, hence of what is
  left after disabling, hence of the manifest and of the engine's bindings. Of the
  manifest as the worker decodes it, everything about names still holds, and the
  IDs are unique exactly if no two have become one (`WorkerRefusesMergedIDs`). A call
  under an ID that is not UTF-8 then resolves to nothing: were its image the ID of
  another capability, the two would have become one.
* `ProbeProofs`: `AcceptsExactlyWorkers`, `CauseIsTrue` and `ProbeLeavesNothing`
  for any number of chunks of output. The invariant ties the steps of `finish` to
  process, pipes and exchange (`MainInv`), the process to its exit (`ChildInv`),
  how much of the output has been read to the point of the exchange
  (`StreamInv`), and every outcome of the exchange to the chunk or the end it came
  from (`Witnessed`).
* `ErrorProjectionProofs`: `ExactlyItsClass` and `DetailIsDisclosed` for every host
  error. Host code cannot hold a sentinel of `internal/execution`, since a nested
  Execute already answers with public ones; so of these a chain holds exactly one,
  however much it wraps, and the first match in
  `projectExecutionError` is the only one and the order of its cases decides only
  between a class and a context error. `Disclosure` assumes that host code passes on
  no error of a nested execution; the run `errors_nested` shows that it fails without.
  `ExactClass` needs no such assumption.
* `SearchProofs`: `PackedPrefix`, `ExactNameFirst` and `DisabledLeavesNoTrace`, for
  every finite set of capabilities, all queries and all limits. The inductive
  invariant (`StateInv`) is small: a catalog is what `BuildCatalog` makes of the
  registrations it was given, and a response is what that catalog answers. The work
  is in what these functions compute:
  - a loop that is a recursive function has a run (`LoopRuns`), and a claim about its
    iterations holds if there is no first one at which it fails (`LoopInduction`, from
    the well-foundedness of the naturals);
  - a finite set with a strict total order can be listed in it (`Sortable`): the place
    of an element is the number of those below it. So `filterEnabled` and the ranking
    are sorted (`ByName`, `Ranked`), names being unique;
  - the packing loop keeps `Packed`: the results are the first candidates, `used` is
    the length of their encoding, and the loop stops only at the limit or at a
    candidate without room (`PackStep`). That every single result fits a response,
    which `Build` checks, is what makes a truncated answer non-empty;
  - the document of a capability matches every token of its name, however rare or
    frequent they are, because no rarity and no weight is zero (`RarityBounds`,
    `Contribution`, `Scored`); so it is eligible, and exact names precede all others
    (`ExactCandidate`);
  - a sum over a set is the number of its units in whatever order it is added up
    (`SumIsCount`), so fewer registrations have no more metadata (`SumOfFewer`), and
    the enabled capabilities could have been registered alone (`Alone`).

Assumptions: the set of requests is finite, permits and limits are positive (as
`Limits.Validate` enforces), the classes of dispatch failures are none of the
model's control values (in `Session` they are exactly the failures that `dispatch`
returns), names are non-empty sequences that may serve as IDs, and JSON leaves a name
and what it has once repaired as they are. For `Search`, the
capabilities are finitely many, no two have the same name, and a response without
results fits the response cap.

Only model-checked:

* liveness, since fairness is out of the prover's reach: `EveryExecuteReturns`,
  `ExecuteAndDispatchEnd`, `NoGoroutineLeaks`, `ProbeEndsAlone`;
* the properties of `Crossing` (`CompiledSchemasAreAccepted`, `FramesFitTheirCaps`,
  `SentIsReceived`, `AuthorizedIsHandled`, `ArrivesIffWithinLimits`). Its values and
  types are trees and graphs, its walks RECURSIVE operators over them: proofs would
  need induction over data. The part that is arithmetic is proved in
  `ProtocolProofs`.

The type invariants of `Dispatch`, `Protocol`, `Builder` and `Probe` are conjuncts of
the proved inductive invariants and have no place in a run of their own.

## 5. Observations

* A handler can start after Execute has returned: the context may end between the
  look at `dispatch.go:87` and the start of the goroutine at `dispatch.go:91`.
  `HandlerNeedsLiveAllow` therefore speaks of the moment of the decision, and
  `OneCallAtATime` says that the caller was told of the context.
* `classifyRuntimeError` does not know `errNativeAbort` and `errChildService`:
  `writeExecutionError` never sees them after a failed native call. That such a
  failure does not become a `final_error` (child.go:37) rests on the state of the
  connection (child.go:126, frame.go:786). `TerminalInTurn` and
  `AbortEndsCleanly` show that this suffices.
* `writeAbort` ignores how the wait for the end of the stream ended and asks for
  no kill. With this repository's worker the process is dead by then
  (`UnkilledIsDead`, proved).
* Finding `probe_descendants`: `cmd.Wait` also waits for the copy of standard
  error. If host code in the probe's child starts a process that inherits it,
  Build stays in the wait after its deadline, for as long as that process lives.
  `Runner` takes the end of the process for the end of its output, which holds as
  long as the worker starts no process of its own.
* Finding `errors_nested`: the detail of a program failure is found anywhere in an
  error's chain. A handler that runs a program on a server of its own and returns
  that error as it is discloses its detail without an `AgentError`.
* The probe kills a child that wrote more than its acknowledgement and still runs,
  and `childExitCause` then reports "signal: killed", the effect of its own kill,
  instead of the trailing bytes. `CauseIsTrue` therefore asks of a reported exit
  only that it is how the process ended. The kill after a timeout is another matter:
  it is never the cause reported.
* The probe reports a child that exits before the request is written as an I/O
  failure, not by its exit status: only an end of the stream yields to the status.
* Finding `search_casefold`: the comparison of an exact name ignores case, but only
  documents that matched enough tokens are compared, and tokens are split at
  changes of case. `git.createissue` does not find `git.createIssue`, and a name of
  connector words has no tokens at all.
* Strings that are not UTF-8 change on the wire: `json.Marshal` writes U+FFFD for
  every bad byte. `SentIsReceived` and `AuthorizedIsHandled` therefore speak of the
  string as it is read; two keys of a dict can become one that way.
* A source that is not UTF-8 becomes three times as long in the child, which
  measures it again: within a third of `MaxSourceBytes` it runs, beyond that the
  child reports a resource limit although the parent accepted it.
* An ID that is not UTF-8 is another ID in the child. Its calls come back with an
  ID that the catalog does not know, and end the execution as a violation of the
  protocol. If two IDs become one, or one becomes what another is, the worker refuses
  the manifest of every execution, although `Build` and the probe succeeded
  (`ValidateRegistration` asks of an ID only that it is not empty and has no
  surrounding space). So no call ever reaches a capability it did not name, and
  `CallsReachTheirCapability` and `CatalogImpliesManifest` say what happens to each
  kind of ID.
* `Bind` counts the members of a struct that are `None` for the length of the
  canonical map, which leaves them out. It is stricter than the encoder, never
  laxer, so what it accepts still arrives.

## 6. Not modelled

* The Starlark interpreter, the Rego engine, `encoding/json` and the MCP library
  are external, modelled by what the code lets them do. `internal/universe` (the
  builtins `json`, `math` and `sum`) has no state; its names are reserved roots in
  `Builder`.
* The refusal of JSON that no worker writes (`decode.go`: unknown members, trailing
  data, numbers out of range) is one disjunct of the faulty child of `Protocol`;
  the nesting limit of `encoding/json` (10000) is far above `MaxValueDepth`.
* The active path of the walks over process-neutral values (`validateSlice`,
  `validateMap`, `toStarlarkList`, `toStarlarkDict` in `value.go`): such values are
  decoded JSON or converted outputs, whose types `Compile` keeps free of recursion,
  so they are trees. The active path over Starlark values is modelled.
* Signatures and notations (`signature.go`), the spelling rules of names
  (`names.go`; a name is a member of the set that passes them), the text of messages and
  their sanitising: strings, on which no decision depends.
* The defaults and bounds of `Limits` (`limits.go` of the root): one bit of the
  options of `Builder`.
* Mocks, documentation, examples and build files.

## 7. Plan

Process and goroutine life cycle, authorization, protocol, construction, start-up
and errors came first, because the rest depends on them; caps, values, schemas,
binding and search followed. Every safety property that is not about recursive data
is proved. What is left is `Crossing`: were its walks written as loops over an
explicit stack, the method of `SearchProofs` (a run of the loop and a claim about its
iterations) would reach them too.
