SPECIFICATION FairSessionSpec
CONSTANTS
  Requests = {r1}
  MaxConcurrentExecutions = 1
  DispatchFailures = {"PermissionDenied", "PolicyFailure", "CapabilityFailure", "ResourceLimit", "Internal"}
INVARIANTS
  OneCallAtATime
  AnswersAreTrue
  HandlerNeedsLiveAllow
  LateOutcomeIsDiscarded
  FailsClosed
  ValueLeavesNothingRunning
PROPERTIES
  ExecuteAndDispatchEnd
  NoGoroutineLeaks
