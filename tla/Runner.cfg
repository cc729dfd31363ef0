SPECIFICATION FairSpec
CONSTANTS
  Requests = {r1, r2}
  MaxConcurrentExecutions = 1
  DispatchFailures = {"PermissionDenied"}
INVARIANTS
  LiveWorkersBounded
  NothingLeftBehind
  WaitOnlyForTheDead
  FailedCallNeverSucceeds
PROPERTIES
  SuccessIsEarned
  AnswerNamesItsCause
  ImplementsService
  EveryExecuteReturns
