-------------------------- MODULE NativeCallLedger --------------------------
(***************************************************************************)
(* What an execution may do to its host, whatever the worker process does: *)
(* native calls come one at a time and at most MaxCalls of them, the       *)
(* results sent back have at most Budget bytes in all, and a value is the  *)
(* verdict only of an execution whose every call was answered with a       *)
(* result.                                                                 *)
(***************************************************************************)
EXTENDS Naturals

CONSTANTS MaxCalls, Budget, Verdicts, Value, NoVerdict

VARIABLES
  calls,     \* native calls accepted
  answered,  \* of these, the ones answered with a result
  spent,     \* bytes of results
  verdict    \* how the execution ended

lvars == <<calls, answered, spent, verdict>>

Init == calls = 0 /\ answered = 0 /\ spent = 0 /\ verdict = NoVerdict

Accept ==
  /\ verdict = NoVerdict
  /\ calls = answered
  /\ calls < MaxCalls
  /\ calls' = calls + 1
  /\ UNCHANGED <<answered, spent, verdict>>

Reply ==
  /\ verdict = NoVerdict
  /\ calls = answered + 1
  /\ \E n \in 0..(Budget - spent) : spent' = spent + n
  /\ answered' = answered + 1
  /\ UNCHANGED <<calls, verdict>>

Finish(v) ==
  /\ verdict = NoVerdict
  /\ v = Value => calls = answered
  /\ verdict' = v
  /\ UNCHANGED <<calls, answered, spent>>

Next == Accept \/ Reply \/ \E v \in Verdicts : Finish(v)

Spec == Init /\ [][Next]_lvars
=============================================================================
