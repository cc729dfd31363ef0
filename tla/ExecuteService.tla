--------------------------- MODULE ExecuteService ---------------------------
(***************************************************************************)
(* What a host may rely on when it calls Server.Execute from any number of *)
(* goroutines, with every mechanism left out: no semaphore, no pipes, no   *)
(* frames, no goroutines.  A call either never gets a worker process or    *)
(* gets exactly one; at most Slots worker processes exist at a time; a     *)
(* call answers only when its worker process is gone, and it can answer    *)
(* with a value only if it had one.                                        *)
(*                                                                         *)
(* Runner.tla is shown to implement this specification.                    *)
(***************************************************************************)
EXTENDS Naturals, FiniteSets

CONSTANTS
  Calls,      \* the calls of Execute
  Slots,      \* how many worker processes may exist at a time
  Answers,    \* what a call may answer
  Value,      \* the answer of a call whose program completed
  NoAnswer    \* a call that has not answered

VARIABLES
  phase,      \* phase[c]: how far call c has come
  answer      \* answer[c]: what call c answered

svars == <<phase, answer>>

Phases == {"idle", "pending", "working", "stopped", "answered"}

\* The calls whose worker process exists.
Working == {c \in Calls : phase[c] = "working"}

Init ==
  /\ phase  = [c \in Calls |-> "idle"]
  /\ answer = [c \in Calls |-> NoAnswer]

Submit(c) ==
  /\ phase[c] = "idle"
  /\ phase' = [phase EXCEPT ![c] = "pending"]
  /\ UNCHANGED answer

\* The worker process of c comes into being; the limit holds at that moment.
Start(c) ==
  /\ phase[c] = "pending"
  /\ Cardinality(Working) < Slots
  /\ phase' = [phase EXCEPT ![c] = "working"]
  /\ UNCHANGED answer

\* The worker process of c is reaped.
Stop(c) ==
  /\ phase[c] = "working"
  /\ phase' = [phase EXCEPT ![c] = "stopped"]
  /\ UNCHANGED answer

\* c answers: an error at any point without a process, a value only after it.
Answer(c, a) ==
  /\ phase[c] \in {"idle", "pending", "stopped"}
  /\ a = Value => phase[c] = "stopped"
  /\ phase'  = [phase EXCEPT ![c] = "answered"]
  /\ answer' = [answer EXCEPT ![c] = a]

Next ==
  \E c \in Calls :
    \/ Submit(c)
    \/ Start(c)
    \/ Stop(c)
    \/ \E a \in Answers : Answer(c, a)

Spec == Init /\ [][Next]_svars
=============================================================================
