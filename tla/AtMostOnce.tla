----------------------------- MODULE AtMostOnce -----------------------------
(***************************************************************************)
(* What a remote execution promises its caller, whatever the network, the  *)
(* platform and the service in between do: a candidate is executed at most *)
(* once per call, a result is only ever that of an execution, a call       *)
(* that was refused never executes anything, and any other end of the call *)
(* says nothing: the work may still be done after it.                      *)
(***************************************************************************)
EXTENDS Naturals

CONSTANT Calls

VARIABLES
  executions,  \* how often the candidate of each call was executed
  verdict      \* "open", "result", "refused" or "unknown"

vars == <<executions, verdict>>

Init ==
  /\ executions = [c \in Calls |-> 0]
  /\ verdict = [c \in Calls |-> "open"]

Execute(c) ==
  /\ executions[c] = 0 /\ verdict[c] # "refused"
  /\ executions' = [executions EXCEPT ![c] = 1]
  /\ UNCHANGED verdict

Decide(c, answer) ==
  /\ verdict[c] = "open"
  /\ verdict' = [verdict EXCEPT ![c] = answer]
  /\ UNCHANGED executions

Answer(c) == executions[c] = 1 /\ Decide(c, "result")
Refuse(c) == executions[c] = 0 /\ Decide(c, "refused")
GiveUp(c) == Decide(c, "unknown")

Next == \E c \in Calls : Execute(c) \/ Answer(c) \/ Refuse(c) \/ GiveUp(c)

Spec == Init /\ [][Next]_vars
=============================================================================
