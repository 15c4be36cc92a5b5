----------------------------- MODULE DriverCall -----------------------------
(***************************************************************************)
(* What a call of the process driver promises of the one launcher it       *)
(* starts, whatever it exchanges with it: the exchange, however it ends,   *)
(* is followed by a stop ladder, and the ladder by the stderr drain or the *)
(* end of the call only when the launcher is dead.  A cancellation ends    *)
(* what it meets: the exchange (the ladder still runs), the ladder (with   *)
(* the launcher as it is) or the drain.  SandboxCleanup builds on this     *)
(* promise, and Lockstep is shown to keep it.                              *)
(***************************************************************************)

VARIABLES
  stage,      \* "idle", "running", "stopping", "draining", "over"
  outcome,    \* how the call ends: "pending", "result", "raised", "cancelled"
  launcher    \* "absent", "running", "exited"

call == <<stage, outcome, launcher>>

Init == stage = "idle" /\ outcome = "pending" /\ launcher = "absent"

(* A result without a launcher. *)
CannotStart ==
  /\ stage = "idle"
  /\ stage' = "over" /\ outcome' = "result"
  /\ UNCHANGED launcher

Start ==
  /\ stage = "idle"
  /\ stage' = "running" /\ launcher' = "running"
  /\ UNCHANGED outcome

(* The exchange is over, by a verdict or by an exception. *)
Stop ==
  /\ stage = "running"
  /\ stage' = "stopping" /\ outcome' \in {outcome, "raised"}
  /\ UNCHANGED launcher

(* The ladder returns; an exception or a cancellation goes on from there. *)
Stopped ==
  /\ stage = "stopping" /\ launcher = "exited"
  /\ stage' = IF outcome = "pending" THEN "draining" ELSE "over"
  /\ UNCHANGED <<outcome, launcher>>

(* The ladder raises, in place of what brought the call to it. *)
LadderRaises ==
  /\ stage = "stopping" /\ launcher = "exited"
  /\ stage' = "over" /\ outcome' = "raised"
  /\ UNCHANGED launcher

Return ==
  /\ stage = "draining"
  /\ stage' = "over" /\ outcome' = "result"
  /\ UNCHANGED launcher

Cancel ==
  /\ stage # "over"
  /\ outcome' = "cancelled"
  /\ stage' = IF stage = "running" THEN "stopping" ELSE "over"
  /\ UNCHANGED launcher

(* The launcher dies, by itself or of a signal. *)
Die ==
  /\ launcher = "running"
  /\ launcher' = "exited"
  /\ UNCHANGED <<stage, outcome>>

Next == CannotStart \/ Start \/ Stop \/ Stopped \/ LadderRaises \/ Return \/ Cancel \/ Die

Spec == Init /\ [][Next]_call
=============================================================================
