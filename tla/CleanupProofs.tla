---------------------------- MODULE CleanupProofs ----------------------------
(***************************************************************************)
(* Theorems about SandboxCleanup for every number of delete attempts and   *)
(* every number of cancellations.                                          *)
(***************************************************************************)
EXTENDS SandboxCleanup, TLAPS

-----------------------------------------------------------------------------
(* The inductive invariant.                                                *)

(* Before the driver starts there is nothing to clean up, and while it     *)
(* runs the delete has not begun.                                          *)
Before ==
  /\ pc \in {"prepare", "write"} =>
       stage = "idle" /\ launcher = "absent" /\ task = "none" /\ ~cut
  /\ pc = "driver" =>
       stage \in {"running", "stopping", "draining"} /\ task = "none" /\ ~cut
  /\ launcher = "absent" => ~created
  /\ ~created => ~sandbox

(* The delete starts when the driver's call is over, and its launcher with *)
(* it unless a cancellation cut the ladder; until the delete is over the   *)
(* directory stays.                                                        *)
During ==
  /\ stage = "draining" => launcher = "exited"
  /\ pc \in {"shielded", "awaited", "done"} => stage = "over"
  /\ pc \in {"shielded", "awaited", "done"} /\ ~cut => launcher \in {"absent", "exited"}
  /\ pc \in {"write", "driver", "shielded", "awaited"} => directory
  /\ pc = "awaited" => cancels >= 1
  /\ pc \in {"shielded", "awaited"} => task # "none"
  /\ pc = "done" => task \in {"none", "over", "cancelled"}
  /\ pc = "done" /\ task = "none" => launcher = "absent"

(* How far the delete is. *)
Progress ==
  /\ task = "none" => attempt = 0 /\ ~deleted
  /\ task \in {"spawn", "deleting", "pausing"} => attempt < Attempts /\ ~deleted
  /\ task = "over" => deleted \/ attempt = Attempts \/ ~ChecksStatus
  /\ task = "cancelled" => cancels >= 2
  /\ deleted /\ ~cut => ~sandbox
  /\ deleted => task = "over"

IInv == TypeOK /\ Before /\ During /\ Progress

(* The initial state satisfies the invariant. *)
LEMMA InitSafe == Init => IInv
<1> USE DEF Init, Driver!Init
<1>1. Init => TypeOK
  <2>1. 0 \in 0..CancelLimit /\ 0 \in 0..Attempts
    BY CleanupAssumption DEF Attempts
  <2> SUFFICES ASSUME Init  PROVE TypeOK
    OBVIOUS
  <2>2. cancels \in 0..CancelLimit /\ attempt \in 0..Attempts
    BY <2>1
  <2>3. directory \in BOOLEAN /\ created \in BOOLEAN /\ sandbox \in BOOLEAN /\ deleted \in BOOLEAN /\ cut \in BOOLEAN
    OBVIOUS
  <2> QED  BY <2>2, <2>3 DEF TypeOK
<1>2. Init => Before
  BY DEF Before
<1>3. Init => During
  BY DEF During
<1>4. Init => Progress
  BY DEF Progress
<1> QED  BY <1>1, <1>2, <1>3, <1>4 DEF IInv

(* A step of execute() itself, or of the driver it waits for. *)
LEMMA CallerSafe ==
  ASSUME IInv, Caller
  PROVE  IInv'
<1> USE CleanupAssumption DEF IInv, TypeOK, Before, During, Progress, cleanup, driver, Attempts, ChecksStatus
<1>1. CASE Rejected
  BY <1>1 DEF Rejected, Driver!CannotStart
<1>2. CASE WriteCandidate
  BY <1>2 DEF WriteCandidate
<1>3. CASE DriverStarts
  BY <1>3 DEF DriverStarts, Driver!Start
<1>4. CASE DriverUnavailable
  BY <1>4 DEF DriverUnavailable, Driver!CannotStart, Finally
<1>5. CASE DriverProceeds
  <2>1. pc = "driver" /\ UNCHANGED <<executor, cancels, created, sandbox, cut, launcher>>
    BY <1>5 DEF DriverProceeds, Driver!Stop, Driver!Stopped, Driver!LadderRaises, Driver!Return
  <2>2. CASE stage' = "over"
    <3>1. Finally /\ outcome' \in {"result", "raised", outcome} /\ launcher = "exited"
      BY <1>5, <2>2 DEF DriverProceeds, Driver!Stop, Driver!Stopped, Driver!LadderRaises, Driver!Return
    <3>2. /\ pc' = "shielded" /\ task' = "spawn" /\ UNCHANGED <<directory, attempt, deleted>>
          /\ task = "none"
      BY <2>1, <3>1 DEF Finally
    <3>3. TypeOK'
      BY <2>1, <2>2, <3>1, <3>2
    <3>4. Before' /\ During'
      BY <2>1, <2>2, <3>1, <3>2
    <3>5. Progress'
      BY <2>1, <3>2
    <3> QED  BY <3>3, <3>4, <3>5
  <2>3. CASE stage' # "over"
    <3>1. /\ UNCHANGED <<pc, directory, task, attempt, deleted>>
          /\ outcome' \in {outcome, "raised"} /\ stage' \in {"stopping", "draining"}
          /\ stage' = "draining" => launcher = "exited"
      BY <1>5, <2>3 DEF DriverProceeds, Driver!Stop, Driver!Stopped, Driver!LadderRaises, Driver!Return
    <3> QED  BY <2>1, <3>1
  <2> QED  BY <2>2, <2>3
<1>6. CASE Leave
  BY <1>6 DEF Leave
<1> QED  BY <1>1, <1>2, <1>3, <1>4, <1>5, <1>6 DEF Caller

(* A cancellation of the call before its delete. *)
LEMMA CancelCallSafe ==
  ASSUME IInv, CancelCall
  PROVE  IInv'
<1> USE CleanupAssumption DEF IInv, TypeOK, Before, During, Progress, cleanup, Attempts, ChecksStatus
<1>1. /\ cancels' \in 0..CancelLimit /\ cancels' = cancels + 1 /\ cancels \in Nat
      /\ outcome' = "cancelled" /\ UNCHANGED <<executor, created, sandbox, launcher>>
      /\ stage' = IF stage = "running" THEN "stopping" ELSE "over"
  BY DEF CancelCall, Driver!Cancel
<1>2. CASE pc = "write"
  <2>1. /\ pc' = "done" /\ directory' = FALSE /\ launcher = "absent" /\ task = "none"
        /\ UNCHANGED <<task, attempt, deleted, cut>>
    BY <1>2 DEF CancelCall
  <2> QED  BY <1>1, <1>2, <2>1
<1>3. CASE pc = "driver" /\ stage' # "over"
  <2>1. UNCHANGED <<pc, directory, task, attempt, deleted, cut>>
    BY <1>3 DEF CancelCall
  <2> QED  BY <1>1, <1>3, <2>1
<1>4. CASE pc = "driver" /\ stage' = "over"
  <2>1. /\ pc' = "shielded" /\ task' = "spawn" /\ cut' \in BOOLEAN
        /\ cut' = FALSE => launcher = "exited"
        /\ UNCHANGED <<directory, attempt, deleted>>
    BY <1>4 DEF CancelCall, Finally
  <2> QED  BY <1>1, <1>4, <2>1
<1> QED  BY <1>2, <1>3, <1>4 DEF CancelCall

(* A cancellation of the delete. *)
LEMMA CancelDeleteSafe ==
  ASSUME IInv, CancelDelete
  PROVE  IInv'
<1> USE CleanupAssumption DEF IInv, TypeOK, Before, During, Progress, driver, Attempts, ChecksStatus
<1>1. /\ cancels' \in 0..CancelLimit /\ cancels' = cancels + 1 /\ cancels \in Nat
      /\ pc' = "awaited"
      /\ UNCHANGED <<executor, stage, outcome, launcher, directory, created, attempt, deleted, cut>>
  BY DEF CancelDelete
<1>2. CASE pc = "shielded"
  <2>1. UNCHANGED <<sandbox, task>>
    BY <1>2 DEF CancelDelete
  <2> QED  BY <1>1, <1>2, <2>1
<1>3. CASE pc = "awaited"
  <2>1. task' = "cancelled" /\ task # "over"
    BY <1>3 DEF CancelDelete
  <2>2. sandbox' = sandbox \/ sandbox' = FALSE
    BY <1>3 DEF CancelDelete
  <2>3. sandbox' \in BOOLEAN
    BY <2>2
  <2>4. TypeOK'
    BY <1>1, <2>1, <2>3
  <2>5. Before' /\ During'
    BY <1>1, <1>3, <2>1, <2>2
  <2>6. Progress'
    BY <1>1, <1>3, <2>1, <2>2
  <2> QED  BY <2>4, <2>5, <2>6
<1> QED  BY <1>2, <1>3 DEF CancelDelete

(* A step of the launcher, of the sandbox or of the delete. *)
LEMMA OutsideSafe ==
  ASSUME IInv, Environment \/ Delete
  PROVE  IInv'
<1> USE CleanupAssumption DEF IInv, TypeOK, Before, During, Progress, Attempts, ChecksStatus
<1>1. CASE LauncherCreates
  <2>1. /\ launcher = "running" /\ created' = TRUE /\ sandbox' = TRUE
        /\ UNCHANGED <<executor, pc, stage, outcome, launcher, cancels, directory, task, attempt, deleted, cut>>
    BY <1>1 DEF LauncherCreates, caller, driver, cleanup
  <2>2. TypeOK'
    BY <2>1
  <2>3. Before' /\ During'
    BY <2>1
  <2>4. Progress'
    BY <2>1
  <2> QED  BY <2>2, <2>3, <2>4
<1>2. CASE SandboxEnds
  <2>1. /\ sandbox' = FALSE
        /\ UNCHANGED <<executor, pc, stage, outcome, launcher, cancels, directory, created, task, attempt, deleted, cut>>
    BY <1>2 DEF SandboxEnds, caller, driver, cleanup
  <2>2. TypeOK'
    <3>1. Attempts' = Attempts /\ sandbox' \in BOOLEAN
      BY <2>1
    <3> HIDE DEF Attempts, ChecksStatus
    <3> QED  BY <2>1, <3>1
  <2>3. Before' /\ During'
    BY <2>1
  <2>4. Progress'
    BY <2>1
  <2> QED  BY <2>2, <2>3, <2>4
<1>3. CASE LauncherExits \/ LauncherDies
  <2>1. /\ launcher = "running" /\ launcher' = "exited"
        /\ UNCHANGED <<executor, pc, stage, outcome, cancels, directory, created, sandbox, task, attempt, deleted, cut>>
    BY <1>3 DEF LauncherExits, LauncherDies, Driver!Die, cleanup
  <2>2. TypeOK'
    BY <2>1
  <2>3. Before' /\ During'
    BY <2>1
  <2>4. Progress'
    BY <2>1
  <2> QED  BY <2>2, <2>3, <2>4
<1>4. CASE DeleteStarts \/ PauseEnds
  <2>1. /\ task \in {"spawn", "pausing"} /\ task' \in {"deleting", "spawn"}
        /\ UNCHANGED <<executor, pc, stage, outcome, launcher, cancels, directory, created, sandbox, attempt, deleted, cut>>
    BY <1>4 DEF DeleteStarts, PauseEnds, caller, driver
  <2>2. TypeOK'
    BY <2>1
  <2>3. Before' /\ During'
    BY <2>1
  <2>4. Progress'
    BY <2>1
  <2> QED  BY <2>2, <2>3, <2>4
<1>5. CASE DeleteCannotStart \/ DeleteFails
  <2>1. /\ task \in {"spawn", "deleting"} /\ attempt' = attempt + 1
        /\ task' = IF attempt + 1 < Attempts THEN "pausing" ELSE "over"
        /\ UNCHANGED <<executor, pc, stage, outcome, launcher, cancels, directory, created, sandbox, deleted, cut>>
    BY <1>5 DEF DeleteCannotStart, DeleteFails, GiveUp, caller, driver
  <2>2. TypeOK'
    BY <2>1
  <2>3. Before' /\ During'
    BY <2>1
  <2>4. Progress'
    BY <2>1
  <2> QED  BY <2>2, <2>3, <2>4
<1>6. CASE DeleteTimesOut
  <2>1. /\ task = "deleting" /\ attempt' = attempt + 1 /\ (sandbox' = sandbox \/ sandbox' = FALSE)
        /\ task' = IF attempt + 1 < Attempts THEN "pausing" ELSE "over"
        /\ UNCHANGED <<executor, pc, stage, outcome, launcher, cancels, directory, created, deleted, cut>>
    BY <1>6 DEF DeleteTimesOut, GiveUp, caller, driver
  <2>2. TypeOK'
    <3>1. sandbox' \in BOOLEAN
      BY <2>1
    <3>2. task' \in {"pausing", "over"}
      BY <2>1
    <3>3. Attempts' = Attempts /\ ChecksStatus' = ChecksStatus
      BY <2>1
    <3>4. attempt' \in 0..Attempts'
      <4>1. attempt \in Nat /\ Attempts \in Nat /\ attempt < Attempts /\ attempt' = attempt + 1
        BY <2>1
      <4> HIDE DEF Attempts, ChecksStatus
      <4> QED  BY <3>3, <4>1
    <3> HIDE DEF Attempts, ChecksStatus
    <3> QED  BY <2>1, <3>1, <3>2, <3>3, <3>4
  <2>3. Before' /\ During'
    BY <2>1
  <2>4. Progress'
    <3>1. /\ attempt \in Nat /\ attempt' = attempt + 1 /\ Attempts \in Nat /\ attempt < Attempts
          /\ Attempts' = Attempts /\ ~deleted' /\ task' = (IF attempt + 1 < Attempts THEN "pausing" ELSE "over")
      BY <2>1
    <3> HIDE DEF Attempts, ChecksStatus
    <3> QED  BY <3>1
  <2> QED  BY <2>2, <2>3, <2>4
<1>7. CASE DeleteSucceeds
  <2>1. /\ task = "deleting" /\ sandbox' = FALSE /\ task' = "over" /\ deleted' = TRUE
        /\ UNCHANGED <<executor, pc, stage, outcome, launcher, cancels, directory, created, attempt, cut>>
    BY <1>7 DEF DeleteSucceeds, caller, driver
  <2>2. TypeOK'
    BY <2>1
  <2>3. Before' /\ During'
    BY <2>1
  <2>4. Progress'
    BY <2>1
  <2> QED  BY <2>2, <2>3, <2>4
<1>8. CASE DeleteFailsUnseen
  <2>1. /\ task = "deleting" /\ ~ChecksStatus /\ task' = "over"
        /\ UNCHANGED <<executor, pc, stage, outcome, launcher, cancels, directory, created, sandbox, attempt, deleted, cut>>
    BY <1>8 DEF DeleteFailsUnseen, caller, driver
  <2>2. TypeOK'
    BY <2>1
  <2>3. Before' /\ During'
    BY <2>1
  <2>4. Progress'
    BY <2>1
  <2> QED  BY <2>2, <2>3, <2>4
<1> QED  BY <1>1, <1>2, <1>3, <1>4, <1>5, <1>6, <1>7, <1>8 DEF Environment, Delete

(* The invariant holds in every behaviour of the executors. *)
THEOREM Invariance == Spec => []IInv
<1>1. IInv /\ [Next]_vars => IInv'
  <2>1. ASSUME IInv, UNCHANGED vars
        PROVE  IInv'
    BY <2>1 DEF IInv, TypeOK, Before, During, Progress, vars, caller, driver, cleanup, Attempts, ChecksStatus
  <2> QED  BY <2>1, CallerSafe, CancelCallSafe, CancelDeleteSafe, OutsideSafe DEF Next, Finished
<1> QED  BY <1>1, InitSafe, PTL DEF Spec

(* Every variable of the executors keeps its kind, attempts and            *)
(* cancellations their bounds.                                             *)
THEOREM TypeCorrect == Spec => []TypeOK
<1>1. IInv => TypeOK
  BY DEF IInv
<1> QED  BY <1>1, Invariance, PTL

(* A sandbox outlives its call only if no delete succeeded, a second       *)
(* cancellation reached the delete, or a cancellation cut the ladder: for  *)
(* every number of attempts and cancellations.                             *)
THEOREM SandboxLeftOnlyIfHolds == Spec => []SandboxLeftOnlyIf
<1>1. IInv => SandboxLeftOnlyIf
  BY DEF IInv, TypeOK, Before, During, Progress, SandboxLeftOnlyIf
<1> QED  BY <1>1, Invariance, PTL

(* The candidate's file exists for as long as a launcher may read it,      *)
(* unless a cancellation cut the ladder.                                   *)
THEOREM FileOutlivesLauncherHolds == Spec => []FileOutlivesLauncher
<1>1. IInv => FileOutlivesLauncher
  BY DEF IInv, TypeOK, Before, During, Progress, FileOutlivesLauncher
<1> QED  BY <1>1, Invariance, PTL
=============================================================================
