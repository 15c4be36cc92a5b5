--------------------------- MODULE SandboxCleanup ---------------------------
(***************************************************************************)
(* What CloudRunSandboxExecutor.execute (executors/cloud_sandbox.py) and   *)
(* ContainerExecutor.execute (executors/container.py) do around the driver *)
(* of Lockstep: the temporary directory, the uniquely named sandbox that   *)
(* the launcher creates while it starts, and the delete of that sandbox,   *)
(* run in a task of its own and shielded from a cancellation of the call.  *)
(*                                                                         *)
(* Data: one sandbox, since every call has a name of its own.  The driver  *)
(* is any that keeps the promise of DriverCall, as Lockstep does: its      *)
(* steps are those of DriverCall, and what is shown here holds around all  *)
(* of them.                                                                *)
(***************************************************************************)
EXTENDS Naturals

CONSTANTS
  Executors,        \* of "cloud" and "container", those in use
  CleanupAttempts,  \* _CLEANUP_ATTEMPTS of the Cloud Run executor
  CancelLimit,      \* bound: cancellations of the call by its caller
  Faulty            \* a delete may fail, and so may the launcher

ASSUME CleanupAssumption ==
  /\ Executors \subseteq {"cloud", "container"}
  /\ CleanupAttempts \in Nat \ {0}
  /\ CancelLimit \in Nat /\ Faulty \in BOOLEAN

VARIABLES
  executor,   \* whose execute() it is
  pc,         \* where execute() is
  stage, outcome, launcher,   \* the call of the driver, and how it ends
  cancels,    \* cancellations so far
  directory,  \* the temporary directory with the candidate exists
  created,    \* history: the launcher has created the named sandbox
  sandbox,    \* the named sandbox exists
  task,       \* where the delete is
  attempt,    \* delete commands given up so far
  deleted,    \* history: a delete command reported success
  cut         \* history: a cancellation left the launcher running

driver == <<stage, outcome, launcher>>
caller == <<executor, pc, driver, cancels, directory>>
cleanup == <<task, attempt, deleted>>
vars == <<caller, created, sandbox, cleanup, cut>>

Driver == INSTANCE DriverCall

(* A container is removed by one command, whose exit status is ignored. *)
Attempts == IF executor = "cloud" THEN CleanupAttempts ELSE 1
ChecksStatus == executor = "cloud"

Init ==
  /\ executor \in Executors
  /\ pc = "prepare" /\ Driver!Init /\ cancels = 0 /\ directory = FALSE
  /\ created = FALSE /\ sandbox = FALSE
  /\ task = "none" /\ attempt = 0 /\ deleted = FALSE
  /\ cut = FALSE

-----------------------------------------------------------------------------
(* execute().                                                              *)

(* The source is invalid, the limits exceed the ceiling, or there is no    *)
(* launcher: a result without a sandbox.                                   *)
Rejected ==
  /\ pc = "prepare" /\ Driver!CannotStart
  /\ pc' = "done"
  /\ UNCHANGED <<executor, cancels, directory, created, sandbox, cleanup, cut>>

(* The directory is made and the source written to it, in a thread. *)
WriteCandidate ==
  /\ pc = "prepare"
  /\ pc' = "write" /\ directory' = TRUE
  /\ UNCHANGED <<executor, driver, cancels, created, sandbox, cleanup, cut>>

DriverStarts ==
  /\ pc = "write" /\ Driver!Start
  /\ pc' = "driver"
  /\ UNCHANGED <<executor, cancels, directory, created, sandbox, cleanup, cut>>

(* The finally clause: the delete starts in a task of its own, shielded. *)
Finally ==
  /\ pc' = "shielded" /\ task' = "spawn"
  /\ UNCHANGED <<directory, attempt, deleted>>

(* The launcher could not be started. *)
DriverUnavailable ==
  /\ pc = "write" /\ Driver!CannotStart
  /\ Finally
  /\ UNCHANGED <<executor, cancels, created, sandbox, cut>>

(* Mutant: the finally clause does not wait for the end of the driver. *)
DriverLeft ==
  /\ pc = "driver" /\ Driver!Stop
  /\ Finally
  /\ UNCHANGED <<executor, cancels, created, sandbox, cut>>

(* The driver stops, drains and returns or raises, in its own time. *)
DriverProceeds ==
  /\ pc = "driver"
  /\ Driver!Stop \/ Driver!Stopped \/ Driver!LadderRaises \/ Driver!Return
  /\ IF stage' = "over" THEN Finally ELSE UNCHANGED <<pc, directory, cleanup>>
  /\ UNCHANGED <<executor, cancels, created, sandbox, cut>>

(* The caller cancels the call.  In the exchange the ladder still runs; in *)
(* the ladder it is left, with the launcher as it is.                      *)
CancelCall ==
  /\ cancels < CancelLimit /\ cancels' = cancels + 1
  /\ Driver!Cancel
  /\ \/ /\ pc = "write" /\ pc' = "done" /\ directory' = FALSE
        /\ UNCHANGED <<cleanup, cut>>
     \/ /\ pc = "driver" /\ stage' # "over"
        /\ UNCHANGED <<pc, directory, cleanup, cut>>
     \/ /\ pc = "driver" /\ stage' = "over" /\ Finally
        /\ cut' = (launcher # "exited")
  /\ UNCHANGED <<executor, created, sandbox>>

(* Mutant: the delete is awaited without the shield. *)
CancelUnshielded ==
  /\ cancels < CancelLimit /\ cancels' = cancels + 1
  /\ pc = "shielded" /\ task # "over"
  /\ pc' = "awaited" /\ task' = "cancelled"
  /\ UNCHANGED <<executor, driver, directory, created, sandbox, attempt, deleted, cut>>

(* The first cancellation of the delete only starts a second wait for it;  *)
(* one more cancels the delete itself, and leaves its command behind.      *)
CancelDelete ==
  /\ cancels < CancelLimit /\ cancels' = cancels + 1
  /\ pc' = "awaited"
  /\ \/ /\ pc = "shielded"
        /\ UNCHANGED <<task, sandbox>>
     \/ /\ pc = "awaited" /\ task # "over"
        /\ task' = "cancelled"
        /\ sandbox' \in IF task = "deleting" THEN {sandbox, FALSE} ELSE {sandbox}
  /\ UNCHANGED <<executor, driver, directory, created, attempt, deleted, cut>>

(* The delete is over, and the directory is removed on the way out. *)
Leave ==
  /\ pc \in {"shielded", "awaited"} /\ task \in {"over", "cancelled"}
  /\ pc' = "done" /\ directory' = FALSE
  /\ UNCHANGED <<executor, driver, cancels, created, sandbox, cleanup, cut>>

-----------------------------------------------------------------------------
(* The launcher and the sandbox.                                           *)

LauncherCreates ==
  /\ launcher = "running" /\ ~created
  /\ created' = TRUE /\ sandbox' = TRUE
  /\ UNCHANGED <<caller, cleanup, cut>>

(* The worker ends, and its sandbox with it. *)
SandboxEnds ==
  /\ sandbox
  /\ sandbox' = FALSE
  /\ UNCHANGED <<caller, created, cleanup, cut>>

LauncherExits ==
  /\ Driver!Die /\ created /\ ~sandbox
  /\ UNCHANGED <<executor, pc, cancels, directory, created, sandbox, cleanup, cut>>

(* It is killed by the ladder, or fails, and the sandbox outlives it. *)
LauncherDies ==
  /\ Driver!Die
  /\ stage = "stopping" \/ Faulty
  /\ UNCHANGED <<executor, pc, cancels, directory, created, sandbox, cleanup, cut>>

-----------------------------------------------------------------------------
(* _delete_sandbox, and _delete_container.                                 *)

(* Mutant: "<=" for "<" against the attempts. *)
GiveUpLate ==
  /\ attempt' = attempt + 1
  /\ task' = IF attempt + 1 <= Attempts THEN "pausing" ELSE "over"

(* An attempt failed: the next one after a pause, or none. *)
GiveUp ==
  /\ attempt' = attempt + 1
  /\ task' = IF attempt + 1 < Attempts THEN "pausing" ELSE "over"

DeleteStarts ==
  /\ task = "spawn"
  /\ task' = "deleting"
  /\ UNCHANGED <<caller, created, sandbox, attempt, deleted, cut>>

DeleteCannotStart ==
  /\ task = "spawn" /\ Faulty
  /\ GiveUp
  /\ UNCHANGED <<caller, created, sandbox, deleted, cut>>

DeleteSucceeds ==
  /\ task = "deleting"
  /\ sandbox' = FALSE /\ task' = "over" /\ deleted' = TRUE
  /\ UNCHANGED <<caller, created, attempt, cut>>

(* It exits with an error, which only the Cloud Run executor looks at. *)
DeleteFails ==
  /\ task = "deleting" /\ Faulty /\ ChecksStatus
  /\ GiveUp
  /\ UNCHANGED <<caller, created, sandbox, deleted, cut>>

DeleteFailsUnseen ==
  /\ task = "deleting" /\ Faulty /\ ~ChecksStatus
  /\ task' = "over"
  /\ UNCHANGED <<caller, created, sandbox, attempt, deleted, cut>>

(* Mutant: the wait for the command that was killed never ends. *)
DeleteHangs ==
  /\ task = "deleting" /\ Faulty
  /\ UNCHANGED vars

(* After five seconds it is killed, before or after it did its work. *)
DeleteTimesOut ==
  /\ task = "deleting" /\ Faulty
  /\ GiveUp
  /\ sandbox' \in {sandbox, FALSE}
  /\ UNCHANGED <<caller, created, deleted, cut>>

PauseEnds ==
  /\ task = "pausing"
  /\ task' = "spawn"
  /\ UNCHANGED <<caller, created, sandbox, attempt, deleted, cut>>

-----------------------------------------------------------------------------
Caller ==
  \/ Rejected \/ WriteCandidate \/ DriverStarts \/ DriverUnavailable
  \/ DriverProceeds \/ Leave

Environment == LauncherCreates \/ SandboxEnds \/ LauncherExits \/ LauncherDies

Delete ==
  \/ DeleteStarts \/ DeleteCannotStart \/ DeleteSucceeds \/ DeleteFails
  \/ DeleteFailsUnseen \/ DeleteTimesOut \/ PauseEnds

Finished == pc = "done" /\ UNCHANGED vars

Next == Caller \/ CancelCall \/ CancelDelete \/ Environment \/ Delete \/ Finished

Spec == Init /\ [][Next]_vars

(* The event loop runs the delete's steps and its timers; nothing is       *)
(* assumed of the exchange, the launcher, the sandbox or the command.      *)
Fairness ==
  /\ WF_vars(DeleteStarts \/ DeleteCannotStart)
  /\ WF_vars(DeleteTimesOut)
  /\ WF_vars(PauseEnds)
  /\ WF_vars(Leave)

FairSpec == Spec /\ Fairness

-----------------------------------------------------------------------------
TypeOK ==
  /\ executor \in Executors
  /\ pc \in {"prepare", "write", "driver", "shielded", "awaited", "done"}
  /\ stage \in {"idle", "running", "stopping", "draining", "over"}
  /\ outcome \in {"pending", "result", "raised", "cancelled"}
  /\ launcher \in {"absent", "running", "exited"}
  /\ cancels \in 0..CancelLimit
  /\ directory \in BOOLEAN /\ created \in BOOLEAN /\ sandbox \in BOOLEAN
  /\ task \in {"none", "spawn", "deleting", "pausing", "over", "cancelled"}
  /\ attempt \in 0..Attempts
  /\ deleted \in BOOLEAN /\ cut \in BOOLEAN

(* A sandbox outlives its call in three cases only: the delete ran to its  *)
(* end and no command succeeded, which for Cloud Run is every attempt; a   *)
(* second cancellation of the call reached the delete; or a cancellation   *)
(* in the ladder left a launcher running that had yet to create it.        *)
SandboxLeftOnlyIf ==
  pc = "done" /\ sandbox =>
    \/ task = "over" /\ ~deleted /\ (ChecksStatus => attempt = Attempts)
    \/ task = "cancelled" /\ cancels >= 2
    \/ cut

(* The candidate's file is there for as long as a launcher may read it.    *)
FileOutlivesLauncher ==
  launcher = "running" => directory \/ cut

(* The delete ends, and execute() with it, however often it fails. *)
DeleteEnds == pc = "shielded" ~> pc = "done"
=============================================================================
