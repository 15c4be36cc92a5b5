------------------------------ MODULE RunLocal ------------------------------
(***************************************************************************)
(* The command run-local (cli.py) around the ledger of JsonlLedger: it     *)
(* looks for an old summary, opens the ledger, runs the experiment, which  *)
(* appends its records, and writes a summary of them once (write_json in   *)
(* summary.py).  Other runs share the ledger and perhaps the summary's     *)
(* path, one after the other or at once; a caller of the library has no    *)
(* summary at all.                                                         *)
(*                                                                         *)
(* A summary is absent, partial or whole.  fsync of the file is taken to   *)
(* keep its directory entry as well.                                       *)
(***************************************************************************)
EXTENDS JsonlLedger

CONSTANTS
  Paths,   \* where summaries go
  NoPath,  \* the "path" of a library caller
  Alone    \* bound: so many runs start when no other is running

ASSUME PathAssumption == NoPath \notin Paths /\ Alone \in Nat

VARIABLES
  path,          \* each run's summary path
  stage,         \* where run-local is; the ledger's pc says where within "ledger"
  exit,          \* how it ended
  summary,       \* what is at each path, and whose it is
  summarySynced, \* paths whose file is on stable storage
  overlapped     \* history: a run started while another one was running

local == <<path, stage, exit, summary, summarySynced, overlapped>>
allVars == <<vars, local>>

Absent == [form |-> "absent", by |-> NoPath]
Exits == {"none", "completed", "error", "late", "killed"}
Stages == {"start", "checked", "ledger", "summarise", "created", "written", "over"}

LocalInit ==
  /\ Init
  /\ path \in [Runs -> Paths \union {NoPath}]
  /\ stage = [r \in Runs |-> "start"] /\ exit = [r \in Runs |-> "none"]
  /\ summary = [p \in Paths |-> Absent] /\ summarySynced = {}
  /\ overlapped = FALSE

Running(r) == stage[r] \notin {"start", "over"}
Overlaps(r) ==
  LET others == {other \in Runs \ {r} : Running(other)}
  IN  /\ others # {} => Cardinality({s \in Runs : stage[s] # "start"}) >= Alone
      /\ overlapped' = (overlapped \/ others # {})

GoOn(r, where) == stage' = [stage EXCEPT ![r] = where] /\ UNCHANGED exit
EndRun(r, how) ==
  /\ stage' = [stage EXCEPT ![r] = "over"]
  /\ exit' = [exit EXCEPT ![r] = how]

Files == <<summary, summarySynced>>

(* Mutant: run-local starts without a look at the summary's path. *)
CheckNothing(r) ==
  /\ stage[r] = "start" /\ path[r] \in Paths
  /\ GoOn(r, "checked") /\ Overlaps(r)
  /\ UNCHANGED <<vars, path, Files>>

(* An existing summary is refused before anything is run. *)
CheckSummary(r) ==
  /\ stage[r] = "start" /\ path[r] \in Paths
  /\ IF summary[path[r]].form = "absent" THEN GoOn(r, "checked") ELSE EndRun(r, "error")
  /\ Overlaps(r)
  /\ UNCHANGED <<vars, path, Files>>

(* No such program, an invalid one, no runtime, no image. *)
PreflightFails(r) ==
  /\ stage[r] = "checked"
  /\ EndRun(r, "error")
  /\ UNCHANGED <<vars, path, Files, overlapped>>

OpenLedger(r) ==
  /\ Open(r)
  /\ \/ stage[r] = "checked" /\ UNCHANGED overlapped
     \/ stage[r] = "start" /\ path[r] = NoPath /\ Overlaps(r)
  /\ IF pc'[r] = "opened" THEN GoOn(r, "ledger") ELSE EndRun(r, "error")
  /\ UNCHANGED <<path, Files>>

(* An experiment the ledger knows is refused, by the command. *)
StartRun(r) ==
  /\ stage[r] = "ledger"
  /\ IF path[r] = NoPath THEN LibraryStart(r) ELSE CliStart(r)
  /\ IF pc'[r] = "rejected" THEN EndRun(r, "error") ELSE GoOn(r, "ledger")
  /\ UNCHANGED <<path, Files, overlapped>>

(* Mutant: a run that failed is summarised too. *)
SummariseAnyway(r) ==
  /\ stage[r] = "ledger"
  /\ AppendRefused(r) \/ AppendWrites(r) \/ AppendTears(r) \/ Fsync(r) \/ Remember(r) \/ Dies(r)
  /\ \/ pc'[r] \in Active /\ GoOn(r, "ledger")
     \/ pc'[r] \in {"finished", "failed"} /\ path[r] # NoPath /\ GoOn(r, "summarise")
     \/ pc'[r] \in {"finished", "failed"} /\ path[r] = NoPath /\ EndRun(r, "completed")
     \/ pc'[r] = "dead" /\ EndRun(r, "killed")
  /\ UNCHANGED <<path, Files, overlapped>>

(* The experiment's records; a run that did not get through them is over. *)
AppendRecord(r) ==
  /\ stage[r] = "ledger"
  /\ AppendRefused(r) \/ AppendWrites(r) \/ AppendTears(r) \/ Fsync(r) \/ Remember(r) \/ Dies(r)
  /\ \/ pc'[r] \in Active /\ GoOn(r, "ledger")
     \/ pc'[r] = "finished" /\ path[r] # NoPath /\ GoOn(r, "summarise")
     \/ pc'[r] = "finished" /\ path[r] = NoPath /\ EndRun(r, "completed")
     \/ pc'[r] = "failed" /\ EndRun(r, "error")
     \/ pc'[r] = "dead" /\ \E how \in {"error", "killed"} : EndRun(r, how)
  /\ UNCHANGED <<path, Files, overlapped>>

Put(r, form) == summary' = [summary EXCEPT ![path[r]] = [form |-> form, by |-> r]]

(* Mutant: the summary is opened with mode "w". *)
CreateOver(r) ==
  /\ stage[r] = "summarise"
  /\ Put(r, "partial") /\ GoOn(r, "created")
  /\ summarySynced' = summarySynced \ {path[r]}
  /\ UNCHANGED <<vars, path, overlapped>>

(* open("x"): an empty file, unless somebody made one meanwhile. *)
CreateSummary(r) ==
  /\ stage[r] = "summarise"
  /\ IF summary[path[r]].form = "absent"
     THEN Put(r, "partial") /\ GoOn(r, "created")
     ELSE EndRun(r, "late") /\ UNCHANGED summary
  /\ UNCHANGED <<vars, path, summarySynced, overlapped>>

WriteSummary(r) ==
  /\ stage[r] = "created"
  /\ Put(r, "whole") /\ GoOn(r, "written")
  /\ UNCHANGED <<vars, path, summarySynced, overlapped>>

(* Mutant: flush() without fsync(). *)
SyncSkipped(r) ==
  /\ stage[r] = "written"
  /\ EndRun(r, "completed")
  /\ UNCHANGED <<vars, path, Files, overlapped>>

(* fsync, and the command reports a completed run. *)
SyncSummary(r) ==
  /\ stage[r] = "written"
  /\ summarySynced' = summarySynced \union {path[r]} /\ EndRun(r, "completed")
  /\ UNCHANGED <<vars, path, summary, overlapped>>

(* from_result or the write raises, or the process is killed: whatever is  *)
(* at the path stays there.                                                *)
SummaryFails(r) ==
  /\ stage[r] \in {"checked", "summarise", "created", "written"}
  /\ \E how \in {"error", "killed"} : EndRun(r, how)
  /\ UNCHANGED <<vars, path, Files, overlapped>>

(* The machine stops: a summary not on stable storage may be lost whole or *)
(* in part; what is left of it is there when the machine is back.          *)
PowerFails ==
  /\ PowerCut
  /\ stage' = [r \in Runs |-> IF Running(r) THEN "over" ELSE stage[r]]
  /\ exit' = [r \in Runs |-> IF Running(r) THEN "killed" ELSE exit[r]]
  /\ \E left \in [Paths -> {"absent", "partial", "whole"}] :
       /\ \A p \in Paths : /\ p \in summarySynced => left[p] = summary[p].form
                           /\ summary[p].form = "absent" => left[p] = "absent"
                           /\ summary[p].form = "partial" => left[p] # "whole"
       /\ summary' = [p \in Paths |-> IF left[p] = "absent" THEN Absent
                                      ELSE [summary[p] EXCEPT !.form = left[p]]]
  /\ summarySynced' = {p \in Paths : summary'[p] # Absent}
  /\ UNCHANGED <<path, overlapped>>

AllEnded == (\A r \in Runs : stage[r] = "over") /\ UNCHANGED allVars

LocalNext ==
  \/ \E r \in Runs :
       \/ CheckSummary(r) \/ PreflightFails(r) \/ OpenLedger(r) \/ StartRun(r)
       \/ AppendRecord(r) \/ CreateSummary(r) \/ WriteSummary(r) \/ SyncSummary(r)
       \/ SummaryFails(r)
  \/ PowerFails
  \/ AllEnded

LocalSpec == LocalInit /\ [][LocalNext]_allVars

-----------------------------------------------------------------------------
LocalTypeOK ==
  /\ TypeOK
  /\ path \in [Runs -> Paths \union {NoPath}]
  /\ stage \in [Runs -> Stages] /\ exit \in [Runs -> Exits]
  /\ summary \in [Paths -> [form : {"absent", "partial", "whole"}, by : Runs \union {NoPath}]]
  /\ summarySynced \subseteq Paths /\ overlapped \in BOOLEAN
  /\ \A r \in Runs : stage[r] \in {"summarise", "created", "written"} => path[r] \in Paths

(* A summary that can be read tells of records that are all on stable      *)
(* storage: it is made from a finished run only, and a crash that keeps it *)
(* cannot lose what it summarises.                                         *)
SummaryTellsLedger ==
  \A p \in Paths : summary[p].form = "whole" =>
    \A n \in 0..(Trials - 1) : \E i \in 1..synced :
      file[i] = [key |-> <<exp[summary[p].by], n>>, form |-> "whole", by |-> summary[p].by]

(* A run that reported completion has left its summary, whole, and neither *)
(* another run nor a power cut takes it away.                              *)
CompletedIsDurable ==
  \A r \in Runs : exit[r] = "completed" /\ path[r] \in Paths =>
    summary[path[r]] = [form |-> "whole", by |-> r]

(* "Write once so a completed summary is never silently replaced"          *)
(* (write_json): what one run began at a path no other run touches, though *)
(* both found the path free when they started.                             *)
SummaryNeverReplaced ==
  [][\A p \in Paths : summary[p] # Absent =>
       summary'[p] = Absent \/ summary'[p].by = summary[p].by]_allVars

(* No run that was let in does all its work only to find the path taken,   *)
(* also after a run that left half a summary behind, unless runs overlap.  *)
WorkIsSaved == overlapped \/ \A r \in Runs : exit[r] # "late"

(* What the ledger promises runs that come one after the other, some of    *)
(* them cut short: no record twice; an experiment's records are one run's  *)
(* and without a gap; an acknowledged record can be read again.            *)
AloneNoDuplicates == overlapped \/ NoDuplicates
AloneOneRun == overlapped \/ OneRunPerExperiment
AloneReadable == overlapped \/ AckedIsReadable
=============================================================================
