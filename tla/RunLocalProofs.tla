--------------------------- MODULE RunLocalProofs ---------------------------
(***************************************************************************)
(* Theorems about RunLocal for any set of runs, however they overlap, any  *)
(* number of trials and any summary paths; the last four are about runs    *)
(* that do not overlap.                                                    *)
(***************************************************************************)
EXTENDS RunLocal, LedgerProofs

-----------------------------------------------------------------------------
(* The ledger underneath.                                                  *)

(* A step of the command is a step of the ledger, or leaves it alone. *)
LEMMA LedgerStep ==
  ASSUME [LocalNext]_allVars
  PROVE  [Next]_vars
<1>1. ASSUME NEW r \in Runs, OpenLedger(r) \/ StartRun(r) \/ AppendRecord(r)
      PROVE  Next
  BY <1>1 DEF OpenLedger, StartRun, AppendRecord, Next
<1>2. ASSUME NEW r \in Runs,
             \/ CheckSummary(r) \/ PreflightFails(r) \/ CreateSummary(r) \/ WriteSummary(r)
             \/ SyncSummary(r) \/ SummaryFails(r)
      PROVE  UNCHANGED vars
  BY <1>2 DEF CheckSummary, PreflightFails, CreateSummary, WriteSummary, SyncSummary, SummaryFails
<1>3. CASE PowerFails
  BY <1>3 DEF PowerFails, Next
<1>4. CASE AllEnded \/ UNCHANGED allVars
  BY <1>4 DEF AllEnded, allVars
<1> QED  BY <1>1, <1>2, <1>3, <1>4 DEF LocalNext

(* The command keeps what the ledger promises any runs that share it. *)
THEOREM LedgerKept == LocalSpec => Spec
<1>1. LocalInit => Init
  BY DEF LocalInit
<1>2. [LocalNext]_allVars => [Next]_vars
  BY LedgerStep
<1> QED  BY <1>1, <1>2, PTL DEF LocalSpec, Spec

(* A record whose append returned is durable, whatever the command does. *)
THEOREM LocalAckedIsDurable == LocalSpec => []AckedIsDurable
  BY LedgerKept, AckedIsDurableHolds, PTL

(* What is on stable storage of the ledger is never rewritten by a run. *)
THEOREM LocalAppendOnly == LocalSpec => AppendOnly
  BY LedgerKept, AppendOnlyHolds, PTL

(* A run has been told of each of its trials so far; of all when finished. *)
Recorded ==
  \A r \in Runs :
    /\ \A n \in 0..(next[r] - 1) : <<<<exp[r], n>>, r>> \in acked
    /\ pc[r] = "finished" => next[r] = Trials

(* A step keeps that, and neither an experiment nor a finished run changes. *)
LEMMA RecordedStep ==
  ASSUME TypeOK, Room, Recorded, [Next]_vars
  PROVE  /\ Recorded' /\ exp' = exp /\ acked \subseteq acked'
         /\ \A r \in Runs : pc[r] = "finished" => pc'[r] = "finished"
<1> USE DEF TypeOK
<1>1. ASSUME NEW r \in Runs,
             \/ Open(r) \/ CliStart(r) \/ LibraryStart(r) \/ AppendRefused(r)
             \/ AppendWrites(r) \/ AppendTears(r) \/ Fsync(r) \/ Dies(r)
      PROVE  /\ next' = next /\ exp' = exp /\ acked' = acked
             /\ \A q \in Runs : pc'[q] = "finished" <=> pc[q] = "finished"
  BY <1>1 DEF Open, CliStart, LibraryStart, AppendRefused, AppendWrites, AppendTears, Fsync, Dies, Become, Active
<1>2. ASSUME NEW r \in Runs, Remember(r)
      PROVE  /\ Recorded' /\ exp' = exp /\ acked \subseteq acked'
             /\ \A q \in Runs : pc[q] = "finished" => pc'[q] = "finished"
  <2>1. /\ exp' = exp /\ acked' = acked \union {<<<<exp[r], next[r]>>, r>>}
        /\ next'[r] = next[r] + 1 /\ next[r] \in Nat /\ Trials \in Nat
        /\ pc[r] = "synced" /\ (pc'[r] = "finished" => next[r] + 1 = Trials)
        /\ \A q \in Runs \ {r} : pc'[q] = pc[q] /\ next'[q] = next[q]
    BY <1>2, LedgerAssumption DEF Remember, Become, NextKey
  <2>2. \A n \in 0..(next'[r] - 1) : <<<<exp'[r], n>>, r>> \in acked'
    <3> SUFFICES ASSUME NEW n \in 0..(next'[r] - 1)  PROVE <<<<exp[r], n>>, r>> \in acked'
      BY <2>1
    <3>1. n \in 0..(next[r] - 1) \/ n = next[r]
      BY <2>1
    <3> QED  BY <2>1, <3>1 DEF Recorded
  <2>3. \A q \in Runs \ {r} : \A n \in 0..(next'[q] - 1) : <<<<exp'[q], n>>, q>> \in acked'
    BY <2>1 DEF Recorded
  <2>4. \A q \in Runs : pc'[q] = "finished" => next'[q] = Trials
    BY <2>1 DEF Recorded
  <2> QED  BY <2>1, <2>2, <2>3, <2>4 DEF Recorded
<1>3. ASSUME PowerCut
      PROVE  /\ next' = next /\ exp' = exp /\ acked' = acked
             /\ \A q \in Runs : pc'[q] = "finished" <=> pc[q] = "finished"
  BY <1>3 DEF PowerCut, Active
<1>4. ASSUME AllOver \/ UNCHANGED vars
      PROVE  /\ next' = next /\ exp' = exp /\ acked' = acked /\ pc' = pc
  BY <1>4 DEF AllOver, vars
<1>5. CASE /\ next' = next /\ exp' = exp /\ acked' = acked
           /\ \A q \in Runs : pc'[q] = "finished" <=> pc[q] = "finished"
  BY <1>5 DEF Recorded
<1> QED  BY <1>1, <1>2, <1>3, <1>4, <1>5 DEF Next

-----------------------------------------------------------------------------
(* Type correctness, and where a run is in its ledger.                     *)

LocalTypes ==
  /\ path \in [Runs -> Paths \union {NoPath}]
  /\ stage \in [Runs -> Stages] /\ exit \in [Runs -> Exits]
  /\ summary \in [Paths -> [form : {"absent", "partial", "whole"}, by : Runs \union {NoPath}]]
  /\ summarySynced \subseteq Paths /\ overlapped \in BOOLEAN

(* A run uses the ledger in one stage, and summarises when it is finished. *)
Agree ==
  \A r \in Runs :
    /\ stage[r] = "ledger" <=> pc[r] \in Active
    /\ stage[r] \in {"start", "checked"} => pc[r] = "idle"
    /\ stage[r] \in {"summarise", "created", "written"} => pc[r] = "finished" /\ path[r] \in Paths
    /\ stage[r] = "checked" => path[r] \in Paths

(* What every step of a run is: its own stage moves, and perhaps ends.     *)
LEMMA MoveTyped ==
  ASSUME LocalTypes, NEW r \in Runs, NEW where \in Stages, GoOn(r, where)
  PROVE  /\ stage' \in [Runs -> Stages] /\ exit' = exit
         /\ stage'[r] = where /\ \A q \in Runs \ {r} : stage'[q] = stage[q]
  BY DEF LocalTypes, GoOn

(* What the end of a run changes: its own stage and exit. *)
LEMMA EndTyped ==
  ASSUME LocalTypes, NEW r \in Runs, NEW how \in Exits, EndRun(r, how)
  PROVE  /\ stage' \in [Runs -> Stages] /\ exit' \in [Runs -> Exits]
         /\ stage'[r] = "over" /\ exit'[r] = how
         /\ \A q \in Runs \ {r} : stage'[q] = stage[q] /\ exit'[q] = exit[q]
  BY DEF LocalTypes, EndRun, Stages

RunStep(r) ==
  \/ CheckSummary(r) \/ PreflightFails(r) \/ OpenLedger(r) \/ StartRun(r)
  \/ AppendRecord(r) \/ CreateSummary(r) \/ WriteSummary(r) \/ SyncSummary(r)
  \/ SummaryFails(r)

(* How a step of run r moves its place in the ledger. *)
LEMMA LedgerPlace ==
  ASSUME TypeOK, NEW r \in Runs
  PROVE  /\ OpenLedger(r) => pc[r] = "idle" /\ pc'[r] \in {"opened", "rejected"}
         /\ StartRun(r) => pc[r] = "opened" /\ pc'[r] \in {"append", "rejected"}
         /\ AppendRecord(r) => pc[r] \in Active /\ pc'[r] \in {"append", "written", "synced", "finished", "failed", "dead"}
         /\ OpenLedger(r) \/ StartRun(r) \/ AppendRecord(r) =>
              \A q \in Runs \ {r} : pc'[q] = pc[q] /\ next'[q] = next[q] /\ keys'[q] = keys[q]
<1> USE DEF TypeOK, Become, Active
<1>1. ASSUME OpenLedger(r)
      PROVE  /\ pc[r] = "idle" /\ pc'[r] \in {"opened", "rejected"}
             /\ \A q \in Runs \ {r} : pc'[q] = pc[q] /\ next'[q] = next[q] /\ keys'[q] = keys[q]
  BY <1>1 DEF OpenLedger, Open
<1>2. ASSUME StartRun(r)
      PROVE  /\ pc[r] = "opened" /\ pc'[r] \in {"append", "rejected"}
             /\ \A q \in Runs \ {r} : pc'[q] = pc[q] /\ next'[q] = next[q] /\ keys'[q] = keys[q]
  BY <1>2 DEF StartRun, CliStart, LibraryStart
<1>3. ASSUME AppendRecord(r)
      PROVE  /\ pc[r] \in Active /\ pc'[r] \in {"append", "written", "synced", "finished", "failed", "dead"}
             /\ \A q \in Runs \ {r} : pc'[q] = pc[q] /\ next'[q] = next[q] /\ keys'[q] = keys[q]
  BY <1>3 DEF AppendRecord, AppendRefused, AppendWrites, AppendTears, Fsync, Remember, Dies
<1> QED  BY <1>1, <1>2, <1>3

(* A step of one run moves that run only. *)
LEMMA RunMoves ==
  ASSUME TypeOK, LocalTypes, Agree, NEW r \in Runs, RunStep(r)
  PROVE  /\ path' = path /\ stage' \in [Runs -> Stages] /\ exit' \in [Runs -> Exits]
         /\ stage[r] # "over"
         /\ \A q \in Runs \ {r} : /\ stage'[q] = stage[q] /\ exit'[q] = exit[q] /\ pc'[q] = pc[q]
                                  /\ next'[q] = next[q] /\ keys'[q] = keys[q]
<1> USE DEF Stages, Exits
<1>1. CASE CheckSummary(r)
  BY <1>1, MoveTyped, EndTyped DEF CheckSummary, vars, LocalTypes
<1>2. CASE PreflightFails(r)
  BY <1>2, EndTyped DEF PreflightFails, vars, LocalTypes
<1>3. CASE OpenLedger(r)
  BY <1>3, MoveTyped, EndTyped, LedgerPlace DEF OpenLedger, LocalTypes
<1>4. CASE StartRun(r)
  BY <1>4, MoveTyped, EndTyped, LedgerPlace DEF StartRun, LocalTypes
<1>5. CASE AppendRecord(r)
  BY <1>5, MoveTyped, EndTyped, LedgerPlace DEF AppendRecord, LocalTypes
<1>6. CASE CreateSummary(r)
  BY <1>6, MoveTyped, EndTyped DEF CreateSummary, vars, LocalTypes
<1>7. CASE WriteSummary(r)
  BY <1>7, MoveTyped DEF WriteSummary, vars, LocalTypes
<1>8. CASE SyncSummary(r)
  BY <1>8, EndTyped DEF SyncSummary, vars, LocalTypes
<1>9. CASE SummaryFails(r)
  BY <1>9, EndTyped DEF SummaryFails, vars, LocalTypes
<1> QED  BY <1>1, <1>2, <1>3, <1>4, <1>5, <1>6, <1>7, <1>8, <1>9 DEF RunStep

(* Where each step takes its run, and how the ledger's place fits.         *)
LEMMA RunAgrees ==
  ASSUME TypeOK, LocalTypes, Agree, NEW r \in Runs, RunStep(r)
  PROVE  /\ stage'[r] = "ledger" <=> pc'[r] \in Active
         /\ stage'[r] \in {"start", "checked"} => pc'[r] = "idle"
         /\ stage'[r] \in {"summarise", "created", "written"} => pc'[r] = "finished" /\ path'[r] \in Paths
         /\ stage'[r] = "checked" => path'[r] \in Paths
<1> USE DEF Stages, Exits, Active
<1>0. path' = path /\ (pc' = pc \/ OpenLedger(r) \/ StartRun(r) \/ AppendRecord(r))
  BY RunMoves DEF RunStep, CheckSummary, PreflightFails, CreateSummary, WriteSummary, SyncSummary, SummaryFails, vars
<1>1. CASE CheckSummary(r)
  BY <1>1, MoveTyped, EndTyped DEF CheckSummary, vars, Agree
<1>2. CASE PreflightFails(r)
  BY <1>2, EndTyped DEF PreflightFails, vars, Agree
<1>3. CASE OpenLedger(r)
  BY <1>3, MoveTyped, EndTyped, LedgerPlace DEF OpenLedger
<1>4. CASE StartRun(r)
  BY <1>4, MoveTyped, EndTyped, LedgerPlace DEF StartRun
<1>5. CASE AppendRecord(r)
  <2>1. path[r] \in Paths \union {NoPath}
    BY DEF LocalTypes
  <2> QED  BY <1>0, <1>5, <2>1, MoveTyped, EndTyped, LedgerPlace DEF AppendRecord
<1>6. CASE CreateSummary(r)
  BY <1>6, MoveTyped, EndTyped DEF CreateSummary, vars, Agree
<1>7. CASE WriteSummary(r)
  BY <1>7, MoveTyped DEF WriteSummary, vars, Agree
<1>8. CASE SyncSummary(r)
  BY <1>8, EndTyped DEF SyncSummary, vars, Agree
<1>9. CASE SummaryFails(r)
  BY <1>9, EndTyped DEF SummaryFails, vars, Agree
<1> QED  BY <1>1, <1>2, <1>3, <1>4, <1>5, <1>6, <1>7, <1>8, <1>9 DEF RunStep

(* A summary that is put at a path is one, and is the run's. *)
LEMMA PutTyped ==
  ASSUME LocalTypes, NEW r \in Runs, path[r] \in Paths, NEW form \in {"partial", "whole"}, Put(r, form)
  PROVE  /\ summary' \in [Paths -> [form : {"absent", "partial", "whole"}, by : Runs \union {NoPath}]]
         /\ summary'[path[r]] = [form |-> form, by |-> r]
         /\ \A p \in Paths \ {path[r]} : summary'[p] = summary[p]
  BY DEF LocalTypes, Put

(* What each step of a run does to the files and to the history. *)
LEMMA RunFiles ==
  ASSUME TypeOK, LocalTypes, Agree, NEW r \in Runs, RunStep(r)
  PROVE  /\ \/ UNCHANGED Files
            \/ CreateSummary(r) /\ path[r] \in Paths /\ summary[path[r]].form = "absent"
               /\ Put(r, "partial") /\ GoOn(r, "created") /\ summarySynced' = summarySynced
            \/ WriteSummary(r) /\ path[r] \in Paths
            \/ SyncSummary(r) /\ path[r] \in Paths
         /\ overlapped' = overlapped \/ Overlaps(r)
<1>1. CASE CheckSummary(r) \/ PreflightFails(r) \/ OpenLedger(r) \/ StartRun(r) \/ AppendRecord(r) \/ SummaryFails(r)
  BY <1>1 DEF CheckSummary, PreflightFails, OpenLedger, StartRun, AppendRecord, SummaryFails
<1>2. CASE CreateSummary(r)
  BY <1>2 DEF CreateSummary, Files, Agree
<1>3. CASE WriteSummary(r) \/ SyncSummary(r)
  BY <1>3 DEF WriteSummary, SyncSummary, Agree
<1> QED  BY <1>1, <1>2, <1>3 DEF RunStep

(* What a power cut does to the summaries. *)
LEMMA PowerTyped ==
  ASSUME TypeOK, LocalTypes, Agree, PowerFails
  PROVE  /\ LocalTypes' /\ Agree' /\ path' = path /\ overlapped' = overlapped
         /\ \A r \in Runs : /\ stage'[r] \in {"start", "over"}
                            /\ stage[r] \in {"start", "over"} => stage'[r] = stage[r] /\ exit'[r] = exit[r]
                            /\ stage[r] \notin {"start", "over"} => stage'[r] = "over" /\ exit'[r] = "killed"
         /\ \A p \in Paths : /\ summary'[p] = Absent \/ summary'[p].by = summary[p].by
                             /\ summary'[p].form = "absent" => summary'[p] = Absent
                             /\ summary[p].form = "absent" => summary'[p].form = "absent"
                             /\ p \in summarySynced /\ summary[p].form # "absent" =>
                                  p \in summarySynced' /\ summary'[p] = summary[p]
<1>1. PICK left \in [Paths -> {"absent", "partial", "whole"}] :
        /\ \A p \in Paths : /\ p \in summarySynced => left[p] = summary[p].form
                            /\ summary[p].form = "absent" => left[p] = "absent"
                            /\ summary[p].form = "partial" => left[p] # "whole"
        /\ summary' = [p \in Paths |-> IF left[p] = "absent" THEN Absent
                                       ELSE [summary[p] EXCEPT !.form = left[p]]]
  BY DEF PowerFails
<1>2. \A p \in Paths : summary[p] \in [form : {"absent", "partial", "whole"}, by : Runs \union {NoPath}]
  BY DEF LocalTypes
<1>3. ASSUME NEW p \in Paths
      PROVE  /\ summary'[p] \in [form : {"absent", "partial", "whole"}, by : Runs \union {NoPath}]
             /\ left[p] = "absent" => summary'[p] = Absent
             /\ left[p] # "absent" => summary'[p].form = left[p] /\ summary'[p].by = summary[p].by
             /\ left[p] = summary[p].form /\ left[p] # "absent" => summary'[p] = summary[p]
  <2>1. CASE left[p] = "absent"
    BY <1>1, <2>1 DEF Absent
  <2>2. CASE left[p] # "absent"
    <3>1. summary'[p] = [summary[p] EXCEPT !.form = left[p]]
      BY <1>1, <2>2
    <3>2. left[p] \in {"absent", "partial", "whole"}
      BY <1>1
    <3> QED  BY <1>2, <2>2, <3>1, <3>2
  <2> QED  BY <2>1, <2>2
<1>4. summary' \in [Paths -> [form : {"absent", "partial", "whole"}, by : Runs \union {NoPath}]]
  <2>1. \A p \in Paths : summary'[p] \in [form : {"absent", "partial", "whole"}, by : Runs \union {NoPath}]
    BY <1>3
  <2>2. summary' = [p \in Paths |-> summary'[p]]
    BY <1>1
  <2> QED  BY <2>1, <2>2
<1>5. /\ path' = path /\ overlapped' = overlapped
      /\ \A r \in Runs : /\ stage'[r] \in {"start", "over"}
                         /\ stage[r] \in {"start", "over"} => stage'[r] = stage[r] /\ exit'[r] = exit[r]
                         /\ stage[r] \notin {"start", "over"} => stage'[r] = "over" /\ exit'[r] = "killed"
      /\ stage' \in [Runs -> Stages] /\ exit' \in [Runs -> Exits]
  BY DEF PowerFails, Running, LocalTypes, Stages, Exits
<1>6. summarySynced' \subseteq Paths /\ \A p \in Paths : p \in summarySynced' <=> summary'[p] # Absent
  BY DEF PowerFails
<1>7. LocalTypes'
  BY <1>4, <1>5, <1>6 DEF LocalTypes
<1>8. Agree'
  <2>1. \A r \in Runs : pc'[r] \notin Active /\ (pc[r] = "idle" => pc'[r] = "idle")
    BY DEF PowerFails, PowerCut, TypeOK, Active
  <2> QED  BY <1>5, <2>1 DEF Agree
<1>9. ASSUME NEW p \in Paths
      PROVE  /\ summary'[p] = Absent \/ summary'[p].by = summary[p].by
             /\ summary'[p].form = "absent" => summary'[p] = Absent
             /\ summary[p].form = "absent" => summary'[p].form = "absent"
             /\ p \in summarySynced /\ summary[p].form # "absent" =>
                  p \in summarySynced' /\ summary'[p] = summary[p]
  <2>1. left[p] \in {"absent", "partial", "whole"} /\ (left[p] = "absent" <=> summary'[p].form = "absent")
    BY <1>1, <1>3 DEF Absent
  <2>2. p \in summarySynced => left[p] = summary[p].form
    BY <1>1
  <2>3. summary[p].form = "absent" => left[p] = "absent"
    BY <1>1
  <2>4. summary[p].form # "absent" /\ p \in summarySynced => summary'[p] = summary[p] /\ summary'[p] # Absent
    BY <1>3, <2>1, <2>2 DEF Absent
  <2>5. p \in summarySynced' <=> summary'[p] # Absent
    BY <1>6
  <2> QED  BY <1>3, <2>1, <2>3, <2>4, <2>5
<1> QED  BY <1>5, <1>7, <1>8, <1>9

(* Every step keeps the types and the agreement of stage and ledger. *)
LEMMA LocalTypeStep ==
  ASSUME TypeOK, LocalTypes, Agree, [LocalNext]_allVars
  PROVE  LocalTypes' /\ Agree'
<1>1. ASSUME NEW r \in Runs, RunStep(r)
      PROVE  LocalTypes' /\ Agree'
  <2>1. /\ path' = path /\ stage' \in [Runs -> Stages] /\ exit' \in [Runs -> Exits]
        /\ \A q \in Runs \ {r} : stage'[q] = stage[q] /\ pc'[q] = pc[q]
    BY <1>1, RunMoves
  <2>2. Agree'
    BY <1>1, <2>1, RunAgrees DEF Agree
  <2>3. overlapped' \in BOOLEAN
    BY <1>1, RunFiles DEF LocalTypes, Overlaps
  <2>4. /\ summary' \in [Paths -> [form : {"absent", "partial", "whole"}, by : Runs \union {NoPath}]]
        /\ summarySynced' \subseteq Paths
    <3>1. CASE UNCHANGED Files
      BY <3>1 DEF LocalTypes, Files
    <3>2. ASSUME NEW form \in {"partial", "whole"}, path[r] \in Paths, Put(r, form), summarySynced' = summarySynced
          PROVE  /\ summary' \in [Paths -> [form : {"absent", "partial", "whole"}, by : Runs \union {NoPath}]]
                 /\ summarySynced' \subseteq Paths
      BY <3>2, PutTyped DEF LocalTypes
    <3>3. CASE WriteSummary(r) /\ path[r] \in Paths
      BY <3>2, <3>3 DEF WriteSummary
    <3>4. CASE SyncSummary(r) /\ path[r] \in Paths
      BY <3>4 DEF LocalTypes, SyncSummary
    <3> QED  BY <1>1, <3>1, <3>2, <3>3, <3>4, RunFiles
  <2> QED  BY <2>1, <2>2, <2>3, <2>4 DEF LocalTypes
<1>2. CASE AllEnded \/ UNCHANGED allVars
  BY <1>2 DEF AllEnded, allVars, vars, local, LocalTypes, Agree
<1> QED  BY <1>1, <1>2, PowerTyped DEF LocalNext, RunStep

(* The initial state is typed. *)
LEMMA LocalInitTyped == LocalInit => LocalTypes /\ Agree
<1> SUFFICES ASSUME LocalInit  PROVE LocalTypes /\ Agree
  OBVIOUS
<1>1. /\ stage \in [Runs -> Stages] /\ exit \in [Runs -> Exits]
      /\ path \in [Runs -> Paths \union {NoPath}]
      /\ summarySynced \subseteq Paths /\ overlapped \in BOOLEAN
  BY DEF LocalInit, Stages, Exits
<1>2. summary \in [Paths -> [form : {"absent", "partial", "whole"}, by : Runs \union {NoPath}]]
  BY DEF LocalInit, Absent
<1>3. Agree
  BY DEF LocalInit, Init, Agree, Active
<1> QED  BY <1>1, <1>2, <1>3 DEF LocalTypes

(* Types and agreement hold in every behaviour, with the ledger's own.     *)
Typed == IInv /\ Recorded /\ LocalTypes /\ Agree

(* Every step keeps types and agreement. *)
LEMMA TypedStep ==
  ASSUME Typed, IInv', [LocalNext]_allVars
  PROVE  Typed'
<1>1. [Next]_vars /\ TypeOK /\ Room
  BY LedgerStep DEF Typed, IInv
<1> QED  BY <1>1, RecordedStep, LocalTypeStep DEF Typed

(* Types, agreement and what the ledger's proofs establish hold in every
   behaviour of run-local. *)
THEOREM LocalTyped == LocalSpec => []Typed
<1>1. LocalInit => Recorded /\ LocalTypes /\ Agree
  <2>1. LocalInit => Recorded
    BY LedgerAssumption DEF LocalInit, Init, Recorded
  <2> QED  BY <2>1, LocalInitTyped
<1>2. Recorded /\ LocalTypes /\ Agree /\ IInv /\ IInv' /\ [LocalNext]_allVars => (Recorded /\ LocalTypes /\ Agree)'
  BY TypedStep DEF Typed
<1>3. LocalSpec => []IInv
  BY LedgerKept, Invariance, PTL
<1>4. Recorded /\ LocalTypes /\ Agree /\ IInv <=> Typed
  BY DEF Typed
<1> QED  BY <1>1, <1>2, <1>3, <1>4, PTL DEF LocalSpec

(* Every variable of the runs, the ledger and the summaries keeps its kind. *)
THEOREM LocalTypeCorrect == LocalSpec => []LocalTypeOK
<1>1. Typed => LocalTypeOK
  BY DEF Typed, IInv, LocalTypes, Agree, LocalTypeOK
<1> QED  BY <1>1, LocalTyped, PTL

-----------------------------------------------------------------------------
(* The summaries.                                                          *)

Whole(r) == [form |-> "whole", by |-> r]
Partial(r) == [form |-> "partial", by |-> r]

(* Whose the summaries are, and what a run that writes one relies on.      *)
Owned ==
  /\ \A p \in Paths :
       /\ summary[p].form = "absent" => summary[p] = Absent
       /\ summary[p].form # "absent" => summary[p].by \in Runs /\ pc[summary[p].by] = "finished"
  /\ \A r \in Runs :
       /\ stage[r] = "created" => summary[path[r]] = Partial(r)
       /\ stage[r] = "written" => summary[path[r]] = Whole(r)
       /\ exit[r] = "completed" /\ path[r] \in Paths =>
            stage[r] = "over" /\ path[r] \in summarySynced /\ summary[path[r]] = Whole(r)

(* The ways in which a step of run r meets the summaries. *)
LEMMA FilesStep ==
  ASSUME Typed, NEW r \in Runs, RunStep(r)
  PROVE  \/ /\ UNCHANGED Files /\ stage'[r] \notin {"created", "written"}
            /\ exit'[r] = "completed" => path[r] \notin Paths \/ exit[r] = "completed"
         \/ /\ stage[r] = "summarise" /\ path[r] \in Paths /\ summary[path[r]].form = "absent"
            /\ summary'[path[r]] = Partial(r) /\ stage'[r] = "created" /\ exit' = exit
            /\ summarySynced' = summarySynced
            /\ \A p \in Paths \ {path[r]} : summary'[p] = summary[p]
         \/ /\ stage[r] = "created" /\ path[r] \in Paths
            /\ summary'[path[r]] = Whole(r) /\ stage'[r] = "written" /\ exit' = exit
            /\ summarySynced' = summarySynced
            /\ \A p \in Paths \ {path[r]} : summary'[p] = summary[p]
         \/ /\ stage[r] = "written" /\ path[r] \in Paths /\ summary' = summary
            /\ summarySynced' = summarySynced \union {path[r]}
            /\ stage'[r] = "over" /\ exit'[r] = "completed"
<1>1. TypeOK /\ LocalTypes /\ Agree
  BY DEF Typed, IInv
<1> USE <1>1 DEF Stages, Exits
<1>2. CASE CheckSummary(r) \/ PreflightFails(r) \/ OpenLedger(r) \/ StartRun(r)
  <2>1. UNCHANGED Files
    BY <1>2 DEF CheckSummary, PreflightFails, OpenLedger, StartRun
  <2>2. GoOn(r, "checked") \/ GoOn(r, "ledger") \/ EndRun(r, "error")
    BY <1>2 DEF CheckSummary, PreflightFails, OpenLedger, StartRun
  <2> QED  BY <2>1, <2>2, MoveTyped, EndTyped
<1>3. CASE AppendRecord(r)
  <2>1. UNCHANGED Files
    BY <1>3 DEF AppendRecord
  <2>2. \/ GoOn(r, "ledger") \/ GoOn(r, "summarise") \/ EndRun(r, "error") \/ EndRun(r, "killed")
        \/ path[r] = NoPath /\ EndRun(r, "completed")
    BY <1>3 DEF AppendRecord
  <2>3. path[r] = NoPath => path[r] \notin Paths
    BY PathAssumption
  <2> QED  BY <2>1, <2>2, <2>3, MoveTyped, EndTyped
<1>4. CASE CreateSummary(r)
  <2>1. stage[r] = "summarise" /\ path[r] \in Paths /\ summarySynced' = summarySynced
    BY <1>4 DEF CreateSummary, Agree
  <2>2. \/ summary[path[r]].form = "absent" /\ Put(r, "partial") /\ GoOn(r, "created")
        \/ EndRun(r, "late") /\ summary' = summary
    BY <1>4 DEF CreateSummary
  <2> QED  BY <2>1, <2>2, MoveTyped, EndTyped, PutTyped DEF Files, Partial
<1>5. CASE WriteSummary(r)
  <2>1. stage[r] = "created" /\ path[r] \in Paths /\ summarySynced' = summarySynced
    BY <1>5 DEF WriteSummary, Agree
  <2>2. Put(r, "whole") /\ GoOn(r, "written")
    BY <1>5 DEF WriteSummary
  <2> QED  BY <2>1, <2>2, MoveTyped, PutTyped DEF Whole
<1>6. CASE SyncSummary(r)
  <2>1. stage[r] = "written" /\ path[r] \in Paths /\ summary' = summary
        /\ summarySynced' = summarySynced \union {path[r]} /\ EndRun(r, "completed")
    BY <1>6 DEF SyncSummary, Agree
  <2> QED  BY <2>1, EndTyped
<1>7. CASE SummaryFails(r)
  <2>1. UNCHANGED Files /\ (EndRun(r, "error") \/ EndRun(r, "killed"))
    BY <1>7 DEF SummaryFails
  <2> QED  BY <2>1, EndTyped
<1> QED  BY <1>2, <1>3, <1>4, <1>5, <1>6, <1>7 DEF RunStep

(* The fields of a summary's marks. *)
LEMMA MarkFields ==
  ASSUME NEW r
  PROVE  Whole(r).form = "whole" /\ Whole(r).by = r /\ Partial(r).form = "partial" /\ Partial(r).by = r
  BY DEF Whole, Partial

(* What a step of one run leaves of the others' summaries. *)
LEMMA OwnedRun ==
  ASSUME Typed, Owned, NEW r \in Runs, RunStep(r), [LocalNext]_allVars
  PROVE  /\ Owned'
         /\ \A p \in Paths : summary[p] # Absent => summary'[p] = Absent \/ summary'[p].by = summary[p].by
<1>1. TypeOK /\ Room /\ LocalTypes /\ Agree /\ Recorded
  BY DEF Typed, IInv
<1>2. /\ path' = path /\ stage[r] # "over"
      /\ \A q \in Runs \ {r} : stage'[q] = stage[q] /\ exit'[q] = exit[q]
      /\ \A q \in Runs : pc[q] = "finished" => pc'[q] = "finished"
      /\ \A q \in Runs : path[q] \in Paths \union {NoPath}
      /\ \A q \in Runs : stage[q] \in {"summarise", "created", "written"} => pc[q] = "finished" /\ path[q] \in Paths
  BY <1>1, RunMoves, LedgerStep, RecordedStep DEF LocalTypes, Agree
<1>3. CASE /\ UNCHANGED Files /\ stage'[r] \notin {"created", "written"}
           /\ exit'[r] = "completed" => path[r] \notin Paths \/ exit[r] = "completed"
  BY <1>2, <1>3 DEF Owned, Files
<1>4. CASE /\ stage[r] = "summarise" /\ path[r] \in Paths /\ summary[path[r]].form = "absent"
           /\ summary'[path[r]] = Partial(r) /\ stage'[r] = "created" /\ exit' = exit
           /\ summarySynced' = summarySynced
           /\ \A p \in Paths \ {path[r]} : summary'[p] = summary[p]
  <2>1. summary[path[r]] = Absent
    BY <1>4 DEF Owned
  <2>2. ASSUME NEW q \in Runs \ {r}, stage[q] \in {"created", "written"}, path[q] = path[r]
        PROVE  FALSE
    <3>1. summary[path[q]] = Partial(q) \/ summary[path[q]] = Whole(q)
      BY <2>2 DEF Owned
    <3> QED  BY <1>4, <2>2, <3>1, MarkFields
  <2>3. ASSUME NEW q \in Runs, exit[q] = "completed", path[q] \in Paths, path[q] = path[r]
        PROVE  FALSE
    <3>1. summary[path[q]] = Whole(q)
      BY <2>3 DEF Owned
    <3> QED  BY <1>4, <2>3, <3>1, MarkFields
  <2> QED  BY <1>2, <1>4, <2>1, <2>2, <2>3 DEF Owned, Partial
<1>5. CASE /\ stage[r] = "created" /\ path[r] \in Paths
           /\ summary'[path[r]] = Whole(r) /\ stage'[r] = "written" /\ exit' = exit
           /\ summarySynced' = summarySynced
           /\ \A p \in Paths \ {path[r]} : summary'[p] = summary[p]
  <2>1. summary[path[r]] = Partial(r)
    BY <1>5 DEF Owned
  <2>2. ASSUME NEW q \in Runs \ {r}, stage[q] \in {"created", "written"}, path[q] = path[r]
        PROVE  FALSE
    <3>1. summary[path[q]] = Partial(q) \/ summary[path[q]] = Whole(q)
      BY <2>2 DEF Owned
    <3> QED  BY <1>5, <2>1, <2>2, <3>1, MarkFields
  <2>3. ASSUME NEW q \in Runs, exit[q] = "completed", path[q] \in Paths, path[q] = path[r]
        PROVE  FALSE
    <3>1. summary[path[q]] = Whole(q)
      BY <2>3 DEF Owned
    <3>2. Whole(q).form = "whole" /\ Partial(r).form = "partial"
      BY MarkFields
    <3> QED  BY <2>1, <2>3, <3>1, <3>2
  <2> QED  BY <1>2, <1>5, <2>1, <2>2, <2>3 DEF Owned, Partial, Whole
<1>6. CASE /\ stage[r] = "written" /\ path[r] \in Paths /\ summary' = summary
           /\ summarySynced' = summarySynced \union {path[r]}
           /\ stage'[r] = "over" /\ exit'[r] = "completed"
  BY <1>2, <1>6 DEF Owned
<1> QED  BY <1>3, <1>4, <1>5, <1>6, FilesStep

(* A power cut loses what no run has reported. *)
LEMMA OwnedPower ==
  ASSUME Typed, Owned, PowerFails
  PROVE  /\ Owned'
         /\ \A p \in Paths : summary[p] # Absent => summary'[p] = Absent \/ summary'[p].by = summary[p].by
<1>1. TypeOK /\ Room /\ LocalTypes /\ Agree
  BY DEF Typed, IInv
<1>2. \A r \in Runs : pc[r] = "finished" => pc'[r] = "finished"
  BY <1>1 DEF PowerFails, PowerCut, TypeOK, Active
<1>3. /\ path' = path
      /\ \A r \in Runs : /\ stage'[r] \in {"start", "over"}
                         /\ exit'[r] = "completed" => exit[r] = "completed" /\ stage'[r] = stage[r]
      /\ \A p \in Paths : /\ summary'[p] = Absent \/ summary'[p].by = summary[p].by
                          /\ summary'[p].form = "absent" => summary'[p] = Absent
                          /\ summary[p].form = "absent" => summary'[p].form = "absent"
                          /\ p \in summarySynced /\ summary[p].form # "absent" =>
                               p \in summarySynced' /\ summary'[p] = summary[p]
  BY <1>1, PowerTyped
<1>4. ASSUME NEW p \in Paths, summary'[p].form # "absent"
      PROVE  summary'[p].by \in Runs /\ pc'[summary'[p].by] = "finished"
  <2>1. summary'[p].by = summary[p].by /\ summary[p].form # "absent"
    BY <1>3, <1>4 DEF Absent
  <2> QED  BY <1>2, <2>1 DEF Owned
<1>5. ASSUME NEW r \in Runs, exit'[r] = "completed", path'[r] \in Paths
      PROVE  stage'[r] = "over" /\ path'[r] \in summarySynced' /\ summary'[path'[r]] = Whole(r)
  <2>1. stage[r] = "over" /\ path[r] \in summarySynced /\ summary[path[r]] = Whole(r)
    BY <1>3, <1>5 DEF Owned
  <2> QED  BY <1>3, <1>5, <2>1 DEF Whole
<1>6. Owned'
  BY <1>3, <1>4, <1>5 DEF Owned, Whole
<1> QED  BY <1>3, <1>6

(* Every step keeps whose the summaries are, and replaces none. *)
LEMMA OwnedStep ==
  ASSUME Typed, Owned, [LocalNext]_allVars
  PROVE  /\ Owned'
         /\ \A p \in Paths : summary[p] # Absent => summary'[p] = Absent \/ summary'[p].by = summary[p].by
<1>1. CASE AllEnded \/ UNCHANGED allVars
  BY <1>1 DEF AllEnded, allVars, vars, local, Owned
<1> QED  BY <1>1, OwnedRun, OwnedPower DEF LocalNext, RunStep

(* In every behaviour, who is at which stage owns what is at its path. *)
THEOREM LocalOwned == LocalSpec => [](Typed /\ Owned)
<1>1. LocalInit => Owned
  BY DEF LocalInit, Owned, Absent
<1>2. Typed /\ Owned /\ [LocalNext]_allVars => Owned'
  BY OwnedStep
<1> QED  BY <1>1, <1>2, LocalTyped, PTL DEF LocalSpec

(* A run that reported completion has left its summary, whole, for ever.   *)
THEOREM CompletedIsDurableHolds == LocalSpec => []CompletedIsDurable
<1>1. Owned => CompletedIsDurable
  BY DEF Owned, CompletedIsDurable, Whole
<1> QED  BY <1>1, LocalOwned, PTL

(* No run touches a summary that another one began, though both found the  *)
(* path free when they started.                                            *)
THEOREM SummaryNeverReplacedHolds == LocalSpec => SummaryNeverReplaced
<1>1. Typed /\ Owned /\ [LocalNext]_allVars =>
        [\A p \in Paths : summary[p] # Absent => summary'[p] = Absent \/ summary'[p].by = summary[p].by]_allVars
  BY OwnedStep
<1> QED  BY <1>1, LocalOwned, PTL DEF LocalSpec, SummaryNeverReplaced

(* A whole summary tells of records that are all on stable storage. *)
THEOREM SummaryTellsLedgerHolds == LocalSpec => []SummaryTellsLedger
<1>1. Typed /\ Owned => SummaryTellsLedger
  <2> SUFFICES ASSUME Typed, Owned, NEW p \in Paths, summary[p].form = "whole", NEW n \in 0..(Trials - 1)
               PROVE  \E i \in 1..synced :
                        file[i] = [key |-> <<exp[summary[p].by], n>>, form |-> "whole", by |-> summary[p].by]
    BY DEF SummaryTellsLedger
  <2>1. summary[p].by \in Runs /\ pc[summary[p].by] = "finished"
    BY DEF Owned
  <2>2. next[summary[p].by] = Trials
    BY <2>1 DEF Typed, Recorded
  <2>3. <<<<exp[summary[p].by], n>>, summary[p].by>> \in acked
    BY <2>1, <2>2 DEF Typed, Recorded
  <2> QED  BY <2>3 DEF Typed, IInv, AckedIsDurable
<1> QED  BY <1>1, LocalOwned, PTL

-----------------------------------------------------------------------------
(* Runs that do not overlap: the summary.                                  *)

(* One run at a time, which finds its summary's path as free as at first.  *)
Single ==
  overlapped \/
    /\ \A r, q \in Runs : Running(r) /\ Running(q) => r = q
    /\ \A r \in Runs : stage[r] \in {"checked", "ledger", "summarise"} /\ path[r] \in Paths =>
         summary[path[r]].form = "absent"
    /\ \A r \in Runs : exit[r] # "late"

(* Who is running, and whether a run starts alone. *)
LEMMA StartsAlone ==
  ASSUME Typed, NEW r \in Runs, RunStep(r)
  PROVE  /\ overlapped => overlapped'
         /\ ~overlapped' /\ stage[r] = "start" => \A q \in Runs \ {r} : ~Running(q)
         /\ stage[r] # "start" => Running(r)
<1>1. overlapped' = overlapped \/ Overlaps(r)
  BY RunFiles DEF Typed, IInv
<1>2. stage[r] = "start" => Overlaps(r)
  <2>1. CASE CheckSummary(r)
    BY <2>1 DEF CheckSummary
  <2>2. CASE OpenLedger(r)
    BY <2>2 DEF OpenLedger
  <2>3. CASE StartRun(r) \/ AppendRecord(r) \/ PreflightFails(r) \/ CreateSummary(r) \/ WriteSummary(r) \/ SyncSummary(r) \/ SummaryFails(r)
    BY <2>3 DEF StartRun, AppendRecord, PreflightFails, CreateSummary, WriteSummary, SyncSummary, SummaryFails
  <2> QED  BY <2>1, <2>2, <2>3 DEF RunStep
<1>3. Overlaps(r) => overlapped' = (overlapped \/ {q \in Runs \ {r} : Running(q)} # {})
  BY DEF Overlaps
<1>4. overlapped \in BOOLEAN
  BY DEF Typed, LocalTypes
<1>5. stage[r] # "over"
  BY RunMoves DEF Typed, IInv
<1>6. overlapped => overlapped'
  BY <1>1, <1>3, <1>4, Zenon
<1>7. ~overlapped' /\ stage[r] = "start" => {q \in Runs \ {r} : Running(q)} = {}
  BY <1>2, <1>3, Zenon
<1>8. ~overlapped' /\ stage[r] = "start" => \A q \in Runs \ {r} : ~Running(q)
  BY <1>7, Zenon
<1>9. stage[r] # "start" => Running(r)
  BY <1>5 DEF Running
<1> QED  BY <1>6, <1>8, <1>9, Zenon

(* Where a step takes its run, as far as the summary's path is concerned.  *)
LEMMA PathStep ==
  ASSUME Typed, NEW r \in Runs, RunStep(r)
  PROVE  /\ stage'[r] \in {"checked", "ledger", "summarise"} /\ path[r] \in Paths =>
              \/ stage[r] \in {"checked", "ledger", "summarise"}
              \/ summary[path[r]].form = "absent"
         /\ stage'[r] \in {"checked", "ledger", "summarise"} => UNCHANGED Files
         /\ exit'[r] = "late" => exit[r] = "late" \/
              (stage[r] = "summarise" /\ path[r] \in Paths /\ summary[path[r]].form # "absent")
<1>1. TypeOK /\ LocalTypes /\ Agree
  BY DEF Typed, IInv
<1> USE <1>1 DEF Stages, Exits
<1>2. CASE CheckSummary(r)
  <2>1. UNCHANGED Files
    BY <1>2 DEF CheckSummary
  <2>2. \/ summary[path[r]].form = "absent" /\ GoOn(r, "checked")
        \/ EndRun(r, "error")
    BY <1>2 DEF CheckSummary
  <2> QED  BY <2>1, <2>2, MoveTyped, EndTyped
<1>3. CASE OpenLedger(r)
  <2>1. UNCHANGED Files /\ (GoOn(r, "ledger") \/ EndRun(r, "error"))
    BY <1>3 DEF OpenLedger
  <2>2. path[r] \in Paths => stage[r] = "checked"
    BY <1>3, PathAssumption DEF OpenLedger
  <2>3. exit'[r] = "late" => exit[r] = "late"
    BY <2>1, MoveTyped, EndTyped
  <2> QED  BY <2>1, <2>2, <2>3
<1>4. CASE StartRun(r) \/ AppendRecord(r)
  <2>1. UNCHANGED Files /\ stage[r] = "ledger"
    BY <1>4 DEF StartRun, AppendRecord
  <2>2. GoOn(r, "ledger") \/ GoOn(r, "summarise") \/ EndRun(r, "error") \/ EndRun(r, "killed") \/ EndRun(r, "completed")
    BY <1>4 DEF StartRun, AppendRecord
  <2> QED  BY <2>1, <2>2, MoveTyped, EndTyped
<1>5. CASE CreateSummary(r)
  <2>1. stage[r] = "summarise" /\ path[r] \in Paths
    BY <1>5 DEF CreateSummary, Agree
  <2>2. GoOn(r, "created") \/ (EndRun(r, "late") /\ summary[path[r]].form # "absent")
    BY <1>5 DEF CreateSummary
  <2> QED  BY <2>1, <2>2, MoveTyped, EndTyped
<1>6. CASE PreflightFails(r) \/ WriteSummary(r) \/ SyncSummary(r) \/ SummaryFails(r)
  <2>1. GoOn(r, "written") \/ EndRun(r, "error") \/ EndRun(r, "killed") \/ EndRun(r, "completed")
    BY <1>6 DEF PreflightFails, WriteSummary, SyncSummary, SummaryFails
  <2> QED  BY <2>1, MoveTyped, EndTyped
<1> QED  BY <1>2, <1>3, <1>4, <1>5, <1>6 DEF RunStep

(* Every step keeps one run at a time and its path free. *)
LEMMA SingleStep ==
  ASSUME Typed, Single, [LocalNext]_allVars
  PROVE  Single'
<1>1. TypeOK /\ LocalTypes /\ Agree
  BY DEF Typed, IInv
<1>2. ASSUME NEW r \in Runs, RunStep(r)
      PROVE  Single'
  <2> SUFFICES ASSUME ~overlapped'
               PROVE  /\ \A s, q \in Runs : Running(s)' /\ Running(q)' => s = q
                      /\ \A q \in Runs : stage'[q] \in {"checked", "ledger", "summarise"} /\ path'[q] \in Paths =>
                           summary'[path'[q]].form = "absent"
                      /\ \A q \in Runs : exit'[q] # "late"
    BY DEF Single
  <2>1. /\ ~overlapped /\ path' = path
        /\ \A q \in Runs \ {r} : stage'[q] = stage[q] /\ exit'[q] = exit[q]
    BY <1>1, <1>2, StartsAlone, RunMoves DEF LocalTypes
  <2>2. /\ \A s, q \in Runs : Running(s) /\ Running(q) => s = q
        /\ \A q \in Runs : stage[q] \in {"checked", "ledger", "summarise"} /\ path[q] \in Paths =>
             summary[path[q]].form = "absent"
        /\ \A q \in Runs : exit[q] # "late"
    BY <2>1 DEF Single
  <2>3. \A q \in Runs \ {r} : ~Running(q)
    BY <1>2, <2>2, StartsAlone
  <2>4. \A q \in Runs \ {r} : stage'[q] \in {"start", "over"} /\ ~Running(q)'
    BY <2>1, <2>3 DEF Running
  <2>5. stage'[r] \in {"checked", "ledger", "summarise"} /\ path[r] \in Paths => summary'[path[r]].form = "absent"
    BY <1>2, <2>2, PathStep DEF Files
  <2>6. exit'[r] # "late"
    BY <1>2, <2>2, PathStep
  <2> QED  BY <2>1, <2>2, <2>4, <2>5, <2>6
<1>3. CASE PowerFails
  <2>1. /\ overlapped' = overlapped
        /\ \A r \in Runs : stage'[r] \in {"start", "over"} /\ (exit'[r] = exit[r] \/ exit'[r] = "killed")
    BY <1>1, <1>3, PowerTyped
  <2> QED  BY <2>1 DEF Single, Running
<1>4. CASE AllEnded \/ UNCHANGED allVars
  BY <1>4 DEF AllEnded, allVars, local, Single, Running
<1> QED  BY <1>2, <1>3, <1>4 DEF LocalNext, RunStep

(* In every behaviour, until two runs overlap, one run at most is running. *)
THEOREM LocalSingle == LocalSpec => [](Typed /\ Single)
<1>1. LocalInit => Single
  BY DEF LocalInit, Single, Running
<1>2. Typed /\ Single /\ [LocalNext]_allVars => Single'
  BY SingleStep
<1> QED  BY <1>1, <1>2, LocalTyped, PTL DEF LocalSpec

(* Runs that do not overlap never work for a summary they cannot write. *)
THEOREM WorkIsSavedHolds == LocalSpec => []WorkIsSaved
<1>1. Single => WorkIsSaved
  BY DEF Single, WorkIsSaved
<1> QED  BY <1>1, LocalSingle, PTL

-----------------------------------------------------------------------------
(* Runs that do not overlap: the ledger.                                   *)

(* The key of every write is known to the run, or is the one it is writing. *)
Knows(r) ==
  \A i \in 1..Len(file) :
    file[i].key \in keys[r] \/ (pc[r] \in {"written", "synced"} /\ file[i].key = NextKey(r))

Sole ==
  overlapped \/
    /\ NoDuplicates /\ OneRunPerExperiment
    /\ \A r \in Runs : stage[r] = "ledger" => Knows(r)

(* A prefix of the file, and a torn end of it, keep what is in the file.   *)
LEMMA SoleShrinks ==
  ASSUME NoDuplicates, OneRunPerExperiment, file \in Seq(Writes), file' \in Seq(Writes),
         Len(file') <= Len(file), \A i \in 1..Len(file') : file'[i].key = file[i].key /\ file'[i].by = file[i].by
  PROVE  NoDuplicates' /\ OneRunPerExperiment'
<1>1. Len(file) \in Nat /\ Len(file') \in Nat /\ \A i \in 1..Len(file') : i \in 1..Len(file)
  OBVIOUS
<1>2. NoDuplicates'
  BY <1>1 DEF NoDuplicates
<1>3. \A i, j \in 1..Len(file') : file'[i].key[1] = file'[j].key[1] => file'[i].by = file'[j].by
  BY <1>1 DEF OneRunPerExperiment
<1>4. ASSUME NEW i \in 1..Len(file'), NEW n \in 0..(file'[i].key[2] - 1)
      PROVE  \E j \in 1..(i - 1) : file'[j].key = <<file'[i].key[1], n>>
  <2>1. i \in 1..Len(file) /\ n \in 0..(file[i].key[2] - 1)
    BY <1>1
  <2>2. PICK j \in 1..(i - 1) : file[j].key = <<file[i].key[1], n>>
    BY <2>1 DEF OneRunPerExperiment
  <2>3. j \in 1..Len(file')
    BY <1>1, <2>2
  <2> QED  BY <2>2, <2>3
<1> QED  BY <1>2, <1>3, <1>4 DEF OneRunPerExperiment

(* What a power cut leaves is a prefix of the writes, the last perhaps torn. *)
LEMMA PowerCutKeys ==
  ASSUME TypeOK, Room, PowerCut
  PROVE  /\ Len(file') <= Len(file)
         /\ \A i \in 1..Len(file') : file'[i].key = file[i].key /\ file'[i].by = file[i].by
<1>1. PICK kept \in synced..Len(file) :
        \/ file' = SubSeq(file, 1, kept)
        \/ kept > synced /\ \E form \in Tears : file' = [SubSeq(file, 1, kept) EXCEPT ![kept].form = form]
  BY DEF PowerCut
<1>2. file \in Seq(Writes) /\ synced \in Nat /\ Len(file) \in Nat /\ kept \in 0..Len(file)
  BY DEF TypeOK
<1>3. CASE file' = SubSeq(file, 1, kept)
  BY <1>2, <1>3, PrefixTyped
<1>4. CASE kept > synced /\ \E form \in Tears : file' = [SubSeq(file, 1, kept) EXCEPT ![kept].form = form]
  <2>1. PICK form \in Forms : file' = [SubSeq(file, 1, kept) EXCEPT ![kept].form = form]
    BY <1>4, LedgerAssumption DEF Forms
  <2>2. kept \in 1..Len(file)
    BY <1>2, <1>4
  <2>3. Len(file') = kept /\ \A i \in 1..(kept - 1) : file'[i] = file[i]
    BY <1>2, <2>1, <2>2, TearTyped
  <2>4. SubSeq(file, 1, kept) \in Seq(Writes) /\ Len(SubSeq(file, 1, kept)) = kept /\ SubSeq(file, 1, kept)[kept] = file[kept]
    BY <1>2, <2>2, PrefixTyped
  <2>5. file'[kept] = [SubSeq(file, 1, kept)[kept] EXCEPT !.form = form]
    BY <2>1, <2>2, <2>4
  <2>6. file'[kept].key = file[kept].key /\ file'[kept].by = file[kept].by
    <3>1. file[kept] \in Writes
      BY <1>2, <2>2
    <3> QED  BY <2>4, <2>5, <3>1 DEF Writes
  <2>7. \A i \in 1..Len(file') : i \in 1..(kept - 1) \/ i = kept
    BY <1>2, <2>3
  <2> QED  BY <1>2, <2>3, <2>6, <2>7
<1> QED  BY <1>1, <1>3, <1>4

(* The next write of a run that knows the file is new, and continues that  *)
(* run's own records: an experiment begun by another run is known, and its *)
(* first key refused.                                                      *)
LEMMA SoleWrites ==
  ASSUME Typed, NoDuplicates, OneRunPerExperiment, NEW r \in Runs, pc[r] = "append", Knows(r),
         NextKey(r) \notin keys[r], NEW form \in Forms, Write(r, form)
  PROVE  /\ NoDuplicates' /\ OneRunPerExperiment'
         /\ Len(file') = Len(file) + 1 /\ file'[Len(file) + 1].key = NextKey(r)
         /\ \A i \in 1..Len(file) : file'[i] = file[i] /\ file[i].key \in keys[r]
<1>1. /\ TypeOK /\ Room /\ file \in Seq(Writes) /\ Len(file) \in Nat /\ synced \in 0..Len(file)
      /\ next[r] \in Nat /\ exp[r] \in Experiments
  BY DEF Typed, IInv, TypeOK
<1>2. /\ Len(file') = Len(file) + 1 /\ \A i \in 1..Len(file) : file'[i] = file[i]
      /\ file'[Len(file) + 1] = [key |-> NextKey(r), form |-> form, by |-> r]
  BY <1>1, WriteTyped DEF Active
<1>3. /\ file'[Len(file) + 1].key = NextKey(r) /\ file'[Len(file) + 1].by = r
      /\ NextKey(r)[1] = exp[r] /\ NextKey(r)[2] = next[r]
  BY <1>2 DEF NextKey
<1>4. \A i \in 1..Len(file) : file[i].key \in keys[r] /\ file[i].key # NextKey(r)
  BY DEF Knows
<1>5. \A i \in 1..Len(file') : i \in 1..Len(file) \/ i = Len(file) + 1
  BY <1>1, <1>2
<1>6. NoDuplicates'
  BY <1>2, <1>3, <1>4, <1>5 DEF NoDuplicates
<1>7. ASSUME NEW n \in 0..(next[r] - 1)
      PROVE  \E j \in 1..Len(file) : file[j].key = <<exp[r], n>> /\ file[j].by = r
  <2>1. <<<<exp[r], n>>, r>> \in acked
    BY DEF Typed, Recorded
  <2>2. PICK j \in 1..synced : file[j] = [key |-> <<exp[r], n>>, form |-> "whole", by |-> r]
    BY <2>1 DEF Typed, IInv, AckedIsDurable
  <2>3. j \in 1..Len(file)
    BY <1>1, <2>2
  <2> QED  BY <2>2, <2>3
<1>8. ASSUME NEW i \in 1..Len(file), file[i].key[1] = exp[r]
      PROVE  file[i].by = r
  <2>1. file[i].key = <<exp[r], file[i].key[2]>> /\ file[i].key[2] \in Nat
    <3>1. file[i].key \in Keys
      <4>1. file[i] \in Writes
        BY <1>1
      <4> QED  BY <4>1 DEF Writes
    <3> QED  BY <1>8, <3>1, LedgerAssumption DEF Keys
  <2>2. CASE next[r] = 0
    <3>1. NextKey(r) = <<exp[r], 0>>
      BY <2>2 DEF NextKey
    <3>2. file[i].key[2] # 0
      BY <1>4, <2>1, <3>1
    <3>3. 0 \in 0..(file[i].key[2] - 1)
      BY <2>1, <3>2
    <3>4. PICK j \in 1..(i - 1) : file[j].key = <<file[i].key[1], 0>>
      BY <3>3 DEF OneRunPerExperiment
    <3>5. j \in 1..Len(file) /\ file[j].key = NextKey(r)
      BY <1>1, <1>8, <3>1, <3>4
    <3> QED  BY <1>4, <3>5
  <2>3. CASE next[r] # 0
    <3>1. 0 \in 0..(next[r] - 1)
      BY <1>1, <2>3
    <3>2. PICK j \in 1..Len(file) : file[j].key = <<exp[r], 0>> /\ file[j].by = r
      BY <1>7, <3>1
    <3>3. file[j].key[1] = file[i].key[1]
      BY <1>8, <3>2
    <3> QED  BY <3>2, <3>3 DEF OneRunPerExperiment
  <2> QED  BY <2>2, <2>3
<1>9. ASSUME NEW i \in 1..Len(file'), NEW j \in 1..Len(file'), file'[i].key[1] = file'[j].key[1]
      PROVE  file'[i].by = file'[j].by
  <2>1. CASE i \in 1..Len(file) /\ j \in 1..Len(file)
    BY <1>2, <1>9, <2>1 DEF OneRunPerExperiment
  <2>2. CASE i = Len(file) + 1 /\ j \in 1..Len(file)
    BY <1>2, <1>3, <1>8, <1>9, <2>2
  <2>3. CASE i \in 1..Len(file) /\ j = Len(file) + 1
    BY <1>2, <1>3, <1>8, <1>9, <2>3
  <2> QED  BY <1>5, <2>1, <2>2, <2>3
<1>10. ASSUME NEW i \in 1..Len(file'), NEW n \in 0..(file'[i].key[2] - 1)
       PROVE  \E j \in 1..(i - 1) : file'[j].key = <<file'[i].key[1], n>>
  <2>1. CASE i \in 1..Len(file)
    <3>1. PICK j \in 1..(i - 1) : file[j].key = <<file[i].key[1], n>>
      BY <1>2, <1>10, <2>1 DEF OneRunPerExperiment
    <3>2. j \in 1..Len(file)
      BY <1>1, <2>1, <3>1
    <3> QED  BY <1>2, <2>1, <3>1, <3>2
  <2>2. CASE i = Len(file) + 1
    <3>1. n \in 0..(next[r] - 1)
      BY <1>3, <1>10, <2>2
    <3>2. PICK j \in 1..Len(file) : file[j].key = <<exp[r], n>>
      BY <1>7, <3>1
    <3>3. j \in 1..(i - 1)
      BY <1>1, <2>2, <3>2
    <3> QED  BY <1>2, <1>3, <2>2, <3>2, <3>3
  <2> QED  BY <1>5, <2>1, <2>2
<1>11. OneRunPerExperiment'
  BY <1>9, <1>10 DEF OneRunPerExperiment
<1> QED  BY <1>2, <1>3, <1>4, <1>6, <1>11

(* What is said of the file alone is said of it while nobody writes. *)
LEMMA FileKept ==
  ASSUME NoDuplicates, OneRunPerExperiment, file' = file
  PROVE  NoDuplicates' /\ OneRunPerExperiment'
<1>1. NoDuplicates'
  BY DEF NoDuplicates
<1>2. OneRunPerExperiment'
  BY DEF OneRunPerExperiment
<1> QED  BY <1>1, <1>2

(* A step of the only run keeps what it knows of the file. *)
LEMMA SoleRun ==
  ASSUME Typed, NoDuplicates, OneRunPerExperiment, NEW r \in Runs, RunStep(r),
         stage[r] = "ledger" => Knows(r), Agree'
  PROVE  NoDuplicates' /\ OneRunPerExperiment' /\ (stage'[r] = "ledger" => Knows(r)')
<1>1. /\ TypeOK /\ Room /\ Len(file) \in Nat
      /\ pc \in [Runs -> {"idle"} \union Active \union Over] /\ keys \in [Runs -> SUBSET Keys]
  BY DEF Typed, IInv, TypeOK, Agree
<1>2. stage[r] = "ledger" <=> pc[r] \in Active
  BY DEF Typed, Agree
<1>3. stage'[r] = "ledger" <=> pc'[r] \in Active
  BY DEF Agree
<1>4. CASE UNCHANGED vars
  <2>1. stage'[r] = "ledger" => stage[r] = "ledger"
    BY <1>2, <1>3, <1>4 DEF vars
  <2>2. UNCHANGED <<file, keys, pc, exp, next>>
    BY <1>4 DEF vars
  <2>3. stage[r] = "ledger" => Knows(r)'
    BY <2>2 DEF Knows, NextKey
  <2> QED  BY <2>1, <2>2, <2>3, FileKept
<1>5. CASE Open(r)
  <2>1. pc'[r] \in Active => keys'[r] = {file[i].key : i \in 1..Len(file)}
    BY <1>1, <1>5 DEF Open, Become, Active
  <2>2. file' = file
    BY <1>5 DEF Open
  <2>3. pc'[r] \in Active => Knows(r)'
    BY <2>1, <2>2 DEF Knows
  <2>4. NoDuplicates' /\ OneRunPerExperiment'
    BY <2>2, FileKept
  <2> QED  BY <1>3, <2>3, <2>4
<1>6. CASE CliStart(r) \/ LibraryStart(r)
  <2>1. pc[r] = "opened" /\ UNCHANGED <<file, keys>>
    BY <1>6 DEF CliStart, LibraryStart
  <2>2. Knows(r)
    BY <1>2, <2>1 DEF Active
  <2>3. Knows(r)'
    BY <2>1, <2>2 DEF Knows
  <2> QED  BY <2>1, <2>3, FileKept
<1>7. CASE AppendRefused(r) \/ Dies(r)
  <2>1. pc'[r] \notin Active /\ file' = file
    BY <1>1, <1>7 DEF AppendRefused, Dies, Become, Active
  <2> QED  BY <1>3, <2>1, FileKept
<1>8. CASE Fsync(r)
  <2>1. pc[r] = "written" /\ pc'[r] = "synced" /\ UNCHANGED <<file, keys, exp, next>>
    BY <1>1, <1>8 DEF Fsync, Become
  <2>2. Knows(r)
    BY <1>2, <2>1 DEF Active
  <2>3. Knows(r)'
    BY <2>1, <2>2 DEF Knows, NextKey
  <2> QED  BY <2>1, <2>3, FileKept
<1>9. CASE Remember(r)
  <2>1. pc[r] = "synced" /\ file' = file /\ keys'[r] = keys[r] \union {NextKey(r)}
    BY <1>1, <1>9 DEF Remember
  <2>2. Knows(r)
    BY <1>2, <2>1 DEF Active
  <2>3. Knows(r)'
    BY <2>1, <2>2 DEF Knows
  <2> QED  BY <2>1, <2>3, FileKept
<1>10. CASE AppendWrites(r) \/ AppendTears(r)
  <2>1. /\ pc[r] = "append" /\ NextKey(r) \notin keys[r] /\ UNCHANGED <<keys, exp, next>>
        /\ pc'[r] \in {"written", "failed", "dead"}
    BY <1>1, <1>10 DEF AppendWrites, AppendTears, Become
  <2>2. PICK form \in Forms : Write(r, form)
    BY <1>10, LedgerAssumption DEF AppendWrites, AppendTears, Forms
  <2>3. Knows(r)
    BY <1>2, <2>1 DEF Active
  <2>4. /\ NoDuplicates' /\ OneRunPerExperiment'
        /\ Len(file') = Len(file) + 1 /\ file'[Len(file) + 1].key = NextKey(r)
        /\ \A i \in 1..Len(file) : file'[i] = file[i] /\ file[i].key \in keys[r]
    BY <2>1, <2>2, <2>3, SoleWrites
  <2>5. pc'[r] = "written" => Knows(r)'
    <3>1. \A i \in 1..Len(file') : i \in 1..Len(file) \/ i = Len(file) + 1
      BY <1>1, <2>4
    <3>2. NextKey(r)' = NextKey(r) /\ keys'[r] = keys[r]
      BY <2>1 DEF NextKey
    <3> QED  BY <2>4, <3>1, <3>2 DEF Knows
  <2>6. stage'[r] = "ledger" => pc'[r] = "written"
    BY <1>3, <2>1 DEF Active
  <2> QED  BY <2>4, <2>5, <2>6
<1>11. \/ UNCHANGED vars \/ Open(r) \/ CliStart(r) \/ LibraryStart(r) \/ AppendRefused(r) \/ Dies(r)
       \/ Fsync(r) \/ Remember(r) \/ AppendWrites(r) \/ AppendTears(r)
  BY DEF RunStep, CheckSummary, PreflightFails, OpenLedger, StartRun, AppendRecord,
         CreateSummary, WriteSummary, SyncSummary, SummaryFails
<1> QED  BY <1>4, <1>5, <1>6, <1>7, <1>8, <1>9, <1>10, <1>11

(* When runs do not overlap, nobody but the run that moves is running.     *)
LEMMA OthersRest ==
  ASSUME Typed, Single, NEW r \in Runs, RunStep(r), ~overlapped'
  PROVE  ~overlapped /\ \A q \in Runs \ {r} : stage'[q] \in {"start", "over"}
<1>1. /\ overlapped => overlapped'
      /\ ~overlapped' /\ stage[r] = "start" => \A q \in Runs \ {r} : ~Running(q)
      /\ stage[r] # "start" => Running(r)
  BY StartsAlone
<1>2. ~overlapped
  BY <1>1
<1>3. \A q \in Runs \ {r} : stage'[q] = stage[q]
  BY RunMoves DEF Typed, IInv
<1>4. \A s, q \in Runs : Running(s) /\ Running(q) => s = q
  BY <1>2 DEF Single
<1>5. \A q \in Runs \ {r} : ~Running(q)
  BY <1>1, <1>4
<1> QED  BY <1>2, <1>3, <1>5 DEF Running

(* Every step keeps the file in order when runs do not overlap. *)
LEMMA SoleStep ==
  ASSUME Typed, Single, Sole, Typed', [LocalNext]_allVars
  PROVE  Sole'
<1>1. ASSUME NEW r \in Runs, RunStep(r)
      PROVE  Sole'
  <2> SUFFICES ASSUME ~overlapped'
               PROVE  /\ NoDuplicates' /\ OneRunPerExperiment'
                      /\ \A q \in Runs : stage'[q] = "ledger" => Knows(q)'
    BY DEF Sole
  <2>1. ~overlapped /\ \A q \in Runs \ {r} : stage'[q] \in {"start", "over"}
    BY <1>1, OthersRest
  <2>2. NoDuplicates /\ OneRunPerExperiment /\ (stage[r] = "ledger" => Knows(r)) /\ Agree'
    BY <2>1 DEF Sole, Typed
  <2>3. NoDuplicates' /\ OneRunPerExperiment' /\ (stage'[r] = "ledger" => Knows(r)')
    BY <1>1, <2>2, SoleRun
  <2> QED  BY <2>1, <2>3
<1>2. CASE PowerFails
  <2>1. TypeOK /\ Room /\ PowerCut /\ LocalTypes /\ Agree
    BY <1>2 DEF Typed, IInv, PowerFails
  <2>2. overlapped' = overlapped /\ \A r \in Runs : stage'[r] \in {"start", "over"}
    BY <1>2, <2>1, PowerTyped
  <2>3. file \in Seq(Writes) /\ file' \in Seq(Writes)
    BY DEF Typed, IInv, TypeOK
  <2>4. NoDuplicates /\ OneRunPerExperiment => NoDuplicates' /\ OneRunPerExperiment'
    BY <2>1, <2>3, PowerCutKeys, SoleShrinks
  <2> QED  BY <2>2, <2>4 DEF Sole
<1>3. CASE AllEnded \/ UNCHANGED allVars
  <2>1. UNCHANGED <<file, keys, pc, exp, next, stage, overlapped>>
    BY <1>3 DEF AllEnded, allVars, vars, local
  <2>2. (NoDuplicates => NoDuplicates') /\ (OneRunPerExperiment => OneRunPerExperiment')
    BY <2>1 DEF NoDuplicates, OneRunPerExperiment
  <2>3. \A r \in Runs : Knows(r) => Knows(r)'
    BY <2>1 DEF Knows, NextKey
  <2> QED  BY <2>1, <2>2, <2>3 DEF Sole
<1> QED  BY <1>1, <1>2, <1>3 DEF LocalNext, RunStep

(* In every behaviour, until two runs overlap, the ledger's records are
   without repetition and one run's for each experiment. *)
THEOREM LocalSole == LocalSpec => [](Typed /\ Single /\ Sole)
<1>1. LocalInit => Sole
  BY DEF LocalInit, Init, Sole, NoDuplicates, OneRunPerExperiment
<1>2. Typed /\ Single /\ Sole /\ Typed' /\ [LocalNext]_allVars => Sole'
  BY SoleStep
<1> QED  BY <1>1, <1>2, LocalSingle, PTL DEF LocalSpec

(* Runs that do not overlap, some cut short, append no record twice. *)
THEOREM AloneNoDuplicatesHolds == LocalSpec => []AloneNoDuplicates
<1>1. Sole => AloneNoDuplicates
  BY DEF Sole, AloneNoDuplicates
<1> QED  BY <1>1, LocalSole, PTL

(* An experiment's records are one run's and have no gap, whether the runs *)
(* came by the command line, which asks, or by the library, which does not. *)
THEOREM AloneOneRunHolds == LocalSpec => []AloneOneRun
<1>1. Sole => AloneOneRun
  BY DEF Sole, AloneOneRun
<1> QED  BY <1>1, LocalSole, PTL

-----------------------------------------------------------------------------
(* Runs that do not overlap: what can be read again.                       *)

(* A run that was let in has a file of whole records. *)
Legible ==
  overlapped \/
    /\ AckedIsReadable
    /\ \A r \in Runs : stage[r] = "ledger" => \A i \in 1..Len(file) : file[i].form = "whole"

(* A write cut short leaves something no load takes for a record. *)
NoLostNewline == "noNewline" \notin Tears

(* No write ever lacks its newline only. *)
NewlinesThere == \A i \in 1..Len(file) : file[i].form # "noNewline"

(* Every step of the ledger keeps the newlines there. *)
LEMMA NewlinesStep ==
  ASSUME NoLostNewline, TypeOK, Room, NewlinesThere, [Next]_vars
  PROVE  NewlinesThere'
<1>1. file \in Seq(Writes) /\ Len(file) \in Nat /\ synced \in 0..Len(file)
  BY DEF TypeOK
<1>2. ASSUME NEW r \in Runs, NEW form \in {"whole"} \union Tears, pc[r] \in Active, Write(r, form)
      PROVE  NewlinesThere'
  <2>1. form \in Forms /\ form # "noNewline"
    BY LedgerAssumption DEF Forms, NoLostNewline
  <2>2. /\ Len(file') = Len(file) + 1 /\ \A i \in 1..Len(file) : file'[i] = file[i]
        /\ file'[Len(file) + 1] = [key |-> NextKey(r), form |-> form, by |-> r]
    BY <1>2, <2>1, WriteTyped
  <2>3. \A i \in 1..Len(file') : i \in 1..Len(file) \/ i = Len(file) + 1
    BY <1>1, <2>2
  <2> QED  BY <2>1, <2>2, <2>3 DEF NewlinesThere
<1>3. ASSUME NEW r \in Runs, AppendWrites(r) \/ AppendTears(r)
      PROVE  NewlinesThere'
  <2>1. pc[r] \in Active /\ \E form \in {"whole"} \union Tears : Write(r, form)
    BY <1>3 DEF AppendWrites, AppendTears, Active
  <2> QED  BY <1>2, <2>1
<1>4. CASE PowerCut
  <2>1. PICK kept \in synced..Len(file) :
          \/ file' = SubSeq(file, 1, kept)
          \/ kept > synced /\ \E form \in Tears : file' = [SubSeq(file, 1, kept) EXCEPT ![kept].form = form]
    BY <1>4 DEF PowerCut
  <2>2. kept \in 0..Len(file)
    BY <1>1, <2>1
  <2>3. CASE file' = SubSeq(file, 1, kept)
    BY <1>1, <2>2, <2>3, PrefixTyped DEF NewlinesThere
  <2>4. CASE kept > synced /\ \E form \in Tears : file' = [SubSeq(file, 1, kept) EXCEPT ![kept].form = form]
    <3>1. PICK form \in Tears : file' = [SubSeq(file, 1, kept) EXCEPT ![kept].form = form]
      BY <2>4
    <3>2. kept \in 1..Len(file) /\ form \in Forms /\ form # "noNewline"
      BY <1>1, <2>2, <2>4, LedgerAssumption DEF Forms, NoLostNewline
    <3>3. Len(file') = kept /\ \A i \in 1..(kept - 1) : file'[i] = file[i]
      BY <1>1, <3>1, <3>2, TearTyped
    <3>4. SubSeq(file, 1, kept) \in Seq(Writes) /\ Len(SubSeq(file, 1, kept)) = kept
          /\ SubSeq(file, 1, kept)[kept] \in Writes
      BY <1>1, <3>2, PrefixTyped
    <3>5. file'[kept] = [SubSeq(file, 1, kept)[kept] EXCEPT !.form = form]
      BY <3>1, <3>2, <3>4
    <3>6. file'[kept].form = form
      BY <3>4, <3>5 DEF Writes
    <3>7. \A i \in 1..Len(file') : i \in 1..(kept - 1) \/ i = kept
      BY <1>1, <3>2, <3>3
    <3> QED  BY <1>1, <3>2, <3>3, <3>6, <3>7 DEF NewlinesThere
  <2> QED  BY <2>1, <2>3, <2>4
<1>5. ASSUME \/ \E r \in Runs : \/ Open(r) \/ CliStart(r) \/ LibraryStart(r) \/ AppendRefused(r)
                                \/ Fsync(r) \/ Remember(r) \/ Dies(r)
             \/ AllOver \/ UNCHANGED vars
      PROVE  NewlinesThere'
  <2>1. file' = file
    BY <1>5 DEF Open, CliStart, LibraryStart, AppendRefused, Fsync, Remember, Dies, AllOver, vars
  <2> QED  BY <2>1 DEF NewlinesThere
<1> QED  BY <1>3, <1>4, <1>5 DEF Next

(* A step that acknowledges nothing leaves what could be read readable. *)
LEMMA ReadableKept ==
  ASSUME TypeOK, AckedIsReadable, acked' = acked, synced <= synced', synced' \in Nat,
         \A i \in 1..synced : file'[i] = file[i]
  PROVE  AckedIsReadable'
<1>1. synced \in Nat
  BY DEF TypeOK
<1> SUFFICES ASSUME NEW ack \in acked
             PROVE  \E i \in 1..synced' : /\ file'[i] = [key |-> ack[1], form |-> "whole", by |-> ack[2]]
                                          /\ i > 1 => file'[i - 1].form = "whole"
  BY DEF AckedIsReadable
<1>2. PICK i \in 1..synced : /\ file[i] = [key |-> ack[1], form |-> "whole", by |-> ack[2]]
                             /\ i > 1 => file[i - 1].form = "whole"
  BY DEF AckedIsReadable
<1>3. i \in 1..synced' /\ (i > 1 => i - 1 \in 1..synced)
  BY <1>1, <1>2
<1> QED  BY <1>2, <1>3

(* A step of the only run leaves the file whole while it goes on. *)
LEMMA LegibleRun ==
  ASSUME Typed, NewlinesThere, NEW r \in Runs, RunStep(r), [Next]_vars, Typed',
         AckedIsReadable, stage[r] = "ledger" => \A i \in 1..Len(file) : file[i].form = "whole"
  PROVE  /\ AckedIsReadable'
         /\ stage'[r] = "ledger" => \A i \in 1..Len(file') : file'[i].form = "whole"
<1>1. /\ IInv /\ TypeOK /\ Room /\ file \in Seq(Writes) /\ Len(file) \in Nat /\ synced \in 0..Len(file) /\ synced' \in Nat
      /\ pc \in [Runs -> {"idle"} \union Active \union Over]
      /\ stage'[r] = "ledger" <=> pc'[r] \in Active
      /\ stage[r] = "ledger" <=> pc[r] \in Active
  BY DEF Typed, IInv, TypeOK, Agree
<1>2. synced <= synced' /\ \A i \in 1..synced : file'[i] = file[i]
  BY <1>1, PrefixKept
<1>3. acked' = acked => AckedIsReadable'
  BY <1>1, <1>2, ReadableKept
<1>4. CASE UNCHANGED vars
  <2>1. stage'[r] = "ledger" => stage[r] = "ledger"
    BY <1>1, <1>4 DEF vars
  <2> QED  BY <1>3, <1>4, <2>1 DEF vars
<1>5. CASE Open(r)
  <2>1. file' = file /\ acked' = acked /\ (pc'[r] \in Active => Loadable)
    BY <1>1, <1>5 DEF Open, Become, Active
  <2>2. Loadable => \A i \in 1..Len(file) : file[i].form = "whole"
    BY DEF Loadable, NewlinesThere
  <2> QED  BY <1>1, <1>3, <2>1, <2>2
<1>6. CASE CliStart(r) \/ LibraryStart(r) \/ AppendRefused(r) \/ Dies(r) \/ Fsync(r)
  <2>1. pc[r] \in Active /\ file' = file /\ acked' = acked
    BY <1>6 DEF CliStart, LibraryStart, AppendRefused, Dies, Fsync, Active
  <2> QED  BY <1>1, <1>3, <2>1
<1>7. CASE AppendTears(r)
  <2>1. pc'[r] \notin Active /\ acked' = acked
    BY <1>1, <1>7 DEF AppendTears, Become, Active
  <2> QED  BY <1>1, <1>3, <2>1
<1>8. CASE AppendWrites(r)
  <2>1. pc[r] \in Active /\ "whole" \in Forms /\ Write(r, "whole") /\ acked' = acked
    BY <1>8 DEF AppendWrites, Active, Forms
  <2>2. /\ Len(file') = Len(file) + 1 /\ \A i \in 1..Len(file) : file'[i] = file[i]
        /\ file'[Len(file) + 1] = [key |-> NextKey(r), form |-> "whole", by |-> r]
    BY <1>1, <2>1, WriteTyped
  <2>3. \A i \in 1..Len(file') : i \in 1..Len(file) \/ i = Len(file) + 1
    BY <1>1, <2>2
  <2>4. \A i \in 1..Len(file) : file[i].form = "whole"
    BY <1>1, <2>1
  <2> QED  BY <1>3, <2>1, <2>2, <2>3, <2>4
<1>9. CASE Remember(r)
  <2>1. pc[r] = "synced" /\ file' = file /\ synced' = synced /\ acked' = acked \union {<<NextKey(r), r>>}
    BY <1>9 DEF Remember
  <2>2. \A i \in 1..Len(file) : file[i].form = "whole"
    BY <1>1, <2>1 DEF Active
  <2>3. ASSUME NEW ack \in acked'
        PROVE  \E i \in 1..synced : /\ file[i] = [key |-> ack[1], form |-> "whole", by |-> ack[2]]
                                    /\ i > 1 => file[i - 1].form = "whole"
    <3>1. CASE ack \in acked
      BY <3>1 DEF AckedIsReadable
    <3>2. CASE ack = <<NextKey(r), r>>
      <4>1. PICK i \in 1..synced : file[i] = Mine(r)
        BY <1>1, <2>1 DEF IInv, UnderWay
      <4>2. i > 1 => i - 1 \in 1..Len(file)
        BY <1>1, <4>1
      <4> QED  BY <2>2, <3>2, <4>1, <4>2 DEF Mine
    <3> QED  BY <2>1, <2>3, <3>1, <3>2
  <2> QED  BY <2>1, <2>2, <2>3 DEF AckedIsReadable
<1>10. \/ UNCHANGED vars \/ Open(r) \/ CliStart(r) \/ LibraryStart(r) \/ AppendRefused(r) \/ Dies(r)
       \/ Fsync(r) \/ Remember(r) \/ AppendWrites(r) \/ AppendTears(r)
  BY DEF RunStep, CheckSummary, PreflightFails, OpenLedger, StartRun, AppendRecord,
         CreateSummary, WriteSummary, SyncSummary, SummaryFails
<1> QED  BY <1>4, <1>5, <1>6, <1>7, <1>8, <1>9, <1>10

(* Every step keeps what is acknowledged readable when runs do not overlap. *)
LEMMA LegibleStep ==
  ASSUME NoLostNewline, Typed, Single, NewlinesThere, Legible, Typed', [LocalNext]_allVars
  PROVE  Legible' /\ NewlinesThere'
<1>1. TypeOK /\ Room /\ LocalTypes /\ Agree /\ [Next]_vars
  BY LedgerStep DEF Typed, IInv
<1>2. NewlinesThere'
  BY <1>1, NewlinesStep
<1>3. ASSUME NEW r \in Runs, RunStep(r)
      PROVE  Legible'
  <2> SUFFICES ASSUME ~overlapped'
               PROVE  /\ AckedIsReadable'
                      /\ \A q \in Runs : stage'[q] = "ledger" => \A i \in 1..Len(file') : file'[i].form = "whole"
    BY DEF Legible
  <2>1. ~overlapped /\ \A q \in Runs \ {r} : stage'[q] \in {"start", "over"}
    BY <1>3, OthersRest
  <2>2. AckedIsReadable /\ (stage[r] = "ledger" => \A i \in 1..Len(file) : file[i].form = "whole")
    BY <2>1 DEF Legible
  <2>3. /\ AckedIsReadable'
        /\ stage'[r] = "ledger" => \A i \in 1..Len(file') : file'[i].form = "whole"
    BY <1>1, <1>3, <2>2, LegibleRun
  <2> QED  BY <2>1, <2>3
<1>4. CASE PowerFails
  <2>1. overlapped' = overlapped /\ \A r \in Runs : stage'[r] \in {"start", "over"}
    BY <1>1, <1>4, PowerTyped
  <2>2. PowerCut /\ acked' = acked
    BY <1>4 DEF PowerFails, PowerCut
  <2>3. synced <= synced' /\ synced' \in Nat /\ \A i \in 1..synced : file'[i] = file[i]
    BY <1>1, <2>2, PowerCutTyped DEF TypeOK
  <2>4. AckedIsReadable => AckedIsReadable'
    BY <1>1, <2>2, <2>3, ReadableKept
  <2> QED  BY <1>2, <2>1, <2>4 DEF Legible
<1>5. CASE AllEnded \/ UNCHANGED allVars
  <2>1. UNCHANGED <<file, synced, acked, stage, overlapped>>
    BY <1>5 DEF AllEnded, allVars, vars, local
  <2> QED  BY <1>2, <2>1 DEF Legible, AckedIsReadable
<1> QED  BY <1>2, <1>3, <1>4, <1>5 DEF LocalNext, RunStep

(* When no write loses its newline only, what append() acknowledged to     *)
(* runs that do not overlap can be read by every later load.               *)
THEOREM AloneReadableHolds ==
  ASSUME NoLostNewline
  PROVE  LocalSpec => []AloneReadable
<1>1. LocalInit => Legible /\ NewlinesThere
  BY DEF LocalInit, Init, Legible, AckedIsReadable, NewlinesThere
<1>2. Legible /\ NewlinesThere /\ Typed /\ Single /\ Typed' /\ [LocalNext]_allVars => (Legible /\ NewlinesThere)'
  BY NoLostNewline, LegibleStep
<1>3. Legible => AloneReadable
  BY DEF Legible, AloneReadable
<1> QED  BY <1>1, <1>2, <1>3, LocalSingle, PTL DEF LocalSpec

=============================================================================
