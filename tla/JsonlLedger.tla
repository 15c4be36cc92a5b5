---------------------------- MODULE JsonlLedger ----------------------------
(***************************************************************************)
(* The append-only trial ledger (ledger.py) and the runs that share one    *)
(* file: each run opens the ledger, which loads and validates every line,  *)
(* perhaps checks that its experiment is new (the CLI does, a caller of    *)
(* ExperimentRunner need not), and appends its records one by one.         *)
(*                                                                         *)
(* A line is what lies between two newlines, so a write that was cut short *)
(* shares its line with the write that follows it.  The file is the        *)
(* sequence of writes; "form" says how much of a record reached it:        *)
(* "whole", "partial", or "noNewline" when only the newline is missing,    *)
(* which _load_existing cannot tell from a whole record.                   *)
(***************************************************************************)
EXTENDS Naturals, Sequences, FiniteSets

CONSTANTS
  Runs,         \* processes that may use the ledger, each once
  Experiments,  \* experiment ids
  Trials,       \* records a run appends, evaluation_index 0..Trials-1
  Exclusive,    \* a run opens the ledger only when no other is using it
  Tears         \* what a write cut short may leave

ASSUME LedgerAssumption ==
  /\ Trials \in Nat \ {0}
  /\ Exclusive \in BOOLEAN
  /\ Tears \subseteq {"partial", "noNewline"}

VARIABLES
  file,     \* the writes, in file order
  synced,   \* how many of them are on stable storage
  pc,       \* where each run is
  exp,      \* its experiment_id
  keys,     \* its JsonlLedger._keys
  next,     \* its next evaluation_index
  acked     \* history: writes whose append() returned, as <<key, run>>

vars == <<file, synced, pc, exp, keys, next, acked>>

Keys == Experiments \X (0..(Trials - 1))
Forms == {"whole", "partial", "noNewline"}
Writes == [key : Keys, form : Forms, by : Runs]
Active == {"opened", "append", "written", "synced"}
Over == {"finished", "rejected", "failed", "dead"}

Init ==
  /\ file = <<>> /\ synced = 0
  /\ pc = [r \in Runs |-> "idle"]
  /\ exp \in [Runs -> Experiments]
  /\ keys = [r \in Runs |-> {}]
  /\ next = [r \in Runs |-> 0]
  /\ acked = {}

(* Mutant: a line that does not parse is skipped. *)
LoadableLeniently ==
  \A i, j \in 1..Len(file) : file[i].key = file[j].key => i = j

(* Every line is a valid record, and no key occurs twice. *)
Loadable ==
  /\ \A i \in 1..Len(file) :
       file[i].form = "whole" \/ (file[i].form = "noNewline" /\ i = Len(file))
  /\ \A i, j \in 1..Len(file) : file[i].key = file[j].key => i = j

Become(r, state) == pc' = [pc EXCEPT ![r] = state]

(* Mutant: the lines are validated and their keys forgotten. *)
OpenForgets(r) ==
  /\ pc[r] = "idle"
  /\ Exclusive => \A other \in Runs : pc[other] \notin Active
  /\ Become(r, IF Loadable THEN "opened" ELSE "rejected")
  /\ UNCHANGED <<file, synced, exp, keys, next, acked>>

(* JsonlLedger.__init__ and _load_existing. *)
Open(r) ==
  /\ pc[r] = "idle"
  /\ Exclusive => \A other \in Runs : pc[other] \notin Active
  /\ IF Loadable
     THEN /\ Become(r, "opened")
          /\ keys' = [keys EXCEPT ![r] = {file[i].key : i \in 1..Len(file)}]
     ELSE Become(r, "rejected") /\ UNCHANGED keys
  /\ UNCHANGED <<file, synced, exp, next, acked>>

HasExperiment(r) == \E key \in keys[r] : key[1] = exp[r]

(* run-local refuses a known experiment before it starts anything. *)
CliStart(r) ==
  /\ pc[r] = "opened"
  /\ Become(r, IF HasExperiment(r) THEN "rejected" ELSE "append")
  /\ UNCHANGED <<file, synced, exp, keys, next, acked>>

(* ExperimentRunner on its own does not ask. *)
LibraryStart(r) ==
  /\ pc[r] = "opened"
  /\ Become(r, "append")
  /\ UNCHANGED <<file, synced, exp, keys, next, acked>>

NextKey(r) == <<exp[r], next[r]>>
(* Mutant: the file is opened with mode "w". *)
WriteTruncating(r, form) == file' = <<[key |-> NextKey(r), form |-> form, by |-> r]>>
Write(r, form) == file' = Append(file, [key |-> NextKey(r), form |-> form, by |-> r])

AppendRefused(r) ==
  /\ pc[r] = "append" /\ NextKey(r) \in keys[r]
  /\ Become(r, "failed")
  /\ UNCHANGED <<file, synced, exp, keys, next, acked>>

(* Mutant: append() does not look the key up. *)
AppendWritesUnchecked(r) ==
  /\ pc[r] = "append"
  /\ Write(r, "whole") /\ Become(r, "written")
  /\ UNCHANGED <<synced, exp, keys, next, acked>>

(* write and flush, to the end of the file *)
AppendWrites(r) ==
  /\ pc[r] = "append" /\ NextKey(r) \notin keys[r]
  /\ Write(r, "whole") /\ Become(r, "written")
  /\ UNCHANGED <<synced, exp, keys, next, acked>>

(* The write is cut short: the disk is full, or the process is killed.     *)
AppendTears(r) ==
  /\ pc[r] = "append" /\ NextKey(r) \notin keys[r]
  /\ \E form \in Tears : Write(r, form)
  /\ \E end \in {"failed", "dead"} : Become(r, end)
  /\ UNCHANGED <<synced, exp, keys, next, acked>>

(* Mutant: flush() without fsync(). *)
FsyncSkipped(r) ==
  /\ pc[r] = "written"
  /\ Become(r, "synced")
  /\ UNCHANGED <<file, synced, exp, keys, next, acked>>

Fsync(r) ==
  /\ pc[r] = "written"
  /\ synced' = Len(file) /\ Become(r, "synced")
  /\ UNCHANGED <<file, exp, keys, next, acked>>

(* Mutant: one trial too many. *)
RememberOneMore(r) ==
  /\ pc[r] = "synced"
  /\ keys' = [keys EXCEPT ![r] = @ \union {NextKey(r)}]
  /\ acked' = acked \union {<<NextKey(r), r>>}
  /\ next' = [next EXCEPT ![r] = @ + 1]
  /\ Become(r, IF next[r] = Trials THEN "finished" ELSE "append")
  /\ UNCHANGED <<file, synced, exp>>

(* append() remembers the key and returns; the run goes to its next trial. *)
Remember(r) ==
  /\ pc[r] = "synced"
  /\ keys' = [keys EXCEPT ![r] = @ \union {NextKey(r)}]
  /\ acked' = acked \union {<<NextKey(r), r>>}
  /\ next' = [next EXCEPT ![r] = @ + 1]
  /\ Become(r, IF next[r] + 1 = Trials THEN "finished" ELSE "append")
  /\ UNCHANGED <<file, synced, exp>>

(* The process is killed, or an exception ends the run. *)
Dies(r) ==
  /\ pc[r] \in Active
  /\ Become(r, "dead")
  /\ UNCHANGED <<file, synced, exp, keys, next, acked>>

(* The machine stops: every run dies, and of the writes not on stable      *)
(* storage some are lost from the end, the last one left perhaps torn.     *)
PowerCut ==
  /\ pc' = [r \in Runs |-> IF pc[r] \in Active THEN "dead" ELSE pc[r]]
  /\ \E kept \in synced..Len(file) :
       \/ file' = SubSeq(file, 1, kept)
       \/ /\ kept > synced
          /\ \E form \in Tears :
               file' = [SubSeq(file, 1, kept) EXCEPT ![kept].form = form]
  /\ synced' = Len(file')
  /\ UNCHANGED <<exp, keys, next, acked>>

AllOver == (\A r \in Runs : pc[r] \in Over) /\ UNCHANGED vars

Next ==
  \/ \E r \in Runs :
       \/ Open(r) \/ CliStart(r) \/ LibraryStart(r)
       \/ AppendRefused(r) \/ AppendWrites(r) \/ AppendTears(r)
       \/ Fsync(r) \/ Remember(r) \/ Dies(r)
  \/ PowerCut
  \/ AllOver

Spec == Init /\ [][Next]_vars

-----------------------------------------------------------------------------
TypeOK ==
  /\ file \in Seq(Writes) /\ synced \in 0..Len(file)
  /\ pc \in [Runs -> {"idle"} \union Active \union Over]
  /\ exp \in [Runs -> Experiments]
  /\ keys \in [Runs -> SUBSET Keys]
  /\ next \in [Runs -> 0..Trials]
  /\ acked \subseteq Keys \X Runs

(* Once append() has returned, its record is on stable storage and stays   *)
(* there, whoever else writes and whatever crashes: the fsync comes before *)
(* the return, and no later open truncates the file.                       *)
AckedIsDurable ==
  \A ack \in acked : \E i \in 1..synced :
    file[i] = [key |-> ack[1], form |-> "whole", by |-> ack[2]]

(* ... and it is a line of its own, which the next load can read.          *)
AckedIsReadable ==
  \A ack \in acked : \E i \in 1..synced :
    /\ file[i] = [key |-> ack[1], form |-> "whole", by |-> ack[2]]
    /\ i > 1 => file[i - 1].form = "whole"

(* The file never holds two records for one experiment and evaluation      *)
(* index: each run refuses the keys it loaded and the keys it appended.    *)
NoDuplicates ==
  \A i, j \in 1..Len(file) : file[i].key = file[j].key => i = j

(* All the records of an experiment are one run's, and its indices have no *)
(* gap: a run never continues what another one started.                    *)
OneRunPerExperiment ==
  /\ \A i, j \in 1..Len(file) : file[i].key[1] = file[j].key[1] => file[i].by = file[j].by
  /\ \A i \in 1..Len(file) : \A n \in 0..(file[i].key[2] - 1) :
       \E j \in 1..(i - 1) : file[j].key = <<file[i].key[1], n>>

(* What is on stable storage is never rewritten. *)
AppendOnly ==
  [][synced' >= synced /\ SubSeq(file', 1, synced) = SubSeq(file, 1, synced)]_vars
=============================================================================
