----------------------------- MODULE Experiment -----------------------------
(***************************************************************************)
(* ExperimentRunner.run (experiment.py) with the LocalEvolver              *)
(* (evolution/local.py) and the ledger it appends to: generations of       *)
(* propose, backtest each proposal once, rescore every trial so far,       *)
(* record the batch, choose parents.                                       *)
(*                                                                         *)
(* Data: a program is the one numeric literal of its evolve block, which   *)
(* is all the LocalEvolver changes.  Whether a backtest is valid makes no  *)
(* difference to the runner, which counts it either way.  A reward stands  *)
(* for the triple (reward, passed, validity) that ranks the parents, and   *)
(* what the scorer makes of a group is any assignment of rewards, a new    *)
(* one at each rescoring, since every score depends on the whole group.    *)
(***************************************************************************)
EXTENDS Integers, Sequences, FiniteSets

CONSTANTS
  Seeds,         \* the literals of seed_programs, in order
  Generations, BatchSize, Budget, EliteCount,   \* ExperimentConfig
  Rewards,       \* rewards the scorer may give
  Faulty         \* the executor, the scorer or the ledger may raise

ASSUME ExperimentAssumption ==
  /\ Seeds \in Seq(Nat) /\ Seeds # <<>>
  /\ Generations \in Nat \ {0} /\ BatchSize \in Nat \ {0} /\ Budget \in Nat \ {0}
  /\ EliteCount \in 1..BatchSize            \* elite_count_fits_batch
  /\ Rewards \subseteq Nat /\ Rewards # {}
  /\ Faulty \in BOOLEAN

VARIABLES
  pc,           \* "propose", "backtest", "record", "done", "failed"
  generation,
  trials,       \* the trials whose evaluation is in
  batch,        \* this generation's proposals
  evaluated,    \* how many of them have been backtested
  rewards,      \* final_scores: one reward per trial
  parents,      \* indices of the parent trials
  records       \* the TrialRecords appended to the ledger

vars == <<pc, generation, trials, batch, evaluated, rewards, parents, records>>

Init ==
  /\ pc = "propose" /\ generation = 0
  /\ trials = <<>> /\ batch = <<>> /\ evaluated = 0
  /\ rewards = <<>> /\ parents = {} /\ records = <<>>

Remaining == Budget - Len(trials)
Smaller(a, b) == IF a <= b THEN a ELSE b
(* Mutant: the last batch is not truncated. *)
SizeUntruncated == BatchSize
Size == Smaller(BatchSize, Remaining)

-----------------------------------------------------------------------------
(* The LocalEvolver.                                                       *)

(* _replacements, for an integer literal *)
Replacements(literal) ==
  {IF literal = 0 THEN 0 ELSE literal - 1, literal + 1, literal \div 2, literal * 2} \ {literal}

(* Mutant: only the parents are remembered. *)
SeenParents == {trials[i].program : i \in parents}
Seen == {trials[i].program : i \in 1..Len(trials)}

(* In generation 0 the seeds come first, without repeats and never more    *)
(* than the batch holds: of n places, those before the n-th fresh seed.    *)
FreshSeeds == {i \in 1..Len(Seeds) : \A j \in 1..(i - 1) : Seeds[j] # Seeds[i]}
Before(i) == Cardinality({j \in FreshSeeds : j < i})
TakenSeeds(n) == {i \in FreshSeeds : Before(i) < n}

SeedProposals(n) ==
  IF generation > 0 THEN <<>>
  ELSE [k \in 1..Cardinality(TakenSeeds(n)) |->
          LET i == CHOOSE i \in TakenSeeds(n) : Before(i) = k - 1
          IN [program |-> Seeds[i], parent |-> {}]]

(* Mutant: one place of the batch is kept from the seeds. *)
NewSeedsButOne == SeedProposals(Size - 1)
NewSeeds == SeedProposals(Size)

(* What a mutation is made from: the ranked parents, or else the seeds. *)
ParentPrograms ==
  IF parents # {} THEN {trials[i].program : i \in parents}
  ELSE {Seeds[i] : i \in 1..Len(Seeds)}

Mutants ==
  UNION {{[program |-> program, parent |-> {parent}] : program \in Replacements(parent)} :
           parent \in ParentPrograms}

(* Batches propose() may return: unseen programs, no two the same.         *)
Proposals ==
  LET filled == Len(NewSeeds)
      Distinct(b) == \A i, j \in 1..Len(b) : b[i].program = b[j].program => i = j
      Unseen(b) == \A i \in 1..Len(b) : b[i].program \notin Seen
  IN {b \in {NewSeeds \o f : f \in [1..(Size - filled) -> Mutants]} :
        Distinct(b) /\ Unseen(b)}

-----------------------------------------------------------------------------
(* The runner.                                                             *)

More == generation < Generations /\ Remaining > 0

Propose ==
  /\ pc = "propose" /\ More
  /\ batch' \in Proposals
  /\ pc' = "backtest" /\ evaluated' = 0
  /\ UNCHANGED <<generation, trials, rewards, parents, records>>

(* MAX_ATTEMPTS_PER_PROPOSAL mutations per proposal did not fill the batch. *)
ProposeExhausted ==
  /\ pc = "propose" /\ More
  /\ Len(NewSeeds) < Size
  /\ pc' = "failed"
  /\ UNCHANGED <<generation, trials, batch, evaluated, rewards, parents, records>>

(* Mutant: one backtest too many. *)
BacktestOneMore ==
  /\ pc = "backtest" /\ evaluated <= Len(batch)
  /\ evaluated' = evaluated + 1
  /\ UNCHANGED <<pc, generation, trials, batch, rewards, parents, records>>

(* ProgramGroupEvaluator.backtest, one proposal after the other. *)
Backtest ==
  /\ pc = "backtest" /\ evaluated < Len(batch)
  /\ evaluated' = evaluated + 1
  /\ UNCHANGED <<pc, generation, trials, batch, rewards, parents, records>>

(* An exception of the executor, which nobody on the way catches. *)
BacktestRaises ==
  /\ pc = "backtest" /\ evaluated < Len(batch)
  /\ Faulty
  /\ pc' = "failed"
  /\ UNCHANGED <<generation, trials, batch, evaluated, rewards, parents, records>>

NewTrials ==
  [i \in 1..Len(batch) |->
     [program |-> batch[i].program, parent |-> batch[i].parent,
      generation |-> generation]]

(* Extend the trials and score all of them as one group.                   *)
Rescore ==
  /\ pc = "backtest" /\ evaluated = Len(batch)
  /\ trials' = trials \o NewTrials
  /\ rewards' \in [1..Len(trials') -> Rewards]
  /\ batch' = <<>> /\ evaluated' = 0
  /\ pc' = "record"
  /\ UNCHANGED <<generation, parents, records>>

(* The scorer raises, or its scores fail one of the three checks. *)
RescoreRaises ==
  /\ pc = "backtest" /\ evaluated = Len(batch)
  /\ Faulty
  /\ trials' = trials \o NewTrials
  /\ batch' = <<>> /\ evaluated' = 0
  /\ pc' = "failed"
  /\ UNCHANGED <<generation, rewards, parents, records>>

(* Mutant: the trial count of the record, not of its group. *)
RecordOwnCount(i) ==
  [index |-> i - 1, program |-> trials[i].program, parent |-> trials[i].parent,
   generation |-> trials[i].generation, reward |-> rewards[i], trialCount |-> i]

Record(i) ==
  [index |-> i - 1, program |-> trials[i].program, parent |-> trials[i].parent,
   generation |-> trials[i].generation, reward |-> rewards[i],
   trialCount |-> Len(trials)]

AppendRecord ==
  /\ pc = "record" /\ Len(records) < Len(trials)
  /\ records' = Append(records, Record(Len(records) + 1))
  /\ UNCHANGED <<pc, generation, trials, batch, evaluated, rewards, parents>>

(* The ledger refuses the key, or its write fails. *)
AppendRaises ==
  /\ pc = "record" /\ Len(records) < Len(trials)
  /\ Faulty
  /\ pc' = "failed"
  /\ UNCHANGED <<generation, trials, batch, evaluated, rewards, parents, records>>

(* _select_parents ranks by reward, then by candidate id, whose padded     *)
(* index orders like the index itself.                                     *)
Ahead(i, j) == rewards[i] > rewards[j] \/ (rewards[i] = rewards[j] /\ i < j)
(* Mutant: parents come from the last generation only. *)
EliteOfGeneration ==
  {i \in 1..Len(trials) :
     /\ trials[i].generation = generation
     /\ Cardinality({j \in 1..Len(trials) : trials[j].generation = generation /\ Ahead(j, i)}) < EliteCount}
Elite == {i \in 1..Len(trials) : Cardinality({j \in 1..Len(trials) : Ahead(j, i)}) < EliteCount}

SelectParents ==
  /\ pc = "record" /\ Len(records) = Len(trials)
  /\ parents' = Elite
  /\ generation' = generation + 1
  /\ pc' = "propose"
  /\ UNCHANGED <<trials, batch, evaluated, rewards, records>>

(* Mutant: the run ends as soon as the budget is spent. *)
FinishAtBudget ==
  /\ pc \in {"propose", "record"} /\ ~More
  /\ pc' = "done"
  /\ UNCHANGED <<generation, trials, batch, evaluated, rewards, parents, records>>

Finish ==
  /\ pc = "propose" /\ ~More
  /\ pc' = "done"
  /\ UNCHANGED <<generation, trials, batch, evaluated, rewards, parents, records>>

StopReason == IF Len(trials) >= Budget THEN "evaluation_budget" ELSE "generation_limit"

Over == pc \in {"done", "failed"} /\ UNCHANGED vars

Next ==
  \/ Propose \/ ProposeExhausted \/ Backtest \/ BacktestRaises
  \/ Rescore \/ RescoreRaises \/ AppendRecord \/ AppendRaises
  \/ SelectParents \/ Finish \/ Over

Spec == Init /\ [][Next]_vars

-----------------------------------------------------------------------------
Programs == [program : Nat, parent : SUBSET Nat]
Trials == [program : Nat, parent : SUBSET Nat, generation : Nat]
TrialRecords == [index : Nat, program : Nat, parent : SUBSET Nat, generation : Nat,
                 reward : Rewards, trialCount : Nat]

(* Type invariant: every variable keeps its kind, no more proposals are    *)
(* backtested than there are, and a parent is one of the trials.           *)
TypeOK ==
  /\ pc \in {"propose", "backtest", "record", "done", "failed"}
  /\ generation \in 0..Generations
  /\ trials \in Seq(Trials) /\ batch \in Seq(Programs)
  /\ evaluated \in 0..Len(batch)
  /\ rewards \in Seq(Rewards)
  /\ parents \subseteq 1..Len(trials)
  /\ records \in Seq(TrialRecords)

(* The budget is an exact count of proposals: never exceeded, and used up  *)
(* unless the generations end first, each of them a full batch; the stop   *)
(* reason says which.                                                      *)
BudgetIsExact ==
  /\ Len(trials) + Len(batch) <= Budget
  /\ pc = "done" =>
       /\ Len(trials) = Smaller(Budget, Generations * BatchSize)
       /\ StopReason = (IF Generations * BatchSize >= Budget THEN "evaluation_budget" ELSE "generation_limit")

(* The ledger tells the run's history in order: record i is trial i, under *)
(* its own index, scored with every trial, valid or not, up to the end of  *)
(* its generation and none after it.                                       *)
LedgerIsHistory ==
  /\ Len(records) <= Len(trials)
  /\ \A i \in 1..Len(records) :
       /\ records[i].index = i - 1
       /\ records[i].program = trials[i].program
       /\ records[i].parent = trials[i].parent
       /\ records[i].generation = trials[i].generation
       /\ records[i].trialCount =
            Cardinality({j \in 1..Len(trials) : trials[j].generation <= trials[i].generation})

(* Every parent a record names was itself an earlier trial of the run, so  *)
(* the ledger alone holds the ancestry of every program.                   *)
LineageIsClosed ==
  \A i \in 1..Len(trials) :
    trials[i].parent \subseteq {trials[j].program : j \in 1..(i - 1)}

(* No program is evaluated twice in a run. *)
NoProgramTwice ==
  \A i, j \in 1..Len(trials) : trials[i].program = trials[j].program => i = j

(* Parents are the best of all the trials, not of the last batch: none     *)
(* left out has a higher reward, and there are as many as there can be.    *)
ParentsAreBest ==
  pc = "propose" /\ trials # <<>> =>
    /\ Cardinality(parents) = Smaller(EliteCount, Len(trials))
    /\ \A i \in parents : \A j \in (1..Len(trials)) \ parents : rewards[i] >= rewards[j]

(* A run that ends has a record for every proposal, also for those of its  *)
(* last, truncated generation: the records of a generation are all         *)
(* appended before the next one is proposed or the run returns.            *)
CompletedIsRecorded == pc = "done" => Len(records) = Len(trials) + Len(batch)

(* ADR 0003: exactly one TrialRecord is appended for every proposal.       *)
EveryProposalRecorded ==
  pc \in {"done", "failed"} => Len(records) = Len(trials) + Len(batch)
=============================================================================
