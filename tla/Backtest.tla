------------------------------ MODULE Backtest ------------------------------
(***************************************************************************)
(* ProgramBacktester.evaluate (backtest.py): window after window, ask an   *)
(* executor for the portfolios of a stream of bars and score each of them  *)
(* on the session after its bar.  The executor is any that keeps the       *)
(* promise of NoLookAhead (Lockstep does); what it hands back may, for a   *)
(* remote one, be something else, and is checked.                          *)
(*                                                                         *)
(* Data: a day is its index in the market; prices, returns and costs are   *)
(* the indices of the rows they are read from, and a portfolio is the bar  *)
(* it answers together with the last bar its author had seen.              *)
(***************************************************************************)
EXTENDS Integers, Sequences

CONSTANTS
  Windows, WindowDays, WarmupDays,
  Dates,         \* Len(market.dates)
  Faulty         \* an executor may hand back something else than it promised

ASSUME BacktestAssumption ==
  /\ Windows \in Nat \ {0} /\ WindowDays \in Nat \ {0} /\ WarmupDays \in Nat \ {0}
  /\ Dates \in Nat /\ Faulty \in BOOLEAN

VARIABLES
  pc,           \* "validate", "request", "execute", "done", "raised"
  asOf,         \* as_of_index
  window,       \* window_index
  evaluation,   \* "none", "invalid", "failed", "contract", "scored"
  scored,       \* one record for each day in daily_returns
  revealed, fixed, verdict    \* the execution under way

execution == <<revealed, fixed, verdict>>
vars == <<pc, asOf, window, evaluation, scored, execution>>

NumBars == WarmupDays + WindowDays - 1       \* required_frames

Executor == INSTANCE NoLookAhead

Init ==
  /\ pc = "validate" /\ asOf \in 0..Dates /\ window = 0
  /\ evaluation = "none" /\ scored = <<>>
  /\ Executor!Init

-----------------------------------------------------------------------------
(* The rows of a window.                                                   *)

Start == asOf + window * WindowDays
End == Start + WindowDays

FirstObservation == Start - WarmupDays
LastObservation == End - 2
BarIndex(sequence) == FirstObservation + sequence

(* Mutant: the warm-up is not checked; row -1 is the last one in Python. *)
HorizonUnchecked == asOf + Windows * WindowDays <= Dates
(* _validate_horizon *)
HorizonFits ==
  /\ asOf >= WarmupDays
  /\ asOf + Windows * WindowDays <= Dates

-----------------------------------------------------------------------------
Raise ==
  /\ pc = "validate" /\ ~HorizonFits
  /\ pc' = "raised"
  /\ UNCHANGED <<asOf, window, evaluation, scored, execution>>

SourceInvalid ==
  /\ pc = "validate" /\ HorizonFits
  /\ pc' = "done" /\ evaluation' = "invalid"
  /\ UNCHANGED <<asOf, window, scored, execution>>

BeginWindows ==
  /\ pc = "validate" /\ HorizonFits
  /\ pc' = "request"
  /\ UNCHANGED <<asOf, window, evaluation, scored, execution>>

(* Mutant: one window more than the horizon has room for. *)
BuildRequestOneMore ==
  /\ pc = "request" /\ window <= Windows
  /\ pc' = "execute"
  /\ revealed' = 0 /\ fixed' = <<>> /\ verdict' = "open"
  /\ UNCHANGED <<asOf, window, evaluation, scored>>

(* _build_request, and a fresh execution of the program. *)
BuildRequest ==
  /\ pc = "request" /\ window < Windows
  /\ pc' = "execute"
  /\ revealed' = 0 /\ fixed' = <<>> /\ verdict' = "open"
  /\ UNCHANGED <<asOf, window, evaluation, scored>>

Execute ==
  /\ pc = "execute"
  /\ Executor!Next
  /\ UNCHANGED <<pc, asOf, window, evaluation, scored>>

(* Mutant: a window that failed is left out of the backtest. *)
WindowSkipped ==
  /\ pc = "execute" /\ verdict = "failed"
  /\ pc' = "request" /\ window' = window + 1
  /\ UNCHANGED <<asOf, evaluation, scored, execution>>

(* The first window whose sandbox fails ends the evaluation. *)
WindowFails ==
  /\ pc = "execute" /\ verdict = "failed"
  /\ pc' = "done" /\ evaluation' = "failed"
  /\ UNCHANGED <<asOf, window, scored, execution>>

(* Frames of a completed result: those of the promise, or fewer, or the    *)
(* right number in another order.                                          *)
Results ==
  {fixed} \union
  (IF Faulty THEN {Tail(fixed), Append(Tail(fixed), Head(fixed))} ELSE {})

(* Mutant: the sequences of the frames are not looked at. *)
ContiguousByCount(frames) == Len(frames) = NumBars
(* The executor's contract, as _score_window checks it. *)
Contiguous(frames) ==
  /\ Len(frames) = NumBars
  /\ \A i \in 1..Len(frames) : frames[i].sequence = i - 1

Flat == -1                                \* no position, no sale: below any row

(* Mutant: previous_weights is kept from one window to the next. *)
DailyReturnCarried(frames, offset) ==
  LET held(o) == frames[WarmupDays + o]
  IN [day   |-> Start + offset,
      bar   |-> BarIndex(held(offset).sequence),
      known |-> BarIndex(held(offset).after - 1),
      cost  |-> Start + offset - 1,
      from  |-> IF offset > 0 THEN BarIndex(held(offset - 1).sequence)
                ELSE IF scored = <<>> THEN Flat ELSE scored[Len(scored)].bar,
      sold  |-> IF offset = WindowDays - 1 THEN End - 1 ELSE Flat]

(* The day scored at an offset into the window: the portfolio held, the    *)
(* last bar its author knew, the one it was traded from, the row of the    *)
(* spread that trade is charged, and that of its liquidation, if any.      *)
DailyReturn(frames, offset) ==
  LET held(o) == frames[WarmupDays + o]           \* validated[warmup_days - 1 + o]
  IN [day   |-> Start + offset,
      bar   |-> BarIndex(held(offset).sequence),
      known |-> BarIndex(held(offset).after - 1),
      cost  |-> Start + offset - 1,
      from  |-> IF offset = 0 THEN Flat ELSE BarIndex(held(offset - 1).sequence),
      sold  |-> IF offset = WindowDays - 1 THEN End - 1 ELSE Flat]

ScoreWindow ==
  /\ pc = "execute" /\ verdict = "complete"
  /\ \E frames \in Results :
       \/ /\ Contiguous(frames)
          /\ scored' = scored \o [i \in 1..WindowDays |-> DailyReturn(frames, i - 1)]
          /\ pc' = "request" /\ window' = window + 1
          /\ UNCHANGED evaluation
       \/ /\ ~Contiguous(frames)
          /\ pc' = "done" /\ evaluation' = "contract"
          /\ UNCHANGED <<scored, window>>
  /\ UNCHANGED <<asOf, execution>>

Summarize ==
  /\ pc = "request" /\ window = Windows
  /\ pc' = "done" /\ evaluation' = "scored"
  /\ UNCHANGED <<asOf, window, scored, execution>>

Over == pc \in {"done", "raised"} /\ UNCHANGED vars

Next ==
  \/ Raise \/ SourceInvalid \/ BeginWindows
  \/ BuildRequest \/ Execute \/ WindowFails \/ ScoreWindow
  \/ Summarize \/ Over

Spec == Init /\ [][Next]_vars

-----------------------------------------------------------------------------
(* Type invariant: every variable keeps its kind, and the windows stay in  *)
(* the horizon.                                                            *)
TypeOK ==
  /\ pc \in {"validate", "request", "execute", "done", "raised"}
  /\ asOf \in 0..Dates /\ window \in 0..Windows
  /\ evaluation \in {"none", "invalid", "failed", "contract", "scored"}
  /\ scored \in Seq([day : Int, bar : Int, known : Int, cost : Int, from : Int, sold : Int])
  /\ revealed \in 0..NumBars
  /\ fixed \in Seq([sequence : Nat, after : Nat])
  /\ verdict \in {"open", "complete", "failed"}

(* Every day is scored with the portfolio that answers the bar of the day  *)
(* before, by an author that had seen nothing later, at the spread of that *)
(* same bar: one session of lag, neither less (hindsight) nor more (stale),*)
(* whatever a remote executor hands back.                                  *)
OneSessionLag ==
  \A i \in 1..Len(scored) :
    /\ scored[i].bar = scored[i].day - 1
    /\ scored[i].known <= scored[i].bar
    /\ scored[i].cost = scored[i].bar

(* A backtest that is scored covers every day of its horizon once, in      *)
(* order: no window is missing, and none overlaps the next.                *)
EveryDayOnce ==
  evaluation = "scored" =>
    /\ Len(scored) = Windows * WindowDays
    /\ \A i \in 1..Len(scored) : scored[i].day = asOf + i - 1

(* A window is over after this many days of the horizon. *)
WindowEnds(days) == \E w \in 0..Windows : days = w * WindowDays

(* Every change of position is charged, and once: a portfolio is traded    *)
(* from the one of the day before, unless that was sold, and what a window *)
(* holds in the end is sold on its last day, so that the windows of a      *)
(* scored backtest start and end with nothing.                             *)
EveryTradeCharged ==
  /\ \A i \in 1..Len(scored) :
       scored[i].from = (IF i = 1 \/ scored[i - 1].sold # Flat THEN Flat ELSE scored[i - 1].bar)
  /\ evaluation = "scored" =>
       \A i \in 1..Len(scored) :
         scored[i].sold = (IF WindowEnds(i) THEN scored[i].day ELSE Flat)

(* Every row a window reads or reveals exists in the market (an index      *)
(* below zero would silently read from its end), and the last row of the   *)
(* window, on which its last portfolio is scored, is not revealed in it.   *)
RowsAreThere ==
  pc = "execute" =>
    /\ 0 <= FirstObservation /\ End - 1 < Dates
    /\ LastObservation < End - 1
    /\ LastObservation = BarIndex(NumBars - 1)
=============================================================================
