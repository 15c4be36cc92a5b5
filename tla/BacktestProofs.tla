--------------------------- MODULE BacktestProofs ---------------------------
(***************************************************************************)
(* Theorems about Backtest for any number of windows, any window and       *)
(* warm-up length, and any market: a portfolio is scored on the session    *)
(* after the bar it answers, every day of the horizon is scored once, each *)
(* change of position is charged, and no row is read that the market does  *)
(* not have.                                                               *)
(***************************************************************************)
EXTENDS Backtest, SequenceTheorems, TLAPS

Frames == [sequence : Nat, after : Nat]
Returns == [day : Int, bar : Int, known : Int, cost : Int, from : Int, sold : Int]

(* What the executor's promise says of the frames so far. *)
Answers ==
  /\ Len(fixed) <= NumBars /\ revealed <= Len(fixed) + 1
  /\ \A i \in 1..Len(fixed) : fixed[i].sequence = i - 1 /\ fixed[i].after <= i
  /\ verdict = "complete" => Len(fixed) = NumBars

(* Where the evaluation stands in its horizon. *)
Position ==
  /\ pc \in {"request", "execute"} => HorizonFits
  /\ pc = "execute" => window < Windows
  /\ pc = "validate" => window = 0
  /\ pc \in {"validate", "request", "execute"} => evaluation = "none"

(* The days scored are those of the windows before this one. *)
Covered ==
  /\ pc \in {"validate", "request", "execute"} => Len(scored) = window * WindowDays
  /\ evaluation = "scored" => Len(scored) = Windows * WindowDays
  /\ \A i \in 1..Len(scored) : scored[i].day = asOf + i - 1

(* A day is traded from the portfolio of the day before, or from nothing   *)
(* on the first day of a window; the last day of a window is sold.         *)
Charged ==
  \A i \in 1..Len(scored) :
    /\ scored[i].from = (IF WindowEnds(i - 1) THEN Flat ELSE scored[i].day - 2)
    /\ scored[i].sold = (IF WindowEnds(i) THEN scored[i].day ELSE Flat)

IInv == TypeOK /\ Answers /\ Position /\ Covered /\ OneSessionLag /\ Charged

-----------------------------------------------------------------------------
(* Lemmas on rows and frames.                                              *)

(* A window has at least one bar. *)
LEMMA BarsExist == NumBars \in Nat \ {0}
  BY BacktestAssumption DEF NumBars

(* The days of a window come after those of the windows before it. *)
LEMMA NextWindow ==
  ASSUME NEW w \in Nat
  PROVE  /\ w * WindowDays \in Nat
         /\ (w + 1) * WindowDays = w * WindowDays + WindowDays
  BY BacktestAssumption

(* The multiples of the window length are as far apart as a window is long. *)
LEMMA MultiplesApart ==
  ASSUME NEW v \in Nat, NEW w \in Nat, v < w
  PROVE  v * WindowDays + WindowDays <= w * WindowDays
<1>1. PICK d \in Nat : w = v + 1 + d
  <2>1. w - v - 1 \in Nat /\ w = v + 1 + (w - v - 1)
    OBVIOUS
  <2> QED  BY <2>1
<1>2. w * WindowDays = v * WindowDays + WindowDays + d * WindowDays
  BY <1>1, BacktestAssumption
<1>3. d * WindowDays \in Nat /\ v * WindowDays \in Nat /\ w * WindowDays \in Nat
  BY NextWindow
<1> QED  BY <1>2, <1>3, BacktestAssumption

(* Within a window, only its last day ends one. *)
LEMMA EndsAtLastDay ==
  ASSUME NEW v \in Nat, v < Windows, NEW k \in 0..WindowDays
  PROVE  WindowEnds(v * WindowDays + k) <=> (k = 0 \/ k = WindowDays)
<1>1. v * WindowDays \in Nat /\ WindowDays \in Nat \ {0} /\ Windows \in Nat
  BY NextWindow, BacktestAssumption
<1>2. (v + 1) * WindowDays = v * WindowDays + WindowDays
  BY NextWindow
<1>3. ASSUME k = 0 PROVE WindowEnds(v * WindowDays + k)
  <2>1. v \in 0..Windows /\ v * WindowDays + k = v * WindowDays
    BY <1>1, <1>3
  <2> QED  BY <2>1 DEF WindowEnds
<1>4. ASSUME k = WindowDays PROVE WindowEnds(v * WindowDays + k)
  <2>1. v + 1 \in 0..Windows /\ v * WindowDays + k = (v + 1) * WindowDays
    BY <1>1, <1>2, <1>4
  <2> QED  BY <2>1 DEF WindowEnds
<1>5. ASSUME WindowEnds(v * WindowDays + k) PROVE k = 0 \/ k = WindowDays
  <2>1. PICK w \in 0..Windows : v * WindowDays + k = w * WindowDays
    BY <1>5 DEF WindowEnds
  <2>2. w \in Nat /\ w * WindowDays \in Nat
    BY <1>1, <2>1, NextWindow
  <2>3. CASE w < v
    <3>1. w * WindowDays + WindowDays <= v * WindowDays
      BY <2>2, <2>3, MultiplesApart
    <3> QED  BY <1>1, <2>1, <2>2, <3>1
  <2>4. CASE w = v
    BY <1>1, <2>1, <2>4
  <2>5. CASE w = v + 1
    <3>1. v * WindowDays + k = v * WindowDays + WindowDays
      BY <1>2, <2>1, <2>5
    <3> QED  BY <1>1, <3>1
  <2>6. CASE w > v + 1
    <3>1. (v + 1) * WindowDays + WindowDays <= w * WindowDays
      BY <2>2, <2>6, MultiplesApart
    <3> QED  BY <1>1, <1>2, <2>1, <2>2, <3>1
  <2> QED  BY <2>2, <2>3, <2>4, <2>5, <2>6
<1> QED  BY <1>3, <1>4, <1>5

(* The first row of a window is an integer, however windows are laid out. *)
LEMMA StartTyped ==
  ASSUME TypeOK
  PROVE  Start \in Nat /\ FirstObservation \in Int
<1>1. asOf \in Nat /\ window \in Nat
  BY BacktestAssumption DEF TypeOK
<1>2. window * WindowDays \in Nat
  BY <1>1, NextWindow
<1> QED  BY <1>1, <1>2, BacktestAssumption DEF Start, FirstObservation

(* Whatever an executor hands back, no frame knows more than the bars up   *)
(* to the one it claims to answer.                                         *)
LEMMA ResultsKnowNothingLater ==
  ASSUME TypeOK, Answers, verdict = "complete", NEW frames \in Results
  PROVE  /\ frames \in Seq(Frames)
         /\ \A i \in 1..Len(frames) : frames[i].after <= frames[i].sequence + 1
<1>1. fixed \in Seq(Frames) /\ Len(fixed) \in Nat \ {0}
  BY BarsExist DEF TypeOK, Answers, Frames
<1>2. \A i \in 1..Len(fixed) : fixed[i].after <= fixed[i].sequence + 1
  BY <1>1 DEF Answers, Frames
<1> DEFINE tail == Tail(fixed)
           turned == Append(tail, Head(fixed))
<1>3. /\ tail \in Seq(Frames) /\ Len(tail) = Len(fixed) - 1
      /\ \A i \in 1..Len(tail) : tail[i] = fixed[i + 1]
  BY <1>1
<1>4. Head(fixed) \in Frames /\ Head(fixed) = fixed[1]
  BY <1>1
<1>5. CASE frames = fixed
  BY <1>5, <1>1, <1>2
<1>6. CASE frames = tail
  <2>1. \A i \in 1..Len(tail) : i + 1 \in 1..Len(fixed)
    BY <1>1, <1>3
  <2> QED  BY <1>6, <1>2, <1>3, <2>1
<1>7. CASE frames = turned
  <2> HIDE DEF tail
  <2>1. /\ turned \in Seq(Frames) /\ Len(turned) = Len(fixed)
        /\ \A i \in 1..Len(tail) : turned[i] = tail[i]
        /\ turned[Len(fixed)] = fixed[1]
    BY <1>1, <1>3, <1>4
  <2>2. \A i \in 1..Len(turned) : \E j \in 1..Len(fixed) : turned[i] = fixed[j]
    <3> SUFFICES ASSUME NEW i \in 1..Len(turned)
                 PROVE  \E j \in 1..Len(fixed) : turned[i] = fixed[j]
      OBVIOUS
    <3>1. CASE i = Len(fixed)
      BY <3>1, <1>1, <2>1
    <3>2. CASE i # Len(fixed)
      <4>1. i \in 1..Len(tail) /\ i + 1 \in 1..Len(fixed)
        BY <3>2, <1>1, <1>3, <2>1
      <4> QED  BY <4>1, <1>3, <2>1
    <3> QED  BY <3>1, <3>2
  <2> HIDE DEF turned
  <2> QED  BY <1>7, <1>2, <2>1, <2>2
<1> QED  BY <1>5, <1>6, <1>7 DEF Results

(* One day of a window: with contiguous frames its portfolio answers the   *)
(* bar of the day before.                                                  *)
LEMMA DayIsLagged ==
  ASSUME TypeOK, NEW frames \in Seq(Frames), Contiguous(frames),
         \A i \in 1..Len(frames) : frames[i].after <= frames[i].sequence + 1,
         NEW offset \in 0..(WindowDays - 1)
  PROVE  LET r == DailyReturn(frames, offset)
         IN  /\ r \in Returns
             /\ r.day = Start + offset
             /\ r.bar = r.day - 1 /\ r.known <= r.bar /\ r.cost = r.bar
             /\ r.from = (IF offset = 0 THEN Flat ELSE r.day - 2)
             /\ r.sold = (IF offset = WindowDays - 1 THEN r.day ELSE Flat)
<1>1. WarmupDays \in Nat \ {0} /\ WindowDays \in Nat \ {0} /\ Start \in Nat
  BY BacktestAssumption, StartTyped
<1>2. WarmupDays + offset \in 1..Len(frames)
  BY <1>1 DEF Contiguous, NumBars
<1> DEFINE frame == frames[WarmupDays + offset]
<1>3. /\ frame \in Frames /\ frame.sequence = WarmupDays + offset - 1
      /\ frame.after <= frame.sequence + 1
  <2>1. PICK k \in 1..Len(frames) : k = WarmupDays + offset
    BY <1>2
  <2>2. frame = frames[k]
    BY <2>1
  <2>3. frames[k] \in Frames /\ frames[k].after <= frames[k].sequence + 1
    OBVIOUS
  <2>4. frames[k].sequence = WarmupDays + offset - 1
    <3>1. frames[k].sequence = k - 1
      BY DEF Contiguous
    <3> QED  BY <1>1, <2>1, <3>1
  <2> HIDE DEF frame
  <2> QED  BY <2>2, <2>3, <2>4
<1>4. frame.sequence \in Nat /\ frame.after \in Nat
  BY <1>3 DEF Frames
<1>5. /\ BarIndex(frame.sequence) = Start + offset - 1
      /\ BarIndex(frame.after - 1) \in Int
      /\ BarIndex(frame.after - 1) <= Start + offset - 1
  <2> HIDE DEF frame
  <2> QED  BY <1>1, <1>3, <1>4 DEF BarIndex, FirstObservation
<1> DEFINE from == IF offset = 0 THEN Flat ELSE BarIndex(frames[WarmupDays + (offset - 1)].sequence)
           sold == IF offset = WindowDays - 1 THEN End - 1 ELSE Flat
<1>6. from \in Int /\ from = (IF offset = 0 THEN Flat ELSE Start + offset - 2)
  <2>1. CASE offset = 0
    BY <2>1 DEF Flat
  <2>2. CASE offset # 0
    <3>1. WarmupDays + (offset - 1) \in 1..Len(frames)
      BY <1>1, <2>2 DEF Contiguous, NumBars
    <3>2. frames[WarmupDays + (offset - 1)].sequence = WarmupDays + (offset - 1) - 1
      <4>1. PICK k \in 1..Len(frames) : k = WarmupDays + (offset - 1)
        BY <3>1
      <4>2. frames[k].sequence = k - 1
        BY DEF Contiguous
      <4>3. frames[WarmupDays + (offset - 1)] = frames[k]
        BY <4>1
      <4> HIDE DEF from, frame
      <4> QED  BY <1>1, <4>1, <4>2, <4>3
    <3>3. from = BarIndex(WarmupDays + (offset - 1) - 1)
      BY <2>2, <3>2
    <3> HIDE DEF from
    <3> QED  BY <1>1, <2>2, <3>3 DEF BarIndex, FirstObservation
  <2> QED  BY <2>1, <2>2
<1>7. sold \in Int /\ sold = (IF offset = WindowDays - 1 THEN Start + offset ELSE Flat)
  BY <1>1 DEF End, Flat
<1>8. DailyReturn(frames, offset) =
        [day |-> Start + offset, bar |-> BarIndex(frame.sequence),
         known |-> BarIndex(frame.after - 1), cost |-> Start + offset - 1,
         from |-> from, sold |-> sold]
  BY DEF DailyReturn
<1> HIDE DEF frame, from, sold
<1> QED  BY <1>1, <1>5, <1>6, <1>7, <1>8 DEF Returns

-----------------------------------------------------------------------------
(* The steps.                                                              *)

(* A scored window adds its days, each lagged by one session. *)
LEMMA WindowAdds ==
  ASSUME IInv, pc = "execute", verdict = "complete",
         NEW frames \in Results, Contiguous(frames)
  PROVE  LET s == scored \o [i \in 1..WindowDays |-> DailyReturn(frames, i - 1)]
         IN  /\ s \in Seq(Returns)
             /\ Len(s) = (window + 1) * WindowDays
             /\ \A i \in 1..Len(s) : /\ s[i].day = asOf + i - 1
                                     /\ s[i].bar = s[i].day - 1
                                     /\ s[i].known <= s[i].bar
                                     /\ s[i].cost = s[i].bar
                                     /\ s[i].from = (IF WindowEnds(i - 1) THEN Flat ELSE s[i].day - 2)
                                     /\ s[i].sold = (IF WindowEnds(i) THEN s[i].day ELSE Flat)
<1> DEFINE t == [i \in 1..WindowDays |-> DailyReturn(frames, i - 1)]
           s == scored \o t
<1>1. /\ WindowDays \in Nat \ {0} /\ asOf \in Nat /\ window \in Nat
      /\ scored \in Seq(Returns) /\ Len(scored) \in Nat
  BY BacktestAssumption DEF IInv, TypeOK, Returns
<1>2. Len(scored) = window * WindowDays /\ Start = asOf + Len(scored)
  BY DEF IInv, Covered, Start
<1>3. \A i \in 1..WindowDays :
        /\ t[i] \in Returns /\ t[i].day = asOf + Len(scored) + i - 1
        /\ t[i].bar = t[i].day - 1 /\ t[i].known <= t[i].bar /\ t[i].cost = t[i].bar
        /\ t[i].from = (IF i = 1 THEN Flat ELSE t[i].day - 2)
        /\ t[i].sold = (IF i = WindowDays THEN t[i].day ELSE Flat)
  <2> SUFFICES ASSUME NEW i \in 1..WindowDays
               PROVE  /\ t[i] \in Returns /\ t[i].day = asOf + Len(scored) + i - 1
                      /\ t[i].bar = t[i].day - 1 /\ t[i].known <= t[i].bar /\ t[i].cost = t[i].bar
                      /\ t[i].from = (IF i = 1 THEN Flat ELSE t[i].day - 2)
                      /\ t[i].sold = (IF i = WindowDays THEN t[i].day ELSE Flat)
    OBVIOUS
  <2>1. i - 1 \in 0..(WindowDays - 1) /\ t[i] = DailyReturn(frames, i - 1)
    BY <1>1
  <2>2. /\ frames \in Seq(Frames)
        /\ \A k \in 1..Len(frames) : frames[k].after <= frames[k].sequence + 1
    BY ResultsKnowNothingLater DEF IInv
  <2>3. /\ t[i] \in Returns /\ t[i].day = Start + (i - 1)
        /\ t[i].bar = t[i].day - 1 /\ t[i].known <= t[i].bar /\ t[i].cost = t[i].bar
        /\ t[i].from = (IF i - 1 = 0 THEN Flat ELSE t[i].day - 2)
        /\ t[i].sold = (IF i - 1 = WindowDays - 1 THEN t[i].day ELSE Flat)
    BY <2>1, <2>2, DayIsLagged DEF IInv
  <2>4. (i - 1 = 0 <=> i = 1) /\ (i - 1 = WindowDays - 1 <=> i = WindowDays)
    BY <1>1
  <2> HIDE DEF t
  <2> QED  BY <2>3, <2>4, <1>1, <1>2
<1>4. t \in Seq(Returns) /\ Len(t) = WindowDays
  <2>1. t \in [1..WindowDays -> Returns]
    BY <1>3
  <2> HIDE DEF t
  <2>2. t \in Seq(Returns)
    BY <1>1, <2>1
  <2> QED  BY <1>1, <2>1, <2>2
<1> HIDE DEF t
<1>5. /\ s \in Seq(Returns) /\ Len(s) = Len(scored) + WindowDays
      /\ \A i \in 1..Len(scored) : s[i] = scored[i]
      /\ \A i \in 1..WindowDays : s[Len(scored) + i] = t[i]
  BY <1>1, <1>4
<1>6. Len(s) = (window + 1) * WindowDays
  BY <1>1, <1>2, <1>5, NextWindow
<1> HIDE DEF s
<1>7. ASSUME NEW i \in 1..Len(s)
      PROVE  /\ s[i].day = asOf + i - 1 /\ s[i].bar = s[i].day - 1
             /\ s[i].known <= s[i].bar /\ s[i].cost = s[i].bar
             /\ s[i].from = (IF WindowEnds(i - 1) THEN Flat ELSE s[i].day - 2)
             /\ s[i].sold = (IF WindowEnds(i) THEN s[i].day ELSE Flat)
  <2>1. CASE i \in 1..Len(scored)
    BY <2>1, <1>5 DEF IInv, Covered, OneSessionLag, Charged
  <2>2. CASE i \notin 1..Len(scored)
    <3>1. PICK k \in 1..WindowDays : i = Len(scored) + k
      <4>1. i - Len(scored) \in 1..WindowDays /\ i = Len(scored) + (i - Len(scored))
        BY <2>2, <1>1, <1>5
      <4> QED  BY <4>1
    <3>2. s[i] = t[k]
      BY <3>1, <1>5
    <3>3. t[k].day = asOf + i - 1
      BY <1>1, <1>3, <3>1
    <3>4. WindowEnds(i) <=> k = WindowDays
      <4>1. k \in 0..WindowDays /\ k # 0 /\ window < Windows
        BY <1>1 DEF IInv, Position
      <4>2. WindowEnds(window * WindowDays + k) <=> (k = 0 \/ k = WindowDays)
        BY <1>1, <4>1, EndsAtLastDay
      <4> QED  BY <1>2, <3>1, <4>1, <4>2
    <3>5. WindowEnds(i - 1) <=> k = 1
      <4>1. k - 1 \in 0..WindowDays /\ k - 1 # WindowDays /\ (k - 1 = 0 <=> k = 1) /\ window < Windows
        BY <1>1 DEF IInv, Position
      <4>2. WindowEnds(window * WindowDays + (k - 1)) <=> (k - 1 = 0 \/ k - 1 = WindowDays)
        BY <1>1, <4>1, EndsAtLastDay
      <4>3. i - 1 = window * WindowDays + (k - 1)
        BY <1>1, <1>2, <3>1
      <4> QED  BY <4>1, <4>2, <4>3
    <3>6. /\ t[k].from = (IF k = 1 THEN Flat ELSE t[k].day - 2)
          /\ t[k].sold = (IF k = WindowDays THEN t[k].day ELSE Flat)
      BY <1>3
    <3> QED  BY <1>3, <3>2, <3>3, <3>4, <3>5, <3>6
  <2> QED  BY <2>1, <2>2
<1> QED  BY <1>5, <1>6, <1>7 DEF s, t

(* The invariant holds before the first step. *)
LEMMA InitHolds == Init => IInv
<1> SUFFICES ASSUME Init PROVE IInv
  OBVIOUS
<1>1. NumBars \in Nat \ {0} /\ 0 * WindowDays = 0
  BY BarsExist, BacktestAssumption
<1>2. TypeOK
  BY <1>1, BacktestAssumption DEF Init, Executor!Init, TypeOK
<1> QED  BY <1>1, <1>2 DEF Init, Executor!Init, IInv, Answers, Position, Covered, OneSessionLag, Charged

(* A step of the executor keeps its promise, and scores nothing. *)
LEMMA ExecuteKeeps == ASSUME IInv, Execute PROVE IInv'
<1>1. /\ NumBars \in Nat \ {0} /\ fixed \in Seq(Frames) /\ Len(fixed) \in Nat
      /\ revealed \in 0..NumBars
  BY BarsExist DEF IInv, TypeOK, Frames
<1>2. (revealed' \in 0..NumBars /\ fixed' \in Seq(Frames)
        /\ verdict' \in {"open", "complete", "failed"}) /\ Answers'
  <2>1. CASE Executor!Reveal
    BY <2>1, <1>1 DEF Executor!Reveal, IInv, TypeOK, Answers
  <2>2. CASE Executor!Fix
    <3>1. PICK after \in 0..revealed :
            fixed' = Append(fixed, [sequence |-> Len(fixed), after |-> after])
      BY <2>2 DEF Executor!Fix
    <3>2. /\ Len(fixed) < revealed /\ verdict = "open" /\ revealed' = revealed /\ verdict' = verdict
      BY <2>2 DEF Executor!Fix
    <3>3. revealed = Len(fixed) + 1
      BY <1>1, <3>2 DEF IInv, Answers
    <3> DEFINE f == [sequence |-> Len(fixed), after |-> after]
    <3>4. f \in Frames
      BY <1>1, <3>1 DEF Frames
    <3>5. f.sequence = Len(fixed) /\ f.after <= Len(fixed) + 1
      BY <1>1, <3>3
    <3> HIDE DEF f
    <3>6. /\ fixed' \in Seq(Frames) /\ Len(fixed') = Len(fixed) + 1
          /\ \A i \in 1..Len(fixed) : fixed'[i] = fixed[i]
          /\ fixed'[Len(fixed) + 1] = f
      BY <1>1, <3>1, <3>4 DEF f
    <3>7. ASSUME NEW i \in 1..Len(fixed')
          PROVE  fixed'[i].sequence = i - 1 /\ fixed'[i].after <= i
      <4>1. CASE i \in 1..Len(fixed)
        BY <4>1, <3>6 DEF IInv, Answers
      <4>2. CASE i = Len(fixed) + 1
        BY <4>2, <1>1, <3>5, <3>6
      <4> QED  BY <1>1, <3>6, <4>1, <4>2
    <3>8. Len(fixed') <= NumBars /\ revealed' <= Len(fixed') + 1
      BY <1>1, <3>2, <3>3, <3>6
    <3> QED  BY <1>1, <3>2, <3>6, <3>7, <3>8 DEF Answers
  <2>3. CASE Executor!Conclude
    BY <2>3, <1>1 DEF Executor!Conclude, IInv, TypeOK, Answers
  <2> QED  BY <2>1, <2>2, <2>3 DEF Execute, Executor!Next
<1>3. TypeOK'
  BY <1>2 DEF IInv, TypeOK, Execute, Frames, NumBars
<1>4. Position' /\ Covered' /\ OneSessionLag' /\ Charged'
  BY DEF IInv, Execute, Position, Covered, OneSessionLag, Charged, WindowEnds, HorizonFits
<1> QED  BY <1>2, <1>3, <1>4 DEF IInv

(* A window is scored whole, or ends the evaluation. *)
LEMMA ScoreWindowKeeps == ASSUME IInv, ScoreWindow PROVE IInv'
<1>1. /\ pc = "execute" /\ verdict = "complete" /\ asOf' = asOf
      /\ revealed' = revealed /\ fixed' = fixed /\ verdict' = verdict
  BY DEF ScoreWindow, execution
<1>2. Answers'
  BY <1>1 DEF IInv, Answers, NumBars
<1>3. Windows \in Nat \ {0} /\ window \in 0..Windows /\ window < Windows /\ evaluation = "none"
  BY <1>1, BacktestAssumption DEF IInv, TypeOK, Position
<1>4. PICK frames \in Results :
       \/ /\ Contiguous(frames)
          /\ scored' = scored \o [i \in 1..WindowDays |-> DailyReturn(frames, i - 1)]
          /\ pc' = "request" /\ window' = window + 1
          /\ UNCHANGED evaluation
       \/ /\ ~Contiguous(frames)
          /\ pc' = "done" /\ evaluation' = "contract"
          /\ UNCHANGED <<scored, window>>
  BY DEF ScoreWindow
<1>5. CASE Contiguous(frames) /\ pc' = "request" /\ window' = window + 1 /\ evaluation' = evaluation
           /\ scored' = scored \o [i \in 1..WindowDays |-> DailyReturn(frames, i - 1)]
  <2>1. /\ scored' \in Seq(Returns)
        /\ Len(scored') = (window + 1) * WindowDays
        /\ \A i \in 1..Len(scored') : /\ scored'[i].day = asOf + i - 1
                                      /\ scored'[i].bar = scored'[i].day - 1
                                      /\ scored'[i].known <= scored'[i].bar
                                      /\ scored'[i].cost = scored'[i].bar
                                      /\ scored'[i].from = (IF WindowEnds(i - 1) THEN Flat ELSE scored'[i].day - 2)
                                      /\ scored'[i].sold = (IF WindowEnds(i) THEN scored'[i].day ELSE Flat)
    BY <1>1, <1>5, WindowAdds
  <2>2. TypeOK'
    BY <1>1, <1>3, <1>5, <2>1 DEF IInv, TypeOK, Returns, NumBars
  <2>3. Position'
    BY <1>1, <1>3, <1>5 DEF IInv, Position, HorizonFits
  <2>4. Covered' /\ OneSessionLag'
    BY <1>1, <1>3, <1>5, <2>1 DEF Covered, OneSessionLag
  <2>5. Charged'
    BY <2>1 DEF Charged, WindowEnds
  <2> QED  BY <1>2, <2>2, <2>3, <2>4, <2>5 DEF IInv
<1>6. CASE pc' = "done" /\ evaluation' = "contract" /\ UNCHANGED <<scored, window>>
  <2>1. TypeOK'
    BY <1>1, <1>6 DEF IInv, TypeOK, NumBars
  <2>2. Position' /\ Covered' /\ OneSessionLag' /\ Charged'
    BY <1>1, <1>6 DEF IInv, Position, Covered, OneSessionLag, Charged, WindowEnds
  <2> QED  BY <1>2, <2>1, <2>2 DEF IInv
<1> QED  BY <1>4, <1>5, <1>6

(* Every step keeps the invariant. *)
LEMMA StepKeeps == IInv /\ [Next]_vars => IInv'
<1> SUFFICES ASSUME IInv, [Next]_vars PROVE IInv'
  OBVIOUS
<1> USE DEF IInv, TypeOK, Answers, Position, Covered, OneSessionLag, Charged, WindowEnds, HorizonFits, NumBars, execution
<1>1. CASE Raise
  BY <1>1 DEF Raise
<1>2. CASE SourceInvalid
  BY <1>2 DEF SourceInvalid
<1>3. CASE BeginWindows
  BY <1>3 DEF BeginWindows
<1>4. CASE BuildRequest
  BY <1>4, BacktestAssumption DEF BuildRequest
<1>5. CASE Execute
  BY <1>5, ExecuteKeeps
<1>6. CASE WindowFails
  BY <1>6 DEF WindowFails
<1>7. CASE ScoreWindow
  BY <1>7, ScoreWindowKeeps
<1>8. CASE Summarize
  BY <1>8 DEF Summarize
<1>9. CASE UNCHANGED vars
  BY <1>9 DEF vars
<1> QED
  BY <1>1, <1>2, <1>3, <1>4, <1>5, <1>6, <1>7, <1>8, <1>9 DEF Next, Over

-----------------------------------------------------------------------------
(* The inductive invariant: the types, what the executor's promise says of *)
(* the frames, the position in the horizon and the days scored so far,     *)
(* each charged for its change of position.                                *)
THEOREM Invariance == Spec => []IInv
  BY InitHolds, StepKeeps, PTL DEF Spec

(* Every variable of the backtest keeps its kind (TypeOK). *)
THEOREM TypeCorrect == Spec => []TypeOK
<1>1. IInv => TypeOK
  BY DEF IInv
<1> QED  BY <1>1, Invariance, PTL

(* Every day is scored with the portfolio that answers the bar of the day  *)
(* before, by an author that had seen nothing later (OneSessionLag).       *)
THEOREM OneSessionLagHolds == Spec => []OneSessionLag
<1>1. IInv => OneSessionLag
  BY DEF IInv
<1> QED  BY <1>1, Invariance, PTL

(* A scored backtest covers every day of its horizon once (EveryDayOnce). *)
THEOREM EveryDayOnceHolds == Spec => []EveryDayOnce
<1>1. IInv => EveryDayOnce
  BY DEF IInv, Covered, EveryDayOnce
<1> QED  BY <1>1, Invariance, PTL

(* Every change of position is charged, and the windows of a scored        *)
(* backtest start and end with nothing (EveryTradeCharged).                *)
THEOREM EveryTradeChargedHolds == Spec => []EveryTradeCharged
<1>1. ASSUME IInv PROVE EveryTradeCharged
  <2>1. asOf \in Nat /\ Windows \in Nat /\ Len(scored) \in Nat
    BY <1>1, BacktestAssumption DEF IInv, TypeOK
  <2>2. ASSUME NEW i \in 1..Len(scored)
        PROVE  scored[i].from =
                 (IF i = 1 \/ scored[i - 1].sold # Flat THEN Flat ELSE scored[i - 1].bar)
    <3>1. CASE i = 1
      <4>1. 0 \in 0..Windows /\ i - 1 = 0 * WindowDays
        BY <2>1, <3>1, BacktestAssumption
      <4>2. WindowEnds(i - 1)
        BY <4>1 DEF WindowEnds
      <4> QED  BY <1>1, <3>1, <4>2 DEF IInv, Charged
    <3>2. CASE i # 1
      <4>1. i - 1 \in 1..Len(scored)
        BY <2>1, <3>2
      <4>2. /\ scored[i - 1].sold = (IF WindowEnds(i - 1) THEN scored[i - 1].day ELSE Flat)
            /\ scored[i].from = (IF WindowEnds(i - 1) THEN Flat ELSE scored[i].day - 2)
        BY <1>1, <4>1 DEF IInv, Charged
      <4>3. /\ scored[i - 1].day = asOf + (i - 1) - 1 /\ scored[i].day = asOf + i - 1
            /\ scored[i - 1].bar = scored[i - 1].day - 1
        BY <1>1, <4>1 DEF IInv, Covered, OneSessionLag
      <4>4. scored[i - 1].day # Flat /\ scored[i].day - 2 = scored[i - 1].bar
        BY <2>1, <3>2, <4>3 DEF Flat
      <4> QED  BY <3>2, <4>2, <4>4
    <3> QED  BY <3>1, <3>2
  <2>3. \A i \in 1..Len(scored) :
          scored[i].sold = (IF WindowEnds(i) THEN scored[i].day ELSE Flat)
    BY <1>1 DEF IInv, Charged
  <2> QED  BY <2>2, <2>3 DEF EveryTradeCharged
<1> QED  BY <1>1, Invariance, PTL

(* No window reads or reveals a row the market does not have, nor reveals  *)
(* its own last row (RowsAreThere).                                        *)
THEOREM RowsAreThereHolds == Spec => []RowsAreThere
<1>1. ASSUME IInv PROVE RowsAreThere
  <2> SUFFICES ASSUME pc = "execute"
               PROVE  /\ 0 <= FirstObservation /\ End - 1 < Dates
                      /\ LastObservation < End - 1
                      /\ LastObservation = BarIndex(NumBars - 1)
    BY DEF RowsAreThere
  <2>1. /\ asOf \in Nat /\ Dates \in Nat /\ window \in Nat /\ window < Windows
        /\ WindowDays \in Nat \ {0} /\ WarmupDays \in Nat \ {0} /\ Windows \in Nat
        /\ asOf >= WarmupDays /\ asOf + Windows * WindowDays <= Dates
    <3>1. asOf >= WarmupDays /\ asOf + Windows * WindowDays <= Dates /\ window < Windows
      BY <1>1 DEF IInv, Position, HorizonFits
    <3>2. asOf \in Nat /\ window \in Nat
      BY <1>1, BacktestAssumption DEF IInv, TypeOK
    <3> QED  BY <3>1, <3>2, BacktestAssumption
  <2> DEFINE before == window * WindowDays
             whole == Windows * WindowDays
  <2>2. before \in Nat /\ whole \in Nat /\ before + WindowDays <= whole
    BY <2>1, NextWindow, MultiplesApart
  <2>3. Start = asOf + before
    BY DEF Start
  <2>4. asOf + whole <= Dates
    BY <2>1
  <2> HIDE DEF before, whole
  <2> QED
    BY <2>1, <2>2, <2>3, <2>4
    DEF End, FirstObservation, LastObservation, BarIndex, NumBars
<1> QED  BY <1>1, Invariance, PTL
=============================================================================
