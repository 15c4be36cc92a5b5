--------------------------- MODULE LockstepProofs ---------------------------
(***************************************************************************)
(* Theorems about Lockstep for every number of bars, every output limit    *)
(* and every choice of what may fail.                                      *)
(***************************************************************************)
EXTENDS Lockstep, SequenceTheorems, TLAPS

-----------------------------------------------------------------------------
(* Lemmas on sequences of records.                                         *)

(* An append keeps the kind of the sequence and every earlier element. *)
LEMMA AppendTyped ==
  ASSUME NEW S, NEW s \in Seq(S), NEW e \in S
  PROVE  /\ Append(s, e) \in Seq(S) /\ Len(Append(s, e)) = Len(s) + 1
         /\ \A i \in 1..Len(s) : Append(s, e)[i] = s[i]
         /\ Append(s, e)[Len(s) + 1] = e
  OBVIOUS

(* The tail of a sequence is one shorter, and shifted by one. *)
LEMMA TailTyped ==
  ASSUME NEW S, NEW s \in Seq(S), s # <<>>
  PROVE  /\ Tail(s) \in Seq(S) /\ Len(Tail(s)) = Len(s) - 1 /\ Head(s) \in S
         /\ Head(s) = s[1] /\ Len(s) \in Nat /\ Len(s) >= 1
         /\ \A i \in 1..Len(Tail(s)) : Tail(s)[i] = s[i + 1]
  OBVIOUS

(* A subsequence has elements of the sequence only. *)
LEMMA SubSeqTyped ==
  ASSUME NEW S, NEW s \in Seq(S), NEW m \in 1..(Len(s) + 1), NEW n \in 0..Len(s)
  PROVE  /\ SubSeq(s, m, n) \in Seq(S)
         /\ Len(SubSeq(s, m, n)) <= Len(s)
         /\ \A i \in 1..Len(SubSeq(s, m, n)) : m + i - 1 \in 1..Len(s) /\ SubSeq(s, m, n)[i] = s[m + i - 1]
  OBVIOUS

(* The empty sequence is a sequence of anything. *)
LEMMA EmptyTyped ==
  ASSUME NEW S
  PROVE  <<>> \in Seq(S) /\ Len(<<>>) = 0
  OBVIOUS

(* The fields of a line of the worker. *)
LEMMA LineFields ==
  ASSUME NEW line \in Lines
  PROVE  /\ line.size \in Nat /\ line.after \in 0..NumBars /\ line.sequence \in Bars
         /\ line.type \in {"ready", "weights", "error", "stopped", "garbage"}
<1>1. 1 \in Nat /\ Huge \in Nat
  BY BoundsAssumption DEF Huge
<1>2. line.size \in Sizes
  BY DEF Lines
<1>3. line.size \in Nat
  BY <1>1, <1>2 DEF Sizes
<1> QED  BY <1>3 DEF Lines

(* The fields of a request of the driver. *)
LEMMA RequestFields ==
  ASSUME NEW request \in Requests
  PROVE  /\ request.type \in {"initialize", "bar", "stop"} /\ request.sequence \in Bars
  BY DEF Requests

(* What the worker puts together is a line, dated by what it knows. *)
LEMMA LineTyped ==
  ASSUME TypeOK, NEW type \in {"ready", "weights", "error", "stopped", "garbage"},
         NEW sequence \in Bars, NEW ok \in BOOLEAN, NEW size \in Sizes
  PROVE  Line(type, sequence, ok, size) \in Lines /\ Line(type, sequence, ok, size).after = known
  BY DEF TypeOK, Line, Lines

(* What the driver sends at any cursor is a request. *)
LEMMA RequestTyped ==
  ASSUME TypeOK
  PROVE  Request(cursor) \in Requests
  BY BoundsAssumption DEF TypeOK, Request, Requests, Bars

-----------------------------------------------------------------------------
(* Type correctness.                                                       *)

(* A spawn, a request, a timer or a failure of the driver. *)
LEMMA DriverTyped ==
  ASSUME TypeOK, Driver
  PROVE  TypeOK'
<1> USE BoundsAssumption
<1>1. CASE SpawnFails
  BY <1>1 DEF TypeOK, SpawnFails, DriverStates, Statuses, Outcomes, pipeVars, hostVars, workerVars
<1>2. CASE Spawn
  BY <1>2 DEF TypeOK, Spawn, DriverStates, pipeVars
<1>3. CASE Send
  <2>1. stdin' \in Seq(Requests)
    BY <1>3, RequestTyped, AppendTyped DEF TypeOK, Send
  <2>2. revealed' \in 0..NumBars
    BY <1>3 DEF TypeOK, Send
  <2> QED  BY <1>3, <2>1, <2>2 DEF TypeOK, Send, DriverStates, hostVars, workerVars
<1>4. CASE SendBreaks
  BY <1>4 DEF TypeOK, SendBreaks, DriverStates, Outcomes, pipeVars, hostVars, workerVars
<1>5. ASSUME stdout # <<>>
      PROVE  Tail(stdout) \in Seq(Lines) /\ Head(stdout) \in Lines /\ Head(stdout).size \in Nat
  <2>1. stdout \in Seq(Lines)
    BY DEF TypeOK
  <2> QED  BY <1>5, <2>1, TailTyped, LineFields
<1>6. CASE AcceptReady
  BY <1>5, <1>6 DEF TypeOK, AcceptReady, DriverStates, hostVars, workerVars
<1>7. CASE AcceptWeights
  <2>1. [sequence |-> cursor - 1, after |-> Head(stdout).after] \in Frames
    BY <1>5, <1>7, LineFields DEF TypeOK, AcceptWeights, Frames, Bars
  <2>2. frames' \in Seq(Frames)
    BY <1>7, <2>1, AppendTyped DEF TypeOK, AcceptWeights
  <2> QED  BY <1>5, <1>7, <2>2 DEF TypeOK, AcceptWeights, DriverStates, hostVars, workerVars
<1>8. CASE AcceptStopped
  BY <1>5, <1>8 DEF TypeOK, AcceptStopped, DriverStates, hostVars, workerVars
<1>9. CASE Refuse
  <2>1. stdout' \in Seq(Lines)
    <3>1. stdout \in Seq(Lines) /\ stdout # <<>> /\ Len(stdout) \in Nat
      BY <1>9 DEF TypeOK, Refuse
    <3>2. ASSUME NEW n \in 1..Len(stdout)  PROVE SubSeq(stdout, n + 1, Len(stdout)) \in Seq(Lines)
      BY <3>1, SubSeqTyped
    <3> QED  BY <1>5, <1>9, <3>1, <3>2 DEF Refuse
  <2>2. stdoutBytes' \in Nat
    BY <1>5, <1>9 DEF TypeOK, Refuse
  <2> QED  BY <1>9, <2>1, <2>2 DEF TypeOK, Refuse, DriverStates, Statuses, hostVars, workerVars
<1>10. CASE EndOfFile
  BY <1>10 DEF TypeOK, EndOfFile, DriverStates, Statuses, pipeVars, hostVars, workerVars
<1>11. CASE BeginWait
  BY <1>11 DEF TypeOK, BeginWait, DriverStates, pipeVars, hostVars, workerVars
<1>12. CASE LauncherStatus
  BY <1>12 DEF TypeOK, LauncherStatus, DriverStates, Statuses, pipeVars, hostVars, workerVars
<1>13. CASE Timeout
  BY <1>13 DEF TypeOK, Timeout, DriverStates, Statuses, pipeVars, hostVars, workerVars
<1>14. CASE StopProcess
  <2>1. pc' \in DriverStates /\ stdinClosed' \in BOOLEAN
    BY <1>14 DEF TypeOK, StopProcess, AfterStop, DriverStates
  <2> QED  BY <1>14, <2>1 DEF TypeOK, StopProcess, hostVars, workerVars
<1>15. CASE Reaped
  BY <1>15 DEF TypeOK, Reaped, AfterStop, DriverStates, pipeVars, hostVars, workerVars
<1>16. CASE GraceExpires
  BY <1>16 DEF TypeOK, GraceExpires, AfterStop, DriverStates, pipeVars, workerVars
<1>17. CASE TermExpires
  BY <1>17 DEF TypeOK, TermExpires, AfterStop, DriverStates, pipeVars, workerVars
<1>18. CASE Return
  BY <1>18 DEF TypeOK, Return, DriverStates, Statuses, Outcomes, pipeVars, hostVars, workerVars
<1>19. CASE SignalFindsNobody
  BY <1>19 DEF TypeOK, SignalFindsNobody, DriverStates, Outcomes, pipeVars, hostVars, workerVars
<1> QED
  BY <1>1, <1>2, <1>3, <1>4, <1>6, <1>7, <1>8, <1>9, <1>10, <1>11, <1>12, <1>13,
     <1>14, <1>15, <1>16, <1>17, <1>18, <1>19 DEF Driver

(* A step of the worker: what it emits is a line. *)
LEMMA EmitTyped ==
  ASSUME TypeOK, NEW line \in Lines, Emit(line)
  PROVE  stdout' \in Seq(Lines)
  BY AppendTyped DEF TypeOK, Emit

(* Every reply to a request is a line, dated by what the worker knows. *)
LEMMA RepliesTyped ==
  ASSUME TypeOK, NEW request \in Requests, NEW line \in Replies(request)
  PROVE  line \in Lines /\ line.after = known
<1>1. request.sequence \in Bars /\ 1 \in Sizes
  BY RequestFields DEF Sizes
<1>2. ReplyType(request) \in {"ready", "weights", "error", "stopped", "garbage"}
  BY DEF ReplyType
<1>3. PICK type \in {"ready", "weights", "error", "stopped", "garbage"}, ok \in BOOLEAN :
        line = Line(type, request.sequence, ok, 1)
  BY <1>2 DEF Replies, HonestReply
<1> QED  BY <1>1, <1>3, LineTyped

(* So is every line the candidate writes unasked. *)
LEMMA StrayTyped ==
  ASSUME TypeOK, NEW line \in StrayLines
  PROVE  line \in Lines /\ line.after = known
<1>1. 0 \in Bars /\ 1 \in Sizes /\ Huge \in Sizes
  BY BoundsAssumption DEF Sizes, Bars
<1>2. PICK type \in {"ready", "weights", "error", "stopped", "garbage"},
           sequence \in Bars, size \in Sizes : line = Line(type, sequence, TRUE, size)
  BY <1>1 DEF StrayLines
<1> QED  BY <1>2, LineTyped

(* A step of the worker or of the candidate keeps the types. *)
LEMMA WorkerTyped ==
  ASSUME TypeOK, Worker
  PROVE  TypeOK'
<1> USE BoundsAssumption
<1>1. CASE Load
  <2>1. Line("error", 0, TRUE, 1) \in Lines
    <3>1. 0 \in Bars /\ 1 \in Sizes /\ TRUE \in BOOLEAN
      BY BoundsAssumption DEF Sizes, Bars
    <3> QED  BY <3>1, LineTyped
  <2>2. stdout' \in Seq(Lines)
    BY <1>1, <2>1, EmitTyped DEF TypeOK, Load
  <2> QED  BY <1>1, <2>2 DEF TypeOK, Load, driverVars, hostVars
<1>2. CASE ReadRequest
  <2>1. Head(stdin) \in Requests
    BY <1>2, TailTyped DEF TypeOK, ReadRequest
  <2>2. known' \in 0..NumBars
    <3>1. Head(stdin).type = "bar" => Head(stdin).sequence + 1 \in 0..NumBars
      BY <1>2, <2>1, RequestFields DEF Bars
    <3> QED  BY <1>2, <3>1 DEF TypeOK, ReadRequest
  <2> QED  BY <1>2, <2>2 DEF TypeOK, ReadRequest, driverVars, pipeVars, hostVars
<1>3. CASE Answer
  <2>1. stdin' \in Seq(Requests) /\ Head(stdin) \in Requests
    BY <1>3, TailTyped DEF TypeOK, Answer
  <2>2. stdout' \in Seq(Lines)
    BY <1>3, <2>1, RepliesTyped, EmitTyped DEF Answer
  <2> QED  BY <1>3, <2>1, <2>2 DEF TypeOK, Answer, driverVars, hostVars
<1>4. CASE EndOfRequests
  BY <1>4 DEF TypeOK, EndOfRequests, driverVars, pipeVars, hostVars
<1>5. CASE WorkerExits
  BY <1>5 DEF TypeOK, WorkerExits, driverVars, pipeVars, hostVars
<1>6. CASE WorkerCrashes
  BY <1>6 DEF TypeOK, WorkerCrashes, driverVars, pipeVars, hostVars
<1>7. CASE Stray
  <2>1. stdout' \in Seq(Lines)
    BY <1>7, StrayTyped, EmitTyped DEF Stray
  <2> QED  BY <1>7, <2>1 DEF TypeOK, Stray, driverVars, hostVars
<1>8. CASE Chatter
  BY <1>8 DEF TypeOK, Chatter, driverVars, hostVars
<1> QED  BY <1>1, <1>2, <1>3, <1>4, <1>5, <1>6, <1>7, <1>8 DEF Worker

(* So does the stderr drain, a cancellation or a step of the launcher. *)
LEMMA OthersTyped ==
  ASSUME TypeOK, DrainStderr \/ Cancel \/ Launcher \/ UNCHANGED vars
  PROVE  TypeOK'
<1>1. CASE DrainStderr
  BY <1>1 DEF TypeOK, DrainStderr, driverVars, hostVars, workerVars
<1>2. CASE Cancel
  BY <1>2 DEF TypeOK, Cancel, DriverStates, Outcomes, pipeVars, hostVars, workerVars
<1>3. CASE LauncherExits
  BY <1>3 DEF TypeOK, LauncherExits, driverVars, pipeVars, workerVars
<1>4. CASE LauncherFails \/ LauncherObeys
  <2>1. LauncherDies /\ fault' \in BOOLEAN
    BY <1>4 DEF TypeOK, LauncherFails, LauncherObeys
  <2>2. stdout' \in Seq(Lines)
    BY <2>1, SubSeqTyped DEF TypeOK, LauncherDies
  <2> QED  BY <2>1, <2>2 DEF TypeOK, LauncherDies, driverVars
<1>5. CASE UNCHANGED vars
  BY <1>5 DEF TypeOK, vars, driverVars, pipeVars, hostVars, workerVars
<1> QED  BY <1>1, <1>2, <1>3, <1>4, <1>5 DEF Launcher

(* The initial state is typed. *)
LEMMA InitTyped == Init => TypeOK
<1>1. <<>> \in Seq(Frames) /\ <<>> \in Seq(Requests) /\ <<>> \in Seq(Lines)
  BY EmptyTyped
<1>2. 0 \in 0..NumBars /\ 0 \in 0..(NumBars + 1)
  BY BoundsAssumption
<1> SUFFICES ASSUME Init PROVE TypeOK
  OBVIOUS
<1>3. /\ frames \in Seq(Frames) /\ stdin \in Seq(Requests) /\ stdout \in Seq(Lines)
      /\ cursor \in 0..(NumBars + 1) /\ revealed \in 0..NumBars /\ known \in 0..NumBars
  BY <1>1, <1>2 DEF Init
<1> QED  BY <1>3 DEF Init, TypeOK, DriverStates, Statuses, Outcomes

(* Every step keeps the types. *)
LEMMA TypeStep == TypeOK /\ [Next]_vars => TypeOK'
  BY DriverTyped, WorkerTyped, OthersTyped DEF Next, Finished

(* Every variable keeps its kind, for every number of bars, whatever the   *)
(* worker writes and whatever fails.                                       *)
THEOREM TypeCorrect == Spec => []TypeOK
  BY InitTyped, TypeStep, PTL DEF Spec

-----------------------------------------------------------------------------
(* The inductive invariant.                                                *)

(* Where the exchange is: a portfolio for every bar before the cursor, and *)
(* the bar at the cursor revealed exactly while its answer is awaited.     *)
Exchange ==
  /\ revealed <= Len(frames) + 1
  /\ pc = "spawn" => cursor = 0 /\ revealed = 0 /\ frames = <<>>
  /\ pc \in {"send", "await"} => Len(frames) = (IF cursor = 0 THEN 0 ELSE cursor - 1)
  /\ pc = "send" => revealed = Len(frames)
  /\ pc = "await" => revealed = (IF cursor <= NumBars THEN cursor ELSE NumBars)

(* What is under way never runs ahead of what was revealed. *)
Horizon ==
  /\ \A i \in 1..Len(stdin) : stdin[i].type = "bar" => stdin[i].sequence < revealed
  /\ known <= revealed
  /\ \A i \in 1..Len(stdout) : stdout[i].after <= revealed
  /\ \A i \in 1..Len(frames) : frames[i].sequence = i - 1 /\ frames[i].after <= i

(* A call that has not failed is still exchanging, or has every portfolio; *)
(* past the exchange it has seen the launcher exit with status zero.       *)
Healthy ==
  /\ pc \in {"spawn", "send", "await", "exit", "wait"} =>
       status = "COMPLETED" /\ outcome = "pending"
  /\ pc \in {"exit", "wait"} => Len(frames) = NumBars
  /\ pc \in {"stop", "grace", "term", "reap", "stderr"} /\ status = "COMPLETED" /\ outcome = "pending" =>
       Len(frames) = NumBars /\ launcher = "exited" /\ exitCode = 0
  /\ outcome = "result" => pc = "done"
  /\ pc = "done" => outcome # "pending"

(* The ladder is left for the drain, or for a raised error, only when the  *)
(* launcher is dead.                                                       *)
Ladder ==
  /\ pc = "spawn" => launcher = "absent" /\ wpc = "absent"
  /\ pc = "stderr" => launcher = "exited" /\ outcome = "pending"

IInv == TypeOK /\ Exchange /\ Horizon /\ Healthy /\ Ladder /\ CompletedIsWhole /\ NoLauncherLeft

Safe == Exchange /\ Horizon /\ Healthy /\ Ladder /\ CompletedIsWhole /\ NoLauncherLeft

(* The lines left after some have been read, or lost, are still no newer   *)
(* than what was revealed.                                                 *)
LEMMA ShrinkHorizon ==
  ASSUME TypeOK, Horizon, NEW m \in 1..(Len(stdout) + 1), NEW n \in 0..Len(stdout),
         stdout' = SubSeq(stdout, m, n), revealed' = revealed
  PROVE  \A i \in 1..Len(stdout') : stdout'[i].after <= revealed'
  BY SubSeqTyped DEF TypeOK, Horizon

(* Reading a line leaves lines no newer than what was revealed. *)
LEMMA TailHorizon ==
  ASSUME TypeOK, Horizon, stdout # <<>>, stdout' = Tail(stdout), revealed' = revealed
  PROVE  /\ \A i \in 1..Len(stdout') : stdout'[i].after <= revealed'
         /\ Head(stdout) \in Lines /\ Head(stdout).after <= revealed
<1>1. stdout \in Seq(Lines)
  BY DEF TypeOK
<1> QED  BY <1>1, TailTyped DEF Horizon

(* A line written with what the worker knows is no newer either. *)
LEMMA EmitHorizon ==
  ASSUME TypeOK, Horizon, NEW line \in Lines, line.after = known, Emit(line), revealed' = revealed
  PROVE  \A i \in 1..Len(stdout') : stdout'[i].after <= revealed'
<1>1. stdout \in Seq(Lines) /\ revealed \in Nat /\ known <= revealed /\ Len(stdout) \in Nat
  BY DEF TypeOK, Horizon
<1>2. CASE launcher = "running"
  BY <1>1, <1>2, AppendTyped DEF Horizon, Emit
<1>3. CASE launcher # "running"
  BY <1>3 DEF Horizon, Emit
<1> QED  BY <1>2, <1>3

(* A step of the exchange: a request written, a line read. *)
LEMMA ExchangeSafe ==
  ASSUME IInv, Send \/ AcceptReady \/ AcceptWeights \/ AcceptStopped \/ Refuse
  PROVE  Safe'
<1> USE BoundsAssumption
<1>1. TypeOK /\ Exchange /\ Horizon /\ Healthy /\ Ladder /\ CompletedIsWhole /\ NoLauncherLeft
  BY DEF IInv
<1>2. frames \in Seq(Frames) /\ Len(frames) \in Nat /\ stdout \in Seq(Lines) /\ stdin \in Seq(Requests)
      /\ Len(stdin) \in Nat /\ cursor \in 0..(NumBars + 1) /\ known \in 0..NumBars /\ revealed \in 0..NumBars
  BY <1>1 DEF TypeOK
<1>3. CASE Send
  <2>1. Exchange'
    BY <1>1, <1>2, <1>3 DEF Exchange, Send
  <2>2. \A i \in 1..Len(stdin') : stdin'[i].type = "bar" => stdin'[i].sequence < revealed'
    <3>1. Request(cursor) \in Requests
      BY <1>1, RequestTyped
    <3>2. stdin' = Append(stdin, Request(cursor)) /\ revealed <= revealed'
      BY <1>1, <1>2, <1>3 DEF Exchange, Send
    <3>3. Request(cursor).type = "bar" => Request(cursor).sequence < revealed'
      BY <1>1, <1>2, <1>3 DEF Exchange, Send, Request
    <3>4. \A i \in 1..Len(stdin) : stdin[i].type = "bar" => stdin[i].sequence < revealed'
      <4>1. revealed' \in Nat
        BY <1>2, <1>3 DEF Send
      <4>2. \A i \in 1..Len(stdin) : stdin[i].sequence \in Bars
        BY <1>2, RequestFields
      <4> SUFFICES ASSUME NEW i \in 1..Len(stdin), stdin[i].type = "bar"
                   PROVE  stdin[i].sequence < revealed'
        OBVIOUS
      <4>3. stdin[i].sequence < revealed /\ stdin[i].sequence \in Int
        BY <1>1, <4>2 DEF Horizon, Bars
      <4> QED  BY <1>2, <3>2, <4>1, <4>3
    <3> QED  BY <1>2, <3>1, <3>2, <3>3, <3>4, AppendTyped
  <2>3. revealed' \in Nat /\ revealed <= revealed'
    BY <1>1, <1>2, <1>3 DEF Exchange, Send
  <2>4. \A i \in 1..Len(stdout) : stdout[i].after <= revealed'
    <3> SUFFICES ASSUME NEW i \in 1..Len(stdout)  PROVE stdout[i].after <= revealed'
      OBVIOUS
    <3>1. stdout[i] \in Lines
      BY <1>2
    <3>2. stdout[i].after \in Nat /\ stdout[i].after <= revealed
      BY <1>1, <3>1, LineFields DEF Horizon
    <3> QED  BY <1>2, <2>3, <3>2
  <2>5. Horizon'
    BY <1>1, <1>2, <1>3, <2>2, <2>3, <2>4 DEF Horizon, Send, workerVars
  <2> QED  BY <1>1, <1>3, <2>1, <2>5 DEF Safe, Send, Healthy, Ladder, CompletedIsWhole, NoLauncherLeft, hostVars, workerVars
<1>4. CASE AcceptReady
  <2>1. Horizon'
    BY <1>1, <1>4, TailHorizon DEF Horizon, AcceptReady, workerVars
  <2> QED  BY <1>1, <1>2, <1>4, <2>1 DEF Safe, AcceptReady, Exchange, Healthy, Ladder, CompletedIsWhole, NoLauncherLeft, hostVars, workerVars
<1>5. CASE AcceptWeights
  <2> DEFINE frame == [sequence |-> cursor - 1, after |-> Head(stdout).after]
  <2>1. /\ Len(frames) = cursor - 1 /\ revealed = cursor
        /\ Head(stdout).after <= cursor /\ Head(stdout).after \in Nat
        /\ \A i \in 1..Len(stdout') : stdout'[i].after <= revealed'
    BY <1>1, <1>2, <1>5, TailHorizon, LineFields DEF Exchange, Horizon, AcceptWeights, workerVars
  <2>2. frame \in Frames /\ frame.sequence = cursor - 1 /\ frame.after <= cursor
    <3>1. Head(stdout) \in Lines
      BY <1>2, <1>5, TailTyped DEF AcceptWeights
    <3> QED  BY <1>5, <2>1, <3>1, LineFields DEF Frames, Bars, AcceptWeights
  <2>3. frames' = Append(frames, frame) /\ cursor' = cursor + 1 /\ revealed' = revealed
    BY <1>5 DEF AcceptWeights
  <2>4. Len(frames') = cursor
    BY <1>2, <2>1, <2>2, <2>3, AppendTyped
  <2>5. \A i \in 1..Len(frames') : frames'[i].sequence = i - 1 /\ frames'[i].after <= i
    BY <1>1, <1>2, <2>1, <2>2, <2>3, AppendTyped DEF Horizon
  <2>6. Horizon'
    BY <1>1, <1>5, <2>1, <2>5 DEF Horizon, AcceptWeights, workerVars
  <2>7. Exchange'
    <3>1. pc' = "send" /\ cursor \in Nat /\ cursor >= 1
      BY <1>5 DEF AcceptWeights
    <3>2. revealed' = Len(frames') /\ Len(frames') = cursor' - 1 /\ cursor' # 0
      BY <2>1, <2>3, <2>4, <3>1
    <3>3. revealed' <= Len(frames') + 1
      BY <2>1, <2>3, <2>4, <3>1
    <3> QED  BY <3>1, <3>2, <3>3 DEF Exchange
  <2>8. pc' = "send" /\ outcome' = outcome /\ status' = status /\ outcome = "pending" /\ status = "COMPLETED"
    BY <1>1, <1>5 DEF AcceptWeights, Healthy
  <2>9. Healthy' /\ Ladder' /\ CompletedIsWhole' /\ NoLauncherLeft'
    BY <2>8 DEF Healthy, Ladder, CompletedIsWhole, NoLauncherLeft
  <2> QED  BY <2>6, <2>7, <2>9 DEF Safe
<1>6. CASE AcceptStopped
  <2>1. Horizon'
    BY <1>1, <1>6, TailHorizon DEF Horizon, AcceptStopped, workerVars
  <2> QED  BY <1>1, <1>2, <1>6, <2>1 DEF Safe, AcceptStopped, Exchange, Healthy, Ladder, CompletedIsWhole, NoLauncherLeft, hostVars, workerVars
<1>7. CASE Refuse
  <2>1. \A i \in 1..Len(stdout') : stdout'[i].after <= revealed'
    <3>1. stdout # <<>> /\ revealed' = revealed /\ Len(stdout) \in Nat
      BY <1>2, <1>7 DEF Refuse, workerVars
    <3>2. CASE stdout' = Tail(stdout)
      BY <1>1, <3>1, <3>2, TailHorizon
    <3>3. ASSUME NEW n \in 1..Len(stdout), stdout' = SubSeq(stdout, n + 1, Len(stdout))
          PROVE  \A i \in 1..Len(stdout') : stdout'[i].after <= revealed'
      <4>1. n + 1 \in 1..(Len(stdout) + 1) /\ Len(stdout) \in 0..Len(stdout)
        BY <3>1, <3>3
      <4> QED  BY <1>1, <3>1, <3>3, <4>1, ShrinkHorizon
    <3> QED  BY <1>7, <3>2, <3>3 DEF Refuse
  <2>2. Horizon'
    BY <1>1, <1>7, <2>1 DEF Horizon, Refuse, workerVars
  <2> QED  BY <1>1, <1>7, <2>2 DEF Safe, Refuse, Exchange, Healthy, Ladder, CompletedIsWhole, NoLauncherLeft, hostVars, workerVars
<1> QED  BY <1>3, <1>4, <1>5, <1>6, <1>7

(* Every other step of the driver leaves the exchange alone. *)
LEMMA ControlSafe ==
  ASSUME IInv, Driver, ~(Send \/ AcceptReady \/ AcceptWeights \/ AcceptStopped \/ Refuse)
  PROVE  Safe'
<1>1. Exchange /\ Horizon /\ Healthy /\ Ladder /\ CompletedIsWhole /\ NoLauncherLeft
  BY DEF IInv
<1> USE DEF Safe, Healthy, Ladder, CompletedIsWhole, NoLauncherLeft
<1>2. /\ UNCHANGED <<frames, revealed, cursor, stdin, stdout, known>>
      /\ pc' \in {"send", "await"} => pc = "spawn" /\ pc' = "send"
      /\ pc' # "spawn"
  BY DEF Driver, SpawnFails, Spawn, SendBreaks, EndOfFile, BeginWait, LauncherStatus, Timeout,
         StopProcess, Reaped, GraceExpires, TermExpires, SignalFindsNobody, Return, AfterStop,
         pipeVars, workerVars
<1>3. Exchange' /\ Horizon'
  <2>1. pc = "spawn" => Len(frames) = 0
    BY <1>1, EmptyTyped DEF Exchange
  <2> QED  BY <1>1, <1>2, <2>1 DEF Exchange, Horizon
<1>4. CASE SpawnFails \/ Spawn
  BY <1>1, <1>3, <1>4 DEF SpawnFails, Spawn, hostVars
<1>5. CASE SendBreaks \/ EndOfFile \/ BeginWait \/ Timeout
  BY <1>1, <1>3, <1>5 DEF SendBreaks, EndOfFile, BeginWait, Timeout, hostVars, pipeVars, workerVars
<1>6. CASE LauncherStatus
  BY <1>1, <1>3, <1>6 DEF LauncherStatus, Disconnected, StdoutClosed, hostVars, pipeVars, workerVars
<1>7. CASE StopProcess \/ GraceExpires \/ TermExpires
  BY <1>1, <1>3, <1>7 DEF StopProcess, GraceExpires, TermExpires, AfterStop, hostVars, pipeVars, workerVars
<1>8. CASE Reaped \/ SignalFindsNobody
  BY <1>1, <1>3, <1>8 DEF Reaped, SignalFindsNobody, AfterStop, Disconnected, StdoutClosed,
     hostVars, pipeVars, workerVars
<1>9. CASE Return
  <2>1. stdoutBytes + captured \in Nat /\ MaxOutput \in Nat
    BY BoundsAssumption DEF IInv, TypeOK
  <2> QED  BY <1>1, <1>3, <1>9, <2>1 DEF Return, hostVars, pipeVars, workerVars
<1> QED  BY <1>4, <1>5, <1>6, <1>7, <1>8, <1>9 DEF Driver

(* The worker and the launcher can neither move the exchange nor write     *)
(* with knowledge they do not have.                                        *)
LEMMA EnvironmentSafe ==
  ASSUME IInv, Worker \/ Launcher
  PROVE  Safe'
<1>1. TypeOK /\ Exchange /\ Horizon /\ Healthy /\ Ladder /\ CompletedIsWhole /\ NoLauncherLeft
  BY DEF IInv
<1>2. UNCHANGED driverVars
  BY DEF Worker, Launcher, Load, ReadRequest, Answer, EndOfRequests, WorkerExits, WorkerCrashes,
         Stray, Chatter, LauncherExits, LauncherFails, LauncherObeys, LauncherDies
<1>3. Exchange'
  BY <1>1, <1>2 DEF Exchange, driverVars
<1>4. /\ captured' = captured
      /\ launcher = "exited" => launcher' = "exited" /\ exitCode' = exitCode
      /\ launcher' = "running" => launcher = "running"
      /\ launcher = "absent" => launcher' = "absent"
      /\ wpc = "absent" => launcher' = launcher \/ launcher # "absent"
  BY DEF Worker, Launcher, Load, ReadRequest, Answer, EndOfRequests, WorkerExits, WorkerCrashes,
         Stray, Chatter, LauncherExits, LauncherFails, LauncherObeys, LauncherDies, hostVars, pipeVars
<1>5. wpc = "absent" /\ launcher = "absent" => wpc' = "absent"
  BY DEF Worker, Launcher, Load, ReadRequest, Answer, EndOfRequests, WorkerExits, WorkerCrashes,
         Stray, Chatter, LauncherExits, LauncherFails, LauncherObeys, LauncherDies, hostVars, pipeVars,
         workerVars, Alive
<1>6. Healthy' /\ Ladder' /\ CompletedIsWhole' /\ NoLauncherLeft'
  BY <1>1, <1>2, <1>4, <1>5 DEF driverVars, Healthy, Ladder, CompletedIsWhole, NoLauncherLeft
<1>7. ASSUME UNCHANGED <<stdin, stdout, known>>
      PROVE  Horizon'
  BY <1>1, <1>2, <1>7 DEF Horizon, driverVars
<1>8. ASSUME NEW line \in Lines, line.after = known, Emit(line), UNCHANGED <<stdin, known>>
      PROVE  Horizon'
  BY <1>1, <1>2, <1>8, EmitHorizon DEF Horizon, driverVars
<1>9. ASSUME Load
      PROVE  Horizon'
  <2>1. 0 \in Bars /\ 1 \in Sizes
    BY BoundsAssumption DEF Bars, Sizes
  <2>2. Line("error", 0, TRUE, 1) \in Lines /\ Line("error", 0, TRUE, 1).after = known
    BY <1>1, <2>1, LineTyped
  <2> QED  BY <1>7, <1>8, <1>9, <2>2 DEF Load
<1>10. ASSUME ReadRequest
       PROVE  Horizon'
  <2>1. stdin \in Seq(Requests) /\ stdin # <<>> /\ known \in Nat /\ known <= revealed /\ revealed \in Nat
    BY <1>1, <1>10 DEF ReadRequest, TypeOK, Horizon
  <2>2. Head(stdin) \in Requests /\ (Head(stdin).type = "bar" => Head(stdin).sequence < revealed)
    BY <1>1, <2>1, TailTyped DEF Horizon
  <2>3. known' <= revealed
    BY <1>10, <2>1, <2>2, RequestFields DEF ReadRequest, Bars
  <2> QED  BY <1>1, <1>2, <1>10, <2>3 DEF Horizon, ReadRequest, driverVars, pipeVars
<1>11. ASSUME Answer
       PROVE  Horizon'
  <2>1. Head(stdin) \in Requests /\ stdin \in Seq(Requests) /\ stdin # <<>> /\ stdin' = Tail(stdin) /\ known' = known
    BY <1>1, <1>11, TailTyped DEF TypeOK, Answer
  <2>2. PICK line \in Replies(Head(stdin)) : Emit(line)
    BY <1>11 DEF Answer
  <2>3. \A i \in 1..Len(stdout') : stdout'[i].after <= revealed'
    BY <1>1, <1>2, <2>1, <2>2, RepliesTyped, EmitHorizon DEF driverVars
  <2>4. \A i \in 1..Len(stdin') : stdin'[i].type = "bar" => stdin'[i].sequence < revealed
    BY <1>1, <2>1, TailTyped DEF Horizon
  <2> QED  BY <1>1, <1>2, <2>1, <2>3, <2>4 DEF Horizon, driverVars
<1>12. ASSUME Stray
       PROVE  Horizon'
  <2>1. PICK line \in StrayLines : Emit(line)
    BY <1>12 DEF Stray
  <2> QED  BY <1>1, <1>8, <1>12, <2>1, StrayTyped DEF Stray
<1>13. ASSUME LauncherFails \/ LauncherObeys
       PROVE  Horizon'
  <2>1. PICK n \in 0..Len(stdout) : stdout' = SubSeq(stdout, 1, n)
    BY <1>13 DEF LauncherFails, LauncherObeys, LauncherDies
  <2>2. 1 \in 1..(Len(stdout) + 1) /\ UNCHANGED <<stdin, known>>
    BY <1>1, <1>13 DEF TypeOK, LauncherFails, LauncherObeys, LauncherDies, workerVars
  <2> QED  BY <1>1, <1>2, <2>1, <2>2, ShrinkHorizon DEF Horizon, driverVars
<1>14. ASSUME EndOfRequests \/ WorkerExits \/ WorkerCrashes \/ Chatter \/ LauncherExits
       PROVE  Horizon'
  BY <1>7, <1>14 DEF EndOfRequests, WorkerExits, WorkerCrashes, Chatter, LauncherExits, pipeVars, workerVars
<1>15. Horizon'
  BY <1>9, <1>10, <1>11, <1>12, <1>13, <1>14 DEF Worker, Launcher
<1> QED  BY <1>3, <1>6, <1>15 DEF Safe

(* The steps of the stderr drain, of a cancellation, and stuttering. *)
LEMMA OthersSafe ==
  ASSUME IInv, DrainStderr \/ Cancel \/ UNCHANGED vars
  PROVE  Safe'
<1> USE DEF IInv, Safe, Exchange, Horizon, Healthy, Ladder, CompletedIsWhole, NoLauncherLeft
<1>1. CASE DrainStderr
  BY <1>1 DEF DrainStderr, driverVars, hostVars, workerVars
<1>2. CASE Cancel
  BY <1>2 DEF Cancel, pipeVars, hostVars, workerVars
<1>3. CASE UNCHANGED vars
  BY <1>3 DEF vars, driverVars, pipeVars, hostVars, workerVars
<1> QED  BY <1>1, <1>2, <1>3

(* The inductive invariant holds in every behaviour of one execution. *)
THEOREM Invariance == Spec => []IInv
<1>1. Init => IInv
  <2> SUFFICES ASSUME Init  PROVE Safe
    BY InitTyped DEF IInv, Safe
  <2>1. Len(frames) = 0 /\ Len(stdin) = 0 /\ Len(stdout) = 0
    BY EmptyTyped DEF Init
  <2> QED  BY <2>1, BoundsAssumption DEF Init, Safe, Exchange, Horizon, Healthy, Ladder, CompletedIsWhole, NoLauncherLeft
<1>2. IInv /\ [Next]_vars => IInv'
  <2> SUFFICES ASSUME IInv, [Next]_vars  PROVE IInv'
    OBVIOUS
  <2>1. TypeOK'
    BY TypeStep DEF IInv
  <2>2. Safe'
    BY ExchangeSafe, ControlSafe, EnvironmentSafe, OthersSafe DEF Next, Finished
  <2> QED  BY <2>1, <2>2 DEF IInv, Safe
<1> QED  BY <1>1, <1>2, PTL DEF Spec

(* The candidate is never handed a bar before the portfolio of every       *)
(* earlier one is fixed, and no portfolio was written with knowledge of a  *)
(* later bar (execute, process.py): for every stream length.               *)
THEOREM NoLookAheadHolds == Spec => []CandidateNotAhead
<1>1. IInv => CandidateNotAhead
  BY DEF IInv, TypeOK, Exchange, Horizon, CandidateNotAhead
<1> QED  BY <1>1, Invariance, PTL

(* A completed result has a portfolio for every bar, a launcher that       *)
(* exited with status zero and output within the limit.                    *)
THEOREM CompletedHolds == Spec => []CompletedIsWhole
<1>1. IInv => CompletedIsWhole
  BY DEF IInv
<1> QED  BY <1>1, Invariance, PTL

(* A call that was not cancelled leaves no launcher running. *)
THEOREM NoLauncherLeftHolds == Spec => []NoLauncherLeft
<1>1. IInv => NoLauncherLeft
  BY DEF IInv
<1> QED  BY <1>1, Invariance, PTL

-----------------------------------------------------------------------------
(* A candidate that answers, on a launcher that does not fail.             *)

Inside == {"spawn", "send", "await", "exit", "wait"}
Outside == {"stop", "grace", "term", "reap", "stderr"}

(* Every unit of stderr is on its way or counted. *)
Charged == captured + pending = chatter

(* The worker's loop is over, by itself, and so may be its launcher. *)
Ended ==
  /\ wpc \in {"returning", "gone"} /\ wcode = 0
  /\ launcher = "running" \/ (launcher = "exited" /\ exitCode = 0)

(* The request at the cursor is on its way to the worker, or with it. *)
Asked ==
  /\ stdin = <<Request(cursor)>> /\ stdout = <<>>
  /\ launcher = "running" /\ wpc \in {"loading", "idle", "serving"}

(* Its answer, and nothing else, is on its way back. *)
Answered ==
  /\ stdin = <<>> /\ Len(stdout) = 1
  /\ Head(stdout).type = Expected /\ Head(stdout).size = 1 /\ Head(stdout).ok
  /\ cursor \in 1..NumBars => Head(stdout).sequence = cursor - 1
  /\ cursor <= NumBars => launcher = "running" /\ wpc = "idle"
  /\ cursor = NumBars + 1 => Ended

(* Without a failure the exchange alternates: at each cursor one request   *)
(* and one line, of one unit, and no signal before the loop is over.       *)
Alternating ==
  /\ pc \in Inside => signal = "none"
  /\ pc \in {"spawn", "send", "await"} => ~stdinClosed /\ stdoutBytes = cursor
  /\ pc \in {"spawn", "send"} => stdin = <<>> /\ stdout = <<>>
  /\ pc = "send" => launcher = "running" /\ wpc \in {"loading", "idle"}
  /\ pc = "await" => Asked \/ Answered
  /\ pc \in {"exit", "wait"} => Ended /\ stdoutBytes = NumBars + 2

(* What the call is blamed for, once the loop is over, and what brought it *)
(* to the ladder.                                                          *)
Blame ==
  /\ pc \in Outside /\ outcome = "pending" =>
       \/ status = "COMPLETED" /\ stdoutBytes <= NumBars + 2
       \/ status \in {"TIMEOUT", "UNAVAILABLE"}
       \/ status = "PROTOCOL_ERROR" /\ NumBars + 2 + chatter > MaxOutput
  /\ pc \in Outside /\ outcome # "pending" => status = "COMPLETED" /\ cancels > 0
  /\ pc \in {"grace", "term", "reap"} => status # "COMPLETED" \/ outcome # "pending"

Honest == Charged /\ (~fault => Alternating /\ Blame) /\ HonestNeverBlamed

(* A sequence of one: what is appended to nothing, and what is left of it. *)
LEMMA OneAppended ==
  ASSUME NEW S, NEW e \in S
  PROVE  /\ Append(<<>>, e) = <<e>> /\ Len(<<e>>) = 1
         /\ Head(<<e>>) = e /\ Tail(<<e>>) = <<>> /\ <<e>> # <<>>
  OBVIOUS

LEMMA OneTaken ==
  ASSUME NEW S, NEW s \in Seq(S), Len(s) = 1
  PROVE  s # <<>> /\ Tail(s) = <<>>
<1>1. s # <<>>
  BY EmptyTyped
<1>2. Tail(s) \in Seq(S) /\ Len(Tail(s)) = 0
  BY <1>1, TailTyped
<1> QED  BY <1>1, <1>2, EmptySeq

(* Writing to stderr and draining it lose nothing. *)
LEMMA ChargedStep ==
  ASSUME TypeOK, Charged, [Next]_vars
  PROVE  Charged'
<1> USE DEF Charged
<1>1. captured \in Nat /\ pending \in Nat /\ chatter \in Nat
  BY DEF TypeOK
<1>2. ASSUME UNCHANGED <<captured, pending, chatter>>  PROVE Charged'
  BY <1>2
<1>3. CASE Driver
  BY <1>2, <1>3 DEF Driver, SpawnFails, Spawn, Send, SendBreaks, AcceptReady, AcceptWeights,
       AcceptStopped, Refuse, EndOfFile, BeginWait, LauncherStatus, Timeout, StopProcess, Reaped,
       GraceExpires, TermExpires, SignalFindsNobody, Return, pipeVars, workerVars
<1>4. CASE DrainStderr
  BY <1>1, <1>4 DEF DrainStderr, workerVars
<1>5. CASE Chatter
  BY <1>1, <1>5 DEF Chatter
<1>6. CASE Worker /\ ~Chatter
  BY <1>2, <1>6 DEF Worker, Load, ReadRequest, Answer, EndOfRequests, WorkerExits, WorkerCrashes,
       Stray, pipeVars
<1>7. CASE Cancel \/ Launcher \/ UNCHANGED vars
  BY <1>2, <1>7 DEF Cancel, Launcher, LauncherExits, LauncherFails, LauncherObeys, LauncherDies,
       pipeVars, workerVars, vars
<1> QED  BY <1>3, <1>4, <1>5, <1>6, <1>7 DEF Next, Worker, Finished

(* Without a failure the line the driver reads is the one it asked for: it *)
(* is refused only because the output is over its limit.                   *)
LEMMA AnswerAccepted ==
  ASSUME TypeOK, Alternating, pc = "await", stdout # <<>>
  PROVE  /\ Answered /\ Tail(stdout) = <<>> /\ Head(stdout).size = 1
         /\ Readable(Head(stdout)) /\ stdoutBytes = cursor
         /\ ~Accepts(Head(stdout)) => ~WithinOutput(Head(stdout))
<1>1. Answered /\ stdoutBytes = cursor
  BY DEF Alternating, Asked
<1>2. Tail(stdout) = <<>>
  BY <1>1, OneTaken DEF Answered, TypeOK
<1>3. Readable(Head(stdout))
  BY <1>1, BoundsAssumption DEF Answered, Readable
<1>4. Expected = "weights" => cursor \in 1..NumBars
  BY BoundsAssumption DEF TypeOK, Expected
<1>5. ~Accepts(Head(stdout)) => ~WithinOutput(Head(stdout))
  BY <1>1, <1>3, <1>4 DEF Accepts, Answered
<1> QED  BY <1>1, <1>2, <1>3, <1>5 DEF Answered

(* A step of the exchange keeps the alternation. *)
LEMMA ExchangeHonest ==
  ASSUME IInv, Honest, ~fault, Send \/ SendBreaks \/ AcceptReady \/ AcceptWeights \/ AcceptStopped \/ Refuse \/ EndOfFile
  PROVE  Alternating' /\ Blame' /\ HonestNeverBlamed'
<1>1. TypeOK /\ Healthy /\ Alternating
  BY DEF IInv, Honest
<1>2. /\ NumBars \in Nat \ {0} /\ MaxOutput \in Nat /\ cursor \in 0..(NumBars + 1) /\ stdoutBytes \in Nat
      /\ chatter \in Nat
  BY <1>1, BoundsAssumption DEF TypeOK
<1>3. CASE Send
  <2>1. stdin' = <<Request(cursor)>>
    BY <1>1, <1>3, RequestTyped, OneAppended DEF Send, Alternating
  <2>2. Request(cursor)' = Request(cursor)
    BY <1>3 DEF Send, Request
  <2>3. Asked'
    BY <1>1, <1>3, <2>1, <2>2 DEF Send, Alternating, Asked, hostVars, workerVars
  <2> QED  BY <1>1, <1>3, <2>3 DEF Send, Alternating, Blame, HonestNeverBlamed, Healthy, Inside, Outside, hostVars, workerVars
<1>4. ASSUME AcceptReady \/ AcceptWeights \/ AcceptStopped \/ Refuse
      PROVE  /\ Answered /\ Readable(Head(stdout)) /\ Head(stdout).size = 1 /\ stdoutBytes = cursor
             /\ Tail(stdout) = <<>>
             /\ ~Accepts(Head(stdout)) => ~WithinOutput(Head(stdout))
  BY <1>1, <1>4, AnswerAccepted DEF AcceptReady, AcceptWeights, AcceptStopped, Refuse
<1>5. CASE AcceptReady
  BY <1>1, <1>2, <1>4, <1>5 DEF AcceptReady, Alternating, Answered, Blame, HonestNeverBlamed, Healthy,
       Inside, Outside, hostVars, workerVars
<1>6. CASE AcceptWeights
  BY <1>1, <1>2, <1>4, <1>6 DEF AcceptWeights, Alternating, Answered, Blame, HonestNeverBlamed, Healthy,
       Inside, Outside, hostVars, workerVars
<1>7. CASE AcceptStopped
  BY <1>1, <1>2, <1>4, <1>7 DEF AcceptStopped, Alternating, Answered, Ended, Blame, HonestNeverBlamed, Healthy,
       Inside, Outside, hostVars, workerVars
<1>8. CASE Refuse
  <2>1. NumBars + 2 + chatter > MaxOutput
    BY <1>2, <1>4, <1>8 DEF Refuse, WithinOutput
  <2>2. status' = "PROTOCOL_ERROR" /\ pc' = "stop" /\ outcome' = "pending" /\ chatter' = chatter
    BY <1>1, <1>4, <1>8 DEF Refuse, Healthy, workerVars
  <2> QED  BY <2>1, <2>2 DEF Alternating, Blame, HonestNeverBlamed, Inside, Outside
<1>9. CASE SendBreaks
  BY <1>1, <1>9 DEF SendBreaks, Alternating
<1>10. CASE EndOfFile
  <2>1. Asked \/ Answered
    BY <1>1, <1>10 DEF EndOfFile, Alternating
  <2>2. ~Answered
    BY <1>10, EmptyTyped DEF EndOfFile, Answered
  <2> QED  BY <1>10, <2>1, <2>2 DEF EndOfFile, Asked
<1> QED  BY <1>3, <1>5, <1>6, <1>7, <1>8, <1>9, <1>10

(* So does every other step of the driver. *)
LEMMA ControlHonest ==
  ASSUME IInv, Honest, ~fault, Driver,
         ~(Send \/ SendBreaks \/ AcceptReady \/ AcceptWeights \/ AcceptStopped \/ Refuse \/ EndOfFile)
  PROVE  Alternating' /\ Blame' /\ HonestNeverBlamed'
<1>1. TypeOK /\ Exchange /\ Healthy /\ Ladder /\ Charged /\ Alternating /\ Blame /\ HonestNeverBlamed
  BY DEF IInv, Honest
<1>2. /\ NumBars \in Nat \ {0} /\ MaxOutput \in Nat /\ stdoutBytes \in Nat
      /\ chatter \in Nat /\ captured \in Nat /\ pending \in Nat
  BY <1>1, BoundsAssumption DEF TypeOK
<1> USE DEF HonestNeverBlamed, Inside, Outside
<1>3. CASE SpawnFails
  BY <1>1, <1>3 DEF SpawnFails, Alternating, Blame
<1>4. CASE Spawn
  BY <1>1, <1>4 DEF Spawn, Alternating, Blame, Healthy, pipeVars
<1>5. CASE BeginWait
  BY <1>1, <1>5 DEF BeginWait, Alternating, Blame, Healthy, Ended, pipeVars, hostVars, workerVars
<1>6. CASE LauncherStatus
  <2>1. pc \in {"exit", "wait"} /\ launcher = "exited"
    BY <1>6 DEF LauncherStatus, Disconnected, StdoutClosed
  <2>2. exitCode = 0 /\ stdoutBytes = NumBars + 2 /\ status = "COMPLETED"
    BY <1>1, <2>1 DEF Alternating, Ended, Healthy
  <2> QED  BY <1>1, <1>2, <1>6, <2>1, <2>2 DEF LauncherStatus, Alternating, Blame, Healthy, pipeVars, hostVars, workerVars
<1>7. CASE Timeout
  BY <1>1, <1>7 DEF Timeout, Alternating, Blame, Healthy
<1>8. CASE StopProcess \/ Reaped \/ GraceExpires \/ TermExpires
  <2>1. /\ pc \in Outside /\ pc' \in Outside \cup {"done"} /\ (pc' = "done" => outcome # "pending")
        /\ UNCHANGED <<status, outcome, cancels, stdoutBytes, chatter>>
    BY <1>8 DEF StopProcess, Reaped, GraceExpires, TermExpires, AfterStop, workerVars
  <2>2. pc' \in {"grace", "term", "reap"} => status # "COMPLETED" \/ outcome # "pending"
    BY <1>1, <1>8 DEF StopProcess, Reaped, GraceExpires, TermExpires, AfterStop, Healthy, Blame
  <2>3. outcome # "pending" => status = "COMPLETED" /\ cancels > 0
    BY <1>1, <2>1 DEF Blame
  <2>4. outcome # "result"
    BY <1>1, <2>1 DEF Healthy
  <2>5. Alternating'
    BY <2>1 DEF Alternating
  <2>6. Blame'
    BY <1>1, <2>1, <2>2 DEF Blame
  <2> QED  BY <2>1, <2>3, <2>4, <2>5, <2>6
<1>9. CASE Return
  <2>1. /\ pc = "stderr" /\ pc' = "done" /\ outcome = "pending" /\ UNCHANGED <<chatter, stdoutBytes>>
        /\ status' = IF status = "COMPLETED" /\ stdoutBytes + captured > MaxOutput
                     THEN "PROTOCOL_ERROR" ELSE status
    BY <1>1, <1>9 DEF Return, Ladder, workerVars
  <2>2. status = "COMPLETED" /\ stdoutBytes + captured > MaxOutput => NumBars + 2 + chatter > MaxOutput
    BY <1>1, <1>2, <2>1 DEF Blame, Charged
  <2>3. outcome' = "result"
    BY <1>9 DEF Return
  <2>4. Alternating' /\ Blame'
    BY <2>1 DEF Alternating, Blame
  <2>5. status' \in {"COMPLETED", "TIMEOUT", "UNAVAILABLE"}
        \/ (status' = "PROTOCOL_ERROR" /\ NumBars + 2 + chatter' > MaxOutput)
    BY <1>1, <2>1, <2>2 DEF Blame
  <2> QED  BY <2>3, <2>4, <2>5
<1>10. CASE SignalFindsNobody
  <2>1. /\ pc \in {"grace", "term"} /\ pc' = "done" /\ outcome' = "raised"
        /\ UNCHANGED <<status, cancels, chatter>>
    BY <1>10 DEF SignalFindsNobody, workerVars
  <2> QED  BY <1>1, <2>1 DEF Alternating, Blame
<1> QED  BY <1>3, <1>4, <1>5, <1>6, <1>7, <1>8, <1>9, <1>10 DEF Driver

(* More on stderr leaves what is over the limit over it. *)
LEMMA OverGrows ==
  ASSUME NEW n \in Nat, NEW m \in Nat, NEW c \in Nat, NEW d \in {c, c + 1}, n + 2 + c > m
  PROVE  n + 2 + d > m
  OBVIOUS

(* A step of the worker or of the launcher leaves the verdict alone, and   *)
(* at most lengthens the stderr that may be charged for.                   *)
LEMMA BlameKept ==
  ASSUME IInv, Honest, ~fault, UNCHANGED driverVars, chatter' \in {chatter, chatter + 1}
  PROVE  Blame' /\ HonestNeverBlamed'
<1>1. NumBars \in Nat /\ MaxOutput \in Nat /\ chatter \in Nat /\ chatter' \in {chatter, chatter + 1}
  BY BoundsAssumption DEF IInv, TypeOK
<1>2. UNCHANGED <<pc, stdoutBytes, status, outcome, cancels>>
  BY DEF driverVars
<1>3. NumBars + 2 + chatter > MaxOutput => NumBars + 2 + chatter' > MaxOutput
  BY <1>1, OverGrows
<1>4. Blame /\ HonestNeverBlamed
  BY DEF Honest
<1>5. Blame'
  BY <1>2, <1>3, <1>4 DEF Blame, Outside
<1>6. HonestNeverBlamed'
  BY <1>2, <1>3, <1>4 DEF HonestNeverBlamed, Honest
<1> QED  BY <1>5, <1>6

(* A worker that does not fail answers what it was asked, once, and leaves *)
(* its loop only after "stop".                                             *)
LEMMA WorkerHonest ==
  ASSUME IInv, Honest, ~fault, Worker, ~fault'
  PROVE  Alternating'
<1>1. TypeOK /\ Exchange /\ Ladder /\ Alternating
  BY DEF IInv, Honest
<1>2. UNCHANGED <<pc, cursor, stdoutBytes, stdinClosed, launcher, exitCode, signal>>
  BY DEF Worker, Load, ReadRequest, Answer, EndOfRequests, WorkerExits, WorkerCrashes,
         Stray, Chatter, driverVars, pipeVars, hostVars
<1>3. Expected' = Expected /\ Request(cursor)' = Request(cursor)
  BY <1>2 DEF Expected, Request
<1>4. NumBars \in Nat \ {0} /\ cursor \in 0..(NumBars + 1)
  BY <1>1, BoundsAssumption DEF TypeOK
<1>5. CASE Load
  <2>1. wpc = "loading" /\ wpc' = "idle" /\ UNCHANGED <<stdin, stdout, wcode>>
    BY <1>5 DEF Load
  <2>2. pc = "await" => Asked /\ Asked'
    BY <1>1, <1>2, <1>3, <1>4, <2>1 DEF Alternating, Asked, Answered, Ended
  <2> QED  BY <1>1, <1>2, <2>1, <2>2 DEF Alternating, Ended, Inside
<1>6. CASE ReadRequest
  <2>1. wpc = "idle" /\ wpc' = "serving" /\ stdin # <<>> /\ UNCHANGED <<stdin, stdout, wcode>>
    BY <1>6 DEF ReadRequest, pipeVars
  <2>2. pc = "await" => Asked /\ Asked'
    BY <1>1, <1>2, <1>3, <2>1 DEF Alternating, Asked, Answered
  <2> QED  BY <1>1, <1>2, <2>1, <2>2 DEF Alternating, Ended, Inside
<1>7. CASE Answer
  <2>1. wpc = "serving" /\ stdin # <<>>
    BY <1>7 DEF Answer
  <2>2. pc \notin {"spawn", "send", "exit", "wait"}
    BY <1>1, <2>1 DEF Alternating, Ended, Ladder
  <2>3. CASE pc # "await"
    BY <1>1, <1>2, <2>2, <2>3 DEF Alternating, Inside
  <2>4. CASE pc = "await"
    <3>1. Asked
      BY <1>1, <2>1, <2>4 DEF Alternating, Answered
    <3>2. Request(cursor) \in Requests /\ Head(stdin) = Request(cursor) /\ stdin' = <<>>
      BY <1>1, <1>7, <3>1, RequestTyped, OneAppended DEF Asked, Answer
    <3> DEFINE reply == HonestReply(Request(cursor))
    <3>3. Emit(reply) /\ reply.type = Expected /\ reply.size = 1 /\ reply.ok /\ reply.sequence = Request(cursor).sequence
      BY <1>4, <1>7, <3>2 DEF Answer, HonestReply, Line, ReplyType, Request, Expected
    <3>4. reply \in Lines
      <4>1. reply \in Replies(Request(cursor))
        BY DEF Replies
      <4> HIDE DEF reply
      <4> QED  BY <1>1, <3>2, <4>1, RepliesTyped
    <3>5. /\ wpc' = IF reply.type \in {"error", "stopped"} THEN "returning" ELSE "idle"
          /\ wcode' = IF reply.type = "error" THEN 1 ELSE 0
      BY <1>7, <3>2 DEF Answer
    <3>6. cursor \in 1..NumBars => reply.sequence = cursor - 1
      BY <3>3 DEF Request
    <3> HIDE DEF reply
    <3>7. stdout' = <<reply>>
      BY <3>1, <3>3, <3>4, OneAppended DEF Emit, Asked
    <3>8. Len(stdout') = 1 /\ Head(stdout') = reply
      BY <3>4, <3>7, OneAppended
    <3>9. cursor <= NumBars => wpc' = "idle"
      BY <1>4, <3>3, <3>5 DEF Expected
    <3>10. cursor = NumBars + 1 => wpc' = "returning" /\ wcode' = 0
      BY <1>4, <3>3, <3>5 DEF Expected
    <3>11. Answered'
      BY <1>2, <1>3, <3>1, <3>2, <3>3, <3>6, <3>8, <3>9, <3>10 DEF Answered, Ended, Asked
    <3> QED  BY <1>1, <1>2, <2>4, <3>11 DEF Alternating, Inside
  <2> QED  BY <2>3, <2>4
<1>8. CASE EndOfRequests
  <2>1. pc \notin Inside
    <3>1. wpc = "idle" /\ (launcher = "exited" \/ (stdinClosed /\ stdin = <<>>))
      BY <1>8 DEF EndOfRequests
    <3>2. pc \in {"send", "await"} => launcher = "running" /\ ~stdinClosed
      BY <1>1, <1>4, <3>1 DEF Alternating, Asked, Answered, Ended
    <3> QED  BY <1>1, <3>1, <3>2 DEF Alternating, Ended, Ladder, Inside
  <2> QED  BY <1>1, <1>2, <2>1 DEF Alternating, Inside
<1>9. CASE WorkerExits
  <2>1. wpc = "returning" /\ wpc' = "gone" /\ UNCHANGED <<stdin, stdout, wcode>>
    BY <1>9 DEF WorkerExits, pipeVars
  <2>2. pc = "await" => Answered /\ Answered'
    BY <1>1, <1>2, <1>3, <2>1 DEF Alternating, Asked, Answered, Ended
  <2> QED  BY <1>1, <1>2, <2>1, <2>2 DEF Alternating, Ended, Inside
<1>10. CASE WorkerCrashes \/ Stray
  BY <1>10 DEF WorkerCrashes, Stray
<1>11. CASE Chatter
  <2>1. UNCHANGED <<stdin, stdout, wpc, wcode>>
    BY <1>11 DEF Chatter
  <2>2. pc = "await" => Asked' \/ Answered'
    BY <1>1, <1>2, <1>3, <2>1 DEF Alternating, Asked, Answered, Ended
  <2> QED  BY <1>1, <1>2, <2>1, <2>2 DEF Alternating, Ended, Inside
<1> QED  BY <1>5, <1>6, <1>7, <1>8, <1>9, <1>10, <1>11 DEF Worker

(* A launcher that does not fail exits after its worker, with its status,  *)
(* and obeys only the signals of the ladder.                               *)
LEMMA LauncherHonest ==
  ASSUME IInv, Honest, ~fault, Launcher, ~fault'
  PROVE  Alternating'
<1>1. Ladder /\ Alternating
  BY DEF IInv, Honest
<1>2. UNCHANGED <<pc, cursor, stdoutBytes, stdinClosed, signal, stdin, wpc, wcode>>
  BY DEF Launcher, LauncherExits, LauncherFails, LauncherObeys, LauncherDies, driverVars, pipeVars, workerVars
<1>3. CASE LauncherExits
  <2>1. launcher = "running" /\ wpc = "gone" /\ launcher' = "exited" /\ exitCode' = wcode /\ stdout' = stdout
    BY <1>3 DEF LauncherExits, pipeVars
  <2>2. pc = "await" => Answered'
    <3>1. ASSUME pc = "await"  PROVE Answered /\ Ended /\ cursor = NumBars + 1
      <4>1. Answered /\ cursor \in 0..(NumBars + 1) /\ ~(cursor <= NumBars) /\ NumBars \in Nat
        BY <1>1, <2>1, <3>1, BoundsAssumption DEF Alternating, Asked, Answered, IInv, TypeOK
      <4> QED  BY <4>1 DEF Answered
    <3>2. Expected' = Expected
      BY <1>2 DEF Expected
    <3> QED  BY <1>2, <2>1, <3>1, <3>2 DEF Answered, Ended
  <2> QED  BY <1>1, <1>2, <2>1, <2>2 DEF Alternating, Ended, Ladder, Inside
<1>4. CASE LauncherFails
  BY <1>4 DEF LauncherFails
<1>5. CASE LauncherObeys
  <2>1. pc \notin Inside
    BY <1>1, <1>5 DEF LauncherObeys, Alternating
  <2> QED  BY <1>2, <2>1 DEF Alternating, Inside
<1> QED  BY <1>3, <1>4, <1>5 DEF Launcher

(* Every step keeps an honest candidate out of blame. *)
LEMMA HonestStep ==
  ASSUME IInv, Honest, [Next]_vars
  PROVE  Honest'
<1>1. Charged'
  BY ChargedStep DEF IInv, Honest
<1>2. ASSUME ~fault'
      PROVE  ~fault /\ Alternating' /\ Blame' /\ HonestNeverBlamed'
  <2>1. ~fault
    <3>1. CASE Driver \/ DrainStderr \/ Cancel \/ UNCHANGED vars
      BY <1>2, <3>1 DEF Driver, SpawnFails, Spawn, Send, SendBreaks, AcceptReady, AcceptWeights,
           AcceptStopped, Refuse, EndOfFile, BeginWait, LauncherStatus, Timeout, StopProcess, Reaped,
           GraceExpires, TermExpires, SignalFindsNobody, Return, DrainStderr, Cancel, workerVars, vars
    <3>2. CASE Worker
      BY <1>2, <3>2 DEF Worker, Load, ReadRequest, Answer, EndOfRequests, WorkerExits, WorkerCrashes, Stray, Chatter
    <3>3. CASE Launcher
      BY <1>2, <3>3 DEF Launcher, LauncherExits, LauncherFails, LauncherObeys, workerVars
    <3> QED  BY <3>1, <3>2, <3>3 DEF Next, Finished
  <2>2. CASE Driver
    BY <2>1, <2>2, ExchangeHonest, ControlHonest
  <2>3. ASSUME Worker \/ Launcher
        PROVE  UNCHANGED driverVars /\ chatter' \in {chatter, chatter + 1}
    <3>1. UNCHANGED driverVars
      BY <2>3 DEF Worker, Launcher, Load, ReadRequest, Answer, EndOfRequests, WorkerExits, WorkerCrashes,
           Stray, Chatter, LauncherExits, LauncherFails, LauncherObeys, LauncherDies
    <3>2. chatter' = chatter \/ chatter' = chatter + 1
      BY <2>3 DEF Worker, Launcher, Load, ReadRequest, Answer, EndOfRequests, WorkerExits, WorkerCrashes,
           Stray, Chatter, LauncherExits, LauncherFails, LauncherObeys, LauncherDies, workerVars
    <3> QED  BY <3>1, <3>2
  <2>4. CASE Worker \/ Launcher
    BY <1>2, <2>1, <2>3, <2>4, BlameKept, WorkerHonest, LauncherHonest
  <2>5. ASSUME DrainStderr \/ Cancel \/ UNCHANGED vars
        PROVE  UNCHANGED <<cursor, stdoutBytes, stdinClosed, stdin, stdout, hostVars, workerVars, status>>
    BY <2>5 DEF DrainStderr, Cancel, vars, driverVars, pipeVars
  <2>6. ASSUME DrainStderr \/ Cancel \/ UNCHANGED vars
        PROVE  (Asked' <=> Asked) /\ (Answered' <=> Answered) /\ (Ended' <=> Ended)
    <3>1. UNCHANGED <<cursor, stdin, stdout, launcher, exitCode, wpc, wcode>>
      BY <2>5, <2>6 DEF hostVars, workerVars
    <3>2. Expected' = Expected /\ Request(cursor)' = Request(cursor)
      BY <3>1 DEF Expected, Request
    <3> QED  BY <3>1, <3>2 DEF Asked, Answered, Ended
  <2>7. CASE Cancel
    <3>1. /\ outcome' = "cancelled" /\ pc' \in {"stop", "done"}
          /\ pc' = "stop" => status' = "COMPLETED" /\ cancels' = cancels + 1
      BY <2>7 DEF Cancel, IInv, Healthy
    <3>2. cancels \in Nat
      BY DEF IInv, TypeOK
    <3> QED  BY <2>1, <3>1, <3>2 DEF Alternating, Blame, HonestNeverBlamed, Inside, Outside
  <2>8. CASE DrainStderr \/ UNCHANGED vars
    <3>1. UNCHANGED <<pc, status, outcome, cancels, signal, chatter, launcher, wpc, fault>>
      BY <2>8 DEF DrainStderr, vars, driverVars, hostVars, workerVars
    <3>2. Alternating /\ Blame /\ HonestNeverBlamed
      BY <2>1 DEF Honest
    <3> QED  BY <2>1, <2>5, <2>6, <2>8, <3>1, <3>2 DEF Alternating, Blame, HonestNeverBlamed, Inside
  <2> QED  BY <2>1, <2>2, <2>4, <2>7, <2>8 DEF Next, Finished
<1> QED  BY <1>1, <1>2 DEF Honest, HonestNeverBlamed

(* A candidate that answers every request, on a launcher that does not     *)
(* fail, is never blamed, and its call raises only from a ladder that the  *)
(* clock, the output limit or a cancellation brought it to (execute and    *)
(* _stop_process, process.py): for every number of bars, every output      *)
(* limit and every interleaving of worker, clock and drain.                *)
THEOREM HonestNeverBlamedHolds == Spec => []HonestNeverBlamed
<1>1. Init => Honest
  BY BoundsAssumption DEF Init, Honest, Charged, Alternating, Blame, HonestNeverBlamed, Inside, Outside
<1>2. IInv /\ Honest /\ [Next]_vars => Honest'
  BY HonestStep
<1>3. Honest => HonestNeverBlamed
  BY DEF Honest
<1> QED  BY <1>1, <1>2, <1>3, Invariance, PTL DEF Spec

-----------------------------------------------------------------------------
(* Refinement.                                                             *)

(* Every step reveals, fixes, concludes or stutters. *)
LEMMA PromiseStep ==
  ASSUME IInv, [Next]_vars
  PROVE  [Promised!Next]_(Promised!promised)
<1> USE DEF Promised!promised, Promised!Next
<1>1. /\ Exchange /\ Horizon /\ Healthy /\ Ladder /\ frames \in Seq(Frames) /\ Len(frames) \in Nat
      /\ cursor \in 0..(NumBars + 1) /\ revealed \in 0..NumBars /\ known \in 0..NumBars
      /\ NumBars \in Nat \ {0}
  BY BoundsAssumption DEF IInv, TypeOK
<1>2. ASSUME UNCHANGED <<frames, revealed, outcome, status>>
      PROVE  UNCHANGED Promised!promised
  BY <1>2 DEF Verdict
<1>3. CASE Send
  <2>1. Verdict = "open" /\ Verdict' = "open" /\ frames' = frames
    BY <1>1, <1>3 DEF Send, Verdict, Healthy
  <2>2. revealed' = revealed \/ (revealed' = revealed + 1 /\ revealed = Len(frames) /\ revealed < NumBars)
    BY <1>1, <1>3 DEF Send, Exchange
  <2> QED  BY <2>1, <2>2 DEF Promised!Reveal
<1>4. CASE AcceptWeights
  <2>1. Verdict = "open" /\ Verdict' = "open" /\ revealed' = revealed
    BY <1>1, <1>4 DEF AcceptWeights, Verdict, Healthy
  <2>2. Len(frames) = cursor - 1 /\ Len(frames) < revealed
    BY <1>1, <1>4 DEF AcceptWeights, Exchange
  <2>3. Head(stdout).after \in 0..revealed
    <3>1. stdout \in Seq(Lines) /\ stdout # <<>> /\ Head(stdout) \in Lines
      BY <1>4, TailTyped DEF IInv, TypeOK, AcceptWeights
    <3>2. Head(stdout).after <= revealed
      BY <1>1, <3>1, TailTyped DEF Horizon
    <3> QED  BY <1>1, <3>1, <3>2, LineFields
  <2>4. frames' = Append(frames, [sequence |-> Len(frames), after |-> Head(stdout).after])
    BY <1>4, <2>2 DEF AcceptWeights
  <2> QED  BY <2>1, <2>2, <2>3, <2>4 DEF Promised!Fix
<1>5. CASE AcceptReady \/ AcceptStopped \/ BeginWait \/ Spawn
  BY <1>2, <1>5 DEF AcceptReady, AcceptStopped, BeginWait, Spawn
<1>6. CASE StopProcess \/ Reaped \/ GraceExpires \/ TermExpires
  BY <1>2, <1>6 DEF StopProcess, Reaped, GraceExpires, TermExpires
<1>7. CASE Refuse \/ EndOfFile \/ LauncherStatus \/ Timeout
  <2>1. outcome = "pending" /\ outcome' = "pending" /\ UNCHANGED <<frames, revealed>>
    BY <1>1, <1>7 DEF Refuse, EndOfFile, LauncherStatus, Timeout, Healthy
  <2> QED  BY <2>1 DEF Verdict
<1>8. CASE SpawnFails \/ SendBreaks \/ Return
  <2>1. outcome = "pending" /\ UNCHANGED <<frames, revealed>>
    BY <1>1, <1>8 DEF SpawnFails, SendBreaks, Return, Healthy, Ladder
  <2>2. Verdict' = "failed" \/ (Verdict' = "complete" /\ Len(frames) = NumBars)
    BY <1>1, <1>8 DEF SpawnFails, SendBreaks, Return, Healthy, Ladder, Verdict
  <2> QED  BY <2>1, <2>2 DEF Verdict, Promised!Conclude
<1>9. CASE Cancel \/ SignalFindsNobody
  <2>1. Verdict' = "failed" /\ Verdict \in {"open", "failed"} /\ UNCHANGED <<frames, revealed>>
    BY <1>1, <1>9 DEF Cancel, SignalFindsNobody, Healthy, Verdict
  <2> QED  BY <2>1 DEF Promised!Conclude
<1>10. CASE Worker \/ Launcher \/ DrainStderr \/ Finished \/ UNCHANGED vars
  <2>1. UNCHANGED driverVars
    BY <1>10 DEF Worker, Launcher, Load, ReadRequest, Answer, EndOfRequests, WorkerExits, WorkerCrashes,
         Stray, Chatter, LauncherExits, LauncherFails, LauncherObeys, LauncherDies, DrainStderr, Finished, vars
  <2> QED  BY <1>2, <2>1 DEF driverVars
<1> QED
  BY <1>3, <1>4, <1>5, <1>6, <1>7, <1>8, <1>9, <1>10 DEF Next, Driver

(* JsonlProcessDriver and the worker implement the lockstep promise: every *)
(* step reveals, fixes or concludes as NoLookAhead allows, or leaves all   *)
(* three alone.                                                            *)
THEOREM Refinement == Spec => KeepsPromise
<1>1. Init => Promised!Init
  BY DEF Init, Promised!Init, Verdict
<1>2. IInv /\ [Next]_vars => [Promised!Next]_(Promised!promised)
  BY PromiseStep
<1> QED  BY <1>1, <1>2, Invariance, PTL DEF Spec, Promised!Spec, KeepsPromise

(* Every step starts, stops, returns, cancels or kills as DriverCall lets  *)
(* it, or leaves the stage of the call, its outcome and the launcher alone. *)
LEMMA CallStep ==
  ASSUME [Next]_vars
  PROVE  [Called!Next]_(Called!call)
<1> USE DEF Called!call, Called!Next
<1>1. ASSUME Stage' = Stage, UNCHANGED <<outcome, launcher>>
      PROVE  UNCHANGED Called!call
  BY <1>1
<1>2. CASE SpawnFails
  <2>1. Stage = "idle" /\ Stage' = "over" /\ outcome' = "result" /\ launcher' = launcher
    BY <1>2 DEF SpawnFails, Stage, hostVars
  <2> QED  BY <2>1 DEF Called!CannotStart
<1>3. CASE Spawn
  <2>1. Stage = "idle" /\ Stage' = "running" /\ launcher' = "running" /\ outcome' = outcome
    BY <1>3 DEF Spawn, Stage
  <2> QED  BY <2>1 DEF Called!Start
<1>4. CASE Send \/ AcceptReady \/ AcceptWeights \/ AcceptStopped \/ BeginWait
  <2>1. Stage' = Stage /\ UNCHANGED <<outcome, launcher>>
    BY <1>4 DEF Send, AcceptReady, AcceptWeights, AcceptStopped, BeginWait, Stage, hostVars
  <2> QED  BY <1>1, <2>1
<1>5. CASE SendBreaks \/ Refuse \/ EndOfFile \/ LauncherStatus \/ Timeout
  <2>1. /\ Stage = "running" /\ Stage' = "stopping" /\ launcher' = launcher
        /\ outcome' \in {outcome, "raised"}
    BY <1>5 DEF SendBreaks, Refuse, EndOfFile, LauncherStatus, Timeout, Stage, hostVars
  <2> QED  BY <2>1 DEF Called!Stop
<1>6. CASE StopProcess \/ Reaped \/ GraceExpires \/ TermExpires
  <2>1. Stage = "stopping" /\ UNCHANGED <<outcome, launcher>>
    BY <1>6 DEF StopProcess, Reaped, GraceExpires, TermExpires, Stage, hostVars
  <2>2. CASE launcher = "exited" /\ pc' = AfterStop
    <3>1. Stage' = IF outcome = "pending" THEN "draining" ELSE "over"
      BY <2>2 DEF AfterStop, Stage
    <3> QED  BY <2>1, <2>2, <3>1 DEF Called!Stopped
  <2>3. CASE ~(launcher = "exited" /\ pc' = AfterStop)
    <3>1. pc' \in {"grace", "term", "reap"}
      BY <1>6, <2>3 DEF StopProcess, Reaped, GraceExpires, TermExpires, Disconnected, StdoutClosed
    <3>2. Stage' = "stopping"
      BY <3>1 DEF Stage
    <3> QED  BY <1>1, <2>1, <3>2
  <2> QED  BY <2>2, <2>3
<1>7. CASE Return
  <2>1. Stage = "draining" /\ Stage' = "over" /\ outcome' = "result" /\ launcher' = launcher
    BY <1>7 DEF Return, Stage, hostVars
  <2> QED  BY <2>1 DEF Called!Return
<1>8. CASE Cancel
  <2>1. /\ Stage # "over" /\ outcome' = "cancelled" /\ launcher' = launcher
        /\ Stage' = IF Stage = "running" THEN "stopping" ELSE "over"
    BY <1>8 DEF Cancel, Stage, hostVars
  <2> QED  BY <2>1 DEF Called!Cancel
<1>9. CASE Launcher
  <2>1. launcher = "running" /\ launcher' = "exited" /\ UNCHANGED driverVars
    BY <1>9 DEF Launcher, LauncherExits, LauncherFails, LauncherObeys, LauncherDies
  <2>2. Stage' = Stage /\ outcome' = outcome
    BY <2>1 DEF driverVars, Stage
  <2> QED  BY <2>1, <2>2 DEF Called!Die
<1>10. CASE Worker \/ DrainStderr \/ Finished \/ UNCHANGED vars
  <2>1. UNCHANGED driverVars /\ launcher' = launcher
    BY <1>10 DEF Worker, Load, ReadRequest, Answer, EndOfRequests, WorkerExits, WorkerCrashes,
         Stray, Chatter, DrainStderr, Finished, vars, hostVars
  <2>2. Stage' = Stage /\ outcome' = outcome
    BY <2>1 DEF driverVars, Stage
  <2> QED  BY <1>1, <2>1, <2>2
<1>11. CASE SignalFindsNobody
  <2>1. /\ Stage = "stopping" /\ launcher = "exited" /\ Stage' = "over" /\ outcome' = "raised"
        /\ launcher' = launcher
    BY <1>11 DEF SignalFindsNobody, Disconnected, StdoutClosed, Stage, hostVars
  <2> QED  BY <2>1 DEF Called!LadderRaises
<1> QED
  BY <1>2, <1>3, <1>4, <1>5, <1>6, <1>7, <1>8, <1>9, <1>10, <1>11 DEF Next, Driver

(* JsonlProcessDriver keeps the promise SandboxCleanup is built on: every  *)
(* exchange that started a launcher is followed by the ladder, and only a  *)
(* cancellation leaves the ladder while the launcher may still run.        *)
THEOREM CallRefinement == Spec => KeepsCall
<1>1. Init => Called!Init
  BY DEF Init, Called!Init, Stage
<1>2. [Next]_vars => [Called!Next]_(Called!call)
  BY CallStep
<1> QED  BY <1>1, <1>2, PTL DEF Spec, Called!Spec, KeepsCall
=============================================================================
