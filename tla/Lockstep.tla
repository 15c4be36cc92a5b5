------------------------------ MODULE Lockstep ------------------------------
(***************************************************************************)
(* One sandboxed execution: JsonlProcessDriver.execute                     *)
(* (executors/process.py) against runtime/worker.py, with the launcher     *)
(* process (docker run, or sandbox do) and the three pipes between them.   *)
(*                                                                         *)
(* The driver writes one request, reads one line, and decides.  All the    *)
(* rest happens around it: the worker answers late, wrongly, twice or      *)
(* never; the launcher dies and takes unread output with it; the wall      *)
(* clock expires; the caller cancels; and a worker that outlives its       *)
(* launcher may hold the launcher's stderr open.                           *)
(*                                                                         *)
(* Data: a portfolio is valid or not (ok); a line has a size in abstract   *)
(* units; "after" on a weights line is a history value, the number of bars *)
(* the worker had been handed when the line was written.                   *)
(***************************************************************************)
EXTENDS Integers, Sequences, SequencesExt

CONSTANTS
  NumBars,       \* Len(request.bars)
  MaxOutput,     \* limits.max_output_bytes, in line units
  StrayLimit,    \* bound: protocol lines the candidate writes unasked
  ChatterLimit,  \* bound: units the candidate writes to stderr
  CancelLimit,   \* bound: cancellations of the call by its caller
  Faulty,        \* the candidate and the launcher may fail
  Orphans        \* a worker outliving its launcher holds stderr open

ASSUME BoundsAssumption ==
  /\ NumBars \in Nat \ {0}            \* SandboxRequest.bars has min_length 1
  /\ MaxOutput \in Nat \ {0}
  /\ StrayLimit \in Nat /\ ChatterLimit \in Nat /\ CancelLimit \in Nat
  /\ Faulty \in BOOLEAN /\ Orphans \in BOOLEAN

VARIABLES
  (* the driver *)
  pc,            \* where execute() is
  cursor,        \* 0: initialize, k in 1..NumBars: bar k-1, NumBars+1: stop
  stdoutBytes,   \* counters.stdout_bytes
  frames,        \* the accepted FrameOutcomes
  status,        \* SandboxStatus
  outcome,       \* how the call ends: "pending", "result", "raised", "cancelled"
  cancels,       \* cancellations so far
  revealed,      \* history: bars written to stdin
  (* the pipes *)
  stdin, stdinClosed, stdout,
  pending,       \* stderr units written and not yet read by _drain_stderr
  captured,      \* stderr_capture.total
  (* the launcher and the worker *)
  launcher,      \* "absent", "running", "exited"
  exitCode,      \* the launcher's exit status, 0 or 1 for any other
  signal,        \* the strongest signal sent to the launcher
  wpc, wcode,    \* the worker's control state and exit status
  known,         \* bars handed to on_bar
  strays, chatter,
  fault          \* history: the candidate, the worker or the launcher has failed

driverVars == <<pc, cursor, stdoutBytes, frames, status, outcome, cancels, revealed>>
pipeVars   == <<stdin, stdinClosed, stdout, pending, captured>>
hostVars   == <<launcher, exitCode, signal>>
workerVars == <<wpc, wcode, known, strays, chatter, fault>>
vars == <<driverVars, pipeVars, hostVars, workerVars>>

Statuses == {"COMPLETED", "PROTOCOL_ERROR", "RUNTIME_ERROR", "TIMEOUT", "UNAVAILABLE"}
DriverStates == {"spawn", "send", "await", "exit", "wait", "stop", "grace",
                 "term", "reap", "stderr", "done"}
Outcomes == {"pending", "result", "raised", "cancelled"}

Huge == MaxOutput + 3      \* a line readline() cannot return: over limit + newline
Sizes == {1, Huge}

Bars == 0..(NumBars - 1)   \* bar sequences: contiguous from zero
Requests == [type : {"initialize", "bar", "stop"}, sequence : Bars]
Lines == [type : {"ready", "weights", "error", "stopped", "garbage"},
          sequence : Bars, ok : BOOLEAN, size : Sizes, after : 0..NumBars]
Frames == [sequence : Bars, after : 0..NumBars]

Line(type, sequence, ok, size) ==
  [type |-> type, sequence |-> sequence, ok |-> ok, size |-> size, after |-> known]

(* Mutant: the bar loop runs once too often. *)
RequestOneTooMany(c) ==
  IF c = 0 THEN [type |-> "initialize", sequence |-> 0]
  ELSE IF c <= NumBars + 1 THEN [type |-> "bar", sequence |-> c - 1]
  ELSE [type |-> "stop", sequence |-> 0]

(* The request execute() writes at a cursor. *)
Request(c) ==
  IF c = 0 THEN [type |-> "initialize", sequence |-> 0]
  ELSE IF c <= NumBars THEN [type |-> "bar", sequence |-> c - 1]
  ELSE [type |-> "stop", sequence |-> 0]

Init ==
  /\ pc = "spawn" /\ cursor = 0 /\ stdoutBytes = 0 /\ frames = <<>>
  /\ status = "COMPLETED" /\ outcome = "pending" /\ cancels = 0 /\ revealed = 0
  /\ stdin = <<>> /\ stdinClosed = FALSE /\ stdout = <<>>
  /\ pending = 0 /\ captured = 0
  /\ launcher = "absent" /\ exitCode = 0 /\ signal = "none"
  /\ wpc = "absent" /\ wcode = 0 /\ known = 0 /\ strays = 0 /\ chatter = 0 /\ fault = FALSE

-----------------------------------------------------------------------------
(* Pipes, as the event loop sees them.                                     *)

StderrClosed == launcher = "exited" /\ (Orphans => wpc = "gone")

(* A StreamReader stops reading its pipe when more than twice its limit is *)
(* buffered, and a pipe that is not read never reports end of file.        *)
Backlog == FoldLeft(LAMBDA sum, line : sum + line.size, 0, stdout)
StdoutClosed == launcher = "exited" /\ Backlog <= 2 * (MaxOutput + 1)

(* A Process.wait() begun while the process runs resolves only when every  *)
(* pipe is disconnected; begun later, it returns at once.                  *)
Disconnected == StdoutClosed /\ StderrClosed

-----------------------------------------------------------------------------
(* The driver.                                                             *)

(* create_subprocess_exec: either it raises OSError, or the launcher runs. *)
SpawnFails ==
  /\ pc = "spawn"
  /\ pc' = "done" /\ status' = "UNAVAILABLE" /\ outcome' = "result"
  /\ UNCHANGED <<cursor, stdoutBytes, frames, cancels, revealed, pipeVars,
                 hostVars, workerVars>>

Spawn ==
  /\ pc = "spawn"
  /\ pc' = "send"
  /\ launcher' = "running" /\ wpc' = "loading"
  /\ UNCHANGED <<cursor, stdoutBytes, frames, status, outcome, cancels, revealed,
                 pipeVars, exitCode, signal, wcode, known, strays, chatter, fault>>

(* Mutant: the next request is written ahead, to save a round trip. *)
SendPipelined ==
  /\ pc = "send" /\ launcher = "running"
  /\ pc' = "await"
  /\ stdin' = stdin \o <<Request(cursor), Request(cursor + 1)>>
  /\ revealed' = IF cursor \in 1..NumBars THEN cursor ELSE revealed
  /\ UNCHANGED <<cursor, stdoutBytes, frames, status, outcome, cancels,
                 stdinClosed, stdout, pending, captured, hostVars, workerVars>>

(* _exchange, first half: write and drain one request. *)
Send ==
  /\ pc = "send" /\ launcher = "running"
  /\ pc' = "await"
  /\ stdin' = Append(stdin, Request(cursor))
  /\ revealed' = IF cursor \in 1..NumBars THEN cursor ELSE revealed
  /\ UNCHANGED <<cursor, stdoutBytes, frames, status, outcome, cancels,
                 stdinClosed, stdout, pending, captured, hostVars, workerVars>>

(* drain() on a pipe whose reader is gone raises ConnectionResetError,     *)
(* which none of execute's except clauses names.                           *)
SendBreaks ==
  /\ pc = "send" /\ launcher = "exited"
  /\ pc' = "stop" /\ outcome' = "raised"
  /\ UNCHANGED <<cursor, stdoutBytes, frames, status, cancels, revealed,
                 pipeVars, hostVars, workerVars>>

(* The checks of _exchange and execute on a response line.                 *)
Readable(line) == line.size <= MaxOutput + 2
(* Mutant: ">=" for ">" against max_output_bytes. *)
WithinOutputStrictly(line) == stdoutBytes + line.size < MaxOutput
WithinOutput(line) == stdoutBytes + line.size <= MaxOutput
Expected == IF cursor = 0 THEN "ready" ELSE IF cursor <= NumBars THEN "weights" ELSE "stopped"
Accepts(line) ==
  /\ Readable(line) /\ WithinOutput(line)
  /\ line.type = Expected
  /\ line.type = "weights" => line.sequence = cursor - 1 /\ line.ok

AcceptReady ==
  /\ pc = "await" /\ cursor = 0
  /\ stdout # <<>> /\ Accepts(Head(stdout))
  /\ pc' = "send" /\ cursor' = 1
  /\ stdoutBytes' = stdoutBytes + Head(stdout).size
  /\ stdout' = Tail(stdout)
  /\ UNCHANGED <<frames, status, outcome, cancels, revealed, stdin, stdinClosed,
                 pending, captured, hostVars, workerVars>>

AcceptWeights ==
  /\ pc = "await" /\ cursor \in 1..NumBars
  /\ stdout # <<>> /\ Accepts(Head(stdout))
  /\ pc' = "send" /\ cursor' = cursor + 1
  /\ stdoutBytes' = stdoutBytes + Head(stdout).size
  /\ frames' = Append(frames, [sequence |-> cursor - 1, after |-> Head(stdout).after])
  /\ stdout' = Tail(stdout)
  /\ UNCHANGED <<status, outcome, cancels, revealed, stdin, stdinClosed, pending,
                 captured, hostVars, workerVars>>

AcceptStopped ==
  /\ pc = "await" /\ cursor = NumBars + 1
  /\ stdout # <<>> /\ Accepts(Head(stdout))
  /\ pc' = "exit"
  /\ stdoutBytes' = stdoutBytes + Head(stdout).size
  /\ stdout' = Tail(stdout)
  /\ stdinClosed' = TRUE
  /\ UNCHANGED <<cursor, frames, status, outcome, cancels, revealed, stdin,
                 pending, captured, hostVars, workerVars>>

(* A line that fails a check ends the loop.  readline() discards whatever  *)
(* it has buffered, and counts nothing, when the line is over its limit.   *)
Refuse ==
  /\ pc = "await"
  /\ stdout # <<>> /\ ~Accepts(Head(stdout))
  /\ LET line == Head(stdout) IN
       /\ status' = IF /\ Readable(line) /\ WithinOutput(line)
                       /\ line.type = "error" /\ cursor <= NumBars
                    THEN "RUNTIME_ERROR" ELSE "PROTOCOL_ERROR"
       /\ \/ /\ Readable(line)
             /\ stdoutBytes' = stdoutBytes + line.size
             /\ stdout' = Tail(stdout)
          \/ /\ ~Readable(line)
             /\ stdoutBytes' = stdoutBytes
             /\ \E n \in 1..Len(stdout) : stdout' = SubSeq(stdout, n + 1, Len(stdout))
  /\ pc' = "stop"
  /\ UNCHANGED <<cursor, frames, outcome, cancels, revealed, stdin, stdinClosed,
                 pending, captured, hostVars, workerVars>>

(* Mutant: end of file ends the stream as if "stopped" had been read. *)
EndOfFileForgiven ==
  /\ pc = "await" /\ stdout = <<>> /\ launcher = "exited"
  /\ pc' = "stop" /\ status' = status
  /\ UNCHANGED <<cursor, stdoutBytes, frames, outcome, cancels, revealed,
                 pipeVars, hostVars, workerVars>>

(* readline() returns b"" at end of file. *)
EndOfFile ==
  /\ pc = "await" /\ stdout = <<>> /\ launcher = "exited"
  /\ pc' = "stop" /\ status' = "PROTOCOL_ERROR"
  /\ UNCHANGED <<cursor, stdoutBytes, frames, outcome, cancels, revealed,
                 pipeVars, hostVars, workerVars>>

(* await process.wait(), after "stopped". *)
BeginWait ==
  /\ pc = "exit" /\ launcher = "running"
  /\ pc' = "wait"
  /\ UNCHANGED <<cursor, stdoutBytes, frames, status, outcome, cancels, revealed,
                 pipeVars, hostVars, workerVars>>

(* Mutant: the return code is not looked at. *)
LauncherStatusIgnored ==
  /\ \/ pc = "exit" /\ launcher = "exited"
     \/ pc = "wait" /\ Disconnected
  /\ pc' = "stop" /\ status' = status
  /\ UNCHANGED <<cursor, stdoutBytes, frames, outcome, cancels, revealed,
                 pipeVars, hostVars, workerVars>>

LauncherStatus ==
  /\ \/ pc = "exit" /\ launcher = "exited"
     \/ pc = "wait" /\ Disconnected
  /\ pc' = "stop"
  /\ status' = IF exitCode = 0 THEN status ELSE "RUNTIME_ERROR"
  /\ UNCHANGED <<cursor, stdoutBytes, frames, outcome, cancels, revealed,
                 pipeVars, hostVars, workerVars>>

(* asyncio.timeout(limits.timeout_seconds), at an await inside its block. *)
Timeout ==
  /\ pc \in {"await", "wait"}
  /\ pc' = "stop" /\ status' = "TIMEOUT"
  /\ UNCHANGED <<cursor, stdoutBytes, frames, outcome, cancels, revealed,
                 pipeVars, hostVars, workerVars>>

-----------------------------------------------------------------------------
(* _stop_process, in the finally clause, then the bounded stderr drain.    *)

AfterStop == IF outcome = "pending" THEN "stderr" ELSE "done"

StopProcess ==
  /\ pc = "stop"
  /\ IF launcher = "exited"
     THEN pc' = AfterStop /\ UNCHANGED stdinClosed
     ELSE pc' = "grace" /\ stdinClosed' = TRUE
  /\ UNCHANGED <<cursor, stdoutBytes, frames, status, outcome, cancels, revealed,
                 stdin, stdout, pending, captured, hostVars, workerVars>>

(* One of the three waits of the ladder resolves. *)
Reaped ==
  /\ pc \in {"grace", "term", "reap"} /\ Disconnected
  /\ pc' = AfterStop
  /\ UNCHANGED <<cursor, stdoutBytes, frames, status, outcome, cancels, revealed,
                 pipeVars, hostVars, workerVars>>

(* After 0.5s: terminate(), which does nothing to a dead process, and a    *)
(* second wait, which returns at once for one.                             *)
GraceExpires ==
  /\ pc = "grace"
  /\ IF launcher = "exited"
     THEN pc' = AfterStop /\ UNCHANGED signal
     ELSE pc' = "term" /\ signal' = "TERM"
  /\ UNCHANGED <<cursor, stdoutBytes, frames, status, outcome, cancels, revealed,
                 pipeVars, launcher, exitCode, workerVars>>

(* Mutant: kill() without the wait that follows it. *)
TermExpiresUnreaped ==
  /\ pc = "term"
  /\ IF launcher = "exited"
     THEN pc' = AfterStop /\ UNCHANGED signal
     ELSE pc' = AfterStop /\ signal' = "KILL"
  /\ UNCHANGED <<cursor, stdoutBytes, frames, status, outcome, cancels, revealed,
                 pipeVars, launcher, exitCode, workerVars>>

(* After 1.0s: kill(), and a wait without a bound. *)
TermExpires ==
  /\ pc = "term"
  /\ IF launcher = "exited"
     THEN pc' = AfterStop /\ UNCHANGED signal
     ELSE pc' = "reap" /\ signal' = "KILL"
  /\ UNCHANGED <<cursor, stdoutBytes, frames, status, outcome, cancels, revealed,
                 pipeVars, launcher, exitCode, workerVars>>

(* A timer of the ladder fires when the transport is closed already and    *)
(* the wait is yet to see it: terminate() or kill() then raises            *)
(* ProcessLookupError, in place of whatever brought execute() here.        *)
SignalFindsNobody ==
  /\ pc \in {"grace", "term"} /\ Disconnected
  /\ pc' = "done" /\ outcome' = "raised"
  /\ UNCHANGED <<cursor, stdoutBytes, frames, status, cancels, revealed,
                 pipeVars, hostVars, workerVars>>

(* The drain task, concurrent with all of the above. *)
DrainStderr ==
  /\ pc \notin {"spawn", "done"} /\ pending > 0
  /\ captured' = captured + pending /\ pending' = 0
  /\ UNCHANGED <<driverVars, stdin, stdinClosed, stdout, hostVars, workerVars>>

(* Mutant: await stderr_task without wait_for, as before revision v4. *)
ReturnUnbounded ==
  /\ pc = "stderr"
  /\ StderrClosed /\ pending = 0
  /\ pc' = "done" /\ outcome' = "result"
  /\ status' = IF status = "COMPLETED" /\ stdoutBytes + captured > MaxOutput
               THEN "PROTOCOL_ERROR" ELSE status
  /\ UNCHANGED <<cursor, stdoutBytes, frames, cancels, revealed, pipeVars,
                 hostVars, workerVars>>

(* wait_for(stderr_task, 0.5) ends at end of file or, if somebody still    *)
(* holds the pipe, by its timer; then the last check and the result.       *)
Return ==
  /\ pc = "stderr"
  /\ StderrClosed => pending = 0
  /\ pc' = "done" /\ outcome' = "result"
  /\ status' = IF status = "COMPLETED" /\ stdoutBytes + captured > MaxOutput
               THEN "PROTOCOL_ERROR" ELSE status
  /\ UNCHANGED <<cursor, stdoutBytes, frames, cancels, revealed, pipeVars,
                 hostVars, workerVars>>

(* Mutant: a cancellation leaves the exchange without the ladder. *)
CancelAbandons ==
  /\ cancels < CancelLimit
  /\ pc \in {"await", "wait", "grace", "term", "reap", "stderr"} /\ pc' = "done"
  /\ outcome' = "cancelled" /\ cancels' = cancels + 1
  /\ UNCHANGED <<cursor, stdoutBytes, frames, status, revealed, pipeVars,
                 hostVars, workerVars>>

(* The caller cancels the task.  Inside the try block the ladder still     *)
(* runs; inside the ladder or the drain, it does not.                      *)
Cancel ==
  /\ cancels < CancelLimit
  /\ \/ pc \in {"await", "wait"} /\ pc' = "stop"
     \/ pc \in {"grace", "term", "reap", "stderr"} /\ pc' = "done"
  /\ outcome' = "cancelled" /\ cancels' = cancels + 1
  /\ UNCHANGED <<cursor, stdoutBytes, frames, status, revealed, pipeVars,
                 hostVars, workerVars>>

-----------------------------------------------------------------------------
(* The worker.  It is not fair: any of its steps may take for ever.        *)

Alive == wpc \notin {"absent", "gone"}

(* Writing a line: what a dead launcher would relay is lost. *)
Emit(line) == stdout' = IF launcher = "running" THEN Append(stdout, line) ELSE stdout

Load ==
  /\ wpc = "loading"
  /\ \/ wpc' = "idle" /\ UNCHANGED <<stdout, wcode, fault>>
     \/ /\ Faulty /\ fault' = TRUE
        /\ Emit(Line("error", 0, TRUE, 1)) /\ wpc' = "returning" /\ wcode' = 1
  /\ UNCHANGED <<driverVars, stdin, stdinClosed, pending, captured, hostVars,
                 known, strays, chatter>>

(* A request line is read; a bar is handed to on_bar. *)
ReadRequest ==
  /\ wpc = "idle" /\ stdin # <<>>
  /\ wpc' = "serving"
  /\ known' = IF Head(stdin).type = "bar" THEN Head(stdin).sequence + 1 ELSE known
  /\ UNCHANGED <<driverVars, pipeVars, hostVars, wcode, strays, chatter, fault>>

(* The line a request is answered with: as run() would for a candidate     *)
(* that works, or the error frame and invalid portfolio of one that fails. *)
ReplyType(request) ==
  IF request.type = "initialize" THEN "ready"
  ELSE IF request.type = "bar" THEN "weights" ELSE "stopped"

HonestReply(request) == Line(ReplyType(request), request.sequence, TRUE, 1)

Replies(request) ==
  {HonestReply(request)}
  \union (IF Faulty /\ request.type # "stop"
          THEN {Line("error", request.sequence, TRUE, 1)} ELSE {})
  \union (IF Faulty /\ request.type = "bar"
          THEN {Line("weights", request.sequence, FALSE, 1)} ELSE {})

Answer ==
  /\ wpc = "serving" /\ stdin # <<>>
  /\ \E line \in Replies(Head(stdin)) :
       /\ Emit(line)
       /\ wpc' = IF line.type \in {"error", "stopped"} THEN "returning" ELSE "idle"
       /\ wcode' = IF line.type = "error" THEN 1 ELSE 0
       /\ fault' = (fault \/ line # HonestReply(Head(stdin)))
  /\ stdin' = Tail(stdin)
  /\ UNCHANGED <<driverVars, stdinClosed, pending, captured, hostVars, known,
                 strays, chatter>>

(* End of file on the worker's stdin ends its loop. *)
EndOfRequests ==
  /\ wpc = "idle"
  /\ launcher = "exited" \/ (stdinClosed /\ stdin = <<>>)
  /\ wpc' = "returning" /\ wcode' = 0
  /\ UNCHANGED <<driverVars, pipeVars, hostVars, known, strays, chatter, fault>>

WorkerExits ==
  /\ wpc = "returning"
  /\ wpc' = "gone"
  /\ UNCHANGED <<driverVars, pipeVars, hostVars, wcode, known, strays, chatter, fault>>

(* Killed by the memory limit, or exits from a thread, with any status. *)
WorkerCrashes ==
  /\ Faulty /\ Alive
  /\ wpc' = "gone" /\ wcode' \in {0, 1} /\ fault' = TRUE
  /\ UNCHANGED <<driverVars, pipeVars, hostVars, known, strays, chatter>>

(* Candidate code writes to the protocol stream itself. *)
StrayLines ==
  {Line("weights", sequence, TRUE, 1) : sequence \in Bars}
  \union {Line("stopped", 0, TRUE, 1), Line("garbage", 0, TRUE, Huge)}

Stray ==
  /\ Faulty /\ Alive /\ strays < StrayLimit
  /\ strays' = strays + 1 /\ fault' = TRUE
  /\ \E line \in StrayLines : Emit(line)
  /\ UNCHANGED <<driverVars, stdin, stdinClosed, pending, captured, hostVars,
                 wpc, wcode, known, chatter>>

Chatter ==
  /\ Alive /\ chatter < ChatterLimit
  /\ launcher = "running" \/ Orphans
  /\ chatter' = chatter + 1 /\ pending' = pending + 1
  /\ UNCHANGED <<driverVars, stdin, stdinClosed, stdout, captured, hostVars,
                 wpc, wcode, known, strays, fault>>

-----------------------------------------------------------------------------
(* The launcher.                                                           *)

(* It relays everything and exits with the worker's status. *)
LauncherExits ==
  /\ launcher = "running" /\ wpc = "gone"
  /\ launcher' = "exited" /\ exitCode' = wcode
  /\ UNCHANGED <<driverVars, pipeVars, signal, workerVars>>

(* It dies, and what it had not relayed is lost. *)
LauncherDies ==
  /\ launcher = "running"
  /\ launcher' = "exited" /\ exitCode' = 1
  /\ \E n \in 0..Len(stdout) : stdout' = SubSeq(stdout, 1, n)
  /\ UNCHANGED <<driverVars, stdin, stdinClosed, pending, captured, signal,
                 wpc, wcode, known, strays, chatter>>

LauncherFails == Faulty /\ LauncherDies /\ fault' = TRUE
LauncherObeys == (signal = "KILL" \/ signal = "TERM") /\ LauncherDies /\ UNCHANGED fault

-----------------------------------------------------------------------------
Finished == pc = "done" /\ UNCHANGED vars

Driver ==
  \/ SpawnFails \/ Spawn \/ Send \/ SendBreaks
  \/ AcceptReady \/ AcceptWeights \/ AcceptStopped \/ Refuse \/ EndOfFile
  \/ BeginWait \/ LauncherStatus \/ Timeout
  \/ StopProcess \/ Reaped \/ GraceExpires \/ TermExpires
  \/ SignalFindsNobody \/ Return

Worker ==
  \/ Load \/ ReadRequest \/ Answer \/ EndOfRequests \/ WorkerExits
  \/ WorkerCrashes \/ Stray \/ Chatter

Launcher == LauncherExits \/ LauncherFails \/ LauncherObeys

Next == Driver \/ DrainStderr \/ Cancel \/ Worker \/ Launcher \/ Finished

Spec == Init /\ [][Next]_vars

(* The event loop runs what is ready and its timers fire; a signal that    *)
(* must kill the launcher does.  Nothing is assumed of the worker.         *)
Fairness ==
  /\ WF_vars(Driver)
  /\ WF_vars(DrainStderr)
  /\ WF_vars(signal = "KILL" /\ LauncherObeys)

FairSpec == Spec /\ Fairness

-----------------------------------------------------------------------------
(* Properties.                                                             *)

(* Every variable keeps its kind, whatever line the worker writes. *)
TypeOK ==
  /\ pc \in DriverStates /\ cursor \in 0..(NumBars + 1) /\ stdoutBytes \in Nat
  /\ frames \in Seq(Frames) /\ status \in Statuses /\ outcome \in Outcomes
  /\ cancels \in Nat /\ revealed \in 0..NumBars
  /\ stdin \in Seq(Requests) /\ stdinClosed \in BOOLEAN /\ stdout \in Seq(Lines)
  /\ pending \in Nat /\ captured \in Nat
  /\ launcher \in {"absent", "running", "exited"} /\ exitCode \in {0, 1}
  /\ signal \in {"none", "TERM", "KILL"}
  /\ wpc \in {"absent", "loading", "idle", "serving", "returning", "gone"}
  /\ wcode \in {0, 1} /\ known \in 0..NumBars /\ strays \in Nat /\ chatter \in Nat
  /\ fault \in BOOLEAN

(* The candidate is never handed a bar while an earlier one has no         *)
(* portfolio, and the portfolio of bar i was written by a candidate that   *)
(* had been handed at most the first i bars: execute() reads and checks    *)
(* the answer to one bar before it writes the next, and pairs them by      *)
(* sequence number, so a line written unasked cannot answer a later bar    *)
(* with knowledge of it.                                                   *)
CandidateNotAhead ==
  /\ known <= Len(frames) + 1
  /\ \A i \in 1..Len(frames) : frames[i].sequence = i - 1 /\ frames[i].after <= i

(* A completed result is a whole one: a portfolio for every bar, from a    *)
(* launcher that exited by itself with status zero, with the output it was *)
(* charged for within max_output_bytes.                                    *)
CompletedIsWhole ==
  outcome = "result" /\ status = "COMPLETED" =>
    /\ Len(frames) = NumBars
    /\ launcher = "exited" /\ exitCode = 0
    /\ stdoutBytes + captured <= MaxOutput

(* Unless the call was cancelled, it does not end while the launcher it    *)
(* started is running: every path goes through _stop_process, whose ladder *)
(* is left only when the process is known to be dead.                      *)
NoLauncherLeft ==
  pc = "done" /\ outcome # "cancelled" => launcher # "running"

(* A candidate that answers every request, on a launcher that does not     *)
(* fail, is never blamed: its execution is complete unless the clock       *)
(* expired, nothing could be started, or it wrote more than it was         *)
(* allowed; and its call raises only from a ladder that one of these, or a *)
(* cancellation, has brought it to.                                        *)
HonestNeverBlamed ==
  ~fault =>
    /\ outcome \in {"result", "raised"} =>
         \/ status \in {"COMPLETED", "TIMEOUT", "UNAVAILABLE"}
         \/ status = "PROTOCOL_ERROR" /\ NumBars + 2 + chatter > MaxOutput
    /\ outcome = "raised" => status # "COMPLETED" \/ cancels > 0

(* Every failure of a candidate ends in a SandboxResult and not in an      *)
(* exception: the docstring of SandboxExecutor.execute and ADR 0001.       *)
TypedResults == outcome # "raised"

(* Every call returns, or comes to the wait after kill(), whatever the     *)
(* candidate does: the clock bounds the exchange, two timers bound the     *)
(* ladder, and the drain is bounded for a pipe that somebody still holds.  *)
ReturnsOrKills == <>(pc \in {"done", "reap"})

(* Every call returns: the parity report of the Cloud Run executor.        *)
EveryCallReturns == <>(pc = "done")

(* The execution implements the lockstep promise. *)
Verdict ==
  IF outcome = "pending" THEN "open"
  ELSE IF outcome = "result" /\ status = "COMPLETED" THEN "complete" ELSE "failed"

Promised == INSTANCE NoLookAhead WITH fixed <- frames, verdict <- Verdict

(* Lockstep implements NoLookAhead: what is revealed, what is fixed and    *)
(* the verdict move only as the abstract specification lets them.          *)
KeepsPromise == Promised!Spec

(* Where the call is, as its caller sees it. *)
Stage ==
  IF pc = "spawn" THEN "idle"
  ELSE IF pc \in {"send", "await", "exit", "wait"} THEN "running"
  ELSE IF pc \in {"stop", "grace", "term", "reap"} THEN "stopping"
  ELSE IF pc = "stderr" THEN "draining" ELSE "over"

Called == INSTANCE DriverCall WITH stage <- Stage

(* Lockstep implements DriverCall: every exchange that started a launcher, *)
(* also one that is cancelled or raises, is followed by the ladder, and    *)
(* only a cancellation leaves the ladder before the launcher is dead.      *)
KeepsCall == Called!Spec
=============================================================================
