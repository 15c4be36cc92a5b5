# Verification of Alpha-Gate

TLA+ models of [Alpha-Gate](../src/README.md), the properties they are checked
for with TLC, and theorems about them checked with TLAPS. Paths below are
relative to `src/src/alpha_gate/` unless they start with `docs/`, `reports/` or
`containers/`, which are relative to `src/`.

Alpha-Gate runs model-written trading strategies in sandboxes, one market bar
at a time, scores them with a backtest, and evolves them under an evaluation
budget while it keeps an append-only record of every candidate it tried. What
makes it correct is less its arithmetic than its order of events: who is shown
which bar when, what a result may claim after a partial failure, what is on
disk when a call returns, what is left running when a call is cancelled.

## 1. Inventory

| Component | State it keeps | Operations | Talks to |
| --- | --- | --- | --- |
| Process driver (`executors/process.py`, `base.py`, `protocol.py`) | one execution: the cursor in the stream, byte counters, accepted frames, status; the launcher process and its pipes | spawn, exchange a frame, stop ladder, stderr drain | launcher and worker over three pipes; called by the two executors |
| Worker (`runtime/worker.py`) | the strategy object, the next expected sequence | load, initialize, bar, stop, report an error | driver over stdin and stdout |
| Container executor (`executors/container.py`) | temporary directory, container name, cleanup task | execute, delete the container | docker or podman; driver |
| Cloud Run sandbox executor (`executors/cloud_sandbox.py`) | the same, with delete attempts | execute, delete the sandbox with retries | `sandbox do`/`sandbox delete`; driver |
| Broker client (`executors/cloud_run.py`) | cached identity token and its expiry; per call a thread with a deadline and an attempt count | execute over HTTP, fetch a token, retry on 429 | token provider, broker through the platform |
| Broker service (`cloud/service.py`) | none between requests; one request at a time | validate, execute, answer | Cloud Run sandbox executor |
| Trial ledger (`ledger.py`) | a JSONL file; the set of keys a process loaded or appended | open and load, has_experiment, append | experiment runner, command line; other processes through the file |
| Experiment runner (`experiment.py`, `evaluator.py`) | trials, evaluations, last scores, parents, records | one loop: propose, backtest, rescore, record, choose parents | evolver, evaluator, scorer, ledger |
| Local evolver (`evolution/local.py`) | none between calls | propose a batch | experiment runner |
| Backtester (`backtest.py`) | none between calls | request a window, score it with a one-day lag | an executor |
| Scoring adapter (`scoring.py`) | none | score a group | external gate runner |
| Command line (`cli.py`), summary (`summary.py`) | the summary file | validate, preflight, run-local | all of the above |
| Candidate validator (`candidate.py`) | none | a walk over the syntax tree | executors, evolver, command line |

Where the hard behaviour is:

* **Concurrency.** The driver, the stderr drain, the wall-clock timer and a
  cancellation by the caller interleave in one event loop, against a worker and
  a launcher that run and die on their own. Delete tasks outlive the call that
  started them. The thread of a cancelled remote call outlives it and shares the
  token cache with the next call's. Two processes may open one ledger, or write
  one summary.
* **Failure.** Spawning, writing to a dead process, short streams, nonzero exit
  codes, deletes that fail or time out, torn writes, power cuts, exceptions
  between execution and recording, a platform that throttles, gives up on a
  request that its instance goes on with, or stops the instance.
* **Ordering.** No bar before the portfolio for the previous one. Fsync before
  an append returns. Delete after the launcher is dead. Parents chosen from the
  last rescoring.
* **Timeouts.** The execution timeout, three rungs of the stop ladder, a bounded
  drain, bounded and retried deletes, a transport deadline over naps and
  retries with a timeout per socket operation inside it, and waits with no
  bound at all: the one after `kill()`, the lookup of the broker's host.

`PROJECT.json` lists the hazards, each at the line where it bites, with the
properties that cover it, and the findings.

## 2. Modules

| Module | What it models | Runs |
| --- | --- | --- |
| `NoLookAhead` | abstract: what any sandboxed execution promises about bars, portfolios and its verdict | (as `KeepsPromise`) |
| `DriverCall` | abstract: what a call of the process driver promises of the one launcher it starts | (as `KeepsCall`, and inside Cleanup) |
| `Lockstep` | one call of `JsonlProcessDriver.execute` with the worker, the launcher and the pipes | Lockstep* |
| `SandboxCleanup` | what the two sandbox executors do around any call that keeps `DriverCall` | Cleanup |
| `JsonlLedger` | the ledger file and the runs that share it | Ledger*, RunLocal |
| `RunLocal` (`MCRunLocal`) | the command run-local around `JsonlLedger`: the summary file, exit codes, runs that overlap or not | RunLocal |
| `AtMostOnce` | abstract: what a remote call promises about executions of its candidate | (as `KeepsAtMostOnce`) |
| `Broker` | the Cloud Run client, the platform and the broker service | Broker* |
| `Experiment` (`MCExperiment`) | the experiment runner with the local evolver | Experiment* |
| `Backtest` | the backtester over any executor that keeps `NoLookAhead`, window after window | BacktestWindows |
| `LockstepProofs`, `LedgerProofs`, `RunLocalProofs`, `BrokerProofs`, `CleanupProofs`, `BacktestProofs`, `ExperimentProofs` | theorems about the modules they extend | |

### Lockstep

`pc` is the position in `execute`: `spawn`, then `send`/`await` once per frame,
`exit` and `wait` for `process.wait()` after `stopped`, `stop`, `grace`, `term`,
`reap` for the rungs of `_stop_process`, `stderr` for the bounded drain, `done`.
`cursor` numbers the frames: 0 is initialize, k is bar k-1, `NumBars + 1` is
stop. Each `await` in the code is a boundary between actions; what lies between
two of them is one action. `Refuse` covers the four checks a response line can
fail, and `AcceptReady`, `AcceptWeights`, `AcceptStopped` the ways it can pass.
The worker's `run()` is `Load`, `ReadRequest`, `Answer`, `EndOfRequests`,
`WorkerExits`. `ReadRequest` and `Answer` are two steps so that the candidate
may crash, time out or write unasked lines in between.

Abstractions: a portfolio is valid or not, so `validate_weights` is a Boolean of
the line; a line has size 1 or a size no reader accepts, so bytes become line
units; the strings of errors and `stderr_tail` are left out. A candidate that
writes to the protocol stream itself is external (`Stray`), bounded by
`StrayLimit`; stderr writes are bounded by `ChatterLimit`, cancellations by
`CancelLimit`.

`fault` is a history variable: the candidate, the worker or the launcher has
done something an honest one does not. `HonestNeverBlamed` is about the
executions without it, in a run where every fault is possible: such a call is
not blamed, and it raises only from the ladder, when the clock, the output limit
or a cancellation has brought it there.

Two abstract specifications are implemented. `KeepsPromise` maps the frames and
the verdict to `NoLookAhead`. `KeepsCall` maps `pc` to the stage of the call
(`Stage`: idle, running, stopping, draining, over) and says, with `DriverCall`,
what becomes of the launcher: the exchange is always followed by the ladder, the
ladder by the drain, the end or an exception of its own (`LadderRaises`) only
when the launcher is dead, and nothing but a cancellation ends the ladder before
that.

Four facts about CPython's asyncio are part of the model. A `Process.wait()` begun while the process runs resolves only when
all its pipes are disconnected (`Disconnected`), and returns at once when begun
later. A `StreamReader` stops reading its pipe when it has buffered more than
twice its limit, and a pipe that is not read reports no end of file
(`StdoutClosed`). `drain()` on a pipe whose reader is gone raises
`ConnectionResetError` (`SendBreaks`). A timer of the ladder that fires after the
transport was closed, but before the wait that this resolves has run, leaves
`terminate()` or `kill()` without a process, and they raise `ProcessLookupError`
(`SignalFindsNobody`); where only the process has ended, they do nothing
(`GraceExpires`, `TermExpires`). The project pins Python 3.12, whose
`asyncio.base_subprocess` and `asyncio.streams` behave so.

Not modelled: back-pressure in `drain()` (a worker that never reads is
covered by `Timeout` at the following `await`), a cancellation during the spawn
itself (asyncio then kills the process), and a last line without a newline at
end of file (refused like any invalid line).

### SandboxCleanup

`execute()` of both executors is the same code but for the delete. `executor`
says which of the two made the call: `Attempts` is `CleanupAttempts` for
`_delete_sandbox`, which also checks the exit status (`ChecksStatus`), and 1 for
`_delete_container`, which ignores the status of `docker rm`.

The driver is `Driver`, an instance of `DriverCall`: its `stage`, `outcome` and
`launcher` are state of this module, and every action that moves them takes a
step of `DriverCall` (`DriverStarts`, `DriverUnavailable`, `DriverProceeds`,
`CancelCall`, `LauncherExits`, `LauncherDies`). `Lockstep` implements
`DriverCall` (theorem `CallRefinement`), so what is shown here holds around the
driver as it is, and around any other that keeps the promise. A cancellation in
the exchange still runs the ladder; one in the ladder or in the drain ends the
driver's call (`CancelCall`; `cut` remembers whether the launcher was still
alive). A first cancellation of the shielded delete starts a second wait for it,
and any further one cancels the delete task itself (`CancelDelete`). The
launcher creates the named sandbox some time after it was started (`created`),
and the sandbox may outlive it.

`SandboxLeftOnlyIf` says when a sandbox may outlive its call. Its first case is a
delete that ran to its end without a success: for Cloud Run only after all its
attempts, for a container after the one it has. The `docker rm` that failed
unseen is in that case, so for a container it promises less: it excludes that
the delete is skipped, cancelled by a single cancellation, or run before the
launcher is dead, and not that it fails.

The third case of `SandboxLeftOnlyIf`, `cut`, is at odds with ADR 0004
(`docs/adr/0004-cloud-run-nested-sandbox-broker.md:63-65`, "force-deletes that
exact sandbox in a cancellation-shielded `finally` path after [...] request
cancellation"): a cancellation inside `_stop_process`, which catches
`TimeoutError` only, leaves the launcher running, and the delete may come before
the launcher has created what it deletes. It takes a launcher that is slower to
create a sandbox than the delete is to look for it.

### JsonlLedger

`Open` is the constructor with `_load_existing`; `CliStart` and `LibraryStart`
are the two ways a run goes on, with and without `has_experiment`. One `append`
is `AppendWrites` (write and flush), `Fsync`, `Remember` (the key joins
`_keys`, the call returns), or `AppendRefused` for a known key. `AppendTears` is a
write cut short, `Dies` a killed process, `PowerCut` a stopped machine, which
loses unsynced writes from the end. A file is the sequence of writes; `form`
says whether a write is whole, partial, or lacks its newline only. The three
cases differ in what `_load_existing` accepts: a partial record never parses,
one without its newline does if it is last. `exp` is chosen freely, so two runs
may name the same experiment.

### RunLocal

`_run_local_async` is `CheckSummary` (an existing summary is refused before
anything runs), `PreflightFails` (program, runtime and image checks),
`OpenLedger` and `StartRun`, which are the ledger's own `Open` and `CliStart`
together with the command's reaction to them, `AppendRecord`, which is any step
of the ledger's append, and then the three steps of `write_json`:
`CreateSummary` (`open("x")`), `WriteSummary`, `SyncSummary`. A run with path
`NoPath` is a caller of the library: it neither asks `has_experiment` nor
writes a summary. `SummaryFails` is an exception of `from_result` or of the write,
or a kill; `PowerFails` extends the ledger's `PowerCut` to the summaries.
`LocalSpec` therefore implements the ledger's `Spec` (theorem `LedgerKept`),
and everything proved of the ledger holds of run-local.

A summary is absent, partial (created, perhaps part of the text) or whole.
`exit` tells the ends of a run apart: "completed", "error" (exit code 2 before
or during the experiment), "late" (the path was taken when the summary was to
be created, the work already done), "killed". Whether a completed run exits
with 0 or 1 depends on its scores only and is left out. fsync of a new file is
taken to keep its directory entry, which ext4 and xfs do in practice and POSIX
does not promise.

`overlapped` is a history variable: a run started while another one was
running. Properties named `Alone...`, and `WorkIsSaved`, are about runs that do not.

### Broker

One module for three parties. The client is `execute()` and `_execute_sync()`
in a thread of its own: `token`, `fetch`, `store`, `expiry` are the stages of
`_identity_token`, `send`, `wait`, `sleep` those of the loop over throttled
requests. A call whose await is cancelled (`Cancel`) returns at once, its
thread goes on, and the next call shares `_cached_token` and `_token_expiry`
with it; their assignments are two steps, `StoreToken` and `StoreExpiry`.
The service handles one request at a time from a `backlog`: `ServiceRejects`,
or `ServiceExecutes` and `ServiceAnswers`. The platform between them is external
and may do what Cloud Run documents: refuse with 429 or another error before
dispatch, give up on a request while the instance goes on with it (the client
left, or the platform's own timeout), lose the instance, answer nobody. Deployed
with one instance and concurrency 1, it dispatches one request at a time, but a
request it gave up on may still be served when the next one arrives.

One attempt is `urlopen(timeout=granted)` (`cloud_run.py:124`), `granted` being
what `Send` finds left of the deadline, and it is as long as urllib, http.client
and socket make it. The lookup of the host (`lookup`) is under no timeout.
`socket.create_connection` gives each address the whole of `granted`, and so
does the TLS handshake after it (`connect`, `NextAddress`); so has each operation
that sends the request or reads the response (`wait`, `Trickle`). A redirect is
followed by urllib with a lookup and a connection of its own and, for a POST, a
GET that executes nothing (`Redirect`, `RedirectAnswered`; one for each request
here, ten in urllib). The attempt ends in a response, a broken connection
(`ConnectionFails`), or when one operation took all of `granted`, a connect only
at the last address (`TimesOut`).

Time passes in units, by `Tick`, and only while every thread waits for
something. `left` is what remains of the deadline, below zero when it has
passed; `timer` of the current nap or of the socket operation under way, which
every new operation restarts (`Restart`); and `overrun` is a history variable,
what the request under way had taken before that operation began.
`LateByLastRequest` states how late a thread may be with it: by no more than
`overrun`, whatever the attempts, naps and requests before. `cachedLife` is the
true life left of the cached token and `assumedLife` the one `_token_expiry`
gives it; a token that
names no expiry is assumed to live `Fallback` from before it was fetched. With
`Auth` false the token stages are skipped.

A result is any of: the result, a result for another program, a body that is no
result. Requests are told apart by call and attempt, so that a late answer to
an earlier attempt cannot be taken for a newer one's.

### Experiment

One generation is `Propose`, one `Backtest` per proposal, `Rescore`, one
`AppendRecord` per proposal, `SelectParents`. `Proposals` is the set of batches
`LocalEvolver.propose` may return: distinct seeds first, then mutations of a
parent, none seen before; the seeded random choice among them is a
nondeterministic one. A program is its one numeric literal. Scores are any
assignment of rewards to trials, chosen anew at every rescoring. `Faulty`
lets the executor, the scorer and the ledger raise, and `ProposeExhausted` is the
evolver giving up. Seeds are taken to pass the validator.

The loop over the seeds is written without recursion, so that it can be proved
about: `FreshSeeds` are the places where a seed occurs for the first time,
`Before` counts those in front of one, `TakenSeeds(n)` are the first n, and
`SeedProposals(n)` lists their programs in order.

### Backtest

`evaluate` after its horizon check is a loop over windows: `BuildRequest`, the
executor's steps (`Execute` is any step of `NoLookAhead`, the specification
`Lockstep` implements), then `WindowFails` or `ScoreWindow`, and `Summarize` at
the end. A day is its index in the market. A row that is revealed, a return and
a spread are the indices they are read at, and a portfolio is the pair of the bar
it claims to answer and the last bar its author had been shown, so that
look-ahead is a comparison of indices. `Results` lets an executor that is
not a local process (the broker client parses what a service answers) hand back
fewer frames, or all of them in another order; `Contiguous` is the check that
must refuse them. `from` is the portfolio a day's trade starts at
(`previous_weights`, which every window sets to zero) and `sold` the row whose
spread the liquidation at the end of a window is charged; `Flat` stands for no
portfolio and no sale. A portfolio whose weights are all zero, for which both
charges are zero, is not told apart.

## 3. Runs

| Run | Bounds | What it shows |
| --- | --- | --- |
| LockstepFaults | 2 bars, output limit 4 (exactly what an honest candidate writes), 1 stray line, 1 chatter unit, 1 cancellation, every fault | types; `CandidateNotAhead`, `CompletedIsWhole`, `NoLauncherLeft`, `HonestNeverBlamed`; implements `NoLookAhead` (`KeepsPromise`) and `DriverCall` (`KeepsCall`); `ReturnsOrKills` under fairness |
| LockstepRaises | 2 bars, faults | violation of `TypedResults` |
| LockstepHangs | 1 bar, honest candidate, launcher that must be killed | violation of `EveryCallReturns` |
| Cleanup | both executors, 3 attempts or 1, 3 cancellations, every fault | types; `SandboxLeftOnlyIf`, `FileOutlivesLauncher`; `DeleteEnds` under fairness |
| RunLocal | 3 runs, 2 experiments, 2 trials each, 1 path or none, partial tears, the third run may overlap | types; `AckedIsDurable`, `AppendOnly`, `SummaryTellsLedger`, `CompletedIsDurable`, `SummaryNeverReplaced`; for runs that do not overlap `AloneReadable`, `AloneNoDuplicates`, `AloneOneRun`, `WorkIsSaved` |
| LedgerGlued | 2 runs one after the other, a tear that loses the newline only | violation of `AckedIsReadable` |
| LedgerDuplicates | 2 runs at once, no crash needed | violation of `NoDuplicates` |
| ExperimentHistory | 3 generations of 2, budget 5, elite 2, two rewards, every exception | types; `BudgetIsExact`, `LedgerIsHistory`, `CompletedIsRecorded`, `LineageIsClosed`, `NoProgramTwice`, `ParentsAreBest` |
| ExperimentUnrecorded | the same, one reward | violation of `EveryProposalRecorded` |
| BacktestWindows | 4 windows of 2 days, 2 days of warm-up, 10 days, every `asOf` | types; `OneSessionLag`, `EveryDayOnce`, `EveryTradeCharged`, `RowsAreThere` |
| Broker | 2 calls, 1 retry, budget 2, nap 1, margin 1, lifetimes up to 2, requests that last at most 1 beyond their last operation (`OverrunLimit`), one redirect each, either call may be cancelled | types; `LateByLastRequest`, `TokenOutlivesMargin`; implements `AtMostOnce` (`KeepsAtMostOnce`); `EveryCallEnds` under fairness |
| BrokerRaises | 1 call | violation of `TypedFailures` |

Why these bounds are enough to be interesting. Two bars are the fewest for
which an answer can be stale or early. An output limit of 4 is met exactly by
initialize, two bars and stop, so the boundary of the limit occurs, and one
chatter unit goes over it. One stray line is enough for an answer written
before its request; filling the reader's buffer takes two (finding 2). Two
cancellations are needed to reach the delete through the shield, a third for
one in the ladder first. Three runs are needed for one that reads what a second
made of a first one's crash; the first two of them start alone (`Alone` = 2),
since three at once add interleavings of the same two, and the theorems cover
them. Two calls are needed for a thread that outlives its own and meets the
next one's token or request; one retry for a request that was throttled before
and one that is throttled for the last time; a budget of two units lets a nap
of one leave time for a second attempt, and one that is due at the deadline
leave none. `OverrunLimit` 1 lets a request go past the deadline by a lookup, by
another address, by a redirect or by progress, and `granted` of 2 lets each of
these restart a timer that has run. Naps that double are beyond one retry; the proofs cover them. Budget 5 with batches of 2 truncates the last
batch; the seeds `<<3, 3, 1>>` repeat one and fit one batch; two rewards are
enough for ties and for a rescoring that reverses a ranking. Four windows are
the fewest the code accepts; it wants 20 days in each and warms up over 253 by
default, of which two keep what matters: a first, a middle and a last bar, and
a warm-up that is longer than the lag. With ten days one `asOf` fits, those
below it lack their warm-up and those above it their horizon.

Two runs that append to one ledger at once break `NoDuplicates`
(`LedgerDuplicates`); `AckedIsDurable`, `AppendOnly` and what the summaries
promise hold for them as well, in the run and by the theorems below.

### Fairness

`Lockstep!FairSpec` assumes that the event loop runs the driver's enabled
steps and its timers, and that a launcher sent SIGKILL ends.
It assumes nothing of the worker or the candidate, which may stay silent for
ever, and nothing of a launcher that has not been killed: one that ignores SIGTERM may
do so for ever. `SandboxCleanup!FairSpec` assumes
that the loop starts the delete command, wakes from its pauses and fires its
five-second timer; it assumes nothing of the command, the launcher, the exchange
or the sandbox. Both are what asyncio's scheduler gives a task that is ready.
`Broker!FairSpec` assumes that a thread runs, that its token provider ends
(gcloud is given 30 seconds; google.auth has a timeout of its own) and that time
passes. It assumes nothing of the platform, the service or the connection:
`EveryCallEnds` rests on the deadline, and on `OverrunLimit` for what a single
request does beyond it. That bound is the code's and its libraries' own, not a
promise of the network: a resolver gives up after its tries (`WF` of `LookupEnds`,
which is part of the thread's fairness), the addresses of a host are finite,
urllib follows ten redirects, and a response trickles in at most
`max_response_bytes`. Without it the property would fail.

## 4. Findings

Every finding is a run with `expect: violation`, which checks one statement
quoted from the repository.

1. `LockstepRaises`: `SandboxExecutor.execute` promises a typed result for
   every candidate failure (`executors/base.py:82`, ADR 0001), but a launcher
   that dies between an answer and the next request raises
   `ConnectionResetError` out of `drain()` (`process.py:208`). A second way to the
same violation is `SignalFindsNobody` (`process.py:249`, 253).
2. `LockstepHangs`: the wait after `kill()` (`process.py:254`) has no bound and
   waits for the pipes too. A sandbox that survives its killed launcher keeps
   the call, and the force-delete that would end that sandbox comes after it.
   `ReturnsOrKills` says that this wait is the only place where a call can stay.
   With `StrayLimit` 2 the model reaches the same end without a surviving
   sandbox: two over-long lines the driver did not read pause its reader, and a
   paused pipe is never seen to disconnect.
3. `LedgerGlued`: a last line that lost only its newline is loaded as a whole
   record, and the next append is written onto the same line (`ledger.py:143`).
4. `LedgerDuplicates`: two processes on one ledger append the same experiment
   and index, because each checks only what it loaded (`ledger.py:139`).
5. `ExperimentUnrecorded`: proposals that were executed have no record when the
   executor, scorer or ledger raises (`experiment.py:168`), against ADR 0003.
6. `BrokerRaises`: `subprocess.TimeoutExpired` of the gcloud provider, the errors
   of google.auth, `http.client.HTTPException` and an `AttributeError` of
   `_jwt_expiry` are not in the list at `cloud_run.py:173` and reach the caller,
   against ADR 0004 ("Transport, authentication, malformed broker responses, and
   unavailable sandbox launchers become typed executor results").

Three observations that are part of a passing property rather than a finding.
`LateByLastRequest` lets a thread be late by what its last request took before
its last operation: `reports/cloud_run_parity_v0_1.md:78-79` speaks of "one
overall transport deadline", and urllib starts the timeout that is cut to it
anew for each address of the host and each operation that follows, and not at
all for the lookup. `TokenOutlivesMargin` holds until two threads fetch a token at once: then the
token of one may stay with the expiry of the other. A 401 does not clear the
cache, and a token with just over a minute left may expire while the request
is retried or queued; the caller gets UNAVAILABLE until the cached expiry passes.

## 5. Proofs

The theorems hold for every value of the constants allowed by the modules'
assumptions (`BoundsAssumption`, `LedgerAssumption`, `PathAssumption`, `BrokerAssumption`,
`CleanupAssumption`, `BacktestAssumption`, `ExperimentAssumption`), which say that bounds are natural
numbers, switches Boolean, and little more.

**LockstepProofs.** `TypeCorrect` proves `TypeOK`. The inductive invariant is
`IInv`, which adds to the types and the two results:
*Exchange*, the number of frames and of revealed bars as a function of the
cursor; *Horizon*, that no request, line or accepted frame is dated later than
what has been revealed; *Healthy*, that a call still marked completed after
the exchange has every frame and has seen exit status zero; *Ladder*, that the
drain after the ladder is reached with a dead launcher only.
`CandidateNotAhead` is not inductive: it speaks of accepted frames, and a line
still in the pipe could carry knowledge of a later bar unless Horizon says
otherwise. From `Invariance` follow `NoLookAheadHolds`, `CompletedHolds`,
`NoLauncherLeftHolds` and `Refinement` (`Spec => KeepsPromise`): every step of
the execution is a `Reveal`, a `Fix`, a `Conclude` or a stutter of
`NoLookAhead`. `CallRefinement` (`Spec => KeepsCall`) needs no invariant: the
guards of the ladder alone make each of its steps one of `DriverCall`, because
a wait resolves only for a dead launcher and a timer that finds it alive goes on
to the next rung.

`HonestNeverBlamedHolds` has an invariant of its own, `Honest`, over the
executions without `fault`. *Alternating*: at each cursor there is one request
on its way to the worker (*Asked*) or its one answer of one unit on its way back
(*Answered*), never both, the launcher is alive until the loop is over, and the
bytes counted on stdout are the cursor. Without it the claim is not inductive:
a second line, or a launcher dead at `send`, would be blamed on the candidate.
*Charged*: every unit of stderr is counted or on its way, so the last check of
`execute` charges at most what the candidate wrote. *Blame* carries the verdict
through the ladder and the drain, and with it what brought the call to a rung
that may raise. It holds for any interleaving of the worker,
the drain, the clock, the ladder and cancellations.

**LedgerProofs.** `TypeCorrect` needs `Room`, that a run which may still append
has an index left. `AckedIsDurableHolds` needs `UnderWay`: between its write and its
acknowledgement, an append's record is in the file, and after the fsync in its
synced part, whatever other runs append meanwhile. `AppendOnlyHolds` is the action
property that the synced prefix is never rewritten.

**RunLocalProofs.** `LedgerKept` proves that every step of run-local is a step of
the ledger or leaves it alone, so `LocalAckedIsDurable` and `LocalAppendOnly`
follow from the ledger's theorems. *Typed* adds to the ledger's invariant where
each run is, in both specifications at once (*Agree*), and which of its records
are acknowledged (*Recorded*). *Owned* says whose each summary is: a file that
exists belongs to a run that has finished its experiment, and a run that is
writing one finds there what it wrote last. From it follow
`SummaryNeverReplacedHolds`, `CompletedIsDurableHolds` and, with *Recorded* and
the ledger's durability, `SummaryTellsLedgerHolds`, all for any number of
overlapping runs. *Single* says that while `overlapped` is false one run at most
is running and its path is free, which is `WorkIsSavedHolds`. *Sole* adds that
the running run knows the key of every line, the induction behind
`AloneNoDuplicatesHolds` and `AloneOneRunHolds`: neither is inductive without
it, because the code checks only what it loaded. `AloneReadableHolds` assumes that no
write loses its newline only (`NoLostNewline`), without which it is false (finding 3).

**BrokerProofs.** *Underway* is the invariant: a call has at most one request
that may still be executed, among those held by the platform, dispatched and in the
instance's backlog together; none while the client is about to send; a reply
"throttled" means that its request was not dispatched; and executions were
counted only for requests that were served. `KeepsAtMostOnceHolds` is then the
refinement of `AtMostOnce` step by step. `TokenOutlivesMarginHolds` needs
*CacheIsSafe*: the assumed life of the cached token never exceeds the true one,
also between the two assignments. `LateByLastRequestHolds` needs
*TimersMeetDeadline*: the timer of a nap never outlasts the time left, and that of
a socket operation outlasts it by `overrun` at most, because a request was
granted no more than what was left and has used the rest of it since. All three
hold for any number of calls, retries and any naps.

**CleanupProofs.** The inductive invariant relates the stage of the call to the
launcher and to the delete (*Before*, *During*) and says of a finished delete
why a sandbox may still exist (*Progress*). `SandboxLeftOnlyIfHolds` holds for any number of
attempts and cancellations; `FileOutlivesLauncherHolds` for any as well. The
driver enters through `DriverCall` only, so with `CallRefinement` the two hold
of the executors around `Lockstep`.

**BacktestProofs.** *Answers* is what the executor's promise says of the frames
of the window under way (the sequences are 0, 1, 2, ... and no portfolio knows a
bar after its own), *Position* that windows are only begun in a horizon that
fits, *Covered* that the days scored so far are those of the windows before
this one, and *Charged* that exactly the days whose number is a multiple of the
window length are sold, and exactly those after them traded from nothing. `OneSessionLagHolds` is then arithmetic on one window: a contiguous
result has its k-th frame at place k, so the day at offset o is scored with the
frame of bar start + o - 1. It covers results a remote executor reordered
or cut, because those are not contiguous. `EveryDayOnceHolds` and `RowsAreThereHolds`
come from *Covered* and *Position*, and `EveryTradeChargedHolds` from *Charged*,
for which no day strictly inside a window may end one (`EndsAtLastDay`).

**ExperimentProofs.** The inductive invariant has five parts. *Counted*: before
generation g the trials are the smaller of the budget and g batches, and a batch
under way has the size the code truncates to; `BudgetIsExactHolds` is the last
of these quotas (`QuotaGrows`, `QuotaFull`). *Recorded*: the records are a prefix
of the trials, complete except while a generation is being recorded, and every
trial still without one belongs to that generation. `LedgerIsHistory` is not
inductive without it: the count a record carries must be shown to stay that of
its own generation when later ones are appended. `CompletedIsRecordedHolds`
follows from both. *Ranked*: the parents are `Elite` of the last scores.
`ParentsAreBestHolds` then rests on lemmas about places in a finite set with a
strict total order (`PlacesOrdered`, `PlacesFilled`, `FirstPlaces`): distinct
elements have distinct places, the places are 0 to the cardinality less one, so
those with a place below k are exactly the k first. The same lemmas serve the
seeds (`SeedsTaken`): the first n fresh seeds can be listed without a gap.
*Descended* and *Distinct* say of the batch under way what `LineageIsClosed` and
`NoProgramTwice` say of the trials; `BatchProposed` proves both of every batch
`Proposals` holds, mutants of seeds in the same batch as the seeds included.
A batch with a place for a mutant holds every distinct seed before it, so the
parent of a mutant of a seed is always there.
`RecordedUnlessRaised` delimits finding 5: with `Faulty` false, what ADR 0003 says
of every proposal holds, also when the evolver gives up.

Only model-checked: the liveness properties `ReturnsOrKills`, `EveryCallReturns`,
`DeleteEnds` and `EveryCallEnds` (TLAPS proves no liveness under fairness), and
the violations. Every invariant and every action property of the passing runs
is the statement of a theorem. TLAPS cannot do induction over data, so nothing
is proved of what a fold computes (`Backlog`); no proof depends on it.

## 6. Plan

1. The ledger as `Experiment` uses it: `AppendRecord` and `AppendRaises` as steps
   of `JsonlLedger`'s append, so that what is proved of the file and what is
   proved of the history compose into one statement about a run's file.
2. What delimits the other findings: under which condition, weaker than "nothing
   fails", `AckedIsReadable`, `TypedFailures` and `TypedResults` hold.
3. Theorems on what a cancelled `Lockstep` call leaves behind, beyond
   `KeepsCall`: which unread output and which requests.

## 7. Not modelled

Scoring and the statistics of a backtest (floating point), the
candidate validator (a stateless walk over a syntax tree), images, packaging and
the repository hygiene script.
