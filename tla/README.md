# Optimum Advisor in TLA+

TLA+ specifications of Optimum Advisor (a Rust program that measures LLM
serving configurations: it starts an engine for every candidate, checks its
answers, benchmarks it, ranks the candidates and writes a report), the TLC
models that check them and the theorems TLAPS proves about them.

File and line references are to the repository (`src/app.rs:1300` is line 1300
of its `src/app.rs`; `PROJECT.json` writes it `src/src/app.rs`).

## 1. The system

### Components

| Component | Source | State it keeps | Operations | Here |
| --- | --- | --- | --- | --- |
| Lease scheduler | `src/sweep.rs` | pending demands, active allocations (GPUs, lane, port) | `new`, `next`, `release`, `update_host_port` | `LeaseScheduler`, `GpuPool` |
| Parallel sweep | `src/app.rs` `execute_parallel_sweep` | scheduler, result channel, `completed`, `next_commit`, `coordination_error`, token `workers` | dispatch, receive, commit, drain, join | `ParallelSweep` |
| Trial execution, managed server, correctness check and `serve` | `src/app.rs` `execute_trial*`, `run_serve`, `src/runtime/server.rs` | port listener, server process, failure, metrics, correctness | start, wait ready, correctness, benchmark, stop, report | `TrialExecution` |
| Run life cycle | `src/app.rs` `run_evaluation_with_cancellation` | run directory, report, token | preflight, execute, install winner, finish, submit | `EvaluationRun`, abstract `RunRecord` |
| Run report | `src/results/report.rs` | state, trials, winner, submission | `set_preflight`, `push_trial`, `finish`, `set_submission`, `checkpoint` | `RunReport` |
| Process executor | `src/runtime/process.rs` | child, drain threads, process group | `spawn`, `try_wait`, `wait`, `terminate`, `finalize`, drop | `ManagedProcess` |
| Owned containers | `src/runtime/docker.rs`, `src/engines/managed.rs` | names and labels at the Docker daemon | run, remove, list and remove | `OwnedContainers` |
| Atomic writes | `src/runtime/atomic.rs` | temporary file, destination | create, write, sync, rename, sync parent | `AtomicFile`, abstract `AtomicRegister` |
| Schema cache | `src/runtime/params.rs`, `docker.rs` | one file per engine and image | resolve, look up, inspect, write | `ParameterSchemas` |
| MCP server | `src/mcp/protocol.rs` | life cycle, active request, pending cancellations | read, cancel, begin, finish, dispatch | `McpServer`, `BoundedLines` |
| MCP tools on runs | `src/mcp/tools.rs` | none | summarise, list (not modelled), rank | `RunBrowser`, `Ranking` |
| Cancellation tokens | `src/runtime/cancel.rs` | flag and ancestors' flags | `child`, `cancel`, `is_cancelled` | in every module with a token |
| Sanitizer | `src/runtime/sanitize.rs` | escape state, retained bytes | `push`, `finish` | `StreamSanitizer` |
| Sweep expansion | `src/domain/candidate.rs` | none | product, bound, duplicates | `SweepExpansion` |
| Ranking | `src/results/metrics.rs` | none | `compare_observations`, `select_best` | `Ranking` |
| Correctness documents | `src/inspection/correctness.rs` | result files | `collect_results`, probes | `CorrectnessGate` |
| Leaderboard and credentials | `src/leaderboard/` | none | token sources, two-request submission | `Credentials`, its outcomes in `EvaluationRun` |
| Hugging Face Jobs | `src/hf_jobs.rs`, `src/cli/args.rs`, `src/config/` | none | validate, forward, bootstrap | `HfJobs` |
| Host inspection | `src/inspection/hardware.rs`, `model_memory.rs`, `docker.rs` | none | image identity, GPUs, memory | `HostInspection` |
| Rest of configuration and command line, artifacts, Python probes | the rest | none | parsing, formatting, I/O | not modelled |

### How they interact

A run (`run_evaluation_with_cancellation`) checkpoints a report, resolves the
image, hardware and parameters (each through the process executor), expands
the candidates and hands them to the sequential loop or, for a local Docker
sweep, to the parallel sweep. The parallel sweep is one coordinator thread and
one worker thread per leased trial. The coordinator owns the scheduler, the
report and the progress stream; a worker owns its trial, its port listener and
its engine, and gives back exactly one message, `(index, outcome)`, over an
mpsc channel. Cancellation flows down a chain of tokens: the caller's (signals,
or an MCP request), the sweep's, the worker's. Docker, the GPUs, the TCP ports
of the host and the file system are shared with the rest of the machine.

### What is hard

The behaviours worth a model are listed, each at its line, under `hazards` in
`PROJECT.json`, with the properties that cover them. The main groups:

- interleaving of the coordinator with workers that end in any order, of the
  operator's cancellation with both, and of other processes that take ports;
- error paths that must give a lease back and still let the loop end;
- order: outcomes arrive out of declaration order, the report is in order;
- resources: GPUs, lanes, ports and containers that outlive their trial;
- a crash, or an I/O error, between two checkpoints of the report;
- process groups whose members ignore signals, pipes that stay open;
- MCP cancellations that race the request they name, in a list of 64.

### What makes each component correct

- Scheduler: leases are disjoint; every demand is leased once or stays
  pending; it is a GPU pool and nothing else.
- Parallel sweep: no GPU or port is used twice, up to what a failed removal leaves
  behind; a lease outlives its worker; no call of the scheduler is refused;
  the report is a faithful prefix; `Ok` means every trial was saved; it always
  returns, with nothing left running; it does not leave usable GPUs idle.
- Run: the saved report moves `running` to one final state once, whatever
  fails; a completed run has its winner installed.
- Trial: a success was measured on the engine that was started; no end of a
  trial leaves that engine running; the first failure is the one reported.
- Process executor: when a handle is given up its child has ended and was
  reaped; `Ok` means its own success with all of its output; a call that has a
  reason to stop returns.
- Containers: a run removes its own; a cleanup that says `ok` left nothing of
  what it listed.
- Atomic writes and the schema cache: a file is always the old or the new
  content; what was validated is what runs.
- MCP: a cancellation cancels the request it names and no other; requests are
  answered in order, once.
- Calculations: a stream is what it is however it is cut; a sweep is its whole
  product, once; a verdict rests on a complete measurement; all rankings agree;
  a remote job does what was asked; a credential in front is never passed over.

## 2. What is modelled

### `LeaseScheduler` (`src/sweep.rs`), abstract specification `GpuPool`

| Code | Model |
| --- | --- |
| `devices`, `ports`, `cap` | `NumGpus`, `lanePort`, `maxParallel`, `Cap` |
| `pending: Vec<TrialDemand>` | set `pending`; `new` refuses demands that are not in index order and `next` only removes, so the vector is that set in increasing order |
| `active: BTreeMap` | function `active` from leased trials to `[gpus, lane, port]` |
| `next` | `Lease(i)`: below the cap, the first pending trial that fits; it leaves `pending` *before* the lane lookup, whose early return is the `FreeLanes = {}` branch |
| `release`, `update_host_port` | `Release(i)`, `UpdateHostPort(i, p)`; a call that is refused changes nothing here, and `ParallelSweep` has what its caller then does |

`GpuPool` says what this is for: a waiting trial receives, once, a set of free
GPUs of the size it asked for, and gives the whole set back. `ImplementsPool`
is the refinement, with `owner[d]` read off the active allocations.

### `ParallelSweep` (`execute_parallel_sweep` and what it calls)

`pc` places the coordinator: `top` (head of the `while`), `dispatch` (before
`scheduler.next()`), `reserve` (with the lease of `turn`), `await`
(`recv_timeout`), `commit` (the inner `while let`), `join`, `returned`.

| Code | Action |
| --- | --- |
| `while` condition, cancellation check, inner `while` condition (1328-1334) | `LoopHead` |
| `scheduler.next()` (1335) | `DispatchLease(i)`, `NothingToDispatch` |
| reserve, update, announce, spawn (1346-1424) | `Spawn`, or `DispatchFails` for each of its error exits |
| nobody active (1426-1433) | `LoopBreak` |
| `recv_timeout` (1435-1490) | `Receive`, `ReceiveTimeout` |
| commit loop (1472-1482) | `Commit`, `CommitDone` |
| join and result (1505-1527) | `Return` |
| `execute_trial` in the worker | `LoadEngine(i)`, `EngineReady(i)`, `Conclude(i)`, `ConcludeOrphaned(i)` |
| signals or a cancelled request | `OperatorCancels` |
| other processes of the host | `ForeignPorts` |

A worker is `unspawned`, then `reserved` (its listener is bound), `loading`
(the listener is dropped and the engine has not bound the port), `serving`, and
finally an outcome: `success`, `failed` (a failed trial), `interrupted` (a
failed trial whose cause is cancellation) or `error` (`execute_trial` returned
an error or panicked). `Finish` sends the outcome as the last thing a worker
does. `given` is the worker's copy of the allocation. The tokens are the
caller's (`operatorCancelled`) and the sweep's (`workersCancelled`); a worker
sees either. `saved` is how many trials `report.json` holds.

The kinds of trouble are a constant, `Faults`, so that a run can say which
world it is about. `Abort` stands for `workers.cancel()` with a
coordination error. The code also has errors for what should never happen: a
trial dispatched twice, a port of another lease recorded, an outcome of a trial
without a lease, a pending trial that cannot be placed, a sweep that ends healthy
and incomplete. Each is a branch of its action, taken when the state calls
for it, and ends in the error `"defect"` (`Stumble`): `Spawn` when the work is gone
or `UpdateRefused`, `Receive` when the lease is not held, `LoopBreak` and `Return`.
`LetGo` is `let _ = scheduler.release(index)`, which passes over a refusal. That
none of them is ever taken is not built in; `NeverStumbles` shows it. One has no
branch: a channel that is disconnected while the coordinator holds a sender.

Abstracted: what happens between the stages of a trial, the contents of an
outcome, the wording of progress lines and warnings, time (a timeout is a step
that may always happen), and the distinction between causes of a coordination
error other than interruption.

### `TrialLog`, the contract of executing trials

Trials are logged in declaration order, none while an earlier one is not
durable, and execution succeeds only with all of them logged and durable.
`ParallelSweep` implements it (`report`, `saved`, the result of the sweep), and
so does the execution stage of `EvaluationRun`, whose parallel branch is nothing
but the steps of this contract. That is how the two detailed models compose.

### `RunReport` and `EvaluationRun` (`src/results/report.rs`, `src/app.rs:319-524`)

`RunReport` holds the report as a record and its operations as pure operators:
what each produces, and the condition under which the code does not refuse
(`CanPush`, `CanFinish`, ...). `Valid` is `validate`. A trial is its index,
whether it succeeded and a score, the better the higher; `recompute_best` folds
the same comparison over all trials after each push, which is one more step of
the fold (`Beats`).

`EvaluationRun` is a run, `pc` its place:

| Code | Action |
| --- | --- |
| first checkpoint (336-348) | `CreateReport` |
| `evaluation_preflight` (350-358) | `Preflight` |
| identity, warnings, scheduler, checkpoint (359-390) | `OpenReport` |
| `execute_sequential_trials` | `StartTrial`, `EndTrial`, `TrialsDone` |
| `execute_parallel_sweep`, as `TrialLog` | `SweepTrial`, `TrialsDone` |
| token, winner (412-446) | `Decide` |
| `install_best_config`, `set_best_config_path` (447-449) | `InstallBest` |
| `finish`, checkpoint (450-456) | `FinishReport` |
| `finish_failed_report` | `FinishFailed` |
| `submit_report` | `SubmitReport` |
| `set_submission`, checkpoint (477-509) | `RecordSubmission` |
| output lines (511-518) | `Announce` |
| signal, death of the process | `OperatorCancels`, `Crash` |

`disk` is `report.json` and `report` the report in memory; `Checkpoint` changes
the first to the second, and when it fails leaves the old file or, if only the
sync of the directory failed, the new one. Every `?` is a `Fault`, to
`finish_failed_report` (`failing`) or straight out (`returned`), as in the code.
A refusal by the report is modelled too (`"refused"`), so that it can be shown
never to happen. The leaderboard is external: it may receive a report and the
call still fail (`posted`, `answer`). `RunRecord` is what all this promises a
reader of `report.json`. Nothing resumes a crashed run (a new run has a new
directory), so a crash is a step after which nothing happens.

Abstracted: the causes of a failed preflight, warnings, artifacts, times except
a clock that cannot be used, and the login to the leaderboard.

### `McpServer` (`src/mcp/protocol.rs`)

Two threads. The *reader* (`Reader`) turns a line into an event of an unbounded
channel; a cancellation it applies at once, under the mutex of `InFlightState`
(`CancelRequest`). The *dispatcher* (`Dispatcher`) follows `dispatch_messages`:
it looks at the signal, waits for an event with a timeout, answers it or runs
the tool it calls between `begin_request` and `finish_request`, looks at the
signal again and writes. A response to a line that does not parse is an event
like any other, and goes out without the second look. What lies between a
receive and `begin_request` touches nothing the reader sees, so the two are one
action.

| Code | Model |
| --- | --- |
| `InFlightState.active`, `.pending_cancellations` | `active`, `pending` (a set: `cancel_request` admits no duplicates) |
| the token of a request | its membership in `cancelled`; the process's is `signal` |
| `Lifecycle.state`, `.disconnect` | `lifecycle`, `disconnect` |
| the `mpsc` channel | `queue`, events numbered as they are sent |
| the result of `serve` | `outcome` |

A line is its kind and its id; blank lines change nothing. A tool answers,
fails, or, once its token or the process's is cancelled, is interrupted; it may
also finish first. `heard`, `refused`, `notices`, `owed` and `mark` are history.
Left out: the channel closing without a last event, which needs the reader to
panic, and a client that never reads what is written, which blocks the server.

### `ManagedProcess` (`src/runtime/process.rs`, Unix)

One child, its process group, the two threads that drain its output and the
owner of the handle (a stage of a trial, a server, `docker rm`), `pc` its place.
The processes are external and do as processes do: fork, inherit a pipe or not,
close it, exit, die of SIGTERM some time after it was sent unless they ignore
it (`stubborn`). A drain ends when nobody holds its pipe, or fails.

| Code | Action |
| --- | --- |
| `spawn` and its refusals (310-421) | `Spawn`, `SpawnRefused` |
| `wait`, `terminate`, dropping the handle | `Wait`, `Terminate`, `Drop` |
| `try_wait`, called by a server's owner | `TryWait` |
| `wait_for_child` (723-747), first look of `terminate` | `PollExited`, `PollRunning`, `PollFails`, `CheckStop` |
| `terminate_child` (750-788) | `TermGroup`, `GraceReaps`, `GraceExpires`, `KillGroup`, `SignalFails` |
| `terminate_remaining_group` (801-811) | `TermRest`, `KillRest` |
| `finalize` (562-695) | `JoinStdout`, `JoinStderr` (with the `Verdict`), `CleanUp` |

`stop` is `ChildStop` or the error in its place, `outcome` what the call
returns, `cleanup` whether `docker rm -f` was run, `struck` the faults so far.
Left out: the bytes drained and their limits (a secret that is too long or not
UTF-8 is a fault), processes that leave the group, process ids used again, a
`wait` that fails after SIGKILL, and the refusal of a limit of zero.

### `TrialExecution` (`src/app.rs:1531-2053`, `src/runtime/server.rs`)

One engine and the thread that uses it, in one of three modes: a trial, the
correctness-only check, or `serve`. Around the thread live the engine, any
other process that takes its address, the operator and the startup deadline.
`pc` is the thread's place; `served`, `checked` and `measured` are the ends of
stages, where `StageEnds` picks the next one.

| Code | Action |
| --- | --- |
| directory, plan, drop of the reservation (1604-1628) | `Prepare` |
| `ManagedServer::start` | `Launch`, `LaunchFails` |
| `wait_ready`: token, child, probe, clock, in this order | `WaitReady` |
| `trial_stage_begin`, `trial_stage_end`, whose `?` drops the handle | `ProgressFails` |
| LightEval, capability probe, benchmark (each a `ManagedProcess`) | `ClientStarts(c)`, `ClientEnds(c)` |
| `collect_results`, `correctness_gate_failure` | `Collect` |
| `read_benchmark_metrics`, `validate_for` | `ReadMetrics` |
| `is_running` after the workload (1795-1810) | `CheckAlive` |
| `stop`, `merge_trial_failure` | `Stop`, `StoppedEnds` |
| loop of `run_serve` | `ServeLoop` |
| `finish_trial`; the check's report | `Finish`, `CheckEnds` |
| environment | `EngineServes`, `EngineDies`, `ForeignBinds`, `ForeignLeaves`, `Cancel`, `StartupDeadline` |

A probe sees an address and not who is behind it: `Voice` is whoever answers
there, and `heard` collects all who did while a client ran. `visits` records
whether another process had the address before the launch or took it after.
`BringDown` is the end of a handle, on purpose or by drop. Left out: what may
fail before the preflight of a check (`app.rs:552`, `557`), a stop or drop that
never returns because a drain does not, what the stages print, the bytes of the documents (`CorrectnessGate`), and a second
engine; several trials at once are `ParallelSweep`, whose worker outcomes
(`success`, `failed`, `interrupted`, `error`) are those of `Finish`.

### `OwnedContainers` (`src/engines/managed.rs`, `src/runtime/docker.rs`)

Trials of several runs ask one daemon for containers, and the daemon acts in its
own time: a request may be served after its client has gone (`Create` with a
client that has left, `Forget`). A trial is named `optimum-advisor-trial-{index}-server`
and labelled with its index, and of its run neither says anything, which is
what `Name` and `LabelOf` are. A trial goes `Start`, then `EndsWell`, or
`GiveUp` and `Remove`, which removes a name, whoever has it; `Crash` kills a run.
The cleanup command is `List`
(`docker ps -a` with the label filter, or a dry run) and one `RemoveListed` per
name, up to the first that fails.

### `AtomicFile`, `ParameterSchemas`; abstract specification `AtomicRegister`

`AtomicFile` is `atomic_write` on a file system with two worlds: what processes
see (`dir`, `data`) and what a power failure leaves (`dirDisk`, `dataDisk`). Each
system call is an action, each may fail, a writer may be killed between any two
(`Kill`), the power may fail (`PowerFails`), the kernel may write the directory
back early (`WriteBackDir`). The temporary file's guard is part of `WriteFails`;
that it fails to remove the file (`atomic.rs:198`) is left out.
`AtomicRegister` is what a reader may rely on; `ImplementsRegister` is the
refinement, one register per destination.

`ParameterSchemas` puts the writers to use: processes resolve an image
(`Resolve`, `TakeReference`, `ImageExists`, `PullImage`, `InspectImage`), load its
schema (`Lookup`, `ReadCache`, or `Introspect`, `Save`, `Saved`) and start an
engine of it (`StartEngine`), while the tag moves upstream, others pull and
remove the image, and docker commands fail. A schema is named after the image
content it was read from. A cache file that is not whole is an error at each
later load (`poisoned`), which is what makes a torn write matter.

### The calculations (`MCCalculations`)

Code that keeps no state between calls is modelled as operators. A state of
`MCCalculations` is one input, and each property compares what the program
computes with a reference definition or a law.

| Module | Code | Compared with |
| --- | --- | --- |
| `StreamSanitizer` | escape parser and redaction, chunk by chunk | the same text in one chunk; no secret left |
| `BoundedLines` | `read_bounded_line` over any buffers | the lines of the whole stream, each taken or refused by its own length |
| `SweepExpansion` | dimensions, bound, cap, product, keys | every choice of listed values, once |
| `Ranking` | `compare_observations`, `select_best`, the tool `rank_candidates` | one another |
| `CorrectnessGate` | probes and `collect_results` | what was measured: every task once, every named parser |
| `RunBrowser` | two summaries of a run | one another |
| `HfJobs` | command line over file, submission, bootstrap script under `set -eu` with any line failing, what its shell makes of the image | the evaluation asked for on this host |
| `Credentials` | token sources, user name, redaction, the answer's event stream | the first source that has something |
| `HostInspection` | image identity, `nvidia-smi`, GPU pool, memory estimates | what the user pinned, selected and required |

Texts are sequences over alphabets of a few letters, chosen so that each branch
has its letter; configurations are records with `Absent` for what is not said. An
image is a text that `validate_shell_safe` refuses (`Unsafe`), one that it lets
through although the shell parts a line there (`Parted`, of which the shell reads
`Stub`), or a word. An environment variable that is not Unicode is `NotSet`, as in the
code; of the file of the capability probes only what the probes write is a document.

## 3. What TLC checks

| Run | Instance | Question |
| --- | --- | --- |
| `sweep` | 3 trials, dear before cheap, 3 GPUs, 3 ports, caps 1 and 3, one foreign port; cancellation, failing trials, workers, checkpoints, progress writes and removals of containers; 2 085 426 states | Is the sweep safe, does it keep its GPUs busy, and does it return, whatever fails? |
| `evaluation_run` | 3 trials, 2 scores, both ways of executing, with and without a submission, every kind of trouble; 41 832 states | Do `report.json` and `best.toml` keep their promises, whatever fails, is cancelled or crashes? |
| `trial_execution` | one trial, check or `serve`, with and without gate and parsers, every fault, a foreign server; 1 011 075 states | Does a success speak of its own engine, is no engine left, is the first failure reported, does it end? |
| `managed_process` | a child and a descendant, both with and without SIGTERM ignored, every fault, every call; 268 912 states | Does a stop leave the child dead and reaped, is `Ok` earned, does the call return? |
| `containers` | 2 runs, 3 trials of which two share their name, a cleanup with any label, failing removals; 244 937 states | Does a trial that is over leave nothing, and does cleanup remove what it listed? |
| `schemas` | 2 processes, 2 image contents, 2 temporary names, one power failure, every call failing; 1 341 954 states up to symmetry | Is a cache entry whole, a register, and of the image that runs? |
| `mcp_server` | 4 lines of 6 kinds, cancellations of 2 ids, a list of 1; signal, failing write and end of input at any moment; 558 656 states | Are requests answered once and in order, and does a cancellation reach its call and no other? |
| `calculations` | the inputs of `MCCalculations`; 832 145 of them | Do the calculations agree with their references? |
| `sweep_lost_trial` | 2 trials, cancellation only | finding 1 |
| `process_held` | one descendant, no faults | finding 2 |
| `sweep_orphaned` | 2 trials, 2 GPUs; failing removals only | finding 3 |
| `containers_other_run` | the instance of `containers`, no faults | finding 4 |

The properties, and what would break them. Where a module has many small
invariants of one subject they are conjoined, under a name of their own.

Of the sweep:

- `GpuExclusive`: no two engines on one GPU, from the start of the container
  until it is removed, unless one of them was left by a removal that failed; about
  engines and not about the scheduler's books. `NeverOversubscribed` is the same
  without the exception, which is finding 3.
- `PortExclusive`: while an engine loads, its port is bound by nobody, so the
  exclusion of `active_host_ports_except` is all that protects it.
- `WorkConserving`: when the coordinator sleeps, no pending trial would fit,
  unless the user's cap is reached. It relates the lane count computed by the
  preflight (cheapest trials first) to every schedule that follows.
- `SweepConsistent`: the type invariant; `LeaseCoversWorker` (scheduler and
  worker agree on GPUs, lane and port until the outcome has been received);
  `ReportFaithful` and `OkMeansComplete` (order and content of the report, and
  what `Ok` promises); `InterruptedOnlyByOperator` (the sweep's own cancellation
  of its workers never shows up as a trial result); `QuiescentAtJoin` (the loop
  ends with nothing running and nothing unread).
- `Terminates`: it does end.
- `NeverStumbles`: whatever fails and in whatever order trials end, no lease is
  ended that is not held, no port of another lease recorded, no trial dispatched
  twice or left over, none missing at a healthy end. It relates the scheduler's
  books to the workers, the unread outcomes and the report.
- `ImplementsTrialLog`: the refinement.

Of a run:

- `WinnerIsBest`: earliest of the best, and never a failed trial, although a
  failed trial may carry a measurement.
- `FinalUnlessNotWritten`: the exits of the run that leave `running` behind are
  the ones it names, and no other.
- `RunConsistent`: the type invariant; `NeverRefused` (no path that a failure
  or a cancellation opens is refused by the report, which would replace the
  real error and leave the run unfinished); `CompletedIsWhole` (a file that
  says completed has every trial, and `best.toml` is its winner, at every moment,
  so also after a crash); `OkIsDurable` (what an `Ok` hands to the caller is what
  the file says); `SubmittedIsFinal` (what was posted is the final report).
- `CancellationHeeded`: a cancellation before the last trial has ended wins,
  whatever the trials still return.
- `ImplementsRecord`, `ImplementsTrialLog`: the refinements.

Of a trial:

- `MeasuredTheEngine`: whatever was measured, or asked for correctness, was
  answered by the engine that was started, from the first request to the last.
  It needs the look at the address, the order of the readiness checks, and
  `is_running` after the workload. It excludes another process that takes the
  address after the look, which the code has no way to see.
- `NoEngineLeft`: every early return takes the engine with it.
- `FirstFailureStands`: the flags of later failures add up, the first kind stays.
- `CheckIsReported`: a check says on disk what it returns.
- `Consistent`: its type invariant, and that a trial never stumbles over the
  port reservation that was made for it.
- `ComesToItsEnd`: a trial ends, and `serve` once cancelled or left alone.

Of containers and caches:

- `CleanupKeepsItsWord`: `ok` means that all that was listed is gone.
- `Consistent` (`OwnedContainers`): a trial that is over leaves no container,
  unless removal failed or the daemon came to the request too late.
- `NeverTorn`, `ImplementsRegister`: of the file, at every moment and after
  power failures.
- `ValidatedWhatRuns`: wherever the tag points meanwhile, and whoever wrote the
  cache; with the exception, in a container, that section 4 describes.
- `Consistent` (`ParameterSchemas`): temporary files are nobody else's, are
  not left behind, and no entry is ever one that later loads choke on.

Of the MCP server:

- `EveryRequestAnsweredInOrder`: what was read is what was answered, then what
  is in hand, then exactly what waits; parse errors included.
- `CancellationsReachTheirCall`: whoever comes first to the mutex, a
  cancellation of a waiting or running call that found a place cancels it.
- `SignalStopsWriting`: after a signal at most one more response is written.
- `ServerConsistent`: the type invariant, with the limit of the list;
  `OneCallPerCancellation` (also when a stale entry meets an id that is used
  again, which is spent on that call, and only once);
  `InterruptedWereCancelled`; `ToolsRunAfterHandshake`; `CleanEndAnswersAll` (the
  end of input does not overtake a request).
- `RequestsAreAnswered`: every request is answered, unless the server stops.

Of a process:

- `NobodyHoldsOn`: what is left when the handle is given up. After a child that
  ended of itself nobody is; after one that was stopped, a descendant may be,
  and that is as much as the code promises.
- `OkIsOwnExit`: of the many ways to an end, which lead to `Ok`; also that the
  exit status `finalize` expects is there.
- `StopsUnlessHeld`: a call with a reason to stop returns, with `Held` as the
  one excuse.

Of the calculations: `StreamsAreWhole`, `SweepsAreComplete`,
`VerdictsAreMeasured`, `WinnersAgree`, `JobsDoWhatWasAsked`, `PreflightIsSound`,
one group of modules each; section 2 says what they compare.

**Bounds.** One trial has one engine, so one of each is all `TrialExecution`
needs; its faults are taken in every combination. Two runs with one common name
and one that differs are the least for which a removal by name can go astray. Two writers and two contents give a race for one
entry and a tag that moves; two temporary names and two attempts give a name
that is taken and one that is exhausted; `MaxOutages` bounds power
failures, and that more of them change nothing is proved.
Streams have up to six letters, longer than every secret (three) and every limit
(three), so that each cut can fall before, inside and behind both; sweeps have
up to three dimensions of up to three values; rankings and documents have three
and two elements, the least for an order and for a duplicate.

One descendant is enough for a pipe that outlives the child; that a
second changes nothing for the safety properties is proved. Four lines are a handshake and two calls of one id, or a handshake,
a call and the end of input; a list of one, standing for 64, is full with one
cancellation no call has used, and two ids are one more than it holds. `SessionLines` has a line for each way
the server takes one; `ping`, `tools/list` and malformed requests differ from
it only in the response. Three GPUs with demands of 1 to 3 give
concurrent, exclusive and blocked trials; three trials give backfilling past a trial
that does not fit (`<<2, 2, 1>>`), a lease granted again while another is out
(`<<2, 1, 1>>`), and outcomes that wait for an earlier one; demands that decrease
over three GPUs are the least for which the order of packing matters; a cap of 1 and
of 3 covers the sequential and the concurrent regime, and no more than two of these
trials fit together, so that three ports, one of them contested, let reservation fall
back, and fail.
A trial that needs both GPUs and one that needs one are the least for which an
engine left behind meets a later one.
`MaxForeign` bounds the ports taken by others at one time, `MaxPort` the port
numbers. Two scores and three trials give a tie, a better later trial and a
failed trial with the best measurement. No counter grows without bound, so no other bound is needed.
`CHECK_DEADLOCK FALSE` is set where a sweep, a run, a trial or a process that
has returned does stop, and nowhere else.

**Fairness.** Weak fairness of the MCP dispatcher, whose receive times out
after 100 ms, whose tools have deadlines and whose client is assumed to read;
none of the reader, which waits for the client. Weak fairness of the coordinator: it never waits without a
timeout (`recv_timeout` of 100 ms, `app.rs:1435`), except when it joins workers
that have already sent. Weak fairness of each worker: every stage has a
deadline (startup, correctness and benchmark timeouts, 10 s of grace, 30 s for
`docker rm`) and polls its token. Nothing is assumed of the operator or of
other processes. Weak fairness of the owner of a process (it sleeps and polls),
of drains at the end of their pipe, and of SIGTERM for those that do not ignore
it; none of a process's own exit. `StopsUnlessHeld` is what the fairness of
workers rests on, and `Held` its limit: finding 2 shows a stage, and so a
worker, that does not end. `Terminates` is about a sweep whose stages do, and
`ComesToItsEnd` about a trial whose clients do: weak fairness of its thread,
which polls, and of the startup deadline, which passes; none of the engine, of
other processes or of the operator.

**Mutants.** Each property of a passing run is broken by a plausible defect of
the code it is about: the operators under "Deliberate defects" in
the modules, paired in `PROJECT.json`.

## 4. Findings

1. *A finished trial can be missing from `report.json`* (`sweep_lost_trial`).
   `README.md:315-316` says the report is checkpointed after every trial. A trial
   that succeeds ahead of an earlier one waits in `completed`; if the sweep is
   then cancelled, it is dropped, although `trial_completed` was announced.
2. *A stage can outlive its deadline without limit* (`process_held`).
   `README.md:252-253` says that all stages are bounded by timeouts and that
   process groups get TERM, a grace period, then KILL. When the child itself
   dies within the grace period, `terminate_child` returns (`process.rs:771`)
   and the rest of the group gets no KILL; if one of them holds a pipe, the
   join of the drain (`process.rs:569`) waits for it.
3. *Two engines may share a GPU* (`sweep_orphaned`). `README.md:204-205` says that
   concurrency never permits GPU oversubscription. When `docker rm -f` of an engine
   fails, its trial is recorded as failed and its lease is released all the same
   (`app.rs:1437`): the next trial starts next to the engine that was left.
4. *A run may remove the engine of another* (`containers_other_run`).
   `README.md:236-238` says that a run owns and cleans up its containers. They are
   named after the trial's index alone (`app.rs:1610`): with two runs on one host, a
   start that fails or is given up ends with `docker rm -f` of a name that is the
   other run's.

Two more disagreements were met and have no run of their own. `schema.rs:99` and the
comment at `tools.rs:834-835` say that runs are listed newest first; names are
sorted, and a name starts with the kind of the run (`app.rs:2191-2206`), so that
every sweep is listed before every bench run, and the cut leaves out the newest
bench runs first. The comment at `hf_jobs.rs:315-316` says `validate_shell_safe`
rejects what could break out of its place in the script; it refuses blanks, quotes,
backslashes, `$`, backticks and control characters, and not the operators of the
shell, while the image stands bare in the line of the evaluation (`hf_jobs.rs:281`,
`290`). `HfJobs` models that (`ShellSafe`, `ShellWord`), and `JobDoesWhatWasAsked` is
about images that enter as one word (`EntersWhole`).

**Limits.** The properties grant what the code does where it does less than one
might read out of its documentation. None of this is assumed away in silence:

- A finished run stays `running` when `best.toml`, the clock or the last
  checkpoint fails (`app.rs:447-455` skips `finish_failed_report`);
  `FinalUnlessNotWritten` names these exits. A progress line that cannot be
  written (`app.rs:478`) leaves an accepted submission unrecorded.
- A cancellation is dropped when the list of 64 is full of cancellations that
  no call has used (`protocol.rs:236`), against `README.md:392`: `refused`.
- A configuration that names one GPU by index and by uuid gets two leases of it
  (`validate.rs:290`), against `README.md:210`; `PoolIsSelected` is about
  configurations that use one way.
- The digest of a reference `repo:tag@sha256:...` is not seen as pinned
  (`docker.rs:449`); `IdentityIsPinned` is about the others.
- A memory estimate that is not required turns every failure of its command
  into a warning, an interruption included (`model_memory.rs`); the run then
  notices the token at its next stage.
- In a container the cache is keyed by the image reference (`docker.rs:151`), so
  a schema may be one that another image of the same tag left there:
  `ValidatedWhatRuns` allows exactly that.
- `cleanup --run-id` names a trial's index and not a run; `CleanupKeepsItsWord` is
  about what was listed.
- A job's file is read twice, to be validated and to be shipped (`hf_jobs.rs:78`,
  `367`); `JobsDoWhatWasAsked` is about a file that is not edited in between.
- Nothing tries again to remove a temporary file whose removal failed
  (`atomic.rs:198`); the model's removals succeed.

## 5. What is proved

The eight modules `*Proofs` hold for every value of the constants under the
assumptions their modules name: `SchedulerAssumption` (a pool of at least one
GPU, demands between 1 and the pool, positive caps; what `new` validates),
`SweepAssumption`, `ScoreAssumption` and `RunAssumption` (scores and the number
of trials are positive), `McpAssumption` (ids are finitely many, and a call
carries one), `ProcessAssumption` (the child is not its own descendant),
`TrialAssumption` and `NothingAssumption` (an `Option` that is `None` is no value),
`ContainerAssumption` (a trial is a run and an index), `FileAssumption` and
`SchemaAssumption` (temporary names are not destinations; at least one attempt;
what stands for "nothing" is no name). TLC evaluates each of them in a run.

| Theorem | States |
| --- | --- |
| `SchedulerTypes`, `LeasesAreExclusive` | `SchedSpec => []SchedTypeOK`, `SchedSpec => []LeaseExclusive` |
| `DemandsAreNotLost` | `SchedSpec => NoDemandLost` |
| `SchedulerImplementsPool` | `SchedSpec => ImplementsPool` |
| `LeasesCoverWorkers`, `PortsAreExclusive` | `SweepSpec => []LeaseCoversWorker`, `SweepSpec => []PortExclusive` |
| `SweepNeverOversubscribes`, `SweepsNeverStumble` | `SweepSpec => []GpuExclusive`, `SweepSpec => []NeverStumbles` |
| `SweepsKeepTheirWord` | `SweepSpec => []SweepConsistent` |
| `SweepsImplementTheirLog` | `SweepSpec => ImplementsTrialLog` |
| `SweepsConserveWork` | `SweepSpec => []WorkConserving` |
| `RunTypes`, `ReportIsNeverRefused`, `CompletedRunsAreWhole` | `[]RunTypeOK`, `[]NeverRefused`, `[]CompletedIsWhole` |
| `ReturnedRunsAreFinal`, `WinnersAreBest` | `RunSpec => []FinalUnlessNotWritten`, `RunSpec => []WinnerIsBest` |
| `RunsKeepTheirWord` | `RunSpec => []RunConsistent` |
| `CancellationsAreHeeded` | `RunSpec => CancellationHeeded` |
| `RunImplementsRecord`, `RunsImplementTheirLog` | `RunSpec => ImplementsRecord`, `RunSpec => ImplementsTrialLog` |
| `McpTypes`, `CancellationsArrive` | `[]TypeOK`, `[]CancellationsReachTheirCall` |
| `CancellationsAreSpentOnce`, `InterruptedResponses`, `HandshakeComesFirst` | `[]OneCallPerCancellation`, `[]InterruptedWereCancelled`, `[]ToolsRunAfterHandshake` |
| `SignalSilences` | `Spec => []SignalStopsWriting` |
| `RequestsAreAnsweredInOrder` | `Spec => []EveryRequestAnsweredInOrder` |
| `SessionsAreConsistent` | `Spec => []ServerConsistent` |
| `ProcessTypes`, `NothingHeldAfterwards`, `OkMeansOwnExit` | `[]TypeOK`, `[]NobodyHoldsOn`, `[]OkIsOwnExit` of `ManagedProcess` |
| `SuccessMeasuresTheEngine`, `EngineIsTakenDown` | `Spec => []MeasuredTheEngine`, `Spec => []NoEngineLeft` |
| `ChecksAreReported`, `FirstFailuresStand`, `TrialsAreConsistent` | `[]CheckIsReported`, `FirstFailureStands`, `[]Consistent` of `TrialExecution` |
| `TrialsLeaveNothing`, `CleanupIsComplete` | `[]Consistent`, `[]CleanupKeepsItsWord` of `OwnedContainers` |
| `CachesAreWhole`, `CachesAreRegisters` | `Spec => []NeverTorn`, `Spec => ImplementsRegister` |
| `RunsAreValidated`, `CachesStayUsable` | `[]ValidatedWhatRuns`, `[]Consistent` of `ParameterSchemas` |
| `StreamsStayWhole`, `SweepsStayComplete`, `VerdictsStayMeasured` | `[]StreamsAreWhole`, `[]SweepsAreComplete`, `[]VerdictsAreMeasured` of `MCCalculations` |
| `WinnersStayAgreedOn`, `JobsStayAsAsked`, `PreflightsStaySound` | `[]WinnersAgree`, `[]JobsDoWhatWasAsked`, `[]PreflightIsSound` |

**The scheduler.** The type invariant and `LeaseExclusive` are inductive
together (`SchedInv`): a new lease draws on `FreeDevices` and `FreeLanes`, and
both are defined by what the others hold. `DemandsAreNotLost` needs a counting
argument: distinct leases have distinct lanes, so fewer leases than lanes leave
one free (`FreeLaneBelowCap`). The refinement needs the exclusion: `Holder` is a
`CHOOSE`, and only because leases are disjoint is it the one trial that holds
the GPU (`HolderOfLease`), so that a lease changes the owner of its GPUs and of
no other. What a step of the sweep does to the scheduler is one of its operations
or nothing (`StepOfScheduler`), so the same invariant serves inside a sweep.

**The sweep.** Neither `LeaseCoversWorker` nor `PortExclusive` is inductive.
`SweepInv` adds that the trial being dispatched is leased and not yet spawned
(`Dispatching`), that a trial whose outcome is unread is leased as it was given
(`UnreadCovered`), that an outcome is sent once (`SentOnce`), without which a
second message would release a lease twice, and that the ports of spawned
leased trials differ (`PortsApart`). The last does not hold of all leases: a
trial between `next` and its reservation has its lane's home port, which a
neighbour may have fallen back to. `GpuExclusive` follows from
`LeaseCoversWorker` and the scheduler's exclusion for all engines but those a failed
removal left. `SoundNext` is the sweep without its branches to a defect at a refused
call, and `SoundStep` shows that under `SweepInv` there are no other steps: the trial
at hand is leased and unspawned, the port reserved for it is none of the other
leases', an unread outcome has its lease. Two branches are left to `SweepsNeverStumble`.
A pending trial with nobody leased can be placed (`AnyTrialFits`), so that none is
left over; and `Accounted` says that while nothing has failed every trial is pending,
leased or announced, and what is announced committed or waiting for its turn, so that
a sweep that ends healthy has logged them all. `Honest` carries the rest: where the
coordinator may stand with which error (`Places`), that what was announced is a
worker's outcome, interrupted only by the operator (`Told`), and that the report
is, entry by entry, the announced outcomes of the trials before `nextCommit`, all
of them saved but at most the last, which a failing checkpoint leaves
(`Committed`).

**The run.** No property of the run is inductive. `RunInv` places the report
(`ReportStages`: open while trials run, whole from the decision on, with its
winner installed before it is finished), its relation to the file
(`DiskStages`: equal except for a fault on the way to `finish_failed_report`)
and the error (`ErrorStages`) at each `pc`. One lemma per operation of
`RunReport` says what it produces and that it stays `Valid`; one per action says
that it keeps `RunInv`, and there `NeverRefused` is proved. `DiskSteps` sums up
how the file can change, from which `RunImplementsRecord` and
`CompletedRunsAreWhole` follow; `ReturnsFinal` goes through every exit.
`WinnersAreBest` is an induction over pushes: a new trial wins only if it is
strictly better than the recorded value, which `Valid` says is the winner's.
`Executed` and `Stopping` say what execution has left in memory, on disk and in
the token by the time it is over, for the refinement to `TrialLog` and for
`CancellationHeeded`.

**The MCP server.** `CancellationsReachTheirCall` speaks of the running call
only; `ReachInv` adds what holds while it waits: its id is in the list and no
call of the same id is before it, so nobody takes its entry (`Claimed`), and
numbers tell the queued calls and the one in hand apart (`Numbered`).
`CountInv` counts an entry as a cancellation not yet spent: `begin_request`
moves one from the list to the call. `StopInv` follows an interrupted response
to the check before the write, `ShakeInv` a welcome from the hand to the log.
`AnswerInv` is about order. Stated with a filtered queue it would be an induction
over sequences; stated with the numbers of events it is none: the queue is in
order, what is owed is in order, and the first owed that has not begun is the
first that waits.

**The process.** `Parts` says for each place of the owner why it is there
(`Stages`), who has been reaped (`Reaping`), signalled (`Unsignalled`) and
joined (`Joins`). `PipesStayShut` is the heart: only a holder hands a pipe on,
so a pipe with no holder stays so. Everything outside the owner goes only
towards an end (`Onward`), and one lemma shows that this disturbs none of it.

**The trial.** `MeasuredTheEngine` is about the end and must be carried through
all stages, in any of which the engine may die and a stranger move in.
`Answered` carries it: unless somebody took the address after the launch, an
engine that is not dead is the only one that was heard, and once `is_running`
has been asked, what was heard is settled. `Collected` says that a stage that is
over without a failure has its result, `Owned` that an engine nobody holds is
gone, `Told` what has been returned and written.

**The files.** `FileInv` has what makes the rename safe: what is renamed is whole
and on the disk (`Written`), so a destination leads to a whole file in both
worlds (`Installed`); a temporary name is its writer's (`TempsOwned`).
`AtomicRegister` is then a matter of each system call being one of its steps
or none. `LoadInv` follows the identity from the inspection to the engine;
`UsableInv` says that a process that found an entry still finds one.

**The containers.** What was listed and is done with is gone (`Listing`), and a
container that is gone does not come back.

**Lanes.** `WorkConserving` rests on the number of lanes prepared at the start.
`Packed` adds that there are as many lanes as `LaneCount`, that a lease has as
many GPUs as were asked for, and that a coordinator that waits without an error
has just been refused a lease. Had a trial that fits found every lane taken, the
leased trials and it would be one trial more than `LaneCount`; but any set of
trials needs at least what as many of the cheapest ones need (`Used`, by
induction on the size of the set), so that they would not fit together.

**The calculations.** `CalculationsProofs` proves each of them for inputs of any
size, over any alphabet, and from that the invariants of the runs. The inductions
over data are made without the library's induction theorems: a set of numbers
that contains 0 and successors contains all of them, because there is no least one
outside it (`SetInduction`, from the well-foundedness of `<`); a function
that goes step by step exists (`Recursion`); and a `FoldLeft` is the last value of
such a function (the lemmas on folds, in the first section). Each fold then has a named
predicate that says what it has computed after `n` elements, and which step keeps
it. The assumptions are those the modules name: `RankingAssumption`, `JobsAssumption`,
`HostAssumption`, `BrowserAssumption`, `LinesAssumption`, and two of names:
`InputsAssumption` says of the model values that stand for "nothing" that they are no
texts, `SanitizerAssumption` of the mark that replaces a secret that it is no byte.

| Theorem | For any |
| --- | --- |
| `CutsNeverMatter` | stream, alphabet without the mark, finite set of secrets, chunks |
| `RequestsAreWhole` | stream, buffers, limit |
| `EveryCombinationIsTried` | dimensions, values and names, any bound |
| `RankingsAgree`, `WinnersStayListed` | observations; number of trials and of summaries |
| `MeasuredVerdict` | result files, configured parsers, threshold |
| `JobsAreAsAsked` | request whose image enters whole, failing lines, exit code |
| `TheFirstCredential`, `SubmittedByName`, `EveryAnswerStands` | sources, answers, event streams of any length |
| `ImagesArePinned`, `PoolsAreSelected`, `MemoriesAreKnown` | digests, reported and named GPUs, documents |

`CutsNeverMatter` compares the sanitizer with one drain of the whole visible text.
After any chunks, its parser stands where the whole text has it at that place, and
there is a place `c` of the visible text that no secret crosses, such that what was
shown is what the drain shows up to `c`, and what is pending is the rest of what
is visible so far (`Keeping`, `Reaches`). A drain of the pending bytes goes on from
there exactly as the drain of the whole, because a secret that starts before the
limit ends within what is pending (`LocalSecret`): that is what `Retain` is for. That
no secret is shown follows from where each byte came from (`Traces`): bytes side by
side in the output stood side by side in the text, at places where no secret starts.
The mark is one symbol here; that a secret is no part of the ten bytes
`[REDACTED]` is not checked by the code, and nothing is claimed of one that is.
`RequestsAreWhole` follows the pieces in which the buffers are consumed: they cover
the stream (`Tiles`), and the reader has judged every line they have completed and
keeps the rest (`Standing`).

**Only model-checked:** `Terminates`, `StopsUnlessHeld`, `RequestsAreAnswered` and
`ComesToItsEnd`: liveness is out of the prover's reach.

## 6. Plan

1. The composition of `ParallelSweep` with `TrialExecution`, worker by worker:
   today their agreement is that the outcomes of `Finish` are those of a worker.
2. A token tree of arbitrary depth, if a module comes to need more than a chain.
3. Larger bounds for `mcp_server` (a list of two) and `schemas` (three
   processes).

## 7. Not modelled, and why

- *Artifacts*: lists and digests the files of a trial's directory, after
  everybody who writes there has ended. Pure I/O.
- *Embedded Python probes and scripts*: run inside the images of the engines; what
  the program reads of them is in `CorrectnessGate` and `ParameterSchemas`.
- *Field-by-field validation, parsing of command lines, of `nvidia-smi`, of
  `hf-mem` and of the benchmark's JSON, progress rendering, error formatting*:
  text handling without state, better served by unit tests. Where a verdict of
  theirs matters, it is one choice in the model.
- *Process ids that are used again* after the child was reaped
  (`process.rs:499`), and processes that leave their group: they need a model of
  the kernel rather than of this code.

`PROJECT.json` lists every component with its status.

## 8. Running

    tlc -workers 2 -config sweep.cfg MCParallelSweep
    tlapm ParallelSweepProofs.tla
    tlapm CalculationsProofs.tla
