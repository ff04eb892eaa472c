--------------------------- MODULE ParallelSweep ---------------------------
(***************************************************************************)
(* A local Docker sweep (src/src/app.rs, execute_parallel_sweep): one      *)
(* coordinator thread that leases GPUs, reserves host ports, spawns one    *)
(* worker thread per leased trial, receives outcomes over a channel and    *)
(* commits them to the report in declaration order; the workers, which     *)
(* start an engine in a container, drive it and stop it (execute_trial);   *)
(* the operator, who may cancel; and the other processes of the host, who  *)
(* bind and free TCP ports.  Stages inside a trial are abstracted to       *)
(* whether its port listener is held, its engine is loading or serving.    *)
(***************************************************************************)
EXTENDS LeaseScheduler, FiniteSetsExt

CONSTANTS Faults,        \* the kinds of trouble this instance may meet
          MaxForeign     \* bound on the ports other processes bind at once

FaultKinds == {"cancel",      \* SIGINT, SIGTERM or a cancelled request
               "trial",       \* a trial fails by itself
               "worker",      \* execute_trial returns an error or panics
               "progress",    \* writing a progress line fails
               "checkpoint",  \* writing report.json fails
               "cleanup"}     \* `docker rm -f` of the engine fails

ASSUME SweepAssumption == Faults \subseteq FaultKinds /\ MaxForeign \in Nat

VARIABLES pc,                \* where the coordinator is
          turn,              \* the trial it is dispatching, 0 if none
          error,             \* coordination_error
          operatorCancelled, \* the token the caller passed in
          workersCancelled,  \* `workers`, its child, parent of all workers' tokens
          worker,            \* state of each trial's worker, finally its outcome
          given,             \* the allocation each spawned worker received
          channel,           \* trials whose outcomes are sent and not received
          announced,         \* trials whose trial_completed line was written
          completed,         \* outcomes received and not yet committed
          nextCommit,        \* next_commit
          report,            \* report.trials
          saved,             \* how many of them report.json holds
          orphans,           \* trials whose engine outlived a failed cleanup
          foreign            \* ports other processes have bound

coordinatorVars == <<pc, turn, error, workersCancelled>>
commitVars == <<announced, completed, nextCommit, report, saved>>
workerVars == <<worker, given, orphans>>
sweepVars == <<schedVars, coordinatorVars, commitVars, workerVars,
               operatorCancelled, channel, foreign>>

Outcomes == {"success", "failed", "interrupted", "error"}
Running == {"reserved", "loading", "serving"}
TrialIds == UNION {DOMAIN w : w \in Workloads}

RunningTrials == {i \in Trials : worker[i] \in Running}
Cancelled == operatorCancelled \/ workersCancelled

(* Trials whose engine occupies GPUs: from spawn until its container is gone. *)
EngineTrials == {i \in Trials : worker[i] \in {"loading", "serving"}} \cup orphans

(* A listener is dropped before the engine binds its port: while an engine *)
(* loads, its port looks free to everybody else.                           *)
BoundPorts == foreign \cup {given[i].port : i \in
                {j \in Trials : worker[j] \in {"reserved", "serving"}} \cup orphans}
-----------------------------------------------------------------------------
(* workers.cancel() and a coordination error *)
Abort == error' = "fault" /\ workersCancelled' = TRUE

(* The same, with an error the code has only for what should never happen. *)
Stumble == error' = (IF error = "none" THEN "defect" ELSE error) /\ workersCancelled' = TRUE

(* Deliberate defects, for the mutation runs: the preflight forgets to sort *)
(* the demands; a failed checkpoint goes unnoticed; outcomes are committed  *)
(* in the order of their arrival; a reservation does not exclude the ports  *)
(* of the other leases; an interrupted worker exits without sending.        *)
LaneCountUnsorted ==
  LET used[k \in 0..Len(demand)] == IF k = 0 THEN 0 ELSE used[k - 1] + demand[k]
  IN  Max({k \in 0..Smaller(Len(demand), Smaller(maxParallel, NumGpus)) : used[k] <= NumGpus})
CommitUnchecked ==
  /\ pc = "commit" /\ nextCommit \in completed
  /\ completed' = completed \ {nextCommit}
  /\ report' = Append(report, [trial |-> nextCommit, outcome |-> worker[nextCommit]])
  /\ saved' \in {saved, Len(report')}
  /\ nextCommit' = nextCommit + 1
  /\ UNCHANGED <<schedVars, coordinatorVars, announced, workerVars,
                 operatorCancelled, channel, foreign>>
CommitAsReceived ==
  /\ pc = "commit" /\ completed # {}
  /\ LET i == Max(completed)
     IN  /\ completed' = completed \ {i}
         /\ report' = Append(report, [trial |-> i, outcome |-> worker[i]])
  /\ saved' = Len(report')
  /\ nextCommit' = nextCommit + 1
  /\ UNCHANGED <<schedVars, coordinatorVars, announced, workerVars,
                 operatorCancelled, channel, foreign>>
ReservableUnexcluded(i) == {p \in Ports : p >= active[i].port /\ p \notin BoundPorts}
FinishSilently(i, outcome) ==
  /\ worker' = [worker EXCEPT ![i] = outcome]
  /\ channel' = IF outcome = "interrupted" THEN channel ELSE Append(channel, i)
  /\ UNCHANGED <<schedVars, coordinatorVars, commitVars, given, operatorCancelled, foreign>>
-----------------------------------------------------------------------------
(* packable_lane_count: how many of the cheapest trials fit the pool        *)
(* together.  Cheapest lists the trials by demand (sort_unstable: any order *)
(* among equals), Used adds up what the first k of them need.               *)
Cheapest == CHOOSE p \in Bijection(Trials, Trials) :
              \A k, l \in Trials : k < l => demand[p[k]] <= demand[p[l]]

Used[k \in 0..Len(demand)] == IF k = 0 THEN 0 ELSE Used[k - 1] + demand[Cheapest[k]]

LaneCount ==
  Max({k \in 0..Smaller(Len(demand), Smaller(maxParallel, NumGpus)) : Used[k] <= NumGpus})

(* prepare_sweep_scheduler found the first LaneCount free ports, let them   *)
(* go and built the scheduler.  A host without that many fails the          *)
(* preflight and never sweeps.  Port 1 stands for runtime.port.             *)
SweepInit ==
  /\ SchedInit
  /\ foreign \in {F \in SUBSET Ports : Cardinality(F) <= MaxForeign}
  /\ Len(lanePort) = LaneCount
  /\ \A l, m \in Lanes : l < m => lanePort[l] < lanePort[m]
  /\ Range(lanePort) \in Leading(Ports \ foreign, LaneCount)
  /\ pc = "top" /\ turn = 0 /\ error = "none"
  /\ operatorCancelled = FALSE /\ workersCancelled = FALSE
  /\ worker = [i \in Trials |-> "unspawned"]
  /\ given = << >>
  /\ channel = << >>
  /\ announced = {} /\ completed = {} /\ nextCommit = 1
  /\ report = << >> /\ saved = 0
  /\ orphans = {}
-----------------------------------------------------------------------------
(* The coordinator *)

(* The head of the outer loop: done, cancelled, draining or dispatching. *)
LoopHead ==
  /\ pc = "top"
  /\ \/ /\ pending = {} /\ Leased = {}
        /\ pc' = "join"
        /\ UNCHANGED <<error, workersCancelled>>
     \/ /\ pending \cup Leased # {}
        /\ error = "none" /\ operatorCancelled
        /\ error' = "interrupted" /\ workersCancelled' = TRUE
        /\ pc' = "await"
     \/ /\ pending \cup Leased # {}
        /\ error = "none" /\ ~operatorCancelled
        /\ pc' = "dispatch"
        /\ UNCHANGED <<error, workersCancelled>>
     \/ /\ pending \cup Leased # {}
        /\ error # "none"
        /\ pc' = "await"
        /\ UNCHANGED <<error, workersCancelled>>
  /\ UNCHANGED <<schedVars, turn, commitVars, workerVars, operatorCancelled, channel, foreign>>

(* scheduler.next() returned a trial, or None after having dropped one. *)
DispatchLease(i) ==
  /\ pc = "dispatch"
  /\ Lease(i)
  /\ IF i \in DOMAIN active' THEN pc' = "reserve" /\ turn' = i
                             ELSE pc' = "await" /\ UNCHANGED turn
  /\ UNCHANGED <<error, workersCancelled, commitVars, workerVars,
                 operatorCancelled, channel, foreign>>

(* scheduler.next() returned None. *)
NothingToDispatch ==
  /\ pc = "dispatch"
  /\ \/ Cardinality(Leased) >= Cap
     \/ \A i \in pending : ~Fits(i)
  /\ pc' = "await"
  /\ UNCHANGED <<schedVars, turn, error, workersCancelled, commitVars, workerVars,
                 operatorCancelled, channel, foreign>>

(* What reserve_host_ports may bind for trial i, and what it does bind. *)
Reservable(i) == {p \in Ports : /\ p >= active[i].port
                                /\ ~PortOfAnother(i, p)
                                /\ p \notin BoundPorts}

(* `let _ = scheduler.release(index)`: a refusal is passed over. *)
LetGo(i) == IF i \in Leased THEN Release(i) ELSE UNCHANGED schedVars

(* The dispatch of the trial at hand is given up, with an error. *)
GiveUp ==
  /\ LetGo(turn)
  /\ pc' = "await" /\ turn' = 0
  /\ UNCHANGED <<commitVars, workerVars, operatorCancelled, channel, foreign>>

(* What `update_host_port` refuses. *)
UpdateRefused(i, p) == i \notin Leased \/ PortOfAnother(i, p)

(* The trial's work is taken, its listener bound, the lease updated, the    *)
(* line written, the worker spawned with its own copy of the allocation and *)
(* the listener; or the work is gone, or the update of the lease refused.   *)
Spawn ==
  /\ pc = "reserve"
  /\ IF worker[turn] # "unspawned"
       THEN Stumble /\ GiveUp
       ELSE \E p \in Leading(Reservable(turn), 1) : \E port \in p :
              IF UpdateRefused(turn, port)
                THEN Stumble /\ GiveUp
                ELSE /\ UpdateHostPort(turn, port)
                     /\ given' = Insert(given, turn, [active[turn] EXCEPT !.port = port])
                     /\ worker' = [worker EXCEPT ![turn] = "reserved"]
                     /\ pc' = "dispatch" /\ turn' = 0
                     /\ UNCHANGED <<error, workersCancelled, commitVars, orphans,
                                    operatorCancelled, channel, foreign>>

(* No port could be reserved, or the trial_started line not written. *)
DispatchFails ==
  /\ pc = "reserve"
  /\ worker[turn] = "unspawned"
  /\ Reservable(turn) = {} \/ "progress" \in Faults
  /\ Abort
  /\ GiveUp

(* Nobody holds a lease: the outer loop breaks. *)
Idle == Leased = {}

LoopBreak ==
  /\ pc = "await"
  /\ Idle
  /\ error' = IF error = "none" /\ pending # {} THEN "defect" ELSE error
  /\ pc' = "join"
  /\ UNCHANGED <<schedVars, turn, workersCancelled, commitVars, workerVars,
                 operatorCancelled, channel, foreign>>

(* recv_timeout found nothing for 100 ms. *)
ReceiveTimeout ==
  /\ pc = "await"
  /\ Leased # {} /\ channel = << >>
  /\ pc' = "top"
  /\ UNCHANGED <<schedVars, turn, error, workersCancelled, commitVars, workerVars,
                 operatorCancelled, channel, foreign>>

(* The sweep is failing: outcomes are received and dropped. *)
Draining == error # "none"

(* An outcome arrives: the lease ends, and the outcome is dropped if the    *)
(* sweep is already failing, or announced and kept for its turn to commit.  *)
(* An outcome whose lease is refused its end is dropped, with an error.     *)
Receive ==
  /\ pc = "await"
  /\ Leased # {} /\ channel # << >>
  /\ channel' = Tail(channel)
  /\ LET i == Head(channel)
     IN  IF i \notin Leased
           THEN /\ Stumble
                /\ pc' = "top"
                /\ UNCHANGED <<schedVars, announced, completed>>
           ELSE /\ Release(i)
                /\ \/ /\ Draining
                      /\ pc' = "top"
                      /\ UNCHANGED <<error, workersCancelled, announced, completed>>
                   \/ /\ ~Draining
                      /\ worker[i] = "error" \/ "progress" \in Faults
                      /\ Abort
                      /\ pc' = "top"
                      /\ UNCHANGED <<announced, completed>>
                   \/ /\ ~Draining
                      /\ worker[i] # "error"
                      /\ announced' = announced \cup {i}
                      /\ completed' = completed \cup {i}
                      /\ pc' = "commit"
                      /\ UNCHANGED <<error, workersCancelled>>
  /\ UNCHANGED <<turn, nextCommit, report, saved, workerVars, operatorCancelled, foreign>>

Committable == nextCommit \in completed

(* One turn of the commit loop: push_trial and checkpoint the next trial in *)
(* declaration order, if its outcome is in.  A checkpoint that fails may    *)
(* still have replaced the file (its directory could not be synced).        *)
Commit ==
  /\ pc = "commit"
  /\ Committable
  /\ completed' = completed \ {nextCommit}
  /\ report' = Append(report, [trial |-> nextCommit, outcome |-> worker[nextCommit]])
  /\ \/ /\ saved' = Len(report')
        /\ nextCommit' = nextCommit + 1
        /\ UNCHANGED <<pc, error, workersCancelled>>
     \/ /\ "checkpoint" \in Faults
        /\ Abort
        /\ pc' = "top"
        /\ saved' \in {saved, Len(report')}
        /\ UNCHANGED nextCommit
  /\ UNCHANGED <<schedVars, turn, announced, workerVars, operatorCancelled, channel, foreign>>

CommitDone ==
  /\ pc = "commit"
  /\ ~Committable
  /\ pc' = "top"
  /\ UNCHANGED <<schedVars, turn, error, workersCancelled, commitVars, workerVars,
                 operatorCancelled, channel, foreign>>

(* All workers are joined and the sweep returns Ok or its error. *)
Return ==
  /\ pc = "join"
  /\ RunningTrials = {}
  /\ error' = IF error = "none" /\ nextCommit # Len(demand) + 1 THEN "defect" ELSE error
  /\ pc' = "returned"
  /\ UNCHANGED <<schedVars, turn, workersCancelled, commitVars, workerVars,
                 operatorCancelled, channel, foreign>>

Coordinator == \/ LoopHead
               \/ \E i \in Trials : DispatchLease(i)
               \/ NothingToDispatch
               \/ Spawn
               \/ DispatchFails
               \/ LoopBreak
               \/ ReceiveTimeout
               \/ Receive
               \/ Commit
               \/ CommitDone
               \/ Return
-----------------------------------------------------------------------------
(* The workers: execute_trial *)

UnchangedByWorkers == UNCHANGED <<schedVars, coordinatorVars, commitVars, given,
                                  operatorCancelled, foreign>>

(* The listener is dropped and the engine's container started. *)
LoadEngine(i) ==
  /\ worker[i] = "reserved"
  /\ ~Cancelled
  /\ worker' = [worker EXCEPT ![i] = "loading"]
  /\ UNCHANGED <<orphans, channel>>
  /\ UnchangedByWorkers

(* The engine binds its port and answers the readiness probe. *)
EngineReady(i) ==
  /\ worker[i] = "loading"
  /\ given[i].port \notin BoundPorts
  /\ worker' = [worker EXCEPT ![i] = "serving"]
  /\ UNCHANGED <<orphans, channel>>
  /\ UnchangedByWorkers

Finish(i, outcome) ==
  /\ worker' = [worker EXCEPT ![i] = outcome]
  /\ channel' = Append(channel, i)
  /\ UnchangedByWorkers

(* The trial ends, whatever the reason, with its engine stopped and its     *)
(* container removed; the outcome is sent last.                             *)
Conclude(i) ==
  /\ worker[i] \in Running
  /\ \/ worker[i] = "serving" /\ Finish(i, "success")
     \/ "trial" \in Faults /\ Finish(i, "failed")
     \/ worker[i] = "loading" /\ given[i].port \in BoundPorts /\ Finish(i, "failed")
     \/ Cancelled /\ Finish(i, "interrupted")
     \/ "worker" \in Faults /\ Finish(i, "error")
  /\ UNCHANGED orphans

(* The trial ends and its container could not be removed: its engine lives  *)
(* on, a success becomes a failure.                                         *)
ConcludeOrphaned(i) ==
  /\ "cleanup" \in Faults
  /\ worker[i] \in {"loading", "serving"}
  /\ \/ Finish(i, "failed")
     \/ Cancelled /\ Finish(i, "interrupted")
  /\ orphans' = orphans \cup {i}

Worker(i) == i \in Trials /\ (LoadEngine(i) \/ EngineReady(i) \/ Conclude(i)
                              \/ ConcludeOrphaned(i))
-----------------------------------------------------------------------------
(* The operator and the other processes of the host *)

OperatorCancels ==
  /\ "cancel" \in Faults
  /\ pc # "returned"
  /\ ~operatorCancelled
  /\ operatorCancelled' = TRUE
  /\ UNCHANGED <<schedVars, coordinatorVars, commitVars, workerVars, channel, foreign>>

ForeignPorts ==
  /\ pc # "returned"
  /\ \/ \E p \in Ports \ BoundPorts : /\ Cardinality(foreign) < MaxForeign
                                      /\ foreign' = foreign \cup {p}
     \/ \E p \in foreign : foreign' = foreign \ {p}
  /\ UNCHANGED <<schedVars, coordinatorVars, commitVars, workerVars,
                 operatorCancelled, channel>>

SweepNext == \/ Coordinator
             \/ \E i \in Trials : Worker(i)
             \/ OperatorCancels
             \/ ForeignPorts

(* The coordinator never waits without a timeout, and every stage of a      *)
(* worker is bounded by one.                                                *)
SweepFairness == /\ WF_sweepVars(Coordinator)
                 /\ \A i \in TrialIds : WF_sweepVars(Worker(i))

SweepSpec == SweepInit /\ [][SweepNext]_sweepVars /\ SweepFairness
-----------------------------------------------------------------------------
(* Every variable has its type. *)
SweepTypeOK ==
  /\ SchedTypeOK
  /\ pc \in {"top", "dispatch", "reserve", "await", "commit", "join", "returned"}
  /\ turn \in Trials \cup {0}
  /\ error \in {"none", "interrupted", "fault", "defect"}
  /\ operatorCancelled \in BOOLEAN /\ workersCancelled \in BOOLEAN
  /\ worker \in [Trials -> {"unspawned"} \cup Running \cup Outcomes]
  /\ given \in [DOMAIN given -> Allocation]
  /\ DOMAIN given = {i \in Trials : worker[i] # "unspawned"}
  /\ channel \in Seq(Trials)
  /\ announced \subseteq Trials /\ completed \subseteq announced
  /\ nextCommit \in 1..Len(demand) + 1
  /\ report \in Seq([trial: Trials, outcome: Outcomes])
  /\ saved \in 0..Len(report)
  /\ orphans \subseteq Trials
  /\ foreign \subseteq Ports

(* Whatever fails, two engines on one GPU are never both of trials whose    *)
(* containers could be removed: of the engines on a GPU, at most one is not *)
(* left behind by a failed `docker rm`.                                     *)
GpuExclusive ==
  \A i, j \in EngineTrials :
    i # j /\ given[i].gpus \cap given[j].gpus # {} => i \in orphans \/ j \in orphans

(* No two engines ever occupy the same GPU (README: max_parallel_trials     *)
(* caps concurrency "without permitting GPU oversubscription").             *)
NeverOversubscribed ==
  \A i, j \in EngineTrials : i # j => given[i].gpus \cap given[j].gpus = {}

(* No two unfinished trials of the sweep were given the same port, although *)
(* a port looks free to a later reservation while its engine is loading.    *)
PortExclusive == \A i, j \in RunningTrials : i # j => given[i].port # given[j].port

(* A lease outlives its worker: until the coordinator has received a        *)
(* trial's outcome, the scheduler still counts exactly the GPUs, the lane   *)
(* and the port the worker uses as taken.                                   *)
LeaseCoversWorker ==
  \A i \in RunningTrials \cup Range(channel) : i \in Leased /\ active[i] = given[i]

(* When the coordinator goes to sleep, no pending trial would fit in the    *)
(* free GPUs, unless the user's cap is reached: neither the lane count of   *)
(* the preflight nor the backfill order leaves GPUs idle.                   *)
WorkConserving ==
  pc = "await" /\ error = "none" =>
    \A i \in pending : Fits(i) => Cardinality(Leased) >= Smaller(maxParallel, NumGpus)

(* The report is a prefix of the declared trials, in order, each with the   *)
(* outcome its worker ended with; report.json lags by at most the trial     *)
(* whose checkpoint failed.                                                 *)
ReportFaithful ==
  /\ \A k \in DOMAIN report : report[k] = [trial |-> k, outcome |-> worker[k]]
  /\ Len(report) - saved <= (IF error = "fault" THEN 1 ELSE 0)

(* A trial is recorded as interrupted only if the operator cancelled: the   *)
(* coordinator's own cancellation of its workers never leaks into the       *)
(* report as a trial result.                                                *)
InterruptedOnlyByOperator ==
  (\E k \in DOMAIN report : report[k].outcome = "interrupted") => operatorCancelled

(* A sweep that returns Ok ran, announced, committed and saved every trial. *)
OkMeansComplete ==
  pc = "returned" /\ error = "none" =>
    /\ Len(report) = Len(demand) /\ saved = Len(demand)
    /\ announced = Trials /\ pending = {}

(* Once the loop is over nothing runs, nothing is leased and nothing is     *)
(* left unread in the channel: joining the workers never blocks.            *)
QuiescentAtJoin ==
  pc \in {"join", "returned"} =>
    RunningTrials = {} /\ Leased = {} /\ channel = << >>

(* What holds of a sweep at every moment besides, whatever fails: leases    *)
(* outlive their workers, the report is honest about its trials and about   *)
(* interruptions, and neither its Ok nor its end leaves anything open.      *)
SweepConsistent ==
  /\ SweepTypeOK /\ LeaseCoversWorker
  /\ ReportFaithful /\ InterruptedOnlyByOperator
  /\ OkMeansComplete /\ QuiescentAtJoin

(* None of the errors the code has for what should never happen is ever     *)
(* raised, whatever fails and in whatever order trials end: no lease that   *)
(* is not held is ended, no port of another lease recorded, no trial        *)
(* dispatched twice, none left over that cannot be placed, and no sweep     *)
(* ends healthy with a trial missing.                                       *)
NeverStumbles == error # "defect"

(* The sweep is one way to execute the trials of a run: it logs them in     *)
(* order, never past one that is not saved, and its result is honest.       *)
Log == INSTANCE TrialLog WITH
  total <- Len(demand),
  logged <- [k \in DOMAIN report |-> report[k].trial],
  durable <- saved,
  verdict <- IF pc # "returned" THEN "open" ELSE IF error = "none" THEN "ok" ELSE "failed"
ImplementsTrialLog == Log!LogSpec

(* Whatever fails and whenever it is cancelled, the sweep returns. *)
Terminates == <>(pc = "returned")

(* A trial that ran to success and was announced as completed is in the     *)
(* report.json the sweep leaves behind (README: report.json is "atomically  *)
(* checkpointed after preflight, every trial, [...]").                      *)
EveryCompletedTrialReported ==
  pc = "returned" =>
    \A i \in announced : worker[i] = "success" => \E k \in 1..saved : report[k].trial = i
=============================================================================
