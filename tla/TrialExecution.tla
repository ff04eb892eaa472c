----------------------------- MODULE TrialExecution -----------------------------
(***************************************************************************)
(* What is done with one engine: execute_trial_steps with its three users  *)
(* (execute_trial, the correctness-only check, and serve), and             *)
(* ManagedServer (runtime/server.rs) below it.  One thread walks through   *)
(* the stages; next to it live the engine it started, whoever else takes   *)
(* the engine's address, the operator and the startup deadline.  A client  *)
(* process (lighteval, the capability probe, the benchmark) is run to its  *)
(* end by ProcessExecutor::execute, whose contract ManagedProcess checks.  *)
(* Left out: what may fail before a check's preflight (app.rs:552, 557),   *)
(* and a handle's drop or stop that never ends because a drain does not    *)
(* after a signal that failed.                                             *)
(***************************************************************************)
EXTENDS Naturals, FiniteSets

CONSTANTS
    Modes,   \* what is run: "trial", "check", "serve"
    Faults,  \* what may fail
    Nothing  \* an Option that is None

AllFaults == {"dir", "plan", "progress", "spawn", "poll", "stop", "process", "cleanup",
              "metrics", "collect", "artifacts", "persist"}

ASSUME TrialAssumption ==
    Modes \subseteq {"trial", "check", "serve"} /\ Faults \subseteq AllFaults

VARIABLES
    mode,        \* which of the three this is
    gate,        \* correctness.enabled
    probe,       \* a parser is configured: capability_probe_spec is Some
    reserved,    \* HostPortReservation: the listener still holds the address
    engine,      \* the engine process: "none", "loading", "serving", "dead"
    foreign,     \* another process answers at the address
    visits,      \* history: it had the address "before", or took it "after", the launch
    cancelled,   \* the token
    late,        \* the startup deadline has passed
    pc,          \* where the thread stands
    held,        \* `server` is Some: a handle whose drop kills the engine
    heard,       \* who answered while the client of this stage ran
    failure,     \* Option<TrialFailure>
    metrics,     \* Option<BenchmarkMetrics>: who was measured, and whether valid
    correctness, \* Option<CorrectnessResult>: its status, and who was asked
    result,      \* what the call returned
    report,      \* the state in the check's report.json
    struck       \* history: the faults that happened

env  == <<mode, gate, probe>>
host == <<reserved, engine, foreign, visits, cancelled, late>>
got  == <<failure, metrics, correctness>>
vars == <<env, host, pc, held, heard, got, result, report, struck>>

Voices  == {"engine", "foreign", "nobody"}
Clients == {"lighteval", "capabilities", "benchmark"}
Kinds   == {"inUse", "plan", "interrupted", "timeout", "exit", "io", "cleanup", "gate",
            "results", "metrics"}

\* TrialFailure, BenchmarkMetrics, CorrectnessResult.
Failures     == [kind : Kinds, timedOut : BOOLEAN, interrupted : BOOLEAN]
Measurements == [valid : BOOLEAN, measured : SUBSET Voices]
Answers      == [status : {"passed", "failed"}, asked : SUBSET Voices]

ASSUME NothingAssumption ==
    Nothing \notin Failures /\ Nothing \notin Measurements /\ Nothing \notin Answers

Init ==
    /\ mode \in Modes
    /\ gate \in BOOLEAN /\ (mode = "check" => gate) /\ (mode = "serve" => ~gate)
    /\ probe \in BOOLEAN /\ (probe => gate)
    /\ reserved \in BOOLEAN /\ (reserved => mode = "trial")
    /\ foreign \in BOOLEAN /\ (reserved => ~foreign)
    /\ engine = "none" /\ visits = IF foreign THEN {"before"} ELSE {}
    /\ cancelled = FALSE /\ late = FALSE
    /\ pc = "new" /\ held = FALSE /\ heard = {}
    /\ failure = Nothing /\ metrics = Nothing /\ correctness = Nothing
    /\ result = "none" /\ report = "none" /\ struck = {}
-------------------------------------------------------------------------------
(* Around the thread.  One address has one listener: an engine that comes   *)
(* up late cannot serve while somebody else does.                           *)

Voice(e, f) == IF f THEN "foreign" ELSE IF e = "serving" THEN "engine" ELSE "nobody"

Talking == pc \in {"lighteval_run", "capabilities_run", "benchmark_run"}

Hear(e, f) == heard' = IF Talking THEN heard \cup {Voice(e, f)} ELSE heard

EngineServes ==
    /\ engine = "loading" /\ ~foreign /\ ~reserved
    /\ engine' = "serving" /\ Hear("serving", foreign)
    /\ UNCHANGED <<env, reserved, foreign, visits, cancelled, late, pc, held, got, result,
                   report, struck>>

EngineDies ==
    /\ engine \in {"loading", "serving"}
    /\ engine' = "dead" /\ Hear("dead", foreign)
    /\ UNCHANGED <<env, reserved, foreign, visits, cancelled, late, pc, held, got, result,
                   report, struck>>

ForeignBinds ==
    /\ ~foreign /\ ~reserved /\ engine # "serving"
    /\ foreign' = TRUE /\ Hear(engine, TRUE)
    /\ visits' = visits \cup {IF engine = "none" THEN "before" ELSE "after"}
    /\ UNCHANGED <<env, reserved, engine, cancelled, late, pc, held, got, result, report,
                   struck>>

ForeignLeaves ==
    /\ foreign /\ foreign' = FALSE /\ Hear(engine, FALSE)
    /\ UNCHANGED <<env, reserved, engine, visits, cancelled, late, pc, held, got, result,
                   report, struck>>

Cancel ==
    /\ ~cancelled /\ cancelled' = TRUE
    /\ UNCHANGED <<env, reserved, engine, foreign, visits, late, pc, held, heard, got,
                   result, report, struck>>

StartupDeadline ==
    /\ ~late /\ engine # "none" /\ late' = TRUE
    /\ UNCHANGED <<env, reserved, engine, foreign, visits, cancelled, pc, held, heard, got,
                   result, report, struck>>
-------------------------------------------------------------------------------
(* Failures.                                                                *)

Failure(kind) ==
    [kind |-> kind, timedOut |-> kind = "timeout", interrupted |-> kind = "interrupted"]

\* Deliberate defect: what goes wrong last is what is reported.
LastFailure(kind) == Failure(kind)

\* merge_trial_failure: what went wrong first stays, its flags add up.
Merged(kind) ==
    IF failure = Nothing THEN Failure(kind)
    ELSE [failure EXCEPT !.timedOut = @ \/ kind = "timeout",
                         !.interrupted = @ \/ kind = "interrupted"]

\* A step of the thread that leaves the world as it is.
Goto(to) == pc' = to /\ UNCHANGED <<env, host, held, heard, result, report>>
Note(f)  == f \in Faults /\ struck' = struck \cup {f}
Fine     == UNCHANGED struck

FailWith(kind, to) ==
    /\ failure' = Failure(kind) /\ Goto(to) /\ UNCHANGED <<metrics, correctness>>

\* The handle is given up, and the engine with it, whatever the thread does
\* next; a signal that cannot be sent, or a look that fails, may leave it alive.
BringDown(faults) ==
    /\ held' = FALSE
    /\ \E F \in {{}, {"stop"}} :
         /\ faults \cup F \subseteq Faults /\ struck' = struck \cup faults \cup F
         /\ engine' = IF engine = "none" \/ ~held \/ F # {} THEN engine ELSE "dead"
    /\ UNCHANGED <<env, reserved, foreign, visits, cancelled, late, heard>>

\* Deliberate defect: an early return forgets the engine.
LeaveEngine(f) ==
    /\ pc' = "left" /\ result' = "error" /\ Note(f)
    /\ UNCHANGED <<env, host, held, heard, got, report>>

\* `?` before the last stage: the handle is dropped, which ends the engine.
LeaveEarly(f) ==
    /\ pc' = "left" /\ BringDown({f}) /\ result' = "error" /\ UNCHANGED <<got, report>>

\* A progress line that cannot be written, before or after any stage.
ProgressFails ==
    /\ pc \in {"start", "lighteval", "benchmark", "served", "checked", "measured", "alive",
               "stopped"}
    /\ mode = "serve" => pc = "served" /\ failure = Nothing
    /\ LeaveEarly("progress")
-------------------------------------------------------------------------------
(* Up to the engine.                                                        *)

prepareRest == <<env, engine, foreign, visits, cancelled, late, held, heard, metrics,
                 correctness, report>>

\* Deliberate defect: the listener outlives the look at the address.
PrepareHolding ==
    /\ pc = "new" /\ Fine /\ pc' = "start"
    /\ UNCHANGED <<prepareRest, reserved, failure, result>>

\* create_private_dir, managed_run_plan; the port's listener is dropped when
\* the plan stands, before anybody looks at the address.
Prepare ==
    /\ pc = "new"
    /\ \/ Note("dir") /\ pc' = "left" /\ result' = "error" /\ UNCHANGED <<reserved, failure>>
       \/ /\ Note("plan") /\ reserved' = FALSE
          /\ IF mode = "serve" THEN pc' = "left" /\ result' = "error" /\ UNCHANGED failure
             ELSE pc' = "finish" /\ failure' = Failure("plan") /\ UNCHANGED result
       \/ Fine /\ reserved' = FALSE /\ pc' = "start" /\ UNCHANGED <<failure, result>>
    /\ UNCHANGED prepareRest

Taken == foreign \/ reserved

\* ManagedServer::start and the spawn below it, which heeds the token first.
Launch ==
    /\ pc = "start" /\ ~Taken /\ ~cancelled
    /\ engine' = "loading" /\ held' = TRUE /\ pc' = "token" /\ Fine
    /\ UNCHANGED <<env, reserved, foreign, visits, cancelled, late, heard, got, result,
                   report>>

LaunchFails ==
    /\ pc = "start"
    /\ \/ Taken /\ Fine /\ FailWith("inUse", "served")
       \/ ~Taken /\ cancelled /\ Fine /\ FailWith("interrupted", "served")
       \/ ~Taken /\ ~cancelled /\ Note("spawn") /\ FailWith("io", "served")

\* wait_ready: the token, the child, the probe, the clock, in this order.  The
\* first error stands, however terminate fares.
Look(at, to) == pc = at /\ Fine /\ Goto(to) /\ UNCHANGED got

GiveUp(at, kind, faults) ==
    /\ pc = at /\ pc' = "served" /\ BringDown(faults)
    /\ failure' = Failure(kind)
    /\ UNCHANGED <<metrics, correctness, result, report>>

\* Deliberate defect: nobody looks at the clock.
NoClock == Look("clock", "token")

Clock == (~late /\ Look("clock", "token")) \/ (late /\ GiveUp("clock", "timeout", {}))

WaitReady ==
    \/ ~cancelled /\ Look("token", "status")
    \/ cancelled /\ GiveUp("token", "interrupted", {})
    \/ engine # "dead" /\ Look("status", "answer")
    \/ engine = "dead" /\ GiveUp("status", "exit", {})
    \/ GiveUp("status", "io", {"poll"})
    \/ Voice(engine, foreign) # "nobody" /\ Look("answer", "served")
    \/ Look("answer", "clock")
    \/ Clock
-------------------------------------------------------------------------------
(* The stages.  "served", "checked" and "measured" are the ends of stages,  *)
(* where the next one is chosen.                                            *)

AfterServed ==
    IF failure = Nothing /\ mode = "serve" THEN "loop"
    ELSE IF failure = Nothing /\ gate THEN "lighteval"
    ELSE IF failure = Nothing /\ mode = "trial" THEN "benchmark"
    ELSE IF held THEN "alive" ELSE "finish"

AfterChecked == IF failure = Nothing /\ mode = "trial" THEN "benchmark" ELSE "alive"

StageEnds ==
    \/ Look("served", AfterServed)
    \/ Look("checked", AfterChecked)
    \/ Look("measured", "alive")

\* Where a client that failed leads.
Missed(c) == IF c = "benchmark" THEN "measured" ELSE "checked"

Running(c) == CASE c = "lighteval"    -> "lighteval_run"
                [] c = "capabilities" -> "capabilities_run"
                [] c = "benchmark"    -> "benchmark_run"

Read(c) == CASE c = "lighteval"    -> IF probe THEN "capabilities" ELSE "collect"
             [] c = "capabilities" -> "collect"
             [] c = "benchmark"    -> "metrics"

\* The private directory of the results is made before lighteval is run.
ClientStarts(c) ==
    /\ pc = c
    /\ \/ /\ ~cancelled /\ Fine
          /\ pc' = Running(c)
          /\ heard' = (IF c = "capabilities" THEN heard ELSE {}) \cup {Voice(engine, foreign)}
          /\ UNCHANGED <<env, host, held, got, result, report>>
       \/ cancelled /\ Fine /\ FailWith("interrupted", Missed(c))
       \/ ~cancelled /\ Note("spawn") /\ FailWith("io", Missed(c))
       \/ c = "lighteval" /\ LeaveEarly("dir")

\* A client exits with status zero (its container may be hard to remove), or
\* is stopped, or fails; only the token has it interrupted.
ClientEnds(c) ==
    /\ pc = Running(c)
    /\ \/ Fine /\ Goto(Read(c)) /\ UNCHANGED got
       \/ \E k \in {"cleanup", "timeout"} : Note("cleanup") /\ FailWith(k, Missed(c))
       \/ cancelled /\ Fine /\ FailWith("interrupted", Missed(c))
       \/ \E k \in {"exit", "timeout", "io"} : Note("process") /\ FailWith(k, Missed(c))

\* collect_results and correctness_gate_failure: the result is kept either way.
Collect ==
    /\ pc = "collect" /\ Goto("checked") /\ UNCHANGED metrics
    /\ \/ Note("collect") /\ failure' = Failure("results") /\ UNCHANGED correctness
       \/ /\ Fine
          /\ \E status \in {"passed", "failed"} :
               /\ correctness' = [status |-> status, asked |-> heard]
               /\ failure' = IF status = "passed" THEN failure ELSE Failure("gate")

\* read_benchmark_metrics, validate_for: invalid metrics are kept, and fail.
ReadMetrics ==
    /\ pc = "metrics" /\ Goto("measured") /\ UNCHANGED correctness
    /\ \/ Note("metrics") /\ failure' = Failure("metrics") /\ UNCHANGED metrics
       \/ /\ Fine
          /\ \E valid \in BOOLEAN :
               /\ metrics' = [valid |-> valid, measured |-> heard]
               /\ failure' = IF valid THEN failure ELSE Failure("metrics")

\* Deliberate defect: nobody asks whether the engine outlived the workload.
AssumeAlive == Look("alive", "stop")

\* is_running, asked only of a trial that went well so far.
CheckAlive ==
    \/ failure # Nothing /\ Look("alive", "stop")
    \/ failure = Nothing /\ engine # "dead" /\ Look("alive", "stop")
    \/ failure = Nothing /\ pc = "alive" /\ engine = "dead" /\ Fine /\ FailWith("exit", "stop")
    \/ failure = Nothing /\ pc = "alive" /\ Note("poll") /\ FailWith("io", "stop")

\* stop: its error, or that of the container's removal, is merged.
Stop ==
    /\ pc = "stop" /\ pc' = "stopped"
    /\ \/ BringDown({})
          /\ failure' = IF engine' = engine /\ engine # "dead" THEN Merged("io") ELSE failure
       \/ BringDown({"process"}) /\ failure' = Merged("io")
       \/ BringDown({"cleanup"}) /\ \E k \in {"cleanup", "timeout"} : failure' = Merged(k)
    /\ UNCHANGED <<metrics, correctness, result, report>>

StoppedEnds == Look("stopped", "finish")

\* run_serve's loop, which goes on while the engine does and nobody cancels;
\* the outcome of stop is lost, a failing look drops the handle.
ServeLoop ==
    /\ pc = "loop" /\ UNCHANGED <<got, report>>
    /\ \/ /\ (IF cancelled THEN result' = "interrupted"
              ELSE engine = "dead" /\ result' = "error")
          /\ pc' = "left" /\ BringDown({})
       \/ ~cancelled /\ BringDown({"poll"}) /\ pc' = "left" /\ result' = "error"
-------------------------------------------------------------------------------
(* What comes of it.                                                        *)

\* finish_trial of a trial; serve returns the error.
Finish ==
    /\ pc = "finish" /\ mode # "check" /\ pc' = "done"
    /\ \/ /\ Fine
          /\ result' = IF mode = "serve"
                       THEN IF failure.interrupted THEN "interrupted" ELSE "error"
                       ELSE IF failure = Nothing THEN "success" ELSE "failed"
       \/ mode = "trial" /\ Note("artifacts") /\ result' = "error"
    /\ UNCHANGED <<env, host, held, heard, got, report>>

\* Deliberate defect: the error of the check's steps is returned as it is.
CheckForgets ==
    /\ pc = "finish" /\ mode = "check" /\ pc' = "done"
    /\ result' = IF failure = Nothing THEN "success" ELSE "error"
    /\ report' = IF failure = Nothing THEN "passed" ELSE report
    /\ Fine /\ UNCHANGED <<env, host, held, heard, got>>

\* The check writes its report once, at its end; whatever error it got is
\* returned, unless the report cannot be written.
CheckEnds ==
    /\ mode = "check" /\ (pc = "finish" \/ pc = "left") /\ pc' = "done"
    /\ \/ /\ pc = "finish" /\ failure = Nothing /\ Fine
          /\ report' = correctness.status /\ result' = "success"
       \/ /\ pc = "finish" /\ failure # Nothing /\ Fine
          /\ report' = (IF failure.interrupted THEN "interrupted" ELSE "failed")
          /\ result' = "error"
       \/ pc = "finish" /\ Note("artifacts") /\ report' = "failed" /\ result' = "error"
       \/ pc = "left" /\ Fine /\ report' = "failed" /\ result' = "error"
       \/ Note("persist") /\ UNCHANGED report /\ result' = "error"
    /\ UNCHANGED <<env, host, held, heard, got>>

Thread ==
    \/ Prepare \/ Launch \/ LaunchFails \/ WaitReady \/ ProgressFails \/ StageEnds
    \/ \E c \in Clients : ClientStarts(c) \/ ClientEnds(c)
    \/ Collect \/ ReadMetrics \/ CheckAlive \/ Stop \/ StoppedEnds \/ ServeLoop
    \/ Finish \/ CheckEnds

Next ==
    \/ EngineServes \/ EngineDies \/ ForeignBinds \/ ForeignLeaves
    \/ Cancel \/ StartupDeadline \/ Thread

\* The thread goes on (its clients are bounded by their timeouts); time passes.
Spec == Init /\ [][Next]_vars /\ WF_vars(Thread) /\ WF_vars(StartupDeadline)
-------------------------------------------------------------------------------
\* The thread is through; only the check has its report to write after that.
Over == pc = "done" \/ (pc = "left" /\ mode # "check")

TypeOK ==
    /\ mode \in Modes /\ gate \in BOOLEAN /\ probe \in BOOLEAN /\ reserved \in BOOLEAN
    /\ engine \in {"none", "loading", "serving", "dead"}
    /\ foreign \in BOOLEAN /\ visits \subseteq {"before", "after"} /\ cancelled \in BOOLEAN /\ late \in BOOLEAN
    /\ foreign => engine # "serving" /\ ~reserved
    /\ held \in BOOLEAN /\ heard \subseteq Voices
    /\ failure \in {Nothing} \cup Failures
    /\ metrics \in {Nothing} \cup Measurements
    /\ correctness \in {Nothing} \cup Answers
    /\ result \in {"none", "success", "failed", "error", "interrupted"}
    /\ report \in {"none", "passed", "failed", "interrupted"}
    /\ struck \subseteq Faults

\* A success speaks of the engine that was started: whatever was measured, or
\* asked for correctness, was answered by this engine and by nobody else, from
\* the first request to the last, the metrics are valid, and the gate, if there
\* is one, was passed; unless another process took the address later than
\* ManagedServer::start looked at it (hazard: the probe only sees an address).
MeasuredTheEngine ==
    result = "success" /\ "after" \notin visits =>
        /\ mode = "trial" => metrics # Nothing /\ metrics.valid /\ metrics.measured = {"engine"}
        /\ gate => correctness = [status |-> "passed", asked |-> {"engine"}]

\* Whichever way execute_trial_steps or serve is left, the engine is not left
\* behind, unless the process could not be looked at or signalled.
NoEngineLeft == Over => engine \in {"none", "dead"} \/ "stop" \in struck

\* A trial is refused its address only if some other process had it: it does
\* not stumble over the reservation that was made for it.
RefusedByAnother ==
    failure # Nothing /\ failure.kind = "inUse" => "before" \in visits

\* The types hold, and an address is refused only for somebody else's sake.
Consistent == TypeOK /\ RefusedByAnother

\* The first thing that went wrong is what is reported: stopping the server may
\* add to it, and never hides that the operator interrupted or time ran out.
FirstFailureStands ==
    [][failure # Nothing =>
          /\ failure'.kind = failure.kind
          /\ failure.timedOut => failure'.timedOut
          /\ failure.interrupted => failure'.interrupted]_vars

\* A correctness-only check that ends has said on disk what it returns, unless
\* that cannot be written: passed exactly if it succeeds, interrupted exactly if
\* that is what ended its stages, and failed for every other error, also one
\* that left the stages early.
CheckIsReported ==
    mode = "check" /\ pc = "done" /\ "persist" \notin struck =>
        /\ report # "none" /\ (report = "passed" <=> result = "success")
        /\ report = "interrupted" => cancelled
        /\ struck = {} /\ failure # Nothing /\ failure.kind = "interrupted"
             => report = "interrupted"

\* A trial and a check come to their end, whatever the engine, the clients and
\* the address do; serve does once it is cancelled or its engine is gone.
ComesToItsEnd == (mode # "serve" \/ cancelled \/ engine = "dead") ~> Over
================================================================================
