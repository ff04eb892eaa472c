---------------------------- MODULE EvaluationRun ---------------------------
(***************************************************************************)
(* One bench or sweep run (src/src/app.rs, run_evaluation_with_cancellation *)
(* and what it calls): the report in memory and report.json, the trials,   *)
(* the winner's best.toml, the submission to the leaderboard, every early  *)
(* return, the operator who may cancel and a crash between any two steps.  *)
(* Trials run one after the other, or as a parallel sweep that is seen     *)
(* through its contract, TrialLog, which ParallelSweep implements.         *)
(***************************************************************************)
EXTENDS RunReport

CONSTANTS TrialCount,  \* the number of candidates
          RunFaults    \* the kinds of trouble this instance may meet

RunFaultKinds == {"cancel",       \* SIGINT, SIGTERM or a cancelled request
                  "crash",        \* the process dies
                  "preflight",    \* image, hardware or parameters not resolved
                  "trial",        \* a trial fails by itself
                  "worker",       \* a trial returns an error, a port is missing
                  "io",           \* report.json is not written, or not synced
                  "install",      \* best.toml is not written, or not synced
                  "clock",        \* the clock fails or ran backwards
                  "leaderboard",  \* a request of the submission fails
                  "output"}       \* a line of progress or output is not written

ASSUME RunAssumption == TrialCount \in Nat \ {0} /\ RunFaults \subseteq RunFaultKinds

VARIABLES pc,         \* where the run is
          parallel,   \* whether this is a local Docker sweep
          submits,    \* whether a submission was asked for
          cancelled,  \* the cancellation token
          report,     \* the report in memory
          disk,       \* the content of report.json
          bestFile,   \* the trial whose configuration best.toml holds, 0 if none
          execution,  \* execution_result: open, ok or failed
          error,      \* the error the run is about to return, or none
          answer,     \* what the leaderboard client returned
          posted      \* the report the leaderboard received

runVars == <<pc, parallel, submits, cancelled, report, disk, bestFile, execution,
             error, answer, posted>>

Absent == [Fresh EXCEPT !.state = "absent"]
Files == Report \cup {Absent}

Executing == {"trials", "trial"}
PCs == {"create", "preflight", "open"} \cup Executing \cup
       {"decide", "install", "finish", "submit", "record", "announce",
        "failing", "returned", "crashed"}
Errors == {"none", "preflight", "worker", "interrupted", "no_winner", "io", "install",
           "clock", "leaderboard", "output", "refused"}
-----------------------------------------------------------------------------
(* A deliberate defect, for a mutation run: an error of the trials is       *)
(* returned without finishing the report.                                   *)
ReturnAtOnce(next) == /\ pc' = IF next = "failing" THEN "returned" ELSE next
                      /\ execution' = IF next = "failing" THEN "failed" ELSE execution

(* An error in the execution stage fails execution_result. *)
Leave(next) == /\ pc' = next
               /\ execution' = IF next = "failing" /\ execution = "open" THEN "failed"
                                                                         ELSE execution

(* An error that leaves both the report and the file alone. *)
Fault(cause, next) == Leave(next) /\ error' = cause /\ UNCHANGED <<report, disk>>

(* Deliberate defects, for the mutation runs: a checkpoint is written in    *)
(* place; a run does not look at the token after its trials; the result of  *)
(* a submission is kept in memory.                                          *)
CheckpointInPlace(r, next, onError) ==
  \/ disk' = r /\ pc' = next /\ UNCHANGED <<execution, error>>
  \/ /\ "io" \in RunFaults
     /\ Leave(onError) /\ error' = "io" /\ disk' \in {disk, Absent, r}
NotSeen == FALSE
KeepInMemory(r) ==
  /\ report' = r
  /\ pc' = IF answer = "failed" THEN "returned" ELSE "announce"
  /\ UNCHANGED <<disk, execution, error>>
-----------------------------------------------------------------------------
(* checkpoint: the report is validated and written atomically; when the     *)
(* write fails the file is the old one, or the new one if only the sync of  *)
(* the directory failed.                                                    *)
Checkpoint(r, next, onError) ==
  \/ Valid(r) /\ disk' = r /\ pc' = next /\ UNCHANGED <<execution, error>>
  \/ /\ "io" \in RunFaults \/ ~Valid(r)
     /\ Leave(onError)
     /\ error' = IF Valid(r) THEN "io" ELSE "refused"
     /\ disk' \in {disk} \cup {d \in {r} : Valid(d)}

RunInit ==
  /\ pc = "create"
  /\ parallel \in BOOLEAN /\ submits \in BOOLEAN
  /\ cancelled = FALSE
  /\ report = Fresh /\ disk = Absent /\ bestFile = 0
  /\ execution = "open" /\ error = "none"
  /\ answer = "none" /\ posted = Absent

Unsubmitted == UNCHANGED <<parallel, submits, answer, posted>>
-----------------------------------------------------------------------------
(* The run directory exists: the running report is checkpointed. *)
CreateReport ==
  /\ pc = "create"
  /\ \/ Checkpoint(report, "preflight", "returned") /\ UNCHANGED report
     \/ "clock" \in RunFaults /\ Fault("clock", "returned")
  /\ UNCHANGED <<cancelled, bestFile>> /\ Unsubmitted

(* evaluation_preflight *)
Preflight ==
  /\ pc = "preflight"
  /\ \/ pc' = "open" /\ UNCHANGED <<execution, error, report, disk>>
     \/ "preflight" \in RunFaults /\ Fault("preflight", "failing")
     \/ cancelled /\ Fault("interrupted", "failing")
  /\ UNCHANGED <<cancelled, bestFile>> /\ Unsubmitted

(* The preflight's results and warnings are recorded and checkpointed; for  *)
(* a sweep the scheduler is prepared before the checkpoint.                 *)
OpenReport ==
  /\ pc = "open"
  /\ \/ IF CanSetPreflight(report)
          THEN report' = WithPreflight(report) /\ Checkpoint(report', "trials", "failing")
          ELSE Fault("refused", "failing")
     \/ /\ parallel /\ "preflight" \in RunFaults
        /\ report' = WithPreflight(report)
        /\ Leave("failing") /\ error' = "preflight" /\ UNCHANGED disk
  /\ UNCHANGED <<cancelled, bestFile>> /\ Unsubmitted

(* push_trial and checkpoint *)
Log(t) ==
  IF CanPush(report, t)
    THEN report' = Pushed(report, t) /\ Checkpoint(report', "trials", "failing")
    ELSE Fault("refused", "failing")

(* The outcome of the next trial: a trial fails by itself or cancelled, and *)
(* may have been measured before it failed.                                 *)
NextOutcomes ==
  {t \in {[index |-> Len(report.trials) + 1, success |-> b, score |-> s] :
             b \in BOOLEAN, s \in Scores \cup {0}} :
     IF t.success THEN t.score # 0 ELSE cancelled \/ "trial" \in RunFaults}

MoreTrials(r) == Len(r.trials) < TrialCount

(* execute_sequential_trials: the token, the progress line, the trial. *)
StartTrial ==
  /\ pc = "trials" /\ ~parallel /\ MoreTrials(report)
  /\ \/ cancelled /\ Fault("interrupted", "failing")
     \/ ~cancelled /\ "output" \in RunFaults /\ Fault("output", "failing")
     \/ ~cancelled /\ pc' = "trial" /\ UNCHANGED <<execution, error, report, disk>>
  /\ UNCHANGED <<cancelled, bestFile>> /\ Unsubmitted

EndTrial ==
  /\ pc = "trial"
  /\ \/ \E t \in NextOutcomes : Log(t)
     \/ "worker" \in RunFaults /\ Fault("worker", "failing")
  /\ UNCHANGED <<cancelled, bestFile>> /\ Unsubmitted

(* execute_parallel_sweep, as TrialLog: it commits a trial, or fails. *)
SweepTrial ==
  /\ pc = "trials" /\ parallel /\ MoreTrials(report)
  /\ \/ \E t \in NextOutcomes : Log(t)
     \/ cancelled /\ Fault("interrupted", "failing")
     \/ "worker" \in RunFaults /\ Fault("worker", "failing")
  /\ UNCHANGED <<cancelled, bestFile>> /\ Unsubmitted

TrialsDone ==
  /\ pc = "trials" /\ Len(report.trials) = TrialCount
  /\ pc' = "decide" /\ execution' = "ok"
  /\ UNCHANGED <<cancelled, report, disk, bestFile, error>> /\ Unsubmitted
-----------------------------------------------------------------------------
Seen == cancelled

(* The token is looked at for the last time, and a winner is needed. *)
Decide ==
  /\ pc = "decide"
  /\ \/ Seen /\ Fault("interrupted", "failing")
     \/ ~Seen /\ report.best = 0 /\ Fault("no_winner", "failing")
     \/ ~Seen /\ report.best # 0 /\ pc' = "install"
        /\ UNCHANGED <<execution, error, report, disk>>
  /\ UNCHANGED <<cancelled, bestFile>> /\ Unsubmitted

Winner(r) == r.best

(* install_best_config and set_best_config_path *)
InstallBest ==
  /\ pc = "install"
  /\ \/ /\ bestFile' = Winner(report)
        /\ IF CanSetBestPath(report)
             THEN /\ report' = WithBestPath(report)
                  /\ pc' = "finish" /\ UNCHANGED <<execution, error, disk>>
             ELSE Fault("refused", "returned")
     \/ /\ "install" \in RunFaults
        /\ bestFile' \in {bestFile, Winner(report)}
        /\ Fault("install", "returned")
  /\ UNCHANGED cancelled /\ Unsubmitted

(* finish and checkpoint, and what follows *)
Conclude(state, failure, next) ==
  \/ IF CanFinish(report, state, failure)
       THEN /\ report' = Finished(report, state, failure)
            /\ Checkpoint(report', next, "returned")
       ELSE Fault("refused", "returned")
  \/ "clock" \in RunFaults /\ Fault("clock", "returned")

CompletedState(r) == IF HasFailures(r) THEN "completed_with_failures" ELSE "completed"

FinishReport ==
  /\ pc = "finish"
  /\ Conclude(CompletedState(report), FALSE, IF submits THEN "submit" ELSE "announce")
  /\ UNCHANGED <<cancelled, bestFile>> /\ Unsubmitted

(* finish_failed_report; the error that led here is then returned. *)
FinishFailed ==
  /\ pc = "failing"
  /\ Conclude(IF error = "interrupted" \/ cancelled THEN "interrupted" ELSE "failed",
              TRUE, "returned")
  /\ UNCHANGED <<cancelled, bestFile>> /\ Unsubmitted

(* submit_report: report.json is read back and posted, then the event of    *)
(* the submission is read.  The post may be received and the call fail; an  *)
(* error before the post (reading the file, a progress line, the client) is *)
(* returned at once.                                                        *)
SubmitReport ==
  /\ pc = "submit"
  /\ \/ /\ posted' = disk /\ answer' \in {"accepted", "queued"}
        /\ pc' = "record" /\ UNCHANGED <<execution, error, report, disk>>
     \/ /\ "leaderboard" \in RunFaults
        /\ posted' \in {posted, disk} /\ answer' = "failed"
        /\ Fault("leaderboard", "record")
     \/ /\ \E cause \in RunFaults \cap {"io", "output", "leaderboard"} :
             Fault(cause, "returned")
        /\ UNCHANGED <<posted, answer>>
  /\ UNCHANGED <<parallel, submits, cancelled, bestFile>>

SaveSubmission(r) ==
  report' = r /\ Checkpoint(r, IF answer = "failed" THEN "returned" ELSE "announce", "returned")

(* The answer is recorded; a good one is first reported on the progress     *)
(* stream, a bad one ends the run with its error.                           *)
RecordSubmission ==
  /\ pc = "record"
  /\ \/ IF CanSetSubmission(report)
          THEN SaveSubmission(WithSubmission(report, answer))
          ELSE Fault("refused", "returned")
     \/ answer # "failed" /\ "output" \in RunFaults /\ Fault("output", "returned")
  /\ UNCHANGED <<cancelled, bestFile>> /\ Unsubmitted

(* The output lines that name the report and the winning configuration. *)
Announce ==
  /\ pc = "announce"
  /\ \/ pc' = "returned" /\ UNCHANGED <<execution, error, report, disk>>
     \/ "output" \in RunFaults /\ Fault("output", "returned")
  /\ UNCHANGED <<cancelled, bestFile>> /\ Unsubmitted
-----------------------------------------------------------------------------
Done == pc \in {"returned", "crashed"}

OperatorCancels ==
  /\ "cancel" \in RunFaults /\ ~Done /\ ~cancelled
  /\ cancelled' = TRUE
  /\ UNCHANGED <<pc, report, disk, bestFile, execution, error>> /\ Unsubmitted

Crash ==
  /\ "crash" \in RunFaults /\ ~Done
  /\ pc' = "crashed"
  /\ UNCHANGED <<cancelled, report, disk, bestFile, execution, error>> /\ Unsubmitted

RunStep == \/ CreateReport \/ Preflight \/ OpenReport
           \/ StartTrial \/ EndTrial \/ SweepTrial \/ TrialsDone
           \/ Decide \/ InstallBest \/ FinishReport \/ FinishFailed
           \/ SubmitReport \/ RecordSubmission \/ Announce

RunNext == RunStep \/ OperatorCancels \/ Crash

RunSpec == RunInit /\ [][RunNext]_runVars
-----------------------------------------------------------------------------
(* Every variable has its type. *)
RunTypeOK ==
  /\ pc \in PCs
  /\ parallel \in BOOLEAN /\ submits \in BOOLEAN /\ cancelled \in BOOLEAN
  /\ report \in Report /\ Len(report.trials) <= TrialCount
  /\ disk \in Files /\ posted \in Files
  /\ bestFile \in 0..TrialCount
  /\ execution \in {"open", "ok", "failed"}
  /\ error \in Errors
  /\ answer \in Submissions

(* No legal run makes the report refuse an operation: the checks of         *)
(* set_preflight, push_trial, finish, set_submission and validate are       *)
(* never what ends a run.                                                   *)
NeverRefused == error # "refused"

(* The winner is the earliest of the best successful trials; a failed trial *)
(* never wins, even with a better measurement.                              *)
WinnerIsBest ==
  LET better(k, l) == \/ report.trials[k].score > report.trials[l].score
                      \/ report.trials[k].score = report.trials[l].score /\ k < l
      successes == {k \in DOMAIN report.trials : report.trials[k].success}
  IN  IF successes = {} THEN report.best = 0
      ELSE /\ report.best \in successes
           /\ \A k \in successes \ {report.best} : better(report.best, k)

(* A report.json that says completed, whatever happened before or happens   *)
(* next, holds every trial, and best.toml holds its winner.                 *)
CompletedIsWhole ==
  disk.state \in CompletedStates =>
    /\ Len(disk.trials) = TrialCount
    /\ bestFile = disk.best /\ bestFile # 0

(* A run that has returned left a final report.json, unless writing it,     *)
(* writing best.toml or reading the clock failed.                           *)
FinalUnlessNotWritten ==
  pc = "returned" /\ error \notin {"io", "install", "clock"} => disk.state \in FinalStates

(* A run that returns Ok left in report.json exactly the report it hands to *)
(* its caller: completed and, if asked for, submitted.                      *)
OkIsDurable ==
  pc = "returned" /\ error = "none" =>
    /\ disk = report
    /\ disk.state \in CompletedStates
    /\ submits = (disk.submission \in {"accepted", "queued"})

(* What the leaderboard received is the final report, and it stays so: the  *)
(* file differs from it in the result of the submission alone.              *)
SubmittedIsFinal ==
  posted # Absent =>
    /\ posted.state \in CompletedStates
    /\ posted = [disk EXCEPT !.submission = "none"]

(* What holds of a run at every moment besides: its report is never refused *)
(* by its own checks, and what it says when it is completed, returned with  *)
(* Ok or submitted is what is on the disk, in best.toml and out there.      *)
RunConsistent ==
  /\ RunTypeOK /\ NeverRefused
  /\ CompletedIsWhole /\ OkIsDurable /\ SubmittedIsFinal

(* Once the operator has cancelled a run whose trials are not all over, the *)
(* run does not complete, even if its last trials still succeed.            *)
CancellationHeeded ==
  [](cancelled /\ execution = "open" => [](disk.state \notin CompletedStates))

(* report.json keeps the promises of RunRecord. *)
Record == INSTANCE RunRecord WITH file <- disk
ImplementsRecord == Record!RecordSpec

(* The execution stage keeps the promises of TrialLog, as the parallel      *)
(* sweep it stands for does.                                                *)
TrialsLog == INSTANCE TrialLog WITH
  total <- TrialCount,
  logged <- [k \in DOMAIN report.trials |-> report.trials[k].index],
  durable <- Len(disk.trials),
  verdict <- execution
ImplementsTrialLog == TrialsLog!LogSpec
=============================================================================
