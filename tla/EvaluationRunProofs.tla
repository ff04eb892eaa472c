------------------------ MODULE EvaluationRunProofs ------------------------
(***************************************************************************)
(* Proofs about a run, for every number of trials, every set of scores and *)
(* every combination of faults: the report never refuses an operation, its *)
(* winner is the best trial, a completed report.json is whole, a run that  *)
(* returns leaves a final one, and report.json implements RunRecord.       *)
(***************************************************************************)
EXTENDS EvaluationRun, TLAPS

(* The inductive invariant places the report, and its relation to the file, *)
(* at each point of the run.                                                *)
Open(r) == r.state = "running" /\ r.preflight /\ ~r.bestPath
Whole(r) == Len(r.trials) = TrialCount

ReportStages ==
  /\ Valid(report)
  /\ pc \in {"create", "preflight", "open"} => report = Fresh
  /\ pc \in Executing \cup {"decide", "install"} => Open(report)
  /\ pc = "trial" => Len(report.trials) < TrialCount
  /\ pc \in {"decide", "install", "finish"} => Whole(report)
  /\ pc \in {"install", "finish"} => report.best # 0
  /\ pc = "finish" => report.state = "running" /\ report.preflight /\ report.bestPath
  /\ pc \in {"submit", "record", "announce"} => report.state \in CompletedStates
  /\ pc \in {"submit", "record"} => report.submission = "none"
  /\ pc = "failing" => report.state = "running"

DiskStages ==
  /\ pc = "create" => disk = Absent
  /\ pc \in {"preflight", "open", "decide", "install", "submit", "record", "announce"}
            \cup Executing
       => disk = report
  /\ pc = "finish" => disk = [report EXCEPT !.bestPath = FALSE] /\ bestFile = report.best
  /\ pc = "failing" => /\ disk.state = "running"
                       /\ Record!Grows(disk.trials, report.trials)

ErrorStages ==
  /\ error # "none" => pc \in {"failing", "returned", "crashed"} \/ answer = "failed"
  /\ pc = "record" => answer # "none" /\ (answer = "failed") = (error # "none")
  /\ pc \in {"create", "preflight", "open", "decide", "install", "finish", "submit",
             "announce"} \cup Executing => error = "none"

RunInv == RunTypeOK /\ ReportStages /\ DiskStages /\ ErrorStages /\ NeverRefused
-----------------------------------------------------------------------------
(* What the operations of the report produce. *)

LEMMA FreshReport == Fresh \in Report /\ Valid(Fresh)
<1>1. Fresh.trials = << >> /\ << >> \in Seq(Trial)
  BY DEF Fresh
<1>2. Fresh \in Report
  BY <1>1 DEF Fresh, Report, FinalStates, CompletedStates, Submissions
<1>3. QED
  BY <1>1, <1>2 DEF Fresh, Valid, BestIsSuccess, StateConsistent

LEMMA PreflightReport ==
  /\ WithPreflight(Fresh) \in Report
  /\ Valid(WithPreflight(Fresh))
  /\ Open(WithPreflight(Fresh))
  /\ WithPreflight(Fresh).trials = << >>
  /\ WithPreflight(Fresh).submission = "none"
<1>1. Fresh.trials = << >> /\ Fresh.state = "running" /\ Fresh.best = 0
      /\ Fresh.bestValue = 0 /\ ~Fresh.bestPath /\ ~Fresh.ended /\ ~Fresh.failure
      /\ Fresh.submission = "none"
  BY DEF Fresh
<1>2. WithPreflight(Fresh) \in Report
  BY FreshReport DEF WithPreflight, Report
<1>3. QED
  BY <1>1, <1>2, FreshReport
  DEF WithPreflight, Valid, BestIsSuccess, StateConsistent, Open, Report

(* Pushing a trial keeps a report valid and open: the new trial has the     *)
(* next index, and the winner is still a success with its own score.        *)
LEMMA PushedReport ==
  ASSUME NEW r \in Report, NEW t \in Trial, Valid(r), Open(r), CanPush(r, t)
  PROVE  /\ Pushed(r, t) \in Report
         /\ Pushed(r, t).trials = Append(r.trials, t)
         /\ Pushed(r, t).submission = r.submission
         /\ Open(Pushed(r, t))
         /\ Valid(Pushed(r, t))
<1> DEFINE p == Pushed(r, t)
<1>1. r.trials \in Seq(Trial) /\ t.index = Len(r.trials) + 1
  BY DEF Report, CanPush
<1>2. p.trials = Append(r.trials, t) /\ p.trials \in Seq(Trial)
  BY <1>1 DEF Pushed, Report
<1>3. p \in Report
  BY <1>2 DEF Pushed, Report, Trial, Beats
<1>4. /\ p.state = r.state /\ p.preflight = r.preflight /\ p.bestPath = r.bestPath
      /\ p.ended = r.ended /\ p.failure = r.failure /\ p.submission = r.submission
  BY DEF Pushed, Report
<1>5. \/ p.best = t.index /\ p.bestValue = t.score /\ t.success
      \/ p.best = r.best /\ p.bestValue = r.bestValue
  BY DEF Pushed, Report, Beats
<1>6. DOMAIN p.trials = DOMAIN r.trials \cup {t.index}
  BY <1>1, <1>2
<1>7. /\ p.trials[t.index] = t
      /\ \A k \in DOMAIN r.trials : p.trials[k] = r.trials[k]
  BY <1>1, <1>2
<1>8. \A k \in DOMAIN p.trials : p.trials[k].index = k
  BY <1>6, <1>7 DEF Valid
<1>9. BestIsSuccess(p)
  BY <1>5, <1>6, <1>7 DEF Valid, BestIsSuccess
<1>10. StateConsistent(p) /\ Open(p)
  BY <1>4 DEF Valid, Open, StateConsistent, CompletedStates
<1>11. QED
  BY <1>2, <1>3, <1>4, <1>8, <1>9, <1>10 DEF Valid, Open

LEMMA BestPathReport ==
  ASSUME NEW r \in Report, Valid(r), Open(r), r.best # 0
  PROVE  LET w == WithBestPath(r)
         IN  /\ w \in Report /\ Valid(w)
             /\ w.bestPath /\ w.state = "running" /\ w.preflight
             /\ w.best = r.best /\ w.trials = r.trials
             /\ r = [w EXCEPT !.bestPath = FALSE]
<1>1. WithBestPath(r) \in Report
  BY DEF WithBestPath, Report
<1>2. r = [WithBestPath(r) EXCEPT !.bestPath = FALSE]
  BY DEF WithBestPath, Report, Open
<1>3. QED
  BY <1>1, <1>2 DEF WithBestPath, Report, Valid, BestIsSuccess, StateConsistent, Open, CompletedStates

(* A running report may always be finished as failed, and, with its winner  *)
(* installed, as completed in the state its trials say.                     *)
LEMMA FinishedReport ==
  ASSUME NEW r \in Report, NEW state \in FinalStates, NEW failure \in BOOLEAN,
         Valid(r), r.state = "running",
         \/ state \in {"failed", "interrupted"} /\ failure
         \/ /\ state = CompletedState(r) /\ ~failure
            /\ r.preflight /\ r.bestPath /\ r.best # 0
  PROVE  LET f == Finished(r, state, failure)
         IN  /\ f \in Report /\ CanFinish(r, state, failure)
             /\ f.state = state /\ f.submission = "none"
             /\ f.trials = r.trials /\ f.best = r.best
<1> DEFINE f == Finished(r, state, failure)
<1>1. f \in Report
  BY DEF Finished, Report
<1>2. /\ f.state = state /\ f.ended /\ f.failure = failure /\ f.trials = r.trials
      /\ f.best = r.best /\ f.bestValue = r.bestValue /\ f.bestPath = r.bestPath
      /\ f.preflight = r.preflight /\ f.submission = r.submission
  BY DEF Finished, Report
<1>3. r.submission = "none"
  BY DEF Valid, StateConsistent, CompletedStates
<1>4. BestIsSuccess(f)
  BY <1>2 DEF Valid, BestIsSuccess
<1>5. StateConsistent(f)
  BY <1>2 DEF StateConsistent, CompletedState, CompletedStates, HasFailures
<1>6. Valid(f)
  BY <1>2, <1>4, <1>5 DEF Valid
<1>7. QED
  BY <1>1, <1>2, <1>3, <1>6 DEF CanFinish

LEMMA SubmittedReport ==
  ASSUME NEW r \in Report, NEW result \in Submissions \ {"none"},
         Valid(r), r.state \in CompletedStates, r.submission = "none"
  PROVE  LET w == WithSubmission(r, result)
         IN  /\ w \in Report /\ Valid(w) /\ CanSetSubmission(r)
             /\ w.state = r.state /\ w.submission = result
             /\ w.trials = r.trials /\ w.best = r.best
             /\ r = [w EXCEPT !.submission = "none"]
<1>1. WithSubmission(r, result) \in Report
  BY DEF WithSubmission, Report
<1>2. r = [WithSubmission(r, result) EXCEPT !.submission = "none"]
  BY DEF WithSubmission, Report
<1>3. CanSetSubmission(r)
  BY DEF CanSetSubmission, CompletedStates
<1>4. QED
  BY <1>1, <1>2, <1>3
  DEF WithSubmission, Report, Valid, BestIsSuccess, StateConsistent, CompletedStates, HasFailures
-----------------------------------------------------------------------------
(* The inductive invariant holds initially and is kept by every step. *)

LEMMA AbsentFile ==
  /\ Absent.state = "absent" /\ Absent.trials = << >>
  /\ Absent \notin Report /\ Absent \in Files
<1>1. Absent.state = "absent" /\ Absent.trials = << >> /\ Absent \in Files
  BY DEF Absent, Files, Fresh
<1>2. \A r \in Report : r.state # "absent"
  BY DEF Report, FinalStates, CompletedStates
<1>3. QED BY <1>1, <1>2

LEMMA RunInitInv == RunInit => RunInv
<1> SUFFICES ASSUME RunInit PROVE RunInv
  OBVIOUS
<1>1. Len(report.trials) <= TrialCount
  BY RunAssumption DEF RunInit, Fresh
<1>a. report \in Report /\ disk \in Files /\ posted \in Files
  BY FreshReport, AbsentFile DEF RunInit
<1>b. bestFile \in 0..TrialCount
  BY RunAssumption DEF RunInit
<1>2. RunTypeOK
  BY <1>1, <1>a, <1>b DEF RunInit, RunTypeOK, PCs, Errors, Submissions
<1>3. ReportStages /\ DiskStages /\ ErrorStages /\ NeverRefused
  BY FreshReport DEF RunInit, ReportStages, DiskStages, ErrorStages, NeverRefused, Executing
<1>4. QED BY <1>2, <1>3 DEF RunInv

(* A checkpoint of a valid report leaves the old file or the new one. *)
LEMMA CheckpointEffect ==
  ASSUME NEW r, NEW next, NEW onError, Valid(r), Checkpoint(r, next, onError)
  PROVE  \/ disk' = r /\ pc' = next /\ UNCHANGED <<execution, error>>
         \/ /\ pc' = onError /\ error' = "io" /\ disk' \in {disk, r}
            /\ execution' \in {execution, "failed"}
BY DEF Checkpoint, Leave

LEMMA CreateReportInv ==
  ASSUME RunInv, CreateReport
  PROVE  RunInv'
<1> USE DEF RunInv, CreateReport, Unsubmitted
<1>1. CASE Checkpoint(report, "preflight", "returned") /\ UNCHANGED report
  <2>1. report = Fresh /\ Valid(report)
    BY DEF ReportStages
  <2>2. \/ disk' = report /\ pc' = "preflight" /\ UNCHANGED <<execution, error>>
        \/ /\ pc' = "returned" /\ error' = "io" /\ disk' \in {disk, report}
           /\ execution' \in {execution, "failed"}
    BY <1>1, <2>1, CheckpointEffect
  <2>3. RunTypeOK'
    BY <1>1, <2>2 DEF RunTypeOK, PCs, Errors, Files
  <2>4. ReportStages' /\ DiskStages' /\ ErrorStages' /\ NeverRefused'
    BY <1>1, <2>1, <2>2
    DEF ReportStages, DiskStages, ErrorStages, NeverRefused, Executing
  <2>5. QED BY <2>3, <2>4
<1>2. CASE Fault("clock", "returned")
  BY <1>2 DEF Fault, Leave, RunTypeOK, PCs, Errors, ReportStages, DiskStages, ErrorStages,
              NeverRefused, Executing
<1>3. QED BY <1>1, <1>2

LEMMA PreflightInv ==
  ASSUME RunInv, Preflight
  PROVE  RunInv'
<1>1. pc = "preflight" /\ report = Fresh /\ disk = report
  BY DEF RunInv, Preflight, ReportStages, DiskStages
<1>2. Fresh.state = "running" /\ Record!Grows(Fresh.trials, Fresh.trials)
  BY DEF Fresh, Record!Grows
<1>3. UNCHANGED <<report, disk, parallel, submits, cancelled, bestFile, answer, posted>>
  BY DEF Preflight, Fault, Unsubmitted
<1>4. \/ pc' = "open" /\ UNCHANGED <<execution, error>>
      \/ /\ pc' = "failing" /\ error' \in {"preflight", "interrupted"}
         /\ execution' \in {execution, "failed"}
  BY DEF Preflight, Fault, Leave
<1>5. QED
  BY <1>1, <1>2, <1>3, <1>4
  DEF RunInv, RunTypeOK, PCs, Errors, ReportStages, DiskStages, ErrorStages, NeverRefused, Executing

(* From a stage that may fail to finish_failed_report. *)
LEMMA OpenReportInv ==
  ASSUME RunInv, OpenReport
  PROVE  RunInv'
<1> DEFINE w == WithPreflight(Fresh)
<1>1. pc = "open" /\ report = Fresh /\ disk = Fresh
  BY DEF RunInv, OpenReport, ReportStages, DiskStages
<1>2. CanSetPreflight(report)
  BY <1>1 DEF CanSetPreflight, Fresh
<1>3. Fresh.state = "running" /\ Fresh.trials = << >>
  BY DEF Fresh
<1>4. UNCHANGED <<parallel, submits, cancelled, bestFile, answer, posted>>
  BY DEF OpenReport, Unsubmitted
<1>5. /\ report' = w
      /\ \/ disk' = w /\ pc' = "trials" /\ UNCHANGED <<execution, error>>
         \/ /\ pc' = "failing" /\ error' \in {"io", "preflight"}
            /\ disk' \in {disk, w} /\ execution' \in {execution, "failed"}
  <2>1. CASE report' = WithPreflight(report) /\ Checkpoint(report', "trials", "failing")
    BY <1>1, <2>1, CheckpointEffect, PreflightReport
  <2>2. CASE /\ report' = WithPreflight(report)
             /\ Leave("failing") /\ error' = "preflight" /\ UNCHANGED disk
    BY <1>1, <2>2 DEF Leave
  <2>3. QED BY <1>2, <2>1, <2>2 DEF OpenReport
<1>6. Record!Grows(Fresh.trials, w.trials) /\ Record!Grows(w.trials, w.trials)
  BY <1>3, PreflightReport DEF Record!Grows
<1>7. Len(w.trials) <= TrialCount
  BY PreflightReport, RunAssumption
<1>8. RunTypeOK'
  BY <1>4, <1>5, <1>7, PreflightReport DEF RunInv, RunTypeOK, PCs, Executing, Errors, Files
<1>9. ReportStages'
  BY <1>5, PreflightReport DEF ReportStages, Executing, Open
<1>10. DiskStages'
  BY <1>1, <1>3, <1>5, <1>6, PreflightReport DEF DiskStages, Executing, Open
<1>11. ErrorStages' /\ NeverRefused'
  BY <1>1, <1>4, <1>5 DEF RunInv, ErrorStages, NeverRefused, Executing
<1>12. QED BY <1>8, <1>9, <1>10, <1>11 DEF RunInv

LEMMA NextOutcomesAreTrials ==
  ASSUME RunInv, NEW t \in NextOutcomes
  PROVE  t \in Trial /\ t.index = Len(report.trials) + 1
<1>1. report.trials \in Seq(Trial)
  BY DEF RunInv, RunTypeOK, Report
<1>2. Len(report.trials) + 1 \in Nat \ {0}
  BY <1>1
<1>3. QED BY <1>2 DEF NextOutcomes, Trial

(* A trial that is pushed is never refused; its checkpoint may fail. *)
LEMMA LogInv ==
  ASSUME RunInv, pc \in Executing, MoreTrials(report), NEW t \in NextOutcomes, Log(t),
         UNCHANGED <<parallel, submits, cancelled, bestFile, answer, posted>>
  PROVE  RunInv'
<1> DEFINE p == Pushed(report, t)
<1>1. report \in Report /\ Valid(report) /\ Open(report) /\ disk = report
      /\ report.trials \in Seq(Trial)
  BY DEF RunInv, RunTypeOK, ReportStages, DiskStages, Report
<1>2. t \in Trial /\ t.index = Len(report.trials) + 1
  BY NextOutcomesAreTrials
<1>3. CanPush(report, t)
  BY <1>1, <1>2 DEF CanPush, Open
<1>4. /\ p \in Report /\ p.trials = Append(report.trials, t)
      /\ Open(p) /\ Valid(p)
  BY <1>1, <1>2, <1>3, PushedReport
<1>5. /\ report' = p
      /\ \/ disk' = p /\ pc' = "trials" /\ UNCHANGED <<execution, error>>
         \/ /\ pc' = "failing" /\ error' = "io"
            /\ disk' \in {disk, p} /\ execution' \in {execution, "failed"}
  BY <1>3, <1>4, CheckpointEffect DEF Log
<1>6. Len(p.trials) <= TrialCount
  BY <1>1, <1>4, RunAssumption DEF MoreTrials
<1>7. Record!Grows(report.trials, p.trials) /\ Record!Grows(p.trials, p.trials)
  BY <1>1, <1>2, <1>4 DEF Record!Grows
<1>8. RunTypeOK'
  BY <1>4, <1>5, <1>6 DEF RunInv, RunTypeOK, PCs, Executing, Errors, Files
<1>9. ReportStages'
  BY <1>4, <1>5 DEF ReportStages, Executing, Open
<1>10. DiskStages'
  BY <1>1, <1>4, <1>5, <1>7 DEF DiskStages, Executing, Open
<1>11. ErrorStages' /\ NeverRefused'
  BY <1>5 DEF RunInv, ErrorStages, NeverRefused, Executing
<1>12. QED BY <1>8, <1>9, <1>10, <1>11 DEF RunInv

(* An error before the last decision leads to finish_failed_report with a   *)
(* running report that the file holds.                                      *)
LEMMA FaultInv ==
  ASSUME RunInv, pc \in {"preflight", "trials", "trial", "decide"},
         NEW cause \in Errors \ {"none", "refused"}, Fault(cause, "failing"),
         UNCHANGED <<parallel, submits, cancelled, bestFile, answer, posted>>
  PROVE  RunInv'
<1>1. report.state = "running" /\ disk = report
  BY DEF RunInv, ReportStages, DiskStages, Executing, Open, Fresh
<1>2. Record!Grows(report.trials, report.trials)
  BY DEF Record!Grows
<1>3. pc' = "failing" /\ error' = cause /\ execution' \in {execution, "failed"}
      /\ UNCHANGED <<report, disk>>
  BY DEF Fault, Leave
<1>4. RunTypeOK'
  BY <1>3 DEF RunInv, RunTypeOK, PCs
<1>5. ReportStages' /\ DiskStages' /\ ErrorStages' /\ NeverRefused'
  BY <1>1, <1>2, <1>3
  DEF RunInv, ReportStages, DiskStages, ErrorStages, NeverRefused, Executing
<1>6. QED BY <1>4, <1>5 DEF RunInv

LEMMA TrialsInv ==
  ASSUME RunInv, StartTrial \/ EndTrial \/ SweepTrial \/ TrialsDone
  PROVE  RunInv'
<1>1. UNCHANGED <<parallel, submits, cancelled, bestFile, answer, posted>>
  BY DEF StartTrial, EndTrial, SweepTrial, TrialsDone, Unsubmitted
<1>2. pc \in Executing
  BY DEF StartTrial, EndTrial, SweepTrial, TrialsDone, Executing
<1>3. ASSUME NEW cause \in {"interrupted", "output", "worker"}, Fault(cause, "failing")
      PROVE  RunInv'
  BY <1>1, <1>2, <1>3, FaultInv DEF Executing, Errors
<1>4. ASSUME NEW t \in NextOutcomes, MoreTrials(report), Log(t)
      PROVE  RunInv'
  BY <1>1, <1>2, <1>4, LogInv
<1>5. CASE StartTrial
  <2>1. CASE pc' = "trial" /\ UNCHANGED <<execution, error, report, disk>>
    BY <1>1, <1>2, <1>5, <2>1
    DEF StartTrial, MoreTrials, RunInv, RunTypeOK, PCs, ReportStages, DiskStages,
        ErrorStages, NeverRefused, Executing
  <2>2. QED BY <1>3, <1>5, <2>1 DEF StartTrial
<1>6. CASE EndTrial
  <2>1. MoreTrials(report)
    BY <1>6 DEF EndTrial, RunInv, ReportStages, MoreTrials
  <2>2. QED BY <1>3, <1>4, <1>6, <2>1 DEF EndTrial
<1>7. CASE SweepTrial
  BY <1>3, <1>4, <1>7 DEF SweepTrial
<1>8. CASE TrialsDone
  BY <1>1, <1>2, <1>8
  DEF TrialsDone, RunInv, RunTypeOK, PCs, ReportStages, DiskStages, ErrorStages,
      NeverRefused, Executing, Whole
<1>9. QED BY <1>5, <1>6, <1>7, <1>8

LEMMA DecideInv ==
  ASSUME RunInv, Decide
  PROVE  RunInv'
<1>1. pc = "decide" /\ UNCHANGED <<parallel, submits, cancelled, bestFile, answer, posted>>
  BY DEF Decide, Unsubmitted
<1>2. ASSUME NEW cause \in {"interrupted", "no_winner"}, Fault(cause, "failing")
      PROVE  RunInv'
  BY <1>1, <1>2, FaultInv DEF Errors
<1>3. CASE report.best # 0 /\ pc' = "install" /\ UNCHANGED <<execution, error, report, disk>>
  BY <1>1, <1>3
  DEF RunInv, RunTypeOK, PCs, ReportStages, DiskStages, ErrorStages, NeverRefused,
      Executing, Whole
<1>4. QED BY <1>2, <1>3 DEF Decide

(* Errors that leave the run without touching the report. *)
LEMMA ReturnInv ==
  ASSUME RunInv, NEW cause \in Errors \ {"none", "refused"}, Fault(cause, "returned"),
         bestFile' \in 0..TrialCount,
         UNCHANGED <<parallel, submits, cancelled, answer, posted>>
  PROVE  RunInv'
<1>1. pc' = "returned" /\ error' = cause /\ UNCHANGED <<report, disk, execution>>
  BY DEF Fault, Leave
<1>2. RunTypeOK'
  BY <1>1 DEF RunInv, RunTypeOK, PCs
<1>3. ReportStages' /\ DiskStages' /\ ErrorStages' /\ NeverRefused'
  BY <1>1 DEF RunInv, ReportStages, DiskStages, ErrorStages, NeverRefused, Executing
<1>4. QED BY <1>2, <1>3 DEF RunInv

LEMMA InstallBestInv ==
  ASSUME RunInv, InstallBest
  PROVE  RunInv'
<1> DEFINE w == WithBestPath(report)
<1>1. /\ pc = "install" /\ report.best # 0 /\ report \in Report
      /\ Valid(report) /\ Open(report) /\ disk = report /\ Whole(report)
      /\ Len(report.trials) <= TrialCount
  BY DEF InstallBest, RunInv, RunTypeOK, ReportStages, DiskStages
<1>2. report.best \in 0..TrialCount
  <2>1. report.trials \in Seq(Trial) /\ TrialCount \in Nat
    BY <1>1, RunAssumption DEF Report
  <2>2. report.best \in DOMAIN report.trials
    BY <1>1 DEF Valid, BestIsSuccess
  <2>3. QED BY <1>1, <2>1, <2>2
<1>3. UNCHANGED <<parallel, submits, cancelled, answer, posted>>
  BY DEF InstallBest, Unsubmitted
<1>4. CASE Fault("install", "returned") /\ bestFile' \in {bestFile, Winner(report)}
  BY <1>2, <1>3, <1>4, ReturnInv DEF Winner, Errors, RunInv, RunTypeOK
<1>5. CASE /\ bestFile' = report.best /\ report' = w
           /\ pc' = "finish" /\ UNCHANGED <<execution, error, disk>>
  <2>1. /\ w \in Report /\ Valid(w)
        /\ w.bestPath /\ w.state = "running" /\ w.preflight
        /\ w.best = report.best /\ w.trials = report.trials
        /\ report = [w EXCEPT !.bestPath = FALSE]
    BY <1>1, BestPathReport
  <2>2. RunTypeOK'
    BY <1>1, <1>2, <1>3, <1>5, <2>1 DEF RunInv, RunTypeOK, PCs
  <2>3. ReportStages'
    BY <1>1, <1>5, <2>1 DEF ReportStages, Executing, Whole
  <2>4. disk' = [report' EXCEPT !.bestPath = FALSE] /\ bestFile' = report'.best
    BY <1>1, <1>5, <2>1
  <2>5. DiskStages'
    BY <1>5, <2>4 DEF DiskStages, Executing
  <2>6. ErrorStages' /\ NeverRefused'
    BY <1>1, <1>3, <1>5 DEF RunInv, ErrorStages, NeverRefused, Executing
  <2>7. QED BY <2>2, <2>3, <2>5, <2>6 DEF RunInv
<1>6. QED BY <1>1, <1>4, <1>5 DEF InstallBest, CanSetBestPath, Winner

(* Where a run that was finished, or failed to be, can be. *)
LEMMA ConcludeInv ==
  ASSUME RunInv, pc \in {"finish", "failing"},
         NEW state \in FinalStates, NEW failure \in BOOLEAN,
         NEW next \in {"submit", "announce", "returned"},
         Conclude(state, failure, next),
         \/ next = "returned" /\ state \in {"failed", "interrupted"} /\ failure
         \/ pc = "finish" /\ state = CompletedState(report) /\ ~failure,
         UNCHANGED <<parallel, submits, cancelled, bestFile, answer, posted>>
  PROVE  RunInv'
<1> DEFINE f == Finished(report, state, failure)
<1>1. CASE Fault("clock", "returned")
  BY <1>1, ReturnInv DEF Errors, RunInv, RunTypeOK
<1>2. /\ report \in Report /\ Valid(report) /\ report.state = "running"
      /\ pc = "finish" => report.preflight /\ report.bestPath /\ report.best # 0
      /\ Len(report.trials) <= TrialCount
  BY DEF RunInv, RunTypeOK, ReportStages
<1>3. /\ f \in Report /\ CanFinish(report, state, failure)
      /\ f.state = state /\ f.submission = "none"
      /\ f.trials = report.trials /\ f.best = report.best
  BY <1>2, FinishedReport
<1>4. Valid(f)
  BY <1>3 DEF CanFinish
<1>5. CASE report' = f /\ Checkpoint(f, next, "returned")
  <2>1. \/ disk' = f /\ pc' = next /\ UNCHANGED <<execution, error>>
        \/ /\ pc' = "returned" /\ error' = "io" /\ disk' \in {disk, f}
           /\ execution' \in {execution, "failed"}
    BY <1>4, <1>5, CheckpointEffect
  <2>2. RunTypeOK'
    BY <1>2, <1>3, <1>5, <2>1 DEF RunInv, RunTypeOK, PCs, Errors, Files
  <2>3. next # "returned" => pc = "finish" /\ state \in CompletedStates
    BY DEF CompletedState, CompletedStates
  <2>4. ReportStages'
    BY <1>3, <1>4, <1>5, <2>1, <2>3 DEF ReportStages, Executing
  <2>5. DiskStages'
    BY <1>5, <2>1 DEF DiskStages, Executing
  <2>6. ErrorStages' /\ NeverRefused'
    BY <2>1, <2>3 DEF RunInv, ErrorStages, NeverRefused, Executing
  <2>7. QED BY <2>2, <2>4, <2>5, <2>6 DEF RunInv
<1>6. QED BY <1>1, <1>3, <1>5 DEF Conclude

LEMMA FinishInv ==
  ASSUME RunInv, FinishReport \/ FinishFailed
  PROVE  RunInv'
<1>1. UNCHANGED <<parallel, submits, cancelled, bestFile, answer, posted>>
  BY DEF FinishReport, FinishFailed, Unsubmitted
<1>2. CASE FinishReport
  <2> DEFINE next == IF submits THEN "submit" ELSE "announce"
  <2>1. pc = "finish" /\ Conclude(CompletedState(report), FALSE, next)
    BY <1>2 DEF FinishReport
  <2>2. CompletedState(report) \in FinalStates /\ next \in {"submit", "announce", "returned"}
    BY DEF CompletedState, FinalStates, CompletedStates
  <2>3. QED BY <1>1, <2>1, <2>2, ConcludeInv
<1>3. CASE FinishFailed
  <2> DEFINE state == IF error = "interrupted" \/ cancelled THEN "interrupted" ELSE "failed"
  <2>1. pc = "failing" /\ Conclude(state, TRUE, "returned")
    BY <1>3 DEF FinishFailed
  <2>2. state \in FinalStates /\ state \in {"failed", "interrupted"}
    BY DEF FinalStates
  <2>3. QED BY <1>1, <2>1, <2>2, ConcludeInv
<1>4. QED BY <1>2, <1>3

LEMMA SubmitReportInv ==
  ASSUME RunInv, SubmitReport
  PROVE  RunInv'
<1>1. pc = "submit" /\ UNCHANGED <<parallel, submits, cancelled, bestFile>>
  BY DEF SubmitReport
<1>2. disk \in Files /\ posted \in Files /\ error = "none"
  BY <1>1 DEF RunInv, RunTypeOK, ErrorStages
<1>3. CASE /\ UNCHANGED <<report, disk, execution>> /\ pc' = "record"
           /\ posted' \in {posted, disk}
           /\ \/ answer' \in {"accepted", "queued"} /\ error' = error
              \/ answer' = "failed" /\ error' = "leaderboard"
  <2>1. RunTypeOK'
    BY <1>1, <1>2, <1>3 DEF RunInv, RunTypeOK, PCs, Errors, Submissions
  <2>2. ReportStages' /\ DiskStages' /\ ErrorStages' /\ NeverRefused'
    BY <1>1, <1>2, <1>3
    DEF RunInv, ReportStages, DiskStages, ErrorStages, NeverRefused, Executing
  <2>3. QED BY <2>1, <2>2 DEF RunInv
<1>4. ASSUME NEW cause \in {"io", "output", "leaderboard"}, Fault(cause, "returned"),
             UNCHANGED <<posted, answer>>
      PROVE  RunInv'
  BY <1>1, <1>4, ReturnInv DEF Errors, RunInv, RunTypeOK
<1>5. QED BY <1>3, <1>4 DEF SubmitReport, Fault, Leave

LEMMA RecordSubmissionInv ==
  ASSUME RunInv, RecordSubmission
  PROVE  RunInv'
<1> DEFINE w == WithSubmission(report, answer)
           next == IF answer = "failed" THEN "returned" ELSE "announce"
<1>1. pc = "record" /\ UNCHANGED <<parallel, submits, cancelled, bestFile, answer, posted>>
  BY DEF RecordSubmission, Unsubmitted
<1>2. /\ report \in Report /\ Valid(report) /\ report.state \in CompletedStates
      /\ report.submission = "none" /\ answer \in Submissions \ {"none"}
      /\ Len(report.trials) <= TrialCount
      /\ (answer = "failed") = (error # "none")
  BY <1>1 DEF RunInv, RunTypeOK, ReportStages, ErrorStages
<1>3. /\ w \in Report /\ Valid(w) /\ CanSetSubmission(report)
      /\ w.state = report.state /\ w.trials = report.trials
  BY <1>2, SubmittedReport
<1>4. CASE Fault("output", "returned")
  BY <1>1, <1>4, ReturnInv DEF Errors, RunInv, RunTypeOK
<1>5. CASE report' = w /\ Checkpoint(w, next, "returned")
  <2>1. \/ disk' = w /\ pc' = next /\ UNCHANGED <<execution, error>>
        \/ /\ pc' = "returned" /\ error' = "io" /\ disk' \in {disk, w}
           /\ execution' \in {execution, "failed"}
    BY <1>3, <1>5, CheckpointEffect
  <2>2. RunTypeOK'
    BY <1>1, <1>2, <1>3, <1>5, <2>1 DEF RunInv, RunTypeOK, PCs, Errors, Files
  <2>3. ReportStages'
    BY <1>2, <1>3, <1>5, <2>1 DEF ReportStages, Executing
  <2>4. DiskStages'
    BY <1>5, <2>1 DEF DiskStages, Executing
  <2>5. ErrorStages' /\ NeverRefused'
    BY <1>1, <1>2, <2>1 DEF RunInv, ErrorStages, NeverRefused, Executing
  <2>6. QED BY <2>2, <2>3, <2>4, <2>5 DEF RunInv
<1>6. QED BY <1>1, <1>3, <1>4, <1>5 DEF RecordSubmission, SaveSubmission

LEMMA OtherStepsInv ==
  ASSUME RunInv, Announce \/ OperatorCancels \/ Crash \/ UNCHANGED runVars
  PROVE  RunInv'
<1>1. CASE Announce
  <2>1. CASE Fault("output", "returned")
    BY <1>1, <2>1, ReturnInv DEF Announce, Unsubmitted, Errors, RunInv, RunTypeOK
  <2>2. CASE pc' = "returned" /\ UNCHANGED <<execution, error, report, disk>>
    BY <1>1, <2>2
    DEF Announce, Unsubmitted, RunInv, RunTypeOK, PCs, ReportStages, DiskStages,
        ErrorStages, NeverRefused, Executing
  <2>3. QED BY <1>1, <2>1, <2>2 DEF Announce
<1>2. CASE OperatorCancels
  BY <1>2 DEF OperatorCancels, Unsubmitted, RunInv, RunTypeOK, ReportStages, DiskStages,
              ErrorStages, NeverRefused
<1>3. CASE Crash
  BY <1>3 DEF Crash, Unsubmitted, RunInv, RunTypeOK, PCs, ReportStages, DiskStages,
              ErrorStages, NeverRefused, Executing
<1>4. CASE UNCHANGED runVars
  BY <1>4 DEF runVars, RunInv, RunTypeOK, ReportStages, DiskStages, ErrorStages, NeverRefused
<1>5. QED BY <1>1, <1>2, <1>3, <1>4

LEMMA RunStepInv ==
  ASSUME RunInv, [RunNext]_runVars
  PROVE  RunInv'
BY CreateReportInv, PreflightInv, OpenReportInv, TrialsInv, DecideInv, InstallBestInv,
   FinishInv, SubmitReportInv, RecordSubmissionInv, OtherStepsInv
DEF RunNext, RunStep

LEMMA RunInvariant == RunSpec => []RunInv
BY RunInitInv, RunStepInv, PTL DEF RunSpec
-----------------------------------------------------------------------------
(* How report.json may change, in terms of where the run is. *)

Opens == pc = "create" /\ disk' = Fresh

Logs == /\ pc \in {"open"} \cup Executing
        /\ disk'.state = "running"
        /\ Record!Grows(disk.trials, disk'.trials)

Closes == /\ pc \in {"finish", "failing"}
          /\ disk'.state \in FinalStates /\ disk'.submission = "none"
          /\ disk'.trials = report.trials /\ disk'.best = report.best
          /\ disk'.state \in CompletedStates => pc = "finish"

Submits == pc = "record" /\ disk' = WithSubmission(disk, answer)

LEMMA DiskSteps ==
  ASSUME RunInv, RunNext
  PROVE  \/ UNCHANGED disk
         \/ UNCHANGED <<bestFile, posted>> /\ (Opens \/ Logs \/ Closes \/ Submits)
<1>1. CASE CreateReport
  <2>1. pc = "create" /\ report = Fresh /\ Valid(report) /\ UNCHANGED <<bestFile, posted>>
    BY <1>1 DEF CreateReport, Unsubmitted, RunInv, ReportStages
  <2>2. QED BY <1>1, <2>1, CheckpointEffect DEF CreateReport, Fault, Opens
<1>2. CASE OpenReport
  <2>1. pc = "open" /\ report = Fresh /\ disk = Fresh /\ UNCHANGED <<bestFile, posted>>
    BY <1>2 DEF OpenReport, Unsubmitted, RunInv, ReportStages, DiskStages
  <2>2. disk' \in {disk, WithPreflight(Fresh)}
    BY <1>2, <2>1, PreflightReport, CheckpointEffect DEF OpenReport, Fault
  <2>3. Fresh.trials = << >> /\ Record!Grows(Fresh.trials, WithPreflight(Fresh).trials)
    BY PreflightReport DEF Fresh, Record!Grows
  <2>4. QED BY <2>1, <2>2, <2>3, PreflightReport DEF Logs, Open
<1>3. ASSUME pc \in Executing, UNCHANGED <<bestFile, posted>>,
             NEW t \in NextOutcomes, Log(t)
      PROVE  UNCHANGED disk \/ Logs
  <2> DEFINE p == Pushed(report, t)
  <2>1. report \in Report /\ Valid(report) /\ Open(report) /\ disk = report
        /\ report.trials \in Seq(Trial)
    BY <1>3 DEF RunInv, RunTypeOK, ReportStages, DiskStages, Report
  <2>2. t \in Trial /\ t.index = Len(report.trials) + 1
    BY NextOutcomesAreTrials
  <2>3. CanPush(report, t)
    BY <2>1, <2>2 DEF CanPush, Open
  <2>4. p.trials = Append(report.trials, t) /\ Open(p) /\ Valid(p)
    BY <2>1, <2>2, <2>3, PushedReport
  <2>5. disk' \in {disk, p}
    BY <1>3, <2>3, <2>4, CheckpointEffect DEF Log
  <2>6. Record!Grows(report.trials, p.trials)
    BY <2>1, <2>2, <2>4 DEF Record!Grows
  <2>7. QED BY <1>3, <2>1, <2>4, <2>5, <2>6 DEF Logs, Open
<1>4. CASE StartTrial \/ EndTrial \/ SweepTrial \/ TrialsDone
  BY <1>3, <1>4 DEF StartTrial, EndTrial, SweepTrial, TrialsDone, Unsubmitted, Executing, Fault
<1>5. CASE FinishReport \/ FinishFailed
  <2>1. PICK state \in FinalStates, failure \in BOOLEAN, next \in {"submit", "announce", "returned"} :
          /\ Conclude(state, failure, next)
          /\ \/ pc = "failing" /\ state \in {"failed", "interrupted"} /\ failure
             \/ pc = "finish" /\ state = CompletedState(report) /\ ~failure
    <3>1. CASE FinishReport
      BY <3>1 DEF FinishReport, FinalStates, CompletedStates, CompletedState
    <3>2. CASE FinishFailed
      BY <3>2 DEF FinishFailed, FinalStates
    <3>3. QED BY <1>5, <3>1, <3>2
  <2> DEFINE f == Finished(report, state, failure)
  <2>2. /\ f.state = state /\ f.submission = "none" /\ Valid(f)
        /\ f.trials = report.trials /\ f.best = report.best
        /\ CanFinish(report, state, failure)
    <3>1. /\ report \in Report /\ Valid(report) /\ report.state = "running"
          /\ pc = "finish" => report.preflight /\ report.bestPath /\ report.best # 0
      BY <1>5 DEF FinishReport, FinishFailed, RunInv, RunTypeOK, ReportStages
    <3>2. QED BY <2>1, <3>1, FinishedReport DEF CanFinish
  <2>3. disk' \in {disk, f}
    BY <2>1, <2>2, CheckpointEffect DEF Conclude, Fault
  <2>4. UNCHANGED <<bestFile, posted>>
    BY <1>5 DEF FinishReport, FinishFailed, Unsubmitted
  <2>5. state \in CompletedStates => pc = "finish"
    BY <2>1 DEF CompletedStates
  <2>6. QED BY <2>1, <2>2, <2>3, <2>4, <2>5 DEF Closes
<1>6. CASE RecordSubmission
  <2>1. pc = "record" /\ disk = report /\ UNCHANGED <<bestFile, posted>>
    BY <1>6 DEF RecordSubmission, Unsubmitted, RunInv, DiskStages
  <2>2. /\ report \in Report /\ Valid(report) /\ report.state \in CompletedStates
        /\ report.submission = "none" /\ answer \in Submissions \ {"none"}
    BY <2>1 DEF RunInv, RunTypeOK, ReportStages, ErrorStages
  <2>3. Valid(WithSubmission(report, answer))
    BY <2>2, SubmittedReport
  <2>4. disk' \in {disk, WithSubmission(report, answer)}
    BY <1>6, <2>3, CheckpointEffect DEF RecordSubmission, SaveSubmission, Fault
  <2>5. QED BY <2>1, <2>4 DEF Submits
<1>7. CASE Preflight \/ Decide \/ InstallBest \/ SubmitReport \/ Announce
           \/ OperatorCancels \/ Crash
  BY <1>7 DEF Preflight, Decide, InstallBest, SubmitReport, Announce, OperatorCancels,
              Crash, Fault
<1>8. QED BY <1>1, <1>2, <1>4, <1>5, <1>6, <1>7 DEF RunNext, RunStep
-----------------------------------------------------------------------------
(* Every variable has its type; a report never has more trials than were    *)
(* declared.                                                                *)
THEOREM RunTypes == RunSpec => []RunTypeOK
<1>1. RunInv => RunTypeOK
  BY DEF RunInv
<1>2. QED BY <1>1, RunInvariant, PTL

(* The report's own checks never end a run: every order of operations that  *)
(* a run can take, failures and cancellation included, is one the report    *)
(* accepts, and every report it is asked to save is valid.                  *)
THEOREM ReportIsNeverRefused == RunSpec => []NeverRefused
<1>1. RunInv => NeverRefused
  BY DEF RunInv
<1>2. QED BY <1>1, RunInvariant, PTL

(* report.json appears, grows by one trial at a time, becomes final once    *)
(* and may then receive one submission: also when the run crashes, since    *)
(* this is a property of every step.                                        *)
THEOREM RunImplementsRecord == RunSpec => ImplementsRecord
<1>1. RunInit => Record!RecordInit
  BY AbsentFile DEF RunInit, Record!RecordInit
<1>2. ASSUME RunInv, RunNext
      PROVE  \/ UNCHANGED disk
             \/ Record!Create \/ Record!Progress \/ Record!Close \/ Record!Submit
  <2>1. CASE Opens
    BY <1>2, <2>1, AbsentFile DEF Opens, RunInv, DiskStages, Record!Create, Fresh
  <2>2. CASE Logs
    <3>1. disk.state = "running"
      BY <1>2, <2>2 DEF Logs, RunInv, ReportStages, DiskStages, Executing, Open, Fresh
    <3>2. QED BY <2>2, <3>1 DEF Logs, Record!Progress
  <2>3. CASE Closes
    <3>1. disk.state = "running" /\ Record!Grows(disk.trials, report.trials)
      <4>1. CASE pc = "finish"
        <5>1. disk = [report EXCEPT !.bestPath = FALSE] /\ report.state = "running"
              /\ report \in Report
          BY <1>2, <4>1 DEF RunInv, RunTypeOK, ReportStages, DiskStages
        <5>2. disk.state = "running" /\ disk.trials = report.trials
          BY <5>1 DEF Report
        <5>3. QED BY <5>2 DEF Record!Grows
      <4>2. CASE pc = "failing"
        BY <1>2, <4>2 DEF RunInv, DiskStages
      <4>3. QED BY <2>3, <4>1, <4>2 DEF Closes
    <3>2. QED BY <2>3, <3>1 DEF Closes, Record!Close, FinalStates, CompletedStates
  <2>4. CASE Submits
    <3>1. /\ disk = report /\ report \in Report /\ report.state \in CompletedStates
          /\ report.submission = "none" /\ answer # "none"
      BY <1>2, <2>4 DEF Submits, RunInv, RunTypeOK, ReportStages, DiskStages, ErrorStages
    <3>2. disk' = [disk EXCEPT !.submission = answer] /\ disk'.submission = answer
      BY <2>4, <3>1 DEF Submits, WithSubmission, Report
    <3>3. QED BY <3>1, <3>2 DEF Record!Submit, CompletedStates
  <2>5. QED BY <1>2, <2>1, <2>2, <2>3, <2>4, DiskSteps
<1>3. RunInv /\ [RunNext]_runVars
        => [Record!Create \/ Record!Progress \/ Record!Close \/ Record!Submit]_disk
  BY <1>2 DEF runVars
<1>4. QED BY <1>1, <1>3, RunInvariant, PTL DEF RunSpec, ImplementsRecord, Record!RecordSpec

(* A completed report.json holds every trial and best.toml holds its winner *)
(* at every moment, and hence after a crash.                                *)
LEMMA CompletedStepIsWhole ==
  ASSUME RunInv, CompletedIsWhole, [RunNext]_runVars
  PROVE  CompletedIsWhole'
<1>1. CASE UNCHANGED disk
  <2>1. SUFFICES ASSUME disk.state \in CompletedStates PROVE UNCHANGED bestFile
    BY <1>1, <2>1 DEF CompletedIsWhole
  <2>2. pc # "install"
    BY <2>1 DEF RunInv, ReportStages, DiskStages, Open, CompletedStates
  <2>3. QED
    BY <2>2
    DEF RunNext, RunStep, runVars, CreateReport, Preflight, OpenReport, StartTrial,
        EndTrial, SweepTrial, TrialsDone, Decide, InstallBest, FinishReport, FinishFailed,
        SubmitReport, RecordSubmission, Announce, OperatorCancels, Crash
<1>2. CASE Opens \/ Logs
  BY <1>2 DEF Opens, Logs, Fresh, CompletedIsWhole, CompletedStates
<1>3. CASE Closes /\ UNCHANGED bestFile
  <2>1. SUFFICES ASSUME disk'.state \in CompletedStates
                 PROVE  Len(disk'.trials) = TrialCount /\ bestFile' = disk'.best /\ bestFile' # 0
    BY DEF CompletedIsWhole
  <2>2. pc = "finish" /\ Whole(report) /\ bestFile = report.best /\ report.best # 0
    BY <1>3, <2>1 DEF Closes, RunInv, ReportStages, DiskStages
  <2>3. QED BY <1>3, <2>2 DEF Closes, Whole
<1>4. CASE Submits /\ UNCHANGED bestFile
  <2>1. disk = report /\ report \in Report
    BY <1>4 DEF Submits, RunInv, RunTypeOK, DiskStages
  <2>2. disk'.state = disk.state /\ disk'.trials = disk.trials /\ disk'.best = disk.best
    BY <1>4, <2>1 DEF Submits, WithSubmission, Report
  <2>3. QED BY <1>4, <2>2 DEF CompletedIsWhole
<1>5. CASE RunNext
  BY <1>1, <1>2, <1>3, <1>4, <1>5, DiskSteps
<1>6. QED BY <1>1, <1>5 DEF runVars

(* A report.json that says completed is whole, whatever fails or crashes.   *)
THEOREM CompletedRunsAreWhole == RunSpec => []CompletedIsWhole
<1>1. RunInit => CompletedIsWhole
  BY AbsentFile DEF RunInit, CompletedIsWhole, CompletedStates
<1>2. QED BY <1>1, CompletedStepIsWhole, RunInvariant, PTL DEF RunSpec

(* Every way out of a run: it leaves a final file or one of three errors.   *)
LEMMA ReturnsFinal ==
  ASSUME RunInv, RunNext, pc' = "returned"
  PROVE  error' \in {"io", "install", "clock"} \/ disk'.state \in FinalStates
<1>1. CASE CreateReport
  <2>1. report = Fresh /\ Valid(report)
    BY <1>1 DEF CreateReport, RunInv, ReportStages
  <2>2. QED BY <1>1, <2>1, CheckpointEffect DEF CreateReport, Fault
<1>2. CASE InstallBest
  <2>1. CanSetBestPath(report)
    BY <1>2 DEF InstallBest, RunInv, ReportStages, CanSetBestPath
  <2>2. QED BY <1>2, <2>1 DEF InstallBest, Fault
<1>3. ASSUME NEW state \in FinalStates, NEW failure \in BOOLEAN,
             NEW next \in {"submit", "announce", "returned"},
             Conclude(state, failure, next), pc \in {"finish", "failing"},
             \/ state \in {"failed", "interrupted"} /\ failure
             \/ pc = "finish" /\ state = CompletedState(report) /\ ~failure
      PROVE  error' \in {"io", "install", "clock"} \/ disk'.state \in FinalStates
  <2> DEFINE f == Finished(report, state, failure)
  <2>1. /\ report \in Report /\ Valid(report) /\ report.state = "running"
        /\ pc = "finish" => report.preflight /\ report.bestPath /\ report.best # 0
    BY <1>3 DEF RunInv, RunTypeOK, ReportStages
  <2>2. f.state \in FinalStates /\ Valid(f) /\ CanFinish(report, state, failure)
    BY <1>3, <2>1, FinishedReport DEF CanFinish
  <2>3. QED BY <1>3, <2>2, CheckpointEffect DEF Conclude, Fault
<1>4. CASE FinishReport
  BY <1>3, <1>4 DEF FinishReport, FinalStates, CompletedStates, CompletedState
<1>5. CASE FinishFailed
  BY <1>3, <1>5 DEF FinishFailed, FinalStates
<1>6. CASE SubmitReport \/ RecordSubmission \/ Announce
  <2>1. disk = report /\ report.state \in CompletedStates /\ report \in Report
    BY <1>6 DEF SubmitReport, RecordSubmission, Announce, RunInv, RunTypeOK, ReportStages,
                DiskStages
  <2>2. CASE UNCHANGED disk
    BY <2>1, <2>2 DEF FinalStates
  <2>3. CASE Submits
    BY <2>1, <2>3 DEF Submits, WithSubmission, Report, FinalStates
  <2>4. CASE Opens \/ Logs \/ Closes
    BY <1>6, <2>4 DEF Opens, Logs, Closes, SubmitReport, RecordSubmission, Announce, Executing
  <2>5. QED BY <2>2, <2>3, <2>4, DiskSteps
<1>7. CASE Preflight \/ OpenReport \/ StartTrial \/ EndTrial \/ SweepTrial \/ TrialsDone
           \/ Decide \/ OperatorCancels \/ Crash
  <2>1. pc' # "returned"
    BY <1>7
    DEF Preflight, OpenReport, StartTrial, EndTrial, SweepTrial, TrialsDone, Decide, Log,
        OperatorCancels, Crash, Done, Fault, Leave, Checkpoint, Unsubmitted
  <2>2. QED BY <2>1
<1>8. QED BY <1>1, <1>2, <1>4, <1>5, <1>6, <1>7 DEF RunNext, RunStep

(* A run that returns leaves a final report.json, except when report.json   *)
(* or best.toml could not be written or the clock could not be used.        *)
THEOREM ReturnedRunsAreFinal == RunSpec => []FinalUnlessNotWritten
<1>1. RunInit => FinalUnlessNotWritten
  BY DEF RunInit, FinalUnlessNotWritten
<1>2. ASSUME RunInv, FinalUnlessNotWritten, [RunNext]_runVars
      PROVE  FinalUnlessNotWritten'
  <2>1. CASE RunNext
    BY <1>2, <2>1, ReturnsFinal DEF FinalUnlessNotWritten
  <2>2. CASE UNCHANGED runVars
    BY <1>2, <2>2 DEF runVars, FinalUnlessNotWritten
  <2>3. QED BY <1>2, <2>1, <2>2
<1>3. QED BY <1>1, <1>2, RunInvariant, PTL DEF RunSpec
-----------------------------------------------------------------------------
(* The winner: only a push changes the trials or the winner.                *)
LEMMA ReportSteps ==
  ASSUME RunInv, RunNext
  PROVE  \/ report'.trials = report.trials /\ report'.best = report.best
         \/ \E t \in NextOutcomes : CanPush(report, t) /\ report' = Pushed(report, t)
<1>1. report \in Report
  BY DEF RunInv, RunTypeOK
<1>2. CASE UNCHANGED report
  BY <1>2
<1>3. ASSUME NEW t \in NextOutcomes, Log(t)
      PROVE  \/ UNCHANGED report
             \/ CanPush(report, t) /\ report' = Pushed(report, t)
  BY <1>3 DEF Log, Fault
<1>4. CASE report' = WithPreflight(report) \/ report' = WithBestPath(report)
  BY <1>1, <1>4 DEF WithPreflight, WithBestPath, Report
<1>5. ASSUME NEW state, NEW failure, NEW next, Conclude(state, failure, next)
      PROVE  report'.trials = report.trials /\ report'.best = report.best
  BY <1>1, <1>5 DEF Conclude, Fault, Finished, Report
<1>6. CASE RecordSubmission
  BY <1>1, <1>6 DEF RecordSubmission, SaveSubmission, WithSubmission, Fault, Report
<1>7. CASE OpenReport \/ InstallBest
  BY <1>2, <1>4, <1>7 DEF OpenReport, InstallBest, Fault
<1>8. CASE StartTrial \/ EndTrial \/ SweepTrial \/ TrialsDone
  BY <1>2, <1>3, <1>8 DEF StartTrial, EndTrial, SweepTrial, TrialsDone, Fault
<1>9. CASE FinishReport \/ FinishFailed
  BY <1>5, <1>9 DEF FinishReport, FinishFailed
<1>10. CASE CreateReport \/ Preflight \/ Decide \/ SubmitReport \/ Announce
            \/ OperatorCancels \/ Crash
  BY <1>2, <1>10 DEF CreateReport, Preflight, Decide, SubmitReport, Announce,
                     OperatorCancels, Crash, Fault
<1>11. QED BY <1>6, <1>7, <1>8, <1>9, <1>10 DEF RunNext, RunStep

LEMMA PushKeepsWinner ==
  ASSUME RunInv, WinnerIsBest, NEW t \in NextOutcomes, CanPush(report, t),
         report' = Pushed(report, t)
  PROVE  WinnerIsBest'
<1> DEFINE n == Len(report.trials) + 1
           s == {k \in DOMAIN report.trials : report.trials[k].success}
           sNext == {k \in DOMAIN report'.trials : report'.trials[k].success}
<1>1. /\ report \in Report /\ report.trials \in Seq(Trial) /\ BestIsSuccess(report)
      /\ t \in Trial /\ t.index = n /\ n \in Nat
  BY NextOutcomesAreTrials DEF RunInv, RunTypeOK, ReportStages, Valid, Report
<1>2. report'.trials = Append(report.trials, t)
  BY <1>1 DEF Pushed, Report
<1>3. /\ DOMAIN report'.trials = DOMAIN report.trials \cup {n}
      /\ DOMAIN report.trials = 1..(n - 1)
      /\ report'.trials[n] = t
      /\ \A k \in DOMAIN report.trials : report'.trials[k] = report.trials[k]
  BY <1>1, <1>2
<1>4. /\ ~t.success => sNext = s
      /\ t.success => sNext = s \cup {n}
  BY <1>3
<1>5. \A k \in DOMAIN report'.trials : report'.trials[k].score \in Nat
  <2>1. \A u \in Trial : u.score \in Nat
    <3>1. Scores \cup {0} \subseteq Nat
      BY ScoreAssumption
    <3>2. \A u \in Trial : u.score \in Scores \cup {0}
      BY DEF Trial
    <3>3. QED BY <3>1, <3>2
  <2>2. QED BY <1>1, <1>3, <2>1
<1>6. report'.best = IF Beats(t, report) THEN n ELSE report.best
  BY <1>1 DEF Pushed, Report
<1>7. CASE report.best = 0
  <2>1. s = {}
    BY <1>3, <1>7 DEF WinnerIsBest
  <2>2. QED BY <1>3, <1>4, <1>6, <1>7, <2>1 DEF WinnerIsBest, Beats
<1>8. CASE report.best # 0
  <2>1. report.best \in s /\ report.bestValue = report.trials[report.best].score
    BY <1>1, <1>8 DEF BestIsSuccess
  <2>2. \A k \in s \ {report.best} :
           \/ report.trials[report.best].score > report.trials[k].score
           \/ report.trials[report.best].score = report.trials[k].score /\ report.best < k
    BY <2>1 DEF WinnerIsBest
  <2>3. CASE Beats(t, report)
    <3>1. report'.best = n /\ t.success /\ sNext = s \cup {n}
          /\ t.score > report.trials[report.best].score
      BY <1>4, <1>6, <1>8, <2>1, <2>3 DEF Beats
    <3>2. \A k \in s : report'.trials[n].score > report'.trials[k].score
      BY <1>3, <1>5, <2>1, <2>2, <3>1
    <3>3. QED BY <3>1, <3>2 DEF WinnerIsBest
  <2>4. CASE ~Beats(t, report)
    <3>1. report'.best = report.best /\ report.best \in sNext
      BY <1>4, <1>6, <2>1, <2>4
    <3>2. t.success => t.score <= report.trials[report.best].score /\ report.best < n
      BY <1>1, <1>3, <1>5, <1>8, <2>1, <2>4 DEF Beats
    <3>3. \A k \in sNext \ {report.best} :
             \/ report'.trials[report.best].score > report'.trials[k].score
             \/ report'.trials[report.best].score = report'.trials[k].score /\ report.best < k
      BY <1>3, <1>4, <1>5, <2>1, <2>2, <3>2
    <3>4. QED BY <3>1, <3>3 DEF WinnerIsBest
  <2>5. QED BY <2>3, <2>4
<1>9. QED BY <1>7, <1>8

(* The winner is the earliest of the best successful trials, at any number  *)
(* of trials and for any scores.                                            *)
THEOREM WinnersAreBest == RunSpec => []WinnerIsBest
<1>1. RunInit => WinnerIsBest
  BY DEF RunInit, WinnerIsBest, Fresh
<1>2. ASSUME RunInv, WinnerIsBest, [RunNext]_runVars
      PROVE  WinnerIsBest'
  <2>1. CASE report'.trials = report.trials /\ report'.best = report.best
    BY <1>2, <2>1 DEF WinnerIsBest
  <2>2. CASE UNCHANGED runVars
    BY <2>1, <2>2 DEF runVars
  <2>3. CASE RunNext
    BY <1>2, <2>1, <2>3, ReportSteps, PushKeepsWinner
  <2>4. QED BY <1>2, <2>2, <2>3
<1>3. QED BY <1>1, <1>2, RunInvariant, PTL DEF RunSpec
-----------------------------------------------------------------------------
(* What an Ok, and what the leaderboard received, say of the file.          *)
Delivered ==
  /\ OkIsDurable /\ SubmittedIsFinal
  /\ pc = "failing" => error # "none"
  /\ pc \notin {"record", "announce", "returned", "crashed"} => posted = Absent
  /\ pc \in {"submit", "record"} => submits
  /\ pc = "announce" => submits = (report.submission \in {"accepted", "queued"})

(* A step of a run that has not completed, and that has posted nothing.     *)
LEMMA NothingDelivered ==
  ASSUME Delivered, submits \in BOOLEAN, posted = Absent, UNCHANGED <<submits, posted>>,
         pc' \in {"failing", "returned"} => error' # "none",
         pc' = "submit" => submits,
         pc' = "announce" => report'.submission = "none" /\ ~submits,
         pc' # "record"
  PROVE  Delivered'
<1>1. OkIsDurable' /\ SubmittedIsFinal'
  BY DEF OkIsDurable, SubmittedIsFinal
<1>2. pc' = "announce" => submits' = (report'.submission \in {"accepted", "queued"})
  BY DEF Delivered
<1>3. QED BY <1>1, <1>2 DEF Delivered

LEMMA ConcludeDelivers ==
  ASSUME RunInv, Delivered, NEW state, NEW failure, NEW next,
         Conclude(state, failure, next), pc \in {"finish", "failing"},
         UNCHANGED <<submits, posted>>,
         \/ pc = "finish" /\ next = IF submits THEN "submit" ELSE "announce"
         \/ pc = "failing" /\ next = "returned"
  PROVE  Delivered'
<1>1. posted = Absent /\ report \in Report /\ report.submission = "none"
  BY DEF Delivered, RunInv, RunTypeOK, ReportStages, Valid, StateConsistent, CompletedStates
<1>2. report' = report \/ report' = Finished(report, state, failure)
  BY DEF Conclude, Fault
<1>3. report'.submission = "none"
  BY <1>1, <1>2 DEF Finished, Report
<1>4. submits \in BOOLEAN
  BY DEF RunInv, RunTypeOK
<1>5. \/ pc' = next /\ UNCHANGED error
      \/ pc' = "returned" /\ error' # "none"
  BY DEF Conclude, Fault, Leave, Checkpoint
<1>6. QED BY <1>1, <1>3, <1>4, <1>5, NothingDelivered DEF Delivered

LEMMA SubmitDelivers ==
  ASSUME RunInv, Delivered, SubmitReport
  PROVE  Delivered'
<1>1. /\ pc = "submit" /\ submits /\ posted = Absent /\ disk = report /\ report \in Report
      /\ report.state \in CompletedStates /\ report.submission = "none"
      /\ UNCHANGED <<submits, disk>>
  BY DEF SubmitReport, Delivered, RunInv, RunTypeOK, ReportStages, DiskStages, Fault
<1>2. disk = [disk EXCEPT !.submission = "none"]
  BY <1>1 DEF Report
<1>3. posted' = disk \/ posted' = Absent
  BY <1>1 DEF SubmitReport
<1>4. \/ pc' = "record"
      \/ pc' = "returned" /\ error' # "none"
  BY DEF SubmitReport, Fault, Leave
<1>5. QED BY <1>1, <1>2, <1>3, <1>4 DEF Delivered, OkIsDurable, SubmittedIsFinal

LEMMA RecordDelivers ==
  ASSUME RunInv, RunInv', Delivered, RecordSubmission
  PROVE  Delivered'
<1>1. /\ pc = "record" /\ submits /\ disk = report /\ report \in Report
      /\ report.state \in CompletedStates /\ answer \in {"accepted", "queued", "failed"}
      /\ (answer = "failed") = (error # "none")
      /\ UNCHANGED <<submits, posted, answer>>
  BY DEF RecordSubmission, Unsubmitted, Delivered, RunInv, RunTypeOK, ReportStages,
         DiskStages, ErrorStages, Submissions
<1>2. disk' = disk \/ disk' = WithSubmission(report, answer)
  BY <1>1 DEF RecordSubmission, SaveSubmission, Checkpoint, Fault
<1>3. disk'.state = disk.state
      /\ [disk' EXCEPT !.submission = "none"] = [disk EXCEPT !.submission = "none"]
  BY <1>1, <1>2 DEF WithSubmission, Report
<1>4. SubmittedIsFinal'
  BY <1>1, <1>3 DEF Delivered, SubmittedIsFinal
<1>5. \/ pc' = "announce" /\ report' = WithSubmission(report, answer) /\ answer # "failed"
      \/ pc' = "returned" /\ error' # "none"
  BY <1>1 DEF RecordSubmission, SaveSubmission, Checkpoint, Fault, Leave
<1>6. report' = WithSubmission(report, answer) => report'.submission = answer
  BY <1>1 DEF WithSubmission, Report
<1>7. QED BY <1>1, <1>4, <1>5, <1>6 DEF Delivered, OkIsDurable

LEMMA DeliveredStep ==
  ASSUME RunInv, RunInv', Delivered, [RunNext]_runVars
  PROVE  Delivered'
<1>0. submits \in BOOLEAN
  BY DEF RunInv, RunTypeOK
<1>1. CASE CreateReport \/ InstallBest
  <2>1. posted = Absent /\ UNCHANGED <<submits, posted>>
    BY <1>1 DEF CreateReport, InstallBest, Unsubmitted, Delivered
  <2>2. pc' \in {"preflight", "finish"} \/ (pc' = "returned" /\ error' # "none")
    BY <1>1 DEF CreateReport, InstallBest, Checkpoint, Fault, Leave
  <2>3. QED BY <1>0, <2>1, <2>2, NothingDelivered
<1>2. CASE Preflight \/ OpenReport \/ StartTrial \/ EndTrial \/ SweepTrial \/ TrialsDone \/ Decide
  <2>1. posted = Absent /\ UNCHANGED <<submits, posted>>
    BY <1>2 DEF Preflight, OpenReport, StartTrial, EndTrial, SweepTrial, TrialsDone, Decide,
                Unsubmitted, Delivered
  <2>2. ASSUME NEW t, Log(t)
        PROVE  pc' = "trials" \/ (pc' = "failing" /\ error' # "none")
    BY <2>2 DEF Log, Checkpoint, Fault, Leave
  <2>3. pc' \in {"open", "trials", "trial", "decide", "install"}
        \/ (pc' = "failing" /\ error' # "none")
    BY <1>2, <2>2 DEF Preflight, OpenReport, StartTrial, EndTrial, SweepTrial, TrialsDone, Decide,
                      Checkpoint, Fault, Leave
  <2>4. QED BY <1>0, <2>1, <2>3, NothingDelivered
<1>3. CASE FinishReport
  BY <1>3, ConcludeDelivers DEF FinishReport, Unsubmitted
<1>4. CASE FinishFailed
  BY <1>4, ConcludeDelivers DEF FinishFailed, Unsubmitted
<1>5. CASE Announce
  <2>1. /\ pc = "announce" /\ disk = report /\ disk.state \in CompletedStates
        /\ submits = (report.submission \in {"accepted", "queued"})
        /\ UNCHANGED <<submits, posted, report, disk>> /\ pc' = "returned"
    BY <1>5 DEF Announce, Unsubmitted, Fault, Leave, Delivered, RunInv, ReportStages, DiskStages
  <2>2. QED BY <2>1 DEF Delivered, OkIsDurable, SubmittedIsFinal
<1>6. CASE OperatorCancels \/ Crash \/ UNCHANGED runVars
  <2>1. /\ UNCHANGED <<submits, posted, report, disk, error>>
        /\ UNCHANGED pc \/ pc' = "crashed"
    BY <1>6 DEF OperatorCancels, Crash, Unsubmitted, runVars
  <2>2. QED BY <2>1 DEF Delivered, OkIsDurable, SubmittedIsFinal
<1>7. QED BY <1>1, <1>2, <1>3, <1>4, <1>5, <1>6, SubmitDelivers, RecordDelivers
          DEF RunNext, RunStep

(* What a run says when it is completed, returned with Ok or submitted is   *)
(* what is on the disk, in best.toml and out there, whatever fails.         *)
THEOREM RunsKeepTheirWord == RunSpec => []RunConsistent
<1>1. RunInit => Delivered
  BY DEF RunInit, Delivered, OkIsDurable, SubmittedIsFinal
<1>2. RunSpec => []Delivered
  BY <1>1, DeliveredStep, RunInvariant, PTL DEF RunSpec
<1>3. RunInv /\ Delivered /\ CompletedIsWhole => RunConsistent
  BY DEF RunInv, Delivered, RunConsistent
<1>4. QED BY <1>2, <1>3, RunInvariant, CompletedRunsAreWhole, PTL
-----------------------------------------------------------------------------
(* What became of the execution of the trials, at each point of the run.    *)
Executed ==
  /\ pc \in {"create", "preflight", "open"} \cup Executing => execution = "open"
  /\ pc \in {"decide", "install", "finish", "submit", "record", "announce"} => execution = "ok"
  /\ pc = "failing" => \/ execution = "failed"
                       \/ execution = "ok" /\ disk.trials = report.trials
  /\ disk.state \in CompletedStates => execution = "ok"

LEMMA ExecutedInit == RunInit => Executed
BY AbsentFile DEF RunInit, Executed, Executing, CompletedStates, Absent, Fresh

LEMMA ExecutedStep ==
  ASSUME RunInv, Executed, [RunNext]_runVars
  PROVE  Executed'
<1>1. CASE UNCHANGED runVars
  BY <1>1 DEF runVars, Executed
<1>2. ASSUME RunNext
      PROVE  disk'.state \in CompletedStates => disk.state \in CompletedStates \/ execution = "ok"
  <2>1. Fresh.state = "running"
    BY DEF Fresh
  <2>2. CASE UNCHANGED disk
    BY <2>2
  <2>3. CASE Opens \/ Logs
    BY <2>1, <2>3 DEF Opens, Logs, CompletedStates
  <2>4. CASE Closes \/ Submits
    BY <2>4 DEF Closes, Submits, Executed
  <2>5. QED BY <1>2, <2>2, <2>3, <2>4, DiskSteps
<1>3. execution = "ok" => execution' = "ok"
  BY DEF RunNext, runVars, RunStep, CreateReport, Preflight, OpenReport, StartTrial, EndTrial,
         SweepTrial, TrialsDone, Decide, InstallBest, FinishReport, FinishFailed, Conclude, Log,
         SubmitReport, RecordSubmission, SaveSubmission, Announce, OperatorCancels, Crash,
         Checkpoint, Fault, Leave
<1>4. ASSUME RunNext PROVE disk'.state \in CompletedStates => execution' = "ok"
  BY <1>2, <1>3, <1>4 DEF Executed
<1>5. CASE CreateReport
  <2>1. /\ pc = "create" /\ execution' = execution /\ pc' \in {"preflight", "returned"}
    BY <1>5 DEF CreateReport, Checkpoint, Fault, Leave
  <2>2. QED BY <1>4, <1>5, <2>1 DEF Executed, Executing, RunNext, RunStep
<1>6. ASSUME NEW t, Log(t)
      PROVE  \/ pc' = "trials" /\ UNCHANGED execution
             \/ pc' = "failing" /\ execution' = IF execution = "open" THEN "failed" ELSE execution
  BY <1>6 DEF Log, Checkpoint, Fault, Leave
<1>7. CASE Preflight \/ OpenReport \/ StartTrial \/ EndTrial \/ SweepTrial
  <2>1. /\ pc \in {"preflight", "open"} \cup Executing
        /\ \/ pc' \in {"open", "trials", "trial"} /\ UNCHANGED execution
           \/ pc' = "failing" /\ execution' = IF execution = "open" THEN "failed" ELSE execution
    BY <1>6, <1>7 DEF Preflight, OpenReport, StartTrial, EndTrial, SweepTrial, Checkpoint, Fault,
                      Leave, Executing
  <2>2. execution = "open"
    BY <2>1 DEF Executed
  <2>3. QED BY <1>4, <1>7, <2>1, <2>2 DEF Executed, Executing, RunNext, RunStep
<1>8. CASE TrialsDone
  BY <1>4, <1>8 DEF TrialsDone, Executed, Executing, RunNext, RunStep
<1>9. CASE Decide
  <2>1. /\ pc = "decide" /\ pc' \in {"install", "failing"} /\ UNCHANGED <<report, disk>>
        /\ disk = report
    BY <1>9 DEF Decide, Fault, Leave, RunInv, DiskStages
  <2>2. execution' = "ok"
    BY <1>3, <2>1 DEF Executed
  <2>3. QED BY <1>4, <1>9, <2>1, <2>2 DEF Executed, Executing, RunNext, RunStep
<1>10. CASE InstallBest \/ FinishReport \/ SubmitReport \/ RecordSubmission \/ Announce
  <2>1. /\ pc \in {"install", "finish", "submit", "record", "announce"}
        /\ pc' \in {"finish", "submit", "record", "announce", "returned"}
    BY <1>10 DEF InstallBest, FinishReport, Conclude, SubmitReport, RecordSubmission,
                 SaveSubmission, Announce, Checkpoint, Fault, Leave
  <2>2. execution' = "ok"
    BY <1>3, <2>1 DEF Executed
  <2>3. QED BY <1>4, <1>10, <2>1, <2>2 DEF Executed, Executing, RunNext, RunStep
<1>11. CASE FinishFailed
  <2>1. pc' = "returned"
    BY <1>11 DEF FinishFailed, Conclude, Checkpoint, Fault, Leave
  <2>2. QED BY <1>4, <1>11, <2>1 DEF Executed, Executing, RunNext, RunStep
<1>12. CASE OperatorCancels \/ Crash
  <2>1. /\ UNCHANGED <<execution, report, disk>> /\ (UNCHANGED pc \/ pc' = "crashed")
    BY <1>12 DEF OperatorCancels, Crash
  <2>2. QED BY <1>12, <2>1 DEF Executed, Executing
<1>13. QED
  BY <1>1, <1>5, <1>7, <1>8, <1>9, <1>10, <1>11, <1>12 DEF RunNext, RunStep

LEMMA ExecutedInvariant == RunSpec => []Executed
BY ExecutedInit, ExecutedStep, RunInvariant, PTL DEF RunSpec

(* A run that saw its cancellation before its trials were over.             *)
Stopping ==
  /\ cancelled /\ disk.state \notin CompletedStates
  /\ pc \notin {"install", "finish", "submit", "record", "announce"}

LEMMA StoppingStays ==
  ASSUME RunInv, Stopping, [RunNext]_runVars
  PROVE  Stopping'
<1>1. CASE UNCHANGED runVars
  BY <1>1 DEF runVars, Stopping
<1>2. CASE RunNext
  <2>1. disk'.state \notin CompletedStates
    <3>1. Fresh.state = "running"
      BY DEF Fresh
    <3>2. QED BY <1>2, <3>1, DiskSteps DEF Opens, Logs, Closes, Submits, Stopping, CompletedStates
  <2>2. cancelled'
    BY <1>2 DEF Stopping, RunNext, RunStep, CreateReport, Preflight, OpenReport, StartTrial, EndTrial,
         SweepTrial, TrialsDone, Decide, InstallBest, FinishReport, FinishFailed,
         SubmitReport, RecordSubmission, Announce, OperatorCancels, Crash
  <2>3. pc' \notin {"install", "finish", "submit", "record", "announce"}
    BY <1>2 DEF Stopping, RunNext, RunStep, CreateReport, Preflight, OpenReport, StartTrial, EndTrial,
         SweepTrial, TrialsDone, Decide, Seen, InstallBest, FinishReport, FinishFailed, Conclude, Log,
         SubmitReport, RecordSubmission, Announce, OperatorCancels, Crash, Checkpoint, Fault, Leave
  <2>4. QED BY <2>1, <2>2, <2>3 DEF Stopping
<1>3. QED BY <1>1, <1>2

(* A run that is cancelled before its trials are all over never completes,  *)
(* even if its last trials still succeed.                                   *)
THEOREM CancellationsAreHeeded == RunSpec => CancellationHeeded
<1>1. RunInv /\ Executed => (cancelled /\ execution = "open" => Stopping)
  BY DEF Executed, Stopping
<1>2. RunInv /\ Stopping /\ [RunNext]_runVars => Stopping'
  BY StoppingStays
<1>3. Stopping => disk.state \notin CompletedStates
  BY DEF Stopping
<1>4. QED BY <1>1, <1>2, <1>3, RunInvariant, ExecutedInvariant, PTL DEF RunSpec, CancellationHeeded
-----------------------------------------------------------------------------
(* The execution stage as a log of trials.                                  *)
Logged == [k \in DOMAIN report.trials |-> report.trials[k].index]

LEMMA LoggedIs ==
  ASSUME RunInv
  PROVE  /\ Logged \in Seq(Nat) /\ Len(Logged) = Len(report.trials)
         /\ DOMAIN Logged = 1..Len(report.trials) /\ Len(report.trials) \in Nat
<1>1. report.trials \in Seq(Trial)
  BY DEF RunInv, RunTypeOK, Report
<1>2. \A t \in Trial : t.index \in Nat
  BY DEF Trial
<1>3. \A k \in 1..Len(report.trials) : report.trials[k].index \in Nat
  BY <1>1, <1>2
<1>4. Logged = [k \in 1..Len(report.trials) |-> report.trials[k].index]
      /\ Len(report.trials) \in Nat
  BY <1>1 DEF Logged
<1>5. Logged \in [1..Len(report.trials) -> Nat]
  BY <1>3, <1>4
<1>6. QED BY <1>4, <1>5

(* A trial that is pushed is the next entry of the log, saved or not.       *)
LEMMA PushLogs ==
  ASSUME RunInv, Executed, pc \in Executing, MoreTrials(report), NEW t \in NextOutcomes, Log(t)
  PROVE  TrialsLog!Record
<1> DEFINE n == Len(report.trials) + 1
           p == Pushed(report, t)
<1>1. report \in Report /\ Valid(report) /\ Open(report) /\ disk = report
      /\ report.trials \in Seq(Trial) /\ execution = "open" /\ Len(report.trials) \in Nat
  BY DEF RunInv, RunTypeOK, ReportStages, DiskStages, Report, Executed
<1>2. t \in Trial /\ t.index = n
  BY NextOutcomesAreTrials
<1>3. CanPush(report, t)
  BY <1>1, <1>2 DEF CanPush, Open
<1>4. p.trials = Append(report.trials, t) /\ Valid(p)
  BY <1>1, <1>2, <1>3, PushedReport
<1>5. report' = p /\ disk' \in {disk, p} /\ execution' \in {"open", "failed"}
  <2>1. report' = p
    BY <1>3, <1>4, CheckpointEffect DEF Log
  <2>2. \/ disk' = p /\ execution' = execution
        \/ disk' \in {disk, p} /\ execution' \in {execution, "failed"}
    BY <1>3, <1>4, CheckpointEffect DEF Log
  <2>3. QED BY <1>1, <2>1, <2>2
<1>6. /\ DOMAIN report'.trials = 1..n /\ report'.trials[n] = t /\ Len(report'.trials) = n
      /\ \A k \in 1..Len(report.trials) : report'.trials[k] = report.trials[k]
  BY <1>1, <1>4, <1>5
<1>7. /\ Logged \in Seq(Nat) /\ Len(Logged) = Len(report.trials) /\ n \in Nat
      /\ DOMAIN Logged = 1..Len(report.trials)
  BY <1>1, LoggedIs
<1> HIDE DEF p
<1>8. Append(Logged, n) = [k \in 1..n |-> IF k = n THEN n ELSE Logged[k]]
  BY <1>1, <1>7
<1>9. Logged' = [k \in 1..n |-> report'.trials[k].index]
  BY <1>6 DEF Logged
<1>10. \A k \in 1..n : report'.trials[k].index = IF k = n THEN n ELSE Logged[k]
  BY <1>1, <1>2, <1>6 DEF Logged
<1>11. Logged' = Append(Logged, n)
  BY <1>8, <1>9, <1>10, Zenon
<1>12. Len(Logged') = n
  BY <1>7, <1>11
<1>13. /\ Len(disk.trials) = Len(Logged) /\ Len(Logged) < TrialCount
       /\ Len(disk'.trials) \in {Len(disk.trials), Len(Logged')}
  BY <1>1, <1>5, <1>6, <1>7, <1>12 DEF MoreTrials
<1>14. QED
  BY <1>1, <1>5, <1>7, <1>11, <1>13 DEF TrialsLog!Record, Logged

LEMMA LogStep ==
  ASSUME RunInv, RunInv', Executed, [RunNext]_runVars
  PROVE  [TrialsLog!LogNext]_TrialsLog!logVars
<1>1. ASSUME report'.trials = report.trials, disk'.trials = disk.trials, UNCHANGED execution
      PROVE  UNCHANGED TrialsLog!logVars
  BY <1>1 DEF TrialsLog!logVars
<1>2. ASSUME report'.trials = report.trials, disk'.trials = disk.trials,
             execution = "open", execution' = "failed"
      PROVE  TrialsLog!Fail
  BY <1>2 DEF TrialsLog!Fail
<1>3. CASE UNCHANGED runVars
  BY <1>1, <1>3 DEF runVars
<1>4. CASE CreateReport
  <2>1. report = Fresh /\ disk = Absent /\ Valid(report) /\ Absent.trials = Fresh.trials
    BY <1>4, AbsentFile DEF CreateReport, RunInv, ReportStages, DiskStages, Absent, Fresh
  <2>2. UNCHANGED <<report, execution>> /\ disk' \in {Absent, Fresh}
    BY <1>4, <2>1 DEF CreateReport, Checkpoint, Fault, Leave
  <2>3. QED BY <1>1, <2>1, <2>2
<1>5. CASE Preflight
  <2>1. UNCHANGED <<report, disk>> /\ execution = "open" /\ execution' \in {"open", "failed"}
    BY <1>5 DEF Preflight, Fault, Leave, Executed
  <2>2. QED BY <1>1, <1>2, <2>1 DEF TrialsLog!LogNext
<1>6. CASE OpenReport
  <2>1. /\ report = Fresh /\ disk = Fresh /\ execution = "open" /\ Fresh.trials = << >>
    BY <1>6 DEF OpenReport, RunInv, ReportStages, DiskStages, Executed, Fresh
  <2>2. /\ report' \in {Fresh, WithPreflight(Fresh)} /\ disk' \in {Fresh, WithPreflight(Fresh)}
        /\ execution' \in {"open", "failed"}
    BY <1>6, <2>1 DEF OpenReport, Checkpoint, Fault, Leave
  <2>3. report'.trials = report.trials /\ disk'.trials = disk.trials
    BY <2>1, <2>2, PreflightReport
  <2>4. QED BY <1>1, <1>2, <2>1, <2>2, <2>3 DEF TrialsLog!LogNext
<1>7. CASE StartTrial \/ EndTrial \/ SweepTrial
  <2>1. pc \in Executing /\ MoreTrials(report) /\ execution = "open"
    BY <1>7 DEF StartTrial, EndTrial, SweepTrial, Executing, Executed, RunInv, ReportStages,
                MoreTrials
  <2>2. ASSUME NEW t \in NextOutcomes, Log(t) PROVE TrialsLog!LogNext
    BY <2>1, <2>2, PushLogs DEF TrialsLog!LogNext
  <2>3. CASE UNCHANGED <<report, disk>> /\ execution' \in {"open", "failed"}
    BY <1>1, <1>2, <2>1, <2>3 DEF TrialsLog!LogNext
  <2>4. QED BY <1>7, <2>1, <2>2, <2>3 DEF StartTrial, EndTrial, SweepTrial, Fault, Leave
<1>8. CASE TrialsDone
  <2>1. /\ execution = "open" /\ execution' = "ok" /\ disk = report /\ UNCHANGED <<report, disk>>
        /\ Len(report.trials) = TrialCount
    BY <1>8 DEF TrialsDone, Executed, Executing, RunInv, DiskStages
  <2>2. Len(Logged) = TrialCount
    BY <2>1, LoggedIs
  <2>3. TrialsLog!Succeed
    BY <2>1, <2>2 DEF TrialsLog!Succeed, Logged
  <2>4. QED BY <2>3 DEF TrialsLog!LogNext
<1>9. CASE Decide \/ InstallBest \/ SubmitReport \/ Announce \/ OperatorCancels \/ Crash
  <2>1. UNCHANGED <<disk, execution>>
    BY <1>9 DEF Decide, InstallBest, SubmitReport, Announce, OperatorCancels, Crash, Fault, Leave,
                Executed
  <2>2. report'.trials = report.trials
    <3>1. report \in Report
      BY DEF RunInv, RunTypeOK
    <3>2. report' \in {report, WithBestPath(report)}
      BY <1>9 DEF Decide, InstallBest, SubmitReport, Announce, OperatorCancels, Crash, Fault
    <3>3. QED BY <3>1, <3>2 DEF WithBestPath, Report
  <2>3. QED BY <1>1, <2>1, <2>2
<1>10. CASE FinishReport \/ FinishFailed
  <2>1. PICK state, failure, next : Conclude(state, failure, next)
    BY <1>10 DEF FinishReport, FinishFailed
  <2>2. report \in Report /\ execution' = execution /\ pc \in {"finish", "failing"}
    BY <1>10 DEF RunInv, RunTypeOK, FinishReport, FinishFailed, Conclude, Checkpoint, Fault, Leave
  <2>3. report'.trials = report.trials /\ disk' \in {disk, report'}
    BY <2>1, <2>2 DEF Conclude, Checkpoint, Fault, Finished, Report
  <2>4. CASE disk'.trials = disk.trials
    BY <1>1, <2>2, <2>3, <2>4
  <2>5. CASE disk'.trials = report.trials /\ execution = "failed"
    <3>1. Len(disk'.trials) = Len(Logged) /\ Logged' = Logged
      BY <2>3, <2>5, LoggedIs DEF Logged
    <3>2. TrialsLog!Flush
      BY <2>2, <2>5, <3>1 DEF TrialsLog!Flush, Logged
    <3>3. QED BY <3>2 DEF TrialsLog!LogNext
  <2>6. execution = "failed" \/ disk.trials = report.trials
    <3>1. CASE pc = "finish"
      BY <2>2, <3>1 DEF RunInv, DiskStages, Report
    <3>2. CASE pc = "failing"
      BY <3>2 DEF Executed
    <3>3. QED BY <2>2, <3>1, <3>2
  <2>7. QED BY <2>3, <2>4, <2>5, <2>6
<1>11. CASE RecordSubmission
  <2>1. /\ disk = report /\ report \in Report /\ UNCHANGED execution
    BY <1>11 DEF RecordSubmission, SaveSubmission, Checkpoint, Fault, Leave, RunInv, RunTypeOK,
                 DiskStages
  <2>2. report' \in {report, WithSubmission(report, answer)}
        /\ disk' \in {disk, WithSubmission(report, answer)}
    BY <1>11 DEF RecordSubmission, SaveSubmission, Checkpoint, Fault
  <2>3. report'.trials = report.trials /\ disk'.trials = disk.trials
    BY <2>1, <2>2 DEF WithSubmission, Report
  <2>4. QED BY <1>1, <2>1, <2>3
<1>12. QED
  BY <1>3, <1>4, <1>5, <1>6, <1>7, <1>8, <1>9, <1>10, <1>11 DEF RunNext, RunStep

(* Whichever way the trials of a run are executed, they are logged in the   *)
(* order of declaration, none past one that is not saved, and the execution *)
(* succeeds only with all of them logged and saved.                         *)
THEOREM RunsImplementTheirLog == RunSpec => ImplementsTrialLog
<1>1. RunInit => TrialsLog!LogInit
  <2>1. SUFFICES ASSUME RunInit PROVE TrialsLog!LogInit
    OBVIOUS
  <2>2. report.trials = << >> /\ disk.trials = << >> /\ execution = "open"
    BY <2>1 DEF RunInit, Absent, Fresh
  <2>3. [k \in DOMAIN report.trials |-> report.trials[k].index] = << >>
    BY <2>2
  <2>4. QED BY <2>2, <2>3, RunAssumption DEF TrialsLog!LogInit
<1>2. QED
  BY <1>1, LogStep, RunInvariant, ExecutedInvariant, PTL
  DEF RunSpec, ImplementsTrialLog, TrialsLog!LogSpec
=============================================================================
