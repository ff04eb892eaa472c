----------------------------- MODULE RunReport ------------------------------
(***************************************************************************)
(* The report of a run (src/src/results/report.rs): a record and its       *)
(* operations, each as the report it produces and, where the code may      *)
(* refuse it, the condition under which it does not.  Trials are numbered  *)
(* from 1.  A score stands for a trial's value of the winning metric, the  *)
(* better the higher whatever the metric's direction; 0 stands for none.   *)
(* Times are reduced to whether the end time is set.                       *)
(***************************************************************************)
EXTENDS Naturals, Sequences

CONSTANT Scores

ASSUME ScoreAssumption == Scores \subseteq Nat \ {0}

CompletedStates == {"completed", "completed_with_failures"}
FinalStates == CompletedStates \cup {"failed", "interrupted"}
Submissions == {"none", "accepted", "queued", "failed"}

(* validate_trial: a success has a score, a failed trial may have one. *)
Trial == {t \in [index: Nat \ {0}, success: BOOLEAN, score: Scores \cup {0}] :
            t.success => t.score # 0}

Report == [state: FinalStates \cup {"running"},
           preflight: BOOLEAN,       \* resolved_image and selected_hardware
           trials: Seq(Trial),
           best: Nat,                \* best_trial_index, 0 for None
           bestValue: Scores \cup {0},
           bestPath: BOOLEAN,        \* best_config_path
           ended: BOOLEAN,           \* ended_at_unix_ms, duration_ms
           failure: BOOLEAN,         \* run_failure
           submission: Submissions]

Fresh == [state |-> "running", preflight |-> FALSE, trials |-> << >>,
          best |-> 0, bestValue |-> 0, bestPath |-> FALSE,
          ended |-> FALSE, failure |-> FALSE, submission |-> "none"]

HasFailures(r) == \E k \in DOMAIN r.trials : ~r.trials[k].success

(* set_preflight *)
CanSetPreflight(r) == r.state = "running" /\ r.trials = << >> /\ ~r.preflight
WithPreflight(r) == [r EXCEPT !.preflight = TRUE]

(* A deliberate defect, for a mutation run: a tie goes to the later trial. *)
BeatsOnTie(t, r) == t.success /\ (r.best = 0 \/ t.score >= r.bestValue)

(* compare_observations: a later trial wins only if it is strictly better. *)
Beats(t, r) == t.success /\ (r.best = 0 \/ t.score > r.bestValue)

(* push_trial.  recompute_best folds Beats over the trials from the first   *)
(* to the last: after a push that is one more step of the same fold.        *)
CanPush(r, t) ==
  r.state = "running" /\ r.preflight /\ t.index = Len(r.trials) + 1 /\ t \in Trial
Pushed(r, t) ==
  LET logged == [r EXCEPT !.trials = Append(r.trials, t)]
  IN  IF Beats(t, r) THEN [logged EXCEPT !.best = t.index, !.bestValue = t.score]
                     ELSE logged

(* set_best_config_path *)
CanSetBestPath(r) == r.best # 0
WithBestPath(r) == [r EXCEPT !.bestPath = TRUE]

(* validate *)
BestIsSuccess(r) ==
  \/ r.best = 0 /\ r.bestValue = 0
  \/ /\ r.best \in DOMAIN r.trials
     /\ r.trials[r.best].success
     /\ r.trials[r.best].score = r.bestValue

StateConsistent(r) ==
  \/ r.state = "running" /\ ~r.ended /\ ~r.failure /\ r.submission = "none"
  \/ /\ r.state \in CompletedStates
     /\ r.ended /\ r.preflight /\ r.best # 0 /\ r.bestPath /\ ~r.failure
     /\ (r.state = "completed_with_failures") = HasFailures(r)
  \/ r.state \in {"failed", "interrupted"} /\ r.ended /\ r.failure

Valid(r) == /\ \A k \in DOMAIN r.trials : r.trials[k].index = k
            /\ BestIsSuccess(r)
            /\ r.bestPath => r.best # 0
            /\ StateConsistent(r)

(* finish: the finished copy replaces the report only if it is valid. *)
Finished(r, state, failure) ==
  [r EXCEPT !.state = state, !.ended = TRUE, !.failure = failure]
CanFinish(r, state, failure) == r.state = "running" /\ Valid(Finished(r, state, failure))

(* set_submission *)
CanSetSubmission(r) == r.state # "running" /\ r.submission = "none"
WithSubmission(r, result) == [r EXCEPT !.submission = result]
=============================================================================
