------------------------------ MODULE TrialLog ------------------------------
(***************************************************************************)
(* What executing the trials of a run promises, whichever way they are     *)
(* executed: trials are logged one by one in declaration order, no trial   *)
(* is logged while an earlier one has not been made durable, and execution *)
(* succeeds only with every trial logged and durable.  The parallel sweep  *)
(* and the execution stage of a run both implement it, which is what lets  *)
(* EvaluationRun treat a sweep as a series of log entries.                 *)
(***************************************************************************)
EXTENDS Naturals, Sequences

VARIABLES total,    \* how many trials were declared
          logged,   \* the trials in the report in memory
          durable,  \* how many of them the report file holds
          verdict   \* "open", then "ok" or "failed"

logVars == <<total, logged, durable, verdict>>

LogInit == total \in Nat /\ logged = << >> /\ durable = 0 /\ verdict = "open"

(* The next trial is logged; making it durable may fail, or seem to. *)
Record ==
  /\ verdict = "open"
  /\ durable = Len(logged) /\ Len(logged) < total
  /\ logged' = Append(logged, Len(logged) + 1)
  /\ durable' \in {durable, Len(logged')}
  /\ verdict' \in {"open", "failed"}
  /\ UNCHANGED total

(* The report of a failed execution is written once more. *)
Flush == verdict = "failed" /\ durable' = Len(logged) /\ UNCHANGED <<total, logged, verdict>>

Succeed ==
  /\ verdict = "open"
  /\ durable = total /\ Len(logged) = total
  /\ verdict' = "ok"
  /\ UNCHANGED <<total, logged, durable>>

Fail == verdict = "open" /\ verdict' = "failed" /\ UNCHANGED <<total, logged, durable>>

LogNext == Record \/ Flush \/ Succeed \/ Fail

LogSpec == LogInit /\ [][LogNext]_logVars
=============================================================================
