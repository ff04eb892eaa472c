------------------------------ MODULE RunRecord -----------------------------
(***************************************************************************)
(* What report.json promises its readers, at every moment and hence after  *)
(* a crash: it appears as a running report, gains trials one at a time,    *)
(* becomes final once, with at most one trial more than before, and a      *)
(* completed one may then be given the result of its submission, once.     *)
(***************************************************************************)
EXTENDS Naturals, Sequences

VARIABLE file   \* the content of report.json; state "absent" before it exists

Grows(old, new) == \/ new = old
                   \/ /\ Len(new) = Len(old) + 1
                      /\ \A k \in DOMAIN old : new[k] = old[k]

RecordInit == file.state = "absent"

Create == /\ file.state = "absent"
          /\ file'.state = "running" /\ file'.trials = << >>

Progress == /\ file.state = "running" /\ file'.state = "running"
            /\ Grows(file.trials, file'.trials)

Close == /\ file.state = "running"
         /\ file'.state \in {"completed", "completed_with_failures", "failed", "interrupted"}
         /\ file'.submission = "none"
         /\ Grows(file.trials, file'.trials)

Submit == /\ file.state \in {"completed", "completed_with_failures"}
          /\ file.submission = "none" /\ file'.submission # "none"
          /\ file' = [file EXCEPT !.submission = file'.submission]

RecordSpec == RecordInit /\ [][Create \/ Progress \/ Close \/ Submit]_file
=============================================================================
