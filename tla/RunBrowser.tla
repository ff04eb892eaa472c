-------------------------------- MODULE RunBrowser --------------------------------
(***************************************************************************)
(* How the MCP tools show a run (mcp/tools.rs): the summary of one that    *)
(* just ended, and that of a report read from disk.  A report is           *)
(* [trials |-> a sequence of statuses, best |-> the position of the        *)
(* winner, counted from 0, or NoTrial].                                    *)
(***************************************************************************)
EXTENDS Naturals, Sequences, SequencesExt, FiniteSets

CONSTANTS NoTrial, MaxSummaries  \* MAX_TRIAL_SUMMARIES

ASSUME BrowserAssumption == MaxSummaries \in Nat /\ NoTrial \notin Nat

Taken(n, seq) == SubSeq(seq, 1, IF Len(seq) < n THEN Len(seq) ELSE n)

Positions(report) == [i \in DOMAIN report.trials |-> i - 1]

\* evaluation_summary: the first trials, and the winner behind them.
SummaryTrials(report) ==
    LET extra == IF report.best # NoTrial /\ report.best >= MaxSummaries
                      /\ report.best < Len(report.trials)
                 THEN <<report.best>> ELSE <<>>
    IN  Taken(MaxSummaries, Positions(report)) \o extra

\* report_view_summary, of the report as it was written.
ViewTrials(report) ==
    FoldLeft(LAMBDA shown, p : IF p < MaxSummaries \/ p = report.best THEN Append(shown, p) ELSE shown,
             <<>>, Positions(report))

Truncated(report) == Len(report.trials) > MaxSummaries
-------------------------------------------------------------------------------
\* Who asks for a run's result and who reads its report later are shown the same
\* trials, the winner among them however long the list is; what is left out is
\* announced.
WinnerStaysListed(report) ==
    LET shown == SummaryTrials(report)
    IN  /\ shown = ViewTrials(report)
        /\ report.best # NoTrial => report.best \in ToSet(shown)
        /\ Cardinality(ToSet(shown)) = Len(shown)
        /\ Len(shown) < Len(report.trials) => Truncated(report)
================================================================================
