----------------------------- MODULE CorrectnessGate -----------------------------
(***************************************************************************)
(* How the verdict on a server's correctness is reached                    *)
(* (inspection/correctness.rs): LightEval leaves its scores in JSON files, *)
(* the capability probes leave theirs where a parser is configured, and    *)
(* collect_results reads what there is.  The file of the probes is theirs: *)
(* what cannot be found in it as they write it (another schema version, a  *)
(* parser other than the configured one, a domain twice) is left out, and  *)
(* would be an error.                                                      *)
(***************************************************************************)
EXTENDS Naturals, Sequences, FiniteSets

CONSTANTS Tasks,      \* of the suite
          Domains,    \* "tool_calling" and "reasoning"
          NoParser    \* no such argument, or one without a value

\* A document is [kind |-> "results", scores |-> a function from the tasks it
\* names, to Unscored where the metric is missing or no finite number], or
\* [kind |-> "capabilities", passed |-> a function from the probed domains], or
\* of kind "other", or "broken": too large, no strict JSON, a symbolic link.
Unscored == 99

\* capability_probe_spec and the script: a parser of the empty name is not probed.
Probed(parsers) == {d \in Domains : parsers[d] \notin {NoParser, ""}}

ProbeDocuments(parsers, works) ==
    IF Probed(parsers) = {} THEN <<>>
    ELSE <<[kind |-> "capabilities", passed |-> [d \in Probed(parsers) |-> works[d]]]>>

\* validate_capabilities wants a result for every parser that is configured.
Expected(parsers) == {d \in Domains : parsers[d] # NoParser}

Naming(docs, t) == {i \in DOMAIN docs : docs[i].kind = "results" /\ t \in DOMAIN docs[i].scores}

\* Deliberate defect: a task without a score does not count.
ScoredIfNamed(docs, t) ==
    Cardinality(Naming(docs, t)) < 2 /\ \A i \in Naming(docs, t) : docs[i].scores[t] # Unscored

\* A task is scored once, and with a number.
Scored(docs, t) ==
    Cardinality(Naming(docs, t)) = 1 /\ \A i \in Naming(docs, t) : docs[i].scores[t] # Unscored

ProbedIn(docs, d) == {i \in DOMAIN docs : docs[i].kind = "capabilities" /\ d \in DOMAIN docs[i].passed}

Complete(docs, parsers) ==
    /\ \A i \in DOMAIN docs : docs[i].kind # "broken"
    /\ \A t \in Tasks : Scored(docs, t)
    /\ \A d \in Expected(parsers) : ProbedIn(docs, d) # {}

CollectResults(docs, parsers, threshold) ==
    IF ~Complete(docs, parsers) THEN "error"
    ELSE IF /\ \A t \in Tasks : \A i \in Naming(docs, t) : docs[i].scores[t] >= threshold
            /\ \A d \in Expected(parsers) : \A i \in ProbedIn(docs, d) : docs[i].passed[d]
    THEN "Passed" ELSE "Failed"

\* What a check ends with: the scores LightEval wrote, and the probes.
Verdict(docs, parsers, works, threshold) ==
    CollectResults(docs \o ProbeDocuments(parsers, works), parsers, threshold)
-------------------------------------------------------------------------------
\* A verdict is a measurement.  Who passed was measured on every task, once,
\* reached the threshold in each, and had every named parser at work; who failed
\* was measured as completely, and fell short somewhere.  Whatever could not be
\* measured is an error, and neither.
VerdictIsMeasured(docs, parsers, works, threshold) ==
    LET verdict == Verdict(docs, parsers, works, threshold)
        score   == [t \in Tasks |-> {docs[i].scores[t] : i \in Naming(docs, t)}]
    IN  /\ verdict # "error" => \A t \in Tasks : Cardinality(score[t]) = 1 /\ Unscored \notin score[t]
        /\ verdict = "Passed" => /\ \A t \in Tasks : \A n \in score[t] : n >= threshold
                                 /\ \A d \in Probed(parsers) : works[d]
        /\ verdict = "Failed" => \/ \E t \in Tasks : \E n \in score[t] : n < threshold
                                 \/ \E d \in Probed(parsers) : ~works[d]
================================================================================
