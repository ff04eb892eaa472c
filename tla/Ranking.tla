--------------------------------- MODULE Ranking ---------------------------------
(***************************************************************************)
(* How observations are compared (results/metrics.rs), which of them a run *)
(* declares its winner (select_best), and how the MCP tool rank_candidates *)
(* orders them (mcp/tools.rs).  An observation has an id, a correctness    *)
(* status, "None" where it was not evaluated, and a value, NoValue where   *)
(* there is none or it is not finite.                                      *)
(***************************************************************************)
EXTENDS Integers, Sequences, SequencesExt, FiniteSets

CONSTANTS NoValue

ASSUME RankingAssumption ==
    NoValue \notin [id : Int, status : {"Passed", "None", "Failed"}, value : Int \cup {NoValue}]

CorrectnessRank(status) == CASE status = "Passed" -> 2
                             [] status = "None"   -> 1
                             [] status = "Failed" -> 0

\* compare_observations says Greater.
Better(lowerIsBetter, left, right) ==
    \/ CorrectnessRank(left.status) > CorrectnessRank(right.status)
    \/ /\ left.status = right.status /\ left.value # NoValue
       /\ right.value # NoValue =>
            IF lowerIsBetter THEN left.value < right.value ELSE left.value > right.value

\* The first of the best, among those with a value: the earlier one stays unless
\* it is beaten.
SelectBest(lowerIsBetter, observations) ==
    FoldLeft(LAMBDA best, o : IF o.value # NoValue /\ (best = NoValue \/ Better(lowerIsBetter, o, best))
                              THEN o ELSE best,
             NoValue, observations)

\* Deliberate defect: the comparison is not reversed.
WorstFirst(lowerIsBetter, left, right) ==
    \/ Better(lowerIsBetter, right, left)
    \/ ~Better(lowerIsBetter, left, right) /\ left.id < right.id

\* compare_scores: the better first, then the smaller id.
Precedes(lowerIsBetter, left, right) ==
    \/ Better(lowerIsBetter, left, right)
    \/ ~Better(lowerIsBetter, right, left) /\ left.id < right.id

Ranked(lowerIsBetter, observations) ==
    IF \E i, j \in DOMAIN observations : i # j /\ observations[i].id = observations[j].id
    THEN <<>>  \* refused
    ELSE CHOOSE s \in [DOMAIN observations -> ToSet(observations)] :
           /\ ToSet(s) = ToSet(observations)
           /\ \A i, j \in DOMAIN s : i < j => Precedes(lowerIsBetter, s[i], s[j])
-------------------------------------------------------------------------------
\* The order is one: nobody is ranked above who is worse than somebody below,
\* what failed its checks comes last, and where all have a value the first is as
\* good as the winner a run with these trials declares, and is that winner if
\* the ids follow the order of the trials.
RankingAgrees(lowerIsBetter, observations) ==
    LET ranked == Ranked(lowerIsBetter, observations)
        winner == SelectBest(lowerIsBetter, observations)
    IN  ranked # <<>> =>
          /\ \A i, j \in DOMAIN ranked : i < j =>
               /\ ~Better(lowerIsBetter, ranked[j], ranked[i])
               /\ ranked[i].status = "Failed" => ranked[j].status = "Failed"
          /\ (\A i \in DOMAIN observations : observations[i].value # NoValue) =>
               /\ ranked[1].status = winner.status /\ ranked[1].value = winner.value
               /\ (\A i, j \in DOMAIN observations : i < j =>
                     observations[i].id < observations[j].id) => ranked[1] = winner
================================================================================
