------------------------------ MODULE SweepExpansion ------------------------------
(***************************************************************************)
(* SweepSpec::candidates (domain/candidate.rs): the trials of a sweep are  *)
(* every combination of the listed values, applied to a base candidate,    *)
(* each once.  A candidate is a function from its dimensions to values,    *)
(* Unset where the base has no such serve argument.  Names and values are  *)
(* given as they are written: Canonical says which names are one, and      *)
(* SameKey which values candidate_key does not tell apart (a flag and an   *)
(* empty value).  Names are valid ones, and zeros have one sign.           *)
(***************************************************************************)
EXTENDS Naturals, Sequences, SequencesExt, FiniteSets

CONSTANTS Unset, Canonical, SameKey

Rejected == <<>>  \* an accepted sweep has trials

KeyValue(v) == IF v \in DOMAIN SameKey THEN SameKey[v] ELSE v

CandidateKey(candidate) == [d \in DOMAIN candidate |-> KeyValue(candidate[d])]

\* expand, for one dimension.
Expand(candidates, name, values) ==
    FlattenSeq([i \in DOMAIN candidates |->
                  [j \in DOMAIN values |-> [candidates[i] EXCEPT ![name] = values[j]]]])

\* Of several candidates with one key the first is retained.
Deduplicated(candidates) ==
    FoldLeft(LAMBDA kept, c :
               IF \E i \in DOMAIN kept : CandidateKey(kept[i]) = CandidateKey(c) THEN kept
               ELSE Append(kept, c),
             <<>>, candidates)

Product(sizes) == FoldLeft(LAMBDA total, n : total * n, 1, sizes)

\* Deliberate defect: the bound is that of the longest dimension.
WithinOne(sizes, max) == \A i \in DOMAIN sizes : sizes[i] <= max

WithinBound(sizes, max) == Product(sizes) <= max

\* dimensions: a sequence of [name, values], in the order they are expanded in;
\* cap: max_parallel_trials.
Accepted(dimensions, maxTrials, cap) ==
    /\ maxTrials > 0 /\ cap # 0
    /\ \A i \in DOMAIN dimensions : dimensions[i].values # <<>>
    /\ \A i, j \in DOMAIN dimensions :
         i # j => Canonical[dimensions[i].name] # Canonical[dimensions[j].name]
    /\ \E i \in DOMAIN dimensions : Cardinality(ToSet(dimensions[i].values)) > 1
    /\ WithinBound([i \in DOMAIN dimensions |-> Len(dimensions[i].values)], maxTrials)

Candidates(base, dimensions, maxTrials, cap) ==
    IF ~Accepted(dimensions, maxTrials, cap) THEN Rejected
    ELSE Deduplicated(FoldLeft(LAMBDA cs, d : Expand(cs, Canonical[d.name], d.values),
                               <<base>>, dimensions))
-------------------------------------------------------------------------------
\* The reference: the base with any choice of listed values.
Combinations(base, dimensions) ==
    LET Picks == {f \in [DOMAIN dimensions -> UNION {ToSet(dimensions[i].values) :
                                                     i \in DOMAIN dimensions}] :
                    \A i \in DOMAIN dimensions : f[i] \in ToSet(dimensions[i].values)}
        At(f, d) == {i \in DOMAIN dimensions : Canonical[dimensions[i].name] = d}
    IN  {[d \in DOMAIN base |-> IF At(f, d) = {} THEN base[d]
                                ELSE f[CHOOSE i \in At(f, d) : TRUE]] : f \in Picks}

\* A sweep that is accepted tries every combination of what it lists once, and
\* nothing else, within its bound; two that agree on their key count as one.
TriesEveryCombination(base, dimensions, maxTrials, cap) ==
    LET trials == Candidates(base, dimensions, maxTrials, cap)
    IN  trials # Rejected =>
          /\ {CandidateKey(trials[i]) : i \in DOMAIN trials}
               = {CandidateKey(c) : c \in Combinations(base, dimensions)}
          /\ \A i, j \in DOMAIN trials :
               i # j => CandidateKey(trials[i]) # CandidateKey(trials[j])
          /\ ToSet(trials) \subseteq Combinations(base, dimensions)
          /\ Len(trials) <= maxTrials
================================================================================
