------------------------------ MODULE CalculationsProofs ------------------------------
(* The calculations of the program do what they promise for inputs of every *)
(* size, and so for those that MCCalculations enumerates. What a fold or a   *)
(* recursive function computes is found by induction over its steps: a set   *)
(* of numbers that lacks one has a least one outside of it.                  *)
EXTENDS MCCalculations, FiniteSetTheorems, SequenceTheorems, NaturalsInduction,
        WellFoundedInduction, TLAPS

-------------------------------------------------------------------------------
(* Induction, recursion and folds                                            *)

\* A set of numbers that is not empty has a least one.
LEMMA LeastNatural ==
  ASSUME NEW T, T \subseteq Nat, T # {}
  PROVE  \E m \in T : \A n \in T : m <= n
<1>1. PICK m \in T : \A n \in T : <<n, m>> \notin OpToRel(<, Nat)
  BY NatLessThanWellFounded, WFMin
<1>2. \A n \in T : ~(n < m)
  BY <1>1 DEF OpToRel
<1>3. QED BY <1>2

\* Induction over the numbers of a set: there is no least one outside of it.
LEMMA SetInduction ==
  ASSUME NEW T, 0 \in T, \A n \in Nat : n \in T => n + 1 \in T
  PROVE  \A n \in Nat : n \in T
<1>1. SUFFICES ASSUME NEW x \in Nat, x \notin T PROVE FALSE
  OBVIOUS
<1> DEFINE U == {n \in Nat : n \notin T}
<1>2. PICK m \in U : \A n \in U : m <= n
  <2>1. U \subseteq Nat /\ U # {} BY <1>1
  <2> HIDE DEF U
  <2>2. QED BY <2>1, LeastNatural
<1>3. m # 0 /\ m - 1 \in Nat
  BY <1>2
<1>4. m - 1 \in T
  BY <1>2, <1>3
<1>5. m - 1 + 1 \in T
  BY <1>3, <1>4
<1>6. QED BY <1>2, <1>5

(* f starts with b and goes on with step. *)
Recurs(f, V, b, step) == /\ f \in [Nat -> V]
                         /\ f[0] = b
                         /\ \A n \in Nat : f[n + 1] = step[n][f[n]]

\* Such a function exists.
LEMMA Recursion ==
  ASSUME NEW V, NEW b \in V, NEW step \in [Nat -> [V -> V]]
  PROVE  \E f : Recurs(f, V, b, step)
<1> DEFINE Part(n, f) == /\ f \in [0..n -> V] /\ f[0] = b
                         /\ \A k \in Nat : k < n => f[k + 1] = step[k][f[k]]
           T == {n \in Nat : \E f : Part(n, f)}
<1>1. 0 \in T
  <2>1. Part(0, [k \in 0..0 |-> b])
    OBVIOUS
  <2>2. QED BY <2>1
<1>2. ASSUME NEW n \in Nat, n \in T PROVE n + 1 \in T
  <2>1. PICK f : Part(n, f)
    BY <1>2
  <2> DEFINE g == [k \in 0..(n + 1) |-> IF k = n + 1 THEN step[n][f[n]] ELSE f[k]]
  <2>2. f[n] \in V
    BY <2>1
  <2>3. g \in [0..(n+1) -> V]
    BY <2>1, <2>2
  <2>4. ASSUME NEW k \in Nat, k < n + 1 PROVE g[k + 1] = step[k][g[k]]
    <3>1. CASE k = n
      <4>1. g[k + 1] = step[n][f[n]] /\ g[k] = f[n]
        BY <3>1
      <4>2. QED BY <4>1, <3>1
    <3>2. CASE k # n
      <4>1. k < n /\ k + 1 # n + 1 /\ k + 1 \in 0..(n+1) /\ k # n + 1 /\ k \in 0..(n+1)
        BY <3>2, <2>4
      <4>2. g[k + 1] = f[k + 1] /\ g[k] = f[k]
        BY <4>1
      <4>3. QED BY <4>1, <4>2, <2>1
    <3>3. QED BY <3>1, <3>2
  <2>5. g[0] = b
    BY <2>1
  <2>6. Part(n + 1, g)
    <3> HIDE DEF g
    <3>1. QED BY <2>3, <2>4, <2>5
  <2> HIDE DEF g
  <2>7. QED BY <2>6
<1>3. \A n \in Nat : n \in T
  <2> HIDE DEF T
  <2>1. QED BY <1>1, <1>2, SetInduction
<1>4. ASSUME NEW n \in Nat, NEW f, NEW m \in Nat, NEW g, Part(n, f), Part(m, g), n <= m
      PROVE  f[n] = g[n]
  <2> DEFINE U == {k \in Nat : k <= n => f[k] = g[k]}
  <2>1. 0 \in U
    BY <1>4
  <2>2. ASSUME NEW k \in Nat, k \in U PROVE k + 1 \in U
    <3>1. CASE k + 1 <= n
      <4>1. k < n /\ k < m
        BY <3>1, <1>4
      <4>2. f[k+1] = step[k][f[k]] /\ g[k+1] = step[k][g[k]]
        BY <4>1, <1>4
      <4>3. f[k] = g[k]
        BY <2>2, <3>1
      <4>4. QED BY <4>2, <4>3
    <3>2. QED BY <3>1
  <2>3. n \in U
    <3> HIDE DEF U
    <3>1. QED BY <2>1, <2>2, SetInduction
  <2>4. QED BY <2>3
<1>5. PICK F : \A n \in Nat : Part(n, F[n])
  <2>1. \A n \in Nat : Part(n, [k \in Nat |-> CHOOSE f : Part(k, f)][n])
    BY <1>3
  <2> HIDE DEF Part
  <2>2. QED BY <2>1
<1> DEFINE g == [n \in Nat |-> F[n][n]]
<1>6. g \in [Nat -> V] /\ g[0] = b
  BY <1>5
<1>7. ASSUME NEW n \in Nat PROVE g[n + 1] = step[n][g[n]]
  <2>1. Part(n + 1, F[n + 1]) /\ Part(n, F[n])
    BY <1>5
  <2>2. F[n + 1][n] = F[n][n]
    <3> HIDE DEF Part
    <3>1. n <= n + 1 /\ n + 1 \in Nat
      OBVIOUS
    <3>2. QED BY <2>1, <3>1, <1>4
  <2>3. n < n + 1
    OBVIOUS
  <2>4. F[n + 1][n + 1] = step[n][F[n + 1][n]]
    BY <2>1, <2>3
  <2>5. QED BY <2>2, <2>4
<1> HIDE DEF g
<1>8. QED BY <1>6, <1>7 DEF Recurs

\* The greatest number of a set, as Max of the library chooses it.
LEMMA GreatestUpTo ==
  ASSUME NEW n \in Nat, NEW t, t \subseteq 1..n, t # {}
  PROVE  Max(t) \in t /\ \A x \in t : x <= Max(t)
<1> DEFINE U == {n - x : x \in t}
<1>1. PICK m \in U : \A x \in U : m <= x
  <2>1. \A x \in t : n - x \in Nat
    OBVIOUS
  <2>2. U \subseteq Nat /\ U # {}
    BY <2>1
  <2> HIDE DEF U
  <2>3. QED BY <2>2, LeastNatural
<1>2. PICK x \in t : m = n - x
  BY <1>1
<1>3. \A y \in t : x >= y
  <2>1. \A y \in t : n - y \in U /\ y \in 1..n
    OBVIOUS
  <2> HIDE DEF U
  <2>2. QED BY <2>1, <1>1, <1>2
<1>4. QED BY <1>2, <1>3 DEF Max

\* The numbers up to the next one.
LEMMA UpTo ==
  ASSUME NEW k \in Nat
  PROVE  /\ Max(1 .. (k + 1)) = k + 1 /\ (1 .. (k + 1)) \ {k + 1} = 1 .. k /\ 1 .. (k + 1) # {}
         /\ 1 .. 0 = {}
<1> DEFINE n == k + 1
<1>0. n \in Nat /\ k = n - 1 /\ n # 0
  OBVIOUS
<1> HIDE DEF n
<1>1. 1..n # {} /\ 1..n \subseteq 1..n /\ n \in 1..n
  BY <1>0
<1>2. Max(1..n) \in 1..n /\ n <= Max(1..n)
  BY <1>0, <1>1, GreatestUpTo
<1> DEFINE m == Max(1 .. n)
<1>3. m \in 1 .. n /\ n <= m
  BY <1>2
<1> HIDE DEF m
<1>4. m = n
  BY <1>0, <1>3
<1>5. (1 .. n) \ {n} = 1 .. k /\ 1 .. 0 = {}
  BY <1>0
<1>6. QED BY <1>1, <1>4, <1>5 DEF m, n

(* What a fold computes on its way, from the sets of the places it has seen. *)
Folds(h, n, V, b, step) ==
  /\ h \in [SUBSET (1 .. n) -> V]
  /\ h = [t \in SUBSET (1 .. n) |-> IF t = {} THEN b ELSE step[<<h[t \ {Max(t)}], Max(t)>>]]

\* Such a function exists: FoldLeft is defined by one.
LEMMA FoldRecursion ==
  ASSUME NEW n \in Nat, NEW V, NEW b \in V, NEW step \in [V \X (1..n) -> V]
  PROVE  \E h : Folds(h, n, V, b, step)
<1> DEFINE P == SUBSET (1..n)
           W == [P -> V]
           Up(g) == [t \in P |-> IF t = {} THEN b ELSE step[<<g[t \ {Max(t)}], Max(t)>>]]
           up == [k \in Nat |-> [g \in W |-> Up(g)]]
           none == [t \in P |-> b]
<1>1. none \in W
  OBVIOUS
<1>2. \A g \in W : Up(g) \in W
  <2> SUFFICES ASSUME NEW g \in W, NEW t \in P
               PROVE  (IF t = {} THEN b ELSE step[<<g[t \ {Max(t)}], Max(t)>>]) \in V
    OBVIOUS
  <2>1. CASE t # {}
    <3>1. Max(t) \in 1..n /\ t \ {Max(t)} \in P
      BY <2>1, GreatestUpTo
    <3>2. QED BY <3>1
  <2>2. QED BY <2>1
<1>3. up \in [Nat -> [W -> W]]
  <2> HIDE DEF W, Up
  <2>1. QED BY <1>2
<1>4. PICK G : Recurs(G, W, none, up)
  <2> HIDE DEF W, up, none
  <2>1. QED BY <1>1, <1>3, Recursion
<1>5. \A k \in Nat : G[k + 1] = Up(G[k])
  <2> HIDE DEF W, Up
  <2>1. QED BY <1>4 DEF Recurs
<1> DEFINE T == {k \in Nat : \A t \in P : t \subseteq 1..k => G[k + 1][t] = G[k][t]}
<1>6. 0 \in T
  <2>1. ASSUME NEW t \in P, t \subseteq 1..0 PROVE G[0 + 1][t] = G[0][t]
    <3>1. t = {}
      BY <2>1
    <3>2. G[0 + 1] = Up(G[0])
      BY <1>5
    <3>3. QED BY <3>1, <3>2, <1>4 DEF Recurs
  <2>2. QED BY <2>1
<1>7. ASSUME NEW k \in Nat, k \in T PROVE k + 1 \in T
  <2>1. ASSUME NEW t \in P, t \subseteq 1..(k + 1) PROVE G[k + 1 + 1][t] = G[k + 1][t]
    <3>1. G[k + 1 + 1] = Up(G[k + 1]) /\ G[k + 1] = Up(G[k])
      <4> HIDE DEF Up
      <4>1. k + 1 \in Nat
        OBVIOUS
      <4>2. QED BY <4>1, <1>5
    <3>2. CASE t = {}
      BY <3>1, <3>2
    <3>3. CASE t # {}
      <4>1. Max(t) \in t /\ \A x \in t : x <= Max(t)
        BY <3>3, GreatestUpTo
      <4>2. t \ {Max(t)} \in P /\ t \ {Max(t)} \subseteq 1..k
        <5>1. ASSUME NEW x \in t, x # Max(t) PROVE x \in 1..k
          <6>1. x \in 1..(k + 1) /\ Max(t) \in 1..(k + 1) /\ x <= Max(t)
            BY <4>1, <2>1, <5>1
          <6> DEFINE m == Max(t)
          <6>2. x \in 1..(k + 1) /\ m \in 1..(k + 1) /\ x <= m /\ x # m
            BY <6>1, <5>1
          <6> HIDE DEF m
          <6>3. QED BY <6>2
        <5>2. QED BY <5>1
      <4>3. G[k + 1][t \ {Max(t)}] = G[k][t \ {Max(t)}]
        BY <4>2, <1>7
      <4>4. QED BY <3>1, <3>3, <4>3
    <3>4. QED BY <3>2, <3>3
  <2>2. QED BY <2>1
<1>8. n \in T
  <2> HIDE DEF T
  <2>1. QED BY <1>6, <1>7, SetInduction
<1>9. G[n] \in W /\ G[n] = Up(G[n])
  <2>1. G[n] \in W /\ G[n + 1] \in W
    BY <1>4 DEF Recurs
  <2>2. \A t \in P : G[n + 1][t] = G[n][t]
    BY <1>8
  <2>3. G[n + 1] = G[n]
    BY <2>1, <2>2
  <2>4. QED BY <2>1, <2>3, <1>5
<1>10. Folds(G[n], n, V, b, step)
  <2>1. QED BY <1>9 DEF Folds
<1>11. QED BY <1>10

\* The least number of a set, as the modules choose it.
LEMMA LeastIs ==
  ASSUME NEW T, T \subseteq Nat, T # {}
  PROVE  LET m == CHOOSE i \in T : \A j \in T : i <= j
         IN  m \in T /\ \A j \in T : m <= j
<1>1. \E m \in T : \A n \in T : m <= n
  BY LeastNatural
<1>2. QED BY <1>1

\* A function over the first numbers is a sequence.
LEMMA FunctionIsSequence ==
  ASSUME NEW n \in Nat, NEW S, NEW f \in [1 .. n -> S]
  PROVE  f \in Seq(S) /\ Len(f) = n /\ DOMAIN f = 1 .. n
OBVIOUS

\* The values a fold goes through, one member of its sequence after the other.
Passes(H, run, n, V, b, step) ==
  /\ run \in [Nat -> V] /\ run[0] = b /\ run[n] = H[1 .. n]
  /\ \A k \in Nat : k < n => run[k + 1] = step[<<run[k], k + 1>>]

\* A function that is defined like a fold
FoldsBy(H, n, V, b, step) ==
  /\ H[{}] = b
  /\ \A t \in SUBSET (1 .. n) : t # {} /\ H[t \ {Max(t)}] \in V => H[t] = step[<<H[t \ {Max(t)}], Max(t)>>]

\* goes through them.
LEMMA FoldRuns ==
  ASSUME NEW n \in Nat, NEW V, NEW b \in V, NEW step \in [V \X (1 .. n) -> V],
         NEW H, FoldsBy(H, n, V, b, step)
  PROVE  \E run : Passes(H, run, n, V, b, step)
<1> DEFINE T == {k \in Nat : k <= n => H[1 .. k] \in V}
           run == [k \in Nat |-> IF k <= n THEN H[1 .. k] ELSE b]
<1>1. H[1 .. 0] = b
  <2>1. 1 .. 0 = {}
    BY UpTo
  <2>2. QED BY <2>1 DEF FoldsBy
<1>2. ASSUME NEW k \in Nat, k < n, H[1 .. k] \in V
      PROVE  H[1 .. (k + 1)] = step[<<H[1 .. k], k + 1>>] /\ H[1 .. (k + 1)] \in V
  <2>1. 1 .. (k + 1) \in SUBSET (1 .. n) /\ k + 1 \in 1 .. n
    BY <1>2
  <2>2. Max(1 .. (k + 1)) = k + 1 /\ (1 .. (k + 1)) \ {k + 1} = 1 .. k /\ 1 .. (k + 1) # {}
    BY UpTo
  <2>3. QED BY <1>2, <2>1, <2>2 DEF FoldsBy
<1>3. ASSUME NEW k \in Nat, k \in T PROVE k + 1 \in T
  <2>1. ASSUME k + 1 <= n PROVE H[1 .. (k + 1)] \in V
    <3>1. k < n /\ k <= n
      BY <2>1
    <3>2. H[1 .. k] \in V
      BY <1>3, <3>1
    <3>3. QED BY <1>2, <3>1, <3>2
  <2>2. QED BY <2>1
<1>4. \A k \in Nat : k \in T
  <2>1. 0 \in T
    BY <1>1
  <2> HIDE DEF T
  <2>2. QED BY <1>3, <2>1, SetInduction
<1>5. run \in [Nat -> V] /\ run[0] = b /\ run[n] = H[1 .. n]
  BY <1>1, <1>4
<1>6. ASSUME NEW k \in Nat, k < n PROVE run[k + 1] = step[<<run[k], k + 1>>]
  <2>1. k <= n /\ k + 1 <= n /\ k + 1 \in Nat
    BY <1>6
  <2>2. run[k] = H[1 .. k] /\ run[k + 1] = H[1 .. (k + 1)] /\ H[1 .. k] \in V
    BY <1>4, <2>1
  <2> HIDE DEF run, T
  <2>3. QED BY <1>2, <1>6, <2>2
<1> HIDE DEF run
<1>7. QED BY <1>5, <1>6 DEF Passes
-------------------------------------------------------------------------------
(* The verdict on a server's correctness                                    *)

\* What LightEval may leave behind: results that name any of the tasks, with any
\* scores, and anything else, in any number of files.
Results == UNION {[kind : {"results"}, scores : [T -> Nat]] : T \in SUBSET Tasks}

\* The documents of a check.
GateDocs == Seq(Results \cup [kind : {"other", "broken"}])

\* The document of the probes changes nothing of what is read from the others.
LEMMA ProbesNameNothing ==
  ASSUME NEW docs \in GateDocs, NEW parsers, NEW works
  PROVE  LET all == docs \o ProbeDocuments(parsers, works)
         IN  /\ \A t : Naming(all, t) = Naming(docs, t)
             /\ \A i \in DOMAIN docs : i \in DOMAIN all /\ all[i] = docs[i]
             /\ \A d : ProbedIn(all, d) = {i \in DOMAIN all : i = Len(docs) + 1 /\ d \in Probed(parsers)}
             /\ \A i \in DOMAIN all : i = Len(docs) + 1 =>
                  all[i].passed = [d \in Probed(parsers) |-> works[d]]
<1> DEFINE probes == ProbeDocuments(parsers, works)
           all == docs \o probes
<1>1. probes = <<>> \/ probes = <<[kind |-> "capabilities", passed |-> [d \in Probed(parsers) |-> works[d]]]>>
  BY DEF ProbeDocuments
<1>2. docs \in Seq(Results \cup [kind : {"other", "broken"}])
  BY DEF GateDocs
<1>3. /\ Len(docs) \in Nat /\ DOMAIN docs = 1 .. Len(docs)
      /\ \A i \in DOMAIN docs : docs[i] \in Results \cup [kind : {"other", "broken"}]
      /\ \A i \in DOMAIN docs : docs[i].kind # "capabilities"
  BY <1>2 DEF Results
<1>4. CASE probes = <<>>
  <2>1. all = docs
    BY <1>2, <1>4
  <2>2. Probed(parsers) = {} 
    BY <1>4 DEF ProbeDocuments
  <2>3. QED BY <2>1, <2>2, <1>3 DEF Naming, ProbedIn
<1>5. CASE probes # <<>>
  <2> DEFINE p == [kind |-> "capabilities", passed |-> [d \in Probed(parsers) |-> works[d]]]
  <2>1. probes = <<p>>
    BY <1>1, <1>5
  <2> HIDE DEF p
  <2>2. /\ DOMAIN all = 1 .. Len(docs) + 1
        /\ \A i \in DOMAIN docs : all[i] = docs[i]
        /\ all[Len(docs) + 1] = p
    BY <1>2, <2>1, <1>3
  <2> HIDE DEF all, probes
  <2>3. p.kind = "capabilities" /\ p.passed = [d \in Probed(parsers) |-> works[d]]
    BY DEF p
  <2>4. \A i \in DOMAIN all : i = Len(docs) + 1 \/ i \in DOMAIN docs
    BY <2>2, <1>3
  <2>5. DOMAIN docs \subseteq DOMAIN all /\ Len(docs) + 1 \in DOMAIN all
    BY <2>2, <1>3
  <2>6. \A t : Naming(all, t) = Naming(docs, t)
    BY <2>2, <2>3, <2>4, <2>5 DEF Naming
  <2>7. \A d : ProbedIn(all, d) = {i \in DOMAIN all : i = Len(docs) + 1 /\ d \in Probed(parsers)}
    BY <2>2, <2>3, <2>4, <1>3 DEF ProbedIn
  <2>8. QED BY <2>2, <2>3, <2>5, <2>6, <2>7 DEF all, probes
<1>6. QED BY <1>4, <1>5

\* The verdict of check_correctness is a measurement, whatever files LightEval
\* leaves and whichever parsers are configured.
THEOREM MeasuredVerdict ==
  ASSUME NEW docs \in GateDocs, NEW parsers, NEW works \in [Domains -> BOOLEAN], NEW threshold \in Nat
  PROVE  VerdictIsMeasured(docs, parsers, works, threshold)
<1> DEFINE all == docs \o ProbeDocuments(parsers, works)
           verdict == Verdict(docs, parsers, works, threshold)
           score == [t \in Tasks |-> {docs[i].scores[t] : i \in Naming(docs, t)}]
<1>1. /\ \A t : Naming(all, t) = Naming(docs, t)
      /\ \A i \in DOMAIN docs : i \in DOMAIN all /\ all[i] = docs[i]
      /\ \A d : ProbedIn(all, d) = {i \in DOMAIN all : i = Len(docs) + 1 /\ d \in Probed(parsers)}
      /\ \A i \in DOMAIN all : i = Len(docs) + 1 =>
           all[i].passed = [d \in Probed(parsers) |-> works[d]]
  BY ProbesNameNothing
<1>2. verdict = CollectResults(all, parsers, threshold)
  BY DEF Verdict
<1> HIDE DEF all
<1>3. \A t \in Tasks : \A i \in Naming(docs, t) :
        i \in DOMAIN docs /\ all[i].scores[t] = docs[i].scores[t] /\ docs[i].scores[t] \in Nat
  <2> TAKE t \in Tasks
  <2> TAKE i \in Naming(docs, t)
  <2>1. i \in DOMAIN docs /\ docs[i].kind = "results" /\ t \in DOMAIN docs[i].scores
    BY DEF Naming
  <2>2. docs[i] \in Results \cup [kind : {"other", "broken"}]
    BY <2>1 DEF GateDocs
  <2>3. PICK T \in SUBSET Tasks : docs[i] \in [kind : {"results"}, scores : [T -> Nat]]
    BY <2>1, <2>2 DEF Results
  <2>4. QED BY <2>1, <2>3, <1>1
<1>4. verdict # "error" => Complete(all, parsers)
  <2> HIDE DEF verdict
  <2>1. QED BY <1>2 DEF CollectResults
<1>5. ASSUME verdict # "error", NEW t \in Tasks PROVE \E i \in Naming(docs, t) : Naming(docs, t) = {i} /\ docs[i].scores[t] # Unscored
  <2>1. Cardinality(Naming(docs, t)) = 1 /\ \A i \in Naming(docs, t) : all[i].scores[t] # Unscored
    BY <1>1, <1>4, <1>5 DEF Complete, Scored
  <2>2. Naming(docs, t) \in SUBSET (1 .. Len(docs)) /\ Len(docs) \in Nat
    BY DEF Naming, GateDocs
  <2>3. IsFiniteSet(Naming(docs, t))
    <3>1. IsFiniteSet(1 .. Len(docs))
      BY <2>2, FS_Interval
    <3>2. QED BY <2>2, <3>1, FS_Subset
  <2>4. PICK i : Naming(docs, t) = {i}
    BY <2>1, <2>3, FS_Singleton
  <2>5. QED BY <2>1, <2>4, <1>3
<1>6. ASSUME verdict # "error", NEW t \in Tasks PROVE Cardinality(score[t]) = 1 /\ Unscored \notin score[t]
  <2>1. PICK i \in Naming(docs, t) : Naming(docs, t) = {i} /\ docs[i].scores[t] # Unscored
    BY <1>5, <1>6
  <2>2. score[t] = {docs[i].scores[t]}
    BY <2>1
  <2>3. QED BY <2>1, <2>2, FS_Singleton
<1> DEFINE good == \A t \in Tasks : \A i \in Naming(all, t) : all[i].scores[t] >= threshold
           works2 == \A d \in Expected(parsers) : \A i \in ProbedIn(all, d) : all[i].passed[d]
<1>7. good <=> \A t \in Tasks : \A n \in score[t] : n >= threshold
  BY <1>1, <1>3
<1>8. Probed(parsers) \subseteq Expected(parsers) /\ Probed(parsers) \subseteq Domains
  BY DEF Probed, Expected
<1>9. verdict # "error" => \A d \in Expected(parsers) : \E i \in DOMAIN all : i = Len(docs) + 1 /\ d \in Probed(parsers)
  BY <1>1, <1>4 DEF Complete
<1>10. verdict # "error" => (works2 <=> \A d \in Probed(parsers) : works[d])
  <2> SUFFICES ASSUME verdict # "error" PROVE works2 <=> \A d \in Probed(parsers) : works[d]
    OBVIOUS
  <2>1. \A d \in Expected(parsers) : d \in Probed(parsers) /\ Len(docs) + 1 \in DOMAIN all
    BY <1>9
  <2>2. \A d \in Probed(parsers) : Len(docs) + 1 \in DOMAIN all => all[Len(docs) + 1].passed[d] = works[d]
    BY <1>1
  <2> HIDE DEF verdict
  <2>3. QED BY <1>1, <1>8, <2>1, <2>2
<1>11. verdict = "Passed" => good /\ works2 /\ verdict # "error"
  BY <1>2 DEF CollectResults
<1>12. verdict = "Failed" => ~(good /\ works2) /\ verdict # "error"
  BY <1>2 DEF CollectResults
<1>13. \A t \in Tasks : \A n \in score[t] : n \in Nat
  BY <1>3
<1> HIDE DEF good, works2, verdict, score
<1>14. verdict = "Failed" => \/ \E t \in Tasks : \E n \in score[t] : n < threshold
                             \/ \E d \in Probed(parsers) : ~works[d]
  BY <1>7, <1>10, <1>12, <1>13
<1>15. verdict = "Passed" => /\ \A t \in Tasks : \A n \in score[t] : n >= threshold
                             /\ \A d \in Probed(parsers) : works[d]
  BY <1>7, <1>10, <1>11
<1>16. QED BY <1>6, <1>14, <1>15 DEF VerdictIsMeasured, verdict, score
-------------------------------------------------------------------------------
(* The credential a run uses                                                *)

\* The states of a token file that may hold any of the texts.
TokenFileStates(T) == [is : {"missing", "unreadable", "directory", "public", "private"}, text : T]

\* The first variable that is set decides.
LEMMA FirstVariable ==
  ASSUME NEW T, NEW environment \in Seq(T \cup {NotSet}), NEW files,
         \E i \in DOMAIN environment : environment[i] \notin {NotSet, "blank"}
  PROVE  LET named == {i \in DOMAIN environment : environment[i] \notin {NotSet, "blank"}}
         IN  \E n \in named : /\ \A j \in named : n <= j
                              /\ TokenFrom(environment, files) = Secret(environment[n])
<1> DEFINE named == {i \in DOMAIN environment : environment[i] \notin {NotSet, "blank"}}
           n == CHOOSE i \in named : \A j \in named : i <= j
<1>1. named \subseteq Nat /\ named # {}
  OBVIOUS
<1>2. TokenFrom(environment, files) = Secret(environment[n])
  BY <1>1 DEF TokenFrom, FirstOf
<1>3. n \in named /\ \A j \in named : n <= j
  <2> HIDE DEF named
  <2>1. QED BY <1>1, LeastIs
<1>4. QED BY <1>2, <1>3

\* Without one, the first file that is there decides.
LEMMA FirstFile ==
  ASSUME NEW T, NEW environment, NEW files \in Seq(TokenFileStates(T)),
         {i \in DOMAIN environment : environment[i] \notin {NotSet, "blank"}} = {},
         \E i \in DOMAIN files : files[i].is # "missing"
  PROVE  LET kept == {i \in DOMAIN files : files[i].is # "missing"}
         IN  \E n \in kept : 
               /\ \A j \in kept : n <= j
               /\ TokenFrom(environment, files)
                    = (IF files[n].is = "private" THEN Secret(files[n].text) ELSE "error")
<1> DEFINE kept == {i \in DOMAIN files : files[i].is # "missing"}
           n == CHOOSE i \in kept : \A j \in kept : i <= j
<1>1. kept \subseteq Nat /\ kept # {}
  OBVIOUS
<1>2. TokenFrom(environment, files) = (IF files[n].is = "private" THEN Secret(files[n].text) ELSE "error")
  BY <1>1 DEF TokenFrom, FirstOf
<1>3. n \in kept /\ \A j \in kept : n <= j
  <2> HIDE DEF kept
  <2>1. QED BY <1>1, LeastIs
<1>4. QED BY <1>2, <1>3

\* resolve_hf_token never passes over a source that has something for one behind
\* it, whatever the sources hold, and what is sent is redacted.
THEOREM TheFirstCredential ==
  ASSUME NEW T, "none" \notin T, "error" \notin T,
         NEW environment \in Seq(T \cup {NotSet}), NEW files \in Seq(TokenFileStates(T)),
         NEW commands, NEW submits, NEW key
  PROVE  UsesTheFirst(environment, files, commands, submits, key)
<1> DEFINE token == ResolveToken(environment, files, commands)
           named == {i \in DOMAIN environment : environment[i] \notin {NotSet, "blank"}}
           kept  == {i \in DOMAIN files : files[i].is # "missing"}
           firstNamed == CHOOSE i \in named : \A j \in named : i <= j
           firstKept == CHOOSE i \in kept : \A j \in kept : i <= j
<1>1. /\ named \subseteq Nat /\ kept \subseteq Nat
      /\ \A i \in named : environment[i] \in T
      /\ \A i \in kept : files[i].text \in T
  <2>1. \A i \in DOMAIN environment : environment[i] \in T \cup {NotSet}
    OBVIOUS
  <2>2. \A i \in DOMAIN files : files[i] \in TokenFileStates(T)
    OBVIOUS
  <2>3. \A f \in TokenFileStates(T) : f.text \in T
    BY DEF TokenFileStates
  <2>4. named \subseteq Nat /\ kept \subseteq Nat
    OBVIOUS
  <2>5. QED BY <2>1, <2>2, <2>3, <2>4
<1>2. TokenFrom(environment, files) # "none" => token = TokenFrom(environment, files)
  BY DEF ResolveToken
<1>3. \A t \in T : Secret(t) \in {t, "error"} /\ t # "error" /\ t # "none"
  BY DEF Secret
<1>4. named # {} => token \in {environment[firstNamed], "error"}
  <2> SUFFICES ASSUME named # {} PROVE token \in {environment[firstNamed], "error"}
    OBVIOUS
  <2>1. PICK n \in named : (\A j \in named : n <= j) /\ TokenFrom(environment, files) = Secret(environment[n])
    BY FirstVariable
  <2> HIDE DEF named, token
  <2>2. firstNamed \in named /\ \A j \in named : firstNamed <= j
    BY <1>1, LeastIs
  <2> HIDE DEF firstNamed
  <2>3. n = firstNamed
    BY <1>1, <2>1, <2>2
  <2>4. QED BY <1>1, <1>2, <1>3, <2>1, <2>3
<1>5. ASSUME named = {}, kept # {}
      PROVE  token = (IF files[firstKept].is = "private" THEN Secret(files[firstKept].text) ELSE "error")
  <2>1. PICK n \in kept : /\ \A j \in kept : n <= j
                          /\ TokenFrom(environment, files)
                               = (IF files[n].is = "private" THEN Secret(files[n].text) ELSE "error")
    BY <1>5, FirstFile
  <2> HIDE DEF kept, token
  <2>2. firstKept \in kept /\ \A j \in kept : firstKept <= j
    BY <1>1, <1>5, LeastIs
  <2> HIDE DEF firstKept
  <2>3. n = firstKept
    BY <1>1, <2>1, <2>2
  <2>4. QED BY <1>1, <1>2, <1>3, <2>1, <2>3
<1>6. kept # {} => firstKept \in kept
  <2> HIDE DEF kept
  <2>1. QED BY <1>1, LeastIs
<1>7. named = {} /\ kept # {} => token \in {files[firstKept].text, "error"}
  <2> HIDE DEF kept, named, token, firstKept
  <2>1. QED BY <1>1, <1>3, <1>5, <1>6
<1>8. \A i \in kept : named = {} /\ token = files[i].text /\ i = firstKept => files[i].is = "private"
  <2> HIDE DEF kept, named, token, firstKept
  <2>1. QED BY <1>1, <1>3, <1>5, <1>6
<1>9. Sent(token, submits, key) \subseteq Redactions(token, submits, key)
  <2> HIDE DEF token
  <2>1. QED BY DEF Sent, Redactions
<1> HIDE DEF named, kept, firstNamed, firstKept, token
<1>10. QED BY <1>4, <1>7, <1>8, <1>9 DEF UsesTheFirst, named, kept, firstNamed, firstKept, token

\* One of the commands gave the name.
NamedBy(name, commands, Names) == \E i \in DOMAIN commands : commands[i] \in Names /\ name = commands[i]

\* Where a command is asked, its name is taken.
LEMMA FirstCommand ==
  ASSUME NEW Names, NEW commands \in Seq(Names \cup {NotSet}), NEW token, NEW answer,
         token = "none" \/ answer \in {"refused", "nameless"},
         InferUsername(token, answer, commands) # "error"
  PROVE  NamedBy(InferUsername(token, answer, commands), commands, Names)
<1> DEFINE named == {i \in DOMAIN commands : commands[i] # NotSet}
           n == CHOOSE i \in named : \A j \in named : i <= j
<1>1. named # {} /\ InferUsername(token, answer, commands) = commands[n]
  BY DEF InferUsername, FirstOf
<1>2. named \subseteq Nat /\ \A i \in named : i \in DOMAIN commands /\ commands[i] \in Names
  OBVIOUS
<1>3. n \in named
  <2> HIDE DEF named
  <2>1. QED BY <1>1, <1>2, LeastIs
<1>4. QED BY <1>1, <1>2, <1>3 DEF NamedBy

\* A report that the leaderboard took was sent under a name, that of the token's
\* owner where Hugging Face knows it, whatever the calls and commands answer.
THEOREM SubmittedByName ==
  ASSUME NEW Names, NotSet \notin Names,
         \A a \in Names : a \notin {"error", "transport", "refused", "broken", "nameless"},
         NEW token, NEW answer \in Names \cup {"transport", "refused", "broken", "nameless"},
         NEW commands \in Seq(Names \cup {NotSet}),
         NEW posted, NEW event, NEW got, NEW events \in Seq(EventKinds)
  PROVE  SubmittedUnderAName(token, answer, commands, posted, event, got, events)
<1> DEFINE name == InferUsername(token, answer, commands)
<1> SUFFICES ASSUME name # "error", SubmitReport(posted, event, got, events) # "error"
             PROVE  /\ posted = "ok" /\ got = "ok" /\ events # <<>>
                    /\ name \in {answer} \cup ToSet(commands)
                    /\ name \notin {NotSet, "transport", "refused", "broken", "nameless"}
                    /\ token # "none" /\ answer \notin {"refused", "nameless"} => name = answer
  BY DEF SubmittedUnderAName
<1>1. posted = "ok" /\ got = "ok" /\ events # <<>>
  BY DEF SubmitReport, ParseStream, FirstOf
<1>2. CASE token = "none" \/ answer \in {"refused", "nameless"}
  <2>1. PICK i \in DOMAIN commands : commands[i] \in Names /\ name = commands[i]
    <3>1. NamedBy(name, commands, Names)
      BY <1>2, FirstCommand
    <3>2. QED BY <3>1 DEF NamedBy
  <2> HIDE DEF name
  <2>2. QED BY <1>1, <1>2, <2>1 DEF ToSet
<1>3. CASE ~(token = "none" \/ answer \in {"refused", "nameless"})
  <2>1. name = answer /\ answer \in Names
    BY <1>3 DEF InferUsername
  <2> HIDE DEF name
  <2>2. QED BY <1>1, <2>1
<1>4. QED BY <1>2, <1>3

\* How the answer is read: by its first event that settles anything.
Settling(events) ==
    {i \in DOMAIN events : /\ events[i].kind = "complete"
                           /\ events[i].data \in {"broken", "accepted", "queued", "rejected"}}

\* What parse_submit_stream makes of a stream is what its first settling event says,
LEMMA StreamIs ==
  ASSUME NEW events \in Seq(EventKinds), ParseStream(events) # "error"
  PROVE  \E k \in Settling(events) :
           /\ \A j \in Settling(events) : k <= j
           /\ events[k].data \in {"accepted", "queued"} /\ events[k].data = ParseStream(events)
<1> DEFINE k == CHOOSE i \in Settling(events) : \A j \in Settling(events) : i <= j
<1>1. /\ Settling(events) # {}
      /\ ParseStream(events) = IF events[k].data \in {"accepted", "queued"} THEN events[k].data ELSE "error"
  BY DEF ParseStream, FirstOf, Settling
<1>2. k \in Settling(events) /\ \A j \in Settling(events) : k <= j
  <2>1. Settling(events) \subseteq Nat
    BY DEF Settling
  <2>2. QED BY <1>1, <2>1, LeastIs
<1>3. QED BY <1>1, <1>2

\* and what that event says is what it makes of the stream.
LEMMA StreamSaid ==
  ASSUME NEW events \in Seq(EventKinds), NEW k \in Settling(events), \A j \in Settling(events) : k <= j,
         events[k].data \in {"accepted", "queued"}
  PROVE  ParseStream(events) = events[k].data
<1> DEFINE l == CHOOSE i \in Settling(events) : \A j \in Settling(events) : i <= j
<1>1. Settling(events) \subseteq Nat /\ Settling(events) # {}
  BY DEF Settling
<1>2. l \in Settling(events) /\ \A j \in Settling(events) : l <= j
  BY <1>1, LeastIs
<1>3. ParseStream(events) = IF events[l].data \in {"accepted", "queued"} THEN events[l].data ELSE "error"
  BY <1>1 DEF ParseStream, FirstOf, Settling
<1> HIDE DEF l
<1>4. l = k
  BY <1>1, <1>2
<1>5. QED BY <1>3, <1>4

\* An answer that is taken for a success stays one however much more of the stream
\* arrives, for streams of every length.
THEOREM EveryAnswerStands ==
  ASSUME NEW events \in Seq(EventKinds)
  PROVE  AnswersStand(events)
<1> SUFFICES ASSUME NEW n \in 0 .. Len(events), ParseStream(SubSeq(events, 1, n)) # "error"
             PROVE  /\ ParseStream(events) = ParseStream(SubSeq(events, 1, n))
                    /\ \E i \in 1 .. n :
                         /\ events[i] = [kind |-> "complete", data |-> ParseStream(SubSeq(events, 1, n))]
                         /\ \A j \in 1 .. i : events[j] # [kind |-> "complete", data |-> "rejected"]
  BY DEF AnswersStand
<1> DEFINE head == SubSeq(events, 1, n)
<1>1. /\ Len(events) \in Nat /\ DOMAIN events = 1 .. Len(events) /\ n \in Nat /\ n <= Len(events)
      /\ head \in Seq(EventKinds) /\ DOMAIN head = 1 .. n
      /\ \A i \in 1 .. n : head[i] = events[i]
      /\ \A i \in DOMAIN events : events[i] \in EventKinds
  OBVIOUS
<1> HIDE DEF head
<1>2. PICK k \in Settling(head) : /\ \A j \in Settling(head) : k <= j
                                  /\ head[k].data \in {"accepted", "queued"}
                                  /\ head[k].data = ParseStream(head)
  BY <1>1, StreamIs DEF head
<1>3. Settling(head) = {i \in Settling(events) : i <= n}
  BY <1>1 DEF Settling
<1>4. k \in 1 .. n /\ k \in Settling(events) /\ \A j \in Settling(events) : k <= j /\ j \in 1 .. Len(events)
  BY <1>1, <1>2, <1>3 DEF Settling
<1>5. ParseStream(events) = ParseStream(head) /\ events[k].data = ParseStream(head)
  BY <1>1, <1>2, <1>4, StreamSaid
<1>6. events[k] = [kind |-> "complete", data |-> ParseStream(head)]
  BY <1>1, <1>4, <1>5 DEF Settling, EventKinds
<1>7. ASSUME NEW j \in 1 .. k, events[j] = [kind |-> "complete", data |-> "rejected"] PROVE FALSE
  <2>1. j \in Settling(events)
    BY <1>1, <1>4, <1>7 DEF Settling
  <2>2. j = k
    BY <2>1, <1>4
  <2>3. events[k].data = "rejected"
    BY <2>2, <1>7
  <2>4. QED BY <2>3, <1>1, <1>2, <1>4
<1>8. QED BY <1>4, <1>5, <1>6, <1>7 DEF head
-------------------------------------------------------------------------------
(* The host: its image, its GPUs, the memory of the models                  *)

\* References to images and digests, of any names.
References(Names) == [repo : Names, digest : Names \cup {NotPinned}, tagged : BOOLEAN]
Digests(Names)    == [repo : Names, digest : Names]

\* resolve_image takes no other image for the one that was asked for, however many
\* digests the local one has.
THEOREM ImagesArePinned ==
  ASSUME NEW Names, ImageId \notin [repo : Names, digest : Names \cup {NotPinned}],
         NEW reference \in References(Names), NEW repoDigests \in SUBSET Digests(Names), IsFiniteSet(repoDigests),
         NEW allowLocal \in BOOLEAN
  PROVE  IdentityIsPinned(reference, repoDigests, allowLocal)
<1> DEFINE M == Matching(reference, repoDigests)
           own == {d \in repoDigests : d.repo = reference.repo}
           identity == Identity(reference, repoDigests, allowLocal)
<1>1. /\ own \subseteq M
      /\ reference.digest # NotPinned /\ ~reference.tagged => Pinned(reference) \in M
      /\ M \subseteq own \cup {Pinned(reference)}
      /\ M = {} => own = {} /\ (reference.digest = NotPinned \/ reference.tagged)
  BY DEF Matching
<1>2. \A d \in M : d.repo = reference.repo /\ d \in [repo : Names, digest : Names \cup {NotPinned}]
  BY <1>1 DEF Pinned, References, Digests
<1>3. IsFiniteSet(M)
  <2>1. IsFiniteSet(own)
    BY FS_Subset
  <2>2. IsFiniteSet({Pinned(reference)})
    BY FS_Singleton
  <2>3. IsFiniteSet(own \cup {Pinned(reference)})
    BY <2>1, <2>2, FS_Union
  <2> HIDE DEF own, M
  <2>4. QED BY <1>1, <2>3, FS_Subset
<1> HIDE DEF M, own
<1>4. CASE Cardinality(M) = 1
  <2>1. PICK d : M = {d}
    BY <1>3, <1>4, FS_Singleton
  <2>2. M # {}
    BY <2>1
  <2>3. identity = (CHOOSE e \in M : TRUE)
    BY <1>4, <2>2 DEF Identity, M
  <2>4. identity = d
    BY <2>1, <2>3
  <2> HIDE DEF identity
  <2>5. identity # ImageId
    BY <1>2, <2>1, <2>4, HostAssumption
  <2>6. identity.repo = reference.repo /\ own \subseteq {identity}
    BY <1>1, <1>2, <2>1, <2>4
  <2>7. reference.digest # NotPinned /\ ~reference.tagged => identity = Pinned(reference)
    BY <1>1, <2>1, <2>4
  <2>8. QED BY <2>5, <2>6, <2>7 DEF IdentityIsPinned, identity, own
<1>5. CASE Cardinality(M) # 1
  <2>1. M = {} /\ allowLocal => identity = ImageId
    BY <1>5 DEF Identity, M
  <2>2. ~(M = {} /\ allowLocal) => identity = Failed
    BY <1>5 DEF Identity, M
  <2> HIDE DEF identity
  <2>3. QED BY <1>1, <2>1, <2>2, HostAssumption DEF IdentityIsPinned, identity, own
<1>6. QED BY <1>4, <1>5

\* A GPU has an index and a uuid.
Gpus(Names) == [index : Names, uuid : Names]

\* What nvidia-smi reports: no two GPUs have a name of either kind in common.
GpuLists(Names) ==
    {all \in Seq(Gpus(Names)) : \A i, j \in DOMAIN all :
       /\ all[i].index = all[j].index \/ all[i].uuid = all[j].uuid => i = j
       /\ all[i].index # all[j].uuid}

\* The device is that of one GPU.
FoundAt(all, device, i) == Found(all, device) = {i} /\ Behind(all, device) = {all[i]}

\* A name is one GPU's alone.
LEMMA FoundIs ==
  ASSUME NEW Names, NEW all \in GpuLists(Names), NEW device, NEW i \in DOMAIN all, all[i].index = device \/ all[i].uuid = device
  PROVE  FoundAt(all, device, i)
<1>1. Found(all, device) = {i}
  BY DEF Found, GpuLists
<1>2. QED BY <1>1 DEF Behind, FoundAt

\* The pool of a sweep is the selected GPUs, in order, and no GPU is in it twice,
\* for hosts with any number of GPUs.
THEOREM PoolsAreSelected ==
  ASSUME NEW Names, NEW answers, Query(answers) # Failed => Query(answers) \in GpuLists(Names),
         NEW devices \in Seq(Names), NEW gpus \in Nat
  PROVE  PoolIsSelected(answers, devices, gpus)
<1> DEFINE all  == Query(answers)
           pool == Pool(all, devices, gpus)
           selected == Selected(all, devices, gpus)
           oneWay == \A i, j \in DOMAIN devices : (\E g \in ToSet(all) : g.index = devices[i])
                                                 = (\E g \in ToSet(all) : g.index = devices[j])
<1> SUFFICES ASSUME Normalized(devices, gpus), pool # Failed
             PROVE  /\ Len(pool) = gpus /\ Len(selected) = gpus
                    /\ \A i \in 1 .. gpus : Behind(all, pool[i]) = {selected[i]}
                    /\ oneWay => IsInjective(selected)
  BY DEF PoolIsSelected
<1>1. selected # Failed /\ pool = IF devices = <<>> THEN [i \in DOMAIN selected |-> selected[i].index] ELSE devices
  BY DEF Pool
<1>2. all # Failed
  BY <1>1 DEF Selected
<1>3. all \in GpuLists(Names) /\ all \in Seq(Gpus(Names)) /\ Len(all) \in Nat /\ DOMAIN all = 1 .. Len(all)
  BY <1>2 DEF GpuLists
<1>4. gpus > 0 /\ (devices # <<>> => Len(devices) = gpus /\ IsInjective(devices))
  BY DEF Normalized
<1> HIDE DEF all
<1>5. CASE devices = <<>>
  <2>1. selected = SubSeq(all, 1, gpus) /\ gpus <= Len(all)
    BY <1>1, <1>3, <1>5 DEF Selected
  <2>2. selected \in Seq(Gpus(Names)) /\ Len(selected) = gpus /\ DOMAIN selected = 1 .. gpus
    BY <1>3, <2>1
  <2>3. \A i \in 1 .. gpus : selected[i] = all[i] /\ i \in DOMAIN all
    BY <1>3, <2>1
  <2> HIDE DEF selected
  <2>4. pool = [i \in 1 .. gpus |-> selected[i].index]
    BY <1>1, <1>5, <2>2
  <2>5. Len(pool) = gpus
    <3> HIDE DEF pool
    <3>1. QED BY <2>4
  <2>6. \A i \in 1 .. gpus : Behind(all, pool[i]) = {selected[i]}
    <3> HIDE DEF pool
    <3> TAKE i \in 1 .. gpus
    <3>1. pool[i] = all[i].index /\ i \in DOMAIN all /\ selected[i] = all[i]
      BY <2>3, <2>4
    <3>2. FoundAt(all, pool[i], i)
      BY <3>1, <1>3, FoundIs
    <3>3. QED BY <3>1, <3>2 DEF FoundAt
  <2>7. IsInjective(selected)
    <3>1. \A i, j \in DOMAIN selected : selected[i] = selected[j] => i = j
      BY <1>3, <2>2, <2>3 DEF GpuLists
    <3>2. QED BY <3>1 DEF IsInjective
  <2>8. QED BY <2>2, <2>5, <2>6, <2>7
<1>6. CASE devices # <<>>
  <2>1. /\ \A i \in DOMAIN devices : Found(all, devices[i]) # {}
        /\ selected = [i \in DOMAIN devices |-> all[CHOOSE k \in Found(all, devices[i]) :
                                                \A m \in Found(all, devices[i]) : k <= m]]
    BY <1>1, <1>6 DEF Selected
  <2>2. Len(devices) = gpus /\ DOMAIN devices = 1 .. gpus /\ pool = devices
    BY <1>1, <1>4, <1>6
  <2> HIDE DEF selected, pool
  <2>3. ASSUME NEW i \in DOMAIN devices
        PROVE  \E k \in DOMAIN all : /\ all[k].index = devices[i] \/ all[k].uuid = devices[i]
                                     /\ selected[i] = all[k] /\ Behind(all, devices[i]) = {all[k]}
    <3>1. PICK k \in Found(all, devices[i]) : TRUE
      BY <2>1, <2>3
    <3>2. k \in DOMAIN all /\ (all[k].index = devices[i] \/ all[k].uuid = devices[i])
      BY DEF Found
    <3>3. Found(all, devices[i]) = {k} /\ Behind(all, devices[i]) = {all[k]}
      BY <1>3, <3>2, FoundIs DEF FoundAt
    <3> DEFINE least == CHOOSE l \in Found(all, devices[i]) : \A m \in Found(all, devices[i]) : l <= m
    <3>4. least \in Found(all, devices[i])
      <4>1. Found(all, devices[i]) \subseteq Nat
        BY <1>3 DEF Found
      <4>2. QED BY <3>3, <4>1, LeastIs
    <3>5. selected[i] = all[least]
      BY <2>1
    <3> HIDE DEF least
    <3>6. QED BY <3>2, <3>3, <3>4, <3>5
  <2>4. PICK at : \A i \in DOMAIN devices :
          /\ at[i] \in DOMAIN all
          /\ all[at[i]].index = devices[i] \/ all[at[i]].uuid = devices[i]
          /\ selected[i] = all[at[i]] /\ Behind(all, devices[i]) = {all[at[i]]}
    <3> DEFINE Is(i, k) == /\ k \in DOMAIN all
                           /\ all[k].index = devices[i] \/ all[k].uuid = devices[i]
                           /\ selected[i] = all[k] /\ Behind(all, devices[i]) = {all[k]}
    <3>1. \A i \in DOMAIN devices : Is(i, [j \in DOMAIN devices |-> CHOOSE k : Is(j, k)][i])
      BY <2>3
    <3> HIDE DEF Is
    <3>2. \E at : \A i \in DOMAIN devices : Is(i, at[i])
      BY <3>1
    <3>3. QED BY <3>2 DEF Is
  <2>5. Len(selected) = gpus /\ Len(pool) = gpus /\ DOMAIN selected = 1 .. gpus
    BY <2>1, <2>2
  <2>6. \A i \in 1 .. gpus : Behind(all, pool[i]) = {selected[i]}
    BY <2>2, <2>4
  <2>7. oneWay => IsInjective(selected)
    <3>1. SUFFICES ASSUME oneWay, NEW i \in 1 .. gpus, NEW j \in 1 .. gpus, selected[i] = selected[j]
                   PROVE  i = j
      BY <2>5 DEF IsInjective
    <3>2. at[i] \in DOMAIN all /\ at[j] \in DOMAIN all /\ all[at[i]] = all[at[j]]
      BY <2>2, <2>4, <3>1
    <3>3. at[i] = at[j]
      BY <1>3, <3>2 DEF GpuLists
    <3>4. ToSet(all) = {all[k] : k \in DOMAIN all}
      BY DEF ToSet
    <3>5. \A k \in DOMAIN all : \A d \in {devices[i], devices[j]} :
             all[k].uuid = d => ~ \E g \in ToSet(all) : g.index = d
      BY <1>3, <3>4 DEF GpuLists
    <3>6. \A k \in DOMAIN all : \A d \in {devices[i], devices[j]} :
             all[k].index = d => \E g \in ToSet(all) : g.index = d
      BY <3>4
    <3>7. devices[i] = devices[j]
      BY <2>2, <2>4, <3>1, <3>2, <3>3, <3>5, <3>6
    <3>8. QED BY <1>4, <1>6, <2>2, <3>7 DEF IsInjective
  <2>8. QED BY <2>5, <2>6, <2>7
<1>7. QED BY <1>5, <1>6

\* What is known of each of the models.
Documented == Seq({Failed} \cup [weights : Nat, cache : Nat, total : Nat])

\* A run that requires an estimate has one, that fits, of each of its candidates,
\* whatever the documents say.
THEOREM MemoriesAreKnown ==
  ASSUME NEW enabled \in BOOLEAN, NEW required \in BOOLEAN, NEW documents \in Documented
  PROVE  MemoryIsKnown(enabled, required, documents)
<1> DEFINE memory == Memory(enabled, required, documents)
<1> SUFFICES ASSUME memory # Failed
             PROVE  /\ Len(memory) = Len(documents)
                    /\ enabled /\ required => \A i \in DOMAIN memory :
                         memory[i].total > 0 /\ memory[i].weights + memory[i].cache <= memory[i].total
  BY DEF MemoryIsKnown
<1>1. /\ Len(documents) \in Nat /\ DOMAIN documents = 1 .. Len(documents)
      /\ \A i \in DOMAIN documents : documents[i] \in {Failed} \cup [weights : Nat, cache : Nat, total : Nat]
  BY DEF Documented
<1>2. DOMAIN memory = 1 .. Len(documents)
  BY <1>1 DEF Memory
<1>3. Len(memory) = Len(documents)
  BY <1>1 DEF Memory
<1>4. ASSUME enabled, required, NEW i \in DOMAIN memory
      PROVE  memory[i].total > 0 /\ memory[i].weights + memory[i].cache <= memory[i].total
  <2>1. i \in DOMAIN documents
    BY <1>1, <1>2
  <2>2. Estimate(documents[i]) # Failed /\ memory[i] = Estimate(documents[i])
    BY <1>4, <2>1 DEF Memory
  <2> HIDE DEF memory
  <2>3. /\ memory[i] = documents[i] /\ documents[i] # Failed /\ documents[i].total # 0
        /\ ~(documents[i].weights + documents[i].cache > documents[i].total)
    BY <2>2 DEF Estimate
  <2>4. documents[i] \in [weights : Nat, cache : Nat, total : Nat]
    BY <1>1, <2>1, <2>3
  <2>5. documents[i].weights \in Nat /\ documents[i].cache \in Nat /\ documents[i].total \in Nat
    BY <2>4
  <2>6. QED BY <2>3, <2>5
<1>5. QED BY <1>3, <1>4
-------------------------------------------------------------------------------
(* Evaluations on Hugging Face Jobs                                         *)

\* What a configuration may hold, of any texts.
Configs(Words) == [image : Words, settings : Words, correctness : BOOLEAN \cup {Absent}, cap : Nat \cup {Absent}]

\* The command line of a sweep has no overrides but its cap.
Asking(Words) ==
    {r \in [kind : {"bench", "sweep"}, file : Configs(Words) \cup {Absent}, line : Configs(Words),
            on : {"local", "hf-jobs"}, flavor : BOOLEAN, bucket : Words,
            ref : BOOLEAN, url : BOOLEAN, dryRun : BOOLEAN] :
       r.kind = "sweep" => r.line.image = Absent /\ r.line.settings = Absent /\ r.line.correctness = Absent}

\* What may fail in a job besides the evaluation.
Failing == SUBSET {"source", "compiler", "rustup", "build", "download", "config", "tools", "copy", "print"}

\* A configuration on top of another, field by field.
LEMMA OverlayIs ==
  ASSUME NEW lower, NEW higher, DOMAIN lower = DOMAIN Nothing
  PROVE  Overlay(lower, higher) =
          [image |-> IF higher.image = Absent THEN lower.image ELSE higher.image,
           settings |-> IF higher.settings = Absent THEN lower.settings ELSE higher.settings,
           correctness |-> IF higher.correctness = Absent THEN lower.correctness ELSE higher.correctness,
           cap |-> IF higher.cap = Absent THEN lower.cap ELSE higher.cap]
BY DEF Overlay, Nothing

\* The job is given what was asked for here.
LEMMA GivenAsAsked ==
  ASSUME NEW Words, NEW r \in Asking(Words), Submittable(r), EntersWhole(r)
  PROVE  LET inJob == Input(r.file, Forwarded(r))
         IN  /\ Valid(inJob) /\ Normalize(inJob) = Asked(r)
             /\ Asked(r).correctness \in BOOLEAN
<1> DEFINE line == r.line  file == r.file
           defaults == [image |-> DefaultImage, settings |-> "default", correctness |-> TRUE, cap |-> Absent]
           mine == Overlay(file, line)
           asked == Overlay(defaults, mine)
           forwarded == Forwarded(r)
           inJob == Overlay(file, forwarded)
<1>1. /\ file \in Configs(Words) /\ line \in Configs(Words)
      /\ Valid(Input(file, line))
      /\ file # Absent
  BY DEF Submittable, ResolvedJob, Asking
<1>2. DOMAIN file = DOMAIN Nothing /\ DOMAIN defaults = DOMAIN Nothing
  BY <1>1 DEF Configs, Nothing
<1>a. /\ defaults.image = DefaultImage /\ defaults.settings = "default"
      /\ defaults.correctness = TRUE /\ defaults.cap = Absent
  OBVIOUS
<1>3. Input(file, line) = mine /\ Asked(r) = asked /\ Input(file, forwarded) = inJob
  BY <1>1 DEF Input, Asked, Normalize
<1>4. r.kind \in {"bench", "sweep"} /\ line.settings = Absent /\ line.correctness = Absent
  <2>1. CASE r.kind = "sweep"
    BY <2>1 DEF Asking
  <2>2. CASE r.kind = "bench"
    BY <2>2 DEF Submittable, ResolvedJob, HasOverrides, Nothing
  <2>3. QED BY <2>1, <2>2 DEF Asking
<1>5. r.kind = "bench" => line.cap = Absent
  BY DEF Submittable, ResolvedJob, HasOverrides, Nothing
<1>6. r.kind = "sweep" => line.image = Absent
  BY DEF Asking
<1> HIDE DEF line, file, mine, asked
<1>b. /\ Forwarded(r).image = IF r.kind = "bench" THEN asked.image ELSE Absent
      /\ Forwarded(r).cap = IF r.kind = "sweep" THEN asked.cap ELSE Absent
      /\ Forwarded(r).settings = Absent /\ Forwarded(r).correctness = Absent
  <2> DEFINE image == IF r.kind = "bench" THEN asked.image ELSE Absent
             cap == IF r.kind = "sweep" THEN asked.cap ELSE Absent
  <2>1. Forwarded(r) = [Nothing EXCEPT !.image = image, !.cap = cap]
    <3>1. r.kind = "bench" => ShellWord(Asked(r).image) = asked.image
      BY <1>3 DEF EntersWhole
    <3>2. QED BY <1>3, <3>1 DEF Forwarded
  <2> HIDE DEF image, cap
  <2>2. /\ Forwarded(r).image = image /\ Forwarded(r).cap = cap
        /\ Forwarded(r).settings = Absent /\ Forwarded(r).correctness = Absent
    BY <2>1 DEF Nothing
  <2>3. QED BY <2>2 DEF image, cap
<1>c. Normalize(inJob) = Overlay(defaults, inJob)
  BY DEF Normalize
<1> HIDE DEF defaults
<1>7. mine = [image |-> IF line.image = Absent THEN file.image ELSE line.image,
              settings |-> file.settings,
              correctness |-> file.correctness,
              cap |-> IF line.cap = Absent THEN file.cap ELSE line.cap]
  BY <1>2, <1>4, OverlayIs DEF mine
<1>8. asked = [image |-> IF mine.image = Absent THEN DefaultImage ELSE mine.image,
               settings |-> IF mine.settings = Absent THEN "default" ELSE mine.settings,
               correctness |-> IF mine.correctness = Absent THEN TRUE ELSE mine.correctness,
               cap |-> IF mine.cap = Absent THEN Absent ELSE mine.cap]
  <2>1. asked = Overlay(defaults, mine)
    BY DEF asked
  <2> HIDE DEF asked
  <2>2. QED BY <1>2, <1>a, <2>1, OverlayIs
<1> HIDE DEF forwarded, inJob
<1>10. inJob = [image |-> IF forwarded.image = Absent THEN file.image ELSE forwarded.image,
                settings |-> file.settings,
                correctness |-> file.correctness,
                cap |-> IF forwarded.cap = Absent THEN file.cap ELSE forwarded.cap]
  BY <1>2, <1>b, OverlayIs DEF inJob, forwarded
<1>11. Normalize(inJob) = [image |-> IF inJob.image = Absent THEN DefaultImage ELSE inJob.image,
                           settings |-> IF inJob.settings = Absent THEN "default" ELSE inJob.settings,
                           correctness |-> IF inJob.correctness = Absent THEN TRUE ELSE inJob.correctness,
                           cap |-> IF inJob.cap = Absent THEN Absent ELSE inJob.cap]
  BY <1>2, <1>a, <1>c, OverlayIs
<1>12. Valid(inJob)
  BY <1>1, <1>3, <1>7, <1>10 DEF Valid
<1>13. asked.correctness \in BOOLEAN
  BY <1>1, <1>7, <1>8 DEF Configs
<1>14. Normalize(inJob) = asked
  <2> DEFINE again == Normalize(inJob)
  <2> HIDE DEF again
  <2>a. again = [image |-> IF inJob.image = Absent THEN DefaultImage ELSE inJob.image,
                 settings |-> IF inJob.settings = Absent THEN "default" ELSE inJob.settings,
                 correctness |-> IF inJob.correctness = Absent THEN TRUE ELSE inJob.correctness,
                 cap |-> IF inJob.cap = Absent THEN Absent ELSE inJob.cap]
    BY <1>11 DEF again
  <2>1. again.image = asked.image
    BY <1>4, <1>6, <1>7, <1>8, <1>b, <1>10, <2>a DEF forwarded
  <2>2. again.cap = asked.cap
    BY <1>4, <1>5, <1>7, <1>8, <1>b, <1>10, <2>a DEF forwarded
  <2>3. again.settings = asked.settings
    BY <1>7, <1>8, <1>10, <2>a
  <2>4. again.correctness = asked.correctness
    BY <1>7, <1>8, <1>10, <2>a
  <2>5. again = asked
    BY <1>8, <2>a, <2>1, <2>2, <2>3, <2>4
  <2>6. QED BY <2>5 DEF again
<1>d. Input(r.file, Forwarded(r)) = inJob
  BY <1>3 DEF file, forwarded
<1> HIDE DEF inJob, forwarded
<1>15. QED BY <1>3, <1>12, <1>13, <1>14, <1>d

\* The lines a script may have.
ScriptLines == {"source", "compiler", "rustup", "build", "download", "config", "tools",
                "evaluate", "copy", "print", "exit"}

\* The state a script starts in, and those it may be in.
Starting == [exit |-> Absent, rc |-> 0, evaluated |-> FALSE, delivered |-> FALSE]

\* The states it may be in.
JobStates == [exit : Nat \cup {Absent}, rc : Nat, evaluated : BOOLEAN, delivered : BOOLEAN]

\* The states of a job, after each line of its script.
Running(run, script, fails, code) ==
    /\ run[0] = Starting
    /\ \A k \in Nat : k < Len(script) => run[k + 1] = ScriptLine(run[k], script[k + 1], fails, code)

\* A line leaves the job in one of its states.
LEMMA LineKeeps ==
  ASSUME NEW s \in JobStates, NEW line, NEW fails, NEW code \in Nat
  PROVE  ScriptLine(s, line, fails, code) \in JobStates
BY DEF ScriptLine, Evaluated, JobStates

\* JobRuns goes through these states.
LEMMA JobIs ==
  ASSUME NEW job, job.script \in Seq(ScriptLines), NEW fails, NEW code \in Nat
  PROVE  \E run : Running(run, job.script, fails, code) /\ JobRuns(job, fails, code) = run[Len(job.script)]
<1> DEFINE script == job.script
           n == Len(script)
           H == CHOOSE h : h = [t \in SUBSET DOMAIN script |->
                  IF t = {} THEN Starting ELSE ScriptLine(h[t \ {Max(t)}], script[Max(t)], fails, code)]
           step == [x \in JobStates \X (1 .. n) |-> ScriptLine(x[1], script[x[2]], fails, code)]
<1>1. n \in Nat /\ DOMAIN script = 1 .. n
  OBVIOUS
<1>2. JobRuns(job, fails, code) = H[DOMAIN script]
  BY DEF JobRuns, FoldLeft, MapThenFoldSet, Starting
<1>3. Starting \in JobStates
  BY DEF Starting, JobStates
<1>4. step \in [JobStates \X (1 .. n) -> JobStates]
  BY LineKeeps
<1>5. PICK h : Folds(h, n, JobStates, Starting, step)
  <2> HIDE DEF step, n
  <2>1. QED BY <1>1, <1>3, <1>4, FoldRecursion
<1>6. h = [t \in SUBSET DOMAIN script |->
             IF t = {} THEN Starting ELSE ScriptLine(h[t \ {Max(t)}], script[Max(t)], fails, code)]
  <2> HIDE DEF n
  <2>1. ASSUME NEW t \in SUBSET (1 .. n), t # {}
        PROVE  step[<<h[t \ {Max(t)}], Max(t)>>] = ScriptLine(h[t \ {Max(t)}], script[Max(t)], fails, code)
    <3>1. Max(t) \in 1 .. n
      BY <1>1, <2>1, GreatestUpTo
    <3>2. h[t \ {Max(t)}] \in JobStates
      BY <1>5, <2>1 DEF Folds
    <3>3. QED BY <3>1, <3>2
  <2> HIDE DEF step
  <2>2. QED BY <1>1, <1>5, <2>1 DEF Folds
<1>7. H = [t \in SUBSET DOMAIN script |->
             IF t = {} THEN Starting ELSE ScriptLine(H[t \ {Max(t)}], script[Max(t)], fails, code)]
  BY <1>6
<1> DEFINE run == [k \in Nat |-> H[1 .. k]]
<1> HIDE DEF H, step, script
<1>8. run[0] = Starting
  <2>1. 1 .. 0 = {} /\ {} \in SUBSET DOMAIN script
    OBVIOUS
  <2>2. QED BY <1>7, <2>1
<1>9. ASSUME NEW k \in Nat, k < n PROVE run[k + 1] = ScriptLine(run[k], script[k + 1], fails, code)
  <2>1. 1 .. (k + 1) \in SUBSET DOMAIN script
    BY <1>1, <1>9
  <2>2. Max(1 .. (k + 1)) = k + 1 /\ (1 .. (k + 1)) \ {k + 1} = 1 .. k /\ 1 .. (k + 1) # {}
    BY UpTo
  <2>3. H[1 .. (k + 1)] = ScriptLine(H[1 .. k], script[k + 1], fails, code)
    BY <1>7, <2>1, <2>2
  <2>4. QED BY <2>3
<1>10. Running(run, script, fails, code)
  <2> HIDE DEF run
  <2>1. QED BY <1>8, <1>9 DEF Running
<1>11. JobRuns(job, fails, code) = run[n]
  BY <1>1, <1>2
<1> HIDE DEF run
<1>12. QED BY <1>10, <1>11 DEF script

\* Sequences put together, two and four of them.
Joint(s, x, y, z, e) ==
  /\ Len(s) = Len(x) + Len(y) + Len(z) + Len(e)
  /\ \A i \in 1 .. Len(x) : s[i] = x[i]
  /\ \A i \in 1 .. Len(y) : s[Len(x) + i] = y[i]
  /\ \A i \in 1 .. Len(z) : s[Len(x) + Len(y) + i] = z[i]
  /\ \A i \in 1 .. Len(e) : s[Len(x) + Len(y) + Len(z) + i] = e[i]

\* A sequence that is two put together.
Joint2(c, a, b) ==
  /\ Len(c) = Len(a) + Len(b)
  /\ \A i \in 1 .. Len(a) : c[i] = a[i]
  /\ \A i \in 1 .. Len(b) : c[Len(a) + i] = b[i]

\* So is the concatenation of two,
LEMMA JoinedTwo ==
  ASSUME NEW S, NEW a \in Seq(S), NEW b \in Seq(S)
  PROVE  a \o b \in Seq(S) /\ Joint2(a \o b, a, b)
BY DEF Joint2

\* and that of four.
LEMMA JoinedFour ==
  ASSUME NEW S, NEW x \in Seq(S), NEW y \in Seq(S), NEW z \in Seq(S), NEW e \in Seq(S),
         NEW s, s = x \o y \o z \o e
  PROVE  s \in Seq(S) /\ Joint(s, x, y, z, e)
<1>1. PICK u : u = x \o y
  OBVIOUS
<1>2. PICK v : v = u \o z
  OBVIOUS
<1>3. s = v \o e
  BY <1>1, <1>2
<1>4. u \in Seq(S) /\ Joint2(u, x, y)
  BY <1>1, JoinedTwo
<1>5. v \in Seq(S) /\ Joint2(v, u, z)
  BY <1>2, <1>4, JoinedTwo
<1>6. s \in Seq(S) /\ Joint2(s, v, e)
  BY <1>3, <1>5, JoinedTwo
<1>7. Len(x) \in Nat /\ Len(y) \in Nat /\ Len(z) \in Nat /\ Len(e) \in Nat
  OBVIOUS
<1>8. /\ \A i \in 1 .. Len(x) : i \in 1 .. Len(u) /\ i \in 1 .. Len(v)
      /\ \A i \in 1 .. Len(y) : Len(x) + i \in 1 .. Len(u) /\ Len(x) + i \in 1 .. Len(v)
      /\ \A i \in 1 .. Len(z) : Len(u) + i \in 1 .. Len(v)
  BY <1>4, <1>5, <1>7 DEF Joint2
<1>9. QED BY <1>4, <1>5, <1>6, <1>7, <1>8 DEF Joint, Joint2

\* How the results leave the job.
Last3(r) == IF r.bucket # Absent THEN "copy" ELSE "print"

\* Every script prepares, evaluates, delivers and ends.
LEMMA ScriptIs ==
  ASSUME NEW r, Asked(r).correctness \in BOOLEAN
  PROVE  /\ Script(r) \in Seq(ScriptLines)
         /\ \E m \in Nat :
              /\ Len(Script(r)) = m + 3
              /\ \A k \in 1 .. m : Script(r)[k] \notin {"evaluate", "copy", "print", "exit"}
              /\ Script(r)[m + 1] = "evaluate" /\ Script(r)[m + 2] = Last3(r) /\ Script(r)[m + 3] = "exit"
         /\ Contains(Script(r), "tools") = Asked(r).correctness
<1> DEFINE s == Script(r)
           last == Last3(r)
<1>1. last \in {"copy", "print"} /\ last \in ScriptLines
  BY DEF Last3, ScriptLines
<1>2. s = (IF r.ref THEN <<"source", "compiler", "rustup", "build">> ELSE <<"download">>)
            \o <<"config">> \o (IF Asked(r).correctness THEN <<"tools">> ELSE <<>>)
            \o <<"evaluate", last, "exit">>
  BY DEF Script, Last3
<1> HIDE DEF s, last
<1> DEFINE ends == <<"evaluate", last, "exit">>
<1>8. ends \in Seq(ScriptLines) /\ Len(ends) = 3 /\ ends[1] = "evaluate" /\ ends[2] = last /\ ends[3] = "exit"
  BY <1>1 DEF ScriptLines
<1> HIDE DEF ends
<1>3. CASE r.ref /\ Asked(r).correctness
  <2> DEFINE x == <<"source", "compiler", "rustup", "build">> y == <<"config">> z == <<"tools">>
  <2>1. x \in Seq(ScriptLines) /\ Len(x) = 4 /\ y \in Seq(ScriptLines) /\ Len(y) = 1 /\ z \in Seq(ScriptLines) /\ Len(z) = 1
    BY DEF ScriptLines
  <2>2. s = x \o y \o z \o ends
    BY <1>2, <1>3 DEF ends
  <2>3. x[1] = "source" /\ x[2] = "compiler" /\ x[3] = "rustup" /\ x[4] = "build" /\ y[1] = "config" /\ z[1] = "tools"
    OBVIOUS
  <2> HIDE DEF x, y, z
  <2>4. /\ s \in Seq(ScriptLines) /\ Len(s) = 4 + 1 + 1 + 3
        /\ \A i \in 1 .. 4 : s[i] = x[i]
        /\ \A i \in 1 .. 1 : s[4 + i] = y[i]
        /\ \A i \in 1 .. 1 : s[4 + 1 + i] = z[i]
        /\ \A i \in 1 .. 3 : s[4 + 1 + 1 + i] = ends[i]
    <3>1. s = x \o y \o z \o ends
      BY <2>2
    <3>2. s \in Seq(ScriptLines) /\ Joint(s, x, y, z, ends)
      BY <1>8, <2>1, <3>1, JoinedFour
    <3>3. QED BY <1>8, <2>1, <3>2 DEF Joint
  <2>5. s[1] = "source" /\ s[2] = "compiler" /\ s[3] = "rustup" /\ s[4] = "build" /\ s[5] = "config" /\ s[6] = "tools"
    BY <2>3, <2>4
  <2>6. s[7] = "evaluate" /\ s[8] = last /\ s[9] = "exit"
    BY <1>8, <2>4
  <2>7. \A k \in 1 .. 6 : s[k] \notin {"evaluate", "copy", "print", "exit"}
    BY <2>5
  <2>8. Contains(s, "tools") = Asked(r).correctness
    BY <1>1, <1>3, <2>4, <2>5, <2>6 DEF Contains
  <2>9. QED BY <2>4, <2>6, <2>7, <2>8 DEF s, last
<1>4. CASE r.ref /\ ~Asked(r).correctness
  <2> DEFINE x == <<"source", "compiler", "rustup", "build">> y == <<"config">> z == <<>>
  <2>1. x \in Seq(ScriptLines) /\ Len(x) = 4 /\ y \in Seq(ScriptLines) /\ Len(y) = 1 /\ z \in Seq(ScriptLines) /\ Len(z) = 0
    BY DEF ScriptLines
  <2>2. s = x \o y \o z \o ends
    BY <1>2, <1>4 DEF ends
  <2>3. x[1] = "source" /\ x[2] = "compiler" /\ x[3] = "rustup" /\ x[4] = "build" /\ y[1] = "config"
    OBVIOUS
  <2> HIDE DEF x, y, z
  <2>4. /\ s \in Seq(ScriptLines) /\ Len(s) = 4 + 1 + 0 + 3
        /\ \A i \in 1 .. 4 : s[i] = x[i]
        /\ \A i \in 1 .. 1 : s[4 + i] = y[i]
        /\ \A i \in 1 .. 0 : s[4 + 1 + i] = z[i]
        /\ \A i \in 1 .. 3 : s[4 + 1 + 0 + i] = ends[i]
    <3>1. s = x \o y \o z \o ends
      BY <2>2
    <3>2. s \in Seq(ScriptLines) /\ Joint(s, x, y, z, ends)
      BY <1>8, <2>1, <3>1, JoinedFour
    <3>3. QED BY <1>8, <2>1, <3>2 DEF Joint
  <2>5. s[1] = "source" /\ s[2] = "compiler" /\ s[3] = "rustup" /\ s[4] = "build" /\ s[5] = "config"
    BY <2>3, <2>4
  <2>6. s[6] = "evaluate" /\ s[7] = last /\ s[8] = "exit"
    BY <1>8, <2>4
  <2>7. \A k \in 1 .. 5 : s[k] \notin {"evaluate", "copy", "print", "exit"}
    BY <2>5
  <2>e. \A i \in 1 .. Len(s) : s[i] # "tools"
    BY <1>1, <2>4, <2>5, <2>6
  <2>8. Contains(s, "tools") = Asked(r).correctness
    BY <1>4, <2>e DEF Contains
  <2>9. QED BY <2>4, <2>6, <2>7, <2>8 DEF s, last
<1>5. CASE ~r.ref /\ Asked(r).correctness
  <2> DEFINE x == <<"download">> y == <<"config">> z == <<"tools">>
  <2>1. x \in Seq(ScriptLines) /\ Len(x) = 1 /\ y \in Seq(ScriptLines) /\ Len(y) = 1 /\ z \in Seq(ScriptLines) /\ Len(z) = 1
    BY DEF ScriptLines
  <2>2. s = x \o y \o z \o ends
    BY <1>2, <1>5 DEF ends
  <2>3. x[1] = "download" /\ y[1] = "config" /\ z[1] = "tools"
    OBVIOUS
  <2> HIDE DEF x, y, z
  <2>4. /\ s \in Seq(ScriptLines) /\ Len(s) = 1 + 1 + 1 + 3
        /\ \A i \in 1 .. 1 : s[i] = x[i]
        /\ \A i \in 1 .. 1 : s[1 + i] = y[i]
        /\ \A i \in 1 .. 1 : s[1 + 1 + i] = z[i]
        /\ \A i \in 1 .. 3 : s[1 + 1 + 1 + i] = ends[i]
    <3>1. s = x \o y \o z \o ends
      BY <2>2
    <3>2. s \in Seq(ScriptLines) /\ Joint(s, x, y, z, ends)
      BY <1>8, <2>1, <3>1, JoinedFour
    <3>3. QED BY <1>8, <2>1, <3>2 DEF Joint
  <2>5. s[1] = "download" /\ s[2] = "config" /\ s[3] = "tools"
    BY <2>3, <2>4
  <2>6. s[4] = "evaluate" /\ s[5] = last /\ s[6] = "exit"
    BY <1>8, <2>4
  <2>7. \A k \in 1 .. 3 : s[k] \notin {"evaluate", "copy", "print", "exit"}
    BY <2>5
  <2>8. Contains(s, "tools") = Asked(r).correctness
    BY <1>1, <1>5, <2>4, <2>5, <2>6 DEF Contains
  <2>9. QED BY <2>4, <2>6, <2>7, <2>8 DEF s, last
<1>6. CASE ~r.ref /\ ~Asked(r).correctness
  <2> DEFINE x == <<"download">> y == <<"config">> z == <<>>
  <2>1. x \in Seq(ScriptLines) /\ Len(x) = 1 /\ y \in Seq(ScriptLines) /\ Len(y) = 1 /\ z \in Seq(ScriptLines) /\ Len(z) = 0
    BY DEF ScriptLines
  <2>2. s = x \o y \o z \o ends
    BY <1>2, <1>6 DEF ends
  <2>3. x[1] = "download" /\ y[1] = "config"
    OBVIOUS
  <2> HIDE DEF x, y, z
  <2>4. /\ s \in Seq(ScriptLines) /\ Len(s) = 1 + 1 + 0 + 3
        /\ \A i \in 1 .. 1 : s[i] = x[i]
        /\ \A i \in 1 .. 1 : s[1 + i] = y[i]
        /\ \A i \in 1 .. 0 : s[1 + 1 + i] = z[i]
        /\ \A i \in 1 .. 3 : s[1 + 1 + 0 + i] = ends[i]
    <3>1. s = x \o y \o z \o ends
      BY <2>2
    <3>2. s \in Seq(ScriptLines) /\ Joint(s, x, y, z, ends)
      BY <1>8, <2>1, <3>1, JoinedFour
    <3>3. QED BY <1>8, <2>1, <3>2 DEF Joint
  <2>5. s[1] = "download" /\ s[2] = "config"
    BY <2>3, <2>4
  <2>6. s[3] = "evaluate" /\ s[4] = last /\ s[5] = "exit"
    BY <1>8, <2>4
  <2>7. \A k \in 1 .. 2 : s[k] \notin {"evaluate", "copy", "print", "exit"}
    BY <2>5
  <2>e. \A i \in 1 .. Len(s) : s[i] # "tools"
    BY <1>1, <2>4, <2>5, <2>6
  <2>8. Contains(s, "tools") = Asked(r).correctness
    BY <1>6, <2>e DEF Contains
  <2>9. QED BY <2>4, <2>6, <2>7, <2>8 DEF s, last
<1>7. QED BY <1>3, <1>4, <1>5, <1>6

\* Under set -e the first line that fails ends the job.
LEMMA SetsUp ==
  ASSUME NEW script \in Seq(ScriptLines), NEW fails, NEW code, NEW run, Running(run, script, fails, code),
         NEW m \in Nat, m <= Len(script),
         \A k \in 1 .. m : script[k] \notin {"evaluate", "copy", "print", "exit"}
  PROVE  run[m] = IF \E k \in 1 .. m : script[k] \in fails THEN [Starting EXCEPT !.exit = 1] ELSE Starting
<1> DEFINE broken(k) == \E l \in 1 .. k : script[l] \in fails
           T == {k \in Nat : k <= m => run[k] = IF broken(k) THEN [Starting EXCEPT !.exit = 1] ELSE Starting}
<1>1. 0 \in T
  BY DEF Running
<1>2. ASSUME NEW k \in Nat, k \in T, k + 1 <= m
      PROVE  run[k + 1] = IF broken(k + 1) THEN [Starting EXCEPT !.exit = 1] ELSE Starting
  <2>1. k < Len(script) /\ k + 1 \in 1 .. m /\ Len(script) \in Nat
    BY <1>2
  <2>2. run[k + 1] = ScriptLine(run[k], script[k + 1], fails, code)
    BY <2>1 DEF Running
  <2>3. run[k] = IF broken(k) THEN [Starting EXCEPT !.exit = 1] ELSE Starting
    BY <1>2
  <2>4. broken(k + 1) <=> broken(k) \/ script[k + 1] \in fails
    BY <2>1
  <2>5. script[k + 1] \notin {"evaluate", "copy", "print", "exit"}
    BY <2>1
  <2> HIDE DEF broken, T
  <2>6. CASE broken(k)
    <3>1. run[k].exit = 1 /\ run[k].exit # Absent
      BY <2>3, <2>6, JobsAssumption DEF Starting
    <3>2. QED BY <2>2, <2>3, <2>4, <2>6, <3>1 DEF ScriptLine
  <2>7. CASE ~broken(k)
    <3>1. run[k] = Starting /\ run[k].exit = Absent
      BY <2>3, <2>7 DEF Starting
    <3>2. run[k + 1] = [Starting EXCEPT !.exit = IF script[k + 1] \in fails THEN 1 ELSE Absent]
      BY <2>2, <2>5, <3>1 DEF ScriptLine
    <3>3. [Starting EXCEPT !.exit = Absent] = Starting
      <4>1. Starting \in JobStates /\ Starting.exit = Absent
        BY DEF Starting, JobStates
      <4>2. QED BY <4>1 DEF JobStates
    <3>4. QED BY <2>4, <2>7, <3>2, <3>3
  <2>8. QED BY <2>6, <2>7
<1>3. m \in T
  <2>1. \A k \in Nat : k \in T => k + 1 \in T
    <3> SUFFICES ASSUME NEW k \in Nat, k \in T PROVE k + 1 \in T
      OBVIOUS
    <3>1. CASE k + 1 <= m
      BY <1>2, <3>1
    <3>2. CASE ~(k + 1 <= m)
      BY <3>2
    <3>3. QED BY <3>1, <3>2
  <2> HIDE DEF T
  <2>2. QED BY <1>1, <2>1, SetInduction
<1>4. QED BY <1>3

\* How a job ends.
LEMMA JobEnds ==
  ASSUME NEW Words, NEW r \in Asking(Words), Asked(r).correctness \in BOOLEAN, NEW fails \in Failing, NEW code \in Nat
  PROVE  LET end == JobRuns(Job(r), fails, code)
             script == Script(r)
         IN  \E broken \in BOOLEAN :
               /\ ~broken <=> fails \cap ToSet(script) \subseteq {"copy", "print"}
               /\ Last3(r) \in ToSet(script) /\ ({"copy", "print"} \ {Last3(r)}) \cap ToSet(script) = {}
               /\ end.evaluated = ~broken
               /\ end.exit = IF broken THEN 1
                             ELSE IF Last3(r) = "copy" /\ "copy" \in fails /\ code = 0 THEN 1 ELSE code
               /\ end.delivered = (~broken /\ Last3(r) \notin fails)
<1> DEFINE script == Script(r)
           end == JobRuns(Job(r), fails, code)
<1>1. script \in Seq(ScriptLines) /\ Job(r).script = script
  BY ScriptIs DEF Job
<1>2. PICK m \in Nat :
        /\ Len(script) = m + 3
        /\ \A k \in 1 .. m : script[k] \notin {"evaluate", "copy", "print", "exit"}
        /\ script[m + 1] = "evaluate" /\ script[m + 2] = Last3(r) /\ script[m + 3] = "exit"
  BY ScriptIs
<1>3. PICK run : Running(run, script, fails, code) /\ end = run[Len(script)]
  BY <1>1, JobIs
<1> HIDE DEF script, end
<1> DEFINE broken == \E k \in 1 .. m : script[k] \in fails
<1>4. run[m] = IF broken THEN [Starting EXCEPT !.exit = 1] ELSE Starting
  BY <1>1, <1>2, <1>3, SetsUp
<1>5. ToSet(script) = {script[k] : k \in 1 .. m} \cup {"evaluate", Last3(r), "exit"}
  <2>1. DOMAIN script = 1 .. (m + 3)
    BY <1>1, <1>2
  <2>2. 1 .. (m + 3) = 1 .. m \cup {m + 1, m + 2, m + 3}
    OBVIOUS
  <2>3. ToSet(script) = {script[k] : k \in 1 .. (m + 3)}
    BY <2>1 DEF ToSet
  <2>4. QED BY <1>2, <2>2, <2>3
<1>6. Last3(r) \in {"copy", "print"}
  BY DEF Last3
<1>7. ~broken <=> fails \cap ToSet(script) \subseteq {"copy", "print"}
  BY <1>2, <1>5, <1>6 DEF Failing
<1>8. Last3(r) \in ToSet(script) /\ ({"copy", "print"} \ {Last3(r)}) \cap ToSet(script) = {}
  BY <1>2, <1>5, <1>6
<1>9. /\ run[m + 1] = ScriptLine(run[m], "evaluate", fails, code)
      /\ run[m + 2] = ScriptLine(run[m + 1], Last3(r), fails, code)
      /\ end = ScriptLine(run[m + 2], "exit", fails, code)
  <2>1. m < Len(script) /\ m + 1 < Len(script) /\ m + 2 < Len(script)
        /\ m + 1 \in Nat /\ m + 2 \in Nat /\ m + 1 + 1 = m + 2 /\ m + 2 + 1 = m + 3
    BY <1>2
  <2>2. \A k \in Nat : k < Len(script) => run[k + 1] = ScriptLine(run[k], script[k + 1], fails, code)
    BY <1>3 DEF Running
  <2>3. run[m + 1] = ScriptLine(run[m], script[m + 1], fails, code)
    BY <2>1, <2>2
  <2>4. run[m + 2] = ScriptLine(run[m + 1], script[m + 2], fails, code)
    BY <2>1, <2>2
  <2>5. run[m + 3] = ScriptLine(run[m + 2], script[m + 3], fails, code)
    BY <2>1, <2>2
  <2>6. QED BY <1>2, <1>3, <2>3, <2>4, <2>5
<1> HIDE DEF broken
<1>10. CASE broken
  <2>1. run[m] = [Starting EXCEPT !.exit = 1] /\ run[m].exit # Absent
    BY <1>4, <1>10, JobsAssumption DEF Starting
  <2>2. end = run[m]
    BY <1>9, <2>1 DEF ScriptLine
  <2>3. end.exit = 1 /\ end.evaluated = FALSE /\ end.delivered = FALSE
    BY <2>1, <2>2 DEF Starting
  <2>4. QED BY <1>7, <1>8, <1>10, <2>3 DEF script, end
<1>11. CASE ~broken
  <2>1. run[m] = Starting
    BY <1>4, <1>11
  <2>a. Starting \in JobStates /\ Starting.exit = Absent /\ Starting.delivered = FALSE
    BY DEF Starting, JobStates
  <2>b. run[m + 1] = [[Starting EXCEPT !.evaluated = TRUE] EXCEPT !.rc = code]
    BY <1>9, <2>1, <2>a DEF ScriptLine, Evaluated
  <2>2. /\ run[m + 1] \in JobStates /\ run[m + 1].exit = Absent /\ run[m + 1].rc = code
        /\ run[m + 1].evaluated = TRUE /\ run[m + 1].delivered = FALSE
    BY <2>a, <2>b DEF JobStates
  <2>3. /\ run[m + 2] \in JobStates /\ run[m + 2].exit = Absent
        /\ run[m + 2].rc = IF Last3(r) = "copy" /\ "copy" \in fails /\ code = 0 THEN 1 ELSE code
        /\ run[m + 2].evaluated = TRUE /\ run[m + 2].delivered = (Last3(r) \notin fails)
    <3>1. CASE Last3(r) = "copy"
      <4>1. run[m + 2] = IF "copy" \in fails THEN [run[m + 1] EXCEPT !.rc = IF @ = 0 THEN 1 ELSE @]
                         ELSE [run[m + 1] EXCEPT !.delivered = TRUE]
        BY <1>9, <2>2, <3>1 DEF ScriptLine
      <4>2. CASE "copy" \in fails
        <5>1. run[m + 2] = [run[m + 1] EXCEPT !.rc = IF run[m + 1].rc = 0 THEN 1 ELSE run[m + 1].rc]
          BY <4>1, <4>2
        <5>2. QED BY <2>2, <3>1, <4>2, <5>1 DEF JobStates
      <4>3. CASE "copy" \notin fails
        BY <2>2, <3>1, <4>1, <4>3 DEF JobStates
      <4>4. QED BY <4>2, <4>3
    <3>2. CASE Last3(r) = "print"
      <4>1. run[m + 2] = [run[m + 1] EXCEPT !.delivered = "print" \notin fails]
        BY <1>9, <2>2, <3>2 DEF ScriptLine
      <4>2. QED BY <2>2, <3>2, <4>1 DEF JobStates
    <3>3. QED BY <1>6, <3>1, <3>2
  <2>4. end = [run[m + 2] EXCEPT !.exit = run[m + 2].rc]
    BY <1>9, <2>3 DEF ScriptLine
  <2>5. /\ end.exit = IF Last3(r) = "copy" /\ "copy" \in fails /\ code = 0 THEN 1 ELSE code
        /\ end.evaluated = TRUE /\ end.delivered = (Last3(r) \notin fails)
    BY <2>3, <2>4 DEF JobStates
  <2>6. QED BY <1>7, <1>8, <1>11, <2>5 DEF script, end
<1>12. QED BY <1>10, <1>11

\* A job whose image stands whole on its command line evaluates what was asked for
\* here, once, after everything it rests on, and ends as the evaluation did: for all
\* configurations, and whichever lines fail.
THEOREM JobsAreAsAsked ==
  ASSUME NEW Words, NEW r \in Asking(Words), NEW fails \in Failing, NEW code \in Nat
  PROVE  JobDoesWhatWasAsked(r, fails, code)
<1> DEFINE job == Job(r)
           end == JobRuns(job, fails, code)
           inJob == Input(r.file, Forwarded(r))
           script == Script(r)
<1>1. SUFFICES ASSUME Submittable(r), EntersWhole(r)
               PROVE  /\ Valid(inJob) /\ Normalize(inJob) = Asked(r) /\ job.image = Normalize(inJob).image
                      /\ Contains(script, "tools") = Asked(r).correctness
                      /\ end.exit = 0 <=> code = 0 /\ fails \cap ToSet(script) \subseteq {"print"}
                      /\ end.evaluated /\ code # 0 => end.exit = code
                      /\ end.delivered = (end.evaluated /\ fails \cap {"copy", "print"} \cap ToSet(script) = {})
                      /\ r.bucket # Absent /\ end.exit = 0 => end.delivered
  <2>1. job.script = script /\ job.file = r.file /\ job.forwarded = Forwarded(r)
    BY DEF Job
  <2>2. ASSUME NEW i \in DOMAIN Submission(r) PROVE Submittable(r) /\ Submission(r)[i] = job
    BY <2>2 DEF Submission
  <2> HIDE DEF end, job
  <2>3. QED BY <2>1, <2>2 DEF JobDoesWhatWasAsked, end
<1>2. Valid(inJob) /\ Normalize(inJob) = Asked(r) /\ Asked(r).correctness \in BOOLEAN
  BY <1>1, GivenAsAsked
<1>3. job.image = Asked(r).image
  BY DEF Job
<1>4. Contains(script, "tools") = Asked(r).correctness
  BY <1>2, ScriptIs
<1>5. PICK broken \in BOOLEAN :
               /\ ~broken <=> fails \cap ToSet(script) \subseteq {"copy", "print"}
               /\ Last3(r) \in ToSet(script) /\ ({"copy", "print"} \ {Last3(r)}) \cap ToSet(script) = {}
               /\ end.evaluated = ~broken
               /\ end.exit = IF broken THEN 1
                             ELSE IF Last3(r) = "copy" /\ "copy" \in fails /\ code = 0 THEN 1 ELSE code
               /\ end.delivered = (~broken /\ Last3(r) \notin fails)
  BY <1>2, JobEnds
<1> HIDE DEF end, job, inJob, script
<1>6. Last3(r) = IF r.bucket # Absent THEN "copy" ELSE "print"
  BY DEF Last3
<1>7. fails \cap {"copy", "print"} \cap ToSet(script) = {} <=> Last3(r) \notin fails
  BY <1>5, <1>6
<1>8. fails \cap ToSet(script) \subseteq {"print"}
        <=> ~broken /\ ~(Last3(r) = "copy" /\ "copy" \in fails)
  BY <1>5, <1>6
<1>9. end.exit = 0 <=> code = 0 /\ fails \cap ToSet(script) \subseteq {"print"}
  BY <1>5, <1>8
<1>10. end.evaluated /\ code # 0 => end.exit = code
  BY <1>5
<1>11. end.delivered = (end.evaluated /\ fails \cap {"copy", "print"} \cap ToSet(script) = {})
  BY <1>5, <1>7
<1>12. r.bucket # Absent /\ end.exit = 0 => end.delivered
  <2>1. ASSUME r.bucket # Absent, end.exit = 0 PROVE ~broken /\ Last3(r) \notin fails
    <3>1. Last3(r) = "copy"
      BY <1>6, <2>1
    <3>2. ~broken
      BY <1>5, <2>1
    <3>3. "copy" \notin fails
      BY <1>5, <2>1, <3>1, <3>2
    <3>4. QED BY <3>1, <3>2, <3>3
  <2>2. QED BY <1>5, <2>1
<1>13. QED BY <1>2, <1>3, <1>4, <1>9, <1>10, <1>11, <1>12
-------------------------------------------------------------------------------
(* What both summaries of a run show                                         *)

\* The first of n trials, and the best one behind them.
Shows(seq, n, max, best) ==
    seq = [i \in 1 .. (IF n <= max THEN n ELSE max) + (IF best # NoTrial /\ best >= max /\ best < n THEN 1 ELSE 0) |->
             IF i <= max THEN i - 1 ELSE best]

\* view.rs shows these,
LEMMA ViewIs ==
  ASSUME NEW report, NEW Statuses, report.trials \in Seq(Statuses),
         report.best \in {NoTrial} \cup 0 .. Len(report.trials) - 1
  PROVE  Shows(ViewTrials(report), Len(report.trials), MaxSummaries, report.best)
<1> DEFINE s == Positions(report)
           n == Len(report.trials)
           best == report.best
           V == Seq(Nat)
           Next1(v, p) == IF p < MaxSummaries \/ p = best THEN Append(v, p) ELSE v
           H == CHOOSE h : h = [t \in SUBSET DOMAIN s |->
                  IF t = {} THEN <<>> ELSE Next1(h[t \ {Max(t)}], s[Max(t)])]
           step == [x \in V \X (1 .. n) |-> Next1(x[1], s[x[2]])]
<1>1. n \in Nat /\ DOMAIN s = 1 .. n /\ \A i \in 1 .. n : s[i] = i - 1 /\ s[i] \in Nat
  BY DEF Positions
<1>2. ViewTrials(report) = H[DOMAIN s]
  BY DEF ViewTrials, FoldLeft, MapThenFoldSet
<1>3. <<>> \in V
  OBVIOUS
<1>4. step \in [V \X (1 .. n) -> V]
  BY <1>1
<1>5. PICK h : Folds(h, n, V, <<>>, step)
  <2> HIDE DEF step, n, V
  <2>1. QED BY <1>1, <1>3, <1>4, FoldRecursion
<1>6. h = [t \in SUBSET DOMAIN s |-> IF t = {} THEN <<>> ELSE Next1(h[t \ {Max(t)}], s[Max(t)])]
  <2> HIDE DEF n, s, Next1, V
  <2>1. ASSUME NEW t \in SUBSET (1 .. n), t # {}
        PROVE  step[<<h[t \ {Max(t)}], Max(t)>>] = Next1(h[t \ {Max(t)}], s[Max(t)])
    <3>1. Max(t) \in 1 .. n
      BY <1>1, <2>1, GreatestUpTo
    <3>2. h[t \ {Max(t)}] \in V
      BY <1>5, <2>1 DEF Folds
    <3>3. QED BY <3>1, <3>2
  <2> HIDE DEF step
  <2>2. QED BY <1>1, <1>5, <2>1 DEF Folds
<1>7. H = [t \in SUBSET DOMAIN s |-> IF t = {} THEN <<>> ELSE Next1(H[t \ {Max(t)}], s[Max(t)])]
  <2> HIDE DEF s, Next1
  <2>1. QED BY <1>6
<1> HIDE DEF H, step, s, n, V
<1>8. H[1 .. 0] = <<>>
  <2>1. 1 .. 0 = {} /\ {} \in SUBSET DOMAIN s
    OBVIOUS
  <2>2. QED BY <1>7, <2>1
<1>9. ASSUME NEW k \in Nat, k < n PROVE H[1 .. (k + 1)] = Next1(H[1 .. k], k)
  <2> HIDE DEF Next1
  <2>1. 1 .. (k + 1) \in SUBSET DOMAIN s /\ s[k + 1] = k
    BY <1>1, <1>9
  <2>2. Max(1 .. (k + 1)) = k + 1 /\ (1 .. (k + 1)) \ {k + 1} = 1 .. k /\ 1 .. (k + 1) # {}
    BY UpTo
  <2>3. QED BY <1>7, <2>1, <2>2
<1> DEFINE T == {k \in Nat : k <= n => Shows(H[1 .. k], k, MaxSummaries, best)}
<1>10. 0 \in T
  <2>1. Shows(<<>>, 0, MaxSummaries, best)
    <3>1. best = NoTrial \/ ~(best < 0)
      BY <1>1 DEF n
    <3>2. QED BY <3>1, BrowserAssumption DEF Shows
  <2>2. QED BY <1>8, <2>1
<1>11. ASSUME NEW k \in Nat, k \in T, k < n PROVE Shows(H[1 .. (k + 1)], k + 1, MaxSummaries, best)
  <2> DEFINE v == H[1 .. k]  w == H[1 .. (k + 1)]
             extra(m) == best # NoTrial /\ best >= MaxSummaries /\ best < m
             len(m) == (IF m <= MaxSummaries THEN m ELSE MaxSummaries) + (IF extra(m) THEN 1 ELSE 0)
  <2>0. Shows(v, k, MaxSummaries, best)
    BY <1>1, <1>11
  <2> HIDE DEF T
  <2>1. v = [i \in 1 .. len(k) |-> IF i <= MaxSummaries THEN i - 1 ELSE best]
    BY <2>0 DEF Shows
  <2>2. w = IF k < MaxSummaries \/ k = best THEN Append(v, k) ELSE v
    BY <1>9, <1>11
  <2> HIDE DEF v, w
  <2>3. MaxSummaries \in Nat /\ (best \in Nat \/ best = NoTrial) /\ NoTrial \notin Nat
    BY <1>1, BrowserAssumption DEF n
  <2>4. Len(v) = len(k) /\ len(k) \in Nat
    BY <2>1, <2>3
  <2>5. CASE k < MaxSummaries
    <3>1. len(k) = k /\ len(k + 1) = k + 1
      BY <2>3, <2>5
    <3>a. v = [i \in 1 .. k |-> i - 1]
      BY <2>1, <2>3, <2>5, <3>1
    <3>b. w = Append(v, k) /\ v \in Seq(Int) /\ Len(v) = k
      BY <2>2, <2>5, <3>a
    <3> DEFINE x == [i \in 1 .. k + 1 |-> i - 1]
    <3>c. w \in Seq(Int) /\ Len(w) = k + 1 /\ w[k + 1] = k /\ \A i \in 1 .. k : w[i] = v[i]
      BY <3>b
    <3>d. x \in Seq(Int) /\ Len(x) = k + 1 /\ x[k + 1] = k /\ \A i \in 1 .. k : x[i] = v[i]
      BY <3>a
    <3> HIDE DEF x
    <3>e. \A i \in 1 .. Len(w) : i = k + 1 \/ i \in 1 .. k
      BY <3>c
    <3>f. w = x
      BY <3>c, <3>d, <3>e, SeqEqual
    <3>2. w = [i \in 1 .. k + 1 |-> i - 1]
      BY <3>f DEF x
    <3>3. \A i \in 1 .. k + 1 : i <= MaxSummaries
      BY <2>3, <2>5
    <3> HIDE DEF len
    <3>4. w = [i \in 1 .. len(k + 1) |-> IF i <= MaxSummaries THEN i - 1 ELSE best]
      BY <3>1, <3>2, <3>3
    <3>5. QED BY <3>4 DEF Shows, w, len
  <2>6. CASE k >= MaxSummaries /\ k = best
    <3>1. len(k) = MaxSummaries /\ len(k + 1) = MaxSummaries + 1
      BY <2>3, <2>6
    <3>2. w = Append(v, best) /\ Len(v) = MaxSummaries
      BY <2>2, <2>4, <2>6, <3>1
    <3>3. v = [i \in 1 .. MaxSummaries |-> i - 1]
      BY <2>1, <3>1, <2>3
    <3> HIDE DEF len
    <3>4. w = [i \in 1 .. len(k + 1) |-> IF i <= MaxSummaries THEN i - 1 ELSE best]
      BY <2>3, <3>1, <3>2, <3>3
    <3>5. QED BY <3>4 DEF Shows, w, len
  <2>7. CASE k >= MaxSummaries /\ k # best
    <3>1. w = v
      BY <2>2, <2>3, <2>7
    <3>2. len(k + 1) = len(k)
      BY <2>3, <2>7
    <3> HIDE DEF len
    <3>3. w = [i \in 1 .. len(k + 1) |-> IF i <= MaxSummaries THEN i - 1 ELSE best]
      BY <2>1, <3>1, <3>2
    <3>4. QED BY <3>3 DEF Shows, w, len
  <2>8. QED BY <2>3, <2>5, <2>6, <2>7
<1>12. n \in T
  <2>1. \A k \in Nat : k \in T => k + 1 \in T
    <3> SUFFICES ASSUME NEW k \in Nat, k \in T PROVE k + 1 \in T
      OBVIOUS
    <3>1. CASE k < n
      BY <1>11, <3>1
    <3>2. CASE ~(k < n)
      BY <1>1, <3>2
    <3>3. QED BY <3>1, <3>2
  <2> HIDE DEF T
  <2>2. QED BY <1>1, <1>10, <2>1, SetInduction
<1>13. Shows(H[1 .. n], n, MaxSummaries, best)
  BY <1>1, <1>12
<1>14. QED BY <1>1, <1>2, <1>13 DEF n

\* and so does the summary of the MCP server.
LEMMA SummaryIs ==
  ASSUME NEW report, NEW Statuses, report.trials \in Seq(Statuses),
         report.best \in {NoTrial} \cup 0 .. Len(report.trials) - 1
  PROVE  Shows(SummaryTrials(report), Len(report.trials), MaxSummaries, report.best)
<1> DEFINE n == Len(report.trials)
           best == report.best
           m == IF n <= MaxSummaries THEN n ELSE MaxSummaries
           extra == best # NoTrial /\ best >= MaxSummaries /\ best < n
           head == Taken(MaxSummaries, Positions(report))
<1>1. n \in Nat /\ MaxSummaries \in Nat /\ m \in Nat /\ m <= n /\ m <= MaxSummaries
  BY BrowserAssumption
<1>2. Positions(report) \in Seq(Int) /\ Len(Positions(report)) = n /\ \A i \in 1 .. n : Positions(report)[i] = i - 1
  BY DEF Positions
<1>3. head = SubSeq(Positions(report), 1, m)
  BY <1>1, <1>2 DEF Taken
<1>4. head \in Seq(Int) /\ Len(head) = m /\ \A i \in 1 .. m : head[i] = i - 1
  BY <1>1, <1>2, <1>3
<1>5. SummaryTrials(report) = head \o (IF extra THEN <<best>> ELSE <<>>)
  BY DEF SummaryTrials
<1> HIDE DEF head
<1>6. CASE ~extra
  <2>1. SummaryTrials(report) = head
    BY <1>4, <1>5, <1>6
  <2>2. head = [i \in 1 .. m + 0 |-> IF i <= MaxSummaries THEN i - 1 ELSE best]
    BY <1>1, <1>4
  <2>3. QED BY <1>6, <2>1, <2>2 DEF Shows
<1>7. CASE extra
  <2>1. SummaryTrials(report) = head \o <<best>> /\ best \in Int /\ m = MaxSummaries
    BY <1>1, <1>5, <1>7
  <2>2. PICK w : w = head \o <<best>>
    OBVIOUS
  <2>3. w \in Seq(Int) /\ Len(w) = m + 1 /\ (\A i \in 1 .. m : w[i] = head[i]) /\ w[m + 1] = best
    BY <1>4, <2>1, <2>2
  <2> DEFINE x == [i \in 1 .. m + 1 |-> IF i <= MaxSummaries THEN i - 1 ELSE best]
  <2>a. x \in Seq(Int) /\ Len(x) = m + 1 /\ x[m + 1] = best /\ \A i \in 1 .. m : x[i] = i - 1
    BY <1>1, <2>1
  <2> HIDE DEF x
  <2>b. \A i \in 1 .. Len(w) : i = m + 1 \/ i \in 1 .. m
    BY <1>1, <2>3
  <2>d. Len(w) = Len(x) /\ \A i \in 1 .. Len(w) : w[i] = x[i]
    BY <1>4, <2>3, <2>a, <2>b
  <2>c. w = x
    BY <2>3, <2>a, <2>d, SeqEqual
  <2>4. w = [i \in 1 .. m + 1 |-> IF i <= MaxSummaries THEN i - 1 ELSE best]
    BY <2>c DEF x
  <2>5. QED BY <1>7, <2>1, <2>2, <2>4 DEF Shows
<1>8. QED BY <1>6, <1>7

\* The winner of a run is among the trials both summaries show, however many trials
\* it has and however few are shown.
THEOREM WinnersStayListed ==
  ASSUME NEW report, NEW Statuses, report.trials \in Seq(Statuses),
         report.best \in {NoTrial} \cup 0 .. Len(report.trials) - 1
  PROVE  WinnerStaysListed(report)
<1> DEFINE shown == SummaryTrials(report)
           n == Len(report.trials)
           best == report.best
           m == IF n <= MaxSummaries THEN n ELSE MaxSummaries
           extra == best # NoTrial /\ best >= MaxSummaries /\ best < n
           len == m + IF extra THEN 1 ELSE 0
<1>1. shown = [i \in 1 .. len |-> IF i <= MaxSummaries THEN i - 1 ELSE best]
  <2>1. Shows(shown, n, MaxSummaries, best)
    BY SummaryIs
  <2> HIDE DEF shown
  <2>2. QED BY <2>1 DEF Shows
<1>2. shown = ViewTrials(report)
  BY SummaryIs, ViewIs DEF Shows
<1> HIDE DEF shown
<1>a. /\ n \in Nat /\ MaxSummaries \in Nat
      /\ best = NoTrial \/ (best \in Nat /\ best < n)
      /\ best = NoTrial => best \notin Nat
  BY BrowserAssumption
<1> HIDE DEF n, best
<1>b. /\ m \in Nat /\ m <= n /\ m <= MaxSummaries /\ (m = n \/ m = MaxSummaries)
      /\ len = m \/ len = m + 1
      /\ extra => len = m + 1 /\ m = MaxSummaries /\ best >= MaxSummaries /\ best \in Nat /\ best < n
      /\ ~extra => len = m /\ (best = NoTrial \/ best < m)
  BY <1>a
<1> HIDE DEF m, len, extra
<1>3. /\ n \in Nat /\ MaxSummaries \in Nat /\ m \in Nat /\ len \in Nat
      /\ m <= n /\ m <= MaxSummaries /\ (m = n \/ m = MaxSummaries)
      /\ best = NoTrial \/ (best \in Nat /\ best < n)
      /\ extra => len = m + 1 /\ m = MaxSummaries /\ best >= MaxSummaries /\ best \in Nat /\ best < n
      /\ ~extra => len = m /\ (best = NoTrial \/ best < m)
  BY <1>a, <1>b
<1>4. DOMAIN shown = 1 .. len /\ Len(shown) = len
  BY <1>1, <1>3
<1>5. ToSet(shown) = {shown[i] : i \in 1 .. len}
  BY <1>4 DEF ToSet
<1>6. best # NoTrial => best \in ToSet(shown)
  <2>1. CASE extra
    <3>1. len = m + 1 /\ len \in 1 .. len /\ shown[len] = best
      BY <1>1, <1>3, <2>1
    <3>2. QED BY <1>5, <3>1
  <2>2. CASE ~extra /\ best # NoTrial
    <3>1. best + 1 \in 1 .. len /\ best + 1 <= MaxSummaries
      BY <1>3, <2>2
    <3>2. shown[best + 1] = best
      BY <1>1, <1>3, <2>2, <3>1
    <3>3. QED BY <1>5, <3>1, <3>2
  <2>3. QED BY <2>1, <2>2
<1>7. Cardinality(ToSet(shown)) = len
  <2>1. \A i, j \in 1 .. len : shown[i] = shown[j] => i = j
    <3>1. \A i \in 1 .. len : i > MaxSummaries => extra /\ i = m + 1
      BY <1>3
    <3>2. \A i \in 1 .. len : (i <= MaxSummaries => shown[i] = i - 1) /\ (i > MaxSummaries => shown[i] = best)
      <4>1. \A i \in 1 .. len : shown[i] = IF i <= MaxSummaries THEN i - 1 ELSE best
        BY <1>1
      <4>2. \A i \in 1 .. len : i > MaxSummaries => ~(i <= MaxSummaries)
        BY <1>3
      <4>3. QED BY <4>1, <4>2
    <3>3. QED BY <1>3, <3>1, <3>2
  <2>2. shown \in Bijection(1 .. len, ToSet(shown))
    <3> HIDE DEF len
    <3>1. shown \in [1 .. len -> ToSet(shown)]
      BY <1>1, <1>5
    <3>2. QED BY <3>1, <2>1, <1>5 DEF Bijection, Injection, Surjection, IsInjective
  <2>3. Cardinality(1 .. len) = len /\ IsFiniteSet(1 .. len)
    <3>1. Cardinality(1 .. len) = IF 1 > len THEN 0 ELSE len - 1 + 1
      BY <1>3, FS_Interval
    <3>2. IsFiniteSet(1 .. len)
      BY <1>3, FS_Interval
    <3>3. QED BY <1>3, <3>1, <3>2
  <2> HIDE DEF len
  <2>4. QED BY <2>2, <2>3, FS_Bijection DEF ExistsBijection
<1>8. Len(shown) < n => Truncated(report)
  <2>1. len < n => n > MaxSummaries
    BY <1>3
  <2>2. QED BY <1>4, <2>1 DEF Truncated, n
<1>9. QED BY <1>2, <1>4, <1>6, <1>7, <1>8 DEF WinnerStaysListed, shown, n, best
-------------------------------------------------------------------------------
(* Sorted sequences                                                          *)

\* f enumerates S in the order R.
Sorts(f, m, S, R) ==
  /\ f \in [1 .. m -> S]
  /\ \A s \in S : \E k \in 1 .. m : f[k] = s
  /\ \A k, l \in 1 .. m : k < l => <<f[k], f[l]>> \in R

\* R orders all of E.
TotalOrder(E, R) ==
  /\ \A x, y \in E : x # y => <<x, y>> \in R \/ <<y, x>> \in R
  /\ \A x, y, z \in E : <<x, y>> \in R /\ <<y, z>> \in R => <<x, z>> \in R

\* A finite set has a last member in a total order,
LEMMA LastOfSet ==
  ASSUME NEW E, NEW R, TotalOrder(E, R)
  PROVE  \A m \in Nat : \A S \in SUBSET E : IsFiniteSet(S) /\ Cardinality(S) = m + 1 =>
           \E x \in S : \A y \in S \ {x} : <<y, x>> \in R
<1> DEFINE T == {m \in Nat : \A S \in SUBSET E : IsFiniteSet(S) /\ Cardinality(S) = m + 1 =>
                               \E x \in S : \A y \in S \ {x} : <<y, x>> \in R}
<1>1. 0 \in T
  <2>1. ASSUME NEW S \in SUBSET E, IsFiniteSet(S), Cardinality(S) = 0 + 1
        PROVE  \E x \in S : \A y \in S \ {x} : <<y, x>> \in R
    <3>1. PICK x : S = {x}
      BY <2>1, FS_Singleton
    <3>2. QED BY <3>1
  <2>2. QED BY <2>1
<1>2. ASSUME NEW m \in Nat, m \in T PROVE m + 1 \in T
  <2>1. ASSUME NEW S \in SUBSET E, IsFiniteSet(S), Cardinality(S) = m + 1 + 1
        PROVE  \E x \in S : \A y \in S \ {x} : <<y, x>> \in R
    <3>1. S # {}
      <4>1. Cardinality(S) # 0
        BY <2>1
      <4>2. QED BY <2>1, <4>1, FS_EmptySet
    <3>2. PICK e \in S : TRUE
      BY <3>1
    <3>3. IsFiniteSet(S \ {e}) /\ Cardinality(S \ {e}) = m + 1
      <4>1. IsFiniteSet(S \ {e}) /\ Cardinality(S \ {e}) = Cardinality(S) - 1
        BY <2>1, <3>2, FS_RemoveElement
      <4>2. QED BY <2>1, <4>1
    <3>4. PICK x \in S \ {e} : \A y \in (S \ {e}) \ {x} : <<y, x>> \in R
      BY <1>2, <3>3
    <3>5. CASE <<x, e>> \in R
      <4>1. ASSUME NEW y \in S \ {e} PROVE <<y, e>> \in R
        <5>1. CASE y = x
          BY <3>5, <5>1
        <5>2. CASE y # x
          <6>1. <<y, x>> \in R /\ y \in E /\ x \in E /\ e \in E
            BY <3>2, <3>4, <5>2
          <6>2. QED BY <6>1, <3>5 DEF TotalOrder
        <5>3. QED BY <5>1, <5>2
      <4>2. QED BY <3>2, <4>1
    <3>6. CASE <<x, e>> \notin R
      <4>1. <<e, x>> \in R
        BY <3>2, <3>4, <3>6 DEF TotalOrder
      <4>2. QED BY <3>4, <4>1
    <3>7. QED BY <3>5, <3>6
  <2>2. QED BY <2>1
<1>3. \A m \in Nat : m \in T
  <2> HIDE DEF T
  <2>1. QED BY <1>1, <1>2, SetInduction
<1>4. QED BY <1>3

\* and can be sorted by it.
LEMMA SortingWorks ==
  ASSUME NEW E, NEW R, TotalOrder(E, R)
  PROVE  \A m \in Nat : \A S \in SUBSET E : IsFiniteSet(S) /\ Cardinality(S) = m => \E f : Sorts(f, m, S, R)
<1> DEFINE T == {m \in Nat : \A S \in SUBSET E : IsFiniteSet(S) /\ Cardinality(S) = m => \E f : Sorts(f, m, S, R)}
<1>1. 0 \in T
  <2>1. ASSUME NEW S \in SUBSET E, IsFiniteSet(S), Cardinality(S) = 0 PROVE \E f : Sorts(f, 0, S, R)
    <3>1. S = {}
      BY <2>1, FS_EmptySet
    <3>2. Sorts(<< >>, 0, {}, R)
      BY DEF Sorts
    <3>3. QED BY <3>1, <3>2
  <2>2. QED BY <2>1
<1>2. ASSUME NEW m \in Nat, m \in T PROVE m + 1 \in T
  <2>1. ASSUME NEW S \in SUBSET E, IsFiniteSet(S), Cardinality(S) = m + 1 PROVE \E f : Sorts(f, m + 1, S, R)
    <3>1. PICK x \in S : \A y \in S \ {x} : <<y, x>> \in R
      BY <2>1, LastOfSet
    <3>2. IsFiniteSet(S \ {x}) /\ Cardinality(S \ {x}) = m
      <4>1. IsFiniteSet(S \ {x}) /\ Cardinality(S \ {x}) = Cardinality(S) - 1
        BY <2>1, <3>1, FS_RemoveElement
      <4>2. QED BY <2>1, <4>1
    <3>3. PICK f : Sorts(f, m, S \ {x}, R)
      BY <1>2, <3>2
    <3> DEFINE g == [k \in 1..(m + 1) |-> IF k = m + 1 THEN x ELSE f[k]]
    <3>4. \A k \in 1..(m + 1) : k # m + 1 => k \in 1..m
      OBVIOUS
    <3>5. g \in [1..(m + 1) -> S]
      BY <3>3, <3>4 DEF Sorts
    <3>6. g[m + 1] = x /\ m + 1 \in 1..(m + 1) /\ \A k \in 1..m : k \in 1..(m + 1) /\ g[k] = f[k]
      OBVIOUS
    <3> HIDE DEF g
    <3>7. \A s \in S : \E k \in 1..(m + 1) : g[k] = s
      BY <3>3, <3>6 DEF Sorts
    <3>8. ASSUME NEW k \in 1..(m + 1), NEW l \in 1..(m + 1), k < l PROVE <<g[k], g[l]>> \in R
      <4>1. k \in 1..m /\ g[k] = f[k] /\ f[k] \in S \ {x}
        BY <3>3, <3>4, <3>6, <3>8 DEF Sorts
      <4>2. CASE l = m + 1
        BY <4>1, <4>2, <3>1, <3>6
      <4>3. CASE l # m + 1
        <5>1. l \in 1..m /\ g[l] = f[l]
          BY <4>3, <3>4, <3>6
        <5>2. QED BY <4>1, <5>1, <3>3, <3>8 DEF Sorts
      <4>4. QED BY <4>2, <4>3
    <3>9. QED BY <3>5, <3>7, <3>8 DEF Sorts
  <2>2. QED BY <2>1
<1>3. \A m \in Nat : m \in T
  <2> HIDE DEF T
  <2>1. QED BY <1>1, <1>2, SetInduction
<1>4. QED BY <1>3
-------------------------------------------------------------------------------
(* Who is best                                                              *)

\* What is observed of a trial.
Observed == [id : Int, status : {"Passed", "None", "Failed"}, value : Int \cup {NoValue}]

\* The ranks of the correctness verdicts.
LEMMA RankIs ==
  ASSUME NEW o \in Observed
  PROVE  /\ CorrectnessRank(o.status) \in 0 .. 2
         /\ CorrectnessRank(o.status) = 0 <=> o.status = "Failed"
         /\ CorrectnessRank(o.status) = 1 <=> o.status = "None"
         /\ CorrectnessRank(o.status) = 2 <=> o.status = "Passed"
BY DEF CorrectnessRank, Observed

\* is_better, by rank and then by value.
LEMMA BetterIs ==
  ASSUME NEW lower, NEW l \in Observed, NEW r \in Observed
  PROVE  Better(lower, l, r) <=>
           \/ CorrectnessRank(l.status) > CorrectnessRank(r.status)
           \/ /\ CorrectnessRank(l.status) = CorrectnessRank(r.status)
              /\ l.value # NoValue
              /\ r.value # NoValue => IF lower THEN l.value < r.value ELSE l.value > r.value
<1>1. l.status = r.status <=> CorrectnessRank(l.status) = CorrectnessRank(r.status)
  <2>1. l.status \in {"Passed", "None", "Failed"} /\ r.status \in {"Passed", "None", "Failed"}
    BY DEF Observed
  <2>2. QED BY <2>1, RankIs
<1>2. QED BY <1>1 DEF Better

\* Of three, the first is not better than the last where it is not better than
\* the second, nor the second than the last.
LEMMA BetterOrders ==
  ASSUME NEW lower \in BOOLEAN, NEW l \in Observed, NEW m \in Observed, NEW r \in Observed
  PROVE  /\ ~Better(lower, l, l)
         /\ Better(lower, l, r) => ~Better(lower, r, l)
         /\ Better(lower, l, m) /\ Better(lower, m, r) => Better(lower, l, r)
         /\ ~Better(lower, l, m) /\ ~Better(lower, m, r) => ~Better(lower, l, r)
<1> DEFINE a == CorrectnessRank(l.status)  b == CorrectnessRank(m.status)  c == CorrectnessRank(r.status)
<1>1. a \in Nat /\ b \in Nat /\ c \in Nat
  BY RankIs
<1>2. /\ l.value # NoValue => l.value \in Int
      /\ m.value # NoValue => m.value \in Int
      /\ r.value # NoValue => r.value \in Int
  BY DEF Observed
<1> DEFINE B(x, p, y, q) == \/ p > q
                            \/ /\ p = q /\ x # NoValue
                               /\ y # NoValue => IF lower THEN x < y ELSE x > y
<1>3. /\ Better(lower, l, l) <=> B(l.value, a, l.value, a)
      /\ Better(lower, l, r) <=> B(l.value, a, r.value, c)
      /\ Better(lower, r, l) <=> B(r.value, c, l.value, a)
      /\ Better(lower, l, m) <=> B(l.value, a, m.value, b)
      /\ Better(lower, m, r) <=> B(m.value, b, r.value, c)
  BY BetterIs
<1> DEFINE x == l.value  y == m.value  z == r.value
<1> HIDE DEF a, b, c, x, y, z
<1>4. /\ Better(lower, l, l) <=> B(x, a, x, a)
      /\ Better(lower, l, r) <=> B(x, a, z, c)
      /\ Better(lower, r, l) <=> B(z, c, x, a)
      /\ Better(lower, l, m) <=> B(x, a, y, b)
      /\ Better(lower, m, r) <=> B(y, b, z, c)
  BY <1>3 DEF x, y, z
<1>5. /\ x # NoValue => x \in Int
      /\ y # NoValue => y \in Int
      /\ z # NoValue => z \in Int
  BY <1>2 DEF x, y, z
<1>6. CASE lower
  <2>1. ~B(x, a, x, a)
    BY <1>1, <1>5, <1>6
  <2>2. B(x, a, z, c) => ~B(z, c, x, a)
    BY <1>1, <1>5, <1>6
  <2>3. B(x, a, y, b) /\ B(y, b, z, c) => B(x, a, z, c)
    BY <1>1, <1>5, <1>6
  <2>4. ~B(x, a, y, b) /\ ~B(y, b, z, c) => ~B(x, a, z, c)
    BY <1>1, <1>5, <1>6
  <2> HIDE DEF B
  <2>5. QED BY <1>4, <2>1, <2>2, <2>3, <2>4
<1>7. CASE ~lower
  <2>1. ~B(x, a, x, a)
    BY <1>1, <1>5, <1>7
  <2>2. B(x, a, z, c) => ~B(z, c, x, a)
    BY <1>1, <1>5, <1>7
  <2>3. B(x, a, y, b) /\ B(y, b, z, c) => B(x, a, z, c)
    BY <1>1, <1>5, <1>7
  <2>4. ~B(x, a, y, b) /\ ~B(y, b, z, c) => ~B(x, a, z, c)
    BY <1>1, <1>5, <1>7
  <2> HIDE DEF B
  <2>5. QED BY <1>4, <2>1, <2>2, <2>3, <2>4
<1>8. QED BY <1>6, <1>7

\* Who is the best of the first n observations.
BestOf(lower, observations, n, best) ==
  \/ best = NoValue /\ \A i \in 1 .. n : observations[i].value = NoValue
  \/ \E q \in 1 .. n :
       /\ best = observations[q] /\ observations[q].value # NoValue
       /\ \A i \in 1 .. n : observations[i].value # NoValue =>
            /\ ~Better(lower, observations[i], observations[q])
            /\ i < q => Better(lower, observations[q], observations[i])

\* One more observation.
LEMMA BestStays ==
  ASSUME NEW lower \in BOOLEAN, NEW obs \in Seq(Observed), NEW k \in Nat, k < Len(obs),
         NEW best, BestOf(lower, obs, k, best)
  PROVE  BestOf(lower, obs, k + 1,
                IF obs[k + 1].value # NoValue /\ (best = NoValue \/ Better(lower, obs[k + 1], best))
                THEN obs[k + 1] ELSE best)
<1> DEFINE o == obs[k + 1]
<1>1. /\ \A i \in 1 .. k + 1 : obs[i] \in Observed
      /\ \A i \in 1 .. k + 1 : i = k + 1 \/ i \in 1 .. k
      /\ \A i \in 1 .. k : i \in 1 .. k + 1 /\ i < k + 1
      /\ k + 1 \in 1 .. k + 1
  OBVIOUS
<1>2. CASE best = NoValue /\ \A i \in 1 .. k : obs[i].value = NoValue
  <2>1. CASE o.value = NoValue
    BY <1>1, <1>2, <2>1 DEF BestOf
  <2>2. CASE o.value # NoValue
    <3>1. ~Better(lower, o, o)
      BY <1>1, BetterOrders
    <3>2. \A i \in 1 .. k + 1 : obs[i].value # NoValue => i = k + 1
      BY <1>1, <1>2
    <3>3. BestOf(lower, obs, k + 1, o)
      BY <1>1, <2>2, <3>1, <3>2 DEF BestOf
    <3>4. QED BY <1>2, <2>2, <3>3
  <2>3. QED BY <2>1, <2>2
<1>3. ASSUME NEW q \in 1 .. k, best = obs[q], obs[q].value # NoValue,
             \A i \in 1 .. k : obs[i].value # NoValue =>
               /\ ~Better(lower, obs[i], obs[q])
               /\ i < q => Better(lower, obs[q], obs[i])
      PROVE  BestOf(lower, obs, k + 1,
                IF obs[k + 1].value # NoValue /\ (best = NoValue \/ Better(lower, obs[k + 1], best))
                THEN obs[k + 1] ELSE best)
  <2>1. best # NoValue /\ best \in Observed /\ o \in Observed
    BY <1>1, <1>3, RankingAssumption DEF Observed
  <2>2. CASE o.value # NoValue /\ Better(lower, o, best)
    <3>1. ASSUME NEW i \in 1 .. k + 1, obs[i].value # NoValue
          PROVE  ~Better(lower, obs[i], o) /\ (i < k + 1 => Better(lower, o, obs[i]))
      <4>1. CASE i = k + 1
        BY <1>1, <4>1, BetterOrders
      <4>2. CASE i \in 1 .. k
        <5>1. ~Better(lower, obs[i], best) /\ obs[i] \in Observed
          BY <1>1, <1>3, <3>1, <4>2
        <5>2. ~Better(lower, obs[i], o)
          BY <2>1, <2>2, <5>1, BetterOrders
        <5>3. Better(lower, o, obs[i])
          BY <2>1, <2>2, <5>1, BetterOrders
        <5>4. QED BY <5>2, <5>3
      <4>3. QED BY <1>1, <4>1, <4>2
    <3>2. BestOf(lower, obs, k + 1, o)
      BY <1>1, <2>2, <3>1 DEF BestOf
    <3>3. QED BY <2>2, <3>2
  <2>3. CASE ~(o.value # NoValue /\ Better(lower, o, best))
    <3>1. ASSUME NEW i \in 1 .. k + 1, obs[i].value # NoValue
          PROVE  ~Better(lower, obs[i], obs[q]) /\ (i < q => Better(lower, obs[q], obs[i]))
      <4>1. CASE i = k + 1
        BY <1>3, <2>3, <3>1, <4>1
      <4>2. CASE i \in 1 .. k
        BY <1>3, <3>1, <4>2
      <4>3. QED BY <1>1, <4>1, <4>2
    <3>2. BestOf(lower, obs, k + 1, best)
      BY <1>1, <1>3, <3>1 DEF BestOf
    <3>3. QED BY <2>1, <2>3, <3>2
  <2>4. QED BY <2>2, <2>3
<1>4. QED BY <1>2, <1>3 DEF BestOf

\* select_best selects the best one, and of equals the first.
LEMMA SelectedIsBest ==
  ASSUME NEW lower \in BOOLEAN, NEW obs \in Seq(Observed)
  PROVE  BestOf(lower, obs, Len(obs), SelectBest(lower, obs))
<1> DEFINE n == Len(obs)
           V == Observed \cup {NoValue}
           Next1(v, o) == IF o.value # NoValue /\ (v = NoValue \/ Better(lower, o, v)) THEN o ELSE v
           H == CHOOSE h : h = [t \in SUBSET DOMAIN obs |->
                  IF t = {} THEN NoValue ELSE Next1(h[t \ {Max(t)}], obs[Max(t)])]
           step == [x \in V \X (1 .. n) |-> Next1(x[1], obs[x[2]])]
<1>1. n \in Nat /\ DOMAIN obs = 1 .. n /\ \A i \in 1 .. n : obs[i] \in Observed
  OBVIOUS
<1>2. SelectBest(lower, obs) = H[DOMAIN obs]
  BY DEF SelectBest, FoldLeft, MapThenFoldSet
<1>3. NoValue \in V
  OBVIOUS
<1>4. step \in [V \X (1 .. n) -> V]
  BY <1>1
<1>5. PICK h : Folds(h, n, V, NoValue, step)
  <2> HIDE DEF step, n, V
  <2>1. QED BY <1>1, <1>3, <1>4, FoldRecursion
<1>6. h = [t \in SUBSET DOMAIN obs |-> IF t = {} THEN NoValue ELSE Next1(h[t \ {Max(t)}], obs[Max(t)])]
  <2> HIDE DEF n, Next1, V
  <2>1. ASSUME NEW t \in SUBSET (1 .. n), t # {}
        PROVE  step[<<h[t \ {Max(t)}], Max(t)>>] = Next1(h[t \ {Max(t)}], obs[Max(t)])
    <3>1. Max(t) \in 1 .. n
      BY <1>1, <2>1, GreatestUpTo
    <3>2. h[t \ {Max(t)}] \in V
      BY <1>5, <2>1 DEF Folds
    <3>3. QED BY <3>1, <3>2
  <2> HIDE DEF step
  <2>2. QED BY <1>1, <1>5, <2>1 DEF Folds
<1>7. H = [t \in SUBSET DOMAIN obs |-> IF t = {} THEN NoValue ELSE Next1(H[t \ {Max(t)}], obs[Max(t)])]
  <2> HIDE DEF Next1
  <2>1. QED BY <1>6
<1> HIDE DEF H, step, n, V, Next1
<1> DEFINE T == {k \in Nat : k <= n => BestOf(lower, obs, k, H[1 .. k])}
<1>8. 0 \in T
  <2>1. 1 .. 0 = {} /\ {} \in SUBSET DOMAIN obs
    OBVIOUS
  <2>2. H[1 .. 0] = NoValue
    BY <1>7, <2>1
  <2>3. QED BY <2>1, <2>2 DEF BestOf
<1>9. ASSUME NEW k \in Nat, k < n, BestOf(lower, obs, k, H[1 .. k]) PROVE BestOf(lower, obs, k + 1, H[1 .. (k + 1)])
  <2>1. 1 .. (k + 1) \in SUBSET DOMAIN obs
    BY <1>1, <1>9
  <2>2. Max(1 .. (k + 1)) = k + 1 /\ (1 .. (k + 1)) \ {k + 1} = 1 .. k /\ 1 .. (k + 1) # {}
    BY UpTo
  <2>3. H[1 .. (k + 1)] = Next1(H[1 .. k], obs[k + 1])
    BY <1>7, <2>1, <2>2
  <2>4. QED BY <1>9, <2>3, BestStays DEF Next1, n
<1>10. n \in T
  <2>1. \A k \in Nat : k \in T => k + 1 \in T
    <3> SUFFICES ASSUME NEW k \in Nat, k \in T PROVE k + 1 \in T
      OBVIOUS
    <3>1. CASE k < n
      BY <1>1, <1>9, <3>1
    <3>2. CASE ~(k < n)
      BY <1>1, <3>2
    <3>3. QED BY <3>1, <3>2
  <2> HIDE DEF T
  <2>2. QED BY <1>1, <1>8, <2>1, SetInduction
<1>11. BestOf(lower, obs, n, H[1 .. n])
  BY <1>1, <1>10
<1>12. QED BY <1>1, <1>2, <1>11 DEF n

\* The ranking tool has a total order,
LEMMA PrecedesOrders ==
  ASSUME NEW lower \in BOOLEAN, NEW E \in SUBSET Observed, \A x, y \in E : x.id = y.id => x = y
  PROVE  TotalOrder(E, {p \in E \X E : Precedes(lower, p[1], p[2])})
<1> DEFINE R == {p \in E \X E : Precedes(lower, p[1], p[2])}
<1>1. \A x, y \in E : <<x, y>> \in R <=> Better(lower, x, y) \/ (~Better(lower, y, x) /\ x.id < y.id)
  BY DEF Precedes
<1>2. \A x \in E : x \in Observed /\ x.id \in Int
  BY DEF Observed
<1> HIDE DEF R
<1>3. ASSUME NEW x \in E, NEW y \in E, x # y PROVE <<x, y>> \in R \/ <<y, x>> \in R
  <2>1. x.id < y.id \/ y.id < x.id
    BY <1>2, <1>3
  <2>2. QED BY <1>1, <2>1
<1>4. ASSUME NEW x \in E, NEW y \in E, NEW z \in E, <<x, y>> \in R, <<y, z>> \in R PROVE <<x, z>> \in R
  <2>1. /\ Better(lower, x, y) \/ (~Better(lower, y, x) /\ x.id < y.id)
        /\ Better(lower, y, z) \/ (~Better(lower, z, y) /\ y.id < z.id)
    BY <1>1, <1>4
  <2>2. ~Better(lower, z, x)
    <3>1. ~Better(lower, y, x) /\ ~Better(lower, z, y)
      BY <1>2, <2>1, BetterOrders
    <3>2. QED BY <1>2, <3>1, BetterOrders
  <2>3. CASE Better(lower, x, y) \/ Better(lower, y, z)
    <3>1. Better(lower, x, z)
      <4>1. CASE Better(lower, x, y)
        <5>1. ~Better(lower, z, y)
          BY <1>2, <2>1, BetterOrders
        <5>2. ~Better(lower, x, z) => ~Better(lower, x, y)
          BY <1>2, <5>1, BetterOrders
        <5>3. QED BY <4>1, <5>2
      <4>2. CASE Better(lower, y, z)
        <5>1. ~Better(lower, y, x)
          BY <1>2, <2>1, BetterOrders
        <5>2. ~Better(lower, x, z) => ~Better(lower, y, z)
          BY <1>2, <5>1, BetterOrders
        <5>3. QED BY <4>2, <5>2
      <4>3. QED BY <2>3, <4>1, <4>2
    <3>2. QED BY <1>1, <3>1
  <2>4. CASE ~(Better(lower, x, y) \/ Better(lower, y, z))
    <3>1. x.id < z.id
      BY <1>2, <2>1, <2>4
    <3>2. QED BY <1>1, <2>2, <3>1
  <2>5. QED BY <2>3, <2>4
<1>5. QED BY <1>3, <1>4 DEF TotalOrder, R

\* and ranks by it.
LEMMA RankedIs ==
  ASSUME NEW lower \in BOOLEAN, NEW obs \in Seq(Observed),
         \A i, j \in DOMAIN obs : obs[i].id = obs[j].id => i = j
  PROVE  LET ranked == Ranked(lower, obs)
         IN  /\ ranked \in [DOMAIN obs -> ToSet(obs)] /\ ToSet(ranked) = ToSet(obs)
             /\ \A i, j \in DOMAIN ranked : i < j => Precedes(lower, ranked[i], ranked[j])
<1> DEFINE E == ToSet(obs)
           n == Len(obs)
           R == {p \in E \X E : Precedes(lower, p[1], p[2])}
           Good(s) == /\ ToSet(s) = E
                      /\ \A i, j \in DOMAIN s : i < j => Precedes(lower, s[i], s[j])
<1>1. n \in Nat /\ DOMAIN obs = 1 .. n /\ E = {obs[i] : i \in 1 .. n} /\ E \in SUBSET Observed
      /\ \A i \in 1 .. n : obs[i] \in E
  BY DEF ToSet
<1>2. TotalOrder(E, R)
  <2>1. \A x, y \in E : x.id = y.id => x = y
    BY <1>1
  <2> HIDE DEF E, n
  <2>2. QED BY <1>1, <2>1, PrecedesOrders
<1>3. IsFiniteSet(E) /\ Cardinality(E) = n
  <2>1. obs \in Bijection(1 .. n, E)
    <3>1. obs \in [1 .. n -> E]
      BY <1>1
    <3>2. QED BY <1>1, <3>1 DEF Bijection, Injection, Surjection, IsInjective
  <2>2. Cardinality(1 .. n) = IF 1 > n THEN 0 ELSE n - 1 + 1
    BY <1>1, FS_Interval
  <2>3. IsFiniteSet(1 .. n)
    BY <1>1, FS_Interval
  <2>4. Cardinality(1 .. n) = n
    BY <1>1, <2>2
  <2> HIDE DEF E, n
  <2>5. QED BY <2>1, <2>3, <2>4, FS_Bijection DEF ExistsBijection
<1>4. PICK f : Sorts(f, n, E, R)
  <2> HIDE DEF E, n, R
  <2>1. QED BY <1>1, <1>2, <1>3, SortingWorks
<1>5. f \in [DOMAIN obs -> E] /\ Good(f)
  <2>1. f \in [1 .. n -> E] /\ \A s \in E : \E k \in 1 .. n : f[k] = s
    BY <1>4 DEF Sorts
  <2>2. \A k, l \in 1 .. n : k < l => <<f[k], f[l]>> \in R
    BY <1>4 DEF Sorts
  <2>3. ToSet(f) = E
    <3> HIDE DEF E, n
    <3>1. ToSet(f) = {f[i] : i \in 1 .. n}
      BY <2>1 DEF ToSet
    <3>2. QED BY <2>1, <3>1
  <2>4. \A k, l \in 1 .. n : k < l => Precedes(lower, f[k], f[l])
    BY <2>2
  <2> HIDE DEF E, n
  <2>5. QED BY <1>1, <2>1, <2>3, <2>4
<1>6. Ranked(lower, obs) = CHOOSE s \in [DOMAIN obs -> E] : Good(s)
  BY DEF Ranked
<1> HIDE DEF Good
<1>7. Ranked(lower, obs) \in [DOMAIN obs -> E] /\ Good(Ranked(lower, obs))
  <2> HIDE DEF E
  <2>1. QED BY <1>5, <1>6
<1>8. QED BY <1>7 DEF Good

\* The run and the ranking tool agree on who is best, no trial that failed its check
\* is ranked above one that did not, for any number of observations.
THEOREM RankingsAgree ==
  ASSUME NEW lower \in BOOLEAN, NEW obs \in Seq(Observed)
  PROVE  RankingAgrees(lower, obs)
<1> DEFINE ranked == Ranked(lower, obs)
           winner == SelectBest(lower, obs)
           n == Len(obs)
<1> SUFFICES ASSUME ranked # <<>>
             PROVE  /\ \A i, j \in DOMAIN ranked : i < j =>
                         /\ ~Better(lower, ranked[j], ranked[i])
                         /\ ranked[i].status = "Failed" => ranked[j].status = "Failed"
                    /\ (\A i \in DOMAIN obs : obs[i].value # NoValue) =>
                         /\ ranked[1].status = winner.status /\ ranked[1].value = winner.value
                         /\ (\A i, j \in DOMAIN obs : i < j => obs[i].id < obs[j].id) => ranked[1] = winner
  BY DEF RankingAgrees
<1>1. \A i, j \in DOMAIN obs : obs[i].id = obs[j].id => i = j
  BY DEF Ranked
<1>2. /\ ranked \in [DOMAIN obs -> ToSet(obs)] /\ ToSet(ranked) = ToSet(obs)
      /\ \A i, j \in DOMAIN ranked : i < j => Precedes(lower, ranked[i], ranked[j])
  BY <1>1, RankedIs
<1>3. n \in Nat /\ DOMAIN obs = 1 .. n /\ (\A i \in 1 .. n : obs[i] \in Observed)
      /\ ToSet(obs) = {obs[i] : i \in 1 .. n}
  BY DEF ToSet
<1>4. BestOf(lower, obs, n, winner)
  BY SelectedIsBest
<1> HIDE DEF ranked, winner, n
<1>5. /\ DOMAIN ranked = 1 .. n
      /\ \A i \in 1 .. n : ranked[i] \in Observed /\ \E p \in 1 .. n : ranked[i] = obs[p]
      /\ \A p \in 1 .. n : \E i \in 1 .. n : ranked[i] = obs[p]
  <2>1. DOMAIN ranked = 1 .. n
    BY <1>2, <1>3
  <2>2. ToSet(ranked) = {ranked[i] : i \in 1 .. n}
    BY <2>1 DEF ToSet
  <2>3. QED BY <1>2, <1>3, <2>1, <2>2
<1>6. ASSUME NEW i \in 1 .. n, NEW j \in 1 .. n, i < j
      PROVE  /\ ~Better(lower, ranked[j], ranked[i])
             /\ ranked[i].status = "Failed" => ranked[j].status = "Failed"
  <2>1. Precedes(lower, ranked[i], ranked[j]) /\ ranked[i] \in Observed /\ ranked[j] \in Observed
    BY <1>2, <1>5, <1>6
  <2>2. ~Better(lower, ranked[j], ranked[i])
    BY <2>1, BetterOrders DEF Precedes
  <2>3. ~(CorrectnessRank(ranked[j].status) > CorrectnessRank(ranked[i].status))
    BY <2>1, <2>2, BetterIs
  <2>4. ASSUME ranked[i].status = "Failed" PROVE ranked[j].status = "Failed"
    <3>1. CorrectnessRank(ranked[i].status) = 0
      BY <2>1, <2>4, RankIs
    <3>2. CorrectnessRank(ranked[j].status) \in 0 .. 2
      BY <2>1, RankIs
    <3>3. CorrectnessRank(ranked[j].status) = 0
      BY <2>3, <3>1, <3>2
    <3>4. QED BY <2>1, <3>3, RankIs
  <2>5. QED BY <2>2, <2>4
<1>7. ASSUME \A i \in 1 .. n : obs[i].value # NoValue
      PROVE  /\ ranked[1].status = winner.status /\ ranked[1].value = winner.value
             /\ (\A i, j \in 1 .. n : i < j => obs[i].id < obs[j].id) => ranked[1] = winner
  <2>1. n # 0
    <3>1. ASSUME n = 0 PROVE FALSE
      <4>1. DOMAIN ranked = {}
        BY <1>5, <3>1
      <4>2. ranked = <<>>
        BY <1>2, <1>5, <3>1, <4>1
      <4>3. QED BY <4>2 DEF ranked
    <3>2. QED BY <3>1
  <2>2. 1 \in 1 .. n
    BY <1>3, <2>1
  <2>3. PICK q \in 1 .. n :
          /\ winner = obs[q]
          /\ \A i \in 1 .. n : /\ ~Better(lower, obs[i], obs[q])
                               /\ i < q => Better(lower, obs[q], obs[i])
    BY <1>4, <1>7, <2>2 DEF BestOf
  <2>4. PICK p \in 1 .. n : ranked[1] = obs[p]
    BY <1>5, <2>2
  <2>5. PICK k \in 1 .. n : ranked[k] = obs[q]
    BY <1>5
  <2>6. ~Better(lower, obs[q], obs[p]) /\ ~Better(lower, obs[p], obs[q])
    <3>1. ~Better(lower, obs[p], obs[q])
      BY <2>3
    <3>2. CASE k = 1
      BY <2>4, <2>5, <3>1, <3>2
    <3>3. CASE k # 1
      <4>1. 1 < k
        BY <3>3
      <4>2. QED BY <1>6, <2>2, <2>4, <2>5, <3>1, <4>1
    <3>4. QED BY <3>2, <3>3
  <2>7. obs[p] \in Observed /\ obs[q] \in Observed /\ obs[p].value # NoValue /\ obs[q].value # NoValue
    BY <1>3, <1>7
  <2>8. CorrectnessRank(obs[p].status) = CorrectnessRank(obs[q].status)
    <3> DEFINE a == CorrectnessRank(obs[p].status) b == CorrectnessRank(obs[q].status)
    <3>1. a \in 0 .. 2 /\ b \in 0 .. 2
      BY <2>7, RankIs
    <3>2. ~(a > b) /\ ~(b > a)
      BY <2>6, <2>7, BetterIs
    <3> HIDE DEF a, b
    <3>3. a = b
      BY <3>1, <3>2
    <3>4. QED BY <3>3 DEF a, b
  <2>9. obs[p].status = obs[q].status
    BY <2>7, <2>8, RankIs DEF Observed
  <2>10. obs[p].value = obs[q].value
    <3>1. obs[p].value \in Int /\ obs[q].value \in Int
      BY <2>7 DEF Observed
    <3>2. /\ ~(IF lower THEN obs[p].value < obs[q].value ELSE obs[p].value > obs[q].value)
          /\ ~(IF lower THEN obs[q].value < obs[p].value ELSE obs[q].value > obs[p].value)
      BY <2>6, <2>7, <2>8, BetterIs
    <3>3. QED BY <3>1, <3>2
  <2>11. ASSUME \A i, j \in 1 .. n : i < j => obs[i].id < obs[j].id PROVE ranked[1] = winner
    <3>1. ~(p < q)
      BY <2>3, <2>6
    <3>2. ~(q < p)
      <4>1. SUFFICES ASSUME q < p PROVE FALSE
        OBVIOUS
      <4>2. obs[q].id < obs[p].id /\ obs[q].id \in Int /\ obs[p].id \in Int
        BY <2>7, <2>11, <4>1 DEF Observed
      <4>3. k # 1
        BY <2>4, <2>5, <4>2
      <4>4. 1 < k
        BY <4>3
      <4>5. Precedes(lower, obs[p], obs[q])
        BY <1>2, <1>5, <2>2, <2>4, <2>5, <4>4
      <4>6. obs[p].id < obs[q].id
        BY <2>6, <4>5 DEF Precedes
      <4>7. QED BY <4>2, <4>6
    <3>3. p = q
      BY <1>3, <3>1, <3>2
    <3>4. QED BY <2>3, <2>4, <3>3
  <2>12. QED BY <2>3, <2>4, <2>9, <2>10, <2>11
<1>8. QED BY <1>3, <1>5, <1>6, <1>7
-------------------------------------------------------------------------------
(* The trials of a sweep                                                    *)

\* FlattenSeq puts the sequences of s behind each other.
Flattens(run, s, S) ==
  /\ run \in [Nat -> Seq(S)] /\ run[0] = <<>>
  /\ \A k \in Nat : k < Len(s) => run[k + 1] = run[k] \o s[k + 1]
  /\ FlattenSeq(s) = run[Len(s)]

\* It does.
LEMMA Flattening ==
  ASSUME NEW S, NEW s \in Seq(Seq(S))
  PROVE  \E run : Flattens(run, s, S)
<1> DEFINE n == Len(s)
           V == Seq(S)
           step == [k \in Nat |-> [v \in V |-> IF k < n THEN v \o s[k + 1] ELSE v]]
           F == CHOOSE g : g = [i \in 1 .. n |-> IF i = 1 THEN s[i] ELSE g[i - 1] \o s[i]]
<1>1. n \in Nat /\ DOMAIN s = 1 .. n /\ \A i \in 1 .. n : s[i] \in V
  OBVIOUS
<1>2. <<>> \in V /\ \A v, w \in V : v \o w \in V
  OBVIOUS
<1> HIDE DEF V, n
<1>3. step \in [Nat -> [V -> V]]
  <2>1. \A k \in Nat : \A v \in V : (IF k < n THEN v \o s[k + 1] ELSE v) \in V
    <3> TAKE k \in Nat
    <3> TAKE v \in V
    <3>1. k < n => k + 1 \in 1 .. n
      BY <1>1
    <3>2. QED BY <1>1, <1>2, <3>1
  <2>2. QED BY <2>1
<1>4. PICK f : Recurs(f, V, <<>>, step)
  <2> HIDE DEF step
  <2>1. QED BY <1>2, <1>3, Recursion
<1>5. /\ f \in [Nat -> V] /\ f[0] = <<>>
      /\ \A k \in Nat : k < n => f[k + 1] = f[k] \o s[k + 1]
  BY <1>4 DEF Recurs
<1>6. CASE n = 0
  <2>1. FlattenSeq(s) = f[n]
    <3>1. s = <<>>
      BY <1>1, <1>6 DEF n
    <3>2. FlattenSeq(s) = s
      BY <1>6 DEF FlattenSeq, n
    <3>3. QED BY <1>5, <1>6, <3>1, <3>2
  <2>2. QED BY <1>5, <2>1 DEF Flattens, V, n
<1>7. CASE n # 0
  <2>1. FlattenSeq(s) = F[n]
    BY <1>7 DEF FlattenSeq, n
  <2>2. f[1] = s[1] /\ 1 \in 1 .. n
    <3>1. 0 \in Nat /\ 0 < n /\ 1 \in 1 .. n /\ 0 + 1 = 1
      BY <1>1, <1>7
    <3>2. f[1] = <<>> \o s[1]
      BY <1>5, <3>1
    <3>3. s[1] \in Seq(S)
      BY <1>1, <3>1 DEF V
    <3>4. QED BY <3>1, <3>2, <3>3, ConcatEmptySeq
  <2>3. \A i \in 1 .. n : i # 1 => f[i] = f[i - 1] \o s[i]
    <3> TAKE i \in 1 .. n
    <3>1. ASSUME i # 1 PROVE i - 1 \in Nat /\ i - 1 < n /\ i - 1 + 1 = i
      BY <1>1, <3>1
    <3>2. QED BY <1>5, <3>1
  <2>4. [i \in 1 .. n |-> f[i]] = [i \in 1 .. n |-> IF i = 1 THEN s[i] ELSE [j \in 1 .. n |-> f[j]][i - 1] \o s[i]]
    <3>1. \A i \in 1 .. n : f[i] = IF i = 1 THEN s[i] ELSE [j \in 1 .. n |-> f[j]][i - 1] \o s[i]
      <4> TAKE i \in 1 .. n
      <4>1. CASE i = 1
        BY <2>2, <4>1
      <4>2. CASE i # 1
        <5>1. i - 1 \in 1 .. n
          BY <1>1, <4>2
        <5>2. QED BY <2>3, <4>2, <5>1
      <4>3. QED BY <4>1, <4>2
    <3>2. QED BY <3>1
  <2>5. F = [i \in 1 .. n |-> IF i = 1 THEN s[i] ELSE F[i - 1] \o s[i]]
    <3>1. \E g : g = [i \in 1 .. n |-> IF i = 1 THEN s[i] ELSE g[i - 1] \o s[i]]
      BY <2>4
    <3>2. QED BY <3>1
  <2> HIDE DEF F
  <2> DEFINE T == {k \in Nat : k + 1 <= n => F[k + 1] = f[k + 1]}
  <2>6. 0 \in T
    BY <2>2, <2>5
  <2>7. ASSUME NEW k \in Nat, k \in T PROVE k + 1 \in T
    <3>1. ASSUME k + 1 + 1 <= n PROVE F[k + 1 + 1] = f[k + 1 + 1]
      <4>1. k + 1 + 1 \in 1 .. n /\ k + 1 + 1 # 1 /\ k + 1 + 1 - 1 = k + 1 /\ k + 1 <= n
        BY <1>1, <3>1
      <4>2. F[k + 1] = f[k + 1]
        BY <2>7, <4>1
      <4>3. PICK i \in 1 .. n : i = k + 1 + 1 /\ i # 1 /\ i - 1 = k + 1
        BY <4>1
      <4>4. F[i] = F[i - 1] \o s[i]
        BY <2>5, <4>3
      <4>5. f[i] = f[i - 1] \o s[i]
        BY <2>3, <4>3
      <4>6. F[i] = f[i]
        BY <4>2, <4>3, <4>4, <4>5
      <4>7. QED BY <4>3, <4>6
    <3>2. QED BY <3>1
  <2>8. n - 1 \in T
    <3> HIDE DEF T
    <3>1. n - 1 \in Nat
      BY <1>1, <1>7
    <3>2. QED BY <2>6, <2>7, <3>1, SetInduction
  <2>9. F[n] = f[n]
    <3>1. n - 1 + 1 = n /\ n <= n
      BY <1>1
    <3>2. QED BY <2>8, <3>1
  <2>10. QED BY <1>5, <2>1, <2>9 DEF Flattens, V, n
<1>8. QED BY <1>6, <1>7

\* The members of the first k sequences.
Gathered(s, k) == UNION {ToSet(s[i]) : i \in 1 .. k}

\* The members of one sequence more.
LEMMA GatheredOn ==
  ASSUME NEW s, NEW k \in Nat
  PROVE  Gathered(s, k + 1) = Gathered(s, k) \cup ToSet(s[k + 1])
<1>1. \A x : x \in Gathered(s, k + 1) <=> \E i \in 1 .. (k + 1) : x \in ToSet(s[i])
  BY DEF Gathered
<1>2. \A x : x \in Gathered(s, k) <=> \E i \in 1 .. k : x \in ToSet(s[i])
  BY DEF Gathered
<1>3. 1 .. (k + 1) = 1 .. k \cup {k + 1}
  OBVIOUS
<1>4. QED BY <1>1, <1>2, <1>3

\* Flattening a table.
LEMMA TableIsFlat ==
  ASSUME NEW S, NEW s \in Seq(Seq(S)), NEW m \in Nat, \A i \in 1 .. Len(s) : Len(s[i]) = m
  PROVE  /\ FlattenSeq(s) \in Seq(S) /\ Len(FlattenSeq(s)) = Len(s) * m
         /\ ToSet(FlattenSeq(s)) = Gathered(s, Len(s))
<1>1. PICK run : Flattens(run, s, S)
  BY Flattening
<1> DEFINE n == Len(s)
           T == {k \in Nat : k <= n => /\ Len(run[k]) = k * m
                                       /\ ToSet(run[k]) = Gathered(s, k)}
<1>2. n \in Nat /\ \A i \in 1 .. n : s[i] \in Seq(S)
  OBVIOUS
<1>3. 0 \in T
  <2>1. run[0] = <<>>
    BY <1>1 DEF Flattens
  <2>2. Len(<<>>) = 0 * m /\ ToSet(<<>>) = Gathered(s, 0)
    BY DEF ToSet, Gathered
  <2>3. QED BY <2>1, <2>2
<1> HIDE DEF n
<1>4. ASSUME NEW k \in Nat, k \in T PROVE k + 1 \in T
  <2>1. ASSUME k + 1 <= n
        PROVE /\ Len(run[k + 1]) = (k + 1) * m
              /\ ToSet(run[k + 1]) = Gathered(s, k + 1)
    <3>1. k < n /\ k <= n /\ k + 1 \in 1 .. n
      BY <1>2, <2>1
    <3>a. /\ run \in [Nat -> Seq(S)]
          /\ \A l \in Nat : l < n => run[l + 1] = run[l] \o s[l + 1]
      BY <1>1 DEF Flattens, n
    <3>2. run[k + 1] = run[k] \o s[k + 1] /\ run[k] \in Seq(S) /\ s[k + 1] \in Seq(S) /\ run[k + 1] \in Seq(S)
      <4>1. run[k + 1] = run[k] \o s[k + 1]
        BY <3>1, <3>a
      <4>2. run[k] \in Seq(S) /\ run[k + 1] \in Seq(S)
        BY <3>a
      <4>3. s[k + 1] \in Seq(S)
        BY <1>2, <3>1
      <4>4. QED BY <4>1, <4>2, <4>3
    <3>3. Len(run[k]) = k * m /\ ToSet(run[k]) = Gathered(s, k)
      BY <1>4, <3>1
    <3>4. Len(s[k + 1]) = m
      BY <3>1 DEF n
    <3>5. PICK a, b, c : a = run[k] /\ b = s[k + 1] /\ c = run[k + 1]
      OBVIOUS
    <3>6. c = a \o b /\ a \in Seq(S) /\ b \in Seq(S)
      BY <3>2, <3>5
    <3>7. Len(c) = Len(a) + Len(b)
      BY <3>6, ConcatProperties
    <3>8. Len(c) = (k + 1) * m
      BY <3>3, <3>4, <3>5, <3>7
    <3>9. ToSet(c) = ToSet(a) \cup ToSet(b)
      <4>1. /\ Len(a) \in Nat /\ Len(b) \in Nat /\ DOMAIN a = 1 .. Len(a) /\ DOMAIN b = 1 .. Len(b)
            /\ DOMAIN c = 1 .. Len(a) + Len(b)
        BY <3>6
      <4>2. \A i \in 1 .. Len(a) + Len(b) : c[i] = IF i <= Len(a) THEN a[i] ELSE b[i - Len(a)]
        BY <3>6, ConcatProperties
      <4>3. ToSet(c) \subseteq ToSet(a) \cup ToSet(b)
        <5>1. ASSUME NEW i \in 1 .. Len(a) + Len(b) PROVE c[i] \in ToSet(a) \cup ToSet(b)
          <6>1. CASE i <= Len(a)
            <7>1. i \in DOMAIN a /\ c[i] = a[i]
              BY <4>1, <4>2, <6>1
            <7>2. QED BY <7>1 DEF ToSet
          <6>2. CASE ~(i <= Len(a))
            <7>1. i - Len(a) \in DOMAIN b /\ c[i] = b[i - Len(a)]
              BY <4>1, <4>2, <6>2
            <7>2. QED BY <7>1 DEF ToSet
          <6>3. QED BY <6>1, <6>2
        <5>2. QED BY <4>1, <5>1 DEF ToSet
      <4>4. ToSet(a) \subseteq ToSet(c)
        <5>1. \A i \in 1 .. Len(a) : i \in DOMAIN c /\ c[i] = a[i]
          BY <4>1, <4>2
        <5>2. QED BY <4>1, <5>1 DEF ToSet
      <4>5. ToSet(b) \subseteq ToSet(c)
        <5>1. \A i \in 1 .. Len(b) : Len(a) + i \in DOMAIN c /\ c[Len(a) + i] = b[i]
          <6> TAKE i \in 1 .. Len(b)
          <6>1. Len(a) + i \in 1 .. Len(a) + Len(b) /\ ~(Len(a) + i <= Len(a)) /\ Len(a) + i - Len(a) = i
            BY <4>1
          <6>2. QED BY <4>1, <4>2, <6>1
        <5>2. QED BY <4>1, <5>1 DEF ToSet
      <4>6. QED BY <4>3, <4>4, <4>5
    <3>10. 1 .. (k + 1) = 1 .. k \cup {k + 1}
      OBVIOUS
    <3>11. Gathered(s, k + 1) = Gathered(s, k) \cup ToSet(s[k + 1])
      BY GatheredOn
    <3>12. ToSet(run[k + 1]) = Gathered(s, k + 1)
      BY <3>3, <3>5, <3>9, <3>11
    <3>13. Len(run[k + 1]) = (k + 1) * m
      BY <3>5, <3>8
    <3>14. QED BY <3>12, <3>13
  <2>2. QED BY <2>1
<1>5. n \in T
  <2> HIDE DEF T
  <2>1. QED BY <1>2, <1>3, <1>4, SetInduction
<1>6. FlattenSeq(s) = run[n] /\ run[n] \in Seq(S)
  BY <1>1, <1>2 DEF Flattens, n
<1>7. QED BY <1>2, <1>5, <1>6 DEF n

\* What one dimension does to the candidates.
Expanded(all, d, values, result, C) ==
  /\ result \in Seq(C) /\ Len(result) = Len(all) * Len(values)
  /\ \A x : x \in ToSet(result) <=> \E c \in ToSet(all), v \in ToSet(values) : x = [c EXCEPT ![d] = v]

\* Expand does it.
LEMMA ExpandIs ==
  ASSUME NEW D, NEW V, NEW all \in Seq([D -> V]), NEW d \in D, NEW values \in Seq(V)
  PROVE  Expanded(all, d, values, Expand(all, d, values), [D -> V])
<1> DEFINE C == [D -> V]
           n == Len(all)
           m == Len(values)
           row(i) == [j \in DOMAIN values |-> [all[i] EXCEPT ![d] = values[j]]]
           table == [i \in DOMAIN all |-> row(i)]
<1>1. /\ n \in Nat /\ DOMAIN all = 1 .. n /\ (\A i \in 1 .. n : all[i] \in C)
      /\ m \in Nat /\ DOMAIN values = 1 .. m /\ (\A j \in 1 .. m : values[j] \in V)
  OBVIOUS
<1>2. \A c \in C : \A v \in V : [c EXCEPT ![d] = v] \in C
  OBVIOUS
<1>3. Expand(all, d, values) = FlattenSeq(table)
  BY DEF Expand
<1>4. ToSet(all) = {all[i] : i \in 1 .. n} /\ ToSet(values) = {values[j] : j \in 1 .. m}
  BY <1>1 DEF ToSet
<1> HIDE DEF n, m, C
<1>5. \A i \in 1 .. n : /\ row(i) \in Seq(C) /\ Len(row(i)) = m /\ DOMAIN row(i) = 1 .. m
                        /\ \A j \in 1 .. m : row(i)[j] = [all[i] EXCEPT ![d] = values[j]]
  <2> TAKE i \in 1 .. n
  <2>1. row(i) \in [1 .. m -> C]
    BY <1>1, <1>2
  <2>2. \A j \in 1 .. m : row(i)[j] = [all[i] EXCEPT ![d] = values[j]]
    BY <1>1
  <2> HIDE DEF row
  <2>3. PICK r : r = row(i)
    OBVIOUS
  <2>4. r \in [1 .. m -> C]
    BY <2>1, <2>3
  <2>5. r \in Seq(C) /\ Len(r) = m /\ DOMAIN r = 1 .. m
    BY <1>1, <2>4
  <2>6. QED BY <2>2, <2>3, <2>5
<1> HIDE DEF row
<1>6. table \in Seq(Seq(C)) /\ Len(table) = n /\ \A i \in 1 .. n : table[i] = row(i)
  BY <1>1, <1>5
<1> HIDE DEF table
<1>7. FlattenSeq(table) \in Seq(C) /\ Len(FlattenSeq(table)) = n * m
  BY <1>1, <1>5, <1>6, TableIsFlat
<1>8. ToSet(FlattenSeq(table)) = Gathered(table, n)
  BY <1>1, <1>5, <1>6, TableIsFlat
<1>9. \A x : x \in Gathered(table, n) <=> \E i \in 1 .. n : x \in ToSet(row(i))
  BY <1>6 DEF Gathered
<1>10. \A i \in 1 .. n : \A x : x \in ToSet(row(i)) <=> \E j \in 1 .. m : x = [all[i] EXCEPT ![d] = values[j]]
  <2> TAKE i \in 1 .. n
  <2>1. PICK r : r = row(i)
    OBVIOUS
  <2>2. DOMAIN r = 1 .. m /\ \A j \in 1 .. m : r[j] = [all[i] EXCEPT ![d] = values[j]]
    BY <1>5, <2>1
  <2>3. ToSet(r) = {r[j] : j \in 1 .. m}
    BY <2>2 DEF ToSet
  <2>4. \A x : x \in ToSet(r) <=> \E j \in 1 .. m : x = [all[i] EXCEPT ![d] = values[j]]
    BY <2>2, <2>3
  <2>5. QED BY <2>1, <2>4
<1>11. \A x : x \in Gathered(table, n)
               <=> \E c \in ToSet(all), v \in ToSet(values) : x = [c EXCEPT ![d] = v]
  <2> TAKE x
  <2>1. x \in Gathered(table, n) <=> \E i \in 1 .. n, j \in 1 .. m : x = [all[i] EXCEPT ![d] = values[j]]
    BY <1>9, <1>10
  <2>2. (\E c \in ToSet(all), v \in ToSet(values) : x = [c EXCEPT ![d] = v])
          <=> \E i \in 1 .. n, j \in 1 .. m : x = [all[i] EXCEPT ![d] = values[j]]
    <3>1. \A c : c \in ToSet(all) <=> \E i \in 1 .. n : c = all[i]
      BY <1>4
    <3>2. \A v : v \in ToSet(values) <=> \E j \in 1 .. m : v = values[j]
      BY <1>4
    <3> DEFINE P(c, v) == x = [c EXCEPT ![d] = v]
    <3> HIDE DEF P
    <3>3. (\E c \in ToSet(all), v \in ToSet(values) : P(c, v)) <=> \E i \in 1 .. n, j \in 1 .. m : P(all[i], values[j])
      <4>1. ASSUME NEW c \in ToSet(all), NEW v \in ToSet(values), P(c, v)
            PROVE  \E i \in 1 .. n, j \in 1 .. m : P(all[i], values[j])
        <5>1. PICK i \in 1 .. n : c = all[i]
          BY <3>1
        <5>2. PICK j \in 1 .. m : v = values[j]
          BY <3>2
        <5>3. P(all[i], values[j])
          BY <4>1, <5>1, <5>2
        <5>4. QED BY <5>3
      <4>2. \A i \in 1 .. n, j \in 1 .. m : all[i] \in ToSet(all) /\ values[j] \in ToSet(values)
        BY <3>1, <3>2
      <4>3. QED BY <4>1, <4>2
    <3>4. QED BY <3>3 DEF P
  <2>3. QED BY <2>1, <2>2, Zenon
<1>12. QED BY <1>3, <1>7, <1>8, <1>11 DEF Expanded, n, m, C

\* How the number of combinations is counted.
Multiplies(run, sizes) ==
  /\ run \in [Nat -> Nat] /\ run[0] = 1
  /\ \A k \in Nat : k < Len(sizes) => run[k + 1] = run[k] * sizes[k + 1]
  /\ Product(sizes) = run[Len(sizes)]

\* Product counts like that.
LEMMA Multiplying ==
  ASSUME NEW sizes \in Seq(Nat)
  PROVE  \E run : Multiplies(run, sizes)
<1> DEFINE s == sizes
           n == Len(s)
           Next1(v, x) == v * x
           H == CHOOSE h : h = [t \in SUBSET DOMAIN s |->
                  IF t = {} THEN 1 ELSE Next1(h[t \ {Max(t)}], s[Max(t)])]
           step == [x \in Nat \X (1 .. n) |-> Next1(x[1], s[x[2]])]
<1>1. n \in Nat /\ DOMAIN s = 1 .. n /\ \A i \in 1 .. n : s[i] \in Nat
  OBVIOUS
<1>2. Product(sizes) = H[DOMAIN s]
  BY DEF Product, FoldLeft, MapThenFoldSet
<1>3. \A v, x \in Nat : Next1(v, x) \in Nat
  OBVIOUS
<1> HIDE DEF Next1
<1>4. step \in [Nat \X (1 .. n) -> Nat]
  BY <1>1, <1>3
<1>5. PICK h : Folds(h, n, Nat, 1, step)
  <2> HIDE DEF step, n
  <2>1. QED BY <1>1, <1>4, FoldRecursion
<1>6. h = [t \in SUBSET DOMAIN s |-> IF t = {} THEN 1 ELSE Next1(h[t \ {Max(t)}], s[Max(t)])]
  <2> HIDE DEF n, s
  <2>1. ASSUME NEW t \in SUBSET (1 .. n), t # {}
        PROVE  step[<<h[t \ {Max(t)}], Max(t)>>] = Next1(h[t \ {Max(t)}], s[Max(t)])
    <3>1. Max(t) \in 1 .. n
      BY <1>1, <2>1, GreatestUpTo
    <3>2. h[t \ {Max(t)}] \in Nat
      BY <1>5, <2>1 DEF Folds
    <3>3. QED BY <3>1, <3>2
  <2> HIDE DEF step
  <2>2. QED BY <1>1, <1>5, <2>1 DEF Folds
<1>7. H = [t \in SUBSET DOMAIN s |-> IF t = {} THEN 1 ELSE Next1(H[t \ {Max(t)}], s[Max(t)])]
  <2> HIDE DEF s
  <2>1. QED BY <1>6
<1> HIDE DEF H, step
<1> DEFINE T == {k \in Nat : k <= n => H[1 .. k] \in Nat}
           run == [k \in Nat |-> IF k <= n THEN H[1 .. k] ELSE 0]
<1>8. H[1 .. 0] = 1
  <2>1. 1 .. 0 = {} /\ {} \in SUBSET DOMAIN s
    BY UpTo
  <2>2. QED BY <1>7, <2>1
<1>9. ASSUME NEW k \in Nat, k < n PROVE H[1 .. (k + 1)] = Next1(H[1 .. k], s[k + 1])
  <2>1. 1 .. (k + 1) \in SUBSET DOMAIN s
    BY <1>1, <1>9
  <2>2. Max(1 .. (k + 1)) = k + 1 /\ (1 .. (k + 1)) \ {k + 1} = 1 .. k /\ 1 .. (k + 1) # {}
    BY UpTo
  <2>3. QED BY <1>7, <2>1, <2>2
<1> HIDE DEF n, s
<1>10. ASSUME NEW k \in Nat, k \in T PROVE k + 1 \in T
  <2>1. ASSUME k + 1 <= n PROVE H[1 .. (k + 1)] \in Nat
    <3>1. k < n /\ k <= n /\ k + 1 \in 1 .. n
      BY <1>1, <2>1
    <3>2. H[1 .. k] \in Nat /\ s[k + 1] \in Nat
      BY <1>1, <1>10, <3>1
    <3>3. QED BY <1>3, <1>9, <3>1, <3>2
  <2>2. QED BY <2>1
<1>11. \A k \in Nat : k \in T
  <2>1. 0 \in T
    BY <1>8
  <2> HIDE DEF T
  <2>2. QED BY <1>10, <2>1, SetInduction
<1>12. run \in [Nat -> Nat] /\ run[0] = 1 /\ run[n] = H[1 .. n]
  BY <1>1, <1>8, <1>11
<1>13. ASSUME NEW k \in Nat, k < n PROVE run[k + 1] = run[k] * s[k + 1]
  <2>1. k <= n /\ k + 1 <= n /\ k + 1 \in Nat
    BY <1>1, <1>13
  <2>2. run[k] = H[1 .. k] /\ run[k + 1] = H[1 .. (k + 1)]
    BY <2>1
  <2> HIDE DEF run
  <2>3. QED BY <1>9, <1>13, <2>2 DEF Next1
<1> HIDE DEF run
<1>14. Multiplies(run, sizes)
  BY <1>1, <1>2, <1>12, <1>13 DEF Multiplies, n, s
<1>15. QED BY <1>14

\* How the candidates are expanded.
Dimensions(N, V) == [name : N, values : Seq(V)]

\* The candidates after each dimension.
Expands(run, base, dimensions, C) ==
  /\ run \in [Nat -> Seq(C)] /\ run[0] = <<base>>
  /\ \A k \in Nat : k < Len(dimensions) =>
       run[k + 1] = Expand(run[k], Canonical[dimensions[k + 1].name], dimensions[k + 1].values)
  /\ FoldLeft(LAMBDA cs, d : Expand(cs, Canonical[d.name], d.values), <<base>>, dimensions)
       = run[Len(dimensions)]

\* Candidates expands like that.
LEMMA Expanding ==
  ASSUME NEW D, NEW V, NEW N, NEW base \in [D -> V], NEW dimensions \in Seq(Dimensions(N, V)),
         \A a \in N : Canonical[a] \in D
  PROVE  \E run : Expands(run, base, dimensions, [D -> V])
<1> DEFINE s == dimensions
           n == Len(s)
           C == [D -> V]
           W == Seq(C)
           b == <<base>>
           Next1(cs, d) == Expand(cs, Canonical[d.name], d.values)
           H == CHOOSE h : h = [t \in SUBSET DOMAIN s |->
                  IF t = {} THEN b ELSE Next1(h[t \ {Max(t)}], s[Max(t)])]
           step == [x \in W \X (1 .. n) |-> Next1(x[1], s[x[2]])]
<1>1. n \in Nat /\ DOMAIN s = 1 .. n /\ \A i \in 1 .. n : s[i] \in Dimensions(N, V)
  OBVIOUS
<1>2. FoldLeft(LAMBDA cs, d : Expand(cs, Canonical[d.name], d.values), b, s) = H[DOMAIN s]
  BY DEF FoldLeft, MapThenFoldSet
<1>3. b \in W
  OBVIOUS
<1>a. \A cs \in W : \A x \in Dimensions(N, V) : Next1(cs, x) \in W
  <2> TAKE cs \in W
  <2> TAKE x \in Dimensions(N, V)
  <2>1. Canonical[x.name] \in D /\ x.values \in Seq(V)
    BY DEF Dimensions
  <2>2. QED BY <2>1, ExpandIs DEF Expanded
<1> HIDE DEF Next1
<1>4. step \in [W \X (1 .. n) -> W]
  <2> HIDE DEF W
  <2>1. QED BY <1>1, <1>a
<1>5. PICK h : Folds(h, n, W, b, step)
  <2> HIDE DEF step, n, b, W
  <2>1. QED BY <1>1, <1>3, <1>4, FoldRecursion
<1> HIDE DEF W
<1>6. h = [t \in SUBSET DOMAIN s |-> IF t = {} THEN b ELSE Next1(h[t \ {Max(t)}], s[Max(t)])]
  <2> HIDE DEF n, s, b
  <2>1. ASSUME NEW t \in SUBSET (1 .. n), t # {}
        PROVE  step[<<h[t \ {Max(t)}], Max(t)>>] = Next1(h[t \ {Max(t)}], s[Max(t)])
    <3>1. Max(t) \in 1 .. n
      BY <1>1, <2>1, GreatestUpTo
    <3>2. h[t \ {Max(t)}] \in W
      BY <1>5, <2>1 DEF Folds
    <3>3. QED BY <3>1, <3>2
  <2> HIDE DEF step
  <2>2. QED BY <1>1, <1>5, <2>1 DEF Folds
<1>7. H = [t \in SUBSET DOMAIN s |-> IF t = {} THEN b ELSE Next1(H[t \ {Max(t)}], s[Max(t)])]
  <2> HIDE DEF s, b
  <2>1. QED BY <1>6
<1> HIDE DEF H, step, b
<1> DEFINE T == {k \in Nat : k <= n => H[1 .. k] \in W}
           run == [k \in Nat |-> IF k <= n THEN H[1 .. k] ELSE b]
<1>8. H[1 .. 0] = b
  <2>1. 1 .. 0 = {} /\ {} \in SUBSET DOMAIN s
    BY UpTo
  <2>2. QED BY <1>7, <2>1
<1>9. ASSUME NEW k \in Nat, k < n PROVE H[1 .. (k + 1)] = Next1(H[1 .. k], s[k + 1])
  <2>1. 1 .. (k + 1) \in SUBSET DOMAIN s
    BY <1>1, <1>9
  <2>2. Max(1 .. (k + 1)) = k + 1 /\ (1 .. (k + 1)) \ {k + 1} = 1 .. k /\ 1 .. (k + 1) # {}
    BY UpTo
  <2>3. QED BY <1>7, <2>1, <2>2
<1> HIDE DEF n, s
<1>10. ASSUME NEW k \in Nat, k \in T PROVE k + 1 \in T
  <2>1. ASSUME k + 1 <= n PROVE H[1 .. (k + 1)] \in W
    <3>1. k < n /\ k <= n /\ k + 1 \in 1 .. n
      BY <1>1, <2>1
    <3>2. H[1 .. k] \in W /\ s[k + 1] \in Dimensions(N, V)
      BY <1>1, <1>10, <3>1
    <3>3. QED BY <1>a, <1>9, <3>1, <3>2
  <2>2. QED BY <2>1
<1>11. \A k \in Nat : k \in T
  <2>1. 0 \in T
    BY <1>3, <1>8
  <2> HIDE DEF T
  <2>2. QED BY <1>10, <2>1, SetInduction
<1>12. run \in [Nat -> W] /\ run[0] = b /\ run[n] = H[1 .. n]
  BY <1>1, <1>3, <1>8, <1>11
<1>13. ASSUME NEW k \in Nat, k < n PROVE run[k + 1] = Next1(run[k], s[k + 1])
  <2>1. k <= n /\ k + 1 <= n /\ k + 1 \in Nat
    BY <1>1, <1>13
  <2>2. run[k] = H[1 .. k] /\ run[k + 1] = H[1 .. (k + 1)]
    BY <2>1
  <2> HIDE DEF run
  <2>3. QED BY <1>9, <1>13, <2>2
<1> HIDE DEF run, C
<1>14. Expands(run, base, dimensions, C)
  BY <1>1, <1>2, <1>12, <1>13 DEF Expands, Next1, n, s, b, W
<1>15. QED BY <1>14 DEF C

\* What is kept of the first k candidates.
Keeps(kept, cs, k) ==
  /\ Len(kept) <= k
  /\ \A i \in 1 .. Len(kept) : \E j \in 1 .. k : kept[i] = cs[j]
  /\ \A j \in 1 .. k : \E i \in 1 .. Len(kept) : CandidateKey(kept[i]) = CandidateKey(cs[j])
  /\ \A i, j \in 1 .. Len(kept) : i # j => CandidateKey(kept[i]) # CandidateKey(kept[j])

\* Deduplicated keeps the first candidate of each key.
LEMMA DeduplicatedIs ==
  ASSUME NEW C, NEW cs \in Seq(C)
  PROVE  Deduplicated(cs) \in Seq(C) /\ Keeps(Deduplicated(cs), cs, Len(cs))
<1> DEFINE s == cs
           n == Len(s)
           W == Seq(C)
           Next1(kept, c) == IF \E i \in DOMAIN kept : CandidateKey(kept[i]) = CandidateKey(c) THEN kept
                             ELSE Append(kept, c)
           H == CHOOSE h : h = [t \in SUBSET DOMAIN s |->
                  IF t = {} THEN <<>> ELSE Next1(h[t \ {Max(t)}], s[Max(t)])]
           step == [x \in W \X (1 .. n) |-> Next1(x[1], s[x[2]])]
<1>1. n \in Nat /\ DOMAIN s = 1 .. n /\ \A i \in 1 .. n : s[i] \in C
  OBVIOUS
<1>2. Deduplicated(cs) = H[DOMAIN s]
  BY DEF Deduplicated, FoldLeft, MapThenFoldSet
<1>3. <<>> \in W
  OBVIOUS
<1>a. \A kept \in W : \A x \in C : Next1(kept, x) \in W
  OBVIOUS
<1> HIDE DEF Next1
<1>4. step \in [W \X (1 .. n) -> W]
  <2> HIDE DEF W
  <2>1. QED BY <1>1, <1>a
<1>5. PICK h : Folds(h, n, W, <<>>, step)
  <2> HIDE DEF step, n, W
  <2>1. QED BY <1>1, <1>3, <1>4, FoldRecursion
<1> HIDE DEF W
<1>6. h = [t \in SUBSET DOMAIN s |-> IF t = {} THEN <<>> ELSE Next1(h[t \ {Max(t)}], s[Max(t)])]
  <2> HIDE DEF n, s
  <2>1. ASSUME NEW t \in SUBSET (1 .. n), t # {}
        PROVE  step[<<h[t \ {Max(t)}], Max(t)>>] = Next1(h[t \ {Max(t)}], s[Max(t)])
    <3>1. Max(t) \in 1 .. n
      BY <1>1, <2>1, GreatestUpTo
    <3>2. h[t \ {Max(t)}] \in W
      BY <1>5, <2>1 DEF Folds
    <3>3. QED BY <3>1, <3>2
  <2> HIDE DEF step
  <2>2. QED BY <1>1, <1>5, <2>1 DEF Folds
<1>7. H = [t \in SUBSET DOMAIN s |-> IF t = {} THEN <<>> ELSE Next1(H[t \ {Max(t)}], s[Max(t)])]
  <2> HIDE DEF s
  <2>1. QED BY <1>6
<1> HIDE DEF H, step
<1> DEFINE T == {k \in Nat : k <= n => H[1 .. k] \in W /\ Keeps(H[1 .. k], s, k)}
<1>8. 0 \in T
  <2>1. 1 .. 0 = {} /\ {} \in SUBSET DOMAIN s
    BY UpTo
  <2>2. H[1 .. 0] = <<>>
    BY <1>7, <2>1
  <2>3. Keeps(<<>>, s, 0)
    BY <2>1 DEF Keeps
  <2>4. QED BY <1>3, <2>2, <2>3
<1>9. ASSUME NEW k \in Nat, k < n PROVE H[1 .. (k + 1)] = Next1(H[1 .. k], s[k + 1])
  <2>1. 1 .. (k + 1) \in SUBSET DOMAIN s
    BY <1>1, <1>9
  <2>2. Max(1 .. (k + 1)) = k + 1 /\ (1 .. (k + 1)) \ {k + 1} = 1 .. k /\ 1 .. (k + 1) # {}
    BY UpTo
  <2>3. QED BY <1>7, <2>1, <2>2
<1> HIDE DEF n, s
<1>10. ASSUME NEW k \in Nat, k \in T PROVE k + 1 \in T
  <2>1. ASSUME k + 1 <= n PROVE H[1 .. (k + 1)] \in W /\ Keeps(H[1 .. (k + 1)], s, k + 1)
    <3>1. k < n /\ k <= n /\ k + 1 \in 1 .. n
      BY <1>1, <2>1
    <3>2. H[1 .. k] \in W /\ Keeps(H[1 .. k], s, k) /\ s[k + 1] \in C
      BY <1>1, <1>10, <3>1
    <3> DEFINE a == H[1 .. k]
               b == H[1 .. (k + 1)]
               c == s[k + 1]
    <3>3. b = Next1(a, c)
      BY <1>9, <3>1
    <3>4. a \in W /\ Keeps(a, s, k) /\ c \in C /\ c = s[k + 1]
      BY <3>2
    <3> HIDE DEF a, b, c
    <3>5. b \in W
      BY <1>a, <3>3, <3>4
    <3>6. Len(a) \in Nat /\ DOMAIN a = 1 .. Len(a)
      BY <3>4 DEF W
    <3>7. CASE \E i \in DOMAIN a : CandidateKey(a[i]) = CandidateKey(c)
      <4>1. b = a
        BY <3>3, <3>7 DEF Next1
      <4>2. \A j \in 1 .. (k + 1) : j \in 1 .. k \/ j = k + 1
        OBVIOUS
      <4>3. 1 .. k \subseteq 1 .. (k + 1) /\ k <= k + 1
        OBVIOUS
      <4>4. Len(a) <= k + 1
        BY <3>4, <3>6 DEF Keeps
      <4>5. \A j \in 1 .. (k + 1) : \E i \in 1 .. Len(a) : CandidateKey(a[i]) = CandidateKey(s[j])
        BY <3>4, <3>6, <3>7, <4>2 DEF Keeps
      <4>6. Keeps(a, s, k + 1)
        BY <3>4, <4>3, <4>4, <4>5 DEF Keeps
      <4>7. QED BY <3>5, <4>1, <4>6 DEF b
    <3>8. CASE ~\E i \in DOMAIN a : CandidateKey(a[i]) = CandidateKey(c)
      <4>1. b = Append(a, c)
        BY <3>3, <3>8 DEF Next1
      <4>2. /\ Len(b) = Len(a) + 1 /\ b[Len(a) + 1] = c
            /\ \A i \in 1 .. Len(a) : b[i] = a[i]
        BY <3>4, <4>1 DEF W
      <4>3. \A i \in 1 .. Len(b) : i \in 1 .. Len(a) \/ i = Len(a) + 1
        BY <3>6, <4>2
      <4>4. \A j \in 1 .. (k + 1) : j \in 1 .. k \/ j = k + 1
        OBVIOUS
      <4>5. 1 .. k \subseteq 1 .. (k + 1) /\ k + 1 \in 1 .. (k + 1) /\ 1 .. Len(a) \subseteq 1 .. Len(b) /\ Len(a) + 1 \in 1 .. Len(b)
        BY <3>6, <4>2
      <4>6. Len(b) <= k + 1
        BY <3>4, <3>6, <4>2 DEF Keeps
      <4>7. \A i \in 1 .. Len(b) : \E j \in 1 .. (k + 1) : b[i] = s[j]
        BY <3>4, <4>2, <4>3, <4>5 DEF Keeps
      <4>8. \A j \in 1 .. (k + 1) : \E i \in 1 .. Len(b) : CandidateKey(b[i]) = CandidateKey(s[j])
        <5> TAKE j \in 1 .. (k + 1)
        <5>1. CASE j = k + 1
          BY <3>4, <4>2, <4>5, <5>1
        <5>2. CASE j \in 1 .. k
          <6>1. PICK i \in 1 .. Len(a) : CandidateKey(a[i]) = CandidateKey(s[j])
            BY <3>4, <5>2 DEF Keeps
          <6>2. QED BY <4>2, <4>5, <6>1
        <5>3. QED BY <4>4, <5>1, <5>2
      <4>9. \A i, j \in 1 .. Len(b) : i # j => CandidateKey(b[i]) # CandidateKey(b[j])
        <5> SUFFICES ASSUME NEW i \in 1 .. Len(b), NEW j \in 1 .. Len(b), i # j
                     PROVE  CandidateKey(b[i]) # CandidateKey(b[j])
          OBVIOUS
        <5>1. CASE i \in 1 .. Len(a) /\ j \in 1 .. Len(a)
          BY <3>4, <4>2, <5>1 DEF Keeps
        <5>2. CASE i \in 1 .. Len(a) /\ j = Len(a) + 1
          BY <3>6, <3>8, <4>2, <5>2
        <5>3. CASE j \in 1 .. Len(a) /\ i = Len(a) + 1
          BY <3>6, <3>8, <4>2, <5>3
        <5>4. QED BY <4>3, <5>1, <5>2, <5>3
      <4>10. Keeps(b, s, k + 1)
        BY <4>6, <4>7, <4>8, <4>9 DEF Keeps
      <4>11. QED BY <3>5, <4>10 DEF b
    <3>9. QED BY <3>7, <3>8
  <2>2. QED BY <2>1
<1>11. n \in T
  <2> HIDE DEF T
  <2>1. QED BY <1>1, <1>8, <1>10, SetInduction
<1>12. H[1 .. n] \in W /\ Keeps(H[1 .. n], s, n)
  BY <1>1, <1>11
<1>13. QED BY <1>1, <1>2, <1>12 DEF W, n, s

\* The first k dimensions have one of their values in c, what is not listed is the base's.
Chosen(c, base, dimensions, k) ==
  \A d \in DOMAIN base :
    \/ \E i \in 1 .. k : Canonical[dimensions[i].name] = d /\ c[d] \in ToSet(dimensions[i].values)
    \/ c[d] = base[d] /\ \A i \in 1 .. k : Canonical[dimensions[i].name] # d

\* No two dimensions are one.
Distinct(dimensions) ==
  \A i, j \in DOMAIN dimensions :
    i # j => Canonical[dimensions[i].name] # Canonical[dimensions[j].name]

\* The next dimension replaces the value of the base.
ChosenNext(c, base, dimensions, k, C) ==
  Chosen(c, base, dimensions, k + 1)
    <=> \E o \in C, v \in ToSet(dimensions[k + 1].values) :
          /\ c = [o EXCEPT ![Canonical[dimensions[k + 1].name]] = v]
          /\ Chosen(o, base, dimensions, k)

\* It does, as no other dimension has its name.
LEMMA ChosenOn ==
  ASSUME NEW D, NEW V, NEW N, NEW base \in [D -> V], NEW dimensions \in Seq(Dimensions(N, V)),
         \A a \in N : Canonical[a] \in D, Distinct(dimensions),
         NEW k \in Nat, k < Len(dimensions), NEW c \in [D -> V]
  PROVE  ChosenNext(c, base, dimensions, k, [D -> V])
<1> DEFINE name(i) == Canonical[dimensions[i].name]
           list(i) == ToSet(dimensions[i].values)
           d == name(k + 1)
<1>1. DOMAIN base = D /\ (\A i \in 1 .. k + 1 : name(i) \in D /\ list(i) \subseteq V)
      /\ \A i \in 1 .. k : name(i) # d
  <2>1. DOMAIN dimensions = 1 .. Len(dimensions) /\ Len(dimensions) \in Nat
    OBVIOUS
  <2>2. 1 .. k + 1 \subseteq DOMAIN dimensions /\ 1 .. k \subseteq DOMAIN dimensions /\ k + 1 \in DOMAIN dimensions
    BY <2>1
  <2>3. \A i \in 1 .. k : i # k + 1
    OBVIOUS
  <2>4. \A i \in 1 .. k + 1 : dimensions[i].name \in N /\ dimensions[i].values \in Seq(V)
    <3>1. \A i \in DOMAIN dimensions : dimensions[i] \in Dimensions(N, V)
      OBVIOUS
    <3>2. QED BY <2>2, <3>1 DEF Dimensions
  <2>5. \A i \in 1 .. k + 1 : list(i) \subseteq V
    BY <2>4 DEF ToSet
  <2>6. QED BY <2>2, <2>3, <2>4, <2>5 DEF Distinct
<1>2. \A i \in 1 .. k + 1 : i \in 1 .. k \/ i = k + 1
  OBVIOUS
<1>3. 1 .. k \subseteq 1 .. k + 1 /\ k + 1 \in 1 .. k + 1
  OBVIOUS
<1>4. \A o, m : Chosen(o, base, dimensions, m) <=>
        \A e \in D : \/ \E i \in 1 .. m : name(i) = e /\ o[e] \in list(i)
                     \/ o[e] = base[e] /\ \A i \in 1 .. m : name(i) # e
  BY <1>1 DEF Chosen
<1> HIDE DEF name, list
<1>5. ASSUME NEW o \in [D -> V], NEW v \in list(k + 1), c = [o EXCEPT ![d] = v], Chosen(o, base, dimensions, k)
      PROVE  Chosen(c, base, dimensions, k + 1)
  <2>1. ASSUME NEW e \in D
        PROVE  \/ \E i \in 1 .. k + 1 : name(i) = e /\ c[e] \in list(i)
               \/ c[e] = base[e] /\ \A i \in 1 .. k + 1 : name(i) # e
    <3>1. CASE e = d
      <4>1. c[e] \in list(k + 1)
        BY <1>5, <3>1
      <4>2. QED BY <1>3, <3>1, <4>1
    <3>2. CASE e # d
      <4>1. c[e] = o[e]
        BY <1>5, <3>2
      <4>2. QED BY <1>2, <1>3, <1>4, <1>5, <3>2, <4>1
    <3>3. QED BY <3>1, <3>2
  <2>2. QED BY <1>4, <2>1
<1>6. ASSUME Chosen(c, base, dimensions, k + 1)
      PROVE  \E o \in [D -> V], v \in list(k + 1) : c = [o EXCEPT ![d] = v] /\ Chosen(o, base, dimensions, k)
  <2> DEFINE o == [c EXCEPT ![d] = base[d]]
  <2>1. d \in D
    BY <1>1, <1>3
  <2>2. o \in [D -> V] /\ o[d] = base[d] /\ \A e \in D : e # d => o[e] = c[e]
    BY <2>1
  <2>3. c = [o EXCEPT ![d] = c[d]]
    BY <2>1
  <2>4. c[d] \in list(k + 1)
    BY <1>1, <1>2, <1>3, <1>4, <1>6, <2>1
  <2> HIDE DEF o
  <2>5. ASSUME NEW e \in D
        PROVE  \/ \E i \in 1 .. k : name(i) = e /\ o[e] \in list(i)
               \/ o[e] = base[e] /\ \A i \in 1 .. k : name(i) # e
    <3>1. CASE e = d
      BY <1>1, <2>2, <3>1
    <3>2. CASE e # d
      BY <1>2, <1>3, <1>4, <1>6, <2>2, <3>2
    <3>3. QED BY <3>1, <3>2
  <2>6. Chosen(o, base, dimensions, k)
    BY <1>4, <2>5
  <2>7. QED BY <2>2, <2>3, <2>4, <2>6
<1>7. QED BY <1>5, <1>6 DEF ChosenNext, name, list

\* Before their keys are compared, the candidates are the combinations.
AllChosen(all, base, dimensions, C) ==
  /\ all \in Seq(C) /\ Len(all) = Product([i \in DOMAIN dimensions |-> Len(dimensions[i].values)])
  /\ \A c : c \in ToSet(all) <=> c \in C /\ Chosen(c, base, dimensions, Len(dimensions))

\* They are, and as many as is counted.
LEMMA AllAreChosen ==
  ASSUME NEW D, NEW V, NEW N, NEW base \in [D -> V], NEW dimensions \in Seq(Dimensions(N, V)),
         \A a \in N : Canonical[a] \in D, Distinct(dimensions)
  PROVE  AllChosen(FoldLeft(LAMBDA cs, d : Expand(cs, Canonical[d.name], d.values), <<base>>, dimensions),
                   base, dimensions, [D -> V])
<1> DEFINE C == [D -> V]
           n == Len(dimensions)
           sizes == [i \in DOMAIN dimensions |-> Len(dimensions[i].values)]
           name(i) == Canonical[dimensions[i].name]
           list(i) == dimensions[i].values
<1>1. /\ n \in Nat /\ DOMAIN dimensions = 1 .. n
      /\ \A i \in 1 .. n : name(i) \in D /\ list(i) \in Seq(V) /\ Len(list(i)) \in Nat
  <2>1. \A i \in DOMAIN dimensions : dimensions[i] \in Dimensions(N, V)
    OBVIOUS
  <2>2. \A i \in DOMAIN dimensions : dimensions[i].name \in N /\ dimensions[i].values \in Seq(V)
    BY <2>1 DEF Dimensions
  <2>3. QED BY <2>2
<1>2. sizes \in Seq(Nat) /\ Len(sizes) = n /\ \A i \in 1 .. n : sizes[i] = Len(list(i))
  <2>1. sizes \in [1 .. n -> Nat] /\ \A i \in 1 .. n : sizes[i] = Len(list(i))
    BY <1>1
  <2> HIDE DEF sizes, n
  <2>2. QED BY <1>1, <2>1
<1>3. PICK count : Multiplies(count, sizes)
  <2> HIDE DEF sizes
  <2>1. QED BY <1>2, Multiplying
<1>4. PICK run : Expands(run, base, dimensions, C)
  BY Expanding
<1> HIDE DEF sizes
<1>5. /\ run \in [Nat -> Seq(C)] /\ run[0] = <<base>>
      /\ \A k \in Nat : k < n => run[k + 1] = Expand(run[k], name(k + 1), list(k + 1))
  BY <1>4 DEF Expands
<1>6. /\ count[0] = 1
      /\ \A k \in Nat : k < n => count[k + 1] = count[k] * Len(list(k + 1))
  <2>1. \A k \in Nat : k < n => k + 1 \in 1 .. n
    BY <1>1
  <2>2. QED BY <1>2, <1>3, <2>1 DEF Multiplies
<1> DEFINE T == {k \in Nat : k <= n =>
                   /\ Len(run[k]) = count[k]
                   /\ \A c : c \in ToSet(run[k]) <=> c \in C /\ Chosen(c, base, dimensions, k)}
<1>7. 0 \in T
  <2>1. Len(<<base>>) = 1 /\ ToSet(<<base>>) = {base}
    BY DEF ToSet
  <2>2. \A c \in C : Chosen(c, base, dimensions, 0) <=> c = base
    <3> TAKE c \in C
    <3>1. DOMAIN base = D /\ 1 .. 0 = {}
      OBVIOUS
    <3>2. Chosen(c, base, dimensions, 0) <=> \A d \in D : c[d] = base[d]
      BY <3>1 DEF Chosen
    <3>3. QED BY <3>2
  <2>3. base \in C
    OBVIOUS
  <2>4. \A c : c \in ToSet(run[0]) <=> c \in C /\ Chosen(c, base, dimensions, 0)
    BY <1>5, <2>1, <2>2, <2>3
  <2>5. QED BY <1>5, <1>6, <2>1, <2>4
<1> HIDE DEF n, name, list
<1>8. ASSUME NEW k \in Nat, k \in T PROVE k + 1 \in T
  <2>1. ASSUME k + 1 <= n
        PROVE  /\ Len(run[k + 1]) = count[k + 1]
               /\ \A c : c \in ToSet(run[k + 1]) <=> c \in C /\ Chosen(c, base, dimensions, k + 1)
    <3>1. k < n /\ k <= n /\ k + 1 \in 1 .. n
      BY <1>1, <2>1
    <3>2. /\ Len(run[k]) = count[k]
          /\ \A c : c \in ToSet(run[k]) <=> c \in C /\ Chosen(c, base, dimensions, k)
      BY <1>8, <3>1
    <3>3. run[k] \in Seq(C) /\ name(k + 1) \in D /\ list(k + 1) \in Seq(V)
      BY <1>1, <1>5, <3>1
    <3>4. Expanded(run[k], name(k + 1), list(k + 1), run[k + 1], C)
      <4>1. Expanded(run[k], name(k + 1), list(k + 1), Expand(run[k], name(k + 1), list(k + 1)), C)
        BY <3>3, ExpandIs
      <4>2. QED BY <1>5, <3>1, <4>1
    <3>5. Len(run[k + 1]) = count[k + 1]
      BY <1>6, <3>1, <3>2, <3>4 DEF Expanded
    <3>6. ASSUME NEW c PROVE c \in ToSet(run[k + 1]) <=> c \in C /\ Chosen(c, base, dimensions, k + 1)
      <4>1. c \in ToSet(run[k + 1]) <=> \E o \in ToSet(run[k]), v \in ToSet(list(k + 1)) : c = [o EXCEPT ![name(k + 1)] = v]
        BY <3>4 DEF Expanded
      <4>2. \A v \in ToSet(list(k + 1)) : v \in V
        BY <3>3 DEF ToSet
      <4>3. \A o \in C : \A v \in V : [o EXCEPT ![name(k + 1)] = v] \in C
        BY <3>3
      <4>4. c \in C => (Chosen(c, base, dimensions, k + 1)
                          <=> \E o \in C, v \in ToSet(list(k + 1)) :
                                c = [o EXCEPT ![name(k + 1)] = v] /\ Chosen(o, base, dimensions, k))
        <5>1. k < Len(dimensions)
          BY <3>1 DEF n
        <5>2. ASSUME c \in [D -> V] PROVE ChosenNext(c, base, dimensions, k, [D -> V])
          <6> HIDE DEF C, T
          <6>1. QED BY <5>1, <5>2, ChosenOn
        <5>3. QED BY <5>2 DEF ChosenNext, name, list
      <4>5. c \in ToSet(run[k + 1]) <=> \E o \in C, v \in ToSet(list(k + 1)) :
                                c = [o EXCEPT ![name(k + 1)] = v] /\ Chosen(o, base, dimensions, k)
        <5> HIDE DEF C, T
        <5>1. QED BY <3>2, <4>1
      <4>6. c \in ToSet(run[k + 1]) => c \in C
        <5> HIDE DEF C, T
        <5>1. QED BY <4>2, <4>3, <4>5
      <4> HIDE DEF C, T
      <4>7. QED BY <4>4, <4>5, <4>6
    <3>7. QED BY <3>5, <3>6
  <2>2. QED BY <2>1
<1>9. n \in T
  <2> HIDE DEF T
  <2>1. QED BY <1>1, <1>7, <1>8, SetInduction
<1>10. /\ Len(run[n]) = count[n] /\ run[n] \in Seq(C)
       /\ \A c : c \in ToSet(run[n]) <=> c \in C /\ Chosen(c, base, dimensions, n)
  BY <1>1, <1>5, <1>9
<1>11. count[n] = Product(sizes)
  BY <1>2, <1>3 DEF Multiplies
<1>12. AllChosen(run[n], base, dimensions, C)
  BY <1>10, <1>11 DEF AllChosen, sizes, n
<1>13. FoldLeft(LAMBDA cs, d : Expand(cs, Canonical[d.name], d.values), <<base>>, dimensions) = run[n]
  BY <1>4 DEF Expands, n
<1> HIDE DEF C
<1>14. QED BY <1>12, <1>13 DEF C

\* The reference is the same set.
LEMMA CombinationsAreChosen ==
  ASSUME NEW D, NEW V, NEW N, NEW base \in [D -> V], NEW dimensions \in Seq(Dimensions(N, V)),
         \A a \in N : Canonical[a] \in D, Distinct(dimensions)
  PROVE  \A c : c \in Combinations(base, dimensions)
                  <=> c \in [D -> V] /\ Chosen(c, base, dimensions, Len(dimensions))
<1> DEFINE n == Len(dimensions)
           name(i) == Canonical[dimensions[i].name]
           list(i) == ToSet(dimensions[i].values)
           Picks == {f \in [1 .. n -> UNION {list(i) : i \in 1 .. n}] : \A i \in 1 .. n : f[i] \in list(i)}
           At(d) == {i \in 1 .. n : name(i) = d}
           combined(f) == [d \in D |-> IF At(d) = {} THEN base[d] ELSE f[CHOOSE i \in At(d) : TRUE]]
<1>1. /\ n \in Nat /\ DOMAIN dimensions = 1 .. n /\ DOMAIN base = D
      /\ \A i \in 1 .. n : name(i) \in D /\ \A v \in list(i) : v \in V
  <2>1. \A i \in DOMAIN dimensions : dimensions[i] \in Dimensions(N, V)
    OBVIOUS
  <2>2. \A i \in DOMAIN dimensions : dimensions[i].name \in N /\ dimensions[i].values \in Seq(V)
    BY <2>1 DEF Dimensions
  <2>3. QED BY <2>2 DEF ToSet
<1>2. \A i, j \in 1 .. n : name(i) = name(j) => i = j
  BY <1>1 DEF Distinct
<1>3. Combinations(base, dimensions) = {combined(f) : f \in Picks}
  BY <1>1 DEF Combinations
<1>4. \A c : Chosen(c, base, dimensions, n) <=>
        \A e \in D : \/ \E i \in 1 .. n : name(i) = e /\ c[e] \in list(i)
                     \/ c[e] = base[e] /\ \A i \in 1 .. n : name(i) # e
  BY <1>1 DEF Chosen
<1> HIDE DEF n, name, list
<1>a. \A f : \A d \in D : combined(f)[d] = IF At(d) = {} THEN base[d] ELSE f[CHOOSE i \in At(d) : TRUE]
  OBVIOUS
<1>b. \A d \in D : At(d) # {} => (CHOOSE i \in At(d) : TRUE) \in At(d)
  OBVIOUS
<1>c. \A d : \A i : i \in At(d) <=> i \in 1 .. n /\ name(i) = d
  OBVIOUS
<1> HIDE DEF At, combined
<1>5. \A f : \A d \in D :
        \/ \E i \in 1 .. n : name(i) = d /\ combined(f)[d] = f[i]
        \/ combined(f)[d] = base[d] /\ \A i \in 1 .. n : name(i) # d
  <2> TAKE f
  <2> TAKE d \in D
  <2>1. CASE At(d) = {}
    <3>1. \A i \in 1 .. n : name(i) # d
      BY <1>c, <2>1
    <3>2. combined(f)[d] = base[d]
      BY <1>a, <2>1
    <3>3. QED BY <3>1, <3>2, Zenon
  <2>2. CASE At(d) # {}
    <3>1. PICK i : i = CHOOSE j \in At(d) : TRUE
      OBVIOUS
    <3>2. i \in 1 .. n /\ name(i) = d
      BY <1>b, <1>c, <2>2, <3>1
    <3>3. combined(f)[d] = f[i]
      BY <1>a, <2>2, <3>1
    <3>4. QED BY <3>2, <3>3, Zenon
  <2>3. QED BY <2>1, <2>2
<1>6. ASSUME NEW f \in Picks PROVE combined(f) \in [D -> V] /\ Chosen(combined(f), base, dimensions, n)
  <2>1. \A i \in 1 .. n : f[i] \in list(i) /\ f[i] \in V
    BY <1>1, <1>6
  <2>2. PICK c : c = combined(f)
    OBVIOUS
  <2>3. \A d \in D : \/ \E i \in 1 .. n : name(i) = d /\ c[d] = f[i]
                     \/ c[d] = base[d] /\ \A i \in 1 .. n : name(i) # d
    <3> HIDE DEF Picks
    <3>1. \A d \in D :
            \/ \E i \in 1 .. n : name(i) = d /\ combined(f)[d] = f[i]
            \/ combined(f)[d] = base[d] /\ \A i \in 1 .. n : name(i) # d
      BY <1>5
    <3>2. \A d \in D : combined(f)[d] = c[d]
      BY <2>2
    <3>3. QED BY <3>1, <3>2
  <2>4. c = [d \in D |-> c[d]]
    BY <2>2 DEF combined
  <2> HIDE DEF combined, Picks
  <2>5. \A d \in D : c[d] \in V
    BY <2>1, <2>3
  <2>6. c \in [D -> V]
    BY <2>4, <2>5
  <2>7. Chosen(c, base, dimensions, n)
    BY <1>4, <2>1, <2>3
  <2>8. QED BY <2>2, <2>6, <2>7
<1>7. ASSUME NEW c \in [D -> V], Chosen(c, base, dimensions, n) PROVE \E f \in Picks : c = combined(f)
  <2> DEFINE f == [i \in 1 .. n |-> c[name(i)]]
  <2>1. \A i \in 1 .. n : f[i] = c[name(i)] /\ c[name(i)] \in list(i)
    <3> TAKE i \in 1 .. n
    <3>1. \E j \in 1 .. n : name(j) = name(i) /\ c[name(i)] \in list(j)
      BY <1>1, <1>4, <1>7
    <3>2. QED BY <1>2, <3>1
  <2>2. f \in Picks
    BY <2>1
  <2> HIDE DEF f
  <2>3. \A d \in D : c[d] = combined(f)[d]
    <3> HIDE DEF combined
    <3> TAKE d \in D
    <3>1. CASE \E i \in 1 .. n : name(i) = d /\ combined(f)[d] = f[i]
      BY <2>1, <3>1
    <3>2. CASE combined(f)[d] = base[d] /\ \A i \in 1 .. n : name(i) # d
      BY <1>4, <1>7, <3>2
    <3>3. QED BY <1>5, <3>1, <3>2
  <2>4. c = combined(f)
    BY <2>3 DEF combined
  <2> HIDE DEF combined, Picks
  <2>5. QED BY <2>2, <2>4
<1> HIDE DEF combined, Picks
<1>8. QED BY <1>3, <1>6, <1>7 DEF n

\* An accepted sweep tries every combination of the values it lists, once, and nothing
\* else, within its bound: for any dimensions, values and names of them.
THEOREM EveryCombinationIsTried ==
  ASSUME NEW D, NEW V, NEW N, NEW base \in [D -> V], NEW dimensions \in Seq(Dimensions(N, V)),
         \A a \in N : Canonical[a] \in D, NEW maxTrials \in Nat, NEW cap
  PROVE  TriesEveryCombination(base, dimensions, maxTrials, cap)
<1> DEFINE C == [D -> V]
           trials == Candidates(base, dimensions, maxTrials, cap)
           all == FoldLeft(LAMBDA cs, d : Expand(cs, Canonical[d.name], d.values), <<base>>, dimensions)
           Made == Combinations(base, dimensions)
<1> SUFFICES ASSUME trials # Rejected
             PROVE  /\ {CandidateKey(trials[i]) : i \in DOMAIN trials} = {CandidateKey(c) : c \in Made}
                    /\ \A i, j \in DOMAIN trials : i # j => CandidateKey(trials[i]) # CandidateKey(trials[j])
                    /\ ToSet(trials) \subseteq Made
                    /\ Len(trials) <= maxTrials
  BY DEF TriesEveryCombination
<1>1. trials = Deduplicated(all) /\ Accepted(dimensions, maxTrials, cap)
  BY DEF Candidates
<1>2. Distinct(dimensions) /\ Product([i \in DOMAIN dimensions |-> Len(dimensions[i].values)]) <= maxTrials
  BY <1>1 DEF Accepted, WithinBound, Distinct
<1>3. AllChosen(all, base, dimensions, C)
  BY <1>2, AllAreChosen
<1> HIDE DEF trials, all, Made
<1>4. all \in Seq(C) /\ Len(all) <= maxTrials /\ Len(all) \in Nat
  BY <1>2, <1>3 DEF AllChosen
<1>5. \A c : c \in ToSet(all) <=> c \in Made
  <2>1. \A c : c \in Made <=> c \in C /\ Chosen(c, base, dimensions, Len(dimensions))
    BY <1>2, CombinationsAreChosen DEF Made
  <2>2. QED BY <1>3, <2>1 DEF AllChosen
<1>6. trials \in Seq(C) /\ Keeps(trials, all, Len(all))
  BY <1>1, <1>4, DeduplicatedIs
<1>7. DOMAIN trials = 1 .. Len(trials) /\ Len(trials) \in Nat
  BY <1>6
<1>8. \A c : c \in Made <=> \E j \in 1 .. Len(all) : c = all[j]
  <2>1. DOMAIN all = 1 .. Len(all)
    BY <1>4
  <2>2. QED BY <1>5, <2>1 DEF ToSet
<1> HIDE DEF C
<1>9. \A i \in 1 .. Len(trials) : trials[i] \in Made
  BY <1>6, <1>8 DEF Keeps
<1>10. \A c \in Made : \E i \in 1 .. Len(trials) : CandidateKey(trials[i]) = CandidateKey(c)
  BY <1>6, <1>8 DEF Keeps
<1>11. {CandidateKey(trials[i]) : i \in DOMAIN trials} = {CandidateKey(c) : c \in Made}
  BY <1>7, <1>9, <1>10
<1>12. ToSet(trials) \subseteq Made
  BY <1>7, <1>9 DEF ToSet
<1>13. Len(trials) <= maxTrials
  BY <1>4, <1>6, <1>7 DEF Keeps
<1>14. \A i, j \in DOMAIN trials : i # j => CandidateKey(trials[i]) # CandidateKey(trials[j])
  BY <1>6, <1>7 DEF Keeps
<1>15. QED BY <1>11, <1>12, <1>13, <1>14
-------------------------------------------------------------------------------
(* Lines                                                                     *)

\* The last piece is a line.
Fresh(pieces) == pieces = <<>> \/ Last(Last(pieces)) = Newline

\* Pieces, and one more of the same stream.
Joined(pieces, piece) ==
    IF Fresh(pieces) THEN Append(pieces, piece)
    ELSE [pieces EXCEPT ![Len(pieces)] = @ \o piece]

\* A newline ends a piece.
Piece(Bytes) ==
    {p \in Seq(Bytes) : p # <<>> /\ \A i \in 1 .. Len(p) - 1 : p[i] # Newline}

\* One byte after the other.
Splits(run, s, Bytes) ==
  /\ run \in [Nat -> Seq(Piece(Bytes))] /\ run[0] = <<>>
  /\ \A k \in Nat : k < Len(s) => run[k + 1] = Extend(run[k], s[k + 1])
  /\ Pieces(s) = run[Len(s)]

\* The last member of a sequence is one.
LEMMA LastIs ==
  ASSUME NEW S, NEW s \in Seq(S), s # <<>>
  PROVE  Len(s) \in Nat /\ Len(s) \in 1 .. Len(s) /\ Last(s) = s[Len(s)] /\ Last(s) \in S
BY DEF Last

\* A byte leaves pieces.
LEMMA ExtendKeeps ==
  ASSUME NEW Bytes, NEW ps \in Seq(Piece(Bytes)), NEW x \in Bytes
  PROVE  Extend(ps, x) \in Seq(Piece(Bytes))
<1>1. CASE ps = <<>> \/ Last(Last(ps)) = Newline
  <2>1. <<x>> \in Piece(Bytes)
    BY DEF Piece
  <2>2. QED BY <1>1, <2>1 DEF Extend
<1>2. CASE ~(ps = <<>> \/ Last(Last(ps)) = Newline)
  <2>1. Last(ps) = ps[Len(ps)] /\ Last(ps) \in Piece(Bytes) /\ Len(ps) \in 1 .. Len(ps)
    BY <1>2, LastIs
  <2> DEFINE p == ps[Len(ps)]
  <2>2. p \in Seq(Bytes) /\ p # <<>> /\ \A i \in 1 .. Len(p) - 1 : p[i] # Newline
    BY <2>1 DEF Piece
  <2>3. p[Len(p)] # Newline
    BY <1>2, <2>1, <2>2, LastIs
  <2>4. Append(p, x) \in Piece(Bytes)
    <3> HIDE DEF p
    <3>1. Append(p, x) \in Seq(Bytes) /\ Len(Append(p, x)) = Len(p) + 1 /\ Append(p, x) # <<>>
      BY <2>2
    <3>2. ASSUME NEW i \in 1 .. Len(Append(p, x)) - 1 PROVE Append(p, x)[i] # Newline
      <4>1. i \in 1 .. Len(p) /\ Append(p, x)[i] = p[i]
        BY <2>2, <3>1
      <4>2. QED BY <2>2, <2>3, <4>1
    <3>3. QED BY <3>1, <3>2 DEF Piece
  <2>5. Extend(ps, x) = [ps EXCEPT ![Len(ps)] = Append(p, x)]
    BY <1>2 DEF Extend
  <2> HIDE DEF p
  <2>6. QED BY <2>1, <2>4, <2>5
<1>3. QED BY <1>1, <1>2

\* A text falls into pieces.
LEMMA Splitting ==
  ASSUME NEW Bytes, NEW buffer \in Seq(Bytes)
  PROVE  \E run : Splits(run, buffer, Bytes)
<1> DEFINE s == buffer
           n == Len(s)
           V == Seq(Piece(Bytes))
           b == <<>>
           F == CHOOSE h : h = [t \in SUBSET DOMAIN s |->
                  IF t = {} THEN b ELSE Extend(h[t \ {Max(t)}], s[Max(t)])]
           step == [x \in V \X (1 .. n) |-> Extend(x[1], s[x[2]])]
<1>1. n \in Nat /\ DOMAIN s = 1 .. n /\ \A i \in 1 .. n : s[i] \in Bytes
  OBVIOUS
<1>2. Pieces(buffer) = F[DOMAIN s]
  BY DEF Pieces, FoldLeft, MapThenFoldSet
<1>3. b \in V
  OBVIOUS
<1>4. \A x \in V : \A y \in Bytes : Extend(x, y) \in V
  BY ExtendKeeps
<1> HIDE DEF V, b
<1>5. step \in [V \X (1 .. n) -> V]
  BY <1>1, <1>4
<1> HIDE DEF n, s
<1>6. PICK h : Folds(h, n, V, b, step)
  <2> HIDE DEF step
  <2>1. QED BY <1>1, <1>3, <1>5, FoldRecursion
<1>7. h = [t \in SUBSET DOMAIN s |-> IF t = {} THEN b ELSE Extend(h[t \ {Max(t)}], s[Max(t)])]
  <2>1. ASSUME NEW t \in SUBSET (1 .. n), t # {}
        PROVE  step[<<h[t \ {Max(t)}], Max(t)>>] = Extend(h[t \ {Max(t)}], s[Max(t)])
    <3>1. Max(t) \in 1 .. n
      BY <1>1, <2>1, GreatestUpTo
    <3>2. h[t \ {Max(t)}] \in V
      BY <1>6, <2>1 DEF Folds
    <3>3. QED BY <3>1, <3>2
  <2> HIDE DEF step
  <2>2. QED BY <1>1, <1>6, <2>1 DEF Folds
<1>8. PICK H : /\ Pieces(buffer) = H[DOMAIN s]
               /\ H = [t \in SUBSET DOMAIN s |-> IF t = {} THEN b ELSE Extend(H[t \ {Max(t)}], s[Max(t)])]
  <2>1. F = [t \in SUBSET DOMAIN s |-> IF t = {} THEN b ELSE Extend(F[t \ {Max(t)}], s[Max(t)])]
    BY <1>7
  <2> HIDE DEF F
  <2>2. QED BY <1>2, <2>1
<1> HIDE DEF F
<1>9. FoldsBy(H, n, V, b, step)
  <2>1. H[{}] = b
    BY <1>8
  <2>2. ASSUME NEW t \in SUBSET (1 .. n), t # {}, H[t \ {Max(t)}] \in V
        PROVE  H[t] = step[<<H[t \ {Max(t)}], Max(t)>>]
    <3>1. Max(t) \in 1 .. n
      BY <1>1, <2>2, GreatestUpTo
    <3>2. H[t] = Extend(H[t \ {Max(t)}], s[Max(t)])
      BY <1>1, <1>8, <2>2
    <3>3. QED BY <2>2, <3>1, <3>2
  <2> HIDE DEF step
  <2>3. QED BY <2>1, <2>2 DEF FoldsBy
<1>10. PICK run : Passes(H, run, n, V, b, step)
  <2> HIDE DEF step
  <2>1. QED BY <1>1, <1>3, <1>5, <1>9, FoldRuns
<1>11. ASSUME NEW k \in Nat, k < n PROVE run[k + 1] = Extend(run[k], s[k + 1])
  <2>1. k + 1 \in 1 .. n
    BY <1>1, <1>11
  <2>2. run[k] \in V /\ run[k + 1] = step[<<run[k], k + 1>>]
    <3> HIDE DEF step
    <3>1. QED BY <1>10, <1>11 DEF Passes
  <2>3. QED BY <2>1, <2>2
<1> HIDE DEF step
<1>12. run \in [Nat -> V] /\ run[0] = b /\ Pieces(buffer) = run[n]
  BY <1>1, <1>8, <1>10 DEF Passes
<1>13. Splits(run, buffer, Bytes)
  BY <1>1, <1>11, <1>12 DEF Splits, V, b, n, s
<1>14. QED BY <1>13

\* Pieces are sequences of bytes.
LEMMA PiecesAre ==
  ASSUME NEW Bytes, NEW ps \in Seq(Piece(Bytes))
  PROVE  ps \in Seq(Seq(Bytes))
<1>1. Len(ps) \in Nat /\ \A i \in 1 .. Len(ps) : ps[i] \in Seq(Bytes)
  BY DEF Piece
<1>2. ps \in [1 .. Len(ps) -> Seq(Bytes)]
  BY <1>1
<1>3. QED BY <1>1, <1>2, FunctionIsSequence

\* What is read of a stream.
Verdicts(Bytes) == {TooLong} \cup [kind : {"Line"}, text : Seq(Bytes)]
Reads(Bytes) == [line : Seq(Bytes), tooLong : BOOLEAN, read : Seq(Verdicts(Bytes))]

\* A line without its end is a line.
LEMMA ChompKeeps ==
  ASSUME NEW Bytes, NEW line \in Seq(Bytes), NEW byte
  PROVE  Chomp(line, byte) \in Seq(Bytes)
<1>1. CASE line # <<>>
  <2>1. Len(line) - 1 \in Nat /\ Front(line) \in Seq(Bytes)
    BY <1>1 DEF Front
  <2>2. QED BY <2>1 DEF Chomp
<1>2. QED BY <1>1 DEF Chomp

\* A piece that is taken leaves a state of the reader.
LEMMA ConsumeKeeps ==
  ASSUME NEW Bytes, NEW r \in Reads(Bytes), NEW piece \in Piece(Bytes)
  PROVE  Consume(r, piece) \in Reads(Bytes)
<1> DEFINE over == r.tooLong \/ Over(r.line, piece)
           line == IF over THEN <<>> ELSE r.line \o piece
           text == Chomp(Chomp(line, Newline), Return)
<1>1. r.line \in Seq(Bytes) /\ r.tooLong \in BOOLEAN /\ r.read \in Seq(Verdicts(Bytes)) /\ piece \in Seq(Bytes)
  BY DEF Reads, Piece
<1>2. line \in Seq(Bytes)
  BY <1>1
<1>3. over \in BOOLEAN
  BY <1>1 DEF Over
<1>4. text \in Seq(Bytes)
  <2> HIDE DEF line
  <2>1. QED BY <1>2, ChompKeeps
<1>5. (IF over THEN TooLong ELSE Line(text)) \in Verdicts(Bytes)
  <2> HIDE DEF text, over
  <2>1. QED BY <1>4 DEF Verdicts, Line
<1>6. CASE Last(piece) = Newline
  <2>1. Consume(r, piece) = [line |-> <<>>, tooLong |-> FALSE, read |-> Append(r.read, IF over THEN TooLong ELSE Line(text))]
    BY <1>6 DEF Consume
  <2> HIDE DEF text, over, line
  <2>2. QED BY <1>1, <1>5, <2>1 DEF Reads
<1>7. CASE Last(piece) # Newline
  <2>1. Consume(r, piece) = [r EXCEPT !.line = line, !.tooLong = over]
    BY <1>7 DEF Consume
  <2> HIDE DEF text, over, line
  <2>2. QED BY <1>1, <1>2, <1>3, <2>1 DEF Reads
<1>8. QED BY <1>6, <1>7

\* The lines that a stream had so far, and the unfinished one.
Standing(r, ps) ==
  /\ r.read = [i \in 1 .. (IF Fresh(ps) THEN Len(ps) ELSE Len(ps) - 1) |-> Judged(ps[i])]
  /\ Fresh(ps) => r.line = <<>> /\ r.tooLong = FALSE
  /\ ~Fresh(ps) => /\ r.tooLong = (Len(Last(ps)) > MaxBytes)
                   /\ r.line = IF Len(Last(ps)) > MaxBytes THEN <<>> ELSE Last(ps)

\* Appending to a sequence that is given by its members.
LEMMA OneMore ==
  ASSUME NEW S, NEW n \in Nat, NEW f, \A i \in 1 .. (n + 1) : f[i] \in S
  PROVE  Append([i \in 1 .. n |-> f[i]], f[n + 1]) = [i \in 1 .. (n + 1) |-> f[i]]
<1> DEFINE g == [i \in 1 .. n |-> f[i]]
<1>1. g \in Seq(S) /\ Len(g) = n
  OBVIOUS
<1>2. Append(g, f[n + 1]) \in Seq(S) /\ Len(Append(g, f[n + 1])) = n + 1
  <2> HIDE DEF g
  <2>1. QED BY <1>1
<1>3. ASSUME NEW i \in 1 .. (n + 1) PROVE Append(g, f[n + 1])[i] = f[i]
  <2>1. CASE i = n + 1
    <3> HIDE DEF g
    <3>1. QED BY <1>1, <2>1
  <2>2. CASE i # n + 1
    <3>1. i \in 1 .. n /\ g[i] = f[i]
      BY <2>2
    <3> HIDE DEF g
    <3>2. QED BY <1>1, <3>1
  <2>3. QED BY <2>1, <2>2
<1> HIDE DEF g
<1>4. Append(g, f[n + 1]) = [i \in 1 .. (n + 1) |-> f[i]]
  BY <1>2, <1>3
<1>5. QED BY <1>4 DEF g

\* Joining a piece to those before keeps what was read in step with them.
LEMMA JoinedStands ==
  ASSUME NEW Bytes, NEW r \in Reads(Bytes), NEW ps \in Seq(Piece(Bytes)), NEW p \in Piece(Bytes), Standing(r, ps)
  PROVE  Standing(Consume(r, p), Joined(ps, p))
<1> DEFINE over == r.tooLong \/ Over(r.line, p)
           line == IF over THEN <<>> ELSE r.line \o p
           whole == IF Fresh(ps) THEN p ELSE Last(ps) \o p
           n == IF Fresh(ps) THEN Len(ps) ELSE Len(ps) - 1
           qs == Joined(ps, p)
<1>1. p \in Seq(Bytes) /\ p # <<>> /\ Len(p) \in Nat /\ Len(p) > 0 /\ Last(p) = p[Len(p)]
  BY LastIs DEF Piece
<1>2. ~Fresh(ps) => /\ Last(ps) = ps[Len(ps)] /\ Len(ps) \in 1 .. Len(ps)
                    /\ Last(ps) \in Seq(Bytes)
  <2>1. ASSUME ~Fresh(ps) PROVE Last(ps) = ps[Len(ps)] /\ Len(ps) \in 1 .. Len(ps) /\ Last(ps) \in Piece(Bytes)
    BY <2>1, LastIs DEF Fresh
  <2>2. QED BY <2>1 DEF Piece
<1>3. whole \in Seq(Bytes) /\ whole # <<>> /\ Last(whole) = Last(p) /\ Len(whole) = (IF Fresh(ps) THEN 0 ELSE Len(Last(ps))) + Len(p)
  <2>1. CASE Fresh(ps)
    BY <1>1, <2>1
  <2>2. CASE ~Fresh(ps)
    <3>1. PICK q \in Seq(Bytes) : q = Last(ps)
      BY <1>2, <2>2
    <3>2. q \o p \in Seq(Bytes) /\ Len(q \o p) = Len(q) + Len(p) /\ (q \o p)[Len(q) + Len(p)] = p[Len(p)]
      BY <1>1
    <3>3. q \o p # <<>> /\ Last(q \o p) = p[Len(p)]
      BY <1>1, <3>2 DEF Last
    <3>4. QED BY <1>1, <2>2, <3>1, <3>2, <3>3
  <2>3. QED BY <2>1, <2>2
<1>4. n \in Nat /\ Len(qs) = n + 1 /\ qs[n + 1] = whole /\ \A i \in 1 .. n : qs[i] = ps[i]
  <2>1. CASE Fresh(ps)
    BY <2>1 DEF Joined
  <2>2. CASE ~Fresh(ps)
    <3>1. qs = [ps EXCEPT ![Len(ps)] = ps[Len(ps)] \o p]
      BY <2>2 DEF Joined
    <3>2. PICK w : w = ps[Len(ps)] \o p
      OBVIOUS
    <3>3. qs = [ps EXCEPT ![Len(ps)] = w] /\ whole = w /\ n = Len(ps) - 1
      BY <1>2, <2>2, <3>1, <3>2
    <3>4. ps \in Seq(Seq(Bytes)) /\ w \in Seq(Bytes)
      BY <1>3, <3>3, PiecesAre
    <3> HIDE DEF qs, whole, n
    <3>5. QED BY <1>2, <2>2, <3>3, <3>4
  <2>3. QED BY <2>1, <2>2
<1>5. qs # <<>> /\ Last(qs) = whole
  BY <1>4 DEF Last
<1>6. Fresh(qs) <=> Last(p) = Newline
  BY <1>3, <1>5 DEF Fresh
<1>7. over <=> Len(whole) > MaxBytes
  <2>1. CASE Fresh(ps)
    <3>1. r.line = <<>> /\ r.tooLong = FALSE
      BY <2>1 DEF Standing
    <3>2. QED BY <1>1, <1>3, <2>1, <3>1 DEF Over
  <2>2. CASE ~Fresh(ps)
    <3>1. /\ r.tooLong = (Len(Last(ps)) > MaxBytes)
          /\ r.line = IF Len(Last(ps)) > MaxBytes THEN <<>> ELSE Last(ps)
      BY <2>2 DEF Standing
    <3>2. PICK q \in Seq(Bytes) : q = Last(ps)
      BY <1>2, <2>2
    <3>3. r.tooLong = (Len(q) > MaxBytes) /\ r.line = (IF Len(q) > MaxBytes THEN <<>> ELSE q) /\ Len(whole) = Len(q) + Len(p)
      BY <1>3, <2>2, <3>1, <3>2
    <3>4. Len(q) \in Nat /\ Len(whole) = Len(q) + Len(p)
      BY <3>2, <3>3
    <3> HIDE DEF whole
    <3>5. CASE Len(q) > MaxBytes
      <4>1. over
        BY <3>3, <3>5
      <4> HIDE DEF over
      <4>2. QED BY <1>1, <3>4, <3>5, <4>1, LinesAssumption
    <3>6. CASE ~(Len(q) > MaxBytes)
      <4>1. r.line = q /\ ~r.tooLong
        BY <3>3, <3>6
      <4>2. QED BY <3>4, <4>1 DEF Over
    <3>7. QED BY <3>5, <3>6
  <2>3. QED BY <2>1, <2>2
<1>8. line = IF Len(whole) > MaxBytes THEN <<>> ELSE whole
  <2>1. CASE Fresh(ps)
    <3>1. r.line = <<>>
      BY <2>1 DEF Standing
    <3>2. r.line \o p = whole
      BY <1>1, <2>1, <3>1, ConcatEmptySeq
    <3> HIDE DEF whole, over
    <3>3. QED BY <1>7, <3>2
  <2>2. CASE ~Fresh(ps)
    <3>1. Len(whole) <= MaxBytes => r.line = Last(ps)
      <4>1. Len(whole) <= MaxBytes => ~(Len(Last(ps)) > MaxBytes)
        BY <1>1, <1>2, <1>3, <2>2, LinesAssumption
      <4>2. r.line = IF Len(Last(ps)) > MaxBytes THEN <<>> ELSE Last(ps)
        BY <2>2 DEF Standing
      <4> HIDE DEF whole
      <4>3. QED BY <4>1, <4>2
    <3>2. Len(whole) <= MaxBytes => r.line \o p = whole
      BY <2>2, <3>1
    <3>3. Len(whole) \in Nat
      <4> HIDE DEF whole
      <4>1. QED BY <1>3
    <3> HIDE DEF whole, over
    <3>4. CASE over
      BY <1>7, <3>4
    <3>5. CASE ~over
      BY <1>7, <3>2, <3>3, <3>5, LinesAssumption
    <3>6. QED BY <3>4, <3>5
  <2>3. QED BY <2>1, <2>2
<1>9. r.read = [i \in 1 .. n |-> Judged(qs[i])]
  <2>1. r.read = [i \in 1 .. n |-> Judged(ps[i])]
    BY DEF Standing
  <2> HIDE DEF n, qs
  <2>2. QED BY <1>4, <2>1
<1>10. CASE Last(p) = Newline
  <2> DEFINE v == IF over THEN TooLong ELSE Line(Chomp(Chomp(line, Newline), Return))
  <2>1. Consume(r, p) = [line |-> <<>>, tooLong |-> FALSE, read |-> Append(r.read, v)]
    BY <1>10 DEF Consume
  <2> HIDE DEF line, over, whole
  <2>2. v = Judged(whole)
    BY <1>3, <1>7, <1>8, <1>10 DEF Judged
  <2>3. v = Judged(qs[n + 1])
    <3> HIDE DEF v, n, qs
    <3>1. QED BY <1>4, <2>2
  <2> HIDE DEF v, n, qs
  <2>4. Append(r.read, v) = [i \in 1 .. (n + 1) |-> Judged(qs[i])]
    <3> DEFINE f == [i \in 1 .. (n + 1) |-> Judged(qs[i])]
               S == {f[i] : i \in 1 .. (n + 1)}
    <3>1. \A i \in 1 .. (n + 1) : f[i] \in S
      OBVIOUS
    <3>2. r.read = [i \in 1 .. n |-> f[i]] /\ v = f[n + 1] /\ f = [i \in 1 .. (n + 1) |-> f[i]]
      BY <1>4, <1>9, <2>3
    <3> HIDE DEF S
    <3>3. Append([i \in 1 .. n |-> f[i]], f[n + 1]) = [i \in 1 .. (n + 1) |-> f[i]]
      <4> HIDE DEF f
      <4>1. QED BY <1>4, <3>1, OneMore
    <3>4. QED BY <3>2, <3>3
  <2>5. Fresh(qs) /\ Len(qs) = n + 1
    BY <1>4, <1>6, <1>10
  <2> DEFINE c == Consume(r, p)
  <2>6. c.read = [i \in 1 .. (n + 1) |-> Judged(qs[i])] /\ c.line = <<>> /\ c.tooLong = FALSE
    BY <2>1, <2>4
  <2> HIDE DEF c
  <2>7. Standing(c, qs)
    BY <2>5, <2>6 DEF Standing
  <2>8. QED BY <2>7 DEF c, qs
<1>11. CASE Last(p) # Newline
  <2>1. Consume(r, p) = [r EXCEPT !.line = line, !.tooLong = over]
    BY <1>11 DEF Consume
  <2>2. ~Fresh(qs) /\ Len(qs) = n + 1 /\ Len(qs) - 1 = n
    BY <1>4, <1>6, <1>11
  <2> DEFINE c == Consume(r, p)
  <2>3. over \in BOOLEAN
    BY DEF Over, Reads
  <2> HIDE DEF line, over, whole, n, qs
  <2>4. c.read = r.read /\ c.line = line /\ c.tooLong = over
    BY <2>1 DEF Reads
  <2>5. over = (Len(whole) > MaxBytes)
    BY <1>7, <2>3
  <2> HIDE DEF c
  <2>6. Standing(c, qs)
    BY <1>5, <1>8, <1>9, <2>2, <2>4, <2>5 DEF Standing
  <2>7. QED BY <2>6 DEF c, qs
<1>12. QED BY <1>10, <1>11

\* The pieces cover the text one behind the other; off says where each one ends.
Tiles(ps, s, off) ==
  /\ off \in [Nat -> Nat] /\ off[0] = 0 /\ off[Len(ps)] = Len(s)
  /\ \A j \in 1 .. Len(ps) :
       /\ off[j] = off[j - 1] + Len(ps[j]) /\ off[j] <= Len(s)
       /\ \A i \in 1 .. Len(ps[j]) : s[off[j - 1] + i] = ps[j][i]

\* What this says of the numbers.
Tiled(ps, s, off, Bytes) ==
  /\ Len(ps) \in Nat /\ Len(s) \in Nat /\ ps \in Seq(Seq(Bytes))
  /\ off \in [Nat -> Nat] /\ off[0] = 0 /\ off[Len(ps)] = Len(s)
  /\ \A j \in 1 .. Len(ps) : /\ ps[j] \in Seq(Bytes) /\ Len(ps[j]) \in Nat
                             /\ j - 1 \in Nat /\ off[j - 1] \in Nat /\ off[j] \in Nat
                             /\ off[j] = off[j - 1] + Len(ps[j]) /\ off[j] <= Len(s)
  /\ \A j \in 1 .. Len(ps) : \A i \in 1 .. Len(ps[j]) :
       off[j - 1] + i \in 1 .. Len(s) /\ s[off[j - 1] + i] = ps[j][i]

\* Pieces that cover a text are sequences.
LEMMA TilesAre ==
  ASSUME NEW Bytes, NEW ps \in Seq(Piece(Bytes)), NEW s \in Seq(Bytes), NEW off, Tiles(ps, s, off)
  PROVE  Tiled(ps, s, off, Bytes)
<1>1. Len(ps) \in Nat /\ Len(s) \in Nat
  OBVIOUS
<1>2. ps \in Seq(Seq(Bytes))
  BY PiecesAre
<1>3. off \in [Nat -> Nat] /\ off[0] = 0 /\ off[Len(ps)] = Len(s)
  BY DEF Tiles
<1>4. ASSUME NEW j \in 1 .. Len(ps)
      PROVE  /\ ps[j] \in Seq(Bytes) /\ Len(ps[j]) \in Nat
             /\ j - 1 \in Nat /\ off[j - 1] \in Nat /\ off[j] \in Nat
             /\ off[j] = off[j - 1] + Len(ps[j]) /\ off[j] <= Len(s)
             /\ \A i \in 1 .. Len(ps[j]) : off[j - 1] + i \in 1 .. Len(s) /\ s[off[j - 1] + i] = ps[j][i]
  <2>1. ps[j] \in Seq(Bytes)
    BY <1>2
  <2>2. Len(ps[j]) \in Nat
    BY <2>1
  <2>3. j - 1 \in Nat /\ j \in Nat
    BY <1>1
  <2>4. off[j - 1] \in Nat /\ off[j] \in Nat
    BY <1>3, <2>3
  <2>5. /\ off[j] = off[j - 1] + Len(ps[j]) /\ off[j] <= Len(s)
        /\ \A i \in 1 .. Len(ps[j]) : s[off[j - 1] + i] = ps[j][i]
    BY DEF Tiles
  <2>6. ASSUME NEW l \in Nat, NEW o \in Nat, NEW e \in Nat, NEW m \in Nat, e = o + l, e <= m, NEW i \in 1 .. l
        PROVE  o + i \in 1 .. m
    BY <2>6
  <2>7. \A i \in 1 .. Len(ps[j]) : off[j - 1] + i \in 1 .. Len(s)
    BY <1>1, <2>2, <2>4, <2>5, <2>6
  <2>8. QED BY <2>1, <2>2, <2>3, <2>4, <2>5, <2>7
<1>5. QED BY <1>1, <1>2, <1>3, <1>4 DEF Tiled

\* One byte more,
LEMMA ExtendTiles ==
  ASSUME NEW Bytes, NEW ps \in Seq(Piece(Bytes)), NEW s \in Seq(Bytes), NEW x \in Bytes,
         NEW off, Tiles(ps, s, off)
  PROVE  \E next : Tiles(Extend(ps, x), Append(s, x), next)
<1> DEFINE n == Len(ps)
           m == Len(s)
           t == Append(s, x)
           qs == Extend(ps, x)
<1>0. Tiled(ps, s, off, Bytes)
  BY TilesAre
<1>1. /\ n \in Nat /\ m \in Nat /\ ps \in Seq(Seq(Bytes)) /\ off \in [Nat -> Nat] /\ off[0] = 0 /\ off[n] = m
      /\ \A j \in 1 .. n : ps[j] \in Seq(Bytes) /\ Len(ps[j]) \in Nat
  BY <1>0 DEF Tiled
<1>2. \A j \in 1 .. n : /\ off[j] = off[j - 1] + Len(ps[j]) /\ off[j] <= m /\ j - 1 \in Nat
                        /\ off[j - 1] \in Nat /\ off[j] \in Nat
                        /\ \A i \in 1 .. Len(ps[j]) : off[j - 1] + i \in 1 .. m /\ s[off[j - 1] + i] = ps[j][i]
  BY <1>0 DEF Tiled
<1>3. Len(t) = m + 1 /\ t[m + 1] = x /\ \A i \in 1 .. m : t[i] = s[i]
  OBVIOUS
<1>4. \A j \in 1 .. n : \A i \in 1 .. Len(ps[j]) : t[off[j - 1] + i] = ps[j][i]
  <2> HIDE DEF n, m, t
  <2>1. QED BY <1>2, <1>3
<1>5. CASE Fresh(ps)
  <2> DEFINE next == [off EXCEPT ![n + 1] = m + 1]
  <2>1. qs = Append(ps, <<x>>)
    BY <1>5 DEF Extend, Fresh
  <2>2. Len(qs) = n + 1 /\ qs[n + 1] = <<x>> /\ \A j \in 1 .. n : qs[j] = ps[j]
    <3>1. <<x>> \in Seq(Bytes)
      OBVIOUS
    <3>2. QED BY <1>1, <2>1, <3>1
  <2>3. next \in [Nat -> Nat] /\ next[0] = 0 /\ next[n + 1] = m + 1 /\ \A j \in 0 .. n : next[j] = off[j]
    <3> HIDE DEF n, m
    <3>1. QED BY <1>1
  <2> HIDE DEF n, m, t, qs, next
  <2>4. ASSUME NEW j \in 1 .. (n + 1)
        PROVE  /\ next[j] = next[j - 1] + Len(qs[j]) /\ next[j] <= Len(t)
               /\ \A i \in 1 .. Len(qs[j]) : t[next[j - 1] + i] = qs[j][i]
    <3>1. CASE j = n + 1
      <4>1. Len(<<x>>) = 1 /\ <<x>>[1] = x
        OBVIOUS
      <4>2. next[n] = m /\ n + 1 - 1 = n
        BY <1>1, <2>3
      <4>3. /\ next[n + 1] = next[n] + Len(qs[n + 1]) /\ next[n + 1] <= Len(t)
            /\ \A i \in 1 .. Len(qs[n + 1]) : i = 1
        BY <1>1, <1>3, <2>2, <2>3, <4>1, <4>2
      <4>4. t[next[n] + 1] = qs[n + 1][1]
        BY <1>3, <2>2, <4>1, <4>2
      <4>5. \A i \in 1 .. Len(qs[n + 1]) : t[next[n] + i] = qs[n + 1][i]
        BY <4>3, <4>4
      <4>6. QED
        <5>1. n + 1 = j /\ n = j - 1
          BY <1>1, <3>1
        <5>2. QED BY <4>3, <4>5, <5>1
    <3>2. CASE j # n + 1
      <4>1. j \in 1 .. n /\ j \in 0 .. n /\ j - 1 \in 0 .. n
        BY <1>1, <3>2
      <4>2. next[j] = off[j] /\ next[j - 1] = off[j - 1] /\ qs[j] = ps[j]
        BY <2>2, <2>3, <4>1
      <4>3. off[j] <= m + 1
        <5>1. \A a, b \in Nat : a <= b => a <= b + 1
          OBVIOUS
        <5>2. off[j] \in Nat /\ off[j] <= m
          BY <1>2, <4>1
        <5>3. QED BY <1>1, <5>1, <5>2
      <4>4. QED BY <1>2, <1>3, <1>4, <4>1, <4>2, <4>3
    <3>3. QED BY <3>1, <3>2
  <2>5. Tiles(qs, t, next)
    BY <1>1, <1>3, <2>2, <2>3, <2>4 DEF Tiles
  <2>6. QED BY <2>5 DEF qs, t
<1>6. CASE ~Fresh(ps)
  <2> DEFINE next == [off EXCEPT ![n] = m + 1]
             w == Append(ps[n], x)
  <2>1. qs = [ps EXCEPT ![n] = w] /\ n # 0
    BY <1>6 DEF Extend, Fresh
  <2>2. w \in Seq(Bytes) /\ Len(w) = Len(ps[n]) + 1 /\ w[Len(ps[n]) + 1] = x /\ \A i \in 1 .. Len(ps[n]) : w[i] = ps[n][i]
    <3>1. ps[n] \in Seq(Bytes)
      BY <1>1, <2>1
    <3>2. QED BY <3>1
  <2> HIDE DEF w
  <2>3. Len(qs) = n /\ qs[n] = w /\ \A j \in 1 .. n : j # n => qs[j] = ps[j]
    <3>1. n \in 1 .. Len(ps) /\ Len(ps) = n
      BY <1>1, <2>1
    <3>2. PICK c : c = n
      OBVIOUS
    <3>3. qs = [ps EXCEPT ![c] = w] /\ c \in 1 .. Len(ps) /\ ps \in Seq(Seq(Bytes)) /\ w \in Seq(Bytes)
      BY <1>1, <2>1, <2>2, <3>1, <3>2
    <3> HIDE DEF qs, n
    <3>4. Len(qs) = Len(ps) /\ qs[c] = w /\ \A j \in 1 .. Len(ps) : j # c => qs[j] = ps[j]
      BY <3>3
    <3>5. QED BY <3>1, <3>2, <3>4
  <2>4. next \in [Nat -> Nat] /\ next[0] = 0 /\ next[n] = m + 1 /\ \A j \in 0 .. n : j # n => next[j] = off[j]
    BY <1>1, <2>1
  <2> HIDE DEF n, m, t, qs, next
  <2>5. ASSUME NEW j \in 1 .. n
        PROVE  /\ next[j] = next[j - 1] + Len(qs[j]) /\ next[j] <= Len(t)
               /\ \A i \in 1 .. Len(qs[j]) : t[next[j - 1] + i] = qs[j][i]
    <3>1. CASE j = n
      <4>1. next[n - 1] = off[n - 1] /\ m = off[n - 1] + Len(ps[n]) /\ n - 1 \in Nat /\ off[n - 1] \in Nat /\ Len(ps[n]) \in Nat
        <5>1. n \in 1 .. n /\ n - 1 \in 0 .. n /\ n - 1 # n
          BY <1>1, <2>1
        <5>2. QED BY <1>1, <1>2, <2>4, <5>1
      <4>2. next[n] = next[n - 1] + Len(qs[n])
        <5>1. \A a, b, c \in Nat : c = a + b => c + 1 = a + (b + 1)
          OBVIOUS
        <5>2. m + 1 = off[n - 1] + (Len(ps[n]) + 1)
          <6>1. PICK a \in Nat, b \in Nat : a = off[n - 1] /\ b = Len(ps[n])
            BY <4>1
          <6>2. m = a + b
            BY <4>1, <6>1
          <6>3. m + 1 = a + (b + 1)
            BY <6>2
          <6>4. QED BY <6>1, <6>3
        <5>3. next[n] = m + 1 /\ next[n - 1] = off[n - 1] /\ Len(qs[n]) = Len(ps[n]) + 1
          BY <2>2, <2>3, <2>4, <4>1
        <5>4. QED BY <5>2, <5>3
      <4>3. ASSUME NEW i \in 1 .. Len(qs[n]) PROVE t[next[n - 1] + i] = qs[n][i]
        <5>1. CASE i = Len(ps[n]) + 1
          <6>1. next[n - 1] + i = m + 1
            BY <4>1, <5>1
          <6>2. QED BY <1>3, <2>2, <2>3, <5>1, <6>1
        <5>2. CASE i # Len(ps[n]) + 1
          <6>1. i \in 1 .. Len(ps[n])
            BY <2>2, <2>3, <4>1, <5>2
          <6>2. n \in 1 .. n
            BY <1>1, <2>1
          <6>3. QED BY <1>4, <2>2, <2>3, <4>1, <6>1, <6>2
        <5>3. QED BY <5>1, <5>2
      <4>4. QED BY <1>1, <1>3, <2>4, <3>1, <4>2, <4>3
    <3>2. CASE j # n
      <4>1. j \in 0 .. n /\ j - 1 \in 0 .. n /\ j - 1 # n
        BY <1>1, <3>2
      <4>2. next[j] = off[j] /\ next[j - 1] = off[j - 1] /\ qs[j] = ps[j]
        BY <2>3, <2>4, <3>2, <4>1
      <4>3. off[j] <= m + 1
        <5>1. \A a, b \in Nat : a <= b => a <= b + 1
          OBVIOUS
        <5>2. off[j] \in Nat /\ off[j] <= m
          BY <1>2
        <5>3. QED BY <1>1, <5>1, <5>2
      <4>4. QED BY <1>2, <1>3, <1>4, <4>2, <4>3
    <3>3. QED BY <3>1, <3>2
  <2>6. Tiles(qs, t, next)
    BY <1>1, <1>3, <2>3, <2>4, <2>5 DEF Tiles
  <2>7. QED BY <2>6 DEF qs, t
<1>7. QED BY <1>5, <1>6

\* and a whole buffer more.
LEMMA ConcatTiles ==
  ASSUME NEW Bytes, NEW ps \in Seq(Piece(Bytes)), NEW s \in Seq(Bytes), NEW off, Tiles(ps, s, off),
         NEW qs \in Seq(Piece(Bytes)), NEW t \in Seq(Bytes), NEW more, Tiles(qs, t, more)
  PROVE  \E next : Tiles(ps \o qs, s \o t, next)
<1> DEFINE n == Len(ps)
           m == Len(s)
           all == ps \o qs
           u == s \o t
           next == [j \in Nat |-> IF j <= n THEN off[j] ELSE m + more[j - n]]
<1>0. Tiled(ps, s, off, Bytes)
  BY TilesAre
<1>a. Tiled(qs, t, more, Bytes)
  BY TilesAre
<1>1. /\ n \in Nat /\ m \in Nat /\ ps \in Seq(Seq(Bytes)) /\ off \in [Nat -> Nat] /\ off[0] = 0 /\ off[n] = m
      /\ \A j \in 1 .. n : ps[j] \in Seq(Bytes) /\ Len(ps[j]) \in Nat
  BY <1>0 DEF Tiled
<1>2. /\ Len(qs) \in Nat /\ Len(t) \in Nat /\ qs \in Seq(Seq(Bytes)) /\ more \in [Nat -> Nat]
      /\ more[0] = 0 /\ more[Len(qs)] = Len(t)
      /\ \A j \in 1 .. Len(qs) : qs[j] \in Seq(Bytes) /\ Len(qs[j]) \in Nat
  BY <1>a DEF Tiled
<1>3. /\ Len(all) = n + Len(qs) /\ (\A j \in 1 .. n : all[j] = ps[j])
      /\ \A j \in 1 .. Len(qs) : all[n + j] = qs[j]
  <2>1. Len(all) = Len(ps) + Len(qs) /\ \A j \in 1 .. Len(all) : all[j] = IF j <= Len(ps) THEN ps[j] ELSE qs[j - Len(ps)]
    BY <1>1, <1>2
  <2> HIDE DEF all
  <2>2. ASSUME NEW j \in 1 .. n PROVE all[j] = ps[j]
    <3>1. j \in 1 .. Len(all) /\ j <= Len(ps)
      BY <1>1, <1>2, <2>1
    <3>2. QED BY <2>1, <3>1
  <2>3. ASSUME NEW j \in 1 .. Len(qs) PROVE all[n + j] = qs[j]
    <3>0. \A a, b \in Nat : \A c \in 1 .. b : a + c \in 1 .. (a + b) /\ ~(a + c <= a) /\ a + c - a = c
      OBVIOUS
    <3>1. PICK k : k = n + j
      OBVIOUS
    <3>2. k \in 1 .. Len(all) /\ ~(k <= Len(ps)) /\ k - Len(ps) = j
      <4>1. Len(ps) \in Nat /\ Len(qs) \in Nat /\ k = Len(ps) + j /\ Len(all) = Len(ps) + Len(qs)
        BY <1>1, <1>2, <2>1, <3>1
      <4>2. QED BY <3>0, <4>1
    <3>3. all[k] = qs[j]
      BY <2>1, <3>2
    <3>4. QED BY <3>1, <3>3
  <2>4. QED BY <2>1, <2>2, <2>3
<1>4. /\ Len(u) = m + Len(t) /\ (\A i \in 1 .. m : u[i] = s[i])
      /\ \A i \in 1 .. Len(t) : u[m + i] = t[i]
  OBVIOUS
<1>5. \A j \in 1 .. n : /\ off[j] = off[j - 1] + Len(ps[j]) /\ off[j] <= m /\ j - 1 \in Nat
                        /\ off[j - 1] \in Nat /\ off[j] \in Nat
                        /\ \A i \in 1 .. Len(ps[j]) : off[j - 1] + i \in 1 .. m /\ s[off[j - 1] + i] = ps[j][i]
  BY <1>0 DEF Tiled
<1>6. \A j \in 1 .. Len(qs) :
        /\ more[j] = more[j - 1] + Len(qs[j]) /\ more[j] <= Len(t) /\ j - 1 \in Nat
        /\ more[j - 1] \in Nat /\ more[j] \in Nat
        /\ \A i \in 1 .. Len(qs[j]) : more[j - 1] + i \in 1 .. Len(t) /\ t[more[j - 1] + i] = qs[j][i]
  BY <1>a DEF Tiled
<1>7. /\ next \in [Nat -> Nat] /\ (\A j \in 0 .. n : next[j] = off[j])
      /\ \A j \in 0 .. Len(qs) : next[n + j] = m + more[j]
  <2>1. \A j \in Nat : j > n => j - n \in Nat
    BY <1>1
  <2>2. next \in [Nat -> Nat]
    <3> HIDE DEF n, m
    <3>1. ASSUME NEW j \in Nat PROVE (IF j <= n THEN off[j] ELSE m + more[j - n]) \in Nat
      <4>1. CASE j <= n
        BY <1>1, <4>1
      <4>2. CASE ~(j <= n)
        <5>1. j - n \in Nat
          BY <1>1, <2>1, <4>2
        <5>2. PICK a \in Nat : a = more[j - n]
          BY <1>2, <5>1
        <5>3. m + a \in Nat
          BY <1>1
        <5>4. QED BY <4>2, <5>2, <5>3
      <4>3. QED BY <4>1, <4>2
    <3>2. QED BY <3>1
  <2> HIDE DEF n, m
  <2>3. ASSUME NEW j \in 0 .. Len(qs) PROVE next[n + j] = m + more[j]
    <3>1. CASE j = 0
      BY <1>1, <1>2, <3>1
    <3>2. CASE j # 0
      <4>1. n + j \in Nat /\ ~(n + j <= n) /\ n + j - n = j
        BY <1>1, <1>2, <2>3, <3>2
      <4>2. \A k \in Nat : ~(k <= n) => next[k] = m + more[k - n]
        OBVIOUS
      <4> HIDE DEF next
      <4>3. n \in Nat /\ m \in Nat /\ Len(qs) \in Nat /\ more \in [Nat -> Nat]
        BY <1>1, <1>2
      <4>4. j \in Nat
        BY <4>3
      <4>5. next[n + j] = m + more[j]
        BY <4>1, <4>2, <4>3, <4>4
      <4>6. QED BY <4>5
    <3>3. QED BY <3>1, <3>2
  <2>4. \A j \in 0 .. n : next[j] = off[j]
    BY <1>1
  <2>5. QED BY <2>2, <2>3, <2>4
<1> HIDE DEF n, m, all, u, next
<1>8. ASSUME NEW j \in 1 .. (n + Len(qs))
      PROVE  /\ next[j] = next[j - 1] + Len(all[j]) /\ next[j] <= Len(u)
             /\ \A i \in 1 .. Len(all[j]) : u[next[j - 1] + i] = all[j][i]
  <2>1. CASE j <= n
    <3>1. j \in 1 .. n /\ j \in 0 .. n /\ j - 1 \in 0 .. n
      BY <1>1, <1>2, <2>1
    <3>2. next[j] = off[j] /\ next[j - 1] = off[j - 1] /\ all[j] = ps[j]
      BY <1>3, <1>7, <3>1
    <3>3. off[j] <= m + Len(t)
      <4>1. \A a, b, c \in Nat : a <= b => a <= b + c
        OBVIOUS
      <4>2. QED BY <1>1, <1>2, <1>5, <3>1, <4>1
    <3>4. ASSUME NEW i \in 1 .. Len(all[j]) PROVE u[next[j - 1] + i] = all[j][i]
      <4>1. QED BY <1>4, <1>5, <3>1, <3>2
    <3>5. QED BY <1>4, <1>5, <3>1, <3>2, <3>3, <3>4
  <2>2. CASE ~(j <= n)
    <3>1. PICK l \in 1 .. Len(qs) : j = n + l
      <4>1. j - n \in 1 .. Len(qs) /\ j = n + (j - n)
        BY <1>1, <1>2, <2>2
      <4>2. QED BY <4>1
    <3>2. l \in 0 .. Len(qs) /\ l - 1 \in 0 .. Len(qs) /\ j - 1 = n + (l - 1)
      BY <1>1, <1>2, <3>1
    <3>3. next[j] = m + more[l] /\ next[j - 1] = m + more[l - 1] /\ all[j] = qs[l]
      BY <1>3, <1>7, <3>1, <3>2
    <3>4. ASSUME NEW i \in 1 .. Len(qs[l]) PROVE u[next[j - 1] + i] = qs[l][i]
      <4>1. more[l - 1] + i \in 1 .. Len(t)
        BY <1>6
      <4>2. PICK k \in 1 .. Len(t) : k = more[l - 1] + i
        BY <4>1
      <4>3. u[m + k] = t[k]
        BY <1>4
      <4>4. t[k] = qs[l][i]
        BY <1>6, <4>2
      <4>5. next[j - 1] + i = m + k
        <5>0. Len(qs[l]) \in Nat
          BY <1>2
        <5>1. more[l - 1] \in Nat /\ m \in Nat /\ i \in Nat
          BY <1>1, <1>6, <5>0
        <5>2. \A a, b, c, d, e \in Nat : a = b + c /\ d = c + e => a + e = b + d
          OBVIOUS
        <5>3. next[j - 1] \in Nat /\ k \in Nat
          BY <3>3, <5>1
        <5>4. QED BY <3>3, <4>2, <5>1, <5>2, <5>3
      <4>6. QED BY <4>3, <4>4, <4>5
    <3>5. next[j] = next[j - 1] + Len(qs[l]) /\ next[j] <= Len(u)
      <4>1. PICK b \in Nat, c \in Nat, d \in Nat, e \in Nat :
              b = more[l] /\ c = more[l - 1] /\ d = Len(qs[l]) /\ e = Len(t)
        BY <1>1, <1>2, <1>6
      <4>2. b = c + d /\ b <= e
        BY <1>6, <4>1
      <4>3. m \in Nat
        BY <1>1
      <4>4. m + b = m + c + d /\ m + b <= m + e
        BY <4>2, <4>3
      <4>5. Len(u) = m + e
        BY <1>4, <4>1
      <4>6. QED BY <3>3, <4>1, <4>4, <4>5
    <3>6. QED BY <3>3, <3>4, <3>5
  <2>3. QED BY <2>1, <2>2
<1>9. next[0] = 0 /\ next[Len(all)] = Len(u)
  <2>1. 0 \in 0 .. n /\ Len(qs) \in 0 .. Len(qs)
    BY <1>1, <1>2
  <2>2. QED BY <1>1, <1>2, <1>3, <1>4, <1>7, <2>1
<1>10. Tiles(all, u, next)
  BY <1>3, <1>7, <1>8, <1>9 DEF Tiles
<1>11. QED BY <1>10 DEF all, u

\* The pieces of a text cover it.
LEMMA PiecesTile ==
  ASSUME NEW Bytes, NEW s \in Seq(Bytes)
  PROVE  Pieces(s) \in Seq(Piece(Bytes)) /\ \E off : Tiles(Pieces(s), s, off)
<1>1. PICK run : Splits(run, s, Bytes)
  BY Splitting
<1> DEFINE n == Len(s)
           Upto(k) == SubSeq(s, 1, k)
           T == {k \in Nat : k <= n => \E off : Tiles(run[k], Upto(k), off)}
<1>2. /\ n \in Nat /\ run \in [Nat -> Seq(Piece(Bytes))] /\ run[0] = <<>> /\ Pieces(s) = run[n]
      /\ \A k \in Nat : k < n => run[k + 1] = Extend(run[k], s[k + 1])
  BY <1>1 DEF Splits
<1>3. ASSUME NEW k \in Nat, k <= n PROVE Upto(k) \in Seq(Bytes) /\ Len(Upto(k)) = k
  BY <1>3
<1>4. ASSUME NEW k \in Nat, k < n PROVE Upto(k + 1) = Append(Upto(k), s[k + 1]) /\ s[k + 1] \in Bytes
  <2>0. n \in Nat
    BY <1>2
  <2>1. k <= n /\ k + 1 <= n /\ k + 1 \in 1 .. n
    <3> HIDE DEF n
    <3>1. QED BY <1>4, <2>0
  <2>2. s[k + 1] \in Bytes
    BY <2>1
  <2>3. /\ Upto(k) \in Seq(Bytes) /\ Len(Upto(k)) = k /\ Upto(k + 1) \in Seq(Bytes) /\ Len(Upto(k + 1)) = k + 1
    BY <1>3, <2>1
  <2>4. ASSUME NEW i \in 1 .. (k + 1) PROVE Upto(k + 1)[i] = Append(Upto(k), s[k + 1])[i]
    <3>1. Upto(k + 1)[i] = s[i]
      BY <2>1
    <3>2. i # k + 1 => Upto(k)[i] = s[i]
      BY <2>1
    <3> HIDE DEF Upto
    <3>3. QED BY <2>2, <2>3, <3>1, <3>2
  <2> HIDE DEF Upto
  <2>5. Append(Upto(k), s[k + 1]) \in Seq(Bytes) /\ Len(Append(Upto(k), s[k + 1])) = k + 1
    BY <2>2, <2>3
  <2>6. QED BY <2>2, <2>3, <2>4, <2>5
<1>5. 0 \in T
  <2>1. Upto(0) = <<>>
    OBVIOUS
  <2>2. Tiles(<<>>, <<>>, [j \in Nat |-> 0])
    BY DEF Tiles
  <2>3. Tiles(run[0], Upto(0), [j \in Nat |-> 0])
    BY <1>2, <2>1, <2>2
  <2> HIDE DEF Upto
  <2>4. QED BY <2>3
<1> HIDE DEF n, Upto
<1>6. ASSUME NEW k \in Nat, k \in T PROVE k + 1 \in T
  <2>1. ASSUME k + 1 <= n PROVE \E off : Tiles(run[k + 1], Upto(k + 1), off)
    <3>1. k < n /\ k <= n
      BY <1>2, <2>1
    <3>2. PICK off : Tiles(run[k], Upto(k), off)
      BY <1>6, <3>1
    <3>3. run[k] \in Seq(Piece(Bytes)) /\ Upto(k) \in Seq(Bytes) /\ s[k + 1] \in Bytes
      BY <1>2, <1>3, <1>4, <3>1
    <3>4. \E off2 : Tiles(Extend(run[k], s[k + 1]), Append(Upto(k), s[k + 1]), off2)
      BY <3>2, <3>3, ExtendTiles
    <3>5. QED BY <1>2, <1>4, <3>1, <3>4
  <2>2. QED BY <2>1
<1>7. n \in T
  <2> HIDE DEF T
  <2>1. QED BY <1>2, <1>5, <1>6, SetInduction
<1>8. Upto(n) = s
  BY <1>2 DEF Upto, n
<1>9. QED BY <1>2, <1>7, <1>8

\* The pieces that the buffers are consumed in
AllPieces(buffers) == FlattenSeq([b \in DOMAIN buffers |-> Pieces(buffers[b])])

\* cover the stream.
LEMMA BuffersTile ==
  ASSUME NEW Bytes, NEW buffers \in Seq(Seq(Bytes))
  PROVE  /\ AllPieces(buffers) \in Seq(Piece(Bytes)) /\ FlattenSeq(buffers) \in Seq(Bytes)
         /\ \E off : Tiles(AllPieces(buffers), FlattenSeq(buffers), off)
<1> DEFINE n == Len(buffers)
           cut == [b \in DOMAIN buffers |-> Pieces(buffers[b])]
<1>1. n \in Nat /\ DOMAIN buffers = 1 .. n /\ \A b \in 1 .. n : buffers[b] \in Seq(Bytes)
  OBVIOUS
<1>2. \A b \in 1 .. n : Pieces(buffers[b]) \in Seq(Piece(Bytes)) /\ \E off : Tiles(Pieces(buffers[b]), buffers[b], off)
  BY <1>1, PiecesTile
<1> HIDE DEF n
<1>3. cut \in [1 .. n -> Seq(Piece(Bytes))] /\ \A b \in 1 .. n : cut[b] = Pieces(buffers[b])
  BY <1>1, <1>2
<1> HIDE DEF cut
<1>4. cut \in Seq(Seq(Piece(Bytes))) /\ Len(cut) = n
  BY <1>1, <1>3, FunctionIsSequence
<1>5. PICK flat : Flattens(flat, buffers, Bytes)
  BY Flattening
<1>6. PICK pieces : Flattens(pieces, cut, Piece(Bytes))
  BY <1>4, Flattening
<1>7. /\ flat \in [Nat -> Seq(Bytes)] /\ flat[0] = <<>> /\ FlattenSeq(buffers) = flat[n]
      /\ \A k \in Nat : k < n => flat[k + 1] = flat[k] \o buffers[k + 1]
  BY <1>5 DEF Flattens, n
<1>8. /\ pieces \in [Nat -> Seq(Piece(Bytes))] /\ pieces[0] = <<>> /\ FlattenSeq(cut) = pieces[n]
      /\ \A k \in Nat : k < n => pieces[k + 1] = pieces[k] \o cut[k + 1]
  BY <1>4, <1>6 DEF Flattens
<1> DEFINE T == {k \in Nat : k <= n => \E off : Tiles(pieces[k], flat[k], off)}
<1>9. 0 \in T
  <2>1. Tiles(<<>>, <<>>, [j \in Nat |-> 0])
    BY DEF Tiles
  <2>2. QED BY <1>7, <1>8, <2>1
<1>10. ASSUME NEW k \in Nat, k \in T PROVE k + 1 \in T
  <2>1. ASSUME k + 1 <= n PROVE \E off : Tiles(pieces[k + 1], flat[k + 1], off)
    <3>1. k < n /\ k <= n /\ k + 1 \in 1 .. n
      BY <1>1, <2>1
    <3>2. PICK off : Tiles(pieces[k], flat[k], off)
      BY <1>10, <3>1
    <3>3. PICK more : Tiles(cut[k + 1], buffers[k + 1], more)
      BY <1>2, <1>3, <3>1
    <3>4. pieces[k] \in Seq(Piece(Bytes)) /\ flat[k] \in Seq(Bytes) /\ cut[k + 1] \in Seq(Piece(Bytes)) /\ buffers[k + 1] \in Seq(Bytes)
      BY <1>1, <1>3, <1>7, <1>8, <3>1
    <3>5. \E next : Tiles(pieces[k] \o cut[k + 1], flat[k] \o buffers[k + 1], next)
      BY <3>2, <3>3, <3>4, ConcatTiles
    <3>6. QED BY <1>7, <1>8, <3>1, <3>5
  <2>2. QED BY <2>1
<1>11. n \in T
  <2> HIDE DEF T
  <2>1. QED BY <1>1, <1>9, <1>10, SetInduction
<1>12. AllPieces(buffers) = FlattenSeq(cut)
  BY DEF AllPieces, cut
<1>13. QED BY <1>1, <1>7, <1>8, <1>11, <1>12

\* Nothing has been read,
NothingRead == [line |-> <<>>, tooLong |-> FALSE, read |-> <<>>]

\* and one piece is taken after the other.
AllTaken(ps) == FoldLeft(Consume, NothingRead, ps)

\* The pieces are taken in turn.
Takes(run, ps, Bytes) ==
  /\ run \in [Nat -> Reads(Bytes)] /\ run[0] = NothingRead
  /\ \A k \in Nat : k < Len(ps) => run[k + 1] = Consume(run[k], ps[k + 1])
  /\ AllTaken(ps) = run[Len(ps)]

\* They are.
LEMMA Taking ==
  ASSUME NEW Bytes, NEW ps \in Seq(Piece(Bytes))
  PROVE  \E run : Takes(run, ps, Bytes)
<1> DEFINE s == ps
           n == Len(s)
           V == Reads(Bytes)
           b == NothingRead
           F == CHOOSE h : h = [t \in SUBSET DOMAIN s |->
                  IF t = {} THEN b ELSE Consume(h[t \ {Max(t)}], s[Max(t)])]
           step == [x \in V \X (1 .. n) |-> Consume(x[1], s[x[2]])]
<1>1. n \in Nat /\ DOMAIN s = 1 .. n /\ \A i \in 1 .. n : s[i] \in Piece(Bytes)
  OBVIOUS
<1>2. AllTaken(ps) = F[DOMAIN s]
  BY DEF AllTaken, FoldLeft, MapThenFoldSet
<1>3. b \in V
  BY DEF NothingRead, Reads
<1>4. \A x \in V : \A y \in Piece(Bytes) : Consume(x, y) \in V
  BY ConsumeKeeps
<1> HIDE DEF V, b
<1>5. step \in [V \X (1 .. n) -> V]
  BY <1>1, <1>4
<1> HIDE DEF n, s
<1>6. PICK h : Folds(h, n, V, b, step)
  <2> HIDE DEF step
  <2>1. QED BY <1>1, <1>3, <1>5, FoldRecursion
<1>7. h = [t \in SUBSET DOMAIN s |-> IF t = {} THEN b ELSE Consume(h[t \ {Max(t)}], s[Max(t)])]
  <2>1. ASSUME NEW t \in SUBSET (1 .. n), t # {}
        PROVE  step[<<h[t \ {Max(t)}], Max(t)>>] = Consume(h[t \ {Max(t)}], s[Max(t)])
    <3>1. Max(t) \in 1 .. n
      BY <1>1, <2>1, GreatestUpTo
    <3>2. h[t \ {Max(t)}] \in V
      BY <1>6, <2>1 DEF Folds
    <3>3. QED BY <3>1, <3>2
  <2> HIDE DEF step
  <2>2. QED BY <1>1, <1>6, <2>1 DEF Folds
<1>8. PICK H : /\ AllTaken(ps) = H[DOMAIN s]
               /\ H = [t \in SUBSET DOMAIN s |-> IF t = {} THEN b ELSE Consume(H[t \ {Max(t)}], s[Max(t)])]
  <2>1. F = [t \in SUBSET DOMAIN s |-> IF t = {} THEN b ELSE Consume(F[t \ {Max(t)}], s[Max(t)])]
    BY <1>7
  <2> HIDE DEF F
  <2>2. QED BY <1>2, <2>1
<1> HIDE DEF F
<1>9. FoldsBy(H, n, V, b, step)
  <2>1. H[{}] = b
    BY <1>8
  <2>2. ASSUME NEW t \in SUBSET (1 .. n), t # {}, H[t \ {Max(t)}] \in V
        PROVE  H[t] = step[<<H[t \ {Max(t)}], Max(t)>>]
    <3>1. Max(t) \in 1 .. n
      BY <1>1, <2>2, GreatestUpTo
    <3>2. H[t] = Consume(H[t \ {Max(t)}], s[Max(t)])
      BY <1>1, <1>8, <2>2
    <3>3. QED BY <2>2, <3>1, <3>2
  <2> HIDE DEF step
  <2>3. QED BY <2>1, <2>2 DEF FoldsBy
<1>10. PICK run : Passes(H, run, n, V, b, step)
  <2> HIDE DEF step
  <2>1. QED BY <1>1, <1>3, <1>5, <1>9, FoldRuns
<1>11. ASSUME NEW k \in Nat, k < n PROVE run[k + 1] = Consume(run[k], s[k + 1])
  <2>1. k + 1 \in 1 .. n
    BY <1>1, <1>11
  <2>2. run[k] \in V /\ run[k + 1] = step[<<run[k], k + 1>>]
    <3> HIDE DEF step
    <3>1. QED BY <1>10, <1>11 DEF Passes
  <2>3. QED BY <2>1, <2>2
<1> HIDE DEF step
<1>12. run \in [Nat -> V] /\ run[0] = b /\ AllTaken(ps) = run[n]
  BY <1>1, <1>8, <1>10 DEF Passes
<1>13. Takes(run, ps, Bytes)
  BY <1>1, <1>11, <1>12 DEF Takes, V, b, n, s
<1>14. QED BY <1>13

\* A sequence is the function of its members.
LEMMA SequenceIsFunction ==
  ASSUME NEW S, NEW s \in Seq(S)
  PROVE  s = [i \in 1 .. Len(s) |-> s[i]] /\ Len(s) \in Nat
OBVIOUS

\* What is appended comes last.
LEMMA LastAppended ==
  ASSUME NEW S, NEW s \in Seq(S), NEW e \in S
  PROVE  Append(s, e) # <<>> /\ Last(Append(s, e)) = e /\ Append(s, e)[Len(Append(s, e))] = e
BY DEF Last

\* With another last member
Replaced(ps, w) == [ps EXCEPT ![Len(ps)] = w]

\* Only the last member changes.
LEMMA Replacing ==
  ASSUME NEW S, NEW ps \in Seq(S), ps # <<>>, NEW w \in S, NEW v \in S
  PROVE  /\ Replaced(ps, w) \in Seq(S) /\ Replaced(ps, w) # <<>>
         /\ Len(Replaced(ps, w)) = Len(ps) /\ Last(Replaced(ps, w)) = w
         /\ Replaced(Replaced(ps, w), v) = Replaced(ps, v)
         /\ Replaced(Append(ps, w), v) = Append(ps, v)
<1> DEFINE n == Len(ps)
<1>1. n \in Nat /\ n \in 1 .. n /\ DOMAIN ps = 1 .. n
  OBVIOUS
<1>2. \A u \in S : Replaced(ps, u) \in Seq(S) /\ Len(Replaced(ps, u)) = n /\ Replaced(ps, u)[n] = u
  BY <1>1 DEF Replaced
<1>3. Replaced(ps, w) # <<>> /\ Last(Replaced(ps, w)) = w
  BY <1>1, <1>2 DEF Last
<1>4. Replaced(Replaced(ps, w), v) = Replaced(ps, v)
  BY <1>1, <1>2 DEF Replaced
<1>5. Replaced(Append(ps, w), v) = Append(ps, v)
  <2>1. Append(ps, w) \in Seq(S) /\ Len(Append(ps, w)) = n + 1 /\ Append(ps, v) \in Seq(S) /\ Len(Append(ps, v)) = n + 1
    OBVIOUS
  <2>2. \A i \in 1 .. (n + 1) : Append(ps, w)[i] = (IF i = n + 1 THEN w ELSE ps[i]) /\ Append(ps, v)[i] = (IF i = n + 1 THEN v ELSE ps[i])
    OBVIOUS
  <2> DEFINE a == Append(ps, w)
             c == Append(ps, v)
             d == [a EXCEPT ![n + 1] = v]
  <2>3. Replaced(a, v) = d
    BY <2>1 DEF Replaced
  <2> HIDE DEF a, c, n
  <2>4. DOMAIN a = 1 .. (n + 1) /\ DOMAIN c = 1 .. (n + 1) /\ n + 1 \in 1 .. (n + 1)
    BY <1>1, <2>1 DEF a, c
  <2>5. DOMAIN d = 1 .. (n + 1) /\ \A i \in 1 .. (n + 1) : d[i] = IF i = n + 1 THEN v ELSE a[i]
    BY <2>4
  <2>6. d = c
    <3>1. \A i \in 1 .. (n + 1) : d[i] = c[i]
      BY <2>2, <2>5 DEF a, c
    <3>2. c = [i \in 1 .. (n + 1) |-> c[i]]
      BY <2>1, SequenceIsFunction DEF c
    <3>3. d = [i \in 1 .. (n + 1) |-> d[i]]
      BY <2>5
    <3> HIDE DEF d
    <3>4. QED BY <3>1, <3>2, <3>3
  <2>7. QED BY <2>3, <2>6 DEF a, c
<1>6. QED BY <1>1, <1>2, <1>3, <1>4, <1>5

\* A longer piece is one that grew.
LEMMA JoiningMore ==
  ASSUME NEW Bytes, NEW ps \in Seq(Piece(Bytes)), NEW w \in Seq(Bytes), w # <<>>, Last(w) # Newline, NEW x \in Bytes
  PROVE  Joined(ps, Append(w, x)) = Extend(Joined(ps, w), x)
<1>1. Append(w, x) \in Seq(Bytes)
  OBVIOUS
<1>2. ps \in Seq(Seq(Bytes))
  BY PiecesAre
<1>a. \A u, v \in Seq(Bytes) : ps # <<>> =>
        /\ Replaced(ps, u) \in Seq(Seq(Bytes)) /\ Replaced(ps, u) # <<>> /\ Last(Replaced(ps, u)) = u
        /\ Replaced(Replaced(ps, u), v) = Replaced(ps, v)
        /\ Replaced(Append(ps, u), v) = Append(ps, v)
  BY <1>2, Replacing
<1>3. CASE Fresh(ps)
  <2>1. Joined(ps, w) = Append(ps, w) /\ Joined(ps, Append(w, x)) = Append(ps, Append(w, x))
    BY <1>3 DEF Joined
  <2> DEFINE qs == Append(ps, w)
             v == Append(w, x)
  <2>2. qs # <<>> /\ Last(qs) = w /\ qs[Len(qs)] = w
    BY <1>2, LastAppended
  <2>3. Extend(qs, x) = Replaced(qs, v)
    BY <2>2 DEF Extend, Replaced
  <2>4. Replaced(qs, v) = Append(ps, v)
    <3>1. CASE ps = <<>>
      <4>1. qs = <<w>> /\ Append(ps, v) = <<v>>
        BY <3>1
      <4> HIDE DEF v, qs
      <4>2. Replaced(<<w>>, v) = <<v>>
        BY DEF Replaced
      <4>3. QED BY <4>1, <4>2
    <3>2. CASE ps # <<>>
      BY <1>1, <1>a, <3>2
    <3>3. QED BY <3>1, <3>2
  <2>5. QED BY <2>1, <2>3, <2>4
<1>4. CASE ~Fresh(ps)
  <2>1. ps # <<>>
    BY <1>4 DEF Fresh
  <2>2. PICK q \in Seq(Bytes) : q = ps[Len(ps)]
    BY <1>2, <2>1
  <2>3. /\ q \o w \in Seq(Bytes) /\ q \o Append(w, x) \in Seq(Bytes) /\ q \o w # <<>>
        /\ Last(q \o w) = Last(w) /\ q \o Append(w, x) = Append(q \o w, x)
    <3>1. q \o w \in Seq(Bytes) /\ Len(q \o w) = Len(q) + Len(w) /\ Len(w) \in Nat /\ Len(w) # 0 /\ Len(q) \in Nat
      OBVIOUS
    <3>2. (q \o w)[Len(q) + Len(w)] = w[Len(w)]
      BY <3>1
    <3>3. q \o w # <<>> /\ Last(q \o w) = Last(w)
      BY <3>1, <3>2 DEF Last
    <3>4. q \o Append(w, x) = Append(q \o w, x)
      OBVIOUS
    <3>5. QED BY <1>1, <3>1, <3>3, <3>4
  <2>4. Joined(ps, w) = Replaced(ps, q \o w) /\ Joined(ps, Append(w, x)) = Replaced(ps, q \o Append(w, x))
    BY <1>4, <2>2 DEF Joined, Replaced
  <2> DEFINE qs == Replaced(ps, q \o w)
  <2>5. qs \in Seq(Seq(Bytes)) /\ qs # <<>> /\ Last(qs) = q \o w
    BY <1>a, <2>1, <2>3
  <2>6. Extend(qs, x) = Replaced(qs, Append(q \o w, x))
    <3> HIDE DEF qs
    <3>1. ~(qs = <<>> \/ Last(Last(qs)) = Newline) /\ qs[Len(qs)] = q \o w
      BY <2>3, <2>5 DEF Last
    <3>2. QED BY <3>1 DEF Extend, Replaced
  <2>7. Replaced(qs, Append(q \o w, x)) = Replaced(ps, Append(q \o w, x))
    BY <1>a, <2>1, <2>3
  <2>8. QED BY <2>3, <2>4, <2>6, <2>7
<1>5. QED BY <1>3, <1>4

\* The bytes of a piece, one after the other, add the piece.
LEMMA OnePiece ==
  ASSUME NEW Bytes, NEW s \in Seq(Bytes), NEW run, Splits(run, s, Bytes), NEW q \in Piece(Bytes),
         NEW o \in Nat, o + Len(q) <= Len(s), \A i \in 1 .. Len(q) : s[o + i] = q[i]
  PROVE  run[o + Len(q)] = Joined(run[o], q)
<1> DEFINE n == Len(q)
           Upto(i) == SubSeq(q, 1, i)
           T == {i \in Nat : i < n => run[o + i + 1] = Joined(run[o], Upto(i + 1))}
<1>1. /\ q \in Seq(Bytes) /\ n \in Nat /\ n # 0 /\ Len(s) \in Nat /\ (\A i \in 1 .. n : q[i] \in Bytes)
      /\ \A i \in 1 .. n - 1 : q[i] # Newline
  BY DEF Piece
<1>2. /\ run \in [Nat -> Seq(Piece(Bytes))]
      /\ \A k \in Nat : k < Len(s) => run[k + 1] = Extend(run[k], s[k + 1])
  BY DEF Splits
<1>3. ASSUME NEW i \in Nat, i < n PROVE run[o + i + 1] = Extend(run[o + i], q[i + 1]) /\ q[i + 1] \in Bytes
  <2>1. i + 1 \in 1 .. n /\ o + i \in Nat /\ o + i < Len(s) /\ o + i + 1 = o + (i + 1)
    BY <1>1, <1>3
  <2>2. s[o + (i + 1)] = q[i + 1] /\ q[i + 1] \in Bytes
    BY <1>1, <2>1
  <2>3. run[o + i + 1] = Extend(run[o + i], s[o + i + 1])
    BY <1>2, <2>1
  <2>4. s[o + i + 1] = s[o + (i + 1)]
    BY <2>1
  <2>5. QED BY <2>2, <2>3, <2>4
<1>4. ASSUME NEW i \in Nat, i < n
      PROVE  /\ Upto(i) \in Seq(Bytes) /\ Upto(i + 1) = Append(Upto(i), q[i + 1])
             /\ i # 0 => Upto(i) # <<>> /\ Last(Upto(i)) # Newline
  <2>1. i + 1 \in 1 .. n /\ i <= n /\ i + 1 <= n
    BY <1>1, <1>4
  <2>2. \A k \in Nat : k <= n => Upto(k) \in Seq(Bytes) /\ Len(Upto(k)) = k /\ \A l \in 1 .. k : Upto(k)[l] = q[l]
    BY <1>1
  <2> HIDE DEF Upto
  <2>3. Upto(i + 1) = Append(Upto(i), q[i + 1])
    <3> DEFINE a == Upto(i + 1)
               c == Append(Upto(i), q[i + 1])
    <3>1. q[i + 1] \in Bytes
      BY <1>1, <2>1
    <3>2. a \in Seq(Bytes) /\ Len(a) = i + 1 /\ (\A l \in 1 .. (i + 1) : a[l] = q[l])
      BY <2>1, <2>2
    <3>3. c \in Seq(Bytes) /\ Len(c) = i + 1 /\ (\A l \in 1 .. (i + 1) : c[l] = q[l])
      BY <2>1, <2>2, <3>1
    <3> HIDE DEF a, c
    <3>4. a = c
      BY <3>2, <3>3
    <3>5. QED BY <3>4 DEF a, c
  <2>4. ASSUME i # 0 PROVE Upto(i) # <<>> /\ Last(Upto(i)) # Newline
    <3>1. i \in 1 .. i /\ i \in 1 .. n - 1
      BY <1>1, <2>1, <2>4
    <3>2. Last(Upto(i)) = q[i]
      BY <2>1, <2>2, <3>1 DEF Last
    <3>3. Len(Upto(i)) = i
      BY <2>1, <2>2
    <3>4. QED BY <1>1, <2>4, <3>1, <3>2, <3>3
  <2>5. QED BY <2>1, <2>2, <2>3, <2>4
<1> DEFINE A == run[o]
<1>5. A \in Seq(Piece(Bytes)) /\ A \in Seq(Seq(Bytes))
  <2>1. A \in Seq(Piece(Bytes))
    BY <1>2
  <2>2. QED BY <2>1, PiecesAre
<1>6. 0 \in T
  <2>1. run[o + 0 + 1] = Extend(A, q[1]) /\ q[1] \in Bytes
    <3>1. 0 < n /\ o + 0 = o /\ 0 + 1 = 1
      BY <1>1
    <3>2. QED BY <1>3, <3>1
  <2>2. Upto(0 + 1) = <<q[1]>>
    <3>1. Upto(0) = <<>> /\ 0 < n /\ 0 + 1 = 1
      BY <1>1
    <3>2. Upto(0 + 1) = Append(Upto(0), q[0 + 1])
      <4> HIDE DEF Upto, n
      <4>1. QED BY <1>4, <3>1
    <3>3. PICK x : x = q[1]
      OBVIOUS
    <3>4. Append(<<>>, x) = <<x>>
      OBVIOUS
    <3>5. Upto(0 + 1) = Append(<<>>, x)
      <4> HIDE DEF Upto, n
      <4>1. QED BY <3>1, <3>2, <3>3
    <3> HIDE DEF Upto
    <3>6. QED BY <3>3, <3>4, <3>5
  <2> HIDE DEF A, Upto
  <2>3. Extend(A, q[1]) = Joined(A, <<q[1]>>)
    <3>1. PICK x \in Bytes : x = q[1]
      BY <2>1
    <3>2. CASE Fresh(A)
      BY <3>2 DEF Fresh, Extend, Joined
    <3>3. CASE ~Fresh(A)
      <4>1. A # <<>>
        BY <3>3 DEF Fresh
      <4>2. A[Len(A)] \in Seq(Bytes)
        BY <1>5, <4>1
      <4>3. Append(A[Len(A)], x) = A[Len(A)] \o <<x>>
        BY <4>2
      <4>4. Extend(A, x) = [A EXCEPT ![Len(A)] = Append(A[Len(A)], x)]
        BY <3>3 DEF Extend, Fresh
      <4>5. Joined(A, <<x>>) = [A EXCEPT ![Len(A)] = A[Len(A)] \o <<x>>]
        BY <3>3 DEF Joined
      <4>6. QED BY <3>1, <4>3, <4>4, <4>5
    <3>4. QED BY <3>2, <3>3
  <2>4. QED BY <2>1, <2>2, <2>3 DEF A
<1> HIDE DEF A
<1>7. ASSUME NEW i \in Nat, i \in T PROVE i + 1 \in T
  <2>1. ASSUME i + 1 < n PROVE run[o + (i + 1) + 1] = Joined(run[o], Upto(i + 1 + 1))
    <3>1. i < n /\ i + 1 \in Nat /\ i + 1 # 0
      <4> HIDE DEF n
      <4>1. QED BY <1>1, <2>1
    <3>2. run[o + i + 1] = Joined(A, Upto(i + 1))
      BY <1>7, <3>1 DEF A
    <3> HIDE DEF Upto, n
    <3>3. run[o + (i + 1) + 1] = Extend(run[o + (i + 1)], q[i + 1 + 1]) /\ q[i + 1 + 1] \in Bytes
      BY <1>3, <2>1, <3>1
    <3>4. /\ Upto(i + 1) \in Seq(Bytes) /\ Upto(i + 1 + 1) = Append(Upto(i + 1), q[i + 1 + 1])
          /\ Upto(i + 1) # <<>> /\ Last(Upto(i + 1)) # Newline
      BY <1>4, <2>1, <3>1
    <3>5. Joined(A, Append(Upto(i + 1), q[i + 1 + 1])) = Extend(Joined(A, Upto(i + 1)), q[i + 1 + 1])
      BY <1>5, <3>3, <3>4, JoiningMore
    <3>6. o + (i + 1) = o + i + 1
      OBVIOUS
    <3>7. run[o + (i + 1)] = Joined(A, Upto(i + 1))
      BY <3>2, <3>6
    <3>8. QED BY <3>3, <3>4, <3>5, <3>7 DEF A
  <2>2. QED BY <2>1
<1>8. n - 1 \in Nat /\ n - 1 < n /\ o + (n - 1) + 1 = o + n /\ n - 1 + 1 = n
  <2> HIDE DEF n
  <2>1. QED BY <1>1
<1>9. n - 1 \in T
  <2> HIDE DEF T, n
  <2>1. QED BY <1>6, <1>7, <1>8, SetInduction
<1>10. Upto(n) = q
  BY <1>1
<1>11. run[o + (n - 1) + 1] = Joined(run[o], Upto(n - 1 + 1))
  BY <1>8, <1>9
<1> HIDE DEF Upto, T
<1>12. run[o + n] = Joined(run[o], Upto(n))
  <2> HIDE DEF n
  <2>1. QED BY <1>8, <1>11
<1>13. QED BY <1>10, <1>12

\* Requests are the lines of their stream, however long, each taken or refused by its
\* own length, and wherever the buffers end that it is read in.
THEOREM RequestsAreWhole ==
  ASSUME NEW Bytes, NEW buffers \in Seq(Seq(Bytes))
  PROVE  LinesAreWhole(buffers)
<1> DEFINE ps == AllPieces(buffers)
           s == FlattenSeq(buffers)
           n == Len(ps)
           all == Pieces(s)
           r == AllTaken(ps)
<1>1. ps \in Seq(Piece(Bytes)) /\ s \in Seq(Bytes)
  BY BuffersTile
<1>2. PICK off : Tiles(ps, s, off)
  BY BuffersTile
<1>3. LinesRead(buffers) = IF r.tooLong THEN Append(r.read, TooLong)
                           ELSE IF r.line # <<>> THEN Append(r.read, Line(r.line))
                           ELSE r.read
  BY DEF LinesRead, AllTaken, NothingRead, AllPieces
<1> HIDE DEF ps, s
<1>4. PICK run : Splits(run, s, Bytes)
  BY <1>1, Splitting
<1>5. PICK c : Takes(c, ps, Bytes)
  BY <1>1, Taking
<1>6. /\ run \in [Nat -> Seq(Piece(Bytes))] /\ run[0] = <<>> /\ all = run[Len(s)]
  BY <1>4 DEF Splits
<1>7. /\ c \in [Nat -> Reads(Bytes)] /\ c[0] = NothingRead /\ r = c[n]
      /\ \A k \in Nat : k < n => c[k + 1] = Consume(c[k], ps[k + 1])
  BY <1>5 DEF Takes
<1>8. Tiled(ps, s, off, Bytes)
  BY <1>1, <1>2, TilesAre
<1>9. /\ n \in Nat /\ off \in [Nat -> Nat] /\ off[0] = 0 /\ off[n] = Len(s)
  BY <1>8 DEF Tiled
<1> DEFINE T == {j \in Nat : j <= n => Standing(c[j], run[off[j]])}
<1>10. 0 \in T
  <2>1. Standing(NothingRead, <<>>)
    BY DEF Standing, NothingRead, Fresh
  <2>2. Standing(c[0], run[off[0]])
    BY <1>6, <1>7, <1>9, <2>1
  <2>3. QED BY <2>2
<1>11. ASSUME NEW j \in Nat, j < n PROVE run[off[j + 1]] = Joined(run[off[j]], ps[j + 1]) /\ ps[j + 1] \in Piece(Bytes)
  <2>1. j + 1 \in 1 .. n /\ j + 1 - 1 = j
    <3> HIDE DEF n
    <3>1. QED BY <1>9, <1>11
  <2>2. PICK q \in Piece(Bytes) : q = ps[j + 1]
    BY <1>1, <2>1
  <2>3. PICK o \in Nat : o = off[j]
    BY <1>9
  <2>4. /\ off[j + 1] = o + Len(q) /\ off[j + 1] <= Len(s)
        /\ \A i \in 1 .. Len(q) : s[o + i] = q[i]
    <3>1. /\ off[j + 1] = off[j + 1 - 1] + Len(ps[j + 1]) /\ off[j + 1] <= Len(s)
          /\ \A i \in 1 .. Len(ps[j + 1]) : s[off[j + 1 - 1] + i] = ps[j + 1][i]
      <4>1. \A k \in 1 .. n : /\ off[k] = off[k - 1] + Len(ps[k]) /\ off[k] <= Len(s)
                               /\ \A i \in 1 .. Len(ps[k]) : s[off[k - 1] + i] = ps[k][i]
        BY <1>2 DEF Tiles
      <4> HIDE DEF n
      <4>2. QED BY <2>1, <4>1
    <3>2. QED BY <2>1, <2>2, <2>3, <3>1
  <2>5. run[o + Len(q)] = Joined(run[o], q)
    BY <1>1, <1>4, <2>4, OnePiece
  <2>6. QED BY <2>2, <2>3, <2>4, <2>5
<1> HIDE DEF n, all, r
<1>12. ASSUME NEW j \in Nat, j \in T PROVE j + 1 \in T
  <2>1. ASSUME j + 1 <= n PROVE Standing(c[j + 1], run[off[j + 1]])
    <3>1. j < n /\ j <= n
      BY <1>9, <2>1
    <3>2. Standing(c[j], run[off[j]])
      BY <1>12, <3>1
    <3>3. run[off[j + 1]] = Joined(run[off[j]], ps[j + 1]) /\ ps[j + 1] \in Piece(Bytes)
      BY <1>11, <3>1
    <3>4. c[j] \in Reads(Bytes) /\ run[off[j]] \in Seq(Piece(Bytes))
      BY <1>6, <1>7, <1>9
    <3>5. Standing(Consume(c[j], ps[j + 1]), Joined(run[off[j]], ps[j + 1]))
      BY <3>2, <3>3, <3>4, JoinedStands
    <3>6. c[j + 1] = Consume(c[j], ps[j + 1])
      BY <1>7, <3>1
    <3>7. QED BY <3>3, <3>5, <3>6
  <2>2. QED BY <2>1
<1>13. Standing(r, all)
  <2>1. n \in T
    <3> HIDE DEF T
    <3>1. QED BY <1>9, <1>10, <1>12, SetInduction
  <2>2. Standing(c[n], run[off[n]])
    BY <1>9, <2>1
  <2>3. QED BY <1>6, <1>7, <1>9, <2>2
<1>14. all \in Seq(Piece(Bytes)) /\ Len(all) \in Nat
  <2>1. all \in Seq(Piece(Bytes))
    <3>1. Len(s) \in Nat
      BY <1>1
    <3>2. QED BY <1>6, <3>1
  <2>2. QED BY <2>1
<1>15. LinesOf(s) = [i \in 1 .. Len(all) |-> Judged(all[i])]
  <2>1. DOMAIN all = 1 .. Len(all)
    BY <1>14
  <2>2. QED BY <2>1 DEF LinesOf, all
<1>16. LinesRead(buffers) = LinesOf(s)
  <2>1. CASE Fresh(all)
    <3>1. r.read = [i \in 1 .. Len(all) |-> Judged(all[i])] /\ r.line = <<>> /\ r.tooLong = FALSE
      BY <1>13, <2>1 DEF Standing
    <3>2. QED BY <1>3, <1>15, <3>1
  <2>2. CASE ~Fresh(all)
    <3> DEFINE m == Len(all) - 1
               l == all[Len(all)]
    <3>1. r.read = [i \in 1 .. m |-> Judged(all[i])]
      BY <1>13, <2>2 DEF Standing
    <3>2. Last(all) = l
      BY DEF Last
    <3>3. /\ r.tooLong = (Len(l) > MaxBytes)
          /\ r.line = IF Len(l) > MaxBytes THEN <<>> ELSE l
      BY <1>13, <2>2, <3>2 DEF Standing
    <3>4. m \in Nat /\ Len(all) = m + 1
      BY <1>14, <2>2 DEF Fresh
    <3>5. l # <<>> /\ Last(l) # Newline
      <4>1. Len(all) \in 1 .. Len(all)
        BY <3>4
      <4>2. l \in Piece(Bytes)
        BY <1>14, <4>1
      <4>3. Last(l) # Newline
        BY <2>2, <3>2 DEF Fresh
      <4>4. QED BY <4>2, <4>3 DEF Piece
    <3> DEFINE f == [i \in 1 .. (m + 1) |-> Judged(all[i])]
               S == {f[i] : i \in 1 .. (m + 1)}
    <3>6. f[m + 1] = Judged(l)
      <4>1. m + 1 \in 1 .. (m + 1) /\ all[m + 1] = l
        BY <3>4
      <4> HIDE DEF m, l
      <4>2. QED BY <4>1
    <3>7. LinesRead(buffers) = Append(r.read, Judged(l))
      <4> HIDE DEF l, f, m
      <4>1. CASE Len(l) > MaxBytes
        BY <1>3, <3>3, <4>1 DEF Judged
      <4>2. CASE ~(Len(l) > MaxBytes)
        BY <1>3, <3>3, <3>5, <4>2 DEF Judged
      <4>3. QED BY <4>1, <4>2
    <3>8. r.read = [i \in 1 .. m |-> f[i]]
      BY <3>1, <3>4
    <3>9. (\A i \in 1 .. (m + 1) : f[i] \in S) /\ f = [i \in 1 .. (m + 1) |-> f[i]]
      OBVIOUS
    <3> HIDE DEF S
    <3>10. Append([i \in 1 .. m |-> f[i]], f[m + 1]) = [i \in 1 .. (m + 1) |-> f[i]]
      <4> HIDE DEF f, m
      <4>1. QED BY <3>4, <3>9, OneMore
    <3>11. LinesOf(s) = f
      BY <1>15, <3>4
    <3> HIDE DEF f, m, l
    <3>12. QED BY <3>6, <3>7, <3>8, <3>9, <3>10, <3>11
  <2>3. QED BY <2>1, <2>2
<1>17. QED BY <1>16 DEF LinesAreWhole, s
-------------------------------------------------------------------------------
(* What is shown of a stream                                                 *)

\* Secrets over an alphabet.
SecretsOf(Bytes) == {F \in SUBSET Seq(Bytes) : IsFiniteSet(F) /\ <<>> \notin F}

\* The length of the longest of some words, as the module chooses it
LongestOf(F) == CHOOSE n \in {Len(s) : s \in F} : \A s \in F : Len(s) <= n

\* It is the greatest length.
LEMMA LongestIs ==
  ASSUME NEW Bytes, NEW F \in SUBSET Seq(Bytes), IsFiniteSet(F), F # {}
  PROVE  /\ LongestOf(F) \in {Len(s) : s \in F} /\ LongestOf(F) \in Nat
         /\ \A s \in F : Len(s) <= LongestOf(F)
<1> DEFINE E == {Len(s) : s \in F}
           f == [s \in F |-> Len(s)]
           R == {r \in Nat \X Nat : r[1] < r[2]}
<1>1. E \subseteq Nat /\ E # {}
  <2>1. \A s \in F : Len(s) \in Nat
    OBVIOUS
  <2>2. QED BY <2>1
<1>2. f \in Surjection(F, E)
  BY DEF Surjection
<1>3. IsFiniteSet(E)
  <2> HIDE DEF E, f
  <2>1. QED BY <1>2, FS_Surjection
<1>4. TotalOrder(Nat, R)
  BY DEF TotalOrder
<1>5. \E x \in E : \A y \in E \ {x} : <<y, x>> \in R
  <2> HIDE DEF E, R
  <2>1. Cardinality(E) \in Nat /\ Cardinality(E) # 0
    BY <1>1, <1>3, FS_CardinalityType, FS_EmptySet
  <2>2. PICK m \in Nat : Cardinality(E) = m + 1
    <3>1. Cardinality(E) - 1 \in Nat /\ Cardinality(E) = Cardinality(E) - 1 + 1
      BY <2>1
    <3>2. QED BY <3>1
  <2>3. \A k \in Nat : \A S \in SUBSET Nat : IsFiniteSet(S) /\ Cardinality(S) = k + 1 =>
          \E x \in S : \A y \in S \ {x} : <<y, x>> \in R
    BY <1>4, LastOfSet
  <2>4. QED BY <1>1, <1>3, <2>2, <2>3
<1>6. \E n \in E : \A s \in F : Len(s) <= n
  <2>1. PICK x \in E : \A y \in E \ {x} : <<y, x>> \in R
    BY <1>5
  <2>2. ASSUME NEW y \in E PROVE y <= x
    <3>1. CASE y = x
      BY <1>1, <3>1
    <3>2. CASE y # x
      <4>1. <<y, x>> \in R
        BY <2>1, <3>2
      <4>2. y < x
        BY <4>1
      <4> HIDE DEF E, R
      <4>3. QED BY <1>1, <4>2
    <3>3. QED BY <3>1, <3>2
  <2>3. QED BY <2>1, <2>2
<1>7. QED BY <1>1, <1>6 DEF LongestOf

\* Nothing is kept back but what may still become a secret.
LEMMA RetainIs ==
  ASSUME NEW Bytes, NEW secrets \in SecretsOf(Bytes)
  PROVE  Retain(secrets) \in Nat /\ \A w \in secrets : w \in Seq(Bytes) /\ Len(w) \in Nat /\ Len(w) # 0 /\ Len(w) <= Retain(secrets) + 1
<1>1. secrets \in SUBSET Seq(Bytes) /\ IsFiniteSet(secrets) /\ <<>> \notin secrets
  BY DEF SecretsOf
<1>2. \A w \in secrets : w \in Seq(Bytes) /\ Len(w) \in Nat /\ Len(w) # 0
  BY <1>1
<1>3. CASE secrets = {}
  BY <1>3 DEF Retain
<1>4. CASE secrets # {}
  <2>1. PICK n : n = LongestOf(secrets)
    OBVIOUS
  <2>2. n \in {Len(s) : s \in secrets} /\ \A w \in secrets : Len(w) <= n
    BY <1>1, <1>4, <2>1, LongestIs
  <2>3. n \in Nat /\ n # 0
    BY <1>2, <2>2
  <2>4. Retain(secrets) = n - 1
    BY <1>4, <2>1 DEF Retain, LongestOf
  <2>5. n - 1 \in Nat /\ n - 1 + 1 = n
    BY <2>3
  <2>6. QED BY <1>2, <2>2, <2>4, <2>5
<1>5. QED BY <1>3, <1>4

\* n is the length of a secret at a place, or 0 if there is none.
SecretFound(secrets, text, i, n) ==
  /\ n \in Nat
  /\ n = 0 => \A w \in secrets : ~StartsAt(text, i, w)
  /\ n # 0 => \E w \in secrets : Len(w) = n /\ StartsAt(text, i, w)

\* The model finds that length.
LEMMA SecretAtIs ==
  ASSUME NEW Bytes, NEW secrets \in SecretsOf(Bytes), NEW text, NEW i
  PROVE  SecretFound(secrets, text, i, SecretAt(secrets, text, i))
<1> DEFINE found == {s \in secrets : StartsAt(text, i, s)}
<1>1. secrets \in SUBSET Seq(Bytes) /\ IsFiniteSet(secrets)
  BY DEF SecretsOf
<1>2. \A w \in secrets : Len(w) \in Nat /\ Len(w) # 0
  BY RetainIs
<1>3. CASE found = {}
  <2>1. SecretAt(secrets, text, i) = 0
    BY <1>3 DEF SecretAt
  <2>2. QED BY <1>3, <2>1 DEF SecretFound
<1>4. CASE found # {}
  <2>1. SecretAt(secrets, text, i) = LongestOf(found)
    BY <1>4 DEF SecretAt, LongestOf
  <2>2. found \in SUBSET Seq(Bytes) /\ IsFiniteSet(found)
    <3>1. found \in SUBSET secrets
      OBVIOUS
    <3> HIDE DEF found
    <3>2. QED BY <1>1, <3>1, FS_Subset
  <2>3. LongestOf(found) \in {Len(s) : s \in found}
    <3> HIDE DEF found
    <3>1. QED BY <1>4, <2>2, LongestIs
  <2>4. PICK w \in secrets : StartsAt(text, i, w) /\ Len(w) = LongestOf(found)
    BY <2>3
  <2>5. QED BY <1>2, <2>1, <2>4 DEF SecretFound
<1>5. QED BY <1>3, <1>4

\* A secret is recognised in a window as in the text, unless it may reach beyond.
LEMMA LocalSecret ==
  ASSUME NEW Bytes, NEW secrets \in SecretsOf(Bytes), NEW text \in Seq(Bytes),
         NEW c \in Nat, NEW m \in Nat, c <= m, m <= Len(text), NEW i \in Nat, i < m - c,
         i + Retain(secrets) + 1 <= m - c \/ m = Len(text)
  PROVE  SecretAt(secrets, SubSeq(text, c + 1, m), i) = SecretAt(secrets, text, c + i)
<1> DEFINE window == SubSeq(text, c + 1, m)
<1>1. /\ window \in Seq(Bytes) /\ Len(window) = m - c /\ Len(text) \in Nat
      /\ \A k \in Nat : k # 0 /\ k <= m - c => window[k] = text[c + k]
  OBVIOUS
<1>2. ASSUME NEW w \in secrets PROVE StartsAt(window, i, w) <=> StartsAt(text, c + i, w)
  <2>1. PICK l \in Nat : l = Len(w)
    BY RetainIs
  <2>2. l <= Retain(secrets) + 1 /\ Retain(secrets) \in Nat
    BY <2>1, RetainIs
  <2>3. i + l <= m - c <=> c + i + l <= Len(text)
    <3>1. CASE m = Len(text)
      BY <1>1, <3>1
    <3>2. CASE i + Retain(secrets) + 1 <= m - c
      <4>1. PICK q \in Nat : q = Retain(secrets)
        BY <2>2
      <4>2. l <= q + 1 /\ i + q + 1 <= m - c
        BY <2>2, <3>2, <4>1
      <4>3. QED BY <1>1, <4>2
    <3>3. QED BY <3>1, <3>2
  <2>4. ASSUME i + l <= m - c, NEW k \in 1 .. l PROVE window[i + k] = text[c + i + k]
    <3>1. i + k \in Nat /\ i + k # 0 /\ i + k <= m - c /\ c + (i + k) = c + i + k
      BY <2>4
    <3>2. window[i + k] = text[c + (i + k)]
      BY <1>1, <3>1
    <3>3. QED BY <3>1, <3>2
  <2> HIDE DEF window
  <2>5. StartsAt(window, i, w) <=> i + l <= m - c /\ \A k \in 1 .. l : window[i + k] = w[k]
    BY <1>1, <2>1 DEF StartsAt
  <2>6. StartsAt(text, c + i, w) <=> c + i + l <= Len(text) /\ \A k \in 1 .. l : text[c + i + k] = w[k]
    BY <2>1 DEF StartsAt
  <2>7. QED BY <2>3, <2>4, <2>5, <2>6
<1> HIDE DEF window
<1> DEFINE here == {s \in secrets : StartsAt(window, i, s)}
           there == {s \in secrets : StartsAt(text, c + i, s)}
<1>3. here = there
  BY <1>2
<1>4. /\ SecretAt(secrets, window, i) = IF here = {} THEN 0 ELSE LongestOf(here)
      /\ SecretAt(secrets, text, c + i) = IF there = {} THEN 0 ELSE LongestOf(there)
  BY DEF SecretAt, LongestOf
<1> HIDE DEF here, there
<1>5. SecretAt(secrets, window, i) = SecretAt(secrets, text, c + i)
  BY <1>3, <1>4
<1>6. QED BY <1>5 DEF window

\* What a drain has written and consumed.
Drawn(Bytes) == [out : Seq(Bytes \cup {Redacted}), consumed : Nat]
NothingDrawn == [out |-> <<>>, consumed |-> 0]

\* A place that is passed leaves such a state.
LEMMA RedactKeeps ==
  ASSUME NEW Bytes, NEW secrets \in SecretsOf(Bytes), NEW text \in Seq(Bytes), NEW d \in Drawn(Bytes),
         NEW i \in Nat, i < Len(text)
  PROVE  Redact(secrets, text, d, i) \in Drawn(Bytes)
<1> DEFINE n == SecretAt(secrets, text, i)
           x == IF n = 0 THEN text[i + 1] ELSE Redacted
           e == i + (IF n = 0 THEN 1 ELSE n)
<1>1. n \in Nat
  BY SecretAtIs DEF SecretFound
<1>2. text[i + 1] \in Bytes
  <2>1. i + 1 \in 1 .. Len(text)
    OBVIOUS
  <2>2. QED BY <2>1
<1>3. d.out \in Seq(Bytes \cup {Redacted}) /\ d.consumed \in Nat
  BY DEF Drawn
<1>4. Redact(secrets, text, d, i) = IF i < d.consumed THEN d ELSE [out |-> Append(d.out, x), consumed |-> e]
  BY DEF Redact
<1> HIDE DEF n
<1>5. x \in Bytes \cup {Redacted} /\ e \in Nat
  BY <1>1, <1>2
<1> HIDE DEF x, e
<1>6. Append(d.out, x) \in Seq(Bytes \cup {Redacted})
  BY <1>3, <1>5
<1>7. [out |-> Append(d.out, x), consumed |-> e] \in Drawn(Bytes)
  BY <1>5, <1>6 DEF Drawn
<1>8. QED BY <1>4, <1>7

\* The places of a text, one after the other.
Redacts(run, secrets, text, m, Bytes) ==
  /\ run \in [Nat -> Drawn(Bytes)] /\ run[0] = NothingDrawn /\ Drain(secrets, text, m) = run[m]
  /\ \A k \in Nat : k < m => run[k + 1] = Redact(secrets, text, run[k], k)

\* They are drained in turn.
LEMMA Redacting ==
  ASSUME NEW Bytes, NEW secrets \in SecretsOf(Bytes), NEW text \in Seq(Bytes), NEW m \in Nat, m <= Len(text)
  PROVE  \E run : Redacts(run, secrets, text, m, Bytes)
<1> DEFINE s == [i \in 1 .. m |-> i]
           n == Len(s)
           V == Drawn(Bytes)
           b == NothingDrawn
           F == CHOOSE h : h = [t \in SUBSET DOMAIN s |->
                  IF t = {} THEN b ELSE Redact(secrets, text, h[t \ {Max(t)}], s[Max(t)] - 1)]
           step == [x \in V \X (1 .. n) |-> Redact(secrets, text, x[1], s[x[2]] - 1)]
<1>1. n \in Nat /\ DOMAIN s = 1 .. n /\ n = m /\ \A i \in 1 .. n : s[i] \in 1 .. m /\ s[i] = i
  OBVIOUS
<1>2. Drain(secrets, text, m) = F[DOMAIN s]
  BY DEF Drain, NothingDrawn, FoldLeft, MapThenFoldSet
<1>3. b \in V
  BY DEF NothingDrawn, Drawn
<1>4. \A x \in V : \A y \in 1 .. m : Redact(secrets, text, x, y - 1) \in V
  <2>1. \A y \in 1 .. m : y - 1 \in Nat /\ y - 1 < Len(text)
    OBVIOUS
  <2>2. QED BY <2>1, RedactKeeps
<1> HIDE DEF V, b
<1>5. step \in [V \X (1 .. n) -> V]
  BY <1>1, <1>4
<1> HIDE DEF n, s
<1>6. PICK h : Folds(h, n, V, b, step)
  <2> HIDE DEF step
  <2>1. QED BY <1>1, <1>3, <1>5, FoldRecursion
<1>7. h = [t \in SUBSET DOMAIN s |-> IF t = {} THEN b ELSE Redact(secrets, text, h[t \ {Max(t)}], s[Max(t)] - 1)]
  <2>1. ASSUME NEW t \in SUBSET (1 .. n), t # {}
        PROVE  step[<<h[t \ {Max(t)}], Max(t)>>] = Redact(secrets, text, h[t \ {Max(t)}], s[Max(t)] - 1)
    <3>1. Max(t) \in 1 .. n
      BY <1>1, <2>1, GreatestUpTo
    <3>2. h[t \ {Max(t)}] \in V
      BY <1>6, <2>1 DEF Folds
    <3>3. QED BY <3>1, <3>2
  <2> HIDE DEF step
  <2>2. QED BY <1>1, <1>6, <2>1 DEF Folds
<1>8. PICK H : /\ Drain(secrets, text, m) = H[DOMAIN s]
               /\ H = [t \in SUBSET DOMAIN s |-> IF t = {} THEN b ELSE Redact(secrets, text, H[t \ {Max(t)}], s[Max(t)] - 1)]
  <2>1. F = [t \in SUBSET DOMAIN s |-> IF t = {} THEN b ELSE Redact(secrets, text, F[t \ {Max(t)}], s[Max(t)] - 1)]
    BY <1>7
  <2> HIDE DEF F
  <2>2. QED BY <1>2, <2>1
<1> HIDE DEF F
<1>9. FoldsBy(H, n, V, b, step)
  <2>1. H[{}] = b
    BY <1>8
  <2>2. ASSUME NEW t \in SUBSET (1 .. n), t # {}, H[t \ {Max(t)}] \in V
        PROVE  H[t] = step[<<H[t \ {Max(t)}], Max(t)>>]
    <3>1. Max(t) \in 1 .. n
      BY <1>1, <2>2, GreatestUpTo
    <3>2. H[t] = Redact(secrets, text, H[t \ {Max(t)}], s[Max(t)] - 1)
      BY <1>1, <1>8, <2>2
    <3>3. QED BY <2>2, <3>1, <3>2
  <2> HIDE DEF step
  <2>3. QED BY <2>1, <2>2 DEF FoldsBy
<1>10. PICK run : Passes(H, run, n, V, b, step)
  <2> HIDE DEF step
  <2>1. QED BY <1>1, <1>3, <1>5, <1>9, FoldRuns
<1>11. ASSUME NEW k \in Nat, k < n PROVE run[k + 1] = Redact(secrets, text, run[k], s[k + 1] - 1)
  <2>1. k + 1 \in 1 .. n
    BY <1>1, <1>11
  <2>2. run[k] \in V /\ run[k + 1] = step[<<run[k], k + 1>>]
    <3> HIDE DEF step
    <3>1. QED BY <1>10, <1>11 DEF Passes
  <2>3. QED BY <2>1, <2>2
<1> HIDE DEF step
<1>12. run \in [Nat -> V] /\ run[0] = b /\ Drain(secrets, text, m) = run[n]
  BY <1>1, <1>8, <1>10 DEF Passes
<1>13. ASSUME NEW k \in Nat, k < m PROVE run[k + 1] = Redact(secrets, text, run[k], k)
  <2>1. k + 1 \in 1 .. n /\ k < n /\ k + 1 - 1 = k
    BY <1>1, <1>13
  <2>2. run[k + 1] = Redact(secrets, text, run[k], s[k + 1] - 1) /\ s[k + 1] = k + 1
    BY <1>1, <1>11, <2>1
  <2>3. QED BY <2>1, <2>2
<1>14. Redacts(run, secrets, text, m, Bytes)
  BY <1>1, <1>12, <1>13 DEF Redacts, V, b
<1>15. QED BY <1>14

\* A step goes on by the secret at its place, or by one byte.
GoesOn(text, d, i, n, e) ==
  /\ i < d.consumed => e = d
  /\ ~(i < d.consumed) => /\ n = 0 => e.out = Append(d.out, text[i + 1]) /\ e.consumed = i + 1
                          /\ n # 0 => e.out = Append(d.out, Redacted) /\ e.consumed = i + n
  /\ n \in Nat /\ i + n <= Len(text)

\* A place does one of these.
LEMMA RedactIs ==
  ASSUME NEW Bytes, NEW secrets \in SecretsOf(Bytes), NEW text \in Seq(Bytes), NEW d \in Drawn(Bytes),
         NEW i \in Nat, i < Len(text), NEW n, n = SecretAt(secrets, text, i), NEW e, e = Redact(secrets, text, d, i)
  PROVE  GoesOn(text, d, i, n, e)
<1>1. SecretFound(secrets, text, i, n)
  BY SecretAtIs
<1>2. n \in Nat /\ i + n <= Len(text)
  <2>1. CASE n = 0
    BY <2>1
  <2>2. CASE n # 0
    <3>1. \E w \in secrets : Len(w) = n /\ StartsAt(text, i, w)
      BY <1>1, <2>2 DEF SecretFound
    <3>2. QED BY <1>1, <3>1 DEF SecretFound, StartsAt
  <2>3. QED BY <2>1, <2>2
<1>3. i < d.consumed => e = d
  BY DEF Redact
<1>4. ASSUME ~(i < d.consumed), n = 0 PROVE e.out = Append(d.out, text[i + 1]) /\ e.consumed = i + 1
  <2>1. e = [out |-> Append(d.out, text[i + 1]), consumed |-> i + 1]
    BY <1>4 DEF Redact
  <2>2. QED BY <2>1
<1>5. ASSUME ~(i < d.consumed), n # 0 PROVE e.out = Append(d.out, Redacted) /\ e.consumed = i + n
  <2>1. e = [out |-> Append(d.out, Redacted), consumed |-> i + n]
    BY <1>5 DEF Redact
  <2>2. QED BY <2>1
<1>6. QED BY <1>2, <1>3, <1>4, <1>5 DEF GoesOn

\* What is consumed lies between the place and the end.
LEMMA Progress ==
  ASSUME NEW Bytes, NEW secrets \in SecretsOf(Bytes), NEW text \in Seq(Bytes), NEW m \in Nat, m <= Len(text),
         NEW run, Redacts(run, secrets, text, m, Bytes)
  PROVE  \A k \in Nat : k <= m => k <= run[k].consumed /\ run[k].consumed <= Len(text) /\ run[k].consumed \in Nat
<1> DEFINE T == {k \in Nat : k <= m => k <= run[k].consumed /\ run[k].consumed <= Len(text)}
<1>1. Len(text) \in Nat /\ run \in [Nat -> Drawn(Bytes)] /\ run[0] = NothingDrawn
  BY DEF Redacts
<1>2. \A k \in Nat : run[k] \in Drawn(Bytes) /\ run[k].consumed \in Nat
  BY <1>1 DEF Drawn
<1>3. 0 \in T
  BY <1>1 DEF NothingDrawn
<1>4. ASSUME NEW k \in Nat, k \in T PROVE k + 1 \in T
  <2>1. ASSUME k + 1 <= m PROVE k + 1 <= run[k + 1].consumed /\ run[k + 1].consumed <= Len(text)
    <3>1. k < m /\ k <= m /\ k < Len(text)
      BY <1>1, <2>1
    <3>2. run[k + 1] = Redact(secrets, text, run[k], k)
      BY <3>1 DEF Redacts
    <3>3. PICK n : n = SecretAt(secrets, text, k)
      OBVIOUS
    <3>4. PICK c \in Nat : c = run[k].consumed
      BY <1>2
    <3>5. k <= c /\ c <= Len(text)
      BY <1>4, <3>1, <3>4
    <3>6. /\ k < c => run[k + 1] = run[k]
          /\ ~(k < c) => /\ n = 0 => run[k + 1].consumed = k + 1
                         /\ n # 0 => run[k + 1].consumed = k + n
          /\ n \in Nat /\ k + n <= Len(text)
      <4>1. GoesOn(text, run[k], k, n, run[k + 1])
        BY <1>2, <3>1, <3>2, <3>3, RedactIs
      <4>2. QED BY <3>4, <4>1 DEF GoesOn
    <3>7. CASE k < c
      <4>1. run[k + 1].consumed = c
        BY <3>4, <3>6, <3>7
      <4>2. QED BY <3>5, <3>7, <4>1
    <3>8. CASE ~(k < c) /\ n = 0
      <4>1. run[k + 1].consumed = k + 1
        BY <3>6, <3>8
      <4>2. QED BY <1>1, <3>1, <4>1
    <3>9. CASE ~(k < c) /\ n # 0
      <4>1. run[k + 1].consumed = k + n /\ n \in Nat /\ k + n <= Len(text)
        BY <3>6, <3>9
      <4>2. QED BY <3>9, <4>1
    <3>10. QED BY <3>7, <3>8, <3>9
  <2>2. QED BY <2>1
<1>5. \A k \in Nat : k \in T
  <2> HIDE DEF T
  <2>1. QED BY <1>3, <1>4, SetInduction
<1>6. QED BY <1>2, <1>5

\* A secret that was consumed is passed over.
LEMMA PassesOver ==
  ASSUME NEW Bytes, NEW secrets \in SecretsOf(Bytes), NEW text \in Seq(Bytes),
         NEW run, Redacts(run, secrets, text, Len(text), Bytes), NEW k \in Nat, k <= Len(text)
  PROVE  run[run[k].consumed] = run[k]
<1>1. PICK c \in Nat : c = run[k].consumed /\ k <= c /\ c <= Len(text)
  <2>1. Len(text) \in Nat
    OBVIOUS
  <2>2. QED BY <2>1, Progress
<1> DEFINE T == {j \in Nat : k + j <= c => run[k + j] = run[k]}
<1>2. 0 \in T
  OBVIOUS
<1>3. ASSUME NEW j \in Nat, j \in T PROVE j + 1 \in T
  <2>1. ASSUME k + (j + 1) <= c PROVE run[k + (j + 1)] = run[k]
    <3>1. k + j \in Nat /\ k + j <= c /\ k + j < c /\ k + j < Len(text) /\ k + (j + 1) = k + j + 1
      BY <1>1, <2>1
    <3>2. run[k + j] = run[k]
      BY <1>3, <3>1
    <3>3. run[k + j + 1] = Redact(secrets, text, run[k + j], k + j)
      BY <3>1 DEF Redacts
    <3>4. PICK i \in Nat : i = k + j
      BY <3>1
    <3>5. Redact(secrets, text, run[k], i) = run[k]
      BY <1>1, <3>1, <3>4 DEF Redact
    <3>6. QED BY <3>1, <3>2, <3>3, <3>4, <3>5
  <2>2. QED BY <2>1
<1>4. PICK j \in Nat : k + j = c
  <2>1. c - k \in Nat /\ k + (c - k) = c
    BY <1>1
  <2>2. QED BY <2>1
<1>5. j \in T
  <2> HIDE DEF T
  <2>1. QED BY <1>2, <1>3, SetInduction
<1>6. k + j <= c
  BY <1>1, <1>4
<1>7. QED BY <1>1, <1>4, <1>5, <1>6

\* A drain of what is kept back of a text goes on where the last one stopped.
DrawnBetween(ref, c, m, limit, d, Bytes) ==
  /\ ref[c + limit].out = ref[c].out \o d.out /\ ref[c + limit].consumed = c + d.consumed
  /\ d \in Drawn(Bytes) /\ limit <= d.consumed /\ d.consumed <= m - c

\* It does, if no secret can reach beyond what is kept back.
LEMMA DrainsAlong ==
  ASSUME NEW Bytes, NEW secrets \in SecretsOf(Bytes), NEW text \in Seq(Bytes),
         NEW ref, Redacts(ref, secrets, text, Len(text), Bytes),
         NEW c \in Nat, NEW m \in Nat, c <= m, m <= Len(text), ref[c].consumed = c,
         NEW limit \in Nat, limit <= m - c, limit = 0 \/ limit + Retain(secrets) <= m - c \/ m = Len(text),
         NEW d, d = Drain(secrets, SubSeq(text, c + 1, m), limit)
  PROVE  DrawnBetween(ref, c, m, limit, d, Bytes)
<1> DEFINE window == SubSeq(text, c + 1, m)
<1>1. /\ window \in Seq(Bytes) /\ Len(window) = m - c /\ Len(text) \in Nat /\ m - c \in Nat
      /\ \A k \in Nat : k < m - c => window[k + 1] = text[c + k + 1]
  <2>1. window \in Seq(Bytes) /\ Len(window) = m - c /\ Len(text) \in Nat /\ m - c \in Nat
    OBVIOUS
  <2>2. ASSUME NEW k \in Nat, k < m - c PROVE window[k + 1] = text[c + k + 1]
    <3>1. k + 1 \in 1 .. m - c /\ c + 1 + (k + 1) - 1 = c + k + 1
      BY <2>2
    <3>2. window[k + 1] = text[c + 1 + (k + 1) - 1]
      BY <3>1
    <3>3. QED BY <3>1, <3>2
  <2>3. QED BY <2>1, <2>2
<1> HIDE DEF window
<1>2. PICK run : Redacts(run, secrets, window, limit, Bytes)
  BY <1>1, Redacting
<1>3. run \in [Nat -> Drawn(Bytes)] /\ run[0] = NothingDrawn /\ d = run[limit]
  BY <1>2 DEF Redacts, window
<1>4. ref \in [Nat -> Drawn(Bytes)]
  BY DEF Redacts
<1>5. /\ \A k \in Nat : /\ run[k] \in Drawn(Bytes) /\ ref[k] \in Drawn(Bytes)
                        /\ run[k].out \in Seq(Bytes \cup {Redacted}) /\ ref[k].out \in Seq(Bytes \cup {Redacted})
                        /\ run[k].consumed \in Nat /\ ref[k].consumed \in Nat
  BY <1>3, <1>4 DEF Drawn
<1> DEFINE P(k) == /\ ref[c + k].out = ref[c].out \o run[k].out
                   /\ ref[c + k].consumed = c + run[k].consumed
           T == {k \in Nat : k <= limit => P(k)}
<1>6. 0 \in T
  <2>1. run[0].out = <<>> /\ run[0].consumed = 0 /\ c + 0 = c
    BY <1>3 DEF NothingDrawn
  <2>2. ref[c].out \o <<>> = ref[c].out
    BY <1>5, ConcatEmptySeq
  <2>3. QED BY <2>1, <2>2
<1>7. ASSUME NEW k \in Nat, k \in T PROVE k + 1 \in T
  <2>1. ASSUME k + 1 <= limit
        PROVE  /\ ref[c + (k + 1)].out = ref[c].out \o run[k + 1].out
               /\ ref[c + (k + 1)].consumed = c + run[k + 1].consumed
    <3>1. /\ k < limit /\ k <= limit /\ k < m - c /\ c + k \in Nat /\ c + k < Len(text) /\ c + (k + 1) = c + k + 1
          /\ k < Len(window)
      BY <1>1, <2>1
    <3>2. /\ ref[c + k].out = ref[c].out \o run[k].out
          /\ ref[c + k].consumed = c + run[k].consumed
      BY <1>7, <3>1
    <3>3. run[k + 1] = Redact(secrets, window, run[k], k)
      BY <1>2, <3>1 DEF Redacts
    <3>4. ref[c + k + 1] = Redact(secrets, text, ref[c + k], c + k)
      BY <3>1 DEF Redacts
    <3>5. PICK n : n = SecretAt(secrets, window, k)
      OBVIOUS
    <3>6. n = SecretAt(secrets, text, c + k)
      <4>1. k + Retain(secrets) + 1 <= m - c \/ m = Len(text)
        <5>1. PICK r \in Nat : r = Retain(secrets)
          BY RetainIs
        <5>2. limit + r <= m - c => k + r + 1 <= m - c
          BY <1>1, <3>1
        <5>3. limit # 0
          BY <3>1
        <5>4. QED BY <5>1, <5>2, <5>3
      <4>2. QED BY <3>1, <3>5, <4>1, LocalSecret DEF window
    <3>7. /\ k < run[k].consumed => run[k + 1] = run[k]
          /\ ~(k < run[k].consumed) =>
               /\ n = 0 => run[k + 1].out = Append(run[k].out, window[k + 1]) /\ run[k + 1].consumed = k + 1
               /\ n # 0 => run[k + 1].out = Append(run[k].out, Redacted) /\ run[k + 1].consumed = k + n
          /\ n \in Nat
      <4>1. GoesOn(window, run[k], k, n, run[k + 1])
        BY <1>1, <1>5, <3>1, <3>3, <3>5, RedactIs
      <4>2. QED BY <4>1 DEF GoesOn
    <3>8. /\ c + k < ref[c + k].consumed => ref[c + k + 1] = ref[c + k]
          /\ ~(c + k < ref[c + k].consumed) =>
               /\ n = 0 => ref[c + k + 1].out = Append(ref[c + k].out, text[c + k + 1]) /\ ref[c + k + 1].consumed = c + k + 1
               /\ n # 0 => ref[c + k + 1].out = Append(ref[c + k].out, Redacted) /\ ref[c + k + 1].consumed = c + k + n
      <4>1. PICK i \in Nat : i = c + k
        BY <3>1
      <4>2. GoesOn(text, ref[i], i, n, ref[c + k + 1])
        BY <1>5, <3>1, <3>4, <3>6, <4>1, RedactIs
      <4>3. QED BY <4>1, <4>2 DEF GoesOn
    <3>9. c + k < ref[c + k].consumed <=> k < run[k].consumed
      <4>1. PICK e \in Nat : e = run[k].consumed
        BY <1>5
      <4>2. QED BY <3>2, <4>1
    <3>10. CASE k < run[k].consumed
      BY <3>1, <3>2, <3>7, <3>8, <3>9, <3>10
    <3>11. ASSUME ~(k < run[k].consumed), NEW x \in Bytes \cup {Redacted}, NEW l \in Nat,
                  run[k + 1].out = Append(run[k].out, x), run[k + 1].consumed = k + l,
                  ref[c + k + 1].out = Append(ref[c + k].out, x), ref[c + k + 1].consumed = c + k + l
           PROVE  /\ ref[c + (k + 1)].out = ref[c].out \o run[k + 1].out
                  /\ ref[c + (k + 1)].consumed = c + run[k + 1].consumed
      <4>1. PICK a, b : a = ref[c].out /\ b = run[k].out
        OBVIOUS
      <4>2. a \in Seq(Bytes \cup {Redacted}) /\ b \in Seq(Bytes \cup {Redacted})
        BY <1>5, <4>1
      <4>3. Append(a \o b, x) = a \o Append(b, x)
        <5>1. PICK S : S = Bytes \cup {Redacted}
          OBVIOUS
        <5>2. a \in Seq(S) /\ b \in Seq(S) /\ x \in S
          BY <4>2, <5>1, <3>11
        <5>3. a \o b \in Seq(S)
          BY <5>2
        <5>4. Append(a \o b, x) = (a \o b) \o <<x>>
          BY <5>2, <5>3
        <5>5. Append(b, x) = b \o <<x>>
          BY <5>2
        <5>6. (a \o b) \o <<x>> = a \o (b \o <<x>>)
          BY <5>2
        <5>7. QED BY <5>4, <5>5, <5>6
      <4>4. ref[c + (k + 1)].out = ref[c].out \o run[k + 1].out
        BY <3>1, <3>2, <3>11, <4>1, <4>3
      <4>5. c + (k + l) = c + k + l
        BY <3>11
      <4>6. QED BY <3>1, <3>11, <4>4, <4>5
    <3>12. CASE ~(k < run[k].consumed) /\ n = 0
      <4>1. window[k + 1] = text[c + k + 1] /\ window[k + 1] \in Bytes
        <5>1. window[k + 1] = text[c + k + 1]
          BY <1>1, <3>1
        <5>2. k + 1 \in 1 .. Len(window)
          BY <1>1, <3>1
        <5>3. QED BY <1>1, <5>1, <5>2
      <4>2. /\ run[k + 1].out = Append(run[k].out, window[k + 1]) /\ run[k + 1].consumed = k + 1
            /\ ref[c + k + 1].out = Append(ref[c + k].out, window[k + 1]) /\ ref[c + k + 1].consumed = c + k + 1
        BY <3>7, <3>8, <3>9, <3>12, <4>1
      <4>3. QED BY <3>11, <3>12, <4>1, <4>2
    <3>13. CASE ~(k < run[k].consumed) /\ n # 0
      <4>1. /\ run[k + 1].out = Append(run[k].out, Redacted) /\ run[k + 1].consumed = k + n
            /\ ref[c + k + 1].out = Append(ref[c + k].out, Redacted) /\ ref[c + k + 1].consumed = c + k + n
        BY <3>7, <3>8, <3>9, <3>13
      <4>2. QED BY <3>7, <3>11, <3>13, <4>1
    <3>14. QED BY <3>10, <3>12, <3>13
  <2>2. k + 1 <= limit => P(k + 1)
    BY <2>1
  <2> HIDE DEF P
  <2>3. QED BY <2>2
<1>8. limit \in T
  <2> HIDE DEF T
  <2>1. QED BY <1>6, <1>7, SetInduction
<1>9. limit <= d.consumed /\ d.consumed <= m - c
  <2>1. limit <= Len(window)
    BY <1>1
  <2>2. limit <= run[limit].consumed /\ run[limit].consumed <= Len(window)
    BY <1>1, <1>2, <2>1, Progress
  <2>3. QED BY <1>1, <1>3, <2>2
<1>10. P(limit)
  <2> HIDE DEF P
  <2>1. QED BY <1>8
<1>11. QED BY <1>3, <1>5, <1>9, <1>10 DEF DrawnBetween

\* The states of a sanitizer.
Ansis == {"Text", "Escape", "Csi", "Osc", "OscEscape", "ControlString", "ControlEscape"}
Sanitizers(Bytes) == [ansi : Ansis, pending : Seq(Bytes), out : Seq(Bytes \cup {Redacted})]

\* What a sanitizer keeps back is the rest of the visible text, and what it has shown is
\* what the reference shows of the part before.
Keeping(s, text, m, ref, c) ==
  /\ c \in Nat /\ c <= m /\ ref[c].consumed = c
  /\ s.pending = SubSeq(text, c + 1, m) /\ s.out = ref[c].out

\* So does one that has shown what it need not keep back any more.
Drains(t, s, text, m, ref, c, limit, Bytes) ==
  /\ t \in Sanitizers(Bytes) /\ t.ansi = s.ansi
  /\ t.out = ref[c + limit].out
  /\ \E e : Keeping(t, text, m, ref, e)
  /\ \E out \in Seq(Bytes \cup {Redacted}) : t.out = s.out \o out

\* So does one that has been drained.
LEMMA DrainedKeeps ==
  ASSUME NEW Bytes, NEW secrets \in SecretsOf(Bytes), NEW text \in Seq(Bytes),
         NEW ref, Redacts(ref, secrets, text, Len(text), Bytes),
         NEW s \in Sanitizers(Bytes),
         NEW m \in Nat, m <= Len(text), NEW c, Keeping(s, text, m, ref, c),
         NEW limit \in Nat, limit <= m - c, limit = 0 \/ limit + Retain(secrets) <= m - c \/ m = Len(text),
         NEW u, u = Drained(secrets, s, limit)
  PROVE  Drains(u, s, text, m, ref, c, limit, Bytes)
<1> DEFINE d == Drain(secrets, s.pending, limit)
           p == SubSeq(s.pending, d.consumed + 1, Len(s.pending))
           t == [ansi |-> s.ansi, pending |-> p, out |-> s.out \o d.out]
           e == c + d.consumed
<1>1. Drained(secrets, s, limit) = t
  <2>1. PICK f : f = Drain(secrets, s.pending, limit)
    OBVIOUS
  <2>2. Drained(secrets, s, limit) = [s EXCEPT !.out = @ \o f.out, !.pending = SubSeq(@, f.consumed + 1, Len(@))]
    BY <2>1 DEF Drained
  <2>3. t = [ansi |-> s.ansi, pending |-> SubSeq(s.pending, f.consumed + 1, Len(s.pending)), out |-> s.out \o f.out]
    BY <2>1
  <2>4. s = [ansi |-> s.ansi, pending |-> s.pending, out |-> s.out]
    BY DEF Sanitizers
  <2> HIDE DEF t, p, d
  <2>5. QED BY <2>2, <2>3, <2>4
<1>2. c \in Nat /\ c <= m /\ ref[c].consumed = c /\ s.pending = SubSeq(text, c + 1, m) /\ s.out = ref[c].out
  BY DEF Keeping
<1>3. /\ ref[c + limit].out = s.out \o d.out /\ ref[c + limit].consumed = e
      /\ d \in Drawn(Bytes) /\ limit <= d.consumed /\ d.consumed <= m - c
  <2>1. PICK f : f = d
    OBVIOUS
  <2>2. f = Drain(secrets, SubSeq(text, c + 1, m), limit)
    BY <1>2, <2>1
  <2> HIDE DEF d
  <2>3. /\ ref[c + limit].out = ref[c].out \o f.out /\ ref[c + limit].consumed = c + f.consumed
        /\ f \in Drawn(Bytes) /\ limit <= f.consumed /\ f.consumed <= m - c
    <3>1. DrawnBetween(ref, c, m, limit, f, Bytes)
      BY <1>2, <2>2, DrainsAlong
    <3>2. QED BY <3>1 DEF DrawnBetween
  <2>4. QED BY <1>2, <2>1, <2>3
<1> HIDE DEF d
<1>4. d.consumed \in Nat /\ d.out \in Seq(Bytes \cup {Redacted})
  BY <1>3 DEF Drawn
<1>5. e \in Nat /\ e <= m /\ c + limit <= e /\ c + limit \in Nat /\ c + limit <= Len(text)
  <2>1. Len(text) \in Nat
    OBVIOUS
  <2>2. PICK k \in Nat : k = d.consumed
    BY <1>4
  <2>3. limit <= k /\ k <= m - c
    BY <1>3, <2>2
  <2>4. QED BY <1>2, <2>1, <2>2, <2>3
<1>6. ref[e] = ref[c + limit]
  BY <1>3, <1>5, PassesOver
<1>7. p = SubSeq(text, e + 1, m)
  <2>1. PICK k \in Nat : k = d.consumed /\ k <= m - c
    BY <1>3, <1>4
  <2> DEFINE q == SubSeq(text, c + 1, m)
             a == SubSeq(q, k + 1, Len(q))
             b == SubSeq(text, c + k + 1, m)
  <2>2. Len(text) \in Nat /\ q \in Seq(Bytes) /\ Len(q) = m - c /\ m - c \in Nat
    BY <1>2
  <2>3. \A i \in Nat : i # 0 /\ i <= m - c => q[i] = text[c + i]
    BY <1>2
  <2>4. b \in Seq(Bytes) /\ Len(b) = m - c - k /\ \A i \in Nat : i # 0 /\ i <= m - c - k => b[i] = text[c + k + i]
    <3>1. PICK f \in Nat : f = c + k /\ f <= m
      BY <1>2, <2>1
    <3>2. SubSeq(text, f + 1, m) \in Seq(Bytes) /\ Len(SubSeq(text, f + 1, m)) = m - f
          /\ \A i \in Nat : i # 0 /\ i <= m - f => SubSeq(text, f + 1, m)[i] = text[f + i]
      BY <2>2, <3>1
    <3>3. m - f = m - c - k
      BY <1>2, <2>1, <3>1
    <3>4. QED BY <3>1, <3>2, <3>3
  <2> HIDE DEF q, b
  <2>5. a \in Seq(Bytes) /\ Len(a) = m - c - k /\ \A i \in Nat : i # 0 /\ i <= m - c - k => a[i] = q[k + i]
    <3>1. PICK g \in Nat : g = Len(q) /\ g = m - c /\ k <= g
      BY <2>1, <2>2
    <3>2. SubSeq(q, k + 1, g) \in Seq(Bytes) /\ Len(SubSeq(q, k + 1, g)) = g - k
          /\ \A i \in Nat : i # 0 /\ i <= g - k => SubSeq(q, k + 1, g)[i] = q[k + i]
      BY <2>2, <3>1
    <3>3. QED BY <3>1, <3>2
  <2> HIDE DEF a
  <2>6. \A i \in Nat : i # 0 /\ i <= m - c - k => a[i] = b[i]
    <3>1. ASSUME NEW i \in Nat, i # 0, i <= m - c - k PROVE a[i] = b[i]
      <4>1. k + i \in Nat /\ k + i # 0 /\ k + i <= m - c /\ c + (k + i) = c + k + i
        BY <1>2, <2>1, <3>1
      <4>2. a[i] = q[k + i] /\ b[i] = text[c + k + i]
        BY <2>4, <2>5, <3>1
      <4>3. q[k + i] = text[c + (k + i)]
        BY <2>3, <4>1
      <4>4. QED BY <4>1, <4>2, <4>3
    <3>2. QED BY <3>1
  <2>7. a = b
    <3>1. \A i \in 1 .. Len(a) : a[i] = b[i]
      <4>1. PICK l \in Nat : l = m - c - k
        BY <1>2, <2>1
      <4>2. QED BY <2>5, <2>6, <4>1
    <3>2. QED BY <2>4, <2>5, <3>1
  <2>8. p = a
    BY <1>2, <2>1 DEF a, q
  <2>9. b = SubSeq(text, e + 1, m)
    BY <2>1 DEF b
  <2>10. QED BY <2>7, <2>8, <2>9
<1>8. Keeping(t, text, m, ref, e)
  <2> HIDE DEF p, e
  <2>1. t.pending = p /\ t.out = s.out \o d.out
    OBVIOUS
  <2>2. QED BY <1>3, <1>5, <1>6, <1>7, <2>1 DEF Keeping
<1>9. t.ansi = s.ansi /\ t.out = ref[c + limit].out
  BY <1>3
<1>10. \E out \in Seq(Bytes \cup {Redacted}) : t.out = s.out \o out
  BY <1>4
<1>11. t \in Sanitizers(Bytes)
  <2>1. s.out \o d.out \in Seq(Bytes \cup {Redacted}) /\ s.ansi \in Ansis
    BY <1>4 DEF Sanitizers
  <2>2. p \in Seq(Bytes)
    <3>1. PICK k \in Nat : k = e
      BY <1>5
    <3>2. SubSeq(text, k + 1, m) \in Seq(Bytes)
      BY <3>1
    <3>3. QED BY <1>7, <3>1, <3>2
  <2> HIDE DEF p
  <2>3. QED BY <2>1, <2>2 DEF Sanitizers
<1> HIDE DEF t, e
<1>12. Drains(t, s, text, m, ref, c, limit, Bytes)
  BY <1>8, <1>9, <1>10, <1>11 DEF Drains
<1>13. QED BY <1>1, <1>12

\* A byte takes the parser on, and adds to what is pending or does not.
LEMMA FeedKeeps ==
  ASSUME NEW Bytes, NEW s \in Sanitizers(Bytes), NEW byte \in Bytes
  PROVE  Feed(s, byte) \in Sanitizers(Bytes)
<1>1. s.ansi \in Ansis /\ s.pending \in Seq(Bytes) /\ s.out \in Seq(Bytes \cup {Redacted})
      /\ s = [ansi |-> s.ansi, pending |-> s.pending, out |-> s.out]
  BY DEF Sanitizers
<1>2. PICK a : a = NextAnsi(s.ansi, byte)
  OBVIOUS
<1>3. a \in Ansis
  BY <1>1, <1>2 DEF NextAnsi, Ansis
<1>4. PICK p : p = IF s.ansi = "Text" /\ byte \notin Controls THEN Append(s.pending, byte) ELSE s.pending
  OBVIOUS
<1>5. p \in Seq(Bytes)
  BY <1>1, <1>4
<1>6. Feed(s, byte) = [s EXCEPT !.ansi = a, !.pending = p]
  BY <1>2, <1>4 DEF Feed
<1>7. Feed(s, byte) = [ansi |-> a, pending |-> p, out |-> s.out]
  BY <1>1, <1>6
<1>8. QED BY <1>1, <1>3, <1>5, <1>7 DEF Sanitizers

\* The bytes of a text, one after the other.
Feeds(run, s0, text, Bytes) ==
  /\ run \in [Nat -> Sanitizers(Bytes)] /\ run[0] = s0
  /\ \A k \in Nat : k < Len(text) => run[k + 1] = Feed(run[k], text[k + 1])
  /\ FoldLeft(Feed, s0, text) = run[Len(text)]

\* They are read in turn.
LEMMA Feeding ==
  ASSUME NEW Bytes, NEW text \in Seq(Bytes), NEW s0 \in Sanitizers(Bytes)
  PROVE  \E run : Feeds(run, s0, text, Bytes)
<1> DEFINE s == text
           n == Len(s)
           V == Sanitizers(Bytes)
           b == s0
           F == CHOOSE h : h = [t \in SUBSET DOMAIN s |->
                  IF t = {} THEN b ELSE Feed(h[t \ {Max(t)}], s[Max(t)])]
           step == [x \in V \X (1 .. n) |-> Feed(x[1], s[x[2]])]
<1>1. n \in Nat /\ DOMAIN s = 1 .. n /\ \A i \in 1 .. n : s[i] \in Bytes
  OBVIOUS
<1>2. FoldLeft(Feed, s0, text) = F[DOMAIN s]
  BY DEF FoldLeft, MapThenFoldSet
<1>3. b \in V
  OBVIOUS
<1>4. \A x \in V : \A y \in Bytes : Feed(x, y) \in V
  BY FeedKeeps
<1> HIDE DEF V, b
<1>5. step \in [V \X (1 .. n) -> V]
  BY <1>1, <1>4
<1> HIDE DEF n, s
<1>6. PICK h : Folds(h, n, V, b, step)
  <2> HIDE DEF step
  <2>1. QED BY <1>1, <1>3, <1>5, FoldRecursion
<1>7. h = [t \in SUBSET DOMAIN s |-> IF t = {} THEN b ELSE Feed(h[t \ {Max(t)}], s[Max(t)])]
  <2>1. ASSUME NEW t \in SUBSET (1 .. n), t # {}
        PROVE  step[<<h[t \ {Max(t)}], Max(t)>>] = Feed(h[t \ {Max(t)}], s[Max(t)])
    <3>1. Max(t) \in 1 .. n
      BY <1>1, <2>1, GreatestUpTo
    <3>2. h[t \ {Max(t)}] \in V
      BY <1>6, <2>1 DEF Folds
    <3>3. QED BY <3>1, <3>2
  <2> HIDE DEF step
  <2>2. QED BY <1>1, <1>6, <2>1 DEF Folds
<1>8. PICK H : /\ FoldLeft(Feed, s0, text) = H[DOMAIN s]
               /\ H = [t \in SUBSET DOMAIN s |-> IF t = {} THEN b ELSE Feed(H[t \ {Max(t)}], s[Max(t)])]
  <2>1. F = [t \in SUBSET DOMAIN s |-> IF t = {} THEN b ELSE Feed(F[t \ {Max(t)}], s[Max(t)])]
    BY <1>7
  <2> HIDE DEF F
  <2>2. QED BY <1>2, <2>1
<1> HIDE DEF F
<1>9. FoldsBy(H, n, V, b, step)
  <2>1. H[{}] = b
    BY <1>8
  <2>2. ASSUME NEW t \in SUBSET (1 .. n), t # {}, H[t \ {Max(t)}] \in V
        PROVE  H[t] = step[<<H[t \ {Max(t)}], Max(t)>>]
    <3>1. Max(t) \in 1 .. n
      BY <1>1, <2>2, GreatestUpTo
    <3>2. H[t] = Feed(H[t \ {Max(t)}], s[Max(t)])
      BY <1>1, <1>8, <2>2
    <3>3. QED BY <2>2, <3>1, <3>2
  <2> HIDE DEF step
  <2>3. QED BY <2>1, <2>2 DEF FoldsBy
<1>10. PICK run : Passes(H, run, n, V, b, step)
  <2> HIDE DEF step
  <2>1. QED BY <1>1, <1>3, <1>5, <1>9, FoldRuns
<1>11. ASSUME NEW k \in Nat, k < n PROVE run[k + 1] = Feed(run[k], s[k + 1])
  <2>1. k + 1 \in 1 .. n
    BY <1>1, <1>11
  <2>2. run[k] \in V /\ run[k + 1] = step[<<run[k], k + 1>>]
    <3> HIDE DEF step
    <3>1. QED BY <1>10, <1>11 DEF Passes
  <2>3. QED BY <2>1, <2>2
<1> HIDE DEF step
<1>12. run \in [Nat -> V] /\ run[0] = b /\ FoldLeft(Feed, s0, text) = run[n]
  BY <1>1, <1>8, <1>10 DEF Passes
<1>13. Feeds(run, s0, text, Bytes)
  BY <1>1, <1>11, <1>12 DEF Feeds, V, b, n, s
<1>14. QED BY <1>13

\* What a byte adds is the same whatever else is pending.
Adds(s, byte) == s.ansi = "Text" /\ byte \notin Controls

\* And what it does otherwise.
LEMMA FeedIs ==
  ASSUME NEW Bytes, NEW s \in Sanitizers(Bytes), NEW byte \in Bytes, NEW t, t = Feed(s, byte)
  PROVE  /\ t.ansi = NextAnsi(s.ansi, byte) /\ t.out = s.out
         /\ t.pending = IF Adds(s, byte) THEN Append(s.pending, byte) ELSE s.pending
<1>1. s = [ansi |-> s.ansi, pending |-> s.pending, out |-> s.out]
  BY DEF Sanitizers
<1>2. PICK a : a = NextAnsi(s.ansi, byte)
  OBVIOUS
<1>3. PICK p : p = IF Adds(s, byte) THEN Append(s.pending, byte) ELSE s.pending
  OBVIOUS
<1>4. t = [s EXCEPT !.ansi = a, !.pending = p]
  BY <1>2, <1>3 DEF Feed, Adds
<1>5. t = [ansi |-> a, pending |-> p, out |-> s.out]
  BY <1>1, <1>4
<1>6. QED BY <1>2, <1>3, <1>5

\* The visible text only grows.
Heads(p, q) == Len(p) <= Len(q) /\ \A i \in 1 .. Len(p) : p[i] = q[i]

\* A head stays one.
LEMMA HeadsGoOn ==
  ASSUME NEW S, NEW p \in Seq(S), NEW q \in Seq(S), Heads(p, q), NEW x \in S
  PROVE  Heads(p, Append(q, x))
<1>1. Len(p) \in Nat /\ Len(q) \in Nat /\ Len(p) <= Len(q) /\ \A i \in 1 .. Len(p) : p[i] = q[i]
  BY DEF Heads
<1>2. Len(Append(q, x)) = Len(q) + 1 /\ \A i \in 1 .. Len(q) : Append(q, x)[i] = q[i]
  OBVIOUS
<1>3. QED BY <1>1, <1>2 DEF Heads

\* What is visible of a head of the text is a head of what is visible.
LEMMA VisibleGrows ==
  ASSUME NEW Bytes, NEW s0 \in Sanitizers(Bytes), NEW text \in Seq(Bytes), NEW G, Feeds(G, s0, text, Bytes),
         NEW j \in Nat, NEW k \in Nat, j <= k, k <= Len(text)
  PROVE  Heads(G[j].pending, G[k].pending)
<1> DEFINE T == {i \in Nat : j + i <= Len(text) => Heads(G[j].pending, G[j + i].pending)}
<1>1. /\ Len(text) \in Nat /\ G \in [Nat -> Sanitizers(Bytes)] /\ \A i \in 1 .. Len(text) : text[i] \in Bytes
      /\ \A i \in Nat : i < Len(text) => G[i + 1] = Feed(G[i], text[i + 1])
  BY DEF Feeds
<1>2. \A i \in Nat : G[i] \in Sanitizers(Bytes) /\ G[i].pending \in Seq(Bytes)
  BY <1>1 DEF Sanitizers
<1>3. 0 \in T
  <2>1. j + 0 = j /\ G[j].pending \in Seq(Bytes)
    BY <1>2
  <2>2. Heads(G[j].pending, G[j].pending)
    BY <2>1 DEF Heads
  <2>3. QED BY <2>1, <2>2
<1>4. ASSUME NEW i \in Nat, i \in T PROVE i + 1 \in T
  <2>1. ASSUME j + (i + 1) <= Len(text) PROVE Heads(G[j].pending, G[j + (i + 1)].pending)
    <3>1. PICK l \in Nat : l = j + i
      OBVIOUS
    <3>2. l < Len(text) /\ l <= Len(text) /\ j + (i + 1) = l + 1 /\ l + 1 \in 1 .. Len(text)
      BY <1>1, <2>1, <3>1
    <3>3. Heads(G[j].pending, G[l].pending)
      BY <1>4, <3>1, <3>2
    <3>4. G[l + 1] = Feed(G[l], text[l + 1]) /\ text[l + 1] \in Bytes /\ G[l] \in Sanitizers(Bytes)
      BY <1>1, <1>2, <3>2
    <3>5. G[l + 1].pending = IF Adds(G[l], text[l + 1]) THEN Append(G[l].pending, text[l + 1]) ELSE G[l].pending
      BY <3>4, FeedIs
    <3>6. Heads(G[j].pending, Append(G[l].pending, text[l + 1]))
      BY <1>2, <3>3, <3>4, HeadsGoOn
    <3>7. QED BY <3>2, <3>3, <3>5, <3>6
  <2>2. QED BY <2>1
<1>5. \A i \in Nat : i \in T
  <2> HIDE DEF T
  <2>1. QED BY <1>3, <1>4, SetInduction
<1>6. PICK i \in Nat : j + i = k
  <2>1. k - j \in Nat /\ j + (k - j) = k
    OBVIOUS
  <2>2. QED BY <2>1
<1>7. QED BY <1>5, <1>6

\* A part of a sequence, and its next member.
LEMMA SubSeqGrows ==
  ASSUME NEW S, NEW v \in Seq(S), NEW c \in Nat, NEW m \in Nat, c <= m, m < Len(v)
  PROVE  SubSeq(v, c + 1, m + 1) = Append(SubSeq(v, c + 1, m), v[m + 1])
<1> DEFINE a == SubSeq(v, c + 1, m + 1)
           p == SubSeq(v, c + 1, m)
           b == Append(p, v[m + 1])
<1>1. Len(v) \in Nat /\ m + 1 \in 1 .. Len(v) /\ v[m + 1] \in S /\ m - c \in Nat
  OBVIOUS
<1>2. a \in Seq(S) /\ Len(a) = m + 1 - c /\ \A i \in 1 .. (m + 1 - c) : a[i] = v[c + i]
  BY <1>1
<1>3. p \in Seq(S) /\ Len(p) = m - c /\ \A i \in 1 .. (m - c) : p[i] = v[c + i]
  BY <1>1
<1> HIDE DEF p
<1>4. b \in Seq(S) /\ Len(b) = m - c + 1 /\ b[m - c + 1] = v[m + 1] /\ \A i \in 1 .. (m - c) : b[i] = p[i]
  BY <1>1, <1>3
<1> HIDE DEF a, b
<1>5. m + 1 - c = m - c + 1 /\ c + (m - c + 1) = m + 1
  OBVIOUS
<1>6. ASSUME NEW i \in 1 .. (m - c + 1) PROVE a[i] = b[i]
  <2>1. CASE i = m - c + 1
    <3>1. a[i] = v[c + i]
      BY <1>2, <1>5
    <3>2. QED BY <1>4, <1>5, <2>1, <3>1
  <2>2. CASE i # m - c + 1
    <3>1. i \in 1 .. (m - c)
      BY <1>1, <2>2
    <3>2. a[i] = v[c + i]
      BY <1>2, <1>5
    <3>3. QED BY <1>3, <1>4, <3>1, <3>2
  <2>3. QED BY <2>1, <2>2
<1>7. a = b
  BY <1>2, <1>4, <1>5, <1>6
<1>8. QED BY <1>7 DEF a, b, p

\* A sanitizer that has read the text up to a place has its parser where the whole text
\* has it there, and keeps back the rest of what is visible so far.
Reaches(s, G, text, o, ref, Bytes) ==
  /\ s \in Sanitizers(Bytes) /\ s.ansi = G[o].ansi
  /\ \E c : Keeping(s, G[Len(text)].pending, Len(G[o].pending), ref, c)

\* The bytes of a chunk take a sanitizer on by that chunk.
LEMMA FedAlong ==
  ASSUME NEW Bytes, NEW text \in Seq(Bytes), NEW s0 \in Sanitizers(Bytes), NEW G, Feeds(G, s0, text, Bytes), NEW ref,
         NEW chunk \in Seq(Bytes), NEW o \in Nat, o + Len(chunk) <= Len(text),
         \A i \in 1 .. Len(chunk) : text[o + i] = chunk[i],
         NEW s, Reaches(s, G, text, o, ref, Bytes)
  PROVE  Reaches(FoldLeft(Feed, s, chunk), G, text, o + Len(chunk), ref, Bytes)
<1> DEFINE n == Len(chunk)
           V == G[Len(text)].pending
<1>1. s \in Sanitizers(Bytes) /\ s.ansi = G[o].ansi
  BY DEF Reaches
<1>2. PICK c : Keeping(s, V, Len(G[o].pending), ref, c)
  BY DEF Reaches
<1>3. PICK H : Feeds(H, s, chunk, Bytes)
  BY <1>1, Feeding
<1>4. /\ n \in Nat /\ Len(text) \in Nat /\ (\A i \in 1 .. n : chunk[i] \in Bytes /\ text[o + i] = chunk[i])
      /\ o + n <= Len(text)
  OBVIOUS
<1>5. /\ \A i \in Nat : i < Len(text) => G[i + 1] = Feed(G[i], text[i + 1])
      /\ \A i \in Nat : i < n => H[i + 1] = Feed(H[i], chunk[i + 1])
      /\ H[0] = s /\ FoldLeft(Feed, s, chunk) = H[n]
  BY <1>3 DEF Feeds
<1>6. \A i \in Nat : G[i] \in Sanitizers(Bytes) /\ H[i] \in Sanitizers(Bytes)
  BY <1>3 DEF Feeds
<1>7. \A i \in Nat : G[i].pending \in Seq(Bytes) /\ Len(G[i].pending) \in Nat
  BY <1>6 DEF Sanitizers
<1>8. V \in Seq(Bytes) /\ Len(V) \in Nat
  BY <1>4, <1>7
<1>9. ASSUME NEW i \in Nat, i <= Len(text) PROVE Heads(G[i].pending, V)
  <2>1. Heads(G[i].pending, G[Len(text)].pending)
    BY <1>4, <1>9, VisibleGrows
  <2>2. QED BY <2>1
<1> HIDE DEF V
<1>10. /\ c \in Nat /\ c <= Len(G[o].pending) /\ ref[c].consumed = c
       /\ s.pending = SubSeq(V, c + 1, Len(G[o].pending)) /\ s.out = ref[c].out
  BY <1>2 DEF Keeping
<1> DEFINE P(i) == /\ H[i].ansi = G[o + i].ansi /\ H[i].out = s.out
                   /\ c <= Len(G[o + i].pending) /\ H[i].pending = SubSeq(V, c + 1, Len(G[o + i].pending))
           T == {i \in Nat : i <= n => P(i)}
<1>11. 0 \in T
  <2>1. o + 0 = o
    OBVIOUS
  <2>2. QED BY <1>1, <1>5, <1>10, <2>1
<1>12. ASSUME NEW i \in Nat, i \in T PROVE i + 1 \in T
  <2>1. ASSUME i + 1 <= n PROVE P(i + 1)
    <3>1. PICK l \in Nat : l = o + i
      OBVIOUS
    <3>2. /\ i < n /\ i <= n /\ l < Len(text) /\ l + 1 <= Len(text) /\ l + 1 \in Nat /\ o + (i + 1) = l + 1
          /\ i + 1 \in 1 .. n
      BY <1>4, <2>1, <3>1
    <3>3. /\ H[i].ansi = G[l].ansi /\ H[i].out = s.out
          /\ c <= Len(G[l].pending) /\ H[i].pending = SubSeq(V, c + 1, Len(G[l].pending))
      BY <1>12, <3>1, <3>2
    <3>4. PICK x \in Bytes : x = chunk[i + 1] /\ x = text[l + 1]
      BY <1>4, <3>2
    <3>5. H[i + 1] = Feed(H[i], x) /\ G[l + 1] = Feed(G[l], x)
      BY <1>5, <3>2, <3>4
    <3>6. /\ H[i + 1].ansi = NextAnsi(H[i].ansi, x) /\ H[i + 1].out = H[i].out
          /\ H[i + 1].pending = IF Adds(H[i], x) THEN Append(H[i].pending, x) ELSE H[i].pending
      BY <1>6, <3>5, FeedIs
    <3>7. /\ G[l + 1].ansi = NextAnsi(G[l].ansi, x)
          /\ G[l + 1].pending = IF Adds(G[l], x) THEN Append(G[l].pending, x) ELSE G[l].pending
      BY <1>6, <3>5, FeedIs
    <3>8. Adds(H[i], x) <=> Adds(G[l], x)
      BY <3>3 DEF Adds
    <3>9. CASE ~Adds(G[l], x)
      BY <3>2, <3>3, <3>6, <3>7, <3>8, <3>9
    <3>10. CASE Adds(G[l], x)
      <4>1. PICK g : g = G[l].pending
        OBVIOUS
      <4>2. PICK m \in Nat : m = Len(g)
        BY <1>7, <4>1
      <4>3. G[l + 1].pending = Append(g, x) /\ g \in Seq(Bytes)
        BY <1>7, <3>7, <3>10, <4>1
      <4>4. Len(Append(g, x)) = m + 1 /\ Append(g, x)[m + 1] = x
        BY <4>2, <4>3
      <4>5. Heads(Append(g, x), V)
        BY <1>9, <3>2, <4>3
      <4>6. m + 1 <= Len(V) /\ V[m + 1] = x
        <5>1. m + 1 \in 1 .. m + 1
          OBVIOUS
        <5>2. QED BY <4>4, <4>5, <5>1 DEF Heads
      <4>7. m < Len(V) /\ c <= m /\ c <= m + 1
        BY <1>8, <1>10, <3>3, <4>1, <4>2, <4>6
      <4>8. SubSeq(V, c + 1, m + 1) = Append(SubSeq(V, c + 1, m), V[m + 1])
        BY <1>8, <1>10, <4>7, SubSeqGrows
      <4>9. H[i + 1].pending = SubSeq(V, c + 1, m + 1)
        BY <3>3, <3>6, <3>8, <3>10, <4>1, <4>2, <4>6, <4>8
      <4>10. Len(G[l + 1].pending) = m + 1
        BY <4>3, <4>4
      <4>11. QED BY <3>2, <3>3, <3>6, <3>7, <4>7, <4>9, <4>10
    <3>11. QED BY <3>9, <3>10
  <2> HIDE DEF P
  <2>2. QED BY <2>1
<1>13. P(n)
  <2>1. n \in T
    <3> HIDE DEF T, n
    <3>1. QED BY <1>4, <1>11, <1>12, SetInduction
  <2> HIDE DEF P, n
  <2>2. QED BY <1>4, <2>1
<1>14. Keeping(H[n], V, Len(G[o + n].pending), ref, c)
  BY <1>10, <1>13 DEF Keeping
<1>15. QED BY <1>4, <1>5, <1>6, <1>13, <1>14 DEF Reaches, V

\* So a chunk takes it on, whatever of it is shown.
LEMMA PushedAlong ==
  ASSUME NEW Bytes, NEW secrets \in SecretsOf(Bytes), NEW text \in Seq(Bytes),
         NEW s0 \in Sanitizers(Bytes), NEW G, Feeds(G, s0, text, Bytes),
         NEW ref, Redacts(ref, secrets, G[Len(text)].pending, Len(G[Len(text)].pending), Bytes),
         NEW chunk \in Seq(Bytes), NEW o \in Nat, o + Len(chunk) <= Len(text),
         \A i \in 1 .. Len(chunk) : text[o + i] = chunk[i],
         NEW s, Reaches(s, G, text, o, ref, Bytes)
  PROVE  Reaches(Push(secrets, s, chunk), G, text, o + Len(chunk), ref, Bytes)
<1>1. PICK fed : fed = FoldLeft(Feed, s, chunk)
  OBVIOUS
<1>2. PICK p \in Nat : p = o + Len(chunk) /\ p <= Len(text)
  OBVIOUS
<1>3. Reaches(fed, G, text, p, ref, Bytes)
  <2>1. Reaches(FoldLeft(Feed, s, chunk), G, text, o + Len(chunk), ref, Bytes)
    BY FedAlong
  <2>2. QED BY <1>1, <1>2, <2>1
<1>4. PICK V : V = G[Len(text)].pending
  OBVIOUS
<1>5. PICK c : Keeping(fed, V, Len(G[p].pending), ref, c)
  BY <1>3, <1>4 DEF Reaches
<1>6. fed \in Sanitizers(Bytes) /\ fed.ansi = G[p].ansi
  BY <1>3 DEF Reaches
<1>7. Len(text) \in Nat /\ \A i \in Nat : G[i].pending \in Seq(Bytes)
  BY DEF Feeds, Sanitizers
<1>8. PICK m \in Nat : m = Len(G[p].pending)
  <2>1. PICK g \in Seq(Bytes) : g = G[p].pending
    BY <1>2, <1>7
  <2>2. Len(g) \in Nat
    BY <2>1
  <2>3. QED BY <2>1, <2>2
<1>9. V \in Seq(Bytes) /\ Len(V) \in Nat
  BY <1>4, <1>7
<1>10. m <= Len(V)
  <2>1. Heads(G[p].pending, G[Len(text)].pending)
    BY <1>2, <1>7, VisibleGrows
  <2>2. QED BY <1>4, <1>8, <2>1 DEF Heads
<1>11. c \in Nat /\ c <= m /\ fed.pending = SubSeq(V, c + 1, m)
  BY <1>5, <1>8 DEF Keeping
<1>12. PICK r \in Nat : r = Retain(secrets)
  BY RetainIs
<1>13. Len(fed.pending) = m - c
  BY <1>9, <1>10, <1>11
<1>14. PICK limit : limit = IF m - c <= r THEN 0 ELSE m - c - r
  OBVIOUS
<1>15. limit \in Nat /\ limit <= m - c /\ (limit = 0 \/ limit + r <= m - c)
  BY <1>11, <1>14
<1>16. PICK t : t = Drained(secrets, fed, limit)
  OBVIOUS
<1>17. Push(secrets, s, chunk) = t
  BY <1>1, <1>12, <1>13, <1>14, <1>16 DEF Push
<1>18. t \in Sanitizers(Bytes) /\ t.ansi = fed.ansi /\ \E e : Keeping(t, V, m, ref, e)
  <2>1. Redacts(ref, secrets, V, Len(V), Bytes)
    BY <1>4
  <2>2. Keeping(fed, V, m, ref, c)
    BY <1>5, <1>8
  <2>3. limit = 0 \/ limit + Retain(secrets) <= m - c \/ m = Len(V)
    BY <1>12, <1>15
  <2>4. Drains(t, fed, V, m, ref, c, limit, Bytes)
    BY <1>6, <1>9, <1>10, <1>15, <1>16, <2>1, <2>2, <2>3, DrainedKeeps
  <2>5. QED BY <2>4 DEF Drains
<1>19. QED BY <1>2, <1>4, <1>6, <1>8, <1>17, <1>18 DEF Reaches

\* A chunk that is read leaves a sanitizer.
LEMMA PushKeeps ==
  ASSUME NEW Bytes, NEW secrets \in SecretsOf(Bytes), NEW s \in Sanitizers(Bytes), NEW chunk \in Seq(Bytes)
  PROVE  Push(secrets, s, chunk) \in Sanitizers(Bytes)
<1>1. PICK fed : fed = FoldLeft(Feed, s, chunk)
  OBVIOUS
<1>2. fed \in Sanitizers(Bytes)
  <2>1. PICK H : Feeds(H, s, chunk, Bytes)
    BY Feeding
  <2>2. Len(chunk) \in Nat
    OBVIOUS
  <2>3. QED BY <1>1, <2>1, <2>2 DEF Feeds
<1>3. PICK p : p = fed.pending
  OBVIOUS
<1>4. p \in Seq(Bytes) /\ fed = [ansi |-> fed.ansi, pending |-> p, out |-> fed.out]
      /\ fed.ansi \in Ansis /\ fed.out \in Seq(Bytes \cup {Redacted})
  BY <1>2, <1>3 DEF Sanitizers
<1>5. PICK n \in Nat : n = Len(p)
  BY <1>4
<1>6. PICK r \in Nat : r = Retain(secrets)
  BY RetainIs
<1>7. PICK limit : limit = IF n <= r THEN 0 ELSE n - r
  OBVIOUS
<1>8. limit \in Nat /\ limit <= Len(p)
  BY <1>5, <1>7
<1>9. PICK d : d = Drain(secrets, p, limit)
  OBVIOUS
<1>10. d \in Drawn(Bytes)
  <2>1. PICK run : Redacts(run, secrets, p, limit, Bytes)
    BY <1>4, <1>8, Redacting
  <2>2. QED BY <1>8, <1>9, <2>1 DEF Redacts
<1>11. PICK e \in Nat : e = d.consumed
  BY <1>10 DEF Drawn
<1>12. SubSeq(p, e + 1, n) \in Seq(Bytes)
  <2>1. e + 1 \in Nat /\ e + 1 >= 1
    OBVIOUS
  <2>2. QED BY <1>4, <1>5, <2>1
<1>13. fed.out \o d.out \in Seq(Bytes \cup {Redacted})
  <2>1. d.out \in Seq(Bytes \cup {Redacted})
    BY <1>10 DEF Drawn
  <2>2. QED BY <1>4, <2>1
<1>14. Push(secrets, s, chunk) = [fed EXCEPT !.out = @ \o d.out, !.pending = SubSeq(p, e + 1, n)]
  BY <1>1, <1>3, <1>5, <1>6, <1>7, <1>9, <1>11 DEF Push, Drained
<1>15. Push(secrets, s, chunk) = [ansi |-> fed.ansi, pending |-> SubSeq(p, e + 1, n), out |-> fed.out \o d.out]
  BY <1>4, <1>14
<1>16. QED BY <1>4, <1>12, <1>13, <1>15 DEF Sanitizers

\* It starts as one.
LEMMA NewIsOne ==
  ASSUME NEW Bytes
  PROVE  NewSanitizer \in Sanitizers(Bytes)
BY DEF NewSanitizer, Sanitizers, Ansis

\* One chunk after the other.
Pushed(secrets, chunks) == FoldLeft(LAMBDA s, c : Push(secrets, s, c), NewSanitizer, chunks)

\* The chunks are pushed in turn.
Pushes(run, secrets, chunks, Bytes) ==
  /\ run \in [Nat -> Sanitizers(Bytes)] /\ run[0] = NewSanitizer
  /\ \A k \in Nat : k < Len(chunks) => run[k + 1] = Push(secrets, run[k], chunks[k + 1])
  /\ Pushed(secrets, chunks) = run[Len(chunks)]

\* They are pushed in turn.
LEMMA Pushing ==
  ASSUME NEW Bytes, NEW secrets \in SecretsOf(Bytes), NEW chunks \in Seq(Seq(Bytes))
  PROVE  \E run : Pushes(run, secrets, chunks, Bytes)
<1> DEFINE s == chunks
           n == Len(s)
           V == Sanitizers(Bytes)
           b == NewSanitizer
           F == CHOOSE h : h = [t \in SUBSET DOMAIN s |->
                  IF t = {} THEN b ELSE Push(secrets, h[t \ {Max(t)}], s[Max(t)])]
           step == [x \in V \X (1 .. n) |-> Push(secrets, x[1], s[x[2]])]
<1>1. n \in Nat /\ DOMAIN s = 1 .. n /\ \A i \in 1 .. n : s[i] \in Seq(Bytes)
  OBVIOUS
<1>2. Pushed(secrets, chunks) = F[DOMAIN s]
  BY DEF Pushed, FoldLeft, MapThenFoldSet
<1>3. b \in V
  BY NewIsOne
<1>4. \A x \in V : \A y \in Seq(Bytes) : Push(secrets, x, y) \in V
  BY PushKeeps
<1> HIDE DEF V, b
<1>5. step \in [V \X (1 .. n) -> V]
  BY <1>1, <1>4
<1> HIDE DEF n, s
<1>6. PICK h : Folds(h, n, V, b, step)
  <2> HIDE DEF step
  <2>1. QED BY <1>1, <1>3, <1>5, FoldRecursion
<1>7. h = [t \in SUBSET DOMAIN s |-> IF t = {} THEN b ELSE Push(secrets, h[t \ {Max(t)}], s[Max(t)])]
  <2>1. ASSUME NEW t \in SUBSET (1 .. n), t # {}
        PROVE  step[<<h[t \ {Max(t)}], Max(t)>>] = Push(secrets, h[t \ {Max(t)}], s[Max(t)])
    <3>1. Max(t) \in 1 .. n
      BY <1>1, <2>1, GreatestUpTo
    <3>2. h[t \ {Max(t)}] \in V
      BY <1>6, <2>1 DEF Folds
    <3>3. QED BY <3>1, <3>2
  <2> HIDE DEF step
  <2>2. QED BY <1>1, <1>6, <2>1 DEF Folds
<1>8. PICK H : /\ Pushed(secrets, chunks) = H[DOMAIN s]
               /\ H = [t \in SUBSET DOMAIN s |-> IF t = {} THEN b ELSE Push(secrets, H[t \ {Max(t)}], s[Max(t)])]
  <2>1. F = [t \in SUBSET DOMAIN s |-> IF t = {} THEN b ELSE Push(secrets, F[t \ {Max(t)}], s[Max(t)])]
    BY <1>7
  <2> HIDE DEF F
  <2>2. QED BY <1>2, <2>1
<1> HIDE DEF F
<1>9. FoldsBy(H, n, V, b, step)
  <2>1. H[{}] = b
    BY <1>8
  <2>2. ASSUME NEW t \in SUBSET (1 .. n), t # {}, H[t \ {Max(t)}] \in V
        PROVE  H[t] = step[<<H[t \ {Max(t)}], Max(t)>>]
    <3>1. Max(t) \in 1 .. n
      BY <1>1, <2>2, GreatestUpTo
    <3>2. H[t] = Push(secrets, H[t \ {Max(t)}], s[Max(t)])
      BY <1>1, <1>8, <2>2
    <3>3. QED BY <2>2, <3>1, <3>2
  <2> HIDE DEF step
  <2>3. QED BY <2>1, <2>2 DEF FoldsBy
<1>10. PICK run : Passes(H, run, n, V, b, step)
  <2> HIDE DEF step
  <2>1. QED BY <1>1, <1>3, <1>5, <1>9, FoldRuns
<1>11. ASSUME NEW k \in Nat, k < n PROVE run[k + 1] = Push(secrets, run[k], s[k + 1])
  <2>1. k + 1 \in 1 .. n
    BY <1>1, <1>11
  <2>2. run[k] \in V /\ run[k + 1] = step[<<run[k], k + 1>>]
    <3> HIDE DEF step
    <3>1. QED BY <1>10, <1>11 DEF Passes
  <2>3. QED BY <2>1, <2>2
<1> HIDE DEF step
<1>12. run \in [Nat -> V] /\ run[0] = b /\ Pushed(secrets, chunks) = run[n]
  BY <1>1, <1>8, <1>10 DEF Passes
<1>13. Pushes(run, secrets, chunks, Bytes)
  BY <1>1, <1>11, <1>12 DEF Pushes, V, b, n, s
<1>14. QED BY <1>13

\* A head stays one when more is joined.
LEMMA HeadsJoin ==
  ASSUME NEW S, NEW p \in Seq(S), NEW q \in Seq(S), Heads(p, q), NEW r \in Seq(S)
  PROVE  Heads(p, q \o r)
<1>1. Len(p) \in Nat /\ Len(q) \in Nat /\ Len(p) <= Len(q) /\ \A i \in 1 .. Len(p) : p[i] = q[i]
  BY DEF Heads
<1>2. Len(r) \in Nat /\ Len(q \o r) = Len(q) + Len(r) /\ \A i \in 1 .. Len(q) : (q \o r)[i] = q[i]
  OBVIOUS
<1>3. QED BY <1>1, <1>2 DEF Heads

\* Where a chunk lies in the text.
Lies(run, chunks, k, text) ==
  /\ Len(run[k + 1]) = Len(run[k]) + Len(chunks[k + 1]) /\ Len(run[k + 1]) <= Len(text)
  /\ \A i \in 1 .. Len(chunks[k + 1]) : text[Len(run[k]) + i] = chunks[k + 1][i]

\* Each lies behind the ones before.
LEMMA ChunkLies ==
  ASSUME NEW Bytes, NEW chunks \in Seq(Seq(Bytes)), NEW run, Flattens(run, chunks, Bytes),
         NEW k \in Nat, k < Len(chunks), NEW text, text = FlattenSeq(chunks)
  PROVE  Lies(run, chunks, k, text)
<1> DEFINE n == Len(chunks)
           T == {j \in Nat : k + 1 + j <= n => Heads(run[k + 1], run[k + 1 + j])}
<1>1. /\ run \in [Nat -> Seq(Bytes)] /\ text = run[n] /\ n \in Nat /\ \A i \in 1 .. n : chunks[i] \in Seq(Bytes)
      /\ \A j \in Nat : j < n => run[j + 1] = run[j] \o chunks[j + 1]
  <2>1. n \in Nat /\ \A i \in 1 .. n : chunks[i] \in Seq(Bytes)
    OBVIOUS
  <2>2. QED BY <2>1 DEF Flattens
<1> HIDE DEF n
<1>2. 0 \in T
  <2>1. k + 1 + 0 = k + 1 /\ k + 1 \in Nat
    OBVIOUS
  <2>2. run[k + 1] \in Seq(Bytes)
    BY <1>1, <2>1
  <2>3. Heads(run[k + 1], run[k + 1])
    BY <2>2 DEF Heads
  <2>4. QED BY <2>1, <2>3
<1>3. ASSUME NEW j \in Nat, j \in T PROVE j + 1 \in T
  <2>1. ASSUME k + 1 + (j + 1) <= n PROVE Heads(run[k + 1], run[k + 1 + (j + 1)])
    <3>1. PICK l \in Nat : l = k + 1 + j
      OBVIOUS
    <3>2. l < n /\ l <= n /\ k + 1 + (j + 1) = l + 1 /\ l + 1 \in 1 .. n /\ k + 1 \in Nat
      BY <1>1, <2>1, <3>1
    <3>3. Heads(run[k + 1], run[l])
      BY <1>3, <3>1, <3>2
    <3>4. run[l + 1] = run[l] \o chunks[l + 1] /\ run[l] \in Seq(Bytes) /\ run[k + 1] \in Seq(Bytes) /\ chunks[l + 1] \in Seq(Bytes)
      BY <1>1, <3>2
    <3>5. Heads(run[k + 1], run[l] \o chunks[l + 1])
      BY <3>3, <3>4, HeadsJoin
    <3>6. QED BY <3>2, <3>4, <3>5
  <2>2. QED BY <2>1
<1>4. Heads(run[k + 1], text)
  <2>1. \A j \in Nat : j \in T
    <3> HIDE DEF T
    <3>1. QED BY <1>2, <1>3, SetInduction
  <2>2. PICK j \in Nat : k + 1 + j = n
    <3>1. n - (k + 1) \in Nat /\ k + 1 + (n - (k + 1)) = n
      BY <1>1 DEF n
    <3>2. QED BY <3>1
  <2>3. k + 1 + j <= n
    <3>1. n \in Nat
      BY <1>1
    <3>2. QED BY <2>2, <3>1
  <2>4. Heads(run[k + 1], run[k + 1 + j])
    BY <2>1, <2>3
  <2>5. QED BY <1>1, <2>2, <2>4
<1>5. PICK a, b : a = run[k] /\ b = chunks[k + 1]
  OBVIOUS
<1>6. a \in Seq(Bytes) /\ b \in Seq(Bytes) /\ run[k + 1] = a \o b
  <2>1. k < n /\ k + 1 \in 1 .. n
    BY <1>1 DEF n
  <2>2. QED BY <1>1, <1>5, <2>1
<1>7. Len(a \o b) = Len(a) + Len(b) /\ \A i \in 1 .. Len(b) : (a \o b)[Len(a) + i] = b[i] /\ Len(a) + i \in 1 .. Len(a \o b)
  BY <1>6
<1>8. Heads(a \o b, text)
  BY <1>4, <1>6
<1>9. Len(a \o b) <= Len(text) /\ \A i \in 1 .. Len(b) : text[Len(a) + i] = b[i]
  BY <1>7, <1>8 DEF Heads
<1>10. QED BY <1>5, <1>6, <1>7, <1>9 DEF Lies

\* What a stream is shown as: its visible text, with the secrets replaced.
ShownAs(secrets, text) == Drain(secrets, Visible(text), Len(Visible(text))).out

\* However it is cut.
StreamIsWhole(secrets, chunks, text, Bytes) ==
  /\ text \in Seq(Bytes) /\ Visible(text) \in Seq(Bytes)
  /\ Sanitized(secrets, chunks) = ShownAs(secrets, text)
  /\ Shown(secrets, chunks) \in Seq(Bytes \cup {Redacted})
  /\ \E out \in Seq(Bytes \cup {Redacted}) : Sanitized(secrets, chunks) = Shown(secrets, chunks) \o out

\* The chunks show that, bit by bit.
LEMMA StreamsAre ==
  ASSUME NEW Bytes, NEW secrets \in SecretsOf(Bytes), NEW chunks \in Seq(Seq(Bytes)),
         NEW text, text = FlattenSeq(chunks)
  PROVE  StreamIsWhole(secrets, chunks, text, Bytes)
<1> DEFINE n == Len(chunks)
<1>1. PICK flat : Flattens(flat, chunks, Bytes)
  BY Flattening
<1>2. /\ flat \in [Nat -> Seq(Bytes)] /\ flat[0] = <<>> /\ text = flat[n] /\ n \in Nat
      /\ \A i \in 1 .. n : chunks[i] \in Seq(Bytes)
  BY <1>1 DEF Flattens
<1>3. text \in Seq(Bytes) /\ Len(text) \in Nat
  BY <1>2
<1>4. NewSanitizer \in Sanitizers(Bytes)
  BY NewIsOne
<1>5. PICK G : Feeds(G, NewSanitizer, text, Bytes)
  BY <1>3, <1>4, Feeding
<1>6. PICK V : V = Visible(text)
  OBVIOUS
<1>7. V = G[Len(text)].pending /\ V \in Seq(Bytes) /\ G[0] = NewSanitizer
  BY <1>3, <1>5, <1>6 DEF Visible, Feeds, Sanitizers
<1>8. Len(V) \in Nat
  BY <1>7
<1>9. PICK ref : Redacts(ref, secrets, V, Len(V), Bytes)
  <2>1. PICK m \in Nat : m = Len(V)
    BY <1>8
  <2>2. m <= Len(V)
    BY <2>1
  <2>3. \E ref : Redacts(ref, secrets, V, m, Bytes)
    BY <1>7, <2>2, Redacting
  <2>4. QED BY <2>1, <2>3
<1>10. PICK run : Pushes(run, secrets, chunks, Bytes)
  BY Pushing
<1>11. /\ run \in [Nat -> Sanitizers(Bytes)] /\ run[0] = NewSanitizer /\ Pushed(secrets, chunks) = run[n]
       /\ \A k \in Nat : k < n => run[k + 1] = Push(secrets, run[k], chunks[k + 1])
  BY <1>10 DEF Pushes
<1> HIDE DEF n
<1> DEFINE T == {k \in Nat : k <= n => Reaches(run[k], G, text, Len(flat[k]), ref, Bytes)}
<1>12. 0 \in T
  <2>1. NewSanitizer.pending = <<>> /\ NewSanitizer.out = <<>> /\ NewSanitizer.ansi = "Text"
    BY DEF NewSanitizer
  <2>2. Len(flat[0]) = 0 /\ Len(G[0].pending) = 0
    BY <1>2, <1>7, <2>1
  <2>3. ref[0] = NothingDrawn
    BY <1>9 DEF Redacts
  <2>4. ref[0].consumed = 0 /\ ref[0].out = <<>>
    BY <2>3 DEF NothingDrawn
  <2>5. SubSeq(V, 0 + 1, 0) = <<>>
    BY <1>7
  <2>6. Keeping(run[0], V, Len(G[0].pending), ref, 0)
    BY <1>11, <2>1, <2>2, <2>4, <2>5 DEF Keeping
  <2>7. Reaches(run[0], G, text, Len(flat[0]), ref, Bytes)
    BY <1>4, <1>7, <1>11, <2>2, <2>6 DEF Reaches
  <2>8. QED BY <2>7
<1>13. ASSUME NEW k \in Nat, k \in T PROVE k + 1 \in T
  <2>1. ASSUME k + 1 <= n PROVE Reaches(run[k + 1], G, text, Len(flat[k + 1]), ref, Bytes)
    <3>1. k < n /\ k <= n /\ k + 1 \in 1 .. n
      BY <1>2, <2>1
    <3>2. Reaches(run[k], G, text, Len(flat[k]), ref, Bytes)
      BY <1>13, <3>1
    <3>3. PICK chunk \in Seq(Bytes) : chunk = chunks[k + 1]
      BY <1>2, <3>1
    <3>4. PICK o \in Nat : o = Len(flat[k])
      <4>1. flat[k] \in Seq(Bytes)
        BY <1>2
      <4>2. QED BY <4>1
    <3>5. /\ Len(flat[k + 1]) = o + Len(chunk) /\ o + Len(chunk) <= Len(text)
          /\ \A i \in 1 .. Len(chunk) : text[o + i] = chunk[i]
      <4>1. Lies(flat, chunks, k, text)
        BY <1>1, <3>1, ChunkLies DEF n
      <4>2. QED BY <3>3, <3>4, <4>1 DEF Lies
    <3>6. PICK s : s = run[k]
      OBVIOUS
    <3>7. Reaches(s, G, text, o, ref, Bytes)
      BY <3>2, <3>4, <3>6
    <3>8. Redacts(ref, secrets, G[Len(text)].pending, Len(G[Len(text)].pending), Bytes)
      BY <1>7, <1>9
    <3>9. Reaches(Push(secrets, s, chunk), G, text, o + Len(chunk), ref, Bytes)
      BY <1>3, <1>4, <1>5, <3>5, <3>7, <3>8, PushedAlong
    <3>10. run[k + 1] = Push(secrets, s, chunk)
      BY <1>11, <3>1, <3>3, <3>6
    <3>11. QED BY <3>5, <3>9, <3>10
  <2>2. QED BY <2>1
<1>14. Reaches(run[n], G, text, Len(text), ref, Bytes)
  <2>1. n \in T
    <3> HIDE DEF T
    <3>1. QED BY <1>2, <1>12, <1>13, SetInduction
  <2>2. QED BY <1>2, <2>1
<1>15. PICK s : s = Pushed(secrets, chunks)
  OBVIOUS
<1>16. s \in Sanitizers(Bytes) /\ \E c : Keeping(s, V, Len(V), ref, c)
  BY <1>7, <1>11, <1>14, <1>15 DEF Reaches
<1>17. PICK c : Keeping(s, V, Len(V), ref, c)
  BY <1>16
<1>18. c \in Nat /\ c <= Len(V) /\ s.pending = SubSeq(V, c + 1, Len(V))
  BY <1>17 DEF Keeping
<1>19. PICK limit \in Nat : limit = Len(V) - c /\ c + limit = Len(V)
  <2>1. PICK v \in Nat : v = Len(V)
    BY <1>8
  <2>2. c \in Nat /\ c <= v
    BY <1>18, <2>1
  <2>3. v - c \in Nat /\ c + (v - c) = v
    BY <2>2
  <2>4. QED BY <2>1, <2>3
<1>20. Len(s.pending) = limit
  BY <1>7, <1>8, <1>18, <1>19
<1>21. PICK t : t = Drained(secrets, s, limit)
  OBVIOUS
<1>22. Drains(t, s, V, Len(V), ref, c, limit, Bytes)
  <2>1. limit <= Len(V) - c /\ Len(V) <= Len(V)
    BY <1>8, <1>18, <1>19
  <2>2. limit = 0 \/ limit + Retain(secrets) <= Len(V) - c \/ Len(V) = Len(V)
    OBVIOUS
  <2>3. PICK m \in Nat : m = Len(V)
    BY <1>8
  <2>4. Drains(t, s, V, m, ref, c, limit, Bytes)
    BY <1>7, <1>9, <1>16, <1>17, <1>21, <2>1, <2>3, DrainedKeeps
  <2>5. QED BY <2>3, <2>4
<1>23. t.out = ref[Len(V)].out /\ \E out \in Seq(Bytes \cup {Redacted}) : t.out = s.out \o out
  BY <1>19, <1>22 DEF Drains
<1>24. ref[Len(V)] = Drain(secrets, V, Len(V))
  BY <1>9 DEF Redacts
<1>25. Sanitized(secrets, chunks) = t.out
  BY <1>15, <1>20, <1>21 DEF Sanitized, Pushed
<1>26. Shown(secrets, chunks) = s.out
  BY <1>15 DEF Shown, Pushed
<1>27. s.out \in Seq(Bytes \cup {Redacted})
  BY <1>16 DEF Sanitizers
<1>28. QED BY <1>3, <1>6, <1>7, <1>23, <1>24, <1>25, <1>26, <1>27 DEF ShownAs, StreamIsWhole

\* Without secrets everything that is visible is shown.
LEMMA AllIsShown ==
  ASSUME NEW Bytes, NEW v \in Seq(Bytes), {} \in SecretsOf(Bytes)
  PROVE  Drain({}, v, Len(v)).out = v
<1>1. PICK m \in Nat : m = Len(v)
  OBVIOUS
<1>2. PICK ref : Redacts(ref, {}, v, m, Bytes)
  BY <1>1, Redacting
<1>3. /\ ref \in [Nat -> Drawn(Bytes)] /\ ref[0] = NothingDrawn /\ Drain({}, v, m) = ref[m]
      /\ \A k \in Nat : k < m => ref[k + 1] = Redact({}, v, ref[k], k)
  BY <1>2 DEF Redacts
<1> DEFINE T == {k \in Nat : k <= m => ref[k].out = SubSeq(v, 0 + 1, k) /\ ref[k].consumed = k}
<1>4. 0 \in T
  <2>1. ref[0].out = <<>> /\ ref[0].consumed = 0
    BY <1>3 DEF NothingDrawn
  <2>2. SubSeq(v, 0 + 1, 0) = <<>>
    OBVIOUS
  <2>3. QED BY <2>1, <2>2
<1>5. ASSUME NEW k \in Nat, k \in T PROVE k + 1 \in T
  <2>1. ASSUME k + 1 <= m PROVE ref[k + 1].out = SubSeq(v, 0 + 1, k + 1) /\ ref[k + 1].consumed = k + 1
    <3>1. k < m /\ k <= m /\ 0 <= k /\ ~(k < k)
      BY <2>1
    <3>2. ref[k].out = SubSeq(v, 0 + 1, k) /\ ref[k].consumed = k
      BY <1>5, <3>1
    <3>3. PICK n : n = SecretAt({}, v, k)
      OBVIOUS
    <3>4. n = 0
      BY <3>3 DEF SecretAt
    <3>5. GoesOn(v, ref[k], k, n, ref[k + 1])
      <4>1. ref[k] \in Drawn(Bytes) /\ ref[k + 1] = Redact({}, v, ref[k], k) /\ k < Len(v)
        BY <1>1, <1>3, <3>1
      <4>2. QED BY <3>3, <4>1, RedactIs
    <3>6. ref[k + 1].out = Append(ref[k].out, v[k + 1]) /\ ref[k + 1].consumed = k + 1
      BY <3>1, <3>2, <3>4, <3>5 DEF GoesOn
    <3>7. SubSeq(v, 0 + 1, k + 1) = Append(SubSeq(v, 0 + 1, k), v[k + 1])
      BY <1>1, <3>1, SubSeqGrows
    <3>8. QED BY <3>2, <3>6, <3>7
  <2>2. QED BY <2>1
<1>6. m \in T
  <2> HIDE DEF T
  <2>1. QED BY <1>4, <1>5, SetInduction
<1>7. ref[m].out = SubSeq(v, 0 + 1, m)
  BY <1>6
<1>8. SubSeq(v, 0 + 1, m) = v
  BY <1>1
<1>9. QED BY <1>1, <1>3, <1>7, <1>8

\* Where the bytes that are shown stand in the text: no secret starts there, and what is
\* shown side by side stood side by side.
Comes(out, src, j, secrets, v) ==
  /\ src[j] \in 1 .. Len(v) /\ out[j] = v[src[j]] /\ SecretAt(secrets, v, src[j] - 1) = 0

\* All of it, up to the place e.
Traces(out, e, src, secrets, v) ==
  /\ src \in Seq(Nat) /\ Len(src) = Len(out)
  /\ \A j \in 1 .. Len(out) : out[j] # Redacted => Comes(out, src, j, secrets, v)
  /\ \A j \in 1 .. Len(out) : j # 1 /\ out[j] # Redacted /\ out[j - 1] # Redacted => src[j] = src[j - 1] + 1
  /\ out # <<>> /\ out[Len(out)] # Redacted => src[Len(out)] = e

\* What is shown next has its place too.
LEMMA TraceOn ==
  ASSUME NEW S, NEW out \in Seq(S), NEW e \in Nat, NEW src, NEW secrets, NEW v, Traces(out, e, src, secrets, v),
         NEW x \in S, NEW p \in Nat, NEW f,
         x # Redacted => /\ p \in 1 .. Len(v) /\ x = v[p] /\ SecretAt(secrets, v, p - 1) = 0
                         /\ p = e + 1 /\ f = p
  PROVE  Traces(Append(out, x), f, Append(src, p), secrets, v)
<1>1. PICK n \in Nat : n = Len(out)
  OBVIOUS
<1>2. PICK a : a = Append(out, x)
  OBVIOUS
<1>3. /\ a \in Seq(S) /\ Len(a) = n + 1 /\ a # <<>> /\ a[n + 1] = x /\ \A j \in 1 .. n : a[j] = out[j]
  BY <1>1, <1>2
<1>4. src \in Seq(Nat) /\ Len(src) = n
  BY <1>1 DEF Traces
<1>5. PICK b : b = Append(src, p)
  OBVIOUS
<1>6. /\ b \in Seq(Nat) /\ Len(b) = n + 1 /\ b[n + 1] = p /\ \A j \in 1 .. n : b[j] = src[j]
  BY <1>4, <1>5
<1>7. /\ \A j \in 1 .. n : out[j] # Redacted => Comes(out, src, j, secrets, v)
      /\ \A j \in 1 .. n : j # 1 /\ out[j] # Redacted /\ out[j - 1] # Redacted => src[j] = src[j - 1] + 1
      /\ out # <<>> /\ out[n] # Redacted => src[n] = e
  BY <1>1 DEF Traces
<1>8. ASSUME NEW j \in 1 .. (n + 1), a[j] # Redacted PROVE Comes(a, b, j, secrets, v)
  <2>1. CASE j = n + 1
    BY <1>3, <1>6, <1>8, <2>1 DEF Comes
  <2>2. CASE j # n + 1
    <3>1. j \in 1 .. n
      BY <2>2
    <3>2. QED BY <1>3, <1>6, <1>7, <1>8, <3>1 DEF Comes
  <2>3. QED BY <2>1, <2>2
<1>9. ASSUME NEW j \in 1 .. (n + 1), j # 1, a[j] # Redacted, a[j - 1] # Redacted PROVE b[j] = b[j - 1] + 1
  <2>1. CASE j = n + 1
    <3>1. j - 1 = n /\ n # 0 /\ n \in 1 .. n
      BY <1>9, <2>1
    <3>2. out # <<>>
      BY <1>1, <3>1
    <3>3. out[n] # Redacted
      BY <1>3, <1>9, <3>1
    <3>4. src[n] = e
      BY <1>7, <3>2, <3>3
    <3>5. b[j] = p /\ b[j - 1] = e
      BY <1>6, <2>1, <3>1, <3>4
    <3>6. x # Redacted
      BY <1>3, <1>9, <2>1
    <3>7. QED BY <3>5, <3>6
  <2>2. CASE j # n + 1
    <3>1. j \in 1 .. n /\ j - 1 \in 1 .. n
      BY <1>9, <2>2
    <3>2. out[j] = a[j] /\ out[j - 1] = a[j - 1] /\ b[j] = src[j] /\ b[j - 1] = src[j - 1]
      BY <1>3, <1>6, <3>1
    <3>3. QED BY <1>7, <1>9, <3>1, <3>2
  <2>3. QED BY <2>1, <2>2
<1>10. a[n + 1] # Redacted => b[n + 1] = f
  BY <1>3, <1>6
<1>11. Traces(a, f, b, secrets, v)
  BY <1>3, <1>6, <1>8, <1>9, <1>10 DEF Traces
<1>12. QED BY <1>2, <1>5, <1>11

\* All that is shown has a place.
LEMMA Tracing ==
  ASSUME NEW Bytes, NEW secrets \in SecretsOf(Bytes), NEW v \in Seq(Bytes),
         NEW m \in Nat, m = Len(v), NEW ref, Redacts(ref, secrets, v, m, Bytes)
  PROVE  \E src : Traces(ref[m].out, ref[m].consumed, src, secrets, v)
<1>1. /\ ref \in [Nat -> Drawn(Bytes)] /\ ref[0] = NothingDrawn
      /\ \A k \in Nat : k < m => ref[k + 1] = Redact(secrets, v, ref[k], k)
  BY DEF Redacts
<1>2. \A k \in Nat : ref[k].out \in Seq(Bytes \cup {Redacted}) /\ ref[k].consumed \in Nat /\ ref[k] \in Drawn(Bytes)
  BY <1>1 DEF Drawn
<1> DEFINE T == {k \in Nat : k <= m => \E src : Traces(ref[k].out, ref[k].consumed, src, secrets, v)}
<1>3. 0 \in T
  <2>1. ref[0].out = <<>>
    BY <1>1 DEF NothingDrawn
  <2>2. Traces(<<>>, ref[0].consumed, <<>>, secrets, v)
    BY DEF Traces
  <2>3. QED BY <2>1, <2>2
<1>4. ASSUME NEW k \in Nat, k \in T PROVE k + 1 \in T
  <2>1. ASSUME k + 1 <= m PROVE \E src : Traces(ref[k + 1].out, ref[k + 1].consumed, src, secrets, v)
    <3>1. k < m /\ k <= m /\ k + 1 \in 1 .. m
      BY <2>1
    <3>2. PICK out, e : out = ref[k].out /\ e = ref[k].consumed
      OBVIOUS
    <3>3. out \in Seq(Bytes \cup {Redacted}) /\ e \in Nat
      BY <1>2, <3>2
    <3>4. PICK src : Traces(out, e, src, secrets, v)
      BY <1>4, <3>1, <3>2
    <3>5. PICK n : n = SecretAt(secrets, v, k)
      OBVIOUS
    <3>6. GoesOn(v, ref[k], k, n, ref[k + 1])
      BY <1>1, <1>2, <3>1, <3>5, RedactIs
    <3>7. /\ k < e => ref[k + 1] = ref[k]
          /\ ~(k < e) => /\ n = 0 => ref[k + 1].out = Append(out, v[k + 1]) /\ ref[k + 1].consumed = k + 1
                         /\ n # 0 => ref[k + 1].out = Append(out, Redacted) /\ ref[k + 1].consumed = k + n
      BY <3>2, <3>6 DEF GoesOn
    <3>8. k <= e
      <4>1. m <= Len(v)
        OBVIOUS
      <4>2. k <= ref[k].consumed
        BY <3>1, <4>1, Progress
      <4>3. QED BY <3>2, <4>2
    <3>9. CASE k < e
      BY <3>2, <3>4, <3>7, <3>9
    <3>10. CASE ~(k < e) /\ n = 0
      <4>1. k = e
        BY <3>3, <3>8, <3>10
      <4>2. v[k + 1] \in Bytes /\ k + 1 - 1 = k /\ k + 1 \in 1 .. Len(v) /\ k + 1 \in Nat
        BY <3>1
      <4>3. Traces(Append(out, v[k + 1]), k + 1, Append(src, k + 1), secrets, v)
        <5>1. PICK x : x = v[k + 1]
          OBVIOUS
        <5>2. PICK p \in Nat : p = k + 1
          OBVIOUS
        <5>3. x \in Bytes \cup {Redacted}
          BY <4>2, <5>1
        <5>4. p \in 1 .. Len(v) /\ x = v[p] /\ SecretAt(secrets, v, p - 1) = 0 /\ p = e + 1
          <6>1. p - 1 = k /\ p = e + 1
            BY <4>1, <5>2
          <6>2. p \in 1 .. Len(v) /\ x = v[p]
            BY <4>2, <5>1, <5>2
          <6>3. SecretAt(secrets, v, p - 1) = 0
            BY <3>5, <3>10, <6>1
          <6>4. QED BY <6>1, <6>2, <6>3
        <5>5. Traces(Append(out, x), p, Append(src, p), secrets, v)
          BY <3>3, <3>4, <5>3, <5>4, TraceOn
        <5>6. QED BY <5>1, <5>2, <5>5
      <4>4. QED BY <3>7, <3>10, <4>3
    <3>11. CASE ~(k < e) /\ n # 0
      <4>1. Traces(Append(out, Redacted), k + n, Append(src, 0), secrets, v)
        <5>1. PICK f : f = k + n
          OBVIOUS
        <5>2. Redacted \in Bytes \cup {Redacted} /\ 0 \in Nat
          OBVIOUS
        <5>3. Traces(Append(out, Redacted), f, Append(src, 0), secrets, v)
          BY <3>3, <3>4, <5>2, TraceOn
        <5>4. QED BY <5>1, <5>3
      <4>2. QED BY <3>7, <3>11, <4>1
    <3>12. QED BY <3>9, <3>10, <3>11
  <2>2. QED BY <2>1
<1>5. m \in T
  <2> HIDE DEF T
  <2>1. QED BY <1>3, <1>4, SetInduction
<1>6. QED BY <1>5

\* So no secret is shown.
LEMMA NoneIsShown ==
  ASSUME NEW Bytes, Redacted \notin Bytes, NEW secrets \in SecretsOf(Bytes), NEW v \in Seq(Bytes),
         NEW word \in secrets, NEW out, out = Drain(secrets, v, Len(v)).out
  PROVE  ~Holds(out, word)
<1>1. PICK m \in Nat : m = Len(v)
  OBVIOUS
<1>2. PICK ref : Redacts(ref, secrets, v, m, Bytes)
  BY <1>1, Redacting
<1>3. out = ref[m].out
  BY <1>1, <1>2 DEF Redacts
<1>4. PICK src : Traces(out, ref[m].consumed, src, secrets, v)
  BY <1>1, <1>2, <1>3, Tracing
<1>5. out \in Seq(Bytes \cup {Redacted})
  BY <1>2, <1>3 DEF Redacts, Drawn
<1>6. word \in Seq(Bytes) /\ Len(word) \in Nat /\ Len(word) # 0
  BY RetainIs
<1>7. SUFFICES ASSUME NEW i \in 0 .. Len(out) - 1, StartsAt(out, i, word) PROVE FALSE
  BY DEF Holds
<1>8. PICK n \in Nat : n = Len(word) /\ n # 0
  BY <1>6
<1>9. PICK o \in Nat : o = Len(out)
  BY <1>5
<1>10. i \in Nat /\ i + n <= o /\ \A k \in 1 .. n : out[i + k] = word[k]
  BY <1>7, <1>8, <1>9 DEF StartsAt
<1>11. \A k \in 1 .. n : out[i + k] # Redacted /\ i + k \in 1 .. o
  <2>1. \A k \in 1 .. n : word[k] \in Bytes
    BY <1>6, <1>8
  <2>2. \A k \in 1 .. n : i + k \in 1 .. o
    BY <1>10
  <2>3. QED BY <1>10, <2>1, <2>2
<1>12. /\ \A j \in 1 .. o : out[j] # Redacted => Comes(out, src, j, secrets, v)
       /\ \A j \in 1 .. o : j # 1 /\ out[j] # Redacted /\ out[j - 1] # Redacted => src[j] = src[j - 1] + 1
  BY <1>4, <1>9 DEF Traces
<1>13. PICK p : p = src[i + 1]
  OBVIOUS
<1>14. Comes(out, src, i + 1, secrets, v)
  <2>1. 1 \in 1 .. n
    BY <1>8
  <2>2. QED BY <1>11, <1>12, <2>1
<1>15. p \in 1 .. m /\ p \in Nat /\ p - 1 \in Nat /\ SecretAt(secrets, v, p - 1) = 0
  <2>1. p \in 1 .. Len(v) /\ SecretAt(secrets, v, p - 1) = 0
    BY <1>13, <1>14 DEF Comes
  <2>2. QED BY <1>1, <2>1
<1> DEFINE T == {k \in Nat : k < n => src[i + (k + 1)] = p + k}
<1>16. 0 \in T
  <2>1. i + (0 + 1) = i + 1 /\ p + 0 = p
    BY <1>10, <1>15
  <2>2. QED BY <1>13, <2>1
<1>17. ASSUME NEW k \in Nat, k \in T PROVE k + 1 \in T
  <2>1. ASSUME k + 1 < n PROVE src[i + (k + 1 + 1)] = p + (k + 1)
    <3>1. PICK j \in Nat : j = i + (k + 1 + 1)
      BY <1>10
    <3>2. k < n /\ k + 1 \in 1 .. n /\ k + 1 + 1 \in 1 .. n /\ j - 1 = i + (k + 1) /\ j # 1
      BY <1>10, <2>1, <3>1
    <3>3. src[j - 1] = p + k
      BY <1>17, <3>2
    <3>4. j \in 1 .. o /\ out[j] # Redacted /\ out[j - 1] # Redacted
      BY <1>11, <3>1, <3>2
    <3>5. src[j] = src[j - 1] + 1
      BY <1>12, <3>2, <3>4
    <3>6. p + k + 1 = p + (k + 1)
      BY <1>15
    <3>7. QED BY <3>1, <3>3, <3>5, <3>6
  <2>2. QED BY <2>1
<1>18. \A k \in Nat : k \in T
  <2> HIDE DEF T
  <2>1. QED BY <1>16, <1>17, SetInduction
<1>19. ASSUME NEW k \in 1 .. n PROVE v[p - 1 + k] = word[k] /\ p - 1 + k \in 1 .. m
  <2>1. PICK l \in Nat : l = k - 1 /\ l < n /\ l + 1 = k
    <3>1. k - 1 \in Nat /\ k - 1 < n /\ k - 1 + 1 = k
      OBVIOUS
    <3>2. QED BY <3>1
  <2>2. src[i + k] = p + l
    BY <1>18, <2>1
  <2>3. p + l = p - 1 + k
    BY <1>15, <2>1
  <2>4. Comes(out, src, i + k, secrets, v)
    BY <1>11, <1>12
  <2>5. src[i + k] \in 1 .. Len(v) /\ out[i + k] = v[src[i + k]]
    BY <2>4 DEF Comes
  <2>6. out[i + k] = word[k]
    BY <1>10
  <2>7. QED BY <1>1, <2>2, <2>3, <2>5, <2>6
<1>20. StartsAt(v, p - 1, word)
  <2>1. n \in 1 .. n
    BY <1>8
  <2>2. p - 1 + n <= m
    BY <1>19, <2>1
  <2>3. QED BY <1>1, <1>8, <1>19, <2>2 DEF StartsAt
<1>21. SecretFound(secrets, v, p - 1, SecretAt(secrets, v, p - 1))
  BY SecretAtIs
<1>22. QED BY <1>15, <1>20, <1>21 DEF SecretFound

\* A text is its only chunk.
LEMMA OneChunk ==
  ASSUME NEW S, NEW text \in Seq(S)
  PROVE  <<text>> \in Seq(Seq(S)) /\ FlattenSeq(<<text>>) = text
<1>1. <<text>> \in Seq(Seq(S)) /\ Len(<<text>>) = 1 /\ <<text>>[1] = text
  OBVIOUS
<1>2. PICK run : Flattens(run, <<text>>, S)
  BY <1>1, Flattening
<1>3. run[0] = <<>> /\ FlattenSeq(<<text>>) = run[0 + 1] /\ run[0 + 1] = run[0] \o text
  <2>1. PICK c : c = <<text>>
    OBVIOUS
  <2>2. Len(c) = 1 /\ c[1] = text /\ Flattens(run, c, S)
    BY <1>1, <1>2, <2>1
  <2>3. run[0] = <<>> /\ FlattenSeq(c) = run[1] /\ (0 < 1 => run[0 + 1] = run[0] \o c[0 + 1])
    BY <2>2 DEF Flattens
  <2>4. 0 < 1 /\ 0 + 1 = 1
    OBVIOUS
  <2>5. QED BY <2>1, <2>2, <2>3, <2>4
<1>4. <<>> \o text = text
  OBVIOUS
<1>5. QED BY <1>1, <1>3, <1>4

\* What comes first is a head.
LEMMA JoinedIsPrefix ==
  ASSUME NEW S, NEW s \in Seq(S), NEW t \in Seq(S)
  PROVE  IsPrefix(s, s \o t)
<1>1. Len(s) \in Nat /\ Len(t) \in Nat /\ s \o t \in Seq(S) /\ Len(s \o t) = Len(s) + Len(t)
      /\ \A i \in 1 .. Len(s) : (s \o t)[i] = s[i]
  OBVIOUS
<1>2. PICK w : w = s \o t
  OBVIOUS
<1>3. PICK n \in Nat : n = Len(s)
  BY <1>1
<1>4. n <= Len(w) /\ w \in Seq(S) /\ \A i \in 1 .. n : w[i] = s[i]
  BY <1>1, <1>2, <1>3
<1>5. SubSeq(w, 1, n) \in Seq(S) /\ Len(SubSeq(w, 1, n)) = n /\ \A i \in 1 .. n : SubSeq(w, 1, n)[i] = w[i]
  BY <1>4
<1>6. SubSeq(s, 1, n) = s
  BY <1>3
<1>7. SubSeq(w, 1, n) = s
  BY <1>3, <1>4, <1>5
<1>8. QED BY <1>2, <1>3, <1>4, <1>6, <1>7 DEF IsPrefix

\* Of any stream, in any chunks, the same is shown: its visible text without the secrets, at
\* every moment a head of that, if the mark for a secret is no byte.
THEOREM CutsNeverMatter ==
  ASSUME NEW Bytes, Redacted \notin Bytes, NEW secrets \in SecretsOf(Bytes), NEW chunks \in Seq(Seq(Bytes))
  PROVE  CutsDoNotMatter(secrets, chunks)
<1>1. PICK text : text = FlattenSeq(chunks)
  OBVIOUS
<1>2. /\ text \in Seq(Bytes) /\ Visible(text) \in Seq(Bytes)
      /\ Sanitized(secrets, chunks) = ShownAs(secrets, text)
      /\ Shown(secrets, chunks) \in Seq(Bytes \cup {Redacted})
      /\ \E out \in Seq(Bytes \cup {Redacted}) : Sanitized(secrets, chunks) = Shown(secrets, chunks) \o out
  <2>1. StreamIsWhole(secrets, chunks, text, Bytes)
    BY <1>1, StreamsAre
  <2>2. QED BY <2>1 DEF StreamIsWhole
<1>3. <<text>> \in Seq(Seq(Bytes)) /\ FlattenSeq(<<text>>) = text
  BY <1>2, OneChunk
<1>4. PICK whole : whole = Sanitized(secrets, <<text>>)
  OBVIOUS
<1>5. whole = ShownAs(secrets, text)
  <2>1. PICK c : c = <<text>>
    OBVIOUS
  <2>2. StreamIsWhole(secrets, c, text, Bytes)
    BY <1>3, <2>1, StreamsAre
  <2>3. QED BY <1>4, <2>1, <2>2 DEF StreamIsWhole
<1>6. PICK v : v = Visible(text)
  OBVIOUS
<1>7. v \in Seq(Bytes) /\ whole = Drain(secrets, v, Len(v)).out
  BY <1>2, <1>5, <1>6 DEF ShownAs
<1>8. Sanitized(secrets, chunks) = whole
  BY <1>2, <1>5
<1>9. IsPrefix(Shown(secrets, chunks), whole)
  <2>1. PICK out \in Seq(Bytes \cup {Redacted}) : whole = Shown(secrets, chunks) \o out
    BY <1>2, <1>8
  <2>2. IsPrefix(Shown(secrets, chunks), Shown(secrets, chunks) \o out)
    BY <1>2, JoinedIsPrefix
  <2>3. QED BY <2>1, <2>2
<1>10. secrets = {} => whole = v
  BY <1>7, AllIsShown
<1>11. \A word \in secrets : ~Holds(whole, word)
  BY <1>7, NoneIsShown
<1>12. QED BY <1>1, <1>4, <1>6, <1>8, <1>9, <1>10, <1>11 DEF CutsDoNotMatter
-------------------------------------------------------------------------------
(* The inputs that the runs enumerate                                       *)

\* The kind of an input says where it comes from.
LEMMA KindOfJobs == Jobs => input.of = "job"
<1> SUFFICES ASSUME Jobs PROVE input.of = "job"
  OBVIOUS
<1>1. PICK kind \in {"bench", "sweep"}, bucket \in {Absent, "bucket", "elsewhere"}, fails \in Failures,
        code \in {0, 3}, way \in {"plain", "ref", "url", "both", "dry", "local", "no flavor"}, file \in Files :
        \E line \in Overrides(kind) :
        input = [of |-> "job", fails |-> fails, code |-> code,
                 request |-> [kind |-> kind, file |-> file, line |-> line, bucket |-> bucket,
                              on |-> IF way = "local" THEN "local" ELSE "hf-jobs",
                              flavor |-> way # "no flavor", ref |-> way \in {"ref", "both"},
                              url |-> way \in {"url", "both"}, dryRun |-> way = "dry"]]
  BY DEF Jobs
<1>2. PICK line \in Overrides(kind) :
        input = [of |-> "job", fails |-> fails, code |-> code,
                 request |-> [kind |-> kind, file |-> file, line |-> line, bucket |-> bucket,
                              on |-> IF way = "local" THEN "local" ELSE "hf-jobs",
                              flavor |-> way # "no flavor", ref |-> way \in {"ref", "both"},
                              url |-> way \in {"url", "both"}, dryRun |-> way = "dry"]]
  BY <1>1
<1>3. QED BY <1>2

\* Those of gates and jobs have many parts.
LEMMA KindOfGates == Gates => input.of = "gate"
<1> SUFFICES ASSUME Gates PROVE input.of = "gate"
  OBVIOUS
<1>1. PICK n \in 0 .. 2 : \E docs \in [1 .. n -> Documents],
               parsers \in [Domains -> {NoParser, "", "hermes"}], works \in [Domains -> BOOLEAN] :
                 input = [of |-> "gate", docs |-> docs, parsers |-> parsers, works |-> works]
  BY DEF Gates
<1>2. PICK docs \in [1 .. n -> Documents],
             parsers \in [Domains -> {NoParser, "", "hermes"}], works \in [Domains -> BOOLEAN] :
               input = [of |-> "gate", docs |-> docs, parsers |-> parsers, works |-> works]
  BY <1>1
<1>3. QED BY <1>2

\* Each kind.
LEMMA KindsOfInputs ==
  ASSUME Init
  PROVE  /\ input.of = "stream" => Streams
         /\ input.of = "request" => Requests
         /\ input.of = "sweep" => Sweeps
         /\ input.of = "ranking" => Rankings
         /\ input.of = "gate" => Gates
         /\ input.of = "report" => Reports
         /\ input.of = "job" => Jobs
         /\ input.of = "token" => Tokens
         /\ input.of \in {"answer", "submission"} => Answers
         /\ input.of = "image" => Images
         /\ input.of = "host" => Hosts
         /\ input.of = "memory" => Memories
<1>1. Jobs => input.of = "job"
  BY KindOfJobs
<1>2. Tokens => input.of = "token"
  BY DEF Tokens
<1>3. Answers => input.of \in {"answer", "submission"}
  BY DEF Answers
<1>4. Images => input.of = "image"
  BY DEF Images
<1>5. Hosts => input.of = "host"
  BY DEF Hosts
<1>6. Memories => input.of = "memory"
  BY DEF Memories
<1>7. Streams => input.of = "stream"
  BY DEF Streams
<1>8. Requests => input.of = "request"
  BY DEF Requests
<1>9. Sweeps => input.of = "sweep"
  BY DEF Sweeps
<1>10. Rankings => input.of = "ranking"
  BY DEF Rankings
<1>11. Gates => input.of = "gate"
  BY KindOfGates
<1>12. Reports => input.of = "report"
  BY DEF Reports
<1>13. QED BY <1>1, <1>2, <1>3, <1>4, <1>5, <1>6, <1>7, <1>8, <1>9, <1>10, <1>11, <1>12 DEF Init

\* The names and the lists of the sweeps.
LEMMA NamesOfSweeps ==
  ASSUME NEW names \in SweepNames
  PROVE  names \in Seq({"tp", "a-b", "a_b", "c"}) /\ Len(names) \in 1 .. 3 /\ DOMAIN names = 1 .. Len(names)
<1>1. CASE names = <<"tp">>
  BY <1>1
<1>2. CASE names = <<"tp", "c">>
  BY <1>2
<1>3. CASE names = <<"a-b", "a_b">>
  BY <1>3
<1>4. CASE names = <<"tp", "a_b", "c">>
  BY <1>4
<1>5. QED BY <1>1, <1>2, <1>3, <1>4 DEF SweepNames

\* Sequences of up to three members.
LEMMA ShortLists ==
  ASSUME NEW V, NEW a \in V, NEW b \in V, NEW c \in V
  PROVE  /\ <<>> \in Seq(V) /\ <<a>> \in Seq(V) /\ <<a, b>> \in Seq(V)
         /\ <<a, a, b>> \in Seq(V) /\ <<c, a, b>> \in Seq(V)
OBVIOUS

\* The lists of values are such sequences.
LEMMA ListsOfSweeps ==
  ASSUME NEW list \in Lists
  PROVE  list \in Seq({"1", "2", "4", "x", "flag", "", Unset})
<1> DEFINE V == {"1", "2", "4", "x", "flag", "", Unset}
<1>1. "2" \in V /\ "4" \in V /\ "x" \in V /\ "flag" \in V /\ "" \in V
  OBVIOUS
<1> HIDE DEF V
<1>2. /\ <<>> \in Seq(V) /\ <<"2">> \in Seq(V) /\ <<"2", "4">> \in Seq(V) /\ <<"2", "2", "4">> \in Seq(V)
  BY <1>1, ShortLists
<1>3. <<"flag", "">> \in Seq(V) /\ <<"x", "flag", "">> \in Seq(V)
  BY <1>1, ShortLists
<1>4. list \in Seq(V)
  BY <1>2, <1>3 DEF Lists
<1>5. QED BY <1>4 DEF V

\* The documents of LightEval.
LEMMA DocumentsOfGates == Documents \subseteq Results \cup [kind : {"other", "broken"}]
<1>1. ASSUME NEW T \in SUBSET Tasks, NEW f \in [T -> {1, 2, Unscored}]
      PROVE  [kind |-> "results", scores |-> f] \in Results
  <2>1. Unscored \in Nat
    BY DEF Unscored
  <2>2. f \in [T -> Nat]
    BY <2>1
  <2>3. [kind |-> "results", scores |-> f] \in [kind : {"results"}, scores : [T -> Nat]]
    BY <2>2
  <2>4. QED BY <2>3 DEF Results
<1>2. [kind |-> "other"] \in [kind : {"other", "broken"}] /\ [kind |-> "broken"] \in [kind : {"other", "broken"}]
  OBVIOUS
<1>3. ASSUME NEW d \in Documents PROVE d \in Results \cup [kind : {"other", "broken"}]
  <2>1. CASE d \in {[kind |-> "results", scores |-> f] : f \in UNION {[T -> {1, 2, Unscored}] : T \in SUBSET Tasks}}
    <3>1. PICK f \in UNION {[T -> {1, 2, Unscored}] : T \in SUBSET Tasks} : d = [kind |-> "results", scores |-> f]
      BY <2>1
    <3>2. PICK T \in SUBSET Tasks : f \in [T -> {1, 2, Unscored}]
      BY <3>1
    <3>3. QED BY <1>1, <3>1, <3>2
  <2>2. CASE d \in {[kind |-> "other"], [kind |-> "broken"]}
    BY <1>2, <2>2
  <2>3. QED BY <2>1, <2>2 DEF Documents
<1>4. QED BY <1>3

\* The parts of a request: the configuration file,
LEMMA FilesOfJobs ==
  ASSUME NEW Words, NEW file \in Files,
         Words = {Absent, "one", "two", Unsafe, Parted, "set", "invalid", "other", "bucket", "elsewhere"}
  PROVE file \in Configs(Words) \cup {Absent}
<1>1. {Absent, FALSE} \subseteq BOOLEAN \cup {Absent} /\ {Absent, 2} \subseteq Nat \cup {Absent}
  OBVIOUS
<1>2. {Absent, "one", Unsafe, Parted} \subseteq Words /\ {Absent, "set", "invalid"} \subseteq Words
  OBVIOUS
<1>3. [image : {Absent, "one", Unsafe, Parted}, settings : {Absent, "set", "invalid"},
                       correctness : {Absent, FALSE}, cap : {Absent, 2}]
       \subseteq [image : Words, settings : Words, correctness : BOOLEAN \cup {Absent}, cap : Nat \cup {Absent}]
  BY <1>1, <1>2
<1>4. QED BY <1>3 DEF Files, Configs

\* the command line,
LEMMA LinesOfJobs ==
  ASSUME NEW Words, NEW kind \in {"bench", "sweep"}, NEW line \in Overrides(kind),
         Words = {Absent, "one", "two", Unsafe, Parted, "set", "invalid", "other", "bucket", "elsewhere"}
  PROVE line \in Configs(Words) /\ (kind = "sweep" => line.image = Absent /\ line.settings = Absent /\ line.correctness = Absent)
<1>1. CASE kind = "sweep"
  <2>1. line \in [image : {Absent}, settings : {Absent}, correctness : {Absent}, cap : {Absent, 3}]
    BY <1>1 DEF Overrides
  <2>2. {Absent, 3} \subseteq Nat \cup {Absent}
    OBVIOUS
  <2>3. {Absent} \subseteq Words
    OBVIOUS
  <2>4. [image : {Absent}, settings : {Absent}, correctness : {Absent}, cap : {Absent, 3}] \subseteq Configs(Words)
    BY <2>2, <2>3 DEF Configs
  <2>5. QED BY <2>1, <2>4
<1>2. CASE kind # "sweep"
  <2>1. line \in [image : {Absent, "two", Unsafe}, settings : {Absent, "other"},
          correctness : {Absent, FALSE}, cap : {Absent}]
    BY <1>2 DEF Overrides
  <2>2. {Absent, FALSE} \subseteq BOOLEAN \cup {Absent}
    OBVIOUS
  <2>3. {Absent, "two", Unsafe} \subseteq Words /\ {Absent, "other"} \subseteq Words
    OBVIOUS
  <2>4. [image : {Absent, "two", Unsafe}, settings : {Absent, "other"},
          correctness : {Absent, FALSE}, cap : {Absent}] \subseteq Configs(Words)
    BY <2>2, <2>3 DEF Configs
  <2>5. QED BY <1>2, <2>1, <2>4
<1>3. QED BY <1>1, <1>2

\* what fails in the job,
LEMMA FailuresOfJobs == Failures \subseteq Failing
<1>1. ASSUME NEW F \in {{}, {"download"}, {"build"}, {"config"}, {"tools"}}, NEW G \in SUBSET {"copy", "print"}
      PROVE F \cup G \in Failing
  BY DEF Failing
<1>2. ASSUME NEW f \in Failures PROVE f \in Failing
  <2>1. PICK F \in {{}, {"download"}, {"build"}, {"config"}, {"tools"}}, G \in SUBSET {"copy", "print"} : f = F \cup G
    BY <1>2 DEF Failures
  <2>2. QED BY <1>1, <2>1
<1>3. QED BY <1>2

\* The request that the runs build of its parts.
RequestOf(kind, bucket, way, file, line) ==
    [kind |-> kind, file |-> file, line |-> line, bucket |-> bucket,
     on |-> IF way = "local" THEN "local" ELSE "hf-jobs",
     flavor |-> way # "no flavor", ref |-> way \in {"ref", "both"},
     url |-> way \in {"url", "both"}, dryRun |-> way = "dry"]

\* and the flags.
LEMMA WaysOfJobs ==
  ASSUME NEW way
  PROVE  /\ (way # "no flavor") \in BOOLEAN /\ (way = "dry") \in BOOLEAN
         /\ (way \in {"ref", "both"}) \in BOOLEAN /\ (way \in {"url", "both"}) \in BOOLEAN
<1>1. (way # "no flavor") \in BOOLEAN
  OBVIOUS
<1>2. (way = "dry") \in BOOLEAN
  OBVIOUS
<1>3. (way \in {"ref", "both"}) \in BOOLEAN
  OBVIOUS
<1>4. (way \in {"url", "both"}) \in BOOLEAN
  OBVIOUS
<1>5. QED BY <1>1, <1>2, <1>3, <1>4

\* Together they are a request.
LEMMA RequestsOfJobs ==
  ASSUME NEW Words, Words = {Absent, "one", "two", Unsafe, Parted, "set", "invalid", "other", "bucket", "elsewhere"},
         NEW kind \in {"bench", "sweep"}, NEW bucket \in {Absent, "bucket", "elsewhere"},
         NEW way \in {"plain", "ref", "url", "both", "dry", "local", "no flavor"},
         NEW file \in Files, NEW line \in Overrides(kind)
  PROVE  RequestOf(kind, bucket, way, file, line) \in Asking(Words)
<1>1. file \in Configs(Words) \cup {Absent}
  BY FilesOfJobs
<1>2. line \in Configs(Words) /\ (kind = "sweep" => line.image = Absent /\ line.settings = Absent /\ line.correctness = Absent)
  BY LinesOfJobs
<1>4. bucket \in Words
  OBVIOUS
<1>3. ASSUME NEW on \in {"local", "hf-jobs"}, NEW flavor \in BOOLEAN, NEW ref \in BOOLEAN,
             NEW url \in BOOLEAN, NEW dryRun \in BOOLEAN
      PROVE  [kind |-> kind, file |-> file, line |-> line, bucket |-> bucket, on |-> on,
              flavor |-> flavor, ref |-> ref, url |-> url, dryRun |-> dryRun] \in Asking(Words)
  BY <1>1, <1>2, <1>4 DEF Asking
<1>5. (IF way = "local" THEN "local" ELSE "hf-jobs") \in {"local", "hf-jobs"}
  OBVIOUS
<1>6. QED BY <1>3, <1>5, WaysOfJobs, Zenon DEF RequestOf

\* What nvidia-smi answers.
LEMMA GpusOfHosts ==
  ASSUME NEW n \in 0 .. 3
  PROVE  Reported(n) \in GpuLists({"0", "1", "2", "A", "B", "C", "other"})
<1> DEFINE Names == {"0", "1", "2", "A", "B", "C", "other"}
           all == Reported(n)
<1>0. DOMAIN all = 1 .. n /\ n \in Nat
  BY DEF Reported
<1>1. \A i \in 1 .. n : i = 1 \/ i = 2 \/ i = 3
  OBVIOUS
<1>2. \A i \in 1 .. n : all[i] = [index |-> <<"0", "1", "2">>[i], uuid |-> <<"A", "B", "C">>[i]]
  BY DEF Reported
<1>3. \A i \in 1 .. n : /\ i = 1 => all[i] = [index |-> "0", uuid |-> "A"]
                        /\ i = 2 => all[i] = [index |-> "1", uuid |-> "B"]
                        /\ i = 3 => all[i] = [index |-> "2", uuid |-> "C"]
  BY <1>2
<1>4. [index |-> "0", uuid |-> "A"] \in Gpus(Names) /\ [index |-> "1", uuid |-> "B"] \in Gpus(Names) /\ [index |-> "2", uuid |-> "C"] \in Gpus(Names)
  BY DEF Gpus
<1>5. \A i, j \in 1 .. n : /\ all[i].index = all[j].index \/ all[i].uuid = all[j].uuid => i = j
                           /\ all[i].index # all[j].uuid
  <2> HIDE DEF all
  <2>1. TAKE i, j \in 1 .. n
  <2>2. CASE i = 1
    <3>1. all[i].index = "0" /\ all[i].uuid = "A"
      BY <1>3, <2>2
    <3>2. QED BY <1>1, <1>3, <2>2, <3>1
  <2>3. CASE i = 2
    <3>1. all[i].index = "1" /\ all[i].uuid = "B"
      BY <1>3, <2>3
    <3>2. QED BY <1>1, <1>3, <2>3, <3>1
  <2>4. CASE i = 3
    <3>1. all[i].index = "2" /\ all[i].uuid = "C"
      BY <1>3, <2>4
    <3>2. QED BY <1>1, <1>3, <2>4, <3>1
  <2>5. QED BY <1>1, <2>2, <2>3, <2>4
<1>6. all \in Seq(Gpus(Names))
  <2>1. all \in [1 .. n -> Gpus(Names)]
    <3>1. \A i \in 1 .. n : all[i] \in Gpus(Names)
      <4> HIDE DEF Names, all
      <4>1. QED BY <1>1, <1>3, <1>4
    <3>2. QED BY <3>1 DEF Reported
  <2> HIDE DEF Names, all
  <2>2. QED BY <1>0, <2>1, FunctionIsSequence
<1> HIDE DEF Names, all
<1>7. all \in GpuLists(Names)
  BY <1>0, <1>5, <1>6 DEF GpuLists
<1>8. QED BY <1>7 DEF all, Names

\* A cut text: one chunk at least,
Chunks(S) == Seq(Seq(S)) \ {<<>>}

\* to which the next letter is added.
CutOn(chunks, text, i, cuts) ==
  IF i - 1 \in cuts THEN Append(chunks, <<text[i]>>)
  ELSE [chunks EXCEPT ![Len(chunks)] = Append(@, text[i])]

\* That keeps it one.
LEMMA CutOnKeeps ==
  ASSUME NEW S, NEW text \in Seq(S), NEW cuts, NEW chunks \in Chunks(S), NEW i \in 1 .. Len(text)
  PROVE  CutOn(chunks, text, i, cuts) \in Chunks(S)
<1>1. PICK x \in S : x = text[i]
  OBVIOUS
<1>2. chunks \in Seq(Seq(S)) /\ chunks # <<>>
  BY DEF Chunks
<1>3. PICK n \in Nat : n = Len(chunks) /\ n \in 1 .. n
  BY <1>2
<1>4. PICK w : w = Append(chunks[n], x)
  OBVIOUS
<1>5. w \in Seq(S) /\ <<x>> \in Seq(S)
  <2>1. chunks[n] \in Seq(S)
    BY <1>2, <1>3
  <2>2. QED BY <1>4, <2>1
<1>6. Append(chunks, <<x>>) \in Chunks(S)
  <2>1. PICK y \in Seq(S) : y = <<x>>
    BY <1>5
  <2>2. Append(chunks, y) \in Seq(Seq(S)) /\ Append(chunks, y) # <<>>
    BY <1>2
  <2>3. QED BY <2>1, <2>2 DEF Chunks
<1>7. Replaced(chunks, w) \in Chunks(S)
  <2>1. \A T : \A ps \in Seq(T) : \A u \in T : ps # <<>> => Replaced(ps, u) \in Seq(T) /\ Replaced(ps, u) # <<>>
    BY Replacing
  <2>2. QED BY <1>2, <1>5, <2>1 DEF Chunks
<1>8. CutOn(chunks, text, i, cuts) = IF i - 1 \in cuts THEN Append(chunks, <<x>>) ELSE Replaced(chunks, w)
  BY <1>1, <1>3, <1>4 DEF CutOn, Replaced
<1>9. QED BY <1>6, <1>7, <1>8

\* However a text is cut, the chunks are of its letters.
LEMMA CutsAreChunks ==
  ASSUME NEW S, NEW text \in Seq(S), NEW cuts
  PROVE  Cut(text, cuts) \in Seq(Seq(S))
<1> DEFINE s == [i \in 1 .. Len(text) |-> i]
           n == Len(s)
           V == Chunks(S)
           b == <<<<>>>>
           F == CHOOSE h : h = [t \in SUBSET DOMAIN s |->
                  IF t = {} THEN b ELSE CutOn(h[t \ {Max(t)}], text, s[Max(t)], cuts)]
           step == [x \in V \X (1 .. n) |-> CutOn(x[1], text, s[x[2]], cuts)]
<1>1. n \in Nat /\ DOMAIN s = 1 .. n /\ \A i \in 1 .. n : s[i] \in 1 .. Len(text)
  OBVIOUS
<1>2. Cut(text, cuts) = F[DOMAIN s]
  BY DEF Cut, CutOn, FoldLeft, MapThenFoldSet
<1>3. b \in V
  <2>1. <<<<>>>> \in Seq(Seq(S)) /\ <<<<>>>> # <<>>
    OBVIOUS
  <2>2. QED BY <2>1 DEF Chunks
<1>4. \A x \in V : \A y \in 1 .. Len(text) : CutOn(x, text, y, cuts) \in V
  BY CutOnKeeps
<1> HIDE DEF V, b
<1>5. step \in [V \X (1 .. n) -> V]
  BY <1>1, <1>4
<1> HIDE DEF n, s
<1>6. PICK h : Folds(h, n, V, b, step)
  <2> HIDE DEF step
  <2>1. QED BY <1>1, <1>3, <1>5, FoldRecursion
<1>7. h = [t \in SUBSET DOMAIN s |-> IF t = {} THEN b ELSE CutOn(h[t \ {Max(t)}], text, s[Max(t)], cuts)]
  <2>1. ASSUME NEW t \in SUBSET (1 .. n), t # {}
        PROVE  step[<<h[t \ {Max(t)}], Max(t)>>] = CutOn(h[t \ {Max(t)}], text, s[Max(t)], cuts)
    <3>1. Max(t) \in 1 .. n
      BY <1>1, <2>1, GreatestUpTo
    <3>2. h[t \ {Max(t)}] \in V
      BY <1>6, <2>1 DEF Folds
    <3>3. QED BY <3>1, <3>2
  <2> HIDE DEF step
  <2>2. QED BY <1>1, <1>6, <2>1 DEF Folds
<1>8. PICK H : /\ Cut(text, cuts) = H[DOMAIN s]
               /\ H = [t \in SUBSET DOMAIN s |-> IF t = {} THEN b ELSE CutOn(H[t \ {Max(t)}], text, s[Max(t)], cuts)]
  <2>1. F = [t \in SUBSET DOMAIN s |-> IF t = {} THEN b ELSE CutOn(F[t \ {Max(t)}], text, s[Max(t)], cuts)]
    BY <1>7
  <2> HIDE DEF F
  <2>2. QED BY <1>2, <2>1
<1> HIDE DEF F
<1>9. FoldsBy(H, n, V, b, step)
  <2>1. H[{}] = b
    BY <1>8
  <2>2. ASSUME NEW t \in SUBSET (1 .. n), t # {}, H[t \ {Max(t)}] \in V
        PROVE  H[t] = step[<<H[t \ {Max(t)}], Max(t)>>]
    <3>1. Max(t) \in 1 .. n
      BY <1>1, <2>2, GreatestUpTo
    <3>2. H[t] = CutOn(H[t \ {Max(t)}], text, s[Max(t)], cuts)
      BY <1>1, <1>8, <2>2
    <3>3. QED BY <2>2, <3>1, <3>2
  <2> HIDE DEF step
  <2>3. QED BY <2>1, <2>2 DEF FoldsBy
<1>10. PICK run : Passes(H, run, n, V, b, step)
  <2> HIDE DEF step
  <2>1. QED BY <1>1, <1>3, <1>5, <1>9, FoldRuns
<1> HIDE DEF step
<1>11. Cut(text, cuts) \in V
  BY <1>1, <1>8, <1>10 DEF Passes
<1>12. QED BY <1>11 DEF V, Chunks

\* The texts that the runs enumerate are texts.
LEMMA TextsAre ==
  ASSUME NEW S, NEW n \in Nat, NEW text \in [1 .. n -> S], NEW T, S \subseteq T
  PROVE  text \in Seq(T)
<1>1. text \in [1 .. n -> T]
  OBVIOUS
<1>2. QED BY <1>1, FunctionIsSequence

\* So are the secrets secrets.
LEMMA SecretsOfStreams ==
  \A secrets \in SecretSets \cup {{<<"m", "m">>}, {}, {<<"a", "b">>}} : secrets \in SecretsOf(Finals \cup Controls)
<1> DEFINE B == Finals \cup Controls
<1>1. "a" \in B /\ "b" \in B /\ "m" \in B
  BY DEF Finals
<1> HIDE DEF B
<1>2. \A x, y \in B : <<x, y>> \in Seq(B) /\ <<x>> \in Seq(B) /\ \A z \in B : <<x, y, z>> \in Seq(B)
  OBVIOUS
<1>3. \A v, w \in Seq(B) : v # <<>> /\ w # <<>> => {v, w} \in SecretsOf(B)
  <2>1. ASSUME NEW v, NEW w PROVE IsFiniteSet({v, w})
    <3>1. IsFiniteSet({w})
      BY FS_Singleton
    <3>2. IsFiniteSet({w} \cup {v})
      BY <3>1, FS_AddElement
    <3>3. {w} \cup {v} = {v, w}
      OBVIOUS
    <3>4. QED BY <3>2, <3>3
  <2>2. QED BY <2>1 DEF SecretsOf
<1>4. \A v \in Seq(B) : v # <<>> => {v} \in SecretsOf(B)
  BY FS_Singleton DEF SecretsOf
<1>5. {} \in SecretsOf(B)
  BY FS_EmptySet DEF SecretsOf
<1>6. <<"a", "b">> # <<>> /\ <<"a">> # <<>> /\ <<"a", "a", "b">> # <<>> /\ <<"a", "b", "a">> # <<>>
      /\ <<"b", "b">> # <<>> /\ <<"m", "m">> # <<>>
  OBVIOUS
<1>7. {<<"a", "b">>} \in SecretsOf(B) /\ {<<"m", "m">>} \in SecretsOf(B)
  BY <1>1, <1>2, <1>4, <1>6
<1>8. {<<"a">>, <<"a", "a", "b">>} \in SecretsOf(B) /\ {<<"a", "b", "a">>, <<"b", "b">>} \in SecretsOf(B)
  BY <1>1, <1>2, <1>3, <1>6
<1>9. QED BY <1>5, <1>7, <1>8 DEF SecretSets, B

\* Each sweep that the runs try is complete: SweepSpec::candidates, for these inputs.
THEOREM SweepsStayComplete == Spec => []SweepsAreComplete
<1>1. ASSUME Sweeps
      PROVE  TriesEveryCombination(MCBase, input.dimensions, input.maxTrials, input.cap)
  <2> DEFINE D == {"tp", "a-b", "c"}
             N == {"tp", "a-b", "a_b", "c"}
             V == {"1", "2", "4", "x", "flag", "", Unset}
  <2>1. MCBase \in [D -> V]
    BY DEF MCBase
  <2>2. \A a \in N : Canonical[a] \in D
    BY InputsAssumption
  <2>3. PICK names \in SweepNames, values \in [1 .. 3 -> Lists], maxTrials \in Limits, cap \in Caps :
               input = [of |-> "sweep", maxTrials |-> maxTrials, cap |-> cap,
                        dimensions |-> [i \in DOMAIN names |-> [name |-> names[i], values |-> values[i]]]]
    BY <1>1 DEF Sweeps
  <2> HIDE DEF D, N, V
  <2>4. names \in Seq(N) /\ Len(names) \in 1 .. 3 /\ DOMAIN names = 1 .. Len(names)
    BY NamesOfSweeps DEF N
  <2>5. \A i \in 1 .. 3 : values[i] \in Seq(V)
    BY <2>3, ListsOfSweeps DEF V
  <2>6. input.maxTrials \in Nat
    <3>1. input.maxTrials = maxTrials
      BY <2>3
    <3>2. QED BY <3>1 DEF Limits
  <2>7. input.dimensions = [i \in DOMAIN names |-> [name |-> names[i], values |-> values[i]]]
    BY <2>3
  <2>8. input.dimensions \in Seq(Dimensions(N, V))
    <3>1. Len(names) \in Nat /\ \A i \in 1 .. Len(names) : i \in 1 .. 3 /\ names[i] \in N
      BY <2>4
    <3>2. \A i \in 1 .. Len(names) : [name |-> names[i], values |-> values[i]] \in Dimensions(N, V)
      BY <2>5, <3>1 DEF Dimensions
    <3>3. input.dimensions \in [1 .. Len(names) -> Dimensions(N, V)]
      BY <2>4, <2>7, <3>2
    <3>4. QED BY <3>1, <3>3, FunctionIsSequence
  <2>9. QED BY <2>1, <2>2, <2>6, <2>8, EveryCombinationIsTried
<1>2. Init => SweepsAreComplete
  BY <1>1, KindsOfInputs DEF SweepsAreComplete
<1>3. SweepsAreComplete /\ [Next]_input => SweepsAreComplete'
  BY DEF Next, SweepsAreComplete
<1>4. QED BY <1>2, <1>3, PTL DEF Spec

\* Each verdict on the inputs of the runs is a measurement.
THEOREM VerdictsStayMeasured == Spec => []VerdictsAreMeasured
<1>1. ASSUME Gates PROVE VerdictIsMeasured(input.docs, input.parsers, input.works, 2)
  <2>1. PICK n \in 0 .. 2 : \E docs \in [1 .. n -> Documents],
               parsers \in [Domains -> {NoParser, "", "hermes"}], works \in [Domains -> BOOLEAN] :
                 input = [of |-> "gate", docs |-> docs, parsers |-> parsers, works |-> works]
    BY <1>1 DEF Gates
  <2>n. n \in Nat
    OBVIOUS
  <2>2. PICK docs \in [1 .. n -> Documents],
             parsers \in [Domains -> {NoParser, "", "hermes"}], works \in [Domains -> BOOLEAN] :
               input = [of |-> "gate", docs |-> docs, parsers |-> parsers, works |-> works]
    BY <2>1
  <2>4. docs \in GateDocs
    <3>1. \A i \in 1 .. n : docs[i] \in Results \cup [kind : {"other", "broken"}]
      BY <2>2, DocumentsOfGates
    <3>3. docs \in [1 .. n -> Results \cup [kind : {"other", "broken"}]]
      BY <2>2, <3>1
    <3>4. QED BY <2>n, <3>3, FunctionIsSequence DEF GateDocs
  <2>5. /\ input.docs = docs /\ input.parsers = parsers /\ input.works = works
    BY <2>2
  <2>6. QED BY <2>2, <2>4, <2>5, MeasuredVerdict
<1>2. Init => VerdictsAreMeasured
  BY <1>1, KindsOfInputs DEF VerdictsAreMeasured
<1>3. VerdictsAreMeasured /\ [Next]_input => VerdictsAreMeasured'
  BY DEF Next, VerdictsAreMeasured
<1>4. QED BY <1>2, <1>3, PTL DEF Spec

\* Each winner of the inputs of the runs is agreed on.
THEOREM WinnersStayAgreedOn == Spec => []WinnersAgree
<1>1. ASSUME Rankings PROVE RankingAgrees(input.lower, input.observations)
  <2>1. PICK n \in 1 .. 3, ids \in {<<1, 2, 3>>, <<3, 1, 2>>, <<2, 1, 1>>}, lower \in BOOLEAN :
          \E statuses \in [1 .. n -> {"Passed", "None", "Failed"}],
             values \in [1 .. n -> {1, 2, NoValue}] :
            input = [of |-> "ranking", lower |-> lower,
                     observations |-> [i \in 1 .. n |-> [id |-> ids[i], status |-> statuses[i],
                                                         value |-> values[i]]]]
    BY <1>1 DEF Rankings
  <2>2. PICK statuses \in [1 .. n -> {"Passed", "None", "Failed"}],
             values \in [1 .. n -> {1, 2, NoValue}] :
            input = [of |-> "ranking", lower |-> lower,
                     observations |-> [i \in 1 .. n |-> [id |-> ids[i], status |-> statuses[i],
                                                         value |-> values[i]]]]
    BY <2>1
  <2>3. \A i \in 1 .. n : ids[i] \in Int
    <3>1. \A i \in 1 .. n : i \in {1, 2, 3}
      BY <2>1
    <3>2. QED BY <2>1, <3>1
  <2>4. \A i \in 1 .. n : [id |-> ids[i], status |-> statuses[i], value |-> values[i]] \in Observed
    BY <2>2, <2>3 DEF Observed
  <2>5. input.observations \in Seq(Observed) /\ input.lower = lower
    BY <2>2, <2>4
  <2>6. QED BY <2>1, <2>5, RankingsAgree
<1>2. ASSUME Reports PROVE WinnerStaysListed(input.report)
  <2>1. PICK n \in 0 .. 5 : \E trials \in [1 .. n -> {"success", "failed"}] :
          \E best \in {NoTrial} \cup {i - 1 : i \in {k \in 1 .. n : trials[k] = "success"}} :
            input = [of |-> "report", report |-> [trials |-> trials, best |-> best]]
    BY <1>2 DEF Reports
  <2>2. PICK trials \in [1 .. n -> {"success", "failed"}] :
          \E best \in {NoTrial} \cup {i - 1 : i \in {k \in 1 .. n : trials[k] = "success"}} :
            input = [of |-> "report", report |-> [trials |-> trials, best |-> best]]
    BY <2>1
  <2>3. PICK best \in {NoTrial} \cup {i - 1 : i \in {k \in 1 .. n : trials[k] = "success"}} :
          input = [of |-> "report", report |-> [trials |-> trials, best |-> best]]
    BY <2>2
  <2>4. input.report.trials = trials /\ input.report.best = best
    BY <2>3
  <2>5. trials \in Seq({"success", "failed"}) /\ Len(trials) = n
    BY <2>2
  <2>6. best \in {NoTrial} \cup 0 .. Len(trials) - 1
    BY <2>3, <2>5
  <2>7. QED BY <2>4, <2>5, <2>6, WinnersStayListed
<1>3. Init => WinnersAgree
  BY <1>1, <1>2, KindsOfInputs DEF WinnersAgree
<1>4. WinnersAgree /\ [Next]_input => WinnersAgree'
  BY DEF Next, WinnersAgree
<1>5. QED BY <1>3, <1>4, PTL DEF Spec

\* Each job of the runs whose image stands whole on its command line does what was
\* asked for here.
THEOREM JobsStayAsAsked == Spec => []JobsDoWhatWasAsked
<1>0. \A c \in {0, 3} : c \in Nat
  OBVIOUS
<1>1. ASSUME Jobs PROVE JobDoesWhatWasAsked(input.request, input.fails, input.code)
  <2> DEFINE T == {Absent, "one", "two", Unsafe, Parted, "set", "invalid", "other", "bucket", "elsewhere"}
  <2>1. PICK kind \in {"bench", "sweep"}, bucket \in {Absent, "bucket", "elsewhere"}, fails \in Failures,
             code \in {0, 3}, way \in {"plain", "ref", "url", "both", "dry", "local", "no flavor"}, file \in Files :
               \E line \in Overrides(kind) :
                 input = [of |-> "job", fails |-> fails, code |-> code,
                          request |-> RequestOf(kind, bucket, way, file, line)]
    BY <1>1 DEF Jobs, RequestOf
  <2>a. PICK line \in Overrides(kind) :
          input = [of |-> "job", fails |-> fails, code |-> code,
                   request |-> RequestOf(kind, bucket, way, file, line)]
    BY <2>1
  <2>b. input.request = RequestOf(kind, bucket, way, file, line) /\ input.fails = fails /\ input.code = code
    BY <2>a
  <2>2. input.request \in Asking(T)
    <3>1. RequestOf(kind, bucket, way, file, line) \in Asking(T)
      BY RequestsOfJobs
    <3> HIDE DEF T
    <3>2. QED BY <2>b, <3>1
  <2>3. input.fails \in Failing /\ input.code \in Nat
    <3>1. fails \in Failing
      BY FailuresOfJobs
    <3>2. QED BY <1>0, <2>b, <3>1
  <2> HIDE DEF T
  <2>4. QED BY <2>2, <2>3, JobsAreAsAsked
<1>2. Init => JobsDoWhatWasAsked
  BY <1>1, KindsOfInputs DEF JobsDoWhatWasAsked
<1>3. JobsDoWhatWasAsked /\ [Next]_input => JobsDoWhatWasAsked'
  BY DEF Next, JobsDoWhatWasAsked
<1>4. QED BY <1>2, <1>3, PTL DEF Spec

\* What the preflight lets through, of the inputs of the runs, is sound.
THEOREM PreflightsStaySound == Spec => []PreflightIsSound
<1>1. ASSUME Tokens
      PROVE  UsesTheFirst(input.environment, input.files, input.commands, input.submits, input.key)
  <2> DEFINE T == {"blank", "lines", "env1", "env2", "file"}
  <2>1. PICK first \in {NotSet, "blank", "lines", "env1"}, second \in {NotSet, "blank", "lines", "env2"},
             files \in [1 .. 2 -> TokenFiles] :
               input.environment = <<first, second>> /\ input.files = files
    BY <1>1 DEF Tokens
  <2>2. TokenFiles \subseteq TokenFileStates(T)
    BY DEF TokenFiles, TokenFileStates
  <2>3. files \in Seq(TokenFileStates(T))
    <3> HIDE DEF T
    <3>1. 2 \in Nat /\ files \in [1 .. 2 -> TokenFileStates(T)]
      BY <2>1, <2>2
    <3>2. QED BY <3>1, FunctionIsSequence
  <2>4. <<first, second>> \in Seq(T \cup {NotSet})
    BY <2>1
  <2>5. "none" \notin T /\ "error" \notin T
    OBVIOUS
  <2> HIDE DEF T
  <2>6. QED BY <2>1, <2>3, <2>4, <2>5, TheFirstCredential
<1>2. ASSUME Answers, input.of = "submission"
      PROVE  SubmittedUnderAName(input.token, input.answer, input.commands,
                                 input.posted, input.event, input.got, input.events)
  <2> DEFINE Names == {"owner", "somebody"}
             ways == {"transport", "refused", "broken", "nameless"}
  <2>1. PICK n \in 0 .. 1, commands \in [1 .. 2 -> {NotSet, "somebody"}] : \E events \in [1 .. n -> EventKinds] :
          /\ input.answer \in ways \cup {"owner"} /\ input.commands = commands /\ input.events = events
    BY <1>2 DEF Answers
  <2>2. input.events \in Seq(EventKinds)
    BY <2>1
  <2>3. input.commands \in Seq(Names \cup {NotSet})
    <3>1. 2 \in Nat /\ input.commands \in [1 .. 2 -> Names \cup {NotSet}]
      BY <2>1
    <3> HIDE DEF Names
    <3>2. QED BY <3>1, FunctionIsSequence
  <2>4. NotSet \notin Names /\ \A a \in Names : a \notin {"error", "transport", "refused", "broken", "nameless"}
    BY InputsAssumption
  <2>5. input.answer \in Names \cup {"transport", "refused", "broken", "nameless"}
    BY <2>1
  <2> HIDE DEF Names
  <2>6. QED BY <2>2, <2>3, <2>4, <2>5, SubmittedByName
<1>3. ASSUME Images PROVE IdentityIsPinned(input.reference, input.repoDigests, input.allowLocal)
  <2> DEFINE Names == {"r", "s", "d1", "d2"}
             digests == [repo : {"r", "s"}, digest : {"d1", "d2"}]
  <2>1. /\ input.reference \in [repo : {"r"}, digest : {NotPinned, "d1"}, tagged : BOOLEAN]
        /\ input.repoDigests \in SUBSET digests /\ input.allowLocal \in BOOLEAN
    BY <1>3 DEF Images
  <2>2. IsFiniteSet(digests)
    <3> DEFINE at(r, d) == [repo |-> r, digest |-> d]
               all == {at("r", "d1")} \cup {at("r", "d2")} \cup {at("s", "d1")} \cup {at("s", "d2")}
    <3>1. digests \subseteq all
      OBVIOUS
    <3>2. IsFiniteSet(all)
      <4> HIDE DEF at
      <4>1. IsFiniteSet({at("r", "d1")})
        BY FS_Singleton
      <4>2. IsFiniteSet({at("r", "d1")} \cup {at("r", "d2")})
        BY <4>1, FS_AddElement
      <4>3. IsFiniteSet({at("r", "d1")} \cup {at("r", "d2")} \cup {at("s", "d1")})
        BY <4>2, FS_AddElement
      <4>4. QED BY <4>3, FS_AddElement
    <3> HIDE DEF digests, all
    <3>3. QED BY <3>1, <3>2, FS_Subset
  <2>3. digests \subseteq Digests(Names)
    BY DEF Digests
  <2>4. IsFiniteSet(input.repoDigests) /\ input.repoDigests \in SUBSET Digests(Names)
    <3> HIDE DEF digests
    <3>1. QED BY <2>1, <2>2, <2>3, FS_Subset
  <2>5. input.reference \in References(Names)
    BY <2>1 DEF References
  <2>6. ImageId \notin [repo : Names, digest : Names \cup {NotPinned}]
    BY InputsAssumption
  <2> HIDE DEF Names
  <2>7. QED BY <2>1, <2>4, <2>5, <2>6, ImagesArePinned
<1>4. ASSUME Hosts PROVE PoolIsSelected(input.answers, input.devices, input.gpus)
  <2> DEFINE Names == {"0", "1", "2", "A", "B", "C", "other"}
  <2>1. PICK first, second \in {Failed} \cup {Reported(n) : n \in 0 .. 3}, gpus, k \in 0 .. 3 :
          \E devices \in [1 .. k -> Names] :
            input = [of |-> "host", answers |-> <<first, second>>, devices |-> devices, gpus |-> gpus]
    BY <1>4 DEF Hosts
  <2>2. input.answers = <<first, second>> /\ input.gpus = gpus /\ input.devices \in [1 .. k -> Names]
    BY <2>1
  <2> HIDE DEF Names
  <2>3. input.devices \in Seq(Names)
    <3>1. k \in Nat
      OBVIOUS
    <3>2. QED BY <2>2, <3>1, FunctionIsSequence
  <2>4. Query(input.answers) # Failed => Query(input.answers) \in GpuLists(Names)
    <3>1. Query(input.answers) \in {first, second}
      BY <2>2 DEF Query
    <3>2. first \in {Failed} \cup {Reported(m) : m \in 0 .. 3} /\ second \in {Failed} \cup {Reported(m) : m \in 0 .. 3}
      BY <2>1
    <3>3. \A m \in 0 .. 3 : Reported(m) \in GpuLists(Names)
      BY GpusOfHosts DEF Names
    <3>4. QED BY <3>1, <3>2, <3>3
  <2>5. input.gpus \in Nat
    BY <2>2
  <2>6. QED BY <2>3, <2>4, <2>5, PoolsAreSelected
<1>5. ASSUME Memories PROVE MemoryIsKnown(input.enabled, input.required, input.documents)
  <2>1. PICK n \in 1 .. 2, enabled, required \in BOOLEAN :
          \E documents \in [1 .. n -> {Failed} \cup [weights : 0 .. 2, cache : 0 .. 1, total : 0 .. 3]] :
            input = [of |-> "memory", enabled |-> enabled, required |-> required, documents |-> documents]
    BY <1>5 DEF Memories
  <2>a. PICK documents \in [1 .. n -> {Failed} \cup [weights : 0 .. 2, cache : 0 .. 1, total : 0 .. 3]] :
          input = [of |-> "memory", enabled |-> enabled, required |-> required, documents |-> documents]
    BY <2>1
  <2>b. input.documents = documents /\ input.enabled = enabled /\ input.required = required
    BY <2>a
  <2>2. input.documents \in [1 .. n -> {Failed} \cup [weights : Nat, cache : Nat, total : Nat]]
    <3>1. [weights : 0 .. 2, cache : 0 .. 1, total : 0 .. 3] \subseteq [weights : Nat, cache : Nat, total : Nat]
      OBVIOUS
    <3>2. QED BY <2>a, <2>b, <3>1
  <2>3. input.documents \in Documented
    <3>1. n \in Nat
      OBVIOUS
    <3>2. QED BY <2>2, <3>1, FunctionIsSequence DEF Documented
  <2>4. QED BY <2>b, <2>3, MemoriesAreKnown
<1>6. Init => PreflightIsSound
  BY <1>1, <1>2, <1>3, <1>4, <1>5, KindsOfInputs DEF PreflightIsSound
<1>7. PreflightIsSound /\ [Next]_input => PreflightIsSound'
  BY DEF Next, PreflightIsSound
<1>8. QED BY <1>6, <1>7, PTL DEF Spec

\* What arrives in pieces in the runs is taken as a whole: the streams, the requests and
\* the answers.
THEOREM StreamsStayWhole == Spec => []StreamsAreWhole
<1> DEFINE B == Finals \cup Controls
<1>1. ASSUME NEW text \in Seq(B), NEW cuts,
             NEW secrets \in SecretSets \cup {{<<"m", "m">>}, {}, {<<"a", "b">>}}
      PROVE  CutsDoNotMatter(secrets, Cut(text, cuts))
  <2>1. Redacted \notin B
    BY SanitizerAssumption
  <2>2. Cut(text, cuts) \in Seq(Seq(B))
    BY CutsAreChunks
  <2>3. secrets \in SecretsOf(B)
    BY SecretsOfStreams
  <2> HIDE DEF B
  <2>4. PICK chunks \in Seq(Seq(B)) : chunks = Cut(text, cuts)
    BY <2>2
  <2>5. QED BY <2>1, <2>3, <2>4, CutsNeverMatter
<1>2. {"a", "b"} \subseteq B /\ {Esc, Bel, "]", "m", Backslash} \subseteq B
      /\ {Esc, Bel, "[", "]", "P", "a", "b"} \subseteq B
  BY DEF Finals, Controls
<1> HIDE DEF B
<1>3. ASSUME Streams PROVE CutsDoNotMatter(input.secrets, input.chunks)
  <2>1. CASE \E text \in Texts({"a", "b"}, 6), cuts \in SUBSET (1 .. 5), secrets \in SecretSets :
               input = [of |-> "stream", secrets |-> secrets, chunks |-> Cut(text, cuts)]
    <3>1. PICK text \in Texts({"a", "b"}, 6), cuts \in SUBSET (1 .. 5), secrets \in SecretSets :
               input = [of |-> "stream", secrets |-> secrets, chunks |-> Cut(text, cuts)]
      BY <2>1
    <3>2. PICK k \in 0 .. 6 : text \in [1 .. k -> {"a", "b"}]
      BY DEF Texts
    <3>3. text \in Seq(B)
      <4>1. k \in Nat
        OBVIOUS
      <4>2. QED BY <1>2, <3>2, <4>1, TextsAre
    <3>4. input.secrets = secrets /\ input.chunks = Cut(text, cuts)
      BY <3>1
    <3>5. QED BY <1>1, <3>3, <3>4
  <2>2. CASE \E text \in [1 .. 5 -> {Esc, Bel, "]", "m", Backslash}], cut \in 1 .. 5 :
               input = [of |-> "stream", secrets |-> {<<"m", "m">>}, chunks |-> Cut(text, {cut})]
    <3>1. PICK text \in [1 .. 5 -> {Esc, Bel, "]", "m", Backslash}], cut \in 1 .. 5 :
               input = [of |-> "stream", secrets |-> {<<"m", "m">>}, chunks |-> Cut(text, {cut})]
      BY <2>2
    <3>2. text \in Seq(B)
      <4>1. 5 \in Nat
        OBVIOUS
      <4>2. QED BY <1>2, <4>1, TextsAre
    <3>3. input.secrets = {<<"m", "m">>} /\ input.chunks = Cut(text, {cut})
      BY <3>1
    <3>4. QED BY <1>1, <3>2, <3>3
  <2>3. CASE \E text \in [1 .. 4 -> {Esc, Bel, "[", "]", "P", "a", "b"}], cut \in 1 .. 4,
                secrets \in {{}, {<<"a", "b">>}} :
               input = [of |-> "stream", secrets |-> secrets, chunks |-> Cut(text, {cut})]
    <3>1. PICK text \in [1 .. 4 -> {Esc, Bel, "[", "]", "P", "a", "b"}], cut \in 1 .. 4,
               secrets \in {{}, {<<"a", "b">>}} :
               input = [of |-> "stream", secrets |-> secrets, chunks |-> Cut(text, {cut})]
      BY <2>3
    <3>2. text \in Seq(B)
      <4>1. PICK L, n : L = {Esc, Bel, "[", "]", "P", "a", "b"} /\ n = 4
        OBVIOUS
      <4>2. n \in Nat /\ L \subseteq B /\ text \in [1 .. n -> L]
        BY <1>2, <4>1
      <4>3. QED BY <4>2, TextsAre
    <3>3. input.secrets = secrets /\ input.chunks = Cut(text, {cut})
      BY <3>1
    <3>4. QED BY <1>1, <3>2, <3>3
  <2>4. QED BY <1>3, <2>1, <2>2, <2>3 DEF Streams
<1>4. ASSUME Requests PROVE LinesAreWhole(input.buffers)
  <2>1. PICK text \in Texts({"x", Newline, Return}, 6), cuts \in SUBSET (1 .. 5) :
               input = [of |-> "request", buffers |-> Cut(text, cuts)]
    BY <1>4 DEF Requests
  <2>2. PICK k \in 0 .. 6 : text \in [1 .. k -> {"x", Newline, Return}]
    BY DEF Texts
  <2>3. PICK S : S = {"x", Newline, Return}
    OBVIOUS
  <2>4. text \in Seq(S)
    <3>1. k \in Nat /\ S \subseteq S
      OBVIOUS
    <3>2. QED BY <2>2, <2>3, <3>1, TextsAre
  <2>5. PICK buffers \in Seq(Seq(S)) : buffers = Cut(text, cuts)
    BY <2>4, CutsAreChunks
  <2>6. LinesAreWhole(buffers)
    BY RequestsAreWhole
  <2>7. input.buffers = buffers
    BY <2>1, <2>5
  <2>8. QED BY <2>6, <2>7
<1>5. ASSUME Answers, input.of = "answer" PROVE AnswersStand(input.events)
  <2>1. PICK n \in 0 .. 3 : \E events \in [1 .. n -> EventKinds] : input = [of |-> "answer", events |-> events]
    BY <1>5 DEF Answers
  <2>2. PICK events \in [1 .. n -> EventKinds] : input = [of |-> "answer", events |-> events]
    BY <2>1
  <2>3. events \in Seq(EventKinds)
    <3>1. n \in Nat
      OBVIOUS
    <3>2. QED BY <3>1, FunctionIsSequence
  <2>4. input.events = events
    BY <2>2
  <2>5. QED BY <2>3, <2>4, EveryAnswerStands
<1>6. Init => StreamsAreWhole
  BY <1>3, <1>4, <1>5, KindsOfInputs DEF StreamsAreWhole
<1>7. StreamsAreWhole /\ [Next]_input => StreamsAreWhole'
  BY DEF Next, StreamsAreWhole
<1>8. QED BY <1>6, <1>7, PTL DEF Spec
================================================================================
