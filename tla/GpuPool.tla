------------------------------ MODULE GpuPool ------------------------------
(***************************************************************************)
(* What the lease scheduler of a parallel sweep promises, with nothing of  *)
(* how it is done: a pool of GPUs, and trials that each receive, once, a   *)
(* whole set of free GPUs of the size they asked for and give the whole    *)
(* set back.  LeaseScheduler implements this module.                       *)
(***************************************************************************)
EXTENDS Integers, FiniteSets

CONSTANTS NumGpus,     \* size of the GPU pool
          Workloads    \* the demand vectors a sweep may start from

VARIABLES demand,      \* demand[t]: the number of GPUs trial t asks for
          waiting,     \* trials that have not been granted GPUs yet
          owner        \* owner[d]: the trial that holds GPU d, or Nobody

poolVars == <<demand, waiting, owner>>

Nobody == 0
Gpus == 1..NumGpus

Init == /\ demand \in Workloads
        /\ waiting = DOMAIN demand
        /\ owner = [d \in Gpus |-> Nobody]

(* A waiting trial receives all its GPUs at once, and only free ones.      *)
Grant(t) ==
  /\ t \in waiting
  /\ \E G \in SUBSET {d \in Gpus : owner[d] = Nobody} :
       /\ Cardinality(G) = demand[t]
       /\ owner' = [d \in Gpus |-> IF d \in G THEN t ELSE owner[d]]
  /\ waiting' = waiting \ {t}
  /\ UNCHANGED demand

(* A trial that is no longer waiting gives back everything it holds.       *)
Return(t) ==
  /\ t \notin waiting
  /\ owner' = [d \in Gpus |-> IF owner[d] = t THEN Nobody ELSE owner[d]]
  /\ UNCHANGED <<demand, waiting>>

Next == \E t \in DOMAIN demand : Grant(t) \/ Return(t)

Spec == Init /\ [][Next]_poolVars
=============================================================================
