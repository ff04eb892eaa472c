--------------------------- MODULE LeaseScheduler ---------------------------
(***************************************************************************)
(* The GPU and lane lease scheduler of a local Docker sweep                *)
(* (src/src/sweep.rs, struct LeaseScheduler).                              *)
(*                                                                         *)
(* Trials are numbered 1..n in declaration order (index i of the code is   *)
(* trial i + 1), GPUs 1..NumGpus in configured order, lanes 1..k.  `new`   *)
(* refuses a demand whose index is not its position, so the vector         *)
(* `pending` always lists trials in increasing order: a set with           *)
(* "the least that fits" carries the same information.                     *)
(***************************************************************************)
EXTENDS Integers, Sequences, FiniteSets, Functions

CONSTANTS NumGpus,      \* devices.len(): the selected GPU pool
          MaxPort,      \* u16::MAX, scaled down
          Workloads,    \* demand vectors: GPUs per trial, in declaration order
          CapChoices    \* values of sweep.max_parallel_trials

ASSUME SchedulerAssumption ==
  /\ NumGpus \in Nat \ {0}
  /\ MaxPort \in Nat \ {0}
  /\ \A w \in Workloads : w \in Seq(1..NumGpus) /\ w # <<>>
  /\ CapChoices \subseteq Nat \ {0}

VARIABLES demand,       \* demand[i]: GPUs requested by trial i (never changes)
          maxParallel,  \* the configured cap (never changes)
          lanePort,     \* ports: lanePort[l] is the host port of lane l (never changes)
          pending,      \* trials that have not been leased
          active        \* trial -> allocation, for the trials holding a lease

schedVars == <<demand, maxParallel, lanePort, pending, active>>

Devices == 1..NumGpus
Ports == 1..MaxPort
Lanes == DOMAIN lanePort
Trials == DOMAIN demand
Leased == DOMAIN active

Allocation == [gpus: SUBSET Devices, lane: Lanes, port: Ports]

Smaller(a, b) == IF a <= b THEN a ELSE b
-----------------------------------------------------------------------------
(* Deliberate defects, for the mutation runs: lanes and GPUs are mistaken   *)
(* for each other; a port fallback is not recorded.                         *)
FreeDevicesByLane == {d \in Devices : \A i \in Leased : d # active[i].lane}
UpdateHostPortForgotten(i, p) == i \in Leased /\ UNCHANGED schedVars
-----------------------------------------------------------------------------
(* The cap `new` computes; its three terms never change afterwards. *)
Cap == Smaller(Smaller(maxParallel, NumGpus), Len(lanePort))

FreeDevices == {d \in Devices : \A i \in Leased : d \notin active[i].gpus}

FreeLanes == {l \in Lanes : \A i \in Leased : active[i].lane # l}

Fits(i) == demand[i] <= Cardinality(FreeDevices)

(* The first pending trial, in declaration order, that fits. *)
FirstFit(i) == /\ i \in pending
               /\ Fits(i)
               /\ \A j \in pending : j < i => ~Fits(j)

(* The first n members of S in configured order: exactly one set. *)
Leading(S, n) == {G \in SUBSET S : /\ Cardinality(G) = n
                                   /\ \A g \in G, s \in S \ G : g < s}

Insert(f, k, v) == [j \in DOMAIN f \cup {k} |-> IF j = k THEN v ELSE f[j]]

PortOfAnother(i, p) == \E j \in Leased \ {i} : active[j].port = p
-----------------------------------------------------------------------------
(* `new` accepts unique nonzero ports and demands between 1 and the pool. *)
SchedInit ==
  /\ demand \in Workloads
  /\ maxParallel \in CapChoices
  /\ lanePort \in UNION {[1..k -> Ports] : k \in Devices}
  /\ \A l, m \in Lanes : lanePort[l] = lanePort[m] => l = m
  /\ pending = Trials
  /\ active = << >>

(* pending.remove(position) *)
Without(i) == pending \ {i}

(* `next`.  The demand leaves `pending` before a lane is looked up, and a  *)
(* failed lookup returns early: the demand would be lost.                  *)
Lease(i) ==
  /\ Cardinality(Leased) < Cap
  /\ FirstFit(i)
  /\ pending' = Without(i)
  /\ IF FreeLanes = {}
       THEN UNCHANGED active
       ELSE \E l \in FreeLanes, G \in Leading(FreeDevices, demand[i]) :
              /\ \A m \in FreeLanes : l <= m
              /\ active' = Insert(active, i, [gpus |-> G, lane |-> l, port |-> lanePort[l]])
  /\ UNCHANGED <<demand, maxParallel, lanePort>>

(* `release`; what it refuses, a trial without a lease, changes nothing:   *)
(* its caller sees to that.                                                *)
Release(i) ==
  /\ i \in Leased
  /\ active' = Restrict(active, Leased \ {i})
  /\ UNCHANGED <<demand, maxParallel, lanePort, pending>>

(* `update_host_port`, likewise *)
UpdateHostPort(i, p) ==
  /\ i \in Leased
  /\ ~PortOfAnother(i, p)
  /\ active' = [active EXCEPT ![i].port = p]
  /\ UNCHANGED <<demand, maxParallel, lanePort, pending>>

SchedNext == \E i \in Trials : \/ Lease(i)
                               \/ Release(i)
                               \/ \E p \in Ports : UpdateHostPort(i, p)

SchedSpec == SchedInit /\ [][SchedNext]_schedVars
-----------------------------------------------------------------------------
(* Every variable has its type; a leased trial is not pending. *)
SchedTypeOK ==
  /\ demand \in Seq(Devices)
  /\ maxParallel \in Nat \ {0}
  /\ lanePort \in Seq(Ports)
  /\ pending \subseteq Trials
  /\ Leased \subseteq Trials \ pending
  /\ active \in [Leased -> Allocation]

(* Two trials that hold leases at the same time share no GPU and no lane,  *)
(* whatever the order in which leases are given and returned.              *)
LeaseExclusive ==
  \A i, j \in Leased : i # j => /\ active[i].gpus \cap active[j].gpus = {}
                                /\ active[i].lane # active[j].lane

(* `next` never takes a trial off the pending list without leasing it: the *)
(* cap leaves a lane free whenever the lookup of a lane is reached.        *)
NoDemandLost == [][\A i \in pending \ pending' : i \in DOMAIN active']_schedVars

(* The scheduler is a GPU pool: whole requests, free GPUs only, once.      *)
Holder(d) == IF \E i \in Leased : d \in active[i].gpus
               THEN CHOOSE i \in Leased : d \in active[i].gpus
               ELSE 0

Pool == INSTANCE GpuPool WITH waiting <- pending,
                              owner <- [d \in Devices |-> Holder(d)]

(* The lease scheduler implements the abstract GPU pool. *)
ImplementsPool == Pool!Spec
=============================================================================
