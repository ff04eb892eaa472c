------------------------ MODULE ParallelSweepProofs ------------------------
(***************************************************************************)
(* Proofs about a sweep and its lease scheduler, for every number of       *)
(* trials, GPUs and ports, every demand vector and cap, and every          *)
(* combination of faults.                                                  *)
(*                                                                         *)
(* 1. The scheduler by itself: its types, the exclusivity of leases, that  *)
(*    a demand never disappears from the pending list unleased, and that   *)
(*    it implements the abstract GPU pool.                                 *)
(* 2. The sweep: no call of the coordinator is refused, a lease covers its *)
(*    worker until the worker's outcome is received, and hence no two      *)
(*    engines share a GPU unless a container could not be removed, and no  *)
(*    two unfinished trials share a port; the report is honest.            *)
(***************************************************************************)
EXTENDS ParallelSweep, FiniteSetTheorems, TLAPS

(* The inductive invariant: exclusivity needs the types and nothing else,  *)
(* and the other results follow from the two together.                     *)
SchedInv == SchedTypeOK /\ LeaseExclusive
-----------------------------------------------------------------------------
(* The sets whose sizes the scheduler compares are finite. *)
LEMMA FinitePools ==
  ASSUME SchedTypeOK
  PROVE  /\ IsFiniteSet(Devices)
         /\ IsFiniteSet(Trials)
         /\ IsFiniteSet(Leased)
         /\ IsFiniteSet(Lanes)
         /\ Cardinality(Lanes) = Len(lanePort)
         /\ Cardinality(Leased) \in Nat
         /\ Len(lanePort) \in Nat
<1>1. Devices = 1..NumGpus /\ NumGpus \in Nat
  BY SchedulerAssumption DEF Devices
<1>2. Trials = 1..Len(demand) /\ Len(demand) \in Nat
  BY DEF SchedTypeOK, Trials
<1>3. Lanes = 1..Len(lanePort) /\ Len(lanePort) \in Nat
  BY DEF SchedTypeOK, Lanes
<1>4. IsFiniteSet(Devices)
  BY <1>1, FS_Interval
<1>5. IsFiniteSet(Trials)
  BY <1>2, FS_Interval
<1>6. IsFiniteSet(Lanes) /\ Cardinality(Lanes) = Len(lanePort)
  <2>1. IsFiniteSet(1..Len(lanePort))
        /\ Cardinality(1..Len(lanePort)) = IF 1 > Len(lanePort) THEN 0 ELSE Len(lanePort) - 1 + 1
    BY <1>3, FS_Interval
  <2>2. QED BY <2>1, <1>3
<1>7. IsFiniteSet(Leased)
  <2>1. Leased \in SUBSET Trials
    BY DEF SchedTypeOK
  <2>2. QED BY <1>5, <2>1, FS_Subset
<1>8. Cardinality(Leased) \in Nat
  BY <1>7, FS_CardinalityType
<1>9. QED BY <1>3, <1>4, <1>5, <1>6, <1>7, <1>8

(* The cap never exceeds the number of lanes, so below the cap some lane   *)
(* is free: the early return of `next` after it has removed the demand     *)
(* (sweep.rs, the second `?`) is never taken.                              *)
LEMMA FreeLaneBelowCap ==
  ASSUME SchedTypeOK, Cardinality(Leased) < Cap
  PROVE  FreeLanes # {}
<1>1. SUFFICES ASSUME FreeLanes = {} PROVE FALSE
  OBVIOUS
<1> DEFINE laneOf == [i \in Leased |-> active[i].lane]
<1>2. \A i \in Leased : active[i].lane \in Lanes
  BY DEF SchedTypeOK, Allocation
<1>3. laneOf \in [Leased -> Lanes]
  BY <1>2
<1>4. \A l \in Lanes : \E i \in Leased : laneOf[i] = l
  BY <1>1 DEF FreeLanes
<1>5. laneOf \in Surjection(Leased, Lanes)
  BY <1>3, <1>4 DEF Surjection
<1>6. Cardinality(Lanes) <= Cardinality(Leased)
  <2>1. IsFiniteSet(Leased)
    BY FinitePools
  <2> HIDE DEF laneOf
  <2>2. QED BY <1>5, <2>1, FS_Surjection
<1>7. Cap <= Len(lanePort)
  <2>1. Len(lanePort) \in Nat /\ maxParallel \in Nat /\ NumGpus \in Nat
    BY SchedulerAssumption, FinitePools DEF SchedTypeOK
  <2>2. QED BY <2>1 DEF Cap, Smaller
<1>8. Len(lanePort) <= Cardinality(Leased) /\ Len(lanePort) \in Nat /\ Cardinality(Leased) \in Nat
  BY <1>6, FinitePools
<1>9. Cap \in Nat
  BY SchedulerAssumption, FinitePools DEF SchedTypeOK, Cap, Smaller
<1>10. QED BY <1>7, <1>8, <1>9
-----------------------------------------------------------------------------
(* What a successful `next` does, with the unreachable branch removed. *)
LEMMA LeaseEffect ==
  ASSUME SchedInv, NEW i \in Trials, Lease(i)
  PROVE  \E l \in FreeLanes, G \in SUBSET FreeDevices :
           /\ Cardinality(G) = demand[i]
           /\ active' = Insert(active, i, [gpus |-> G, lane |-> l, port |-> lanePort[l]])
<1>1. FreeLanes # {}
  BY FreeLaneBelowCap DEF SchedInv, Lease
<1>2. QED BY <1>1 DEF Lease, Leading

LEMMA SchedInitInv == SchedInit => SchedInv
<1>1. SUFFICES ASSUME SchedInit PROVE SchedInv
  OBVIOUS
<1>2. demand \in Seq(Devices)
  BY <1>1, SchedulerAssumption DEF SchedInit, Devices
<1>3. lanePort \in Seq(Ports)
  BY <1>1 DEF SchedInit, Devices
<1>4. maxParallel \in Nat \ {0}
  BY <1>1, SchedulerAssumption DEF SchedInit
<1>5. Leased = {}
  BY <1>1 DEF SchedInit, Leased
<1>6. active \in [Leased -> Allocation]
  BY <1>1, <1>5 DEF SchedInit, Leased
<1>7. QED
  BY <1>1, <1>2, <1>3, <1>4, <1>5, <1>6 DEF SchedInit, SchedInv, SchedTypeOK, LeaseExclusive

(* A new lease takes only GPUs and a lane that nobody holds. *)
LEMMA LeaseInv ==
  ASSUME SchedInv, NEW i \in Trials, Lease(i)
  PROVE  SchedInv'
<1>1. PICK l \in FreeLanes, G \in SUBSET FreeDevices :
        active' = Insert(active, i, [gpus |-> G, lane |-> l, port |-> lanePort[l]])
  BY LeaseEffect
<1>2. i \in pending /\ pending' = pending \ {i} /\ UNCHANGED <<demand, maxParallel, lanePort>>
  BY DEF Lease, FirstFit, Without
<1>3. Leased' = Leased \cup {i} /\ i \notin Leased
  BY <1>1, <1>2 DEF Leased, Insert, SchedInv, SchedTypeOK
<1>4. l \in Lanes /\ G \subseteq Devices /\ lanePort[l] \in Ports
  BY DEF FreeLanes, FreeDevices, SchedInv, SchedTypeOK, Lanes
<1>5. \A j \in Leased : active'[j] = active[j]
  BY <1>1, <1>3 DEF Leased, Insert
<1>6. active'[i] = [gpus |-> G, lane |-> l, port |-> lanePort[l]]
  BY <1>1 DEF Insert
<1>7. \A j \in Leased : active[j].gpus \cap G = {} /\ active[j].lane # l
  BY DEF FreeLanes, FreeDevices
<1>8. SchedTypeOK'
  <2>1. Allocation' = Allocation
    BY <1>2 DEF Allocation, Lanes
  <2>2. active'[i] \in Allocation
    BY <1>4, <1>6 DEF Allocation
  <2>3. \A j \in Leased' : active'[j] \in Allocation
    BY <1>3, <1>5, <2>2 DEF SchedInv, SchedTypeOK
  <2>4. active' \in [Leased' -> Allocation']
    <3>1. active' = [j \in Leased' |-> active'[j]]
      BY <1>1, <1>3 DEF Insert, Leased
    <3>2. QED BY <2>1, <2>3, <3>1
  <2>5. Trials' = Trials /\ pending' \subseteq Trials
    BY <1>2 DEF Trials, SchedInv, SchedTypeOK
  <2>6. Leased' \subseteq Trials' \ pending'
    BY <1>2, <1>3, <2>5 DEF SchedInv, SchedTypeOK
  <2>7. QED BY <1>2, <2>4, <2>5, <2>6 DEF SchedInv, SchedTypeOK
<1>9. LeaseExclusive'
  <2>1. SUFFICES ASSUME NEW j \in Leased', NEW k \in Leased', j # k
                 PROVE  /\ active'[j].gpus \cap active'[k].gpus = {}
                        /\ active'[j].lane # active'[k].lane
    BY DEF LeaseExclusive
  <2>2. CASE j = i
    BY <1>3, <1>5, <1>6, <1>7, <2>1, <2>2
  <2>3. CASE k = i
    BY <1>3, <1>5, <1>6, <1>7, <2>1, <2>3
  <2>4. CASE j # i /\ k # i
    BY <1>3, <1>5, <2>1, <2>4 DEF SchedInv, LeaseExclusive
  <2>5. QED BY <2>2, <2>3, <2>4
<1>10. QED BY <1>8, <1>9 DEF SchedInv

LEMMA ReleaseInv ==
  ASSUME SchedInv, NEW i \in Trials, Release(i)
  PROVE  SchedInv'
<1>1. active' = [j \in Leased \ {i} |-> active[j]]
  BY DEF Release, Restrict
<1>2. UNCHANGED <<demand, maxParallel, lanePort, pending>>
  BY DEF Release
<1>3. Leased' = Leased \ {i}
  BY <1>1 DEF Leased
<1>4. Allocation' = Allocation /\ Trials' = Trials
  BY <1>2 DEF Allocation, Lanes, Trials
<1>5. active' \in [Leased' -> Allocation']
  BY <1>1, <1>3, <1>4 DEF SchedInv, SchedTypeOK
<1>6. SchedTypeOK'
  BY <1>2, <1>3, <1>4, <1>5 DEF SchedInv, SchedTypeOK
<1>7. LeaseExclusive'
  BY <1>1, <1>3 DEF SchedInv, LeaseExclusive
<1>8. QED BY <1>6, <1>7 DEF SchedInv

LEMMA UpdateHostPortInv ==
  ASSUME SchedInv, NEW i \in Trials, NEW p \in Ports, UpdateHostPort(i, p)
  PROVE  SchedInv'
<1>1. active' = [active EXCEPT ![i].port = p] /\ i \in Leased
  BY DEF UpdateHostPort
<1>2. UNCHANGED <<demand, maxParallel, lanePort, pending>>
  BY DEF UpdateHostPort
<1>3. Leased' = Leased
  BY <1>1 DEF Leased
<1>4. Allocation' = Allocation /\ Trials' = Trials
  BY <1>2 DEF Allocation, Lanes, Trials
<1>5. active \in [Leased -> Allocation]
  BY DEF SchedInv, SchedTypeOK
<1>6. \A j \in Leased : /\ active'[j] \in Allocation
                        /\ active'[j].gpus = active[j].gpus
                        /\ active'[j].lane = active[j].lane
  BY <1>1, <1>5 DEF Allocation
<1>7. active' \in [Leased' -> Allocation']
  BY <1>1, <1>3, <1>4, <1>5, <1>6
<1>8. SchedTypeOK'
  BY <1>2, <1>3, <1>4, <1>7 DEF SchedInv, SchedTypeOK
<1>9. LeaseExclusive'
  BY <1>3, <1>6 DEF SchedInv, LeaseExclusive
<1>10. QED BY <1>8, <1>9 DEF SchedInv

(* Every step of the scheduler preserves the invariant. *)
LEMMA SchedStepInv == SchedInv /\ [SchedNext]_schedVars => SchedInv'
<1>1. SUFFICES ASSUME SchedInv, [SchedNext]_schedVars PROVE SchedInv'
  OBVIOUS
<1>2. CASE UNCHANGED schedVars
  BY <1>1, <1>2 DEF schedVars, SchedInv, SchedTypeOK, LeaseExclusive, Leased, Trials, Lanes, Allocation
<1>3. CASE SchedNext
  BY <1>1, <1>3, LeaseInv, ReleaseInv, UpdateHostPortInv DEF SchedNext
<1>4. QED BY <1>1, <1>2, <1>3

(* The type invariant and the exclusivity of leases hold in every reachable *)
(* state of the scheduler, for every pool, cap and demand vector.           *)
THEOREM SchedulerInvariant == SchedSpec => []SchedInv
<1>1. QED BY SchedInitInv, SchedStepInv, PTL DEF SchedSpec

(* Every variable of the scheduler keeps its type. *)
THEOREM SchedulerTypes == SchedSpec => []SchedTypeOK
<1>1. SchedInv => SchedTypeOK
  BY DEF SchedInv
<1>2. QED BY <1>1, SchedulerInvariant, PTL

(* No two trials ever hold a common GPU or lane: no GPU oversubscription by *)
(* the scheduler, whatever the order of leases and releases.                *)
THEOREM LeasesAreExclusive == SchedSpec => []LeaseExclusive
<1>1. SchedInv => LeaseExclusive
  BY DEF SchedInv
<1>2. QED BY <1>1, SchedulerInvariant, PTL
-----------------------------------------------------------------------------
LEMMA StepLosesNoDemand ==
  ASSUME SchedInv, SchedNext
  PROVE  \A i \in pending \ pending' : i \in DOMAIN active'
<1>1. SUFFICES ASSUME NEW i \in pending \ pending' PROVE i \in DOMAIN active'
  OBVIOUS
<1>2. PICK t \in Trials : Lease(t)
  BY <1>1 DEF SchedNext, Release, UpdateHostPort
<1>3. i = t
  BY <1>1, <1>2 DEF Lease, Without
<1>4. DOMAIN active' = DOMAIN active \cup {t}
  BY <1>2, LeaseEffect DEF Insert
<1>5. QED BY <1>3, <1>4

(* A demand leaves the pending list only by being leased: the scheduler     *)
(* cannot silently forget a trial of the sweep.                             *)
THEOREM DemandsAreNotLost == SchedSpec => NoDemandLost
<1>1. SchedInv /\ [SchedNext]_schedVars
        => [\A i \in pending \ pending' : i \in DOMAIN active']_schedVars
  BY StepLosesNoDemand
<1>2. QED BY <1>1, SchedulerInvariant, PTL DEF SchedSpec, NoDemandLost
-----------------------------------------------------------------------------
(* Refinement of the GPU pool.  Leases being exclusive, the holder of a GPU *)
(* is the one trial whose lease names it.                                   *)
HolderIsLeaser ==
  \A d \in Devices : /\ \A i \in Leased : Holder(d) = i <=> d \in active[i].gpus
                     /\ Holder(d) = 0 <=> d \in FreeDevices
                     /\ Holder(d) \in Leased \cup {0}

LEMMA HolderOfLease == SchedInv => HolderIsLeaser
<1> SUFFICES ASSUME SchedInv PROVE HolderIsLeaser
  OBVIOUS
<1>1. SUFFICES ASSUME NEW d \in Devices
               PROVE  /\ \A i \in Leased : Holder(d) = i <=> d \in active[i].gpus
                      /\ Holder(d) = 0 <=> d \in FreeDevices
                      /\ Holder(d) \in Leased \cup {0}
  BY DEF HolderIsLeaser
<1>2. \A i \in Leased : i # 0
  BY DEF SchedInv, SchedTypeOK, Trials
<1>3. CASE \E i \in Leased : d \in active[i].gpus
  <2>1. Holder(d) \in Leased /\ d \in active[Holder(d)].gpus
    BY <1>3 DEF Holder
  <2>2. \A i \in Leased : d \in active[i].gpus => i = Holder(d)
    BY <2>1 DEF SchedInv, LeaseExclusive
  <2>3. QED BY <1>2, <1>3, <2>1, <2>2 DEF FreeDevices
<1>4. CASE ~\E i \in Leased : d \in active[i].gpus
  BY <1>2, <1>4 DEF Holder, FreeDevices
<1>5. QED BY <1>3, <1>4

LEMMA HolderOfNextLease == SchedInv' => HolderIsLeaser'
  BY HolderOfLease, PTL

(* The two instances of the standard operator agree. *)
LEMMA SameCardinality == \A S : Pool!Cardinality(S) = Cardinality(S)
  BY DEF Pool!Cardinality, Cardinality

(* Initially nobody holds a GPU and every trial waits. *)
LEMMA PoolInit == SchedInit => Pool!Init
<1>1. SUFFICES ASSUME SchedInit PROVE Pool!Init
  OBVIOUS
<1>2. Leased = {}
  BY <1>1 DEF SchedInit, Leased
<1>3. \A d \in Devices : Holder(d) = 0
  BY <1>2 DEF Holder
<1>4. QED BY <1>1, <1>3 DEF SchedInit, Pool!Init, Pool!Gpus, Pool!Nobody, Devices, Trials

(* A lease grants whole requests out of free GPUs. *)
LEMMA LeaseGrants ==
  ASSUME SchedInv, NEW i \in Trials, Lease(i)
  PROVE  Pool!Grant(i)
<1>1. PICK l \in FreeLanes, G \in SUBSET FreeDevices :
        /\ Cardinality(G) = demand[i]
        /\ active' = Insert(active, i, [gpus |-> G, lane |-> l, port |-> lanePort[l]])
  BY LeaseEffect
<1>2. SchedInv'
  BY LeaseInv
<1>3. i \in pending /\ pending' = pending \ {i} /\ demand' = demand
  BY DEF Lease, FirstFit, Without
<1>4. Leased' = Leased \cup {i} /\ i \notin Leased
  BY <1>1, <1>3 DEF Leased, Insert, SchedInv, SchedTypeOK
<1>5. \A j \in Leased : active'[j] = active[j]
  BY <1>1, <1>4 DEF Leased, Insert
<1>6. active'[i].gpus = G
  BY <1>1 DEF Insert
<1>7. HolderIsLeaser /\ HolderIsLeaser'
  BY <1>2, HolderOfLease, HolderOfNextLease
<1>8. G \subseteq Devices /\ \A d \in G : Holder(d) = 0
  BY <1>7 DEF FreeDevices, HolderIsLeaser
<1>9. \A d \in Devices : Holder(d)' = IF d \in G THEN i ELSE Holder(d)
  <2> SUFFICES ASSUME NEW d \in Devices PROVE Holder(d)' = IF d \in G THEN i ELSE Holder(d)
    OBVIOUS
  <2>1. Devices' = Devices
    BY DEF Devices
  <2>2. CASE d \in G
    BY <1>4, <1>6, <1>7, <2>1, <2>2 DEF HolderIsLeaser
  <2>3. CASE d \notin G /\ Holder(d) \in Leased
    BY <1>4, <1>5, <1>7, <2>1, <2>3 DEF HolderIsLeaser
  <2>4. CASE d \notin G /\ Holder(d) = 0
    <3>1. \A j \in Leased' : d \notin active'[j].gpus
      BY <1>4, <1>5, <1>6, <1>7, <2>4 DEF HolderIsLeaser, FreeDevices
    <3>2. Holder(d)' \in Leased' => FALSE
      BY <1>7, <2>1, <3>1 DEF HolderIsLeaser
    <3>3. QED BY <1>7, <2>1, <2>4, <3>2 DEF HolderIsLeaser
  <2>5. QED BY <1>7, <2>2, <2>3, <2>4 DEF HolderIsLeaser
<1>10. G \in SUBSET {d \in Pool!Gpus : [e \in Devices |-> Holder(e)][d] = Pool!Nobody}
  BY <1>8 DEF Pool!Gpus, Pool!Nobody, Devices
<1>11. [d \in Devices |-> Holder(d)]'
        = [d \in Pool!Gpus |-> IF d \in G THEN i ELSE [e \in Devices |-> Holder(e)][d]]
  BY <1>9 DEF Pool!Gpus, Devices
<1>12. \E H \in SUBSET {d \in Pool!Gpus : [e \in Devices |-> Holder(e)][d] = Pool!Nobody} :
         /\ Cardinality(H) = demand[i]
         /\ [d \in Devices |-> Holder(d)]'
              = [d \in Pool!Gpus |-> IF d \in H THEN i ELSE [e \in Devices |-> Holder(e)][d]]
  BY <1>1, <1>10, <1>11, Zenon
<1>13. QED BY <1>3, <1>12, SameCardinality DEF Pool!Grant

(* A release gives back everything the trial held, and nothing else. *)
LEMMA ReleaseReturns ==
  ASSUME SchedInv, NEW i \in Trials, Release(i)
  PROVE  Pool!Return(i)
<1>1. active' = [j \in Leased \ {i} |-> active[j]] /\ i \in Leased
  BY DEF Release, Restrict
<1>2. Leased' = Leased \ {i}
  BY <1>1 DEF Leased
<1>3. UNCHANGED <<demand, pending>>
  BY DEF Release
<1>4. i \notin pending
  BY <1>1 DEF SchedInv, SchedTypeOK
<1>5. HolderIsLeaser /\ HolderIsLeaser'
  BY ReleaseInv, HolderOfLease, HolderOfNextLease
<1>6. i # 0
  BY DEF SchedInv, SchedTypeOK, Trials
<1>7. \A d \in Devices : Holder(d)' = IF Holder(d) = i THEN 0 ELSE Holder(d)
  <2> SUFFICES ASSUME NEW d \in Devices PROVE Holder(d)' = IF Holder(d) = i THEN 0 ELSE Holder(d)
    OBVIOUS
  <2>1. Devices' = Devices
    BY DEF Devices
  <2>2. CASE Holder(d) \in Leased \ {i}
    BY <1>1, <1>2, <1>5, <2>1, <2>2 DEF HolderIsLeaser
  <2>3. CASE Holder(d) \in {0, i}
    <3>1. \A j \in Leased' : d \notin active'[j].gpus
      BY <1>1, <1>2, <1>5, <1>6, <2>3 DEF HolderIsLeaser, FreeDevices
    <3>2. Holder(d)' \in Leased' => FALSE
      BY <1>5, <2>1, <3>1 DEF HolderIsLeaser
    <3>3. Holder(d)' = 0
      BY <1>5, <2>1, <3>2 DEF HolderIsLeaser
    <3>4. QED BY <2>3, <3>3
  <2>4. QED BY <1>5, <2>2, <2>3 DEF HolderIsLeaser
<1>8. [d \in Devices |-> Holder(d)]'
        = [d \in Pool!Gpus |-> IF [e \in Devices |-> Holder(e)][d] = i
                              THEN Pool!Nobody ELSE [e \in Devices |-> Holder(e)][d]]
  BY <1>7 DEF Pool!Gpus, Pool!Nobody, Devices
<1>9. QED BY <1>3, <1>4, <1>8 DEF Pool!Return

(* A change of port is invisible to the pool. *)
LEMMA UpdateHostPortStutters ==
  ASSUME SchedInv, NEW i \in Trials, NEW p \in Ports, UpdateHostPort(i, p)
  PROVE  UNCHANGED Pool!poolVars
<1>1. active' = [active EXCEPT ![i].port = p] /\ i \in Leased
  BY DEF UpdateHostPort
<1>2. UNCHANGED <<demand, pending>>
  BY DEF UpdateHostPort
<1>3. Leased' = Leased /\ \A j \in Leased : active'[j].gpus = active[j].gpus
  BY <1>1 DEF Leased, SchedInv, SchedTypeOK, Allocation
<1>4. HolderIsLeaser /\ HolderIsLeaser'
  BY UpdateHostPortInv, HolderOfLease, HolderOfNextLease
<1>5. \A d \in Devices : Holder(d)' = Holder(d)
  <2> SUFFICES ASSUME NEW d \in Devices PROVE Holder(d)' = Holder(d)
    OBVIOUS
  <2>1. Devices' = Devices
    BY DEF Devices
  <2>2. CASE Holder(d) \in Leased
    BY <1>3, <1>4, <2>1, <2>2 DEF HolderIsLeaser
  <2>3. CASE Holder(d) = 0
    <3>1. \A j \in Leased' : d \notin active'[j].gpus
      BY <1>3, <1>4, <2>3 DEF HolderIsLeaser, FreeDevices
    <3>2. QED BY <1>4, <2>1, <2>3, <3>1 DEF HolderIsLeaser
  <2>4. QED BY <1>4, <2>2, <2>3 DEF HolderIsLeaser
<1>6. [d \in Devices |-> Holder(d)]' = [d \in Devices |-> Holder(d)]
  BY <1>5 DEF Devices
<1>7. QED BY <1>2, <1>6 DEF Pool!poolVars

LEMMA PoolStep == SchedInv /\ [SchedNext]_schedVars => [Pool!Next]_(Pool!poolVars)
<1>1. SUFFICES ASSUME SchedInv, [SchedNext]_schedVars
               PROVE  [Pool!Next]_(Pool!poolVars)
  OBVIOUS
<1>2. CASE UNCHANGED schedVars
  BY <1>2 DEF schedVars, Pool!poolVars, Holder, Leased, Devices
<1>3. ASSUME NEW i \in Trials, Lease(i) PROVE Pool!Next
  BY <1>1, <1>3, LeaseGrants DEF Pool!Next, Trials
<1>4. ASSUME NEW i \in Trials, Release(i) PROVE Pool!Next
  BY <1>1, <1>4, ReleaseReturns DEF Pool!Next, Trials
<1>5. ASSUME NEW i \in Trials, NEW p \in Ports, UpdateHostPort(i, p)
      PROVE  UNCHANGED Pool!poolVars
  BY <1>1, <1>5, UpdateHostPortStutters
<1>6. QED BY <1>1, <1>2, <1>3, <1>4, <1>5 DEF SchedNext

(* The lease scheduler implements the GPU pool: trials are granted whole    *)
(* requests, only out of GPUs that are free, at most once, and give them    *)
(* all back.                                                                *)
THEOREM SchedulerImplementsPool == SchedSpec => ImplementsPool
<1>1. QED BY PoolInit, PoolStep, SchedulerInvariant, PTL DEF SchedSpec, ImplementsPool, Pool!Spec
-----------------------------------------------------------------------------
(* The steps of a sweep in which the scheduler refuses nothing and no       *)
(* trial's work is gone: the only steps a sweep takes (SoundStep below).    *)
Spawns ==
  /\ pc = "reserve"
  /\ \E p \in Leading(Reservable(turn), 1) : \E port \in p :
       /\ UpdateHostPort(turn, port)
       /\ given' = Insert(given, turn, [active[turn] EXCEPT !.port = port])
  /\ worker' = [worker EXCEPT ![turn] = "reserved"]
  /\ pc' = "dispatch" /\ turn' = 0
  /\ UNCHANGED <<error, workersCancelled, commitVars, orphans,
                 operatorCancelled, channel, foreign>>

GivesUp ==
  /\ pc = "reserve"
  /\ Release(turn)
  /\ Abort
  /\ pc' = "await" /\ turn' = 0
  /\ UNCHANGED <<commitVars, workerVars, operatorCancelled, channel, foreign>>

Receives ==
  /\ pc = "await"
  /\ Leased # {} /\ channel # << >>
  /\ channel' = Tail(channel)
  /\ LET i == Head(channel)
     IN  /\ Release(i)
         /\ \/ /\ Draining
               /\ pc' = "top"
               /\ UNCHANGED <<error, workersCancelled, announced, completed>>
            \/ /\ ~Draining
               /\ Abort
               /\ pc' = "top"
               /\ UNCHANGED <<announced, completed>>
            \/ /\ ~Draining
               /\ announced' = announced \cup {i}
               /\ completed' = completed \cup {i}
               /\ pc' = "commit"
               /\ UNCHANGED <<error, workersCancelled>>
  /\ UNCHANGED <<turn, nextCommit, report, saved, workerVars, operatorCancelled, foreign>>

SoundCoordinator ==
  \/ LoopHead \/ (\E i \in Trials : DispatchLease(i)) \/ NothingToDispatch
  \/ Spawns \/ GivesUp \/ LoopBreak \/ ReceiveTimeout \/ Receives
  \/ Commit \/ CommitDone \/ Return

SoundNext == \/ SoundCoordinator
             \/ \E i \in Trials : Worker(i)
             \/ OperatorCancels
             \/ ForeignPorts

(* The steps of a sweep, seen by the scheduler. *)
LEMMA StepOfScheduler ==
  ASSUME SchedInv, [SoundNext]_sweepVars
  PROVE  [SchedNext]_schedVars
<1>1. CASE UNCHANGED sweepVars
  BY <1>1 DEF sweepVars
<1>2. ASSUME NEW i \in Trials, DispatchLease(i) PROVE SchedNext
  BY <1>2 DEF DispatchLease, SchedNext
<1>3. CASE Spawns
  <2>1. PICK port \in Ports : UpdateHostPort(turn, port)
    BY <1>3 DEF Spawns, Leading, Reservable
  <2>2. turn \in Trials
    BY <2>1 DEF UpdateHostPort, SchedInv, SchedTypeOK
  <2>3. QED BY <2>1, <2>2 DEF SchedNext
<1>4. ASSUME NEW i, Release(i) PROVE SchedNext
  <2>1. i \in Trials
    BY <1>4 DEF Release, SchedInv, SchedTypeOK
  <2>2. QED BY <1>4, <2>1 DEF SchedNext
<1>5. CASE GivesUp
  BY <1>4, <1>5 DEF GivesUp
<1>6. CASE Receives
  BY <1>4, <1>6 DEF Receives
<1>7. CASE LoopHead \/ NothingToDispatch \/ LoopBreak \/ ReceiveTimeout \/ Commit \/ CommitDone \/ Return
  BY <1>7 DEF LoopHead, NothingToDispatch, LoopBreak, ReceiveTimeout, Commit, CommitDone, Return
<1>8. ASSUME NEW i \in Trials, Worker(i) PROVE UNCHANGED schedVars
  BY <1>8 DEF Worker, LoadEngine, EngineReady, Conclude, ConcludeOrphaned, Finish, UnchangedByWorkers
<1>9. CASE OperatorCancels \/ ForeignPorts
  BY <1>9 DEF OperatorCancels, ForeignPorts
<1>10. QED
  BY <1>1, <1>2, <1>3, <1>5, <1>6, <1>7, <1>8, <1>9 DEF SoundNext, SoundCoordinator

-----------------------------------------------------------------------------
(* The inductive invariant: what is dispatched is leased and has no worker  *)
(* yet; what is pending has none either; what runs or has an unread outcome *)
(* holds the lease it was given; no outcome is sent twice; and spawned      *)
(* leaseholders have ports of their own.                                    *)
WorkerTypes ==
  /\ worker \in [Trials -> {"unspawned"} \cup Running \cup Outcomes]
  /\ DOMAIN given = {i \in Trials : worker[i] # "unspawned"}
  /\ channel \in Seq(Trials)

Dispatching ==
  /\ pc = "reserve" => turn \in Leased /\ worker[turn] = "unspawned"
  /\ \A i \in pending : worker[i] = "unspawned"

RunningCovered == \A i \in RunningTrials : i \in Leased /\ active[i] = given[i]

UnreadCovered ==
  \A k \in DOMAIN channel : /\ channel[k] \in Leased
                            /\ active[channel[k]] = given[channel[k]]
                            /\ worker[channel[k]] \in Outcomes

SentOnce == \A k, m \in DOMAIN channel : channel[k] = channel[m] => k = m

PortsApart ==
  \A i, j \in Leased :
    /\ i # j
    /\ worker[i] # "unspawned" /\ worker[j] # "unspawned"
    => active[i].port # active[j].port

SweepInv == /\ SchedInv /\ WorkerTypes /\ Dispatching
            /\ RunningCovered /\ UnreadCovered /\ SentOnce /\ PortsApart

LEMMA SweepInitInv == SweepInit => SweepInv
<1>1. SUFFICES ASSUME SweepInit PROVE SweepInv
  OBVIOUS
<1>2. SchedInv
  BY <1>1, SchedInitInv DEF SweepInit
<1>3. WorkerTypes
  BY <1>1 DEF SweepInit, WorkerTypes
<1>4. Dispatching
  BY <1>1 DEF SweepInit, SchedInit, Dispatching
<1>5. RunningTrials = {}
  BY <1>1 DEF SweepInit, RunningTrials, Running
<1>6. Leased = {}
  BY <1>1 DEF SweepInit, SchedInit, Leased
<1>7. QED
  BY <1>1, <1>2, <1>3, <1>4, <1>5, <1>6
  DEF SweepInit, SweepInv, RunningCovered, UnreadCovered, SentOnce, PortsApart

(* Steps that touch neither leases, workers nor the channel. *)
LEMMA QuietStep ==
  ASSUME SweepInv, UNCHANGED <<schedVars, worker, given, channel>>,
         pc' # "reserve" \/ UNCHANGED <<pc, turn>>
  PROVE  SweepInv'
<1>1. SchedInv'
  BY SchedStepInv DEF SweepInv
<1>2. Trials' = Trials /\ Leased' = Leased /\ RunningTrials' = RunningTrials
  BY DEF schedVars, Trials, Leased, RunningTrials
<1>3. WorkerTypes'
  BY <1>2 DEF SweepInv, WorkerTypes
<1>4. Dispatching'
  BY <1>2 DEF SweepInv, Dispatching, schedVars
<1>5. RunningCovered' /\ UnreadCovered' /\ SentOnce' /\ PortsApart'
  BY <1>2 DEF SweepInv, RunningCovered, UnreadCovered, SentOnce, PortsApart, schedVars
<1>6. QED BY <1>1, <1>3, <1>4, <1>5 DEF SweepInv

(* A newly leased trial was pending, so it has no worker. *)
LEMMA DispatchLeaseInv ==
  ASSUME SweepInv, NEW i \in Trials, DispatchLease(i)
  PROVE  SweepInv'
<1>1. SchedInv /\ Lease(i)
  BY DEF SweepInv, DispatchLease
<1>2. SchedInv'
  BY <1>1, LeaseInv
<1>3. UNCHANGED <<worker, given, channel, demand>>
  BY DEF DispatchLease, workerVars, Lease
<1>4. i \in pending /\ pending' = pending \ {i} /\ worker[i] = "unspawned" /\ i \notin Leased
  BY <1>1 DEF Lease, FirstFit, Without, SweepInv, Dispatching, SchedInv, SchedTypeOK
<1>5. PICK a : active' = Insert(active, i, a)
  BY <1>1, LeaseEffect
<1>6. /\ DOMAIN active' = DOMAIN active \cup {i}
      /\ \A j \in Leased : active'[j] = active[j]
  BY <1>4, <1>5 DEF Insert, Leased
<1>7. Leased' = Leased \cup {i}
  BY <1>6 DEF Leased
<1>8. Trials' = Trials /\ RunningTrials' = RunningTrials
  BY <1>3 DEF Trials, RunningTrials
<1>9. WorkerTypes'
  BY <1>3, <1>8 DEF SweepInv, WorkerTypes
<1>10. Dispatching'
  <2>1. pc' = "reserve" /\ turn' = i
    BY <1>6 DEF DispatchLease
  <2>2. QED BY <1>3, <1>4, <1>7, <2>1 DEF SweepInv, Dispatching
<1>11. RunningCovered'
  BY <1>3, <1>6, <1>7, <1>8 DEF SweepInv, RunningCovered
<1>12. UnreadCovered' /\ SentOnce'
  BY <1>3, <1>6, <1>7 DEF SweepInv, UnreadCovered, SentOnce
<1>13. PortsApart'
  BY <1>3, <1>4, <1>6, <1>7 DEF SweepInv, PortsApart
<1>14. QED BY <1>2, <1>9, <1>10, <1>11, <1>12, <1>13 DEF SweepInv

(* The worker starts with the allocation the lease has just been given, on  *)
(* a port no other leaseholder has.                                         *)
LEMMA SpawnInv ==
  ASSUME SweepInv, Spawns
  PROVE  SweepInv'
<1>1. PICK port \in Ports : /\ port \in Reservable(turn)
                            /\ UpdateHostPort(turn, port)
                            /\ given' = Insert(given, turn, [active[turn] EXCEPT !.port = port])
  BY DEF Spawns, Leading, Reservable
<1>2. /\ turn \in Leased /\ turn \in Trials
      /\ worker[turn] = "unspawned"
      /\ turn \notin pending
  BY DEF Spawns, SweepInv, Dispatching, SchedInv, SchedTypeOK
<1>3. SchedInv'
  BY <1>1, <1>2, UpdateHostPortInv DEF SweepInv
<1>4. /\ active' = [active EXCEPT ![turn].port = port]
      /\ UNCHANGED <<demand, pending>>
  BY <1>1 DEF UpdateHostPort
<1>5. /\ worker' = [worker EXCEPT ![turn] = "reserved"]
      /\ pc' = "dispatch"
      /\ UNCHANGED channel
  BY DEF Spawns
<1>6. Leased' = Leased /\ Trials' = Trials
  BY <1>4 DEF Leased, Trials
<1>7. active \in [Leased -> Allocation] /\ worker \in [Trials -> {"unspawned"} \cup Running \cup Outcomes]
  BY DEF SweepInv, SchedInv, SchedTypeOK, WorkerTypes
<1>8. /\ active'[turn] = [active[turn] EXCEPT !.port = port]
      /\ active'[turn].port = port
      /\ \A j \in Leased \ {turn} : active'[j] = active[j]
  BY <1>2, <1>4, <1>7 DEF Leased, Allocation
<1>9. /\ worker'[turn] = "reserved"
      /\ \A j \in Trials \ {turn} : worker'[j] = worker[j]
  BY <1>2, <1>5, <1>7
<1>10. /\ given'[turn] = active'[turn]
       /\ \A j \in DOMAIN given : j # turn => given'[j] = given[j]
       /\ DOMAIN given' = DOMAIN given \cup {turn}
  BY <1>1, <1>8 DEF Insert
<1>11. WorkerTypes'
  <2>1. worker' \in [Trials' -> {"unspawned"} \cup Running \cup Outcomes]
    BY <1>5, <1>6, <1>7 DEF Running
  <2>2. DOMAIN given' = {i \in Trials' : worker'[i] # "unspawned"}
    BY <1>2, <1>6, <1>9, <1>10 DEF SweepInv, WorkerTypes
  <2>3. QED BY <1>5, <1>6, <2>1, <2>2 DEF SweepInv, WorkerTypes
<1>12. Dispatching'
  BY <1>2, <1>4, <1>5, <1>9 DEF SweepInv, Dispatching, SchedInv, SchedTypeOK
<1>13. RunningCovered'
  <2>1. SUFFICES ASSUME NEW j \in RunningTrials'
                 PROVE  j \in Leased' /\ active'[j] = given'[j]
    BY DEF RunningCovered
  <2>2. CASE j = turn
    BY <1>2, <1>6, <1>10, <2>2
  <2>3. CASE j # turn
    <3>1. j \in RunningTrials
      BY <1>6, <1>9, <2>3 DEF RunningTrials
    <3>2. j \in Leased /\ active[j] = given[j] /\ j \in DOMAIN given
      BY <3>1 DEF SweepInv, RunningCovered, WorkerTypes, RunningTrials, Running
    <3>3. QED BY <1>6, <1>8, <1>10, <2>3, <3>2
  <2>4. QED BY <2>2, <2>3
<1>14. UnreadCovered'
  <2>1. SUFFICES ASSUME NEW k \in DOMAIN channel
                 PROVE  /\ channel[k] \in Leased'
                        /\ active'[channel[k]] = given'[channel[k]]
                        /\ worker'[channel[k]] \in Outcomes
    BY <1>5 DEF UnreadCovered
  <2>2. /\ channel[k] \in Leased /\ channel[k] \in Trials
        /\ active[channel[k]] = given[channel[k]]
        /\ worker[channel[k]] \in Outcomes
    BY DEF SweepInv, UnreadCovered, SchedInv, SchedTypeOK
  <2>3. channel[k] # turn /\ channel[k] \in DOMAIN given
    BY <1>2, <2>2 DEF Outcomes, SweepInv, WorkerTypes
  <2>4. QED BY <1>6, <1>8, <1>9, <1>10, <2>2, <2>3
<1>15. SentOnce'
  BY <1>5 DEF SweepInv, SentOnce
<1>16. PortsApart'
  <2>1. \A j \in Leased \ {turn} : active[j].port # port
    BY <1>1 DEF Reservable, PortOfAnother
  <2>2. \A j \in Leased : j \in Trials
    BY DEF SweepInv, SchedInv, SchedTypeOK
  <2>3. SUFFICES ASSUME NEW j \in Leased, NEW k \in Leased, j # k,
                        worker'[j] # "unspawned", worker'[k] # "unspawned"
                 PROVE  active'[j].port # active'[k].port
    BY <1>6 DEF PortsApart
  <2>4. CASE j = turn
    BY <1>8, <2>1, <2>3, <2>4
  <2>5. CASE k = turn
    BY <1>8, <2>1, <2>3, <2>5
  <2>6. CASE j # turn /\ k # turn
    <3>1. worker[j] # "unspawned" /\ worker[k] # "unspawned"
      BY <1>9, <2>2, <2>3, <2>6
    <3>2. active[j].port # active[k].port
      BY <2>3, <3>1 DEF SweepInv, PortsApart
    <3>3. QED BY <1>8, <2>6, <3>2
  <2>7. QED BY <2>4, <2>5, <2>6
<1>17. QED BY <1>3, <1>11, <1>12, <1>13, <1>14, <1>15, <1>16 DEF SweepInv
(* A lease may end once its trial neither runs nor has an unread outcome. *)
LEMMA ReleaseKeepsInv ==
  ASSUME SweepInv, NEW i \in Leased, Release(i),
         UNCHANGED <<worker, given>>,
         pc' # "reserve",
         i \notin RunningTrials,
         channel' \in Seq(Trials),
         \A k \in DOMAIN channel' : channel'[k] \in Range(channel) \ {i},
         SentOnce'
  PROVE  SweepInv'
<1>1. i \in Trials
  BY DEF SweepInv, SchedInv, SchedTypeOK
<1>2. SchedInv'
  BY <1>1, ReleaseInv DEF SweepInv
<1>3. /\ active' = [j \in Leased \ {i} |-> active[j]]
      /\ UNCHANGED <<demand, pending>>
  BY DEF Release, Restrict
<1>4. Leased' = Leased \ {i} /\ Trials' = Trials
  BY <1>3 DEF Leased, Trials
<1>5. RunningTrials' = RunningTrials
  BY <1>4 DEF RunningTrials
<1>6. WorkerTypes'
  BY <1>4 DEF SweepInv, WorkerTypes
<1>7. Dispatching'
  BY <1>3 DEF SweepInv, Dispatching
<1>8. RunningCovered'
  BY <1>3, <1>4, <1>5 DEF SweepInv, RunningCovered
<1>9. UnreadCovered'
  <2>1. SUFFICES ASSUME NEW k \in DOMAIN channel'
                 PROVE  /\ channel'[k] \in Leased'
                        /\ active'[channel'[k]] = given'[channel'[k]]
                        /\ worker'[channel'[k]] \in Outcomes
    BY DEF UnreadCovered
  <2>2. PICK m \in DOMAIN channel : channel'[k] = channel[m]
    BY DEF Range
  <2>3. QED BY <1>3, <1>4, <2>2 DEF SweepInv, UnreadCovered
<1>10. PortsApart'
  BY <1>3, <1>4 DEF SweepInv, PortsApart
<1>11. QED BY <1>2, <1>6, <1>7, <1>8, <1>9, <1>10 DEF SweepInv

(* A trial whose dispatch fails gives its lease back without having run. *)
LEMMA DispatchFailsInv ==
  ASSUME SweepInv, GivesUp
  PROVE  SweepInv'
<1>1. /\ turn \in Leased /\ worker[turn] = "unspawned"
      /\ Release(turn) /\ pc' = "await"
      /\ UNCHANGED <<worker, given, channel>>
  BY DEF GivesUp, workerVars, SweepInv, Dispatching
<1>2. turn \notin RunningTrials
  BY <1>1 DEF RunningTrials, Running
<1>3. \A k \in DOMAIN channel' : channel'[k] \in Range(channel) \ {turn}
  BY <1>1 DEF Range, SweepInv, UnreadCovered, Outcomes
<1>4. channel' \in Seq(Trials) /\ SentOnce'
  BY <1>1 DEF SweepInv, WorkerTypes, SentOnce
<1>5. QED BY <1>1, <1>2, <1>3, <1>4, ReleaseKeepsInv

(* A received outcome is the only one of its trial. *)
LEMMA ReceiveInv ==
  ASSUME SweepInv, Receives
  PROVE  SweepInv'
<1> DEFINE i == Head(channel)
<1>1. /\ channel # << >> /\ channel' = Tail(channel)
      /\ Release(i) /\ UNCHANGED <<worker, given>>
      /\ pc' # "reserve"
  BY DEF Receives, workerVars
<1>2. channel \in Seq(Trials)
  BY DEF SweepInv, WorkerTypes
<1>3. /\ 1 \in DOMAIN channel /\ i = channel[1]
      /\ channel' \in Seq(Trials)
      /\ \A k \in DOMAIN channel' : k + 1 \in DOMAIN channel /\ k \in Nat \ {0}
                                   /\ channel'[k] = channel[k + 1]
  BY <1>1, <1>2
<1>4. i \in Leased /\ i \notin RunningTrials
  BY <1>3 DEF SweepInv, UnreadCovered, RunningTrials, Running, Outcomes
<1>5. \A k \in DOMAIN channel' : channel'[k] \in Range(channel) \ {i}
  <2>1. SUFFICES ASSUME NEW k \in DOMAIN channel' PROVE channel'[k] \in Range(channel) \ {i}
    OBVIOUS
  <2>2. channel[k + 1] # channel[1]
    BY <1>3 DEF SweepInv, SentOnce
  <2>3. QED BY <1>3, <2>2 DEF Range
<1>6. SentOnce'
  BY <1>3 DEF SweepInv, SentOnce
<1> HIDE DEF i
<1>7. QED BY <1>1, <1>3, <1>4, <1>5, <1>6, ReleaseKeepsInv
-----------------------------------------------------------------------------
(* The workers.  A step of a worker leaves the leases alone. *)
LEMMA WorkerMovesInv ==
  ASSUME SweepInv, NEW i \in RunningTrials, NEW state \in Running,
         worker' = [worker EXCEPT ![i] = state],
         UNCHANGED <<schedVars, pc, turn, given, channel>>
  PROVE  SweepInv'
<1>1. SchedInv'
  BY SchedStepInv DEF SweepInv
<1>2. /\ Trials' = Trials /\ Leased' = Leased
      /\ UNCHANGED <<active, pending, demand>>
  BY DEF schedVars, Trials, Leased
<1>3. worker \in [Trials -> {"unspawned"} \cup Running \cup Outcomes] /\ i \in Trials
  BY DEF SweepInv, WorkerTypes, RunningTrials
<1>4. /\ worker'[i] = state /\ worker[i] \in Running
      /\ \A j \in Trials \ {i} : worker'[j] = worker[j]
  BY <1>3 DEF RunningTrials
<1>5. state # "unspawned" /\ worker[i] # "unspawned" /\ worker[i] \notin Outcomes
  BY <1>4 DEF Running, Outcomes
<1>6. WorkerTypes'
  BY <1>2, <1>3, <1>4, <1>5 DEF SweepInv, WorkerTypes
<1>7. Dispatching'
  <2>1. Leased \subseteq Trials /\ pending \subseteq Trials
    BY DEF SweepInv, SchedInv, SchedTypeOK
  <2>2. QED BY <1>2, <1>4, <1>5, <2>1 DEF SweepInv, Dispatching
<1>8. RunningTrials' = RunningTrials
  BY <1>2, <1>3, <1>4 DEF RunningTrials
<1>9. RunningCovered'
  BY <1>2, <1>8 DEF SweepInv, RunningCovered
<1>10. UnreadCovered'
  <2>1. \A k \in DOMAIN channel : channel[k] \in Trials /\ channel[k] # i
    BY <1>5 DEF SweepInv, WorkerTypes, UnreadCovered
  <2>2. QED BY <1>2, <1>4, <2>1 DEF SweepInv, UnreadCovered
<1>11. SentOnce'
  BY DEF SweepInv, SentOnce
<1>12. PortsApart'
  <2>1. Leased \subseteq Trials
    BY DEF SweepInv, SchedInv, SchedTypeOK
  <2>2. QED BY <1>2, <1>4, <1>5, <2>1 DEF SweepInv, PortsApart
<1>13. QED BY <1>1, <1>6, <1>7, <1>9, <1>10, <1>11, <1>12 DEF SweepInv

LEMMA WorkerFinishesInv ==
  ASSUME SweepInv, NEW i \in RunningTrials, NEW outcome \in Outcomes, Finish(i, outcome)
  PROVE  SweepInv'
<1>1. /\ worker' = [worker EXCEPT ![i] = outcome]
      /\ channel' = Append(channel, i)
      /\ UNCHANGED <<schedVars, pc, turn, given>>
  BY DEF Finish, UnchangedByWorkers, coordinatorVars
<1>2. SchedInv'
  BY <1>1, SchedStepInv DEF SweepInv
<1>3. /\ Trials' = Trials /\ Leased' = Leased
      /\ UNCHANGED <<active, pending, demand>>
  BY <1>1 DEF schedVars, Trials, Leased
<1>4. /\ worker \in [Trials -> {"unspawned"} \cup Running \cup Outcomes]
      /\ i \in Trials /\ channel \in Seq(Trials)
  BY DEF SweepInv, WorkerTypes, RunningTrials
<1>5. /\ worker'[i] = outcome /\ worker[i] \in Running
      /\ \A j \in Trials \ {i} : worker'[j] = worker[j]
  BY <1>1, <1>4 DEF RunningTrials
<1>6. outcome # "unspawned" /\ worker[i] # "unspawned" /\ outcome \notin Running
  BY <1>5 DEF Running, Outcomes
<1>7. /\ channel' \in Seq(Trials)
      /\ DOMAIN channel' = 1..Len(channel) + 1 /\ DOMAIN channel = 1..Len(channel)
      /\ Len(channel) \in Nat
      /\ channel'[Len(channel) + 1] = i
      /\ \A k \in DOMAIN channel : channel'[k] = channel[k]
  BY <1>1, <1>4
<1>8. \A k \in DOMAIN channel : channel[k] \in Trials /\ channel[k] # i
  <2>1. worker[i] \notin Outcomes
    BY <1>5 DEF Running, Outcomes
  <2>2. QED BY <1>4, <2>1 DEF SweepInv, UnreadCovered
<1>9. WorkerTypes'
  BY <1>1, <1>3, <1>4, <1>5, <1>6, <1>7 DEF SweepInv, WorkerTypes
<1>10. Leased \subseteq Trials /\ pending \subseteq Trials
  BY DEF SweepInv, SchedInv, SchedTypeOK
<1>11. Dispatching'
  BY <1>1, <1>3, <1>5, <1>6, <1>10 DEF SweepInv, Dispatching
<1>12. RunningTrials' = RunningTrials \ {i}
  BY <1>3, <1>4, <1>5, <1>6 DEF RunningTrials
<1>13. RunningCovered'
  BY <1>1, <1>3, <1>12 DEF SweepInv, RunningCovered
<1>14. UnreadCovered'
  <2>1. SUFFICES ASSUME NEW k \in DOMAIN channel'
                 PROVE  /\ channel'[k] \in Leased
                        /\ active[channel'[k]] = given[channel'[k]]
                        /\ worker'[channel'[k]] \in Outcomes
    BY <1>1, <1>3 DEF UnreadCovered
  <2>2. CASE k = Len(channel) + 1
    BY <1>5, <1>7, <2>2 DEF SweepInv, RunningCovered
  <2>3. CASE k \in DOMAIN channel
    BY <1>5, <1>7, <1>8, <2>3 DEF SweepInv, UnreadCovered
  <2>4. QED BY <1>7, <2>2, <2>3
<1>15. SentOnce'
  <2>1. SUFFICES ASSUME NEW k \in DOMAIN channel', NEW m \in DOMAIN channel',
                        channel'[k] = channel'[m]
                 PROVE  k = m
    BY DEF SentOnce
  <2>2. CASE k \in DOMAIN channel /\ m \in DOMAIN channel
    BY <1>7, <2>1, <2>2 DEF SweepInv, SentOnce
  <2>3. CASE k = Len(channel) + 1 \/ m = Len(channel) + 1
    BY <1>7, <1>8, <2>1, <2>3
  <2>4. QED BY <1>7, <2>2, <2>3
<1>16. PortsApart'
  BY <1>3, <1>5, <1>6, <1>10 DEF SweepInv, PortsApart
<1>17. QED BY <1>2, <1>9, <1>11, <1>13, <1>14, <1>15, <1>16 DEF SweepInv

LEMMA WorkerInv ==
  ASSUME SweepInv, NEW i \in Trials, Worker(i)
  PROVE  SweepInv'
<1>1. CASE LoadEngine(i) \/ EngineReady(i)
  <2>1. i \in RunningTrials
    BY <1>1 DEF LoadEngine, EngineReady, RunningTrials, Running
  <2>2. PICK state \in Running : worker' = [worker EXCEPT ![i] = state]
    BY <1>1 DEF LoadEngine, EngineReady, Running
  <2>3. UNCHANGED <<schedVars, pc, turn, given, channel>>
    BY <1>1 DEF LoadEngine, EngineReady, UnchangedByWorkers, coordinatorVars
  <2>4. QED BY <2>1, <2>2, <2>3, WorkerMovesInv
<1>2. CASE Conclude(i) \/ ConcludeOrphaned(i)
  <2>1. i \in RunningTrials
    BY <1>2 DEF Conclude, ConcludeOrphaned, RunningTrials, Running
  <2>2. PICK outcome \in Outcomes : Finish(i, outcome)
    BY <1>2 DEF Conclude, ConcludeOrphaned, Outcomes
  <2>3. QED BY <2>1, <2>2, WorkerFinishesInv
<1>3. QED BY <1>1, <1>2 DEF Worker
-----------------------------------------------------------------------------
(* What is dispatched is leased and has no worker, its port is nobody       *)
(* else's, and an unread outcome has its lease: no call is refused.         *)
LEMMA SoundStep ==
  ASSUME SweepInv, [SweepNext]_sweepVars
  PROVE  [SoundNext]_sweepVars
<1>1. CASE Spawn
  <2>1. pc = "reserve" /\ turn \in Leased /\ worker[turn] = "unspawned"
    BY <1>1 DEF Spawn, SweepInv, Dispatching
  <2>2. PICK p \in Leading(Reservable(turn), 1) : \E port \in p :
          IF UpdateRefused(turn, port)
            THEN Stumble /\ GiveUp
            ELSE /\ UpdateHostPort(turn, port)
                 /\ given' = Insert(given, turn, [active[turn] EXCEPT !.port = port])
                 /\ worker' = [worker EXCEPT ![turn] = "reserved"]
                 /\ pc' = "dispatch" /\ turn' = 0
                 /\ UNCHANGED <<error, workersCancelled, commitVars, orphans,
                                operatorCancelled, channel, foreign>>
    BY <1>1, <2>1 DEF Spawn
  <2>3. \A port \in p : ~UpdateRefused(turn, port)
    BY <2>1, <2>2 DEF Leading, Reservable, UpdateRefused
  <2>4. Spawns
    BY <2>1, <2>2, <2>3 DEF Spawns
  <2>5. QED BY <2>4 DEF SoundNext, SoundCoordinator
<1>2. CASE DispatchFails
  <2>1. pc = "reserve" /\ turn \in Leased
    BY <1>2 DEF DispatchFails, SweepInv, Dispatching
  <2>2. GivesUp
    BY <1>2, <2>1 DEF DispatchFails, GiveUp, LetGo, GivesUp
  <2>3. QED BY <2>2 DEF SoundNext, SoundCoordinator
<1>3. CASE Receive
  <2>1. Head(channel) \in Leased
    <3>1. channel # << >> /\ channel \in Seq(Trials)
      BY <1>3 DEF Receive, SweepInv, WorkerTypes
    <3>2. 1 \in DOMAIN channel /\ Head(channel) = channel[1]
      BY <3>1
    <3>3. QED BY <3>2 DEF SweepInv, UnreadCovered
  <2>2. Receives
    BY <1>3, <2>1 DEF Receive, Receives
  <2>3. QED BY <2>2 DEF SoundNext, SoundCoordinator
<1>4. QED
  BY <1>1, <1>2, <1>3 DEF SweepNext, Coordinator, SoundNext, SoundCoordinator

LEMMA SweepStepInv == SweepInv /\ [SweepNext]_sweepVars => SweepInv'
<1>1. SUFFICES ASSUME SweepInv, [SoundNext]_sweepVars PROVE SweepInv'
  BY SoundStep
<1>2. CASE UNCHANGED sweepVars
  BY <1>1, <1>2, QuietStep DEF sweepVars, coordinatorVars, workerVars
<1>3. CASE LoopHead \/ NothingToDispatch \/ LoopBreak \/ ReceiveTimeout \/ CommitDone \/ Return
  BY <1>1, <1>3, QuietStep
  DEF LoopHead, NothingToDispatch, LoopBreak, ReceiveTimeout, CommitDone, Return, workerVars
<1>4. CASE Commit
  <2>1. pc' # "reserve" /\ UNCHANGED <<schedVars, worker, given, channel>>
    BY <1>4 DEF Commit, workerVars
  <2>2. QED BY <1>1, <2>1, QuietStep
<1>5. CASE OperatorCancels \/ ForeignPorts
  BY <1>1, <1>5, QuietStep DEF OperatorCancels, ForeignPorts, workerVars, coordinatorVars
<1>6. QED
  BY <1>1, <1>2, <1>3, <1>4, <1>5, DispatchLeaseInv, SpawnInv, DispatchFailsInv, ReceiveInv, WorkerInv
  DEF SoundNext, SoundCoordinator

LEMMA SweepInvariant == SweepSpec => []SweepInv
  BY SweepInitInv, SweepStepInv, PTL DEF SweepSpec

(* A lease outlives its worker, and is the allocation the worker uses,      *)
(* until the coordinator has received the trial's outcome.                  *)
THEOREM LeasesCoverWorkers == SweepSpec => []LeaseCoversWorker
<1>1. SweepInv => LeaseCoversWorker
  BY DEF SweepInv, RunningCovered, UnreadCovered, LeaseCoversWorker, Range
<1>2. QED BY <1>1, SweepInvariant, PTL

(* No two unfinished trials of a sweep were given the same host port,       *)
(* whatever other processes bind and free.                                  *)
THEOREM PortsAreExclusive == SweepSpec => []PortExclusive
<1>1. SweepInv => PortExclusive
  <2>1. SUFFICES ASSUME SweepInv, NEW i \in RunningTrials, NEW j \in RunningTrials, i # j
                 PROVE  given[i].port # given[j].port
    BY DEF PortExclusive
  <2>2. /\ i \in Leased /\ active[i] = given[i] /\ worker[i] # "unspawned"
        /\ j \in Leased /\ active[j] = given[j] /\ worker[j] # "unspawned"
    BY <2>1 DEF SweepInv, RunningCovered, RunningTrials, Running
  <2>3. QED BY <2>1, <2>2 DEF SweepInv, PortsApart
<1>2. QED BY <1>1, SweepInvariant, PTL

(* Two engines on one GPU are never both of trials whose containers could   *)
(* be removed, whatever fails and whenever the sweep is cancelled: only an  *)
(* engine that outlived a failed `docker rm` ever shares its GPUs.          *)
THEOREM SweepNeverOversubscribes == SweepSpec => []GpuExclusive
<1>1. SweepInv => GpuExclusive
  <2>1. SUFFICES ASSUME SweepInv, NEW i \in EngineTrials \ orphans, NEW j \in EngineTrials \ orphans,
                        i # j
                 PROVE  given[i].gpus \cap given[j].gpus = {}
    BY DEF GpuExclusive
  <2>2. i \in RunningTrials /\ j \in RunningTrials
    BY <2>1 DEF EngineTrials, RunningTrials, Running
  <2>3. /\ i \in Leased /\ active[i] = given[i]
        /\ j \in Leased /\ active[j] = given[j]
    BY <2>1, <2>2 DEF SweepInv, RunningCovered
  <2>4. QED BY <2>1, <2>3 DEF SweepInv, SchedInv, LeaseExclusive
<1>2. QED BY <1>1, SweepInvariant, PTL
-----------------------------------------------------------------------------
(* What the sweep says: where its coordinator may stand, what was handed    *)
(* out, what was announced, and what was committed.                         *)
Places ==
  /\ pc \in {"top", "dispatch", "reserve", "await", "commit", "join", "returned"}
  /\ error \in {"none", "interrupted", "fault", "defect"}
  /\ operatorCancelled \in BOOLEAN /\ workersCancelled \in BOOLEAN
  /\ workersCancelled => error # "none"
  /\ pc = "commit" => error = "none"
  /\ pc \in {"join", "returned"} => Leased = {}

HandedOut == /\ given \in [DOMAIN given -> Allocation]
             /\ turn \in Trials \cup {0}
             /\ orphans \subseteq Trials /\ foreign \subseteq Ports

Told ==
  /\ \A i \in Trials : worker[i] = "interrupted" => Cancelled
  /\ announced \subseteq Trials /\ completed \subseteq announced
  /\ \A i \in announced : /\ worker[i] \in Outcomes
                          /\ worker[i] = "interrupted" => operatorCancelled

Committed ==
  /\ nextCommit \in 1..Len(demand) + 1
  /\ report \in Seq([trial: Trials, outcome: Outcomes])
  /\ saved \in 0..Len(report) /\ Len(report) - saved <= 1
  /\ error # "fault" => Len(report) = nextCommit - 1 /\ saved = Len(report)
  /\ \A k \in DOMAIN report : /\ report[k] = [trial |-> k, outcome |-> worker[k]]
                              /\ k \in announced
  /\ pc = "returned" /\ error = "none" => nextCommit = Len(demand) + 1

Honest == SweepInv /\ Places /\ HandedOut /\ Told /\ Committed

LEMMA HonestInit == SweepInit => Honest
<1> SUFFICES ASSUME SweepInit PROVE Honest
  OBVIOUS
<1>1. SweepInv /\ SchedTypeOK
  BY SweepInitInv DEF SweepInv, SchedInv
<1>2. Places
  BY DEF SweepInit, Places
<1>3. HandedOut
  BY DEF SweepInit, HandedOut
<1>4. Told
  BY DEF SweepInit, Told
<1>5. Committed
  BY <1>1 DEF SweepInit, Committed, SchedTypeOK
<1>6. QED BY <1>1, <1>2, <1>3, <1>4, <1>5 DEF Honest

LEMMA DemandsStay ==
  ASSUME SweepInv, [SoundNext]_sweepVars
  PROVE  UNCHANGED <<demand, lanePort>> /\ Trials' = Trials /\ Allocation' = Allocation
<1>1. [SchedNext]_schedVars
  BY StepOfScheduler DEF SweepInv
<1>2. UNCHANGED <<demand, lanePort>>
  BY <1>1 DEF SchedNext, schedVars, Lease, Release, UpdateHostPort
<1>3. QED BY <1>2 DEF Trials, Allocation, Lanes

(* A worker that has ended stays as it ended; only the token interrupts.    *)
LEMMA OutcomesStay ==
  ASSUME SweepInv, [SoundNext]_sweepVars, NEW i \in Trials
  PROVE  /\ worker[i] \in Outcomes => worker'[i] = worker[i]
         /\ worker'[i] = "interrupted" => worker[i] = "interrupted" \/ Cancelled
<1>1. worker \in [Trials -> {"unspawned"} \cup Running \cup Outcomes]
  BY DEF SweepInv, WorkerTypes
<1>2. CASE UNCHANGED worker
  BY <1>2
<1>3. CASE Spawns
  <2>1. worker' = [worker EXCEPT ![turn] = "reserved"] /\ worker[turn] = "unspawned"
    BY <1>3 DEF Spawns, SweepInv, Dispatching
  <2>2. QED BY <1>1, <2>1 DEF Outcomes
<1>4. ASSUME NEW j \in Trials, Worker(j)
      PROVE  /\ worker[i] \in Outcomes => worker'[i] = worker[i]
             /\ worker'[i] = "interrupted" => worker[i] = "interrupted" \/ Cancelled
  <2>1. worker[j] \in Running
    BY <1>4 DEF Worker, LoadEngine, EngineReady, Conclude, ConcludeOrphaned, Running
  <2>2. \E o : worker' = [worker EXCEPT ![j] = o]
    BY <1>4 DEF Worker, LoadEngine, EngineReady, Conclude, ConcludeOrphaned, Finish
  <2>3. worker'[j] = "interrupted" => Cancelled
    BY <1>1, <1>4 DEF Worker, LoadEngine, EngineReady, Conclude, ConcludeOrphaned, Finish
  <2>4. worker[j] \notin Outcomes
    BY <2>1 DEF Running, Outcomes
  <2>5. CASE i = j
    BY <2>3, <2>4, <2>5
  <2>6. CASE i # j
    BY <1>1, <2>2, <2>6
  <2>7. QED BY <2>5, <2>6
<1>5. QED
  BY <1>2, <1>3, <1>4
  DEF SoundNext, sweepVars, workerVars, SoundCoordinator, LoopHead, DispatchLease, NothingToDispatch,
      GivesUp, LoopBreak, ReceiveTimeout, Receives, Commit, CommitDone, Return,
      OperatorCancels, ForeignPorts

LEMMA PlacesStep ==
  ASSUME Honest, [SoundNext]_sweepVars
  PROVE  Places'
<1>1. Places
  BY DEF Honest
<1>2. \/ UNCHANGED <<error, workersCancelled>>
      \/ /\ error' \in {"interrupted", "fault", "defect"}
         /\ workersCancelled' = workersCancelled \/ workersCancelled' = TRUE
  <2>1. CASE UNCHANGED <<error, workersCancelled>>
    BY <2>1
  <2>2. CASE GivesUp \/ Receives \/ Commit
    BY <2>2 DEF GivesUp, Receives, Commit, Abort
  <2>3. CASE LoopHead \/ LoopBreak \/ Return
    BY <2>3 DEF LoopHead, LoopBreak, Return
  <2>4. QED
    BY <2>1, <2>2, <2>3
    DEF SoundNext, sweepVars, coordinatorVars, SoundCoordinator, DispatchLease, NothingToDispatch, Spawns,
        ReceiveTimeout, CommitDone, OperatorCancels, ForeignPorts, Worker, LoadEngine, EngineReady,
        Conclude, ConcludeOrphaned, Finish, UnchangedByWorkers
<1>3. operatorCancelled' = operatorCancelled \/ operatorCancelled' = TRUE
  BY DEF SoundNext, sweepVars, SoundCoordinator, LoopHead, DispatchLease, NothingToDispatch, Spawns,
         GivesUp, LoopBreak, ReceiveTimeout, Receives, Commit, CommitDone, Return,
         OperatorCancels, ForeignPorts, Worker, LoadEngine, EngineReady, Conclude,
         ConcludeOrphaned, Finish, UnchangedByWorkers
<1>4. error' \in {"none", "interrupted", "fault", "defect"}
  BY <1>1, <1>2 DEF Places
<1>5. operatorCancelled' \in BOOLEAN
  BY <1>1, <1>3 DEF Places
<1>6. workersCancelled' \in BOOLEAN
  BY <1>1, <1>2 DEF Places
<1>7. workersCancelled' => error' # "none"
  <2>1. CASE UNCHANGED <<error, workersCancelled>>
    BY <1>1, <2>1, Zenon DEF Places
  <2>2. CASE error' \in {"interrupted", "fault", "defect"}
    BY <2>2
  <2>3. QED BY <1>2, <2>1, <2>2
<1>8. /\ pc' \in {"top", "dispatch", "reserve", "await", "commit", "join", "returned"}
      /\ pc' = "commit" => error' = "none"
      /\ pc' \in {"join", "returned"} => Leased' = {}
  <2> DEFINE Where == {"top", "dispatch", "reserve", "await", "commit", "join", "returned"}
  <2>1. /\ pc \in Where
        /\ pc = "commit" => error = "none"
        /\ pc \in {"join", "returned"} => Leased = {}
    BY <1>1, Zenon DEF Places
  <2>2. CASE LoopHead \/ LoopBreak \/ Return
    BY <2>1, <2>2 DEF LoopHead, LoopBreak, Return, Idle, schedVars, Leased
  <2>3. CASE NothingToDispatch \/ ReceiveTimeout \/ CommitDone \/ Spawns \/ GivesUp
    BY <2>3 DEF NothingToDispatch, ReceiveTimeout, CommitDone, Spawns, GivesUp
  <2>4. CASE \E i \in Trials : DispatchLease(i)
    BY <2>4 DEF DispatchLease
  <2>5. CASE Receives
    BY <2>5 DEF Receives, Draining
  <2>6. CASE Commit
    BY <2>1, <2>6 DEF Commit
  <2>7. CASE UNCHANGED <<schedVars, pc, error>>
    BY <2>1, <2>7 DEF schedVars, Leased
  <2>8. QED
    BY <2>2, <2>3, <2>4, <2>5, <2>6, <2>7
    DEF SoundNext, sweepVars, coordinatorVars, SoundCoordinator, OperatorCancels, ForeignPorts, Worker,
        LoadEngine, EngineReady, Conclude, ConcludeOrphaned, Finish, UnchangedByWorkers
<1>9. QED BY <1>4, <1>5, <1>6, <1>7, <1>8, Zenon DEF Places

LEMMA HandedOutStep ==
  ASSUME Honest, [SoundNext]_sweepVars
  PROVE  HandedOut'
<1>1. Allocation' = Allocation /\ Trials' = Trials /\ HandedOut
  BY DemandsStay DEF Honest
<1>2. orphans' \subseteq Trials'
  <2>1. orphans' = orphans \/ \E i \in Trials : orphans' = orphans \cup {i}
    BY DEF SoundNext, sweepVars, workerVars, SoundCoordinator, LoopHead, DispatchLease, NothingToDispatch,
           Spawns, GivesUp, LoopBreak, ReceiveTimeout, Receives, Commit, CommitDone, Return,
           OperatorCancels, ForeignPorts, Worker, LoadEngine, EngineReady, Conclude, ConcludeOrphaned
  <2>2. QED BY <1>1, <2>1 DEF HandedOut
<1>3. foreign' \subseteq Ports'
  <2>1. CASE UNCHANGED foreign
    BY <1>1, <2>1 DEF HandedOut, Ports
  <2>2. CASE ForeignPorts
    <3>1. \E p \in Ports : foreign' = foreign \cup {p} \/ foreign' = foreign \ {p}
      BY <1>1, <2>2 DEF ForeignPorts, HandedOut
    <3>2. QED BY <1>1, <3>1 DEF HandedOut, Ports
  <2>3. QED
    BY <2>1, <2>2
    DEF SoundNext, sweepVars, SoundCoordinator, LoopHead, DispatchLease, NothingToDispatch,
        Spawns, GivesUp, LoopBreak, ReceiveTimeout, Receives, Commit, CommitDone, Return,
        OperatorCancels, Worker, LoadEngine, EngineReady, Conclude, ConcludeOrphaned, Finish,
        UnchangedByWorkers
<1>4. given' \in [DOMAIN given' -> Allocation']
  <2>1. CASE UNCHANGED given
    BY <1>1, <2>1 DEF HandedOut
  <2>2. CASE Spawns
    <3>1. PICK port \in Ports : given' = Insert(given, turn, [active[turn] EXCEPT !.port = port])
      BY <2>2 DEF Spawns, Leading, Reservable
    <3>2. active[turn] \in Allocation
      BY <2>2 DEF Spawns, Honest, SweepInv, Dispatching, SchedInv, SchedTypeOK
    <3>3. [active[turn] EXCEPT !.port = port] \in Allocation
      BY <3>2 DEF Allocation
    <3>4. QED BY <1>1, <3>1, <3>3 DEF HandedOut, Insert
  <2>3. QED
    BY <2>1, <2>2
    DEF SoundNext, sweepVars, workerVars, SoundCoordinator, LoopHead, DispatchLease, NothingToDispatch,
        GivesUp, LoopBreak, ReceiveTimeout, Receives, Commit, CommitDone, Return,
        OperatorCancels, ForeignPorts, Worker, LoadEngine, EngineReady, Conclude, ConcludeOrphaned,
        Finish, UnchangedByWorkers
<1>5. turn' \in Trials' \cup {0}
  <2>1. turn' = turn \/ turn' = 0 \/ \E i \in Trials : turn' = i
    BY DEF SoundNext, sweepVars, coordinatorVars, SoundCoordinator, LoopHead, DispatchLease, NothingToDispatch,
           Spawns, GivesUp, LoopBreak, ReceiveTimeout, Receives, Commit, CommitDone, Return,
           OperatorCancels, ForeignPorts, Worker, LoadEngine, EngineReady, Conclude, ConcludeOrphaned,
           Finish, UnchangedByWorkers
  <2>2. QED BY <1>1, <2>1 DEF HandedOut
<1>6. QED BY <1>2, <1>3, <1>4, <1>5 DEF HandedOut

LEMMA ToldStep ==
  ASSUME Honest, [SoundNext]_sweepVars
  PROVE  Told'
<1>1. Trials' = Trials /\ Told /\ SweepInv /\ Places
  BY DemandsStay DEF Honest
<1>2. (operatorCancelled => operatorCancelled') /\ (workersCancelled => workersCancelled')
  BY <1>1
  DEF Places, SoundNext, sweepVars, coordinatorVars, SoundCoordinator, LoopHead, DispatchLease,
      NothingToDispatch, Spawns, GivesUp, LoopBreak, ReceiveTimeout, Receives, Abort, Commit,
      CommitDone, Return, OperatorCancels, ForeignPorts, Worker, LoadEngine, EngineReady, Conclude,
      ConcludeOrphaned, Finish, UnchangedByWorkers
<1>3. \A i \in Trials' : worker'[i] = "interrupted" => Cancelled'
  BY <1>1, <1>2, OutcomesStay DEF Told, Cancelled
<1>4. CASE UNCHANGED <<announced, completed>>
  <2>1. \A i \in announced : worker'[i] = worker[i]
    BY <1>1, OutcomesStay DEF Told
  <2>2. QED BY <1>1, <1>2, <1>3, <1>4, <2>1 DEF Told
<1>5. CASE Receives /\ ~UNCHANGED <<announced, completed>>
  <2> DEFINE i == Head(channel)
  <2>1. /\ ~Draining /\ announced' = announced \cup {i} /\ completed' = completed \cup {i}
        /\ UNCHANGED <<worker, operatorCancelled>> /\ channel # << >>
    BY <1>5 DEF Receives, workerVars
  <2>2. channel \in Seq(Trials) /\ channel[1] = i /\ 1 \in DOMAIN channel
    BY <1>1, <2>1 DEF SweepInv, WorkerTypes
  <2>3. i \in Trials /\ worker[i] \in Outcomes
    BY <1>1, <2>2 DEF SweepInv, UnreadCovered
  <2>4. worker[i] = "interrupted" => operatorCancelled
    BY <1>1, <2>1, <2>3 DEF Told, Cancelled, Draining, Places
  <2> HIDE DEF i
  <2>5. QED BY <1>1, <1>3, <2>1, <2>3, <2>4 DEF Told
<1>6. CASE Commit
  <2>1. announced' = announced /\ completed' \subseteq completed /\ UNCHANGED <<worker, operatorCancelled>>
    BY <1>6 DEF Commit, workerVars
  <2>2. QED BY <1>1, <1>3, <2>1 DEF Told
<1>7. QED
  BY <1>4, <1>5, <1>6
  DEF SoundNext, sweepVars, commitVars, SoundCoordinator, LoopHead, DispatchLease, NothingToDispatch,
      Spawns, GivesUp, LoopBreak, ReceiveTimeout, CommitDone, Return,
      OperatorCancels, ForeignPorts, Worker, LoadEngine, EngineReady, Conclude, ConcludeOrphaned,
      Finish, UnchangedByWorkers

(* What is committed is announced, ended, and next in declaration order.    *)
LEMMA CommittedStep ==
  ASSUME Honest, [SoundNext]_sweepVars
  PROVE  Committed'
<1>1. /\ Trials' = Trials /\ demand' = demand
      /\ Places /\ Told /\ Committed /\ SweepInv
  BY DemandsStay DEF Honest
<1>2. demand \in Seq(Devices) /\ Trials = 1..Len(demand)
  BY <1>1 DEF SweepInv, SchedInv, SchedTypeOK, Trials
<1>3. \A i \in announced : worker'[i] = worker[i]
  BY <1>1, OutcomesStay DEF Told
<1>4. CASE UNCHANGED <<nextCommit, report, saved>> /\ announced \subseteq announced'
  <2>1. error = "fault" => error' = "fault"
    BY <1>4 DEF SoundNext, sweepVars, coordinatorVars, commitVars, SoundCoordinator, LoopHead,
        DispatchLease, NothingToDispatch, Spawns, GivesUp, LoopBreak, ReceiveTimeout, Receives,
        Abort, Commit, CommitDone, Return, OperatorCancels, ForeignPorts, Worker, LoadEngine,
        EngineReady, Conclude, ConcludeOrphaned, Finish, UnchangedByWorkers
  <2>2. pc' = "returned" /\ error' = "none" =>
           nextCommit = Len(demand) + 1
    <3>1. CASE Return
      BY <3>1 DEF Return
    <3>2. CASE UNCHANGED <<pc, error>>
      BY <1>1, <3>2 DEF Committed
    <3>3. CASE pc' # "returned"
      BY <3>3
    <3>4. QED
      BY <3>1, <3>2, <3>3
      DEF SoundNext, sweepVars, coordinatorVars, commitVars, SoundCoordinator, LoopHead,
        DispatchLease, NothingToDispatch, Spawns, GivesUp, LoopBreak, ReceiveTimeout, Receives,
        Abort, Commit, CommitDone, OperatorCancels, ForeignPorts, Worker, LoadEngine,
        EngineReady, Conclude, ConcludeOrphaned, Finish, UnchangedByWorkers
  <2>3. \A k \in DOMAIN report : /\ report[k] = [trial |-> k, outcome |-> worker'[k]]
                                 /\ k \in announced'
    BY <1>1, <1>3, <1>4 DEF Committed
  <2>4. QED BY <1>1, <1>4, <2>1, <2>2, <2>3 DEF Committed
<1>5. CASE Commit
  <2> DEFINE entry == [trial |-> nextCommit, outcome |-> worker[nextCommit]]
  <2>1. /\ pc = "commit" /\ nextCommit \in completed /\ report' = Append(report, entry)
        /\ UNCHANGED <<announced, worker>>
    BY <1>5 DEF Commit, Committable, workerVars
  <2>2. /\ nextCommit \in announced /\ nextCommit \in Trials /\ worker[nextCommit] \in Outcomes
    BY <1>1, <2>1 DEF Told
  <2>3. error = "none"
    BY <1>1, <2>1, Zenon DEF Places
  <2>4. Len(report) = nextCommit - 1 /\ saved = Len(report) /\ saved \in Nat
        /\ report \in Seq([trial: Trials, outcome: Outcomes])
    BY <1>1, <2>3 DEF Committed
  <2>5. entry \in [trial: Trials, outcome: Outcomes]
    BY <2>2
  <2>6. /\ report' \in Seq([trial: Trials, outcome: Outcomes])
        /\ Len(report') = nextCommit
        /\ DOMAIN report' = 1..nextCommit
        /\ report'[nextCommit] = entry
        /\ \A k \in DOMAIN report : report'[k] = report[k]
        /\ \A k \in DOMAIN report' : k \in DOMAIN report \/ k = nextCommit
    <3> HIDE DEF entry
    <3>1. nextCommit \in Int /\ nextCommit = Len(report) + 1
      BY <1>2, <2>2, <2>4
    <3>2. QED BY <2>1, <2>4, <2>5, <3>1
  <2>7. \A k \in DOMAIN report' : /\ report'[k] = [trial |-> k, outcome |-> worker'[k]]
                                  /\ k \in announced'
    BY <1>1, <2>1, <2>2, <2>6 DEF Committed
  <2>8. \/ saved' = Len(report') /\ nextCommit' = nextCommit + 1 /\ UNCHANGED <<pc, error>>
        \/ /\ error' = "fault" /\ pc' = "top" /\ nextCommit' = nextCommit
           /\ saved' \in {saved, Len(report')}
    BY <1>5 DEF Commit, Abort
  <2>9. /\ nextCommit' \in 1..Len(demand) + 1 /\ saved' \in 0..Len(report')
        /\ Len(report') - saved' <= 1
        /\ error' # "fault" => Len(report') = nextCommit' - 1 /\ saved' = Len(report')
    BY <1>2, <2>2, <2>4, <2>6, <2>8
  <2>10. pc' # "returned"
    BY <2>1, <2>8
  <2> HIDE DEF entry
  <2>11. QED BY <1>1, <2>6, <2>7, <2>9, <2>10 DEF Committed
<1>6. QED
  BY <1>4, <1>5
  DEF SoundNext, sweepVars, commitVars, SoundCoordinator, LoopHead, DispatchLease, NothingToDispatch,
      Spawns, GivesUp, LoopBreak, ReceiveTimeout, Receives, CommitDone, Return,
      OperatorCancels, ForeignPorts, Worker, LoadEngine, EngineReady, Conclude, ConcludeOrphaned,
      Finish, UnchangedByWorkers

LEMMA HonestInvariant == SweepSpec => []Honest
<1>1. Honest /\ [SweepNext]_sweepVars => Honest'
  <2>1. SUFFICES ASSUME Honest, [SoundNext]_sweepVars, SweepInv' PROVE Honest'
    BY SoundStep, SweepStepInv DEF Honest
  <2>2. SweepInv'
    BY <2>1
  <2>3. QED
    BY <2>1, <2>2, PlacesStep, HandedOutStep, ToldStep, CommittedStep DEF Honest
<1>2. QED BY <1>1, HonestInit, PTL DEF SweepSpec

(* A sweep is consistent at every moment: leases outlive workers, the       *)
(* report says of every trial how its worker ended and lags report.json by  *)
(* at most the trial whose checkpoint failed, a trial is interrupted only   *)
(* by the operator, Ok means every trial is announced and saved, and the    *)
(* loop ends with nothing running, leased or unread.                        *)
THEOREM SweepsKeepTheirWord == SweepSpec => []SweepConsistent
<1>1. Honest => SweepConsistent
  <2>1. SUFFICES ASSUME Honest PROVE SweepConsistent
    OBVIOUS
  <2>2. SweepInv /\ Places /\ HandedOut /\ Told /\ Committed
    BY <2>1 DEF Honest
  <2>3. /\ SchedTypeOK /\ WorkerTypes /\ Trials = 1..Len(demand) /\ demand \in Seq(Devices)
    BY <2>2 DEF SweepInv, SchedInv, SchedTypeOK, Trials
  <2>4. SweepTypeOK
    <3>1. /\ pc \in {"top", "dispatch", "reserve", "await", "commit", "join", "returned"}
          /\ error \in {"none", "interrupted", "fault", "defect"}
          /\ operatorCancelled \in BOOLEAN /\ workersCancelled \in BOOLEAN
      BY <2>2, Zenon DEF Places
    <3>2. turn \in Trials \cup {0} /\ given \in [DOMAIN given -> Allocation]
          /\ orphans \subseteq Trials /\ foreign \subseteq Ports
      BY <2>2, Zenon DEF HandedOut
    <3>3. announced \subseteq Trials /\ completed \subseteq announced
      BY <2>2, Zenon DEF Told
    <3>4. /\ nextCommit \in 1..Len(demand) + 1 /\ saved \in 0..Len(report)
          /\ report \in Seq([trial: Trials, outcome: Outcomes])
      BY <2>2, Zenon DEF Committed
    <3>5. QED BY <2>3, <3>1, <3>2, <3>3, <3>4, Zenon DEF SweepTypeOK, WorkerTypes
  <2>5. LeaseCoversWorker
    <3>1. \A i \in Range(channel) : i \in Leased /\ active[i] = given[i]
      BY <2>2 DEF Range, SweepInv, UnreadCovered
    <3>2. QED BY <2>2, <3>1 DEF LeaseCoversWorker, SweepInv, RunningCovered
  <2>6. ReportFaithful
    <3>1. Len(report) - saved <= (IF error = "fault" THEN 1 ELSE 0)
      BY <2>2 DEF Committed
    <3>2. QED BY <2>2, <3>1 DEF ReportFaithful, Committed
  <2>7. InterruptedOnlyByOperator
    <3>1. SUFFICES ASSUME NEW k \in DOMAIN report, report[k].outcome = "interrupted"
                   PROVE  operatorCancelled
      BY DEF InterruptedOnlyByOperator
    <3>2. k \in announced /\ worker[k] = "interrupted"
      BY <2>2, <3>1 DEF Committed
    <3>3. QED BY <2>2, <3>2, Zenon DEF Told
  <2>8. QuiescentAtJoin
    <3>1. SUFFICES ASSUME pc \in {"join", "returned"}
                   PROVE  RunningTrials = {} /\ Leased = {} /\ channel = << >>
      BY DEF QuiescentAtJoin
    <3>2. Leased = {}
      BY <2>2, <3>1, Zenon DEF Places
    <3>3. RunningTrials = {}
      BY <2>2, <3>2 DEF SweepInv, RunningCovered
    <3>4. channel = << >>
      <4>1. 1 \notin DOMAIN channel
        BY <2>2, <3>2 DEF SweepInv, UnreadCovered
      <4>2. QED BY <2>3, <4>1 DEF WorkerTypes
    <3>5. QED BY <3>2, <3>3, <3>4
  <2>9. OkMeansComplete
    <3>1. SUFFICES ASSUME pc = "returned", error = "none"
                   PROVE  /\ Len(report) = Len(demand) /\ saved = Len(demand)
                          /\ announced = Trials /\ pending = {}
      BY DEF OkMeansComplete
    <3>2. nextCommit = Len(demand) + 1 /\ Len(report) = Len(demand) /\ saved = Len(demand)
      BY <2>2, <2>3, <3>1 DEF Committed
    <3>3. DOMAIN report = Trials
      BY <2>2, <2>3, <3>2 DEF Committed
    <3>4. announced = Trials
      BY <2>2, <3>3 DEF Committed, Told
    <3>5. pending = {}
      BY <2>2, <2>3, <3>4 DEF SweepInv, Dispatching, Told, Outcomes, SchedTypeOK
    <3>6. QED BY <3>2, <3>4, <3>5
  <2>10. QED BY <2>4, <2>5, <2>6, <2>7, <2>8, <2>9 DEF SweepConsistent
<1>2. QED BY <1>1, HonestInvariant, PTL
-----------------------------------------------------------------------------
(* The sweep as one way to execute the trials of a run.                     *)
Logged == [k \in DOMAIN report |-> report[k].trial]

LEMMA LoggedIs ==
  ASSUME Honest
  PROVE  /\ Logged \in Seq(Trials) /\ Len(Logged) = Len(report) /\ Len(report) \in Nat
         /\ DOMAIN Logged = 1..Len(report)
<1> DEFINE Entries == [trial: Trials, outcome: Outcomes]
<1>1. report \in Seq(Entries)
  BY DEF Honest, Committed
<1>2. \A k \in 1..Len(report) : report[k].trial \in Trials
  <2>1. \A e \in Entries : e.trial \in Trials
    OBVIOUS
  <2> HIDE DEF Entries
  <2>2. \A k \in 1..Len(report) : report[k] \in Entries
    BY <1>1
  <2>3. QED BY <2>1, <2>2
<1> HIDE DEF Entries
<1>3. Logged = [k \in 1..Len(report) |-> report[k].trial] /\ Len(report) \in Nat
  BY <1>1 DEF Logged
<1>4. Logged \in [1..Len(report) -> Trials]
  BY <1>2, <1>3
<1>5. QED BY <1>3, <1>4

(* A commit logs the next trial.                                            *)
LEMMA CommitLogs ==
  ASSUME Honest, Commit
  PROVE  /\ Logged' = Append(Logged, Len(Logged) + 1) /\ Len(Logged) < Len(demand)
         /\ saved = Len(Logged) /\ saved' \in {saved, Len(Logged')}
         /\ pc # "returned" /\ pc' # "returned"
<1> DEFINE n == nextCommit
           entry == [trial |-> n, outcome |-> worker[n]]
<1>1. /\ pc = "commit" /\ pc' \in {"commit", "top"} /\ n \in completed
      /\ report' = Append(report, entry) /\ saved' \in {saved, Len(report')}
  BY DEF Commit, Committable
<1>2. n \in 1..Len(demand) /\ Len(demand) \in Nat
  BY <1>1 DEF Honest, Told, SweepInv, SchedInv, SchedTypeOK, Trials
<1>3. error = "none"
  BY <1>1, Zenon DEF Honest, Places
<1>4. Len(report) = n - 1 /\ saved = Len(report) /\ report \in Seq([trial: Trials, outcome: Outcomes])
  BY <1>3 DEF Honest, Committed
<1>5. Logged \in Seq(Trials) /\ Len(Logged) = Len(report) /\ DOMAIN Logged = 1..Len(report)
  BY LoggedIs
<1>6. n \in Int /\ n = Len(report) + 1
  BY <1>2, <1>4
<1> HIDE DEF n
<1>7. entry.trial = n
  OBVIOUS
<1> HIDE DEF entry
<1>8. /\ DOMAIN report' = 1..n /\ Len(report') = n
      /\ \A k \in 1..Len(report) : report'[k] = report[k]
      /\ report'[n] = entry
  BY <1>1, <1>4, <1>6
<1>9. /\ Append(Logged, n) = [k \in 1..n |-> IF k = n THEN n ELSE Logged[k]]
  BY <1>5, <1>6
<1>10. Logged' = [k \in 1..n |-> report'[k].trial]
  BY <1>8 DEF Logged
<1>11. \A k \in 1..n : report'[k].trial = IF k = n THEN n ELSE Logged[k]
  BY <1>4, <1>6, <1>7, <1>8 DEF Logged
<1>12. Logged' = Append(Logged, n)
  BY <1>9, <1>10, <1>11, Zenon
<1>13. Len(Logged') = n
  BY <1>5, <1>6, <1>12
<1>14. QED BY <1>1, <1>2, <1>4, <1>5, <1>6, <1>8, <1>12, <1>13

Verdict == IF pc # "returned" THEN "open" ELSE IF error = "none" THEN "ok" ELSE "failed"

(* A sweep logs the trials of its run in order, never past one that is not  *)
(* saved, and says Ok only of a complete and saved log: it is one way to    *)
(* execute the trials of a run.                                             *)
THEOREM SweepsImplementTheirLog == SweepSpec => ImplementsTrialLog
<1>1. SweepInit => Log!LogInit
  <2>1. SUFFICES ASSUME SweepInit PROVE Log!LogInit
    OBVIOUS
  <2>2. Len(demand) \in Nat
    BY <2>1, SweepInitInv DEF SweepInv, SchedInv, SchedTypeOK
  <2>3. report = << >> /\ saved = 0 /\ pc = "top"
    BY <2>1 DEF SweepInit
  <2>4. [k \in DOMAIN report |-> report[k].trial] = << >>
    BY <2>3
  <2>5. QED BY <2>2, <2>3, <2>4 DEF Log!LogInit
<1>2. Honest /\ [SweepNext]_sweepVars => [Log!LogNext]_Log!logVars
  <2> SUFFICES ASSUME Honest, [SoundNext]_sweepVars PROVE [Log!LogNext]_Log!logVars
    BY SoundStep DEF Honest
  <2>1. demand' = demand
    BY DemandsStay DEF Honest
  <2>2. CASE Commit
    <3>1. Verdict = "open" /\ Verdict' = "open"
      BY <2>2, CommitLogs DEF Verdict
    <3>2. QED BY <2>1, <2>2, <3>1, CommitLogs DEF Log!LogNext, Log!Record, Logged, Verdict
  <2>3. CASE Return
    <3>1. /\ pc = "join" /\ pc' = "returned" /\ UNCHANGED <<report, saved>>
          /\ error' = "none" => error = "none" /\ nextCommit = Len(demand) + 1
      BY <2>3 DEF Return, commitVars
    <3>2. Verdict = "open" /\ (Verdict' = IF error' = "none" THEN "ok" ELSE "failed")
      BY <3>1 DEF Verdict
    <3>3. Logged' = Logged
      BY <3>1 DEF Logged
    <3>4. CASE error' = "none"
      <4>1. nextCommit = Len(demand) + 1 /\ Len(report) = nextCommit - 1 /\ saved = Len(report)
        BY <3>1, <3>4 DEF Honest, Committed
      <4>2. Len(demand) \in Nat
        BY DEF Honest, SweepInv, SchedInv, SchedTypeOK
      <4>3. saved = Len(demand) /\ Len(Logged) = Len(demand)
        BY <4>1, <4>2, LoggedIs
      <4>4. Log!Succeed
        BY <2>1, <3>1, <3>2, <3>3, <3>4, <4>3 DEF Log!Succeed, Logged, Verdict
      <4>5. QED BY <4>4 DEF Log!LogNext
    <3>5. CASE error' # "none"
      BY <2>1, <3>1, <3>2, <3>3, <3>5 DEF Log!LogNext, Log!Fail, Logged, Verdict
    <3>6. QED BY <3>4, <3>5
  <2>4. CASE UNCHANGED <<report, saved>>
             /\ (UNCHANGED <<pc, error>> \/ (pc # "returned" /\ pc' # "returned"))
    BY <2>1, <2>4 DEF Log!logVars
  <2>5. QED
    BY <2>2, <2>3, <2>4
    DEF SoundNext, sweepVars, coordinatorVars, commitVars, SoundCoordinator, LoopHead, DispatchLease,
        NothingToDispatch, Spawns, GivesUp, LoopBreak, ReceiveTimeout, Receives, CommitDone,
        OperatorCancels, ForeignPorts, Worker, LoadEngine, EngineReady, Conclude, ConcludeOrphaned,
        Finish, UnchangedByWorkers
<1>3. QED BY <1>1, <1>2, HonestInvariant, PTL DEF SweepSpec, ImplementsTrialLog, Log!LogSpec
-----------------------------------------------------------------------------
(* The lane count of the preflight: induction over the naturals, the order  *)
(* of the trials by demand, and the sums of the smallest demands.           *)
LEMMA LeastNatural ==
  ASSUME NEW T, T \subseteq Nat, T # {}
  PROVE  \E m \in T : \A n \in T : m <= n
<1>1. PICK m \in T : \A n \in T : <<n, m>> \notin OpToRel(<, Nat)
  BY NatLessThanWellFounded, WFMin
<1>2. \A n \in T : ~(n < m)
  BY <1>1 DEF OpToRel
<1>3. QED BY <1>2

LEMMA SetInduction ==
  ASSUME NEW T, 0 \in T, \A n \in Nat : n \in T => n + 1 \in T
  PROVE  \A n \in Nat : n \in T
<1>1. SUFFICES ASSUME NEW x \in Nat, x \notin T PROVE FALSE
  OBVIOUS
<1> DEFINE U == {n \in Nat : n \notin T}
<1>2. PICK m \in U : \A n \in U : m <= n
  <2>1. U \subseteq Nat /\ U # {} BY <1>1
  <2> HIDE DEF U
  <2>2. QED BY <2>1, LeastNatural
<1>3. m # 0 /\ m - 1 \in Nat
  BY <1>2
<1>4. m - 1 \in T
  BY <1>2, <1>3
<1>5. m - 1 + 1 \in T
  BY <1>3, <1>4
<1>6. QED BY <1>2, <1>5

LEMMA LargestUpTo ==
  ASSUME NEW n \in Nat, NEW T, T \subseteq 0..n, T # {}
  PROVE  \E m \in T : \A x \in T : x <= m
<1> DEFINE U == {n - x : x \in T}
<1>1. PICK m \in U : \A x \in U : m <= x
  <2>1. \A x \in T : n - x \in Nat
    OBVIOUS
  <2>2. U \subseteq Nat /\ U # {}
    BY <2>1
  <2> HIDE DEF U
  <2>3. QED BY <2>2, LeastNatural
<1>2. PICK x \in T : m = n - x
  BY <1>1
<1>3. \A y \in T : x >= y
  <2>1. \A y \in T : n - y \in U /\ y \in 0..n
    OBVIOUS
  <2> HIDE DEF U
  <2>2. QED BY <2>1, <1>1, <1>2
<1>4. QED BY <1>2, <1>3

(* Listed(f, m, S): f lists the m trials of S from the cheapest.            *)
Listed(f, m, S) == /\ f \in Bijection(1..m, S)
                   /\ \A k, l \in 1..m : k < l => demand[f[k]] <= demand[f[l]]

LEMMA DemandsAre ==
  ASSUME SchedTypeOK
  PROVE  /\ Len(demand) \in Nat /\ Trials = 1..Len(demand) /\ NumGpus \in Nat
         /\ \A i \in Trials : demand[i] \in 1..NumGpus /\ demand[i] \in Nat
BY SchedulerAssumption DEF SchedTypeOK, Trials, Devices

LEMMA EverySetIsListed ==
  ASSUME SchedTypeOK
  PROVE  \A m \in Nat : \A S \in SUBSET Trials : Cardinality(S) = m => \E f : Listed(f, m, S)
<1> DEFINE T == {m \in Nat : \A S \in SUBSET Trials : Cardinality(S) = m => \E f : Listed(f, m, S)}
<1>0. \A S \in SUBSET Trials : IsFiniteSet(S) /\ Cardinality(S) \in Nat
  BY FinitePools, FS_Subset, FS_CardinalityType
<1>1. 0 \in T
  <2>1. ASSUME NEW S \in SUBSET Trials, Cardinality(S) = 0 PROVE \E f : Listed(f, 0, S)
    <3>1. S = {}
      BY <2>1, <1>0, FS_EmptySet
    <3>2. Listed(<< >>, 0, {})
      BY DEF Listed, Bijection, Injection, Surjection, IsInjective
    <3>3. QED BY <3>1, <3>2
  <2>2. QED BY <2>1
<1>2. ASSUME NEW m \in Nat, m \in T PROVE m + 1 \in T
  <2>1. ASSUME NEW S \in SUBSET Trials, Cardinality(S) = m + 1 PROVE \E f : Listed(f, m + 1, S)
    <3>1. PICK x \in S : \A y \in S : demand[y] <= demand[x]
      <4> DEFINE D == {demand[s] : s \in S}
      <4>1. S # {}
        BY <2>1, FS_EmptySet
      <4>2. D \subseteq 0..NumGpus /\ D # {} /\ NumGpus \in Nat
        BY <4>1, DemandsAre
      <4>3. PICK d \in D : \A e \in D : e <= d
        <5> HIDE DEF D
        <5>1. QED BY <4>2, LargestUpTo
      <4>4. QED BY <4>3
    <3>2. Cardinality(S \ {x}) = m
      BY <1>0, <2>1, FS_RemoveElement
    <3>3. PICK f : Listed(f, m, S \ {x})
      BY <1>2, <3>2
    <3> DEFINE g == [k \in 1..(m + 1) |-> IF k = m + 1 THEN x ELSE f[k]]
    <3>4. \A k \in 1..(m + 1) : k # m + 1 => k \in 1..m
      OBVIOUS
    <3>5. /\ f \in [1..m -> S \ {x}]
          /\ \A k, l \in 1..m : f[k] = f[l] => k = l
          /\ \A s \in S \ {x} : \E k \in 1..m : f[k] = s
      BY <3>3 DEF Listed, Bijection, Injection, Surjection, IsInjective
    <3>6. g \in [1..(m + 1) -> S]
      BY <3>4, <3>5
    <3>7. \A k, l \in 1..(m + 1) : g[k] = g[l] => k = l
      BY <3>4, <3>5
    <3>8. \A s \in S : \E k \in 1..(m + 1) : g[k] = s
      <4>1. g[m + 1] = x /\ m + 1 \in 1..(m + 1)
        OBVIOUS
      <4>2. \A k \in 1..m : k \in 1..(m + 1) /\ g[k] = f[k]
        OBVIOUS
      <4> HIDE DEF g
      <4>3. QED BY <4>1, <4>2, <3>5
    <3>9. ASSUME NEW k \in 1..(m + 1), NEW l \in 1..(m + 1), k < l PROVE demand[g[k]] <= demand[g[l]]
      <4>1. k \in 1..m /\ g[k] = f[k] /\ f[k] \in S
        BY <3>4, <3>5, <3>9
      <4>2. CASE l = m + 1
        BY <4>1, <4>2, <3>1
      <4>3. CASE l # m + 1
        <5>1. l \in 1..m /\ g[l] = f[l]
          BY <4>3, <3>4
        <5>2. QED BY <4>1, <5>1, <3>3, <3>9 DEF Listed
      <4>4. QED BY <4>2, <4>3
    <3>10. g \in Bijection(1..(m + 1), S)
      <4> HIDE DEF g
      <4>1. DOMAIN g = 1..(m + 1)
        BY <3>6
      <4>2. QED BY <4>1, <3>6, <3>7, <3>8 DEF Bijection, Injection, Surjection, IsInjective
    <3> HIDE DEF g
    <3>11. QED BY <3>9, <3>10 DEF Listed
  <2>2. QED BY <2>1
<1>3. \A m \in Nat : m \in T
  <2> HIDE DEF T
  <2>1. QED BY <1>1, <1>2, SetInduction
<1>4. QED BY <1>3

(* The sort of packable_lane_count has a result.                            *)
LEMMA CheapestIs ==
  ASSUME SchedTypeOK
  PROVE  Listed(Cheapest, Len(demand), Trials)
<1>1. Len(demand) \in Nat /\ Trials = 1..Len(demand) /\ Cardinality(Trials) = Len(demand)
  <2>1. Len(demand) \in Nat /\ Trials = 1..Len(demand)
    BY DemandsAre
  <2>2. Cardinality(1..Len(demand)) = IF 1 > Len(demand) THEN 0 ELSE Len(demand) - 1 + 1
    BY <2>1, FS_Interval
  <2>3. QED BY <2>1, <2>2
<1>2. PICK f : Listed(f, Len(demand), Trials)
  BY <1>1, EverySetIsListed
<1>3. QED BY <1>1, <1>2 DEF Cheapest, Listed

(* The running sum of packable_lane_count.                                  *)
LEMMA UsedIs ==
  ASSUME SchedTypeOK
  PROVE  /\ Used[0] = 0
         /\ \A k \in Trials : Used[k] = Used[k - 1] + demand[Cheapest[k]]
         /\ \A k \in 0..Len(demand) : Used[k] \in Nat
<1> DEFINE n == Len(demand)
           Need(k) == demand[Cheapest[k]]
           Cells(k) == {c \in (1..k) \X (1..NumGpus) : c[2] <= Need(c[1])}
           u == [k \in 0..n |-> Cardinality(Cells(k))]
<1>1. n \in Nat /\ Trials = 1..n /\ NumGpus \in Nat
  BY DemandsAre
<1>2. \A k \in 1..n : Need(k) \in 1..NumGpus
  BY <1>1, CheapestIs, DemandsAre DEF Listed, Bijection, Injection
<1>3. \A k \in Nat : IsFiniteSet(Cells(k)) /\ Cardinality(Cells(k)) \in Nat
  <2> TAKE k \in Nat
  <2>1. IsFiniteSet(1..k) /\ IsFiniteSet(1..NumGpus)
    BY <1>1, FS_Interval
  <2>2. IsFiniteSet((1..k) \X (1..NumGpus))
    BY <2>1, FS_Product
  <2>3. Cells(k) \in SUBSET ((1..k) \X (1..NumGpus))
    OBVIOUS
  <2> HIDE DEF Cells
  <2>4. QED BY <2>2, <2>3, FS_Subset, FS_CardinalityType
<1>4. Cardinality(Cells(0)) = 0
  <2>1. Cells(0) = {}
    OBVIOUS
  <2>2. QED BY <2>1, FS_EmptySet
<1>5. ASSUME NEW k \in 1..n PROVE Cardinality(Cells(k)) = Cardinality(Cells(k - 1)) + Need(k)
  <2> DEFINE Row == {k} \X (1..Need(k))
  <2>1. Need(k) \in 1..NumGpus /\ k \in Nat /\ k - 1 \in Nat /\ Need(k) \in Nat
    BY <1>1, <1>2
  <2>2. IsFiniteSet(Row) /\ Cardinality(Row) = Need(k)
    <3> HIDE DEF Need
    <3>1. IsFiniteSet({k}) /\ Cardinality({k}) = 1
      BY FS_Singleton
    <3>2. IsFiniteSet(1..Need(k)) /\ Cardinality(1..Need(k)) = Need(k)
      <4>1. 1 \in Int /\ Need(k) \in Int
        BY <2>1
      <4>2. IsFiniteSet(1..Need(k))
            /\ Cardinality(1..Need(k)) = IF 1 > Need(k) THEN 0 ELSE Need(k) - 1 + 1
        BY <4>1, FS_Interval
      <4>3. QED BY <4>2, <2>1
    <3>3. IsFiniteSet(Row) /\ Cardinality(Row) = Cardinality({k}) * Cardinality(1..Need(k))
      BY <3>1, <3>2, FS_Product
    <3>4. QED BY <3>1, <3>2, <3>3, <2>1
  <2>3. Cells(k) = Cells(k - 1) \cup Row
    <3>1. \A c : c \in Cells(k) => c \in Cells(k - 1) \/ c \in Row
      <4> SUFFICES ASSUME NEW i \in 1..k, NEW g \in 1..NumGpus, g <= Need(i)
                   PROVE  <<i, g>> \in Cells(k - 1) \/ <<i, g>> \in Row
        OBVIOUS
      <4>1. CASE i = k
        BY <4>1, <2>1
      <4>2. CASE i # k
        <5>1. i \in 1..(k - 1)
          BY <4>2
        <5>2. QED BY <5>1
      <4>3. QED BY <4>1, <4>2
    <3>2. \A c \in Cells(k - 1) : c \in Cells(k)
      <4> SUFFICES ASSUME NEW i \in 1..(k - 1), NEW g \in 1..NumGpus, g <= Need(i)
                   PROVE  <<i, g>> \in Cells(k)
        OBVIOUS
      <4>1. i \in 1..k
        BY <2>1
      <4>2. QED BY <4>1
    <3>3. \A g \in 1..Need(k) : g \in 1..NumGpus /\ g <= Need(k)
      <4> HIDE DEF Need
      <4>1. QED BY <2>1, <1>1
    <3>4. k \in 1..k
      BY <2>1
    <3>5. \A c \in Row : c \in Cells(k)
      BY <3>3, <3>4
    <3> HIDE DEF Cells, Row
    <3>6. QED BY <3>1, <3>2, <3>5
  <2>4. Cells(k - 1) \cap Row = {}
    BY <2>1
  <2>5. IsFiniteSet(Cells(k - 1)) /\ Cardinality(Cells(k - 1)) \in Nat
    BY <1>3, <2>1
  <2> HIDE DEF Cells, Row, Need
  <2>6. Cardinality(Cells(k)) = Cardinality(Cells(k - 1)) + Cardinality(Row) - Cardinality({})
    BY <2>2, <2>3, <2>4, <2>5, FS_Union
  <2>7. QED BY <2>1, <2>2, <2>5, <2>6, FS_EmptySet
<1>6. u = [k \in 0..n |-> IF k = 0 THEN 0 ELSE u[k - 1] + demand[Cheapest[k]]]
  <2>1. ASSUME NEW k \in 0..n
        PROVE  Cardinality(Cells(k)) = IF k = 0 THEN 0 ELSE u[k - 1] + demand[Cheapest[k]]
    <3>1. CASE k = 0
      BY <3>1, <1>4
    <3>2. CASE k # 0
      <4>1. k \in 1..n /\ k - 1 \in 0..n
        BY <1>1, <3>2
      <4> HIDE DEF Cells
      <4>2. QED BY <4>1, <1>5, <3>2
    <3>3. QED BY <3>1, <3>2
  <2> HIDE DEF Cells
  <2>2. QED BY <2>1
<1> HIDE DEF u
<1>7. Used = [k \in 0..n |-> IF k = 0 THEN 0 ELSE Used[k - 1] + demand[Cheapest[k]]]
  BY <1>6 DEF Used
<1>8. Used[0] = 0 /\ \A k \in Trials : Used[k] = Used[k - 1] + demand[Cheapest[k]]
  BY <1>1, <1>7
<1> DEFINE T == {k \in Nat : k <= n => Used[k] \in Nat}
<1>9. 0 \in T
  BY <1>8
<1>10. ASSUME NEW k \in Nat, k \in T PROVE k + 1 \in T
  <2>1. CASE k + 1 <= n
    <3>1. k + 1 \in Trials /\ Used[k] \in Nat
      BY <1>1, <1>10, <2>1
    <3>2. Used[k + 1] = Used[k + 1 - 1] + Need(k + 1) /\ Need(k + 1) \in Nat
      BY <1>1, <1>2, <1>8, <3>1
    <3>3. QED BY <3>1, <3>2
  <2>2. QED BY <2>1
<1>11. \A k \in Nat : k \in T
  <2> HIDE DEF T
  <2>1. QED BY <1>9, <1>10, SetInduction
<1>12. QED BY <1>1, <1>8, <1>11

(* Trials with GPUs of their own hold at least as many as the cheapest ones *)
(* would: no m trials fit where the m cheapest do not.                      *)
LEMMA CheapestNeedLeast ==
  ASSUME SchedTypeOK, NEW A
  PROVE  \A m \in Nat : \A S \in SUBSET Trials :
           /\ Cardinality(S) = m
           /\ \A s \in S : A[s] \subseteq Devices /\ demand[s] <= Cardinality(A[s])
           /\ \A s, t \in S : s # t => A[s] \cap A[t] = {}
           => Used[m] <= Cardinality(UNION {A[s] : s \in S})
<1> DEFINE Held(S) == UNION {A[s] : s \in S}
           Apart(S) == /\ \A s \in S : A[s] \subseteq Devices /\ demand[s] <= Cardinality(A[s])
                       /\ \A s, t \in S : s # t => A[s] \cap A[t] = {}
           T == {m \in Nat : \A S \in SUBSET Trials :
                   Cardinality(S) = m /\ Apart(S) => Used[m] <= Cardinality(Held(S))}
<1>1. \A S \in SUBSET Trials : IsFiniteSet(S) /\ Cardinality(S) \in Nat /\ Cardinality(S) <= Len(demand)
  <2>1. Trials = 1..Len(demand) /\ Len(demand) \in Nat
    BY DemandsAre
  <2>2. Cardinality(1..Len(demand)) = IF 1 > Len(demand) THEN 0 ELSE Len(demand) - 1 + 1
    BY <2>1, FS_Interval
  <2>3. TAKE S \in SUBSET Trials
  <2>4. IsFiniteSet(Trials) /\ Cardinality(Trials) = Len(demand)
    BY <2>1, <2>2, FinitePools
  <2>5. IsFiniteSet(S) /\ Cardinality(S) <= Cardinality(Trials)
    BY <2>4, FS_Subset
  <2>6. QED BY <2>4, <2>5, FS_CardinalityType
<1>2. \A S : (\A s \in S : A[s] \subseteq Devices)
             => IsFiniteSet(Held(S)) /\ Cardinality(Held(S)) \in Nat
  <2> TAKE S
  <2> HAVE \A s \in S : A[s] \subseteq Devices
  <2>1. Held(S) \in SUBSET Devices
    OBVIOUS
  <2>2. QED BY <2>1, FinitePools, FS_Subset, FS_CardinalityType
<1>3. 0 \in T
  <2>1. ASSUME NEW S \in SUBSET Trials, Apart(S) PROVE Used[0] <= Cardinality(Held(S))
    <3>1. Cardinality(Held(S)) \in Nat
      BY <1>2, <2>1
    <3> HIDE DEF Held
    <3>2. QED BY <3>1, UsedIs
  <2> HIDE DEF Held, Apart
  <2>2. QED BY <2>1
<1>4. ASSUME NEW m \in Nat, m \in T PROVE m + 1 \in T
  <2>1. ASSUME NEW S \in SUBSET Trials, Cardinality(S) = m + 1, Apart(S)
        PROVE  Used[m + 1] <= Cardinality(Held(S))
    <3>1. m + 1 \in Trials /\ m + 1 \in 1..Len(demand)
      BY <1>1, <2>1, DemandsAre
    <3>2. PICK k \in 1..Len(demand) : k >= m + 1 /\ Cheapest[k] \in S
      <4>1. SUFFICES ASSUME \A k \in 1..Len(demand) : Cheapest[k] \in S => k \in 1..m PROVE FALSE
        BY DemandsAre
      <4> DEFINE f == [k \in {j \in 1..m : j <= Len(demand)} |-> Cheapest[k]]
                 D == {j \in 1..m : j <= Len(demand) /\ Cheapest[j] \in S}
                 g == [j \in D |-> Cheapest[j]]
      <4>2. D \in SUBSET (1..m) /\ IsFiniteSet(1..m) /\ Cardinality(1..m) = m
        <5>1. IsFiniteSet(1..m) /\ Cardinality(1..m) = IF 1 > m THEN 0 ELSE m - 1 + 1
          BY FS_Interval
        <5>2. QED BY <5>1
      <4>3. IsFiniteSet(D) /\ Cardinality(D) <= m
        <5> HIDE DEF D
        <5>1. QED BY <4>2, FS_Subset
      <4>4. g \in Surjection(D, S)
        <5>1. \A s \in S : \E k \in 1..Len(demand) : Cheapest[k] = s
          BY CheapestIs DEF Listed, Bijection, Surjection
        <5>2. \A s \in S : \E j \in D : g[j] = s
          <6> TAKE s \in S
          <6>1. PICK k \in 1..Len(demand) : Cheapest[k] = s
            BY <5>1
          <6>2. k \in 1..m
            BY <4>1, <6>1
          <6>3. k \in D /\ g[k] = s
            BY <6>1, <6>2, DemandsAre
          <6>4. QED BY <6>3
        <5>3. g \in [D -> S]
          OBVIOUS
        <5> HIDE DEF D, g
        <5>4. QED BY <5>2, <5>3 DEF Surjection
      <4>5. Cardinality(S) <= Cardinality(D)
        <5> HIDE DEF D, g
        <5>1. QED BY <4>3, <4>4, FS_Surjection
      <4>6. Cardinality(D) \in Nat
        <5> HIDE DEF D, g
        <5>1. QED BY <4>3, FS_CardinalityType
      <4> HIDE DEF D
      <4>7. QED BY <4>3, <4>5, <4>6, <2>1
    <3> DEFINE s == Cheapest[k]
    <3>3. demand[Cheapest[m + 1]] <= demand[s]
      <4>1. CASE k = m + 1
        <5>1. Cheapest[m + 1] \in Trials
          BY <3>1, CheapestIs DEF Listed, Bijection, Injection
        <5>2. demand[Cheapest[m + 1]] \in Nat
          BY <5>1, DemandsAre
        <5>3. QED BY <4>1, <5>2
      <4>2. CASE k # m + 1
        <5>1. m + 1 < k
          BY <3>2, <4>2, DemandsAre
        <5>2. QED BY <5>1, <3>1, <3>2, CheapestIs DEF Listed
      <4>3. QED BY <4>1, <4>2
    <3> HIDE DEF s
    <3>4. s \in S /\ s \in Trials
      BY <3>2 DEF s
    <3>5. Cardinality(S \ {s}) = m /\ S \ {s} \in SUBSET Trials /\ Apart(S \ {s})
      <4>1. Cardinality(S \ {s}) = m
        BY <1>1, <2>1, <3>4, FS_RemoveElement
      <4>2. QED BY <4>1, <2>1
    <3>6. Used[m] <= Cardinality(Held(S \ {s}))
      <4> HIDE DEF Held, Apart
      <4>1. QED BY <3>5, <1>4
    <3>7. Held(S) = Held(S \ {s}) \cup A[s] /\ Held(S \ {s}) \cap A[s] = {}
      BY <2>1, <3>4
    <3>8. /\ IsFiniteSet(A[s]) /\ Cardinality(A[s]) \in Nat /\ demand[s] <= Cardinality(A[s])
          /\ IsFiniteSet(Held(S \ {s})) /\ Cardinality(Held(S \ {s})) \in Nat
      <4>1. A[s] \in SUBSET Devices /\ demand[s] <= Cardinality(A[s])
        BY <2>1, <3>4
      <4>2. \A t \in S \ {s} : A[t] \subseteq Devices
        BY <2>1
      <4> HIDE DEF Held
      <4>3. QED BY <4>1, <4>2, <1>2, FinitePools, FS_Subset, FS_CardinalityType
    <3> HIDE DEF Held, Apart
    <3>9. Cardinality(Held(S)) = Cardinality(Held(S \ {s})) + Cardinality(A[s]) - Cardinality({})
      BY <3>7, <3>8, FS_Union
    <3>10. Used[m + 1] = Used[m] + demand[Cheapest[m + 1]]
      <4>1. Used[m + 1] = Used[m + 1 - 1] + demand[Cheapest[m + 1]]
        BY <3>1, UsedIs
      <4>2. QED BY <4>1
    <3>11. Used[m] \in Nat /\ demand[s] \in Nat /\ demand[Cheapest[m + 1]] \in Nat
      <4>1. Cheapest[m + 1] \in Trials
        BY <3>1, CheapestIs DEF Listed, Bijection, Injection
      <4>2. m \in 0..Len(demand)
        BY <3>1, DemandsAre
      <4>3. QED BY <4>1, <4>2, <3>4, DemandsAre, UsedIs
    <3>12. Cardinality({}) = 0
      BY FS_EmptySet
    <3>13. QED BY <3>3, <3>6, <3>8, <3>9, <3>10, <3>11, <3>12
  <2> HIDE DEF Held, Apart
  <2>2. QED BY <2>1
<1>5. \A m \in Nat : m \in T
  <2> HIDE DEF T
  <2>1. QED BY <1>3, <1>4, SetInduction
<1>6. QED BY <1>5

LEMMA LaneCountIs ==
  ASSUME SchedTypeOK
  PROVE  LET bound == Smaller(Len(demand), Smaller(maxParallel, NumGpus))
         IN  /\ LaneCount \in 0..bound
             /\ \A k \in 0..bound : Used[k] <= NumGpus => k <= LaneCount
<1> DEFINE bound == Smaller(Len(demand), Smaller(maxParallel, NumGpus))
           K == {k \in 0..bound : Used[k] <= NumGpus}
<1>1. bound \in Nat /\ NumGpus \in Nat
  BY DemandsAre DEF SchedTypeOK, Smaller
<1>2. 0 \in K
  BY <1>1, UsedIs
<1>3. PICK m \in K : \A k \in K : k <= m
  <2>1. K \subseteq 0..bound /\ K # {}
    BY <1>2
  <2> HIDE DEF K, bound
  <2>2. QED BY <1>1, <2>1, LargestUpTo
<1>4. \A k, l \in K : k \in Nat /\ l \in Nat
  BY <1>1
<1>5. LaneCount \in K /\ \A k \in K : k <= LaneCount
  <2>1. LaneCount = Max(K)
    BY DEF LaneCount
  <2> HIDE DEF K
  <2>2. QED BY <2>1, <1>3, <1>4 DEF Max
<1> HIDE DEF bound
<1>6. QED BY <1>5 DEF bound

(* The strengthening: a lane for as many trials as the preflight counted;   *)
(* as many GPUs in a lease as were asked for; and a coordinator that waits  *)
(* without an error has just been refused a lease.                          *)
Packed ==
  /\ Len(lanePort) = LaneCount
  /\ \A i \in Leased : Cardinality(active[i].gpus) = demand[i]
  /\ pc = "await" /\ error = "none" => \/ Cardinality(Leased) >= Cap
                                       \/ \A i \in pending : ~Fits(i)

LEMMA PackedInit == SweepInit => Packed
<1> SUFFICES ASSUME SweepInit PROVE Packed
  OBVIOUS
<1>1. Leased = {}
  BY DEF SweepInit, SchedInit, Leased
<1>2. QED BY <1>1 DEF SweepInit, Packed

LEMMA PackedStep ==
  ASSUME SweepInv, Packed, [SoundNext]_sweepVars
  PROVE  Packed'
<1>1. LaneCount' = LaneCount /\ UNCHANGED <<demand, lanePort, maxParallel>>
  <2>1. [SchedNext]_schedVars
    BY StepOfScheduler DEF SweepInv
  <2>2. UNCHANGED <<demand, lanePort, maxParallel>>
    BY <2>1 DEF SchedNext, schedVars, Lease, Release, UpdateHostPort
  <2>3. Cheapest' = Cheapest
    BY <2>2 DEF Cheapest, Trials
  <2>4. Used' = Used
    BY <2>2, <2>3 DEF Used
  <2>5. QED BY <2>2, <2>4 DEF LaneCount
<1>2. (Len(lanePort) = LaneCount)'
  BY <1>1 DEF Packed
<1>3. \A i \in Leased' : Cardinality(active'[i].gpus) = demand'[i]
  <2>1. CASE UNCHANGED schedVars
    BY <2>1 DEF schedVars, Packed, Leased
  <2>2. ASSUME NEW i \in Trials, Lease(i) PROVE \A j \in Leased' : Cardinality(active'[j].gpus) = demand'[j]
    <3>1. PICK l \in FreeLanes, G \in SUBSET FreeDevices :
            /\ Cardinality(G) = demand[i]
            /\ active' = Insert(active, i, [gpus |-> G, lane |-> l, port |-> lanePort[l]])
      BY <2>2, LeaseEffect DEF SweepInv
    <3>2. QED BY <3>1, <1>1 DEF Insert, Leased, Packed
  <2>3. ASSUME NEW i \in Trials, Release(i) PROVE \A j \in Leased' : Cardinality(active'[j].gpus) = demand'[j]
    BY <2>3, <1>1 DEF Release, Restrict, Leased, Packed
  <2>4. ASSUME NEW i \in Trials, NEW p, UpdateHostPort(i, p)
        PROVE  \A j \in Leased' : Cardinality(active'[j].gpus) = demand'[j]
    <3>1. active \in [Leased -> Allocation]
      BY DEF SweepInv, SchedInv, SchedTypeOK
    <3>2. active' = [active EXCEPT ![i].port = p]
      BY <2>4 DEF UpdateHostPort
    <3>3. \A j \in Leased : active'[j].gpus = active[j].gpus
      BY <3>1, <3>2 DEF Allocation
    <3>4. Leased' = Leased
      BY <3>1, <3>2 DEF Leased
    <3>5. QED BY <3>3, <3>4, <1>1 DEF Packed
  <2>5. [SchedNext]_schedVars
    BY StepOfScheduler DEF SweepInv
  <2>6. QED BY <2>1, <2>2, <2>3, <2>4, <2>5 DEF SchedNext
<1>4. (pc = "await" /\ error = "none" => \/ Cardinality(Leased) >= Cap
                                         \/ \A i \in pending : ~Fits(i))'
  <2>1. CASE UNCHANGED <<schedVars, pc, error>>
    BY <2>1 DEF schedVars, Packed, Leased, Cap, Fits, FreeDevices, Devices, Smaller
  <2>2. CASE pc' # "await" \/ error' # "none"
    BY <2>2
  <2>3. ASSUME NEW i \in Trials, DispatchLease(i) PROVE pc' # "await" \/ error' # "none"
    <3>1. PICK l \in FreeLanes, G \in SUBSET FreeDevices :
            active' = Insert(active, i, [gpus |-> G, lane |-> l, port |-> lanePort[l]])
      BY <2>3, LeaseEffect DEF SweepInv, DispatchLease
    <3>2. QED BY <2>3, <3>1 DEF DispatchLease, Insert
  <2>4. CASE NothingToDispatch
    <3>1. UNCHANGED schedVars /\ (Cardinality(Leased) >= Cap \/ \A i \in pending : ~Fits(i))
      BY <2>4 DEF NothingToDispatch
    <3>2. QED BY <3>1 DEF schedVars, Leased, Cap, Fits, FreeDevices, Devices, Smaller
  <2>5. CASE LoopHead
    BY <2>5, <2>2 DEF LoopHead
  <2>6. CASE Spawns \/ GivesUp \/ LoopBreak \/ ReceiveTimeout \/ Receives \/ CommitDone \/ Return
    BY <2>6, <2>2 DEF Spawns, GivesUp, LoopBreak, ReceiveTimeout, Receives, CommitDone, Return, Abort
  <2>7. CASE Commit
    BY <2>7, <2>2 DEF Commit, Abort
  <2>8. ASSUME NEW i \in Trials, Worker(i) PROVE UNCHANGED <<schedVars, pc, error>>
    BY <2>8 DEF Worker, LoadEngine, EngineReady, Conclude, ConcludeOrphaned, Finish,
                UnchangedByWorkers, coordinatorVars
  <2>9. CASE OperatorCancels \/ ForeignPorts
    BY <2>9, <2>1 DEF OperatorCancels, ForeignPorts, coordinatorVars
  <2>10. CASE UNCHANGED sweepVars
    BY <2>10, <2>1 DEF sweepVars, coordinatorVars
  <2>11. QED
    BY <2>1, <2>2, <2>3, <2>4, <2>5, <2>6, <2>7, <2>8, <2>9, <2>10 DEF SoundNext, SoundCoordinator
<1>5. QED BY <1>2, <1>3, <1>4 DEF Packed

(* When the coordinator goes to sleep, no pending trial would fit: neither  *)
(* the lane count of the preflight (packable_lane_count) nor the backfill   *)
(* of `next` leaves GPUs idle.  Were a trial to fit while every lane is     *)
(* taken, it would make one trial more than the preflight thought possible. *)
THEOREM SweepsConserveWork == SweepSpec => []WorkConserving
<1>1. ASSUME SweepInv, Packed PROVE WorkConserving
  <2> SUFFICES ASSUME pc = "await", error = "none", NEW i \in pending, Fits(i),
                      Cardinality(Leased) < Smaller(maxParallel, NumGpus)
               PROVE  FALSE
    <3>1. Cardinality(Leased) \in Nat /\ Smaller(maxParallel, NumGpus) \in Nat
      BY <1>1, FinitePools, DemandsAre DEF SweepInv, SchedInv, SchedTypeOK, Smaller
    <3>2. QED BY <3>1 DEF WorkConserving
  <2> DEFINE limit == Smaller(maxParallel, NumGpus)
             m == Cardinality(Leased)
             S == Leased \cup {i}
             A == [s \in S |-> IF s = i THEN FreeDevices ELSE active[s].gpus]
  <2>1. SchedTypeOK /\ LeaseExclusive
    BY <1>1 DEF SweepInv, SchedInv
  <2>2. m \in Nat /\ limit \in Nat /\ LaneCount \in Nat /\ Len(demand) \in Nat /\ m < limit
    BY <2>1, FinitePools, DemandsAre, LaneCountIs DEF SchedTypeOK, Smaller
  <2>3. m >= LaneCount
    <3>1. m >= Cap
      BY <1>1 DEF Packed
    <3>2. Cap = Smaller(limit, LaneCount)
      BY <1>1 DEF Packed, Cap
    <3> HIDE DEF limit, m
    <3>3. QED BY <3>1, <3>2, <2>2 DEF Smaller
  <2>4. i \notin Leased /\ S \in SUBSET Trials
    BY <2>1 DEF SchedTypeOK
  <2>5. Cardinality(S) = m + 1 /\ m + 1 <= Len(demand)
    <3>1. Cardinality(S) = m + 1
      BY <2>1, <2>4, FinitePools, FS_AddElement
    <3>2. Cardinality(S) <= Cardinality(Trials) /\ Cardinality(Trials) = Len(demand)
      <4>1. Trials = 1..Len(demand) /\ Len(demand) \in Nat
        BY <2>1, DemandsAre
      <4>2. Cardinality(1..Len(demand)) = IF 1 > Len(demand) THEN 0 ELSE Len(demand) - 1 + 1
        BY <4>1, FS_Interval
      <4>3. Cardinality(S) <= Cardinality(Trials)
        BY <2>1, <2>4, FinitePools, FS_Subset
      <4>4. QED BY <4>1, <4>2, <4>3
    <3>3. QED BY <3>1, <3>2
  <2>6. \A s \in S : A[s] \subseteq Devices /\ demand[s] <= Cardinality(A[s])
    <3>1. A[i] = FreeDevices /\ FreeDevices \subseteq Devices /\ demand[i] <= Cardinality(FreeDevices)
      BY DEF Fits, FreeDevices
    <3>2. ASSUME NEW s \in Leased PROVE A[s] \subseteq Devices /\ demand[s] <= Cardinality(A[s])
      <4>1. A[s] = active[s].gpus /\ active[s].gpus \subseteq Devices
        BY <2>1, <2>4 DEF SchedTypeOK, Allocation
      <4>2. Cardinality(active[s].gpus) = demand[s] /\ demand[s] \in Nat
        BY <1>1, <2>1, <2>4, DemandsAre DEF Packed
      <4>3. QED BY <4>1, <4>2
    <3>3. QED BY <3>1, <3>2
  <2>7. \A s, t \in S : s # t => A[s] \cap A[t] = {}
    <3>1. \A s \in Leased : A[s] = active[s].gpus /\ A[i] = FreeDevices
      BY <2>4
    <3>2. \A s \in Leased : active[s].gpus \cap FreeDevices = {}
      BY DEF FreeDevices
    <3> HIDE DEF A
    <3>3. QED BY <3>1, <3>2, <2>1 DEF LeaseExclusive
  <2>8. Used[m + 1] <= Cardinality(UNION {A[s] : s \in S})
    <3> HIDE DEF A, S, m
    <3>1. m + 1 \in Nat
      BY <2>2
    <3>2. QED BY <2>1, <2>4, <2>5, <2>6, <2>7, <3>1, CheapestNeedLeast
  <2>9. Cardinality(UNION {A[s] : s \in S}) <= NumGpus /\ Cardinality(UNION {A[s] : s \in S}) \in Nat
    <3>1. UNION {A[s] : s \in S} \in SUBSET Devices
      BY <2>6
    <3>2. Cardinality(Devices) = NumGpus /\ IsFiniteSet(Devices)
      <4>1. NumGpus \in Nat
        BY <2>1, DemandsAre
      <4>2. IsFiniteSet(1..NumGpus) /\ Cardinality(1..NumGpus) = IF 1 > NumGpus THEN 0 ELSE NumGpus - 1 + 1
        BY <4>1, FS_Interval
      <4>3. QED BY <4>1, <4>2 DEF Devices
    <3> HIDE DEF A, S
    <3>3. QED BY <3>1, <3>2, FS_Subset, FS_CardinalityType
  <2>10. m + 1 \in 0..Smaller(Len(demand), limit)
    <3> HIDE DEF m, limit
    <3>1. QED BY <2>2, <2>5 DEF Smaller
  <2>11. Used[m + 1] \in Nat /\ NumGpus \in Nat
    BY <2>1, <2>2, <2>5, UsedIs, DemandsAre
  <2>12. Used[m + 1] <= NumGpus
    <3> HIDE DEF A, S, m
    <3>1. QED BY <2>8, <2>9, <2>11
  <2>13. m + 1 <= LaneCount
    <3> HIDE DEF m
    <3>1. QED BY <2>1, <2>10, <2>12, LaneCountIs
  <2> HIDE DEF m
  <2>14. QED BY <2>2, <2>3, <2>13
<1>2. SweepInit => Packed
  BY PackedInit
<1>3. SweepInv /\ Packed /\ [SweepNext]_sweepVars => Packed'
  BY PackedStep, SoundStep
<1>4. QED BY <1>1, <1>2, <1>3, SweepInvariant, PTL DEF SweepSpec
-----------------------------------------------------------------------------
(* While nothing has failed every trial is pending, leased or announced,    *)
(* what is announced is committed or waits for its turn, and whenever the   *)
(* coordinator has left the commit loop nothing waits whose turn it is.     *)
Accounted ==
  error = "none" =>
    /\ \A i \in Trials : i \in pending \/ i \in Leased \/ i \in announced
    /\ \A i \in announced : i < nextCommit \/ i \in completed
    /\ pc # "commit" => nextCommit \notin completed
    /\ pc \in {"join", "returned"} => pending = {}

Sound == Honest /\ Packed /\ Accounted /\ NeverStumbles

LEMMA AccountedStep ==
  ASSUME Honest, Accounted, [SoundNext]_sweepVars
  PROVE  Accounted'
<1>1. Trials' = Trials /\ SweepInv
  BY DemandsStay DEF Honest
<1>2. SUFFICES ASSUME error' = "none"
               PROVE  /\ \A i \in Trials : i \in pending' \/ i \in Leased' \/ i \in announced'
                      /\ \A i \in announced' : i < nextCommit' \/ i \in completed'
                      /\ pc' # "commit" => nextCommit' \notin completed'
                      /\ pc' \in {"join", "returned"} => pending' = {}
  BY <1>1 DEF Accounted
<1>3. CASE UNCHANGED sweepVars \/ OperatorCancels \/ ForeignPorts \/ \E i \in Trials : Worker(i)
  <2>1. UNCHANGED <<error, pc, pending, active, announced, completed, nextCommit>>
    BY <1>3 DEF sweepVars, schedVars, coordinatorVars, commitVars, OperatorCancels, ForeignPorts,
                Worker, LoadEngine, EngineReady, Conclude, ConcludeOrphaned, Finish, UnchangedByWorkers
  <2>2. QED BY <1>2, <2>1 DEF Accounted, Leased
<1>4. CASE LoopHead \/ NothingToDispatch \/ LoopBreak \/ ReceiveTimeout \/ CommitDone \/ Return
  <2>1. error = "none" /\ UNCHANGED <<pending, active, announced, completed, nextCommit>>
    BY <1>2, <1>4 DEF LoopHead, NothingToDispatch, LoopBreak, ReceiveTimeout, CommitDone, Return,
                      schedVars, commitVars
  <2>2. pc' # "commit" /\ nextCommit \notin completed
    BY <1>4, <2>1 DEF LoopHead, NothingToDispatch, LoopBreak, ReceiveTimeout, CommitDone, Return,
                      Committable, Accounted
  <2>3. pc' \in {"join", "returned"} => pending = {}
    BY <1>2, <1>4, <2>1 DEF LoopHead, NothingToDispatch, LoopBreak, ReceiveTimeout, CommitDone, Return,
                            Accounted
  <2>4. QED BY <2>1, <2>2, <2>3 DEF Accounted, Leased
<1>5. ASSUME NEW i \in Trials, DispatchLease(i)
      PROVE  /\ \A j \in Trials : j \in pending' \/ j \in Leased' \/ j \in announced'
             /\ \A j \in announced' : j < nextCommit' \/ j \in completed'
             /\ pc' # "commit" => nextCommit' \notin completed'
             /\ pc' \in {"join", "returned"} => pending' = {}
  <2>1. PICK a : active' = Insert(active, i, a)
    BY <1>1, <1>5, LeaseEffect DEF SweepInv, DispatchLease
  <2>2. Leased' = Leased \cup {i} /\ pending' = pending \ {i}
    BY <1>5, <2>1 DEF Insert, Leased, DispatchLease, Lease, Without
  <2>3. /\ error = "none" /\ UNCHANGED <<announced, completed, nextCommit>>
        /\ pc = "dispatch" /\ pc' \in {"reserve", "await"}
    BY <1>2, <1>5 DEF DispatchLease, commitVars
  <2>4. QED BY <2>2, <2>3 DEF Accounted
<1>6. CASE Spawns
  <2>1. /\ error = "none" /\ UNCHANGED <<pending, announced, completed, nextCommit>>
        /\ pc = "reserve" /\ pc' = "dispatch" /\ Leased' = Leased
    BY <1>2, <1>6 DEF Spawns, UpdateHostPort, commitVars, Leased
  <2>2. QED BY <2>1 DEF Accounted
<1>7. CASE GivesUp
  BY <1>2, <1>7 DEF GivesUp, Abort
<1>8. CASE Receives
  <2> DEFINE i == Head(channel)
  <2>1. /\ error = "none" /\ UNCHANGED <<pending, nextCommit>> /\ pc' = "commit"
        /\ announced' = announced \cup {i} /\ completed' = completed \cup {i}
        /\ Leased' = Leased \ {i}
    BY <1>2, <1>8 DEF Receives, Draining, Abort, Release, Restrict, Leased
  <2> HIDE DEF i
  <2>2. QED BY <2>1 DEF Accounted
<1>9. CASE Commit
  <2>1. /\ error = "none" /\ UNCHANGED <<pending, announced>> /\ pc' = "commit"
        /\ completed' = completed \ {nextCommit} /\ nextCommit' = nextCommit + 1
        /\ Leased' = Leased
    BY <1>2, <1>9 DEF Commit, Abort, schedVars, Leased
  <2>2. announced \subseteq Int /\ nextCommit \in Int
    <3>1. announced \subseteq 1..Len(demand) /\ Len(demand) \in Nat
      BY DemandsAre DEF Honest, Told, SweepInv, SchedInv
    <3>2. QED BY <3>1 DEF Honest, Committed
  <2>3. \A i \in announced : i < nextCommit + 1 \/ i \in completed \ {nextCommit}
    BY <2>1, <2>2 DEF Accounted
  <2>4. QED BY <2>1, <2>3 DEF Accounted
<1>10. QED
  BY <1>2, <1>3, <1>4, <1>5, <1>6, <1>7, <1>8, <1>9 DEF SoundNext, SoundCoordinator

(* While no lease is out every GPU and every lane is free, and there is a   *)
(* lane: any trial can be placed.                                           *)
LEMMA AnyTrialFits ==
  ASSUME SweepInv, Packed, Leased = {}, NEW i \in pending
  PROVE  Cardinality(Leased) < Cap /\ Fits(i)
<1>1. SchedTypeOK /\ i \in Trials
  BY DEF SweepInv, SchedInv, SchedTypeOK
<1>2. /\ Trials = 1..Len(demand) /\ Len(demand) \in Nat \ {0}
      /\ NumGpus \in Nat \ {0} /\ maxParallel \in Nat \ {0}
      /\ \A j \in Trials : demand[j] \in Nat /\ demand[j] <= NumGpus
  BY <1>1, DemandsAre, SchedulerAssumption DEF SchedTypeOK, Devices
<1>3. Cardinality(Leased) = 0
  BY FS_EmptySet
<1>4. FreeDevices = 1..NumGpus
  BY DEF FreeDevices, Devices
<1>5. Cardinality(FreeDevices) = NumGpus
  BY <1>2, <1>4, FS_Interval
<1>6. Used[1] <= NumGpus
  <2>1. 1 \in Trials /\ 1 \in 1..Len(demand) /\ 0 \in 0..Len(demand)
    BY <1>2
  <2>2. Cheapest[1] \in Trials
    BY <1>1, <2>1, CheapestIs DEF Listed, Bijection, Injection
  <2>3. Used[1] = Used[1 - 1] + demand[Cheapest[1]] /\ Used[0] = 0
    BY <1>1, <2>1, UsedIs
  <2>4. QED BY <1>2, <2>2, <2>3
<1>7. LaneCount \in Nat /\ 1 <= LaneCount
  <2> DEFINE bound == Smaller(Len(demand), Smaller(maxParallel, NumGpus))
  <2>1. bound \in Nat /\ 1 \in 0..bound
    BY <1>2 DEF Smaller
  <2> HIDE DEF bound
  <2>2. LaneCount \in 0..bound /\ (Used[1] <= NumGpus => 1 <= LaneCount)
    BY <1>1, <2>1, LaneCountIs DEF bound
  <2>3. QED BY <1>6, <2>1, <2>2
<1>8. 1 <= Cap /\ Cap \in Nat
  BY <1>2, <1>7 DEF Cap, Smaller, Packed
<1>9. QED BY <1>1, <1>2, <1>3, <1>5, <1>8 DEF Fits

LEMMA StumblesNever ==
  ASSUME Sound, [SoundNext]_sweepVars
  PROVE  NeverStumbles'
<1>1. Honest /\ SweepInv /\ Packed /\ Accounted /\ error # "defect"
  BY DEF Sound, Honest, NeverStumbles
<1>2. CASE LoopBreak
  <2>1. SUFFICES ASSUME error = "none", NEW i \in pending, pc = "await", Leased = {} PROVE FALSE
    BY <1>1, <1>2 DEF LoopBreak, Idle, NeverStumbles
  <2>2. Cardinality(Leased) < Cap /\ Fits(i)
    BY <1>1, <2>1, AnyTrialFits
  <2>3. Cardinality(Leased) \in Nat /\ Cap \in Int
    <3>1. SchedTypeOK
      BY <1>1 DEF SweepInv, SchedInv
    <3>2. Cardinality(Leased) \in Nat
      BY <3>1, FinitePools
    <3>3. Cap \in Int
      BY <3>1, DemandsAre DEF Cap, Smaller, SchedTypeOK
    <3>4. QED BY <3>2, <3>3
  <2>4. QED BY <1>1, <2>1, <2>2, <2>3 DEF Packed
<1>3. CASE Return
  <2>1. SUFFICES ASSUME error = "none", nextCommit # Len(demand) + 1, pc = "join" PROVE FALSE
    BY <1>1, <1>3 DEF Return, NeverStumbles
  <2>2. pending = {} /\ Leased = {} /\ nextCommit \notin completed
    <3>1. Leased = {}
      BY <1>1, <2>1, Zenon DEF Honest, Places
    <3>2. QED BY <1>1, <2>1, <3>1 DEF Accounted
  <2>3. nextCommit \in Trials
    <3>1. Trials = 1..Len(demand) /\ Len(demand) \in Nat
      BY <1>1, DemandsAre DEF SweepInv, SchedInv
    <3>2. nextCommit \in 1..Len(demand) + 1
      BY <1>1 DEF Honest, Committed
    <3>3. QED BY <2>1, <3>1, <3>2
  <2>4. nextCommit \in announced
    BY <1>1, <2>1, <2>2, <2>3 DEF Accounted
  <2>5. nextCommit < nextCommit \/ nextCommit \in completed
    BY <1>1, <2>1, <2>4 DEF Accounted
  <2>6. nextCommit \in Int
    BY <1>1 DEF Honest, Committed
  <2>7. QED BY <2>2, <2>5, <2>6
<1>4. CASE LoopHead \/ NothingToDispatch \/ Spawns \/ GivesUp \/ ReceiveTimeout
           \/ Receives \/ Commit \/ CommitDone
  BY <1>1, <1>4 DEF LoopHead, NothingToDispatch, Spawns, GivesUp, ReceiveTimeout, Receives, Commit,
                    CommitDone, Abort, NeverStumbles
<1>5. CASE UNCHANGED error
  BY <1>1, <1>5 DEF NeverStumbles
<1>6. QED
  BY <1>2, <1>3, <1>4, <1>5
  DEF SoundNext, SoundCoordinator, DispatchLease, Worker, LoadEngine, EngineReady, Conclude,
      ConcludeOrphaned, Finish, UnchangedByWorkers, OperatorCancels, ForeignPorts, sweepVars,
      coordinatorVars

(* No sweep ever raises one of the errors the code keeps for what should    *)
(* not happen: its scheduler refuses none of its calls, no trial is         *)
(* dispatched twice, one that no lease holds back can be placed, and a      *)
(* sweep that ends without an error has committed every trial.              *)
THEOREM SweepsNeverStumble == SweepSpec => []NeverStumbles
<1>1. SweepInit => Sound
  <2>1. SUFFICES ASSUME SweepInit PROVE Accounted /\ NeverStumbles
    BY HonestInit, PackedInit DEF Sound
  <2>2. QED BY <2>1 DEF SweepInit, SchedInit, Accounted, NeverStumbles
<1>2. Sound /\ [SweepNext]_sweepVars => Sound'
  <2>1. SUFFICES ASSUME Sound, [SweepNext]_sweepVars, [SoundNext]_sweepVars PROVE Sound'
    BY SoundStep DEF Sound, Honest
  <2>2. SweepInv' /\ SweepInv
    BY <2>1, SweepStepInv DEF Sound, Honest
  <2>3. Honest' /\ Packed' /\ Accounted'
    BY <2>1, <2>2, PlacesStep, HandedOutStep, ToldStep, CommittedStep, PackedStep, AccountedStep
    DEF Sound, Honest
  <2>4. QED BY <2>1, <2>3, StumblesNever DEF Sound
<1>3. QED BY <1>1, <1>2, PTL DEF SweepSpec, Sound
=============================================================================
