------------------------- MODULE ManagedProcessProofs -------------------------
(***************************************************************************)
(* Proofs about a managed process, for any number of descendants and any   *)
(* combination of faults: its types, that the end of a handle is the end   *)
(* of the child, and what an Ok of wait stands for.                        *)
(***************************************************************************)
EXTENDS ManagedProcess, TLAPS

(* What the operating system and the other threads do, the owner's calls   *)
(* aside.                                                                  *)
World ==
    \/ Life \/ (\E p \in Procs : DieOfTerm(p))
    \/ (\E s \in Streams : DrainEnds(s) \/ DrainFails(s))
    \/ TryWait \/ Cancel \/ DeadlinePasses

Calls == Wait \/ Terminate \/ Drop

LEMMA Steps == [Next]_vars => World \/ Calls \/ Owner \/ UNCHANGED vars
BY DEF Next, World, Calls
-------------------------------------------------------------------------------
LEMMA InitTypes == Init => TypeOK
BY ProcessAssumption DEF Init, TypeOK, Procs, Streams, Points, Stops, Outcomes

(* Death takes the pipes along and settles the status of the child. *)
LEMMA GoneTypes ==
  ASSUME TypeOK, NEW P, P \subseteq alive, Gone(P),
         UNCHANGED <<started, stubborn, drain, cancelled, late, op, stop, outcome, cleanup, struck>>,
         termed' \subseteq started, pc' \in Points \ {"new"}, started # {},
         reaped' \in BOOLEAN, reaped' => reaped \/ P = alive
  PROVE  TypeOK'
<1>1. /\ holders' \in [Streams -> SUBSET Procs]
      /\ \A s \in Streams : holders'[s] \subseteq alive'
  BY DEF Gone, TypeOK
<1>2. status' \in {"none", "success", "failure"}
      /\ (status' = "none" => (Leader \in alive' \/ started' = {}))
      /\ (status' # "none" => Leader \notin alive' /\ Leader \in started')
  BY DEF Gone, TypeOK
<1>3. reaped' \in BOOLEAN /\ (reaped' => status' # "none")
  BY <1>2 DEF Gone, TypeOK
<1>4. QED BY <1>1, <1>2, <1>3 DEF Gone, TypeOK, Points

LEMMA WorldTypes ==
  ASSUME TypeOK, World
  PROVE  TypeOK'
<1>1. ASSUME NEW p \in Procs, NEW q \in Procs, Fork(p, q) PROVE TypeOK'
  <2>1. /\ holders' \in [Streams -> SUBSET Procs]
        /\ \A s \in Streams : holders'[s] \subseteq alive'
    BY <1>1 DEF Fork, TypeOK
  <2>2. QED BY <1>1, <2>1 DEF Fork, TypeOK, childVars, ownerVars
<1>2. ASSUME NEW p \in Procs, NEW s \in Streams, CloseOutput(p, s) PROVE TypeOK'
  BY <1>2 DEF CloseOutput, TypeOK, childVars, ownerVars
<1>3. ASSUME NEW p \in Procs, Exit(p) PROVE TypeOK'
  <2>1. /\ holders' \in [Streams -> SUBSET Procs]
        /\ \A s \in Streams : holders'[s] \subseteq alive'
    BY <1>3 DEF Exit, TypeOK
  <2>2. QED BY <1>3, <2>1 DEF Exit, TypeOK, ownerVars
<1>4. ASSUME NEW p \in Procs, DieOfTerm(p) PROVE TypeOK'
  <2>1. started # {} /\ pc # "new"
    BY <1>4 DEF DieOfTerm, TypeOK
  <2>2. QED BY <1>4, <2>1, GoneTypes DEF DieOfTerm, TypeOK, ownerVars
<1>5. ASSUME NEW s \in Streams, DrainEnds(s) \/ DrainFails(s) PROVE TypeOK'
  <2>1. CASE DrainEnds(s)
    BY <2>1 DEF DrainEnds, TypeOK, groupVars, childVars, ownerVars
  <2>2. CASE DrainFails(s)
    BY <2>2 DEF DrainFails, TypeOK, groupVars, childVars, ownerVars
  <2>3. QED BY <1>5, <2>1, <2>2
<1>6. CASE TryWait
  BY <1>6 DEF TryWait, TypeOK, groupVars, ownerVars
<1>7. CASE Cancel \/ DeadlinePasses
  <2>1. CASE Cancel
    BY <2>1 DEF Cancel, TypeOK, groupVars, childVars, ownerVars
  <2>2. CASE DeadlinePasses
    BY <2>2 DEF DeadlinePasses, TypeOK, groupVars, childVars, ownerVars
  <2>3. QED BY <1>7, <2>1, <2>2
<1>8. CASE Life
  BY <1>8, <1>1, <1>2, <1>3 DEF Life
<1>9. CASE \E p \in Procs : DieOfTerm(p)
  BY <1>9, <1>4
<1>10. CASE \E s \in Streams : DrainEnds(s) \/ DrainFails(s)
  BY <1>10, <1>5
<1>11. QED BY <1>6, <1>7, <1>8, <1>9, <1>10 DEF World

LEMMA OwnerTypes ==
  ASSUME TypeOK, Owner \/ Calls
  PROVE  TypeOK'
<1> USE DEF Points, Stops, Outcomes
<1>1. CASE SpawnRefused
  BY <1>1 DEF SpawnRefused, TypeOK, ownerRest, groupVars, childVars
<1>2. CASE Spawn
  <2>1. holders' \in [Streams -> SUBSET Procs] /\ \A s \in Streams : holders'[s] \subseteq alive'
    BY <1>2 DEF Spawn, Procs
  <2>2. QED BY <1>2, <2>1 DEF Spawn, TypeOK, Procs, childVars
<1>3. CASE PollExited
  BY <1>3 DEF PollExited, TypeOK, groupVars
<1>4. CASE PollRunning
  BY <1>4 DEF PollRunning, TypeOK, ownerRest, groupVars, childVars
<1>5. CASE PollFails
  BY <1>5 DEF PollFails, TypeOK, ownerRest, groupVars, childVars
<1>6. CASE CheckStop
  BY <1>6 DEF CheckStop, TypeOK, ownerRest, groupVars, childVars
<1>7. CASE TermGroup \/ TermRest
  BY <1>7 DEF TermGroup, TermRest, SendTerm, TypeOK, childVars
<1>8. CASE GraceReaps
  BY <1>8 DEF GraceReaps, TypeOK, groupVars
<1>9. CASE GraceExpires
  BY <1>9 DEF GraceExpires, TypeOK, ownerRest, groupVars, childVars
<1>10. CASE SignalFails
  <2>1. stop' \in Stops /\ struck' \subseteq Faults
    BY <1>10 DEF SignalFails, TypeOK
  <2>2. QED BY <1>10, <2>1 DEF SignalFails, TypeOK, ownerRest, groupVars, childVars
<1>11. CASE KillGroup \/ KillRest
  <2>1. ASSUME NEW from \in {"kill", "restKill"}, SendKill(from, "stdout") PROVE TypeOK'
    BY <2>1, GoneTypes DEF SendKill, TypeOK
  <2>2. QED BY <1>11, <2>1 DEF KillGroup, KillRest
<1>12. CASE JoinStdout
  BY <1>12 DEF JoinStdout, Join, TypeOK, ownerRest, groupVars, childVars
<1>13. CASE JoinStderr
  <2>1. Verdict \in Outcomes
    BY DEF Verdict, TypeOK
  <2>2. outcome' \in Outcomes /\ struck' \subseteq Faults
    BY <1>13, <2>1 DEF JoinStderr, TypeOK
  <2>3. QED BY <1>13, <2>2 DEF JoinStderr, TypeOK, ownerRest, groupVars, childVars
<1>14. CASE CleanUp
  BY <1>14 DEF CleanUp, TypeOK, ownerRest, groupVars, childVars
<1>15. CASE Calls
  BY <1>15 DEF Calls, Wait, Terminate, Drop, Call, TypeOK, ownerRest, groupVars, childVars
<1>16. QED BY <1>1, <1>2, <1>3, <1>4, <1>5, <1>6, <1>7,
              <1>8, <1>9, <1>10, <1>11, <1>12, <1>13, <1>14, <1>15 DEF Owner

(* runtime/process.rs as a whole keeps its types: in particular a handle   *)
(* says "reaped" only of a child that has ended.                           *)
THEOREM ProcessTypes == Spec => []TypeOK
<1>1. TypeOK /\ [Next]_vars => TypeOK'
  <2>1. SUFFICES ASSUME TypeOK, [Next]_vars PROVE TypeOK'
    OBVIOUS
  <2>2. CASE UNCHANGED vars
    BY <2>1, <2>2 DEF TypeOK, vars, groupVars, childVars, ownerVars
  <2>3. QED BY <2>1, <2>2, Steps, WorldTypes, OwnerTypes
<1>2. QED BY <1>1, InitTypes, PTL DEF Spec
-------------------------------------------------------------------------------
(* The strengthening.  A drain that ended saw the last holder go, and none *)
(* can come back, because only a holder hands the pipe on.                 *)
PipesStayShut ==
    /\ started = {} => \A s \in Streams : drain[s] = "reading"
    /\ \A s \in Streams : drain[s] = "ended" => holders[s] = {}

Before == {"new", "idle", "poll", "check"}
Ending == {"stdout", "stderr", "cleanup", "done"}

(* Where the owner stands and why; a stop of "none" past the signals is    *)
(* that of terminate or drop.                                              *)
Stages ==
    /\ pc \in {"new", "idle"} => op = "none"
    /\ op = "none" => pc \in {"new", "idle", "done"}
    /\ pc \in Before => stop = "none"
    /\ pc \in {"restTerm", "restKill"} => stop = "exited"
    /\ pc \in {"term", "grace", "kill"} => stop # "exited" /\ (op = "wait" => stop # "none")
    /\ pc \in Ending /\ op = "wait" => stop # "none"

(* The child is reaped before its output is joined, where nothing failed. *)
Reaping ==
    /\ stop = "exited" => reaped
    /\ stop = "exited" /\ pc \in Ending => alive = {}
    /\ pc \in Ending /\ op # "none" /\ stop \in {"none", "exited"} => reaped
    /\ pc \in Ending /\ op # "none" /\ struck \cap {"poll", "signal"} = {} => reaped

(* A child that ended of itself was not signalled before that. *)
Unsignalled ==
    /\ pc \in Before \cup {"restTerm"} => termed = {}
    /\ stop = "exited" => Leader \notin termed

Joins ==
    /\ pc \in {"stderr", "cleanup", "done"} /\ op # "none" => drain["stdout"] # "reading"
    /\ pc \in {"cleanup", "done"} /\ op # "none" => drain["stderr"] # "reading"
    /\ outcome = "ok" => pc \in {"cleanup", "done"}


Parts == PipesStayShut /\ Stages /\ Reaping /\ Unsignalled /\ Joins /\ OkIsOwnExit

LEMMA InitParts == Init => Parts
BY DEF Init, Parts, PipesStayShut, Stages, Reaping, Unsignalled, Joins, OkIsOwnExit, Before,
       Ending, Streams

(* What goes on outside the owner: only pipes, lives and drains change, and *)
(* each of them only towards its end.                                       *)
Onward ==
    /\ UNCHANGED <<termed, ownerVars>>
    /\ started # {} => started' # {}
    /\ started = {} => UNCHANGED <<started, drain>>
    /\ reaped => reaped'
    /\ status = "success" => status' = "success"
    /\ alive = {} => alive' = {}
    /\ \A s \in Streams : drain[s] # "reading" => drain'[s] = drain[s]
    /\ struck \cap {"poll", "signal"} = struck' \cap {"poll", "signal"}
    /\ \A s \in Streams : drain'[s] = "ended" => holders'[s] = {}

LEMMA WorldGoesOnward ==
  ASSUME TypeOK, PipesStayShut, World
  PROVE  Onward
<1> USE DEF TypeOK, PipesStayShut
<1>1. ASSUME NEW p \in Procs, NEW q \in Procs, Fork(p, q) PROVE Onward
  BY <1>1 DEF Fork, Onward, childVars
<1>2. ASSUME NEW p \in Procs, NEW s \in Streams, CloseOutput(p, s) PROVE Onward
  BY <1>2 DEF CloseOutput, Onward, childVars
<1>3. ASSUME NEW p \in Procs, Exit(p) PROVE Onward
  BY <1>3 DEF Exit, Onward
<1>4. ASSUME NEW p \in Procs, DieOfTerm(p) PROVE Onward
  BY <1>4 DEF DieOfTerm, Gone, Onward
<1>5. ASSUME NEW s \in Streams, DrainEnds(s) PROVE Onward
  BY <1>5 DEF DrainEnds, Onward, groupVars, childVars
<1>6. ASSUME NEW s \in Streams, DrainFails(s) PROVE Onward
  BY <1>6 DEF DrainFails, Onward, groupVars, childVars
<1>7. CASE TryWait
  BY <1>7 DEF TryWait, Onward, groupVars
<1>8. CASE Cancel
  BY <1>8 DEF Cancel, Onward, groupVars, childVars
<1>9. CASE DeadlinePasses
  BY <1>9 DEF DeadlinePasses, Onward, groupVars, childVars
<1>10. CASE Life
  BY <1>10, <1>1, <1>2, <1>3 DEF Life
<1>11. CASE \E p \in Procs : DieOfTerm(p)
  BY <1>11, <1>4
<1>12. CASE \E s \in Streams : DrainEnds(s) \/ DrainFails(s)
  BY <1>12, <1>5, <1>6
<1>13. QED BY <1>7, <1>8, <1>9, <1>10, <1>11, <1>12 DEF World

LEMMA OnwardParts ==
  ASSUME TypeOK, Parts, Onward
  PROVE  Parts'
<1> USE DEF Parts, Onward, ownerVars
<1>1. PipesStayShut'
  BY DEF PipesStayShut
<1>2. Stages'
  BY DEF Stages, Before, Ending
<1>3. Reaping'
  BY DEF Reaping, Ending
<1>4. Unsignalled'
  BY DEF Unsignalled, Before
<1>5. Joins'
  BY DEF Joins, Streams
<1>6. OkIsOwnExit'
  BY DEF OkIsOwnExit
<1>7. QED BY <1>1, <1>2, <1>3, <1>4, <1>5, <1>6

(* The owner's steps, until the output is joined. *)
LEMMA EarlyParts ==
  ASSUME TypeOK, Parts,
         SpawnRefused \/ Spawn \/ Calls \/ PollExited \/ PollRunning \/ PollFails \/ CheckStop
  PROVE  Parts'
<1> USE DEF Parts, PipesStayShut, Stages, Reaping, Unsignalled, Joins, OkIsOwnExit, Before,
            Ending, TypeOK
<1>1. CASE SpawnRefused
  BY <1>1 DEF SpawnRefused, ownerRest, groupVars, childVars
<1>2. CASE Spawn
  BY <1>2 DEF Spawn, childVars
<1>3. CASE Calls
  BY <1>3 DEF Calls, Wait, Terminate, Drop, Call, ownerRest, groupVars, childVars
<1>4. CASE PollExited
  BY <1>4 DEF PollExited, groupVars
<1>5. CASE PollRunning
  BY <1>5 DEF PollRunning, ownerRest, groupVars, childVars
<1>6. CASE PollFails
  BY <1>6 DEF PollFails, ownerRest, groupVars, childVars
<1>7. CASE CheckStop
  BY <1>7 DEF CheckStop, ownerRest, groupVars, childVars
<1>8. QED BY <1>1, <1>2, <1>3, <1>4, <1>5, <1>6, <1>7

(* The signals.  SIGTERM for the rest of the group finds the child dead. *)
LEMMA SignalParts ==
  ASSUME TypeOK, Parts,
         TermGroup \/ GraceReaps \/ GraceExpires \/ KillGroup \/ SignalFails \/ TermRest \/ KillRest
  PROVE  Parts'
<1> USE DEF Parts, PipesStayShut, Stages, Reaping, Unsignalled, Joins, OkIsOwnExit, Before,
            Ending, TypeOK
<1>1. CASE TermGroup
  BY <1>1 DEF TermGroup, SendTerm, childVars
<1>2. CASE GraceReaps
  BY <1>2 DEF GraceReaps, groupVars
<1>3. CASE GraceExpires
  BY <1>3 DEF GraceExpires, ownerRest, groupVars, childVars
<1>4. CASE KillGroup
  BY <1>4 DEF KillGroup, SendKill, Gone
<1>5. CASE SignalFails
  BY <1>5 DEF SignalFails, ownerRest, groupVars, childVars
<1>6. CASE TermRest
  BY <1>6 DEF TermRest, SendTerm, childVars
<1>7. CASE KillRest
  BY <1>7 DEF KillRest, SendKill, Gone
<1>8. QED BY <1>1, <1>2, <1>3, <1>4, <1>5, <1>6, <1>7

(* The end: Ok is the verdict only over two ended drains, an own exit and a *)
(* status that was reaped.                                                  *)
LEMMA EndParts ==
  ASSUME TypeOK, Parts, JoinStdout \/ JoinStderr \/ CleanUp
  PROVE  Parts'
<1> USE DEF Parts, PipesStayShut, Stages, Reaping, Unsignalled, Joins, OkIsOwnExit, Before,
            Ending, TypeOK
<1>1. CASE JoinStdout
  BY <1>1 DEF JoinStdout, Join, ownerRest, groupVars, childVars
<1>2. CASE JoinStderr
  <2>1. /\ started # {} /\ drain["stdout"] # "reading" /\ drain["stderr"] # "reading"
        /\ outcome # "ok"
    BY <1>2 DEF JoinStderr
  <2>2. outcome' = "ok" => Verdict = "ok"
    BY <1>2 DEF JoinStderr
  <2>3. ASSUME Verdict = "ok"
        PROVE  /\ op # "drop" /\ stop \in {"none", "exited"}
               /\ \A s \in Streams : drain[s] # "failed"
               /\ op = "wait" => status = "success"
    BY <2>3 DEF Verdict, Stops
  <2>4. QED BY <1>2, <2>1, <2>2, <2>3 DEF JoinStderr, ownerRest, groupVars, childVars, Streams
<1>3. CASE CleanUp
  BY <1>3 DEF CleanUp, ownerRest, groupVars, childVars
<1>4. QED BY <1>1, <1>2, <1>3

THEOREM ProcessInvariant == Spec => [](TypeOK /\ Parts)
<1>1. TypeOK /\ Parts /\ [Next]_vars => (TypeOK /\ Parts)'
  <2>1. SUFFICES ASSUME TypeOK, Parts, [Next]_vars PROVE TypeOK' /\ Parts'
    OBVIOUS
  <2>2. CASE UNCHANGED vars
    <3>1. TypeOK'
      BY <2>1, <2>2 DEF TypeOK, vars, groupVars, childVars, ownerVars
    <3>2. Parts'
      BY <2>1, <2>2 DEF Parts, PipesStayShut, Stages, Reaping, Unsignalled, Joins, OkIsOwnExit,
         vars, groupVars, childVars, ownerVars
    <3>3. QED BY <3>1, <3>2
  <2>3. CASE World
    BY <2>1, <2>3, WorldTypes, WorldGoesOnward, OnwardParts DEF Parts
  <2>4. CASE Calls \/ Owner
    <3>1. TypeOK'
      BY <2>1, <2>4, OwnerTypes
    <3>2. Parts'
      BY <2>1, <2>4, EarlyParts, SignalParts, EndParts DEF Owner
    <3>3. QED BY <3>1, <3>2
  <2>5. QED BY <2>1, <2>2, <2>3, <2>4, Steps
<1>2. QED BY <1>1, InitTypes, InitParts, PTL DEF Spec

(* runtime/process.rs: whoever gave the handle up gave up a child that had *)
(* ended and was reaped, and no pipe that was read to its end has a holder. *)
THEOREM NothingHeldAfterwards == Spec => []NobodyHoldsOn
<1>1. TypeOK /\ Parts => NobodyHoldsOn
  BY DEF Parts, Reaping, PipesStayShut, NobodyHoldsOn, Joined, Ending
<1>2. QED BY <1>1, ProcessInvariant, PTL

(* runtime/process.rs finalize: Ok of wait is the success of a child that   *)
(* ended of itself, with all of its output; Ok always has an exit status.   *)
THEOREM OkMeansOwnExit == Spec => []OkIsOwnExit
<1>1. TypeOK /\ Parts => OkIsOwnExit
  BY DEF Parts
<1>2. QED BY <1>1, ProcessInvariant, PTL
===============================================================================
