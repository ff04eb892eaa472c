-------------------------- MODULE OwnedContainersProofs --------------------------
(***************************************************************************)
(* What removal by name and by list keeps, for any number of runs and      *)
(* trials on one host.                                                     *)
(***************************************************************************)
EXTENDS OwnedContainers, TLAPS

\* What is done with is gone; in a dry run nothing is to be done.
\* A trial that has not begun asked for nothing, so that it is not on the list.
Listing ==
    /\ \A t \in listed : request[t] \in {"up", "gone"}
    /\ verdict \in {"running", "ok"} /\ ~dry => \A t \in listed \ todo : request[t] = "gone"
    /\ verdict = "running" => ~dry /\ todo # {}
    /\ verdict = "ok" => todo = {}
    /\ \A t \in Trials : st[t] = "idle" => request[t] = "none"

Inv == TypeOK /\ EndedLeavesNothing /\ Listing

LEMMA InitContainers == Init => Inv
  BY DEF Init, Inv, TypeOK, EndedLeavesNothing, Listing, Present

\* docker rm -f takes what has the name, and nothing else.
LEMMA RemovalByName ==
  ASSUME TypeOK, NEW n, RemoveName(n)
  PROVE  /\ request' \in [Trials -> {"none", "sent", "up", "refused", "gone"}]
         /\ \A t \in Trials :
              IF request[t] = "up" /\ Name(t) = n THEN request'[t] = "gone" ELSE request'[t] = request[t]
  BY DEF RemoveName, TypeOK, Named, Present

LEMMA DaemonKeeps ==
  ASSUME Inv, NEW t \in Trials, Create(t) \/ Forget(t) \/ ContainerExits(t)
  PROVE  Inv'
<1>1. CASE Create(t)
  <2>1. CASE Named(Name(t)) = {}
    BY <1>1, <2>1 DEF Create, Inv, TypeOK, EndedLeavesNothing, Listing, Present, Named, command
  <2>2. CASE Named(Name(t)) # {}
    BY <1>1, <2>2 DEF Create, Inv, TypeOK, EndedLeavesNothing, Listing, Present, command
  <2>3. QED BY <2>1, <2>2
<1>2. CASE Forget(t)
  BY <1>2 DEF Forget, Inv, TypeOK, EndedLeavesNothing, Listing, Present, command
<1>3. CASE ContainerExits(t)
  BY <1>3 DEF ContainerExits, Inv, TypeOK, EndedLeavesNothing, Listing, Present, command
<1>4. QED BY <1>1, <1>2, <1>3

LEMMA TrialKeeps ==
  ASSUME Inv, NEW t \in Trials, Start(t) \/ EndsWell(t) \/ GiveUp(t) \/ Remove(t)
  PROVE  Inv'
<1>1. CASE Start(t)
  BY <1>1 DEF Start, Inv, TypeOK, EndedLeavesNothing, Listing, Present, command
<1>2. CASE EndsWell(t)
  BY <1>2 DEF EndsWell, Inv, TypeOK, EndedLeavesNothing, Listing, Present, command
<1>3. CASE GiveUp(t)
  BY <1>3 DEF GiveUp, Inv, TypeOK, EndedLeavesNothing, Listing, Present, command
<1>4. CASE Remove(t)
  <2>1. CASE RemoveName(Name(t)) /\ UNCHANGED left
    BY <1>4, <2>1, RemovalByName DEF Remove, Inv, TypeOK, EndedLeavesNothing, Listing, Present, command
  <2>2. CASE left' = left \cup {t} /\ UNCHANGED request
    BY <1>4, <2>2 DEF Remove, Inv, TypeOK, EndedLeavesNothing, Listing, Present, command
  <2>3. QED BY <1>4, <2>1, <2>2 DEF Remove
<1>5. QED BY <1>1, <1>2, <1>3, <1>4

LEMMA CrashKeeps ==
  ASSUME Inv, NEW r \in Runs, Crash(r)
  PROVE  Inv'
  BY DEF Crash, Inv, TypeOK, EndedLeavesNothing, Listing, Present, command

LEMMA ListKeeps ==
  ASSUME Inv, List
  PROVE  Inv'
<1>1. scope' \subseteq Indices /\ dry' \in BOOLEAN /\ UNCHANGED <<st, request, left>>
  BY DEF List
<1>2. \/ /\ listed' = {t \in Present : LabelOf(t) \in scope'}
         /\ todo' = (IF dry' THEN {} ELSE listed')
         /\ verdict' = IF todo' = {} THEN "ok" ELSE "running"
      \/ verdict' = "error" /\ listed' = {} /\ todo' = {}
  BY DEF List
<1>3. QED BY <1>1, <1>2 DEF Inv, TypeOK, EndedLeavesNothing, Listing, Present

LEMMA RemoveListedKeeps ==
  ASSUME Inv, RemoveListed
  PROVE  Inv'
<1>1. PICK t \in todo :
         \/ /\ RemoveName(Name(t)) /\ todo' = todo \ {t}
            /\ verdict' = IF todo' = {} THEN "ok" ELSE "running"
         \/ verdict' \in {"error", "interrupted"} /\ UNCHANGED <<request, todo>>
  BY DEF RemoveListed
<1>2. verdict = "running" /\ UNCHANGED <<st, left, scope, dry, listed>>
  BY DEF RemoveListed
<1>3. CASE verdict' \in {"error", "interrupted"} /\ UNCHANGED <<request, todo>>
  BY <1>2, <1>3 DEF Inv, TypeOK, EndedLeavesNothing, Listing, Present
<1>4. CASE /\ RemoveName(Name(t)) /\ todo' = todo \ {t}
           /\ verdict' = IF todo' = {} THEN "ok" ELSE "running"
  <2>1. t \in listed /\ t \in Trials
    BY DEF Inv, TypeOK
  <2>2. request'[t] = "gone"
    BY <1>4, <2>1, RemovalByName DEF Inv, Listing
  <2>3. QED BY <1>2, <1>4, <2>1, <2>2, RemovalByName DEF Inv, TypeOK, EndedLeavesNothing, Listing, Present
<1>5. QED BY <1>1, <1>3, <1>4

LEMMA NextContainers == Inv /\ [Next]_vars => Inv'
<1>1. ASSUME Inv, UNCHANGED vars PROVE Inv'
  BY <1>1 DEF vars, command, Inv, TypeOK, EndedLeavesNothing, Listing, Present
<1>2. QED BY <1>1, DaemonKeeps, TrialKeeps, CrashKeeps, ListKeeps, RemoveListedKeeps DEF Next

LEMMA ContainerInvariant == Spec => []Inv
  BY InitContainers, NextContainers, PTL DEF Spec

\* A trial that is over has left no container, whoever else is on the host.
THEOREM TrialsLeaveNothing == Spec => []Consistent
<1>1. Inv => Consistent
  BY DEF Inv, Consistent
<1>2. QED BY <1>1, ContainerInvariant, PTL

\* A cleanup that succeeds leaves nothing of what it listed.
THEOREM CleanupIsComplete == Spec => []CleanupKeepsItsWord
<1>1. Inv => CleanupKeepsItsWord
  BY DEF Inv, Listing, CleanupKeepsItsWord
<1>2. QED BY <1>1, ContainerInvariant, PTL
===============================================================================
