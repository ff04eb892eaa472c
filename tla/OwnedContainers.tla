---------------------------- MODULE OwnedContainers ----------------------------
(***************************************************************************)
(* The containers of Docker runs (engines/managed.rs, runtime/docker.rs):  *)
(* each trial of a run attaches a `docker run --rm --name` client to a     *)
(* daemon that does what it was asked at its own time; whoever gives the   *)
(* client up removes the container by its name; a run that was killed      *)
(* removes nothing; and the cleanup command lists what carries the labels  *)
(* and removes it name by name, next to runs that go on.                   *)
(***************************************************************************)
EXTENDS Naturals, FiniteSets

CONSTANTS
    Trials,  \* pairs of a run, which is a process on this host, and a trial's index
    Faults   \* what may fail: "rm", "list"

Runs    == {t[1] : t \in Trials}
Indices == {t[2] : t \in Trials}

ASSUME ContainerAssumption ==
    Trials \subseteq Runs \X Indices /\ Faults \subseteq {"rm", "list"}

VARIABLES
    st,       \* each trial: "idle", "client", "removing", "ended", "crashed"
    request,  \* its `docker run`: "none", "sent", "up", "refused", "gone"
    left,     \* history: removal failed, or the daemon came to it too late
    scope,    \* the labels that pass cleanup --run-id; all, without it
    dry,      \* --dry-run
    listed,   \* the containers that were listed
    todo,     \* those whose names are still to be removed
    verdict   \* what the command said: "none", "running", "ok", "error", "interrupted"

command == <<scope, dry, listed, todo, verdict>>
vars == <<st, request, left, command>>

\* optimum-advisor-trial-{index}-server: of the run, the name says nothing, and
\* neither does the run-id label, which is "trial-{index}".
Name(t)    == t[2]
LabelOf(t) == t[2]

Present == {t \in Trials : request[t] = "up"}
Named(n) == {t \in Present : Name(t) = n}

Init ==
    /\ st = [t \in Trials |-> "idle"] /\ request = [t \in Trials |-> "none"]
    /\ left = {}
    /\ scope = Indices /\ dry = FALSE /\ listed = {} /\ todo = {} /\ verdict = "none"
-------------------------------------------------------------------------------
(* The daemon.                                                              *)

\* A name is given to one container at a time.
Create(t) ==
    /\ request[t] = "sent"
    /\ IF Named(Name(t)) = {}
       THEN /\ request' = [request EXCEPT ![t] = "up"]
            /\ left' = IF st[t] = "client" THEN left ELSE left \cup {t}
       ELSE request' = [request EXCEPT ![t] = "refused"] /\ UNCHANGED left
    /\ UNCHANGED <<st, command>>

\* The client hung up before it was served.
Forget(t) ==
    /\ request[t] = "sent" /\ st[t] # "client"
    /\ request' = [request EXCEPT ![t] = "gone"]
    /\ UNCHANGED <<st, left, command>>

\* The engine exits, of itself or of the SIGTERM its client passed on; --rm.
ContainerExits(t) ==
    /\ request[t] = "up"
    /\ request' = [request EXCEPT ![t] = "gone"]
    /\ UNCHANGED <<st, left, command>>

\* docker rm -f <name>
RemoveName(n) == request' = [t \in Trials |-> IF t \in Named(n) THEN "gone" ELSE request[t]]
-------------------------------------------------------------------------------
(* A trial.                                                                 *)

Start(t) ==
    /\ st[t] = "idle"
    /\ st' = [st EXCEPT ![t] = "client"] /\ request' = [request EXCEPT ![t] = "sent"]
    /\ UNCHANGED <<left, command>>

\* A benchmark that is waited for and exits with status zero: nothing to remove.
EndsWell(t) ==
    /\ st[t] = "client" /\ request[t] = "gone"
    /\ st' = [st EXCEPT ![t] = "ended"]
    /\ UNCHANGED <<request, left, command>>

\* Every other end of the client: it failed, was stopped, timed out, was
\* interrupted or dropped; it is killed, and the container comes next.
GiveUp(t) ==
    /\ st[t] = "client"
    /\ st' = [st EXCEPT ![t] = "removing"]
    /\ UNCHANGED <<request, left, command>>

\* Deliberate defect: what has no container yet needs no removal.
RemoveNothing(t) ==
    /\ st[t] = "removing"
    /\ st' = [st EXCEPT ![t] = "ended"]
    /\ UNCHANGED <<request, left, command>>

\* cleanup_container: with a token of its own, so that nothing interrupts it.
Remove(t) ==
    /\ st[t] = "removing"
    /\ st' = [st EXCEPT ![t] = "ended"]
    /\ \/ RemoveName(Name(t)) /\ UNCHANGED left
       \/ "rm" \in Faults /\ left' = left \cup {t} /\ UNCHANGED request
    /\ UNCHANGED command

\* The run is killed.  Its clients are in process groups of their own.
Crash(r) ==
    /\ \E t \in Trials : t[1] = r /\ st[t] \in {"client", "removing"}
    /\ st' = [t \in Trials |-> IF t[1] = r /\ st[t] # "ended" THEN "crashed" ELSE st[t]]
    /\ UNCHANGED <<request, left, command>>
-------------------------------------------------------------------------------
(* cleanup_owned_containers, run_cleanup.                                   *)

\* docker ps -a with the label filters.
List ==
    /\ verdict # "running"
    /\ scope' \in {Indices} \cup {{i} : i \in Indices} /\ dry' \in BOOLEAN
    /\ \/ /\ listed' = {t \in Present : LabelOf(t) \in scope'}
          /\ todo' = (IF dry' THEN {} ELSE listed')
          /\ verdict' = IF todo' = {} THEN "ok" ELSE "running"
       \/ "list" \in Faults /\ verdict' = "error" /\ listed' = {} /\ todo' = {}
    /\ UNCHANGED <<st, request, left>>

\* Deliberate defect: a removal that fails is passed over.
RemoveSome ==
    /\ verdict = "running" /\ todo # {}
    /\ \E t \in todo :
         /\ todo' = todo \ {t}
         /\ RemoveName(Name(t)) \/ ("rm" \in Faults /\ UNCHANGED request)
         /\ verdict' = IF todo' = {} THEN "ok" ELSE "running"
    /\ UNCHANGED <<st, left, scope, dry, listed>>

\* Names are removed one by one, in the order they were listed; the first that
\* fails is the end, and so is the token.
RemoveListed ==
    /\ verdict = "running" /\ todo # {}
    /\ \E t \in todo :
         \/ /\ RemoveName(Name(t)) /\ todo' = todo \ {t}
            /\ verdict' = IF todo' = {} THEN "ok" ELSE "running"
         \/ /\ \/ "rm" \in Faults /\ verdict' = "error"
               \/ verdict' = "interrupted"
            /\ UNCHANGED <<request, todo>>
    /\ UNCHANGED <<st, left, scope, dry, listed>>

Next ==
    \/ \E t \in Trials :
         \/ Create(t) \/ Forget(t) \/ ContainerExits(t)
         \/ Start(t) \/ EndsWell(t) \/ GiveUp(t) \/ Remove(t)
    \/ \E r \in Runs : Crash(r)
    \/ List \/ RemoveListed

Spec == Init /\ [][Next]_vars
-------------------------------------------------------------------------------
\* Every variable keeps its type, and a name has one container.
TypeOK ==
    /\ st \in [Trials -> {"idle", "client", "removing", "ended", "crashed"}]
    /\ request \in [Trials -> {"none", "sent", "up", "refused", "gone"}]
    /\ left \subseteq Trials
    /\ scope \subseteq Indices /\ dry \in BOOLEAN
    /\ listed \subseteq Trials /\ todo \subseteq listed
    /\ verdict \in {"none", "running", "ok", "error", "interrupted"}
    /\ \A t, u \in Present : Name(t) = Name(u) => t = u

\* A trial that is over has no container left, unless docker rm failed, or the
\* daemon only created it after it had been removed; a killed run may leave any.
EndedLeavesNothing == \A t \in Present : st[t] = "ended" => t \in left

\* The types hold, and no container is left by a trial that is over.
Consistent == TypeOK /\ EndedLeavesNothing

\* cleanup says ok only once every container it listed is gone, whatever runs
\* and ends in the meantime; and in a dry run it removes nothing.
CleanupKeepsItsWord ==
    verdict = "ok" /\ ~dry => \A t \in listed : request[t] = "gone"

\* A run cleans up its own containers and no other's (README: "the run owns and
\* cleans up its containers"): names are removed without a look at whose they are.
RunsCleanUpTheirOwn ==
    [][\A t, u \in Trials :
          st[t] = "removing" /\ st'[t] = "ended" /\ request[u] # request'[u]
             => u[1] = t[1]]_vars
================================================================================
