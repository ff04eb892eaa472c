---------------------------- MODULE ManagedProcess ----------------------------
(***************************************************************************)
(* One child process and its group (runtime/process.rs, Unix): spawning,   *)
(* the two threads that drain its output, and the three ways it is brought *)
(* to its end: wait, which polls the child, the token and the deadline,    *)
(* terminate, and dropping the handle.  The processes live by their own    *)
(* rules: they start others, let go of their output, exit, and may ignore  *)
(* SIGTERM.                                                                *)
(***************************************************************************)
EXTENDS Naturals, FiniteSets

CONSTANTS
    Leader,       \* the child, leader of its process group
    Descendants,  \* what it may start, directly or not
    Faults        \* what may fail: "spawn", "poll", "signal", "drain", "secret"

Procs   == Descendants \cup {Leader}
Streams == {"stdout", "stderr"}

ASSUME ProcessAssumption ==
    /\ Leader \notin Descendants
    /\ Faults \subseteq {"spawn", "poll", "signal", "drain", "secret"}

VARIABLES
    alive,      \* the processes that run
    started,    \* those that ever ran
    stubborn,   \* those that ignore SIGTERM
    termed,     \* those that SIGTERM was sent to
    holders,    \* who holds the write end of each pipe
    status,     \* how the child ended: "none", "success", "failure"
    reaped,     \* try_wait or wait has returned that status
    drain,      \* each drain thread: "reading", "ended", "failed"
    cancelled,  \* the token
    late,       \* the deadline has passed
    pc,         \* where the owner of the handle stands
    op,         \* what it called: "none", "wait", "terminate", "drop"
    stop,       \* ChildStop, or the error that took its place
    outcome,    \* what the call returned
    cleanup,    \* docker rm -f of the owned container was run
    struck      \* history: the faults that happened

groupVars == <<alive, started, stubborn, termed, holders>>
childVars == <<status, reaped>>
ownerVars == <<pc, op, stop, outcome, cleanup>>
vars == <<groupVars, childVars, drain, cancelled, late, ownerVars, struck>>

Stops    == {"none", "exited", "timeout", "interrupted", "io"}
Outcomes == {"none", "ok", "exit", "timeout", "interrupted", "io", "spawn", "secret",
             "dropped"}
Points   == {"new", "idle", "poll", "check", "term", "grace", "kill", "restTerm",
             "restKill", "stdout", "stderr", "cleanup", "done"}

Init ==
    /\ alive = {} /\ started = {} /\ termed = {}
    /\ stubborn \in SUBSET Procs
    /\ holders = [s \in Streams |-> {}]
    /\ status = "none" /\ reaped = FALSE
    /\ drain = [s \in Streams |-> "reading"]
    /\ cancelled = FALSE /\ late = FALSE
    /\ pc = "new" /\ op = "none" /\ stop = "none" /\ outcome = "none"
    /\ cleanup = FALSE /\ struck = {}
-------------------------------------------------------------------------------
(* The processes.  A pipe end is closed at the latest when its holder dies. *)

Gone(P) ==
    /\ alive' = alive \ P
    /\ holders' = [s \in Streams |-> holders[s] \ P]
    /\ status' = IF Leader \in alive \cap P THEN "failure" ELSE status

\* A process starts another, which inherits its output, or some of it.
Fork(p, q) ==
    /\ p \in alive /\ q \in Procs \ started
    /\ \E S \in SUBSET {s \in Streams : p \in holders[s]} :
         holders' = [s \in Streams |-> IF s \in S THEN holders[s] \cup {q} ELSE holders[s]]
    /\ alive' = alive \cup {q} /\ started' = started \cup {q}
    /\ UNCHANGED <<stubborn, termed, childVars, drain, cancelled, late, ownerVars, struck>>

CloseOutput(p, s) ==
    /\ p \in alive /\ p \in holders[s]
    /\ holders' = [holders EXCEPT ![s] = @ \ {p}]
    /\ UNCHANGED <<alive, started, stubborn, termed, childVars, drain, cancelled, late,
                   ownerVars, struck>>

Exit(p) ==
    /\ p \in alive
    /\ alive' = alive \ {p}
    /\ holders' = [s \in Streams |-> holders[s] \ {p}]
    /\ IF p = Leader THEN status' \in {"success", "failure"} ELSE UNCHANGED status
    /\ UNCHANGED <<started, stubborn, termed, reaped, drain, cancelled, late, ownerVars,
                   struck>>

\* SIGTERM takes effect, at some time after it was sent.
DieOfTerm(p) ==
    /\ p \in (alive \cap termed) \ stubborn
    /\ Gone({p})
    /\ UNCHANGED <<started, stubborn, termed, reaped, drain, cancelled, late, ownerVars,
                   struck>>
-------------------------------------------------------------------------------
(* The drain threads: to the end of the stream, which is when nobody holds  *)
(* the pipe, or to the first error of the artifact.                         *)

DrainEnds(s) ==
    /\ started # {} /\ drain[s] = "reading" /\ holders[s] = {}
    /\ drain' = [drain EXCEPT ![s] = "ended"]
    /\ UNCHANGED <<groupVars, childVars, cancelled, late, ownerVars, struck>>

DrainFails(s) ==
    /\ "drain" \in Faults
    /\ started # {} /\ drain[s] = "reading"
    /\ drain' = [drain EXCEPT ![s] = "failed"] /\ struck' = struck \cup {"drain"}
    /\ UNCHANGED <<groupVars, childVars, cancelled, late, ownerVars>>
-------------------------------------------------------------------------------
(* The owner of the handle.                                                 *)

ownerRest == <<groupVars, childVars, drain, cancelled, late>>

\* spawn: a refusal has no process and no container to clean up after.
SpawnRefused ==
    /\ pc = "new"
    /\ \/ cancelled /\ outcome' = "interrupted" /\ UNCHANGED struck
       \/ ~cancelled /\ late /\ outcome' = "timeout" /\ UNCHANGED struck
       \/ /\ ~cancelled /\ ~late /\ "spawn" \in Faults
          /\ outcome' = "spawn" /\ struck' = struck \cup {"spawn"}
    /\ pc' = "done"
    /\ UNCHANGED <<ownerRest, op, stop, cleanup>>

Spawn ==
    /\ pc = "new" /\ ~cancelled /\ ~late
    /\ alive' = {Leader} /\ started' = {Leader}
    /\ holders' = [s \in Streams |-> {Leader}]
    /\ pc' = "idle"
    /\ UNCHANGED <<stubborn, termed, childVars, drain, cancelled, late, op, stop, outcome,
                   cleanup, struck>>

Call(what, next) ==
    /\ pc = "idle"
    /\ op' = what /\ pc' = next
    /\ UNCHANGED <<ownerRest, stop, outcome, cleanup, struck>>

Wait      == Call("wait", "poll")
Terminate == Call("terminate", "poll")
Drop      == Call("drop", "term")

\* ManagedProcess::try_wait: a server's owner looks now and then, and so may
\* reap the child long before it stops it.
TryWait ==
    /\ pc = "idle" /\ status # "none" /\ ~reaped
    /\ reaped' = TRUE
    /\ UNCHANGED <<groupVars, status, drain, cancelled, late, ownerVars, struck>>

\* The first look of terminate and of every turn of wait_for_child.  Where
\* the look fails, wait goes on to the signals; terminate does not.
PollExited ==
    /\ pc = "poll" /\ status # "none"
    /\ reaped' = TRUE /\ stop' = "exited" /\ pc' = "restTerm"
    /\ UNCHANGED <<groupVars, status, drain, cancelled, late, op, outcome, cleanup, struck>>

PollRunning ==
    /\ pc = "poll" /\ status = "none"
    /\ pc' = IF op = "wait" THEN "check" ELSE "term"
    /\ UNCHANGED <<ownerRest, op, stop, outcome, cleanup, struck>>

PollFails ==
    /\ pc = "poll" /\ "poll" \in Faults
    /\ stop' = "io" /\ struck' = struck \cup {"poll"}
    /\ pc' = IF op = "wait" THEN "term" ELSE "stdout"
    /\ UNCHANGED <<ownerRest, op, outcome, cleanup>>

\* Deliberate defect: wait forgets the deadline.
CheckTokenOnly ==
    /\ pc = "check"
    /\ \/ cancelled /\ stop' = "interrupted" /\ pc' = "term"
       \/ ~cancelled /\ stop' = stop /\ pc' = "poll"
    /\ UNCHANGED <<ownerRest, op, outcome, cleanup, struck>>

\* The token is looked at before the clock.
CheckStop ==
    /\ pc = "check"
    /\ \/ cancelled /\ stop' = "interrupted" /\ pc' = "term"
       \/ ~cancelled /\ late /\ stop' = "timeout" /\ pc' = "term"
       \/ ~cancelled /\ ~late /\ stop' = stop /\ pc' = "poll"
    /\ UNCHANGED <<ownerRest, op, outcome, cleanup, struck>>

\* killpg(SIGTERM): to everyone in the group, at one moment.
SendTerm(from, to) ==
    /\ pc = from
    /\ termed' = termed \cup alive /\ pc' = to
    /\ UNCHANGED <<alive, started, stubborn, holders, childVars, drain, cancelled, late,
                   op, stop, outcome, cleanup, struck>>

\* killpg(SIGKILL): nobody in the group survives it.
SendKill(from, to) ==
    /\ pc = from
    /\ Gone(alive)
    /\ reaped' = (reaped \/ from = "kill") /\ pc' = to
    /\ UNCHANGED <<started, stubborn, termed, drain, cancelled, late, op, stop, outcome,
                   cleanup, struck>>

\* terminate_child: SIGTERM, up to SHUTDOWN_GRACE of polling, SIGKILL, wait.
TermGroup == SendTerm("term", "grace")

\* The child is gone within the grace period: that is the end of it.
GraceReaps ==
    /\ pc = "grace" /\ status # "none"
    /\ reaped' = TRUE /\ pc' = "stdout"
    /\ UNCHANGED <<groupVars, status, drain, cancelled, late, op, stop, outcome, cleanup,
                   struck>>

GraceExpires ==
    /\ pc = "grace" /\ status = "none"
    /\ pc' = "kill"
    /\ UNCHANGED <<ownerRest, op, stop, outcome, cleanup, struck>>

KillGroup == SendKill("kill", "stdout")

\* A signal that cannot be sent, or a look that fails, ends terminate_child;
\* an error that is already there stands.
SignalFails ==
    /\ pc \in {"term", "grace", "kill"} /\ "signal" \in Faults
    /\ struck' = struck \cup {"signal"}
    /\ stop' = IF stop = "none" THEN "io" ELSE stop
    /\ pc' = "stdout"
    /\ UNCHANGED <<ownerRest, op, outcome, cleanup>>

\* Deliberate defect: the rest of the group only gets SIGTERM.
SpareRest ==
    /\ pc = "restKill" /\ pc' = "stdout"
    /\ UNCHANGED <<ownerRest, op, stop, outcome, cleanup, struck>>

\* terminate_remaining_group: SIGTERM, 10 ms, SIGKILL.
TermRest == SendTerm("restTerm", "restKill")
KillRest == SendKill("restKill", "stdout")

\* finalize, or drop, joins the two threads, one after the other.
Join(s, to) ==
    /\ pc = s /\ drain[s] # "reading"
    /\ pc' = to
    /\ UNCHANGED <<ownerRest, op, stop, outcome, cleanup, struck>>

JoinStdout == Join("stdout", "stderr")

\* Deliberate defect: the exit status is all that counts.
VerdictByStatus ==
    IF op = "drop" THEN "dropped"
    ELSE IF \E s \in Streams : drain[s] = "failed" THEN "io"
    ELSE IF op = "wait" /\ status # "success" THEN "exit"
    ELSE "ok"

\* An error of a drain comes before the reason to stop, and that before the
\* exit status; what is returned decides whether the container is removed.
Verdict ==
    IF op = "drop" THEN "dropped"
    ELSE IF \E s \in Streams : drain[s] = "failed" THEN "io"
    ELSE IF stop \notin {"none", "exited"} THEN stop
    ELSE IF op = "wait" /\ status # "success" THEN "exit"
    ELSE "ok"

JoinStderr ==
    /\ pc = "stderr" /\ drain["stderr"] # "reading"
    /\ \/ outcome' = Verdict /\ UNCHANGED struck
       \/ /\ Verdict = "ok" /\ "secret" \in Faults
          /\ outcome' = "secret" /\ struck' = struck \cup {"secret"}
    /\ pc' = "cleanup"
    /\ UNCHANGED <<ownerRest, op, stop, cleanup>>

CleanUp ==
    /\ pc = "cleanup"
    /\ cleanup' = (outcome # "ok" \/ op = "terminate")
    /\ pc' = "done"
    /\ UNCHANGED <<ownerRest, op, stop, outcome, struck>>
-------------------------------------------------------------------------------
Cancel ==
    /\ ~cancelled /\ cancelled' = TRUE
    /\ UNCHANGED <<groupVars, childVars, drain, late, ownerVars, struck>>

DeadlinePasses ==
    /\ ~late /\ late' = TRUE
    /\ UNCHANGED <<groupVars, childVars, drain, cancelled, ownerVars, struck>>

Life ==
    \/ \E p, q \in Procs : Fork(p, q)
    \/ \E p \in Procs, s \in Streams : CloseOutput(p, s)
    \/ \E p \in Procs : Exit(p)

Owner ==
    \/ SpawnRefused \/ Spawn \/ PollExited \/ PollRunning \/ PollFails \/ CheckStop
    \/ TermGroup \/ GraceReaps \/ GraceExpires \/ KillGroup \/ SignalFails
    \/ TermRest \/ KillRest \/ JoinStdout \/ JoinStderr \/ CleanUp

Next ==
    \/ Life \/ (\E p \in Procs : DieOfTerm(p))
    \/ (\E s \in Streams : DrainEnds(s) \/ DrainFails(s))
    \/ Owner \/ Wait \/ Terminate \/ Drop \/ TryWait
    \/ Cancel \/ DeadlinePasses

\* The owner's loops sleep and go on; a drain sees the end of its pipe; a
\* process that does not ignore SIGTERM dies of it.  Nothing obliges a process
\* to exit of itself, an operator to cancel, or a server's owner to stop it.
Fairness ==
    /\ WF_vars(Owner)
    /\ \A s \in Streams : WF_vars(DrainEnds(s))
    /\ \A p \in Procs : WF_vars(DieOfTerm(p))

Spec == Init /\ [][Next]_vars /\ Fairness
-------------------------------------------------------------------------------
\* Every variable keeps its type; no process runs that was not started, none
\* that is dead holds a pipe, and the child is reaped only once it has ended.
TypeOK ==
    /\ alive \subseteq started /\ started \subseteq Procs
    /\ stubborn \subseteq Procs /\ termed \subseteq started
    /\ holders \in [Streams -> SUBSET Procs]
    /\ \A s \in Streams : holders[s] \subseteq alive
    /\ status \in {"none", "success", "failure"} /\ reaped \in BOOLEAN
    /\ status = "none" => (Leader \in alive \/ started = {})
    /\ status # "none" => Leader \notin alive /\ Leader \in started
    /\ reaped => status # "none"
    /\ drain \in [Streams -> {"reading", "ended", "failed"}]
    /\ cancelled \in BOOLEAN /\ late \in BOOLEAN /\ cleanup \in BOOLEAN
    /\ pc \in Points /\ op \in {"none", "wait", "terminate", "drop"}
    /\ pc = "new" => started = {}
    /\ started = {} => pc \in {"new", "done"}
    /\ stop \in Stops /\ outcome \in Outcomes
    /\ struck \subseteq Faults

Joined == pc \in {"cleanup", "done"} /\ op # "none"

\* When the handle is given up, its child has ended and was reaped, unless it
\* could not be looked at or signalled.  If the child ended of itself, nobody
\* of its group is left; if it was stopped, those that outlived SIGTERM may be,
\* but none holds a pipe that was drained to its end.
NobodyHoldsOn ==
    Joined =>
        /\ struck \cap {"poll", "signal"} = {} => reaped
        /\ stop = "exited" => alive = {}
        /\ \A s \in Streams : drain[s] = "ended" => holders[s] = {}

\* wait returns Ok only for a child that ended of itself, successfully, that
\* was never signalled, and whose output was read to its end on both streams;
\* for terminate, too, Ok has an exit status to carry, which the code expects.
OkIsOwnExit ==
    outcome = "ok" =>
        /\ reaped /\ \A s \in Streams : drain[s] = "ended"
        /\ op = "wait" => stop = "exited" /\ status = "success" /\ Leader \notin termed

\* A process that keeps a pipe open and that nothing the owner does will end.
Held ==
    \/ struck \cap {"poll", "signal"} # {}
    \/ \E p \in alive \ {Leader}, s \in Streams :
         p \in holders[s] /\ (p \in stubborn \/ p \notin termed)

\* Once a wait has a reason to stop, or a terminate or a drop has begun, the
\* call returns, unless a descendant that got away keeps a pipe open for good.
StopsUnlessHeld ==
    \/ <>[]Held
    \/ (op \in {"terminate", "drop"} \/ (op = "wait" /\ (cancelled \/ late)))
           ~> pc = "done"

\* README.md: "All stages are bounded by timeouts", "child process groups get
\* TERM, a grace period, then KILL".
StagesAreBounded == (op = "wait" /\ late) ~> pc = "done"
================================================================================
