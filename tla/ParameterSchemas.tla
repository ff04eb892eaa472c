---------------------------- MODULE ParameterSchemas ----------------------------
(***************************************************************************)
(* What is validated, and what runs: several processes resolve an image    *)
(* (runtime/docker.rs), load its parameter schema, from the cache or by    *)
(* inspection (runtime/params.rs), and start an engine from it, while the  *)
(* tag moves in the registry, others pull and remove images, and the cache *)
(* is written with atomic_write.  A schema is named after the image        *)
(* content it was read from; so is an immutable reference.                 *)
(***************************************************************************)
EXTENDS AtomicFile

CONSTANTS
    Contents,    \* image contents, each with a digest
    Tag,         \* the mutable reference, which names an image in its container
    Backends,    \* among "docker" and "in_container"
    MaxOutages,  \* bound on power failures
    DockerFails  \* docker commands and inspections may fail

ASSUME SchemaAssumption ==
    /\ Tag \notin Contents /\ Dests = Contents \cup {Tag}
    /\ Backends \subseteq {"docker", "in_container"} /\ DockerFails \in BOOLEAN
    /\ MaxOutages \in Nat

VARIABLES
    backend,   \* where the processes run
    registry,  \* the content the tag has upstream
    local,     \* the content it has on this host, or Absent
    oldTag,    \* in a container: whose schema an old cache file of the tag holds
    lp,        \* where each process stands
    ident,     \* the image identity it resolved
    actual,    \* the content of the container it is in, or was told to run
    schema     \* the schema it holds: the content it was read from

world == <<backend, registry, local, oldTag>>
loads == <<lp, ident, actual, schema>>
vars  == <<fileVars, world, loads>>

Points == {"idle", "missing", "never", "pull", "inspect", "lookup", "read", "introspect", "save",
           "saving", "loaded", "running", "failed", "poisoned"}

Init ==
    /\ FileInit
    /\ backend \in Backends
    /\ \A d \in Dests : dir[d] = Old => (d = Tag <=> backend = "in_container")
    /\ registry \in Contents /\ local \in Contents \cup {Absent}
    /\ oldTag \in IF dir[Tag] = Old THEN Contents ELSE {Absent}
    /\ lp = [p \in Writers |-> "idle"]
    /\ ident = [p \in Writers |-> Absent] /\ actual = [p \in Writers |-> Absent]
    /\ schema = [p \in Writers |-> Absent]

Goto(p, from, to) == lp[p] = from /\ lp' = [lp EXCEPT ![p] = to]
-------------------------------------------------------------------------------
(* The world around.                                                        *)

TagMoves ==
    /\ registry' \in Contents \ {registry}
    /\ UNCHANGED <<fileVars, backend, local, oldTag, loads>>

\* Somebody else pulls the tag, or removes the image.
HostChanges ==
    /\ local' \in {registry, Absent} /\ local' # local
    /\ UNCHANGED <<fileVars, backend, registry, oldTag, loads>>
-------------------------------------------------------------------------------
(* resolve_image, or in_container_image_identity.                           *)

Resolve(p) ==
    /\ backend = "docker"
    /\ \E policy \in {"always", "missing", "never"} :
         Goto(p, "idle", IF policy = "always" THEN "pull" ELSE policy)
    /\ UNCHANGED <<fileVars, world, ident, actual, schema>>

TakeReference(p) ==
    /\ backend = "in_container" /\ Goto(p, "idle", "lookup")
    /\ ident' = [ident EXCEPT ![p] = Tag] /\ actual' = [actual EXCEPT ![p] = registry]
    /\ UNCHANGED <<fileVars, world, schema>>

ImageExists(p) ==
    /\ \/ Goto(p, "missing", IF local # Absent THEN "inspect" ELSE "pull")
       \/ Goto(p, "never", IF local # Absent THEN "inspect" ELSE "failed")
    /\ UNCHANGED <<fileVars, world, ident, actual, schema>>

PullImage(p) ==
    /\ Goto(p, "pull", "inspect") /\ local' = registry
    /\ UNCHANGED <<fileVars, backend, registry, oldTag, ident, actual, schema>>

\* The identity is that of the moment; an image may be gone again.
InspectImage(p) ==
    /\ Goto(p, "inspect", IF local = Absent THEN "failed" ELSE "lookup")
    /\ ident' = [ident EXCEPT ![p] = local]
    /\ UNCHANGED <<fileVars, world, actual, schema>>

CommandFails(p) ==
    /\ DockerFails /\ lp[p] \in {"missing", "never", "pull", "inspect", "introspect"}
    /\ lp' = [lp EXCEPT ![p] = "failed"]
    /\ UNCHANGED <<fileVars, world, ident, actual, schema>>
-------------------------------------------------------------------------------
(* load_parameter_schema.                                                   *)

CacheSchema(d) == IF dir[d] # Old THEN schema[dir[d]] ELSE IF d = Tag THEN oldTag ELSE d

Lookup(p) ==
    /\ \E refresh \in BOOLEAN :
         Goto(p, "lookup", IF refresh \/ dir[ident[p]] = Absent THEN "introspect" ELSE "read")
    /\ UNCHANGED <<fileVars, world, ident, actual, schema>>

\* read_cached_schema: what is not whole, or not of this identity, is an error,
\* and stays one until somebody refreshes it.
ReadCache(p) ==
    /\ lp[p] = "read"
    /\ IF dir[ident[p]] # Absent /\ data[dir[ident[p]]] = "whole"
       THEN Goto(p, "read", "loaded")
            /\ schema' = [schema EXCEPT ![p] = CacheSchema(ident[p])]
       ELSE Goto(p, "read", "poisoned") /\ UNCHANGED schema
    /\ UNCHANGED <<fileVars, world, ident, actual>>

\* Deliberate defect: what is inspected is what the tag has by now.
IntrospectTag(p) ==
    /\ Goto(p, "introspect", "save")
    /\ schema' = [schema EXCEPT ![p] = IF local = Absent THEN registry ELSE local]
    /\ UNCHANGED <<fileVars, world, ident, actual>>

\* docker run <identity>, or python3 in the container one is in.
Introspect(p) ==
    /\ Goto(p, "introspect", "save")
    /\ schema' = [schema EXCEPT ![p] = IF backend = "docker" THEN ident[p] ELSE actual[p]]
    /\ UNCHANGED <<fileVars, world, ident, actual>>

Save(p) ==
    /\ Goto(p, "save", "saving") /\ Begin(p, ident[p])
    /\ UNCHANGED <<world, ident, actual, schema>>

Saved(p) ==
    /\ lp[p] = "saving" /\ at[p] \in {"ok", "err"}
    /\ lp' = [lp EXCEPT ![p] = IF at[p] = "ok" THEN "loaded" ELSE "failed"]
    /\ UNCHANGED <<fileVars, world, ident, actual, schema>>

\* The plan's image: docker run is given the immutable identity.
StartEngine(p) ==
    /\ Goto(p, "loaded", "running")
    /\ actual' = [actual EXCEPT ![p] = IF backend = "docker" THEN ident[p] ELSE @]
    /\ UNCHANGED <<fileVars, world, ident, schema>>

\* A process that is killed, with all others if the power fails.
Killed(P) ==
    /\ lp' = [p \in Writers |->
                IF p \in P /\ lp[p] \notin {"idle", "running"} THEN "failed" ELSE lp[p]]
    /\ UNCHANGED <<world, ident, actual, schema>>

Load(p) ==
    \/ Resolve(p) \/ TakeReference(p) \/ ImageExists(p) \/ PullImage(p) \/ InspectImage(p)
    \/ CommandFails(p) \/ Lookup(p) \/ ReadCache(p) \/ Introspect(p) \/ Save(p) \/ Saved(p)
    \/ StartEngine(p)

Next ==
    \/ \E p \in Writers : Load(p) \/ (Step(p) /\ UNCHANGED <<world, loads>>)
    \/ \E p \in Writers : Kill(p) /\ Killed({p})
    \/ PowerFails /\ outages < MaxOutages /\ Killed(Writers)
    \/ WriteBackDir /\ UNCHANGED <<world, loads>>
    \/ TagMoves \/ HostChanges

Spec == Init /\ [][Next]_vars
-------------------------------------------------------------------------------
TypeOK ==
    /\ dir \in [Names -> Inodes \cup {Absent}] /\ dirDisk \in [Names -> Inodes \cup {Absent}]
    /\ data \in [Inodes -> {"part", "whole"}]
    /\ dataDisk \in [Inodes -> {"part", "whole"}]
    /\ at \in [Writers -> Active \cup {"idle", "ok", "err", "dead"}]
    /\ dest \in [Writers -> Dests \cup {Absent}] /\ temp \in [Writers -> Temps \cup {Absent}]
    /\ tries \in [Writers -> 0 .. Attempts] /\ outages \in 0 .. MaxOutages
    /\ backend \in Backends /\ lp \in [Writers -> Points] /\ ident \in [Writers -> Dests \cup {Absent}]
    /\ actual \in [Writers -> Contents \cup {Absent}]
    /\ schema \in [Writers -> Contents \cup {Absent}]

\* What runs is what was validated: the schema a process holds is that of the
\* image content its engine is started from, wherever the tag points meanwhile
\* and whoever wrote the cache.  In a container the image has no name but the
\* tag: there it may be what another image of that tag left in the cache.
ValidatedWhatRuns ==
    \A p \in Writers : lp[p] = "running" =>
        \/ schema[p] = actual[p]
        \/ backend = "in_container" /\ schema[p] \in {oldTag} \cup {actual[q] : q \in Writers \ {p}}

\* Nobody's concurrent write, death or power failure leaves a cache entry that
\* later loads choke on.
NeverPoisoned == \A p \in Writers : lp[p] # "poisoned"

\* What holds besides: no temporary file is shared or left behind, and whatever
\* stops a writer leaves nothing that a later load fails on.
Consistent == TypeOK /\ TempsAreOwn /\ NeverPoisoned

\* Each cache entry is an atomic register, for the readers and on the disk:
\* one whole content replaces another in one step, and a power failure brings
\* back none that is older than what was confirmed last.
ImplementsRegister ==
    /\ \A d \in Dests : Register(d)!Init
    /\ [][\A d \in Dests : Register(d)!Step]_vars
================================================================================
