------------------------- MODULE ParameterSchemasProofs -------------------------
(***************************************************************************)
(* What a cache file promises, for any number of writers, destinations,    *)
(* temporary names and power failures, and what its readers make of it.    *)
(***************************************************************************)
EXTENDS ParameterSchemas, TLAPS

USE FileAssumption DEF FileAssumption

FileTypes ==
    /\ dir \in [Names -> Inodes \cup {Absent}] /\ dirDisk \in [Names -> Inodes \cup {Absent}]
    /\ data \in [Inodes -> {"part", "whole"}] /\ dataDisk \in [Inodes -> {"part", "whole"}]
    /\ at \in [Writers -> Active \cup {"idle", "ok", "err", "dead"}]
    /\ dest \in [Writers -> Dests \cup {Absent}] /\ temp \in [Writers -> Temps \cup {Absent}]
    /\ tries \in [Writers -> 0 .. Attempts] /\ outages \in Nat

\* What a writer has by the time it gets there.
Equipped ==
    \A w \in Writers :
        /\ at[w] # "idle" => dest[w] \in Dests
        /\ at[w] \in {"write", "sync", "rename", "syncdir"} => temp[w] \in Temps
        /\ at[w] \in {"idle", "create"} => tries[w] < Attempts

\* Before it has created its file no name leads to a writer's inode.
Fresh ==
    \A w \in Writers : at[w] \in {"idle", "create"} =>
        \A n \in Names : dir[n] # w /\ dirDisk[n] # w

\* What is renamed is whole, and safe on the disk.
Written ==
    /\ data[Old] = "whole" /\ dataDisk[Old] = "whole"
    /\ \A w \in Writers : /\ at[w] \in {"sync", "rename"} => data[w] = "whole"
                          /\ at[w] = "rename" => dataDisk[w] = "whole"

\* A destination leads to a whole file that was written for it, in both worlds.
Installed ==
    \A d \in Dests, w \in Writers : dir[d] = w \/ dirDisk[d] = w =>
        /\ at[w] \in {"syncdir", "ok", "err", "dead"}
        /\ data[w] = "whole" /\ dataDisk[w] = "whole" /\ dest[w] = d

TempsOwned ==
    \A n \in Temps, w \in Writers : dir[n] = w \/ dirDisk[n] = w => temp[w] = n

\* As long as the machine runs, a writer past its rename has no temporary file.
Cleared ==
    outages = 0 => \A w \in Writers :
        at[w] \in {"syncdir", "ok", "err"} => \A n \in Temps : dir[n] # w

FileInv == FileTypes /\ Equipped /\ Fresh /\ Written /\ Installed /\ TempsOwned /\ Cleared

LEMMA InitFile == FileInit => FileInv
  BY DEF FileInit, FileInv, FileTypes, Equipped, Fresh, Written, Installed, TempsOwned, Cleared,
         Names, Inodes, Active

LEMMA BeginKeeps ==
  ASSUME FileInv, NEW w \in Writers, NEW d \in Dests, Begin(w, d)
  PROVE  FileInv'
  BY DEF Begin, FileInv, FileTypes, Equipped, Fresh, Written, Installed, TempsOwned, Cleared,
         Names, Inodes, Active, disk

LEMMA CreateKeeps ==
  ASSUME FileInv, NEW w \in Writers, NEW n \in Temps, CreateTemp(w, n)
  PROVE  FileInv'
<1>1. CASE dir[n] = Absent
  BY <1>1 DEF CreateTemp, FileInv, FileTypes, Equipped, Fresh, Written, Installed, TempsOwned,
         Cleared, Names, Inodes, Active, disk
<1>2. CASE dir[n] # Absent
  <2>1. tries[w] < Attempts /\ tries[w] \in Nat /\ Attempts \in Nat
    BY DEF CreateTemp, FileInv, Equipped, FileTypes
  <2>2. tries' = [tries EXCEPT ![w] = @ + 1] /\ UNCHANGED <<dir, dirDisk, data, dataDisk, dest, temp, outages>>
        /\ at' = IF tries[w] + 1 = Attempts THEN [at EXCEPT ![w] = "err"] ELSE at
    BY <1>2 DEF CreateTemp
  <2>3. at[w] = "create"
    BY DEF CreateTemp
  <2>4. FileTypes' /\ Equipped'
    <3>1. tries[w] + 1 \in 0 .. Attempts /\ (tries[w] + 1 # Attempts => tries[w] + 1 < Attempts)
      BY <2>1
    <3>2. /\ \A v \in Writers : tries'[v] = IF v = w THEN tries[w] + 1 ELSE tries[v]
          /\ tries' \in [Writers -> 0 .. Attempts]
      BY <2>2, <3>1 DEF FileInv, FileTypes
    <3>3. FileTypes'
      BY <2>2, <3>2 DEF FileInv, FileTypes, Active
    <3>4. at[w] = "create" /\ dest[w] \in Dests
      BY <2>3 DEF FileInv, Equipped
    <3>5. \A v \in Writers : v # w => at'[v] = at[v] /\ tries'[v] = tries[v] /\ dest'[v] = dest[v] /\ temp'[v] = temp[v]
      BY <2>2, <3>2 DEF FileInv, FileTypes
    <3>6. at'[w] = (IF tries[w] + 1 = Attempts THEN "err" ELSE "create") /\ dest'[w] \in Dests
      BY <2>2, <3>4 DEF FileInv, FileTypes
    <3>7. at'[w] = "create" => tries'[w] < Attempts
      BY <3>1, <3>2, <3>6
    <3>8. QED BY <3>3, <3>5, <3>6, <3>7 DEF FileInv, Equipped
  <2>5. QED BY <2>2, <2>3, <2>4 DEF FileInv, FileTypes, Fresh, Written, Installed, TempsOwned, Cleared,
               Names, Inodes, Active
<1>3. QED BY <1>1, <1>2

LEMMA StepKeeps ==
  ASSUME FileInv, NEW w \in Writers,
         CreateFails(w) \/ WriteData(w) \/ SyncData(w) \/ SyncParent(w)
  PROVE  FileInv'
<1>1. CASE CreateFails(w)
  BY <1>1 DEF CreateFails, FileInv, FileTypes, Equipped, Fresh, Written, Installed, TempsOwned,
         Cleared, Names, Inodes, Active, disk
<1>2. CASE WriteData(w)
  BY <1>2 DEF WriteData, FileInv, FileTypes, Equipped, Fresh, Written, Installed, TempsOwned,
         Cleared, Names, Inodes, Active
<1>3. CASE SyncData(w)
  BY <1>3 DEF SyncData, FileInv, FileTypes, Equipped, Fresh, Written, Installed, TempsOwned,
         Cleared, Names, Inodes, Active
<1>4. CASE SyncParent(w)
  BY <1>4 DEF SyncParent, FileInv, FileTypes, Equipped, Fresh, Written, Installed, TempsOwned,
         Cleared, Names, Inodes, Active
<1>5. QED BY <1>1, <1>2, <1>3, <1>4

\* Deleting a name or moving it: what no longer leads to a file cannot mislead.
LEMMA WriteFailsKeeps ==
  ASSUME FileInv, NEW w \in Writers, WriteFails(w)
  PROVE  FileInv'
<1>1. temp[w] \in Temps /\ temp[w] \in Names /\ at[w] \in {"write", "sync", "rename"}
  BY DEF WriteFails, FileInv, Equipped, Names
<1>2. \A n \in Names : dir'[n] = IF n = temp[w] THEN Absent ELSE dir[n]
  BY <1>1 DEF WriteFails, FileInv, FileTypes
<1>3. FileTypes' /\ Equipped' /\ Written'
  BY <1>1 DEF WriteFails, FileInv, FileTypes, Equipped, Written, Names, Inodes, Active
<1>4. Fresh' /\ Installed' /\ TempsOwned'
  BY <1>1, <1>2 DEF WriteFails, FileInv, FileTypes, Fresh, Installed, TempsOwned, Names, Inodes, Active
<1>5. Cleared'
  BY <1>1, <1>2 DEF WriteFails, FileInv, FileTypes, Cleared, TempsOwned, Names, Inodes, Active
<1>6. QED BY <1>3, <1>4, <1>5 DEF FileInv

LEMMA RenameKeeps ==
  ASSUME FileInv, NEW w \in Writers, Rename(w)
  PROVE  FileInv'
<1>1. /\ temp[w] \in Temps /\ dest[w] \in Dests /\ temp[w] # dest[w] /\ at[w] = "rename"
      /\ data[w] = "whole" /\ dataDisk[w] = "whole"
  BY DEF Rename, FileInv, Equipped, Written
<1>2. \A n \in Names : dir'[n] = IF n = temp[w] THEN Absent ELSE IF n = dest[w] THEN w ELSE dir[n]
  BY <1>1 DEF Rename, FileInv, FileTypes, Names
<1>3. FileTypes' /\ Equipped' /\ Written'
  BY <1>1 DEF Rename, FileInv, FileTypes, Equipped, Written, Names, Inodes, Active
<1>4. Fresh' /\ Installed' /\ TempsOwned'
  BY <1>1, <1>2 DEF Rename, FileInv, FileTypes, Fresh, Installed, TempsOwned, Names, Inodes, Active
<1>5. Cleared'
  BY <1>1, <1>2 DEF Rename, FileInv, FileTypes, Cleared, TempsOwned, Names, Inodes, Active
<1>6. QED BY <1>3, <1>4, <1>5 DEF FileInv

LEMMA StopsKeep ==
  ASSUME FileInv, (\E w \in Writers : Kill(w)) \/ WriteBackDir \/ PowerFails
  PROVE  FileInv'
<1>1. CASE \E w \in Writers : Kill(w)
  BY <1>1 DEF Kill, Stopped, FileInv, FileTypes, Equipped, Fresh, Written, Installed, TempsOwned,
         Cleared, Names, Inodes, Active, disk
<1>2. CASE WriteBackDir
  BY <1>2 DEF WriteBackDir, FileInv, FileTypes, Equipped, Fresh, Written, Installed, TempsOwned,
         Cleared, Names, Inodes, Active
<1>3. CASE PowerFails
  BY <1>3 DEF PowerFails, Stopped, FileInv, FileTypes, Equipped, Fresh, Written, Installed,
         TempsOwned, Cleared, Names, Inodes, Active
<1>4. QED BY <1>1, <1>2, <1>3

LEMMA FileKeeps == FileInv /\ [FileNext]_fileVars => FileInv'
<1>1. ASSUME FileInv, UNCHANGED fileVars PROVE FileInv'
  BY <1>1 DEF fileVars, disk, FileInv, FileTypes, Equipped, Fresh, Written, Installed, TempsOwned,
         Cleared
<1>2. ASSUME FileInv, FileNext PROVE FileInv'
  <2>1. ASSUME NEW w \in Writers, Step(w) PROVE FileInv'
    BY <1>2, <2>1, CreateKeeps, StepKeeps, WriteFailsKeeps, RenameKeeps DEF Step
  <2>2. QED BY <1>2, <2>1, BeginKeeps, StopsKeep DEF FileNext
<1>3. QED BY <1>1, <1>2

LEMMA FileIsSound == FileSpec => []FileInv
  BY InitFile, FileKeeps, PTL DEF FileSpec
-------------------------------------------------------------------------------
(* The processes: what each holds by the time it gets there.  A writer that *)
(* has begun holds the schema it writes, for good.                          *)

Docker == backend = "docker"
Used   == IF Docker THEN Contents ELSE {Tag}
Past   == {"saving", "loaded", "running", "failed"}

LoadTypes ==
    /\ backend \in {"docker", "in_container"} /\ registry \in Contents
    /\ local \in Contents \cup {Absent} /\ oldTag \in Contents \cup {Absent}
    /\ lp \in [Writers -> Points] /\ ident \in [Writers -> Dests \cup {Absent}]
    /\ actual \in [Writers -> Contents \cup {Absent}]
    /\ schema \in [Writers -> Contents \cup {Absent}]

Identified ==
    \A p \in Writers :
        /\ lp[p] \in {"missing", "never", "pull", "inspect"} => Docker
        /\ lp[p] \in {"lookup", "read", "introspect", "save", "saving", "loaded", "running"} =>
             ident[p] \in Used /\ (~Docker => actual[p] \in Contents)

Inspected ==
    \A p \in Writers :
        lp[p] = "save" => schema[p] = IF Docker THEN ident[p] ELSE actual[p]

WritesOwn ==
    \A p \in Writers : at[p] # "idle" =>
        /\ lp[p] \in Past /\ dest[p] \in Used
        /\ schema[p] = IF Docker THEN dest[p] ELSE actual[p]
        /\ lp[p] # "failed" => dest[p] = ident[p]

Left(p) == {oldTag} \cup {actual[q] : q \in {w \in Writers \ {p} : at[w] # "idle"}}

Loaded ==
    \A p \in Writers :
        /\ lp[p] = "loaded" => IF Docker THEN schema[p] = ident[p]
                               ELSE schema[p] = actual[p] \/ schema[p] \in Left(p)
        /\ lp[p] = "running" => schema[p] = actual[p] \/ (~Docker /\ schema[p] \in Left(p))

LoadInv == LoadTypes /\ Identified /\ Inspected /\ WritesOwn /\ Loaded

LEMMA InitLoads == Init => LoadInv
  BY SchemaAssumption DEF SchemaAssumption, Init, FileInit, LoadInv, LoadTypes, Identified,
     Inspected, WritesOwn, Loaded, Points, Inodes, Names

LEMMA WorldKeeps ==
  ASSUME LoadInv, TagMoves \/ HostChanges \/ (WriteBackDir /\ UNCHANGED <<world, loads>>)
         \/ UNCHANGED vars
  PROVE  LoadInv'
  BY DEF TagMoves, HostChanges, WriteBackDir, LoadInv, LoadTypes, Identified, Inspected, WritesOwn,
     Loaded, Left, Docker, Used, vars, world, loads, fileVars, disk

LEMMA StepsGoOn ==
  ASSUME FileTypes, NEW w \in Writers, Step(w)
  PROVE  dest' = dest /\ \A v \in Writers : at'[v] = "idle" <=> at[v] = "idle"
  BY DEF Step, CreateTemp, CreateFails, WriteData, SyncData, WriteFails, Rename, SyncParent, FileTypes

LEMMA StepKeepsLoads ==
  ASSUME FileTypes, LoadInv, NEW w \in Writers, Step(w), UNCHANGED <<world, loads>>
  PROVE  LoadInv'
<1>1. dest' = dest /\ \A v \in Writers : at'[v] = "idle" <=> at[v] = "idle"
  BY StepsGoOn
<1>2. \A p \in Writers : Left(p)' = Left(p)
  BY <1>1 DEF Left, world, loads
<1>3. QED BY <1>1, <1>2 DEF LoadInv, LoadTypes, Identified, Inspected, WritesOwn, Loaded, Docker,
               Used, world, loads

LEMMA KillKeepsLoads ==
  ASSUME FileTypes, LoadInv, NEW P \in SUBSET Writers, at' = Stopped(P), dest' = dest, Killed(P)
  PROVE  LoadInv'
<1>1. \A v \in Writers : at'[v] = "idle" <=> at[v] = "idle"
  BY DEF Stopped, Active, FileTypes
<1>2. \A p \in Writers : Left(p)' = Left(p)
  BY <1>1 DEF Left, Killed, world
<1>3. \A p \in Writers : lp'[p] = lp[p] \/ lp'[p] = "failed"
  BY DEF Killed, LoadInv, LoadTypes
<1>4. LoadTypes' /\ Identified' /\ Inspected' /\ WritesOwn' /\ Loaded'
  BY <1>1, <1>2, <1>3 DEF Killed, LoadInv, LoadTypes, Identified, Inspected, WritesOwn, Loaded,
     Docker, Used, Past, Points, world
<1>5. QED BY <1>4 DEF LoadInv

\* While it looks for the image, and at the cache, a process writes nothing.
LEMMA ResolveKeeps ==
  ASSUME LoadInv, NEW p \in Writers,
         Resolve(p) \/ TakeReference(p) \/ ImageExists(p) \/ PullImage(p) \/ InspectImage(p)
           \/ CommandFails(p) \/ Lookup(p) \/ StartEngine(p)
  PROVE  LoadInv'
<1> USE SchemaAssumption DEF SchemaAssumption
<1>1. CASE Resolve(p)
  BY <1>1 DEF Resolve, Goto, LoadInv, LoadTypes, Identified, Inspected, WritesOwn, Loaded, Left,
     Docker, Used, Past, Points, world, fileVars
<1>2. CASE TakeReference(p)
  <2>1. at[p] = "idle"
    BY <1>2 DEF TakeReference, Goto, LoadInv, WritesOwn, Past
  <2>2. \A q \in Writers \ {p} : actual'[q] = actual[q]
    BY <1>2 DEF TakeReference, LoadInv, LoadTypes
  <2>3. \A q \in Writers : Left(q)' = Left(q)
    BY <1>2, <2>1, <2>2 DEF TakeReference, Left, fileVars, world
  <2>4. QED BY <1>2, <2>1, <2>3 DEF TakeReference, Goto, LoadInv, LoadTypes, Identified, Inspected,
               WritesOwn, Loaded, Docker, Used, Past, Points, world, fileVars
<1>3. CASE ImageExists(p)
  BY <1>3 DEF ImageExists, Goto, LoadInv, LoadTypes, Identified, Inspected, WritesOwn, Loaded, Left,
     Docker, Used, Past, Points, world, fileVars
<1>4. CASE PullImage(p)
  BY <1>4 DEF PullImage, Goto, LoadInv, LoadTypes, Identified, Inspected, WritesOwn, Loaded, Left,
     Docker, Used, Past, Points, fileVars
<1>5. CASE InspectImage(p)
  BY <1>5 DEF InspectImage, Goto, LoadInv, LoadTypes, Identified, Inspected, WritesOwn, Loaded, Left,
     Docker, Used, Past, Points, world, fileVars
<1>6. CASE CommandFails(p)
  BY <1>6 DEF CommandFails, LoadInv, LoadTypes, Identified, Inspected, WritesOwn, Loaded, Left,
     Docker, Used, Past, Points, world, fileVars
<1>7. CASE Lookup(p)
  BY <1>7 DEF Lookup, Goto, LoadInv, LoadTypes, Identified, Inspected, WritesOwn, Loaded, Left,
     Docker, Used, Past, Points, world, fileVars
<1>8. CASE StartEngine(p)
  BY <1>8 DEF StartEngine, Goto, LoadInv, LoadTypes, Identified, Inspected, WritesOwn, Loaded, Left,
     Docker, Used, Past, Points, world, fileVars
<1>9. QED BY <1>1, <1>2, <1>3, <1>4, <1>5, <1>6, <1>7, <1>8

\* What the cache gives is what its writer holds, or what was there before.
LEMMA ReadKeeps ==
  ASSUME FileInv, LoadInv, NEW p \in Writers, ReadCache(p)
  PROVE  LoadInv'
<1> USE SchemaAssumption DEF SchemaAssumption
<1> DEFINE d == ident[p]
<1>1. /\ lp[p] = "read" /\ d \in Used /\ d \in Dests /\ d \in Names /\ (Docker => d # Tag) /\ at[p] = "idle"
      /\ (~Docker => actual[p] \in Contents)
  BY DEF ReadCache, LoadInv, Identified, WritesOwn, Past, Used, Names
<1>2. UNCHANGED <<fileVars, world, ident, actual>> /\ UNCHANGED <<at, dest, backend, oldTag>>
  BY DEF ReadCache, fileVars, world
<1>3. CASE lp' = [lp EXCEPT ![p] = "poisoned"] /\ UNCHANGED schema
  BY <1>1, <1>2, <1>3 DEF LoadInv, LoadTypes, Identified, Inspected, WritesOwn, Loaded, Left, Docker,
     Used, Past, Points, fileVars, world
<1>4. CASE /\ dir[d] # Absent /\ lp' = [lp EXCEPT ![p] = "loaded"]
           /\ schema' = [schema EXCEPT ![p] = CacheSchema(d)]
  <2>1. CASE dir[d] = Old
    <3>1. CacheSchema(d) = (IF Docker THEN d ELSE oldTag)
      BY <1>1, <2>1 DEF CacheSchema, Used
    <3>2. CacheSchema(d) \in Contents \cup {Absent}
      BY <1>1, <3>1 DEF Used, LoadInv, LoadTypes
    <3>3. \A q \in Writers : q # p => schema'[q] = schema[q] /\ lp'[q] = lp[q]
      BY <1>4 DEF LoadInv, LoadTypes
    <3>4. lp'[p] = "loaded" /\ schema'[p] = CacheSchema(d)
      BY <1>4 DEF LoadInv, LoadTypes
    <3>5. LoadTypes'
      BY <1>2, <1>4, <3>2 DEF LoadInv, LoadTypes, Points, world
    <3>6. \A q \in Writers : Left(q)' = Left(q) /\ oldTag \in Left(q)
      BY <1>2 DEF Left
    <3>7. QED BY <1>1, <1>2, <3>1, <3>3, <3>4, <3>5, <3>6 DEF LoadInv, Identified, Inspected, WritesOwn,
                 Loaded, Docker, Used, Past
  <2>2. CASE dir[d] # Old
    <3>1. PICK w \in Writers : dir[d] = w
      BY <1>1, <1>4, <2>2 DEF FileInv, FileTypes, Inodes
    <3>2. at[w] # "idle" /\ dest[w] = d /\ w # p
      BY <1>1, <3>1 DEF FileInv, Installed
    <3>3. CacheSchema(d) = schema[w] /\ schema[w] = (IF Docker THEN d ELSE actual[w])
      BY <2>2, <3>1, <3>2 DEF CacheSchema, LoadInv, WritesOwn
    <3>4. \A q \in Writers : q # p => schema'[q] = schema[q] /\ lp'[q] = lp[q]
      BY <1>4 DEF LoadInv, LoadTypes
    <3>5. lp'[p] = "loaded" /\ schema'[p] = CacheSchema(d)
      BY <1>4 DEF LoadInv, LoadTypes
    <3>6. LoadTypes'
      BY <1>2, <1>4, <3>3 DEF LoadInv, LoadTypes, Points, world
    <3>7. \A q \in Writers : Left(q)' = Left(q)
      BY <1>2 DEF Left
    <3>8. actual[w] \in Left(p)
      BY <3>2 DEF Left
    <3>9. QED BY <1>1, <1>2, <3>3, <3>4, <3>5, <3>6, <3>7, <3>8 DEF LoadInv, Identified, Inspected,
                 WritesOwn, Loaded, Docker, Used, Past
  <2>3. QED BY <2>1, <2>2
<1>5. QED BY <1>3, <1>4 DEF ReadCache, Goto

LEMMA InspectKeeps ==
  ASSUME LoadInv, NEW p \in Writers, Introspect(p)
  PROVE  LoadInv'
<1>1. lp[p] = "introspect" /\ at[p] = "idle" /\ ident[p] \in Used /\ (~Docker => actual[p] \in Contents)
  BY DEF Introspect, Goto, LoadInv, Identified, WritesOwn, Past
<1>2. UNCHANGED <<at, dest, backend, oldTag, ident, actual, registry, local>>
  BY DEF Introspect, fileVars, world
<1>3. /\ lp' = [lp EXCEPT ![p] = "save"]
      /\ schema' = [schema EXCEPT ![p] = IF Docker THEN ident[p] ELSE actual[p]]
  BY DEF Introspect, Goto, Docker
<1>4. \A q \in Writers : Left(q)' = Left(q)
  BY <1>2 DEF Left
<1>5. LoadTypes'
  BY <1>1, <1>2, <1>3 DEF LoadInv, LoadTypes, Points, Used
<1>6. QED BY <1>1, <1>2, <1>3, <1>4, <1>5 DEF LoadInv, LoadTypes, Identified, Inspected, WritesOwn,
             Loaded, Docker, Used, Past

LEMMA SaveKeeps ==
  ASSUME FileTypes, LoadInv, NEW p \in Writers, Save(p) \/ Saved(p)
  PROVE  LoadInv'
<1>1. CASE Save(p)
  <2>1. /\ lp[p] = "save" /\ at[p] = "idle" /\ ident[p] \in Used /\ (~Docker => actual[p] \in Contents)
        /\ schema[p] = IF Docker THEN ident[p] ELSE actual[p]
    BY <1>1 DEF Save, Goto, LoadInv, Identified, Inspected, WritesOwn, Past
  <2>2. /\ at' = [at EXCEPT ![p] = "create"] /\ dest' = [dest EXCEPT ![p] = ident[p]]
        /\ lp' = [lp EXCEPT ![p] = "saving"]
        /\ UNCHANGED <<backend, oldTag, ident, actual, schema, registry, local>>
    BY <1>1 DEF Save, Begin, Goto, world
  <2>3. \A q \in Writers : Left(q) \subseteq Left(q)'
    BY <2>1, <2>2 DEF Left, FileTypes
  <2>4. LoadTypes'
    BY <2>2 DEF LoadInv, LoadTypes, Points
  <2>5. QED BY <2>1, <2>2, <2>3, <2>4 DEF LoadInv, LoadTypes, FileTypes, Identified, Inspected, WritesOwn,
               Loaded, Docker, Used, Past
<1>2. CASE Saved(p)
  <2>1. /\ lp[p] = "saving" /\ at[p] # "idle" /\ ident[p] \in Used /\ (~Docker => actual[p] \in Contents)
        /\ schema[p] = IF Docker THEN ident[p] ELSE actual[p]
    BY <1>2 DEF Saved, LoadInv, Identified, WritesOwn
  <2>2. UNCHANGED <<at, dest, backend, oldTag, ident, actual, schema, registry, local>>
    BY <1>2 DEF Saved, fileVars, world
  <2>3. lp' = [lp EXCEPT ![p] = "loaded"] \/ lp' = [lp EXCEPT ![p] = "failed"]
    BY <1>2 DEF Saved
  <2>4. \A q \in Writers : Left(q)' = Left(q)
    BY <2>2 DEF Left
  <2>5. LoadTypes'
    BY <2>2, <2>3 DEF LoadInv, LoadTypes, Points
  <2>6. QED BY <2>1, <2>2, <2>3, <2>4, <2>5 DEF LoadInv, LoadTypes, Identified, Inspected, WritesOwn,
               Loaded, Docker, Used, Past
<1>3. QED BY <1>1, <1>2

\* The processes write through atomic_write, and touch nothing of it besides.
LEMMA OnlyFileSteps == LoadInv /\ [Next]_vars => [FileNext]_fileVars
<1>1. ASSUME LoadInv, NEW p \in Writers, Load(p) PROVE [FileNext]_fileVars
  <2>1. CASE Save(p)
    <3>1. ident[p] \in Dests
      BY <1>1, <2>1, SchemaAssumption DEF SchemaAssumption, Save, Goto, LoadInv, Identified, Used
    <3>2. QED BY <2>1, <3>1 DEF Save, FileNext
  <2>2. QED BY <1>1, <2>1 DEF Load, Resolve, TakeReference, ImageExists, PullImage, InspectImage,
               CommandFails, Lookup, ReadCache, Introspect, Saved, StartEngine
<1>2. QED BY <1>1 DEF Next, FileNext, TagMoves, HostChanges, vars

LEMMA LoadsKeep == FileInv /\ LoadInv /\ [Next]_vars => LoadInv'
<1>1. ASSUME FileInv, LoadInv, NEW p \in Writers, Load(p) PROVE LoadInv'
  BY <1>1, ResolveKeeps, ReadKeeps, InspectKeeps, SaveKeeps DEF Load, FileInv
<1>2. ASSUME FileInv, LoadInv, NEW p \in Writers, Kill(p), Killed({p}) PROVE LoadInv'
  BY <1>2, KillKeepsLoads DEF Kill, FileInv
<1>3. ASSUME FileInv, LoadInv, PowerFails, Killed(Writers) PROVE LoadInv'
  BY <1>3, KillKeepsLoads DEF PowerFails, FileInv
<1>4. QED BY <1>1, <1>2, <1>3, StepKeepsLoads, WorldKeeps DEF Next, FileInv

LEMMA CacheInvariant == Spec => [](FileInv /\ LoadInv)
<1>1. Init => FileInv /\ LoadInv
  BY InitFile, InitLoads DEF Init
<1>2. FileInv /\ LoadInv /\ [Next]_vars => (FileInv /\ LoadInv)'
  BY FileKeeps, LoadsKeep, OnlyFileSteps
<1>3. QED BY <1>1, <1>2, PTL DEF Spec

\* Nobody who looks at a cache file ever finds part of a write, or somebody
\* else's: for any number of processes, names and power failures.
THEOREM CachesAreWhole == Spec => []NeverTorn
<1>1. FileInv => NeverTorn
  BY DEF FileInv, FileTypes, Written, Installed, NeverTorn, Names, Inodes
<1>2. QED BY <1>1, CacheInvariant, PTL

\* The schema a run was validated against is that of the image it runs.
THEOREM RunsAreValidated == Spec => []ValidatedWhatRuns
<1>1. LoadInv => ValidatedWhatRuns
  <2>1. SUFFICES ASSUME LoadInv, NEW p \in Writers, lp[p] = "running", schema[p] # actual[p]
                 PROVE  backend = "in_container"
                        /\ schema[p] \in {oldTag} \cup {actual[q] : q \in Writers \ {p}}
    BY DEF ValidatedWhatRuns
  <2>2. ~Docker /\ schema[p] \in Left(p)
    BY <2>1 DEF LoadInv, Loaded
  <2>3. QED BY <2>1, <2>2 DEF Left, Docker, LoadInv, LoadTypes
<1>2. QED BY <1>1, CacheInvariant, PTL

\* What was found stays there, until the power fails.
Found == \A p \in Writers : lp[p] = "read" => dir[ident[p]] # Absent

UsableInv == Found /\ NeverPoisoned /\ outages <= MaxOutages /\ backend \in Backends

LEMMA FileStepsKeepNames ==
  ASSUME FileInv, NEW w \in Writers, Step(w), NEW d \in Dests, dir[d] # Absent
  PROVE  dir'[d] # Absent
<1>1. d \in Names /\ d \notin Temps /\ w # Absent
  BY DEF Names, Inodes
<1>2. at[w] \in {"write", "sync", "rename"} => temp[w] # d /\ dest[w] \in Dests
  BY <1>1 DEF FileInv, Equipped
<1>3. QED BY <1>1, <1>2 DEF Step, CreateTemp, CreateFails, WriteData, SyncData, WriteFails, Rename,
             SyncParent, disk, FileInv, FileTypes

LEMMA UsableKeeps ==
  ASSUME FileInv, LoadInv, UsableInv, [Next]_vars
  PROVE  UsableInv'
<1>1. CASE UNCHANGED vars
  BY <1>1 DEF UsableInv, Found, NeverPoisoned, vars, fileVars, disk, world, loads
<1>2. ASSUME NEW p \in Writers, Load(p) PROVE UsableInv'
  <2>1. CASE Save(p)
    BY <2>1 DEF Save, Begin, Goto, UsableInv, Found, NeverPoisoned, LoadInv, LoadTypes, disk, world
  <2>2. CASE ReadCache(p)
    <3>1. ident[p] \in Dests /\ dir[ident[p]] # Absent /\ ident[p] \in Names
      BY <2>2, SchemaAssumption DEF SchemaAssumption, ReadCache, LoadInv, Identified, Used, UsableInv, Found, Names
    <3>2. data[dir[ident[p]]] = "whole"
      BY <3>1 DEF FileInv, FileTypes, Installed, Written, Inodes
    <3>3. QED BY <2>2, <3>1, <3>2 DEF ReadCache, Goto, UsableInv, Found, NeverPoisoned, LoadInv,
                 LoadTypes, fileVars, disk, world
  <2>3. CASE ~Save(p) /\ ~ReadCache(p)
    <3>1. UNCHANGED fileVars /\ UNCHANGED backend
      BY <1>2, <2>3 DEF Load, Resolve, TakeReference, ImageExists, PullImage, InspectImage,
         CommandFails, Lookup, Introspect, Saved, StartEngine, world
    <3>2. \A q \in Writers : q # p => lp'[q] = lp[q] /\ ident'[q] = ident[q]
      BY <1>2, <2>3 DEF Load, Resolve, TakeReference, ImageExists, PullImage, InspectImage,
         CommandFails, Lookup, Introspect, Saved, StartEngine, Goto, LoadInv, LoadTypes
    <3>3. lp'[p] # "poisoned" /\ (lp'[p] = "read" => dir[ident'[p]] # Absent)
      BY <1>2, <2>3 DEF Load, Resolve, TakeReference, ImageExists, PullImage, InspectImage,
         CommandFails, Lookup, Introspect, Saved, StartEngine, Goto, LoadInv, LoadTypes
    <3>4. QED BY <3>1, <3>2, <3>3 DEF UsableInv, Found, NeverPoisoned, fileVars, disk
  <2>4. QED BY <2>1, <2>2, <2>3
<1>3. ASSUME NEW w \in Writers, Step(w), UNCHANGED <<world, loads>> PROVE UsableInv'
  <2>1. \A p \in Writers : lp[p] = "read" => ident[p] \in Dests
    BY SchemaAssumption DEF SchemaAssumption, LoadInv, Identified, Used
  <2>2. outages' = outages
    BY <1>3 DEF Step, CreateTemp, CreateFails, WriteData, SyncData, WriteFails, Rename, SyncParent
  <2>3. QED BY <1>3, <2>1, <2>2, FileStepsKeepNames DEF UsableInv, Found, NeverPoisoned, world, loads
<1>4. ASSUME NEW w \in Writers, Kill(w), Killed({w}) PROVE UsableInv'
  BY <1>4 DEF Kill, Killed, UsableInv, Found, NeverPoisoned, LoadInv, LoadTypes, disk, world
<1>5. CASE PowerFails /\ outages < MaxOutages /\ Killed(Writers)
  <2>1. \A p \in Writers : lp'[p] \notin {"read", "poisoned"}
    BY <1>5 DEF Killed, LoadInv, LoadTypes
  <2>2. outages' <= MaxOutages /\ backend' = backend
    BY <1>5, SchemaAssumption DEF SchemaAssumption, PowerFails, Killed, world, FileInv, FileTypes
  <2>3. QED BY <2>1, <2>2 DEF UsableInv, Found, NeverPoisoned
<1>6. CASE WriteBackDir /\ UNCHANGED <<world, loads>>
  BY <1>6 DEF WriteBackDir, UsableInv, Found, NeverPoisoned, world, loads
<1>7. CASE TagMoves \/ HostChanges
  BY <1>7 DEF TagMoves, HostChanges, UsableInv, Found, NeverPoisoned, loads, fileVars, disk
<1>8. QED BY <1>1, <1>2, <1>3, <1>4, <1>5, <1>6, <1>7 DEF Next

\* No temporary file is shared or left behind, and a load never fails on what a
\* concurrent, killed or powered-off writer left in the cache.
THEOREM CachesStayUsable == Spec => []Consistent
<1>1. Init => UsableInv
  BY SchemaAssumption DEF SchemaAssumption, Init, FileInit, UsableInv, Found, NeverPoisoned
<1>2. FileInv /\ LoadInv /\ UsableInv => Consistent
  <2>1. SUFFICES ASSUME FileInv, LoadInv, UsableInv PROVE Consistent
    OBVIOUS
  <2>2. TypeOK
    BY <2>1, SchemaAssumption DEF SchemaAssumption, TypeOK, FileInv, FileTypes, LoadInv, LoadTypes, UsableInv
  <2>3. TempsAreOwn
    BY <2>1 DEF TempsAreOwn, FileInv, TempsOwned, Cleared
  <2>4. QED BY <2>1, <2>2, <2>3 DEF Consistent, UsableInv
<1>3. QED BY <1>1, <1>2, UsableKeeps, CacheInvariant, PTL DEF Spec
-------------------------------------------------------------------------------
(* Each destination is an atomic register: the only step that changes what  *)
(* is read there is a rename, and that is safe on the disk by then.         *)

LEMMA ContentIsWhole ==
  ASSUME FileInv, NEW d \in Dests
  PROVE  Content(dir, data, d) = dir[d] /\ Content(dirDisk, dataDisk, d) = dirDisk[d]
  BY DEF Content, FileInv, FileTypes, Installed, Written, Names, Inodes

Confirmed(d) == {w \in Writers : at[w] = "ok" /\ dest[w] = d}

LEMMA RegisterSteps ==
  ASSUME FileInv, FileInv', NEW d \in Dests, [FileNext]_fileVars
  PROVE  \/ UNCHANGED <<dir[d], dirDisk[d], Confirmed(d)>>
         \/ \E w \in Writers : /\ w \notin Confirmed(d) /\ dir'[d] = w
                               /\ UNCHANGED <<dirDisk[d], Confirmed(d)>>
         \/ \E w \in Writers : /\ Confirmed(d)' = Confirmed(d) \cup {w}
                               /\ dirDisk'[d] = dir[d] /\ UNCHANGED <<dir[d]>>
         \/ dirDisk'[d] = dir[d] /\ UNCHANGED <<dir[d], Confirmed(d)>>
         \/ dir'[d] = dirDisk[d] /\ UNCHANGED <<dirDisk[d], Confirmed(d)>>
<1>1. d \in Names /\ d \notin Temps
  BY DEF Names
<1>2. CASE UNCHANGED fileVars
  BY <1>2 DEF fileVars, disk, Confirmed
<1>3. ASSUME NEW w \in Writers, NEW e \in Dests, Begin(w, e)
      PROVE UNCHANGED <<dir[d], dirDisk[d], Confirmed(d)>>
  BY <1>3 DEF Begin, Confirmed, disk, FileInv, FileTypes
<1>4. ASSUME NEW w \in Writers,
             (\E n \in Temps : CreateTemp(w, n)) \/ CreateFails(w) \/ WriteData(w) \/ SyncData(w)
      PROVE UNCHANGED <<dir[d], dirDisk[d], Confirmed(d)>>
  BY <1>1, <1>4 DEF CreateTemp, CreateFails, WriteData, SyncData, Confirmed, disk, FileInv, FileTypes
<1>5. ASSUME NEW w \in Writers, WriteFails(w)
      PROVE UNCHANGED <<dir[d], dirDisk[d], Confirmed(d)>>
  <2>1. temp[w] # d
    BY <1>1, <1>5 DEF WriteFails, FileInv, Equipped
  <2>2. QED BY <1>1, <1>5, <2>1 DEF WriteFails, Confirmed, FileInv, FileTypes
<1>6. ASSUME NEW w \in Writers, Rename(w)
      PROVE  \/ UNCHANGED <<dir[d], dirDisk[d], Confirmed(d)>>
             \/ /\ w \notin Confirmed(d) /\ dir'[d] = w
                /\ UNCHANGED <<dirDisk[d], Confirmed(d)>>
  <2>1. temp[w] # d
    BY <1>1, <1>6 DEF Rename, FileInv, Equipped
  <2>2. QED BY <1>1, <1>6, <2>1 DEF Rename, Confirmed, FileInv, FileTypes
<1>7. ASSUME NEW w \in Writers, SyncParent(w)
      PROVE  \/ UNCHANGED <<dir[d], dirDisk[d], Confirmed(d)>>
             \/ /\ Confirmed(d)' = Confirmed(d) \cup {w}
                /\ dirDisk'[d] = dir[d] /\ UNCHANGED <<dir[d]>>
             \/ dirDisk'[d] = dir[d] /\ UNCHANGED <<dir[d], Confirmed(d)>>
  <2>1. CASE dest[w] = d
    BY <1>7, <2>1 DEF SyncParent, Confirmed, FileInv, FileTypes
  <2>2. CASE dest[w] # d
    BY <1>7, <2>2 DEF SyncParent, Confirmed, FileInv, FileTypes
  <2>3. QED BY <2>1, <2>2
<1>8. ASSUME NEW w \in Writers, Kill(w)
      PROVE UNCHANGED <<dir[d], dirDisk[d], Confirmed(d)>>
  BY <1>8 DEF Kill, Stopped, Active, Confirmed, disk, FileInv, FileTypes
<1>9. CASE WriteBackDir
  BY <1>9 DEF WriteBackDir, Confirmed
<1>10. CASE PowerFails
  BY <1>10 DEF PowerFails, Stopped, Active, Confirmed, FileInv, FileTypes
<1>11. QED BY <1>2, <1>3, <1>4, <1>5, <1>6, <1>7, <1>8, <1>9, <1>10 DEF FileNext, Step

\* Whatever fails, whoever is killed and however often the power goes: a cache
\* file is an atomic register that keeps what it has confirmed.
THEOREM CachesAreRegisters == Spec => ImplementsRegister
<1>1. Init => \A d \in Dests : Register(d)!Init
  <2>1. SUFFICES ASSUME Init, NEW d \in Dests PROVE Register(d)!Init
    OBVIOUS
  <2>2. dir[d] \in {Old, Absent} /\ dirDisk = dir /\ dataDisk = data /\ \A w \in Writers : at[w] = "idle"
    BY <2>1 DEF Init, FileInit, Names
  <2>3. FileInv
    BY <2>1, InitFile DEF Init
  <2>4. QED BY <2>2, <2>3, ContentIsWhole DEF Register!Init
<1>2. FileInv /\ LoadInv /\ [Next]_vars /\ FileInv' => [\A d \in Dests : Register(d)!Step]_vars
  <2>1. SUFFICES ASSUME FileInv, LoadInv, [Next]_vars, FileInv', NEW d \in Dests
                 PROVE  Register(d)!Step
    OBVIOUS
  <2>2. [FileNext]_fileVars
    BY <2>1, OnlyFileSteps
  <2>3. /\ Content(dir, data, d) = dir[d] /\ Content(dirDisk, dataDisk, d) = dirDisk[d]
        /\ Content(dir, data, d)' = dir'[d] /\ Content(dirDisk, dataDisk, d)' = dirDisk'[d]
    BY <2>1, ContentIsWhole DEF Content, FileInv, FileTypes, Installed, Written, Names, Inodes
  <2>4. /\ {w \in Writers : at[w] = "ok" /\ dest[w] = d} = Confirmed(d)
        /\ {w \in Writers : at[w] = "ok" /\ dest[w] = d}' = Confirmed(d)'
    BY DEF Confirmed
  <2>5. \/ UNCHANGED <<dir[d], dirDisk[d], Confirmed(d)>>
        \/ \E w \in Writers : /\ w \notin Confirmed(d) /\ dir'[d] = w
                              /\ UNCHANGED <<dirDisk[d], Confirmed(d)>>
        \/ \E w \in Writers : /\ Confirmed(d)' = Confirmed(d) \cup {w}
                              /\ dirDisk'[d] = dir[d] /\ UNCHANGED <<dir[d]>>
        \/ dirDisk'[d] = dir[d] /\ UNCHANGED <<dir[d], Confirmed(d)>>
        \/ dir'[d] = dirDisk[d] /\ UNCHANGED <<dirDisk[d], Confirmed(d)>>
    BY <2>1, <2>2, RegisterSteps
  <2>6. QED BY <2>3, <2>4, <2>5 DEF Register!Step, Register!Next, Register!Install, Register!Confirm,
               Register!Harden, Register!Revert
<1>3. QED BY <1>1, <1>2, CacheInvariant, PTL DEF Spec, ImplementsRegister
=================================================================================
