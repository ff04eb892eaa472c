------------------------------- MODULE AtomicFile -------------------------------
(***************************************************************************)
(* atomic_write (runtime/atomic.rs) on a file system that loses what was   *)
(* not synced when the machine stops.  Each writer writes one file, under  *)
(* a temporary name of its own next to the destination, and renames it.    *)
(* A name leads to an inode, called after the writer that created it, or   *)
(* to Old, what was there before, or to Absent.  That the guard of a       *)
(* temporary file fails to remove it (atomic.rs:198) is left out.          *)
(***************************************************************************)
EXTENDS Naturals, FiniteSets

CONSTANTS
    Writers,   \* calls of atomic_write
    Dests,     \* destinations
    Temps,     \* the temporary names there are
    Attempts,  \* MAX_TEMP_ATTEMPTS
    Old,       \* the content before the first write
    Absent,    \* no such file
    IoFaults   \* the calls that may fail

Inodes == Writers \cup {Old}
Names  == Dests \cup Temps

ASSUME FileAssumption ==
    /\ Dests \cap Temps = {} /\ Old \notin Writers /\ Absent \notin Inodes
    /\ Attempts \in Nat \ {0}
    /\ IoFaults \subseteq {"create", "write", "rename", "syncdir"}

VARIABLES
    dir,       \* the directory as processes see it
    dirDisk,   \* the directory as a power failure leaves it
    data,      \* what reading an inode yields: "part", which may be nothing, or "whole"
    dataDisk,  \* what a power failure leaves of that, at worst
    at,        \* where each writer stands
    dest,      \* its destination
    temp,      \* its temporary name, once it has one
    tries,     \* the names it found taken
    outages    \* how often the machine stopped

disk     == <<dir, dirDisk, data, dataDisk>>
fileVars == <<disk, at, dest, temp, tries, outages>>

Active == {"create", "write", "sync", "rename", "syncdir"}

\* The destinations exist or not; of earlier processes, temporary files may be
\* left, whose names a process with the same id comes to again.
FileInit ==
    /\ dir \in [Names -> {Old, Absent}] /\ dirDisk = dir
    /\ data = [i \in Inodes |-> IF i = Old THEN "whole" ELSE "part"] /\ dataDisk = data
    /\ at = [w \in Writers |-> "idle"] /\ dest = [w \in Writers |-> Absent]
    /\ temp = [w \in Writers |-> Absent] /\ tries = [w \in Writers |-> 0]
    /\ outages = 0
-------------------------------------------------------------------------------
Begin(w, d) ==
    /\ at[w] = "idle"
    /\ at' = [at EXCEPT ![w] = "create"] /\ dest' = [dest EXCEPT ![w] = d]
    /\ UNCHANGED <<disk, temp, tries, outages>>

\* open with create_new: a name that exists is passed over, up to a number of
\* attempts; any other error is final.
CreateTemp(w, n) ==
    /\ at[w] = "create" /\ n \in Temps
    /\ IF dir[n] = Absent
       THEN /\ dir' = [dir EXCEPT ![n] = w] /\ temp' = [temp EXCEPT ![w] = n]
            /\ at' = [at EXCEPT ![w] = "write"] /\ UNCHANGED tries
       ELSE /\ tries' = [tries EXCEPT ![w] = @ + 1] /\ UNCHANGED <<dir, temp>>
            /\ at' = IF tries[w] + 1 = Attempts THEN [at EXCEPT ![w] = "err"] ELSE at
    /\ UNCHANGED <<dirDisk, data, dataDisk, dest, outages>>

CreateFails(w) ==
    /\ "create" \in IoFaults /\ at[w] = "create"
    /\ at' = [at EXCEPT ![w] = "err"]
    /\ UNCHANGED <<disk, dest, temp, tries, outages>>

\* write_all and flush.
WriteData(w) ==
    /\ at[w] = "write"
    /\ data' = [data EXCEPT ![w] = "whole"] /\ at' = [at EXCEPT ![w] = "sync"]
    /\ UNCHANGED <<dir, dirDisk, dataDisk, dest, temp, tries, outages>>

\* Deliberate defect: the file is flushed to the kernel, and no further.
SkipSync(w) ==
    /\ at[w] = "sync"
    /\ at' = [at EXCEPT ![w] = "rename"]
    /\ UNCHANGED <<disk, dest, temp, tries, outages>>

\* sync_all
SyncData(w) ==
    /\ at[w] = "sync"
    /\ dataDisk' = [dataDisk EXCEPT ![w] = data[w]] /\ at' = [at EXCEPT ![w] = "rename"]
    /\ UNCHANGED <<dir, dirDisk, data, dest, temp, tries, outages>>

\* Deliberate defect: the temporary file of a failed write stays.
LeaveTemp(w) ==
    /\ at[w] \in {"write", "sync", "rename"} /\ IoFaults \cap {"write", "rename"} # {}
    /\ at' = [at EXCEPT ![w] = "err"]
    /\ UNCHANGED <<disk, dest, temp, tries, outages>>

\* Whatever fails between, the guard removes the temporary file.
WriteFails(w) ==
    /\ \/ at[w] \in {"write", "sync"} /\ "write" \in IoFaults
       \/ at[w] = "rename" /\ "rename" \in IoFaults
    /\ dir' = [dir EXCEPT ![temp[w]] = Absent] /\ at' = [at EXCEPT ![w] = "err"]
    /\ UNCHANGED <<dirDisk, data, dataDisk, dest, temp, tries, outages>>

Rename(w) ==
    /\ at[w] = "rename"
    /\ dir' = [dir EXCEPT ![dest[w]] = w, ![temp[w]] = Absent]
    /\ at' = [at EXCEPT ![w] = "syncdir"]
    /\ UNCHANGED <<dirDisk, data, dataDisk, dest, temp, tries, outages>>

\* Deliberate defect: the rename is taken for durable.
SkipParent(w) ==
    /\ at[w] = "syncdir"
    /\ at' = [at EXCEPT ![w] = "ok"]
    /\ UNCHANGED <<disk, dest, temp, tries, outages>>

\* sync_parent; where it fails the new file is in place, and yet an error.
SyncParent(w) ==
    /\ at[w] = "syncdir"
    /\ \/ at' = [at EXCEPT ![w] = "ok"] /\ dirDisk' = dir
       \/ "syncdir" \in IoFaults /\ at' = [at EXCEPT ![w] = "err"] /\ UNCHANGED dirDisk
    /\ UNCHANGED <<dir, data, dataDisk, dest, temp, tries, outages>>
-------------------------------------------------------------------------------
(* The kernel writes the directory back at its own time, as a whole.  Of    *)
(* data that is not synced nothing is counted on: what the kernel saves of  *)
(* it only makes a failure milder.                                          *)

WriteBackDir ==
    /\ dirDisk # dir /\ dirDisk' = dir
    /\ UNCHANGED <<dir, data, dataDisk, at, dest, temp, tries, outages>>

Stopped(W) == [w \in Writers |-> IF w \in W /\ at[w] \in Active THEN "dead" ELSE at[w]]

\* A process is killed: nobody removes its temporary file.
Kill(w) ==
    /\ at[w] \in Active /\ at' = Stopped({w})
    /\ UNCHANGED <<disk, dest, temp, tries, outages>>

PowerFails ==
    /\ dir' = dirDisk /\ data' = dataDisk
    /\ at' = Stopped(Writers) /\ outages' = outages + 1
    /\ UNCHANGED <<dirDisk, dataDisk, dest, temp, tries>>

Step(w) ==
    \/ (\E n \in Temps : CreateTemp(w, n)) \/ CreateFails(w) \/ WriteData(w)
    \/ SyncData(w) \/ WriteFails(w) \/ Rename(w) \/ SyncParent(w)

FileNext ==
    \/ \E w \in Writers : Step(w) \/ Kill(w) \/ \E d \in Dests : Begin(w, d)
    \/ WriteBackDir \/ PowerFails

FileSpec == FileInit /\ [][FileNext]_fileVars
-------------------------------------------------------------------------------
\* Whoever looks at a destination, at any moment, also after a power failure,
\* finds the whole of some write, or what was there before.
NeverTorn ==
    \A d \in Dests : dir[d] # Absent =>
        /\ data[dir[d]] = "whole" /\ (dir[d] # Old => dest[dir[d]] = d)

\* Nobody but its writer is ever given a temporary file, and a write that
\* returned has left none behind, be it well or with an error.
TempsAreOwn ==
    /\ \A n \in Temps : dir[n] \in Writers => temp[dir[n]] = n
    /\ outages = 0 => \A w \in Writers : at[w] \in {"ok", "err"} => \A n \in Temps : dir[n] # w

\* What is read at a destination, in the one world or the other.
Content(names, bytes, d) ==
    IF names[d] = Absent \/ bytes[names[d]] = "whole" THEN names[d] ELSE "torn"

Register(d) == INSTANCE AtomicRegister WITH
    Initials  <- {Old, Absent},
    value     <- Content(dir, data, d),
    durable   <- Content(dirDisk, dataDisk, d),
    confirmed <- {w \in Writers : at[w] = "ok" /\ dest[w] = d}
================================================================================
