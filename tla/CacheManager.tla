---------------------------- MODULE CacheManager ----------------------------
(***************************************************************************)
(* A cache of files that many processes fill: container/CacheManager.h and *)
(* .cc, with the lock file of io/FileLock.cc, for one key and one root.    *)
(*                                                                         *)
(* A process that does not find the file takes a lock, looks again, writes *)
(* a temporary file of its own and renames it.  The lock is an fcntl lock  *)
(* on a lock file, that is on an inode, and the process that had it        *)
(* unlinks the lock file: another may then hold a lock on the old inode    *)
(* and a third on a new one.  When the cache is too large, touch() of      *)
(* another key removes the file and its lock file.                         *)
(***************************************************************************)
EXTENDS Integers, FiniteSets

CONSTANTS
    Procs,      \* the processes
    MaxInodes,  \* how often a lock file is made
    MaxEvictions

ASSUME InodesAssumption == MaxInodes \in Nat

VARIABLES
    file,       \* the entry of the key: "none", "partial" or "complete"
    tmp,        \* process -> its temporary file: the same
    at,         \* process -> where it is in getOrCreate()
    name,       \* the inode that the lock file's name leads to, or 0
    inodes,     \* how many there were
    fd,         \* process -> the inode it opened
    holder,     \* inode -> the processes that hold its lock
    evictions,  \* how often the entry was removed
    failed,     \* history: a process failed or died while it had the lock
    created     \* history: how often the file was created

vars == <<file, tmp, at, name, inodes, fd, holder, evictions, failed, created>>
lockfile == <<name, inodes, fd, holder>>

Init ==
    /\ file = "none"
    /\ tmp = [p \in Procs |-> "none"]
    /\ at = [p \in Procs |-> "get"]
    /\ name = 0
    /\ inodes = 0
    /\ fd = [p \in Procs |-> 0]
    /\ holder = [i \in 1 .. MaxInodes |-> {}]
    /\ evictions = 0
    /\ failed = FALSE
    /\ created = 0

Goto(p, l) == at' = [at EXCEPT ![p] = l]

----------------------------------------------------------------------------
\* get(): the file is there, or the lock is wanted
Get(p) ==
    /\ at[p] = "get"
    /\ Goto(p, IF file # "none" THEN "load" ELSE "open")
    /\ UNCHANGED <<file, tmp, lockfile, evictions, failed, created>>

\* the lock file has a name, an inode being made for it if it had none
EnsureName ==
    IF name = 0
      THEN inodes < MaxInodes /\ inodes' = inodes + 1 /\ name' = inodes + 1
      ELSE UNCHANGED <<inodes, name>>

\* lockFile(): touch() creates the lock file, unless it exists() ...
TouchLock(p) ==
    /\ at[p] = "open"
    /\ EnsureName
    /\ Goto(p, IF name = 0 THEN "openLock" ELSE "utime")
    /\ UNCHANGED <<file, tmp, fd, holder, evictions, failed, created>>

\* ... when utime() is called, and throws if the file has been unlinked since
Utime(p) ==
    /\ at[p] = "utime"
    /\ Goto(p, IF name = 0 THEN "done" ELSE "openLock")
    /\ UNCHANGED <<file, tmp, lockfile, evictions, failed, created>>

\* FileLock::FileLock: open() with O_CREAT
OpenLock(p) ==
    /\ at[p] = "openLock"
    /\ EnsureName
    /\ fd' = [fd EXCEPT ![p] = name']
    /\ Goto(p, "lock")
    /\ UNCHANGED <<file, tmp, holder, evictions, failed, created>>

\* FileLock::lock: fcntl(F_SETLKW)
Lock(p) ==
    /\ at[p] = "lock"
    /\ holder[fd[p]] = {}
    /\ holder' = [holder EXCEPT ![fd[p]] = {p}]
    /\ Goto(p, "recheck")
    /\ UNCHANGED <<file, tmp, name, inodes, fd, evictions, failed, created>>

\* Mutant: the file is created by whoever gets the lock.
Missing_Always == TRUE

\* !get(key, path), under the lock
Missing == file = "none"

Recheck(p) ==
    /\ at[p] = "recheck"
    /\ Goto(p, IF Missing THEN "create" ELSE "loadLocked")
    /\ UNCHANGED <<file, tmp, lockfile, evictions, failed, created>>

\* Mutant: the file is written in place.
StageInPlace(p) == file' = "partial" /\ UNCHANGED tmp

\* stage(): a file of its own to write
StageFile(p) == tmp' = [tmp EXCEPT ![p] = "partial"] /\ UNCHANGED file

Stage(p) ==
    /\ at[p] = "create"
    /\ StageFile(p)
    /\ Goto(p, "save")
    /\ UNCHANGED <<lockfile, evictions, failed, created>>

\* creator.create() and Traits::save()
Save(p) ==
    /\ at[p] = "save"
    /\ tmp' = [tmp EXCEPT ![p] = "complete"]
    /\ Goto(p, "commit")
    /\ UNCHANGED <<file, lockfile, evictions, failed, created>>

\* they throw, or chmod() or rename() fails, and what was written stays
SaveThrows(p) ==
    /\ at[p] \in {"save", "commit"}
    /\ failed' = TRUE
    /\ Goto(p, "unlock")
    /\ UNCHANGED <<file, tmp, lockfile, evictions, created>>

\* commit(): rename
Commit(p) ==
    /\ at[p] = "commit"
    /\ file' = tmp[p]
    /\ tmp' = [tmp EXCEPT ![p] = "none"]
    /\ created' = created + 1
    /\ Goto(p, "found")
    /\ UNCHANGED <<lockfile, evictions, failed>>

\* ASSERT(get(key, path)): it fails when the file was removed in between
Found(p) ==
    /\ at[p] = "found"
    /\ Goto(p, IF file # "none" THEN "loadLocked" ELSE "unlock")
    /\ UNCHANGED <<file, tmp, lockfile, evictions, failed, created>>

\* Traits::load: of what is there, or it throws as the file was removed
Load(p) ==
    /\ at[p] \in {"load", "loadLocked"}
    /\ Goto(p, IF at[p] = "load" THEN "done" ELSE "unlock")
    /\ UNCHANGED <<file, tmp, lockfile, evictions, failed, created>>

\* ~AutoLock
Unlock(p) ==
    /\ at[p] = "unlock"
    /\ holder' = [holder EXCEPT ![fd[p]] = @ \ {p}]
    /\ Goto(p, "unlink")
    /\ UNCHANGED <<file, tmp, name, inodes, fd, evictions, failed, created>>

\* ~FileLock: the name is unlinked, whatever it leads to
Unlink(p) ==
    /\ at[p] = "unlink"
    /\ name' = 0
    /\ fd' = [fd EXCEPT ![p] = 0]
    /\ Goto(p, "done")
    /\ UNCHANGED <<file, tmp, inodes, holder, evictions, failed, created>>

\* The process dies; the system releases its lock.
Die(p) ==
    /\ at[p] \notin {"done", "get"}
    /\ failed' = TRUE
    /\ holder' = [i \in DOMAIN holder |-> holder[i] \ {p}]
    /\ fd' = [fd EXCEPT ![p] = 0]
    /\ Goto(p, "done")
    /\ UNCHANGED <<file, tmp, name, inodes, evictions, created>>

\* touch() of another key, the cache being too large
Evict ==
    /\ evictions < MaxEvictions
    /\ file # "none"
    /\ file' = "none"
    /\ name' = 0
    /\ evictions' = evictions + 1
    /\ UNCHANGED <<tmp, at, inodes, fd, holder, failed, created>>

Step(p) ==
    \/ Get(p) \/ TouchLock(p) \/ Utime(p) \/ OpenLock(p) \/ Lock(p) \/ Recheck(p)
    \/ Stage(p) \/ Save(p) \/ SaveThrows(p) \/ Commit(p) \/ Found(p) \/ Load(p) \/ Unlock(p) \/ Unlink(p)

Next == Evict \/ \E p \in Procs : Step(p) \/ Die(p)

Spec == Init /\ [][Next]_vars

----------------------------------------------------------------------------
\* Nobody finds a file that is not complete, whoever dies or fails while writing
\* it, and however many write it at the same time.
NeverPartial == file # "partial"

\* As long as no process fails and nothing is removed, the file is created once,
\* although the lock file is unlinked under the processes that wait for it.
CreatedOnce == ~failed /\ evictions = 0 => created <= 1
=============================================================================
