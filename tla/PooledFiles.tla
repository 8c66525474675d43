---------------------------- MODULE PooledFiles ----------------------------
(***************************************************************************)
(* Files opened once and read by many: io/PooledFile.cc and                *)
(* io/PooledHandle.cc.                                                     *)
(*                                                                         *)
(* Every PooledFile (or PooledHandle) of one path shares one FILE (or      *)
(* DataHandle) with the others of that path, and has a position_ and an    *)
(* opened_ of its own.  The two classes differ in three ways: a            *)
(* PooledHandle's pool limits the number of open files, closing those that *)
(* nobody has open; a PooledHandle whose first open fails keeps the        *)
(* DataHandle that is not open; only a PooledFile has seekEnd().           *)
(*                                                                         *)
(* One thread: PooledHandle's pool_ is thread_local, and nothing in either *)
(* class protects an entry from a second thread.                           *)
(***************************************************************************)
EXTENDS Integers, FiniteSets

CONSTANTS
    Users,       \* the PooledFile, or PooledHandle, objects
    Paths,       \* the paths they are made for
    None,        \* no path: an object that does not exist
    Size,        \* the length of every file
    MaxPooled    \* maxPooledHandles()

VARIABLES
    kind,        \* which of the two classes: "file" or "handle"
    exists,      \* the paths that can be opened
    path,        \* user -> its path_, or None: the keys of statuses_
    opened_,     \* user -> PoolFileEntryStatus::opened_
    position_,   \* user -> PoolFileEntryStatus::position_
    file,        \* path -> file_ or handle_: "null", "open", or "unopened"
    offset,      \* path -> where the shared FILE stands
    own          \* user -> history: where a file of its own would stand

vars == <<kind, exists, path, opened_, position_, file, offset, own>>

Positions == 0 .. Size + 1

Init ==
    /\ kind \in {"file", "handle"}
    /\ exists \in SUBSET Paths
    /\ path = [u \in Users |-> None]
    /\ opened_ = [u \in Users |-> FALSE]
    /\ position_ = [u \in Users |-> 0]
    /\ file = [p \in Paths |-> "null"]
    /\ offset = [p \in Paths |-> 0]
    /\ own = [u \in Users |-> 0]

Of(p) == {u \in Users : path[u] = p}

Opened(f) == {p \in Paths : f[p] # "null"}

----------------------------------------------------------------------------
\* PooledFile::PooledFile: the entry of the path, made if there is none
Construct(u, p) ==
    /\ path[u] = None
    /\ path' = [path EXCEPT ![u] = p]
    /\ opened_' = [opened_ EXCEPT ![u] = FALSE]
    /\ position_' = [position_ EXCEPT ![u] = 0]
    /\ UNCHANGED <<kind, exists, file, offset, own>>

\* PoolFileEntry::remove: the last one closes the file and erases the entry
Destroy(u) ==
    /\ path[u] # None
    /\ path' = [path EXCEPT ![u] = None]
    /\ opened_' = [opened_ EXCEPT ![u] = FALSE]
    /\ file' = IF Of(path[u]) = {u} THEN [file EXCEPT ![path[u]] = "null"] ELSE file
    /\ UNCHANGED <<kind, exists, position_, offset, own>>

\* Mutant: an entry is closed when the object at hand is not using it.
CanClose_OneIsNot(p) == \E u \in Of(p) : ~opened_[u]

\* PoolHandleEntry::canClose
CanClose(p) == \A u \in Of(p) : ~opened_[u]

\* the condition of PoolHandleEntry::checkMaxPooledHandles
Full == Cardinality(Opened(file)) >= MaxPooled

\* PoolHandleEntry::checkMaxPooledHandles: when full, what nobody uses is closed
AfterCheck ==
    [p \in Paths |-> IF kind = "handle" /\ Full /\ CanClose(p) THEN "null" ELSE file[p]]

\* the end of open(): this object's status
Start(u) ==
    /\ opened_' = [opened_ EXCEPT ![u] = TRUE]
    /\ position_' = [position_ EXCEPT ![u] = 0]
    /\ own' = [own EXCEPT ![u] = 0]

CanOpen(u) == path[u] # None /\ ~opened_[u]

\* PoolFileEntry::open, the file being there already: a DataHandle that could
\* not be opened is "there" too
OpenShared(u) ==
    /\ CanOpen(u)
    /\ file[path[u]] # "null"
    /\ Start(u)
    /\ UNCHANGED <<kind, exists, path, file, offset>>

\* PoolFileEntry::open, the first: fopen() or openForRead() succeeds
OpenFirst(u) ==
    /\ CanOpen(u)
    /\ file[path[u]] = "null"
    /\ path[u] \in exists
    /\ file' = [AfterCheck EXCEPT ![path[u]] = "open"]
    /\ offset' = [offset EXCEPT ![path[u]] = 0]
    /\ Start(u)
    /\ UNCHANGED <<kind, exists, path>>

\* PoolFileEntry::open: it fails and throws.  file_ is null, but handle_ was
\* set before openForRead() and stays.
OpenThrows(u) ==
    /\ CanOpen(u)
    /\ file[path[u]] = "null"
    /\ path[u] \notin exists
    /\ file' = [AfterCheck EXCEPT ![path[u]] = IF kind = "handle" THEN "unopened" ELSE "null"]
    /\ UNCHANGED <<kind, exists, path, opened_, position_, offset, own>>

\* PoolFileEntry::close: the file itself stays open
Close(u) ==
    /\ opened_[u]
    /\ opened_' = [opened_ EXCEPT ![u] = FALSE]
    /\ UNCHANGED <<kind, exists, path, position_, file, offset, own>>

\* reading and seeking assert opened_, and need an open file underneath
CanRead(u) == opened_[u] /\ file[path[u]] = "open"

\* what fread() returns for n bytes at offset o
Bytes(o, n) == IF o + n <= Size THEN n ELSE IF o < Size THEN Size - o ELSE 0

\* fseeko(file_, position_): where the read starts
ReadFrom(u) == position_[u]

\* PoolFileEntry::read
Read(u, n) ==
    LET from == ReadFrom(u)
        to   == from + Bytes(from, n)
    IN  /\ CanRead(u)
        /\ offset' = [offset EXCEPT ![path[u]] = to]
        /\ position_' = [position_ EXCEPT ![u] = to]
        /\ own' = [own EXCEPT ![u] = @ + Bytes(@, n)]
        /\ UNCHANGED <<kind, exists, path, opened_, file>>

SeekTo(u, o) ==
    /\ CanRead(u)
    /\ offset' = [offset EXCEPT ![path[u]] = o]
    /\ position_' = [position_ EXCEPT ![u] = o]
    /\ own' = [own EXCEPT ![u] = o]
    /\ UNCHANGED <<kind, exists, path, opened_, file>>

\* PoolFileEntry::seek
Seek(u, o) == SeekTo(u, o)

\* PoolFileEntry::seekEnd
SeekEnd(u) == kind = "file" /\ SeekTo(u, Size)

\* a missing file is written by somebody
Appear(p) ==
    /\ p \notin exists
    /\ exists' = exists \cup {p}
    /\ UNCHANGED <<kind, path, opened_, position_, file, offset, own>>

Next ==
    \/ \E u \in Users :
          \/ \E p \in Paths : Construct(u, p)
          \/ Destroy(u) \/ OpenShared(u) \/ OpenFirst(u) \/ OpenThrows(u) \/ Close(u)
          \/ \E n \in 1 .. Size + 1 : Read(u, n)
          \/ \E o \in Positions : Seek(u, o)
          \/ SeekEnd(u)
    \/ \E p \in Paths : Appear(p)

Spec == Init /\ [][Next]_vars

----------------------------------------------------------------------------
\* Sharing is not seen by read().  As long as an object has its file open, the shared file is
\* not closed under it: not by the destruction of another object, not by the pool
\* at its limit.  And whatever the others read and seek in it, and whatever the
\* pool closed in between, the next read() starts where a file opened by this
\* object alone would stand.  (A PooledHandle's may be "unopened": after an
\* openForRead() that threw, the next one finds a handle_ and returns as if it
\* had opened it; and position() of a PooledHandle gives the place of the shared
\* handle, which others move.)
ReadsOwnPlace ==
    \A u \in Users : opened_[u] =>
        /\ file[path[u]] \in (IF kind = "file" THEN {"open"} ELSE {"open", "unopened"})
        /\ ReadFrom(u) = own[u]

=============================================================================
