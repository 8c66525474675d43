# A verification project for eckit

eckit is ECMWF's C++ toolkit: data handles and transfers, threads and queues,
caches, transactions, networking, and a large body of sequential code (grids,
SQL, configuration, codecs).  This directory models the parts of it in which
several threads or processes share state, or in which a long sequence of calls
must keep a structure in order.  Paths below are relative to `src/src/eckit/`.

## 1. Inventory

### Hand-over between threads

**`container/Queue.h`**, a bounded queue with one mutex and one condition
variable.  State: the elements, `max_`, `closed_`, `interrupt_`.  Operations:
`push`/`emplace` (wait while full), two `pop`s (wait while empty), `resize`
(waits until the queue fits), `close`, `interrupt`.  Hard: all waiters share one
condition; the bound moves while pushers wait for the old one; close and
interrupt arrive during waits.  Correct: bounded, FIFO, nothing lost, nobody
left asleep.

**`thread/ThreadPool.cc`**, workers that take tasks from a queue.  State:
`queue_` (under `ready_`), `tasks_` (under `active_`), `running_` and `error_`
(under `done_`), `count_`.  Operations: `push` of one task or of a list, `next`,
`wait`, `resize`, `waitForThreads` and the destructor.  Hard: one signal for
many tasks, ending workers through nulls in the queue, workers that start late,
tasks that push tasks, failures in `execute()` and in `delete`.  Correct: every
task runs, `wait()` is a barrier, the pool ends with no worker left and no
failure unreported.

**`io/DblBuffer.cc`**, the copy of one handle into another through a ring of
buffers.  State: per buffer `full_` and `length_` under its own mutex; `error_`,
`restart_`, `restartFrom_` under another; the positions of two handles.  Hard:
errors and restarts on either side, at any moment, several times; the estimate.
Correct: what is reported as copied is the source; neither thread strands the
other; `PANIC` never fires.

**`runtime/ProducerConsumer.h`** and **`runtime/Pipe.h`**, the same ring for
payloads, driven by callbacks or by two callers.  In a Pipe the owner fills a
payload it got from `message()` and `send()`s it; the end is a mark that `close()`
puts into the ring without waiting for room, and the receiving Proc may ask for
the end before or after a message.

**`io/AsyncHandle.cc`**, writes queued to a thread.  State: `buffers_`, `used_`,
`error_`, the target.  Hard: memory accounting over two threads, one condition
for both, the release of the lock between a failure and its report, a
destructor that stops the thread without the lock.

**`io/AIOHandle.cc`**, writes left to POSIX asynchronous I/O.  State: the slots
with their buffers and requests, `used_`, `pos_`, `fd_`.  Hard: requests
complete in any order and fail long after `write()` has returned; a buffer must
not be touched meanwhile.

**`runtime/Dispatcher.h`**, threads that take requests from a queue with a
`pick()` of their own, which may pass over requests that conflict with running
ones.  State: `queue_`, `running_`, `count_`, two conditions (for requests, and
for threads that found nothing they could pick).  Hard: the number of threads
grows with the load or is reconfigured; the second condition has no predicate.

**`thread/ThreadControler.cc`**, the start of a thread: the starter waits until
the new thread has copied what it needs, and may then be destroyed.  Hard: who
deletes the thread, on every path.

**`io/Pipeline.cc`**: three threads joined by two pipes of the system.

### Caches and pools

**`container/CacheLRU.cc`**: a list in order of use and an index, with a handler
for what is evicted.  **`io/FilePool.cc`**: open files lent to one thread at a
time, idle ones in a CacheLRU, one condition for all paths.
**`io/PooledFile.cc`**, **`io/PooledHandle.cc`**: one `FILE` for many handles
with their own positions, and a limit on how many are open.
**`container/CacheManager.h`**: files created once by one of several processes,
under a lock file that its last owner unlinks.

### Persistence and protocols

**`transaction/TxnLog.cc`**: one file per running transaction, a shared
counter under a semaphore, recovery after a crash.  Hard: the process dies
between any two file operations; recovery runs while transactions begin and end;
`update()` takes no lock.  Correct: what was logged survives, with its last
update; an ID in use is not given to another event; recovery misses nothing.

**`distributed/`**: a producer hands out messages to consumers that ask for them,
over MPI (with some ranks set aside as writers of files) or TCP (workers connect
when they like, and die).  Hard: who is still to be answered when the work ends;
a message whose connection fails; messages of several senders in any order.
Correct: each message is worked on once, everybody ends.

**`io/fam/`**: lists, and maps of lists, in memory shared by processes of several
machines, updated with compare-and-swap; a lock that is a lease with a time.
Hard: every read and write is a step of its own; processes die between two.

**`container/BTree.cc`**: pages in a locked file.  **`net/Connector.cc`**,
**`net/MultiSocket.cc`**: cached connections, striped streams.
**`io/cluster/`**: a shared table of nodes.

### Without a protocol

Geometry and grids, linear algebra, SQL, codec, parsing, configuration,
logging, values, options, web pages, system queries.  `PROJECT.json` lists them
with the reason why they are left out.

## 2. Plan

1. The hand-overs between threads, each module one action per critical section:
   Queue, ThreadPool, DblBuffer, ProducerConsumer, AsyncHandle, Pipe, Dispatcher,
   with BoundedChannel as the abstract specification of a hand-over, and the start
   of a thread: ThreadControler.  Done.
2. The caches: CacheLRU and, composed with it, FilePool; PooledFiles;
   CacheManager with several processes.  Done.
3. Persistence and the system: TxnLog with crashes between its file operations,
   AIOHandle with completions in any order.  Done.
4. Protocols: both transports of `distributed/`; FamList, FamMap and the lock of a
   map.  Done, but for the operations named in section 7.
5. Proofs: Queue, ThreadPool, AsyncHandle, ProducerConsumer, Pipe, CacheLRU, FilePool,
   PooledFiles, CacheManager, TCPTransport, MPITransport, TxnLog, AIOHandle, FamMap,
   FamLock (done).  Worth adding: `CopyIsComplete` of DblBuffer.

Modules are written to be proved about: constants have the named assumptions
that a proof needs, each operation is an action, invariants are conjunctions.  Only
FamList uses a `RECURSIVE` operator (in its properties), and no proof depends on it.

## 3. Modules

Common conventions.  A critical section is one action; a wait on a condition
splits a method in two, and a thread inside a wait is in a set (`asleep`,
`ready`, `active`) or at a place (`"asleep"`).  `signal()` is
`pthread_cond_signal`: it takes one sleeper out of the set, any one, or does
nothing if there is none.  `notify_all()` empties the set.  Waits may end for no
reason (`SpuriousWake`), as POSIX and C++ allow, so no property depends on a
sleeper staying asleep.  Variables that exist in the code keep their names, with
the trailing underscore; history variables are marked as such.  Definitions
commented as mutants are plausible slips in the definition below them; the
properties are checked to fail with each of them.

| Module | Code | State | Actions |
|---|---|---|---|
| `BoundedChannel` | (abstract) | items sent and received, bound, shut | `Send`, `Receive`, `Rebound`, `Shut` |
| `Queue` | `container/Queue.h` | `queue_`, `max_`, `closed_`, `interrupt_`; the call each thread is in | `Push`, `Pop`, `PopClosed`, `Resize`, `AssertOpen`, `Rethrow`, `Wait`, `Close`, `Interrupt` |
| `ThreadPool` | `thread/ThreadPool.cc` | the members, where each worker is, the three conditions, the owner | one per critical section of `push`, `next`, `wait`, `resize`, `waitForThreads`, `run` |
| `DblBuffer` | `io/DblBuffer.cc` | the ring, error and restart, both handles, locals of `copy` | reader and writer steps, the end of an attempt |
| `ProducerConsumer` | `runtime/ProducerConsumer.h` | the ring, `error_`, both threads | as DblBuffer |
| `AsyncHandle` | `io/AsyncHandle.cc` | `buffers_`, `used_`, `error_`, the writer, the client's call | the writer's loop, each method, the destructor in four steps |
| `CacheLRU` | `container/CacheLRU.cc` | `storage_`, `capacity_`; fates of values as history | one per method |
| `FilePool` | `io/FilePool.cc` | `inUse_`, a CacheLRU (INSTANCE), the call each thread is in | one per outcome of each method |
| `TxnLog` | `transaction/TxnLog.cc` | the counter, the files `<id>` and `<id>.tmp`, the semaphore, the call each thread is in, what recovery has listed | one per file operation of `begin`, `update`, `end` and recovery; `Crash`, `Restart` |
| `AIOHandle` | `io/AIOHandle.cc` | the slots, `used_`, `pos_`, `fd_`, the call in progress, requests in the system | one per step of `getFreeSlot` and `flush`, the other methods, `Complete` |
| `Pipe` | `runtime/Pipe.h` | the ring, `ri_`, `wi_`, `pi_`, `done_`, `error_`, both threads | `message`, `send`, `close`, `receive` split at their waits, `eof`, the end of the Proc |
| `Dispatcher` | `runtime/Dispatcher.h` | `queue_`, `count_`, `running_`, `grow_`, both conditions, where each thread and caller is | one per critical section of `push`, `next`, `run`, `changeThreadCount`; `reconfigure`, `dequeue` |
| `ThreadControler` | `thread/ThreadControler.cc` | `detached_`, `autodel_`, `running_`, where owner and thread are, deletions | `start`, `execute` in three steps, `stop`, `wait`, the destructor |
| `PooledFiles` | `io/PooledFile.cc`, `io/PooledHandle.cc` | which class, the entries, each object's status, the shared offset | one per method; `open` in its three outcomes |
| `CacheManager` | `container/CacheManager.h`, `.cc`, `io/FileLock.cc` | the file, temporary files, the lock file's name, inodes and holders | the steps of `getOrCreate`; `Evict`, `Die` |
| `TCPTransport` | `distributed/tcp/`, `Producer.cc`, `Consumer.cc` | connections, what is on the sockets, producer and workers | the producer's two loops step by step; `Connect`, the worker's cycle, `WorkerDies` |
| `MPITransport` | `distributed/mpi/`, `Producer.cc`, `Consumer.cc`, `TransportHandle.cc` | where each rank is, the messages between each pair | one per send or receive; the barrier |
| `FamList` | `io/fam/FamList.cc`, `FamListIterator.cc` | `next`, `prev`, `marked`, `size_`; locals of each call | one per get, put, compare-and-swap of the pushes, the pops, `erase` and the iterator |
| `FamMap` | `io/fam/FamMap.cc` | one bucket: its slot, its entries; the call of each process | one per access in `insert`, `forceInsert`, `find`, `getOrCreateBucket`; `Crash` |
| `FamLock` | `io/fam/FamMap.cc` | the clock, the lock object, locals of `lock` | `Now`, `Swap`, `Fetch`, `Steal`, `Unlock`; `Tick`, `Die` |

Data are abstracted.  Elements, tasks, payloads, paths and handles are model
values.  In DblBuffer a read or a write moves one unit, and the unit at position
k of the source is the number k, so that misplaced data are visible.  In
AsyncHandle lengths are small numbers and `round()` is computed as in the code,
since the memory bound is about rounded sizes.  In ThreadPool the counters are
`size_t` and wrap at `SizeT`.  In TxnLog a file holds a whole event, with the
number of its updates, or a part of one.  In AIOHandle a write is its rank since
the opening, and a completed request puts in the file what its buffer holds at
that moment.  In PooledFiles a file has a length and offsets are numbers, so that
reads at the end are short.  In CacheManager a file is absent, partial or
complete.  In FamList a node is its offset, in FamMap an entry is its key, and
FamMap takes a push and a scan of its list as one step each, which FamList
justifies as long as nothing is removed.  In FamLock times are unsigned words and
their difference wraps at `Word`.  Logging, timing and metrics are left out.

Points where a reading of the code decides the model:

- `ThreadPool::push(std::list&)` does not call `startTask()`, while every task
  calls `endTask()`: `tasks_` wraps below zero.  `CountersExact` states the exact
  value, and `WaitIsBarrier` is stated as long as no list was pushed.
- A worker's `notifyStart()` comes after `ThreadControler::start()` has
  returned: `running_` may still be 0 in `waitForThreads()`.
- In DblBuffer a buffer is marked full before the test of `length_`, `restart_`
  is never reset, and the handles are moved by `restartReadFrom()` and
  `restartWriteFrom()`, which throw unless overridden.
- In AsyncHandle a failed write unwinds the lock before the handler takes it
  again (`w = "catch"`), and the loop goes on afterwards.  `close()` of the target may
  throw, and leave it open or not (`CloseTarget`).
- In FilePool a `close()` that throws does so inside `CacheLRU::trim()`, before
  the entry is popped and before `checkin()` changes `inUse_` (`TrimThrows`).
- In TxnLog the pattern `[0-9]*` matches the `.tmp` files as well, the reading of
  an ID ignores the suffix, and `created()` is called outside the `try`.  The
  semaphore is taken with `SEM_UNDO`, so a crash releases it.  The client of
  `recover()` is outside the repository; it is assumed to queue an event unless
  it has it already.  `begin()` draws an ID unless the event has one: an event that
  has ended may begin again, under its ID (`BeginAgain`).  An ID under which nothing is
  left, neither file nor `.tmp`, may be drawn again once the counter is lost, so
  `AssertionsHold` is about IDs in use.
- In AIOHandle the search of `getFreeSlot()` asks one slot after the other while
  requests complete.  If `aio_write()` refuses a request the slot is used and not
  active, and a later search reports it.  `lseek()` after an opening to append
  gives 0; the system then appends in the order of the calls, as POSIX says.
- In Pipe `close()` sets `ready_` of the next payload whether it is free or not.
  A Proc that asks `eof()` first, or after each message, or waits for a message
  that says it is the last: these are the three ways a Proc can be written.
- In Dispatcher `push()` compares `running()` with `count_` without a lock, and
  `changeThreadCount()` changes `count_` only after its loop: the sum in
  `ThreadsCounted` takes the calls under way into account.  The handler is outside
  the library, except `DefaultHandler`; it picks the first request that does not
  conflict with one in progress.  `reconfigure()` leaves `grow_` as it is, whatever the
  new number.
- In ThreadControler the thread is deleted by `execute()` if `autodel_`, and by the
  destructor if it never ran or was joined; `dangling` records a use after that.
- In PooledFiles an `openForRead()` that throws leaves a `handle_` that is not open,
  and the next `open()` takes it for an open one.
- In CacheManager an fcntl lock is on an inode: unlinking the lock file separates
  those who wait from those who come later.  `touch()` calls `utime()` on a lock file
  that `exists()`, and throws if it has been unlinked in between (`Utime`); the process
  then gives up on this root.
- In TCPTransport a write to a worker that has died may succeed: the message is
  lost with the worker, and is not sent again.
- In MPITransport a standard-mode send returns at once or when it is received; both
  are initial choices.  Messages of one sender to one receiver stay in order.
- In FamLock all processes see one clock.  A holder that dies never unlocks.

## 4. Runs

All bounds are named constants of the modules; histories are bounded, the code's
own state is not otherwise restricted.  Small components that have nothing to do
with each other are checked side by side in one run: the MC module picks one of
them in the initial state (`part`) and takes only its steps, so that a run is the
disjoint union of their state spaces; nothing is composed by that.  Composition is
in the modules: FilePool is built on CacheLRU, and Queue and ProducerConsumer
implement BoundedChannel.

| Run | Instance | Shows |
|---|---|---|
| `queue` | 3 threads pushing, popping one or a batch, resizing between 1 and 2; fair | no lost wake-up, refinement of BoundedChannel; `interrupt()` releases everybody, `close()` releases poppers (not pushers: they stay until there is room, and then fail the assertion) |
| `threadpool` | 2 workers, a client and tasks that push, singly or a list, resizing and stopping; fair | counters, barrier; tasks run and `waitForThreads()` returns, with nothing running and no failure unreported |
| `dispatcher` | up to 3 threads, 2 clients, 2 requests that conflict or do not, fixed or growing number of threads, one `reconfigure()` or `dequeue()`; fair.  Beside it, one ThreadControler of each kind | threads are counted; requests are handled but for two named cases; a thread is deleted once and used by nobody afterwards |
| `buffers` | AsyncHandle: 4 writes of 3 lengths, one above `maxSize_`.  DblBuffer: rings of 1 and 2, errors, negative reads, restarts from any position, 2 retries.  ProducerConsumer: rings of 1 to 3, 4 payloads.  Pipe: rings of 1 to 3, 4 messages, three kinds of Proc.  Every failure; fair | accounting and order, success means written; a completed copy lacks only what a restart ahead skipped; refinement of BoundedChannel; messages received in order and none while being filled; all calls come back, but for the cases the properties name |
| `asynchandle_destroy` | 1 write; fair | **violated**: the destructor may hang |
| `filepool` | 4 threads, 2 paths, capacities 0 to 2, removals and every failure.  Beside it, CacheLRU with 3 keys, 4 values, 5 operations; PooledFiles with 3 objects, 2 paths, a limit of 1 | a `read()` does not see that the file is shared; one user per file, nothing closed in use, somebody always on the way to signal; bound, order of use and one fate per value in the cache |
| `filepool_remove` | 2 users and a remover of one file; fair | **violated**: `checkout()` may sleep for ever |
| `storage` | TxnLog: 2 threads, 2 transactions, 2 updates, 2 crashes, both kinds of counter, events that begin again.  AIOHandle: 1 to 3 buffers, 4 writes, 2 openings, every failure | nothing logged is lost, IDs in use apart, recovery complete, repeats only from a `.tmp` left by a crash; no buffer reused in flight, `flush()` and `close()` that return have written |
| `distributed` | CacheManager: 3 processes, 4 lock files, 1 eviction, deaths and failures.  TCP: 2 workers that join and die at any time, 3 messages.  MPI: up to 4 ranks with 0 to 2 writers, 3 messages, buffered or not; both fair | a cache file is never partial and created once; each message to one worker; only expected messages received; everybody ends |
| `fam` | 2 processes; list of up to 3 nodes with calls one at a time or concurrent pushes and iterations; a bucket with 2 keys and a crash at any step; a lock over 4 seconds with a lease of 1; the map fair | the list and its size exact at rest, an iteration finds what was there; a key inserted is found, no bucket used before it is complete, calls end though its creator died; the lock has one holder when nobody is late |
| `fam_mrmw` | 2 processes, 2 nodes, all operations concurrently | **violated**: an element is lost, or the size wrong |
| `fam_lease` | 2 processes, a lease of 1 | **violated**: a fresh lock is stolen |

Why the bounds are enough.  The hazards of a ring appear with one slot (full and
empty alternate), two (the two threads on different slots) and three (wrapping
with a gap).  Lost signals need two sleepers and one who should have been woken,
hence three or four threads.  A source of three units, with restarts from any
position, allows a restart before, at and after what is written, and a second one
on top of it.  `maxSize_ = 7` with rounding to 2 makes buffers of sizes 2, 4 and
10: two or three fit, and one never does.  Capacity 0 and 1 with two paths make
`trim()` evict the entry just inserted, and another one.  Two crashes and
two updates let one crash fall in an update, and the other in the recovery from it
or in the transaction that was resumed; for more of both there is the proof.  Four writes through three buffers use each slot, reuse one, and
leave room for a failure before and after; an AIOHandle that is opened again or
destroyed without a `close()` that returned is followed no further.  Two threads
and two conflicting requests make a Dispatcher thread find nothing to pick while
the other works, which is what the second condition is for; a third lets the number
grow by one more while the first two have been told to stop.  A growing Dispatcher is
reconfigured to 0 or to 1 (`MaxGrown`): to more than that, a `push()` beside it may take
a fourth thread.  The clients are alike, and so are the requests and the threads, so
`MCDispatcher` lets them come in a fixed order.  Three processes and
four lock files let one hold an unlinked inode, one a new one, while a third
arrives, and a process create the file that it did not find at `utime()`.  Four ranks with two writers are the fewest with which the distance
between writers matters; two ranks with one writer leave no worker.  Two keys and
two calls let a `find()` follow an `insert()` of another process in a bucket that
a third call creates.  Four seconds with a lease of one let a lock grow old,
be stolen and grow old again.

Symmetry is used in `filepool` and `storage`, which check no liveness, over model
values that the modules never compare except for equality.  In a run of several
components one set of model values serves all of them (the handles
of FilePool are also the objects of PooledFiles), so that one symmetry does.

Fairness.  Weak fairness of each thread's steps inside a call: threads that can
run do run, and the callbacks (`execute`, `read`, `write`, `produce`, `consume`,
`handle`) come back.  Nobody is obliged to start a call, to connect or to die.  In
`distributed` the producer and each worker are fair, since both loops run until
they are told to stop; in `fam` each process is, until it crashes.  AsyncHandle has
strong fairness for the client, because the writer may take the mutex again and
again when it is woken for nothing, and a mutex that starves one of two threads
for ever is not something the code defends against.

Deadlock is checked in `queue` and `asynchandle_destroy`.  Elsewhere all threads
may legitimately stop (calls and crashes are bounded, nobody has to call), and what must
not be left hanging is stated as a liveness property.

## 5. What the runs found

1. `asynchandle_destroy`: `~AsyncHandle` can lose its signal between the
   writer's test and its wait, and then joins for ever.
2. `filepool_remove`: `FilePool::remove` can consume the one signal of a
   `checkin()`; a `checkout()` of the same file is then never woken.  With two
   paths and four threads the same happens as long as the other path is busy.
3. `fam_mrmw`: FamList promises multiple writers.  Concurrent pushes keep the
   promise (run `fam`); a removal beside a push does not: `popBack()` writes a link
   it read before, and a `pushFront()` in between is lost.
4. `fam_lease`: `FamMap::lock()` reads the time, and then fetches a lease that may
   have been taken in a later second.  The unsigned difference wraps to a number
   larger than any `lock_ttl`, and the lock is stolen from a live holder.

Behaviour the properties state as it is, without calling it wrong:

- a DblBuffer restart ahead of what is written drops units silently
  (`CopyIsComplete`); a `read()` that returns -1 without throwing
  (`FileDescHandle`) fails `ASSERT(error())` and leaves `copy()` without stopping the
  writer thread (action `ReadNegative`);
- AsyncHandle's `flush()` and `close()` may succeed in the gap between a failure and
  its report (`SuccessMeansWritten`);
- `message()` of a Pipe never returns once the Proc has ended with the ring full;
  `close()` may hand the Proc a payload that was never sent, and with a ring of one
  its mark may be lost (`PipeReturns`, `ReceivedInOrder`);
- a Dispatcher whose number of threads was lowered, or that grows and was
  reconfigured, may leave a request in its queue (`EveryRequestHandled`);
- a failed `close()` leaves a pooled file in use for ever; a PooledHandle whose
  first `openForRead()` threw "opens" at the second try (`ReadsOwnPlace`);
- after a crash in `update()` the `.tmp` file may bring back a transaction that has
  ended meanwhile, or stop the recovery half-way (`RepeatsAreLeftovers`,
  `RecoveryComplete`);
- an AIOHandle destroyed or opened again before a `close()` has returned frees or
  reuses buffers the system still reads (`BuffersHeld`);
- a message sent over TCP to a worker that dies is not sent again (`SentOnce`); over
  MPI a buffered WRITE may be overtaken by the SHUTDOWN of its writer, and with no
  worker left beside the writers the producer waits for ever
  (`EveryRankReturns`);
- a CacheManager may create a file twice after an eviction or a failure
  (`CreatedOnce`); two concurrent pushes at the two ends of an empty FamList leave
  it incomplete for those who go backward (`ListExact`); a bucket of a FamMap whose
  creator died stays unusable (`MapCallsReturn`).

## 6. Proofs

A proof module extends the module it is about, or the MC module of a run where it
is about several components of that run (it then uses their instances, not the bounds
of the `.cfg`); `DistributedProofs` extends three.  All of them follow one pattern: an inductive invariant (`IInv`,
`RingInv`, `PipeInv`...), `Init` establishes it, every action keeps it (a lemma, or in
short proofs a step, per action), and it implies the property.  An action property
follows from the invariant and the one action that can make its hypothesis true.  All
invariants were model-checked first.  The proofs hold for every value of the
constants that meets the assumptions named in the modules; the bounds of the
histories are constants too, so they are proved for every bound.

**`QueueProofs`**, for every set of threads, elements, sizes (positive) and batches.
- `QueueBounded`: inductive together with `TypeOK` (`TypeCorrect`): the only action
  that adds an element has `Len(queue_) < max_` in its guard, and the only one that
  lowers `max_` waits for the queue to fit.
- `NoWakeupIsLost`: every action that can make the condition of a sleeper false
  empties `asleep`; the others leave the condition alone.
- `QueueImplementsChannel`: needs one more invariant (`Fifo`): what was pushed is
  what was popped followed by what is queued.  With it each action maps to `Send`,
  `Receive` (a batch is several items in one step), `Rebound`, `Shut` or a stutter.

**`ThreadPoolProofs`**, for any finite sets of workers, clients and tasks and any width
of `size_t`: `CountersExactHolds`, `WaitIsBarrierHolds`, and `JoinIsCleanHolds`, the
safety part of `JoinReturns`.  A task is at one place: with the thread that pushes it
(`InHand`), in the queue, once (`InQueue`), or with one worker (`AtWork`).  So a step
that changes a counter moves one task, worker or null into or out of the set it counts,
and the counters follow by the theorems on cardinalities.  `tasks_ = 0` then leaves no
task that was pushed and has not ended, as long as the wrap round is excluded by the
number of tasks; a failure is recorded in `error_` or its worker is about to
(`Reports`).

**`TxnLogProofs`**, for any number of threads, events, updates, crashes and IDs.
- `NothingLostHolds`, and `AssertionsHoldHolds`: the ID under which an event begins has
  no file and is that of no other event.  `update()` takes no lock, so the
  argument is ownership: every ID has at most one owner, be it an event at work under
  it or one found in its file or `.tmp` (`OneOwner`, `Named`); an event is at one place
  in memory (`OneJob`), and one that has ended and may begin again has no file
  (`KeptGone`); no ID beyond the counter is in use (`Drawn`), which a restart
  restores because it goes beyond the greatest ID in the listing (`BeyondListing`, from
  the well-foundedness of `<`); and what a thread in the middle of a call finds under
  its ID is what it put there (`Found`).
- `RecoveryCompleteHolds` and `RepeatsAreLeftoversHolds` need a second invariant, about
  recovery under way: what had not ended is queued, was too young, or its name is still
  to be read (`Covered`); nobody is at work on
  a file that is still to be read, unless a `.tmp` was left (`Untouched`); and an event that has
  ended leaves no file unless a `.tmp` has revived it (`PushedOnce`).  The history
  variable `revived` names those events.

**`BuffersProofs`**
- `SuccessMeansWrittenHolds`, an action property of AsyncHandle, for any lengths,
  `maxSize_` and number of writes.  The queue holds the last writes that were accepted,
  and all before them have been written or have failed (`Numbered`); as long as `error_`
  is not set at most one has failed, the last that left the queue, and only while its
  handler waits for the lock (`Reported`).
- `ProducerConsumerImplementsChannel`, for any size of the ring and number of payloads.
  The ready slots are those from the consumer's on, as many as payloads are ahead, and
  they hold these payloads in order (`Carried`); without an error no other slot is ready
  but the one with the end, and the producer is at the first free one (`Apart`).  Each step then is a `Send`, a `Receive`, a `Shut` or a stutter
  of the channel (`RingStep`).
- `ReceivedInOrderHolds`, for any number of payloads and messages of a Pipe.  The same
  ring (`Conveyed`), but `close()` marks a slot whether it is free or not, and the slot
  behind `ri_` stays ready while the Proc uses it: `Free` says which slots may be ready
  beside the messages on their way, `Hands` that the slot in use is not theirs, and
  `LastSaid` follows the message that says it is the last.

**`AIOHandleProofs`**, for any number of buffers, writes and openings, with requests that
complete in any order: `BuffersHeldHolds` and `FlushMeansWrittenHolds`.  A buffer is in
the system's hands exactly as long as its request is in progress, and is active then
(`InFlight`); `getFreeSlot()` searches with a
completed slot still ahead of it (`InCall`); and a write
has landed, or has failed, or is pending in an active slot (`Landed`).  A file opened to
append needs its own count (`Appended`): the requests in progress are the last ones, in
order, so that as many have landed as are before them.

**`DistributedProofs`**
- For any number of processes that share a cache: `NeverPartialHolds`, since only
  a complete temporary file is renamed; `CreatedOnceHolds`, since as long as there is no
  file nobody has got past the creation, hence nobody has unlinked the lock file, hence
  there is one inode and its lock excludes (`Exclusive`).
- `SentOnceHolds`, for any number of TCP workers and messages, and workers that die and
  connections that are lost at any time.  A worker has asked and was not answered, or was
  answered and has not asked (`Turn`), so a message written to it is the only one on its
  way; what was sent is with one worker, and the message at hand with none (`Held`).
  That a worker alive at the end has consumed what it got needs more: it stays active
  and listed as long as it has something to read (`Linked`), and the producer ends only
  when the list is empty.  `CleanupKeeps` says what `cleanup()` leaves in the list, and
  the exchange that `send()` makes in it loses nobody (`ServeKeeps`).
- `TagsExpectedHolds`, for every number of ranks and writers that the constructor accepts,
  and every number of messages, buffered or not.  That the writers have ranks of their own, none the
  producer's, is arithmetic (`WriterRankIs`, `WriterRanksDiffer`): they are
  `totalRanks_ / writers > 1` apart, so the last is still above 0 and the test for
  `<= 0` in the constructor is never true.  For the tags: a worker has asked, or was answered, or has
  sent its statistics, and never two of these (`WorkerOK`); the producer's count is the
  number of workers whose statistics it has not received (`Uncounted`, `ProducerOK`), so
  that all have ended when it gets to the writers, which only then hear from it and
  answer (`WriterOK`).

**`FilePoolProofs`**
- `ReadsOwnPlaceHolds`, for any number of objects, paths, file length and limit.  An
  object that has its file open keeps the entry from being closed, both by `remove()`
  and by `checkMaxPooledHandles()` (`CheckKeeps`), and its `position_` is its own.
- `OneUserHolds`, for any number of threads, paths and handles and any capacity.  What a
  thread uses is recorded in `inUse_` and is neither closed nor cached (`Lent`), and the
  cache holds a handle under one path only.  The lemmas on lists (`Part`, `Erased`) say
  what inserting, erasing and trimming leave of the cache.
- `SignalChainHolds`: unless a thread has left without a `checkin()`, a path in use has a
  user, who is awake and will signal (`ChainInv`).
- `EntriesKeptHolds`, of CacheLRU for any capacity and sequence of calls: the list is in
  order of use without repetition (`Ordered`), and a value that has left has left one
  way and not come back (`OneFate`).

**`FamProofs`**
- `FindsInsertedHolds`, for any number of processes and keys of a FamMap.  The head is
  written last, so whoever sees the list sees a complete descriptor (`Placed`), and
  entries are only added.
- `LockSerialisesHolds`, for any number of processes, lease, clock and word size.  The
  lock is the holder's own time and not old (`Leased`), a thief has seen a lease that
  was old (`Seen`); so by the time it swaps, that lease is not the holder's, or the
  holder has overrun.  `OldIsOld` is where the unsigned difference matters: it needs
  that the lease is not newer than the time.

Only model-checked:
- all liveness properties, since the prover does not handle fairness;
- `ListExact` and `IterationComplete`, which follow links with a recursive operator, and
  `ThreadsCounted` and `WritesAccounted`, which are about sums over sets and sequences:
  what these compute for every input takes an induction the prover cannot do;
- `EachDeletedOnce`: a ThreadControler has one owner and one thread and no constant to
  vary, so that the run is exhaustive;
- `CopyIsComplete`, which could be proved and is not yet.

## 7. Not modelled

Use of an object after its destruction (a worker that starts after the pool is
gone, the writer of a DblBuffer that was left behind by an exception): TLA+
could state it, but the outcome is undefined.  Two threads on one PooledFile, for the
same reason.  Unlocked queries (`maxSize()`, `done()`, `size()`): they do not change
state, and their value is stale when used.  Exceptions that are not
`std::exception`.  Failures of the allocator.

In TxnLog, a power failure that undoes a rename, and `recover()` on a log in use.  In
ThreadControler, `kill()`.  In CacheManager, several roots, the lock with a semaphore,
and the accounting that decides what is evicted (an eviction may come at any time);
an fcntl lock does not exclude threads of one process, which the model does not have.
In FamMap, `insertOrAssign`, `erase`, `clear`, `merge` and the iterator over buckets:
`erase` and `insertOrAssign` remove from a FamList, for which section 5 shows that
nothing holds beside other calls.  In `distributed/`, the transport that runs in one
process, and files written by several writers at once.

BTree, ClusterNodes, Connector, MultiSocket and Pipeline, and the components without a
protocol, are listed in `PROJECT.json` with the reason.
