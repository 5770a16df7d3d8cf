# A TLA+ model of basework

This directory holds a verification development for the C library under
`src/basework` (TestRunner is the host program that runs its tests): TLA+
modules that model its concurrent and stateful parts, TLC configurations that
check them on small instances, and TLAPS proofs for all instances.
`PROJECT.json` is the index: which definition models which lines, what each run
checks, the mutants that show each property can fail, the hazards the
properties are aimed at, the findings and the theorems.

    tlc -config MCRunQueue.cfg MCRunQueue        # and the other .cfg files
    tlapm RunQueueProofs.tla                     # and the other *Proofs.tla

## 1. The system

basework is middleware for small devices. A port (`os/posix`, `os/win32`,
`os/zephyr`) provides one critical section, a wait/wake pair, threads, timers
and files; the rest is portable C on top of that.

| Part | State it keeps | Operations | Uses | What is hard about it |
|---|---|---|---|---|
| run queue, `rq.c` | pool of `rq_node`s on `frees` / `pending`, a semaphore | submit, submit with copy, urgent variants, reset, the service thread, cancel | critical section | threads interleave; a lock is missing on one path; lost wake-ups; full queue |
| block cache, `dev/blkdev.c` | `bh` buffers on `cached_list` / `dirty_list`, hold times, a timer | init, destroy, read, write, sync, `bh_check_cb` | disk device, timer, run queue | write-back order, failing erase and write, running out of clean buffers |
| software timers, `lib/timer/timer_list.c` | delta list, per-timer state | add, mod, del, schedule | lock, driver thread | delta arithmetic; list unlocked during callbacks; destroy during a callback |
| POSIX timers, `os/posix/os_timer_impl.c` | one `timer_t` per timer | create, mod, destroy, expiry signal | run queue | expiry is a submission that may be refused |
| disk device, `dev/disk.c` | list of devices | register, open, read, write, erase | flash drivers | range checks |
| bdbuf, `lib/block/bdbuf.c` | AVL tree and LRU lists of buffers, groups, waiters | get, read, release, release modified, sync, purge, swap-out and read-ahead tasks | disk devices, mutex, condition variables | blocking state machine of every buffer, several tasks |
| boot loader, `boot/boot.c` | firmware images and header on flash | validate, copy, save header, retry, boot | disk device, env | power loss between flash operations, error paths |
| environment, `env.c`, `lib/env_core.c` | list of variables, their lines in RAM that survives a reset | get, set, unset, load, flush | | old lines behind new ones |
| clock, `dev/clock_timer.c` | second counter, callout list | tick callback, get/set time, add/remove callout | timers | unlocked counter, callouts off the list while they run |
| disk log, `lib/disklog.c` | ring on a partition and its persisted offsets | input, output, read, reset | partition, block cache | wrap-around, partial failure, reader snapshot |
| partition file, `dev/partition_file.c` | list of open files, reference counts, metadata | open, read, write, seek, close | partition, block cache | open/close races, frees under a lock |
| object pools, `os/osapi_obj.c` | free list per type | initialise, alloc, free | critical section | concurrent initialisation |
| kfifo, `kfifo.c` | in/out counters | put, get, peek | | lock-free single producer/consumer, wrap |

Interactions: a timer's expiry submits its callback to the run queue (POSIX) or
calls it from the driver thread (Windows); `bh_check_cb` is such a callback,
runs a write-back pass on the block cache and arms its timer again; the disk
log and the partition file store through partitions and the block cache; the
boot loader reads the environment, and copies firmware directly on the disk
device.

What makes each part correct: a run queue executes every accepted job once and
never loses a node; a block cache is transparent, holds one copy of a block and
gets dirty data to the flash; a timer is called when its time has come and not
before, and its list stays consistent however callbacks and callers interleave;
bdbuf never lets two tasks hold one buffer and never leaves a waiter asleep; a
boot loader never boots an image that it has not validated; the ring of a disk
log holds the last bytes written; an open file lives as long as its references.

## 2. What is modelled

### RunQueue (`rq.c`, POSIX port)

State: `frees` and `pending` are the two lists as sequences of nodes, `exec`
what a node carries, `proc` the semaphore, `mtx` the mutex behind
`os_critical_lock`; `pc`, `op`, `srn`, `need_wakeup` the client threads' program
counter and locals, `wpc`, `rn`, `nextp`, `fn` those of the service thread;
`bufs` the allocated copy buffers. `ret`, `runs`, `dropped` and `raced` are
history for the properties.

One action is one lock operation or one list operation, because the service
thread really does run list code without the lock: at `rq.c:187-188` it returns
from `os_resched` and continues with `rq_get_first_locked` although it unlocked
before. Its `list_del` is therefore two steps, the loads (`SchedLoad`) and the
stores (`SchedDel`), and its unlock clears a mutex somebody else may hold.
`raced` records that two threads were in list code at once. Everything else
about the queue is stated *until a race*, so that the missing lock does not hide
other mistakes; the race itself is a run of its own. When a race tangles the
lists into a shape the C code gives no meaning to, the service thread goes to
`"ub"` and stays there.

### BlkDev and BlockStore (`dev/blkdev.c`)

State: the two lists, the fields of each buffer, the `flash` behind the device,
the read or write in progress (`req`), the write-back pass in progress (`pass`),
the timer and the callbacks queued for it. A block has `BlkSize` cells, so that
partial, straddling and whole-block writes differ as they do in the code.
Handling one block is one step (it is one critical section of `bh_mtx`); a
write-back pass is one step per dirty buffer, and each erase or write may fail,
after an erase in particular. `MaxFaults` bounds the failures. `ub` marks the
places where the code leaves defined behaviour: no clean buffer can be had and
the list head is taken for a buffer, a buffer is released twice after a failed
read, the advanced pointer is freed when no timer can be created, and a timer
callback meets a destroyed device: queued before `blkdev_destroy` it locks the
mutex that was destroyed (`blkdev.c:118`, `:342`), past its own unlock it arms the
timer that was freed (`CheckCbRearm`, `blkdev.c:124`). What the properties say of
the lists and the contents ends there.

`BlockStore` is the abstract specification: each block has a content (what a
read returns) and a stable copy. Contents change by writes only, and by a write
only in its own cells. `BlkDev!Transparent` is `Store!Spec` under the refinement
mapping content = what a read would find, stable = flash.

### TimerList (`lib/timer/timer_list.c`, `os/win32/os_timer_impl.cc`)

State: the `list` with each timer's delta `expires` and `state`, the insertion
in progress (`walk`, one step per node passed), the driver thread (`dpc`,
`slept`, `togo`, `left`, `cur`), and who has each timer object (`owner`). For the
properties every timer has two countdowns that nothing in the list goes into:
`due` is its delay less all the time `timer_schedule` was told of since it was
armed, `real` counts with the wall clock. `late` and `early` are what these say
when the timer is taken off the list to be called. Callbacks are steps of the
environment: while `dpc = "call"` any caller, including the callback, may add,
modify, delete and destroy timers.

`os_timer_destroy` is two steps, `timer_del` under the lock of the list (`Destroy`)
and `os_obj_free` under that of the pool (`Free`). A callback that is under way may
arm its own timer between them or afterwards (`LateMod`; `bh_check_cb` always arms
its timer): `timer_mod` links it, and the owner says so (`revived`, `stray`). The
list goes on with such a timer. The behaviour ends (`Undefined`) where `os_obj_free`
overwrites the next pointer of a linked node, and where the pool hands out an
object whose link is a pointer of the list.

The driver charges every timer on the list with the whole time it slept
(`os_timer_impl.cc:83`), those that were added during the sleep included, which a
reader of `timer_list.h:64-66` ("expiration time") would not expect.
`FiresAfterDelay` therefore counts a delay from the start of the sleep in which the
timer was armed; against the time of the call a timer is early by up to one sleep.

### DiskLog (`lib/disklog.c`)

State: the offsets in memory (`log`, the `log_file` of the code) and their copy
in the header block (`hdr`), the `ring` of the partition, the snapshot `rdlog`
of the incremental reader, the call in progress. Every operation holds `log_mtx`
throughout, so calls do not interleave and one step is one access to the
partition. A byte that is logged is a serial number, which tells old bytes from
new ones and shows their order; `want` is the sequence of the last `Size` bytes
whose `disklog_input` succeeded. Every access may fail: a failing save is an
assertion (`"dead"`), a failing write of a later part moves `wr_ofs` but not
`d_size`. From then on the ring no longer holds a sequence that ends at `wr_ofs`;
`spoiled` says so, until a reset or an input as long as the ring. After a failed
`disklog_init`, whose result `printer.c:75` ignores, `log_file` is all zero: an
input writes nothing and saves a header without the magic
(`InputUninitialised`). A restart is an orderly one: power loss with data still
in the block cache is left out.

### Bdbuf and AvlTree (`lib/block/bdbuf.c`)

State: the descriptors `bd` with their states, keys, hold timers and contents;
the `tree` as the set of buffers it finds; the `lru`, `modified` and `sync`
lists; the groups with `bds_per_group` and `users`; per device the block size and
the read-ahead control; the media (`disk`), on which every media block has a
version number. The actors are user tasks, the swap-out task, its workers and the
read-ahead task. The cache lock protects everything, so a step runs from taking
the lock, or returning from a wait, to giving it up; `owner` is for tasks that
keep it longer. A waiting task sleeps on one of the three condition variables
(`cv`) and is awake again after the broadcast, competing for the lock with
everyone else. Transfers run without the lock and end in a step of their own,
which may fail. The driver is synchronous (it calls `transfer_done` before its
ioctl returns), as the disks of the repository are.

Two situations leave the documented state machine, and `hist` records them, so
that what is said about the time before is not weakened:
`orphan`, a purge during a read (the caller gets a buffer that was discarded,
`bdbuf.c:2162`), and `resized`, a change of the block size while tasks use
buffers (`FATAL_STATE_10`, blocks that reach past the end of the device).
`OneHolder`, `GroupUsers` and `NoLostWakeup` need neither exception, and
`StateTable` and the state diagram only the first. `NoFatal` has a third
exception, which is no interleaving: the swap-out task adds the nanoseconds of its
period to those of the clock without a carry, `sem_timedwait` refuses the time and
the task stops the program (`bdbuf.c:2848-2855`, the second disjunct of
`SwapoutWake`). A third record, `stale`, is
the set of tasks that were asleep for any buffer when the block size was changed:
that may make a buffer usable for them and wakes nobody (`bdbuf.c:3028`), so they
sleep until the next broadcast.

`Diagram` is the state diagram of `bdbuf.h:76-127`. The code follows it but for one
step, which is a run of its own (`bdbuf_diagram`): `release_modified` gives up the
cache lock to wait for the sync lock, and a buffer that is purged meanwhile goes
from ACCESS_PURGED to MODIFIED (`bdbuf.c:1040-1071`), where `bdbuf.h:124` has it
discarded. `OneDeviation` says that there is no other.

Chains are sequences. `SelectSeq` and `SortSeq` are closed to the prover, so what
is left of a chain after an extraction (`Only`, `Without`) and the sorted insertion
of a write request (`Sorted`) are defined by counting: the k-th element is the one
with k elements up to it.

`AvlTree` is the tree: search, insert, remove, and the walk of
`gather_for_purge`. It is what allows `Bdbuf` to use a set. The mirrored cases of
the code are one case with a side as parameter.

### Boot and EnvCore (`boot/boot.c`, `env.c`, `lib/env_core.c`)

State: the load region with the header, the run region, the information sector
(`firmware_pointer`), the variables in memory and their lines in `nvram`, and
where `general_boot` is. Every erase and write is a step; it may fail with any
content between old and new, a write may go wrong unnoticed, and the power may
fail before, in and after it. Reads change nothing, and a failing one is an
alternative of the step that uses its result. The firmware is the environment:
it downloads an image (complete, truncated or for another device), changes
variables and resets; a firmware that is not intact only resets. Checksums are
ideal.

`EnvCore` keeps texts as sequences of characters, because what the next start
finds depends on where the lines of the last flush end and those of an older one
go on: `env_flush_ram` does not terminate what it writes. A character is a word
and a position in it; numbers are a table.

`BootsIntact` excuses exactly what the code lets happen: a failing read that
decides on the update or verifies it, giving up after the retries, and a header
whose write reported an error although the header was written (the retry then
copies again with a header that says it is done).

### SFile (`dev/partition_file.c`)

State: the `struct sfile` of one file, on the list or not, with the holder of its
lock; the partition as it is read (`cache`) and as it survives a power cut
(`flash`); the tasks. `refcnt++` in an open and `refcnt--` in a close are a load
and a store each, because they run under different locks. Memory from the
allocator holds anything: `base` is used by the checksum of an open before it is
set, so a file may come up empty, and a second open that finds the file early
works with what is there. Use of a freed or missing file ends the behaviour
(`undefined`). The checksum of data is the data; a failing read makes it 0.
Offsets may be negative, since `usr_sfile_setoffset` bounds them from above only
(`partition_file.c:264`): a write then replaces the metadata, which the last close
writes again, or it passes the unsigned check (`:218`) and hits the cell before the
partition, where the model stops. A failing `lgpt_write` of an invalidation may
have cleared the metadata (`InvalidFails`).

`hist.overlap` says that an open ran together with another open or a close of the
file. This is what a caller must avoid; `HandlesCounted` says that nothing else
is needed.

## 3. Runs

| Run | Instance | Checks |
|---|---|---|
| `run_queue` | 2 threads, 3 jobs (one copied, one urgent), 2 nodes, 1 reset, cancellation | nodes conserved, no lost wake-up, jobs accounted for, buffers freed once and not early, accepted jobs run |
| `run_queue_race` (violation) | 1 thread, 2 jobs | an accepted job is lost |
| `blkdev` | 2 buffers, 3 blocks of 2 cells and one beyond the end, whole, partial, straddling and out-of-range requests, 1 fault | lists partition the buffers, one buffer per block, clean buffers equal the flash, write-back order, sync without error is durable, `BlockStore` is implemented, dirty data is written back |
| `blkdev_sync_error` (violation) | same | `blkdev_sync` returns 0 with unsaved data |
| `timer_list` | 3 timers, delays 1 and 2 | list and states agree, deltas add up to countdowns kept apart, calls in the right `timer_schedule` and not before the delay, destroyed timers back on the list by their own callback only, every timer is called |
| `disklog` | ring of 3 bytes, inputs of 1, 2 and 4, chunks of 2, 2 faults, restarts | offsets stay in the ring, the ring holds the last bytes logged, output hands over exactly these |
| `disklog_read` (violation) | ring of 3 bytes, reads of 3 | a read across the end of the ring reports too little |
| `bdbuf` | 3 tasks, 1 device, buffers of two sizes, 1 worker, read-ahead of 2 | the state table of `bdbuf.h`, one user per buffer, users of groups, no lost wake-up, coherence, `syncdev` has written, no fatal error but for three causes |
| `bdbuf_diagram` (violation) | 2 tasks, a writer, a syncdev and a purge | a purged buffer that is released modified becomes MODIFIED |
| `avl` | 12 blocks, all sequences of inserts and removes | the tree finds exactly what it holds, balance, the purge's walk |
| `boot` | 3 firmwares of 2 blocks, 1 retry, power cuts, failures, variables over 4 starts | what is booted is intact, a reported update is one, flushed variables return, every start ends in a boot |
| `sfile` | 2 tasks, 2 cells of data, failures, power cuts | references are counted, a closed file is kept, an opened file is old or new |

Bounds. Two nodes and three jobs fill the run queue and reuse a node; two
threads and the service thread are three-way interleavings. Two buffers over
four blocks force recycling and write-back for space; `HoldTime = 2 * Period`
makes a buffer survive one pass. Three timers give every place of a delta list
(first, middle, last), and delays 1 and 2 give equal, smaller and larger times.
Seven bytes in a ring of three go round twice; inputs of one, two and four end
before, at and beyond the end of the ring, and one is longer than the ring.
`MaxResets`, `MaxFaults`, `MaxCbs` and `MaxSerial` are the only counters that are
capped in the modules above. `Bdbuf`, `Boot` and `SFile` draw a budget in the
initial state (so many calls, writes, failures, power cuts): every kind of event
then meets the whole system, and kinds are combined where their combination
matters. One group of two minimum-sized buffers is less than three tasks want, so
tasks wait for buffers, recycle each other's and cut the group up. Two blocks of
firmware have a first and a last one, and three failures exhaust one retry
(the code has three; the count is a constant). The variables have their real
lengths and 64 bytes to share, so that lines of different flushes overlap. Twelve
nodes are the fewest with which a removal turns twice. In `bdbuf` tasks are
symmetric, in `sfile` tasks and values; their properties are safety properties.
All runs but `avl` use `CHECK_DEADLOCK FALSE`: a system whose callers are silent
may stop, and so may one in undefined behaviour, or with its budget spent.

Fairness. A thread inside a call goes on (weak fairness on each client inside a
call and on the service thread): POSIX threads are scheduled. Callers need not
call. An armed POSIX timer expires. In `TimerList` the driver competes for the
list lock with callers that may come back again and again; strong fairness on
`Wake` and `CallbackReturn` says that the lock is not denied to it for ever.
Callbacks return, and time passes while the driver sleeps. In `Boot` the boot
loader goes on until the firmware runs: it is one thread with nothing to wait
for. The condition is written out instead of `WF_vars(BootStep)`, as a boot step
is possible exactly when no firmware runs. Power cuts are bounded; with
unboundedly many a device never boots.

Liveness is conditional where the code makes it so: `AcceptedJobsRun` excuses a
reset, a cancellation and a race; `WrittenBack` excuses a callback that the run
queue refused (nothing arms the timer again) and a dirty block beyond the end of
the disk, which stops every pass; `EveryTimerFires` assumes positive delays.
In `Bdbuf` the wake-ups are stated as a safety property (`NoLostWakeup`): nobody
sleeps on a condition that already holds.

## 4. Findings

1. `rq.c:187-188`: the service thread continues without the lock; a job whose
   submission returned 0 can disappear.
2. `dev/blkdev.c:113`: `blkdev_sync` returns 0 although an erase or write failed.
3. `bdbuf.c:1070`: a buffer that is purged while its holder waits for the sync
   lock becomes MODIFIED and is written; `bdbuf.h:124` says EMPTY.
4. `lib/disklog.c:194`: a read across the end of the ring overwrites its first
   part with its second and returns the length of the second only.

Behaviour that the models contain and the properties name as exceptions, or
that was met while modelling. There is no run for these:

* `bdbuf.c:2162`: a purge during a read gives the caller a discarded buffer.
* `bdbuf.c:2162`, continued: the discarded buffer and a new one of the same block
  can both be released as modified, and the older version be written last.
* `bdbuf.c:3028`: a change of the block size wakes no task that waits for any
  buffer, although it may have made one usable.
* `bdbuf.c:1653`: a buffer left EMPTY after a change of the block size, with no
  other waiter, is recycled into the fatal `STATE_10`.
* `bdbuf.c:2850`: the deadline of the swap-out task can be an invalid time, which
  stops the program.
* `os_timer_impl.cc:83`: timers added during the driver's sleep are charged
  with the whole sleep and fire early.
* `os_timer_impl.cc:73-74`: a callback may arm its timer while it is destroyed, and
  the list or the pool breaks; `dev/blkdev.c:118`, `:124`: `bh_check_cb` does so.
* `bdbuf.c:2595`: the comment says buffers whose transfer failed go back to the
  modified list; they are discarded.
* `bdbuf.c:2608`: a worker taken for a pass without anything to write is not put
  back.
* `boot.c:73, 94, 259`: failing reads count as valid, or as verified.
* `boot.c:131`: `crash-cnt` is set to the value it has, never incremented.
* `env.c:84`: a variable that was unset can come back from an old line.
* `partition_file.c:170`: an open of a file that does not exist dereferences
  NULL; `:174-194`: one whose metadata cannot be read returns 0 and no file;
  `:181`: the checksum uses `base` before it is set; `:303-307`: the last close
  unlocks a mutex it has freed; `:95` and `:289` change `refcnt` under different
  locks; `:227`: a failed write may change the data of a file that is not dirty,
  which the next open then finds invalid; `:202`: an invalidation leaves `fsize`
  and `dirty`, so the next close restores the old size; `:297`: after a failed
  write of the metadata the file stays open with no user and its data is no
  longer dirty; `:264`: a negative offset is accepted, and `:218` lets a write end
  at the start of the partition.

## 5. Proofs

Each theorem holds for every value of the constants that satisfies the named
assumptions of its module. TLC evaluates these on every run. Three of them say more
than types: `RequestsAssumption` of `BlkDev` (the blocks a request names are on
the disk or among the modelled ones beyond its end), `SFileAssumption` (the
tasks are finitely many, so that they can be counted) and `DataAssumption` of
`SFile` (a value, a blank cell, metadata and foreign memory are four different
things: the code tells them apart by the magic number and the checksum, which the
model takes to be free of collisions). Every inductive invariant
below was checked with TLC as an invariant of the run of its module before it was
proved.

`RunQueueProofs` (`TypeCorrect`, `NoWakeupIsLost`, `NodesKept`, `JobsAccounted`,
`CopiesFreed`, `CopiesLive`)
* `TypeOK` is not inductive: the action that links a node needs to know that the
  client holds one. `TypeInv` adds `HeldOK` and `TakenOK`.
* `NoLostWakeup` is not inductive: between its test of the pending list and its
  linking (`rq.c:86-95`) a client remembers an answer that must still be right.
  `WakeInv` adds `TestStillHolds` (until a race, a client that decided not to post
  is looking at a non-empty list) and `RaceNoted`.
* `NodesInv` says where nodes are when they are on no list: no two hands hold the
  same one (`Apart`), every node is on a list or in a hand (`Everywhere`), the
  hands and the lists add up to `Nq` (`Counted`), and what the service thread has
  loaded is still true when it stores (`Loaded`).
* `JobsInv` ties calls to nodes: what a client is about to link (`Calls`), which
  nodes carry which job (`Carries`), what has become of every job (`Account`), and
  which copy belongs to whom (`Copies`).

`TimerListProofs` (`Invariance`, `DeltasCorrect`, `CallsAreOnTime`,
`NotBeforeDelay`, `ListMatchesStates`, `NoDestroyedTimerQueued`, `TypeCorrect`)
* `Inv` is `TypeOK`, `StatesAgree`, `DestroyedNotQueued` and four parts. `SumsOK` is
  `DeltasAddUp` by place; `WalkOK` is what makes it inductive: during an insertion
  the delay still to be distributed is the new timer's time less the time of the
  timer in front of it. `ArrearsOK` is what `CallsAreOnTime` needs: what
  `timer_schedule` has still to give out is the time by which the timer it calls was
  overdue, and no more than the sleep. `RealOK` ties the wall clock to `due`: no
  timer has longer to wait on it than the driver has to sleep, from which
  `NotBeforeDelay` follows.
* `NoDestroyedTimerQueued` needs the callers to be told apart: a step that links a
  timer is one of its owner or of its own callback.
* The arithmetic is in four lemmas about sequences of numbers
  (`RemoveKeepsSums`, `InsertKeepsSums`, `TailKeepsSums`, `ShortenKeepsSums`); one
  lemma per action combines them with the shapes of the list.

`BlkDevProofs` (`Typed`, `BuffersListed`, `OneBuffer`, `CleanBuffers`,
`WriteBackOrder`, `CleanSync`, `CacheImplementsStore`)
* `CacheInv` is what the lists and the fields say together: `Partition`, `States`,
  `Unique`, `Clean`, and `Wanted` (while `bh_search_locked` writes buffers back to
  get a clean one, the block it looked for still has none). `OrderInv` is the order
  of the dirty list in the middle of a pass, when the buffers behind its position
  have aged and the others have not (`Aged`); `SyncInv` says that a pass with the
  full hold time skips nothing.
* `CacheImplementsStore` is the refinement: `BlockStore` takes the step of a write
  when the cache changes the buffer, and stutters or stores when the cache reads,
  recycles, ages, erases or writes back. The step lemmas say what each action does
  to the content of every block; the invariant is needed where a buffer is
  recycled (it is clean, so the flash has its block) and where a block is erased
  (its buffer is still there).

`DiskLogProofs` (`OffsetsInRing`, `LogHoldsLast`, `OutputIsComplete`)
* `RingHoldsLast` speaks of the time between calls. During an input `LogInv` says
  that the bytes in front of the call's offset are the new ones (`NewBytes`), that
  in front of these are those of the old ones they leave room for (`OldBytes`), and
  how far the offset has come (`Place`: after a failed write it is where the input
  began, or 0, which is why an empty log never gets a displaced `wr_ofs`). `Kept`
  says the same of the saved header, for the next start; `Given` is the part of an
  output that the callback has seen.
* The modular arithmetic is in lemmas about going ahead and back in the ring.

`BootProofs` (`UpdateInstalls`, `WholeFirmwareStarted`)
* `SuccessMeansInstalled` needs `Copying`: which blocks of the run region are
  already the new firmware. `BootsIntact` needs `IntactInv`: a run region that is
  not whole is `Repairable` (the load region is whole, and the information sector
  does not call it installed), an update goes on only where the next start would
  find it undone (`UpdateIsDue`), and past it the run region is whole unless this
  boot has seen a failure (`PastUpdate`).

`SFileProofs` (`ReferencesCounted`, `WrittenIsKept`, `NoMixture`)
* Between the load and the store of `refcnt` a task has a number that must still
  be right when it stores it. `CountInv` says so, and that without overlap at most
  one open is on its way.
* `ContentKept` speaks of a file nobody has open. While it is open and dirty, what
  was written is what its users see and not what the metadata says (`Kept`), even
  if a write or a failed invalidation has replaced the metadata; what
  is not on the flash is known to be missing there (`Synced`); only a clean file is
  taken off the list (`Stages`). A write goes to a file that is set up
  (`Up => SetUp`), which is where `CountInv` is needed: nobody has a file that
  another task is still setting up.
* `OldOrNew` is a property of one step, the end of an open. `PartOK` makes it hold:
  what metadata there is in the cache and on the flash carries a checksum that some
  close has stored, through every order in which a power cut lets cells reach the flash.

`BdbufProofs` (`CacheInvariant`, `CacheTyped`, `StatesTellLists`, `NeverTwoHolders`,
`UsersCounted`, `AssertionsHold`, `DiagramFollowed`) and, on top of it,
`BdbufCacheProofs` (`WakeupsArrive`, `CacheTransparent`, `SyncdevKeepsPromise`)
* None of the properties is inductive, and they need each other: a buffer leaves
  its list because its state says that it is there, and its state changes because
  its one holder acts. `IInv` is what they have in common.
  `BufferInv` says of every buffer who has it: one task in an access state, one
  writer or the read-ahead task or a reading task under transfer, nobody in any
  other; that a task waits only for a buffer that is not FREE, and that an EMPTY
  buffer has such a task (otherwise nobody would take it out of the tree again);
  and, until an orphan, that the tree finds it. `ListsInv` says that each list has
  exactly the buffers of its states, once, and `KeysInv` that the tree has one
  buffer for a block. `RequestsInv` keeps the requests free of repetitions and
  empty between transfers. `CountInv` is `GroupUsers`, `SizesInv` says that there
  is one size before the block size is changed, and `SyncInv` that the requester of
  a sync waits for its end. `NoFatal` closes the circle: removals from the tree
  succeed because the lists say so. `DiagramFollowed` proves `OneDeviation`: every
  step but the one that refutes `FollowsDiagram` in the run `bdbuf_diagram`.
* `WakeInv` is the invariant of `NoLostWakeup`. A task that sleeps for a buffer
  sleeps on the condition variable its state will signal. One that sleeps for any
  buffer has none: no buffer on the LRU list is usable for it unless another task
  waits for it, or the block size was changed in its sleep (`hist.stale`). What makes this inductive is that a broadcast goes to everyone:
  wherever a step makes a buffer loose, it wakes either those who wait for this
  buffer or all who wait for any.
* `CohInv` is the invariant of `Coherent`. `Coherent` says where the latest version
  of a block is, but not why it gets there: `Faithful` adds that a buffer that was
  read and not yet released as modified equals the disk (so that it may be dropped
  without being written), and that a purged buffer still in use is of a block that
  was given up. `Calm` is what almost every step does to a buffer: it keeps its
  contents, or had none, or equalled the disk. The steps that are not calm have a
  lemma of their own: a release as modified makes a new version of one block
  (`WrittenCoh`), the end of a write puts it on the disk or gives it up
  (`WriteEndCoh`), a purge gives up the blocks of one device (`PurgeCoh`).
* `PendInv` and `LockInv` are what `SyncdevWrites` needs besides `CohInv`.
  `SyncdevWrites` speaks of the moment at which syncdev is done; `Promised` says of a
  block that was modified at the call what is true until then. Neither a task nor a
  worker has its buffer: a task that takes it ends the promise (`pending` loses the
  block), and no worker gets one while a device is synchronised, because the
  swap-out task then writes itself. So when the swap-out task finds nothing of the
  device on the two lists (`PickAll`: a pass for a device takes everything there is
  of it, whatever the hold timers say) the buffer is clean or gone, and by `CohInv`
  the version is on the disk (`WrittenOut`); and there it stays, or a later one
  replaces it (`Firm`). `LockInv` says that the sync lock belongs to the requester
  until it returns, so that no second call changes what is pending. Blocks that a
  worker was already writing at the call are not modified any more and not in the
  promise: syncdev does not wait for the workers (`bdbuf.h:637` speaks of the
  currently modified buffers only).
* The order of the chains comes from lemmas on counting (`InOrder` enumerates its
  set without repetition), which `Only`, `Without` and `Sorted` inherit. For each
  helper of the model one lemma says which fields of which buffers it changes
  (`SetStateFacts`, `GrantFacts`, `LoadedFacts`, ...); the lemmas on actions use
  only these.
* `BdbufAssumption` has the sizes positive, the tasks and workers finite and their
  names different.

What a proof needs to know of lists as sequences (what removing, appending,
prepending and splicing does to the set of nodes, and that no node is linked twice
afterwards) is stated at the head of the proof module that uses it.

Only model-checked, because the prover cannot do it: the liveness properties
(`AcceptedJobsRun`, `WrittenBack`, `EveryTimerFires`, `EventuallyBoots`; fairness
and `ENABLED` are outside of it), and what is defined by recursion over data,
`AvlTree.FindsExactly` over the paths of a tree and `Boot.FlushedReturn` over the
lines of the environment.

## 6. Plan

The modules of the first plan are written, but for `Clock`, `ObjPool` and
`Kfifo`, which are small. Every safety property of bdbuf that is checked is also
proved; `AvlTree` has no proofs, because its operators are recursive.

## 7. Not modelled, and why

The clock, the object pools and the kfifo are the parts with state that have no
module: the clock's two races are in the list of hazards, a pool is a free list
under the critical section (`TimerList` has its allocate and free as steps), and the kfifo is the one of Linux. Of bdbuf,
allocation at start-up, the statistics and the registration of disks are left
out, and three details no property depends on: the split of a write request for
drivers that want continuous blocks (`bdbuf.c:2421-2426`), the `-EINVAL` returns and
`sync = false` of `rtems_bdbuf_set_block_size` (`bdbuf.c:3001`, `:3032-3040`; false
only while `diskdevs.c` registers a disk), and what happens in the tree, where a
buffer is removed by its key (`bdbuf.c:584-600`), once an orphan and a second buffer
have the same one. Of the boot loader, compression is left out. Allocation failures are modelled where the
code does something with them (run queue, partition file).

Vendored code (LZ4, googletest), formatting and checksums, the thin port layers,
hardware watch points, the motor driver and static constructors have no state
machine of their own. The UI resource reader only reads. Device registration
happens once at start-up. Arithmetic overflow of byte offsets (32 bits) is out
of scope: model addresses are small and exact. About half of the lines of the
repository are vendored (googletest and LZ4 alone are more than 30 000), which
bounds the share of lines that can be mapped at all.
