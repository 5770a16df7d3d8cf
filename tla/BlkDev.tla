------------------------------- MODULE BlkDev -------------------------------
(***************************************************************************)
(* The block buffer cache of basework (src/basework/dev/blkdev.c): a few   *)
(* buffers on a cached list and a dirty list, written back by blkdev_sync, *)
(* by a periodic timer callback and when a buffer is needed.               *)
(*                                                                         *)
(* Every access to one block, from bh_get or bh_read to the release, holds *)
(* bh_mtx, so it is one step; a request that spans blocks is several.  A   *)
(* write-back pass holds the mutex too, but it is one step per dirty       *)
(* buffer, since each erase and write may fail.  The unit of data is a     *)
(* cell: a block has BlkSize cells.                                        *)
(***************************************************************************)
EXTENDS Integers, FiniteSets, SequencesExt

CONSTANTS
  NBufs,      \* CONFIG_BLKDEV_NR_BUFS
  BlkSize,    \* dd->blk_size, in cells
  NBlocks,    \* dd->len / dd->blk_size
  Beyond,     \* further block numbers that callers may name
  Values,     \* what a cell can hold
  Ff,         \* the one of them that an erased cell holds
  HoldTime,   \* CONFIG_BLKDEV_HOLD_TIME
  Period,     \* CONFIG_BLKDEV_SWAP_PERIOD
  Requests,   \* the calls made: [kind, ofs, size, val]
  MaxFaults   \* bound on failing flash operations

Bufs == 1..NBufs
OnDisk == 0..(NBlocks - 1)
Blocks == OnDisk \cup Beyond
NoBlock == -1
Cells == 0..(BlkSize - 1)
Data == [Cells -> Values]
Blank == [c \in Cells |-> Ff]           \* an erased block

ASSUME SizesAssumption ==
  /\ NBufs \in Nat \ {0} /\ BlkSize \in Nat \ {0} /\ NBlocks \in Nat
  /\ Beyond \subseteq Nat /\ Beyond \cap OnDisk = {}
ASSUME TimesAssumption == HoldTime \in Nat /\ Period \in Nat /\ 0 < Period /\ Period <= HoldTime
ASSUME ValuesAssumption == Ff \in Values
ASSUME RequestsAssumption ==
  /\ Requests \subseteq [kind : {"read", "write"}, ofs : Nat, size : Nat, val : Values]
  /\ \A r \in Requests : \A k \in r.ofs..(r.ofs + r.size - 1) : k \div BlkSize \in Blocks
ASSUME MaxFaultsAssumption == MaxFaults \in Nat

VARIABLES
  initialized,  \* bh_initialized
  cached,       \* cached_list
  dirty,        \* dirty_list
  blkno,        \* bh->blkno, NoBlock while bh->dd is NULL
  state,        \* bh->state
  buffer,       \* bh->buffer
  hold,         \* bh->hold
  flash,        \* the flash behind the disk device
  req,          \* the read or write in progress
  pass,         \* the write-back pass in progress, and for whom
  timer,        \* bh_timer
  cbs,          \* bh_check_cb calls waiting in the run-queue
  faults,       \* failed flash operations so far
  synced,       \* how the last blkdev_sync ended, if nothing was written since
  ub            \* the code has left defined behaviour

bhs == <<blkno, state, buffer, hold>>
vars == <<initialized, cached, dirty, bhs, flash, req, pass, timer, cbs, faults, synced, ub>>

NoReq == [kind |-> "none", ofs |-> 0, size |-> 0, val |-> Ff]
NoPass == [by |-> "none", pos |-> 0, expired |-> 0, err |-> FALSE]

MutexFree == pass.by = "none"

-----------------------------------------------------------------------------
(* Addressing, as blkdev_write and blkdev_read compute it. *)
ReqBlk == req.ofs \div BlkSize
ReqOfs == req.ofs % BlkSize
ReqBytes == IF BlkSize - ReqOfs > req.size THEN req.size ELSE BlkSize - ReqOfs

\* A write of a whole block takes the buffer without reading the flash.
WholeBlock == req.kind = "write" /\ ReqOfs = 0 /\ req.size >= BlkSize

\* memcpy into the buffer.
Patch(d) == [c \in Cells |-> IF c \in ReqOfs..(ReqOfs + ReqBytes - 1) THEN req.val ELSE d[c]]

\* The loop's next round, or the return.
Advance == req' = IF req.size = ReqBytes THEN NoReq
                  ELSE [req EXCEPT !.ofs = @ + ReqBytes, !.size = @ - ReqBytes]

\* Mutant: the search passes over dirty buffers.
FoundAtClean(q, b) == {p \in 1..Len(q) : blkno[q[p]] = b /\ state[q[p]] = "CACHED"}

\* bh_search_locked: the place of the first buffer of block b on a list.
FoundAt(q, b) == {p \in 1..Len(q) : /\ blkno[q[p]] = b
                                    /\ \A k \in 1..(p - 1) : blkno[q[k]] # b}

-----------------------------------------------------------------------------
Init ==
  /\ initialized = FALSE
  /\ cached = <<>> /\ dirty = <<>>
  /\ blkno = [i \in Bufs |-> NoBlock]
  /\ state = [i \in Bufs |-> "INVALD"]
  /\ buffer = [i \in Bufs |-> Blank]
  /\ hold = [i \in Bufs |-> 0]
  /\ flash = [b \in Blocks |-> Blank]
  /\ req = NoReq /\ pass = NoPass
  /\ timer = "off" /\ cbs = 0
  /\ faults = 0 /\ synced = "no" /\ ub = FALSE

\* blkdev_init: list_add puts each buffer at the head of the cached list.  When
\* the timer cannot be created the pointer freed is not the one allocated.
BlkdevInit ==
  /\ ~initialized /\ MutexFree /\ ~ub
  /\ cached' = [i \in Bufs |-> NBufs + 1 - i]
  /\ blkno' = [i \in Bufs |-> NoBlock]
  /\ state' = [i \in Bufs |-> "INVALD"]
  /\ buffer' = [i \in Bufs |-> Blank]
  /\ hold' = [i \in Bufs |-> 0]
  /\ \/ initialized' = TRUE /\ timer' = "armed" /\ UNCHANGED ub
     \/ ub' = TRUE /\ UNCHANGED <<initialized, timer>>
  /\ UNCHANGED <<dirty, flash, req, pass, cbs, faults, synced>>

\* blkdev_destroy: frees the timer, drops both lists and frees the buffers.  A
\* callback that is past the mutex arms the freed timer.
BlkdevDestroy ==
  /\ initialized /\ MutexFree /\ ~ub
  /\ timer' = "off"
  /\ cached' = <<>> /\ dirty' = <<>>
  /\ initialized' = FALSE
  /\ blkno' = [i \in Bufs |-> NoBlock]
  /\ state' = [i \in Bufs |-> "INVALD"]
  /\ buffer' = [i \in Bufs |-> Blank]
  /\ hold' = [i \in Bufs |-> 0]
  /\ synced' = "no"
  /\ ub' = (timer = "rearm")
  /\ UNCHANGED <<flash, req, pass, cbs, faults>>

-----------------------------------------------------------------------------
(* blkdev_read and blkdev_write. *)

Call ==
  /\ initialized /\ ~ub /\ req = NoReq
  /\ \E r \in Requests : r.size > 0 /\ req' = r
  /\ UNCHANGED <<initialized, cached, dirty, bhs, flash, pass, timer, cbs, faults, synced, ub>>

\* Mutant: bh_read reads the block whatever the state of its buffer.
LoadedAgain(i, st) == IF ~WholeBlock THEN flash[ReqBlk] ELSE buffer[i]

\* What a buffer holds once bh_get or bh_read has returned it in state st.
Loaded(i, st) == IF st = "INVALD" /\ ~WholeBlock THEN flash[ReqBlk] ELSE buffer[i]

\* Mutant: list_add instead of list_add_tail.
EnqueueDirtyFirst(d, i) == <<i>> \o d

\* The list operation of bh_enqueue_dirty.
EnqueueDirty(d, i) == Append(d, i)

\* memcpy and release of buffer i, which has been taken off its list; c and d
\* are the lists without it, st its state when it was found or recycled.
Finish(i, c, d, st) ==
  /\ \/ /\ req.kind = "write"                       \* bh_release_modified
        /\ buffer' = [buffer EXCEPT ![i] = Patch(Loaded(i, st))]
        /\ state' = [state EXCEPT ![i] = "DIRTY"]
        /\ hold' = [hold EXCEPT ![i] = HoldTime]
        /\ cached' = c /\ dirty' = EnqueueDirty(d, i)
        /\ synced' = "no"
     \/ /\ req.kind = "read" /\ st = "DIRTY"         \* bh_release
        /\ hold' = [hold EXCEPT ![i] = HoldTime]
        /\ cached' = c /\ dirty' = EnqueueDirty(d, i)
        /\ UNCHANGED <<buffer, state, synced>>
     \/ /\ req.kind = "read" /\ st # "DIRTY"         \* bh_release
        /\ buffer' = [buffer EXCEPT ![i] = Loaded(i, st)]
        /\ state' = [state EXCEPT ![i] = "CACHED"]
        /\ cached' = Append(c, i) /\ dirty' = d
        /\ UNCHANGED <<hold, synced>>
  /\ blkno' = [blkno EXCEPT ![i] = ReqBlk]
  /\ Advance

\* disk_device_read fails, always for a block beyond the end of the disk.
\* bh_read releases buffer and mutex, and then its caller releases a pointer
\* that bh_read never set.
ReadFails ==
  /\ ReqBlk \in OnDisk => faults < MaxFaults
  /\ ub' = TRUE
  /\ UNCHANGED <<cached, dirty, bhs, req, synced>>

\* The block has a buffer: take it off its list, use it, release it.
Hit ==
  /\ req # NoReq /\ MutexFree /\ ~ub
  /\ \/ \E p \in FoundAt(cached, ReqBlk) :
          Finish(cached[p], RemoveAt(cached, p), dirty, state[cached[p]])
     \/ /\ FoundAt(cached, ReqBlk) = {}
        /\ \E p \in FoundAt(dirty, ReqBlk) :
             Finish(dirty[p], cached, RemoveAt(dirty, p), state[dirty[p]])
  /\ UNCHANGED <<initialized, flash, pass, timer, cbs, faults, ub>>

\* Recycle the oldest cached buffer: a whole write needs no data, everything
\* else reads the block first.
Recycle ==
  \/ /\ WholeBlock \/ ReqBlk \in OnDisk
     /\ Finish(Head(cached), Tail(cached), dirty, "INVALD")
     /\ UNCHANGED ub
  \/ ~WholeBlock /\ ReadFails

NotFound == FoundAt(cached, ReqBlk) = {} /\ FoundAt(dirty, ReqBlk) = {}

Miss ==
  /\ req # NoReq /\ MutexFree /\ ~ub
  /\ NotFound /\ cached # <<>>
  /\ Recycle
  /\ UNCHANGED <<initialized, flash, pass, timer, cbs, faults>>

\* No buffer is clean: bh_search_locked writes the dirty ones back first.
MissFlush ==
  /\ req # NoReq /\ MutexFree /\ ~ub
  /\ NotFound /\ cached = <<>>
  /\ pass' = [by |-> "get", pos |-> 1, expired |-> HoldTime, err |-> FALSE]
  /\ UNCHANGED <<initialized, cached, dirty, bhs, flash, req, timer, cbs, faults, synced, ub>>

-----------------------------------------------------------------------------
(* blkdev_sync_locked: the pass over the dirty list. *)
InPass == ~MutexFree /\ ~ub /\ ~pass.err /\ pass.pos <= Len(dirty)
Cur == dirty[pass.pos]

\* Mutant: the comparison with the allowed time is missing.
PassSkipAlways ==
  /\ InPass
  /\ hold' = [hold EXCEPT ![Cur] = @ - pass.expired]
  /\ pass' = [pass EXCEPT !.pos = @ + 1]
  /\ UNCHANGED <<initialized, cached, dirty, blkno, state, buffer, flash, req, timer, cbs,
                 faults, synced, ub>>

\* Mutant: the buffer is skipped without growing older.
PassSkipNoAge ==
  /\ InPass /\ hold[Cur] > pass.expired
  /\ pass' = [pass EXCEPT !.pos = @ + 1]
  /\ UNCHANGED <<initialized, cached, dirty, bhs, flash, req, timer, cbs, faults, synced, ub>>

\* Held longer than the pass allows: age it and go on.
PassSkip ==
  /\ InPass /\ hold[Cur] > pass.expired
  /\ hold' = [hold EXCEPT ![Cur] = @ - pass.expired]
  /\ pass' = [pass EXCEPT !.pos = @ + 1]
  /\ UNCHANGED <<initialized, cached, dirty, blkno, state, buffer, flash, req, timer, cbs,
                 faults, synced, ub>>

\* Mutant: the state is not set when the buffer changes lists.
PassWriteKeepsState ==
  /\ InPass /\ hold[Cur] <= pass.expired /\ blkno[Cur] \in OnDisk
  /\ flash' = [flash EXCEPT ![blkno[Cur]] = buffer[Cur]]
  /\ cached' = Append(cached, Cur)
  /\ dirty' = RemoveAt(dirty, pass.pos)
  /\ UNCHANGED <<initialized, bhs, req, pass, timer, cbs, faults, synced, ub>>

\* Erase and write succeed: the buffer moves to the cached list.
PassWrite ==
  /\ InPass /\ hold[Cur] <= pass.expired /\ blkno[Cur] \in OnDisk
  /\ flash' = [flash EXCEPT ![blkno[Cur]] = buffer[Cur]]
  /\ state' = [state EXCEPT ![Cur] = "CACHED"]
  /\ cached' = Append(cached, Cur)
  /\ dirty' = RemoveAt(dirty, pass.pos)
  /\ UNCHANGED <<initialized, blkno, buffer, hold, req, pass, timer, cbs, faults, synced, ub>>

\* Mutant: the result of disk_device_write is not looked at.
PassFailUnchecked ==
  /\ InPass /\ hold[Cur] <= pass.expired
  /\ blkno[Cur] \in OnDisk /\ faults < MaxFaults
  /\ faults' = faults + 1
  /\ flash' = [flash EXCEPT ![blkno[Cur]] = Blank]
  /\ state' = [state EXCEPT ![Cur] = "CACHED"]
  /\ cached' = Append(cached, Cur)
  /\ dirty' = RemoveAt(dirty, pass.pos)
  /\ UNCHANGED <<initialized, blkno, buffer, hold, req, pass, timer, cbs, synced, ub>>

\* disk_device_erase fails, always for a block beyond the end of the disk, or
\* disk_device_write fails after the erase: the pass stops here.
PassFail ==
  /\ InPass /\ hold[Cur] <= pass.expired
  /\ \/ blkno[Cur] \notin OnDisk /\ UNCHANGED <<flash, faults>>
     \/ /\ blkno[Cur] \in OnDisk /\ faults < MaxFaults
        /\ faults' = faults + 1
        /\ \/ UNCHANGED flash
           \/ flash' = [flash EXCEPT ![blkno[Cur]] = Blank]
  /\ pass' = [pass EXCEPT !.err = TRUE]
  /\ UNCHANGED <<initialized, cached, dirty, bhs, req, timer, cbs, synced, ub>>

PassDone == ~MutexFree /\ ~ub /\ (pass.err \/ pass.pos > Len(dirty))

\* Back in blkdev_sync, which returns 0 in either case.
SyncReturn ==
  /\ PassDone /\ pass.by = "sync"
  /\ synced' = IF pass.err THEN "err" ELSE "ok"
  /\ pass' = NoPass
  /\ UNCHANGED <<initialized, cached, dirty, bhs, flash, req, timer, cbs, faults, ub>>

\* Back in bh_check_cb, which unlocks the mutex ...
CheckCbReturn ==
  /\ PassDone /\ pass.by = "cb"
  /\ timer' = IF timer = "armed" THEN timer ELSE "rearm"
  /\ pass' = NoPass
  /\ UNCHANGED <<initialized, cached, dirty, bhs, flash, req, cbs, faults, synced, ub>>

\* ... and arms the timer again.
CheckCbRearm ==
  /\ timer = "rearm" /\ ~ub
  /\ timer' = "armed"
  /\ UNCHANGED <<initialized, cached, dirty, bhs, flash, req, pass, cbs, faults, synced, ub>>

\* Back in bh_search_locked: take the first cached buffer.  If there is none
\* the list head itself is taken for one.
GetReturn ==
  /\ PassDone /\ pass.by = "get"
  /\ \/ cached # <<>> /\ Recycle
     \/ /\ cached = <<>>
        /\ ub' = TRUE
        /\ UNCHANGED <<cached, dirty, bhs, req, synced>>
  /\ pass' = NoPass
  /\ UNCHANGED <<initialized, flash, timer, cbs, faults>>

\* Mutant: the period of the timer instead of the hold time.
SyncShort ==
  /\ initialized /\ MutexFree /\ ~ub
  /\ pass' = [by |-> "sync", pos |-> 1, expired |-> Period, err |-> FALSE]
  /\ UNCHANGED <<initialized, cached, dirty, bhs, flash, req, timer, cbs, faults, synced, ub>>

\* blkdev_sync.
Sync ==
  /\ initialized /\ MutexFree /\ ~ub
  /\ pass' = [by |-> "sync", pos |-> 1, expired |-> HoldTime, err |-> FALSE]
  /\ UNCHANGED <<initialized, cached, dirty, bhs, flash, req, timer, cbs, faults, synced, ub>>

-----------------------------------------------------------------------------
(* The timer: expiry submits bh_check_cb to the run-queue, and nobody looks  *)
(* at the result of that submission.                                         *)
MaxCbs == 2

TimerFire ==
  /\ timer = "armed" /\ ~ub
  /\ timer' = "idle"
  /\ \/ cbs < MaxCbs /\ cbs' = cbs + 1
     \/ UNCHANGED cbs                    \* rq_submit returned -EBUSY
  /\ UNCHANGED <<initialized, cached, dirty, bhs, flash, req, pass, faults, synced, ub>>

\* bh_check_cb takes the mutex.  After blkdev_destroy the mutex does not exist
\* any more; once blkdev_init was called again the callback serves the new timer.
CheckCb ==
  /\ cbs > 0 /\ MutexFree /\ ~ub /\ timer # "rearm"
  /\ cbs' = cbs - 1
  /\ \/ /\ initialized
        /\ pass' = [by |-> "cb", pos |-> 1, expired |-> Period, err |-> FALSE]
        /\ UNCHANGED ub
     \/ ~initialized /\ ub' = TRUE /\ UNCHANGED pass
  /\ UNCHANGED <<initialized, cached, dirty, bhs, flash, req, timer, faults, synced>>

-----------------------------------------------------------------------------
Transfer == Hit \/ Miss \/ MissFlush
Pass == PassSkip \/ PassWrite \/ PassFail \/ SyncReturn \/ CheckCbReturn \/ GetReturn

Next ==
  \/ BlkdevInit \/ BlkdevDestroy \/ Call \/ Transfer \/ Pass \/ Sync
  \/ TimerFire \/ CheckCb \/ CheckCbRearm

Spec == Init /\ [][Next]_vars

\* A call that has begun goes on, the thread that holds the mutex goes on, an
\* armed timer expires and the run-queue executes what is in it.
Fairness ==
  /\ WF_vars(Transfer) /\ WF_vars(Pass) /\ WF_vars(TimerFire)
  /\ WF_vars(CheckCb) /\ WF_vars(CheckCbRearm)

LiveSpec == Spec /\ Fairness

-----------------------------------------------------------------------------
(* Properties. *)

TypeOK ==
  /\ initialized \in BOOLEAN /\ ub \in BOOLEAN
  /\ cached \in Seq(Bufs) /\ dirty \in Seq(Bufs)
  /\ blkno \in [Bufs -> Blocks \cup {NoBlock}]
  /\ state \in [Bufs -> {"INVALD", "DIRTY", "CACHED"}]
  /\ buffer \in [Bufs -> Data]
  /\ hold \in [Bufs -> 0..HoldTime]
  /\ flash \in [Blocks -> Data]
  /\ req = NoReq \/ (req.kind \in {"read", "write"} /\ req.size > 0)
  /\ pass.by \in {"none", "get", "sync", "cb"}
  /\ timer \in {"off", "armed", "idle", "rearm"} /\ cbs \in 0..MaxCbs
  /\ faults \in 0..MaxFaults /\ synced \in {"no", "ok", "err"}

\* Every buffer of an initialised device is on exactly one list, once, and on
\* the dirty list exactly when it is dirty.
ListsPartition ==
  ~ub /\ initialized =>
    /\ Len(cached) + Len(dirty) = NBufs
    /\ ToSet(cached) \cup ToSet(dirty) = Bufs
    /\ \A i \in Bufs : i \in ToSet(dirty) <=> state[i] = "DIRTY"

\* No block is held in two buffers: a later read or write cannot meet a stale
\* copy, and two write-backs cannot reach the flash in the wrong order.
OneBufferPerBlock ==
  ~ub => \A i, j \in ToSet(cached) \cup ToSet(dirty) :
           blkno[i] = blkno[j] /\ blkno[i] # NoBlock => i = j

\* A clean buffer agrees with the flash, whatever erases and writes failed, so
\* recycling it loses nothing.
CleanMatchesFlash ==
  ~ub => \A i \in ToSet(cached) :
           state[i] = "CACHED" => buffer[i] = flash[blkno[i]]

\* Between passes the remaining hold times do not decrease along the dirty
\* list: buffers are written back in the order of their last use, and a pass
\* that stops at a failing block has aged nothing behind it.
OldestFirst ==
  MutexFree /\ ~ub => \A i, j \in 1..Len(dirty) : i < j => hold[dirty[i]] <= hold[dirty[j]]

\* What a read of block b returns.
Content(b) ==
  IF \E i \in ToSet(cached) \cup ToSet(dirty) : blkno[i] = b /\ state[i] # "INVALD"
  THEN buffer[CHOOSE i \in ToSet(cached) \cup ToSet(dirty) :
                blkno[i] = b /\ state[i] # "INVALD"]
  ELSE flash[b]

\* The part of the call in progress that its next step transfers.
Piece == IF req = NoReq THEN NoReq
         ELSE [kind |-> req.kind, blk |-> ReqBlk, val |-> req.val,
               cells |-> ReqOfs..(ReqOfs + ReqBytes - 1)]

\* The cache implements the block store: until the device is destroyed, what a
\* read returns changes by writes only, and by each write only in its cells,
\* whatever is recycled, written back or fails in between.
Store == INSTANCE BlockStore WITH
           content <- [b \in Blocks |-> Content(b)], stable <- flash,
           piece <- Piece, NoPiece <- NoReq
Transparent == Store!Spec

\* After a sync that met no error the flash holds every block as it is read.
CleanSyncDurable == synced = "ok" /\ ~ub => \A b \in Blocks : Content(b) = flash[b]

\* blkdev.h:47-48, "Force sync block device data to disk / return 0 if success":
\* blkdev_sync has returned 0, so the flash holds every block as it is read.
SyncDurable == synced # "no" /\ ~ub => \A b \in Blocks : Content(b) = flash[b]

Stuck == \/ ub
         \/ timer = "idle" /\ cbs = 0 /\ pass.by # "cb"
         \/ \E i \in ToSet(dirty) : blkno[i] \notin OnDisk

\* Once the callers are quiet every dirty block is written back, unless a timer
\* callback was lost or a block beyond the end of the disk is in the way.
WrittenBack ==
  <>[](req = NoReq) => \A b \in OnDisk :
    \/ []<>(\A i \in ToSet(dirty) : blkno[i] # b)
    \/ <>Stuck

=============================================================================
