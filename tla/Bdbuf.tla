-------------------------------- MODULE Bdbuf --------------------------------
(***************************************************************************)
(* The buffer cache of lib/block/bdbuf.c: buffer descriptors that user     *)
(* tasks, the swap-out task, its workers and the read-ahead task pass      *)
(* around under one lock and three condition variables.                    *)
(*                                                                         *)
(* All state is protected by the cache lock, so a step is what a task does *)
(* from taking the lock (or returning from a wait) to giving it up.        *)
(* `owner' names the task that keeps the lock over several steps.          *)
(*                                                                         *)
(* The driver is the synchronous one the repository's callers have: it     *)
(* calls transfer_done before its ioctl returns, so a transfer and its     *)
(* completion are one step.  The swap-out task waits with a timeout and    *)
(* may always wake up; its semaphore only makes it wake earlier.           *)
(***************************************************************************)
EXTENDS Integers, Sequences, FiniteSets, SequencesExt

CONSTANTS Tasks,             \* the tasks that use the cache
          Devs,              \* disk devices
          NoDev, None,       \* BDBUF_INVALID_DEV, no task
          GroupCount,        \* groups of buffers
          MaxBdsPerGroup,    \* minimum-sized buffers in a group
          MediaBlocks,       \* media blocks of every device
          Workers,           \* swap-out worker tasks
          MaxWriteBlocks,    \* buffers in one write request
          MaxReadAhead,      \* max_read_ahead_blocks
          BlockHold,         \* swap_block_hold, in swap-out periods
          Budgets,           \* bounds on calls, writes, faults, syncs, purges, ...
          SemMax             \* where the count of the read-ahead semaphore saturates

BudgetKinds == {"calls", "writes", "faults", "syncs", "purges", "resizes", "peeks"}

ASSUME BdbufAssumption ==
    /\ GroupCount \in Nat \ {0} /\ MaxBdsPerGroup \in Nat \ {0}
    /\ MediaBlocks \in Nat \ {0} /\ MaxWriteBlocks \in Nat \ {0}
    /\ MaxReadAhead \in Nat /\ BlockHold \in Nat /\ SemMax \in Nat \ {0}
    /\ NoDev \notin Devs
    /\ IsFiniteSet(Tasks) /\ IsFiniteSet(Workers)
    \* the names of the tasks are all different
    /\ Tasks \cap Workers = {} /\ None \notin Tasks \cup Workers \cup {"swapout", "ahead"}
    /\ (Tasks \cup Workers) \cap {"swapout", "ahead"} = {}
    /\ Budgets \subseteq [BudgetKinds -> Nat]

VARIABLES
    bd,          \* the buffer descriptors: state, key, hold timer, contents
    tree,        \* the buffers in the AVL tree
    lru, modified, sync,  \* the three lists
    group,       \* of each group: bds_per_group and users
    dev,         \* of each device: bds_per_group and the read-ahead control
    disk,        \* what is on the media: the version of each media block
    task,        \* the user tasks: where they are and what they wait for
    owner,       \* who keeps the cache lock between two steps
    swap,        \* the swap-out task and the transfer it carries out itself
    worker,      \* the workers and their transfers
    free_workers,
    syncing,     \* sync_active, sync_device, sync_requester, holder of sync_lock
    ahead,       \* the read-ahead task, its semaphore and its chain of devices
    fatal,       \* rtems_bdbuf_fatal was called, or a node off any list was extracted
    hist,        \* history: latest version released, blocks whose data was given up, ...
    budget

vars == <<bd, tree, lru, modified, sync, group, dev, disk, task, owner, swap, worker,
          free_workers, syncing, ahead, fatal, hist, budget>>
lists == <<tree, lru, modified, sync>>
io == <<swap, worker, free_workers>>

Bds == 0 .. GroupCount * MaxBdsPerGroup - 1
Groups == 0 .. GroupCount - 1
GroupOf(b) == b \div MaxBdsPerGroup
FirstBd(g) == g * MaxBdsPerGroup

Access == {"ACCESS_CACHED", "ACCESS_EMPTY", "ACCESS_MODIFIED", "ACCESS_PURGED"}
Transferring == {"SYNC", "TRANSFER", "TRANSFER_PURGED"}
States == Access \cup Transferring \cup {"FREE", "EMPTY", "CACHED", "MODIFIED"}
NoTrigger == -1
AutoSize == 0   \* RTEMS_DISK_READ_AHEAD_SIZE_AUTO

\* The descriptors a group of n buffers consists of; the others are unused.
LiveIn(g, n) == {FirstBd(g) + i * (MaxBdsPerGroup \div n) : i \in 0 .. n - 1}
Live == UNION {LiveIn(g, group[g].bds_per_group) : g \in Groups}

\* Media blocks per block of device d, and its number of blocks.
Span(d) == MaxBdsPerGroup \div dev[d].bds_per_group
BlockCount(d) == MediaBlocks \div Span(d)
\* The media blocks a buffer covers.  A task that waited while the block size
\* was changed goes on with its old number, and may reach past the end.
Extent(m, n) == (m .. m + (MaxBdsPerGroup \div n) - 1) \cap (0 .. MediaBlocks - 1)
Covers(b) == Extent(bd[b].block, group[GroupOf(b)].bds_per_group)

InTree(d, m) == {b \in tree : bd[b].dd = d /\ bd[b].block = m}

----------------------------------------------------------------------------
(* Chains.  The prover cannot look into SelectSeq and SortSeq: these say by    *)
(* counting which element comes at which place.                                *)

\* The numbers of S by rising key, those of one key by themselves.
InOrder(S, key) ==
    [k \in 1 .. Cardinality(S) |-> CHOOSE x \in S :
        Cardinality({y \in S : key[y] < key[x] \/ (key[y] = key[x] /\ y <= x)}) = k]
Ascending(S) == InOrder(S, [x \in S |-> x])

\* What is left of chain s when the nodes outside S, or those of S, are extracted.
Places(s, S) == {i \in DOMAIN s : s[i] \in S}
Only(s, S) == [k \in 1 .. Cardinality(Places(s, S)) |-> s[Ascending(Places(s, S))[k]]]
Without(s, S) == Only(s, ToSet(s) \ S)
Sorted(s, key) == [k \in DOMAIN s |-> s[InOrder(DOMAIN s, key)[k]]]

----------------------------------------------------------------------------
(* Waiting. A task is counted as a waiter until it runs again, asleep or not. *)

BdWait == {"acc", "rec", "syn"}
\* bd->waiters and buffer_waiters.count, as seen by t which does not wait itself.
Waited(t, b) == \E u \in Tasks \ {t} : task[u].pc \in BdWait /\ task[u].bd = b
BufferWaiters(t) == \E u \in Tasks \ {t} : task[u].pc = "buf"

Woken(cvs, tk) ==
    [u \in Tasks |-> IF tk[u].cv \in cvs THEN [tk[u] EXCEPT !.cv = "none"] ELSE tk[u]]

\* Mutant: tasks that wait for any buffer are not woken.
WakeForBd(t, S, cv, tk) ==
    Woken(IF \E b \in S : Waited(t, b) THEN {cv} ELSE {}, tk)

\* What wakes up when buffers S come to rest: those who wait for one of them
\* (on cv), or those who wait for any buffer.
WakeFor(t, S, cv, tk) ==
    Woken((IF \E b \in S : Waited(t, b) THEN {cv} ELSE {})
          \cup (IF \E b \in S : ~Waited(t, b) THEN {"buffer"} ELSE {}), tk)

SetState(f, S, st) == [b \in Bds |-> IF b \in S THEN [f[b] EXCEPT !.state = st] ELSE f[b]]
Users(f, g, n) == [f EXCEPT ![g].users = @ + n]

\* Mutant: a discarded buffer is made free although a task waits for it.
DiscardFree(t, f, S) == SetState(f, S, "FREE")

\* discard_buffer for the buffers of a sequence, in its order: EMPTY and in the
\* tree for those who wait, else FREE at the head of the LRU list.
Unwaited(t, S) == {b \in S : ~Waited(t, b)}
Discard(t, f, S) == SetState(SetState(f, S, "EMPTY"), Unwaited(t, S), "FREE")
DiscardLru(t, s) == Reverse(Only(s, Unwaited(t, ToSet(s))))

Running(t) == ~fatal /\ owner \in {None, t}

----------------------------------------------------------------------------
(* Taking a buffer off the LRU list *)

\* Nobody waits for it, and it has the size of d's blocks or its group is idle.
Usable(t, d, b) ==
    /\ ~Waited(t, b)
    /\ \/ group[GroupOf(b)].bds_per_group = dev[d].bds_per_group
       \/ group[GroupOf(b)].users = 0

\* get_buffer_from_lru_list: the first usable buffer, after reallocating its
\* group if the size differs.  `ok' is false where removing from the tree fails.
FromLru(t, d) ==
    LET b0    == Only(lru, {b \in ToSet(lru) : Usable(t, d, b)})[1]
        g     == GroupOf(b0)
        n     == dev[d].bds_per_group
        same  == group[g].bds_per_group = n
        out   == IF same THEN {b0} ELSE LiveIn(g, group[g].bds_per_group)
        fresh == IF same THEN {} ELSE LiveIn(g, n) \ {FirstBd(g)}
    IN [b     |-> IF same THEN b0 ELSE FirstBd(g),
        fresh |-> fresh,
        lru   |-> InOrder(fresh, [x \in fresh |-> -x]) \o Without(lru, out),
        tree  |-> tree \ out,
        group |-> [group EXCEPT ![g].bds_per_group = n],
        ok    |-> \A x \in out : bd[x].state = "FREE" \/ (bd[x].state = "CACHED" /\ x \in tree)]

HasUsable(t, d) == \E b \in ToSet(lru) : Usable(t, d, b)

\* The buffer becomes the one of block m: setup_empty_buffer.
SetupEmpty(x, d, m, st) ==
    [SetState(bd, x.fresh, "FREE") EXCEPT
        ![x.b] = [@ EXCEPT !.dd = d, !.block = m, !.state = st]]

----------------------------------------------------------------------------
(* Read-ahead control *)

Cancelled(a, d) == [a EXCEPT !.chain = Without(@, {d})]
AddedToChain(a, d) ==
    [a EXCEPT !.chain = Append(@, d),
              !.sem = IF a.chain = <<>> /\ @ < SemMax THEN @ + 1 ELSE @]

\* check_read_ahead_trigger, on read-ahead control a and device record v
CheckTrigger(a, v, d, k) ==
    IF v.trigger = k /\ d \notin ToSet(a.chain) THEN AddedToChain(a, d) ELSE a
CheckSize(a, v, d, k) ==
    IF v.trigger = k /\ d \notin ToSet(a.chain) THEN [v EXCEPT !.nr_blocks = AutoSize] ELSE v

\* set_read_ahead_trigger
SetTrigger(v, k) ==
    IF v.trigger # k THEN [v EXCEPT !.trigger = k + 1, !.next = k + 2] ELSE v
SetTriggerChain(a, d, k) == IF dev[d].trigger # k THEN Cancelled(a, d) ELSE a

----------------------------------------------------------------------------
Init ==
    /\ bd = [b \in Bds |-> [state |-> "FREE", dd |-> NoDev, block |-> 0, hold |-> 0,
                            val |-> [i \in 0 .. MaxBdsPerGroup - 1 |-> 0]]]
    /\ tree = {} /\ modified = <<>> /\ sync = <<>>
    /\ lru = Ascending(Bds)
    /\ group = [g \in Groups |-> [bds_per_group |-> MaxBdsPerGroup, users |-> 0]]
    /\ dev = [d \in Devs |-> [bds_per_group |-> MaxBdsPerGroup, trigger |-> NoTrigger,
                              next |-> 0, nr_blocks |-> AutoSize]]
    /\ disk = [d \in Devs |-> [m \in 0 .. MediaBlocks - 1 |-> 0]]
    /\ task = [t \in Tasks |-> [pc |-> "idle", op |-> "none", dd |-> NoDev, block |-> 0, media |-> 0,
                                bd |-> -1, cv |-> "none"]]
    /\ owner = None
    /\ swap = [pc |-> "run", update |-> TRUE, bds |-> <<>>]
    /\ worker = [w \in Workers |-> [pc |-> "idle", bds |-> <<>>]]
    /\ free_workers = SetToSeq(Workers)
    /\ syncing = [active |-> FALSE, device |-> NoDev, requester |-> None, lock |-> None]
    /\ ahead = [pc |-> "wait", sem |-> 0, chain |-> <<>>, dd |-> NoDev, count |-> 0, req |-> <<>>]
    /\ fatal = FALSE
    /\ hist = [latest |-> disk, lost |-> {}, version |-> 0, orphan |-> FALSE, resized |-> FALSE,
               pending |-> {}, stale |-> {}]
    /\ budget \in Budgets

Spend(what) == budget[what] > 0 /\ budget' = [budget EXCEPT ![what] = @ - 1]

\* rtems_bdbuf_fatal: the assertion ends the program.
Fatal == fatal' = TRUE /\ UNCHANGED <<bd, lists, group, dev, task, owner, ahead, hist>>

----------------------------------------------------------------------------
(* rtems_bdbuf_get and rtems_bdbuf_read *)

AccessOf == [CACHED |-> "ACCESS_CACHED", EMPTY |-> "ACCESS_EMPTY", MODIFIED |-> "ACCESS_MODIFIED"]

At(c, pc, b, cv) == [c EXCEPT !.pc = pc, !.bd = b, !.cv = cv]

\* Mutant: a waiting task is not counted as a user of the group.
SleepUncounted(t, c, pc, b, cv, g) ==
    /\ task' = [task EXCEPT ![t] = At(c, pc, b, cv)]
    /\ group' = g /\ owner' = None
    /\ UNCHANGED <<dev, ahead, hist>>

\* rtems_bdbuf_wait: c is the caller's record, g the groups when it goes to sleep.
Sleep(t, c, pc, b, cv, g) ==
    /\ task' = [task EXCEPT ![t] = At(c, pc, b, cv)]
    /\ group' = Users(g, GroupOf(b), 1)
    /\ owner' = None
    /\ UNCHANGED <<dev, ahead, hist>>

\* The end of get and read: the buffer goes to the caller, or a read transfer
\* of one block begins.  f and g are bd and group, cvs what was woken on the way.
Grant(t, c, b, f, g, cvs) ==
    LET st == f[b].state  d == c.dd
        miss == c.op = "read" /\ st = "EMPTY"
        v == IF miss THEN SetTrigger(dev[d], c.block) ELSE dev[d]
        a == IF miss THEN SetTriggerChain(ahead, d, c.block) ELSE ahead
    IN /\ bd' = [f EXCEPT ![b].state = IF miss THEN "TRANSFER" ELSE AccessOf[st]]
       /\ group' = Users(g, GroupOf(b), 1)
       /\ task' = Woken(cvs, [task EXCEPT ![t] =
                                At(c, IF miss THEN "reading" ELSE "holding", b, "none")])
       /\ IF c.op = "read" /\ ~miss
          THEN /\ dev' = [dev EXCEPT ![d] = CheckSize(a, v, d, c.block)]
               /\ ahead' = CheckTrigger(a, v, d, c.block)
          ELSE dev' = [dev EXCEPT ![d] = v] /\ ahead' = a
       /\ hist' = [hist EXCEPT !.pending = {p \in @ :
                       ~(p.dd = f[b].dd /\ p.m \in Extent(f[b].block, g[GroupOf(b)].bds_per_group))}]
       /\ owner' = None

\* One round of wait_for_access on buffer b, and the end of the call.
WaitForAccess(t, c, b, g) ==
    \/ /\ bd[b].state \in {"MODIFIED", "CACHED", "EMPTY"}
       /\ modified' = Without(modified, {b}) /\ lru' = Without(lru, {b})
       /\ Grant(t, c, b, bd, IF bd[b].state = "MODIFIED" THEN Users(g, GroupOf(b), -1) ELSE g, {})
       /\ UNCHANGED <<tree, sync, fatal>>
    \/ /\ bd[b].state \in Access
       /\ Sleep(t, c, "acc", b, "access", g)
       /\ UNCHANGED <<bd, lists, fatal>>
    \/ /\ bd[b].state \in Transferring
       /\ Sleep(t, c, "acc", b, "transfer", g)
       /\ UNCHANGED <<bd, lists, fatal>>
    \/ bd[b].state = "FREE" /\ Fatal

\* anonymous_wait on buffer_waiters
SleepForBuffer(t, c, g) ==
    /\ task' = [task EXCEPT ![t] = At(c, "buf", -1, "buffer")]
    /\ group' = g /\ owner' = None
    /\ hist' = [hist EXCEPT !.stale = @ \ {t}]
    /\ UNCHANGED <<bd, lists, dev, ahead, fatal>>

\* One round of wait_for_recycle: b has the wrong size for its device.  A
\* MODIFIED buffer is sent to the sync list first, and waited for.
WaitForRecycle(t, c, b, g) ==
    \/ /\ bd[b].state \in {"CACHED", "EMPTY"} /\ Waited(t, b)
       /\ SleepForBuffer(t, c, g)
    \/ /\ bd[b].state = "FREE" \/ (bd[b].state = "CACHED" /\ ~Waited(t, b) /\ b \in tree)
       /\ bd' = SetState(bd, {b}, "FREE") /\ tree' = IF bd[b].state = "FREE" THEN tree ELSE tree \ {b}
       /\ lru' = <<b>> \o Without(lru, {b})
       /\ task' = Woken({"buffer"}, [task EXCEPT ![t] = At(c, "search", -1, "none")])
       /\ group' = g /\ owner' = t
       /\ UNCHANGED <<modified, sync, dev, ahead, hist, fatal>>
    \/ /\ bd[b].state = "EMPTY" \/ (bd[b].state = "CACHED" /\ b \notin tree)
       /\ ~Waited(t, b) /\ Fatal
    \/ /\ bd[b].state \in Access
       /\ Sleep(t, c, "rec", b, "access", g)
       /\ UNCHANGED <<bd, lists, fatal>>
    \/ /\ bd[b].state \in Transferring
       /\ Sleep(t, c, "rec", b, "transfer", g)
       /\ UNCHANGED <<bd, lists, fatal>>
    \/ /\ bd[b].state = "MODIFIED"
       /\ bd' = SetState(bd, {b}, "SYNC")
       /\ modified' = Without(modified, {b}) /\ sync' = Append(sync, b)
       /\ Sleep(t, c, "rec", b, "transfer", g)
       /\ UNCHANGED <<tree, lru, fatal>>

\* One round of the loop of get_buffer_for_access.
GetBufferForAccess(t, c) ==
    LET d == c.dd  m == c.media IN
    \/ \E b \in InTree(d, m) :
         IF group[GroupOf(b)].bds_per_group = dev[d].bds_per_group
         THEN WaitForAccess(t, c, b, group)
         ELSE WaitForRecycle(t, c, b, group)
    \/ /\ InTree(d, m) = {} /\ HasUsable(t, d)
       /\ LET x == FromLru(t, d) IN
            IF x.ok
            THEN /\ lru' = x.lru /\ tree' = x.tree \cup {x.b}
                 /\ Grant(t, c, x.b, SetupEmpty(x, d, m, "EMPTY"), x.group,
                          IF x.fresh # {} THEN {"buffer"} ELSE {})
                 /\ UNCHANGED <<modified, sync, fatal>>
            ELSE Fatal
    \/ /\ InTree(d, m) = {} /\ ~HasUsable(t, d)
       /\ SleepForBuffer(t, c, group)

\* rtems_bdbuf_get (whole-block writes) and rtems_bdbuf_read of block k
Get(t, op, d, k) ==
    /\ Running(t) /\ task[t].pc = "idle" /\ k < BlockCount(d) /\ Spend("calls")
    /\ GetBufferForAccess(t, [task[t] EXCEPT !.op = op, !.dd = d, !.block = k,
                                             !.media = k * Span(d)])
    /\ UNCHANGED <<disk, io, syncing>>

\* The task runs again after waiting for any buffer, or goes on searching.
SearchAgain(t) ==
    /\ Running(t) /\ task[t].pc \in {"buf", "search"} /\ task[t].cv = "none"
    /\ GetBufferForAccess(t, task[t])
    /\ UNCHANGED <<disk, io, syncing, budget>>

AfterWait(t) == Users(group, GroupOf(task[t].bd), -1)

AccessAgain(t) ==
    /\ Running(t) /\ task[t].pc = "acc" /\ task[t].cv = "none"
    /\ WaitForAccess(t, task[t], task[t].bd, AfterWait(t))
    /\ UNCHANGED <<disk, io, syncing, budget>>

RecycleAgain(t) ==
    /\ Running(t) /\ task[t].pc = "rec" /\ task[t].cv = "none"
    /\ WaitForRecycle(t, task[t], task[t].bd, AfterWait(t))
    /\ UNCHANGED <<disk, io, syncing, budget>>

----------------------------------------------------------------------------
(* Transfers *)

\* execute_transfer_request, its end: the buffers of request s become CACHED,
\* or are discarded if the transfer failed or they were purged meanwhile.
Kept(f, s, ok) == Only(s, {b \in ToSet(s) : ok /\ f[b].state = "TRANSFER"})
Dropped(f, s, ok) == Only(s, {b \in ToSet(s) : ~(ok /\ f[b].state = "TRANSFER")})

TransferDone(t, f, s, ok, tk) ==
    LET drop == ToSet(Dropped(f, s, ok)) IN
    /\ bd' = SetState(Discard(t, f, drop), ToSet(Kept(f, s, ok)), "CACHED")
    /\ tree' = tree \ Unwaited(t, drop)
    /\ lru' = DiscardLru(t, Dropped(f, s, ok)) \o lru \o Kept(f, s, ok)
    /\ group' = [g \in Groups |-> [group[g] EXCEPT
                    !.users = @ - Cardinality({b \in ToSet(s) : GroupOf(b) = g})]]
    /\ task' = WakeFor(t, ToSet(s), "transfer", tk)
    /\ UNCHANGED <<modified, sync>>

\* Mutant: the request ends before the driver has filled in the buffers.
LoadedLate(f, S) == f

\* The media contents go into the buffers of a request.
Loaded(f, S) ==
    [b \in Bds |-> IF b \in S
        THEN [f[b] EXCEPT !.val = [i \in DOMAIN @ |->
                  IF bd[b].block + i \in Covers(b) THEN disk[bd[b].dd][bd[b].block + i] ELSE @[i]]]
        ELSE f[b]]

\* The end of a read that missed.
ReadDone(t) ==
    LET c == task[t]  b == c.bd  d == c.dd
        fail == At(c, "idle", -1, "none") IN
    /\ Running(t) /\ c.pc = "reading"
    /\ \/ /\ bd[b].state = "TRANSFER"
          /\ bd' = SetState(Loaded(bd, {b}), {b}, "ACCESS_CACHED")
          /\ task' = WakeFor(t, {b}, "transfer", [task EXCEPT ![t].pc = "holding"])
          /\ UNCHANGED <<lists, group, hist, fatal, budget>>
       \* Purged while it was read: discarded, and given to the caller all the same.
       \/ /\ bd[b].state = "TRANSFER_PURGED"
          /\ fatal' = Waited(t, b)
          /\ bd' = SetState(Loaded(bd, {b}), {b}, "ACCESS_CACHED")
          /\ tree' = tree \ Unwaited(t, {b})
          /\ task' = WakeFor(t, {b}, "transfer", [task EXCEPT ![t].pc = "holding"])
          /\ hist' = [hist EXCEPT !.orphan = TRUE]
          /\ UNCHANGED <<lru, modified, sync, group, budget>>
       \/ /\ Spend("faults")
          /\ TransferDone(t, bd, <<b>>, FALSE, [task EXCEPT ![t] = fail])
          /\ UNCHANGED <<hist, fatal>>
    /\ dev' = [dev EXCEPT ![d] = CheckSize(ahead, @, d, c.block)]
    /\ ahead' = CheckTrigger(ahead, dev[d], d, c.block)
    /\ owner' = None
    /\ UNCHANGED <<disk, io, syncing>>

----------------------------------------------------------------------------
(* Giving a buffer back *)

Idle(c) == [c EXCEPT !.pc = "idle", !.op = "none", !.dd = NoDev, !.block = 0, !.media = 0,
                     !.bd = -1, !.cv = "none"]
\* At the call of release, release_modified or sync
Holding(t) == Running(t) /\ task[t].pc = "holding"

\* add_to_lru_list_after_access
ToLru(t, b) ==
    /\ bd' = SetState(bd, {b}, "CACHED") /\ lru' = Append(lru, b)
    /\ group' = Users(group, GroupOf(b), -1)
    /\ task' = WakeFor(t, {b}, "access", [task EXCEPT ![t] = Idle(@)])
    /\ UNCHANGED <<tree, modified, sync>>

\* discard_buffer_after_access
DiscardAfterAccess(t, b) ==
    /\ bd' = Discard(t, bd, {b})
    /\ tree' = tree \ Unwaited(t, {b}) /\ lru' = DiscardLru(t, <<b>>) \o lru
    /\ group' = Users(group, GroupOf(b), -1)
    /\ task' = WakeFor(t, {b}, "access", [task EXCEPT ![t] = Idle(@)])
    /\ UNCHANGED <<modified, sync>>

\* add_to_modified_list_after_access, behind the sync lock; f holds the contents.
ToModified(t, b, f) ==
    /\ bd' = [f EXCEPT ![b].state = "MODIFIED",
                       ![b].hold = IF bd[b].state \in {"ACCESS_CACHED", "ACCESS_EMPTY"}
                                   THEN BlockHold ELSE @]
    /\ modified' = Append(modified, b)
    /\ task' = Woken(IF Waited(t, b) THEN {"access"} ELSE {}, [task EXCEPT ![t] = Idle(@)])
    /\ UNCHANGED <<tree, lru, sync, group>>

\* A device that is being synchronised: the cache lock is given up and the
\* sync lock awaited.
AddToModified(t, b, f) ==
    IF syncing.active /\ syncing.device = bd[b].dd
    THEN /\ task' = [task EXCEPT ![t].pc = "wantsync"]
         /\ bd' = f
         /\ UNCHANGED <<lists, group>>
    ELSE ToModified(t, b, f)

\* The caller has written the whole block: a new version of it.
Written(b) == [bd EXCEPT ![b].val = [i \in DOMAIN @ |-> hist.version + 1]]
Latest(b) ==
    [hist EXCEPT !.version = @ + 1,
                 !.latest[bd[b].dd] = [m \in DOMAIN @ |-> IF m \in Covers(b) THEN hist.version + 1
                                                                             ELSE @[m]],
                 !.lost = @ \ {<<bd[b].dd, m>> : m \in Covers(b)}]

\* rtems_bdbuf_release
Release(t) ==
    LET b == task[t].bd  st == bd[b].state IN
    /\ Holding(t)
    /\ \/ st = "ACCESS_CACHED" /\ ToLru(t, b)
       \/ st \in {"ACCESS_EMPTY", "ACCESS_PURGED"} /\ DiscardAfterAccess(t, b)
       \/ st = "ACCESS_MODIFIED" /\ AddToModified(t, b, bd)
    /\ UNCHANGED <<dev, disk, owner, io, syncing, ahead, fatal, hist, budget>>

ReleaseModified(t) ==
    LET b == task[t].bd IN
    /\ Holding(t) /\ Spend("writes")
    /\ IF bd[b].state = "ACCESS_PURGED"
       THEN DiscardAfterAccess(t, b) /\ hist' = hist
       ELSE AddToModified(t, b, Written(b)) /\ hist' = Latest(b)
    /\ UNCHANGED <<dev, disk, owner, io, syncing, ahead, fatal>>

\* The sync lock is taken and given back at once ...
PassSyncLock(t) ==
    /\ ~fatal /\ task[t].pc = "wantsync" /\ syncing.lock = None
    /\ task' = [task EXCEPT ![t].pc = "addmod"]
    /\ UNCHANGED <<bd, lists, group, dev, disk, owner, io, syncing, ahead, fatal, hist, budget>>

\* ... and with the cache lock the buffer is put on the list, whatever its
\* state has become.
AddModified(t) ==
    /\ Running(t) /\ task[t].pc = "addmod"
    /\ ToModified(t, task[t].bd, bd)
    /\ UNCHANGED <<dev, disk, owner, io, syncing, ahead, fatal, hist, budget>>

\* rtems_bdbuf_sync: on the sync list, and wait for the transfer.
Sync(t) ==
    LET b == task[t].bd IN
    /\ Holding(t) /\ Spend("writes")
    /\ IF bd[b].state = "ACCESS_PURGED"
       THEN DiscardAfterAccess(t, b) /\ hist' = hist
       ELSE /\ bd' = SetState(Written(b), {b}, "SYNC") /\ sync' = Append(sync, b)
            /\ group' = Users(group, GroupOf(b), 1)
            /\ task' = Woken(IF Waited(t, b) THEN {"access"} ELSE {},
                             [task EXCEPT ![t] = At(@, "syn", b, "transfer")])
            /\ hist' = Latest(b)
            /\ UNCHANGED <<tree, lru, modified>>
    /\ UNCHANGED <<dev, disk, owner, io, syncing, ahead, fatal>>

\* wait_for_sync_done, and the end of sync_after_access.
SyncAgain(t) ==
    LET b == task[t].bd  st == bd[b].state  g == AfterWait(t) IN
    /\ Running(t) /\ task[t].pc = "syn" /\ task[t].cv = "none"
    /\ \/ /\ st \in Transferring
          /\ Sleep(t, task[t], "syn", b, "transfer", g)
          /\ UNCHANGED <<bd, lists, fatal>>
       \/ /\ st \in States \ (Transferring \cup {"FREE"})
          /\ LET free == st = "EMPTY" /\ ~Waited(t, b)
                 rest == st \in {"EMPTY", "CACHED"} /\ ~Waited(t, b) IN
             /\ bd' = IF free THEN SetState(bd, {b}, "FREE") ELSE bd
             /\ tree' = IF free THEN tree \ {b} ELSE tree
             /\ lru' = IF free THEN <<b>> \o lru ELSE lru
             /\ task' = Woken(IF rest THEN {"buffer"} ELSE {}, [task EXCEPT ![t] = Idle(@)])
          /\ group' = g
          /\ UNCHANGED <<modified, sync, dev, owner, ahead, hist, fatal>>
       \/ st = "FREE" /\ Fatal
    /\ UNCHANGED <<disk, io, syncing, budget>>

----------------------------------------------------------------------------
(* Whole devices *)

Dirty(d) == {b \in tree : bd[b].dd = d /\ bd[b].state \in {"MODIFIED", "SYNC"}}

\* rtems_bdbuf_syncdev: the sync lock, then the cache lock. op "resize" is the
\* call at the beginning of set_block_size.
Syncdev(t, op, d) ==
    /\ Running(t) /\ task[t].pc = "idle" /\ syncing.lock = None
    /\ op = "resize" => Spend("resizes")
    /\ op = "syncdev" => Spend("syncs")
    /\ syncing' = [active |-> TRUE, device |-> d, requester |-> t, lock |-> t]
    /\ task' = [task EXCEPT ![t].pc = "syncwait", ![t].op = op, ![t].dd = d]
    /\ hist' = [hist EXCEPT !.pending =
                    UNION {{[dd |-> d, m |-> m, v |-> hist.latest[d][m]] : m \in Covers(b)}
                           : b \in Dirty(d)}]
    /\ UNCHANGED <<bd, lists, group, dev, disk, owner, io, ahead, fatal>>

\* The swap-out task has posted sync_requester: the sync lock is given back.
SyncdevReturn(t) ==
    /\ ~fatal /\ task[t].pc = "syncdone"
    /\ syncing' = [syncing EXCEPT !.lock = None]
    /\ task' = [task EXCEPT ![t] = IF @.op = "resize" THEN [@ EXCEPT !.pc = "resize"] ELSE Idle(@)]
    /\ hist' = [hist EXCEPT !.pending = {}]
    /\ UNCHANGED <<bd, lists, group, dev, disk, owner, io, ahead, fatal, budget>>

\* gather_for_purge and purge_list on device d; s is the order in which the
\* traversal of the tree finds the buffers.
PurgeDev(t, d, s, tk) ==
    LET mine == {b \in tree : bd[b].dd = d}
        in(S) == {b \in mine : bd[b].state \in S}
        inuse == in({"ACCESS_CACHED", "ACCESS_EMPTY", "ACCESS_MODIFIED"})
    IN /\ bd' = SetState(SetState(Discard(t, bd, ToSet(s)), inuse, "ACCESS_PURGED"),
                         in({"TRANSFER"}), "TRANSFER_PURGED")
       /\ tree' = tree \ Unwaited(t, ToSet(s))
       /\ lru' = DiscardLru(t, s) \o Without(lru, ToSet(s))
       /\ modified' = Without(modified, ToSet(s))
       /\ sync' = Without(sync, ToSet(s))
       /\ group' = [g \in Groups |-> [group[g] EXCEPT
                       !.users = @ - Cardinality({b \in in({"SYNC", "MODIFIED"}) : GroupOf(b) = g})]]
       /\ task' = Woken((IF in({"SYNC"}) # {} THEN {"transfer"} ELSE {})
                        \cup (IF Unwaited(t, ToSet(s)) # {} THEN {"buffer"} ELSE {}), tk)
       /\ ahead' = Cancelled(ahead, d)
       /\ owner' = None
       /\ UNCHANGED <<disk, io, syncing, fatal>>

PurgeOrders(d) ==
    SetToSeqs({b \in tree : bd[b].dd = d /\ bd[b].state \in {"SYNC", "MODIFIED", "CACHED"}})
GivenUp(d) == {<<d, m>> : m \in 0 .. MediaBlocks - 1}

\* rtems_bdbuf_purge_dev
Purge(t, d) ==
    /\ Running(t) /\ task[t].pc = "idle" /\ Spend("purges")
    /\ \E s \in PurgeOrders(d) : PurgeDev(t, d, s, task)
    /\ dev' = [dev EXCEPT ![d].trigger = NoTrigger]
    /\ hist' = [hist EXCEPT !.lost = @ \cup GivenUp(d)]

\* rtems_bdbuf_set_block_size, after its syncdev: n buffers to a group from now on.
SetBlockSize(t, n) ==
    LET d == task[t].dd IN
    /\ Running(t) /\ task[t].pc = "resize"
    /\ n \in 1 .. MaxBdsPerGroup /\ MaxBdsPerGroup % n = 0
    /\ \E s \in PurgeOrders(d) : PurgeDev(t, d, s, [task EXCEPT ![t] = Idle(@)])
    /\ dev' = [dev EXCEPT ![d].trigger = NoTrigger, ![d].bds_per_group = n]
    /\ hist' = [hist EXCEPT !.resized = TRUE,
                            !.stale = @ \cup {u \in Tasks : task[u].cv = "buffer" /\ task[u].dd = d}]
    /\ UNCHANGED budget

\* rtems_bdbuf_peek
Peek(t, d, k, n) ==
    /\ Running(t) /\ task[t].pc = "idle" /\ MaxReadAhead > 0 /\ n > 0 /\ Spend("peeks")
    /\ dev' = [dev EXCEPT ![d].trigger = NoTrigger, ![d].next = k, ![d].nr_blocks = n]
    /\ ahead' = AddedToChain(Cancelled(ahead, d), d)
    /\ UNCHANGED <<bd, lists, group, disk, task, owner, io, syncing, fatal, hist>>

----------------------------------------------------------------------------
(* The swap-out task and its workers *)

\* Mutant: the hold timers are obeyed although the device is synchronised.
ForcedByWaiters(d, active, b) == BufferWaiters(None)

\* One pass of swapout_modified_processing over a chain: the hold timers, the
\* device (that of the first buffer to be written, unless d is given) and the
\* buffers to be written.
Forced(d, active, b) == (active /\ d \in {NoDev, bd[b].dd}) \/ BufferWaiters(None)
HoldAfter(force, update, h) == IF force THEN 0 ELSE IF update /\ h > 0 THEN h - 1 ELSE h
Pick(chain, d, active, update) ==
    LET held  == [b \in ToSet(chain) |->
                    HoldAfter(Forced(d, active, b), update, bd[b].hold)]
        due   == Only(chain, {b \in ToSet(chain) : held[b] = 0})
        which == IF d # NoDev \/ due = <<>> THEN d ELSE bd[due[1]].dd
    IN [hold |-> held, dd |-> which, bds |-> {b \in ToSet(due) : bd[b].dd = which}]

\* swapout_processing: sync list first, then modified list; a worker takes the
\* transfer unless a device is being synchronised.
SwapoutProcessing ==
    LET p1 == Pick(sync, IF syncing.active THEN syncing.device ELSE NoDev, TRUE, FALSE)
        p2 == Pick(modified, p1.dd, syncing.active, swap.update)
        take == p1.bds \cup p2.bds
        arrived == Reverse(Only(sync \o modified, take))
        order == Sorted(arrived, [i \in DOMAIN arrived |-> bd[arrived[i]].block])
        w == IF syncing.active \/ free_workers = <<>> THEN None ELSE Head(free_workers)
        aged == [b \in Bds |-> IF b \in DOMAIN p1.hold THEN [bd[b] EXCEPT !.hold = p1.hold[b]]
                               ELSE IF b \in DOMAIN p2.hold THEN [bd[b] EXCEPT !.hold = p2.hold[b]]
                               ELSE bd[b]]
    IN /\ Running("swapout") /\ swap.pc = "run"
       /\ bd' = SetState(aged, take, "TRANSFER")
       /\ sync' = Without(sync, take)
       /\ modified' = Without(modified, take)
       /\ free_workers' = IF w = None THEN free_workers ELSE Tail(free_workers)
       /\ worker' = IF w # None /\ take # {}
                    THEN [worker EXCEPT ![w] = [pc |-> "write", bds |-> order]] ELSE worker
       /\ swap' = IF take = {} THEN [swap EXCEPT !.pc = IF syncing.active THEN "endsync" ELSE "wait"]
                  ELSE IF w # None THEN [swap EXCEPT !.update = FALSE]
                  ELSE [pc |-> "write", update |-> FALSE, bds |-> order]
       /\ UNCHANGED <<tree, lru, group, dev, disk, task, owner, syncing, ahead, fatal, hist, budget>>

\* Nothing left to write for the device: the requester of the sync goes on.
EndSync ==
    /\ Running("swapout") /\ swap.pc = "endsync"
    /\ swap' = [swap EXCEPT !.pc = "wait"]
    /\ syncing' = [syncing EXCEPT !.active = FALSE, !.requester = None]
    /\ task' = [t \in Tasks |-> IF t = syncing.requester THEN [task[t] EXCEPT !.pc = "syncdone"]
                                                         ELSE task[t]]
    /\ UNCHANGED <<bd, lists, group, dev, disk, owner, worker, free_workers, ahead, fatal, hist, budget>>

\* swapout_sync was posted, or the period is over; or the deadline is no valid
\* time (the clock's nanoseconds and those of the period are a second or more
\* together, and are not carried over): sem_timedwait fails, and that is fatal.
SwapoutWake ==
    /\ ~fatal /\ swap.pc = "wait"
    /\ \/ swap' = [swap EXCEPT !.pc = "run", !.update = TRUE] /\ fatal' = fatal
       \/ swap' = [swap EXCEPT !.pc = "einval"] /\ fatal' = TRUE
    /\ UNCHANGED <<bd, lists, group, dev, disk, task, owner, worker, free_workers, syncing, ahead,
                   hist, budget>>

\* Mutant: the last buffer of a request is in the next one again.
RestOverlaps(s) == SubSeq(s, IF Len(s) < MaxWriteBlocks THEN Len(s) ELSE MaxWriteBlocks, Len(s))

\* The buffers of the next request of swapout_write.
Request(s) == SubSeq(s, 1, IF Len(s) < MaxWriteBlocks THEN Len(s) ELSE MaxWriteBlocks)
Rest(s) == SubSeq(s, Len(Request(s)) + 1, Len(s))
Stored(S) == [d \in Devs |-> [m \in DOMAIN disk[d] |->
                IF \E b \in S : bd[b].dd = d /\ m \in Covers(b)
                THEN LET b == CHOOSE x \in S : bd[x].dd = d /\ m \in Covers(x)
                     IN bd[b].val[m - bd[b].block]
                ELSE disk[d][m]]]

\* One request of swapout_write and its end; a failing one may have written
\* some of its buffers.
WriteRequest(s) ==
    \/ /\ TransferDone(None, bd, Request(s), TRUE, task)
       /\ disk' = Stored(ToSet(Request(s)))
       /\ UNCHANGED <<hist, budget>>
    \/ /\ Spend("faults")
       /\ TransferDone(None, bd, Request(s), FALSE, task)
       /\ \E done \in SUBSET ToSet(Request(s)) : disk' = Stored(done)
       /\ hist' = [hist EXCEPT !.lost = @ \cup
                    UNION {{<<bd[b].dd, m>> : m \in Covers(b)} : b \in ToSet(Request(s))}]

SwapoutWrite ==
    /\ Running("swapout") /\ swap.pc = "write"
    /\ WriteRequest(swap.bds)
    /\ swap' = [swap EXCEPT !.bds = Rest(@), !.pc = IF Rest(swap.bds) = <<>> THEN "run" ELSE @]
    /\ UNCHANGED <<dev, owner, worker, free_workers, syncing, ahead, fatal>>

WorkerWrite(w) ==
    /\ Running(w) /\ worker[w].pc = "write"
    /\ WriteRequest(worker[w].bds)
    /\ worker' = [worker EXCEPT ![w].bds = Rest(@), ![w].pc = IF Rest(worker[w].bds) = <<>> THEN "back" ELSE @]
    /\ UNCHANGED <<dev, owner, swap, free_workers, syncing, ahead, fatal>>

WorkerBack(w) ==
    /\ Running(w) /\ worker[w].pc = "back"
    /\ worker' = [worker EXCEPT ![w].pc = "idle"]
    /\ free_workers' = Append(free_workers, w)
    /\ UNCHANGED <<bd, lists, group, dev, disk, task, owner, swap, syncing, ahead, fatal, hist, budget>>

----------------------------------------------------------------------------
(* The read-ahead task *)

ReadAheadWake ==
    /\ Running("ahead") /\ ahead.pc = "wait" /\ ahead.sem > 0
    /\ ahead' = [ahead EXCEPT !.sem = @ - 1, !.pc = "run"]
    /\ owner' = "ahead"
    /\ UNCHANGED <<bd, lists, group, dev, disk, task, io, syncing, fatal, hist, budget>>

ReadAheadSleep ==
    /\ Running("ahead") /\ ahead.pc = "run" /\ ahead.chain = <<>>
    /\ ahead' = [ahead EXCEPT !.pc = "wait"]
    /\ owner' = None
    /\ UNCHANGED <<bd, lists, group, dev, disk, task, io, syncing, fatal, hist, budget>>

\* Mutant: a block that is in the cache is read ahead once more.
CanPrefetchAgain(d, m) == HasUsable(None, d)

\* get_buffer_for_read_ahead succeeds: a buffer for media block m of device d,
\* which is then part of the request.
Prefetch(d, m, rest) ==
    LET x == FromLru(None, d) IN
    IF x.ok
    THEN /\ lru' = x.lru /\ tree' = x.tree \cup {x.b}
         /\ bd' = SetupEmpty(x, d, m, "TRANSFER")
         /\ group' = Users(x.group, GroupOf(x.b), 1)
         /\ task' = Woken(IF x.fresh # {} THEN {"buffer"} ELSE {}, task)
         /\ ahead' = [rest EXCEPT !.req = Append(@, x.b)]
         /\ UNCHANGED <<modified, sync, fatal>>
    ELSE Fatal

CanPrefetch(d, m) == InTree(d, m) = {} /\ HasUsable(None, d)

\* The next device of the chain: how much to read, and the next trigger.
ReadAheadNext ==
    LET d == Head(ahead.chain)  v == dev[d]  k == v.next
        end == BlockCount(d) - k
        auto == v.nr_blocks = AutoSize
        count == CHOOSE n \in {IF auto THEN end ELSE v.nr_blocks, end, MaxReadAhead} :
                    n <= end /\ n <= MaxReadAhead /\ (auto \/ n <= v.nr_blocks)
        off == [ahead EXCEPT !.chain = Tail(@)]
    IN /\ Running("ahead") /\ ahead.pc = "run" /\ ahead.chain # <<>>
       /\ owner' = "ahead"
       /\ \/ /\ end <= 0
             /\ dev' = [dev EXCEPT ![d].trigger = NoTrigger]
             /\ ahead' = off
             /\ UNCHANGED <<bd, lists, group, task, fatal>>
          \/ /\ end > 0 /\ ~CanPrefetch(d, k * Span(d))
             /\ ahead' = off
             /\ UNCHANGED <<bd, lists, group, task, dev, fatal>>
          \/ /\ end > 0 /\ CanPrefetch(d, k * Span(d))
             /\ Prefetch(d, k * Span(d), [off EXCEPT !.pc = "gather", !.dd = d, !.count = count])
             /\ dev' = IF ~auto \/ fatal' THEN dev
                       ELSE IF end >= MaxReadAhead
                       THEN [dev EXCEPT ![d].trigger = k + MaxReadAhead \div 2,
                                        ![d].next = k + MaxReadAhead]
                       ELSE [dev EXCEPT ![d].trigger = NoTrigger]
       /\ UNCHANGED <<disk, io, syncing, hist, budget>>

\* execute_read_request: further consecutive blocks, as long as there are buffers.
ReadAheadGather ==
    LET d == ahead.dd
        m == bd[ahead.req[Len(ahead.req)]].block + Span(d)
        more == Len(ahead.req) < ahead.count /\ CanPrefetch(d, m)
    IN /\ Running("ahead") /\ ahead.pc = "gather"
       /\ \/ more /\ owner' = "ahead" /\ Prefetch(d, m, ahead)
          \/ /\ ~more /\ owner' = None
             /\ ahead' = [ahead EXCEPT !.pc = "reading"]
             /\ UNCHANGED <<bd, lists, group, task, fatal>>
       /\ UNCHANGED <<dev, disk, io, syncing, hist, budget>>

ReadAheadDone ==
    /\ Running("ahead") /\ ahead.pc = "reading"
    /\ \/ TransferDone(None, Loaded(bd, ToSet(ahead.req)), ahead.req, TRUE, task) /\ UNCHANGED budget
       \/ TransferDone(None, bd, ahead.req, FALSE, task) /\ Spend("faults")
    /\ ahead' = [ahead EXCEPT !.pc = "run", !.req = <<>>, !.dd = NoDev, !.count = 0]
    /\ owner' = "ahead"
    /\ UNCHANGED <<dev, disk, io, syncing, fatal, hist>>

----------------------------------------------------------------------------
Next ==
    \/ \E t \in Tasks :
         \/ \E op \in {"get", "read"}, d \in Devs, k \in 0 .. MediaBlocks - 1 : Get(t, op, d, k)
         \/ SearchAgain(t) \/ AccessAgain(t) \/ RecycleAgain(t) \/ ReadDone(t)
         \/ Release(t) \/ ReleaseModified(t) \/ PassSyncLock(t) \/ AddModified(t)
         \/ Sync(t) \/ SyncAgain(t)
         \/ \E op \in {"syncdev", "resize"}, d \in Devs : Syncdev(t, op, d)
         \/ SyncdevReturn(t)
         \/ \E d \in Devs : Purge(t, d)
         \/ \E n \in 1 .. MaxBdsPerGroup : SetBlockSize(t, n)
         \/ \E d \in Devs, k \in 0 .. MediaBlocks - 1, n \in 1 .. MaxReadAhead : Peek(t, d, k, n)
    \/ SwapoutProcessing \/ EndSync \/ SwapoutWake \/ SwapoutWrite
    \/ \E w \in Workers : WorkerWrite(w) \/ WorkerBack(w)
    \/ ReadAheadWake \/ ReadAheadSleep \/ ReadAheadNext \/ ReadAheadGather \/ ReadAheadDone

Spec == Init /\ [][Next]_vars

----------------------------------------------------------------------------
(* Properties *)

\* A purge that hits a read in progress leaves the caller with a buffer outside
\* the tree (bdbuf.c:2162); what follows is stated for the time before.
Sound == ~hist.orphan

\* The table of bdbuf.h:172-231: whatever way a buffer took, its state tells
\* exactly which list it is on and whether the tree finds it, no buffer is
\* linked twice, and no block has two buffers.
StateTable ==
    Sound =>
    /\ \A b \in Live :
         /\ (bd[b].state \in {"FREE", "CACHED"}) <=> (b \in ToSet(lru))
         /\ (bd[b].state = "MODIFIED") <=> (b \in ToSet(modified))
         /\ (bd[b].state = "SYNC") <=> (b \in ToSet(sync))
         /\ (bd[b].state # "FREE") <=> (b \in tree)
    /\ \A s \in {lru, modified, sync} : IsInjective(s) /\ ToSet(s) \subseteq Live
    /\ tree \subseteq Live
    /\ \A a, b \in tree : (bd[a].dd = bd[b].dd /\ bd[a].block = bd[b].block) => a = b

\* Who has a buffer out of the cache: a task that reads it, holds it or is
\* about to put it on the modified list, a writer, the read-ahead task.
Holders(b) ==
    {t \in Tasks : task[t].bd = b /\ task[t].pc \in {"holding", "wantsync", "addmod", "reading"}}
    \cup {w \in Workers : b \in ToSet(worker[w].bds)}
    \cup (IF b \in ToSet(swap.bds) THEN {"swapout"} ELSE {})
    \cup (IF b \in ToSet(ahead.req) THEN {"ahead"} ELSE {})

\* The external-user column of the table: a buffer in an access or transfer
\* state has exactly one user, any other has none, so that no two tasks, and no
\* task and the driver, ever work on one buffer.
OneHolder ==
    \A b \in Live : Cardinality(Holders(b)) =
        IF bd[b].state \in Access \cup {"TRANSFER", "TRANSFER_PURGED"} THEN 1 ELSE 0

\* The users of a group are its buffers in use and the tasks that wait for one
\* of them: only then may a group without users be cut up (group_realloc).
GroupUsers ==
    \A g \in Groups : group[g].users =
        Cardinality({b \in LiveIn(g, group[g].bds_per_group) :
                        bd[b].state \in Access \cup Transferring \cup {"MODIFIED"}})
        + Cardinality({t \in Tasks : task[t].pc \in BdWait /\ GroupOf(task[t].bd) = g})

\* No task sleeps through its wake-up: one that is asleep for a buffer sleeps on
\* the condition variable its state will signal, and one that waits for any
\* buffer sleeps only while the LRU list has none it could take, unless
\* set_block_size changed what it could take: that wakes nobody (bdbuf.c:3028).
NoLostWakeup ==
    \A t \in Tasks :
        /\ task[t].cv = "access" => bd[task[t].bd].state \in Access
        /\ task[t].cv = "transfer" => bd[task[t].bd].state \in Transferring
        /\ (task[t].cv = "buffer" /\ InTree(task[t].dd, task[t].media) = {} /\ t \notin hist.stale)
            => ~HasUsable(t, task[t].dd)

\* The driver is reading into it: no contents yet.
Reading(b) ==
    b \in ToSet(ahead.req) \/ \E t \in Tasks : task[t].bd = b /\ task[t].pc = "reading"
\* Filled in by its holder, who waits for the sync lock.
Filled(b) == \E t \in Tasks : task[t].bd = b /\ task[t].pc \in {"wantsync", "addmod"}
Valid(b) ==
    \/ bd[b].state \in {"CACHED", "ACCESS_CACHED", "MODIFIED", "ACCESS_MODIFIED", "SYNC"}
    \/ bd[b].state = "TRANSFER" /\ ~Reading(b)
    \/ bd[b].state = "ACCESS_EMPTY" /\ Filled(b)

\* The cache is transparent: a block holds the version that was last released
\* as modified or synced, in its buffer if it has one with contents, else on the
\* disk, unless a failed write or a purge gave it up; clean buffers equal the disk.
Coherent ==
    Sound /\ ~hist.resized =>
    \A d \in Devs, m \in 0 .. MediaBlocks - 1 :
        LET has == {b \in tree : bd[b].dd = d /\ m \in Covers(b) /\ Valid(b)}
            here(b) == bd[b].val[m - bd[b].block] IN
        /\ <<d, m>> \notin hist.lost =>
              IF has = {} THEN disk[d][m] = hist.latest[d][m]
                          ELSE \A b \in has : here(b) = hist.latest[d][m]
        /\ \A b \in has : bd[b].state = "CACHED" => here(b) = disk[d][m]

\* syncdev has every buffer that was modified when it was called on the disk
\* when it returns, unless the buffer was taken again by a task or given up.
SyncdevWrites ==
    Sound =>
    \A t \in Tasks : task[t].pc = "syncdone" =>
        \A p \in hist.pending :
            \/ disk[p.dd][p.m] >= p.v
            \/ <<p.dd, p.m>> \in hist.lost \/ hist.resized

\* Assertions and broken links have three causes only: a purge during a read, a
\* change of the block size, and the swap-out task's wait for an invalid time
\* (bdbuf.c:2848-2855).  No interleaving of users, workers and daemons is one.
NoFatal == fatal => (hist.orphan \/ hist.resized \/ swap.pc = "einval")

\* The transitions of the state diagram of bdbuf.h:76-127.
Diagram ==
    {<<"FREE", "EMPTY">>, <<"EMPTY", "ACCESS_EMPTY">>, <<"EMPTY", "TRANSFER">>,
     <<"EMPTY", "FREE">>, <<"CACHED", "ACCESS_CACHED">>, <<"CACHED", "EMPTY">>,
     <<"CACHED", "FREE">>, <<"TRANSFER", "CACHED">>, <<"TRANSFER", "EMPTY">>,
     <<"TRANSFER", "TRANSFER_PURGED">>, <<"TRANSFER_PURGED", "EMPTY">>,
     <<"MODIFIED", "TRANSFER">>, <<"MODIFIED", "SYNC">>, <<"MODIFIED", "ACCESS_MODIFIED">>,
     <<"MODIFIED", "EMPTY">>, <<"SYNC", "TRANSFER">>, <<"SYNC", "EMPTY">>,
     <<"ACCESS_CACHED", "MODIFIED">>, <<"ACCESS_CACHED", "SYNC">>, <<"ACCESS_CACHED", "CACHED">>,
     <<"ACCESS_CACHED", "ACCESS_PURGED">>, <<"ACCESS_MODIFIED", "MODIFIED">>,
     <<"ACCESS_MODIFIED", "SYNC">>, <<"ACCESS_MODIFIED", "ACCESS_PURGED">>,
     <<"ACCESS_EMPTY", "MODIFIED">>, <<"ACCESS_EMPTY", "SYNC">>, <<"ACCESS_EMPTY", "EMPTY">>,
     <<"ACCESS_EMPTY", "ACCESS_PURGED">>, <<"ACCESS_PURGED", "EMPTY">>}
\* Steps that take two transitions at once: a buffer that is discarded or recycled
\* passes through EMPTY, one that was read passes through CACHED.
ThroughEmpty == {p[1] : p \in {x \in Diagram : x[2] = "EMPTY"}}
                \X {p[2] : p \in {x \in Diagram : x[1] = "EMPTY"}}
Transitions == Diagram \cup ThroughEmpty \cup {<<"TRANSFER", "ACCESS_CACHED">>}

\* Every step takes every buffer along the diagram of bdbuf.h:76-127.  A purge
\* during a read is left aside: it hands the caller a buffer outside the tree.
\* release_modified does not keep this: it gives up the cache lock to wait for
\* the sync lock, and puts a buffer that was purged meanwhile on the modified
\* list (bdbuf.c:1040-1071), where bdbuf.h:124 has it discarded.
FollowsDiagram ==
    [][\A b \in Bds : bd'[b].state # bd[b].state /\ ~hist'.orphan =>
         <<bd[b].state, bd'[b].state>> \in Transitions]_vars

\* The step of release_modified that breaks the diagram.
ReleasedLate(b) ==
    /\ bd[b].state = "ACCESS_PURGED" /\ bd'[b].state = "MODIFIED"
    /\ \E t \in Tasks : task[t].bd = b /\ task[t].pc = "addmod"

\* The diagram holds of every other step: before a purge hits a read, a buffer
\* leaves it only where its holder was let past the sync lock and a purge came first.
OneDeviation ==
    [][\A b \in Bds : bd'[b].state # bd[b].state /\ ~hist'.orphan =>
         <<bd[b].state, bd'[b].state>> \in Transitions \/ ReleasedLate(b)]_vars

=============================================================================
