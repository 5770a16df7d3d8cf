------------------------------ MODULE RunQueue ------------------------------
(***************************************************************************)
(* The run-queue of basework (src/basework/rq.c, rq.h): a fixed pool of    *)
(* rq_nodes that moves between the free list and the pending list, client  *)
(* threads that submit work or reset the queue, and one service thread     *)
(* that executes it.  The port is POSIX (os/posix/os_base_impl.h): the     *)
(* critical section is one default pthread mutex, os_resched and os_wake_up*)
(* are sem_wait and sem_post.                                              *)
(*                                                                         *)
(* A step is one lock operation or one list operation.  list_del by the    *)
(* service thread takes two steps, the loads and the stores, because it    *)
(* can run without the mutex: after sem_wait the loop of _rq_schedule      *)
(* continues without locking again (rq.c:187-188), and its next unlock     *)
(* releases whatever the mutex protects at that moment.                    *)
(***************************************************************************)
EXTENDS Naturals, FiniteSets, SequencesExt

CONSTANTS
  nq,          \* number of rq_nodes of the queue
  Threads,     \* client threads
  Jobs,        \* work items; each is submitted at most once
  Copied,      \* those submitted with rq_submit_cp or rq_submit_urgent_cp
  Urgent,      \* those submitted with prepend set
  NoJob,       \* a node that was never filled
  MaxResets    \* bound on the calls of rq_reset

ASSUME NqAssumption == nq \in Nat \ {0}
ASSUME JobsAssumption ==
  NoJob \notin Jobs /\ Copied \subseteq Jobs /\ Urgent \subseteq Jobs
ASSUME MaxResetsAssumption == MaxResets \in Nat

VARIABLES
  frees,       \* rq->frees
  pending,     \* rq->pending
  exec,        \* the work a node carries: rn->exec and rn->arg
  proc,        \* the semaphore rq->proc
  mtx,         \* is the critical-section mutex locked
  pc,          \* where each client thread is
  op,          \* the job each client thread is submitting
  srn,         \* local rn of _rq_submit and _rq_submit_with_copy
  need_wakeup, \* local of rq_add_node_locked
  wpc,         \* where the service thread is
  rn,          \* local rn of _rq_schedule
  nextp,       \* rn->node.next as list_del loaded it
  fn,          \* local fn of _rq_schedule
  bufs,        \* jobs whose copy buffer (struct buffer_hdr) is allocated
  ret,         \* what the submission of a job returned
  runs,        \* how often a job has been executed
  dropped,     \* jobs that rq_reset moved to the free list
  resets,      \* calls of rq_reset so far
  cancelled,   \* has _rq_cancel_thread been called
  raced        \* history: two threads were in list code at the same time

lists == <<frees, pending, exec>>
clients == <<pc, op, srn, need_wakeup>>
worker == <<wpc, rn, nextp, fn>>
ledger == <<bufs, ret, runs, dropped>>
vars == <<lists, proc, mtx, clients, worker, ledger, resets, cancelled, raced>>

Nodes == 1..nq
Nil == 0        \* the list head, or no node
Work == Jobs \cup {NoJob}

ClientPc == {"idle", "lock", "get", "full", "fill", "relock", "test", "add",
             "splice", "unlock"}
WorkerPc == {"start", "get", "del", "empty", "wait", "unlock", "run",
             "relock", "put", "dead", "ub"}

-----------------------------------------------------------------------------
(* List primitives of container/list.h as rq.c uses them. *)

\* The node after the first one, or the head itself.
SecondOf(q) == IF Len(q) > 1 THEN q[2] ELSE Nil

\* What the list holds from node n on.
From(q, n) == LET i == CHOOSE k \in 1..Len(q) : q[k] = n
              IN  SubSeq(q, i, Len(q))

\* Mutant: the node is returned but stays linked.
ListDelFirstKeeps(q, nxt) == q

\* list_del of the first node: head->next becomes the loaded next pointer, so
\* what was linked in between is no longer reachable.
ListDelFirst(q, nxt) == IF nxt = Nil THEN <<>> ELSE From(q, nxt)

\* list_add for an urgent call, list_add_tail otherwise.
ListAdd(q, n, prepend) == IF prepend THEN <<n>> \o q ELSE Append(q, n)

-----------------------------------------------------------------------------
(* A thread is in list code between its lock and its unlock, or while the   *)
(* service thread is inside list_del.                                       *)
ClientInList(t) == pc[t] \in {"get", "test", "add", "splice"}
WorkerInList == wpc \in {"del", "put"}

\* No two threads are in list code at the same time.
Exclusive ==
  /\ \A t, u \in Threads : ClientInList(t) /\ ClientInList(u) => t = u
  /\ WorkerInList => \A t \in Threads : ~ClientInList(t)

\* History of a violated mutual exclusion; part of every step.
NoteRace == raced' = (raced \/ ~Exclusive')

-----------------------------------------------------------------------------
(* _rq_static_init, from rq_init in _rq_new_thread: all nodes are free.     *)
Init ==
  /\ frees = [i \in Nodes |-> i]
  /\ pending = <<>>
  /\ exec = [n \in Nodes |-> NoJob]
  /\ proc = 0
  /\ mtx = FALSE
  /\ pc = [t \in Threads |-> "idle"]
  /\ op = [t \in Threads |-> NoJob]
  /\ srn = [t \in Threads |-> Nil]
  /\ need_wakeup = [t \in Threads |-> FALSE]
  /\ wpc = "start"
  /\ rn = Nil /\ nextp = Nil /\ fn = NoJob
  /\ bufs = {}
  /\ ret = [j \in Jobs |-> "none"]
  /\ runs = [j \in Jobs |-> 0]
  /\ dropped = {}
  /\ resets = 0
  /\ cancelled = FALSE
  /\ raced = FALSE

Goto(t, where) == pc' = [pc EXCEPT ![t] = where]

-----------------------------------------------------------------------------
(* Client threads. *)

\* Entry of _rq_submit or _rq_submit_with_copy; the copying variant allocates
\* its buffer before it locks.
SubmitCall(t) ==
  /\ pc[t] = "idle"
  /\ \E j \in Jobs :
       /\ ret[j] = "none"
       /\ \A u \in Threads : op[u] # j
       /\ op' = [op EXCEPT ![t] = j]
       /\ bufs' = bufs \cup ({j} \cap Copied)
  /\ Goto(t, "lock")
  /\ UNCHANGED <<lists, proc, mtx, srn, need_wakeup, worker, ret, runs, dropped,
                 resets, cancelled>>
  /\ NoteRace

\* os_critical_lock at the head of a submission.
SubmitLock(t) ==
  /\ pc[t] = "lock" /\ ~mtx
  /\ mtx' = TRUE
  /\ Goto(t, "get")
  /\ UNCHANGED <<lists, proc, op, srn, need_wakeup, worker, ledger, resets, cancelled>>
  /\ NoteRace

\* Mutant: the result of rq_get_first_locked is not checked.
SubmitGetUnchecked(t) ==
  /\ pc[t] = "get"
  /\ srn' = [srn EXCEPT ![t] = IF frees = <<>> THEN Nil ELSE Head(frees)]
  /\ frees' = IF frees = <<>> THEN frees ELSE Tail(frees)
  /\ exec' = [n \in Nodes |-> IF n = srn'[t] THEN op[t] ELSE exec[n]]
  /\ Goto(t, "test")
  /\ UNCHANGED <<pending, proc, mtx, op, need_wakeup, worker, ledger, resets, cancelled>>
  /\ NoteRace

\* rq_get_first_locked(&rq->frees); _rq_submit fills the node at once.
SubmitGet(t) ==
  /\ pc[t] = "get"
  /\ \/ /\ frees = <<>>
        /\ Goto(t, "full")
        /\ UNCHANGED <<frees, exec, srn>>
     \/ /\ frees # <<>>
        /\ srn' = [srn EXCEPT ![t] = Head(frees)]
        /\ frees' = Tail(frees)
        /\ IF op[t] \in Copied
           THEN Goto(t, "fill") /\ UNCHANGED exec
           ELSE Goto(t, "test") /\ exec' = [exec EXCEPT ![Head(frees)] = op[t]]
  /\ UNCHANGED <<pending, proc, mtx, op, need_wakeup, worker, ledger, resets, cancelled>>
  /\ NoteRace

\* Mutant: -EBUSY without freeing the copy.
SubmitBusyLeak(t) ==
  /\ pc[t] = "full"
  /\ mtx' = FALSE
  /\ ret' = [ret EXCEPT ![op[t]] = "EBUSY"]
  /\ op' = [op EXCEPT ![t] = NoJob]
  /\ Goto(t, "idle")
  /\ UNCHANGED <<lists, proc, srn, need_wakeup, worker, bufs, runs, dropped, resets, cancelled>>
  /\ NoteRace

\* No free node: unlock, free the copy, return -EBUSY.
SubmitBusy(t) ==
  /\ pc[t] = "full"
  /\ mtx' = FALSE
  /\ bufs' = bufs \ {op[t]}
  /\ ret' = [ret EXCEPT ![op[t]] = "EBUSY"]
  /\ op' = [op EXCEPT ![t] = NoJob]
  /\ Goto(t, "idle")
  /\ UNCHANGED <<lists, proc, srn, need_wakeup, worker, runs, dropped, resets, cancelled>>
  /\ NoteRace

\* _rq_submit_with_copy unlocks and fills buffer and node outside the lock.
SubmitFill(t) ==
  /\ pc[t] = "fill"
  /\ mtx' = FALSE
  /\ exec' = [exec EXCEPT ![srn[t]] = op[t]]
  /\ Goto(t, "relock")
  /\ UNCHANGED <<frees, pending, proc, op, srn, need_wakeup, worker, ledger, resets,
                 cancelled>>
  /\ NoteRace

\* The second os_critical_lock of _rq_submit_with_copy.
SubmitRelock(t) ==
  /\ pc[t] = "relock" /\ ~mtx
  /\ mtx' = TRUE
  /\ Goto(t, "test")
  /\ UNCHANGED <<lists, proc, op, srn, need_wakeup, worker, ledger, resets, cancelled>>
  /\ NoteRace

\* Mutant: no wake-up for urgent work.
AddTestNotUrgent(t) ==
  /\ pc[t] = "test"
  /\ need_wakeup' = [need_wakeup EXCEPT ![t] = (pending = <<>> /\ op[t] \notin Urgent)]
  /\ Goto(t, "add")
  /\ UNCHANGED <<lists, proc, mtx, op, srn, worker, ledger, resets, cancelled>>
  /\ NoteRace

\* rq_add_node_locked, first half: is the pending list empty?
AddTest(t) ==
  /\ pc[t] = "test"
  /\ need_wakeup' = [need_wakeup EXCEPT ![t] = (pending = <<>>)]
  /\ Goto(t, "add")
  /\ UNCHANGED <<lists, proc, mtx, op, srn, worker, ledger, resets, cancelled>>
  /\ NoteRace

\* rq_add_node_locked, second half: link the node, wake the service thread.
AddLink(t) ==
  /\ pc[t] = "add"
  /\ pending' = ListAdd(pending, srn[t], op[t] \in Urgent)
  /\ proc' = IF need_wakeup[t] THEN proc + 1 ELSE proc
  /\ Goto(t, "unlock")
  /\ UNCHANGED <<frees, exec, mtx, op, srn, need_wakeup, worker, ledger, resets, cancelled>>
  /\ NoteRace

\* Entry of _rq_reset.
ResetLock(t) ==
  /\ pc[t] = "idle" /\ ~mtx /\ resets < MaxResets
  /\ resets' = resets + 1
  /\ mtx' = TRUE
  /\ Goto(t, "splice")
  /\ UNCHANGED <<lists, proc, op, srn, need_wakeup, worker, ledger, cancelled>>
  /\ NoteRace

\* list_splice_tail_init(&rq->pending, &rq->frees): the nodes become free, the
\* copy buffers they carry are not freed, the semaphore keeps its count.
ResetSplice(t) ==
  /\ pc[t] = "splice"
  /\ frees' = frees \o pending
  /\ pending' = <<>>
  /\ dropped' = dropped \cup {exec[n] : n \in ToSet(pending)}
  /\ Goto(t, "unlock")
  /\ UNCHANGED <<exec, proc, mtx, op, srn, need_wakeup, worker, bufs, ret, runs, resets,
                 cancelled>>
  /\ NoteRace

\* Mutant: the submission frees its copy before it returns.
UnlockFrees(t) ==
  /\ pc[t] = "unlock"
  /\ mtx' = FALSE
  /\ bufs' = bufs \ {op[t]}
  /\ ret' = IF op[t] = NoJob THEN ret ELSE [ret EXCEPT ![op[t]] = "ok"]
  /\ op' = [op EXCEPT ![t] = NoJob]
  /\ srn' = [srn EXCEPT ![t] = Nil]
  /\ need_wakeup' = [need_wakeup EXCEPT ![t] = FALSE]
  /\ Goto(t, "idle")
  /\ UNCHANGED <<lists, proc, worker, runs, dropped, resets, cancelled>>
  /\ NoteRace

\* Last os_critical_unlock of a call; a submission returns 0.
Unlock(t) ==
  /\ pc[t] = "unlock"
  /\ mtx' = FALSE
  /\ ret' = IF op[t] = NoJob THEN ret ELSE [ret EXCEPT ![op[t]] = "ok"]
  /\ op' = [op EXCEPT ![t] = NoJob]
  /\ srn' = [srn EXCEPT ![t] = Nil]
  /\ need_wakeup' = [need_wakeup EXCEPT ![t] = FALSE]
  /\ Goto(t, "idle")
  /\ UNCHANGED <<lists, proc, worker, bufs, runs, dropped, resets, cancelled>>
  /\ NoteRace

\* _rq_cancel_thread: a request that the service thread acts on at its next
\* cancellation point.
Cancel ==
  /\ ~cancelled
  /\ cancelled' = TRUE
  /\ UNCHANGED <<lists, proc, mtx, clients, worker, ledger, resets, raced>>

-----------------------------------------------------------------------------
(* The service thread: rq_main_thread and _rq_schedule. *)

\* os_critical_lock before the loop.
SchedLock ==
  /\ wpc = "start" /\ ~mtx
  /\ mtx' = TRUE
  /\ wpc' = "get"
  /\ UNCHANGED <<lists, proc, clients, rn, nextp, fn, ledger, resets, cancelled>>
  /\ NoteRace

\* rq_get_first_locked(&rq->pending), the loads: list_empty, head->next and
\* rn->node.next.
SchedLoad ==
  /\ wpc = "get"
  /\ \/ /\ pending = <<>>
        /\ wpc' = "empty"
        /\ UNCHANGED <<rn, nextp>>
     \/ /\ pending # <<>>
        /\ rn' = Head(pending)
        /\ nextp' = SecondOf(pending)
        /\ wpc' = "del"
  /\ UNCHANGED <<lists, proc, mtx, clients, fn, ledger, resets, cancelled>>
  /\ NoteRace

\* rq_get_first_locked(&rq->pending), the stores of list_del, and fn = rn->exec.
\* If a reset took the next node away the two lists are tangled into one.
SchedDel ==
  /\ wpc = "del"
  /\ \/ /\ nextp = Nil \/ nextp \in ToSet(pending)
        /\ pending' = ListDelFirst(pending, nextp)
        /\ fn' = exec[rn]
        /\ wpc' = "unlock"
     \/ /\ nextp # Nil /\ nextp \notin ToSet(pending)
        /\ wpc' = "ub"
        /\ UNCHANGED <<pending, fn>>
  /\ UNCHANGED <<frees, exec, proc, mtx, clients, rn, nextp, ledger, resets,
                 cancelled>>
  /\ NoteRace

\* The queue is empty: os_critical_unlock before os_resched.
SchedUnlockEmpty ==
  /\ wpc = "empty"
  /\ mtx' = FALSE
  /\ wpc' = "wait"
  /\ UNCHANGED <<lists, proc, clients, rn, nextp, fn, ledger, resets, cancelled>>
  /\ NoteRace

\* os_resched returns; `continue` goes back to the list without the lock.
SchedWait ==
  /\ wpc = "wait" /\ proc > 0
  /\ proc' = proc - 1
  /\ wpc' = "get"
  /\ UNCHANGED <<lists, mtx, clients, rn, nextp, fn, ledger, resets, cancelled>>
  /\ NoteRace

\* os_critical_unlock after a node was taken, locked or not.
SchedUnlock ==
  /\ wpc = "unlock"
  /\ mtx' = FALSE
  /\ wpc' = "run"
  /\ UNCHANGED <<lists, proc, clients, rn, nextp, fn, ledger, resets, cancelled>>
  /\ NoteRace

\* fn(rn->arg); exec_adaptor_cb frees the copy buffer after the call.
SchedRun ==
  /\ wpc = "run"
  /\ runs' = IF fn \in Jobs THEN [runs EXCEPT ![fn] = @ + 1] ELSE runs
  /\ bufs' = bufs \ {exec[rn]}
  /\ wpc' = "relock"
  /\ UNCHANGED <<lists, proc, mtx, clients, rn, nextp, fn, ret, dropped, resets,
                 cancelled>>
  /\ NoteRace

\* os_critical_lock after the user function.
SchedRelock ==
  /\ wpc = "relock" /\ ~mtx
  /\ mtx' = TRUE
  /\ wpc' = "put"
  /\ UNCHANGED <<lists, proc, clients, rn, nextp, fn, ledger, resets, cancelled>>
  /\ NoteRace

\* Mutant: the node is not put back.
SchedPutForgotten ==
  /\ wpc = "put"
  /\ wpc' = "get"
  /\ rn' = Nil /\ nextp' = Nil /\ fn' = NoJob
  /\ UNCHANGED <<lists, proc, mtx, clients, ledger, resets, cancelled>>
  /\ NoteRace

\* rq_put_locked: list_add to the free list.  Linking a node that is still
\* linked leaves the lists in no defined shape.
SchedPut ==
  /\ wpc = "put"
  /\ \/ /\ rn \notin ToSet(frees) \cup ToSet(pending)
        /\ frees' = <<rn>> \o frees
        /\ wpc' = "get"
        /\ rn' = Nil /\ nextp' = Nil /\ fn' = NoJob
     \/ /\ rn \in ToSet(frees) \cup ToSet(pending)
        /\ wpc' = "ub"
        /\ UNCHANGED <<frees, rn, nextp, fn>>
  /\ UNCHANGED <<pending, exec, proc, mtx, clients, ledger, resets, cancelled>>
  /\ NoteRace

\* Deferred cancellation: sem_wait is a cancellation point, the user function
\* may contain one.
SchedCancelled ==
  /\ cancelled /\ wpc \in {"wait", "run"}
  /\ wpc' = "dead"
  /\ UNCHANGED <<lists, proc, mtx, clients, rn, nextp, fn, ledger, resets, cancelled>>
  /\ NoteRace

-----------------------------------------------------------------------------
Client(t) ==
  \/ SubmitCall(t) \/ SubmitLock(t) \/ SubmitGet(t) \/ SubmitBusy(t)
  \/ SubmitFill(t) \/ SubmitRelock(t) \/ AddTest(t) \/ AddLink(t)
  \/ ResetLock(t) \/ ResetSplice(t) \/ Unlock(t)

Sched ==
  \/ SchedLock \/ SchedLoad \/ SchedDel \/ SchedUnlockEmpty \/ SchedWait
  \/ SchedUnlock \/ SchedRun \/ SchedRelock \/ SchedPut \/ SchedCancelled

Next == (\E t \in Threads : Client(t)) \/ Sched \/ Cancel

Spec == Init /\ [][Next]_vars

\* A thread that is inside a call keeps running, and so does the service
\* thread; nobody has to make a call.
Fairness ==
  /\ \A t \in Threads : WF_vars(Client(t) /\ pc[t] # "idle")
  /\ WF_vars(Sched /\ ~cancelled)

LiveSpec == Spec /\ Fairness

-----------------------------------------------------------------------------
(* Properties.  Those guarded by raced hold in every execution until two     *)
(* threads are in list code at once; that this can happen is shown by a run. *)

TypeOK ==
  /\ frees \in Seq(Nodes) /\ pending \in Seq(Nodes)
  /\ exec \in [Nodes -> Work]
  /\ proc \in Nat /\ mtx \in BOOLEAN
  /\ pc \in [Threads -> ClientPc]
  /\ op \in [Threads -> Work]
  /\ srn \in [Threads -> Nodes \cup {Nil}]
  /\ need_wakeup \in [Threads -> BOOLEAN]
  /\ wpc \in WorkerPc
  /\ rn \in Nodes \cup {Nil} /\ nextp \in Nodes \cup {Nil}
  /\ fn \in Work
  /\ bufs \subseteq Work
  /\ ret \in [Jobs -> {"none", "ok", "EBUSY"}]
  /\ runs \in [Jobs -> Nat]
  /\ dropped \subseteq Work
  /\ resets \in Nat /\ cancelled \in BOOLEAN /\ raced \in BOOLEAN

\* Nodes the service thread has taken off the pending list and not put back.
InHand == IF wpc \in {"unlock", "run", "relock", "put", "dead"} /\ rn # Nil
          THEN {rn} ELSE {}

\* Nodes a client has taken off the free list and not linked yet.
Held(t) == IF pc[t] \in {"fill", "relock", "test", "add"} THEN {srn[t]} ELSE {}

\* Until a race, every rq_node is in exactly one place: the free list, the
\* pending list, the hands of one client or those of the service thread.
NodesConserved ==
  ~raced /\ wpc # "dead" =>
    /\ Len(frees) + Len(pending) + Cardinality(InHand)
         + Cardinality({t \in Threads : Held(t) # {}}) = nq
    /\ ToSet(frees) \cup ToSet(pending) \cup InHand \cup UNION {Held(t) : t \in Threads}
         = Nodes

\* The wake-up rule of rq_add_node_locked (post only when the list was empty)
\* is enough: until a race the service thread never sleeps, or goes to sleep,
\* on a non-empty queue without a post waiting for it.
NoLostWakeup ==
  ~raced /\ wpc \in {"empty", "wait"} /\ pending # <<>> => proc > 0

\* The jobs that wait in the queue or that the service thread is about to run.
Waiting == {exec[n] : n \in ToSet(pending)}
           \cup (IF wpc \in {"del", "unlock", "run"} THEN {exec[rn]} ELSE {})

\* Until a race, a job whose submission returned 0 is waiting, or has run
\* once, or was discarded by a reset, and never two of these; one that got
\* -EBUSY never runs.
JobAccounting ==
  ~raced /\ wpc # "dead" =>
    \A j \in Jobs :
      /\ ret[j] = "ok" =>
           \/ j \in Waiting /\ runs[j] = 0 /\ j \notin dropped
           \/ j \notin Waiting /\ runs[j] = 1 /\ j \notin dropped
           \/ j \notin Waiting /\ runs[j] = 0 /\ j \in dropped
      /\ ret[j] = "EBUSY" => j \notin Waiting /\ runs[j] = 0

\* Until a race, a copy buffer is allocated exactly while its job is being
\* submitted, waits or runs - or for ever, when a reset discarded the job.
BufferLifetime ==
  ~raced /\ wpc # "dead" =>
    \A j \in bufs :
      \/ \E t \in Threads : op[t] = j
      \/ j \in Waiting /\ runs[j] = 0
      \/ j \in dropped

\* A copy that is about to be handed to its function has not been freed.
NoUseAfterFree ==
  ~raced /\ wpc = "run" /\ exec[rn] \in Copied => exec[rn] \in bufs

\* Every accepted job is executed, unless a reset discards it, the thread is
\* cancelled or a race has happened.
AcceptedJobsRun ==
  \A j \in Jobs :
    ret[j] = "ok" ~> runs[j] > 0 \/ j \in dropped \/ cancelled \/ raced

\* What the interface promises without a condition (README.md:35, rq.h:77: 0 is
\* success): an accepted job is waiting, has run or was discarded.
AcceptedJobKept ==
  wpc \notin {"dead", "ub"} =>
    \A j \in Jobs : ret[j] = "ok" => j \in Waiting \/ runs[j] > 0 \/ j \in dropped

=============================================================================
