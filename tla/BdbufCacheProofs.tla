------------------------- MODULE BdbufCacheProofs --------------------------
(***************************************************************************)
(* What the structure proved in BdbufProofs gives the users of the cache:  *)
(* no task sleeps through its wake-up, the cache is transparent, and       *)
(* syncdev has on the disk what was modified when it was called.           *)
(***************************************************************************)
EXTENDS BdbufProofs

\* The buffers of the LRU list, in use or not.
Resting == In({"FREE", "CACHED"})
\* What counts as a user of the group of b.
Claim(b) == b \in Live /\ (bd[b].state \in InUse \/ Waiting(b) # {})
\* A task without a buffer could take b for device d.
Loose(d, b) ==
    /\ Waiting(b) = {}
    /\ \/ group[GroupOf(b)].bds_per_group = dev[d].bds_per_group
       \/ group[GroupOf(b)].users = 0
\* A task that wants block m of d has reason to sleep until there is any buffer.
Asleep(d, m) ==
    /\ \A b \in Resting : b \in InTree(d, m) => Waiting(b) # {}
    /\ InTree(d, m) = {} => \A b \in Resting : ~Loose(d, b)

\* A task sleeps on what its wake-up will signal.
Rightly(u) ==
    /\ task[u].cv = "access" => task[u].pc \in BdWait /\ bd[task[u].bd].state \in Access
    /\ task[u].cv = "transfer" => task[u].pc \in BdWait /\ bd[task[u].bd].state \in Transferring
    /\ task[u].cv = "buffer" => task[u].pc = "buf"
    /\ (task[u].cv = "buffer" /\ u \notin hist.stale) => Asleep(task[u].dd, task[u].media)
    /\ task[u].pc = "rec" => task[u].bd \in InTree(task[u].dd, task[u].media)
WakeInv == \A u \in Tasks : Rightly(u)

SameKey(b) == b \in tree /\ b \in tree' /\ bd'[b].dd = bd[b].dd /\ bd'[b].block = bd[b].block

\* A step that need not wake those who wait for any buffer.
Quiet ==
    /\ \A b \in Bds : Claim(b) => Claim(b)'
    /\ \A b \in Resting' : b \in Resting \/ Waiting(b)' # {}
    /\ \A b \in Resting' : \/ Waiting(b)' # {}
                           \/ group'[GroupOf(b)].bds_per_group = group[GroupOf(b)].bds_per_group
    /\ \A b \in Resting' : b \in tree' => Waiting(b)' # {} \/ SameKey(b)
    /\ \A b \in tree : SameKey(b) \/ (b \in Resting /\ Waiting(b) = {})

\* Two sets with a member between them have more than none.
LEMMA SomeMember ==
  ASSUME NEW U, NEW S, IsFiniteSet(U), IsFiniteSet(S)
  PROVE  (Cardinality(U) + Cardinality(S) # 0) <=> (U # {} \/ S # {})
<1>1. Cardinality(U) \in Nat /\ Cardinality(S) \in Nat
  BY FS_CardinalityType
<1>2. (Cardinality(U) = 0 <=> U = {}) /\ (Cardinality(S) = 0 <=> S = {})
  BY FS_EmptySet
<1>. QED BY <1>1, <1>2

\* A group with users has a buffer in use or waited for.
LEMMA UsersClaim ==
  ASSUME Inv, NEW g \in Groups, group[g].users # 0
  PROVE  \E x \in Bds : GroupOf(x) = g /\ Claim(x)
<1>0. group \in GroupFun
  BY DEF Inv, TypeOK
<1>1. Used(g) # {} \/ Sleepers(g) # {}
  <2>1. group[g].users = Cardinality(Used(g)) + Cardinality(Sleepers(g))
    BY DEF Inv, CountInv
  <2>2. IsFiniteSet(Used(g)) /\ IsFiniteSet(Sleepers(g))
    BY <1>0, FiniteGroups
  <2>. QED BY <2>1, <2>2, SomeMember
<1>2. ASSUME NEW x \in Used(g) PROVE x \in Bds /\ GroupOf(x) = g /\ Claim(x)
  BY <1>0, <1>2, FiniteGroups DEF Claim
<1>3. ASSUME NEW t \in Sleepers(g) PROVE task[t].bd \in Bds /\ GroupOf(task[t].bd) = g /\ Claim(task[t].bd)
  <2>1. t \in Tasks /\ task[t].pc \in BdWait /\ GroupOf(task[t].bd) = g
    BY <1>3 DEF Sleepers
  <2>2. task[t].bd \in Bds
    BY <2>1 DEF Inv, TasksInv
  <2>3. t \in Waiting(task[t].bd)
    BY <2>1 DEF Waiting
  <2>4. BufferInv(task[t].bd)
    BY <2>2 DEF Inv
  <2>. QED BY <2>1, <2>2, <2>3, <2>4 DEF Claim, BufferInv
<1>. QED BY <1>1, <1>2, <1>3

\* And the other way round, in the next state.
LEMMA ClaimUsers ==
  ASSUME Inv', NEW x \in Bds, Claim(x)'
  PROVE  group'[GroupOf(x)].users # 0
<1> DEFINE g == GroupOf(x)
<1>0. group' \in GroupFun /\ CountInv' /\ g \in Groups
  BY GroupFacts DEF Inv, TypeOK
<1>1. \A h \in Groups : group'[h].bds_per_group \in 1 .. MaxBdsPerGroup
  BY <1>0 DEF GroupFun
<1>2. \A y \in LiveIn(g, group'[g].bds_per_group) : y \in Bds
  BY <1>0, <1>1, GroupFacts
<1>3. Used(g)' \in SUBSET Bds /\ Sleepers(g)' \in SUBSET Tasks
  BY <1>2 DEF Used, Sleepers
<1>4. IsFiniteSet(Bds) /\ IsFiniteSet(Tasks)
  BY GroupFacts, BdbufAssumption
<1>5. IsFiniteSet(Used(g)') /\ IsFiniteSet(Sleepers(g)')
  BY <1>3, <1>4, FS_Subset
<1>6. Used(g)' # {} \/ Sleepers(g)' # {}
  <2>1. CASE bd'[x].state \in InUse
    <3>1. x \in LiveIn(g, group'[g].bds_per_group)
      BY <1>1, NextLive DEF Claim
    <3>. QED BY <2>1, <3>1 DEF Used
  <2>2. CASE Waiting(x)' # {}
    BY <2>2 DEF Waiting, Sleepers
  <2>. QED BY <2>1, <2>2 DEF Claim
<1>7. group'[g].users = Cardinality(Used(g)') + Cardinality(Sleepers(g)')
  BY <1>0 DEF CountInv
<1>. QED BY <1>5, <1>6, <1>7, SomeMember

\* Who sleeps rightly goes on to do so over a quiet step.
LEMMA QuietStep ==
  ASSUME Inv, Inv', Quiet, NEW d, NEW m, Asleep(d, m),
         dev'[d].bds_per_group = dev[d].bds_per_group
  PROVE  Asleep(d, m)'
<1>0. /\ \A b \in Resting : b \in Live /\ b \in Bds /\ bd[b].state \in {"FREE", "CACHED"}
      /\ tree \subseteq Bds
  BY LiveFacts DEF Resting, In, Inv, TypeOK
<1>1. /\ \A b \in Resting' : b \in Live' /\ bd'[b].state \in {"FREE", "CACHED"}
      /\ \A b \in Resting' : b \in Bds
  <2>1. \A h \in Groups : group'[h].bds_per_group \in 1 .. MaxBdsPerGroup
    BY DEF Inv, TypeOK, GroupFun
  <2>. QED BY <2>1, NextLive DEF Resting, In
<1>2. ASSUME NEW b \in Resting', b \in Resting, Waiting(b) # {} PROVE Waiting(b)' # {}
  <2>1. Claim(b)
    BY <1>0, <1>2 DEF Claim
  <2>2. Claim(b)'
    BY <1>0, <1>2, <2>1 DEF Quiet
  <2>. QED BY <1>1, <2>2 DEF Claim, InUse, Access, Transferring
<1>3. ASSUME NEW b \in Resting', b \in InTree(d, m)' PROVE Waiting(b)' # {}
  <2>1. b \in tree' /\ bd'[b].dd = d /\ bd'[b].block = m
    BY <1>3 DEF InTree
  <2>2. Waiting(b)' # {} \/ (SameKey(b) /\ b \in Resting)
    BY <2>1 DEF Quiet
  <2>3. SameKey(b) => b \in InTree(d, m)
    BY <2>1 DEF SameKey, InTree
  <2>. QED BY <1>2, <2>2, <2>3 DEF Asleep
<1>4. ASSUME InTree(d, m)' = {}, NEW b \in Resting', Loose(d, b)' PROVE FALSE
  <2>1. ASSUME NEW x \in InTree(d, m) PROVE FALSE
    <3>1. x \in tree /\ bd[x].dd = d /\ bd[x].block = m
      BY <2>1 DEF InTree
    <3>2. ~SameKey(x)
      BY <1>4, <3>1 DEF SameKey, InTree
    <3>3. x \in Resting /\ Waiting(x) = {}
      BY <3>1, <3>2 DEF Quiet
    <3>. QED BY <2>1, <3>3 DEF Asleep
  <2>2. InTree(d, m) = {}
    BY <2>1
  <2>3. Waiting(b)' = {}
    BY <1>4 DEF Loose
  <2>4. b \in Resting /\ group'[GroupOf(b)].bds_per_group = group[GroupOf(b)].bds_per_group
    BY <2>3 DEF Quiet
  <2>5. Waiting(b) = {}
    BY <1>2, <2>3, <2>4
  <2>6. ~Loose(d, b)
    BY <2>2, <2>4 DEF Asleep
  <2>7. /\ group[GroupOf(b)].bds_per_group # dev[d].bds_per_group
        /\ group[GroupOf(b)].users # 0
    BY <2>5, <2>6 DEF Loose
  <2>8. GroupOf(b) \in Groups
    BY <1>1, GroupFacts
  <2>9. PICK x \in Bds : GroupOf(x) = GroupOf(b) /\ Claim(x)
    BY <2>7, <2>8, UsersClaim
  <2>10. Claim(x)'
    BY <2>9 DEF Quiet
  <2>11. group'[GroupOf(b)].users # 0
    BY <2>9, <2>10, ClaimUsers
  <2>. QED BY <1>4, <2>4, <2>7, <2>11 DEF Loose
<1>. QED BY <1>3, <1>4 DEF Asleep

\* The others in a step of t that broadcasts on cvs.
Others(t, cvs) ==
    \A u \in Tasks \ {t} :
        /\ task'[u].pc = task[u].pc /\ task'[u].bd = task[u].bd /\ task'[u].dd = task[u].dd
        /\ task'[u].media = task[u].media
        /\ task'[u].cv = IF task[u].cv \in cvs THEN "none" ELSE task[u].cv
\* Buffer b leaves the state its waiters wait for the end of only with a broadcast.
Signals(t, b, cvs) ==
    Waiting(b) \ {t} # {} =>
        /\ bd[b].state \in Access => bd'[b].state \in Access \/ "access" \in cvs
        /\ bd[b].state \in Transferring => bd'[b].state \in Transferring \/ "transfer" \in cvs
\* A waited for buffer stays where its waiters found it.
Keeps(t, b) == Waiting(b) \ {t} # {} /\ b \in tree => SameKey(b)
StaleKept(t) ==
    \A u \in Tasks \ {t} : task[u].cv = "buffer" /\ u \notin hist'.stale =>
        u \notin hist.stale /\ dev'[task[u].dd].bds_per_group = dev[task[u].dd].bds_per_group

\* A step keeps every sleeper where its wake-up will reach it, if it tells those it concerns.
LEMMA WakeStep ==
  ASSUME Inv, Inv', WakeInv, NEW t, NEW cvs, Others(t, cvs), StaleKept(t),
         \A b \in Bds : Signals(t, b, cvs), \A b \in Bds : Keeps(t, b),
         "buffer" \in cvs \/ Quiet,
         t \in Tasks => Rightly(t)'
  PROVE  WakeInv'
<1>. SUFFICES ASSUME NEW u \in Tasks, u # t PROVE Rightly(u)'
  BY DEF WakeInv
<1>0. /\ task'[u].pc = task[u].pc /\ task'[u].bd = task[u].bd /\ task'[u].dd = task[u].dd
      /\ task'[u].media = task[u].media
      /\ task'[u].cv = IF task[u].cv \in cvs THEN "none" ELSE task[u].cv
  BY DEF Others
<1>1. Rightly(u) /\ (task[u].pc \in BdWait => task[u].bd \in Bds)
  BY DEF WakeInv, Inv, TasksInv
<1>2. task[u].pc \in BdWait => u \in Waiting(task[u].bd) \ {t}
  BY DEF Waiting
<1>3. ASSUME task'[u].cv = "access" PROVE task'[u].pc \in BdWait /\ bd'[task'[u].bd].state \in Access
  <2>1. task[u].cv = "access" /\ "access" \notin cvs
    BY <1>0, <1>3
  <2>2. task[u].pc \in BdWait /\ bd[task[u].bd].state \in Access /\ task[u].bd \in Bds
    BY <1>1, <2>1 DEF Rightly
  <2>3. bd'[task[u].bd].state \in Access
    BY <1>2, <2>1, <2>2 DEF Signals
  <2>. QED BY <1>0, <2>2, <2>3
<1>4. ASSUME task'[u].cv = "transfer" PROVE task'[u].pc \in BdWait /\ bd'[task'[u].bd].state \in Transferring
  <2>1. task[u].cv = "transfer" /\ "transfer" \notin cvs
    BY <1>0, <1>4
  <2>2. task[u].pc \in BdWait /\ bd[task[u].bd].state \in Transferring /\ task[u].bd \in Bds
    BY <1>1, <2>1 DEF Rightly
  <2>3. bd'[task[u].bd].state \in Transferring
    BY <1>2, <2>1, <2>2 DEF Signals
  <2>. QED BY <1>0, <2>2, <2>3
<1>5. ASSUME task'[u].cv = "buffer" PROVE task[u].cv = "buffer" /\ "buffer" \notin cvs /\ task'[u].pc = "buf"
  BY <1>0, <1>1, <1>5 DEF Rightly
<1>6. (task[u].cv = "buffer" /\ u \notin hist.stale => Asleep(task[u].dd, task[u].media))'
  <2>. SUFFICES ASSUME task'[u].cv = "buffer", u \notin hist'.stale
               PROVE  Asleep(task[u].dd, task[u].media)'
    OBVIOUS
  <2>0. PICK d, m : d = task[u].dd /\ m = task[u].media
    OBVIOUS
  <2>1. task[u].cv = "buffer" /\ Quiet
    BY <1>5
  <2>2. u \notin hist.stale /\ dev'[d].bds_per_group = dev[d].bds_per_group
    BY <2>0, <2>1 DEF StaleKept
  <2>3. Asleep(d, m)
    BY <1>1, <2>0, <2>1, <2>2 DEF Rightly
  <2>4. Asleep(d, m)'
    BY <2>1, <2>2, <2>3, QuietStep
  <2>5. d = task'[u].dd /\ m = task'[u].media
    BY <1>0, <2>0
  <2>. QED BY <2>4, <2>5 DEF Asleep, InTree, Loose
<1>7. (task[u].pc = "rec" => task[u].bd \in InTree(task[u].dd, task[u].media))'
  <2>. SUFFICES ASSUME task'[u].pc = "rec" PROVE (task[u].bd \in InTree(task[u].dd, task[u].media))'
    OBVIOUS
  <2>1. task[u].pc = "rec" /\ "rec" \in BdWait
    BY <1>0 DEF BdWait
  <2>2. task[u].bd \in Bds /\ task[u].bd \in InTree(task[u].dd, task[u].media)
    BY <1>1, <2>1 DEF Rightly
  <2>3. SameKey(task[u].bd)
    BY <1>2, <2>1, <2>2 DEF Keeps, InTree
  <2>. QED BY <1>0, <2>2, <2>3 DEF SameKey, InTree
<1>. QED BY <1>3, <1>4, <1>5, <1>6, <1>7 DEF Rightly

\* A step of t on buffer b that wakes those who wait on cvs.
Near(t, b, cvs) ==
    /\ Others(t, cvs)
    /\ \A x \in Bds \ {b} : bd'[x].state = bd[x].state /\ (x \in tree' <=> x \in tree)
    /\ \A x \in Bds : bd'[x].dd = bd[x].dd /\ bd'[x].block = bd[x].block
    /\ \A g \in Groups : group'[g].bds_per_group = group[g].bds_per_group
    /\ \A d \in Devs : dev'[d].bds_per_group = dev[d].bds_per_group
    /\ hist.stale \ {t} \subseteq hist'.stale
    /\ task[t].pc \in BdWait => task[t].bd = b
    /\ task'[t].pc \in BdWait => task'[t].bd = b
\* Nobody who waits for any buffer could take b after the step and not before.
QuietAt(b) ==
    /\ (bd[b].state \in InUse \/ Waiting(b) # {}) => (bd'[b].state \in InUse \/ Waiting(b)' # {})
    /\ bd'[b].state \in {"FREE", "CACHED"} => bd[b].state \in {"FREE", "CACHED"} \/ Waiting(b)' # {}
    /\ b \in tree' <=> b \in tree

\* A task that is awake and not about to recycle a buffer has nothing to miss.
LEMMA Awake ==
  ASSUME NEW t, task'[t].cv = "none", task'[t].pc # "rec"
  PROVE  Rightly(t)'
BY DEF Rightly

\* A task that neither waits for a buffer nor for any buffer is awake.
LEMMA AwakeAlready ==
  ASSUME Inv, WakeInv, NEW t \in Tasks, task[t].pc \notin BdWait \cup {"buf"}
  PROVE  task[t].cv = "none"
<1>1. task[t].cv \in {"none", "access", "transfer", "buffer"}
  BY DEF Inv, TypeOK, TaskFun, TaskRec
<1>. QED BY <1>1 DEF WakeInv, Rightly

\* Those whose buffer is another than b go on waiting for it.
LEMMA NearWaiting ==
  ASSUME NEW t \in Tasks, NEW b, NEW cvs, Near(t, b, cvs)
  PROVE  /\ \A x : x # b => Waiting(x)' = Waiting(x)
         /\ Waiting(b)' = IF task'[t].pc \in BdWait THEN Waiting(b) \cup {t} ELSE Waiting(b) \ {t}
<1>1. \A u \in Tasks \ {t} : task'[u].pc = task[u].pc /\ task'[u].bd = task[u].bd
  BY DEF Near, Others
<1>2. /\ task[t].pc \in BdWait => task[t].bd = b
      /\ task'[t].pc \in BdWait => task'[t].bd = b
  BY DEF Near
<1>. QED BY <1>1, <1>2 DEF Waiting

\* A step on one buffer loses no wake-up if it wakes those it concerns.
LEMMA OneWake ==
  ASSUME Inv, Inv', WakeInv, NEW t \in Tasks, NEW b \in Bds, b \in Live, NEW cvs, Near(t, b, cvs),
         Signals(t, b, cvs), Waited(t, b) /\ b \in tree => b \in tree',
         "buffer" \in cvs \/ QuietAt(b), Rightly(t)'
  PROVE  WakeInv'
<1>1. /\ \A x \in Bds \ {b} : Waiting(x)' = Waiting(x)
      /\ \A x \in Bds \ {b} : bd'[x].state = bd[x].state /\ (x \in tree' <=> x \in tree)
      /\ \A x \in Bds : bd'[x].dd = bd[x].dd /\ bd'[x].block = bd[x].block
      /\ Live' = Live
  <2>1. \A x \in Bds \ {b} : Waiting(x)' = Waiting(x)
    BY NearWaiting
  <2>2. Live' = Live
    BY LiveFrame DEF Near
  <2>. QED BY <2>1, <2>2 DEF Near
<1>2. Others(t, cvs)
  BY DEF Near
<1>3. StaleKept(t)
  <2>. SUFFICES ASSUME NEW u \in Tasks \ {t}, task[u].cv = "buffer", u \notin hist'.stale
               PROVE  u \notin hist.stale /\ dev'[task[u].dd].bds_per_group = dev[task[u].dd].bds_per_group
    BY DEF StaleKept
  <2>1. task[u].pc = "buf"
    BY DEF WakeInv, Rightly
  <2>2. task[u].dd \in Devs
    BY <2>1 DEF Inv, TasksInv
  <2>. QED BY <2>2 DEF Near
<1>4. \A x \in Bds : Signals(t, x, cvs)
  <2>1. \A x \in Bds \ {b} : Signals(t, x, cvs)
    BY <1>1 DEF Signals
  <2>. QED BY <2>1
<1>5. \A x \in Bds : Keeps(t, x)
  <2>1. \A x \in Bds \ {b} : Keeps(t, x)
    BY <1>1 DEF Keeps, SameKey
  <2>2. Keeps(t, b)
    BY <1>1, WaitedFacts DEF Keeps, SameKey
  <2>. QED BY <2>1, <2>2
<1>6. ASSUME QuietAt(b) PROVE Quiet
  <2>1. \A x \in Bds : Claim(x) => Claim(x)'
    <3>1. \A x \in Bds \ {b} : Claim(x) => Claim(x)'
      BY <1>1 DEF Claim
    <3>2. Claim(b) => Claim(b)'
      BY <1>1, <1>6 DEF Claim, QuietAt
    <3>. QED BY <3>1, <3>2
  <2>0. \A x \in Resting' : x \in Bds /\ x \in Live
    BY <1>1, LiveFacts DEF Resting, In, Inv, TypeOK
  <2>2. \A x \in Resting' : x \in Resting \/ Waiting(x)' # {}
    <3>1. \A x \in Resting' : x # b => x \in Resting
      BY <1>1, <2>0 DEF Resting, In
    <3>2. b \in Resting' => b \in Resting \/ Waiting(b)' # {}
      BY <1>1, <1>6 DEF Resting, In, QuietAt
    <3>. QED BY <3>1, <3>2
  <2>3. \A x \in Resting' : group'[GroupOf(x)].bds_per_group = group[GroupOf(x)].bds_per_group
    BY <2>0, GroupFacts DEF Near
  <2>4. \A x \in tree : SameKey(x)
    <3>1. tree \subseteq Bds
      BY DEF Inv, TypeOK
    <3>. QED BY <1>1, <1>6, <3>1 DEF SameKey, QuietAt
  <2>5. \A x \in Resting' : x \in tree' => SameKey(x)
    <3>1. \A x \in Resting' : x \in tree' => x \in tree
      BY <1>1, <1>6, <2>0 DEF QuietAt
    <3>. QED BY <2>4, <3>1
  <2>. QED BY <2>1, <2>2, <2>3, <2>4, <2>5 DEF Quiet
<1>7. "buffer" \in cvs \/ Quiet
  BY <1>6
<1>. QED BY <1>2, <1>3, <1>4, <1>5, <1>7, WakeStep

\* So does a step that leaves the buffers and those who wait for them alone.
LEMMA StillWake ==
  ASSUME Inv, Inv', WakeInv, Untouched, NEW t, Others(t, {}), \A x : Waiting(x)' = Waiting(x),
         hist.stale \ {t} \subseteq hist'.stale,
         \A d \in Devs : dev'[d].bds_per_group = dev[d].bds_per_group,
         t \in Tasks => Rightly(t)'
  PROVE  WakeInv'
<1>1. Live' = Live /\ Resting' = Resting
  BY LiveFrame DEF Untouched, Resting, In
<1>3. StaleKept(t)
  <2>. SUFFICES ASSUME NEW u \in Tasks \ {t}, task[u].cv = "buffer", u \notin hist'.stale
               PROVE  u \notin hist.stale /\ dev'[task[u].dd].bds_per_group = dev[task[u].dd].bds_per_group
    BY DEF StaleKept
  <2>1. task[u].pc = "buf"
    BY DEF WakeInv, Rightly
  <2>2. task[u].dd \in Devs
    BY <2>1 DEF Inv, TasksInv
  <2>. QED BY <2>2
<1>4. \A x \in Bds : Signals(t, x, {}) /\ Keeps(t, x)
  BY DEF Signals, Keeps, SameKey, Untouched
<1>5. Quiet
  BY <1>1 DEF Quiet, Claim, SameKey, Untouched
<1>. QED BY <1>3, <1>4, <1>5, WakeStep

\* The record of task t is r, and then those on cvs are woken.
LEMMA WokenOthers ==
  ASSUME NEW k \in TaskFun, NEW t \in Tasks, \A u \in Tasks \ {t} : k[u] = task[u], NEW cvs,
         task' = Woken(cvs, k)
  PROVE  /\ Others(t, cvs) /\ task' \in TaskFun
         /\ task'[t].pc = k[t].pc /\ task'[t].bd = k[t].bd /\ task'[t].dd = k[t].dd
         /\ task'[t].media = k[t].media
         /\ task'[t].cv = IF k[t].cv \in cvs THEN "none" ELSE k[t].cv
<1> DEFINE W == Woken(cvs, k)
<1>1. /\ W \in TaskFun
      /\ \A u \in Tasks :
           /\ W[u].pc = k[u].pc /\ W[u].bd = k[u].bd /\ W[u].dd = k[u].dd /\ W[u].op = k[u].op
           /\ W[u].block = k[u].block /\ W[u].media = k[u].media
           /\ W[u].cv = IF k[u].cv \in cvs THEN "none" ELSE k[u].cv
  BY WokenFacts
<1>2. task' = W
  OBVIOUS
<1> HIDE DEF W
<1>. QED BY <1>1, <1>2 DEF Others

\* A task that changes its own record and wakes those on cvs.
LEMMA OthersWoken ==
  ASSUME task \in TaskFun, NEW t \in Tasks, NEW r \in TaskRec, NEW cvs, NEW k,
         k = [task EXCEPT ![t] = r], task' = Woken(cvs, k)
  PROVE  /\ Others(t, cvs) /\ task' \in TaskFun
         /\ task'[t].pc = r.pc /\ task'[t].bd = r.bd /\ task'[t].dd = r.dd /\ task'[t].media = r.media
         /\ task'[t].cv = IF r.cv \in cvs THEN "none" ELSE r.cv
<1>1. k \in TaskFun /\ k[t] = r /\ \A u \in Tasks \ {t} : k[u] = task[u]
  BY DEF TaskFun
<1>2. Others(t, cvs) /\ task' \in TaskFun
  BY <1>1, WokenOthers
<1>3. /\ task'[t].pc = k[t].pc /\ task'[t].bd = k[t].bd /\ task'[t].dd = k[t].dd
      /\ task'[t].media = k[t].media
  BY <1>1, WokenOthers
<1>4. task'[t].cv = IF k[t].cv \in cvs THEN "none" ELSE k[t].cv
  BY <1>1, WokenOthers, ZenonT(30)
<1>. QED BY <1>1, <1>2, <1>3, <1>4

\* The same when nobody is woken.
LEMMA OthersPlain ==
  ASSUME task \in TaskFun, NEW t \in Tasks, NEW r \in TaskRec, task' = [task EXCEPT ![t] = r]
  PROVE  Others(t, {}) /\ task'[t] = r
<1>1. task'[t] = r /\ \A u \in Tasks \ {t} : task'[u] = task[u]
  BY PlainStep
<1>. QED BY <1>1 DEF Others

\* wait_for_access, wait_for_recycle and sync going to sleep wait for a signal that comes.
LEMMA SleepWake ==
  ASSUME Inv, Inv', WakeInv, NEW t \in Tasks, NEW c, NEW b, NEW g, Comes(t, c, b, g),
         NEW pc \in BdWait, NEW cv \in {"access", "transfer"},
         cv = "access" => bd'[b].state \in Access, cv = "transfer" => bd'[b].state \in Transferring,
         pc = "rec" => b \in InTree(c.dd, c.media),
         bd[b].state \in Access \cup Transferring => bd'[b].state = bd[b].state,
         \A x \in Bds \ {b} : bd'[x].state = bd[x].state,
         \A x \in Bds : bd'[x].dd = bd[x].dd /\ bd'[x].block = bd[x].block,
         Sleep(t, c, pc, b, cv, g), tree' = tree
  PROVE  WakeInv'
<1>0. b \in Live /\ b \in Bds /\ c \in TaskRec /\ g \in GroupFun /\ task \in TaskFun
  BY LiveFacts DEF Comes, Inv, TypeOK, CountsWithout
<1>1. At(c, pc, b, cv) \in TaskRec
  BY <1>0, AtFacts, GroupFacts DEF TaskPc
<1>2. Others(t, {}) /\ task'[t] = At(c, pc, b, cv)
  BY <1>0, <1>1, OthersPlain DEF Sleep
<1>3. /\ task'[t].pc = pc /\ task'[t].bd = b /\ task'[t].cv = cv
      /\ task'[t].dd = c.dd /\ task'[t].media = c.media
  BY <1>0, <1>2, AtFacts, GroupFacts DEF TaskPc
<1>4. Counted(g, b, 1)
  BY <1>0, CountedUsers DEF Sleep
<1>5. \A h \in Groups : group'[h].bds_per_group = group[h].bds_per_group
  BY <1>4 DEF Counted, Comes, CountsWithout
<1>6. Near(t, b, {})
  BY <1>2, <1>3, <1>5 DEF Near, Comes, Sleep
<1>7. t \in Waiting(b)'
  BY <1>3 DEF Waiting
<1>8. QuietAt(b)
  BY <1>7 DEF QuietAt
<1>9. Signals(t, b, {})
  BY DEF Signals
<1>10. Rightly(t)'
  <2>1. (task[t].pc = "rec" => task[t].bd \in InTree(task[t].dd, task[t].media))'
    <3>1. pc = "rec" => b \in tree' /\ bd'[b].dd = c.dd /\ bd'[b].block = c.media
      BY <1>0 DEF InTree
    <3>. QED BY <1>3, <3>1 DEF InTree
  <2>. QED BY <1>3, <2>1 DEF Rightly
<1>. QED BY <1>0, <1>6, <1>8, <1>9, <1>10, OneWake

\* The buffer a task came for is given to it: whoever else waits for it goes on waiting.
LEMMA GrantWake ==
  ASSUME Inv, Inv', WakeInv, NEW t \in Tasks, NEW c, NEW b, NEW g, Comes(t, c, b, g),
         bd[b].state \in {"MODIFIED", "CACHED", "EMPTY"},
         NEW h, h = (IF bd[b].state = "MODIFIED" THEN Users(g, GroupOf(b), -1) ELSE g),
         Grant(t, c, b, bd, h, {}), tree' = tree
  PROVE  WakeInv'
<1>0. b \in Live /\ b \in Bds /\ c \in TaskRec /\ c.dd \in Devs /\ g \in GroupFun /\ TypeOK /\ bd \in BdFun
  BY LiveFacts DEF Comes, Inv, TypeOK, CountsWithout
<1>1. /\ \A x \in Bds \ {b} : bd'[x] = bd[x]
      /\ bd'[b].dd = bd[b].dd /\ bd'[b].block = bd[b].block
  BY <1>0, GrantFacts
<1>2. /\ bd'[b].state \in {"TRANSFER", "ACCESS_EMPTY", "ACCESS_CACHED", "ACCESS_MODIFIED"}
      /\ task'[t].pc \in {"reading", "holding"}
  BY <1>0, GrantFacts
<1>3. /\ group' = Users(h, GroupOf(b), 1) /\ OthersKept(t) /\ task'[t].bd = b /\ task'[t].cv = "none"
      /\ \A d \in Devs : dev'[d].bds_per_group = dev[d].bds_per_group
      /\ hist'.stale = hist.stale
  BY <1>0, GrantFacts
<1>4. \A u \in Tasks \ {t} : task'[u].cv = IF task[u].cv \in {} THEN "none" ELSE task[u].cv
  BY <1>0, GrantFacts
<1>5. Others(t, {})
  BY <1>3, <1>4 DEF Others, OthersKept
<1>6. h \in GroupFun /\ \A x \in Groups : h[x].bds_per_group = g[x].bds_per_group
  BY <1>0, UsersFacts, GroupFacts
<1>7. \A x \in Groups : group'[x].bds_per_group = group[x].bds_per_group
  <2>1. Counted(h, b, 1)
    BY <1>0, <1>3, <1>6, CountedUsers
  <2>. QED BY <1>6, <2>1 DEF Counted, Comes, CountsWithout
<1>8. Near(t, b, {})
  BY <1>1, <1>3, <1>5, <1>7 DEF Near, Comes
<1>9. QuietAt(b)
  BY <1>2 DEF QuietAt, InUse, Access, Transferring
<1>10. Signals(t, b, {})
  BY DEF Signals, Access, Transferring
<1>11. Rightly(t)'
  BY <1>2, <1>3, Awake
<1>. QED BY <1>0, <1>8, <1>9, <1>10, <1>11, OneWake

\* rtems_bdbuf_fatal changes nothing anybody waits for.
LEMMA FatalWake ==
  ASSUME Inv, Inv', WakeInv, Fatal
  PROVE  WakeInv'
<1>1. Untouched /\ task' = task /\ hist' = hist /\ dev' = dev
  BY DEF Fatal, Untouched, lists
<1>2. Others(None, {}) /\ \A x : Waiting(x)' = Waiting(x)
  BY <1>1 DEF Others, Waiting
<1>. QED BY <1>1, <1>2, StillWake, BdbufAssumption

\* rtems_bdbuf_wait_for_access loses no wake-up.
LEMMA WaitForAccessWake ==
  ASSUME Inv, Inv', WakeInv, NEW t \in Tasks, NEW c, NEW b, NEW g, Comes(t, c, b, g),
         WaitForAccess(t, c, b, g)
  PROVE  WakeInv'
<1>1. CASE /\ bd[b].state \in {"MODIFIED", "CACHED", "EMPTY"}
           /\ Grant(t, c, b, bd, IF bd[b].state = "MODIFIED" THEN Users(g, GroupOf(b), -1) ELSE g, {})
           /\ UNCHANGED <<tree, sync, fatal>>
  BY <1>1, GrantWake
<1>2. CASE /\ bd[b].state \in Access
           /\ Sleep(t, c, "acc", b, "access", g)
           /\ UNCHANGED <<bd, lists, fatal>>
  BY <1>2, SleepWake DEF BdWait, lists
<1>3. CASE /\ bd[b].state \in Transferring
           /\ Sleep(t, c, "acc", b, "transfer", g)
           /\ UNCHANGED <<bd, lists, fatal>>
  BY <1>3, SleepWake DEF BdWait, lists
<1>4. CASE Fatal
  BY <1>4, FatalWake
<1>. QED BY <1>1, <1>2, <1>3, <1>4 DEF WaitForAccess

\* A task that found no buffer it could take sleeps for any.
LEMMA SleepForBufferWake ==
  ASSUME Inv, Inv', WakeInv, NEW t \in Tasks, NEW c \in TaskRec, NEW b \in Bds, b \in Live, NEW g,
         CountsWithout(t, g), task[t].pc \in BdWait => task[t].bd = b /\ Waited(t, b),
         SleepForBuffer(t, c, g),
         Asleep(c.dd, c.media)'
  PROVE  WakeInv'
<1>0. task \in TaskFun /\ At(c, "buf", -1, "buffer") \in TaskRec
  <2>1. task \in TaskFun
    BY DEF Inv, TypeOK
  <2>2. At(c, "buf", -1, "buffer") \in TaskRec
    <3>1. "buf" \in TaskPc /\ -1 \in Int /\ "buffer" \in {"none", "access", "transfer", "buffer"}
      BY DEF TaskPc
    <3>. QED BY <3>1, AtFacts
  <2>. QED BY <2>1, <2>2
<1>1. Others(t, {}) /\ task'[t] = At(c, "buf", -1, "buffer")
  BY <1>0, OthersPlain DEF SleepForBuffer
<1>2. /\ task'[t].pc = "buf" /\ task'[t].cv = "buffer" /\ task'[t].dd = c.dd /\ task'[t].media = c.media
      /\ "buf" \notin BdWait
  <2>1. "buf" \in TaskPc /\ -1 \in Int /\ "buffer" \in {"none", "access", "transfer", "buffer"}
    BY DEF TaskPc
  <2> DEFINE r == At(c, "buf", -1, "buffer")
  <2>2. r.pc = "buf" /\ r.cv = "buffer" /\ r.dd = c.dd /\ r.media = c.media
    BY <2>1, AtFacts
  <2>3. task'[t] = r
    BY <1>1
  <2> HIDE DEF r
  <2>. QED BY <2>2, <2>3 DEF BdWait
<1>3. hist'.stale = hist.stale \ {t}
  BY DEF SleepForBuffer, Inv, TypeOK
<1>4. Near(t, b, {})
  <2>1. \A h \in Groups : group'[h].bds_per_group = group[h].bds_per_group
    BY DEF SleepForBuffer, CountsWithout
  <2>. QED BY <1>1, <1>2, <1>3, <2>1 DEF Near, SleepForBuffer, lists
<1>5. Waiting(b)' = Waiting(b) \ {t}
  BY <1>2, <1>4, NearWaiting
<1>6. QuietAt(b)
  <2>1. Waiting(b) # {} => Waiting(b)' # {}
    BY <1>5, WaitedFacts DEF Waiting
  <2>. QED BY <2>1 DEF QuietAt, SleepForBuffer, lists
<1>7. Signals(t, b, {})
  BY DEF Signals, SleepForBuffer
<1>8. Rightly(t)'
  <2>1. (task[t].cv = "buffer" /\ t \notin hist.stale => Asleep(task[t].dd, task[t].media))'
    <3>0. PICK d, m : d = c.dd /\ m = c.media
      OBVIOUS
    <3>1. Asleep(d, m)' /\ d = task'[t].dd /\ m = task'[t].media
      BY <1>2, <3>0
    <3>. QED BY <3>1 DEF Asleep, InTree, Loose
  <2>. QED BY <1>2, <2>1 DEF Rightly
<1>9. tree' = tree
  BY DEF SleepForBuffer, lists
<1>. QED BY <1>4, <1>6, <1>7, <1>8, <1>9, OneWake

\* A task in wait_for_recycle finds others waiting for the buffer and sleeps for any.
LEMMA RecycleSleepWake ==
  ASSUME Inv, Inv', WakeInv, NEW t \in Tasks, NEW c, NEW b, NEW g, Comes(t, c, b, g),
         b \in InTree(c.dd, c.media), Waited(t, b), SleepForBuffer(t, c, g)
  PROVE  WakeInv'
<1>0. b \in Live /\ b \in Bds /\ c \in TaskRec /\ CountsWithout(t, g)
  BY LiveFacts DEF Comes, Inv, TypeOK
<1>1. PICK d, m : d = c.dd /\ m = c.media
  OBVIOUS
<1>2. bd' = bd /\ tree' = tree
  BY DEF SleepForBuffer, lists
<1>3. InTree(d, m)' = InTree(d, m)
  BY <1>2 DEF InTree
<1>4. \A x \in InTree(d, m) : x = b
  BY <1>1 DEF InTree, Inv, KeysInv
<1>5. Waiting(b)' # {}
  <2>1. PICK u \in Tasks \ {t} : task[u].pc \in BdWait /\ task[u].bd = b
    BY DEF Waited
  <2>2. At(c, "buf", -1, "buffer") \in TaskRec /\ task \in TaskFun
    <3>1. task \in TaskFun
      BY DEF Inv, TypeOK
    <3>2. At(c, "buf", -1, "buffer") \in TaskRec
      <4>1. "buf" \in TaskPc /\ -1 \in Int /\ "buffer" \in {"none", "access", "transfer", "buffer"}
        BY DEF TaskPc
      <4>. QED BY <1>0, <4>1, AtFacts
    <3>. QED BY <3>1, <3>2
  <2>3. task'[u] = task[u]
    BY <2>2, PlainStep DEF SleepForBuffer
  <2>4. u \in Waiting(b)'
    BY <2>1, <2>3 DEF Waiting
  <2>. QED BY <2>4
<1>6. Asleep(d, m)'
  <2>1. \A x \in Resting' : x \in InTree(d, m)' => Waiting(x)' # {}
    BY <1>3, <1>4, <1>5
  <2>2. InTree(d, m)' # {}
    BY <1>1, <1>3
  <2>. QED BY <2>1, <2>2 DEF Asleep
<1>7. task[t].pc \in BdWait => task[t].bd = b /\ Waited(t, b)
  BY DEF Comes
<1>. QED BY <1>0, <1>1, <1>6, <1>7, SleepForBufferWake

\* A buffer of the wrong size is made free, and whoever waits for any buffer is woken.
LEMMA RecycledWake ==
  ASSUME Inv, Inv', WakeInv, NEW t \in Tasks, NEW c, NEW b, NEW g, Comes(t, c, b, g),
         Recycled(t, c, b, g)
  PROVE  WakeInv'
<1>0. b \in Live /\ b \in Bds /\ c \in TaskRec /\ CountsWithout(t, g) /\ bd \in BdFun /\ task \in TaskFun
  BY LiveFacts DEF Comes, Inv, TypeOK
<1>1. At(c, "search", -1, "none") \in TaskRec
  BY <1>0, AtFacts DEF TaskPc
<1>2. PICK r, k : r = At(c, "search", -1, "none") /\ k = [task EXCEPT ![t] = r]
  OBVIOUS
<1>3. r \in TaskRec /\ r.pc = "search" /\ r.cv = "none"
  <2>1. At(c, "search", -1, "none").pc = "search" /\ At(c, "search", -1, "none").cv = "none"
    BY <1>0, AtFacts DEF TaskPc
  <2>. QED BY <1>1, <1>2, <2>1
<1>4. task' = Woken({"buffer"}, k)
  BY <1>2 DEF Recycled
<1>5. PICK cvs : cvs = {"buffer"}
  OBVIOUS
<1>6. Others(t, cvs)
  BY <1>0, <1>2, <1>3, <1>4, <1>5, OthersWoken
<1>7. task'[t].pc = "search" /\ task'[t].cv = "none"
  <2>1. task'[t].pc = r.pc
    BY <1>0, <1>2, <1>3, <1>4, <1>5, OthersWoken
  <2>2. task'[t].cv = IF r.cv \in cvs THEN "none" ELSE r.cv
    BY <1>0, <1>2, <1>3, <1>4, <1>5, OthersWoken
  <2>. QED BY <1>3, <2>1, <2>2
<1>8. \A x \in Bds : /\ bd'[x].state = IF x \in {b} THEN "FREE" ELSE bd[x].state
                     /\ bd'[x].dd = bd[x].dd /\ bd'[x].block = bd[x].block
  BY <1>0, SetStateFacts DEF Recycled, States
<1>9. Near(t, b, cvs)
  <2>1. \A h \in Groups : group'[h].bds_per_group = group[h].bds_per_group
    BY <1>0 DEF Recycled, CountsWithout
  <2>2. /\ tree' = tree \ {b} /\ dev' = dev /\ hist' = hist
        /\ task[t].pc \in BdWait => task[t].bd = b
    BY DEF Recycled, Comes
  <2>3. "search" \notin BdWait
    BY DEF BdWait
  <2>. QED BY <1>6, <1>7, <1>8, <2>1, <2>2, <2>3 DEF Near
<1>10. Signals(t, b, cvs)
  BY DEF Recycled, Signals, Access, Transferring
<1>11. ~Waited(t, b)
  BY DEF Recycled
<1>12. Rightly(t)'
  BY <1>7, Awake
<1>. QED BY <1>0, <1>5, <1>9, <1>10, <1>11, <1>12, OneWake

\* rtems_bdbuf_wait_for_recycle loses no wake-up.
LEMMA WaitForRecycleWake ==
  ASSUME Inv, Inv', WakeInv, NEW t \in Tasks, NEW c, NEW b, NEW g, Comes(t, c, b, g),
         b \in InTree(c.dd, c.media), WaitForRecycle(t, c, b, g)
  PROVE  WakeInv'
<1>0. b \in Bds /\ bd \in BdFun
  BY LiveFacts DEF Comes, Inv, TypeOK
<1>1. CASE Waited(t, b) /\ SleepForBuffer(t, c, g)
  BY <1>1, RecycleSleepWake
<1>2. CASE Recycled(t, c, b, g)
  BY <1>2, RecycledWake
<1>3. CASE Fatal
  BY <1>3, FatalWake
<1>4. CASE /\ bd[b].state \in Access
           /\ Sleep(t, c, "rec", b, "access", g)
           /\ UNCHANGED <<bd, lists, fatal>>
  BY <1>4, SleepWake DEF BdWait, lists
<1>5. CASE /\ bd[b].state \in Transferring
           /\ Sleep(t, c, "rec", b, "transfer", g)
           /\ UNCHANGED <<bd, lists, fatal>>
  BY <1>5, SleepWake DEF BdWait, lists
<1>6. CASE /\ bd[b].state = "MODIFIED"
           /\ bd' = SetState(bd, {b}, "SYNC")
           /\ Sleep(t, c, "rec", b, "transfer", g)
           /\ tree' = tree
  <2>1. \A x \in Bds : /\ bd'[x].state = IF x \in {b} THEN "SYNC" ELSE bd[x].state
                       /\ bd'[x].dd = bd[x].dd /\ bd'[x].block = bd[x].block
    BY <1>0, <1>6, SetStateFacts DEF States, Transferring
  <2>2. bd'[b].state \in Transferring /\ bd[b].state \notin Access \cup Transferring
    BY <1>0, <1>6, <2>1 DEF Transferring, Access
  <2>. QED BY <1>6, <2>1, <2>2, SleepWake DEF BdWait
<1>7. bd[b].state # "FREE"
  BY DEF Comes
<1>. QED BY <1>1, <1>2, <1>3, <1>4, <1>5, <1>6, <1>7 DEF WaitForRecycle, Recycled

\* The buffer x.b has been taken off the LRU list for block m of device d.
Seized(x, d, m) ==
    /\ bd'[x.b].dd = d /\ bd'[x.b].block = m /\ bd'[x.b].state \in {"ACCESS_EMPTY", "TRANSFER"}
    /\ \A y \in Bds \ {x.b} :
         /\ y \notin x.fresh => bd'[y].state = bd[y].state
         /\ bd'[y].dd = bd[y].dd /\ bd'[y].block = bd[y].block
    /\ \A y : Waiting(y)' = Waiting(y)
    /\ \A h \in Groups : group'[h].bds_per_group = x.group[h].bds_per_group
    /\ tree' = x.tree \cup {x.b}
    /\ hist'.stale = hist.stale
    /\ \A e \in Devs : dev'[e].bds_per_group = dev[e].bds_per_group

\* Taking a buffer off the LRU list makes none usable unless a group was cut up.
LEMMA SeizedQuiet ==
  ASSUME Inv, Inv', NEW x, NEW d \in Devs, NEW m, NEW O, Taken(x, d, O), Seized(x, d, m), x.fresh = {}
  PROVE  Quiet
<1> DEFINE b == x.b
           g == GroupOf(b)
           n == dev[d].bds_per_group
<1>0. /\ group \in GroupFun /\ group' \in GroupFun
      /\ tree \subseteq Bds
      /\ \A h \in Groups : group'[h].bds_per_group \in 1 .. MaxBdsPerGroup
  BY DEF Inv, TypeOK, GroupFun
<1>1. /\ g \in Groups /\ b \notin Live \ O
      /\ \A y \in O \cup {b} : Still(y) /\ GroupOf(y) = g
      /\ LiveIn(g, n) = (LiveIn(g, group[g].bds_per_group) \ O) \cup {b}
      /\ x.tree = tree \ O
      /\ group[g].bds_per_group # n => LiveIn(g, group[g].bds_per_group) \subseteq O
  BY DEF Taken
<1>2. \A h \in Groups : group'[h].bds_per_group = IF h = g THEN n ELSE group[h].bds_per_group
  BY DEF Taken, Seized
<1>3. /\ bd'[b].state \in {"ACCESS_EMPTY", "TRANSFER"}
      /\ \A y \in Bds \ {b} : /\ bd'[y].state = bd[y].state
                              /\ bd'[y].dd = bd[y].dd /\ bd'[y].block = bd[y].block
      /\ \A y : Waiting(y)' = Waiting(y)
      /\ tree' = x.tree \cup {b}
  BY DEF Seized
<1>4. /\ \A y \in Live : y \in Bds /\ y \in LiveIn(GroupOf(y), group[GroupOf(y)].bds_per_group)
      /\ \A y \in Bds : y \in LiveIn(GroupOf(y), group[GroupOf(y)].bds_per_group) => y \in Live
  BY <1>0, LiveFacts
<1>5. /\ \A y \in Live' : y \in Bds /\ y \in LiveIn(GroupOf(y), group'[GroupOf(y)].bds_per_group)
      /\ \A y \in Bds : y \in LiveIn(GroupOf(y), group'[GroupOf(y)].bds_per_group) => y \in Live'
  BY <1>0, NextLive
<1>6. \A y \in Bds : GroupOf(y) \in Groups
  BY GroupFacts
<1> HIDE DEF b, n, g
<1>7. ASSUME NEW y \in Live, y \notin O PROVE y \in Live'
  BY <1>1, <1>2, <1>4, <1>5, <1>6, <1>7
<1>8. ASSUME NEW y \in Live', y # b
      PROVE  /\ y \in Live /\ y \in Bds
             /\ group'[GroupOf(y)].bds_per_group = group[GroupOf(y)].bds_per_group
  <2>1. y \in Bds /\ y \in LiveIn(GroupOf(y), group'[GroupOf(y)].bds_per_group) /\ GroupOf(y) \in Groups
    BY <1>5, <1>6, <1>8
  <2>2. CASE GroupOf(y) # g
    BY <1>2, <1>4, <2>1, <2>2
  <2>3. CASE GroupOf(y) = g
    <3>1. y \in LiveIn(g, group[g].bds_per_group) \ O
      BY <1>1, <1>2, <1>8, <2>1, <2>3
    <3>2. group[g].bds_per_group = n
      BY <1>1, <3>1
    <3>. QED BY <1>1, <1>2, <1>4, <2>1, <2>3, <3>1, <3>2
  <2>. QED BY <2>2, <2>3
<1>9. \A y \in O \cup {b} : Waiting(y) = {} /\ bd[y].state \in {"FREE", "CACHED"} /\ y \in Bds
  BY <1>1 DEF Still
<1>10. ASSUME NEW y \in Bds, Claim(y) PROVE Claim(y)'
  <2>1. y \notin O \cup {b} /\ y \in Live
    BY <1>9, <1>10 DEF Claim, InUse, Access, Transferring
  <2>2. y \in Live'
    BY <1>7, <2>1
  <2>. QED BY <1>3, <1>10, <2>1, <2>2 DEF Claim
<1>11. ASSUME NEW y \in Resting'
       PROVE  /\ y \in Resting /\ y \in Bds /\ y # b
              /\ group'[GroupOf(y)].bds_per_group = group[GroupOf(y)].bds_per_group
  <2>1. y \in Live' /\ bd'[y].state \in {"FREE", "CACHED"}
    BY <1>11 DEF Resting, In
  <2>2. y # b
    BY <1>3, <2>1
  <2>3. y \in Live /\ y \in Bds /\ group'[GroupOf(y)].bds_per_group = group[GroupOf(y)].bds_per_group
    BY <1>8, <2>1, <2>2
  <2>. QED BY <1>3, <2>1, <2>2, <2>3 DEF Resting, In
<1>12. ASSUME NEW y \in tree, y \notin O \cup {b} PROVE SameKey(y)
  BY <1>0, <1>1, <1>3, <1>12 DEF SameKey
<1>13. ASSUME NEW y \in Resting', y \in tree' PROVE SameKey(y)
  <2>1. y # b
    BY <1>11, <1>13
  <2>2. y \in tree /\ y \notin O
    BY <1>1, <1>3, <1>13, <2>1
  <2>. QED BY <1>12, <2>1, <2>2
<1>14. ASSUME NEW y \in tree, y \in O \cup {b} PROVE y \in Resting /\ Waiting(y) = {}
  <2>1. BufferInv(y)
    BY <1>0, <1>14 DEF Inv
  <2>. QED BY <1>9, <1>14, <2>1 DEF BufferInv, Resting, In
<1>. QED BY <1>10, <1>11, <1>12, <1>13, <1>14 DEF Quiet

\* Taking a buffer off the LRU list loses no wake-up.
LEMMA SeizedWake ==
  ASSUME Inv, Inv', WakeInv, NEW x, NEW d \in Devs, NEW m, NEW O, Taken(x, d, O), Seized(x, d, m),
         NEW t, NEW cvs, Others(t, cvs), x.fresh # {} => "buffer" \in cvs, t \in Tasks => Rightly(t)'
  PROVE  WakeInv'
<1>1. \A y \in O \cup x.fresh \cup {x.b} : Waiting(y) = {}
  BY DEF Taken, Still
<1>2. ASSUME NEW y \in Bds, Waiting(y) \ {t} # {}
      PROVE  y \notin O \cup x.fresh \cup {x.b} /\ bd'[y].state = bd[y].state
  <2>1. y \notin O \cup x.fresh \cup {x.b}
    BY <1>1, <1>2
  <2>. QED BY <2>1 DEF Seized
<1>3. \A y \in Bds : Signals(t, y, cvs)
  BY <1>2 DEF Signals
<1>4. \A y \in Bds : Keeps(t, y)
  <2>1. x.tree = tree \ O /\ tree' = x.tree \cup {x.b}
    BY DEF Taken, Seized
  <2>. QED BY <1>2, <2>1 DEF Keeps, SameKey, Seized
<1>5. StaleKept(t)
  <2>. SUFFICES ASSUME NEW u \in Tasks \ {t}, task[u].cv = "buffer", u \notin hist'.stale
               PROVE  u \notin hist.stale /\ dev'[task[u].dd].bds_per_group = dev[task[u].dd].bds_per_group
    BY DEF StaleKept
  <2>1. task[u].pc = "buf"
    BY DEF WakeInv, Rightly
  <2>2. task[u].dd \in Devs
    BY <2>1 DEF Inv, TasksInv
  <2>. QED BY <2>2 DEF Seized
<1>6. "buffer" \in cvs \/ Quiet
  BY SeizedQuiet
<1>. QED BY <1>3, <1>4, <1>5, <1>6, WakeStep

\* A task takes the first usable buffer of the LRU list, and no wake-up is lost.
LEMMA TakeWake ==
  ASSUME Inv, Inv', WakeInv, NEW t \in Tasks, NEW c \in TaskRec, c.dd \in Devs,
         task[t].pc \notin OwnPc \cup BdWait \cup {"reading"},
         NEW x, NEW O, Taken(x, c.dd, O), NEW cvs, x.fresh # {} => "buffer" \in cvs,
         tree' = x.tree \cup {x.b},
         Grant(t, c, x.b, SetupEmpty(x, c.dd, c.media, "EMPTY"), x.group, cvs)
  PROVE  WakeInv'
<1> DEFINE b == x.b
           f == SetupEmpty(x, c.dd, c.media, "EMPTY")
<1>0. TypeOK /\ bd \in BdFun /\ c.media \in Int /\ "EMPTY" \in States /\ task \in TaskFun
  BY DEF Inv, TypeOK, States, TaskRec
<1>1. /\ b \in Bds /\ x.group \in GroupFun
      /\ \A h \in Groups : x.group[h].bds_per_group \in 1 .. MaxBdsPerGroup
  BY DEF Taken, Still, GroupFun
<1>2. /\ f \in BdFun
      /\ f[b].dd = c.dd /\ f[b].block = c.media /\ f[b].state = "EMPTY"
      /\ \A y \in Bds \ {b} :
              /\ f[y].state = IF y \in x.fresh THEN "FREE" ELSE bd[y].state
              /\ f[y].dd = bd[y].dd /\ f[y].block = bd[y].block
  BY <1>0, <1>1, SetupEmptyFacts
<1> HIDE DEF f
<1>3. /\ \A y \in Bds \ {b} : bd'[y] = f[y]
      /\ bd'[b].dd = f[b].dd /\ bd'[b].block = f[b].block
      /\ \/ bd'[b].state = "TRANSFER" /\ task'[t].pc = "reading"
         \/ bd'[b].state = "ACCESS_EMPTY" /\ task'[t].pc = "holding"
      /\ group' = Users(x.group, GroupOf(b), 1)
      /\ OthersKept(t)
      /\ task'[t].bd = b /\ task'[t].cv = "none"
      /\ \A u \in Tasks \ {t} : task'[u].cv = IF task[u].cv \in cvs THEN "none" ELSE task[u].cv
      /\ \A d \in Devs : dev'[d].bds_per_group = dev[d].bds_per_group
      /\ hist'.stale = hist.stale
  <2>1. Grant(t, c, b, f, x.group, cvs)
    BY DEF f
  <2> DEFINE G == x.group
  <2>2. Grant(t, c, b, f, G, cvs)
    BY <2>1
  <2> HIDE DEF b, G
  <2>3. f[b].state \in {"EMPTY", "CACHED", "MODIFIED"}
    BY <1>2
  <2>. QED BY <1>0, <1>1, <1>2, <2>2, <2>3, GrantFacts DEF G
<1>4. Counted(x.group, b, 1)
  BY <1>1, <1>3, CountedUsers
<1>5. Others(t, cvs)
  BY <1>3 DEF Others, OthersKept
<1>6. \A y : Waiting(y)' = Waiting(y)
  <2>1. task'[t].pc \notin BdWait /\ task[t].pc \notin BdWait
    BY <1>3 DEF BdWait
  <2>. QED BY <1>3, <2>1 DEF Waiting, OthersKept
<1>7. Seized(x, c.dd, c.media)
  BY <1>2, <1>3, <1>4, <1>6 DEF Seized, Counted
<1>8. Rightly(t)'
  BY <1>3, Awake
<1>. QED BY <1>5, <1>7, <1>8, SeizedWake

\* A task that finds neither its block nor a usable buffer has reason to sleep.
LEMMA NothingUsable ==
  ASSUME Inv, NEW t \in Tasks, NEW c \in TaskRec, c.dd \in Devs, \A b : t \notin Waiting(b),
         InTree(c.dd, c.media) = {}, ~HasUsable(t, c.dd), SleepForBuffer(t, c, group)
  PROVE  Asleep(c.dd, c.media)'
<1>0. PICK d, m : d = c.dd /\ m = c.media
  OBVIOUS
<1>1. /\ bd' = bd /\ tree' = tree /\ dev' = dev /\ group' = group
      /\ task' = [task EXCEPT ![t] = At(c, "buf", -1, "buffer")]
  BY DEF SleepForBuffer, lists
<1>2. Resting' = Resting /\ InTree(d, m)' = InTree(d, m)
  BY <1>1 DEF Resting, In, Live, InTree
<1>3. ToSet(lru) = Resting
  BY DEF Inv, ListsInv, IsList, Resting
<1>4. \A b : Waiting(b)' = Waiting(b)
  <2>1. task \in TaskFun
    BY DEF Inv, TypeOK
  <2>2. "buf" \in TaskPc /\ -1 \in Int /\ "buffer" \in {"none", "access", "transfer", "buffer"}
    BY DEF TaskPc
  <2>3. At(c, "buf", -1, "buffer") \in TaskRec /\ At(c, "buf", -1, "buffer").pc = "buf"
    BY <2>2, AtFacts
  <2>4. \A u \in Tasks \ {t} : task'[u] = task[u]
    BY <1>1, <2>1, <2>3, PlainStep
  <2>5. task'[t].pc = "buf"
    BY <1>1, <2>1, <2>3, PlainStep
  <2>6. "buf" \notin BdWait
    BY DEF BdWait
  <2>7. ASSUME NEW b, NEW u \in Tasks PROVE u \in Waiting(b)' <=> u \in Waiting(b)
    <3>1. CASE u = t
      BY <2>5, <2>6, <3>1 DEF Waiting
    <3>2. CASE u # t
      BY <2>4, <3>2 DEF Waiting
    <3>. QED BY <3>1, <3>2
  <2>8. \A b : Waiting(b) \subseteq Tasks /\ Waiting(b)' \subseteq Tasks
    BY DEF Waiting
  <2>. QED BY <2>7, <2>8
<1>5. ASSUME NEW b \in Resting PROVE ~Loose(d, b)
  <2>1. ~Usable(t, d, b)
    BY <1>0, <1>3, <1>5 DEF HasUsable
  <2>2. Waited(t, b) <=> Waiting(b) # {}
    BY WaitedFacts
  <2>. QED BY <2>1, <2>2 DEF Usable, Loose
<1>6. \A b : Loose(d, b)' <=> Loose(d, b)
  BY <1>1, <1>4 DEF Loose
<1>7. Asleep(d, m)'
  BY <1>0, <1>2, <1>5, <1>6 DEF Asleep
<1>. QED BY <1>0, <1>7

\* rtems_bdbuf_get_buffer_for_access, every outcome.
LEMMA SearchWake ==
  ASSUME Inv, Inv', WakeInv, NEW t \in Tasks, NEW c \in TaskRec, c.dd \in Devs,
         task[t].pc \notin OwnPc \cup BdWait \cup {"reading"},
         GetBufferForAccess(t, c)
  PROVE  WakeInv'
<1>0. TypeOK /\ group \in GroupFun /\ CountsWithout(t, group) /\ \A b : t \notin Waiting(b)
  BY WithoutTask DEF Inv, TypeOK, Waiting
<1>1. ASSUME NEW b \in InTree(c.dd, c.media),
             WaitForAccess(t, c, b, group) \/ WaitForRecycle(t, c, b, group)
      PROVE  WakeInv'
  <2>1. b \in tree /\ b \in Bds
    BY <1>0 DEF InTree, TypeOK
  <2>2. BufferInv(b)
    BY <2>1 DEF Inv
  <2>3. Comes(t, c, b, group)
    BY <1>0, <2>1, <2>2 DEF BufferInv, Comes
  <2>4. CASE WaitForAccess(t, c, b, group)
    BY <2>3, <2>4, WaitForAccessWake
  <2>5. CASE WaitForRecycle(t, c, b, group)
    BY <2>3, <2>5, WaitForRecycleWake
  <2>. QED BY <1>1, <2>4, <2>5
<1>2. ASSUME HasUsable(t, c.dd),
             LET x == FromLru(t, c.dd) IN
               IF x.ok
               THEN /\ lru' = x.lru /\ tree' = x.tree \cup {x.b}
                    /\ Grant(t, c, x.b, SetupEmpty(x, c.dd, c.media, "EMPTY"), x.group,
                             IF x.fresh # {} THEN {"buffer"} ELSE {})
                    /\ UNCHANGED <<modified, sync, fatal>>
               ELSE Fatal
      PROVE  WakeInv'
  <2> DEFINE x == FromLru(t, c.dd)
             cvs == IF x.fresh # {} THEN {"buffer"} ELSE {}
  <2>1. PICK O : Taken(x, c.dd, O)
    BY <1>0, <1>2, FromLruFacts
  <2>2. CASE x.ok
    <3>1. /\ tree' = x.tree \cup {x.b}
          /\ Grant(t, c, x.b, SetupEmpty(x, c.dd, c.media, "EMPTY"), x.group, cvs)
      BY <1>2, <2>2
    <3>2. x.fresh # {} => "buffer" \in cvs
      OBVIOUS
    <3> HIDE DEF x, cvs
    <3>. QED BY <2>1, <3>1, <3>2, TakeWake
  <2>3. CASE ~x.ok
    <3>1. Fatal
      BY <1>2, <2>3
    <3>. QED BY <3>1, FatalWake
  <2>. QED BY <2>2, <2>3
<1>3. CASE InTree(c.dd, c.media) = {} /\ ~HasUsable(t, c.dd) /\ SleepForBuffer(t, c, group)
  <2>1. PICK b : b \in Live
    <3>1. 0 \in Groups
      BY BdbufAssumption DEF Groups
    <3>2. FirstBd(0) \in LiveIn(0, group[0].bds_per_group)
      BY <1>0, <3>1, LiveFacts, GroupFacts
    <3>. QED BY <1>0, <3>1, <3>2, LiveFacts
  <2>2. b \in Bds
    BY <1>0, <2>1, LiveFacts
  <2>3. Asleep(c.dd, c.media)'
    BY <1>0, <1>3, NothingUsable
  <2>. QED BY <1>0, <1>3, <2>1, <2>2, <2>3, SleepForBufferWake
<1>. QED BY <1>1, <1>2, <1>3 DEF GetBufferForAccess

\* rtems_bdbuf_get and rtems_bdbuf_read, up to their first sleep.
LEMMA GetWake ==
  ASSUME Inv, Inv', WakeInv, NEW t \in Tasks, NEW op \in {"get", "read"}, NEW d \in Devs,
         NEW k \in 0 .. MediaBlocks - 1, Get(t, op, d, k)
  PROVE  WakeInv'
<1> DEFINE m == k * Span(d)
           c == [task[t] EXCEPT !.op = op, !.dd = d, !.block = k, !.media = m]
<1>1. task[t].pc = "idle" /\ GetBufferForAccess(t, c)
  BY DEF Get
<1>2. TypeOK
  BY DEF Inv
<1>3. k \in Int /\ m \in Int
  <2>1. Span(d) \in Int
    BY <1>2, SpanFacts DEF TypeOK
  <2>. QED BY <2>1, BdbufAssumption
<1> HIDE DEF m
<1>4. c \in TaskRec /\ c.dd = d
  <2>1. task[t] \in TaskRec
    BY <1>2 DEF TypeOK, TaskFun
  <2>. QED BY <1>3, <2>1 DEF TaskRec
<1> HIDE DEF c
<1>5. task[t].pc \notin OwnPc \cup BdWait \cup {"reading"}
  BY <1>1 DEF OwnPc, BdWait
<1>. QED BY <1>1, <1>4, <1>5, SearchWake

\* The searches that follow a wake-up.
LEMMA AgainWake ==
  ASSUME Inv, Inv', WakeInv, NEW t \in Tasks, SearchAgain(t) \/ AccessAgain(t) \/ RecycleAgain(t)
  PROVE  WakeInv'
<1>0. TypeOK /\ task[t] \in TaskRec
  BY DEF Inv, TypeOK, TaskFun
<1>1. CASE SearchAgain(t)
  <2>1. task[t].pc \in {"buf", "search"} /\ GetBufferForAccess(t, task[t])
    BY <1>1 DEF SearchAgain
  <2>2. task[t].dd \in Devs
    BY <2>1 DEF Inv, TasksInv
  <2>3. task[t].pc \notin OwnPc \cup BdWait \cup {"reading"}
    BY <2>1 DEF OwnPc, BdWait
  <2> DEFINE c == task[t]
  <2>4. c \in TaskRec /\ c.dd \in Devs /\ GetBufferForAccess(t, c)
    BY <1>0, <2>1, <2>2
  <2> HIDE DEF c
  <2>. QED BY <2>3, <2>4, SearchWake
<1>2. ASSUME task[t].pc \in {"acc", "rec"}
      PROVE  Comes(t, task[t], task[t].bd, AfterWait(t))
  <2>1. task[t].pc \in BdWait /\ task[t].pc \notin OwnPc \cup {"reading"}
    BY <1>2 DEF BdWait, OwnPc
  <2>2. PICK b \in Bds : b = task[t].bd
    BY <2>1 DEF Inv, TasksInv
  <2>3. t \in Waiting(b) /\ BufferInv(b)
    BY <2>1, <2>2 DEF Waiting, Inv
  <2>4. b \in Live /\ bd[b].state # "FREE"
    BY <2>3 DEF BufferInv
  <2>5. task[t].dd \in Devs
    BY <1>2 DEF Inv, TasksInv
  <2>6. CountsWithout(t, AfterWait(t))
    BY <2>1, WithoutTask
  <2>. QED BY <1>0, <2>1, <2>2, <2>4, <2>5, <2>6 DEF Comes
<1> DEFINE c == task[t]
           b == task[t].bd
           g == AfterWait(t)
<1>3. CASE AccessAgain(t)
  <2>1. task[t].pc = "acc" /\ WaitForAccess(t, c, b, g)
    BY <1>3 DEF AccessAgain
  <2>2. Comes(t, c, b, g)
    BY <1>2, <2>1
  <2> HIDE DEF c, b, g
  <2>. QED BY <2>1, <2>2, WaitForAccessWake
<1>4. CASE RecycleAgain(t)
  <2>1. task[t].pc = "rec" /\ WaitForRecycle(t, c, b, g)
    BY <1>4 DEF RecycleAgain
  <2>2. Comes(t, c, b, g)
    BY <1>2, <2>1
  <2>3. b \in InTree(c.dd, c.media)
    BY <2>1 DEF WakeInv, Rightly
  <2> HIDE DEF c, b, g
  <2>. QED BY <2>1, <2>2, <2>3, WaitForRecycleWake
<1>. QED BY <1>1, <1>3, <1>4

\* Nothing but buffer b changes, and b keeps its key.
Around(b) ==
    /\ \A x \in Bds \ {b} : bd'[x].state = bd[x].state
    /\ \A x \in Bds : bd'[x].dd = bd[x].dd /\ bd'[x].block = bd[x].block
    /\ \A g \in Groups : group'[g].bds_per_group = group[g].bds_per_group
    /\ \A d \in Devs : dev'[d].bds_per_group = dev[d].bds_per_group
    /\ hist'.stale = hist.stale
    /\ tree' = tree \/ tree' = tree \ {b}
\* Those who wait for b are woken when its state changes, or else those who wait for any buffer.
Calls(t, b, cvs) ==
    /\ Waited(t, b) => /\ bd[b].state \in Access => bd'[b].state \in Access \/ "access" \in cvs
                       /\ bd[b].state \in Transferring =>
                              bd'[b].state \in Transferring \/ "transfer" \in cvs
                       /\ tree' = tree
    /\ ~Waited(t, b) => "buffer" \in cvs \/ (bd'[b].state \in InUse /\ tree' = tree)

\* A task leaves buffer b, or has it for itself.
LEMMA LeaveWake ==
  ASSUME Inv, Inv', WakeInv, NEW t \in Tasks, NEW b \in Bds, b \in Live,
         task[t].pc \in BdWait => task[t].bd = b, Around(b), NEW cvs, Calls(t, b, cvs),
         Others(t, cvs), task'[t].cv = "none", task'[t].pc \notin BdWait
  PROVE  WakeInv'
<1>1. Near(t, b, cvs)
  <2>1. \A x \in Bds \ {b} : x \in tree' <=> x \in tree
    BY DEF Around
  <2>2. hist.stale \ {t} \subseteq hist'.stale
    BY DEF Around
  <2>. QED BY <2>1, <2>2 DEF Near, Around
<1>2. Waiting(b)' = Waiting(b) \ {t}
  BY <1>1, NearWaiting
<1>3. Waited(t, b) <=> Waiting(b) \ {t} # {}
  BY WaitedFacts
<1>4. Signals(t, b, cvs)
  BY <1>3 DEF Calls, Signals
<1>5. "buffer" \in cvs \/ QuietAt(b)
  <2>1. CASE Waited(t, b)
    BY <1>2, <1>3, <2>1 DEF Calls, QuietAt
  <2>2. CASE ~Waited(t, b)
    <3>1. "buffer" \in cvs \/ (bd'[b].state \in InUse /\ tree' = tree)
      BY <2>2 DEF Calls
    <3>. QED BY <3>1 DEF QuietAt, InUse, Access, Transferring
  <2>. QED BY <2>1, <2>2
<1>6. Waited(t, b) /\ b \in tree => b \in tree'
  BY DEF Calls
<1>7. task'[t].pc # "rec"
  BY DEF BdWait
<1>8. Rightly(t)'
  BY <1>7, Awake
<1>. QED BY <1>1, <1>4, <1>5, <1>6, <1>8, OneWake

\* wake(), for one buffer: those who wait for it, or else those who wait for any.
LEMMA WakeForOne ==
  ASSUME NEW t, NEW b, NEW cv, NEW tk
  PROVE  \E cvs : /\ WakeFor(t, {b}, cv, tk) = Woken(cvs, tk)
                  /\ Waited(t, b) => cv \in cvs
                  /\ ~Waited(t, b) => "buffer" \in cvs
<1> DEFINE S == {b}
           cvs == (IF \E x \in S : Waited(t, x) THEN {cv} ELSE {})
                  \cup (IF \E x \in S : ~Waited(t, x) THEN {"buffer"} ELSE {})
<1>1. WakeFor(t, S, cv, tk) = Woken(cvs, tk)
  BY DEF WakeFor
<1>2. CASE Waited(t, b)
  BY <1>1, <1>2
<1>3. CASE ~Waited(t, b)
  BY <1>1, <1>3
<1>. QED BY <1>2, <1>3

\* A task leaves buffer b, or has it for itself, and wakes those on cvs.
LEMMA PartWake ==
  ASSUME Inv, Inv', WakeInv, NEW t \in Tasks, NEW b \in Bds, b \in Live,
         task[t].pc \in BdWait => task[t].bd = b, Around(b), NEW cvs, Calls(t, b, cvs),
         NEW r \in TaskRec, r.cv = "none", r.pc \notin BdWait,
         NEW k, k = [task EXCEPT ![t] = r], task' = Woken(cvs, k)
  PROVE  WakeInv'
<1>0. task \in TaskFun
  BY DEF Inv, TypeOK
<1>1. Others(t, cvs) /\ task'[t].pc = r.pc
  BY <1>0, OthersWoken
<1>2. task'[t].cv = IF r.cv \in cvs THEN "none" ELSE r.cv
  BY <1>0, OthersWoken
<1>3. task'[t].cv = "none" /\ task'[t].pc \notin BdWait
  BY <1>1, <1>2
<1>. QED BY <1>1, <1>3, LeaveWake

\* A release counts a version and leaves who waits alone.
LEMMA LatestStale ==
  ASSUME TypeOK, NEW b, hist' = Latest(b)
  PROVE  hist'.stale = hist.stale
<1> DEFINE l == [hist.latest EXCEPT ![bd[b].dd] =
                    [m \in DOMAIN @ |-> IF m \in Covers(b) THEN hist.version + 1 ELSE @[m]]]
           o == hist.lost \ {<<bd[b].dd, m>> : m \in Covers(b)}
           n == hist.version + 1
<1>1. hist' = [hist EXCEPT !.version = n, !.latest = l, !.lost = o]
  BY DEF Latest
<1>2. HistRec(hist)
  BY DEF TypeOK, HistRec
<1> HIDE DEF l, o, n
<1>. QED BY <1>1, <1>2, Zenon DEF HistRec

\* A clean buffer goes to the LRU list, and wake() is called.
LEMMA ToLruWake ==
  ASSUME Inv, Inv', WakeInv, NEW t, NEW b, Owning(t, b), ToLru(t, b), Elsewhere, hist' = hist
  PROVE  WakeInv'
<1>0. /\ bd' = SetState(bd, {b}, "CACHED")
      /\ group' = Users(group, GroupOf(b), -1)
      /\ task' = WakeFor(t, {b}, "access", [task EXCEPT ![t] = Idle(@)])
      /\ tree' = tree
  BY DEF ToLru
<1>1. /\ b \in Live /\ bd[b].state \in Access /\ bd \in BdFun /\ group \in GroupFun
      /\ task[t] \in TaskRec
  BY OwningFacts
<1>2. t \in Tasks /\ b \in Bds /\ task[t].pc \notin BdWait
  BY DEF Owning, OwnPc, BdWait
<1> DEFINE r == Idle(task[t])
           k == [task EXCEPT ![t] = r]
<1>3. PICK cvs : /\ task' = Woken(cvs, k)
                 /\ Waited(t, b) => "access" \in cvs
                 /\ ~Waited(t, b) => "buffer" \in cvs
  <2>1. task' = WakeFor(t, {b}, "access", k)
    BY <1>0
  <2> HIDE DEF k
  <2>. QED BY <2>1, WakeForOne
<1>4. r \in TaskRec /\ r.pc = "idle" /\ r.cv = "none" /\ k = [task EXCEPT ![t] = r]
  BY <1>1, IdleFacts
<1>5. "CACHED" \in States /\ -1 \in Int
  BY DEF States
<1>6. \A x \in Bds : /\ bd'[x].state = IF x \in {b} THEN "CACHED" ELSE bd[x].state
                     /\ bd'[x].dd = bd[x].dd /\ bd'[x].block = bd[x].block
  BY <1>0, <1>1, <1>5, SetStateFacts
<1>7. Counted(group, b, -1)
  BY <1>0, <1>1, <1>2, <1>5, CountedUsers
<1>8. Around(b)
  BY <1>0, <1>6, <1>7 DEF Around, Counted, Elsewhere
<1>9. Calls(t, b, cvs)
  <2>1. bd[b].state \notin Transferring
    BY <1>1 DEF Access, Transferring
  <2>. QED BY <1>0, <1>3, <2>1 DEF Calls
<1> HIDE DEF r, k
<1>10. r.pc \notin BdWait
  BY <1>4 DEF BdWait
<1>. QED BY <1>1, <1>2, <1>3, <1>4, <1>8, <1>9, <1>10, PartWake

\* A buffer without contents is discarded, and wake() is called.
LEMMA DiscardAfterAccessWake ==
  ASSUME Inv, Inv', WakeInv, NEW t, NEW b, Owning(t, b), DiscardAfterAccess(t, b), Elsewhere,
         hist' = hist
  PROVE  WakeInv'
<1>0. /\ bd' = Discard(t, bd, {b})
      /\ tree' = tree \ Unwaited(t, {b})
      /\ group' = Users(group, GroupOf(b), -1)
      /\ task' = WakeFor(t, {b}, "access", [task EXCEPT ![t] = Idle(@)])
  BY DEF DiscardAfterAccess
<1>1. /\ b \in Live /\ bd[b].state \in Access /\ bd \in BdFun /\ group \in GroupFun
      /\ task[t] \in TaskRec
  BY OwningFacts
<1>2. t \in Tasks /\ b \in Bds /\ task[t].pc \notin BdWait
  BY DEF Owning, OwnPc, BdWait
<1> DEFINE r == Idle(task[t])
           k == [task EXCEPT ![t] = r]
<1>3. PICK cvs : /\ task' = Woken(cvs, k)
                 /\ Waited(t, b) => "access" \in cvs
                 /\ ~Waited(t, b) => "buffer" \in cvs
  <2>1. task' = WakeFor(t, {b}, "access", k)
    BY <1>0
  <2> HIDE DEF k
  <2>. QED BY <2>1, WakeForOne
<1>4. r \in TaskRec /\ r.pc = "idle" /\ r.cv = "none" /\ k = [task EXCEPT ![t] = r]
  BY <1>1, IdleFacts
<1>5. \A x \in Bds : /\ bd'[x].dd = bd[x].dd /\ bd'[x].block = bd[x].block
                     /\ x = b \/ bd'[x].state = bd[x].state
  <2> DEFINE X == {b}
  <2>0. bd \in BdFun /\ bd' = Discard(t, bd, X)
    BY <1>0, <1>1
  <2> HIDE DEF X
  <2>2. \A x \in Bds : bd'[x].dd = bd[x].dd /\ bd'[x].block = bd[x].block
    BY <2>0, DiscardFacts
  <2>3. \A x \in Bds : x \in X \/ bd'[x].state = bd[x].state
    BY <2>0, DiscardFacts
  <2>. QED BY <2>2, <2>3 DEF X
<1>6. \A x : x \in Unwaited(t, {b}) <=> x \in {b} /\ ~Waited(t, x)
  BY UnwaitedFacts
<1>7. tree' = IF Waited(t, b) THEN tree ELSE tree \ {b}
  BY <1>0, <1>6
<1>8. -1 \in Int
  OBVIOUS
<1>9. Counted(group, b, -1)
  BY <1>0, <1>1, <1>2, <1>8, CountedUsers
<1>10. Around(b)
  BY <1>5, <1>7, <1>9 DEF Around, Counted, Elsewhere
<1>11. Calls(t, b, cvs)
  <2>1. bd[b].state \notin Transferring
    BY <1>1 DEF Access, Transferring
  <2>. QED BY <1>3, <1>7, <2>1 DEF Calls
<1> HIDE DEF r, k
<1>12. r.pc \notin BdWait
  BY <1>4 DEF BdWait
<1>. QED BY <1>1, <1>2, <1>3, <1>4, <1>10, <1>11, <1>12, PartWake

\* A dirty buffer goes to the modified list; it rests there, and those who wait for it are woken.
LEMMA ToModifiedWake ==
  ASSUME Inv, Inv', WakeInv, NEW t, NEW b, Owning(t, b), NEW f \in BdFun,
         \A x \in Bds : f[x].state = bd[x].state /\ f[x].dd = bd[x].dd /\ f[x].block = bd[x].block,
         ToModified(t, b, f), Elsewhere, hist'.stale = hist.stale
  PROVE  WakeInv'
<1> DEFINE e == IF bd[b].state \in {"ACCESS_CACHED", "ACCESS_EMPTY"} THEN BlockHold ELSE f[b].hold
           cvs == IF Waited(t, b) THEN {"access"} ELSE {}
           r == Idle(task[t])
           k == [task EXCEPT ![t] = r]
           y == [f[b] EXCEPT !.state = "MODIFIED", !.hold = e]
<1>1. /\ b \in Live /\ bd[b].state \in Access /\ bd \in BdFun /\ group \in GroupFun
      /\ task[t] \in TaskRec
  BY OwningFacts
<1>2. t \in Tasks /\ b \in Bds /\ task[t].pc \notin BdWait
  BY DEF Owning, OwnPc, BdWait
<1>3. f[b] \in BdRec
  BY <1>2 DEF BdFun
<1>0. bd' = [f EXCEPT ![b] = y] /\ task' = Woken(cvs, k) /\ UNCHANGED <<tree, group>>
  <2>1. bd' = [f EXCEPT ![b].state = "MODIFIED", ![b].hold = IF bd[b].state \in {"ACCESS_CACHED", "ACCESS_EMPTY"} THEN BlockHold ELSE @]
    BY DEF ToModified
  <2>2. bd' = [f EXCEPT ![b] = y]
    BY <1>2, <1>3, <2>1 DEF BdFun, BdRec
  <2>. QED BY <2>2 DEF ToModified
<1>4. r \in TaskRec /\ r.pc = "idle" /\ r.cv = "none" /\ k = [task EXCEPT ![t] = r]
  BY <1>1, IdleFacts
<1>5. y.state = "MODIFIED" /\ y.dd = f[b].dd /\ y.block = f[b].block
  <2> HIDE DEF e
  <2>. QED BY <1>3 DEF BdRec
<1>c. (Waited(t, b) => "access" \in cvs) /\ r.pc \notin BdWait
  BY <1>4 DEF BdWait
<1> HIDE DEF y, e, cvs
<1>6. /\ bd'[b].state = "MODIFIED" /\ \A x \in Bds \ {b} : bd'[x].state = bd[x].state
      /\ \A x \in Bds : bd'[x].dd = bd[x].dd /\ bd'[x].block = bd[x].block
  BY <1>0, <1>2, <1>5 DEF BdFun
<1>7. Around(b)
  BY <1>0, <1>6 DEF Around, Elsewhere
<1>8. Calls(t, b, cvs)
  <2>1. bd[b].state \notin Transferring /\ bd'[b].state \in InUse
    BY <1>1, <1>6 DEF Access, Transferring, InUse
  <2>. QED BY <1>0, <1>c, <2>1 DEF Calls
<1> HIDE DEF r, k
<1>. QED BY <1>0, <1>1, <1>2, <1>4, <1>c, <1>7, <1>8, PartWake

\* A task that keeps its buffer and goes on to the next point wakes nobody.
LEMMA KeepWake ==
  ASSUME Inv, Inv', WakeInv, NEW t, NEW b, Owning(t, b), NEW pc \in OwnPc,
         task' = [task EXCEPT ![t].pc = pc], tree' = tree, group' = group,
         \A x \in Bds : bd'[x].state = bd[x].state /\ bd'[x].dd = bd[x].dd /\ bd'[x].block = bd[x].block,
         Elsewhere, hist'.stale = hist.stale
  PROVE  WakeInv'
<1>1. /\ b \in Live /\ bd[b].state \in Access /\ task[t] \in TaskRec
  BY OwningFacts
<1>2. /\ t \in Tasks /\ b \in Bds /\ task[t].pc \notin BdWait \cup {"buf"} /\ pc \notin BdWait
      /\ pc \in TaskPc
  BY DEF Owning, OwnPc, BdWait, TaskPc
<1>3. task[t].cv = "none" /\ task \in TaskFun
  BY <1>2, AwakeAlready DEF Inv, TypeOK
<1> DEFINE r == [task[t] EXCEPT !.pc = pc]
<1>4. r \in TaskRec /\ r.pc = pc /\ r.cv = "none"
  BY <1>1, <1>2, <1>3 DEF TaskRec
<1>5. task' = [task EXCEPT ![t] = r]
  OBVIOUS
<1> HIDE DEF r
<1>6. Others(t, {}) /\ task'[t] = r
  BY <1>2, <1>3, <1>4, <1>5, OthersPlain
<1>7. Around(b)
  BY DEF Around, Elsewhere
<1>8. Calls(t, b, {})
  <2>1. bd[b].state \notin Transferring /\ bd'[b].state \in Access /\ bd'[b].state \in InUse
    BY <1>1, <1>2 DEF Access, Transferring, InUse
  <2>. QED BY <2>1 DEF Calls
<1>. QED BY <1>1, <1>2, <1>4, <1>6, <1>7, <1>8, LeaveWake

\* rtems_bdbuf_add_to_modified_list_after_access loses no wake-up.
LEMMA AddToModifiedWake ==
  ASSUME Inv, Inv', WakeInv, NEW t, NEW b, Owning(t, b), NEW f \in BdFun,
         \A x \in Bds : f[x].state = bd[x].state /\ f[x].dd = bd[x].dd /\ f[x].block = bd[x].block,
         AddToModified(t, b, f), Elsewhere, hist'.stale = hist.stale
  PROVE  WakeInv'
<1>1. CASE /\ task' = [task EXCEPT ![t].pc = "wantsync"]
           /\ bd' = f
           /\ UNCHANGED <<lists, group>>
  <2>1. "wantsync" \in OwnPc /\ tree' = tree /\ group' = group
    BY <1>1 DEF OwnPc, lists
  <2>2. \A x \in Bds : bd'[x].state = bd[x].state /\ bd'[x].dd = bd[x].dd /\ bd'[x].block = bd[x].block
    BY <1>1
  <2>. QED BY <1>1, <2>1, <2>2, KeepWake
<1>2. CASE ToModified(t, b, f)
  BY <1>2, ToModifiedWake
<1>. QED BY <1>1, <1>2 DEF AddToModified

\* rtems_bdbuf_release and rtems_bdbuf_release_modified, in all their parts.
LEMMA ReleaseWake ==
  ASSUME Inv, Inv', WakeInv, NEW t \in Tasks,
         Release(t) \/ ReleaseModified(t) \/ PassSyncLock(t) \/ AddModified(t)
  PROVE  WakeInv'
<1>0. TypeOK /\ bd \in BdFun /\ hist.version \in Int
  BY DEF Inv, TypeOK
<1>1. Elsewhere
  BY DEF Release, ReleaseModified, PassSyncLock, AddModified, Elsewhere, io
<1>2. task[t].pc \in OwnPc
  BY DEF Release, ReleaseModified, PassSyncLock, AddModified, Holding, OwnPc
<1>3. PICK b \in Bds : b = task[t].bd
  BY <1>2 DEF Inv, TasksInv
<1>4. Owning(t, b)
  BY <1>2, <1>3 DEF Owning
<1>6. CASE Release(t)
  <2>1. hist' = hist
    BY <1>6 DEF Release
  <2>2. CASE ToLru(t, b)
    BY <1>1, <1>4, <2>1, <2>2, ToLruWake
  <2>3. CASE DiscardAfterAccess(t, b)
    BY <1>1, <1>4, <2>1, <2>3, DiscardAfterAccessWake
  <2>4. CASE AddToModified(t, b, bd)
    <3>1. hist'.stale = hist.stale
      BY <2>1
    <3>. QED BY <1>0, <1>1, <1>4, <2>4, <3>1, AddToModifiedWake
  <2>. QED BY <1>3, <1>6, <2>2, <2>3, <2>4 DEF Release
<1>7. CASE ReleaseModified(t)
  <2>1. CASE DiscardAfterAccess(t, b) /\ hist' = hist
    BY <1>1, <1>4, <2>1, DiscardAfterAccessWake
  <2>2. CASE AddToModified(t, b, Written(b)) /\ hist' = Latest(b)
    <3>1. hist'.stale = hist.stale
      BY <1>0, <2>2, LatestStale
    <3>2. /\ Written(b) \in BdFun
          /\ \A x \in Bds : /\ Written(b)[x].state = bd[x].state
                            /\ Written(b)[x].dd = bd[x].dd /\ Written(b)[x].block = bd[x].block
      BY <1>0, WrittenFacts
    <3> DEFINE f == Written(b)
    <3>3. AddToModified(t, b, f) /\ f \in BdFun
      BY <2>2, <3>2
    <3>4. \A x \in Bds : f[x].state = bd[x].state /\ f[x].dd = bd[x].dd /\ f[x].block = bd[x].block
      BY <3>2
    <3> HIDE DEF f
    <3>. QED BY <1>1, <1>4, <3>1, <3>3, <3>4, AddToModifiedWake
  <2>. QED BY <1>3, <1>7, <2>1, <2>2 DEF ReleaseModified
<1>8. CASE PassSyncLock(t)
  <2>1. task' = [task EXCEPT ![t].pc = "addmod"] /\ UNCHANGED <<bd, lists, group, hist>>
    BY <1>8 DEF PassSyncLock
  <2>2. "addmod" \in OwnPc /\ tree' = tree /\ hist'.stale = hist.stale
    BY <2>1 DEF OwnPc, lists
  <2>. QED BY <1>1, <1>4, <2>1, <2>2, KeepWake
<1>9. CASE AddModified(t)
  <2>1. ToModified(t, b, bd) /\ hist'.stale = hist.stale
    BY <1>3, <1>9 DEF AddModified
  <2>. QED BY <1>0, <1>1, <1>4, <2>1, ToModifiedWake
<1>. QED BY <1>6, <1>7, <1>8, <1>9

\* rtems_bdbuf_sync: the caller waits for the transfer of its buffer.
LEMMA SyncWake ==
  ASSUME Inv, Inv', WakeInv, NEW t \in Tasks, Sync(t)
  PROVE  WakeInv'
<1>0. TypeOK /\ bd \in BdFun /\ hist.version \in Int /\ task \in TaskFun
  BY DEF Inv, TypeOK
<1>1. Elsewhere /\ task[t].pc \in OwnPc
  BY DEF Sync, Elsewhere, io, Holding, OwnPc
<1>2. PICK b \in Bds : b = task[t].bd
  BY <1>1 DEF Inv, TasksInv
<1>3. Owning(t, b)
  BY <1>1, <1>2 DEF Owning
<1>4. CASE DiscardAfterAccess(t, b) /\ hist' = hist
  BY <1>1, <1>3, <1>4, DiscardAfterAccessWake
<1>5. ASSUME bd' = SetState(Written(b), {b}, "SYNC"),
             group' = Users(group, GroupOf(b), 1),
             task' = Woken(IF Waited(t, b) THEN {"access"} ELSE {},
                           [task EXCEPT ![t] = At(@, "syn", b, "transfer")]),
             hist' = Latest(b), tree' = tree
      PROVE  WakeInv'
  <2> DEFINE f == Written(b)
             cvs == IF Waited(t, b) THEN {"access"} ELSE {}
             r == At(task[t], "syn", b, "transfer")
             k == [task EXCEPT ![t] = r]
  <2>1. hist'.stale = hist.stale
    BY <1>0, <1>5, LatestStale
  <2>2. b \in Live /\ bd[b].state \in Access /\ group \in GroupFun /\ task[t] \in TaskRec
    BY <1>3, OwningFacts
  <2>3. "syn" \in TaskPc /\ "transfer" \in {"none", "access", "transfer", "buffer"} /\ b \in Int /\ "SYNC" \in States
    BY GroupFacts DEF TaskPc, BdWait, States, Transferring
  <2>4. r \in TaskRec /\ r.pc = "syn" /\ r.bd = b /\ r.cv = "transfer"
    BY <2>2, <2>3, AtFacts
  <2>5. task' = Woken(cvs, k)
    BY <1>5
  <2>c. (Waited(t, b) => "access" \in cvs) /\ "transfer" \notin cvs
    OBVIOUS
  <2> HIDE DEF cvs, r, f
  <2>6. k = [task EXCEPT ![t] = r]
    OBVIOUS
  <2> HIDE DEF k
  <2>7. /\ f \in BdFun
        /\ \A x \in Bds : f[x].state = bd[x].state /\ f[x].dd = bd[x].dd /\ f[x].block = bd[x].block
    BY <1>0, WrittenFacts DEF f
  <2>8. /\ bd' \in BdFun
        /\ \A x \in Bds : /\ bd'[x].state = IF x \in {b} THEN "SYNC" ELSE f[x].state
                          /\ bd'[x].dd = f[x].dd /\ bd'[x].block = f[x].block
    <3>1. bd' = SetState(f, {b}, "SYNC")
      BY <1>5 DEF f
    <3> DEFINE S == {b}
    <3>2. bd' = SetState(f, S, "SYNC") /\ f \in BdFun /\ "SYNC" \in States
      BY <2>3, <2>7, <3>1
    <3> HIDE DEF S
    <3>3. /\ SetState(f, S, "SYNC") \in BdFun
          /\ \A x \in Bds : /\ SetState(f, S, "SYNC")[x].state = IF x \in S THEN "SYNC" ELSE f[x].state
                            /\ SetState(f, S, "SYNC")[x].dd = f[x].dd
                            /\ SetState(f, S, "SYNC")[x].block = f[x].block
      BY <3>2, SetStateFacts
    <3>. QED BY <3>2, <3>3 DEF S
  <2>9. /\ bd'[b].state = "SYNC" /\ \A x \in Bds \ {b} : bd'[x].state = bd[x].state
        /\ \A x \in Bds : bd'[x].dd = bd[x].dd /\ bd'[x].block = bd[x].block
    BY <2>7, <2>8
  <2>10. Counted(group, b, 1)
    BY <1>5, <2>2, CountedUsers
  <2>11. Others(t, cvs) /\ task'[t].pc = "syn" /\ task'[t].bd = b
    BY <1>0, <2>4, <2>5, <2>6, OthersWoken
  <2>12. task'[t].cv = IF r.cv \in cvs THEN "none" ELSE r.cv
    BY <1>0, <2>4, <2>5, <2>6, OthersWoken
  <2>13. task'[t].cv = "transfer" /\ task'[t].pc \in BdWait /\ bd'[b].state \in Transferring
    BY <2>4, <2>9, <2>11, <2>12, <2>c DEF BdWait, Transferring
  <2>14. Rightly(t)'
    BY <2>11, <2>13 DEF Rightly
  <2>15. Near(t, b, cvs)
    <3>1. task[t].pc \in BdWait => task[t].bd = b
      BY <1>2
    <3>. QED BY <1>1, <1>5, <2>1, <2>9, <2>10, <2>11, <3>1 DEF Near, Counted, Elsewhere
  <2>16. Signals(t, b, cvs)
    <3>1. bd[b].state \notin Transferring
      BY <2>2 DEF Access, Transferring
    <3>. QED BY <2>c, <3>1, WaitedFacts DEF Signals
  <2>17. QuietAt(b)
    <3>1. bd'[b].state \in InUse /\ bd'[b].state \notin {"FREE", "CACHED"}
      BY <2>9 DEF InUse, Transferring
    <3>. QED BY <1>5, <3>1 DEF QuietAt
  <2>. QED BY <1>2, <1>5, <2>2, <2>14, <2>15, <2>16, <2>17, OneWake
<1>. QED BY <1>2, <1>4, <1>5 DEF Sync

\* wait_for_sync_done: the caller sleeps on, or leaves its buffer to the others.
LEMMA SyncAgainWake ==
  ASSUME Inv, Inv', WakeInv, NEW t \in Tasks, SyncAgain(t)
  PROVE  WakeInv'
<1>0. TypeOK /\ bd \in BdFun /\ task \in TaskFun /\ task[t] \in TaskRec
  BY DEF Inv, TypeOK, TaskFun
<1>1. task[t].pc = "syn" /\ Aside
  BY DEF SyncAgain, Aside, io
<1>2. task[t].pc \in BdWait /\ task[t].pc \notin OwnPc \cup {"reading"}
  BY <1>1 DEF BdWait, OwnPc
<1>3. PICK b \in Bds : b = task[t].bd
  BY <1>2 DEF Inv, TasksInv
<1>4. BufferInv(b) /\ t \in Waiting(b)
  BY <1>2, <1>3 DEF Waiting, Inv
<1>5. b \in Live /\ bd[b].state # "FREE"
  BY <1>4 DEF BufferInv
<1> DEFINE c == task[t]
           g == AfterWait(t)
<1>6. Comes(t, c, b, g)
  <2>1. c \in TaskRec /\ c.dd \in Devs
    BY <1>1 DEF Inv, TypeOK, TaskFun, TasksInv
  <2>2. CountsWithout(t, g)
    BY <1>2, WithoutTask
  <2>. QED BY <1>2, <1>3, <1>5, <2>1, <2>2 DEF Comes
<1>7. CASE /\ bd[b].state \in Transferring
           /\ Sleep(t, c, "syn", b, "transfer", g)
           /\ UNCHANGED <<bd, lists, fatal>>
  <2>1. "syn" \in BdWait /\ bd' = bd /\ tree' = tree
    BY <1>7 DEF BdWait, lists
  <2>2. bd'[b].state \in Transferring
    BY <1>7, <2>1
  <2> HIDE DEF c, g
  <2>. QED BY <1>6, <1>7, <2>1, <2>2, SleepWake
<1> DEFINE free == bd[b].state = "EMPTY" /\ ~Waited(t, b)
           rest == bd[b].state \in {"EMPTY", "CACHED"} /\ ~Waited(t, b)
<1>8. CASE /\ bd[b].state \in States \ (Transferring \cup {"FREE"})
           /\ bd' = IF free THEN SetState(bd, {b}, "FREE") ELSE bd
           /\ tree' = IF free THEN tree \ {b} ELSE tree
           /\ task' = Woken(IF rest THEN {"buffer"} ELSE {}, [task EXCEPT ![t] = Idle(@)])
           /\ group' = g
           /\ UNCHANGED <<dev, hist>>
  <2> DEFINE cvs == IF rest THEN {"buffer"} ELSE {}
             r == Idle(task[t])
             k == [task EXCEPT ![t] = r]
  <2>1. task' = Woken(cvs, k) /\ (rest => "buffer" \in cvs)
    BY <1>8
  <2>2. r \in TaskRec /\ r.pc = "idle" /\ r.cv = "none" /\ k = [task EXCEPT ![t] = r] /\ r.pc \notin BdWait
    BY <1>0, IdleFacts DEF BdWait
  <2>3. /\ \A x \in Bds \ {b} : bd'[x].state = bd[x].state
        /\ \A x \in Bds : bd'[x].dd = bd[x].dd /\ bd'[x].block = bd[x].block
        /\ ~free => bd'[b].state = bd[b].state
    <3>1. "FREE" \in States
      BY DEF States
    <3>2. CASE free
      <4>1. bd' = SetState(bd, {b}, "FREE")
        BY <1>8, <3>2
      <4>2. \A x \in Bds : /\ bd'[x].state = IF x \in {b} THEN "FREE" ELSE bd[x].state
                           /\ bd'[x].dd = bd[x].dd /\ bd'[x].block = bd[x].block
        BY <1>0, <3>1, <4>1, SetStateFacts
      <4>. QED BY <3>2, <4>2
    <3>3. CASE ~free
      BY <1>8, <3>3
    <3>. QED BY <3>2, <3>3
  <2>4. \A h \in Groups : group'[h].bds_per_group = group[h].bds_per_group
    BY <1>6, <1>8 DEF Comes, CountsWithout
  <2>5. Around(b)
    BY <1>8, <2>3, <2>4 DEF Around
  <2>6. Calls(t, b, cvs)
    <3>1. CASE Waited(t, b)
      <4>1. ~free
        BY <3>1
      <4>2. bd'[b].state = bd[b].state /\ tree' = tree
        BY <1>8, <2>3, <4>1
      <4>. QED BY <3>1, <4>2 DEF Calls
    <3>2. CASE ~Waited(t, b) /\ bd[b].state \in {"EMPTY", "CACHED"}
      BY <2>1, <3>2 DEF Calls
    <3>3. CASE ~Waited(t, b) /\ bd[b].state \notin {"EMPTY", "CACHED"}
      <4>1. ~free
        BY <3>3
      <4>2. bd'[b].state = bd[b].state /\ tree' = tree
        BY <1>8, <2>3, <4>1
      <4>3. bd[b].state \in InUse
        BY <1>8, <3>3 DEF States, InUse
      <4>. QED BY <3>3, <4>2, <4>3 DEF Calls
    <3>. QED BY <3>1, <3>2, <3>3
  <2> HIDE DEF r, k, cvs
  <2>. QED BY <1>3, <1>5, <2>1, <2>2, <2>5, <2>6, PartWake
<1>. QED BY <1>3, <1>5, <1>7, <1>8 DEF SyncAgain

\* Those who wait for b hear of it when it leaves the state they wait for the end of, and find it.
Told(b, cvs) ==
    /\ bd[b].state \in Access => bd'[b].state \in Access \/ "access" \in cvs
    /\ bd[b].state \in Transferring => bd'[b].state \in Transferring \/ "transfer" \in cvs
    /\ b \in tree => b \in tree'
\* No buffer comes to rest except for those who wait for it.
Unmoved ==
    /\ tree' = tree
    /\ \A b \in Bds :
         /\ bd[b].state \in InUse => bd'[b].state \in InUse \/ Waiting(b) # {}
         /\ bd'[b].state \in {"FREE", "CACHED"} => bd[b].state \in {"FREE", "CACHED"} \/ Waiting(b) # {}

\* A step on many buffers that nobody starts or stops to wait for.
LEMMA ManyWake ==
  ASSUME Inv, Inv', WakeInv, NEW t, NEW cvs, Others(t, cvs), StaleKept(t), t \in Tasks => Rightly(t)',
         \A x : Waiting(x)' = Waiting(x),
         \A g \in Groups : group'[g].bds_per_group = group[g].bds_per_group,
         \A b \in Bds : bd'[b].dd = bd[b].dd /\ bd'[b].block = bd[b].block,
         tree' \subseteq tree, \A b \in Bds : Waiting(b) # {} => Told(b, cvs),
         "buffer" \in cvs \/ Unmoved
  PROVE  WakeInv'
<1>1. Live' = Live
  BY LiveFrame
<1>2. \A b \in Bds : Signals(t, b, cvs)
  BY DEF Signals, Told
<1>3. \A b \in Bds : Keeps(t, b)
  BY DEF Keeps, Told, SameKey
<1>4. ASSUME Unmoved PROVE Quiet
  <2>1. \A b \in Bds : Claim(b) => Claim(b)'
    BY <1>1, <1>4 DEF Claim, Unmoved
  <2>2. \A b \in Resting' : b \in Bds /\ b \in Live /\ bd'[b].state \in {"FREE", "CACHED"}
    BY <1>1, LiveFacts DEF Resting, In, Inv, TypeOK
  <2>3. \A b \in Resting' : b \in Resting \/ Waiting(b)' # {}
    BY <1>4, <2>2 DEF Resting, In, Unmoved
  <2>4. \A b \in Resting' : group'[GroupOf(b)].bds_per_group = group[GroupOf(b)].bds_per_group
    BY <2>2, GroupFacts
  <2>5. \A b \in tree : SameKey(b)
    <3>1. tree \subseteq Bds
      BY DEF Inv, TypeOK
    <3>. QED BY <1>4, <3>1 DEF SameKey, Unmoved
  <2>6. \A b \in Resting' : b \in tree' => SameKey(b)
    BY <1>4, <2>5 DEF Unmoved
  <2>. QED BY <2>1, <2>3, <2>4, <2>5, <2>6 DEF Quiet
<1>5. "buffer" \in cvs \/ Quiet
  BY <1>4
<1>. QED BY <1>2, <1>3, <1>5, WakeStep

\* Who waits for any buffer waits for one of a device whose block size stays.
LEMMA StaleStays ==
  ASSUME Inv, WakeInv, NEW t, hist'.stale = hist.stale,
         \A d \in Devs : dev'[d].bds_per_group = dev[d].bds_per_group
  PROVE  StaleKept(t)
<1>. SUFFICES ASSUME NEW u \in Tasks \ {t}, task[u].cv = "buffer", u \notin hist'.stale
             PROVE  u \notin hist.stale /\ dev'[task[u].dd].bds_per_group = dev[task[u].dd].bds_per_group
  BY DEF StaleKept
<1>1. task[u].pc = "buf"
  BY DEF WakeInv, Rightly
<1>2. task[u].dd \in Devs
  BY <1>1 DEF Inv, TasksInv
<1>. QED BY <1>2

\* A broadcast by the driver's side.
LEMMA BroadcastFacts ==
  ASSUME task \in TaskFun, NEW cvs, task' = Woken(cvs, task), NEW t
  PROVE  Others(t, cvs) /\ \A x : Waiting(x)' = Waiting(x)
<1> DEFINE W == Woken(cvs, task)
<1>1. \A u \in Tasks :
           /\ W[u].pc = task[u].pc /\ W[u].bd = task[u].bd /\ W[u].dd = task[u].dd
           /\ W[u].media = task[u].media
           /\ W[u].cv = IF task[u].cv \in cvs THEN "none" ELSE task[u].cv
  BY WokenFacts
<1>2. task' = W
  OBVIOUS
<1> HIDE DEF W
<1>3. Others(t, cvs)
  BY <1>1, <1>2 DEF Others
<1>4. \A x : Waiting(x)' = Waiting(x)
  BY <1>1, <1>2 DEF Waiting
<1>. QED BY <1>3, <1>4

\* wake() for the buffers of a request: some wait for one of them, or some for any buffer, or both.
LEMMA WakeForMany ==
  ASSUME NEW t, NEW S, NEW cv, NEW tk
  PROVE  \E cvs : /\ WakeFor(t, S, cv, tk) = Woken(cvs, tk)
                  /\ \A b \in S : Waited(t, b) => cv \in cvs
                  /\ \A b \in S : ~Waited(t, b) => "buffer" \in cvs
<1> DEFINE cvs == (IF \E x \in S : Waited(t, x) THEN {cv} ELSE {})
                  \cup (IF \E x \in S : ~Waited(t, x) THEN {"buffer"} ELSE {})
<1>1. WakeFor(t, S, cv, tk) = Woken(cvs, tk)
  BY DEF WakeFor
<1>2. \A b \in S : Waited(t, b) => cv \in cvs
  OBVIOUS
<1>3. \A b \in S : ~Waited(t, b) => "buffer" \in cvs
  OBVIOUS
<1>. QED BY <1>1, <1>2, <1>3

\* The end of a request of the swapout task, a worker or the read-ahead task.
LEMMA EndsWake ==
  ASSUME Inv, Inv', WakeInv, NEW f \in BdFun, NEW X, NEW R, NEW ok, X \subseteq Bds,
         \A b \in Bds : f[b].state = bd[b].state /\ f[b].dd = bd[b].dd /\ f[b].block = bd[b].block,
         Done(None, f, X, R, ok, task), task' = WakeFor(None, X, "transfer", task),
         \A b \in X : bd[b].state \in AtDriver,
         hist'.stale = hist.stale, \A d \in Devs : dev'[d].bds_per_group = dev[d].bds_per_group
  PROVE  WakeInv'
<1>0. task \in TaskFun /\ None \notin Tasks
  BY BdbufAssumption DEF Inv, TypeOK
<1>1. /\ \A b \in Bds :
         /\ bd'[b].dd = f[b].dd /\ bd'[b].block = f[b].block
         /\ b \in X \/ bd'[b].state = f[b].state
      /\ \A b : b \in tree' <=> b \in tree /\ (b \notin X \/ Stays(f, ok, b) \/ Waited(None, b))
      /\ \A g \in Groups : group'[g].bds_per_group = group[g].bds_per_group
  BY DEF Done
<1>2. PICK cvs : /\ task' = Woken(cvs, task)
                 /\ \A b \in X : Waited(None, b) => "transfer" \in cvs
                 /\ \A b \in X : ~Waited(None, b) => "buffer" \in cvs
  BY WakeForMany
<1>3. Others(None, cvs) /\ \A x : Waiting(x)' = Waiting(x)
  BY <1>0, <1>2, BroadcastFacts
<1>4. \A b : Waited(None, b) <=> Waiting(b) # {}
  <2>1. \A b : Waiting(b) \ {None} = Waiting(b)
    BY <1>0 DEF Waiting
  <2>. QED BY <2>1, WaitedFacts
<1>5. \A b \in Bds : Waiting(b) # {} => Told(b, cvs)
  <2>. SUFFICES ASSUME NEW b \in Bds, Waiting(b) # {} PROVE Told(b, cvs)
    OBVIOUS
  <2>1. b \in tree => b \in tree'
    BY <1>1, <1>4
  <2>2. CASE b \in X
    <3>1. "transfer" \in cvs /\ bd[b].state \notin Access
      BY <1>2, <1>4, <2>2 DEF AtDriver, Access
    <3>. QED BY <2>1, <3>1 DEF Told
  <2>3. CASE b \notin X
    BY <1>1, <2>1, <2>3 DEF Told
  <2>. QED BY <2>2, <2>3
<1>6. ASSUME "buffer" \notin cvs PROVE Unmoved
  <2>1. \A b \in X : Waiting(b) # {}
    BY <1>2, <1>4, <1>6
  <2>2. tree' = tree
    BY <1>1, <1>4, <2>1
  <2>3. \A b \in Bds : Waiting(b) # {} \/ bd'[b].state = bd[b].state
    BY <1>1, <2>1
  <2>. QED BY <2>2, <2>3 DEF Unmoved
<1>7. tree' \subseteq tree /\ \A b \in Bds : bd'[b].dd = bd[b].dd /\ bd'[b].block = bd[b].block
  BY <1>1
<1>8. StaleKept(None)
  BY StaleStays
<1>. QED BY <1>0, <1>1, <1>3, <1>5, <1>6, <1>7, <1>8, ManyWake

\* One request of swapout_write wakes those who wait for its buffers.
LEMMA WriteRequestWake ==
  ASSUME Inv, Inv', WakeInv, NEW s \in Seq(Bds), IsInjective(s), NEW h, \A b \in ToSet(s) : h \in Drivers(b),
         WriteRequest(s), dev' = dev
  PROVE  WakeInv'
<1> DEFINE X == ToSet(Request(s))
           R == In({"FREE", "CACHED"})
<1>0. bd \in BdFun /\ TypeOK
  BY DEF Inv, TypeOK
<1>1. PICK ok : Done(None, bd, X, R, ok, task)
  BY WriteFacts
<1>2. IsList(Bds, Request(s), X) /\ X \subseteq ToSet(s)
  BY RequestFacts
<1>3. task' = WakeFor(None, X, "transfer", task)
  BY DEF WriteRequest, TransferDone
<1>4. hist'.stale = hist.stale
  <2> DEFINE l == hist.lost \cup UNION {{<<bd[b].dd, m>> : m \in Covers(b)} : b \in ToSet(Request(s))}
  <2>1. hist' = hist \/ hist' = [hist EXCEPT !.lost = l]
    BY DEF WriteRequest
  <2>2. HistRec(hist)
    BY <1>0 DEF TypeOK, HistRec
  <2> HIDE DEF l
  <2>. QED BY <2>1, <2>2, Zenon DEF HistRec
<1> HIDE DEF X, R
<1>5. X \subseteq Bds
  BY <1>2, ListOps
<1>6. \A b \in X : bd[b].state \in AtDriver
  BY <1>2, <1>5, DrivenFacts
<1>. QED BY <1>0, <1>1, <1>3, <1>4, <1>5, <1>6, EndsWake

\* rtems_bdbuf_swapout_write in the swapout task.
LEMMA SwapoutWriteWake ==
  ASSUME Inv, Inv', WakeInv, SwapoutWrite
  PROVE  WakeInv'
<1> DEFINE s == swap.bds
           h == "swapout"
<1>1. s \in Seq(Bds) /\ IsInjective(s)
  BY DEF Inv, TypeOK, RequestsInv
<1>2. WriteRequest(s) /\ dev' = dev
  BY DEF SwapoutWrite
<1>3. \A b \in ToSet(s) : h \in Drivers(b)
  BY DEF Drivers
<1> HIDE DEF s, h
<1>. QED BY <1>1, <1>2, <1>3, WriteRequestWake

\* And in a worker.
LEMMA WorkerWriteWake ==
  ASSUME Inv, Inv', WakeInv, NEW w \in Workers, WorkerWrite(w)
  PROVE  WakeInv'
<1> DEFINE s == worker[w].bds
<1>0. worker \in [Workers -> [pc : {"idle", "write", "back"}, bds : Seq(Bds)]]
  BY DEF Inv, TypeOK
<1>1. s \in Seq(Bds) /\ IsInjective(s)
  BY <1>0 DEF Inv, TypeOK, RequestsInv
<1>2. WriteRequest(s) /\ dev' = dev
  BY DEF WorkerWrite
<1>3. \A b \in ToSet(s) : w \in Drivers(b)
  BY DEF Drivers
<1> HIDE DEF s
<1>. QED BY <1>1, <1>2, <1>3, WriteRequestWake

\* The end of a read-ahead request wakes those who came for its blocks meanwhile.
LEMMA ReadAheadDoneWake ==
  ASSUME Inv, Inv', WakeInv, ReadAheadDone
  PROVE  WakeInv'
<1> DEFINE s == ahead.req
           h == "ahead"
           X == ToSet(s)
           R == In({"FREE", "CACHED"})
<1>0. /\ bd \in BdFun /\ group \in GroupFun /\ disk \in DiskFun
      /\ ListsInv /\ s \in Seq(Bds) /\ IsInjective(s)
  BY DEF Inv, TypeOK, RequestsInv
<1>1. UNCHANGED <<dev, hist>>
  BY DEF ReadAheadDone
<1>2. IsList(Bds, s, X) /\ X \subseteq Bds
  <2>1. IsList(Bds, s, X)
    BY <1>0 DEF IsList
  <2>. QED BY <2>1, ListOps
<1>3. \A b \in X : b \in Bds /\ h \in Drivers(b)
  BY <1>2 DEF Drivers
<1>4. X \cap R = {} /\ \A b \in X : bd[b].dd \in Devs /\ bd[b].state \in AtDriver
  BY <1>3, DrivenFacts
<1>5. IsList(Bds, lru, R)
  BY <1>0 DEF ListsInv
<1>6. PICK f, ok : /\ TransferDone(None, f, s, ok, task) /\ f \in BdFun
                   /\ \A b \in Bds : f[b].state = bd[b].state /\ f[b].dd = bd[b].dd /\ f[b].block = bd[b].block
  <2>1. CASE TransferDone(None, Loaded(bd, X), s, TRUE, task)
    <3> DEFINE e == Loaded(bd, X)
    <3>0. \A b \in X : bd[b].dd \in Devs
      BY <1>4
    <3> HIDE DEF X
    <3>1. /\ e \in BdFun
          /\ \A b \in Bds : e[b].state = bd[b].state /\ e[b].dd = bd[b].dd /\ e[b].block = bd[b].block
      BY <1>0, <3>0, LoadedFacts
    <3>2. TransferDone(None, e, s, TRUE, task)
      BY <2>1
    <3> HIDE DEF e, s
    <3>. QED BY <3>1, <3>2
  <2>2. CASE TransferDone(None, bd, s, FALSE, task)
    BY <1>0, <2>2
  <2>. QED BY <2>1, <2>2 DEF ReadAheadDone
<1>7. task' = WakeFor(None, X, "transfer", task)
  BY <1>6 DEF TransferDone
<1> HIDE DEF X, R, s
<1>8. Done(None, f, X, R, ok, task)
  BY <1>0, <1>2, <1>4, <1>5, <1>6, TransferDoneFacts
<1>. QED BY <1>1, <1>2, <1>4, <1>6, <1>7, <1>8, EndsWake

\* A read that missed has failed: its buffer is discarded.
LEMMA ReadFailedWake ==
  ASSUME Inv, Inv', WakeInv, NEW t \in Tasks, NEW b \in Bds, task[t].pc = "reading", task[t].bd = b,
         NEW s, s = <<b>>, NEW r \in TaskRec, r.pc = "idle", r.cv = "none",
         NEW k, k = [task EXCEPT ![t] = r],
         NEW ok, ok = FALSE, TransferDone(t, bd, s, ok, k), ReadControl, hist' = hist
  PROVE  WakeInv'
<1>0. ListsInv /\ group \in GroupFun /\ bd \in BdFun
  BY DEF Inv, TypeOK
<1>1. b \in Live /\ bd[b].state \in AtDriver
  BY OwnerFacts
<1> DEFINE X == {b}
           R == In({"FREE", "CACHED"})
<1>3. IsList(Bds, s, X) /\ IsList(Bds, lru, R) /\ X \cap R = {}
  BY <1>0, <1>1, OneNode DEF ListsInv, In, AtDriver
<1>4. \A x : ~Stays(bd, ok, x)
  BY DEF Stays
<1>5. PICK cvs : /\ task' = Woken(cvs, k)
                 /\ Waited(t, b) => "transfer" \in cvs
                 /\ ~Waited(t, b) => "buffer" \in cvs
  <2>1. ToSet(s) = X
    BY <1>3 DEF IsList
  <2>2. task' = WakeFor(t, {b}, "transfer", k)
    BY <2>1 DEF TransferDone
  <2>. QED BY <2>2, WakeForOne
<1> HIDE DEF X, R
<1>d. Done(t, bd, X, R, ok, k)
  BY <1>0, <1>3, TransferDoneFacts
<1>7. \A x \in Bds : bd'[x].dd = bd[x].dd /\ bd'[x].block = bd[x].block /\ (x \in X \/ bd'[x].state = bd[x].state)
  BY <1>d DEF Done
<1>8. \A x : x \in tree' <=> x \in tree /\ (x \notin X \/ Waited(t, x))
  BY <1>4, <1>d DEF Done
<1>9. \A h \in Groups : group'[h].bds_per_group = group[h].bds_per_group
  BY <1>d DEF Done
<1>10. tree' = IF Waited(t, b) THEN tree ELSE tree \ {b}
  BY <1>8 DEF X
<1>11. Around(b)
  BY <1>7, <1>9, <1>10 DEF Around, X, ReadControl
<1>12. Calls(t, b, cvs)
  <2>1. bd[b].state \notin Access
    BY <1>1 DEF Access, AtDriver
  <2>. QED BY <1>5, <1>10, <2>1 DEF Calls
<1>13. r.pc \notin BdWait
  BY DEF BdWait
<1>14. task[t].pc \in BdWait => task[t].bd = b
  OBVIOUS
<1>. QED BY <1>1, <1>5, <1>11, <1>12, <1>13, <1>14, PartWake

\* The end of a read that missed wakes those who came for its block meanwhile.
LEMMA ReadDoneWake ==
  ASSUME Inv, Inv', WakeInv, NEW t \in Tasks, ReadDone(t)
  PROVE  WakeInv'
<1>0. TypeOK /\ task \in TaskFun /\ bd \in BdFun /\ disk \in DiskFun /\ task[t] \in TaskRec
  BY DEF Inv, TypeOK, TaskFun
<1>1. task[t].pc = "reading"
  BY DEF ReadDone
<1>2. PICK b \in Bds : b = task[t].bd
  BY <1>1 DEF Inv, TasksInv
<1>3. b \in Live /\ bd[b].state \in AtDriver /\ task[t].dd \in Devs /\ bd[b].dd \in Devs
  BY <1>1, <1>2, OwnerFacts DEF Inv, TasksInv, BufferInv, AtDriver
<1>4. ReadControl
  <2> DEFINE d == task[t].dd
             k == task[t].block
  <2>1. /\ d \in Devs /\ k \in Int
        /\ dev' = [dev EXCEPT ![d] = CheckSize(ahead, @, d, k)]
        /\ ahead' = CheckTrigger(ahead, dev[d], d, k)
    BY <1>0, <1>3 DEF ReadDone, TaskRec
  <2> HIDE DEF d, k
  <2>. QED BY <1>0, <2>1, ReadControlFacts
<1>5. ASSUME bd' = SetState(Loaded(bd, {b}), {b}, "ACCESS_CACHED"),
             task' = WakeFor(t, {b}, "transfer", [task EXCEPT ![t].pc = "holding"]),
             tree' = tree \ Unwaited(t, {b}) \/ tree' = tree, group' = group,
             hist'.stale = hist.stale
      PROVE  WakeInv'
  <2> DEFINE f == Loaded(bd, {b})
  <2>1. /\ f \in BdFun
        /\ \A x \in Bds : f[x].state = bd[x].state /\ f[x].dd = bd[x].dd /\ f[x].block = bd[x].block
    <3> DEFINE S == {b}
    <3>1. \A x \in S : bd[x].dd \in Devs
      BY <1>3
    <3> HIDE DEF S
    <3>2. /\ Loaded(bd, S) \in BdFun
          /\ \A x \in Bds : /\ Loaded(bd, S)[x].state = bd[x].state
                            /\ Loaded(bd, S)[x].dd = bd[x].dd /\ Loaded(bd, S)[x].block = bd[x].block
      BY <1>0, <3>1, LoadedFacts
    <3>. QED BY <3>2 DEF S
  <2>2. bd' = SetState(f, {b}, "ACCESS_CACHED") /\ "ACCESS_CACHED" \in States
    BY <1>5 DEF States, Access
  <2> DEFINE r == [task[t] EXCEPT !.pc = "holding"]
             k == [task EXCEPT ![t] = r]
  <2>a. task[t].cv = "none"
    <3>1. task[t].pc \notin BdWait \cup {"buf"}
      BY <1>1 DEF BdWait
    <3>. QED BY <3>1, AwakeAlready
  <2>5. r \in TaskRec /\ r.pc = "holding" /\ r.cv = "none" /\ r.pc \notin BdWait
    BY <1>0, <2>a DEF TaskRec, TaskPc, OwnPc, BdWait
  <2>6. task' = WakeFor(t, {b}, "transfer", k)
    BY <1>5
  <2> HIDE DEF f, r
  <2>7. k = [task EXCEPT ![t] = r]
    OBVIOUS
  <2> HIDE DEF k
  <2>4. /\ bd' \in BdFun
        /\ \A x \in Bds : /\ bd'[x].state = IF x \in {b} THEN "ACCESS_CACHED" ELSE f[x].state
                          /\ bd'[x].dd = f[x].dd /\ bd'[x].block = f[x].block
    BY <2>1, <2>2, SetStateFacts
  <2>8. PICK cvs : /\ task' = Woken(cvs, k)
                   /\ Waited(t, b) => "transfer" \in cvs
                   /\ ~Waited(t, b) => "buffer" \in cvs
    BY <2>6, WakeForOne
  <2>9. \A x : x \in Unwaited(t, {b}) <=> x \in {b} /\ ~Waited(t, x)
    BY UnwaitedFacts
  <2>10. (tree' = tree \/ tree' = tree \ {b}) /\ (Waited(t, b) => tree' = tree)
    BY <1>5, <2>9
  <2>11. Around(b)
    <3>1. /\ \A x \in Bds \ {b} : bd'[x].state = bd[x].state
          /\ \A x \in Bds : bd'[x].dd = bd[x].dd /\ bd'[x].block = bd[x].block
      BY <2>1, <2>4
    <3>. QED BY <1>4, <1>5, <2>10, <3>1 DEF Around, ReadControl
  <2>12. Calls(t, b, cvs)
    <3>1. bd[b].state \notin Access
      BY <1>3 DEF Access, AtDriver
    <3>. QED BY <2>8, <2>10, <3>1 DEF Calls
  <2>13. task[t].pc \in BdWait => task[t].bd = b
    BY <1>2
  <2>. QED BY <1>3, <2>5, <2>7, <2>8, <2>11, <2>12, <2>13, PartWake
<1>8. ASSUME TransferDone(t, bd, <<b>>, FALSE, [task EXCEPT ![t] = At(task[t], "idle", -1, "none")]),
             hist' = hist
      PROVE  WakeInv'
  <2> DEFINE r == At(task[t], "idle", -1, "none")
             k == [task EXCEPT ![t] = r]
             s == <<b>>
             ok == FALSE
  <2>1. r \in TaskRec /\ r.pc = "idle" /\ r.cv = "none"
    <3>1. "idle" \in TaskPc /\ -1 \in Int /\ "none" \in {"none", "access", "transfer", "buffer"}
      BY DEF TaskPc
    <3>. QED BY <1>0, <3>1, AtFacts
  <2>2. TransferDone(t, bd, s, ok, k) /\ ok = FALSE /\ s = <<b>>
    BY <1>8
  <2> HIDE DEF r
  <2>3. k = [task EXCEPT ![t] = r]
    OBVIOUS
  <2> HIDE DEF k, s, ok
  <2>. QED BY <1>1, <1>2, <1>4, <1>8, <2>1, <2>2, <2>3, ReadFailedWake
<1>9. hist' = [hist EXCEPT !.orphan = TRUE] => hist'.stale = hist.stale
  BY <1>0, Zenon DEF TypeOK, HistRec
<1>10. \/ /\ bd' = SetState(Loaded(bd, {b}), {b}, "ACCESS_CACHED")
          /\ task' = WakeFor(t, {b}, "transfer", [task EXCEPT ![t].pc = "holding"])
          /\ tree' = tree /\ group' = group /\ hist' = hist
       \/ /\ bd' = SetState(Loaded(bd, {b}), {b}, "ACCESS_CACHED")
          /\ task' = WakeFor(t, {b}, "transfer", [task EXCEPT ![t].pc = "holding"])
          /\ tree' = tree \ Unwaited(t, {b}) /\ group' = group /\ hist' = [hist EXCEPT !.orphan = TRUE]
       \/ /\ TransferDone(t, bd, <<b>>, FALSE, [task EXCEPT ![t] = At(task[t], "idle", -1, "none")])
          /\ hist' = hist
  BY <1>2 DEF ReadDone, lists
<1>11. hist' = hist => hist'.stale = hist.stale
  OBVIOUS
<1>. QED BY <1>5, <1>8, <1>9, <1>10, <1>11

\* What swapout_processing takes to write was on the modified or the sync list.
LEMMA SwapoutTakes ==
  ASSUME Inv, SwapoutProcessing
  PROVE  \E T \in SUBSET Bds :
            /\ \A b \in T : bd[b].state \in {"SYNC", "MODIFIED"}
            /\ \A b \in Bds : /\ bd'[b].state = IF b \in T THEN "TRANSFER" ELSE bd[b].state
                              /\ bd'[b].dd = bd[b].dd /\ bd'[b].block = bd[b].block /\ bd'[b].val = bd[b].val
<1> DEFINE p1 == Pick(sync, IF syncing.active THEN syncing.device ELSE NoDev, TRUE, FALSE)
           p2 == Pick(modified, p1.dd, syncing.active, swap.update)
           take == p1.bds \cup p2.bds
           aged == [b \in Bds |-> IF b \in DOMAIN p1.hold THEN [bd[b] EXCEPT !.hold = p1.hold[b]]
                                  ELSE IF b \in DOMAIN p2.hold THEN [bd[b] EXCEPT !.hold = p2.hold[b]]
                                  ELSE bd[b]]
           A == In({"MODIFIED"})
           B == In({"SYNC"})
<1>0. bd \in BdFun /\ group \in GroupFun /\ IsList(Bds, modified, A) /\ IsList(Bds, sync, B)
  BY DEF Inv, TypeOK, ListsInv
<1>1. bd' = SetState(aged, take, "TRANSFER")
  BY DEF SwapoutProcessing
<1>2. /\ p1.bds \subseteq B /\ DOMAIN p1.hold = B /\ \A b \in B : p1.hold[b] \in Int
  <2> DEFINE dd == IF syncing.active THEN syncing.device ELSE NoDev
  <2> HIDE DEF B, dd
  <2>. QED BY <1>0, PickFacts, ZenonT(60)
<1>3. /\ p2.bds \subseteq A /\ DOMAIN p2.hold = A /\ \A b \in A : p2.hold[b] \in Int
  <2> HIDE DEF A, p1
  <2>. QED BY <1>0, PickFacts
<1> HIDE DEF p1, p2
<1>4. take \in SUBSET Bds /\ \A b \in take : bd[b].state \in {"SYNC", "MODIFIED"}
  <2>1. take \subseteq B \cup A
    BY <1>2, <1>3
  <2>. QED BY <1>0, <2>1, LiveFacts DEF In
<1>5. /\ aged \in BdFun
      /\ \A b \in Bds : /\ aged[b].state = bd[b].state /\ aged[b].dd = bd[b].dd
                        /\ aged[b].block = bd[b].block /\ aged[b].val = bd[b].val
  <2>1. ASSUME NEW b \in Bds
        PROVE  /\ aged[b] \in BdRec /\ aged[b].state = bd[b].state /\ aged[b].dd = bd[b].dd
               /\ aged[b].block = bd[b].block /\ aged[b].val = bd[b].val
    <3>1. bd[b] \in BdRec
      BY <1>0 DEF BdFun
    <3>2. \E i \in Int : aged[b] = [bd[b] EXCEPT !.hold = i] \/ aged[b] = bd[b]
      <4>1. CASE b \in DOMAIN p1.hold
        BY <1>2, <4>1
      <4>2. CASE b \notin DOMAIN p1.hold /\ b \in DOMAIN p2.hold
        BY <1>3, <4>2
      <4>3. CASE b \notin DOMAIN p1.hold /\ b \notin DOMAIN p2.hold
        BY <4>3
      <4>. QED BY <4>1, <4>2, <4>3
    <3> HIDE DEF aged
    <3>. QED BY <3>1, <3>2 DEF BdRec
  <2>2. aged = [b \in Bds |-> aged[b]]
    OBVIOUS
  <2> HIDE DEF aged
  <2>. QED BY <2>1, <2>2 DEF BdFun
<1> HIDE DEF take, aged
<1>6. "TRANSFER" \in States
  BY DEF States, Transferring
<1>7. /\ SetState(aged, take, "TRANSFER") \in BdFun
      /\ \A b \in Bds :
              /\ SetState(aged, take, "TRANSFER")[b].state = IF b \in take THEN "TRANSFER" ELSE aged[b].state
              /\ SetState(aged, take, "TRANSFER")[b].dd = aged[b].dd
              /\ SetState(aged, take, "TRANSFER")[b].block = aged[b].block
              /\ SetState(aged, take, "TRANSFER")[b].val = aged[b].val
  BY <1>5, <1>6, SetStateFacts
<1>8. \A b \in Bds : /\ bd'[b].state = IF b \in take THEN "TRANSFER" ELSE bd[b].state
                     /\ bd'[b].dd = bd[b].dd /\ bd'[b].block = bd[b].block /\ bd'[b].val = bd[b].val
  BY <1>1, <1>5, <1>7
<1>. QED BY <1>4, <1>8

\* What swapout takes to write is transferring from then on, so whoever comes waits for its end.
LEMMA SwapoutProcessingWake ==
  ASSUME Inv, Inv', WakeInv, SwapoutProcessing
  PROVE  WakeInv'
<1>1. PICK T \in SUBSET Bds :
            /\ \A b \in T : bd[b].state \in {"SYNC", "MODIFIED"}
            /\ \A b \in Bds : /\ bd'[b].state = IF b \in T THEN "TRANSFER" ELSE bd[b].state
                              /\ bd'[b].dd = bd[b].dd /\ bd'[b].block = bd[b].block /\ bd'[b].val = bd[b].val
  BY SwapoutTakes
<1>2. UNCHANGED <<tree, group, dev, task, hist>> /\ None \notin Tasks
  BY BdbufAssumption DEF SwapoutProcessing
<1>3. Others(None, {}) /\ \A x : Waiting(x)' = Waiting(x)
  BY <1>2 DEF Others, Waiting
<1>4. StaleKept(None)
  BY <1>2, StaleStays
<1>5. \A b \in Bds : Told(b, {})
  <2>. SUFFICES ASSUME NEW b \in Bds PROVE Told(b, {})
    OBVIOUS
  <2>1. CASE b \in T
    <3>1. bd[b].state \notin Access /\ bd'[b].state \in Transferring
      BY <1>1, <2>1 DEF Access, Transferring
    <3>. QED BY <1>2, <3>1 DEF Told
  <2>2. CASE b \notin T
    BY <1>1, <1>2, <2>2 DEF Told
  <2>. QED BY <2>1, <2>2
<1>6. Unmoved
  <2>1. ASSUME NEW b \in Bds
        PROVE  /\ bd[b].state \in InUse => bd'[b].state \in InUse
               /\ bd'[b].state \in {"FREE", "CACHED"} => bd[b].state \in {"FREE", "CACHED"}
    <3>1. CASE b \in T
      BY <1>1, <3>1 DEF InUse, Transferring
    <3>2. CASE b \notin T
      BY <1>1, <3>2
    <3>. QED BY <3>1, <3>2
  <2>. QED BY <1>2, <2>1 DEF Unmoved
<1>. QED BY <1>1, <1>2, <1>3, <1>4, <1>5, <1>6, ManyWake

\* A purge wakes those who wait for a buffer it takes off the sync list, and those who wait for any.
LEMMA PurgeDevWake ==
  ASSUME Inv, Inv', WakeInv, NEW t \in Tasks, Apart(task[t]), NEW d \in Devs, NEW s \in PurgeOrders(d),
         NEW tk \in TaskFun, \A u \in Tasks \ {t} : tk[u] = task[u], tk[t].pc = "idle", tk[t].cv = "none",
         PurgeDev(t, d, s, tk), StaleKept(t)
  PROVE  WakeInv'
<1> DEFINE mine(st) == {b \in tree : bd[b].dd = d /\ bd[b].state \in st}
<1>0. bd \in BdFun /\ group \in GroupFun /\ tree \subseteq Bds
  BY DEF Inv, TypeOK
<1>1. PICK S, U, R, Y : /\ S = mine({"SYNC", "MODIFIED", "CACHED"})
                        /\ U = mine({"ACCESS_CACHED", "ACCESS_EMPTY", "ACCESS_MODIFIED"})
                        /\ R = mine({"TRANSFER"})
                        /\ Y = mine({"SYNC"})
  OBVIOUS
<1>2. /\ \A b : b \in S <=> b \in tree /\ bd[b].dd = d /\ bd[b].state \in {"SYNC", "MODIFIED", "CACHED"}
      /\ \A b : b \in U <=> b \in tree /\ bd[b].dd = d
                            /\ bd[b].state \in {"ACCESS_CACHED", "ACCESS_EMPTY", "ACCESS_MODIFIED"}
      /\ \A b : b \in R <=> b \in tree /\ bd[b].dd = d /\ bd[b].state = "TRANSFER"
      /\ \A b : b \in Y <=> b \in tree /\ bd[b].dd = d /\ bd[b].state = "SYNC"
  BY <1>1
<1>3. IsFiniteSet(Bds) /\ S \in SUBSET Bds
  BY <1>0, <1>2, GroupFacts
<1>4. IsFiniteSet(S)
  BY <1>3, FS_Subset
<1>5. ToSet(s) = S
  <2>1. s \in SetToSeqs(S)
    BY <1>1 DEF PurgeOrders
  <2>2. IsList(Bds, s, S)
    BY <1>3, <1>4, <2>1, SetToSeqsFacts
  <2>. QED BY <2>2 DEF IsList
<1>6. S \cap U = {} /\ S \cap R = {} /\ U \cap R = {}
  BY <1>2
<1>7. PICK W : W = Unwaited(t, S)
  OBVIOUS
<1> DEFINE cvs == (IF Y # {} THEN {"transfer"} ELSE {}) \cup (IF W # {} THEN {"buffer"} ELSE {})
<1>8. /\ bd' = PurgedBd(t, bd, S, U, R)
      /\ tree' = tree \ W
      /\ \A g \in Groups : group'[g].bds_per_group = group[g].bds_per_group
      /\ task' = Woken(cvs, tk)
  <2> DEFINE m == {b \in tree : bd[b].dd = d}
             X == {b \in m : bd[b].state \in {"SYNC", "MODIFIED"}}
  <2>1. /\ {b \in m : bd[b].state \in {"ACCESS_CACHED", "ACCESS_EMPTY", "ACCESS_MODIFIED"}} = U
        /\ {b \in m : bd[b].state \in {"TRANSFER"}} = R
        /\ {b \in m : bd[b].state \in {"SYNC"}} = Y
    BY <1>2
  <2>2. group' = [g \in Groups |-> [group[g] EXCEPT !.users = @ - Cardinality({b \in X : GroupOf(b) = g})]]
    BY DEF PurgeDev
  <2>3. \A g \in Groups : group'[g].bds_per_group = group[g].bds_per_group
    <3> DEFINE n(g) == group[g].users - Cardinality({b \in X : GroupOf(b) = g})
    <3>1. \A g \in Groups : group'[g] = [group[g] EXCEPT !.users = n(g)]
      BY <2>2
    <3> HIDE DEF n
    <3>. QED BY <1>0, <3>1 DEF GroupFun
  <2>. QED BY <1>5, <1>7, <2>1, <2>3 DEF PurgeDev, PurgedBd
<1>9. (Y # {} => "transfer" \in cvs) /\ (W # {} => "buffer" \in cvs)
  OBVIOUS
<1>10. PICK cs : cs = cvs
  OBVIOUS
<1>11. /\ task' = Woken(cs, tk)
       /\ Y # {} => "transfer" \in cs
       /\ W # {} => "buffer" \in cs
  BY <1>8, <1>9, <1>10
<1> HIDE DEF cvs, mine
<1>12. \A b \in Bds : /\ bd'[b].dd = bd[b].dd /\ bd'[b].block = bd[b].block
                      /\ b \in S \/ b \in U \/ b \in R \/ bd'[b].state = bd[b].state
                      /\ b \notin U \/ bd'[b].state = "ACCESS_PURGED"
                      /\ b \notin R \/ bd'[b].state = "TRANSFER_PURGED"
  <2>1. bd' = PurgedBd(t, bd, S, U, R) /\ bd \in BdFun
    BY <1>0, <1>8
  <2>0. PICK e : e = PurgedBd(t, bd, S, U, R)
    OBVIOUS
  <2>2. \A b \in Bds : /\ e[b].dd = bd[b].dd /\ e[b].block = bd[b].block /\ e[b].val = bd[b].val
                       /\ b \in S \/ b \in U \/ b \in R \/ e[b].state = bd[b].state
                       /\ b \notin S \/ ~Waited(t, b) \/ e[b].state = "EMPTY"
                       /\ b \notin S \/ Waited(t, b) \/ e[b].state = "FREE"
                       /\ b \notin U \/ e[b].state = "ACCESS_PURGED"
                       /\ b \notin R \/ e[b].state = "TRANSFER_PURGED"
    BY <1>0, <1>6, <2>0, PurgedFacts
  <2>3. bd' = e
    BY <2>0, <2>1
  <2>. QED BY <2>2, <2>3
<1>13. Others(t, cs) /\ task'[t].pc = "idle"
  BY <1>11, WokenOthers
<1>14. task'[t].cv = IF tk[t].cv \in cs THEN "none" ELSE tk[t].cv
  BY <1>11, WokenOthers, ZenonT(30)
<1>15. Rightly(t)'
  BY <1>13, <1>14, Awake
<1>16. \A x : Waiting(x)' = Waiting(x)
  <2>1. task[t].pc \notin BdWait /\ task'[t].pc \notin BdWait
    BY <1>13 DEF Apart, BdWait
  <2>2. \A u \in Tasks \ {t} : task'[u].pc = task[u].pc /\ task'[u].bd = task[u].bd
    BY <1>13 DEF Others
  <2>. QED BY <2>1, <2>2 DEF Waiting
<1>17. \A b : b \in W <=> b \in S /\ Waiting(b) = {}
  <2>1. \A b : t \notin Waiting(b)
    BY DEF Apart, Waiting
  <2>2. \A b : Waited(t, b) <=> Waiting(b) # {}
    BY <2>1, WaitedFacts
  <2>3. \A b : b \in Unwaited(t, S) <=> b \in S /\ ~Waited(t, b)
    BY UnwaitedFacts
  <2>. QED BY <1>7, <2>2, <2>3
<1>18. ASSUME NEW b \in Bds, Waiting(b) # {} PROVE Told(b, cs)
  <2>1. b \in tree => b \in tree'
    BY <1>8, <1>17, <1>18
  <2>2. CASE b \in U
    BY <1>2, <1>12, <2>1, <2>2 DEF Told, Access, Transferring
  <2>3. CASE b \in R
    BY <1>2, <1>12, <2>1, <2>3 DEF Told, Access, Transferring
  <2>4. CASE b \in S
    <3>1. bd[b].state \notin Access
      BY <1>2, <2>4 DEF Access
    <3>2. bd[b].state \in Transferring => "transfer" \in cs
      BY <1>2, <1>11, <2>4 DEF Transferring
    <3>. QED BY <2>1, <3>1, <3>2 DEF Told
  <2>5. CASE b \notin S /\ b \notin U /\ b \notin R
    BY <1>12, <2>1, <2>5 DEF Told
  <2>. QED BY <2>2, <2>3, <2>4, <2>5
<1>19. ASSUME "buffer" \notin cs PROVE Unmoved
  <2>1. W = {} /\ tree' = tree
    BY <1>8, <1>11, <1>19
  <2>2. ASSUME NEW b \in Bds, Waiting(b) = {}
        PROVE  /\ bd[b].state \in InUse => bd'[b].state \in InUse
               /\ bd'[b].state \in {"FREE", "CACHED"} => bd[b].state \in {"FREE", "CACHED"}
    <3>1. b \notin S
      BY <1>17, <2>1, <2>2
    <3>2. CASE b \in U
      BY <1>12, <3>2 DEF InUse, Access
    <3>3. CASE b \in R
      BY <1>12, <3>3 DEF InUse, Transferring
    <3>4. CASE b \notin U /\ b \notin R
      BY <1>12, <3>1, <3>4
    <3>. QED BY <3>2, <3>3, <3>4
  <2>. QED BY <2>1, <2>2 DEF Unmoved
<1>20. tree' \subseteq tree
  BY <1>8
<1>21. \A b \in Bds : bd'[b].dd = bd[b].dd /\ bd'[b].block = bd[b].block
  BY <1>12
<1>22. "buffer" \in cs \/ Unmoved
  BY <1>19
<1>. QED BY <1>8, <1>13, <1>15, <1>16, <1>18, <1>20, <1>21, <1>22, ManyWake

\* rtems_bdbuf_purge_dev wakes those who wait for what it discards.
LEMMA PurgeWake ==
  ASSUME Inv, Inv', WakeInv, NEW t \in Tasks, NEW d \in Devs, Purge(t, d)
  PROVE  WakeInv'
<1>0. task \in TaskFun /\ dev \in DevFun /\ NoTrigger \in Int /\ HistRec(hist)
  BY DEF Inv, TypeOK, NoTrigger, HistRec
<1>1. PICK s \in PurgeOrders(d) : PurgeDev(t, d, s, task)
  BY DEF Purge
<1>2. /\ task[t].pc = "idle" /\ dev' = [dev EXCEPT ![d].trigger = NoTrigger]
      /\ hist' = [hist EXCEPT !.lost = @ \cup GivenUp(d)]
  BY DEF Purge
<1>3. \A e \in Devs : dev'[e].bds_per_group = dev[e].bds_per_group
  BY <1>0, <1>2, SetTriggerFacts
<1>4. hist'.stale = hist.stale
  BY <1>0, <1>2, Zenon DEF HistRec
<1>5. Apart(task[t]) /\ task[t].pc \notin BdWait \cup {"buf"}
  BY <1>2 DEF Apart, OwnPc, BdWait
<1>6. task[t].cv = "none"
  BY <1>5, AwakeAlready
<1>7. StaleKept(t)
  BY <1>3, <1>4, StaleStays
<1>. QED BY <1>0, <1>1, <1>2, <1>5, <1>6, <1>7, PurgeDevWake

\* Those who wait for a buffer of the device's old size are stale from then on.
LEMMA SetBlockSizeWake ==
  ASSUME Inv, Inv', WakeInv, NEW t \in Tasks, NEW n \in 1 .. MaxBdsPerGroup, SetBlockSize(t, n)
  PROVE  WakeInv'
<1>0. task \in TaskFun /\ dev \in DevFun /\ HistRec(hist) /\ TasksInv
  BY DEF Inv, TypeOK, HistRec
<1>00. task[t].pc = "resize" /\ task[t].dd \in Devs /\ task[t] \in TaskRec
  <2>1. task[t].pc = "resize"
    BY DEF SetBlockSize
  <2>. QED BY <1>0, <2>1 DEF TasksInv, TaskFun
<1>1. PICK d \in Devs : d = task[t].dd
  BY <1>00
<1> DEFINE k == [task EXCEPT ![t] = Idle(task[t])]
<1>2. PICK s \in PurgeOrders(d) : PurgeDev(t, d, s, k)
  BY <1>1 DEF SetBlockSize
<1>3. PICK tk : tk = k
  OBVIOUS
<1>4. tk \in TaskFun /\ tk[t].pc = "idle" /\ tk[t].cv = "none" /\ \A u \in Tasks \ {t} : tk[u] = task[u]
  <2> DEFINE r == Idle(task[t])
  <2>1. r \in TaskRec /\ r.pc = "idle" /\ r.cv = "none"
    BY <1>00, IdleFacts
  <2>2. tk = [task EXCEPT ![t] = r]
    BY <1>3
  <2> HIDE DEF r
  <2>. QED BY <1>0, <2>1, <2>2 DEF TaskFun
<1>5. PurgeDev(t, d, s, tk)
  BY <1>2, <1>3
<1>6. \A e \in Devs \ {d} : dev'[e] = dev[e]
  <2> DEFINE v == [dev[d] EXCEPT !.trigger = NoTrigger, !.bds_per_group = n]
  <2>1. dev' = [dev EXCEPT ![d] = v]
    BY <1>1 DEF SetBlockSize
  <2> HIDE DEF v
  <2>. QED BY <1>0, <2>1 DEF DevFun
<1>7. hist'.stale = hist.stale \cup {u \in Tasks : task[u].cv = "buffer" /\ task[u].dd = d}
  <2> DEFINE o == hist.stale \cup {u \in Tasks : task[u].cv = "buffer" /\ task[u].dd = d}
  <2>1. hist' = [hist EXCEPT !.resized = TRUE, !.stale = o]
    BY <1>1 DEF SetBlockSize
  <2> HIDE DEF o
  <2>2. hist'.stale = o
    BY <1>0, <2>1, Zenon DEF HistRec
  <2>. QED BY <2>2 DEF o
<1>8. Apart(task[t])
  BY <1>00 DEF Apart, OwnPc, BdWait
<1>9. StaleKept(t)
  <2>. SUFFICES ASSUME NEW u \in Tasks \ {t}, task[u].cv = "buffer", u \notin hist'.stale
               PROVE  u \notin hist.stale /\ dev'[task[u].dd].bds_per_group = dev[task[u].dd].bds_per_group
    BY DEF StaleKept
  <2>1. task[u].pc = "buf"
    BY DEF WakeInv, Rightly
  <2>2. task[u].dd \in Devs
    BY <1>0, <2>1 DEF TasksInv
  <2>3. u \notin hist.stale /\ task[u].dd # d
    BY <1>7
  <2>. QED BY <1>6, <2>2, <2>3
<1> HIDE DEF k
<1>. QED BY <1>4, <1>5, <1>8, <1>9, PurgeDevWake

\* The read-ahead task takes a buffer as a task does, and wakes those who wait for any.
LEMMA PrefetchWake ==
  ASSUME Inv, Inv', WakeInv, NEW d \in Devs, NEW m \in Int, NEW rest, CanPrefetch(d, m), Prefetch(d, m, rest),
         hist' = hist, \A e \in Devs : dev'[e].bds_per_group = dev[e].bds_per_group
  PROVE  WakeInv'
<1>0. bd \in BdFun /\ task \in TaskFun /\ "TRANSFER" \in States /\ None \notin Tasks
  BY BdbufAssumption DEF Inv, TypeOK, States, Transferring
<1>1. \A y : None \notin Waiting(y)
  BY <1>0 DEF Waiting
<1>2. PICK x, O : x = FromLru(None, d) /\ Taken(x, d, O)
  BY <1>1, FromLruFacts DEF CanPrefetch
<1> DEFINE b == x.b
           f == SetupEmpty(x, d, m, "TRANSFER")
<1>3. \/ Fatal
      \/ /\ tree' = x.tree \cup {b} /\ bd' = f
         /\ group' = Users(x.group, GroupOf(b), 1)
         /\ task' = Woken(IF x.fresh # {} THEN {"buffer"} ELSE {}, task)
  BY <1>2 DEF Prefetch
<1>4. CASE Fatal
  BY <1>4, FatalWake
<1>5. CASE /\ tree' = x.tree \cup {b} /\ bd' = f
           /\ group' = Users(x.group, GroupOf(b), 1)
           /\ task' = Woken(IF x.fresh # {} THEN {"buffer"} ELSE {}, task)
  <2>1. b \in Bds /\ x.group \in GroupFun
    BY <1>2 DEF Taken, Still, GroupFun
  <2>2. /\ f \in BdFun
        /\ f[b].dd = d /\ f[b].block = m /\ f[b].state = "TRANSFER"
        /\ \A y \in Bds \ {b} :
                /\ f[y].state = IF y \in x.fresh THEN "FREE" ELSE bd[y].state
                /\ f[y].dd = bd[y].dd /\ f[y].block = bd[y].block
    BY <1>0, <2>1, SetupEmptyFacts
  <2> HIDE DEF f
  <2>3. PICK cvs : task' = Woken(cvs, task) /\ (x.fresh # {} => "buffer" \in cvs)
    BY <1>5
  <2>4. Others(None, cvs) /\ \A y : Waiting(y)' = Waiting(y)
    BY <1>0, <2>3, BroadcastFacts
  <2>5. Counted(x.group, b, 1)
    BY <1>5, <2>1, CountedUsers
  <2>6. Seized(x, d, m)
    BY <1>5, <2>2, <2>4, <2>5 DEF Seized, Counted
  <2>. QED BY <1>0, <1>2, <2>3, <2>4, <2>6, SeizedWake
<1>. QED BY <1>3, <1>4, <1>5

\* Nothing that anybody waits for changes.
LEMMA UnnoticedWake ==
  ASSUME Inv, Inv', WakeInv, Untouched, task' = task, hist' = hist,
         \A d \in Devs : dev'[d].bds_per_group = dev[d].bds_per_group
  PROVE  WakeInv'
<1>1. Others(None, {}) /\ \A x : Waiting(x)' = Waiting(x)
  BY DEF Others, Waiting
<1>. QED BY <1>1, StillWake, BdbufAssumption

\* rtems_bdbuf_read_ahead_task, for the next device of the chain.
LEMMA ReadAheadNextWake ==
  ASSUME Inv, Inv', WakeInv, ReadAheadNext
  PROVE  WakeInv'
<1> DEFINE d == Head(ahead.chain)
           v == dev[d]
           k == v.next
           i == k + MaxReadAhead \div 2
           j == k + MaxReadAhead
           m == k * Span(d)
<1>0. dev \in DevFun /\ ahead.chain \in Seq(Devs)
  BY DEF Inv, TypeOK
<1>1. /\ ahead.chain # <<>> /\ hist' = hist
      /\ \/ dev' = dev \/ dev' = [dev EXCEPT ![d].trigger = NoTrigger]
         \/ dev' = [dev EXCEPT ![d].trigger = i, ![d].next = j]
      /\ \/ UNCHANGED <<bd, lists, group, task>>
         \/ CanPrefetch(d, m) /\ \E rest : Prefetch(d, m, rest)
  BY DEF ReadAheadNext
<1>2. d \in Devs
  BY <1>0, <1>1, HeadTailProperties
<1>3. k \in Int /\ Span(d) \in Int
  BY <1>0, <1>2, SpanFacts DEF DevFun
<1>4. m \in Int
  BY <1>3
<1>6. i \in Int /\ j \in Int /\ NoTrigger \in Int
  BY <1>3, BdbufAssumption DEF NoTrigger
<1> HIDE DEF d, i, j, m
<1>7. \A e \in Devs : dev'[e].bds_per_group = dev[e].bds_per_group
  BY <1>0, <1>1, <1>2, <1>6, SetTriggerFacts
<1>8. CASE UNCHANGED <<bd, lists, group, task>>
  BY <1>1, <1>7, <1>8, UnnoticedWake DEF Untouched, lists
<1>9. CASE CanPrefetch(d, m) /\ \E rest : Prefetch(d, m, rest)
  <2>1. PICK rest : Prefetch(d, m, rest)
    BY <1>9
  <2>. QED BY <1>1, <1>2, <1>4, <1>7, <1>9, <2>1, PrefetchWake
<1>. QED BY <1>1, <1>8, <1>9

\* rtems_bdbuf_execute_read_request, for the next block of the request.
LEMMA ReadAheadGatherWake ==
  ASSUME Inv, Inv', WakeInv, ReadAheadGather
  PROVE  WakeInv'
<1> DEFINE d == ahead.dd
           s == ahead.req
           m == bd[s[Len(s)]].block + Span(d)
<1>0. RequestsInv /\ dev \in DevFun /\ bd \in BdFun /\ s \in Seq(Bds)
  BY DEF Inv, TypeOK
<1>1. /\ ahead.pc = "gather" /\ UNCHANGED <<dev, hist>>
      /\ \/ CanPrefetch(d, m) /\ Prefetch(d, m, ahead)
         \/ UNCHANGED <<bd, lists, group, task>>
  BY DEF ReadAheadGather
<1>2. d \in Devs /\ s # <<>>
  BY <1>0, <1>1 DEF RequestsInv
<1>3. m \in Int
  <2>1. Len(s) \in 1 .. Len(s)
    <3> HIDE DEF s
    <3>1. Len(s) \in Nat /\ Len(s) # 0
      BY <1>0, <1>2, LenProperties, EmptySeq
    <3>. QED BY <3>1
  <2>2. s[Len(s)] \in Bds
    <3> HIDE DEF s
    <3>. QED BY <1>0, <2>1, ElementOfSeq
  <2>3. bd[s[Len(s)]].block \in Int
    BY <1>0, <2>2 DEF BdFun, BdRec
  <2>. QED BY <1>0, <1>2, <2>3, SpanFacts
<1> HIDE DEF m
<1>4. CASE CanPrefetch(d, m) /\ Prefetch(d, m, ahead)
  BY <1>1, <1>2, <1>3, <1>4, PrefetchWake
<1>5. CASE UNCHANGED <<bd, lists, group, task>>
  BY <1>1, <1>5, UnnoticedWake DEF Untouched, lists
<1>. QED BY <1>1, <1>4, <1>5

\* A task that does not wait for a buffer changes its own record and goes on.
LEMMA AloneWake ==
  ASSUME Inv, Inv', WakeInv, NEW t \in Tasks, task[t].pc \notin BdWait, NEW r \in TaskRec,
         r.pc \notin BdWait, r.cv = "none", task' = [task EXCEPT ![t] = r], Untouched, dev' = dev,
         hist'.stale = hist.stale
  PROVE  WakeInv'
<1>0. task \in TaskFun
  BY DEF Inv, TypeOK
<1>1. Others(t, {}) /\ task'[t] = r
  BY <1>0, OthersPlain
<1>2. \A x : Waiting(x)' = Waiting(x)
  <2>1. \A u \in Tasks \ {t} : task'[u].pc = task[u].pc /\ task'[u].bd = task[u].bd
    BY <1>1 DEF Others
  <2>. QED BY <1>1, <2>1 DEF Waiting
<1>3. Rightly(t)'
  BY <1>1, Awake DEF BdWait
<1>. QED BY <1>1, <1>2, <1>3, StillWake

\* rtems_bdbuf_syncdev, when it starts and when it returns.
LEMMA SyncdevWake ==
  ASSUME Inv, Inv', WakeInv, NEW t \in Tasks,
         \/ \E op \in {"syncdev", "resize"}, d \in Devs : Syncdev(t, op, d)
         \/ SyncdevReturn(t)
  PROVE  WakeInv'
<1>0. task \in TaskFun /\ HistRec(hist) /\ task[t] \in TaskRec
  BY DEF Inv, TypeOK, HistRec, TaskFun
<1>1. task[t].pc \in {"idle", "syncdone"} /\ Untouched /\ dev' = dev
  BY DEF Syncdev, SyncdevReturn, Untouched, lists
<1>2. task[t].pc \notin BdWait /\ task[t].cv = "none"
  <2>1. task[t].pc \notin BdWait \cup {"buf"}
    BY <1>1 DEF BdWait
  <2>. QED BY <2>1, AwakeAlready
<1>3. hist'.stale = hist.stale
  <2>1. PICK p : hist' = [hist EXCEPT !.pending = p]
    BY DEF Syncdev, SyncdevReturn
  <2>. QED BY <1>0, <2>1, Zenon DEF HistRec
<1>4. ASSUME NEW op \in {"syncdev", "resize"}, NEW d \in Devs, Syncdev(t, op, d) PROVE WakeInv'
  <2> DEFINE r == [task[t] EXCEPT !.pc = "syncwait", !.op = op, !.dd = d]
  <2>1. r \in TaskRec /\ r.pc = "syncwait" /\ r.cv = "none"
    <3>1. "syncwait" \in TaskPc
      BY DEF TaskPc
    <3>. QED BY <1>0, <1>2, <3>1 DEF TaskRec
  <2>2. task' = [task EXCEPT ![t] = r]
    BY <1>4 DEF Syncdev
  <2> HIDE DEF r
  <2>3. r.pc \notin BdWait
    BY <2>1 DEF BdWait
  <2>. QED BY <1>1, <1>2, <1>3, <2>1, <2>2, <2>3, AloneWake
<1>5. ASSUME SyncdevReturn(t) PROVE WakeInv'
  <2> DEFINE q == [task[t] EXCEPT !.pc = "resize"]
             r == IF task[t].op = "resize" THEN q ELSE Idle(task[t])
  <2>1. q \in TaskRec /\ q.pc = "resize" /\ q.cv = "none"
    <3>1. "resize" \in TaskPc
      BY DEF TaskPc
    <3>. QED BY <1>0, <1>2, <3>1 DEF TaskRec
  <2>2. Idle(task[t]) \in TaskRec /\ Idle(task[t]).pc = "idle" /\ Idle(task[t]).cv = "none"
    BY <1>0, IdleFacts
  <2>3. task' = [task EXCEPT ![t] = r]
    BY <1>5 DEF SyncdevReturn
  <2> HIDE DEF q
  <2>4. r \in TaskRec /\ r.pc \in {"resize", "idle"} /\ r.cv = "none"
    BY <2>1, <2>2
  <2> HIDE DEF r
  <2>5. r.pc \notin BdWait
    BY <2>4 DEF BdWait
  <2>. QED BY <1>1, <1>2, <1>3, <2>3, <2>4, <2>5, AloneWake
<1>. QED BY <1>4, <1>5

\* rtems_bdbuf_peek only changes what is to be read ahead.
LEMMA PeekWake ==
  ASSUME Inv, Inv', WakeInv, NEW t \in Tasks, NEW d \in Devs, NEW k \in 0 .. MediaBlocks - 1,
         NEW n \in 1 .. MaxReadAhead, Peek(t, d, k, n)
  PROVE  WakeInv'
<1>0. dev \in DevFun
  BY DEF Inv, TypeOK
<1>1. Untouched /\ task' = task /\ hist' = hist
  BY DEF Peek, Untouched, lists
<1>2. \A e \in Devs : dev'[e].bds_per_group = dev[e].bds_per_group
  <2>1. NoTrigger \in Int /\ k \in Int /\ n \in Int
    BY BdbufAssumption DEF NoTrigger
  <2>2. dev[d] \in DevRec
    BY <1>0 DEF DevFun, DevRec
  <2> DEFINE v == [dev[d] EXCEPT !.trigger = NoTrigger, !.next = k, !.nr_blocks = n]
  <2>3. v \in DevRec /\ v.bds_per_group = dev[d].bds_per_group
    BY <2>1, <2>2 DEF DevRec
  <2>4. dev' = [dev EXCEPT ![d] = v]
    BY DEF Peek
  <2> HIDE DEF v
  <2>. QED BY <1>0, <2>3, <2>4 DEF DevFun
<1>. QED BY <1>1, <1>2, UnnoticedWake

\* The end of a sync wakes its requester, who waits for no buffer.
LEMMA EndSyncWake ==
  ASSUME Inv, SyncInv, Inv', WakeInv, EndSync
  PROVE  WakeInv'
<1>0. task \in TaskFun
  BY DEF Inv, TypeOK
<1>1. /\ Untouched /\ UNCHANGED <<dev, hist>>
      /\ task' = [t \in Tasks |-> IF t = syncing.requester THEN [task[t] EXCEPT !.pc = "syncdone"]
                                                           ELSE task[t]]
  BY DEF EndSync, Untouched, lists
<1>2. CASE syncing.requester \notin Tasks
  <2>1. task' = task
    BY <1>0, <1>1, <1>2 DEF TaskFun
  <2>. QED BY <1>1, <2>1, UnnoticedWake
<1>3. CASE syncing.requester \in Tasks
  <2>1. PICK t \in Tasks : t = syncing.requester
    BY <1>3
  <2>2. task[t].pc = "syncwait" /\ task[t] \in TaskRec
    BY <1>0, <2>1 DEF SyncInv, TaskFun
  <2>3. task[t].pc \notin BdWait /\ task[t].cv = "none"
    <3>1. task[t].pc \notin BdWait \cup {"buf"}
      BY <2>2 DEF BdWait
    <3>. QED BY <3>1, AwakeAlready
  <2> DEFINE r == [task[t] EXCEPT !.pc = "syncdone"]
  <2>4. r \in TaskRec /\ r.pc = "syncdone" /\ r.cv = "none"
    <3>1. "syncdone" \in TaskPc
      BY DEF TaskPc
    <3>. QED BY <2>2, <2>3, <3>1 DEF TaskRec
  <2>5. task' = [task EXCEPT ![t] = r]
    <3>1. task' = [u \in Tasks |-> IF u = t THEN r ELSE task[u]]
      BY <1>1, <2>1
    <3> HIDE DEF r
    <3>. QED BY <1>0, <3>1 DEF TaskFun
  <2> HIDE DEF r
  <2>6. r.pc \notin BdWait
    BY <2>4 DEF BdWait
  <2>. QED BY <1>1, <2>3, <2>4, <2>5, <2>6, AloneWake
<1>. QED BY <1>2, <1>3

\* The steps of the daemons that only change where they are.
LEMMA DaemonWake ==
  ASSUME Inv, Inv', WakeInv, \/ SwapoutWake \/ ReadAheadWake \/ ReadAheadSleep
                             \/ \E w \in Workers : WorkerBack(w)
  PROVE  WakeInv'
<1>1. Untouched /\ UNCHANGED <<task, dev, hist>>
  BY DEF SwapoutWake, ReadAheadWake, ReadAheadSleep, WorkerBack, Untouched, lists
<1>. QED BY <1>1, UnnoticedWake

\* No step loses a wake-up.
LEMMA NextWake ==
  ASSUME Inv, SyncInv, WakeInv, Inv', Next
  PROVE  WakeInv'
<1>1. ASSUME NEW t \in Tasks, NEW op \in {"get", "read"}, NEW d \in Devs, NEW k \in 0 .. MediaBlocks - 1,
             Get(t, op, d, k)
      PROVE  WakeInv'
  BY <1>1, GetWake
<1>2. ASSUME NEW t \in Tasks, SearchAgain(t) \/ AccessAgain(t) \/ RecycleAgain(t) PROVE WakeInv'
  BY <1>2, AgainWake
<1>3. ASSUME NEW t \in Tasks, ReadDone(t) PROVE WakeInv'
  BY <1>3, ReadDoneWake
<1>4. ASSUME NEW t \in Tasks, Release(t) \/ ReleaseModified(t) \/ PassSyncLock(t) \/ AddModified(t) PROVE WakeInv'
  BY <1>4, ReleaseWake
<1>5. ASSUME NEW t \in Tasks, Sync(t) PROVE WakeInv'
  BY <1>5, SyncWake
<1>6. ASSUME NEW t \in Tasks, SyncAgain(t) PROVE WakeInv'
  BY <1>6, SyncAgainWake
<1>7. ASSUME NEW t \in Tasks, NEW op \in {"syncdev", "resize"}, NEW d \in Devs, Syncdev(t, op, d) PROVE WakeInv'
  BY <1>7, SyncdevWake
<1>8. ASSUME NEW t \in Tasks, SyncdevReturn(t) PROVE WakeInv'
  BY <1>8, SyncdevWake
<1>9. ASSUME NEW t \in Tasks, NEW d \in Devs, Purge(t, d) PROVE WakeInv'
  BY <1>9, PurgeWake
<1>10. ASSUME NEW t \in Tasks, NEW n \in 1 .. MaxBdsPerGroup, SetBlockSize(t, n) PROVE WakeInv'
  BY <1>10, SetBlockSizeWake
<1>11. ASSUME NEW t \in Tasks, NEW d \in Devs, NEW k \in 0 .. MediaBlocks - 1, NEW n \in 1 .. MaxReadAhead,
              Peek(t, d, k, n)
       PROVE  WakeInv'
  BY <1>11, PeekWake
<1>12. ASSUME \/ SwapoutProcessing \/ EndSync \/ SwapoutWake \/ SwapoutWrite
              \/ \E w \in Workers : WorkerWrite(w) \/ WorkerBack(w)
       PROVE  WakeInv'
  BY <1>12, SwapoutProcessingWake, EndSyncWake, DaemonWake, SwapoutWriteWake, WorkerWriteWake
<1>13. ASSUME ReadAheadWake \/ ReadAheadSleep \/ ReadAheadNext \/ ReadAheadGather \/ ReadAheadDone
       PROVE  WakeInv'
  BY <1>13, DaemonWake, ReadAheadNextWake, ReadAheadGatherWake, ReadAheadDoneWake
<1>. QED BY <1>1, <1>2, <1>3, <1>4, <1>5, <1>6, <1>7, <1>8, <1>9, <1>10, <1>11, <1>12, <1>13 DEF Next

\* Who sleeps rightly has lost no wake-up.
LEMMA SleepsRightly ==
  ASSUME Inv, WakeInv
  PROVE  NoLostWakeup
<1>. SUFFICES ASSUME NEW t \in Tasks
             PROVE  /\ task[t].cv = "access" => bd[task[t].bd].state \in Access
                    /\ task[t].cv = "transfer" => bd[task[t].bd].state \in Transferring
                    /\ (task[t].cv = "buffer" /\ InTree(task[t].dd, task[t].media) = {} /\ t \notin hist.stale)
                        => ~HasUsable(t, task[t].dd)
  BY DEF NoLostWakeup
<1>1. Rightly(t)
  BY DEF WakeInv
<1>2. ASSUME task[t].cv = "buffer", InTree(task[t].dd, task[t].media) = {}, t \notin hist.stale
      PROVE  ~HasUsable(t, task[t].dd)
  <2>1. task[t].pc = "buf" /\ Asleep(task[t].dd, task[t].media)
    BY <1>1, <1>2 DEF Rightly
  <2>2. \A b \in Resting : ~Loose(task[t].dd, b)
    BY <1>2, <2>1 DEF Asleep
  <2>3. \A b : t \notin Waiting(b)
    BY <2>1 DEF Waiting, BdWait
  <2>4. ToSet(lru) = Resting
    BY DEF Inv, ListsInv, IsList, Resting
  <2>5. ASSUME NEW b \in Resting PROVE ~Usable(t, task[t].dd, b)
    <3>1. Waited(t, b) <=> Waiting(b) \ {t} # {}
      BY WaitedFacts
    <3>2. Waiting(b) # {} => Waited(t, b)
      BY <2>3, <3>1
    <3>. QED BY <2>2, <2>5, <3>2 DEF Usable, Loose
  <2>. QED BY <2>4, <2>5 DEF HasUsable
<1>. QED BY <1>1, <1>2 DEF Rightly

\* No wake-up of the block buffer cache is lost (bdbuf.c: rtems_bdbuf_wake and
\* its callers): a task sleeps on the condition variable that the state of its
\* buffer will signal, and one that waits for any buffer sleeps only while there
\* is none it could take, unless a change of the block size since it went to sleep
\* altered what it could take (bdbuf.c:3028 wakes nobody).
THEOREM WakeupsArrive == Spec => []NoLostWakeup
<1>1. Init => WakeInv
  <2>. SUFFICES ASSUME Init, NEW u \in Tasks PROVE Rightly(u)
    BY DEF WakeInv
  <2>1. task[u].cv = "none" /\ task[u].pc = "idle"
    BY DEF Init
  <2>. QED BY <2>1 DEF Rightly
<1>2. IInv /\ IInv' /\ WakeInv /\ [Next]_vars => WakeInv'
  <2>. SUFFICES ASSUME IInv, IInv', WakeInv, [Next]_vars PROVE WakeInv'
    OBVIOUS
  <2>0. Inv /\ SyncInv /\ Inv'
    BY DEF IInv
  <2>1. CASE Next
    BY <2>0, <2>1, NextWake
  <2>2. CASE UNCHANGED vars
    <3>1. Untouched /\ UNCHANGED <<task, hist, dev>>
      BY <2>2 DEF vars, Untouched
    <3>. QED BY <2>0, <3>1, UnnoticedWake
  <2>. QED BY <2>1, <2>2
<1>3. IInv /\ WakeInv => NoLostWakeup
  BY SleepsRightly DEF IInv
<1>. QED BY <1>1, <1>2, <1>3, CacheInvariant, PTL DEF Spec

\* The contents of a buffer, as long as there is one size; a buffer that will be discarded; one
\* that equals the disk.
Data(b) == bd[b].val[0]
Doomed(b) == bd[b].state \in {"ACCESS_PURGED", "TRANSFER_PURGED"}
Clean(b) == bd[b].state = "CACHED" \/ (bd[b].state = "ACCESS_CACHED" /\ ~Filled(b))
\* Where the latest version of block m of device d is.
Faithful(d, m) ==
    /\ \A b \in InTree(d, m) :
         /\ Valid(b) /\ <<d, m>> \notin hist.lost => Data(b) = hist.latest[d][m]
         /\ Clean(b) => Data(b) = disk[d][m]
         /\ Doomed(b) => <<d, m>> \in hist.lost
    /\ (<<d, m>> \notin hist.lost /\ \A b \in InTree(d, m) : ~Valid(b)) => disk[d][m] = hist.latest[d][m]
CohInv ==
    /\ hist.latest \in DiskFun
    /\ Sound /\ ~hist.resized => \A d \in Devs, m \in 0 .. MediaBlocks - 1 : Faithful(d, m)

\* What a step may do to a buffer without moving the latest version of its block.
Calm(b) ==
    /\ b \in tree' =>
         \/ /\ SameKey(b) /\ bd'[b].val = bd[b].val
            /\ Valid(b)' => Valid(b) \/ Doomed(b)
            /\ Clean(b)' => Clean(b)
            /\ Doomed(b)' => Doomed(b)
         \/ ~Valid(b)' /\ ~Doomed(b)'
         \/ /\ SameKey(b) /\ ~Valid(b) /\ ~Doomed(b)'
            /\ bd[b].block \in 0 .. MediaBlocks - 1 => bd'[b].val[0] = disk[bd[b].dd][bd[b].block]
    /\ b \in tree /\ Valid(b) => Clean(b) \/ (SameKey(b) /\ Valid(b)')

\* A clean buffer has contents.
LEMMA CleanIsValid ==
  ASSUME NEW b
  PROVE  /\ Clean(b) => Valid(b)
         /\ Clean(b)' => Valid(b)'
BY DEF Clean, Valid

\* A block that no step wrote keeps its latest version where it can be found.
LEMMA CalmStep ==
  ASSUME Inv, Inv', NEW d \in Devs, NEW m \in 0 .. MediaBlocks - 1, Faithful(d, m),
         disk'[d][m] = disk[d][m], hist'.latest[d][m] = hist.latest[d][m],
         <<d, m>> \in hist'.lost <=> <<d, m>> \in hist.lost,
         \A b \in Bds : b \in InTree(d, m) \/ b \in InTree(d, m)' => Calm(b)
  PROVE  Faithful(d, m)'
<1>0. tree \subseteq Bds /\ tree' \subseteq Bds /\ KeysInv
  BY DEF Inv, TypeOK
<1>1. \A b : /\ b \in InTree(d, m) <=> b \in tree /\ bd[b].dd = d /\ bd[b].block = m
             /\ b \in InTree(d, m)' <=> b \in tree' /\ bd'[b].dd = d /\ bd'[b].block = m
             /\ SameKey(b) => (b \in InTree(d, m)' <=> b \in InTree(d, m))
  BY DEF InTree, SameKey
<1>2. \A a, b \in InTree(d, m) : a = b
  BY <1>0, <1>1 DEF KeysInv
<1>3. \A b \in InTree(d, m) :
         /\ Valid(b) /\ <<d, m>> \notin hist.lost => Data(b) = hist.latest[d][m]
         /\ Clean(b) => Data(b) = disk[d][m]
         /\ Doomed(b) => <<d, m>> \in hist.lost
  BY DEF Faithful
<1>4. (<<d, m>> \notin hist.lost /\ \A b \in InTree(d, m) : ~Valid(b)) => disk[d][m] = hist.latest[d][m]
  BY DEF Faithful
<1>5. ASSUME NEW b \in InTree(d, m)'
      PROVE  /\ Valid(b)' /\ <<d, m>> \notin hist.lost => bd'[b].val[0] = hist.latest[d][m]
             /\ Clean(b)' => bd'[b].val[0] = disk[d][m]
             /\ Doomed(b)' => <<d, m>> \in hist.lost
  <2>0. b \in tree' /\ b \in Bds /\ Calm(b) /\ (Clean(b)' => Valid(b)')
    BY <1>0, <1>1, <1>5, CleanIsValid
  <2>1. CASE /\ SameKey(b) /\ bd'[b].val = bd[b].val
             /\ Valid(b)' => Valid(b) \/ Doomed(b)
             /\ Clean(b)' => Clean(b)
             /\ Doomed(b)' => Doomed(b)
    <3>1. b \in InTree(d, m) /\ bd'[b].val[0] = Data(b)
      BY <1>1, <1>5, <2>1 DEF Data
    <3>. QED BY <1>3, <2>1, <3>1
  <2>2. CASE ~Valid(b)' /\ ~Doomed(b)'
    BY <2>0, <2>2
  <2>3. CASE /\ SameKey(b) /\ ~Valid(b) /\ ~Doomed(b)'
             /\ bd[b].block \in 0 .. MediaBlocks - 1 => bd'[b].val[0] = disk[bd[b].dd][bd[b].block]
    <3>1. b \in InTree(d, m) /\ bd[b].dd = d /\ bd[b].block = m
      BY <1>1, <1>5, <2>3
    <3>2. bd'[b].val[0] = disk[d][m]
      BY <2>3, <3>1
    <3>3. <<d, m>> \notin hist.lost => disk[d][m] = hist.latest[d][m]
      BY <1>2, <1>4, <2>3, <3>1
    <3>. QED BY <2>3, <3>2, <3>3
  <2>. QED BY <2>0, <2>1, <2>2, <2>3 DEF Calm
<1>6. ASSUME <<d, m>> \notin hist.lost, \A b \in InTree(d, m)' : ~Valid(b)'
      PROVE  disk[d][m] = hist.latest[d][m]
  <2>1. ASSUME NEW b \in InTree(d, m), Valid(b)
        PROVE  disk[d][m] = hist.latest[d][m]
    <3>1. b \in tree /\ b \in Bds /\ Calm(b)
      BY <1>0, <1>1, <2>1
    <3>2. Clean(b) \/ (SameKey(b) /\ Valid(b)')
      BY <2>1, <3>1 DEF Calm
    <3>3. ~(SameKey(b) /\ Valid(b)')
      BY <1>1, <1>6, <2>1
    <3>. QED BY <1>3, <1>6, <2>1, <3>2, <3>3
  <2>. QED BY <1>4, <1>6, <2>1
<1>. QED BY <1>5, <1>6 DEF Faithful, Data

\* A step that writes no block: the disk and the versions are as before.
Plain ==
    /\ disk' = disk /\ hist'.latest = hist.latest /\ hist'.lost = hist.lost
    /\ hist.orphan => hist'.orphan
    /\ hist.resized => hist'.resized

\* A task that has a buffer, or has one read for it; buffer b is for block m of device d.
TakePc == OwnPc \cup {"reading"}
Keyed(b, d, m) == bd[b].dd = d /\ bd[b].block = m
\* A task has the buffer of block m of d.
Own(d, m) == \E t \in Tasks : task[t].pc \in TakePc /\ Keyed(task[t].bd, d, m)
\* A step that leaves block m of d, or what was given up of it, where it was found on the disk,
\* or puts its latest version there.
Firm(d, m) ==
    /\ hist'.latest[d][m] = hist.latest[d][m]
    /\ <<d, m>> \in hist.lost => <<d, m>> \in hist'.lost
    /\ disk'[d][m] = disk[d][m] \/ <<d, m>> \in hist'.lost \/ disk'[d][m] = hist.latest[d][m]
AllFirm == ~hist'.orphan /\ ~hist'.resized =>
    \A d \in Devs, m \in 0 .. MediaBlocks - 1 : Firm(d, m) \/ Own(d, m)
\* A step in which buffers in use keep their blocks, and a task gets no buffer of a block that is
\* still pending for a syncdev or returns from one.
Handed == ~hist'.orphan /\ ~hist'.resized =>
    /\ \A b \in Bds : bd[b].state \in Access \cup AtDriver => bd'[b].dd = bd[b].dd /\ bd'[b].block = bd[b].block
    /\ \A t \in Tasks : task'[t].pc \in TakePc =>
         \/ task[t].pc \in TakePc /\ task'[t].bd = task[t].bd
         \/ \A p \in hist'.pending : p.m \in 0 .. MediaBlocks - 1 =>
                ~(bd'[task'[t].bd].dd = p.dd /\ bd'[task'[t].bd].block = p.m)
    /\ syncing' = syncing => \A t \in Tasks : task'[t].pc = "syncdone" => task[t].pc = "syncdone"
\* What every step does: the contents stay where they can be found, on the disk what was there.
Conserves == CohInv' /\ AllFirm /\ Handed

\* A step that is calm about every buffer.
LEMMA CalmAll ==
  ASSUME Inv, Inv', CohInv, Plain, ~hist'.orphan /\ ~hist'.resized => \A b \in Bds : Calm(b)
  PROVE  CohInv' /\ AllFirm
<1>1. hist'.latest \in DiskFun
  BY DEF CohInv, Plain
<1>2. ASSUME ~hist'.orphan, ~hist'.resized, NEW d \in Devs, NEW m \in 0 .. MediaBlocks - 1
      PROVE  Faithful(d, m)'
  <2>1. Faithful(d, m)
    BY <1>2 DEF CohInv, Plain, Sound
  <2>2. /\ disk'[d][m] = disk[d][m] /\ hist'.latest[d][m] = hist.latest[d][m]
        /\ <<d, m>> \in hist'.lost <=> <<d, m>> \in hist.lost
    BY DEF Plain
  <2>. QED BY <1>2, <2>1, <2>2, CalmStep
<1>3. AllFirm
  BY DEF AllFirm, Firm, Plain
<1>. QED BY <1>1, <1>2, <1>3 DEF CohInv, Sound

\* A step that leaves a buffer and its user alone.
Alike(b) ==
    /\ bd'[b].state = bd[b].state /\ bd'[b].dd = bd[b].dd /\ bd'[b].block = bd[b].block
    /\ bd'[b].val = bd[b].val
    /\ b \in tree' <=> b \in tree
    /\ Filled(b)' <=> Filled(b)
    /\ Reading(b)' <=> Reading(b)

\* It is calm about it.
LEMMA AlikeCalm ==
  ASSUME NEW b, Alike(b)
  PROVE  Calm(b)
<1>1. /\ Valid(b)' <=> Valid(b)
      /\ Clean(b)' <=> Clean(b)
      /\ Doomed(b)' <=> Doomed(b)
  BY DEF Alike, Valid, Clean, Doomed
<1>2. b \in tree' => SameKey(b)
  BY DEF Alike, SameKey
<1>3. b \in tree => b \in tree'
  BY DEF Alike
<1>. QED BY <1>1, <1>2, <1>3 DEF Calm, Alike

\* A task that fills a buffer or has it read.
MarkPc == {"wantsync", "addmod", "reading"}
\* The tasks other than t keep their places and buffers.
Stand(t) == \A u \in Tasks \ {t} : task'[u].pc = task[u].pc /\ task'[u].bd = task[u].bd

\* Whether a buffer is being filled or read depends on the tasks near it.
LEMMA MarksKept ==
  ASSUME NEW t, Stand(t), NEW b, b \in ToSet(ahead'.req) <=> b \in ToSet(ahead.req),
         t \in Tasks /\ task[t].pc \in MarkPc => task[t].bd # b,
         t \in Tasks /\ task'[t].pc \in MarkPc => task'[t].bd # b
  PROVE  /\ Filled(b)' <=> Filled(b)
         /\ Reading(b)' <=> Reading(b)
<1>1. \A u \in Tasks : (task'[u].bd = b /\ task'[u].pc \in {"wantsync", "addmod"})
                        <=> (task[u].bd = b /\ task[u].pc \in {"wantsync", "addmod"})
  BY DEF Stand, MarkPc
<1>2. \A u \in Tasks : (task'[u].bd = b /\ task'[u].pc = "reading")
                        <=> (task[u].bd = b /\ task[u].pc = "reading")
  BY DEF Stand, MarkPc
<1>3. Filled(b)' <=> Filled(b)
  BY <1>1 DEF Filled
<1>4. Reading(b)' <=> Reading(b)
  BY <1>2 DEF Reading
<1>. QED BY <1>3, <1>4

\* A step of task t on buffer b.
By(t, b) ==
    /\ Stand(t) /\ ahead'.req = ahead.req
    /\ task[t].pc \in MarkPc => task[t].bd = b
    /\ task'[t].pc \in MarkPc => task'[t].bd = b
    /\ \A x \in Bds \ {b} : /\ bd'[x].state = bd[x].state /\ bd'[x].dd = bd[x].dd
                            /\ bd'[x].block = bd[x].block /\ bd'[x].val = bd[x].val
                            /\ x \in tree' <=> x \in tree

\* The other buffers are left alone by it.
LEMMA ByOthers ==
  ASSUME NEW t \in Tasks, NEW b, By(t, b)
  PROVE  \A x \in Bds \ {b} : Alike(x) /\ Calm(x)
<1>1. ASSUME NEW x \in Bds \ {b} PROVE Alike(x) /\ Calm(x)
  <2>1. Filled(x)' <=> Filled(x)
    BY <1>1, MarksKept DEF By
  <2>2. Reading(x)' <=> Reading(x)
    BY <1>1, MarksKept DEF By
  <2>3. Alike(x)
    BY <1>1, <2>1, <2>2 DEF By, Alike
  <2>. QED BY <2>3, AlikeCalm
<1>. QED BY <1>1

\* No buffer changes its block and no task gets one.
LEMMA NoneHanded ==
  ASSUME NEW t, Stand(t),
         \A b \in Bds : bd'[b].dd = bd[b].dd /\ bd'[b].block = bd[b].block,
         t \in Tasks /\ task'[t].pc \in TakePc => task[t].pc \in TakePc /\ task'[t].bd = task[t].bd,
         t \in Tasks /\ task'[t].pc = "syncdone" => syncing' # syncing
  PROVE  Handed
BY DEF Handed, Stand

\* A step on one buffer need only be calm about that one.
LEMMA OneCoh ==
  ASSUME Inv, Inv', CohInv, Plain, NEW t \in Tasks, NEW b, By(t, b),
         ~hist'.orphan /\ ~hist'.resized /\ b \in Bds => Calm(b),
         bd'[b].dd = bd[b].dd, bd'[b].block = bd[b].block,
         task'[t].pc \in TakePc => task[t].pc \in TakePc /\ task'[t].bd = task[t].bd, task'[t].pc # "syncdone"
  PROVE  Conserves
<1>1. ~hist'.orphan /\ ~hist'.resized => \A x \in Bds : Calm(x)
  BY ByOthers
<1>2. \A x \in Bds : bd'[x].dd = bd[x].dd /\ bd'[x].block = bd[x].block
  BY DEF By
<1>3. Handed
  BY <1>2, NoneHanded DEF By
<1>. QED BY <1>1, <1>3, CalmAll DEF Conserves

\* Who fills or reads a buffer
LEMMA MarksFacts ==
  ASSUME NEW b
  PROVE  /\ Owners(b) = {} => ~Filled(b)
         /\ \A t : Owners(b) = {t} => (Filled(b) <=> task[t].pc \in {"wantsync", "addmod"})
         /\ Drivers(b) = {} => ~Reading(b)
         /\ Owners(b)' = {} => ~Filled(b)'
         /\ \A t : Owners(b)' = {t} => (Filled(b)' <=> task'[t].pc \in {"wantsync", "addmod"})
         /\ Drivers(b)' = {} => ~Reading(b)'
<1>1. \A u : u \in Owners(b) <=> u \in Tasks /\ task[u].pc \in OwnPc /\ task[u].bd = b
  BY DEF Owners
<1>2. \A u : u \in Owners(b)' <=> u \in Tasks /\ task'[u].pc \in OwnPc /\ task'[u].bd = b
  BY DEF Owners
<1>3. Filled(b) <=> \E u \in Owners(b) : task[u].pc \in {"wantsync", "addmod"}
  BY <1>1 DEF Filled, OwnPc
<1>4. Filled(b)' <=> \E u \in Owners(b)' : task'[u].pc \in {"wantsync", "addmod"}
  BY <1>2 DEF Filled, OwnPc
<1>5. Reading(b) => Drivers(b) # {}
  <2>1. ASSUME b \in ToSet(ahead.req) PROVE "ahead" \in Drivers(b)
    BY <2>1 DEF Drivers
  <2>2. ASSUME NEW u \in Tasks, task[u].bd = b, task[u].pc = "reading" PROVE u \in Drivers(b)
    BY <2>2 DEF Drivers
  <2>. QED BY <2>1, <2>2 DEF Reading
<1>6. Reading(b)' => Drivers(b)' # {}
  <2>1. ASSUME b \in ToSet(ahead'.req) PROVE "ahead" \in Drivers(b)'
    BY <2>1 DEF Drivers
  <2>2. ASSUME NEW u \in Tasks, task'[u].bd = b, task'[u].pc = "reading" PROVE u \in Drivers(b)'
    BY <2>2 DEF Drivers
  <2>. QED BY <2>1, <2>2 DEF Reading
<1>7. Owners(b) = {} => ~Filled(b)
  BY <1>3
<1>8. \A t : Owners(b) = {t} => (Filled(b) <=> task[t].pc \in {"wantsync", "addmod"})
  BY <1>3
<1>9. Owners(b)' = {} => ~Filled(b)'
  BY <1>4
<1>10. \A t : Owners(b)' = {t} => (Filled(b)' <=> task'[t].pc \in {"wantsync", "addmod"})
  BY <1>4
<1>. QED BY <1>5, <1>6, <1>7, <1>8, <1>9, <1>10

\* Steps that leave the buffers alone, and the tasks near them.
LEMMA SameCoh ==
  ASSUME Inv, Inv', CohInv, Plain, NEW t, Stand(t), UNCHANGED <<bd, tree>>, ahead'.req = ahead.req,
         t \in Tasks => task[t].pc \notin MarkPc /\ task'[t].pc \notin TakePc,
         t \in Tasks /\ task'[t].pc = "syncdone" => syncing' # syncing
  PROVE  Conserves
<1>0. t \in Tasks => task'[t].pc \notin MarkPc
  BY DEF MarkPc, TakePc, OwnPc
<1>1. ASSUME NEW x \in Bds PROVE Calm(x)
  <2>1. Filled(x)' <=> Filled(x)
    BY <1>0, <1>1, MarksKept
  <2>2. Reading(x)' <=> Reading(x)
    BY <1>0, <1>1, MarksKept
  <2>3. Alike(x)
    BY <2>1, <2>2 DEF Alike
  <2>. QED BY <2>3, AlikeCalm
<1>2. Handed
  BY NoneHanded
<1>. QED BY <1>1, <1>2, CalmAll DEF Conserves

\* What Grant takes off the blocks pending for a syncdev: that of the buffer.
LEMMA GrantHanded ==
  ASSUME Inv', NEW t \in Tasks, NEW b \in Bds, NEW g, NEW e, NEW k, Stand(t), task'[t].bd = b, task'[t].pc # "syncdone",
         bd'[b].dd = e, bd'[b].block = k, group' = Users(g, GroupOf(b), 1), g \in GroupFun,
         hist'.pending = {p \in hist.pending : ~(p.dd = e /\ p.m \in Extent(k, g[GroupOf(b)].bds_per_group))},
         \A x \in Bds : bd[x].state \in Access \cup AtDriver => bd'[x].dd = bd[x].dd /\ bd'[x].block = bd[x].block
  PROVE  Handed
<1>1. ASSUME ~hist'.resized, NEW p \in hist'.pending, p.m \in 0 .. MediaBlocks - 1, e = p.dd, k = p.m PROVE FALSE
  <2>1. GroupOf(b) \in Groups
    BY GroupFacts
  <2>2. group'[GroupOf(b)].bds_per_group = g[GroupOf(b)].bds_per_group
    BY <2>1, UsersFacts
  <2>3. group'[GroupOf(b)].bds_per_group = MaxBdsPerGroup
    BY <1>1, <2>1 DEF Inv, SizesInv
  <2>4. MaxBdsPerGroup \div MaxBdsPerGroup = 1 /\ k \in k .. k + 1 - 1
    BY <1>1, BdbufAssumption
  <2>5. p.m \in Extent(k, g[GroupOf(b)].bds_per_group)
    BY <1>1, <2>2, <2>3, <2>4 DEF Extent
  <2>. QED BY <1>1, <2>5
<1>. QED BY <1>1 DEF Handed, Stand

\* The holder of a buffer that has not released it yet does not count as having filled it.
LEMMA HoldingFacts ==
  ASSUME Inv', NEW t \in Tasks, NEW b \in Bds, task'[t].pc = "holding", task'[t].bd = b
  PROVE  ~Filled(b)' /\ ~Reading(b)' /\ b \in Live' /\ bd'[b].state \in Access
<1>1. t \in Owners(b)'
  BY DEF Owners, OwnPc
<1>2. BufferInv(b)'
  BY DEF Inv
<1>3. b \in Live' /\ bd'[b].state \in Access
  BY <1>1, <1>2 DEF BufferInv, AtDriver
<1>4. Drivers(b)' = {} /\ Owners(b)' = {t}
  BY <1>1, <1>2, <1>3 DEF BufferInv
<1>. QED BY <1>3, <1>4, MarksFacts

\* The same, before the step.
LEMMA HolderFacts ==
  ASSUME Inv, NEW t \in Tasks, NEW b \in Bds, task[t].pc = "holding", task[t].bd = b
  PROVE  ~Filled(b) /\ ~Reading(b) /\ b \in Live /\ bd[b].state \in Access
<1>1. Owners(b) = {t} /\ Drivers(b) = {} /\ b \in Live /\ bd[b].state \in Access
  BY OwnerFacts DEF OwnPc
<1>. QED BY <1>1, MarksFacts

\* A buffer of the tree, given to a task, keeps its contents or waits for them.
LEMMA GrantCoh ==
  ASSUME Inv, Inv', CohInv, NEW t \in Tasks, NEW c, NEW b, NEW g, Comes(t, c, b, g),
         bd[b].state \in {"MODIFIED", "CACHED", "EMPTY"},
         NEW h \in GroupFun, Grant(t, c, b, bd, h, {}), tree' = tree, disk' = disk
  PROVE  Conserves
<1>0. b \in Live /\ b \in Bds /\ c \in TaskRec /\ c.dd \in Devs /\ TypeOK /\ bd \in BdFun
  BY LiveFacts DEF Comes, Inv, TypeOK, CountsWithout
<1>1. /\ \A x \in Bds \ {b} : bd'[x] = bd[x]
      /\ bd'[b].dd = bd[b].dd /\ bd'[b].block = bd[b].block /\ bd'[b].val = bd[b].val
      /\ task'[t].bd = b /\ OthersKept(t)
  BY <1>0, GrantFacts
<1>2. \/ bd[b].state = "EMPTY" /\ bd'[b].state = "TRANSFER" /\ task'[t].pc = "reading"
      \/ bd[b].state = "EMPTY" /\ bd'[b].state = "ACCESS_EMPTY" /\ task'[t].pc = "holding"
      \/ bd[b].state = "CACHED" /\ bd'[b].state = "ACCESS_CACHED" /\ task'[t].pc = "holding"
      \/ bd[b].state = "MODIFIED" /\ bd'[b].state = "ACCESS_MODIFIED" /\ task'[t].pc = "holding"
  BY <1>0, GrantFacts
<1>3. SameAhead(ahead', ahead)
  BY <1>0, GrantFacts
<1>4. Plain
  BY <1>0, GrantFacts DEF Plain
<1>5. By(t, b)
  <2>1. Stand(t)
    BY <1>1 DEF Stand, OthersKept
  <2>2. task[t].pc \notin MarkPc
    BY DEF Comes, MarkPc, OwnPc
  <2>. QED BY <1>1, <1>3, <2>1, <2>2 DEF By, SameAhead
<1>6. Calm(b)
  <2>1. task'[t].pc = "reading" => Reading(b)'
    BY <1>1 DEF Reading
  <2>2. task'[t].pc = "holding" => ~Filled(b)'
    BY <1>0, <1>1, HoldingFacts
  <2>3. ~Doomed(b)'
    BY <1>2 DEF Doomed
  <2>4. ASSUME bd[b].state = "EMPTY" PROVE Calm(b)
    <3>1. ~Valid(b)' /\ ~Valid(b)
      BY <1>2, <2>1, <2>2, <2>4 DEF Valid
    <3>. QED BY <2>3, <3>1 DEF Calm
  <2>5. ASSUME bd[b].state # "EMPTY" PROVE Calm(b)
    <3>1. Valid(b)' /\ Valid(b) /\ (Clean(b)' => Clean(b))
      BY <1>2, <2>5 DEF Valid, Clean
    <3>2. b \in tree' => SameKey(b)
      BY <1>1 DEF SameKey
    <3>. QED BY <1>1, <2>3, <3>1, <3>2 DEF Calm
  <2>. QED BY <2>4, <2>5
<1>7. \A x \in Bds : Calm(x)
  BY <1>5, <1>6, ByOthers
<1>8. Handed
  <2>1. /\ group' = Users(h, GroupOf(b), 1)
        /\ hist'.pending = {p \in hist.pending : ~(p.dd = bd[b].dd /\ p.m \in Extent(bd[b].block, h[GroupOf(b)].bds_per_group))}
    BY <1>0, GrantFacts
  <2> DEFINE e == bd[b].dd
             k == bd[b].block
  <2>2. bd'[b].dd = e /\ bd'[b].block = k /\ task'[t].bd = b /\ Stand(t) /\ task'[t].pc # "syncdone"
    BY <1>1, <1>2, <1>5 DEF By
  <2>3. hist'.pending = {p \in hist.pending : ~(p.dd = e /\ p.m \in Extent(k, h[GroupOf(b)].bds_per_group))}
    BY <2>1
  <2>4. \A x \in Bds : bd'[x].dd = bd[x].dd /\ bd'[x].block = bd[x].block
    BY <1>1
  <2> HIDE DEF e, k
  <2>. QED BY <1>0, <2>1, <2>2, <2>3, <2>4, GrantHanded
<1>. QED BY <1>4, <1>7, <1>8, CalmAll DEF Conserves

\* A task that goes to sleep changes no contents.
LEMMA SleepCoh ==
  ASSUME Inv, Inv', CohInv, NEW t \in Tasks, task[t].pc \notin MarkPc, NEW r, r.pc \notin TakePc,
         r.pc = "syncdone" => syncing' # syncing,
         task' = [task EXCEPT ![t] = r], UNCHANGED <<bd, tree, ahead, disk>>,
         hist'.latest = hist.latest, hist'.lost = hist.lost, hist'.orphan = hist.orphan,
         hist'.resized = hist.resized
  PROVE  Conserves
<1>1. Stand(t) /\ task'[t] = r
  BY DEF Stand, Inv, TypeOK, TaskFun
<1>2. Plain
  BY DEF Plain
<1>. QED BY <1>1, <1>2, SameCoh

\* rtems_bdbuf_fatal changes no contents.
LEMMA FatalCoh ==
  ASSUME Inv, Inv', CohInv, Fatal, disk' = disk
  PROVE  Conserves
<1>1. UNCHANGED <<bd, tree, ahead, hist, task>>
  BY DEF Fatal, lists
<1>2. Plain /\ Stand(None)
  BY <1>1 DEF Plain, Stand
<1>. QED BY <1>1, <1>2, SameCoh, BdbufAssumption

\* rtems_bdbuf_wait_for_access keeps the contents.
LEMMA WaitForAccessCoh ==
  ASSUME Inv, Inv', CohInv, NEW t \in Tasks, NEW c, NEW b, NEW g, Comes(t, c, b, g),
         WaitForAccess(t, c, b, g), disk' = disk
  PROVE  Conserves
<1>1. CASE /\ bd[b].state \in {"MODIFIED", "CACHED", "EMPTY"}
           /\ Grant(t, c, b, bd, IF bd[b].state = "MODIFIED" THEN Users(g, GroupOf(b), -1) ELSE g, {})
           /\ UNCHANGED <<tree, sync, fatal>>
  <2> DEFINE h == IF bd[b].state = "MODIFIED" THEN Users(g, GroupOf(b), -1) ELSE g
  <2>1. g \in GroupFun /\ GroupOf(b) \in Groups
    BY LiveFacts, GroupFacts DEF Comes, CountsWithout, Inv, TypeOK
  <2>2. Users(g, GroupOf(b), -1) \in GroupFun
    BY <2>1, UsersFacts
  <2>3. h \in GroupFun
    BY <2>1, <2>2
  <2>4. Grant(t, c, b, bd, h, {})
    BY <1>1
  <2> HIDE DEF h
  <2>. QED BY <1>1, <2>3, <2>4, GrantCoh
<1>2. ASSUME NEW cv \in {"access", "transfer"}, Sleep(t, c, "acc", b, cv, g), UNCHANGED <<bd, lists, fatal>>
      PROVE  Conserves
  <2> DEFINE r == At(c, "acc", b, cv)
  <2>1. r.pc = "acc"
    <3>1. b \in Int /\ c \in TaskRec /\ "acc" \in TaskPc /\ cv \in {"none", "access", "transfer", "buffer"}
      <4>1. b \in Int
        BY LiveFacts, GroupFacts DEF Comes, Inv, TypeOK
      <4>2. "acc" \in TaskPc
        BY DEF TaskPc, BdWait
      <4>. QED BY <4>1, <4>2 DEF Comes
    <3>. QED BY <3>1, AtFacts
  <2>2. task' = [task EXCEPT ![t] = r] /\ UNCHANGED <<bd, tree, ahead, hist>>
    BY <1>2 DEF Sleep, lists
  <2> HIDE DEF r
  <2>3. task[t].pc \notin MarkPc /\ r.pc \notin TakePc /\ r.pc # "syncdone"
    BY <2>1 DEF Comes, MarkPc, OwnPc, TakePc
  <2>. QED BY <2>2, <2>3, SleepCoh
<1>3. CASE Fatal
  BY <1>3, FatalCoh
<1>. QED BY <1>1, <1>2, <1>3 DEF WaitForAccess

\* Nothing is said of the contents after a change of the block size or an orphan.
LEMMA VoidCoh ==
  ASSUME CohInv, hist'.latest = hist.latest, hist'.orphan \/ hist'.resized
  PROVE  Conserves
BY DEF Conserves, AllFirm, Handed, CohInv, Sound

\* wait_for_recycle is for buffers of another size.
LEMMA WaitForRecycleCoh ==
  ASSUME Inv, CohInv, NEW t, NEW c, NEW b, NEW g, WaitForRecycle(t, c, b, g), hist.resized
  PROVE  Conserves
<1>1. hist' = hist \/ hist' = [hist EXCEPT !.stale = @ \ {t}]
  BY DEF WaitForRecycle, SleepForBuffer, Sleep, Fatal
<1>2. hist'.latest = hist.latest /\ hist'.resized = hist.resized
  <2>1. HistRec(hist)
    BY DEF Inv, TypeOK, HistRec
  <2>. QED BY <1>1, <2>1, Zenon DEF HistRec
<1>. QED BY <1>2, VoidCoh

\* The buffer of block m of d, taken off the LRU list, has no contents yet.
Emptied(x) ==
    /\ tree' = x.tree \cup {x.b}
    /\ \A y \in Bds \ {x.b} :
         /\ y \notin x.fresh => bd'[y].state = bd[y].state
         /\ bd'[y].dd = bd[y].dd /\ bd'[y].block = bd[y].block /\ bd'[y].val = bd[y].val
         /\ Filled(y)' <=> Filled(y)
         /\ Reading(y)' <=> Reading(y)
    /\ ~Valid(x.b)' /\ ~Doomed(x.b)'

\* Taking a buffer off the LRU list loses no contents: it was free or clean.
LEMMA TakenCalm ==
  ASSUME Inv, NEW x, NEW d, NEW O, Taken(x, d, O), Emptied(x)
  PROVE  \A y \in Bds : Calm(y)
<1>0. tree \subseteq Live
  BY DEF Inv, TypeOK, BufferInv
<1>1. /\ \A y \in O \cup x.fresh \cup {x.b} : Still(y)
      /\ x.tree = tree \ O /\ x.fresh \cap (Live \ O) = {}
  BY DEF Taken
<1>2. \A y \in Bds : Still(y) /\ Valid(y) => Clean(y)
  BY DEF Still, Valid, Clean
<1>3. Calm(x.b)
  <2>1. x.b \in Bds /\ Still(x.b)
    BY <1>1 DEF Still
  <2>. QED BY <1>2, <2>1 DEF Calm, Emptied
<1>4. ASSUME NEW y \in Bds \ {x.b}, y \in O \cup x.fresh PROVE Calm(y)
  <2>1. y \notin tree'
    BY <1>0, <1>1, <1>4 DEF Emptied
  <2>2. Still(y)
    BY <1>1, <1>4
  <2>. QED BY <1>2, <1>4, <2>1, <2>2 DEF Calm
<1>5. ASSUME NEW y \in Bds \ {x.b}, y \notin O \cup x.fresh PROVE Calm(y)
  <2>1. y \in tree' <=> y \in tree
    BY <1>1, <1>5 DEF Emptied
  <2>2. Alike(y)
    BY <1>5, <2>1 DEF Emptied, Alike
  <2>. QED BY <2>2, AlikeCalm
<1>. QED BY <1>3, <1>4, <1>5

\* A task takes the first usable buffer of the LRU list.
LEMMA TakeCoh ==
  ASSUME Inv, Inv', CohInv, NEW t \in Tasks, NEW c \in TaskRec, c.dd \in Devs,
         task[t].pc \notin OwnPc \cup BdWait \cup {"reading"},
         NEW x, NEW O, Taken(x, c.dd, O), NEW cvs,
         tree' = x.tree \cup {x.b},
         Grant(t, c, x.b, SetupEmpty(x, c.dd, c.media, "EMPTY"), x.group, cvs), disk' = disk
  PROVE  Conserves
<1> DEFINE b == x.b
           f == SetupEmpty(x, c.dd, c.media, "EMPTY")
<1>0. TypeOK /\ bd \in BdFun /\ c.media \in Int /\ "EMPTY" \in States /\ task \in TaskFun
  BY DEF Inv, TypeOK, States, TaskRec
<1>1. b \in Bds
  BY DEF Taken, Still
<1>2. /\ f \in BdFun /\ f[b].state = "EMPTY"
      /\ \A y \in Bds \ {b} :
              /\ f[y].state = IF y \in x.fresh THEN "FREE" ELSE bd[y].state
              /\ f[y].dd = bd[y].dd /\ f[y].block = bd[y].block /\ f[y].val = bd[y].val
  BY <1>0, <1>1, SetupEmptyFacts
<1> HIDE DEF f
<1>3. /\ \A y \in Bds \ {b} : bd'[y] = f[y]
      /\ \/ bd'[b].state = "TRANSFER" /\ task'[t].pc = "reading"
         \/ bd'[b].state = "ACCESS_EMPTY" /\ task'[t].pc = "holding"
      /\ OthersKept(t) /\ task'[t].bd = b
      /\ SameAhead(ahead', ahead)
      /\ hist'.orphan = hist.orphan /\ hist'.resized = hist.resized
      /\ hist'.latest = hist.latest /\ hist'.lost = hist.lost
  <2>1. Grant(t, c, b, f, x.group, cvs)
    BY DEF f
  <2> DEFINE G == x.group
  <2>2. Grant(t, c, b, f, G, cvs)
    BY <2>1
  <2> HIDE DEF b, G
  <2>3. f[b].state \in {"EMPTY", "CACHED", "MODIFIED"}
    BY <1>2
  <2>. QED BY <1>0, <1>1, <1>2, <2>2, <2>3, GrantFacts DEF G
<1>4. Stand(t) /\ ahead'.req = ahead.req /\ Plain
  BY <1>3 DEF Stand, OthersKept, SameAhead, Plain
<1>5. ~Valid(b)' /\ ~Doomed(b)'
  <2>1. task'[t].pc = "reading" => Reading(b)'
    BY <1>3 DEF Reading
  <2>2. task'[t].pc = "holding" => ~Filled(b)'
    BY <1>1, <1>3, HoldingFacts
  <2>. QED BY <1>3, <2>1, <2>2 DEF Valid, Doomed
<1>6. ASSUME NEW y \in Bds \ {b}
      PROVE  /\ Filled(y)' <=> Filled(y)
             /\ Reading(y)' <=> Reading(y)
  <2>1. task[t].pc \notin MarkPc
    BY DEF MarkPc, OwnPc
  <2>2. y # b
    BY <1>6
  <2> HIDE DEF b
  <2>. QED BY <1>3, <1>4, <2>1, <2>2, MarksKept
<1>7. Emptied(x)
  BY <1>2, <1>3, <1>5, <1>6 DEF Emptied
<1>8. \A y \in Bds : Calm(y)
  BY <1>7, TakenCalm
<1>9. Handed
  <2> DEFINE G == x.group
             e == f[b].dd
             k == f[b].block
  <2>0. f[b].state \in {"EMPTY", "CACHED", "MODIFIED"} /\ G \in GroupFun
    BY <1>2 DEF Taken
  <2>1. Grant(t, c, b, f, G, cvs)
    BY DEF f
  <2>2. \A y \in Bds : bd[y].state \in Access \cup AtDriver => y # b
    BY DEF Taken, Still, Access, AtDriver
  <2> HIDE DEF b, G
  <2>3. /\ group' = Users(G, GroupOf(b), 1) /\ bd'[b].dd = e /\ bd'[b].block = k
        /\ hist'.pending = {p \in hist.pending : ~(p.dd = e /\ p.m \in Extent(k, G[GroupOf(b)].bds_per_group))}
    BY <1>0, <1>1, <1>2, <2>0, <2>1, GrantFacts
  <2> HIDE DEF e, k
  <2>4. \A y \in Bds : bd[y].state \in Access \cup AtDriver => bd'[y].dd = bd[y].dd /\ bd'[y].block = bd[y].block
    BY <1>2, <1>3, <2>2
  <2>5. task'[t].pc # "syncdone"
    BY <1>3
  <2>. QED BY <1>1, <1>3, <1>4, <2>0, <2>3, <2>4, <2>5, GrantHanded
<1>. QED BY <1>4, <1>8, <1>9, CalmAll DEF Conserves

\* A task that waits for any buffer.
LEMMA SleepForBufferCoh ==
  ASSUME Inv, Inv', CohInv, NEW t \in Tasks, task[t].pc \notin OwnPc \cup {"reading"}, NEW c \in TaskRec, NEW g,
         SleepForBuffer(t, c, g), disk' = disk
  PROVE  Conserves
<1> DEFINE r == At(c, "buf", -1, "buffer")
<1>1. r.pc = "buf"
  <2>1. "buf" \in TaskPc /\ -1 \in Int /\ "buffer" \in {"none", "access", "transfer", "buffer"}
    BY DEF TaskPc
  <2>. QED BY <2>1, AtFacts
<1>2. task' = [task EXCEPT ![t] = r] /\ UNCHANGED <<bd, tree, ahead>> /\ hist' = [hist EXCEPT !.stale = @ \ {t}]
  BY DEF SleepForBuffer, lists
<1> HIDE DEF r
<1>3. task[t].pc \notin MarkPc /\ r.pc \notin TakePc /\ r.pc # "syncdone"
  BY <1>1 DEF MarkPc, OwnPc, TakePc
<1>4. /\ hist'.latest = hist.latest /\ hist'.lost = hist.lost /\ hist'.orphan = hist.orphan
      /\ hist'.resized = hist.resized
  <2>1. HistRec(hist)
    BY DEF Inv, TypeOK, HistRec
  <2>. QED BY <1>2, <2>1, Zenon DEF HistRec
<1>. QED BY <1>2, <1>3, <1>4, SleepCoh

\* rtems_bdbuf_get_buffer_for_access keeps the contents.
LEMMA SearchCoh ==
  ASSUME Inv, Inv', CohInv, NEW t \in Tasks, NEW c \in TaskRec, c.dd \in Devs,
         task[t].pc \notin OwnPc \cup BdWait \cup {"reading"},
         GetBufferForAccess(t, c), disk' = disk
  PROVE  Conserves
<1>0. TypeOK /\ group \in GroupFun /\ CountsWithout(t, group) /\ \A b : t \notin Waiting(b)
  BY WithoutTask DEF Inv, TypeOK, Waiting
<1>1. ASSUME NEW b \in InTree(c.dd, c.media),
             IF group[GroupOf(b)].bds_per_group = dev[c.dd].bds_per_group
             THEN WaitForAccess(t, c, b, group)
             ELSE WaitForRecycle(t, c, b, group)
      PROVE  Conserves
  <2>1. b \in tree /\ b \in Bds
    BY <1>0 DEF InTree, TypeOK
  <2>2. BufferInv(b)
    BY <2>1 DEF Inv
  <2>3. Comes(t, c, b, group)
    BY <1>0, <2>1, <2>2 DEF BufferInv, Comes
  <2>4. CASE group[GroupOf(b)].bds_per_group = dev[c.dd].bds_per_group
    <3>1. WaitForAccess(t, c, b, group)
      BY <1>1, <2>4
    <3>. QED BY <2>3, <3>1, WaitForAccessCoh
  <2>5. CASE group[GroupOf(b)].bds_per_group # dev[c.dd].bds_per_group
    <3>1. WaitForRecycle(t, c, b, group)
      BY <1>1, <2>5
    <3>2. GroupOf(b) \in Groups
      BY <2>1, GroupFacts
    <3>3. hist.resized
      BY <2>5, <3>2 DEF Inv, SizesInv
    <3>. QED BY <3>1, <3>3, WaitForRecycleCoh
  <2>. QED BY <2>4, <2>5
<1>2. ASSUME HasUsable(t, c.dd),
             LET x == FromLru(t, c.dd) IN
               IF x.ok
               THEN /\ lru' = x.lru /\ tree' = x.tree \cup {x.b}
                    /\ Grant(t, c, x.b, SetupEmpty(x, c.dd, c.media, "EMPTY"), x.group,
                             IF x.fresh # {} THEN {"buffer"} ELSE {})
                    /\ UNCHANGED <<modified, sync, fatal>>
               ELSE Fatal
      PROVE  Conserves
  <2> DEFINE x == FromLru(t, c.dd)
             cvs == IF x.fresh # {} THEN {"buffer"} ELSE {}
  <2>1. PICK O : Taken(x, c.dd, O)
    BY <1>0, <1>2, FromLruFacts
  <2>2. CASE x.ok
    <3>1. /\ tree' = x.tree \cup {x.b}
          /\ Grant(t, c, x.b, SetupEmpty(x, c.dd, c.media, "EMPTY"), x.group, cvs)
      BY <1>2, <2>2
    <3> HIDE DEF x, cvs
    <3>. QED BY <2>1, <3>1, TakeCoh
  <2>3. CASE ~x.ok
    <3>1. Fatal
      BY <1>2, <2>3
    <3>. QED BY <3>1, FatalCoh
  <2>. QED BY <2>2, <2>3
<1>3. CASE SleepForBuffer(t, c, group)
  BY <1>3, SleepForBufferCoh
<1>. QED BY <1>1, <1>2, <1>3 DEF GetBufferForAccess

\* The first search of rtems_bdbuf_get and rtems_bdbuf_read.
LEMMA GetCoh ==
  ASSUME Inv, Inv', CohInv, NEW t \in Tasks, NEW op \in {"get", "read"}, NEW d \in Devs,
         NEW k \in 0 .. MediaBlocks - 1, Get(t, op, d, k)
  PROVE  Conserves
<1> DEFINE m == k * Span(d)
           c == [task[t] EXCEPT !.op = op, !.dd = d, !.block = k, !.media = m]
<1>1. task[t].pc = "idle" /\ GetBufferForAccess(t, c) /\ disk' = disk
  BY DEF Get
<1>2. TypeOK
  BY DEF Inv
<1>3. k \in Int /\ m \in Int
  <2>1. Span(d) \in Int
    BY <1>2, SpanFacts DEF TypeOK
  <2>. QED BY <2>1, BdbufAssumption
<1> HIDE DEF m
<1>4. c \in TaskRec /\ c.dd = d
  <2>1. task[t] \in TaskRec
    BY <1>2 DEF TypeOK, TaskFun
  <2>. QED BY <1>3, <2>1 DEF TaskRec
<1> HIDE DEF c
<1>5. task[t].pc \notin OwnPc \cup BdWait \cup {"reading"}
  BY <1>1 DEF OwnPc, BdWait
<1>. QED BY <1>1, <1>4, <1>5, SearchCoh

\* The searches that follow a wake-up.
LEMMA AgainCoh ==
  ASSUME Inv, Inv', CohInv, NEW t \in Tasks, SearchAgain(t) \/ AccessAgain(t) \/ RecycleAgain(t)
  PROVE  Conserves
<1>0. task[t] \in TaskRec /\ disk' = disk
  BY DEF Inv, TypeOK, TaskFun, SearchAgain, AccessAgain, RecycleAgain
<1> DEFINE c == task[t]
           b == task[t].bd
           g == AfterWait(t)
<1>1. CASE SearchAgain(t)
  <2>1. task[t].pc \in {"buf", "search"} /\ GetBufferForAccess(t, c)
    BY <1>1 DEF SearchAgain
  <2>2. c \in TaskRec /\ c.dd \in Devs
    BY <1>0, <2>1 DEF Inv, TasksInv
  <2>3. task[t].pc \notin OwnPc \cup BdWait \cup {"reading"}
    BY <2>1 DEF OwnPc, BdWait
  <2> HIDE DEF c
  <2>. QED BY <1>0, <2>1, <2>2, <2>3, SearchCoh
<1>2. CASE AccessAgain(t)
  <2>1. task[t].pc = "acc" /\ WaitForAccess(t, c, b, g)
    BY <1>2 DEF AccessAgain
  <2>2. Comes(t, c, b, g)
    <3>1. task[t].pc \in BdWait /\ task[t].pc \notin OwnPc \cup {"reading"}
      BY <2>1 DEF BdWait, OwnPc
    <3>2. PICK x \in Bds : x = task[t].bd
      BY <3>1 DEF Inv, TasksInv
    <3>3. t \in Waiting(x) /\ BufferInv(x)
      BY <3>1, <3>2 DEF Waiting, Inv
    <3>4. x \in Live /\ bd[x].state # "FREE"
      BY <3>3 DEF BufferInv
    <3>5. task[t].dd \in Devs
      BY <2>1 DEF Inv, TasksInv
    <3>6. CountsWithout(t, AfterWait(t))
      BY <3>1, WithoutTask
    <3>. QED BY <1>0, <3>1, <3>2, <3>4, <3>5, <3>6 DEF Comes
  <2> HIDE DEF c, b, g
  <2>. QED BY <1>0, <2>1, <2>2, WaitForAccessCoh
<1>3. CASE RecycleAgain(t)
  <2>1. task[t].pc = "rec" /\ WaitForRecycle(t, c, b, g)
    BY <1>3 DEF RecycleAgain
  <2>2. hist.resized
    BY <2>1 DEF Inv, SizesInv
  <2> HIDE DEF c, b, g
  <2>. QED BY <2>1, <2>2, WaitForRecycleCoh
<1>. QED BY <1>1, <1>2, <1>3

\* A task that is idle or asleep after its step, and no other task moved.
LEMMA PartFacts ==
  ASSUME task \in TaskFun, NEW t \in Tasks, NEW r \in TaskRec, NEW cvs, NEW k,
         k = [task EXCEPT ![t] = r], task' = Woken(cvs, k)
  PROVE  Stand(t) /\ task'[t].pc = r.pc /\ task'[t].bd = r.bd
<1>1. OthersKept(t) /\ task'[t].pc = r.pc /\ task'[t].bd = r.bd
  BY WokenStep
<1>. QED BY <1>1 DEF OthersKept, Stand

\* A task that has its buffer alone has nobody else to ask whether it is filled.
LEMMA OwnMarks ==
  ASSUME Inv, NEW t, NEW b, Owning(t, b)
  PROVE  /\ Filled(b) <=> task[t].pc \in {"wantsync", "addmod"}
         /\ ~Reading(b)
<1>1. Owners(b) = {t} /\ Drivers(b) = {}
  BY OwnerFacts DEF Owning
<1>. QED BY <1>1, MarksFacts

\* The place a task leaves its buffer from.
LEMMA OwnMark ==
  ASSUME NEW t, NEW b, Owning(t, b), Stand(t), ahead' = ahead,
         task'[t].pc \in MarkPc => task'[t].bd = b,
         \A x \in Bds \ {b} : /\ bd'[x].state = bd[x].state /\ bd'[x].dd = bd[x].dd
                              /\ bd'[x].block = bd[x].block /\ bd'[x].val = bd[x].val
                              /\ x \in tree' <=> x \in tree
  PROVE  By(t, b)
BY DEF By, Owning

\* rtems_bdbuf_release of an unmodified buffer: it is clean.
LEMMA ToLruCoh ==
  ASSUME Inv, Inv', CohInv, NEW t, NEW b, Owning(t, b), task[t].pc = "holding",
         bd[b].state = "ACCESS_CACHED", ToLru(t, b), Elsewhere, hist' = hist
  PROVE  Conserves
<1>0. /\ bd' = SetState(bd, {b}, "CACHED")
      /\ task' = WakeFor(t, {b}, "access", [task EXCEPT ![t] = Idle(@)])
      /\ tree' = tree
  BY DEF ToLru
<1>1. bd \in BdFun /\ task[t] \in TaskRec /\ task \in TaskFun
  BY OwningFacts DEF Inv, TypeOK
<1>2. t \in Tasks /\ b \in Bds
  BY DEF Owning
<1> DEFINE r == Idle(task[t])
           k == [task EXCEPT ![t] = r]
<1>3. PICK cvs : task' = Woken(cvs, k)
  BY <1>0, WakeForFacts
<1>4. r \in TaskRec /\ r.pc = "idle" /\ k = [task EXCEPT ![t] = r]
  BY <1>1, IdleFacts
<1>5. "CACHED" \in States
  BY DEF States
<1>6. \A x \in Bds : /\ bd'[x].state = IF x \in {b} THEN "CACHED" ELSE bd[x].state
                     /\ bd'[x].dd = bd[x].dd /\ bd'[x].block = bd[x].block /\ bd'[x].val = bd[x].val
  BY <1>0, <1>1, <1>5, SetStateFacts
<1> HIDE DEF r, k
<1>7. Stand(t) /\ task'[t].pc = "idle"
  BY <1>1, <1>2, <1>3, <1>4, PartFacts
<1>8. By(t, b)
  BY <1>0, <1>6, <1>7, OwnMark DEF Elsewhere, MarkPc
<1>9. Calm(b)
  <2>1. Clean(b) /\ Valid(b)
    BY OwnMarks DEF Clean, Valid
  <2>2. Valid(b)' /\ ~Doomed(b)'
    BY <1>2, <1>6 DEF Valid, Doomed
  <2>3. b \in tree' => SameKey(b) /\ bd'[b].val = bd[b].val
    BY <1>0, <1>2, <1>6 DEF SameKey
  <2>. QED BY <2>1, <2>2, <2>3 DEF Calm
<1>10. Plain
  BY DEF Plain, Elsewhere
<1>11. bd'[b].dd = bd[b].dd /\ bd'[b].block = bd[b].block /\ task'[t].pc \notin TakePc /\ task'[t].pc # "syncdone"
  BY <1>2, <1>6, <1>7 DEF TakePc, OwnPc
<1>. QED BY <1>2, <1>8, <1>9, <1>10, <1>11, OneCoh

\* A buffer without contents is discarded.
LEMMA DiscardAfterAccessCoh ==
  ASSUME Inv, Inv', CohInv, NEW t, NEW b, Owning(t, b), task[t].pc = "holding",
         bd[b].state \in {"ACCESS_EMPTY", "ACCESS_PURGED"}, DiscardAfterAccess(t, b), Elsewhere, hist' = hist
  PROVE  Conserves
<1>0. /\ bd' = Discard(t, bd, {b})
      /\ tree' = tree \ Unwaited(t, {b})
      /\ task' = WakeFor(t, {b}, "access", [task EXCEPT ![t] = Idle(@)])
  BY DEF DiscardAfterAccess
<1>1. bd \in BdFun /\ task[t] \in TaskRec /\ task \in TaskFun
  BY OwningFacts DEF Inv, TypeOK
<1>2. t \in Tasks /\ b \in Bds
  BY DEF Owning
<1> DEFINE r == Idle(task[t])
           k == [task EXCEPT ![t] = r]
<1>3. PICK cvs : task' = Woken(cvs, k)
  BY <1>0, WakeForFacts
<1>4. r \in TaskRec /\ r.pc = "idle" /\ k = [task EXCEPT ![t] = r]
  BY <1>1, IdleFacts
<1>5. \A x \in Bds : /\ bd'[x].dd = bd[x].dd /\ bd'[x].block = bd[x].block /\ bd'[x].val = bd[x].val
                     /\ x = b \/ bd'[x].state = bd[x].state
                     /\ x # b \/ bd'[x].state \in {"EMPTY", "FREE"}
  <2> DEFINE X == {b}
  <2>0. bd \in BdFun /\ bd' = Discard(t, bd, X)
    BY <1>0, <1>1
  <2> HIDE DEF X
  <2>1. \A x \in Bds : bd'[x].dd = bd[x].dd /\ bd'[x].block = bd[x].block /\ bd'[x].val = bd[x].val
    BY <2>0, DiscardFacts
  <2>2. \A x \in Bds : x \in X \/ bd'[x].state = bd[x].state
    BY <2>0, DiscardFacts
  <2>3. \A x \in Bds : x \notin X \/ bd'[x].state \in {"EMPTY", "FREE"}
    BY <2>0, DiscardFacts
  <2>. QED BY <2>1, <2>2, <2>3 DEF X
<1>6. \A x : x \in tree' <=> x \in tree /\ ~(x = b /\ ~Waited(t, x))
  BY <1>0, UnwaitedFacts
<1> HIDE DEF r, k
<1>7. Stand(t) /\ task'[t].pc = "idle"
  BY <1>1, <1>2, <1>3, <1>4, PartFacts
<1>8. By(t, b)
  BY <1>5, <1>6, <1>7, OwnMark DEF Elsewhere, MarkPc
<1>9. Calm(b)
  <2>1. ~Valid(b)
    BY OwnMarks DEF Valid
  <2>2. ~Valid(b)' /\ ~Doomed(b)'
    BY <1>2, <1>5 DEF Valid, Doomed
  <2>. QED BY <2>1, <2>2 DEF Calm
<1>10. Plain
  BY DEF Plain, Elsewhere
<1>11. bd'[b].dd = bd[b].dd /\ bd'[b].block = bd[b].block /\ task'[t].pc \notin TakePc /\ task'[t].pc # "syncdone"
  BY <1>2, <1>5, <1>7 DEF TakePc, OwnPc
<1>. QED BY <1>2, <1>8, <1>9, <1>10, <1>11, OneCoh

\* add_to_modified_list_after_access: what becomes of the buffers.
LEMMA ToModifiedFacts ==
  ASSUME Inv, NEW t, NEW b, Owning(t, b), NEW f \in BdFun,
         \A x \in Bds : f[x].state = bd[x].state /\ f[x].dd = bd[x].dd /\ f[x].block = bd[x].block,
         \A x \in Bds \ {b} : f[x].val = bd[x].val,
         ToModified(t, b, f), ahead' = ahead
  PROVE  /\ By(t, b) /\ tree' = tree /\ bd'[b].state = "MODIFIED" /\ bd'[b].val = f[b].val
         /\ task'[t].pc = "idle"
         /\ bd'[b].dd = bd[b].dd /\ bd'[b].block = bd[b].block
<1> DEFINE e == IF bd[b].state \in {"ACCESS_CACHED", "ACCESS_EMPTY"} THEN BlockHold ELSE f[b].hold
           cvs == IF Waited(t, b) THEN {"access"} ELSE {}
           r == Idle(task[t])
           k == [task EXCEPT ![t] = r]
           y == [f[b] EXCEPT !.state = "MODIFIED", !.hold = e]
<1>1. bd \in BdFun /\ task[t] \in TaskRec /\ task \in TaskFun
  BY OwningFacts DEF Inv, TypeOK
<1>2. t \in Tasks /\ b \in Bds
  BY DEF Owning
<1>3. f[b] \in BdRec
  BY <1>2 DEF BdFun
<1>0. bd' = [f EXCEPT ![b] = y] /\ task' = Woken(cvs, k) /\ tree' = tree
  <2>1. bd' = [f EXCEPT ![b].state = "MODIFIED", ![b].hold = IF bd[b].state \in {"ACCESS_CACHED", "ACCESS_EMPTY"} THEN BlockHold ELSE @]
    BY DEF ToModified
  <2>2. bd' = [f EXCEPT ![b] = y]
    BY <1>2, <1>3, <2>1 DEF BdFun, BdRec
  <2>. QED BY <2>2 DEF ToModified
<1>4. r \in TaskRec /\ r.pc = "idle" /\ k = [task EXCEPT ![t] = r]
  BY <1>1, IdleFacts
<1>5. y.state = "MODIFIED" /\ y.dd = f[b].dd /\ y.block = f[b].block /\ y.val = f[b].val
  <2> HIDE DEF e
  <2>. QED BY <1>3 DEF BdRec
<1> HIDE DEF y, e, cvs, r, k
<1>6. /\ bd'[b] = y /\ \A x \in Bds \ {b} : bd'[x] = f[x]
  BY <1>0, <1>2 DEF BdFun
<1>7. Stand(t) /\ task'[t].pc = "idle"
  BY <1>0, <1>1, <1>2, <1>4, PartFacts
<1>8. By(t, b)
  BY <1>0, <1>6, <1>7, OwnMark DEF MarkPc
<1>. QED BY <1>0, <1>2, <1>5, <1>6, <1>7, <1>8

\* The same when the task goes to wait for the sync lock.
LEMMA WantsyncFacts ==
  ASSUME Inv, NEW t, NEW b, Owning(t, b), NEW pc \in OwnPc, task' = [task EXCEPT ![t].pc = pc],
         tree' = tree, ahead' = ahead,
         \A x \in Bds \ {b} : bd'[x] = bd[x]
  PROVE  By(t, b) /\ task'[t].pc = pc /\ task'[t].bd = b
<1>1. task[t] \in TaskRec /\ task \in TaskFun /\ t \in Tasks
  BY OwningFacts DEF Inv, TypeOK, Owning
<1>2. task'[t].pc = pc /\ task'[t].bd = task[t].bd /\ \A u \in Tasks \ {t} : task'[u] = task[u]
  BY <1>1 DEF TaskFun, TaskRec
<1>3. Stand(t)
  BY <1>2 DEF Stand
<1>4. task'[t].bd = b
  BY <1>2 DEF Owning
<1>5. By(t, b)
  BY <1>3, <1>4, OwnMark
<1>. QED BY <1>2, <1>4, <1>5

\* As long as there is one size, a buffer holds one block of the media.
LEMMA CoversOne ==
  ASSUME Inv, ~hist.resized, NEW b \in Bds
  PROVE  \A m : m \in Covers(b) <=> m \in 0 .. MediaBlocks - 1 /\ m = bd[b].block
<1> DEFINE k == bd[b].block
<1>1. k \in Int /\ MaxBdsPerGroup \in Nat \ {0}
  BY BdbufAssumption DEF Inv, TypeOK, BdFun, BdRec
<1>2. group[GroupOf(b)].bds_per_group = MaxBdsPerGroup
  BY GroupFacts DEF Inv, SizesInv
<1>3. MaxBdsPerGroup \div MaxBdsPerGroup = 1
  BY <1>1
<1>4. Covers(b) = (k .. k + 1 - 1) \cap (0 .. MediaBlocks - 1)
  BY <1>2, <1>3 DEF Covers, Extent
<1> HIDE DEF k
<1>5. k .. k + 1 - 1 = {k}
  BY <1>1
<1>. QED BY <1>4, <1>5 DEF k

\* A release as modified is the latest version of the block of the buffer, and of no other.
LEMMA LatestParts ==
  ASSUME Inv, hist.latest \in DiskFun, NEW b \in Bds, bd[b].dd \in Devs, hist' = Latest(b)
  PROVE  /\ hist'.latest \in DiskFun /\ hist'.orphan = hist.orphan /\ hist'.resized = hist.resized
         /\ ~hist.resized => \A d \in Devs, m \in 0 .. MediaBlocks - 1 :
              /\ d = bd[b].dd /\ m = bd[b].block =>
                    hist'.latest[d][m] = hist.version + 1 /\ <<d, m>> \notin hist'.lost
              /\ ~(d = bd[b].dd /\ m = bd[b].block) =>
                    /\ hist'.latest[d][m] = hist.latest[d][m]
                    /\ <<d, m>> \in hist'.lost <=> <<d, m>> \in hist.lost
<1> DEFINE e == bd[b].dd
           u == [m \in 0 .. MediaBlocks - 1 |-> IF m \in Covers(b) THEN hist.version + 1 ELSE hist.latest[e][m]]
           l == [hist.latest EXCEPT ![e] = u]
           o == hist.lost \ {<<e, m>> : m \in Covers(b)}
           n == hist.version + 1
<1>1. hist.latest[e] \in [0 .. MediaBlocks - 1 -> Int]
  BY DEF DiskFun
<1>2. hist' = [hist EXCEPT !.version = n, !.latest = l, !.lost = o]
  <2>1. DOMAIN hist.latest[e] = 0 .. MediaBlocks - 1
    BY <1>1
  <2>. QED BY <2>1 DEF Latest
<1>3. HistRec(hist) /\ hist.version \in Int
  BY DEF Inv, TypeOK, HistRec
<1>4. u \in [0 .. MediaBlocks - 1 -> Int]
  <2>1. \A m \in 0 .. MediaBlocks - 1 : hist.latest[e][m] \in Int
    BY <1>1
  <2>2. n \in Int
    BY <1>3
  <2>. QED BY <2>1, <2>2
<1>5. ASSUME ~hist.resized, NEW m \in 0 .. MediaBlocks - 1
      PROVE  /\ u[m] = IF m = bd[b].block THEN hist.version + 1 ELSE hist.latest[e][m]
  BY <1>5, CoversOne
<1>6. ASSUME ~hist.resized, NEW d \in Devs, NEW m \in 0 .. MediaBlocks - 1
      PROVE  <<d, m>> \in o <=> <<d, m>> \in hist.lost /\ ~(d = e /\ m = bd[b].block)
  <2>1. <<d, m>> \in {<<e, i>> : i \in Covers(b)} <=> d = e /\ m \in Covers(b)
    OBVIOUS
  <2>2. m \in Covers(b) <=> m = bd[b].block
    BY <1>6, CoversOne
  <2>. QED BY <2>1, <2>2
<1> HIDE DEF u
<1>7. l \in DiskFun /\ l[e] = u /\ \A d \in Devs \ {e} : l[d] = hist.latest[d]
  BY <1>4 DEF DiskFun
<1> HIDE DEF l, o, n
<1>8. hist'.latest = l /\ hist'.lost = o /\ hist'.orphan = hist.orphan /\ hist'.resized = hist.resized
  BY <1>2, <1>3, Zenon DEF HistRec
<1>9. ASSUME ~hist.resized, NEW d \in Devs, NEW m \in 0 .. MediaBlocks - 1
      PROVE  /\ d = bd[b].dd /\ m = bd[b].block =>
                    hist'.latest[d][m] = hist.version + 1 /\ <<d, m>> \notin hist'.lost
             /\ ~(d = bd[b].dd /\ m = bd[b].block) =>
                    /\ hist'.latest[d][m] = hist.latest[d][m]
                    /\ <<d, m>> \in hist'.lost <=> <<d, m>> \in hist.lost
  <2>1. <<d, m>> \in hist'.lost <=> <<d, m>> \in hist.lost /\ ~(d = e /\ m = bd[b].block)
    BY <1>6, <1>8, <1>9
  <2>2. CASE d = e
    <3>1. hist'.latest[d][m] = IF m = bd[b].block THEN hist.version + 1 ELSE hist.latest[d][m]
      BY <1>5, <1>7, <1>8, <1>9, <2>2
    <3>. QED BY <2>1, <2>2, <3>1
  <2>3. CASE d # e
    BY <1>7, <1>8, <2>1, <2>3
  <2>. QED BY <2>2, <2>3
<1>. QED BY <1>7, <1>8, <1>9

\* A task releases what it wrote: the latest version of the block is in its buffer.
LEMMA WrittenCoh ==
  ASSUME Inv, Inv', CohInv, NEW t \in Tasks, NEW b \in Bds, By(t, b), disk' = disk, hist' = Latest(b),
         b \in Live, bd[b].state # "FREE", tree' = tree, Owning(t, b), task'[t].pc \in TakePc => task'[t].bd = b,
         task'[t].pc # "syncdone",
         bd'[b].dd = bd[b].dd, bd'[b].block = bd[b].block,
         bd'[b].val = [i \in 0 .. MaxBdsPerGroup - 1 |-> hist.version + 1],
         Valid(b)', ~Clean(b)', ~Doomed(b)'
  PROVE  Conserves
<1>0. bd[b].dd \in Devs /\ (Sound => b \in tree)
  BY DEF Inv, BufferInv
<1>1. hist'.latest \in DiskFun /\ hist'.orphan = hist.orphan /\ hist'.resized = hist.resized
  BY <1>0, LatestParts DEF CohInv
<1>2. ~hist.resized => \A d \in Devs, m \in 0 .. MediaBlocks - 1 :
              /\ d = bd[b].dd /\ m = bd[b].block =>
                    hist'.latest[d][m] = hist.version + 1 /\ <<d, m>> \notin hist'.lost
              /\ ~(d = bd[b].dd /\ m = bd[b].block) =>
                    /\ hist'.latest[d][m] = hist.latest[d][m]
                    /\ <<d, m>> \in hist'.lost <=> <<d, m>> \in hist.lost
  BY <1>0, LatestParts DEF CohInv
<1>3. bd'[b].val[0] = hist.version + 1
  BY BdbufAssumption
<1>4. ASSUME ~hist'.orphan, ~hist'.resized, NEW d \in Devs, NEW m \in 0 .. MediaBlocks - 1
      PROVE  Faithful(d, m)'
  <2>0. Faithful(d, m) /\ ~hist.resized /\ b \in tree'
    BY <1>0, <1>1, <1>4 DEF CohInv, Sound
  <2>1. CASE d = bd[b].dd /\ m = bd[b].block
    <3>1. b \in InTree(d, m)' /\ \A x \in InTree(d, m)' : x = b
      BY <2>0, <2>1 DEF InTree, Inv, KeysInv
    <3>2. hist'.latest[d][m] = hist.version + 1 /\ <<d, m>> \notin hist'.lost
      BY <1>2, <2>0, <2>1
    <3>. QED BY <1>3, <3>1, <3>2 DEF Faithful, Data
  <2>2. CASE ~(d = bd[b].dd /\ m = bd[b].block)
    <3>1. hist'.latest[d][m] = hist.latest[d][m] /\ (<<d, m>> \in hist'.lost <=> <<d, m>> \in hist.lost)
      BY <1>2, <2>0, <2>2
    <3>2. b \notin InTree(d, m) /\ b \notin InTree(d, m)'
      BY <2>2 DEF InTree
    <3>3. \A x \in Bds : x \in InTree(d, m) \/ x \in InTree(d, m)' => Calm(x)
      BY <3>2, ByOthers
    <3>. QED BY <2>0, <3>1, <3>3, CalmStep
  <2>. QED BY <2>1, <2>2
<1>5. AllFirm
  <2>1. ASSUME ~hist'.resized, NEW d \in Devs, NEW m \in 0 .. MediaBlocks - 1 PROVE Firm(d, m) \/ Own(d, m)
    <3>1. CASE d = bd[b].dd /\ m = bd[b].block
      BY <3>1 DEF Own, Keyed, Owning, TakePc
    <3>2. CASE ~(d = bd[b].dd /\ m = bd[b].block)
      BY <1>1, <1>2, <2>1, <3>2 DEF Firm
    <3>. QED BY <3>1, <3>2
  <2>. QED BY <2>1 DEF AllFirm
<1>6. Handed
  <2>1. \A x \in Bds : bd'[x].dd = bd[x].dd /\ bd'[x].block = bd[x].block
    BY DEF By
  <2>. QED BY <2>1, NoneHanded DEF By, Owning, TakePc
<1>. QED BY <1>1, <1>4, <1>5, <1>6 DEF Conserves, CohInv, Sound

\* The buffer goes to the modified list, or its task waits for the sync lock first.
LEMMA AddToModifiedParts ==
  ASSUME Inv, NEW t, NEW b, Owning(t, b), NEW f \in BdFun,
         \A x \in Bds : f[x].state = bd[x].state /\ f[x].dd = bd[x].dd /\ f[x].block = bd[x].block,
         \A x \in Bds \ {b} : f[x] = bd[x],
         AddToModified(t, b, f), ahead' = ahead
  PROVE  /\ By(t, b) /\ tree' = tree /\ bd'[b].val = f[b].val
         /\ task'[t].pc # "syncdone" /\ (task'[t].pc \in TakePc => task'[t].bd = b)
         /\ bd'[b].dd = bd[b].dd /\ bd'[b].block = bd[b].block
         /\ \/ bd'[b].state = "MODIFIED"
            \/ bd'[b].state = bd[b].state /\ Filled(b)'
<1>0. b \in Bds /\ t \in Tasks
  BY DEF Owning
<1>1. CASE /\ task' = [task EXCEPT ![t].pc = "wantsync"]
           /\ bd' = f
           /\ UNCHANGED <<lists, group>>
  <2>1. "wantsync" \in OwnPc /\ tree' = tree /\ \A x \in Bds \ {b} : bd'[x] = bd[x]
    BY <1>1 DEF OwnPc, lists
  <2>2. By(t, b) /\ task'[t].pc = "wantsync" /\ task'[t].bd = b
    BY <1>1, <2>1, WantsyncFacts
  <2>3. Filled(b)'
    BY <1>0, <2>2 DEF Filled
  <2>. QED BY <1>0, <1>1, <2>1, <2>2, <2>3
<1>2. CASE ToModified(t, b, f)
  <2>1. \A x \in Bds \ {b} : f[x].val = bd[x].val
    OBVIOUS
  <2>2. task'[t].pc = "idle"
    BY <1>2, <2>1, ToModifiedFacts
  <2>3. task'[t].pc \notin TakePc /\ task'[t].pc # "syncdone"
    BY <2>2 DEF TakePc, OwnPc
  <2>. QED BY <1>2, <2>1, <2>3, ToModifiedFacts
<1>. QED BY <1>1, <1>2 DEF AddToModified

\* A version that was released before stays the latest.
LEMMA StillLatest ==
  ASSUME Inv, Inv', CohInv, NEW t, NEW b, Owning(t, b), By(t, b), tree' = tree, Elsewhere, hist' = hist,
         bd'[b].val = bd[b].val, bd'[b].dd = bd[b].dd, bd'[b].block = bd[b].block,
         Valid(b) \/ Doomed(b), Valid(b)' \/ Doomed(b)', ~Clean(b)', Doomed(b)' => Doomed(b),
         task'[t].pc \in TakePc => task'[t].bd = b, task'[t].pc # "syncdone"
  PROVE  Conserves
<1>1. b \in tree' => SameKey(b)
  BY DEF SameKey
<1>2. ~(Valid(b) /\ Doomed(b))
  BY DEF Valid, Doomed
<1>3. Calm(b)
  BY <1>1, <1>2 DEF Calm
<1>4. Plain /\ t \in Tasks
  BY DEF Plain, Elsewhere, Owning
<1>5. task[t].pc \in TakePc /\ task[t].bd = b
  BY DEF Owning, TakePc
<1>. QED BY <1>3, <1>4, <1>5, OneCoh

\* rtems_bdbuf_release, release_modified and their wait for the sync lock.
LEMMA ReleaseCoh ==
  ASSUME Inv, Inv', CohInv, NEW t \in Tasks,
         Release(t) \/ ReleaseModified(t) \/ PassSyncLock(t) \/ AddModified(t)
  PROVE  Conserves
<1>0. TypeOK /\ bd \in BdFun /\ hist.version \in Int
  BY DEF Inv, TypeOK
<1>1. Elsewhere
  BY DEF Release, ReleaseModified, PassSyncLock, AddModified, Elsewhere, io
<1>2. task[t].pc \in OwnPc
  BY DEF Release, ReleaseModified, PassSyncLock, AddModified, Holding, OwnPc
<1>3. PICK b \in Bds : b = task[t].bd
  BY <1>2 DEF Inv, TasksInv
<1>4. Owning(t, b) /\ ahead' = ahead /\ disk' = disk
  BY <1>1, <1>2, <1>3 DEF Owning, Elsewhere
<1>5. b \in Live /\ bd[b].state \in Access
  BY <1>4, OwningFacts
<1>6. CASE Release(t)
  <2>1. hist' = hist /\ task[t].pc = "holding"
    BY <1>6 DEF Release, Holding
  <2>2. CASE bd[b].state = "ACCESS_CACHED" /\ ToLru(t, b)
    BY <1>1, <1>4, <2>1, <2>2, ToLruCoh
  <2>3. CASE bd[b].state \in {"ACCESS_EMPTY", "ACCESS_PURGED"} /\ DiscardAfterAccess(t, b)
    BY <1>1, <1>4, <2>1, <2>3, DiscardAfterAccessCoh
  <2>4. CASE bd[b].state = "ACCESS_MODIFIED" /\ AddToModified(t, b, bd)
    <3>1. /\ By(t, b) /\ tree' = tree /\ bd'[b].val = bd[b].val
          /\ bd'[b].dd = bd[b].dd /\ bd'[b].block = bd[b].block
          /\ bd'[b].state \in {"MODIFIED", "ACCESS_MODIFIED"}
          /\ task'[t].pc # "syncdone" /\ (task'[t].pc \in TakePc => task'[t].bd = b)
      BY <1>0, <1>4, <2>4, AddToModifiedParts
    <3>2. Valid(b) /\ Valid(b)' /\ ~Clean(b)' /\ ~Doomed(b)'
      BY <2>4, <3>1 DEF Valid, Clean, Doomed
    <3>. QED BY <1>1, <1>4, <2>1, <3>1, <3>2, StillLatest
  <2>. QED BY <1>3, <1>6, <2>2, <2>3, <2>4 DEF Release
<1>7. CASE ReleaseModified(t)
  <2>1. CASE bd[b].state = "ACCESS_PURGED" /\ DiscardAfterAccess(t, b) /\ hist' = hist
    <3>1. task[t].pc = "holding"
      BY <1>7 DEF ReleaseModified, Holding
    <3>. QED BY <1>1, <1>4, <2>1, <3>1, DiscardAfterAccessCoh
  <2>2. CASE bd[b].state # "ACCESS_PURGED" /\ AddToModified(t, b, Written(b)) /\ hist' = Latest(b)
    <3> DEFINE f == Written(b)
    <3>1. /\ f \in BdFun
          /\ \A x \in Bds : f[x].state = bd[x].state /\ f[x].dd = bd[x].dd /\ f[x].block = bd[x].block
          /\ \A x \in Bds \ {b} : f[x] = bd[x]
          /\ f[b].val = [i \in 0 .. MaxBdsPerGroup - 1 |-> hist.version + 1]
      BY <1>0, WrittenFacts
    <3>2. AddToModified(t, b, f)
      BY <2>2
    <3> HIDE DEF f
    <3>3. /\ By(t, b) /\ tree' = tree /\ bd'[b].val = f[b].val
          /\ task'[t].pc # "syncdone" /\ (task'[t].pc \in TakePc => task'[t].bd = b)
          /\ bd'[b].dd = bd[b].dd /\ bd'[b].block = bd[b].block
          /\ \/ bd'[b].state = "MODIFIED"
             \/ bd'[b].state = bd[b].state /\ Filled(b)'
      BY <1>4, <3>1, <3>2, AddToModifiedParts
    <3>4. bd[b].state \in {"ACCESS_CACHED", "ACCESS_EMPTY", "ACCESS_MODIFIED"}
      BY <1>5, <2>2 DEF Access
    <3>5. Valid(b)' /\ ~Clean(b)' /\ ~Doomed(b)'
      BY <3>3, <3>4 DEF Valid, Clean, Doomed
    <3>6. bd[b].state # "FREE" /\ bd'[b].val = [i \in 0 .. MaxBdsPerGroup - 1 |-> hist.version + 1]
      BY <3>1, <3>3, <3>4
    <3>. QED BY <1>4, <1>5, <2>2, <3>3, <3>5, <3>6, WrittenCoh
  <2>. QED BY <1>3, <1>7, <2>1, <2>2 DEF ReleaseModified
<1>8. CASE PassSyncLock(t)
  <2>1. task' = [task EXCEPT ![t].pc = "addmod"] /\ UNCHANGED <<bd, lists, group, hist>> /\ task[t].pc = "wantsync"
    BY <1>8 DEF PassSyncLock
  <2>2. "addmod" \in OwnPc /\ tree' = tree
    BY <2>1 DEF OwnPc, lists
  <2>3. By(t, b) /\ task'[t].pc = "addmod" /\ task'[t].bd = b
    BY <1>4, <2>1, <2>2, WantsyncFacts
  <2>4. Filled(b) /\ Filled(b)'
    BY <1>3, <2>1, <2>3 DEF Filled
  <2>5. /\ Valid(b) \/ Doomed(b)
        /\ Valid(b)' \/ Doomed(b)'
        /\ ~Clean(b)' /\ (Doomed(b)' => Doomed(b))
    BY <1>5, <2>1, <2>4 DEF Valid, Clean, Doomed, Access
  <2>. QED BY <1>1, <1>4, <2>1, <2>2, <2>3, <2>5, StillLatest
<1>9. CASE AddModified(t)
  <2>1. ToModified(t, b, bd) /\ hist' = hist /\ task[t].pc = "addmod"
    BY <1>3, <1>9 DEF AddModified
  <2>2. Filled(b)
    BY <1>3, <2>1 DEF Filled
  <2>3. /\ By(t, b) /\ tree' = tree /\ bd'[b].state = "MODIFIED" /\ bd'[b].val = bd[b].val
        /\ task'[t].pc = "idle"
        /\ bd'[b].dd = bd[b].dd /\ bd'[b].block = bd[b].block
    BY <1>0, <1>4, <2>1, ToModifiedFacts
  <2>4. (Valid(b) \/ Doomed(b)) /\ Valid(b)' /\ ~Clean(b)' /\ ~Doomed(b)'
    BY <1>5, <2>2, <2>3 DEF Valid, Clean, Doomed, Access
  <2>5. task'[t].pc \notin TakePc /\ task'[t].pc # "syncdone"
    BY <2>3 DEF TakePc, OwnPc
  <2>. QED BY <1>1, <1>4, <2>1, <2>3, <2>4, <2>5, StillLatest
<1>. QED BY <1>6, <1>7, <1>8, <1>9

\* rtems_bdbuf_sync: the version is the latest before it is on the disk.
LEMMA SyncCoh ==
  ASSUME Inv, Inv', CohInv, NEW t \in Tasks, Sync(t)
  PROVE  Conserves
<1>0. TypeOK /\ bd \in BdFun /\ hist.version \in Int /\ task \in TaskFun
  BY DEF Inv, TypeOK
<1>1. Elsewhere /\ task[t].pc \in OwnPc /\ task[t].pc = "holding"
  BY DEF Sync, Elsewhere, io, Holding, OwnPc
<1>2. PICK b \in Bds : b = task[t].bd
  BY <1>1 DEF Inv, TasksInv
<1>3. Owning(t, b) /\ ahead' = ahead /\ disk' = disk
  BY <1>1, <1>2 DEF Owning, Elsewhere
<1>4. CASE bd[b].state = "ACCESS_PURGED" /\ DiscardAfterAccess(t, b) /\ hist' = hist
  BY <1>1, <1>3, <1>4, DiscardAfterAccessCoh
<1>5. ASSUME bd' = SetState(Written(b), {b}, "SYNC"),
             task' = Woken(IF Waited(t, b) THEN {"access"} ELSE {},
                           [task EXCEPT ![t] = At(@, "syn", b, "transfer")]),
             hist' = Latest(b), tree' = tree
      PROVE  Conserves
  <2> DEFINE f == Written(b)
             cvs == IF Waited(t, b) THEN {"access"} ELSE {}
             r == At(task[t], "syn", b, "transfer")
             k == [task EXCEPT ![t] = r]
  <2>2. b \in Live /\ bd[b].state \in Access /\ task[t] \in TaskRec
    BY <1>3, OwningFacts
  <2>3. "syn" \in TaskPc /\ "transfer" \in {"none", "access", "transfer", "buffer"} /\ b \in Int /\ "SYNC" \in States
    BY GroupFacts DEF TaskPc, BdWait, States, Transferring
  <2>4. r \in TaskRec /\ r.pc = "syn" /\ r.bd = b
    BY <2>2, <2>3, AtFacts
  <2>5. task' = Woken(cvs, k)
    BY <1>5
  <2> HIDE DEF cvs, r, f
  <2>6. k = [task EXCEPT ![t] = r]
    OBVIOUS
  <2> HIDE DEF k
  <2>7. /\ f \in BdFun
        /\ \A x \in Bds : f[x].state = bd[x].state /\ f[x].dd = bd[x].dd /\ f[x].block = bd[x].block
        /\ \A x \in Bds \ {b} : f[x] = bd[x]
        /\ f[b].val = [i \in 0 .. MaxBdsPerGroup - 1 |-> hist.version + 1]
    BY <1>0, WrittenFacts DEF f
  <2>8. \A x \in Bds : /\ bd'[x].state = IF x \in {b} THEN "SYNC" ELSE f[x].state
                       /\ bd'[x].dd = f[x].dd /\ bd'[x].block = f[x].block /\ bd'[x].val = f[x].val
    <3> DEFINE S == {b}
    <3>2. bd' = SetState(f, S, "SYNC") /\ f \in BdFun /\ "SYNC" \in States
      BY <1>5, <2>3, <2>7 DEF f
    <3> HIDE DEF S
    <3>3. /\ \A x \in Bds : /\ SetState(f, S, "SYNC")[x].state = IF x \in S THEN "SYNC" ELSE f[x].state
                            /\ SetState(f, S, "SYNC")[x].dd = f[x].dd
                            /\ SetState(f, S, "SYNC")[x].block = f[x].block
                            /\ SetState(f, S, "SYNC")[x].val = f[x].val
      BY <3>2, SetStateFacts
    <3>. QED BY <3>2, <3>3 DEF S
  <2>9. Stand(t) /\ task'[t].pc = "syn"
    BY <1>0, <2>4, <2>5, <2>6, PartFacts
  <2>10. \A x \in Bds \ {b} : /\ bd'[x].state = bd[x].state /\ bd'[x].dd = bd[x].dd
                              /\ bd'[x].block = bd[x].block /\ bd'[x].val = bd[x].val
    BY <2>7, <2>8
  <2>11. By(t, b)
    BY <1>3, <1>5, <2>9, <2>10, OwnMark DEF MarkPc
  <2>12. /\ bd'[b].state = "SYNC" /\ bd'[b].dd = bd[b].dd /\ bd'[b].block = bd[b].block
         /\ bd'[b].val = [i \in 0 .. MaxBdsPerGroup - 1 |-> hist.version + 1]
    BY <2>7, <2>8
  <2>13. Valid(b)' /\ ~Clean(b)' /\ ~Doomed(b)' /\ bd[b].state # "FREE"
    BY <2>2, <2>12 DEF Valid, Clean, Doomed, Access
  <2>14. task'[t].pc \notin TakePc /\ task'[t].pc # "syncdone"
    BY <2>9 DEF TakePc, OwnPc
  <2>. QED BY <1>3, <1>5, <2>2, <2>11, <2>12, <2>13, <2>14, WrittenCoh
<1>. QED BY <1>2, <1>4, <1>5 DEF Sync

\* wait_for_sync_done: nothing is written, an empty buffer is given up.
LEMMA SyncAgainCoh ==
  ASSUME Inv, Inv', CohInv, NEW t \in Tasks, SyncAgain(t)
  PROVE  Conserves
<1>0. TypeOK /\ bd \in BdFun /\ task \in TaskFun /\ task[t] \in TaskRec
  BY DEF Inv, TypeOK, TaskFun
<1>1. task[t].pc = "syn" /\ disk' = disk /\ task[t].pc \notin MarkPc
  BY DEF SyncAgain, MarkPc
<1>2. PICK b \in Bds : b = task[t].bd
  BY <1>1 DEF Inv, TasksInv, BdWait
<1>3. ASSUME Sleep(t, task[t], "syn", b, "transfer", AfterWait(t)), UNCHANGED <<bd, lists, fatal>>
      PROVE  Conserves
  <2> DEFINE r == At(task[t], "syn", b, "transfer")
  <2>1. "syn" \in TaskPc /\ "transfer" \in {"none", "access", "transfer", "buffer"} /\ b \in Int
    BY GroupFacts DEF TaskPc, BdWait
  <2>2. r.pc = "syn"
    BY <1>0, <2>1, AtFacts
  <2>3. task' = [task EXCEPT ![t] = r] /\ UNCHANGED <<bd, tree, ahead, hist>>
    BY <1>3 DEF Sleep, lists
  <2> HIDE DEF r
  <2>4. r.pc \notin TakePc /\ r.pc # "syncdone"
    BY <2>2 DEF TakePc, OwnPc
  <2>. QED BY <1>1, <2>3, <2>4, SleepCoh
<1> DEFINE free == bd[b].state = "EMPTY" /\ ~Waited(t, b)
           rest == bd[b].state \in {"EMPTY", "CACHED"} /\ ~Waited(t, b)
<1>4. CASE /\ bd' = IF free THEN SetState(bd, {b}, "FREE") ELSE bd
           /\ tree' = IF free THEN tree \ {b} ELSE tree
           /\ task' = Woken(IF rest THEN {"buffer"} ELSE {}, [task EXCEPT ![t] = Idle(@)])
           /\ UNCHANGED <<ahead, hist>>
  <2> DEFINE cvs == IF rest THEN {"buffer"} ELSE {}
             r == Idle(task[t])
             k == [task EXCEPT ![t] = r]
  <2>1. task' = Woken(cvs, k)
    BY <1>4
  <2>2. r \in TaskRec /\ r.pc = "idle" /\ k = [task EXCEPT ![t] = r]
    BY <1>0, IdleFacts
  <2> HIDE DEF r, k, cvs
  <2>3. Stand(t) /\ task'[t].pc = "idle"
    BY <1>0, <2>1, <2>2, PartFacts
  <2>4. task'[t].pc \notin MarkPc /\ task'[t].pc \notin TakePc /\ task'[t].pc # "syncdone" /\ Plain
    BY <1>1, <1>4, <2>3 DEF MarkPc, TakePc, OwnPc, Plain
  <2>5. CASE free
    <3>0. "FREE" \in States
      BY DEF States
    <3>1. bd' = SetState(bd, {b}, "FREE") /\ tree' = tree \ {b}
      BY <1>4, <2>5
    <3>2. \A x \in Bds : /\ bd'[x].state = IF x \in {b} THEN "FREE" ELSE bd[x].state
                         /\ bd'[x].dd = bd[x].dd /\ bd'[x].block = bd[x].block /\ bd'[x].val = bd[x].val
      BY <1>0, <3>0, <3>1, SetStateFacts
    <3>3. By(t, b)
      BY <1>1, <1>4, <2>3, <2>4, <3>1, <3>2 DEF By
    <3>4. ~Valid(b) /\ b \notin tree'
      BY <2>5, <3>1 DEF Valid
    <3>5. Calm(b)
      BY <3>4 DEF Calm
    <3>6. bd'[b].dd = bd[b].dd /\ bd'[b].block = bd[b].block
      BY <3>2
    <3>. QED BY <2>4, <3>3, <3>5, <3>6, OneCoh
  <2>6. CASE ~free
    <3>1. bd' = bd /\ tree' = tree
      BY <1>4, <2>6
    <3>. QED BY <1>1, <1>4, <2>3, <2>4, <3>1, SameCoh
  <2>. QED BY <2>5, <2>6
<1>5. CASE Fatal
  BY <1>1, <1>5, FatalCoh
<1>. QED BY <1>2, <1>3, <1>4, <1>5 DEF SyncAgain

\* A buffer that was read has what is on the disk.
LEMMA LoadedData ==
  ASSUME Inv, ~hist.resized, NEW S, NEW b \in S, b \in Bds, \A x \in S : bd[x].dd \in Devs,
         bd[b].block \in 0 .. MediaBlocks - 1
  PROVE  Loaded(bd, S)[b].val[0] = disk[bd[b].dd][bd[b].block]
<1>1. bd \in BdFun /\ disk \in DiskFun /\ bd[b].block \in Int /\ 0 \in 0 .. MaxBdsPerGroup - 1
  BY BdbufAssumption DEF Inv, TypeOK
<1>2. bd[b].block + 0 = bd[b].block /\ bd[b].block \in Covers(b)
  BY <1>1, CoversOne
<1>3. Loaded(bd, S)[b].val[0] = disk[bd[b].dd][bd[b].block + 0]
  BY <1>1, <1>2, LoadedFacts
<1>. QED BY <1>2, <1>3

\* The end of a read that missed: the buffer has the contents of the disk, or is given up.
LEMMA ReadDoneCoh ==
  ASSUME Inv, Inv', CohInv, NEW t \in Tasks, ReadDone(t)
  PROVE  Conserves
<1>0. TypeOK /\ task \in TaskFun /\ bd \in BdFun /\ disk \in DiskFun /\ task[t] \in TaskRec
  BY DEF Inv, TypeOK, TaskFun
<1>1. task[t].pc = "reading" /\ disk' = disk
  BY DEF ReadDone
<1>2. PICK b \in Bds : b = task[t].bd
  BY <1>1 DEF Inv, TasksInv
<1>3. b \in Live /\ bd[b].state \in AtDriver /\ task[t].dd \in Devs /\ bd[b].dd \in Devs
  BY <1>1, <1>2, OwnerFacts DEF Inv, TasksInv, BufferInv, AtDriver
<1>4. ahead'.req = ahead.req
  <2> DEFINE d == task[t].dd
             k == task[t].block
  <2>1. /\ d \in Devs /\ k \in Int
        /\ dev' = [dev EXCEPT ![d] = CheckSize(ahead, @, d, k)]
        /\ ahead' = CheckTrigger(ahead, dev[d], d, k)
    BY <1>0, <1>3 DEF ReadDone, TaskRec
  <2> HIDE DEF d, k
  <2>2. ReadControl
    BY <1>0, <2>1, ReadControlFacts
  <2>. QED BY <2>2 DEF ReadControl, SameAhead
<1>5. Reading(b) /\ ~Valid(b)
  <2>1. Reading(b)
    BY <1>1, <1>2 DEF Reading
  <2>. QED BY <1>3, <2>1 DEF Valid, AtDriver
<1>6. ASSUME NEW r \in TaskRec, r.pc \notin MarkPc, NEW cvs, NEW k, k = [task EXCEPT ![t] = r], task' = Woken(cvs, k),
             \A x \in Bds \ {b} : /\ bd'[x].state = bd[x].state /\ bd'[x].dd = bd[x].dd
                                  /\ bd'[x].block = bd[x].block /\ bd'[x].val = bd[x].val
                                  /\ x \in tree' <=> x \in tree
      PROVE  By(t, b)
  <2>1. Stand(t) /\ task'[t].pc \notin MarkPc
    BY <1>0, <1>6, PartFacts
  <2>. QED BY <1>2, <1>4, <1>6, <2>1 DEF By
<1>7. ASSUME bd' = SetState(Loaded(bd, {b}), {b}, "ACCESS_CACHED"),
             task' = WakeFor(t, {b}, "transfer", [task EXCEPT ![t].pc = "holding"]),
             tree' = tree, hist' = hist
      PROVE  Conserves
  <2> DEFINE f == Loaded(bd, {b})
  <2>1. /\ f \in BdFun
        /\ \A x \in Bds : f[x].state = bd[x].state /\ f[x].dd = bd[x].dd /\ f[x].block = bd[x].block
        /\ \A x \in Bds \ {b} : f[x] = bd[x]
        /\ ~hist.resized /\ bd[b].block \in 0 .. MediaBlocks - 1 => f[b].val[0] = disk[bd[b].dd][bd[b].block]
    <3> DEFINE S == {b}
    <3>1. b \in S /\ \A x \in S : bd[x].dd \in Devs
      BY <1>3
    <3>s. \A x \in Bds \ {b} : x \notin S
      OBVIOUS
    <3> HIDE DEF S
    <3>2. /\ Loaded(bd, S) \in BdFun
          /\ \A x \in Bds : /\ Loaded(bd, S)[x].state = bd[x].state
                            /\ Loaded(bd, S)[x].dd = bd[x].dd /\ Loaded(bd, S)[x].block = bd[x].block
                            /\ x \notin S => Loaded(bd, S)[x] = bd[x]
      BY <1>0, <3>1, LoadedFacts
    <3>3. ~hist.resized /\ bd[b].block \in 0 .. MediaBlocks - 1 => Loaded(bd, S)[b].val[0] = disk[bd[b].dd][bd[b].block]
      BY <3>1, LoadedData
    <3>. QED BY <3>2, <3>3, <3>s DEF S
  <2>2. bd' = SetState(f, {b}, "ACCESS_CACHED") /\ "ACCESS_CACHED" \in States
    BY <1>7 DEF States, Access
  <2> DEFINE r == [task[t] EXCEPT !.pc = "holding"]
             k == [task EXCEPT ![t] = r]
  <2>3. r \in TaskRec /\ r.pc = "holding"
    BY <1>0 DEF TaskRec, TaskPc, OwnPc
  <2>4. task' = WakeFor(t, {b}, "transfer", k)
    BY <1>7
  <2> HIDE DEF f, r
  <2>5. k = [task EXCEPT ![t] = r]
    OBVIOUS
  <2> HIDE DEF k
  <2>6. PICK cvs : task' = Woken(cvs, k)
    BY <2>4, WakeForFacts
  <2>7. \A x \in Bds : /\ bd'[x].state = IF x \in {b} THEN "ACCESS_CACHED" ELSE f[x].state
                       /\ bd'[x].dd = f[x].dd /\ bd'[x].block = f[x].block /\ bd'[x].val = f[x].val
    BY <2>1, <2>2, SetStateFacts
  <2>8. By(t, b)
    <3>1. r.pc \notin MarkPc
      BY <2>3 DEF MarkPc
    <3>2. \A x \in Bds \ {b} : /\ bd'[x].state = bd[x].state /\ bd'[x].dd = bd[x].dd
                               /\ bd'[x].block = bd[x].block /\ bd'[x].val = bd[x].val
                               /\ x \in tree' <=> x \in tree
      BY <1>7, <2>1, <2>7
    <3>. QED BY <1>6, <2>3, <2>5, <2>6, <3>1, <3>2
  <2>9. ASSUME ~hist'.resized PROVE Calm(b)
    <3>1. /\ bd'[b].state = "ACCESS_CACHED" /\ bd'[b].dd = bd[b].dd /\ bd'[b].block = bd[b].block
          /\ bd[b].block \in 0 .. MediaBlocks - 1 => bd'[b].val[0] = disk[bd[b].dd][bd[b].block]
      BY <1>7, <2>1, <2>7, <2>9
    <3>2. ~Doomed(b)' /\ (b \in tree' => SameKey(b))
      BY <1>7, <3>1 DEF Doomed, SameKey
    <3>. QED BY <1>5, <3>1, <3>2 DEF Calm
  <2>10. Plain
    BY <1>1, <1>7 DEF Plain
  <2>11. /\ bd'[b].dd = bd[b].dd /\ bd'[b].block = bd[b].block
         /\ task[t].pc \in TakePc /\ task'[t].bd = task[t].bd /\ task'[t].pc # "syncdone"
    <3>1. r.bd = task[t].bd
      BY <1>0 DEF r, TaskRec
    <3>2. task'[t].bd = r.bd /\ task'[t].pc = r.pc
      BY <1>0, <2>3, <2>5, <2>6, PartFacts
    <3>. QED BY <1>1, <2>1, <2>3, <2>7, <3>1, <3>2 DEF TakePc
  <2>. QED BY <2>8, <2>9, <2>10, <2>11, OneCoh
<1>8. ASSUME TransferDone(t, bd, <<b>>, FALSE, [task EXCEPT ![t] = At(task[t], "idle", -1, "none")]),
             hist' = hist
      PROVE  Conserves
  <2> DEFINE r == At(task[t], "idle", -1, "none")
             k == [task EXCEPT ![t] = r]
             s == <<b>>
             ok == FALSE
             X == {b}
             R == In({"FREE", "CACHED"})
  <2>0. ListsInv /\ group \in GroupFun
    BY DEF Inv, TypeOK
  <2>1. r \in TaskRec /\ r.pc = "idle"
    <3>1. "idle" \in TaskPc /\ -1 \in Int /\ "none" \in {"none", "access", "transfer", "buffer"}
      BY DEF TaskPc
    <3>. QED BY <1>0, <3>1, AtFacts
  <2>2. TransferDone(t, bd, s, ok, k) /\ \A x : ~Stays(bd, ok, x)
    BY <1>8 DEF Stays
  <2>3. IsList(Bds, s, X) /\ IsList(Bds, lru, R) /\ X \cap R = {} /\ b \in X /\ \A x \in Bds \ {b} : x \notin X
    BY <1>3, <2>0, OneNode DEF ListsInv, In, AtDriver
  <2> HIDE DEF r
  <2>4. k = [task EXCEPT ![t] = r]
    OBVIOUS
  <2> HIDE DEF k, s, ok, X, R
  <2>5. Done(t, bd, X, R, ok, k)
    BY <1>0, <2>0, <2>2, <2>3, TransferDoneFacts
  <2>6. /\ \A x \in Bds : /\ bd'[x].dd = bd[x].dd /\ bd'[x].block = bd[x].block /\ bd'[x].val = bd[x].val
                          /\ x \in X \/ bd'[x].state = bd[x].state
                          /\ x \notin X \/ bd'[x].state \in {"EMPTY", "FREE"}
        /\ \A x \in Bds : x \in X \/ (x \in tree' <=> x \in tree)
        /\ \E cvs : task' = Woken(cvs, k)
    BY <2>2, <2>5 DEF Done
  <2>7. PICK cvs : task' = Woken(cvs, k)
    BY <2>6
  <2>8. By(t, b)
    <3>1. r.pc \notin MarkPc
      BY <2>1 DEF MarkPc
    <3>2. \A x \in Bds \ {b} : /\ bd'[x].state = bd[x].state /\ bd'[x].dd = bd[x].dd
                               /\ bd'[x].block = bd[x].block /\ bd'[x].val = bd[x].val
                               /\ x \in tree' <=> x \in tree
      BY <2>3, <2>6
    <3>. QED BY <1>6, <2>1, <2>4, <2>7, <3>1, <3>2
  <2>9. Calm(b)
    <3>1. ~Valid(b)' /\ ~Doomed(b)'
      BY <2>3, <2>6 DEF Valid, Doomed
    <3>. QED BY <1>5, <3>1 DEF Calm
  <2>10. Plain
    BY <1>1, <1>8 DEF Plain
  <2>11. bd'[b].dd = bd[b].dd /\ bd'[b].block = bd[b].block /\ task'[t].pc \notin TakePc /\ task'[t].pc # "syncdone"
    <3>1. task'[t].pc = "idle"
      BY <1>0, <2>1, <2>4, <2>7, PartFacts
    <3>. QED BY <2>6, <3>1 DEF TakePc, OwnPc
  <2>. QED BY <2>8, <2>9, <2>10, <2>11, OneCoh
<1>9. ASSUME hist' = [hist EXCEPT !.orphan = TRUE] PROVE Conserves
  <2>1. HistRec(hist)
    BY <1>0 DEF TypeOK, HistRec
  <2>2. hist'.latest = hist.latest /\ hist'.orphan
    BY <1>9, <2>1, Zenon DEF HistRec
  <2>. QED BY <2>2, VoidCoh
<1>10. \/ /\ bd' = SetState(Loaded(bd, {b}), {b}, "ACCESS_CACHED")
          /\ task' = WakeFor(t, {b}, "transfer", [task EXCEPT ![t].pc = "holding"])
          /\ tree' = tree /\ hist' = hist
       \/ hist' = [hist EXCEPT !.orphan = TRUE]
       \/ /\ TransferDone(t, bd, <<b>>, FALSE, [task EXCEPT ![t] = At(task[t], "idle", -1, "none")])
          /\ hist' = hist
  BY <1>2 DEF ReadDone, lists
<1>. QED BY <1>7, <1>8, <1>9, <1>10

\* Tasks that are only woken are where they were.
LEMMA WokenStand ==
  ASSUME task \in TaskFun, NEW cvs, task' = Woken(cvs, task)
  PROVE  Stand(None)
<1>1. OnlyWoken
  BY OnlyWokenFacts
<1>. QED BY <1>1 DEF OnlyWoken, Stand

\* The end of the transfer of the read-ahead task.
LEMMA ReadAheadDoneCoh ==
  ASSUME Inv, Inv', CohInv, ReadAheadDone
  PROVE  Conserves
<1> DEFINE s == ahead.req
           h == "ahead"
           X == ToSet(s)
           R == In({"FREE", "CACHED"})
<1>0. /\ bd \in BdFun /\ group \in GroupFun /\ disk \in DiskFun /\ task \in TaskFun
      /\ ListsInv /\ s \in Seq(Bds) /\ IsInjective(s)
  BY DEF Inv, TypeOK, RequestsInv
<1>1. UNCHANGED <<disk, hist>> /\ ahead' = [ahead EXCEPT !.pc = "run", !.req = <<>>, !.dd = NoDev, !.count = 0]
  BY DEF ReadAheadDone
<1>r. ahead'.req = <<>> /\ \A b : b \notin ToSet(ahead'.req)
  <2>1. AheadRec(ahead)
    BY DEF Inv, TypeOK, AheadRec
  <2>2. ahead'.req = <<>>
    BY <1>1, <2>1, Zenon DEF AheadRec
  <2>3. ToSet(<<>>) = {}
    BY NoNodes DEF IsList
  <2>. QED BY <2>2, <2>3
<1>2. IsList(Bds, s, X) /\ X \subseteq Bds
  <2>1. IsList(Bds, s, X)
    BY <1>0 DEF IsList
  <2>. QED BY <2>1, ListOps
<1>3. \A b \in X : b \in Bds /\ h \in Drivers(b) /\ Reading(b)
  BY <1>2 DEF Drivers, Reading
<1>4. X \cap R = {} /\ \A b \in X : bd[b].dd \in Devs /\ bd[b].state \in AtDriver
  BY <1>3, DrivenFacts
<1>5. \A b \in X : ~Valid(b)
  BY <1>3, <1>4 DEF Valid, AtDriver
<1>6. IsList(Bds, lru, R)
  BY <1>0 DEF ListsInv
<1>7. PICK f, ok : /\ TransferDone(None, f, s, ok, task) /\ f \in BdFun
                   /\ \A b \in Bds : f[b].state = bd[b].state /\ f[b].dd = bd[b].dd /\ f[b].block = bd[b].block
                   /\ \A b \in Bds \ X : f[b] = bd[b]
                   /\ \A b \in X : ok /\ ~hist.resized /\ bd[b].block \in 0 .. MediaBlocks - 1
                                    => f[b].val[0] = disk[bd[b].dd][bd[b].block]
  <2>1. CASE TransferDone(None, Loaded(bd, X), s, TRUE, task)
    <3> DEFINE e == Loaded(bd, X)
    <3>0. \A b \in X : bd[b].dd \in Devs /\ b \in Bds
      BY <1>3, <1>4
    <3> HIDE DEF X
    <3>1. /\ e \in BdFun
          /\ \A b \in Bds : e[b].state = bd[b].state /\ e[b].dd = bd[b].dd /\ e[b].block = bd[b].block
          /\ \A b \in Bds \ X : e[b] = bd[b]
      BY <1>0, <3>0, LoadedFacts
    <3>3. \A b \in X : ~hist.resized /\ bd[b].block \in 0 .. MediaBlocks - 1 => e[b].val[0] = disk[bd[b].dd][bd[b].block]
      BY <3>0, LoadedData
    <3> DEFINE y == TRUE
    <3>2. TransferDone(None, e, s, y, task)
      BY <2>1
    <3> HIDE DEF e, s, y
    <3>4. \A b \in X : y /\ ~hist.resized /\ bd[b].block \in 0 .. MediaBlocks - 1
                       => e[b].val[0] = disk[bd[b].dd][bd[b].block]
      BY <3>3
    <3>. QED BY <3>1, <3>2, <3>4
  <2>2. CASE TransferDone(None, bd, s, FALSE, task)
    BY <1>0, <2>2
  <2>. QED BY <2>1, <2>2 DEF ReadAheadDone
<1>a. \A b : b \in X <=> b \in ToSet(ahead.req)
  OBVIOUS
<1> HIDE DEF X, R, s
<1>8. Done(None, f, X, R, ok, task)
  BY <1>0, <1>2, <1>4, <1>6, <1>7, TransferDoneFacts
<1>9. Stand(None) /\ None \notin Tasks
  <2>1. \E cvs : task' = Woken(cvs, task)
    BY <1>8 DEF Done
  <2>. QED BY <1>0, <2>1, WokenStand, BdbufAssumption
<1>10. ASSUME NEW b \in Bds \ X PROVE Calm(b)
  <2>1. b \in ToSet(ahead'.req) <=> b \in ToSet(ahead.req)
    BY <1>a, <1>r, <1>10
  <2>2. (Filled(b)' <=> Filled(b)) /\ (Reading(b)' <=> Reading(b))
    BY <1>9, <2>1, MarksKept
  <2>3. /\ bd'[b].state = bd[b].state /\ bd'[b].dd = bd[b].dd /\ bd'[b].block = bd[b].block
        /\ bd'[b].val = bd[b].val /\ (b \in tree' <=> b \in tree)
    BY <1>7, <1>8, <1>10 DEF Done
  <2>. QED BY <2>2, <2>3, AlikeCalm DEF Alike
<1>11. ASSUME ~hist'.resized, NEW b \in X PROVE Calm(b)
  <2>0. b \in Bds /\ ~Valid(b) /\ ~hist.resized
    BY <1>1, <1>3, <1>5, <1>11
  <2>1. CASE Stays(f, ok, b)
    <3>1. /\ bd'[b].state = "CACHED" /\ bd'[b].dd = bd[b].dd /\ bd'[b].block = bd[b].block
          /\ bd'[b].val = f[b].val /\ (b \in tree' <=> b \in tree)
      BY <1>7, <1>8, <1>11, <2>0, <2>1 DEF Done
    <3>2. bd[b].block \in 0 .. MediaBlocks - 1 => bd'[b].val[0] = disk[bd[b].dd][bd[b].block]
      BY <1>7, <1>11, <2>0, <2>1, <3>1 DEF Stays
    <3>3. ~Doomed(b)' /\ (b \in tree' => SameKey(b))
      BY <3>1 DEF Doomed, SameKey
    <3>. QED BY <2>0, <3>2, <3>3 DEF Calm
  <2>2. CASE ~Stays(f, ok, b)
    <3>1. bd'[b].state \in {"EMPTY", "FREE"}
      BY <1>8, <1>11, <2>0, <2>2 DEF Done
    <3>2. ~Valid(b)' /\ ~Doomed(b)'
      BY <3>1 DEF Valid, Doomed
    <3>. QED BY <2>0, <3>2 DEF Calm
  <2>. QED BY <2>1, <2>2
<1>12. Plain
  BY <1>1 DEF Plain
<1>13. \A b \in Bds : bd'[b].dd = bd[b].dd /\ bd'[b].block = bd[b].block
  BY <1>7, <1>8 DEF Done
<1>14. Handed
  BY <1>9, <1>13, NoneHanded
<1>. QED BY <1>10, <1>11, <1>12, <1>14, CalmAll DEF Conserves

\* Buffer b is the only one of S for block m of device d.
OneKeyed(S, b, d, m) == Keyed(b, d, m) /\ \A y \in S : Keyed(y, d, m) => y = b

\* What a write leaves on the disk.
LEMMA StoredAt ==
  ASSUME Inv, ~hist.resized, NEW S, S \subseteq Bds, NEW d \in Devs, NEW m \in 0 .. MediaBlocks - 1
  PROVE  /\ (\A b \in S : ~Keyed(b, d, m)) => Stored(S)[d][m] = disk[d][m]
         /\ \A b \in S : OneKeyed(S, b, d, m) => Stored(S)[d][m] = bd[b].val[0]
<1>1. DOMAIN disk[d] = 0 .. MediaBlocks - 1
  BY DEF Inv, TypeOK, DiskFun
<1>2. \A b \in S : m \in Covers(b) <=> m = bd[b].block
  BY CoversOne
<1>3. \A b \in S : Keyed(b, d, m) <=> bd[b].dd = d /\ m \in Covers(b)
  BY <1>2 DEF Keyed
<1> DEFINE c == CHOOSE x \in S : bd[x].dd = d /\ m \in Covers(x)
<1>4. Stored(S)[d][m] = IF \E b \in S : bd[b].dd = d /\ m \in Covers(b) THEN bd[c].val[m - bd[c].block] ELSE disk[d][m]
  BY <1>1 DEF Stored
<1>5. (\E b \in S : bd[b].dd = d /\ m \in Covers(b)) => c \in S /\ bd[c].dd = d /\ m \in Covers(c)
  OBVIOUS
<1> HIDE DEF c
<1>6. ASSUME NEW b \in S, OneKeyed(S, b, d, m) PROVE Stored(S)[d][m] = bd[b].val[0]
  <2>1. bd[b].dd = d /\ m \in Covers(b) /\ bd[b].block = m
    BY <1>3, <1>6 DEF OneKeyed, Keyed
  <2>2. c = b
    BY <1>3, <1>5, <1>6, <2>1 DEF OneKeyed
  <2>3. m - bd[b].block = 0
    BY <2>1
  <2>. QED BY <1>4, <1>6, <2>1, <2>2, <2>3
<1>7. ASSUME \A b \in S : ~Keyed(b, d, m) PROVE Stored(S)[d][m] = disk[d][m]
  BY <1>3, <1>4, <1>7
<1>. QED BY <1>6, <1>7

\* What is given up by a failed write of buffers X.
LEMMA LostAt ==
  ASSUME Inv, ~hist.resized, NEW X, X \subseteq Bds, NEW d \in Devs, NEW m \in 0 .. MediaBlocks - 1
  PROVE  <<d, m>> \in UNION {{<<bd[b].dd, i>> : i \in Covers(b)} : b \in X} <=> \E b \in X : Keyed(b, d, m)
<1>1. \A b \in X : m \in Covers(b) <=> m = bd[b].block
  BY CoversOne
<1>2. \A b \in X : <<d, m>> \in {<<bd[b].dd, i>> : i \in Covers(b)} <=> Keyed(b, d, m)
  <2>1. ASSUME NEW b \in X PROVE <<d, m>> \in {<<bd[b].dd, i>> : i \in Covers(b)} <=> Keyed(b, d, m)
    <3>1. <<d, m>> \in {<<bd[b].dd, i>> : i \in Covers(b)} <=> bd[b].dd = d /\ m \in Covers(b)
      OBVIOUS
    <3>. QED BY <1>1, <3>1 DEF Keyed
  <2>. QED BY <2>1
<1>. QED BY <1>2

\* The end of a write of buffers X: what it wrote is clean, the rest of X is given up.
LEMMA WriteEndCoh ==
  ASSUME Inv, Inv', CohInv, NEW X, X \subseteq Bds, NEW h, h \notin Tasks, h # "ahead",
         \A b \in X : h \in Drivers(b), NEW R, NEW ok, Done(None, bd, X, R, ok, task), ahead' = ahead,
         hist'.latest = hist.latest, hist'.orphan = hist.orphan, hist'.resized = hist.resized,
         ~hist.resized => \A d \in Devs, m \in 0 .. MediaBlocks - 1 :
             /\ (\A b \in X : ~Keyed(b, d, m)) =>
                   /\ disk'[d][m] = disk[d][m]
                   /\ <<d, m>> \in hist'.lost <=> <<d, m>> \in hist.lost
             /\ \A b \in X : OneKeyed(X, b, d, m) /\ Stays(bd, ok, b) =>
                   /\ disk'[d][m] = bd[b].val[0]
                   /\ <<d, m>> \in hist'.lost <=> <<d, m>> \in hist.lost
             /\ \A b \in X : OneKeyed(X, b, d, m) /\ ~Stays(bd, ok, b) =>
                   \/ <<d, m>> \in hist'.lost
                   \/ Doomed(b) /\ (<<d, m>> \in hist.lost => <<d, m>> \in hist'.lost)
  PROVE  Conserves
<1>0. tree \subseteq Bds /\ task \in TaskFun /\ KeysInv
  BY DEF Inv, TypeOK
<1>1. ASSUME NEW b \in X
      PROVE  /\ b \in Bds /\ b \in Live /\ bd[b].state \in AtDriver /\ ~Reading(b)
             /\ Sound => b \in tree
  <2>1. b \in Bds /\ b \in Live /\ bd[b].state \in AtDriver /\ Drivers(b) = {h}
    BY <1>1, DrivenFacts
  <2>2. ~Reading(b)
    <3>1. b \notin ToSet(ahead.req)
      <4>1. b \in ToSet(ahead.req) => "ahead" \in Drivers(b)
        BY DEF Drivers
      <4>. QED BY <2>1, <4>1
    <3>2. ASSUME NEW u \in Tasks, task[u].bd = b, task[u].pc = "reading" PROVE FALSE
      <4>1. u \in Drivers(b)
        BY <3>2 DEF Drivers
      <4>. QED BY <2>1, <3>2, <4>1
    <3>. QED BY <3>1, <3>2 DEF Reading
  <2>3. Sound => b \in tree
    BY <2>1 DEF Inv, BufferInv, AtDriver
  <2>. QED BY <2>1, <2>2, <2>3
<1>2. Stand(None) /\ None \notin Tasks
  <2>1. \E cvs : task' = Woken(cvs, task)
    BY DEF Done
  <2>. QED BY <1>0, <2>1, WokenStand, BdbufAssumption
<1>3. ASSUME NEW b \in Bds
      PROVE  (Filled(b)' <=> Filled(b)) /\ (Reading(b)' <=> Reading(b))
  BY <1>2, MarksKept
<1>4. \A b \in Bds : bd'[b].dd = bd[b].dd /\ bd'[b].block = bd[b].block /\ bd'[b].val = bd[b].val
  BY DEF Done
<1>5. tree' \subseteq tree
  BY DEF Done
<1>6. ASSUME NEW b \in Bds, b \notin X PROVE Calm(b)
  <2>1. bd'[b].state = bd[b].state /\ (b \in tree' <=> b \in tree)
    BY <1>6 DEF Done
  <2>. QED BY <1>3, <1>4, <2>1, AlikeCalm DEF Alike
<1>7. ASSUME ~hist'.orphan, ~hist'.resized, NEW d \in Devs, NEW m \in 0 .. MediaBlocks - 1
      PROVE  Faithful(d, m)'
  <2>0. Faithful(d, m) /\ ~hist.resized /\ Sound
    BY <1>7 DEF CohInv, Sound
  <2>1. \A b : /\ b \in InTree(d, m) <=> b \in tree /\ Keyed(b, d, m)
               /\ b \in InTree(d, m)' => b \in InTree(d, m)
    <3>1. \A b : b \in InTree(d, m) <=> b \in tree /\ Keyed(b, d, m)
      BY DEF InTree, Keyed
    <3>2. \A b : b \in InTree(d, m)' <=> b \in tree' /\ bd'[b].dd = d /\ bd'[b].block = m
      BY DEF InTree
    <3>. QED BY <1>0, <1>4, <1>5, <3>1, <3>2 DEF Keyed
  <2>2. CASE \A b \in X : ~Keyed(b, d, m)
    <3>1. /\ disk'[d][m] = disk[d][m] /\ hist'.latest[d][m] = hist.latest[d][m]
          /\ <<d, m>> \in hist'.lost <=> <<d, m>> \in hist.lost
      BY <2>0, <2>2
    <3>2. \A b \in Bds : b \in InTree(d, m) \/ b \in InTree(d, m)' => Calm(b)
      BY <1>6, <2>1, <2>2
    <3>. QED BY <2>0, <3>1, <3>2, CalmStep
  <2>3. ASSUME NEW b \in X, Keyed(b, d, m) PROVE Faithful(d, m)'
    <3>0. b \in Bds /\ b \in tree /\ b \in InTree(d, m)
      BY <1>1, <2>0, <2>1, <2>3
    <3>1. /\ \A x \in InTree(d, m) : x = b
          /\ \A x \in InTree(d, m)' : x = b
          /\ OneKeyed(X, b, d, m)
      <4>1. \A x \in tree : Keyed(x, d, m) => x = b
        BY <1>0, <2>3, <3>0 DEF KeysInv, Keyed
      <4>2. \A x \in X : x \in tree
        BY <1>1, <2>0
      <4>. QED BY <2>1, <2>3, <4>1, <4>2 DEF OneKeyed
    <3>2. CASE Stays(bd, ok, b)
      <4>1. disk'[d][m] = bd[b].val[0] /\ (<<d, m>> \in hist'.lost <=> <<d, m>> \in hist.lost)
        BY <2>0, <3>1, <3>2
      <4>2. bd[b].state = "TRANSFER" /\ bd'[b].state = "CACHED" /\ b \in tree'
        BY <3>0, <3>2 DEF Done, Stays
      <4>3. Valid(b) /\ Valid(b)' /\ ~Doomed(b)'
        BY <1>1, <4>2 DEF Valid, Doomed
      <4>4. <<d, m>> \notin hist.lost => bd[b].val[0] = hist.latest[d][m]
        BY <2>0, <3>0, <4>3 DEF Faithful, Data
      <4>5. b \in InTree(d, m)'
        BY <1>4, <2>3, <3>0, <4>2 DEF InTree, Keyed
      <4>6. bd'[b].val = bd[b].val
        BY <1>4, <3>0
      <4>. QED BY <3>1, <4>1, <4>3, <4>4, <4>5, <4>6 DEF Faithful, Data
    <3>3. CASE ~Stays(bd, ok, b)
      <4>1. <<d, m>> \in hist'.lost
        <5>1. Doomed(b) => <<d, m>> \in hist.lost
          BY <2>0, <3>0 DEF Faithful
        <5>2. \/ <<d, m>> \in hist'.lost
              \/ Doomed(b) /\ (<<d, m>> \in hist.lost => <<d, m>> \in hist'.lost)
          BY <2>0, <3>1, <3>3
        <5>. QED BY <5>1, <5>2
      <4>2. bd'[b].state \in {"EMPTY", "FREE"}
        BY <3>0, <3>3 DEF Done
      <4>3. ~Clean(b)' /\ ~Doomed(b)'
        BY <4>2 DEF Clean, Doomed
      <4>. QED BY <3>1, <4>1, <4>3 DEF Faithful
    <3>. QED BY <3>2, <3>3
  <2>. QED BY <2>2, <2>3
<1>8. hist'.latest \in DiskFun
  BY DEF CohInv
<1>9. AllFirm
  <2>1. ASSUME ~hist'.orphan, ~hist'.resized, NEW d \in Devs, NEW m \in 0 .. MediaBlocks - 1 PROVE Firm(d, m)
    <3>0. Faithful(d, m) /\ ~hist.resized /\ Sound
      BY <2>1 DEF CohInv, Sound
    <3>1. CASE \A b \in X : ~Keyed(b, d, m)
      BY <3>0, <3>1 DEF Firm
    <3>2. ASSUME NEW b \in X, Keyed(b, d, m) PROVE Firm(d, m)
      <4>1. b \in tree /\ b \in InTree(d, m)
        BY <1>1, <3>0, <3>2 DEF InTree, Keyed
      <4>2. OneKeyed(X, b, d, m)
        <5>1. \A x \in X : x \in tree
          BY <1>1, <3>0
        <5>. QED BY <1>0, <3>2, <4>1, <5>1 DEF KeysInv, Keyed, OneKeyed
      <4>3. CASE Stays(bd, ok, b)
        <5>1. disk'[d][m] = bd[b].val[0] /\ (<<d, m>> \in hist'.lost <=> <<d, m>> \in hist.lost)
          BY <3>0, <4>2, <4>3
        <5>2. Valid(b)
          BY <1>1, <4>3 DEF Valid, Stays
        <5>3. <<d, m>> \notin hist.lost => bd[b].val[0] = hist.latest[d][m]
          BY <3>0, <4>1, <5>2 DEF Faithful, Data
        <5>. QED BY <5>1, <5>3 DEF Firm
      <4>4. CASE ~Stays(bd, ok, b)
        <5>1. Doomed(b) => <<d, m>> \in hist.lost
          BY <3>0, <4>1 DEF Faithful
        <5>2. \/ <<d, m>> \in hist'.lost
              \/ Doomed(b) /\ (<<d, m>> \in hist.lost => <<d, m>> \in hist'.lost)
          BY <3>0, <4>2, <4>4
        <5>. QED BY <5>1, <5>2 DEF Firm
      <4>. QED BY <4>3, <4>4
    <3>. QED BY <3>1, <3>2
  <2>. QED BY <2>1 DEF AllFirm
<1>10. Handed
  BY <1>2, <1>4, NoneHanded
<1>. QED BY <1>7, <1>8, <1>9, <1>10 DEF Conserves, CohInv, Sound

\* One request of rtems_bdbuf_swapout_write.
LEMMA WriteRequestCoh ==
  ASSUME Inv, Inv', CohInv, NEW s \in Seq(Bds), IsInjective(s), NEW h, h \notin Tasks, h # "ahead",
         \A b \in ToSet(s) : h \in Drivers(b), WriteRequest(s), ahead' = ahead
  PROVE  Conserves
<1> DEFINE q == Request(s)
           X == ToSet(q)
           R == In({"FREE", "CACHED"})
           l == hist.lost \cup UNION {{<<bd[b].dd, m>> : m \in Covers(b)} : b \in X}
<1>0. bd \in BdFun /\ group \in GroupFun /\ ListsInv /\ HistRec(hist)
  BY DEF Inv, TypeOK, HistRec
<1>1. IsList(Bds, q, X) /\ X \subseteq ToSet(s)
  BY RequestFacts
<1>2. \/ TransferDone(None, bd, q, TRUE, task) /\ disk' = Stored(X) /\ hist' = hist
      \/ /\ TransferDone(None, bd, q, FALSE, task)
         /\ \E done \in SUBSET X : disk' = Stored(done)
         /\ hist' = [hist EXCEPT !.lost = l]
  BY DEF WriteRequest
<1>3. IsList(Bds, lru, R)
  BY <1>0 DEF ListsInv
<1>4. ~hist.resized => \A d \in Devs, m \in 0 .. MediaBlocks - 1 :
        <<d, m>> \in l <=> <<d, m>> \in hist.lost \/ \E b \in X : Keyed(b, d, m)
  <2>1. X \subseteq Bds
    BY <1>1, ListOps
  <2> DEFINE u == UNION {{<<bd[b].dd, m>> : m \in Covers(b)} : b \in X}
  <2>2. ~hist.resized => \A d \in Devs, m \in 0 .. MediaBlocks - 1 : <<d, m>> \in u <=> \E b \in X : Keyed(b, d, m)
    <3> HIDE DEF X
    <3>. QED BY <2>1, LostAt
  <2>3. l = hist.lost \cup u
    OBVIOUS
  <2> HIDE DEF u, l, X
  <2>. QED BY <2>2, <2>3
<1> HIDE DEF q, X, R, l
<1>5. X \subseteq Bds
  BY <1>1, ListOps
<1>6. \A b \in X : h \in Drivers(b) /\ bd[b].state \in AtDriver /\ b \notin R
  BY <1>1, <1>5, DrivenFacts DEF R
<1>7. CASE TransferDone(None, bd, q, TRUE, task) /\ disk' = Stored(X) /\ hist' = hist
  <2> DEFINE ok == TRUE
  <2>1. \A b \in X : ~Stays(bd, ok, b) => Doomed(b)
    BY <1>6 DEF Stays, Doomed, AtDriver
  <2>2. TransferDone(None, bd, q, ok, task)
    BY <1>7
  <2> HIDE DEF ok
  <2>3. X \cap R = {}
    BY <1>6
  <2>4. Done(None, bd, X, R, ok, task)
    BY <1>0, <1>1, <1>3, <2>2, <2>3, TransferDoneFacts
  <2>5. ASSUME ~hist.resized, NEW d \in Devs, NEW m \in 0 .. MediaBlocks - 1
        PROVE  /\ (\A b \in X : ~Keyed(b, d, m)) => disk'[d][m] = disk[d][m]
               /\ \A b \in X : OneKeyed(X, b, d, m) => disk'[d][m] = bd[b].val[0]
    BY <1>5, <1>7, <2>5, StoredAt
  <2>. QED BY <1>5, <1>6, <1>7, <2>1, <2>4, <2>5, WriteEndCoh
<1>8. CASE /\ TransferDone(None, bd, q, FALSE, task)
           /\ \E done \in SUBSET X : disk' = Stored(done)
           /\ hist' = [hist EXCEPT !.lost = l]
  <2> DEFINE ok == FALSE
  <2>1. \A b \in X : ~Stays(bd, ok, b)
    BY DEF Stays
  <2>2. TransferDone(None, bd, q, ok, task)
    BY <1>8
  <2> HIDE DEF ok
  <2>3. X \cap R = {}
    BY <1>6
  <2>4. Done(None, bd, X, R, ok, task)
    BY <1>0, <1>1, <1>3, <2>2, <2>3, TransferDoneFacts
  <2>5. /\ hist'.lost = l /\ hist'.latest = hist.latest /\ hist'.orphan = hist.orphan
        /\ hist'.resized = hist.resized
    BY <1>0, <1>8, Zenon DEF HistRec
  <2>6. PICK done \in SUBSET X : disk' = Stored(done)
    BY <1>8
  <2>7. ASSUME ~hist.resized, NEW d \in Devs, NEW m \in 0 .. MediaBlocks - 1
        PROVE  /\ (\A b \in X : ~Keyed(b, d, m)) =>
                     /\ disk'[d][m] = disk[d][m]
                     /\ <<d, m>> \in hist'.lost <=> <<d, m>> \in hist.lost
               /\ \A b \in X : OneKeyed(X, b, d, m) => <<d, m>> \in hist'.lost
    <3>1. (\A b \in done : ~Keyed(b, d, m)) => disk'[d][m] = disk[d][m]
      BY <1>5, <2>6, <2>7, StoredAt
    <3>2. <<d, m>> \in hist'.lost <=> <<d, m>> \in hist.lost \/ \E b \in X : Keyed(b, d, m)
      BY <1>4, <2>5, <2>7
    <3>. QED BY <2>6, <3>1, <3>2 DEF OneKeyed
  <2>. QED BY <1>5, <1>6, <2>1, <2>4, <2>5, <2>7, WriteEndCoh
<1>. QED BY <1>2, <1>7, <1>8

\* The swapout task writes one request.
LEMMA SwapoutWriteCoh ==
  ASSUME Inv, Inv', CohInv, SwapoutWrite
  PROVE  Conserves
<1> DEFINE s == swap.bds
           h == "swapout"
<1>1. s \in Seq(Bds) /\ IsInjective(s)
  BY DEF Inv, TypeOK, RequestsInv
<1>2. WriteRequest(s) /\ ahead' = ahead
  BY DEF SwapoutWrite
<1>3. /\ \A b \in ToSet(s) : h \in Drivers(b)
      /\ h \notin Tasks /\ h # "ahead"
  BY BdbufAssumption DEF Drivers
<1> HIDE DEF s, h
<1>. QED BY <1>1, <1>2, <1>3, WriteRequestCoh

\* The same for a swapout worker.
LEMMA WorkerWriteCoh ==
  ASSUME Inv, Inv', CohInv, NEW w \in Workers, WorkerWrite(w)
  PROVE  Conserves
<1> DEFINE s == worker[w].bds
<1>0. worker \in [Workers -> [pc : {"idle", "write", "back"}, bds : Seq(Bds)]]
  BY DEF Inv, TypeOK
<1>1. s \in Seq(Bds) /\ IsInjective(s)
  BY <1>0 DEF Inv, TypeOK, RequestsInv
<1>2. WriteRequest(s) /\ ahead' = ahead
  BY DEF WorkerWrite
<1>3. /\ \A b \in ToSet(s) : w \in Drivers(b)
      /\ w \notin Tasks /\ w # "ahead"
  BY BdbufAssumption DEF Drivers
<1> HIDE DEF s
<1>. QED BY <1>1, <1>2, <1>3, WriteRequestCoh

\* What swapout_processing takes to write keeps its contents.
LEMMA SwapoutProcessingCoh ==
  ASSUME Inv, Inv', CohInv, SwapoutProcessing
  PROVE  Conserves
<1>1. PICK T \in SUBSET Bds :
            /\ \A b \in T : bd[b].state \in {"SYNC", "MODIFIED"}
            /\ \A b \in Bds : /\ bd'[b].state = IF b \in T THEN "TRANSFER" ELSE bd[b].state
                              /\ bd'[b].dd = bd[b].dd /\ bd'[b].block = bd[b].block /\ bd'[b].val = bd[b].val
  BY SwapoutTakes
<1>2. UNCHANGED <<tree, task, hist, disk, ahead>>
  BY DEF SwapoutProcessing
<1>3. \A b : (Filled(b)' <=> Filled(b)) /\ (Reading(b)' <=> Reading(b))
  BY <1>2 DEF Filled, Reading
<1>4. ASSUME NEW b \in Bds, b \notin T PROVE Calm(b)
  <2>1. Alike(b)
    BY <1>1, <1>2, <1>3, <1>4 DEF Alike
  <2>. QED BY <2>1, AlikeCalm
<1>5. ASSUME NEW b \in T PROVE Calm(b)
  <2>0. b \in Bds /\ bd[b].state \in {"SYNC", "MODIFIED"}
    BY <1>1, <1>5
  <2>1. /\ bd'[b].state = "TRANSFER" /\ bd'[b].dd = bd[b].dd /\ bd'[b].block = bd[b].block
        /\ bd'[b].val = bd[b].val
    BY <1>1, <1>5, <2>0
  <2>2. ~Reading(b)
    <3>1. bd[b].state \notin Access \cup AtDriver
      BY <2>0 DEF Access, AtDriver
    <3>2. Drivers(b) = {}
      BY <2>0, <3>1 DEF Inv, BufferInv
    <3>. QED BY <3>2, MarksFacts
  <2>3. Valid(b) /\ Valid(b)' /\ ~Clean(b)' /\ ~Doomed(b)'
    BY <1>3, <2>0, <2>1, <2>2 DEF Valid, Clean, Doomed
  <2>4. b \in tree' => SameKey(b)
    BY <1>2, <2>1 DEF SameKey
  <2>5. b \in tree => b \in tree'
    BY <1>2
  <2>. QED BY <2>1, <2>3, <2>4, <2>5 DEF Calm
<1>6. Plain
  BY <1>2 DEF Plain
<1>7. Handed
  <2>1. Stand(None) /\ \A b \in Bds : bd'[b].dd = bd[b].dd /\ bd'[b].block = bd[b].block
    BY <1>1, <1>2 DEF Stand
  <2>. QED BY <2>1, NoneHanded, BdbufAssumption
<1>. QED BY <1>4, <1>5, <1>6, <1>7, CalmAll DEF Conserves

\* What a purge leaves of the buffers: those of the device have no contents that count.
LEMMA PurgeDevParts ==
  ASSUME Inv, NEW t, NEW d \in Devs, NEW s \in PurgeOrders(d), NEW tk, PurgeDev(t, d, s, tk)
  PROVE  /\ \A b \in Bds : /\ bd'[b].dd = bd[b].dd /\ bd'[b].block = bd[b].block /\ bd'[b].val = bd[b].val
                           /\ bd[b].dd # d => bd'[b].state = bd[b].state /\ (b \in tree' <=> b \in tree)
                           /\ bd[b].dd = d /\ b \in tree
                                => bd'[b].state \in {"FREE", "EMPTY", "ACCESS_PURGED", "TRANSFER_PURGED"}
         /\ tree' \subseteq tree /\ disk' = disk /\ ahead'.req = ahead.req
         /\ \E cvs : task' = Woken(cvs, tk)
<1> DEFINE mine(st) == {b \in tree : bd[b].dd = d /\ bd[b].state \in st}
<1>0. bd \in BdFun /\ group \in GroupFun /\ tree \subseteq Bds /\ AheadRec(ahead)
  BY DEF Inv, TypeOK, AheadRec
<1>1. PICK S, U, R : /\ S = mine({"SYNC", "MODIFIED", "CACHED"})
                     /\ U = mine({"ACCESS_CACHED", "ACCESS_EMPTY", "ACCESS_MODIFIED"})
                     /\ R = mine({"TRANSFER"})
  OBVIOUS
<1>2. /\ \A b : b \in S <=> b \in tree /\ bd[b].dd = d /\ bd[b].state \in {"SYNC", "MODIFIED", "CACHED"}
      /\ \A b : b \in U <=> b \in tree /\ bd[b].dd = d
                            /\ bd[b].state \in {"ACCESS_CACHED", "ACCESS_EMPTY", "ACCESS_MODIFIED"}
      /\ \A b : b \in R <=> b \in tree /\ bd[b].dd = d /\ bd[b].state = "TRANSFER"
  BY <1>1
<1>3. IsFiniteSet(Bds) /\ S \in SUBSET Bds
  BY <1>0, <1>2, GroupFacts
<1>4. IsFiniteSet(S)
  BY <1>3, FS_Subset
<1>5. ToSet(s) = S
  <2>1. s \in SetToSeqs(S)
    BY <1>1 DEF PurgeOrders
  <2>2. IsList(Bds, s, S)
    BY <1>3, <1>4, <2>1, SetToSeqsFacts
  <2>. QED BY <2>2 DEF IsList
<1>6. S \cap U = {} /\ S \cap R = {} /\ U \cap R = {}
  BY <1>2
<1>7. PICK W : W = Unwaited(t, S)
  OBVIOUS
<1>8. /\ bd' = PurgedBd(t, bd, S, U, R)
      /\ tree' = tree \ W /\ disk' = disk /\ ahead' = Cancelled(ahead, d)
      /\ \E cvs : task' = Woken(cvs, tk)
  <2> DEFINE m == {b \in tree : bd[b].dd = d}
  <2>1. /\ {b \in m : bd[b].state \in {"ACCESS_CACHED", "ACCESS_EMPTY", "ACCESS_MODIFIED"}} = U
        /\ {b \in m : bd[b].state \in {"TRANSFER"}} = R
    BY <1>2
  <2>2. \E cvs : task' = Woken(cvs, tk)
    BY DEF PurgeDev
  <2>. QED BY <1>5, <1>7, <2>1, <2>2 DEF PurgeDev, PurgedBd
<1> HIDE DEF mine
<1>9. PICK e : e = PurgedBd(t, bd, S, U, R)
  OBVIOUS
<1>10. \A b \in Bds : /\ e[b].dd = bd[b].dd /\ e[b].block = bd[b].block /\ e[b].val = bd[b].val
                      /\ b \in S \/ b \in U \/ b \in R \/ e[b].state = bd[b].state
                      /\ b \notin S \/ ~Waited(t, b) \/ e[b].state = "EMPTY"
                      /\ b \notin S \/ Waited(t, b) \/ e[b].state = "FREE"
                      /\ b \notin U \/ e[b].state = "ACCESS_PURGED"
                      /\ b \notin R \/ e[b].state = "TRANSFER_PURGED"
  BY <1>0, <1>6, <1>9, PurgedFacts
<1>11. bd' = e
  BY <1>8, <1>9
<1>12. \A b : b \in W => b \in S
  BY <1>7, UnwaitedFacts
<1>13. ASSUME NEW b \in Bds
       PROVE  /\ bd[b].dd # d => bd'[b].state = bd[b].state /\ (b \in tree' <=> b \in tree)
              /\ bd[b].dd = d /\ b \in tree
                   => bd'[b].state \in {"FREE", "EMPTY", "ACCESS_PURGED", "TRANSFER_PURGED"}
  <2>1. bd[b].dd # d => b \notin S /\ b \notin U /\ b \notin R
    BY <1>2
  <2>2. bd[b].dd # d => bd'[b].state = bd[b].state /\ (b \in tree' <=> b \in tree)
    BY <1>8, <1>10, <1>11, <1>12, <2>1
  <2>3. ASSUME bd[b].dd = d, b \in tree
        PROVE  bd'[b].state \in {"FREE", "EMPTY", "ACCESS_PURGED", "TRANSFER_PURGED"}
    <3>1. bd[b].state \in States
      BY <1>0 DEF BdFun, BdRec
    <3>2. \/ bd[b].state \in {"FREE", "EMPTY", "ACCESS_PURGED", "TRANSFER_PURGED"}
          \/ b \in S \/ b \in U \/ b \in R
      BY <1>2, <2>3, <3>1 DEF States, Access, Transferring
    <3>. QED BY <1>10, <1>11, <3>2
  <2>. QED BY <2>2, <2>3
<1>14. ahead'.req = ahead.req
  BY <1>0, <1>8, CancelledFacts DEF SameAhead
<1>. QED BY <1>8, <1>10, <1>11, <1>13, <1>14

\* rtems_bdbuf_purge_dev gives up the blocks of the device and of no other.
LEMMA PurgeCoh ==
  ASSUME Inv, Inv', CohInv, NEW t \in Tasks, NEW d \in Devs, Purge(t, d)
  PROVE  Conserves
<1>0. task \in TaskFun /\ HistRec(hist) /\ tree \subseteq Bds
  BY DEF Inv, TypeOK, HistRec
<1>1. PICK s \in PurgeOrders(d) : PurgeDev(t, d, s, task)
  BY DEF Purge
<1>2. hist' = [hist EXCEPT !.lost = @ \cup GivenUp(d)]
  BY DEF Purge
<1>3. /\ hist'.lost = hist.lost \cup GivenUp(d) /\ hist'.latest = hist.latest
      /\ hist'.orphan = hist.orphan /\ hist'.resized = hist.resized
  BY <1>0, <1>2, Zenon DEF HistRec
<1>4. /\ \A b \in Bds : /\ bd'[b].dd = bd[b].dd /\ bd'[b].block = bd[b].block /\ bd'[b].val = bd[b].val
                        /\ bd[b].dd # d => bd'[b].state = bd[b].state /\ (b \in tree' <=> b \in tree)
                        /\ bd[b].dd = d /\ b \in tree
                             => bd'[b].state \in {"FREE", "EMPTY", "ACCESS_PURGED", "TRANSFER_PURGED"}
      /\ tree' \subseteq tree /\ disk' = disk /\ ahead'.req = ahead.req
      /\ \E cvs : task' = Woken(cvs, task)
  BY <1>1, PurgeDevParts
<1>5. Stand(None) /\ None \notin Tasks
  BY <1>0, <1>4, WokenStand, BdbufAssumption
<1>6. \A b \in Bds : (Filled(b)' <=> Filled(b)) /\ (Reading(b)' <=> Reading(b))
  BY <1>4, <1>5, MarksKept
<1>7. ASSUME NEW b \in Bds, bd[b].dd # d PROVE Calm(b)
  <2>1. Alike(b)
    BY <1>4, <1>6, <1>7 DEF Alike
  <2>. QED BY <2>1, AlikeCalm
<1>8. ASSUME ~hist'.orphan, ~hist'.resized, NEW e \in Devs, NEW m \in 0 .. MediaBlocks - 1
      PROVE  Faithful(e, m)'
  <2>0. Faithful(e, m)
    BY <1>3, <1>8 DEF CohInv, Sound
  <2>1. CASE e = d
    <3>1. <<e, m>> \in hist'.lost
      BY <1>3, <2>1 DEF GivenUp
    <3>2. \A b \in InTree(e, m)' : ~Clean(b)'
      <4>. SUFFICES ASSUME NEW b \in InTree(e, m)' PROVE ~Clean(b)'
        OBVIOUS
      <4>1. b \in tree' /\ bd'[b].dd = e
        BY DEF InTree
      <4>2. b \in tree /\ b \in Bds /\ bd[b].dd = d
        BY <1>0, <1>4, <2>1, <4>1
      <4>3. bd'[b].state \in {"FREE", "EMPTY", "ACCESS_PURGED", "TRANSFER_PURGED"}
        BY <1>4, <4>2
      <4>. QED BY <4>3 DEF Clean
    <3>. QED BY <3>1, <3>2 DEF Faithful
  <2>2. CASE e # d
    <3>1. <<e, m>> \in hist'.lost <=> <<e, m>> \in hist.lost
      <4>1. <<e, m>> \notin GivenUp(d)
        BY <2>2 DEF GivenUp
      <4>. QED BY <1>3, <4>1
    <3>2. \A b \in Bds : b \in InTree(e, m) \/ b \in InTree(e, m)' => Calm(b)
      <4>1. \A b \in Bds : b \in InTree(e, m) => bd[b].dd = e
        BY DEF InTree
      <4>2. \A b \in Bds : b \in InTree(e, m)' => bd'[b].dd = e
        BY DEF InTree
      <4>. QED BY <1>4, <1>7, <2>2, <4>1, <4>2
    <3>. QED BY <1>3, <1>4, <2>0, <3>1, <3>2, CalmStep
  <2>. QED BY <2>1, <2>2
<1>9. hist'.latest \in DiskFun
  BY <1>3 DEF CohInv
<1>10. AllFirm
  BY <1>3, <1>4 DEF AllFirm, Firm
<1>11. Handed
  BY <1>4, <1>5, NoneHanded
<1>. QED BY <1>8, <1>9, <1>10, <1>11 DEF Conserves, CohInv, Sound

\* A change of the block size ends the account.
LEMMA SetBlockSizeCoh ==
  ASSUME Inv, CohInv, NEW t \in Tasks, NEW n, SetBlockSize(t, n)
  PROVE  Conserves
<1>0. HistRec(hist)
  BY DEF Inv, TypeOK, HistRec
<1>1. PICK o : hist' = [hist EXCEPT !.resized = TRUE, !.stale = o]
  BY DEF SetBlockSize
<1>2. hist'.resized /\ hist'.latest = hist.latest
  BY <1>0, <1>1, Zenon DEF HistRec
<1>. QED BY <1>2, VoidCoh

\* A buffer that is to be read ahead has no contents yet.
LEMMA PrefetchCoh ==
  ASSUME Inv, Inv', CohInv, NEW d \in Devs, NEW m \in Int, NEW rest, AheadRec(rest), rest.req = ahead.req,
         CanPrefetch(d, m), Prefetch(d, m, rest), UNCHANGED <<hist, disk>>
  PROVE  Conserves
<1>0. bd \in BdFun /\ task \in TaskFun /\ "TRANSFER" \in States /\ None \notin Tasks /\ ahead.req \in Seq(Bds)
  BY BdbufAssumption DEF Inv, TypeOK, States, Transferring
<1>1. \A y : None \notin Waiting(y)
  BY <1>0 DEF Waiting
<1>2. PICK x, O : x = FromLru(None, d) /\ Taken(x, d, O)
  BY <1>1, FromLruFacts DEF CanPrefetch
<1> DEFINE b == x.b
           f == SetupEmpty(x, d, m, "TRANSFER")
           s == Append(ahead.req, b)
<1>3. \/ Fatal
      \/ /\ tree' = x.tree \cup {b} /\ bd' = f
         /\ \E cvs : task' = Woken(cvs, task)
         /\ ahead' = [rest EXCEPT !.req = s]
  BY <1>2 DEF Prefetch
<1>4. CASE Fatal
  BY <1>4, FatalCoh
<1>5. CASE /\ tree' = x.tree \cup {b} /\ bd' = f
           /\ \E cvs : task' = Woken(cvs, task)
           /\ ahead' = [rest EXCEPT !.req = s]
  <2>1. b \in Bds
    BY <1>2 DEF Taken, Still
  <2>2. /\ f[b].state = "TRANSFER"
        /\ \A y \in Bds \ {b} :
                /\ f[y].state = IF y \in x.fresh THEN "FREE" ELSE bd[y].state
                /\ f[y].dd = bd[y].dd /\ f[y].block = bd[y].block /\ f[y].val = bd[y].val
    BY <1>0, <2>1, SetupEmptyFacts
  <2>3. ToSet(s) = ToSet(ahead.req) \cup {b}
    <3> HIDE DEF b
    <3>. QED BY <1>0, <2>1, AppendNode
  <2> HIDE DEF f, s
  <2>4. ahead'.req = s
    BY <1>5, Zenon DEF AheadRec
  <2>5. Stand(None)
    BY <1>0, <1>5, WokenStand
  <2>6. ASSUME NEW y \in Bds \ {b} PROVE (Filled(y)' <=> Filled(y)) /\ (Reading(y)' <=> Reading(y))
    <3>1. y \in ToSet(ahead'.req) <=> y \in ToSet(ahead.req)
      BY <2>3, <2>4, <2>6
    <3>. QED BY <1>0, <2>5, <3>1, MarksKept
  <2>7. ~Valid(b)' /\ ~Doomed(b)'
    <3>1. b \in ToSet(ahead'.req) /\ bd'[b].state = "TRANSFER"
      BY <1>5, <2>2, <2>3, <2>4
    <3>2. Reading(b)'
      BY <3>1 DEF Reading
    <3>. QED BY <3>1, <3>2 DEF Valid, Doomed
  <2>8. Emptied(x)
    <3>1. \A y \in Bds \ {b} : /\ y \notin x.fresh => bd'[y].state = bd[y].state
                               /\ bd'[y].dd = bd[y].dd /\ bd'[y].block = bd[y].block /\ bd'[y].val = bd[y].val
      BY <1>5, <2>2
    <3>. QED BY <1>5, <2>6, <2>7, <3>1 DEF Emptied
  <2>9. \A y \in Bds : Calm(y)
    BY <1>2, <2>8, TakenCalm
  <2>10. Plain
    BY DEF Plain
  <2>11. Handed
    <3>1. \A y \in Bds : bd[y].state \in Access \cup AtDriver => y # b
      BY <1>2 DEF Taken, Still, Access, AtDriver
    <3>2. \A y \in Bds \ {b} : bd'[y].dd = bd[y].dd /\ bd'[y].block = bd[y].block
      BY <1>5, <2>2
    <3> HIDE DEF b
    <3>3. \A y \in Bds : bd[y].state \in Access \cup AtDriver => bd'[y].dd = bd[y].dd /\ bd'[y].block = bd[y].block
      BY <3>1, <3>2
    <3>. QED BY <1>0, <2>5, <3>3 DEF Handed, Stand
  <2>. QED BY <2>9, <2>10, <2>11, CalmAll DEF Conserves
<1>. QED BY <1>3, <1>4, <1>5

\* Neither the buffers nor the tasks change.
LEMMA UnnoticedCoh ==
  ASSUME Inv, Inv', CohInv, UNCHANGED <<bd, tree, task, disk, hist>>, ahead'.req = ahead.req
  PROVE  Conserves
<1>1. Plain /\ Stand(None)
  BY DEF Plain, Stand
<1>. QED BY <1>1, SameCoh, BdbufAssumption

\* The read-ahead task takes the next device of its chain.
LEMMA ReadAheadNextCoh ==
  ASSUME Inv, Inv', CohInv, ReadAheadNext
  PROVE  Conserves
<1> DEFINE d == Head(ahead.chain)
           k == dev[d].next
           m == k * Span(d)
           c == Tail(ahead.chain)
           off == [ahead EXCEPT !.chain = c]
<1>0. AheadRec(ahead) /\ dev \in DevFun /\ ahead.chain \in Seq(Devs)
  BY DEF Inv, TypeOK, AheadRec
<1>1. /\ ahead.chain # <<>> /\ UNCHANGED <<disk, hist>>
      /\ \/ ahead' = off /\ UNCHANGED <<bd, lists, group, task>>
         \/ CanPrefetch(d, m) /\ \E n : Prefetch(d, m, [off EXCEPT !.pc = "gather", !.dd = d, !.count = n])
  BY DEF ReadAheadNext
<1>2. d \in Devs /\ c \in Seq(Devs)
  BY <1>0, <1>1, HeadTailProperties
<1>3. m \in Int
  <2>1. k \in Int /\ Span(d) \in Int
    BY <1>0, <1>2, SpanFacts DEF DevFun
  <2>. QED BY <2>1
<1> HIDE DEF c
<1>4. AheadRec(off) /\ off.req = ahead.req
  BY <1>0, <1>2, Zenon DEF AheadRec
<1> HIDE DEF off
<1>5. CASE ahead' = off /\ UNCHANGED <<bd, lists, group, task>>
  BY <1>1, <1>4, <1>5, UnnoticedCoh DEF lists
<1>6. ASSUME CanPrefetch(d, m), NEW n, Prefetch(d, m, [off EXCEPT !.pc = "gather", !.dd = d, !.count = n])
      PROVE  Conserves
  <2> DEFINE rest == [off EXCEPT !.pc = "gather", !.dd = d, !.count = n]
  <2>1. Prefetch(d, m, rest)
    BY <1>6
  <2> HIDE DEF d, m
  <2>2. AheadRec(rest) /\ rest.req = ahead.req
    BY <1>2, <1>4, Zenon DEF AheadRec
  <2> HIDE DEF rest
  <2>. QED BY <1>1, <1>2, <1>3, <1>6, <2>1, <2>2, PrefetchCoh
<1>. QED BY <1>1, <1>5, <1>6

\* It adds a buffer to its request, or hands the request to the driver.
LEMMA ReadAheadGatherCoh ==
  ASSUME Inv, Inv', CohInv, ReadAheadGather
  PROVE  Conserves
<1> DEFINE d == ahead.dd
           s == ahead.req
           m == bd[s[Len(s)]].block + Span(d)
<1>0. RequestsInv /\ dev \in DevFun /\ bd \in BdFun /\ s \in Seq(Bds) /\ AheadRec(ahead)
  BY DEF Inv, TypeOK, AheadRec
<1>1. /\ ahead.pc = "gather" /\ UNCHANGED <<disk, hist>>
      /\ \/ CanPrefetch(d, m) /\ Prefetch(d, m, ahead)
         \/ ahead' = [ahead EXCEPT !.pc = "reading"] /\ UNCHANGED <<bd, lists, group, task>>
  BY DEF ReadAheadGather
<1>2. d \in Devs /\ s # <<>>
  BY <1>0, <1>1 DEF RequestsInv
<1>3. m \in Int
  <2>1. Len(s) \in 1 .. Len(s)
    <3> HIDE DEF s
    <3>1. Len(s) \in Nat /\ Len(s) # 0
      BY <1>0, <1>2, LenProperties, EmptySeq
    <3>. QED BY <3>1
  <2>2. s[Len(s)] \in Bds
    <3> HIDE DEF s
    <3>. QED BY <1>0, <2>1, ElementOfSeq
  <2>3. bd[s[Len(s)]].block \in Int
    BY <1>0, <2>2 DEF BdFun, BdRec
  <2>. QED BY <1>0, <1>2, <2>3, SpanFacts
<1> HIDE DEF m
<1>4. CASE CanPrefetch(d, m) /\ Prefetch(d, m, ahead)
  BY <1>0, <1>1, <1>2, <1>3, <1>4, PrefetchCoh
<1>5. CASE ahead' = [ahead EXCEPT !.pc = "reading"] /\ UNCHANGED <<bd, lists, group, task>>
  <2>1. ahead'.req = ahead.req
    BY <1>0, <1>5, Zenon DEF AheadRec
  <2>. QED BY <1>1, <1>5, <2>1, UnnoticedCoh DEF lists
<1>. QED BY <1>1, <1>4, <1>5

\* rtems_bdbuf_syncdev, when it starts and when it returns, changes no contents.
LEMMA SyncdevCoh ==
  ASSUME Inv, Inv', CohInv, NEW t \in Tasks,
         \/ \E op \in {"syncdev", "resize"}, d \in Devs : Syncdev(t, op, d)
         \/ SyncdevReturn(t)
  PROVE  Conserves
<1>0. task \in TaskFun /\ HistRec(hist) /\ task[t] \in TaskRec
  BY DEF Inv, TypeOK, HistRec, TaskFun
<1>1. task[t].pc \in {"idle", "syncdone"} /\ UNCHANGED <<bd, tree, ahead, disk>>
  BY DEF Syncdev, SyncdevReturn, lists
<1>2. task[t].pc \notin MarkPc
  BY <1>1 DEF MarkPc
<1>3. /\ hist'.latest = hist.latest /\ hist'.lost = hist.lost /\ hist'.orphan = hist.orphan
      /\ hist'.resized = hist.resized
  <2>1. PICK p : hist' = [hist EXCEPT !.pending = p]
    BY DEF Syncdev, SyncdevReturn
  <2>. QED BY <1>0, <2>1, Zenon DEF HistRec
<1>4. ASSUME NEW op \in {"syncdev", "resize"}, NEW d \in Devs, Syncdev(t, op, d) PROVE Conserves
  <2> DEFINE r == [task[t] EXCEPT !.pc = "syncwait", !.op = op, !.dd = d]
  <2>1. r.pc = "syncwait"
    BY <1>0 DEF TaskRec
  <2>2. task' = [task EXCEPT ![t] = r]
    BY <1>4 DEF Syncdev
  <2> HIDE DEF r
  <2>3. r.pc \notin TakePc /\ r.pc # "syncdone"
    BY <2>1 DEF TakePc, OwnPc
  <2>. QED BY <1>1, <1>2, <1>3, <2>2, <2>3, SleepCoh
<1>5. ASSUME SyncdevReturn(t) PROVE Conserves
  <2> DEFINE q == [task[t] EXCEPT !.pc = "resize"]
             r == IF task[t].op = "resize" THEN q ELSE Idle(task[t])
  <2>1. q.pc = "resize"
    BY <1>0 DEF TaskRec
  <2>2. Idle(task[t]).pc = "idle"
    BY <1>0, IdleFacts
  <2>3. task' = [task EXCEPT ![t] = r]
    BY <1>5 DEF SyncdevReturn
  <2> HIDE DEF q
  <2>4. r.pc \in {"resize", "idle"}
    BY <2>1, <2>2
  <2> HIDE DEF r
  <2>5. r.pc \notin TakePc /\ r.pc # "syncdone"
    BY <2>4 DEF TakePc, OwnPc
  <2>. QED BY <1>1, <1>2, <1>3, <2>3, <2>5, SleepCoh
<1>. QED BY <1>4, <1>5

\* rtems_bdbuf_peek only asks for a read-ahead.
LEMMA PeekCoh ==
  ASSUME Inv, Inv', CohInv, NEW t \in Tasks, NEW d \in Devs, NEW k, NEW n, Peek(t, d, k, n)
  PROVE  Conserves
<1>0. AheadRec(ahead)
  BY DEF Inv, TypeOK, AheadRec
<1>1. UNCHANGED <<bd, tree, task, disk, hist>> /\ ahead' = AddedToChain(Cancelled(ahead, d), d)
  BY DEF Peek, lists
<1>2. AheadRec(Cancelled(ahead, d)) /\ SameAhead(Cancelled(ahead, d), ahead)
  BY <1>0, CancelledFacts
<1>3. SameAhead(AddedToChain(Cancelled(ahead, d), d), Cancelled(ahead, d))
  BY <1>2, AddedToChainFacts
<1>4. ahead'.req = ahead.req
  BY <1>1, <1>2, <1>3 DEF SameAhead
<1>. QED BY <1>1, <1>4, UnnoticedCoh

\* The end of a syncdev moves its requester.
LEMMA EndSyncCoh ==
  ASSUME Inv, SyncInv, Inv', CohInv, EndSync
  PROVE  Conserves
<1>0. task \in TaskFun
  BY DEF Inv, TypeOK
<1>1. /\ UNCHANGED <<bd, tree, ahead, disk, hist>>
      /\ task' = [t \in Tasks |-> IF t = syncing.requester THEN [task[t] EXCEPT !.pc = "syncdone"]
                                                           ELSE task[t]]
  BY DEF EndSync, lists
<1>2. CASE syncing.requester \notin Tasks
  <2>1. task' = task
    BY <1>0, <1>1, <1>2 DEF TaskFun
  <2>. QED BY <1>1, <2>1, UnnoticedCoh
<1>3. CASE syncing.requester \in Tasks
  <2>1. PICK t \in Tasks : t = syncing.requester
    BY <1>3
  <2>2. task[t].pc = "syncwait" /\ task[t] \in TaskRec
    BY <1>0, <2>1 DEF SyncInv, TaskFun
  <2> DEFINE r == [task[t] EXCEPT !.pc = "syncdone"]
  <2>4. r.pc = "syncdone"
    BY <2>2 DEF TaskRec
  <2>5. task' = [task EXCEPT ![t] = r]
    <3>1. task' = [u \in Tasks |-> IF u = t THEN r ELSE task[u]]
      BY <1>1, <2>1
    <3> HIDE DEF r
    <3>. QED BY <1>0, <3>1 DEF TaskFun
  <2> HIDE DEF r
  <2>6. r.pc \notin TakePc /\ task[t].pc \notin MarkPc
    BY <2>2, <2>4 DEF MarkPc, TakePc, OwnPc
  <2>7. syncing' # syncing
    <3>1. syncing'.requester = None
      BY DEF EndSync, Inv, TypeOK
    <3>. QED BY <1>3, <3>1, BdbufAssumption
  <2>. QED BY <1>1, <2>5, <2>6, <2>7, SleepCoh
<1>. QED BY <1>2, <1>3

\* The steps of the daemons that only change where they are.
LEMMA DaemonCoh ==
  ASSUME Inv, Inv', CohInv, \/ SwapoutWake \/ ReadAheadWake \/ ReadAheadSleep
                            \/ \E w \in Workers : WorkerBack(w)
  PROVE  Conserves
<1>0. AheadRec(ahead)
  BY DEF Inv, TypeOK, AheadRec
<1>1. UNCHANGED <<bd, tree, task, disk, hist>>
  BY DEF SwapoutWake, ReadAheadWake, ReadAheadSleep, WorkerBack, lists
<1>2. \/ ahead' = ahead \/ ahead' = [ahead EXCEPT !.pc = "wait"]
      \/ \E n : ahead' = [ahead EXCEPT !.sem = n, !.pc = "run"]
  BY DEF SwapoutWake, ReadAheadWake, ReadAheadSleep, WorkerBack
<1>3. ahead'.req = ahead.req
  BY <1>0, <1>2, Zenon DEF AheadRec
<1>. QED BY <1>1, <1>3, UnnoticedCoh

\* No step moves the latest version of a block to where it cannot be found.
LEMMA NextCoh ==
  ASSUME Inv, SyncInv, CohInv, Inv', Next
  PROVE  Conserves
<1>1. ASSUME NEW t \in Tasks, NEW op \in {"get", "read"}, NEW d \in Devs, NEW k \in 0 .. MediaBlocks - 1,
             Get(t, op, d, k)
      PROVE  Conserves
  BY <1>1, GetCoh
<1>2. ASSUME NEW t \in Tasks, SearchAgain(t) \/ AccessAgain(t) \/ RecycleAgain(t) PROVE Conserves
  BY <1>2, AgainCoh
<1>3. ASSUME NEW t \in Tasks, ReadDone(t) PROVE Conserves
  BY <1>3, ReadDoneCoh
<1>4. ASSUME NEW t \in Tasks, Release(t) \/ ReleaseModified(t) \/ PassSyncLock(t) \/ AddModified(t) PROVE Conserves
  BY <1>4, ReleaseCoh
<1>5. ASSUME NEW t \in Tasks, Sync(t) PROVE Conserves
  BY <1>5, SyncCoh
<1>6. ASSUME NEW t \in Tasks, SyncAgain(t) PROVE Conserves
  BY <1>6, SyncAgainCoh
<1>7. ASSUME NEW t \in Tasks, NEW op \in {"syncdev", "resize"}, NEW d \in Devs, Syncdev(t, op, d) PROVE Conserves
  BY <1>7, SyncdevCoh
<1>8. ASSUME NEW t \in Tasks, SyncdevReturn(t) PROVE Conserves
  BY <1>8, SyncdevCoh
<1>9. ASSUME NEW t \in Tasks, NEW d \in Devs, Purge(t, d) PROVE Conserves
  BY <1>9, PurgeCoh
<1>10. ASSUME NEW t \in Tasks, NEW n \in 1 .. MaxBdsPerGroup, SetBlockSize(t, n) PROVE Conserves
  BY <1>10, SetBlockSizeCoh
<1>11. ASSUME NEW t \in Tasks, NEW d \in Devs, NEW k \in 0 .. MediaBlocks - 1, NEW n \in 1 .. MaxReadAhead,
              Peek(t, d, k, n)
       PROVE  Conserves
  BY <1>11, PeekCoh
<1>12. ASSUME \/ SwapoutProcessing \/ EndSync \/ SwapoutWake \/ SwapoutWrite
              \/ \E w \in Workers : WorkerWrite(w) \/ WorkerBack(w)
       PROVE  Conserves
  BY <1>12, SwapoutProcessingCoh, EndSyncCoh, DaemonCoh, SwapoutWriteCoh, WorkerWriteCoh
<1>13. ASSUME ReadAheadWake \/ ReadAheadSleep \/ ReadAheadNext \/ ReadAheadGather \/ ReadAheadDone
       PROVE  Conserves
  BY <1>13, DaemonCoh, ReadAheadNextCoh, ReadAheadGatherCoh, ReadAheadDoneCoh
<1>. QED BY <1>1, <1>2, <1>3, <1>4, <1>5, <1>6, <1>7, <1>8, <1>9, <1>10, <1>11, <1>12, <1>13 DEF Next

\* At first the disk has the latest version of every block.
LEMMA InitCoh ==
  ASSUME Init
  PROVE  CohInv
<1>1. /\ disk = [d \in Devs |-> [m \in 0 .. MediaBlocks - 1 |-> 0]]
      /\ hist = [latest |-> disk, lost |-> {}, version |-> 0, orphan |-> FALSE, resized |-> FALSE,
                 pending |-> {}, stale |-> {}]
      /\ tree = {}
  BY DEF Init
<1>2. hist.latest = disk
  BY <1>1
<1>3. disk \in DiskFun
  BY <1>1 DEF DiskFun
<1>4. \A d, m : InTree(d, m) = {}
  BY <1>1 DEF InTree
<1>. QED BY <1>2, <1>3, <1>4 DEF CohInv, Faithful

\* A cache whose blocks are where CohInv has them is transparent.
LEMMA CohInvSuffices ==
  ASSUME Inv, CohInv
  PROVE  Coherent
<1>. SUFFICES ASSUME Sound, ~hist.resized, NEW d \in Devs, NEW m \in 0 .. MediaBlocks - 1
             PROVE  LET has == {b \in tree : bd[b].dd = d /\ m \in Covers(b) /\ Valid(b)}
                        here(b) == bd[b].val[m - bd[b].block] IN
                    /\ <<d, m>> \notin hist.lost =>
                          IF has = {} THEN disk[d][m] = hist.latest[d][m]
                                      ELSE \A b \in has : here(b) = hist.latest[d][m]
                    /\ \A b \in has : bd[b].state = "CACHED" => here(b) = disk[d][m]
  BY DEF Coherent
<1> DEFINE has == {b \in tree : bd[b].dd = d /\ m \in Covers(b) /\ Valid(b)}
           here(b) == bd[b].val[m - bd[b].block]
<1>0. tree \subseteq Bds /\ Faithful(d, m)
  BY DEF Inv, TypeOK, CohInv
<1>1. \A b : b \in has <=> b \in InTree(d, m) /\ Valid(b)
  <2>1. \A b \in tree : m \in Covers(b) <=> m = bd[b].block
    BY <1>0, CoversOne
  <2>. QED BY <2>1 DEF InTree
<1>2. \A b \in has : here(b) = Data(b)
  <2>1. \A b \in has : bd[b].block = m
    BY <1>1 DEF InTree
  <2>2. m - m = 0
    OBVIOUS
  <2>. QED BY <2>1, <2>2 DEF Data
<1>3. \A b \in has : <<d, m>> \notin hist.lost => Data(b) = hist.latest[d][m]
  BY <1>0, <1>1 DEF Faithful
<1>4. \A b \in has : bd[b].state = "CACHED" => Data(b) = disk[d][m]
  BY <1>0, <1>1 DEF Faithful, Clean
<1>5. <<d, m>> \notin hist.lost /\ has = {} => disk[d][m] = hist.latest[d][m]
  <2>1. has = {} => \A b \in InTree(d, m) : ~Valid(b)
    BY <1>1
  <2>. QED BY <1>0, <2>1 DEF Faithful
<1> HIDE DEF has, here
<1>6. /\ <<d, m>> \notin hist.lost =>
            IF has = {} THEN disk[d][m] = hist.latest[d][m]
                        ELSE \A b \in has : here(b) = hist.latest[d][m]
      /\ \A b \in has : bd[b].state = "CACHED" => here(b) = disk[d][m]
  BY <1>2, <1>3, <1>4, <1>5
<1>. QED BY <1>6 DEF has, here

\* The block buffer cache is transparent (bdbuf.c: rtems_bdbuf_get, read, release,
\* release_modified, sync, the swapout task and its workers, read-ahead): as long
\* as no buffer was orphaned and no block size changed, a block that no failed
\* write and no purge gave up holds the version that was released last, in its
\* buffer if that has contents and on the disk if not, and a cached buffer equals
\* the disk, for every number of tasks, workers, groups and blocks.
THEOREM CacheTransparent == Spec => []Coherent
<1>1. Init => CohInv
  BY InitCoh
<1>2. IInv /\ IInv' /\ CohInv /\ [Next]_vars => CohInv'
  <2>. SUFFICES ASSUME IInv, IInv', CohInv, [Next]_vars PROVE CohInv'
    OBVIOUS
  <2>0. Inv /\ SyncInv /\ Inv'
    BY DEF IInv
  <2>1. CASE Next
    BY <2>0, <2>1, NextCoh DEF Conserves
  <2>2. CASE UNCHANGED vars
    <3>1. UNCHANGED <<bd, tree, task, disk, hist, ahead>>
      BY <2>2 DEF vars, lists
    <3>. QED BY <2>0, <3>1, UnnoticedCoh DEF Conserves
  <2>. QED BY <2>1, <2>2
<1>3. IInv /\ CohInv => Coherent
  BY CohInvSuffices DEF IInv
<1>. QED BY <1>1, <1>2, <1>3, CacheInvariant, PTL DEF Spec

\* The swapout task is still to write what device d has on its lists for a syncdev.
SyncStage(d) == syncing.active /\ syncing.device = d /\ swap.pc # "endsync"
OnDisk(p) == <<p.dd, p.m>> \in hist.lost \/ disk[p.dd][p.m] >= p.v
\* No task and no worker has the buffer of block p.m.
Untaken(p) == \A t \in Tasks : task[t].pc \in TakePc => ~Keyed(task[t].bd, p.dd, p.m)
Unshared(p) == \A w \in Workers : \A b \in ToSet(worker[w].bds) : ~Keyed(b, p.dd, p.m)
\* A block that was modified when syncdev was called: it is on the disk once the swapout task has
\* found nothing more to write for the device; until then neither a task nor a worker has its buffer.
Promised(p) ==
    /\ p.v <= hist.latest[p.dd][p.m] /\ Untaken(p)
    /\ IF SyncStage(p.dd) THEN Unshared(p) ELSE OnDisk(p)
PendInv ==
    /\ \A p \in hist.pending : p.dd \in Devs /\ p.m \in 0 .. MediaBlocks - 1 /\ p.v \in Int
    /\ Sound /\ ~hist.resized => \A p \in hist.pending : Promised(p)
\* Who has the sync lock.
LockInv ==
    Sound /\ ~hist.resized =>
    /\ swap.pc = "endsync" => syncing.active
    /\ syncing.active => syncing.requester \in Tasks /\ syncing.lock = syncing.requester
    /\ \A t \in Tasks : task[t].pc = "syncdone" => syncing.lock = t /\ ~syncing.active

\* The blocks that are pending for a syncdev are no more, and what ended the account is not undone.
Mild ==
    /\ hist'.pending \subseteq hist.pending
    /\ hist.orphan => hist'.orphan
    /\ hist.resized => hist'.resized
\* No worker got buffers.
Idling == \A w \in Workers : ToSet(worker'[w].bds) \subseteq ToSet(worker[w].bds)

\* What a step does for a block that is pending for a syncdev.
LEMMA PromisedStep ==
  ASSUME Inv, Handed, AllFirm, ~hist'.orphan, ~hist'.resized,
         disk' \in DiskFun, hist.latest \in DiskFun,
         NEW p \in hist'.pending, p.dd \in Devs, p.m \in 0 .. MediaBlocks - 1, p.v \in Int, Promised(p),
         SyncStage(p.dd)' => SyncStage(p.dd) /\ Idling,
         SyncStage(p.dd) => SyncStage(p.dd)' \/ OnDisk(p)
  PROVE  Promised(p)'
<1>1. p.v <= hist.latest[p.dd][p.m] /\ Untaken(p)
  BY DEF Promised
<1>2. Firm(p.dd, p.m)
  <2>1. ~Own(p.dd, p.m)
    BY <1>1 DEF Own, Untaken
  <2>. QED BY <2>1 DEF AllFirm
<1>3. Untaken(p)'
  <2>. SUFFICES ASSUME NEW t \in Tasks, task'[t].pc \in TakePc,
                       bd'[task'[t].bd].dd = p.dd, bd'[task'[t].bd].block = p.m
               PROVE  FALSE
    BY DEF Untaken, Keyed
  <2>1. task[t].pc \in TakePc /\ task'[t].bd = task[t].bd
    BY DEF Handed
  <2>2. task[t].bd \in Bds /\ bd[task[t].bd].state \in Access \cup AtDriver
    BY <2>1, OwnerFacts DEF TakePc
  <2>3. Keyed(task[t].bd, p.dd, p.m)
    BY <2>1, <2>2 DEF Handed, Keyed
  <2>. QED BY <1>1, <2>1, <2>3 DEF Untaken
<1>4. ASSUME SyncStage(p.dd)' PROVE Unshared(p)'
  <2>. SUFFICES ASSUME NEW w \in Workers, NEW b \in ToSet(worker'[w].bds), bd'[b].dd = p.dd, bd'[b].block = p.m
               PROVE  FALSE
    BY DEF Unshared, Keyed
  <2>1. b \in ToSet(worker[w].bds)
    BY <1>4 DEF Idling
  <2>2. b \in Bds
    <3>1. worker[w].bds \in Seq(Bds) /\ IsInjective(worker[w].bds)
      BY DEF Inv, TypeOK, RequestsInv
    <3>. QED BY <2>1, <3>1, ListOps DEF IsList
  <2>3. w \in Drivers(b)
    BY <2>1 DEF Drivers
  <2>4. bd[b].state \in AtDriver
    BY <2>2, <2>3, DrivenFacts
  <2>5. Keyed(b, p.dd, p.m)
    BY <2>2, <2>4 DEF Handed, Keyed
  <2>. QED BY <1>4, <2>1, <2>5 DEF Promised, Unshared
<1>5. ASSUME ~SyncStage(p.dd)' PROVE OnDisk(p)'
  <2>1. OnDisk(p)
    BY <1>5 DEF Promised
  <2>2. disk'[p.dd][p.m] \in Int /\ hist.latest[p.dd][p.m] \in Int
    BY DEF DiskFun
  <2>3. CASE disk'[p.dd][p.m] = disk[p.dd][p.m]
    BY <1>2, <2>1, <2>3 DEF OnDisk, Firm
  <2>4. CASE <<p.dd, p.m>> \in hist'.lost
    BY <2>4 DEF OnDisk
  <2>5. CASE disk'[p.dd][p.m] = hist.latest[p.dd][p.m]
    BY <1>1, <2>2, <2>5 DEF OnDisk
  <2>. QED BY <1>2, <2>3, <2>4, <2>5 DEF Firm
<1>6. p.v <= hist'.latest[p.dd][p.m]
  BY <1>1, <1>2 DEF Firm
<1>. QED BY <1>3, <1>4, <1>5, <1>6 DEF Promised

\* The same for all of them.
LEMMA PendStep ==
  ASSUME Inv, Inv', CohInv, PendInv, Handed, AllFirm, Mild,
         ~hist'.orphan /\ ~hist'.resized => \A p \in hist'.pending :
             /\ SyncStage(p.dd)' => SyncStage(p.dd) /\ Idling
             /\ SyncStage(p.dd) => SyncStage(p.dd)' \/ OnDisk(p)
  PROVE  PendInv'
<1>0. disk' \in DiskFun /\ hist.latest \in DiskFun
  BY DEF Inv, TypeOK, CohInv
<1>1. \A p \in hist'.pending : p.dd \in Devs /\ p.m \in 0 .. MediaBlocks - 1 /\ p.v \in Int
  BY DEF PendInv, Mild
<1>2. ASSUME ~hist'.orphan, ~hist'.resized, NEW p \in hist'.pending PROVE Promised(p)'
  <2>1. Promised(p)
    BY <1>2 DEF PendInv, Mild, Sound
  <2>. QED BY <1>0, <1>1, <1>2, <2>1, PromisedStep
<1>. QED BY <1>1, <1>2 DEF PendInv, Sound

\* A step that leaves the syncdev alone.
LEMMA AsideStep ==
  ASSUME Inv, Inv', CohInv, PendInv, LockInv, Handed, AllFirm, Mild, syncing' = syncing,
         swap'.pc = "endsync" <=> swap.pc = "endsync", syncing.active => Idling
  PROVE  PendInv' /\ LockInv'
<1>1. \A d : SyncStage(d)' <=> SyncStage(d)
  BY DEF SyncStage
<1>2. \A d : SyncStage(d) => Idling
  BY DEF SyncStage
<1>3. PendInv'
  BY <1>1, <1>2, PendStep
<1>4. LockInv'
  <2>. SUFFICES ASSUME Sound', ~hist'.resized
               PROVE  /\ swap'.pc = "endsync" => syncing'.active
                      /\ syncing'.active => syncing'.requester \in Tasks /\ syncing'.lock = syncing'.requester
                      /\ \A t \in Tasks : task'[t].pc = "syncdone" => syncing'.lock = t /\ ~syncing'.active
    BY DEF LockInv
  <2>1. Sound /\ ~hist.resized /\ ~hist'.orphan
    BY DEF Sound, Mild
  <2>2. \A t \in Tasks : task'[t].pc = "syncdone" => task[t].pc = "syncdone"
    BY <2>1 DEF Handed
  <2>. QED BY <2>1, <2>2 DEF LockInv
<1>. QED BY <1>3, <1>4

\* What the steps outside rtems_bdbuf_syncdev do to the history.
Account ==
    \/ hist' = hist
    \/ \E s : hist' = [hist EXCEPT !.stale = s]
    \/ hist' = [hist EXCEPT !.orphan = TRUE]
    \/ \E b : hist' = Latest(b)
    \/ \E s : hist' = [hist EXCEPT !.lost = s]
    \/ \E s : hist' = [hist EXCEPT !.resized = TRUE, !.stale = s]
    \/ \E W \in SUBSET hist.pending : hist' = [hist EXCEPT !.pending = W]

\* They leave the pending blocks alone, or let go of some.
LEMMA AccountMild ==
  ASSUME Inv, Account
  PROVE  Mild
<1>0. HistRec(hist)
  BY DEF Inv, TypeOK, HistRec
<1>1. CASE hist' = hist
  BY <1>1 DEF Mild
<1>2. ASSUME NEW s, hist' = [hist EXCEPT !.stale = s] PROVE Mild
  <2>1. hist'.pending = hist.pending /\ hist'.orphan = hist.orphan /\ hist'.resized = hist.resized
    BY <1>0, <1>2, Zenon DEF HistRec
  <2>. QED BY <2>1 DEF Mild
<1>3. CASE hist' = [hist EXCEPT !.orphan = TRUE]
  <2>1. hist'.pending = hist.pending /\ hist'.orphan = TRUE /\ hist'.resized = hist.resized
    BY <1>0, <1>3, Zenon DEF HistRec
  <2>. QED BY <2>1 DEF Mild
<1>4. ASSUME NEW b, hist' = Latest(b) PROVE Mild
  <2>1. PICK v, l, o : hist' = [hist EXCEPT !.version = v, !.latest = l, !.lost = o]
    BY <1>4 DEF Latest
  <2>2. hist'.pending = hist.pending /\ hist'.orphan = hist.orphan /\ hist'.resized = hist.resized
    BY <1>0, <2>1, Zenon DEF HistRec
  <2>. QED BY <2>2 DEF Mild
<1>5. ASSUME NEW s, hist' = [hist EXCEPT !.lost = s] PROVE Mild
  <2>1. hist'.pending = hist.pending /\ hist'.orphan = hist.orphan /\ hist'.resized = hist.resized
    BY <1>0, <1>5, Zenon DEF HistRec
  <2>. QED BY <2>1 DEF Mild
<1>6. ASSUME NEW s, hist' = [hist EXCEPT !.resized = TRUE, !.stale = s] PROVE Mild
  <2>1. hist'.pending = hist.pending /\ hist'.orphan = hist.orphan /\ hist'.resized = TRUE
    BY <1>0, <1>6, Zenon DEF HistRec
  <2>. QED BY <2>1 DEF Mild
<1>7. ASSUME NEW W \in SUBSET hist.pending, hist' = [hist EXCEPT !.pending = W] PROVE Mild
  <2>1. hist'.pending = W /\ hist'.orphan = hist.orphan /\ hist'.resized = hist.resized
    BY <1>0, <1>7, Zenon DEF HistRec
  <2>. QED BY <2>1 DEF Mild
<1>. QED BY <1>1, <1>2, <1>3, <1>4, <1>5, <1>6, <1>7 DEF Account

\* rtems_bdbuf_get and rtems_bdbuf_read.
LEMMA GrantAccount ==
  ASSUME NEW t, NEW c, NEW b, NEW f, NEW g, NEW cvs, Grant(t, c, b, f, g, cvs)
  PROVE  Account
<1> DEFINE W == {p \in hist.pending : ~(p.dd = f[b].dd /\ p.m \in Extent(f[b].block, g[GroupOf(b)].bds_per_group))}
<1>1. hist' = [hist EXCEPT !.pending = W] /\ W \in SUBSET hist.pending
  BY DEF Grant
<1> HIDE DEF W
<1>. QED BY <1>1 DEF Account

\* The rounds of wait_for_access and wait_for_recycle.
LEMMA WaitAccount ==
  ASSUME NEW t, NEW c, NEW b, NEW g
  PROVE  /\ WaitForAccess(t, c, b, g) => Account
         /\ WaitForRecycle(t, c, b, g) => Account
<1>1. \A f, h, cvs : Grant(t, c, b, f, h, cvs) => Account
  BY GrantAccount
<1>2. \A pc, cv, h : Sleep(t, c, pc, b, cv, h) => Account
  BY DEF Sleep, Account
<1>3. Fatal => Account
  BY DEF Fatal, Account
<1>4. SleepForBuffer(t, c, g) => Account
  BY DEF SleepForBuffer, Account
<1>5. hist' = hist => Account
  BY DEF Account
<1>6. WaitForAccess(t, c, b, g) => Account
  BY <1>1, <1>2, <1>3 DEF WaitForAccess
<1>7. WaitForRecycle(t, c, b, g) => Account
  BY <1>2, <1>3, <1>4, <1>5 DEF WaitForRecycle
<1>. QED BY <1>6, <1>7

\* One round of get_buffer_for_access.
LEMMA SearchAccount ==
  ASSUME NEW t, NEW c, GetBufferForAccess(t, c)
  PROVE  Account
<1>1. ASSUME NEW b, IF group[GroupOf(b)].bds_per_group = dev[c.dd].bds_per_group
                    THEN WaitForAccess(t, c, b, group)
                    ELSE WaitForRecycle(t, c, b, group)
      PROVE  Account
  BY <1>1, WaitAccount
<1>2. ASSUME NEW x, NEW f, NEW h, NEW cvs, Grant(t, c, x, f, h, cvs) PROVE Account
  BY <1>2, GrantAccount
<1>3. ASSUME SleepForBuffer(t, c, group) PROVE Account
  BY <1>3 DEF SleepForBuffer, Account
<1>4. ASSUME Fatal PROVE Account
  BY <1>4 DEF Fatal, Account
<1>. QED BY <1>1, <1>2, <1>3, <1>4 DEF GetBufferForAccess

\* The steps of a task on one buffer.
LEMMA TaskAccount ==
  ASSUME NEW t \in Tasks,
         \/ \E op \in {"get", "read"}, d \in Devs, k \in 0 .. MediaBlocks - 1 : Get(t, op, d, k)
         \/ SearchAgain(t) \/ AccessAgain(t) \/ RecycleAgain(t)
  PROVE  Account /\ UNCHANGED io
<1>1. ASSUME NEW op, NEW d, NEW k, Get(t, op, d, k) PROVE Account /\ UNCHANGED io
  BY <1>1, SearchAccount DEF Get
<1>2. CASE SearchAgain(t)
  BY <1>2, SearchAccount DEF SearchAgain
<1>3. CASE AccessAgain(t)
  BY <1>3, WaitAccount DEF AccessAgain
<1>4. CASE RecycleAgain(t)
  BY <1>4, WaitAccount DEF RecycleAgain
<1>. QED BY <1>1, <1>2, <1>3, <1>4

\* The end of a read, and giving a buffer back.
LEMMA HolderAccount ==
  ASSUME NEW t \in Tasks,
         \/ Release(t) \/ ReleaseModified(t) \/ PassSyncLock(t) \/ AddModified(t)
         \/ Sync(t) \/ SyncAgain(t) \/ ReadDone(t)
  PROVE  Account /\ UNCHANGED io
<1>0. hist' = hist => Account
  BY DEF Account
<1>1. \A b : hist' = Latest(b) => Account
  BY DEF Account
<1>2. CASE Release(t)
  BY <1>0, <1>2 DEF Release
<1>3. CASE ReleaseModified(t)
  BY <1>0, <1>1, <1>3 DEF ReleaseModified
<1>4. CASE PassSyncLock(t)
  BY <1>0, <1>4 DEF PassSyncLock
<1>5. CASE AddModified(t)
  BY <1>0, <1>5 DEF AddModified
<1>6. CASE Sync(t)
  BY <1>0, <1>1, <1>6 DEF Sync
<1>7. CASE SyncAgain(t)
  BY <1>0, <1>7 DEF SyncAgain, Sleep, Fatal
<1>8. CASE ReadDone(t)
  <2>1. UNCHANGED io /\ (hist' = hist \/ hist' = [hist EXCEPT !.orphan = TRUE])
    BY <1>8 DEF ReadDone
  <2>. QED BY <2>1 DEF Account
<1>. QED BY <1>2, <1>3, <1>4, <1>5, <1>6, <1>7, <1>8

\* The steps on a whole device.
LEMMA DeviceAccount ==
  ASSUME NEW t \in Tasks,
         \/ \E d \in Devs : Purge(t, d)
         \/ \E n \in 1 .. MaxBdsPerGroup : SetBlockSize(t, n)
         \/ \E d \in Devs, k \in 0 .. MediaBlocks - 1, n \in 1 .. MaxReadAhead : Peek(t, d, k, n)
  PROVE  Account /\ UNCHANGED io /\ syncing' = syncing
<1>0. \A d, s, tk : PurgeDev(t, d, s, tk) => UNCHANGED io /\ syncing' = syncing
  BY DEF PurgeDev
<1>1. ASSUME NEW d, Purge(t, d) PROVE Account /\ UNCHANGED io /\ syncing' = syncing
  <2>1. hist' = [hist EXCEPT !.lost = @ \cup GivenUp(d)] /\ \E s : PurgeDev(t, d, s, task)
    BY <1>1 DEF Purge
  <2>. QED BY <1>0, <2>1 DEF Account
<1>2. ASSUME NEW n, SetBlockSize(t, n) PROVE Account /\ UNCHANGED io /\ syncing' = syncing
  <2>1. \E s : hist' = [hist EXCEPT !.resized = TRUE, !.stale = s]
    BY <1>2 DEF SetBlockSize
  <2>2. PICK s : PurgeDev(t, task[t].dd, s, [task EXCEPT ![t] = Idle(task[t])])
    BY <1>2 DEF SetBlockSize
  <2>. QED BY <1>0, <2>1, <2>2 DEF Account
<1>3. ASSUME NEW d, NEW k, NEW n, Peek(t, d, k, n) PROVE Account /\ UNCHANGED io /\ syncing' = syncing
  BY <1>3 DEF Peek, Account
<1>. QED BY <1>1, <1>2, <1>3

\* A step of a task outside rtems_bdbuf_syncdev.
LEMMA TaskPend ==
  ASSUME Inv, Inv', CohInv, PendInv, LockInv, Conserves, NEW t \in Tasks,
         \/ \E op \in {"get", "read"}, d \in Devs, k \in 0 .. MediaBlocks - 1 : Get(t, op, d, k)
         \/ SearchAgain(t) \/ AccessAgain(t) \/ RecycleAgain(t)
         \/ Release(t) \/ ReleaseModified(t) \/ PassSyncLock(t) \/ AddModified(t)
         \/ Sync(t) \/ SyncAgain(t) \/ ReadDone(t)
         \/ \E d \in Devs : Purge(t, d)
         \/ \E n \in 1 .. MaxBdsPerGroup : SetBlockSize(t, n)
         \/ \E d \in Devs, k \in 0 .. MediaBlocks - 1, n \in 1 .. MaxReadAhead : Peek(t, d, k, n)
  PROVE  PendInv' /\ LockInv'
<1>1. Account /\ UNCHANGED io /\ syncing' = syncing
  BY TaskAccount, HolderAccount, DeviceAccount, TaskSteps, HolderSteps
<1>2. swap' = swap /\ worker' = worker
  BY <1>1 DEF io
<1>3. Mild /\ Idling
  BY <1>1, <1>2, AccountMild DEF Idling
<1>. QED BY <1>1, <1>2, <1>3, AsideStep DEF Conserves

\* A daemon's step that leaves the syncdev alone.
LEMMA DaemonAccount ==
  ASSUME \/ SwapoutWake \/ SwapoutWrite
         \/ \E w \in Workers : WorkerWrite(w) \/ WorkerBack(w)
         \/ ReadAheadWake \/ ReadAheadSleep \/ ReadAheadNext \/ ReadAheadGather \/ ReadAheadDone
  PROVE  Account
<1>0. hist' = hist => Account
  BY DEF Account
<1>1. ASSUME NEW s, WriteRequest(s) PROVE Account
  <2>1. hist' = hist \/ \E o : hist' = [hist EXCEPT !.lost = o]
    BY <1>1 DEF WriteRequest
  <2>. QED BY <2>1 DEF Account
<1>2. CASE SwapoutWake \/ ReadAheadWake \/ ReadAheadSleep
  BY <1>0, <1>2 DEF SwapoutWake, ReadAheadWake, ReadAheadSleep
<1>3. CASE SwapoutWrite
  BY <1>1, <1>3 DEF SwapoutWrite
<1>4. ASSUME NEW w \in Workers, WorkerWrite(w) \/ WorkerBack(w) PROVE Account
  BY <1>0, <1>1, <1>4 DEF WorkerWrite, WorkerBack
<1>5. CASE ReadAheadNext \/ ReadAheadGather \/ ReadAheadDone
  <2>1. hist' = hist
    BY <1>5 DEF ReadAheadNext, ReadAheadGather, ReadAheadDone
  <2>. QED BY <1>0, <2>1
<1>. QED BY <1>2, <1>3, <1>4, <1>5

\* It keeps the promise.
LEMMA DaemonPend ==
  ASSUME Inv, Inv', CohInv, PendInv, LockInv, Conserves,
         \/ SwapoutWake \/ SwapoutWrite
         \/ \E w \in Workers : WorkerWrite(w) \/ WorkerBack(w)
         \/ ReadAheadWake \/ ReadAheadSleep \/ ReadAheadNext \/ ReadAheadGather \/ ReadAheadDone
  PROVE  PendInv' /\ LockInv'
<1>0. /\ swap \in [pc : {"run", "write", "endsync", "wait", "einval"}, update : {swap.update}, bds : Seq(Bds)]
      /\ worker \in [Workers -> [pc : {"idle", "write", "back"}, bds : Seq(Bds)]]
      /\ \A w \in Workers : IsInjective(worker[w].bds)
  BY DEF Inv, TypeOK, RequestsInv
<1>1. Mild /\ syncing' = syncing
  BY DaemonAccount, AccountMild, DaemonSteps
<1>2. swap'.pc = "endsync" <=> swap.pc = "endsync"
  <2>1. CASE SwapoutWake
    <3>1. /\ swap.pc = "wait"
          /\ \/ swap' = [swap EXCEPT !.pc = "run", !.update = TRUE]
             \/ swap' = [swap EXCEPT !.pc = "einval"]
      BY <2>1 DEF SwapoutWake
    <3>2. swap'.pc \in {"run", "einval"}
      BY <1>0, <3>1, Zenon
    <3>. QED BY <3>1, <3>2
  <2>2. CASE SwapoutWrite
    <3>1. PICK q, r : q \in {"run", "write"} /\ swap.pc = "write" /\ swap' = [swap EXCEPT !.bds = r, !.pc = q]
      BY <2>2 DEF SwapoutWrite
    <3>2. swap'.pc = q
      BY <1>0, <3>1, Zenon
    <3>. QED BY <3>1, <3>2
  <2>3. ASSUME NEW w \in Workers, WorkerWrite(w) \/ WorkerBack(w) PROVE swap' = swap
    BY <2>3 DEF WorkerWrite, WorkerBack
  <2>4. CASE ReadAheadWake \/ ReadAheadSleep \/ ReadAheadNext \/ ReadAheadGather \/ ReadAheadDone
    <3>1. swap' = swap
      BY <2>4 DEF ReadAheadWake, ReadAheadSleep, ReadAheadNext, ReadAheadGather, ReadAheadDone, io
    <3>. QED BY <3>1
  <2>. QED BY <2>1, <2>2, <2>3, <2>4
<1>3. Idling
  <2>1. worker' = worker => Idling
    BY DEF Idling
  <2>2. CASE \/ SwapoutWake \/ SwapoutWrite
             \/ ReadAheadWake \/ ReadAheadSleep \/ ReadAheadNext \/ ReadAheadGather \/ ReadAheadDone
    <3>1. worker' = worker
      BY <2>2 DEF SwapoutWake, SwapoutWrite, ReadAheadWake, ReadAheadSleep, ReadAheadNext, ReadAheadGather,
                  ReadAheadDone, io
    <3>. QED BY <2>1, <3>1
  <2>3. ASSUME NEW w \in Workers, WorkerWrite(w) PROVE Idling
    <3> DEFINE s == worker[w].bds
    <3>1. s \in Seq(Bds) /\ IsInjective(s)
      BY <1>0
    <3>2. ToSet(Rest(s)) \subseteq ToSet(s)
      <4> HIDE DEF s
      <4>. QED BY <3>1, RequestFacts
    <3>3. PICK q : worker' = [worker EXCEPT ![w].bds = Rest(s), ![w].pc = q]
      BY <2>3 DEF WorkerWrite
    <3>4. worker'[w].bds = Rest(s) /\ \A v \in Workers \ {w} : worker'[v] = worker[v]
      BY <1>0, <3>3
    <3>. QED BY <3>2, <3>4 DEF Idling
  <2>4. ASSUME NEW w \in Workers, WorkerBack(w) PROVE Idling
    <3>1. worker' = [worker EXCEPT ![w].pc = "idle"]
      BY <2>4 DEF WorkerBack
    <3>2. \A v \in Workers : worker'[v].bds = worker[v].bds
      BY <1>0, <3>1
    <3>. QED BY <3>2 DEF Idling
  <2>. QED BY <2>2, <2>3, <2>4
<1>. QED BY <1>1, <1>2, <1>3, AsideStep DEF Conserves

\* A chain of which the buffers of device d are wanted: all of them are taken.
LEMMA PickAll ==
  ASSUME bd \in BdFun, NEW chain, NEW X, IsList(Bds, chain, X), NEW d, d # NoDev, NEW active, active, NEW update
  PROVE  \A b \in X : bd[b].dd = d => b \in Pick(chain, d, active, update).bds
<1> DEFINE held == [b \in ToSet(chain) |-> HoldAfter(Forced(d, active, b), update, bd[b].hold)]
           S == {b \in ToSet(chain) : held[b] = 0}
           due == Only(chain, S)
           which == IF d # NoDev \/ due = <<>> THEN d ELSE bd[due[1]].dd
           B == {b \in ToSet(due) : bd[b].dd = which}
           P == Pick(chain, d, active, update)
<1>1. P = [hold |-> held, dd |-> which, bds |-> B]
  BY DEF Pick
<1>2. ToSet(chain) = X
  BY DEF IsList
<1>3. ToSet(due) = X \cap S
  <2> HIDE DEF S
  <2>1. IsList(Bds, due, X \cap S)
    BY OnlyFacts
  <2>. QED BY <2>1 DEF IsList
<1>4. \A b \in X : bd[b].dd = d => held[b] = 0
  <2>1. \A b \in X : held[b] = HoldAfter(Forced(d, active, b), update, bd[b].hold)
    BY <1>2
  <2>2. \A b \in X : bd[b].dd = d => Forced(d, active, b)
    BY DEF Forced
  <2> HIDE DEF held
  <2>. QED BY <2>1, <2>2 DEF HoldAfter
<1>5. which = d
  OBVIOUS
<1>6. \A b \in X : bd[b].dd = d => b \in S
  BY <1>2, <1>4
<1> HIDE DEF held, S, due, which
<1>7. \A b \in X : bd[b].dd = d => b \in ToSet(due)
  BY <1>3, <1>6
<1>8. \A b \in X : bd[b].dd = d => b \in B
  BY <1>5, <1>7
<1> HIDE DEF B, P
<1>9. \A b \in X : bd[b].dd = d => b \in P.bds
  BY <1>1, <1>5, <1>8
<1>. QED BY <1>9 DEF P

\* Nothing of a pending block waits to be written and nobody has its buffer: it is on the disk.
LEMMA WrittenOut ==
  ASSUME Inv, CohInv, Sound, ~hist.resized, NEW p, p.dd \in Devs, p.m \in 0 .. MediaBlocks - 1, p.v \in Int,
         p.v <= hist.latest[p.dd][p.m], Untaken(p), Unshared(p), swap.bds = <<>>,
         \A b \in Bds : b \in Live /\ bd[b].state \in {"MODIFIED", "SYNC"} => bd[b].dd # p.dd
  PROVE  OnDisk(p)
<1> DEFINE d == p.dd
           m == p.m
<1>. SUFFICES ASSUME <<d, m>> \notin hist.lost PROVE disk[d][m] = hist.latest[d][m]
  BY DEF OnDisk
<1>1. Faithful(d, m) /\ tree \subseteq Bds
  BY DEF CohInv, Inv, TypeOK
<1>2. ASSUME NEW b \in InTree(d, m), Valid(b) PROVE Clean(b)
  <2>1. b \in tree /\ b \in Bds /\ Keyed(b, d, m) /\ bd[b].dd = d
    BY <1>1 DEF InTree, Keyed
  <2>2. b \in Live /\ BufferInv(b)
    BY <2>1 DEF Inv, BufferInv
  <2>3. bd[b].state \notin Access
    <3>. SUFFICES ASSUME bd[b].state \in Access PROVE FALSE
      OBVIOUS
    <3>1. PICK t \in Tasks : t \in Owners(b)
      BY <2>2 DEF BufferInv
    <3>2. task[t].pc \in TakePc /\ task[t].bd = b
      BY <3>1 DEF Owners, TakePc
    <3>. QED BY <2>1, <3>2 DEF Untaken
  <2>4. ~(bd[b].state = "TRANSFER" /\ ~Reading(b))
    <3>. SUFFICES ASSUME bd[b].state = "TRANSFER", ~Reading(b) PROVE FALSE
      OBVIOUS
    <3>1. PICK h : h \in Drivers(b)
      BY <2>2 DEF BufferInv, AtDriver
    <3>2. b \notin ToSet(swap.bds)
      <4>1. ToSet(<<>>) = {}
        BY NoNodes DEF IsList
      <4>. QED BY <4>1
    <3>3. h \in Workers /\ b \in ToSet(worker[h].bds)
      BY <3>1, <3>2 DEF Drivers, Reading
    <3>. QED BY <2>1, <3>3 DEF Unshared
  <2>5. bd[b].state \notin {"MODIFIED", "SYNC"}
    BY <2>1, <2>2
  <2>6. bd[b].state = "CACHED"
    BY <1>2, <2>3, <2>4, <2>5 DEF Valid, Access
  <2>. QED BY <2>6 DEF Clean
<1>3. CASE \A b \in InTree(d, m) : ~Valid(b)
  BY <1>1, <1>3 DEF Faithful
<1>4. ASSUME NEW b \in InTree(d, m), Valid(b) PROVE disk[d][m] = hist.latest[d][m]
  <2>1. Data(b) = hist.latest[d][m]
    BY <1>1, <1>4 DEF Faithful
  <2>2. Data(b) = disk[d][m]
    BY <1>1, <1>2, <1>4 DEF Faithful
  <2>. QED BY <2>1, <2>2
<1>. QED BY <1>3, <1>4

\* swapout_processing during a syncdev: it writes itself, and ends the sync when it finds nothing
\* of the device on the two lists.
LEMMA SwapoutEnds ==
  ASSUME Inv, SwapoutProcessing
  PROVE  /\ swap.pc = "run" /\ UNCHANGED <<task, syncing, hist>>
         /\ ~syncing.active => swap'.pc # "endsync"
         /\ syncing.active => worker' = worker
         /\ syncing.active /\ syncing.device \in Devs =>
              \/ swap'.pc = "write"
              \/ /\ swap'.pc = "endsync"
                 /\ \A b \in Bds : b \in Live /\ bd[b].state \in {"MODIFIED", "SYNC"} => bd[b].dd # syncing.device
<1> DEFINE e == IF syncing.active THEN syncing.device ELSE NoDev
           p1 == Pick(sync, e, TRUE, FALSE)
           p2 == Pick(modified, p1.dd, syncing.active, swap.update)
           take == p1.bds \cup p2.bds
           arrived == Reverse(Only(sync \o modified, take))
           order == Sorted(arrived, [i \in DOMAIN arrived |-> bd[arrived[i]].block])
           wk == IF syncing.active \/ free_workers = <<>> THEN None ELSE Head(free_workers)
           A == In({"MODIFIED"})
           B == In({"SYNC"})
<1>0. /\ swap \in [pc : {"run", "write", "endsync", "wait", "einval"}, update : {swap.update}, bds : Seq(Bds)]
      /\ bd \in BdFun /\ IsList(Bds, modified, A) /\ IsList(Bds, sync, B)
  BY DEF Inv, TypeOK, ListsInv
<1>1. /\ swap.pc = "run" /\ UNCHANGED <<task, syncing, hist>>
      /\ worker' = IF wk # None /\ take # {}
                   THEN [worker EXCEPT ![wk] = [pc |-> "write", bds |-> order]] ELSE worker
      /\ swap' = IF take = {} THEN [swap EXCEPT !.pc = IF syncing.active THEN "endsync" ELSE "wait"]
                 ELSE IF wk # None THEN [swap EXCEPT !.update = FALSE]
                 ELSE [pc |-> "write", update |-> FALSE, bds |-> order]
  BY DEF SwapoutProcessing
<1>2. syncing.active => wk = None
  OBVIOUS
<1>3. ASSUME syncing.active, syncing.device \in Devs, take = {}
      PROVE  \A b \in Bds : b \in Live /\ bd[b].state \in {"MODIFIED", "SYNC"} => bd[b].dd # syncing.device
  <2>0. e = syncing.device /\ e # NoDev
    BY <1>3, BdbufAssumption
  <2>1. p1.dd = e /\ \A b \in B : bd[b].dd = e => b \in p1.bds
    <3> HIDE DEF e, A, B, p2, take, wk
    <3>1. PICK on, up : on /\ p1 = Pick(sync, e, on, up)
      OBVIOUS
    <3> HIDE DEF p1
    <3>2. p1.dd = e
      BY <2>0, <3>1 DEF Pick
    <3>3. \A b \in B : bd[b].dd = e => b \in p1.bds
      BY <1>0, <2>0, <3>1, PickAll
    <3>. QED BY <3>2, <3>3
  <2>2. \A b \in A : bd[b].dd = e => b \in p2.bds
    <3>1. p2 = Pick(modified, e, syncing.active, swap.update)
      BY <2>1
    <3> HIDE DEF e, A, p1, p2
    <3>2. PICK on, up : on /\ p2 = Pick(modified, e, on, up)
      BY <1>3, <3>1
    <3>. QED BY <1>0, <2>0, <3>2, PickAll
  <2> HIDE DEF p1, p2, e
  <2>. QED BY <1>3, <2>0, <2>1, <2>2 DEF In
<1> HIDE DEF take, order, wk, arrived
<1>4. take = {} => swap'.pc = IF syncing.active THEN "endsync" ELSE "wait"
  <2>. SUFFICES ASSUME take = {} PROVE swap'.pc = IF syncing.active THEN "endsync" ELSE "wait"
    OBVIOUS
  <2>1. PICK q : q = (IF syncing.active THEN "endsync" ELSE "wait") /\ swap' = [swap EXCEPT !.pc = q]
    BY <1>1
  <2>2. swap'.pc = q
    BY <1>0, <2>1, Zenon
  <2>. QED BY <2>1, <2>2
<1>5. take # {} /\ wk # None => swap'.pc = "run"
  <2>. SUFFICES ASSUME take # {}, wk # None PROVE swap'.pc = "run"
    OBVIOUS
  <2>1. swap' = [swap EXCEPT !.update = FALSE] /\ swap.pc = "run"
    BY <1>1
  <2>2. swap'.pc = swap.pc
    BY <1>0, <2>1, Zenon
  <2>. QED BY <2>1, <2>2
<1>6. take # {} /\ wk = None => swap'.pc = "write"
  BY <1>1
<1>7. ~syncing.active => swap'.pc # "endsync"
  BY <1>4, <1>5, <1>6
<1>8. syncing.active => worker' = worker
  BY <1>1, <1>2
<1>9. ASSUME syncing.active, syncing.device \in Devs
      PROVE  \/ swap'.pc = "write"
             \/ /\ swap'.pc = "endsync"
                /\ \A b \in Bds : b \in Live /\ bd[b].state \in {"MODIFIED", "SYNC"} => bd[b].dd # syncing.device
  BY <1>2, <1>3, <1>4, <1>6, <1>9
<1>. QED BY <1>1, <1>7, <1>8, <1>9

\* So what is pending is on the disk then.
LEMMA SwapoutPend ==
  ASSUME Inv, Inv', CohInv, PendInv, LockInv, Conserves, SwapoutProcessing
  PROVE  PendInv' /\ LockInv'
<1>1. swap.pc = "run" /\ UNCHANGED <<task, syncing, hist>> /\ Mild
  BY SwapoutEnds DEF Mild
<1>2. syncing.active => Idling
  BY SwapoutEnds DEF Idling
<1>3. CASE swap'.pc # "endsync"
  BY <1>1, <1>2, <1>3, AsideStep DEF Conserves
<1>4. CASE swap'.pc = "endsync"
  <2>1. syncing.active
    BY <1>4, SwapoutEnds
  <2>2. LockInv'
    BY <1>1, <2>1 DEF LockInv, Sound
  <2>3. swap.bds = <<>>
    BY <1>1 DEF Inv, RequestsInv
  <2>4. ASSUME ~hist'.orphan, ~hist'.resized, NEW p \in hist'.pending, SyncStage(p.dd) PROVE OnDisk(p)
    <3>1. /\ Sound /\ ~hist.resized /\ p.dd \in Devs /\ p.m \in 0 .. MediaBlocks - 1 /\ p.v \in Int
          /\ Promised(p) /\ syncing.device = p.dd
      BY <1>1, <2>4 DEF PendInv, Sound, SyncStage
    <3>2. \A b \in Bds : b \in Live /\ bd[b].state \in {"MODIFIED", "SYNC"} => bd[b].dd # p.dd
      BY <1>4, <2>1, <3>1, SwapoutEnds
    <3>3. p.v <= hist.latest[p.dd][p.m] /\ Untaken(p) /\ Unshared(p)
      BY <2>4, <3>1 DEF Promised
    <3>. QED BY <2>3, <3>1, <3>2, <3>3, WrittenOut
  <2>5. \A d : ~SyncStage(d)'
    BY <1>4 DEF SyncStage
  <2>6. PendInv'
    BY <1>1, <2>4, <2>5, PendStep DEF Conserves
  <2>. QED BY <2>2, <2>6
<1>. QED BY <1>3, <1>4

\* The sync lock has no holder but the requester when the sync ends.
LEMMA EndSyncPend ==
  ASSUME Inv, Inv', CohInv, PendInv, LockInv, Conserves, EndSync
  PROVE  PendInv' /\ LockInv'
<1>0. task \in TaskFun /\ swap \in [pc : {"run", "write", "endsync", "wait", "einval"}, update : {swap.update}, bds : Seq(Bds)]
  BY DEF Inv, TypeOK
<1>1. swap.pc = "endsync" /\ UNCHANGED hist /\ swap' = [swap EXCEPT !.pc = "wait"]
  BY DEF EndSync
<1>2. swap'.pc = "wait"
  BY <1>0, <1>1, Zenon
<1>3. ~syncing'.active /\ syncing'.lock = syncing.lock
  BY DEF EndSync, Inv, TypeOK
<1>4. \A d : ~SyncStage(d) /\ ~SyncStage(d)'
  BY <1>1, <1>3 DEF SyncStage
<1>5. Mild
  BY <1>1 DEF Mild
<1>6. PendInv'
  BY <1>4, <1>5, PendStep DEF Conserves
<1>7. ASSUME ~hist.orphan, ~hist.resized, NEW t \in Tasks, task'[t].pc = "syncdone" PROVE syncing'.lock = t
  <2>1. /\ syncing.active /\ syncing.lock = syncing.requester
        /\ task[t].pc = "syncdone" => syncing.lock = t
    BY <1>1, <1>7 DEF LockInv, Sound
  <2>2. t # syncing.requester => task'[t] = task[t]
    BY DEF EndSync
  <2>. QED BY <1>3, <1>7, <2>1, <2>2
<1>8. LockInv'
  BY <1>1, <1>2, <1>3, <1>7 DEF LockInv, Sound
<1>. QED BY <1>6, <1>8

\* When rtems_bdbuf_syncdev returns nothing is pending, and the lock is given back.
LEMMA SyncdevReturnPend ==
  ASSUME Inv, Inv', CohInv, PendInv, LockInv, Conserves, NEW t \in Tasks, SyncdevReturn(t)
  PROVE  PendInv' /\ LockInv'
<1>0. HistRec(hist) /\ task \in TaskFun /\ task[t] \in TaskRec
  BY DEF Inv, TypeOK, HistRec, TaskFun
<1>1. task[t].pc = "syncdone" /\ hist' = [hist EXCEPT !.pending = {}] /\ UNCHANGED io
  BY DEF SyncdevReturn
<1>2. hist'.pending = {} /\ hist'.orphan = hist.orphan /\ hist'.resized = hist.resized
  BY <1>0, <1>1, Zenon DEF HistRec
<1>3. PendInv'
  BY <1>2 DEF PendInv
<1>4. syncing'.active = syncing.active /\ swap' = swap
  BY <1>1 DEF SyncdevReturn, Inv, TypeOK, io
<1>5. ASSUME ~hist.orphan, ~hist.resized
      PROVE  ~syncing.active /\ swap.pc # "endsync" /\ \A u \in Tasks : task'[u].pc # "syncdone"
  <2>1. ~syncing.active /\ syncing.lock = t /\ \A u \in Tasks \ {t} : task[u].pc # "syncdone"
    BY <1>1, <1>5 DEF LockInv, Sound
  <2>2. swap.pc # "endsync"
    BY <1>5, <2>1 DEF LockInv, Sound
  <2> DEFINE q == [task[t] EXCEPT !.pc = "resize"]
             r == IF task[t].op = "resize" THEN q ELSE Idle(task[t])
  <2>3. q.pc = "resize" /\ Idle(task[t]).pc = "idle"
    BY <1>0, IdleFacts DEF TaskRec
  <2>4. task' = [task EXCEPT ![t] = r]
    BY DEF SyncdevReturn
  <2> HIDE DEF q
  <2>5. r.pc # "syncdone"
    BY <2>3
  <2> HIDE DEF r
  <2>6. \A u \in Tasks : task'[u].pc # "syncdone"
    BY <1>0, <2>1, <2>4, <2>5 DEF TaskFun
  <2>. QED BY <2>1, <2>2, <2>6
<1>6. LockInv'
  BY <1>2, <1>4, <1>5 DEF LockInv, Sound
<1>. QED BY <1>3, <1>6

\* What rtems_bdbuf_syncdev finds modified is pending; neither a task nor a worker has its buffer.
LEMMA SyncdevPend ==
  ASSUME Inv, CohInv, PendInv, LockInv, NEW t \in Tasks, NEW op, NEW d \in Devs, Syncdev(t, op, d)
  PROVE  PendInv' /\ LockInv'
<1> DEFINE W == UNION {{[dd |-> d, m |-> m, v |-> hist.latest[d][m]] : m \in Covers(b)} : b \in Dirty(d)}
           r == [task[t] EXCEPT !.pc = "syncwait", !.op = op, !.dd = d]
<1>0. /\ HistRec(hist) /\ task \in TaskFun /\ task[t] \in TaskRec /\ tree \subseteq Bds /\ KeysInv
      /\ hist.latest \in DiskFun
      /\ \A w \in Workers : worker[w].bds \in Seq(Bds) /\ IsInjective(worker[w].bds)
  BY DEF Inv, TypeOK, HistRec, TaskFun, CohInv, RequestsInv
<1>1. /\ syncing.lock = None /\ syncing' = [active |-> TRUE, device |-> d, requester |-> t, lock |-> t]
      /\ task' = [task EXCEPT ![t] = r] /\ hist' = [hist EXCEPT !.pending = W]
      /\ UNCHANGED <<bd, disk, swap, worker>>
  BY DEF Syncdev, io
<1>2. r.pc = "syncwait"
  BY <1>0 DEF TaskRec
<1> HIDE DEF r
<1>3. r.pc \notin TakePc /\ r.pc # "syncdone"
  BY <1>2 DEF TakePc, OwnPc
<1>4. \A u \in Tasks : task'[u].pc \in TakePc \cup {"syncdone"} => task'[u] = task[u]
  BY <1>0, <1>1, <1>3 DEF TaskFun
<1>5. \A p \in W : \E b \in Dirty(d) : p.dd = d /\ p.m \in Covers(b) /\ p.v = hist.latest[d][p.m]
  OBVIOUS
<1>6. \A b : Covers(b) \subseteq 0 .. MediaBlocks - 1
  BY DEF Covers, Extent
<1>7. \A p \in W : p.dd = d /\ p.m \in 0 .. MediaBlocks - 1 /\ p.v = hist.latest[d][p.m] /\ p.v \in Int
  BY <1>0, <1>5, <1>6 DEF DiskFun
<1> HIDE DEF W
<1>8. /\ hist'.pending = W /\ hist'.latest = hist.latest /\ hist'.orphan = hist.orphan
      /\ hist'.resized = hist.resized
  BY <1>0, <1>1, Zenon DEF HistRec
<1>9. ASSUME Sound, ~hist.resized
      PROVE  swap.pc # "endsync" /\ \A u \in Tasks : task[u].pc # "syncdone"
  <2>1. None \notin Tasks
    BY BdbufAssumption
  <2>. QED BY <1>1, <1>9, <2>1 DEF LockInv
<1>10. LockInv'
  <2>. SUFFICES ASSUME Sound, ~hist.resized
               PROVE  /\ syncing'.active /\ syncing'.requester = t /\ syncing'.lock = t
                      /\ \A u \in Tasks : task'[u].pc # "syncdone"
    BY <1>8 DEF LockInv, Sound
  <2>1. syncing'.active /\ syncing'.requester = t /\ syncing'.lock = t
    BY <1>1
  <2>2. \A u \in Tasks : task'[u].pc # "syncdone"
    BY <1>4, <1>9
  <2>. QED BY <2>1, <2>2
<1>11. ASSUME Sound, ~hist.resized, NEW p \in W PROVE Promised(p)'
  <2>1. PICK b \in Dirty(d) : p.dd = d /\ p.m \in Covers(b) /\ p.v = hist.latest[d][p.m]
    BY <1>5, <1>11
  <2>2. b \in tree /\ b \in Bds /\ bd[b].dd = d /\ bd[b].state \in {"MODIFIED", "SYNC"}
    BY <1>0, <2>1 DEF Dirty
  <2>3. bd[b].block = p.m
    BY <1>11, <2>1, <2>2, CoversOne
  <2>4. ASSUME NEW x \in Bds, x \in Live, bd[x].state \in Access \cup AtDriver PROVE ~(bd[x].dd = d /\ bd[x].block = p.m)
    <3>1. bd[x].state # "FREE" /\ bd[x].state \notin {"MODIFIED", "SYNC"}
      BY <2>4 DEF Access, AtDriver
    <3>2. x \in tree
      BY <1>11, <2>4, <3>1 DEF Inv, BufferInv
    <3>3. bd[x].dd = d /\ bd[x].block = p.m => x = b
      BY <1>0, <2>2, <2>3, <3>2 DEF KeysInv
    <3>. QED BY <2>2, <3>1, <3>3
  <2>5. Untaken(p)'
    <3>. SUFFICES ASSUME NEW u \in Tasks, task'[u].pc \in TakePc
                 PROVE  ~(bd'[task'[u].bd].dd = d /\ bd'[task'[u].bd].block = p.m)
      BY <2>1 DEF Untaken, Keyed
    <3>1. task'[u] = task[u] /\ task[u].pc \in TakePc
      BY <1>4
    <3>2. task[u].bd \in Bds /\ task[u].bd \in Live /\ bd[task[u].bd].state \in Access \cup AtDriver
      BY <3>1, OwnerFacts DEF TakePc
    <3>. QED BY <1>1, <2>4, <3>1, <3>2
  <2>6. Unshared(p)'
    <3>. SUFFICES ASSUME NEW w \in Workers, NEW x \in ToSet(worker[w].bds)
                 PROVE  ~(bd'[x].dd = d /\ bd'[x].block = p.m)
      BY <1>1, <2>1 DEF Unshared, Keyed
    <3>1. x \in Bds
      <4>1. worker[w].bds \in Seq(Bds) /\ IsInjective(worker[w].bds)
        BY <1>0
      <4>. QED BY <4>1, ListOps DEF IsList
    <3>2. w \in Drivers(x)
      BY DEF Drivers
    <3>3. x \in Live /\ bd[x].state \in AtDriver
      BY <3>1, <3>2, DrivenFacts
    <3>. QED BY <1>1, <2>4, <3>1, <3>3
  <2>7. SyncStage(p.dd)'
    <3>1. syncing'.active /\ syncing'.device = d
      BY <1>1
    <3>2. swap'.pc # "endsync"
      BY <1>1, <1>9, <1>11
    <3>. QED BY <2>1, <3>1, <3>2 DEF SyncStage
  <2>8. p.v <= hist'.latest[p.dd][p.m]
    BY <1>7, <1>8, <1>11, <2>1
  <2>. QED BY <2>5, <2>6, <2>7, <2>8 DEF Promised
<1>12. PendInv'
  BY <1>7, <1>8, <1>11 DEF PendInv, Sound
<1>. QED BY <1>10, <1>12

\* The promise of a syncdev is kept by every step.
LEMMA NextPend ==
  ASSUME Inv, SyncInv, CohInv, PendInv, LockInv, Inv', Next
  PROVE  PendInv' /\ LockInv'
<1>0. Conserves
  BY NextCoh
<1>1. ASSUME NEW t \in Tasks,
             \/ \E op \in {"get", "read"}, d \in Devs, k \in 0 .. MediaBlocks - 1 : Get(t, op, d, k)
             \/ SearchAgain(t) \/ AccessAgain(t) \/ RecycleAgain(t)
             \/ Release(t) \/ ReleaseModified(t) \/ PassSyncLock(t) \/ AddModified(t)
             \/ Sync(t) \/ SyncAgain(t) \/ ReadDone(t)
             \/ \E d \in Devs : Purge(t, d)
             \/ \E n \in 1 .. MaxBdsPerGroup : SetBlockSize(t, n)
             \/ \E d \in Devs, k \in 0 .. MediaBlocks - 1, n \in 1 .. MaxReadAhead : Peek(t, d, k, n)
      PROVE  PendInv' /\ LockInv'
  BY <1>0, <1>1, TaskPend
<1>2. ASSUME NEW t \in Tasks, NEW op \in {"syncdev", "resize"}, NEW d \in Devs, Syncdev(t, op, d)
      PROVE  PendInv' /\ LockInv'
  BY <1>2, SyncdevPend
<1>3. ASSUME NEW t \in Tasks, SyncdevReturn(t) PROVE PendInv' /\ LockInv'
  BY <1>0, <1>3, SyncdevReturnPend
<1>4. ASSUME \/ SwapoutWake \/ SwapoutWrite
             \/ \E w \in Workers : WorkerWrite(w) \/ WorkerBack(w)
             \/ ReadAheadWake \/ ReadAheadSleep \/ ReadAheadNext \/ ReadAheadGather \/ ReadAheadDone
      PROVE  PendInv' /\ LockInv'
  BY <1>0, <1>4, DaemonPend
<1>5. ASSUME SwapoutProcessing \/ EndSync PROVE PendInv' /\ LockInv'
  BY <1>0, <1>5, SwapoutPend, EndSyncPend
<1>. QED BY <1>1, <1>2, <1>3, <1>4, <1>5 DEF Next

\* When a syncdev is done its pending blocks are on the disk.
LEMMA PendInvSuffices ==
  ASSUME PendInv, LockInv
  PROVE  SyncdevWrites
<1>. SUFFICES ASSUME Sound, ~hist.resized, NEW t \in Tasks, task[t].pc = "syncdone", NEW p \in hist.pending
             PROVE  disk[p.dd][p.m] >= p.v \/ <<p.dd, p.m>> \in hist.lost
  BY DEF SyncdevWrites
<1>1. ~SyncStage(p.dd)
  BY DEF LockInv, SyncStage
<1>. QED BY <1>1 DEF PendInv, Promised, OnDisk

\* rtems_bdbuf_syncdev keeps its promise (bdbuf.c: rtems_bdbuf_syncdev, the swapout task and
\* rtems_bdbuf_swapout_processing, the sync lock of the tasks that release modified buffers): when
\* it returns every block that was modified when it was called has at least that version on the
\* disk, unless a task took its buffer again or a failed write or a purge gave it up, as long as no
\* buffer was orphaned and no block size changed; for every number of tasks, workers, groups and
\* blocks.
THEOREM SyncdevKeepsPromise == Spec => []SyncdevWrites
<1>1. Init => CohInv /\ PendInv /\ LockInv
  <2>. SUFFICES ASSUME Init PROVE CohInv /\ PendInv /\ LockInv
    OBVIOUS
  <2>1. /\ hist.pending = {} /\ swap.pc = "run" /\ ~syncing.active
        /\ \A t \in Tasks : task[t].pc = "idle"
    BY DEF Init
  <2>. QED BY <2>1, InitCoh DEF PendInv, LockInv
<1>2. IInv /\ IInv' /\ CohInv /\ PendInv /\ LockInv /\ [Next]_vars => CohInv' /\ PendInv' /\ LockInv'
  <2>. SUFFICES ASSUME IInv, IInv', CohInv, PendInv, LockInv, [Next]_vars PROVE CohInv' /\ PendInv' /\ LockInv'
    OBVIOUS
  <2>0. Inv /\ SyncInv /\ Inv'
    BY DEF IInv
  <2>1. CASE Next
    <3>1. CohInv'
      BY <2>0, <2>1, NextCoh DEF Conserves
    <3>. QED BY <2>0, <2>1, <3>1, NextPend
  <2>2. CASE UNCHANGED vars
    <3>1. UNCHANGED <<bd, tree, task, disk, hist, ahead, swap, worker, syncing>>
      BY <2>2 DEF vars, lists
    <3>2. Conserves
      BY <2>0, <3>1, UnnoticedCoh
    <3>3. Mild /\ Idling
      BY <3>1 DEF Mild, Idling
    <3>. QED BY <2>0, <3>1, <3>2, <3>3, AsideStep DEF Conserves
  <2>. QED BY <2>1, <2>2
<1>3. PendInv /\ LockInv => SyncdevWrites
  BY PendInvSuffices
<1>. QED BY <1>1, <1>2, <1>3, CacheInvariant, PTL DEF Spec

============================================================================
