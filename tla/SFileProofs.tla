----------------------------- MODULE SFileProofs -----------------------------
(***************************************************************************)
(* Proofs about the partition files for any number of tasks.  As long as   *)
(* no open of the file overlaps another open or a close of it, the         *)
(* reference counter counts the tasks that have the file, and none of them *)
(* finds it freed; with that, the file is kept as its users left it, and   *)
(* after a power cut an open finds all of what a close has stored or       *)
(* nothing.                                                                *)
(***************************************************************************)
EXTENDS SFile, FiniteSetTheorems, TLAPS

PCs == {"idle", "open", "find", "init", "opened", "close", "store", "unlink", "unlock"}

\* Only the counter, the lock and the place on the list matter for the count.
FileOK ==
    fp \in [linked : BOOLEAN, gen : Nat, lock : Tasks \cup {Blank}, magic : {fp.magic},
            refcnt : Nat, dirty : {fp.dirty}, base : {fp.base}, fsize : {fp.fsize},
            offset : {fp.offset}]
TasksOK == task \in [Tasks -> [pc : PCs, file : Nat, loaded : Nat]]
HistOK ==
    hist \in [overlap : BOOLEAN, unread : {hist.unread}, sure : {hist.sure},
              pending : {hist.pending}, content : {hist.content}, stored : {hist.stored}]

\* A close that has begun has loaded a positive count, a linked file has a
\* generation, and no task knows a later one.
Generations ==
    /\ fp.linked => fp.gen # 0
    /\ \A t \in Tasks : task[t].file <= fp.gen
    /\ \A t \in Tasks : task[t].pc = "close" => task[t].loaded # 0

TypeInv == FileOK /\ TasksOK /\ HistOK /\ Generations

Holders == {t \in Tasks : task[t].pc \in {"opened", "close"} /\ Has(t)}

\* Nobody opens the file together with another open or a close of it.
Alone == \A t \in Opening, u \in Opening \cup Closing : t = u

\* Whoever has a pointer to the file has the file that is on the list.
HaveIt ==
    /\ \A t \in Tasks : task[t].pc \in {"opened", "init", "find", "close", "store", "unlink"}
                        /\ task[t].file # 0 => Has(t)
    /\ \A t \in Tasks : task[t].pc \in {"init", "find", "close", "store", "unlink"} =>
                          task[t].file # 0

\* The lock of the file belongs to the close that is past its first step, ...
LockHeld == \A t \in Tasks : task[t].pc \in {"close", "store", "unlink"} => fp.lock = t

\* ... so that what was loaded of the counter is still what it is.
LoadedFresh == \A t \in Tasks : task[t].pc \in {"find", "close"} => task[t].loaded = fp.refcnt

NewIsUnshared == \A t \in Tasks : task[t].pc = "init" => Holders = {}
LastIsLast ==
    /\ \A t \in Tasks : task[t].pc \in {"store", "unlink"} => fp.refcnt = 0
    /\ \A t \in Tasks : task[t].pc = "unlock" => ~fp.linked
Counted ==
    (fp.linked /\ \A t \in Tasks : task[t].pc # "init") => fp.refcnt = Cardinality(Holders)

CountInv ==
    ~hist.overlap =>
        /\ undefined # "freed"
        /\ Alone /\ HaveIt /\ LockHeld /\ LoadedFresh /\ NewIsUnshared /\ LastIsLast /\ Counted

----------------------------------------------------------------------------
(* What the changes of the struct sfile and of the history leave alone *)

\* Only the start of an open and of a close touch the overlap.
LEMMA HistKept ==
  ASSUME HistOK, NEW a, NEW b, NEW c, NEW d,
         \/ UNCHANGED hist
         \/ hist' = [hist EXCEPT !.sure = a]
         \/ hist' = [hist EXCEPT !.sure = a, !.unread = b]
         \/ hist' = [hist EXCEPT !.sure = a, !.content = b]
         \/ hist' = [hist EXCEPT !.sure = a, !.stored = b]
         \/ hist' = [hist EXCEPT !.pending = a, !.stored = b]
         \/ hist' = [hist EXCEPT !.sure = a, !.pending = b, !.content = c]
         \/ hist' = [hist EXCEPT !.unread = a, !.sure = b, !.pending = c, !.stored = d]
  PROVE  HistOK' /\ hist'.overlap = hist.overlap
BY DEF HistOK

LEMMA OverlapFacts ==
  ASSUME HistOK, NEW b \in BOOLEAN, hist' = [hist EXCEPT !.overlap = b]
  PROVE  HistOK' /\ hist'.overlap = b
BY DEF HistOK

\* The fields that the count is about.
SameFile == /\ fp'.linked = fp.linked /\ fp'.gen = fp.gen
            /\ fp'.lock = fp.lock /\ fp'.refcnt = fp.refcnt

\* A write, a read, a move of the offset or an invalidation.
LEMMA FieldFacts ==
  ASSUME FileOK, NEW a, NEW b, NEW c,
         \/ fp' = [fp EXCEPT !.dirty = a, !.offset = b, !.fsize = c]
         \/ fp' = [fp EXCEPT !.offset = a]
         \/ fp' = [fp EXCEPT !.magic = a]
         \/ fp' = [fp EXCEPT !.dirty = a]
         \/ UNCHANGED fp
  PROVE  FileOK' /\ SameFile
BY DEF FileOK, SameFile

\* The lock is taken or given back.
LEMMA LockFacts ==
  ASSUME FileOK, NEW a, NEW l \in Tasks \cup {Blank},
         fp' = [fp EXCEPT !.lock = l] \/ fp' = [fp EXCEPT !.dirty = a, !.lock = l]
  PROVE  /\ FileOK' /\ fp'.linked = fp.linked /\ fp'.gen = fp.gen
         /\ fp'.refcnt = fp.refcnt /\ fp'.lock = l
BY DEF FileOK

\* The counter is stored.
LEMMA CountFacts ==
  ASSUME FileOK, NEW n \in Nat, NEW l \in Tasks \cup {Blank},
         (fp' = [fp EXCEPT !.refcnt = n] /\ l = fp.lock) \/ fp' = [fp EXCEPT !.refcnt = n, !.lock = l]
  PROVE  /\ FileOK' /\ fp'.linked = fp.linked /\ fp'.gen = fp.gen
         /\ fp'.refcnt = n /\ fp'.lock = l
BY DEF FileOK

\* The file is set up by the open that put it on the list.
LEMMA SetUpFacts ==
  ASSUME FileOK, NEW len,
         fp' = [fp EXCEPT !.magic = TRUE, !.refcnt = 1, !.dirty = FALSE, !.base = Base,
                          !.fsize = len, !.offset = 0]
  PROVE  /\ FileOK' /\ fp'.linked = fp.linked /\ fp'.gen = fp.gen
         /\ fp'.refcnt = 1 /\ fp'.lock = fp.lock
BY DEF FileOK

\* The file is off the list.
LEMMA GoneFacts ==
  ASSUME FileOK, fp' = [NoFile EXCEPT !.gen = fp.gen]
  PROVE  /\ FileOK' /\ fp'.linked = FALSE /\ fp'.gen = fp.gen
         /\ fp'.refcnt = 0 /\ fp'.lock = Blank
BY DEF FileOK, NoFile

\* A step that only moves one task on.
LEMMA GotoFacts ==
  ASSUME TasksOK, NEW t \in Tasks, NEW pc \in PCs, Goto(t, pc)
  PROVE  /\ TasksOK'
         /\ task'[t].pc = pc /\ task'[t].file = task[t].file /\ task'[t].loaded = task[t].loaded
         /\ \A u \in Tasks \ {t} : task'[u] = task[u]
BY DEF TasksOK, Goto

\* A step that gives one task a new state.
LEMMA SetFacts ==
  ASSUME TasksOK, NEW t \in Tasks, NEW r \in [pc : PCs, file : Nat, loaded : Nat],
         task' = [task EXCEPT ![t] = r]
  PROVE  TasksOK' /\ task'[t] = r /\ \A u \in Tasks \ {t} : task'[u] = task[u]
BY DEF TasksOK

----------------------------------------------------------------------------
(* What each action does to the count, the lock and the tasks *)

\* The operations on an open file.
LEMMA OperationEffect ==
  ASSUME TypeInv, NEW t \in Tasks,
         \/ \E v \in Values : Write(t, v) \/ WriteFails(t, v)
         \/ \E offset \in Offsets : SetOffset(t, offset)
         \/ Read(t) \/ Invalid(t) \/ InvalidFails(t)
  PROVE  FileOK' /\ SameFile /\ HistOK' /\ hist'.overlap = hist.overlap /\ UNCHANGED <<task, undefined>>
<1>0. FileOK /\ HistOK
  BY DEF TypeInv
<1>1. ASSUME NEW v \in Values, Write(t, v)
      PROVE  FileOK' /\ SameFile /\ HistOK' /\ hist'.overlap = hist.overlap
  <2>1. PICK a, b, c : hist' = [hist EXCEPT !.sure = a, !.pending = b, !.content = c]
    BY <1>1, Zenon DEF Write
  <2>2. \E p, q, r : fp' = [fp EXCEPT !.dirty = p, !.offset = q, !.fsize = r]
    BY <1>1, Zenon DEF Write
  <2>3. HistOK' /\ hist'.overlap = hist.overlap
    BY <1>0, <2>1, HistKept
  <2>4. FileOK' /\ SameFile
    BY <1>0, <2>2, FieldFacts, Zenon
  <2>. QED BY <2>3, <2>4
<1>2. ASSUME NEW v \in Values, WriteFails(t, v)
      PROVE  FileOK' /\ SameFile /\ HistOK' /\ hist'.overlap = hist.overlap
  <2>1. \E a, b : hist' = [hist EXCEPT !.sure = a, !.content = b]
    BY <1>2, Zenon DEF WriteFails
  <2>2. UNCHANGED fp
    BY <1>2 DEF WriteFails
  <2>3. HistOK' /\ hist'.overlap = hist.overlap
    BY <1>0, <2>1, HistKept
  <2>. QED BY <1>0, <2>2, <2>3, FieldFacts
<1>3. ASSUME Read(t) \/ \E offset \in Offsets : SetOffset(t, offset)
      PROVE  FileOK' /\ SameFile /\ HistOK' /\ hist'.overlap = hist.overlap
  <2>1. UNCHANGED hist
    BY <1>3 DEF Read, SetOffset
  <2>2. \E a : fp' = [fp EXCEPT !.offset = a]
    BY <1>3, Zenon DEF Read, SetOffset
  <2>3. HistOK' /\ hist'.overlap = hist.overlap
    BY <1>0, <2>1, HistKept
  <2>4. FileOK' /\ SameFile
    BY <1>0, <2>2, FieldFacts, Zenon
  <2>. QED BY <2>3, <2>4
<1>4. ASSUME Invalid(t)
      PROVE  FileOK' /\ SameFile /\ HistOK' /\ hist'.overlap = hist.overlap
  <2>1. PICK a, b, c : hist' = [hist EXCEPT !.sure = a, !.pending = b, !.content = c]
    BY <1>4, Zenon DEF Invalid
  <2>2. \E p : fp' = [fp EXCEPT !.magic = p]
    BY <1>4, Zenon DEF Invalid
  <2>3. HistOK' /\ hist'.overlap = hist.overlap
    BY <1>0, <2>1, HistKept
  <2>4. FileOK' /\ SameFile
    BY <1>0, <2>2, FieldFacts, Zenon
  <2>. QED BY <2>3, <2>4
<1>4a. ASSUME InvalidFails(t)
      PROVE  FileOK' /\ SameFile /\ HistOK' /\ hist'.overlap = hist.overlap
  <2>1. PICK a : hist' = [hist EXCEPT !.sure = a]
    BY <1>4a, Zenon DEF InvalidFails
  <2>2. \E p : fp' = [fp EXCEPT !.magic = p]
    BY <1>4a, Zenon DEF InvalidFails
  <2>3. HistOK' /\ hist'.overlap = hist.overlap
    BY <1>0, <2>1, HistKept
  <2>4. FileOK' /\ SameFile
    BY <1>0, <2>2, FieldFacts, Zenon
  <2>. QED BY <2>3, <2>4
<1>5. UNCHANGED <<task, undefined>>
  <2>1. \A v : Write(t, v) => UNCHANGED <<task, undefined>>
    BY DEF Write
  <2>2. \A v : WriteFails(t, v) => UNCHANGED <<task, undefined>>
    BY DEF WriteFails
  <2>3. \A o : SetOffset(t, o) => UNCHANGED <<task, undefined>>
    BY DEF SetOffset
  <2>4. Read(t) \/ Invalid(t) \/ InvalidFails(t) => UNCHANGED <<task, undefined>>
    BY DEF Read, Invalid, InvalidFails
  <2>. QED BY <2>1, <2>2, <2>3, <2>4
<1>. QED BY <1>1, <1>2, <1>3, <1>4, <1>4a, <1>5, Zenon

\* A step that changes nothing the invariant is about keeps it.
LEMMA NothingChanges ==
  ASSUME TypeInv, CountInv, FileOK', SameFile, HistOK', hist'.overlap = hist.overlap,
         UNCHANGED <<task, undefined>>
  PROVE  TypeInv' /\ CountInv'
<1>1. TypeInv'
  BY DEF TypeInv, TasksOK, Generations, SameFile
<1>2. \A t \in Tasks : Has(t)' = Has(t)
  BY DEF Has, SameFile
<1>3. Holders' = Holders
  BY <1>2 DEF Holders
<1>4. Opening' = Opening /\ Closing' = Closing
  BY DEF Opening, Closing
<1>5. CountInv'
  BY <1>2, <1>3, <1>4 DEF CountInv, Alone, HaveIt, LockHeld, LoadedFresh, NewIsUnshared,
     LastIsLast, Counted, SameFile
<1>. QED BY <1>1, <1>5

----------------------------------------------------------------------------
(* The steps of an open *)

Others(t) == \A u \in Tasks \ {t} : task'[u] = task[u]

\* The open begins: from now on the task is alone, or there is an overlap.
LEMMA OpenStartStep ==
  ASSUME TypeInv, CountInv, NEW t \in Tasks, OpenStart(t)
  PROVE  TypeInv' /\ CountInv'
<1>0. FileOK /\ TasksOK /\ HistOK /\ Generations /\ task[t].pc = "idle"
  BY DEF TypeInv, OpenStart
<1>1. /\ TasksOK' /\ Others(t)
      /\ task'[t].pc = "open" /\ task'[t].file = task[t].file /\ task'[t].loaded = task[t].loaded
  <2>1. "open" \in PCs /\ Goto(t, "open")
    BY DEF PCs, OpenStart
  <2>. QED BY <1>0, <2>1, GotoFacts DEF Others
<1>2. HistOK' /\ (~hist'.overlap => ~hist.overlap /\ Opening = {} /\ Closing = {})
  <2> DEFINE b == hist.overlap \/ Opening # {} \/ Closing # {}
  <2>1. b \in BOOLEAN /\ (~b => ~hist.overlap /\ Opening = {} /\ Closing = {})
    BY <1>0 DEF HistOK
  <2>2. hist' = [hist EXCEPT !.overlap = b]
    BY Zenon DEF OpenStart
  <2> HIDE DEF b
  <2>. QED BY <1>0, <2>1, <2>2, OverlapFacts
<1>3. UNCHANGED <<fp, undefined>>
  BY DEF OpenStart
<1>4. TypeInv'
  BY <1>0, <1>1, <1>2, <1>3 DEF TypeInv, Generations, Others, FileOK, TasksOK
<1>5. SUFFICES ASSUME ~hist'.overlap PROVE CountInv'
  BY <1>4 DEF CountInv
<1>6. /\ ~hist.overlap /\ Opening = {} /\ Closing = {} /\ undefined # "freed"
      /\ HaveIt /\ LockHeld /\ LoadedFresh /\ NewIsUnshared /\ LastIsLast /\ Counted
  BY <1>2, <1>5 DEF CountInv
<1>7. \A u \in Tasks : Has(u)' = Has(u)
  BY <1>1, <1>3 DEF Has, Others
<1>8. Holders' = Holders
  BY <1>0, <1>1, <1>7 DEF Holders, Others
<1>9. Alone'
  BY <1>1, <1>6 DEF Alone, Opening, Closing, Others
<1>10. HaveIt' /\ LockHeld' /\ LoadedFresh' /\ LastIsLast'
  BY <1>1, <1>3, <1>6, <1>7 DEF HaveIt, LockHeld, LoadedFresh, LastIsLast, Others
<1>11. NewIsUnshared' /\ Counted'
  BY <1>0, <1>1, <1>3, <1>6, <1>8 DEF NewIsUnshared, Counted, Others
<1>. QED BY <1>3, <1>6, <1>9, <1>10, <1>11 DEF CountInv

\* The file is found on the list.
LEMMA OpenFindStep ==
  ASSUME TypeInv, CountInv, NEW t \in Tasks, OpenFind(t)
  PROVE  TypeInv' /\ CountInv'
<1>0. FileOK /\ TasksOK /\ HistOK /\ Generations /\ task[t].pc = "open" /\ fp.linked
  BY DEF TypeInv, OpenFind
<1>1. /\ TasksOK' /\ Others(t)
      /\ task'[t].pc = "find" /\ task'[t].file = fp.gen /\ task'[t].loaded = fp.refcnt
  <2> DEFINE r == [pc |-> "find", file |-> fp.gen, loaded |-> fp.refcnt]
  <2>1. r \in [pc : PCs, file : Nat, loaded : Nat] /\ task' = [task EXCEPT ![t] = r]
    BY <1>0 DEF PCs, OpenFind, FileOK
  <2>2. r.pc = "find" /\ r.file = fp.gen /\ r.loaded = fp.refcnt
    OBVIOUS
  <2> HIDE DEF r
  <2>3. TasksOK' /\ task'[t] = r /\ \A u \in Tasks \ {t} : task'[u] = task[u]
    BY <1>0, <2>1, SetFacts
  <2>. QED BY <2>2, <2>3 DEF Others
<1>3. UNCHANGED <<fp, undefined, hist>>
  BY DEF OpenFind
<1>4. TypeInv'
  BY <1>0, <1>1, <1>3 DEF TypeInv, Generations, Others, FileOK, TasksOK, HistOK
<1>5. SUFFICES ASSUME ~hist'.overlap PROVE CountInv'
  BY <1>4 DEF CountInv
<1>6. /\ ~hist.overlap /\ Alone /\ undefined # "freed"
      /\ HaveIt /\ LockHeld /\ LoadedFresh /\ NewIsUnshared /\ LastIsLast /\ Counted
  BY <1>3, <1>5 DEF CountInv
<1>7. \A u \in Tasks \ {t} : Has(u)' = Has(u)
  BY <1>1, <1>3 DEF Has, Others
<1>7a. Has(t)'
  BY <1>0, <1>1, <1>3 DEF Has
<1>8. Holders' = Holders
  BY <1>0, <1>1, <1>7 DEF Holders, Others
<1>9. Alone'
  BY <1>0, <1>1, <1>6 DEF Alone, Opening, Closing, Others
<1>10. HaveIt' /\ LockHeld' /\ LoadedFresh' /\ LastIsLast'
  BY <1>0, <1>1, <1>3, <1>6, <1>7, <1>7a
     DEF HaveIt, LockHeld, LoadedFresh, LastIsLast, Others, Generations
<1>11. NewIsUnshared' /\ Counted'
  BY <1>0, <1>1, <1>3, <1>6, <1>8 DEF NewIsUnshared, Counted, Others
<1>. QED BY <1>3, <1>6, <1>9, <1>10, <1>11 DEF CountInv

\* It is counted: the counter is still what was loaded, because nobody closes.
LEMMA OpenFoundStep ==
  ASSUME TypeInv, CountInv, NEW t \in Tasks, OpenFound(t)
  PROVE  TypeInv' /\ CountInv'
<1>0. FileOK /\ TasksOK /\ HistOK /\ Generations /\ task[t].pc = "find"
  BY DEF TypeInv, OpenFound
<1>1. /\ TasksOK' /\ Others(t) /\ task'[t].pc = "opened" /\ task'[t].file = task[t].file
  <2>1. "opened" \in PCs /\ Goto(t, "opened")
    BY DEF PCs, OpenFound
  <2>. QED BY <1>0, <2>1, GotoFacts DEF Others
<1>2. /\ FileOK' /\ fp'.linked = fp.linked /\ fp'.gen = fp.gen
      /\ fp'.refcnt = task[t].loaded + 1 /\ fp'.lock = fp.lock
  <2> DEFINE n == task[t].loaded + 1
  <2>1. n \in Nat
    BY <1>0 DEF TasksOK
  <2>2. fp' = [fp EXCEPT !.refcnt = n] /\ fp.lock \in Tasks \cup {Blank}
    BY <1>0 DEF OpenFound, FileOK
  <2> HIDE DEF n
  <2>3. /\ FileOK' /\ fp'.linked = fp.linked /\ fp'.gen = fp.gen
        /\ fp'.refcnt = n /\ fp'.lock = fp.lock
    BY <1>0, <2>1, <2>2, CountFacts
  <2>. QED BY <2>3 DEF n
<1>3. UNCHANGED <<undefined, hist>>
  BY DEF OpenFound
<1>4. TypeInv'
  BY <1>0, <1>1, <1>2, <1>3 DEF TypeInv, Generations, Others, TasksOK, HistOK
<1>5. SUFFICES ASSUME ~hist'.overlap PROVE CountInv'
  BY <1>4 DEF CountInv
<1>6. /\ ~hist.overlap /\ Alone /\ undefined # "freed"
      /\ HaveIt /\ LockHeld /\ LoadedFresh /\ NewIsUnshared /\ LastIsLast /\ Counted
  BY <1>3, <1>5 DEF CountInv
<1>7. \A u \in Tasks : Has(u)' = Has(u)
  BY <1>1, <1>2 DEF Has, Others
<1>7a. Has(t) /\ fp.linked /\ task[t].loaded = fp.refcnt
  BY <1>0, <1>6 DEF HaveIt, LoadedFresh, Has
<1>7b. \A u \in Tasks \ {t} : task[u].pc \in {"idle", "opened"}
  BY <1>0, <1>6 DEF Alone, Opening, Closing, TasksOK, PCs
<1>8. Holders' = Holders \cup {t} /\ t \notin Holders /\ IsFiniteSet(Holders)
  <2>1. IsFiniteSet(Holders)
    BY FS_Subset, SFileAssumption DEF Holders
  <2>. QED BY <1>0, <1>1, <1>7, <1>7a, <2>1 DEF Holders, Others
<1>9. Cardinality(Holders') = fp'.refcnt
  <2>1. fp.refcnt = Cardinality(Holders)
    BY <1>0, <1>6, <1>7a, <1>7b DEF Counted
  <2>2. Cardinality(Holders \cup {t}) = Cardinality(Holders) + 1
    BY <1>8, FS_AddElement
  <2>. QED BY <1>2, <1>7a, <1>8, <2>1, <2>2
<1>10. Alone' /\ HaveIt' /\ LockHeld' /\ LoadedFresh' /\ LastIsLast'
  BY <1>1, <1>2, <1>6, <1>7, <1>7a, <1>7b
     DEF Alone, Opening, Closing, HaveIt, LockHeld, LoadedFresh, LastIsLast, Others
<1>11. NewIsUnshared' /\ Counted'
  BY <1>1, <1>7b, <1>9 DEF NewIsUnshared, Counted, Others
<1>. QED BY <1>3, <1>6, <1>10, <1>11 DEF CountInv


\* A new file is put on the list: nobody else knows its generation.
LEMMA OpenNewStep ==
  ASSUME TypeInv, CountInv, NEW t \in Tasks, OpenNew(t)
  PROVE  TypeInv' /\ CountInv'
<1>0. FileOK /\ TasksOK /\ HistOK /\ Generations /\ task[t].pc = "open" /\ ~fp.linked
  BY DEF TypeInv, OpenNew
<1>g. fp.gen \in Nat /\ fp.gen + 1 \in Nat /\ fp.gen + 1 # 0
  BY <1>0 DEF FileOK
<1>1. /\ TasksOK' /\ Others(t)
      /\ task'[t].pc = "init" /\ task'[t].file = fp.gen + 1
  <2> DEFINE r == [pc |-> "init", file |-> fp.gen + 1, loaded |-> 0]
  <2>1. r \in [pc : PCs, file : Nat, loaded : Nat] /\ task' = [task EXCEPT ![t] = r]
    BY <1>g DEF PCs, OpenNew
  <2>2. r.pc = "init" /\ r.file = fp.gen + 1
    OBVIOUS
  <2> HIDE DEF r
  <2>3. TasksOK' /\ task'[t] = r /\ \A u \in Tasks \ {t} : task'[u] = task[u]
    BY <1>0, <2>1, SetFacts
  <2>. QED BY <2>2, <2>3 DEF Others
<1>2. FileOK' /\ fp'.linked /\ fp'.gen = fp.gen + 1 /\ fp'.lock = Blank
  <2>1. PICK magic, dirty \in BOOLEAN, refcnt \in {0, 1}, base \in {0, Base}, fsize \in {0, Cells} :
          fp' = [linked |-> TRUE, gen |-> fp.gen + 1, lock |-> Blank, magic |-> magic,
                 refcnt |-> refcnt, dirty |-> dirty, base |-> base, fsize |-> fsize, offset |-> 0]
    BY DEF OpenNew
  <2>2. refcnt \in Nat
    OBVIOUS
  <2>. QED BY <1>g, <2>1, <2>2 DEF FileOK
<1>3. UNCHANGED <<undefined, hist>>
  BY DEF OpenNew
<1>4. TypeInv'
  <2>1. \A u \in Tasks : task'[u].file <= fp.gen + 1
    BY <1>0, <1>1, <1>g DEF Generations, Others, TasksOK
  <2>. QED BY <1>0, <1>1, <1>2, <1>3, <1>g, <2>1 DEF TypeInv, Generations, Others, HistOK
<1>5. SUFFICES ASSUME ~hist'.overlap PROVE CountInv'
  BY <1>4 DEF CountInv
<1>6. /\ ~hist.overlap /\ Alone /\ undefined # "freed"
      /\ HaveIt /\ LockHeld /\ LoadedFresh /\ NewIsUnshared /\ LastIsLast /\ Counted
  BY <1>3, <1>5 DEF CountInv
<1>7. \A u \in Tasks \ {t} : task[u].pc \in {"idle", "opened"}
  BY <1>0, <1>6 DEF Alone, Opening, Closing, TasksOK, PCs
<1>8. \A u \in Tasks \ {t} : ~Has(u)'
  <2>1. \A u \in Tasks \ {t} : task'[u].file # fp.gen + 1
    BY <1>0, <1>1, <1>g DEF Generations, Others, TasksOK
  <2>. QED BY <1>2, <2>1 DEF Has
<1>9. \A u \in Tasks \ {t} : task[u].pc = "opened" => task[u].file = 0
  BY <1>0, <1>6 DEF HaveIt, Has
<1>10. Holders' = {} /\ Has(t)'
  BY <1>1, <1>2, <1>8 DEF Holders, Has
<1>11. Alone' /\ HaveIt' /\ LockHeld' /\ LoadedFresh' /\ LastIsLast'
  BY <1>1, <1>2, <1>7, <1>9, <1>10, <1>g
     DEF Alone, Opening, Closing, HaveIt, LockHeld, LoadedFresh, LastIsLast, Others
<1>12. NewIsUnshared' /\ Counted'
  BY <1>1, <1>10 DEF NewIsUnshared, Counted
<1>. QED BY <1>3, <1>6, <1>11, <1>12 DEF CountInv

\* The new file is set up, with the one reference of the task that opened it.
LEMMA OpenInitStep ==
  ASSUME TypeInv, CountInv, NEW t \in Tasks, OpenInit(t)
  PROVE  TypeInv' /\ CountInv'
<1>0. FileOK /\ TasksOK /\ HistOK /\ Generations /\ task[t].pc = "init" /\ Has(t)
  BY DEF TypeInv, OpenInit, Locks
<1>1. /\ TasksOK' /\ Others(t) /\ task'[t].pc = "opened" /\ task'[t].file = task[t].file
  <2>1. "opened" \in PCs /\ Goto(t, "opened")
    BY DEF PCs, OpenInit
  <2>. QED BY <1>0, <2>1, GotoFacts DEF Others
<1>2. /\ FileOK' /\ fp'.linked = fp.linked /\ fp'.gen = fp.gen
      /\ fp'.refcnt = 1 /\ fp'.lock = fp.lock
  <2>1. PICK len : fp' = [fp EXCEPT !.magic = TRUE, !.refcnt = 1, !.dirty = FALSE, !.base = Base,
                                    !.fsize = len, !.offset = 0]
    BY Zenon DEF OpenInit
  <2>. QED BY <1>0, <2>1, SetUpFacts
<1>3. HistOK' /\ hist'.overlap = hist.overlap /\ UNCHANGED undefined
  <2>1. PICK a, b : hist' = [hist EXCEPT !.sure = a, !.unread = b]
    BY Zenon DEF OpenInit
  <2>2. UNCHANGED undefined
    BY DEF OpenInit
  <2>. QED BY <1>0, <2>1, <2>2, HistKept
<1>4. TypeInv'
  BY <1>0, <1>1, <1>2, <1>3 DEF TypeInv, Generations, Others, TasksOK
<1>5. SUFFICES ASSUME ~hist'.overlap PROVE CountInv'
  BY <1>4 DEF CountInv
<1>6. /\ ~hist.overlap /\ Alone /\ undefined # "freed"
      /\ HaveIt /\ LockHeld /\ LoadedFresh /\ NewIsUnshared /\ LastIsLast /\ Counted
  BY <1>3, <1>5 DEF CountInv
<1>7. \A u \in Tasks : Has(u)' = Has(u)
  BY <1>1, <1>2 DEF Has, Others
<1>7b. \A u \in Tasks \ {t} : task[u].pc \in {"idle", "opened"}
  BY <1>0, <1>6 DEF Alone, Opening, Closing, TasksOK, PCs
<1>8. Holders' = {t}
  <2>1. Holders = {}
    BY <1>0, <1>6 DEF NewIsUnshared
  <2>. QED BY <1>0, <1>1, <1>7, <2>1 DEF Holders, Others
<1>9. Cardinality(Holders') = 1
  BY <1>8, FS_Singleton
<1>10. Alone' /\ HaveIt' /\ LockHeld' /\ LoadedFresh' /\ LastIsLast'
  BY <1>0, <1>1, <1>2, <1>6, <1>7, <1>7b
     DEF Alone, Opening, Closing, HaveIt, LockHeld, LoadedFresh, LastIsLast, Others
<1>11. NewIsUnshared' /\ Counted'
  BY <1>1, <1>2, <1>7b, <1>9 DEF NewIsUnshared, Counted, Others
<1>. QED BY <1>3, <1>6, <1>10, <1>11 DEF CountInv

\* The metadata cannot be read: the new file goes away, and nobody had it.
LEMMA OpenUnreadStep ==
  ASSUME TypeInv, CountInv, NEW t \in Tasks, OpenUnread(t)
  PROVE  TypeInv' /\ CountInv'
<1>0. FileOK /\ TasksOK /\ HistOK /\ Generations /\ task[t].pc = "init" /\ Has(t)
  BY DEF TypeInv, OpenUnread, Locks
<1>1. TasksOK' /\ Others(t) /\ task'[t].pc = "opened" /\ task'[t].file = 0
  <2> DEFINE r == [pc |-> "opened", file |-> 0, loaded |-> 0]
  <2>1. r \in [pc : PCs, file : Nat, loaded : Nat] /\ task' = [task EXCEPT ![t] = r]
    BY DEF PCs, OpenUnread
  <2>2. r.pc = "opened" /\ r.file = 0
    OBVIOUS
  <2> HIDE DEF r
  <2>3. TasksOK' /\ task'[t] = r /\ \A u \in Tasks \ {t} : task'[u] = task[u]
    BY <1>0, <2>1, SetFacts
  <2>. QED BY <2>2, <2>3 DEF Others
<1>2. FileOK' /\ fp'.linked = FALSE /\ fp'.gen = fp.gen
  BY <1>0, GoneFacts DEF OpenUnread
<1>3. UNCHANGED <<undefined, hist>>
  BY DEF OpenUnread
<1>4. TypeInv'
  BY <1>0, <1>1, <1>2, <1>3 DEF TypeInv, Generations, Others, FileOK, TasksOK, HistOK
<1>5. SUFFICES ASSUME ~hist'.overlap PROVE CountInv'
  BY <1>4 DEF CountInv
<1>6. /\ ~hist.overlap /\ Alone /\ undefined # "freed" /\ HaveIt /\ NewIsUnshared
  BY <1>3, <1>5 DEF CountInv
<1>7. \A u \in Tasks \ {t} : task[u].pc \in {"idle", "opened"}
  BY <1>0, <1>6 DEF Alone, Opening, Closing, TasksOK, PCs
<1>8. \A u \in Tasks \ {t} : task[u].pc = "opened" => task[u].file = 0
  BY <1>0, <1>6 DEF HaveIt, NewIsUnshared, Holders
<1>9. Alone' /\ HaveIt' /\ LockHeld' /\ LoadedFresh' /\ LastIsLast' /\ NewIsUnshared'
  BY <1>1, <1>7, <1>8
     DEF Alone, Opening, Closing, HaveIt, LockHeld, LoadedFresh, LastIsLast, NewIsUnshared, Others
<1>10. Counted'
  BY <1>2 DEF Counted
<1>. QED BY <1>3, <1>6, <1>9, <1>10 DEF CountInv

----------------------------------------------------------------------------
(* The steps of a close *)

\* The close begins with the lock: no open is on its way, or there is an overlap.
LEMMA CloseStep ==
  ASSUME TypeInv, CountInv, NEW t \in Tasks, Close(t)
  PROVE  TypeInv' /\ CountInv'
<1>0. /\ FileOK /\ TasksOK /\ HistOK /\ Generations
      /\ task[t].pc = "opened" /\ Has(t) /\ fp.lock = Blank /\ fp.refcnt \in Nat
  BY DEF TypeInv, Close, Uses, Locks, FileOK
<1>2. HistOK' /\ (~hist'.overlap => ~hist.overlap /\ Opening = {})
  <2> DEFINE b == hist.overlap \/ Opening # {}
  <2>1. b \in BOOLEAN /\ (~b => ~hist.overlap /\ Opening = {})
    BY <1>0 DEF HistOK
  <2>2. hist' = [hist EXCEPT !.overlap = b]
    BY Zenon DEF Close
  <2> HIDE DEF b
  <2>. QED BY <1>0, <2>1, <2>2, OverlapFacts
<1>3. UNCHANGED undefined
  BY DEF Close
<1>4. CASE fp.refcnt > 0
  <2>1. /\ TasksOK' /\ Others(t) /\ task'[t].pc = "close" /\ task'[t].file = task[t].file
        /\ task'[t].loaded = fp.refcnt
    <3>1. "close" \in PCs /\ task' = [task EXCEPT ![t].pc = "close", ![t].loaded = fp.refcnt]
      BY <1>4 DEF PCs, Close
    <3>. QED BY <1>0, <3>1 DEF TasksOK, Others
  <2>2. /\ FileOK' /\ fp'.linked = fp.linked /\ fp'.gen = fp.gen
        /\ fp'.refcnt = fp.refcnt /\ fp'.lock = t
    BY <1>0, <1>4, LockFacts DEF Close
  <2>3. TypeInv'
    BY <1>0, <1>2, <1>4, <2>1, <2>2 DEF TypeInv, Generations, Others, TasksOK
  <2>4. SUFFICES ASSUME ~hist'.overlap PROVE CountInv'
    BY <2>3 DEF CountInv
  <2>5. /\ ~hist.overlap /\ Opening = {} /\ undefined # "freed"
        /\ HaveIt /\ LockHeld /\ LoadedFresh /\ NewIsUnshared /\ LastIsLast /\ Counted
    BY <1>2, <2>4 DEF CountInv
  <2>6. \A u \in Tasks : Has(u)' = Has(u)
    BY <2>1, <2>2 DEF Has, Others
  <2>7. Holders' = Holders
    BY <1>0, <2>1, <2>6 DEF Holders, Others
  <2>8. \A u \in Tasks \ {t} : task[u].pc \in {"idle", "opened", "unlock"}
    BY <1>0, <2>5, SFileAssumption DEF LockHeld, Opening, TasksOK, PCs
  <2>9. Alone'
    BY <2>1, <2>8 DEF Alone, Opening, Others
  <2>10. HaveIt' /\ LockHeld' /\ LoadedFresh' /\ LastIsLast'
    BY <1>0, <2>1, <2>2, <2>5, <2>6, <2>8
       DEF HaveIt, LockHeld, LoadedFresh, LastIsLast, Others, Generations, Has
  <2>11. NewIsUnshared' /\ Counted'
    BY <1>0, <2>1, <2>2, <2>5, <2>7, <2>8 DEF NewIsUnshared, Counted, Others
  <2>. QED BY <1>3, <2>5, <2>9, <2>10, <2>11 DEF CountInv
<1>5. CASE ~(fp.refcnt > 0)
  <2>0. fp.refcnt = 0
    BY <1>0, <1>5
  <2>1. TasksOK' /\ Others(t) /\ task'[t].pc = "idle" /\ task'[t].file = 0
    <3>1. Idle \in [pc : PCs, file : Nat, loaded : Nat] /\ task' = [task EXCEPT ![t] = Idle]
      BY <1>5 DEF PCs, Close, Idle
    <3>2. TasksOK' /\ task'[t] = Idle /\ \A u \in Tasks \ {t} : task'[u] = task[u]
      BY <1>0, <3>1, SetFacts
    <3>. QED BY <3>2 DEF Others, Idle
  <2>2. UNCHANGED fp
    BY <1>5 DEF Close
  <2>3. TypeInv'
    BY <1>0, <1>2, <2>1, <2>2 DEF TypeInv, Generations, Others, TasksOK, FileOK
  <2>4. ASSUME ~hist'.overlap PROVE FALSE
    <3>1. ~hist.overlap /\ Opening = {} /\ Counted
      BY <1>2, <2>4 DEF CountInv
    <3>2. Cardinality(Holders) = 0
      BY <1>0, <2>0, <3>1 DEF Counted, Opening, Has
    <3>3. IsFiniteSet(Holders) /\ t \in Holders
      BY <1>0, FS_Subset, SFileAssumption DEF Holders
    <3>. QED BY <3>2, <3>3, FS_EmptySet
  <2>. QED BY <2>3, <2>4 DEF CountInv
<1>. QED BY <1>4, <1>5


\* The close counts itself out; the last one keeps the lock and goes on.
LEMMA CloseCountStep ==
  ASSUME TypeInv, CountInv, NEW t \in Tasks, CloseCount(t)
  PROVE  TypeInv' /\ CountInv'
<1>0. /\ FileOK /\ TasksOK /\ HistOK /\ Generations
      /\ task[t].pc = "close" /\ task[t].loaded \in Nat /\ task[t].loaded # 0
  BY DEF TypeInv, CloseCount, TasksOK, Generations
<1> DEFINE last == task[t].loaded = 1
           next == IF fp.dirty THEN "store" ELSE "unlink"
<1>1. /\ FileOK' /\ fp'.linked = fp.linked /\ fp'.gen = fp.gen
      /\ fp'.refcnt = task[t].loaded - 1 /\ fp'.lock = IF last THEN t ELSE Blank
  <2> DEFINE n == task[t].loaded - 1
             l == IF last THEN t ELSE Blank
  <2>1. n \in Nat
    BY <1>0
  <2>2. l \in Tasks \cup {Blank}
    OBVIOUS
  <2>3. fp' = [fp EXCEPT !.refcnt = n, !.lock = l]
    BY DEF CloseCount
  <2> HIDE DEF n, l
  <2>4. /\ FileOK' /\ fp'.linked = fp.linked /\ fp'.gen = fp.gen
        /\ fp'.refcnt = n /\ fp'.lock = l
    BY <1>0, <2>1, <2>2, <2>3, CountFacts
  <2>. QED BY <2>4 DEF n, l
<1>2. UNCHANGED <<undefined, hist>>
  BY DEF CloseCount
<1>3. /\ TasksOK' /\ Others(t)
      /\ last => task'[t].pc \in {"store", "unlink"} /\ task'[t].file = task[t].file
      /\ ~last => task'[t].pc = "idle" /\ task'[t].file = 0
  <2>1. CASE last
    <3>1. next \in PCs /\ next \in {"store", "unlink"}
      BY DEF PCs
    <3>2. task' = [task EXCEPT ![t] = [task[t] EXCEPT !.pc = next]]
      BY <2>1 DEF CloseCount
    <3> HIDE DEF next
    <3>. QED BY <1>0, <2>1, <3>1, <3>2 DEF TasksOK, Others
  <2>2. CASE ~last
    <3>1. Idle \in [pc : PCs, file : Nat, loaded : Nat] /\ task' = [task EXCEPT ![t] = Idle]
      BY <2>2 DEF PCs, CloseCount, Idle
    <3>2. TasksOK' /\ task'[t] = Idle /\ \A u \in Tasks \ {t} : task'[u] = task[u]
      BY <1>0, <3>1, SetFacts
    <3>. QED BY <2>2, <3>2 DEF Others, Idle
  <2>. QED BY <2>1, <2>2
<1>4. TypeInv'
  <2>1. task'[t].pc # "close" /\ task'[t].file \in {0, task[t].file}
    BY <1>3
  <2>. QED BY <1>0, <1>1, <1>2, <1>3, <2>1 DEF TypeInv, Generations, Others, TasksOK, HistOK, FileOK
<1>5. SUFFICES ASSUME ~hist'.overlap PROVE CountInv'
  BY <1>4 DEF CountInv
<1>6. /\ ~hist.overlap /\ Alone /\ undefined # "freed"
      /\ HaveIt /\ LockHeld /\ LoadedFresh /\ NewIsUnshared /\ LastIsLast /\ Counted
  BY <1>2, <1>5 DEF CountInv
<1>7. Has(t) /\ fp.linked /\ task[t].loaded = fp.refcnt /\ task[t].file # 0
  BY <1>0, <1>6 DEF HaveIt, LoadedFresh, Has
<1>8. \A u \in Tasks \ {t} : task[u].pc \in {"idle", "opened"}
  BY <1>0, <1>6, <1>7 DEF Alone, Opening, Closing, LockHeld, LastIsLast, TasksOK, PCs
<1>9. Holders' = Holders \ {t} /\ t \in Holders /\ IsFiniteSet(Holders)
  <2>1. IsFiniteSet(Holders)
    BY FS_Subset, SFileAssumption DEF Holders
  <2>2. \A u \in Tasks \ {t} : Has(u)' = Has(u)
    BY <1>1, <1>3 DEF Has, Others
  <2>3. task'[t].pc \notin {"opened", "close"}
    BY <1>3
  <2>. QED BY <1>0, <1>3, <1>7, <2>1, <2>2, <2>3 DEF Holders, Others
<1>10. Cardinality(Holders') = fp'.refcnt
  <2>1. fp.refcnt = Cardinality(Holders)
    BY <1>0, <1>6, <1>7, <1>8 DEF Counted
  <2>2. Cardinality(Holders \ {t}) = Cardinality(Holders) - 1
    BY <1>9, FS_RemoveElement
  <2>. QED BY <1>1, <1>7, <1>9, <2>1, <2>2
<1>11. Alone' /\ LoadedFresh' /\ NewIsUnshared'
  BY <1>3, <1>8 DEF Alone, Opening, Closing, LoadedFresh, NewIsUnshared, Others
<1>12. HaveIt'
  BY <1>1, <1>3, <1>6, <1>7, <1>8 DEF HaveIt, Has, Others
<1>13. LockHeld' /\ LastIsLast'
  <2>1. CASE last
    BY <1>1, <1>3, <1>8, <2>1 DEF LockHeld, LastIsLast, Others
  <2>2. CASE ~last
    BY <1>3, <1>8, <2>2 DEF LockHeld, LastIsLast, Others
  <2>. QED BY <2>1, <2>2
<1>14. Counted'
  BY <1>10 DEF Counted
<1>. QED BY <1>2, <1>6, <1>11, <1>12, <1>13, <1>14 DEF CountInv

\* The last close stores the metadata, with or without a failure.
LEMMA CloseStoreStep ==
  ASSUME TypeInv, CountInv, NEW t \in Tasks, CloseStore(t) \/ CloseStoreBadly(t)
  PROVE  TypeInv' /\ CountInv'
<1>0. FileOK /\ TasksOK /\ HistOK /\ Generations /\ task[t].pc = "store"
  BY DEF TypeInv, CloseStore, CloseStoreBadly
<1>1. FileOK' /\ SameFile
  <2>1. fp' = [fp EXCEPT !.dirty = FALSE]
    BY DEF CloseStore, CloseStoreBadly
  <2>. QED BY <1>0, <2>1, FieldFacts
<1>2. HistOK' /\ hist'.overlap = hist.overlap
  <2>1. CASE CloseStore(t)
    <3>1. PICK a, b : hist' = [hist EXCEPT !.pending = a, !.stored = b]
      BY <2>1, Zenon DEF CloseStore
    <3>. QED BY <1>0, <3>1, HistKept
  <2>2. CASE CloseStoreBadly(t)
    <3>1. PICK fails, synced \in BOOLEAN :
            LET crc == Chksum(cache, fp.base, fp.fsize, fails) IN
            hist' = [hist EXCEPT !.unread = @ \/ fails, !.sure = @ /\ ~fails,
                                 !.pending = ~synced,
                                 !.stored = IF synced THEN {crc} ELSE @ \cup {crc}]
      BY <2>2, Zenon DEF CloseStoreBadly
    <3> DEFINE a == hist.unread \/ fails
               b == hist.sure /\ ~fails
               c == ~synced
               crc == Chksum(cache, fp.base, fp.fsize, fails)
               d == IF synced THEN {crc} ELSE hist.stored \cup {crc}
    <3>2. hist' = [hist EXCEPT !.unread = a, !.sure = b, !.pending = c, !.stored = d]
      BY <3>1, Zenon
    <3> HIDE DEF a, b, c, d
    <3>. QED BY <1>0, <3>2, HistKept
  <2>. QED BY <2>1, <2>2
<1>3. UNCHANGED undefined
  BY DEF CloseStore, CloseStoreBadly
<1>4. /\ TasksOK' /\ Others(t)
      /\ task'[t].pc = "unlink" /\ task'[t].file = task[t].file
  <2>1. "unlink" \in PCs /\ Goto(t, "unlink")
    BY DEF PCs, CloseStore, CloseStoreBadly
  <2>. QED BY <1>0, <2>1, GotoFacts DEF Others
<1>5. TypeInv'
  BY <1>0, <1>1, <1>2, <1>4 DEF TypeInv, Generations, Others, TasksOK, SameFile
<1>6. SUFFICES ASSUME ~hist'.overlap PROVE CountInv'
  BY <1>5 DEF CountInv
<1>7. /\ ~hist.overlap /\ Alone /\ undefined # "freed"
      /\ HaveIt /\ LockHeld /\ LoadedFresh /\ NewIsUnshared /\ LastIsLast /\ Counted
  BY <1>2, <1>6 DEF CountInv
<1>8. \A u \in Tasks : Has(u)' = Has(u)
  BY <1>1, <1>4 DEF Has, Others, SameFile
<1>9. Holders' = Holders
  BY <1>0, <1>4, <1>8 DEF Holders, Others
<1>10. Alone'
  BY <1>0, <1>4, <1>7 DEF Alone, Opening, Closing, Others
<1>11. HaveIt' /\ LockHeld' /\ LoadedFresh' /\ LastIsLast'
  BY <1>0, <1>1, <1>4, <1>7, <1>8
     DEF HaveIt, LockHeld, LoadedFresh, LastIsLast, Others, SameFile
<1>12. NewIsUnshared' /\ Counted'
  BY <1>0, <1>1, <1>4, <1>7, <1>9 DEF NewIsUnshared, Counted, Others, SameFile
<1>. QED BY <1>3, <1>7, <1>10, <1>11, <1>12 DEF CountInv

\* The metadata cannot be written: the file stays on the list, unused.
LEMMA CloseFailsStep ==
  ASSUME TypeInv, CountInv, NEW t \in Tasks, CloseFails(t)
  PROVE  TypeInv' /\ CountInv'
<1>0. FileOK /\ TasksOK /\ HistOK /\ Generations /\ task[t].pc = "store"
  BY DEF TypeInv, CloseFails
<1>1. /\ FileOK' /\ fp'.linked = fp.linked /\ fp'.gen = fp.gen
      /\ fp'.refcnt = fp.refcnt /\ fp'.lock = Blank
  BY <1>0, LockFacts DEF CloseFails
<1>2. HistOK' /\ hist'.overlap = hist.overlap
  <2>1. PICK a, b : hist' = [hist EXCEPT !.sure = a, !.stored = b]
    BY Zenon DEF CloseFails
  <2>. QED BY <1>0, <2>1, HistKept
<1>3. UNCHANGED undefined
  BY DEF CloseFails
<1>4. TasksOK' /\ Others(t) /\ task'[t].pc = "idle" /\ task'[t].file = 0
  <2>1. Idle \in [pc : PCs, file : Nat, loaded : Nat] /\ task' = [task EXCEPT ![t] = Idle]
    BY DEF PCs, CloseFails, Idle
  <2>2. TasksOK' /\ task'[t] = Idle /\ \A u \in Tasks \ {t} : task'[u] = task[u]
    BY <1>0, <2>1, SetFacts
  <2>. QED BY <2>2 DEF Others, Idle
<1>5. TypeInv'
  BY <1>0, <1>1, <1>2, <1>4 DEF TypeInv, Generations, Others, TasksOK, FileOK
<1>6. SUFFICES ASSUME ~hist'.overlap PROVE CountInv'
  BY <1>5 DEF CountInv
<1>7. /\ ~hist.overlap /\ Alone /\ undefined # "freed"
      /\ HaveIt /\ LockHeld /\ LoadedFresh /\ NewIsUnshared /\ LastIsLast /\ Counted
  BY <1>2, <1>6 DEF CountInv
<1>8. \A u \in Tasks \ {t} : Has(u)' = Has(u)
  BY <1>1, <1>4 DEF Has, Others
<1>9. Holders' = Holders
  BY <1>0, <1>4, <1>8 DEF Holders, Others
<1>9a. \A u \in Tasks \ {t} : task[u].pc \in {"idle", "opened"}
  <2>1. Has(t)
    BY <1>0, <1>7 DEF HaveIt
  <2>. QED BY <1>0, <1>7, <2>1 DEF Alone, Opening, Closing, LockHeld, LastIsLast, TasksOK, PCs, Has
<1>10. Alone'
  BY <1>4, <1>9a DEF Alone, Opening, Closing, Others
<1>11. HaveIt' /\ LockHeld' /\ LoadedFresh' /\ LastIsLast'
  BY <1>4, <1>7, <1>8, <1>9a
     DEF HaveIt, LockHeld, LoadedFresh, LastIsLast, Others
<1>12. NewIsUnshared' /\ Counted'
  BY <1>0, <1>1, <1>4, <1>7, <1>9, <1>9a DEF NewIsUnshared, Counted, Others
<1>. QED BY <1>3, <1>7, <1>10, <1>11, <1>12 DEF CountInv


\* The file is taken off the list by the close that nobody follows.
LEMMA CloseUnlinkStep ==
  ASSUME TypeInv, CountInv, NEW t \in Tasks, CloseUnlink(t)
  PROVE  TypeInv' /\ CountInv'
<1>0. FileOK /\ TasksOK /\ HistOK /\ Generations /\ task[t].pc = "unlink"
  BY DEF TypeInv, CloseUnlink
<1>1. /\ FileOK' /\ fp'.gen = fp.gen
      /\ Has(t) => ~fp'.linked
      /\ fp'.linked => fp.linked
  <2>1. CASE Has(t)
    <3>1. fp' = [NoFile EXCEPT !.gen = fp.gen]
      BY <2>1 DEF CloseUnlink
    <3>. QED BY <1>0, <3>1, GoneFacts
  <2>2. CASE ~Has(t)
    BY <1>0, <2>2 DEF CloseUnlink, FileOK
  <2>. QED BY <2>1, <2>2
<1>3. UNCHANGED <<undefined, hist>>
  BY DEF CloseUnlink
<1>4. TasksOK' /\ Others(t) /\ task'[t].pc = "unlock" /\ task'[t].file = task[t].file
  <2>1. "unlock" \in PCs /\ Goto(t, "unlock")
    BY DEF PCs, CloseUnlink
  <2>. QED BY <1>0, <2>1, GotoFacts DEF Others
<1>5. TypeInv'
  BY <1>0, <1>1, <1>3, <1>4 DEF TypeInv, Generations, Others, TasksOK, HistOK
<1>6. SUFFICES ASSUME ~hist'.overlap PROVE CountInv'
  BY <1>5 DEF CountInv
<1>7. /\ ~hist.overlap /\ Alone /\ undefined # "freed"
      /\ HaveIt /\ LockHeld /\ LoadedFresh /\ NewIsUnshared /\ LastIsLast /\ Counted
  BY <1>3, <1>6 DEF CountInv
<1>8. Has(t) /\ fp.refcnt = 0 /\ fp.linked
  BY <1>0, <1>7 DEF HaveIt, LastIsLast, Has
<1>9. \A u \in Tasks \ {t} : task[u].pc \in {"idle", "opened"}
  BY <1>0, <1>7, <1>8 DEF Alone, Opening, Closing, LockHeld, LastIsLast, TasksOK, PCs
<1>10. Holders = {}
  <2>1. IsFiniteSet(Holders)
    BY FS_Subset, SFileAssumption DEF Holders
  <2>2. Cardinality(Holders) = 0
    BY <1>0, <1>7, <1>8, <1>9 DEF Counted
  <2>. QED BY <2>1, <2>2, FS_EmptySet
<1>11. \A u \in Tasks \ {t} : task[u].pc = "opened" => task[u].file = 0
  BY <1>7, <1>10 DEF HaveIt, Holders
<1>12. Alone' /\ HaveIt' /\ LockHeld' /\ LoadedFresh' /\ LastIsLast' /\ NewIsUnshared'
  BY <1>1, <1>4, <1>8, <1>9, <1>11
     DEF Alone, Opening, Closing, HaveIt, LockHeld, LoadedFresh, LastIsLast, NewIsUnshared, Others
<1>13. Counted'
  BY <1>1, <1>8 DEF Counted
<1>. QED BY <1>3, <1>7, <1>12, <1>13 DEF CountInv

\* The unlock in the freed memory: there is no file yet whose lock it could be.
LEMMA CloseUnlockStep ==
  ASSUME TypeInv, CountInv, NEW t \in Tasks, CloseUnlock(t)
  PROVE  TypeInv' /\ CountInv'
<1>0. FileOK /\ TasksOK /\ HistOK /\ Generations /\ task[t].pc = "unlock"
  BY DEF TypeInv, CloseUnlock
<1>1. FileOK' /\ fp'.linked = fp.linked /\ fp'.gen = fp.gen /\ fp'.refcnt = fp.refcnt
  BY <1>0, LockFacts, FieldFacts DEF CloseUnlock, SameFile
<1>3. UNCHANGED <<undefined, hist>>
  BY DEF CloseUnlock
<1>4. TasksOK' /\ Others(t) /\ task'[t].pc = "idle" /\ task'[t].file = 0
  <2>1. Idle \in [pc : PCs, file : Nat, loaded : Nat] /\ task' = [task EXCEPT ![t] = Idle]
    BY DEF PCs, CloseUnlock, Idle
  <2>2. TasksOK' /\ task'[t] = Idle /\ \A u \in Tasks \ {t} : task'[u] = task[u]
    BY <1>0, <2>1, SetFacts
  <2>. QED BY <2>2 DEF Others, Idle
<1>5. TypeInv'
  BY <1>0, <1>1, <1>3, <1>4 DEF TypeInv, Generations, Others, TasksOK, HistOK, FileOK
<1>6. SUFFICES ASSUME ~hist'.overlap PROVE CountInv'
  BY <1>5 DEF CountInv
<1>7. /\ ~hist.overlap /\ Alone /\ undefined # "freed" /\ HaveIt /\ LastIsLast
  BY <1>3, <1>6 DEF CountInv
<1>8. ~fp.linked
  BY <1>0, <1>7 DEF LastIsLast
<1>9. \A u \in Tasks \ {t} :
        /\ task[u].pc \in {"idle", "opened", "unlock"}
        /\ task[u].pc = "opened" => task[u].file = 0
  BY <1>0, <1>7, <1>8 DEF Alone, Opening, Closing, HaveIt, Has, TasksOK, PCs
<1>9a. \A u \in Tasks :
         /\ task'[u].pc \in {"idle", "opened", "unlock"}
         /\ task'[u].pc = "opened" => task'[u].file = 0
  BY <1>4, <1>9 DEF Others
<1>9b. ~fp'.linked
  BY <1>1, <1>8, Zenon
<1>10. Alone' /\ HaveIt' /\ LockHeld' /\ LoadedFresh' /\ LastIsLast' /\ NewIsUnshared'
  <2>1. Opening' = {}
    BY <1>9a DEF Opening
  <2>2. HaveIt'
    BY <1>9a DEF HaveIt
  <2>3. LockHeld' /\ LoadedFresh' /\ NewIsUnshared'
    BY <1>9a DEF LockHeld, LoadedFresh, NewIsUnshared
  <2>4. LastIsLast'
    BY <1>9a, <1>9b DEF LastIsLast
  <2>. QED BY <2>1, <2>2, <2>3, <2>4 DEF Alone
<1>11. Counted'
  BY <1>9b DEF Counted
<1>. QED BY <1>3, <1>7, <1>10, <1>11 DEF CountInv

----------------------------------------------------------------------------
(* The steps that are left: undefined behaviour and the power *)

\* No task uses a file that is gone; the pointer that was never set is another
\* matter.
LEMMA UndefinedStep ==
  ASSUME TypeInv, CountInv, NEW t \in Tasks, UseAfterFree(t) \/ OpenNone(t) \/ WriteOutside(t)
  PROVE  TypeInv' /\ CountInv'
<1>1. UNCHANGED <<fp, task, hist>>
  BY DEF UseAfterFree, OpenNone, WriteOutside
<1>2. TypeInv'
  BY <1>1 DEF TypeInv, FileOK, TasksOK, HistOK, Generations
<1>3. ~hist.overlap => undefined' # "freed"
  <2>1. CASE OpenNone(t) \/ WriteOutside(t)
    BY <2>1 DEF OpenNone, WriteOutside
  <2>2. CASE UseAfterFree(t)
    <3>1. /\ task[t].pc \in {"opened", "init", "close", "store"} /\ ~Has(t)
          /\ undefined' = IF task[t].file = 0 THEN "unset" ELSE "freed"
      BY <2>2 DEF UseAfterFree
    <3>2. ~hist.overlap => task[t].file = 0
      BY <3>1 DEF CountInv, HaveIt
    <3>. QED BY <3>1, <3>2
  <2>. QED BY <2>1, <2>2
<1>4. (\A u \in Tasks : Has(u)' = Has(u)) /\ Holders' = Holders
      /\ Opening' = Opening /\ Closing' = Closing
  BY <1>1 DEF Has, Holders, Opening, Closing
<1>5. CountInv'
  BY <1>1, <1>3, <1>4 DEF CountInv, Alone, HaveIt, LockHeld, LoadedFresh, NewIsUnshared,
     LastIsLast, Counted
<1>. QED BY <1>2, <1>5

\* After a power cut nobody has the file.
LEMMA PowerStep ==
  ASSUME TypeInv, CountInv, undefined = "no", PowerFails
  PROVE  TypeInv' /\ CountInv'
<1>0. FileOK /\ TasksOK /\ HistOK /\ Generations
  BY DEF TypeInv
<1>1. FileOK' /\ fp'.linked = FALSE /\ fp'.gen = fp.gen
  BY <1>0, GoneFacts DEF PowerFails
<1>2. HistOK'
  <2>1. PICK a : hist' = [hist EXCEPT !.sure = a]
    BY Zenon DEF PowerFails
  <2>. QED BY <1>0, <2>1, HistKept
<1>3. TasksOK' /\ \A u \in Tasks : task'[u].pc = "idle" /\ task'[u].file = 0
  BY DEF PowerFails, TasksOK, Idle, PCs
<1>4. TypeInv'
  BY <1>0, <1>1, <1>2, <1>3 DEF TypeInv, Generations, FileOK
<1>5. undefined' = "no"
  BY DEF PowerFails
<1>6. CountInv'
  BY <1>1, <1>3, <1>5 DEF CountInv, Alone, Opening, HaveIt, LockHeld, LoadedFresh, NewIsUnshared,
     LastIsLast, Counted
<1>. QED BY <1>4, <1>6

----------------------------------------------------------------------------
\* The inductive invariant.
SFileInv == TypeInv /\ CountInv

LEMMA SFileInvariant == Spec => []SFileInv
<1>1. Init => SFileInv
  <2> SUFFICES ASSUME Init PROVE SFileInv
    OBVIOUS
  <2>1. FileOK /\ fp.linked = FALSE /\ fp.gen = 0
    BY DEF Init, FileOK, NoFile
  <2>2. TasksOK /\ \A t \in Tasks : task[t].pc = "idle" /\ task[t].file = 0
    BY DEF Init, TasksOK, Idle, PCs
  <2>3. HistOK
    BY DEF Init, HistOK
  <2>4. undefined = "no"
    BY DEF Init
  <2>. QED BY <2>1, <2>2, <2>3, <2>4 DEF SFileInv, TypeInv, Generations, CountInv, Alone, Opening,
           HaveIt, LockHeld, LoadedFresh, NewIsUnshared, LastIsLast, Counted
<1>2. SFileInv /\ [Next]_vars => SFileInv'
  <2> SUFFICES ASSUME TypeInv, CountInv, [Next]_vars PROVE TypeInv' /\ CountInv'
    BY DEF SFileInv
  <2>1. CASE UNCHANGED vars
    <3>1. UNCHANGED <<fp, task, hist, undefined>>
      BY <2>1 DEF vars
    <3>2. FileOK' /\ SameFile /\ HistOK' /\ hist'.overlap = hist.overlap
      BY <3>1 DEF TypeInv, FileOK, SameFile, HistOK
    <3>. QED BY <3>1, <3>2, NothingChanges
  <2>2. ASSUME NEW t \in Tasks,
               \/ \E v \in Values : Write(t, v) \/ WriteFails(t, v)
               \/ \E offset \in Offsets : SetOffset(t, offset)
               \/ Read(t) \/ Invalid(t) \/ InvalidFails(t)
        PROVE  TypeInv' /\ CountInv'
    <3>1. /\ FileOK' /\ SameFile /\ HistOK' /\ hist'.overlap = hist.overlap
          /\ UNCHANGED <<task, undefined>>
      BY <2>2, OperationEffect
    <3>. QED BY <3>1, NothingChanges
  <2>3. ASSUME NEW t \in Tasks,
               \/ OpenStart(t) \/ OpenFind(t) \/ OpenFound(t) \/ OpenNew(t) \/ OpenNone(t)
               \/ OpenInit(t) \/ OpenUnread(t) \/ WriteOutside(t)
        PROVE  TypeInv' /\ CountInv'
    BY <2>3, OpenStartStep, OpenFindStep, OpenFoundStep, OpenNewStep, OpenInitStep, OpenUnreadStep,
       UndefinedStep
  <2>4. ASSUME NEW t \in Tasks,
               \/ Close(t) \/ CloseCount(t) \/ CloseStore(t) \/ CloseStoreBadly(t) \/ CloseFails(t)
               \/ CloseUnlink(t) \/ CloseUnlock(t) \/ UseAfterFree(t)
        PROVE  TypeInv' /\ CountInv'
    BY <2>4, CloseStep, CloseCountStep, CloseStoreStep, CloseFailsStep, CloseUnlinkStep,
       CloseUnlockStep, UndefinedStep
  <2>5. CASE undefined = "no" /\ PowerFails
    BY <2>5, PowerStep
  <2>. QED BY <2>1, <2>2, <2>3, <2>4, <2>5, Zenon DEF Next
<1>. QED BY <1>1, <1>2, PTL DEF Spec

\* For any number of tasks: as long as no open of a file overlaps another open
\* or a close of it, its reference counter is the number of tasks that have it,
\* and the close that frees it is the last one.
THEOREM ReferencesCounted == Spec => []HandlesCounted
<1>1. SFileInv => HandlesCounted
  BY DEF SFileInv, CountInv, Counted, Holders, HandlesCounted
<1>. QED BY <1>1, SFileInvariant, PTL

----------------------------------------------------------------------------
(* The contents of the file *)

\* The file is on the list and set up.
Up == fp.linked /\ \A t \in Tasks : task[t].pc # "init"
SetUp == /\ fp.base = Base /\ fp.magic = TRUE /\ fp.fsize \in 0 .. Cells
         /\ fp.offset \in Int /\ fp.dirty \in BOOLEAN

\* The first cell is blank, metadata with the checksum of something stored, or
\* was written over with data at a negative offset.
PartOK(part, stored) ==
    /\ part = [i \in 0 .. Cells |-> part[i]]
    /\ \A i \in 1 .. Cells : part[i] \in Values \cup {Blank}
    /\ \/ part[0] \in Values \cup {Blank}
       \/ \E len \in 0 .. Cells, crc \in stored \cup {<<>>} : part[0] = Meta(TRUE, len, crc)

\* What was written is what an open would find, ...
Consistent ==
    IF HasMeta(cache) /\ cache[0].magic
    THEN cache[0].crc = hist.content /\ Data(cache, cache[0].len) = hist.content
    ELSE hist.content = <<>>

\* ... or, while the file is dirty, what its users see and its close will store.
Changed == Up /\ fp.dirty
Kept == hist.sure => IF Changed THEN Data(cache, fp.fsize) = hist.content ELSE Consistent

\* What is not on the flash is known to be missing there.
Synced == (Changed => hist.pending) /\ (hist.sure /\ ~hist.pending => cache = flash)

\* The last close stores a dirty file, and takes only a clean one off the list.
Stages == \A t \in Tasks : /\ task[t].pc = "store" => fp.dirty
                           /\ task[t].pc = "unlink" => ~fp.dirty

HistData == hist.sure \in BOOLEAN /\ hist.pending \in BOOLEAN /\ hist.stored \subseteq Contents

DataInv ==
    ~hist.overlap =>
        /\ HistData /\ PartOK(cache, hist.stored) /\ PartOK(flash, hist.stored)
        /\ Up => SetUp
        /\ Kept /\ Synced /\ Stages

----------------------------------------------------------------------------
(* Data, checksums and metadata *)

\* What a file of this partition holds is its checksum.
LEMMA DataFacts ==
  ASSUME NEW part, NEW len \in 0 .. Cells, \A i \in 1 .. Cells : part[i] \in Values \cup {Blank}
  PROVE  /\ Data(part, len) \in Contents
         /\ Chksum(part, Base, len, FALSE) = Data(part, len)
<1>1. Data(part, len) = [i \in 1 .. len |-> part[i]]
  BY SFileAssumption DEF Data
<1>2. Data(part, len) \in [1 .. len -> Values \cup {Blank}]
  BY <1>1, SFileAssumption
<1>3. len = 0 => Data(part, len) = <<>>
  BY <1>1
<1>. QED BY <1>2, <1>3 DEF Contents, Chksum

\* The empty file.
LEMMA NoData == <<>> \in Contents /\ \A part : Data(part, 0) = <<>>
<1>1. \A part : Data(part, 0) = <<>>
  BY DEF Data
<1>2. <<>> \in [1 .. 0 -> Values \cup {Blank}] /\ 0 \in 0 .. Cells
  BY SFileAssumption
<1>. QED BY <1>1, <1>2 DEF Contents

\* Memory that is not the file's has the checksum of no data of the file.
LEMMA OtherSum == <<Other>> \notin Contents
<1> SUFFICES ASSUME <<Other>> \in Contents PROVE FALSE
  OBVIOUS
<1>1. PICK n \in 0 .. Cells : <<Other>> \in [1 .. n -> Values \cup {Blank}]
  BY DEF Contents
<1>2. DOMAIN <<Other>> = 1 .. n /\ DOMAIN <<Other>> = 1 .. 1
  BY <1>1
<1>3. 1 \in 1 .. n
  BY <1>2
<1>4. <<Other>>[1] \in Values \cup {Blank}
  BY <1>1, <1>3
<1>. QED BY <1>4, DataAssumption

\* The data does not depend on the metadata.
LEMMA DataSame ==
  ASSUME NEW p, NEW q, NEW len, \A i \in 1 .. Cells : p[i] = q[i]
  PROVE  Data(p, len) = Data(q, len)
<1>1. \A i \in 1 .. len : i <= Cells => i \in 1 .. Cells
  BY SFileAssumption
<1>2. \A i \in 1 .. len : (IF i <= Cells THEN p[i] ELSE Other) = (IF i <= Cells THEN q[i] ELSE Other)
  BY <1>1
<1>. QED BY <1>2 DEF Data

\* The fields of metadata, which is not data.
LEMMA MetaFacts ==
  ASSUME NEW len \in 0 .. Cells, NEW crc \in Contents
  PROVE  LET m == Meta(TRUE, len, crc)
         IN  m.magic = TRUE /\ m.len = len /\ m.crc = crc /\ m \notin Values \cup {Blank}
<1>1. [magic |-> TRUE, len |-> len, crc |-> crc] \notin Values \cup {Blank}
  BY DataAssumption
<1>. QED BY <1>1 DEF Meta

\* A first cell that is not blank and no data is metadata.
LEMMA PartFacts ==
  ASSUME NEW part, NEW stored, stored \subseteq Contents, PartOK(part, stored)
  PROVE  /\ HasMeta(part) => /\ part[0].magic = TRUE /\ part[0].len \in 0 .. Cells
                             /\ part[0].crc \in stored \cup {<<>>}
<1>1. CASE part[0] \in Values \cup {Blank}
  BY <1>1 DEF HasMeta
<1>2. ASSUME NEW len \in 0 .. Cells, NEW crc \in stored \cup {<<>>}, part[0] = Meta(TRUE, len, crc)
      PROVE  /\ part[0] \notin Values \cup {Blank}
             /\ part[0].magic = TRUE /\ part[0].len \in 0 .. Cells
             /\ part[0].crc \in stored \cup {<<>>}
  <2>1. crc \in Contents
    BY NoData
  <2> DEFINE m == Meta(TRUE, len, crc)
  <2>2. m.magic = TRUE /\ m.len = len /\ m.crc = crc /\ m \notin Values \cup {Blank}
    BY <2>1, MetaFacts, Zenon
  <2> HIDE DEF m
  <2>3. part[0] = m
    BY <1>2, Zenon DEF m
  <2>. QED BY <2>2, <2>3
<1>. QED BY <1>1, <1>2 DEF PartOK, HasMeta

\* Metadata is written.
LEMMA MetaWritten ==
  ASSUME NEW part, NEW stored, NEW s, PartOK(part, stored),
         NEW len \in 0 .. Cells, NEW crc \in s \cup {<<>>}
  PROVE  /\ PartOK([part EXCEPT ![0] = Meta(TRUE, len, crc)], s)
         /\ [part EXCEPT ![0] = Meta(TRUE, len, crc)][0] = Meta(TRUE, len, crc)
         /\ \A i \in 1 .. Cells : [part EXCEPT ![0] = Meta(TRUE, len, crc)][i] = part[i]
<1> DEFINE m == Meta(TRUE, len, crc)
           done == [part EXCEPT ![0] = m]
<1>1. part = [i \in 0 .. Cells |-> part[i]] /\ \A i \in 1 .. Cells : part[i] \in Values \cup {Blank}
  BY DEF PartOK
<1>2. 0 \in 0 .. Cells /\ \A i \in 1 .. Cells : i \in 0 .. Cells /\ i # 0
  BY SFileAssumption
<1> HIDE DEF m
<1>3. done[0] = m /\ \A i \in 1 .. Cells : done[i] = part[i]
  BY <1>1, <1>2
<1>4. done = [i \in 0 .. Cells |-> done[i]]
  BY <1>1
<1> USE DEF m
<1> HIDE DEF done
<1>. QED BY <1>1, <1>3, <1>4 DEF PartOK, done

\* Data is written.
LEMMA CellWritten ==
  ASSUME NEW part, NEW stored, PartOK(part, stored), NEW k \in 0 .. Cells, NEW v \in Values
  PROVE  PartOK([part EXCEPT ![k] = v], stored)
<1> DEFINE done == [part EXCEPT ![k] = v]
<1>1. part = [i \in 0 .. Cells |-> part[i]] /\ \A i \in 1 .. Cells : part[i] \in Values \cup {Blank}
  BY DEF PartOK
<1>2. 0 \in 0 .. Cells /\ \A i \in 1 .. Cells : i \in 0 .. Cells
  BY SFileAssumption
<1>3. (done[0] = part[0] \/ done[0] = v) /\ \A i \in 1 .. Cells : done[i] \in Values \cup {Blank}
  BY <1>1, <1>2
<1>4. done = [i \in 0 .. Cells |-> done[i]]
  BY <1>1
<1> HIDE DEF done
<1>5. \/ done[0] \in Values \cup {Blank}
      \/ \E len \in 0 .. Cells, crc \in stored \cup {<<>>} : done[0] = Meta(TRUE, len, crc)
  BY <1>3, Zenon DEF PartOK
<1>6. PartOK(done, stored)
  BY <1>3, <1>4, <1>5, Zenon DEF PartOK
<1>. QED BY <1>6 DEF done

\* More is stored.
LEMMA PartKept ==
  ASSUME NEW part, NEW stored, NEW s, PartOK(part, stored), stored \subseteq s
  PROVE  PartOK(part, s)
<1>1. \A crc \in stored \cup {<<>>} : crc \in s \cup {<<>>}
  OBVIOUS
<1>. QED BY <1>1, Zenon DEF PartOK

----------------------------------------------------------------------------
(* The steps that leave the partition alone *)

\* The invariant is kept when the partition is, and with it what counts as
\* written.
LEMMA DataKept ==
  ASSUME DataInv, ~hist.overlap, UNCHANGED <<cache, flash>>,
         hist'.sure \in BOOLEAN, hist'.sure => hist.sure,
         hist'.pending = hist.pending, hist'.content = hist.content, hist'.stored = hist.stored,
         Changed' <=> Changed, Changed => fp'.fsize = fp.fsize, Up' => SetUp', Stages'
  PROVE  DataInv'
<1>1. /\ HistData /\ PartOK(cache, hist.stored) /\ PartOK(flash, hist.stored) /\ Kept /\ Synced
  BY DEF DataInv
<1>2. HistData'
  BY <1>1 DEF HistData
<1>3. PartOK(cache', hist'.stored) /\ PartOK(flash', hist'.stored)
  BY <1>1
<1>4. Data(cache', fp'.fsize) = Data(cache, fp'.fsize) /\ (Consistent' <=> Consistent)
  BY DEF Consistent, HasMeta, Data
<1>5. Kept'
  BY <1>1, <1>4 DEF Kept
<1>6. Synced'
  BY <1>1 DEF Synced
<1>. QED BY <1>2, <1>3, <1>5, <1>6 DEF DataInv

SameData == /\ fp'.linked = fp.linked /\ fp'.dirty = fp.dirty /\ fp'.base = fp.base
            /\ fp'.magic = fp.magic /\ fp'.fsize = fp.fsize /\ fp'.offset = fp.offset
SameHist == /\ hist'.sure = hist.sure /\ hist'.pending = hist.pending
            /\ hist'.content = hist.content /\ hist'.stored = hist.stored

\* A step of the counter and the locks.
LEMMA CountersOnly ==
  ASSUME DataInv, UNCHANGED <<cache, flash>>, SameData, SameHist,
         hist.overlap => hist'.overlap,
         \A u \in Tasks : /\ task'[u].pc = "init" <=> task[u].pc = "init"
                          /\ task'[u].pc \in {"store", "unlink"} =>
                                \/ task[u].pc = task'[u].pc
                                \/ task'[u].pc = IF fp.dirty THEN "store" ELSE "unlink"
  PROVE  DataInv'
<1> SUFFICES ASSUME ~hist'.overlap PROVE DataInv'
  BY DEF DataInv
<1>1. ~hist.overlap /\ HistData /\ Stages /\ (Up => SetUp)
  BY DEF DataInv
<1>2. Up' <=> Up
  BY DEF Up, SameData
<1>3. (Changed' <=> Changed) /\ (Up' => SetUp')
  BY <1>1, <1>2 DEF Changed, SetUp, SameData
<1>4. Stages'
  BY <1>1 DEF Stages, SameData
<1>. QED BY <1>1, <1>3, <1>4, DataKept DEF SameData, SameHist, HistData

\* Each step of an open, and what the file says of its contents.
LEMMA OpenStartData ==
  ASSUME TypeInv, DataInv, NEW t \in Tasks, OpenStart(t)
  PROVE  DataInv'
<1>0. TasksOK /\ HistOK /\ task[t].pc = "idle"
  BY DEF TypeInv, OpenStart
<1>1. SameData /\ UNCHANGED <<cache, flash>>
  BY DEF OpenStart, SameData
<1>2. SameHist /\ (hist.overlap => hist'.overlap)
  <2> DEFINE b == hist.overlap \/ Opening # {} \/ Closing # {}
  <2>1. hist' = [hist EXCEPT !.overlap = b]
    BY Zenon DEF OpenStart
  <2>2. hist.overlap => b
    OBVIOUS
  <2> HIDE DEF b
  <2>. QED BY <1>0, <2>1, <2>2 DEF HistOK, SameHist
<1>3. task'[t].pc = "open" /\ Others(t)
  <2>1. "open" \in PCs /\ Goto(t, "open")
    BY DEF PCs, OpenStart
  <2>. QED BY <1>0, <2>1, GotoFacts DEF Others
<1>. QED BY <1>0, <1>1, <1>2, <1>3, CountersOnly DEF Others

\* The file is found and counted.
LEMMA OpenFindData ==
  ASSUME TypeInv, DataInv, NEW t \in Tasks, OpenFind(t) \/ OpenFound(t)
  PROVE  DataInv'
<1>0. TasksOK /\ FileOK /\ task[t].pc \in {"open", "find"}
  BY DEF TypeInv, OpenFind, OpenFound
<1>1. SameData /\ SameHist /\ UNCHANGED <<cache, flash, hist>>
  BY <1>0 DEF OpenFind, OpenFound, SameData, SameHist, FileOK
<1>2. task'[t].pc \in {"find", "opened"} /\ Others(t)
  BY <1>0 DEF OpenFind, OpenFound, Goto, Others, TasksOK
<1>. QED BY <1>0, <1>1, <1>2, CountersOnly DEF Others

\* A struct sfile that is not yet set up says nothing.
LEMMA OpenNewData ==
  ASSUME TypeInv, CountInv, DataInv, NEW t \in Tasks, OpenNew(t)
  PROVE  DataInv'
<1> SUFFICES ASSUME ~hist'.overlap PROVE DataInv'
  BY DEF DataInv
<1>0. TasksOK /\ task[t].pc = "open" /\ ~fp.linked /\ UNCHANGED <<cache, flash, hist>>
  BY DEF TypeInv, OpenNew
<1>1. ~hist.overlap /\ HistData /\ Alone
  BY <1>0 DEF DataInv, CountInv
<1>2. task'[t].pc = "init" /\ Others(t)
  BY <1>0 DEF OpenNew, Others, TasksOK
<1>3. ~Up /\ ~Up'
  BY <1>0, <1>2 DEF Up
<1>4. Stages'
  BY <1>0, <1>1, <1>2 DEF Stages, Alone, Opening, Closing, Others
<1>. QED BY <1>0, <1>1, <1>3, <1>4, DataKept DEF Changed, HistData

\* The file is set up, with what the metadata says or empty.
LEMMA OpenInitData ==
  ASSUME TypeInv, CountInv, DataInv, NEW t \in Tasks, OpenInit(t)
  PROVE  DataInv'
<1> SUFFICES ASSUME ~hist'.overlap PROVE DataInv'
  BY DEF DataInv
<1>0. FileOK /\ TasksOK /\ HistOK /\ task[t].pc = "init" /\ UNCHANGED <<cache, flash>>
  BY DEF TypeInv, OpenInit
<1>2. task'[t].pc = "opened" /\ Others(t)
  <2>1. "opened" \in PCs /\ Goto(t, "opened")
    BY DEF PCs, OpenInit
  <2>. QED BY <1>0, <2>1, GotoFacts DEF Others
<1>3. PICK fails \in BOOLEAN :
        LET len == IF Accepts(fp.base, fails) THEN cache[0].len ELSE 0
        IN /\ fp' = [fp EXCEPT !.magic = TRUE, !.refcnt = 1, !.dirty = FALSE,
                               !.base = Base, !.fsize = len, !.offset = 0]
           /\ hist' = [hist EXCEPT !.sure = @ /\ Data(cache, len) = hist.content,
                                   !.unread = @ \/ fails]
  BY Zenon DEF OpenInit
<1> DEFINE len == IF Accepts(fp.base, fails) THEN cache[0].len ELSE 0
           a == hist.sure /\ Data(cache, len) = hist.content
           b == hist.unread \/ fails
<1>4. /\ fp' = [fp EXCEPT !.magic = TRUE, !.refcnt = 1, !.dirty = FALSE,
                          !.base = Base, !.fsize = len, !.offset = 0]
      /\ hist' = [hist EXCEPT !.sure = a, !.unread = b]
  BY <1>3, Zenon
<1>5. a \in BOOLEAN /\ (a => hist.sure)
  OBVIOUS
<1> HIDE DEF len, a, b
<1>6. /\ fp'.magic = TRUE /\ fp'.dirty = FALSE /\ fp'.base = Base /\ fp'.fsize = len /\ fp'.offset = 0
      /\ fp'.linked = fp.linked
  BY <1>0, <1>4 DEF FileOK
<1>7. /\ hist'.sure = a /\ hist'.overlap = hist.overlap /\ hist'.content = hist.content
      /\ hist'.pending = hist.pending /\ hist'.stored = hist.stored
  BY <1>0, <1>4 DEF HistOK
<1>8. ~hist.overlap /\ HistData /\ Alone /\ PartOK(cache, hist.stored)
  BY <1>7 DEF DataInv, CountInv
<1>9. len \in 0 .. Cells
  <2>1. HasMeta(cache) => cache[0].len \in 0 .. Cells
    BY <1>8, PartFacts DEF HistData
  <2>. QED BY <2>1, SFileAssumption DEF len, Accepts
<1>10. ~Up /\ ~Changed' /\ SetUp'
  <2>1. ~Up
    BY <1>0 DEF Up
  <2>2. ~Changed'
    BY <1>6 DEF Changed
  <2>3. 0 \in Int
    OBVIOUS
  <2>4. SetUp'
    BY <1>6, <1>9, <2>3, Zenon DEF SetUp, Base
  <2>. QED BY <2>1, <2>2, <2>4
<1>11. Stages'
  BY <1>0, <1>2, <1>8 DEF Stages, Alone, Opening, Closing, Others
<1>. QED BY <1>0, <1>5, <1>7, <1>8, <1>10, <1>11, DataKept DEF Changed

\* The file that cannot be read is gone again.
LEMMA OpenUnreadData ==
  ASSUME TypeInv, CountInv, DataInv, NEW t \in Tasks, OpenUnread(t)
  PROVE  DataInv'
<1> SUFFICES ASSUME ~hist'.overlap PROVE DataInv'
  BY DEF DataInv
<1>0. TasksOK /\ task[t].pc = "init" /\ UNCHANGED <<cache, flash, hist>>
  BY DEF TypeInv, OpenUnread
<1>1. ~hist.overlap /\ HistData /\ Alone
  BY <1>0 DEF DataInv, CountInv
<1>2. task'[t].pc = "opened" /\ Others(t) /\ ~fp'.linked
  BY <1>0 DEF OpenUnread, Others, TasksOK, NoFile
<1>3. ~Up /\ ~Up'
  BY <1>0, <1>2 DEF Up
<1>4. Stages'
  BY <1>0, <1>1, <1>2 DEF Stages, Alone, Opening, Closing, Others
<1>. QED BY <1>0, <1>1, <1>3, <1>4, DataKept DEF Changed, HistData

\* A read or a new offset.
LEMMA MoveData ==
  ASSUME TypeInv, DataInv, NEW t \in Tasks, Read(t) \/ \E offset \in Offsets : SetOffset(t, offset)
  PROVE  DataInv'
<1> SUFFICES ASSUME ~hist'.overlap PROVE DataInv'
  BY DEF DataInv
<1>0. FileOK /\ UNCHANGED <<cache, flash, hist, task>>
  BY DEF TypeInv, Read, SetOffset
<1>1. ~hist.overlap /\ HistData /\ (Up => SetUp) /\ Stages
  BY <1>0 DEF DataInv
<1>2. \E o : fp' = [fp EXCEPT !.offset = o] /\ (o = fp.offset + 1 \/ o \in Offsets)
  <2>1. CASE Read(t)
    BY <1>0, <2>1, Zenon DEF Read
  <2>2. ASSUME NEW o \in Offsets, SetOffset(t, o)
        PROVE  fp' = [fp EXCEPT !.offset = o]
    BY <2>2 DEF SetOffset
  <2>. QED BY <2>1, <2>2
<1>3. PICK o : fp' = [fp EXCEPT !.offset = o] /\ (o = fp.offset + 1 \/ o \in Offsets)
  BY <1>2
<1>4. /\ fp'.linked = fp.linked /\ fp'.dirty = fp.dirty /\ fp'.base = fp.base
      /\ fp'.magic = fp.magic /\ fp'.fsize = fp.fsize /\ fp'.offset = o
  BY <1>0, <1>3 DEF FileOK
<1>5. (Up' <=> Up) /\ Stages'
  BY <1>0, <1>1, <1>4 DEF Up, Stages
<1>6. Up' => SetUp'
  BY <1>1, <1>3, <1>4, <1>5 DEF SetUp, Offsets
<1>. QED BY <1>0, <1>1, <1>4, <1>5, <1>6, DataKept DEF Changed, HistData

\* The steps of a close up to the counter.
LEMMA CloseData ==
  ASSUME TypeInv, DataInv, NEW t \in Tasks, Close(t)
  PROVE  DataInv'
<1>0. TasksOK /\ HistOK /\ FileOK /\ task[t].pc = "opened"
  BY DEF TypeInv, Close, Uses
<1>1. SameData /\ UNCHANGED <<cache, flash>>
  BY <1>0 DEF Close, SameData, FileOK
<1>2. SameHist /\ (hist.overlap => hist'.overlap)
  <2> DEFINE b == hist.overlap \/ Opening # {}
  <2>1. hist' = [hist EXCEPT !.overlap = b]
    BY Zenon DEF Close
  <2>2. hist.overlap => b
    OBVIOUS
  <2> HIDE DEF b
  <2>. QED BY <1>0, <2>1, <2>2 DEF HistOK, SameHist
<1>3. task'[t].pc \in {"close", "idle"} /\ Others(t)
  BY <1>0 DEF Close, Others, TasksOK, Idle
<1>. QED BY <1>0, <1>1, <1>2, <1>3, CountersOnly DEF Others

\* The last close goes on to the store of a dirty file.
LEMMA CloseCountData ==
  ASSUME TypeInv, DataInv, NEW t \in Tasks, CloseCount(t)
  PROVE  DataInv'
<1>0. TasksOK /\ FileOK /\ task[t].pc = "close" /\ UNCHANGED <<cache, flash, hist>>
  BY DEF TypeInv, CloseCount
<1>1. SameData /\ SameHist
  BY <1>0 DEF CloseCount, SameData, SameHist, FileOK
<1>2. /\ task'[t].pc = "idle" \/ task'[t].pc = IF fp.dirty THEN "store" ELSE "unlink"
      /\ Others(t)
  BY <1>0 DEF CloseCount, Others, TasksOK, Idle
<1>3. task'[t].pc # "init"
  BY <1>2
<1>. QED BY <1>0, <1>1, <1>2, <1>3, CountersOnly DEF Others

\* A clean file is taken off the list.
LEMMA CloseUnlinkData ==
  ASSUME TypeInv, CountInv, DataInv, NEW t \in Tasks, CloseUnlink(t)
  PROVE  DataInv'
<1> SUFFICES ASSUME ~hist'.overlap PROVE DataInv'
  BY DEF DataInv
<1>0. TasksOK /\ task[t].pc = "unlink" /\ UNCHANGED <<cache, flash, hist>>
  BY DEF TypeInv, CloseUnlink
<1>1. ~hist.overlap /\ HistData /\ HaveIt /\ LockHeld /\ Stages
  BY <1>0 DEF DataInv, CountInv
<1>2. Has(t) /\ fp.lock = t /\ ~fp.dirty
  BY <1>0, <1>1 DEF HaveIt, LockHeld, Stages
<1>3. ~fp'.linked /\ fp' = [NoFile EXCEPT !.gen = fp.gen]
  BY <1>2 DEF CloseUnlink, NoFile
<1>4. task'[t].pc = "unlock" /\ Others(t)
  BY <1>0 DEF CloseUnlink, Goto, Others, TasksOK
<1>5. ~Changed /\ ~Up' /\ ~Changed'
  BY <1>2, <1>3 DEF Changed, Up
<1>6. Stages'
  BY <1>1, <1>2, <1>4 DEF Stages, LockHeld, Others
<1>. QED BY <1>0, <1>1, <1>5, <1>6, DataKept DEF HistData

\* The lock of the freed file.
LEMMA CloseUnlockData ==
  ASSUME TypeInv, DataInv, NEW t \in Tasks, CloseUnlock(t)
  PROVE  DataInv'
<1>0. TasksOK /\ FileOK /\ task[t].pc = "unlock" /\ UNCHANGED <<cache, flash, hist>>
  BY DEF TypeInv, CloseUnlock
<1>1. SameData /\ SameHist
  BY <1>0 DEF CloseUnlock, SameData, SameHist, FileOK
<1>2. task'[t].pc = "idle" /\ Others(t)
  BY <1>0 DEF CloseUnlock, Others, TasksOK, Idle
<1>. QED BY <1>0, <1>1, <1>2, CountersOnly DEF Others

----------------------------------------------------------------------------
(* The steps that change it *)

\* Whoever uses the file under its lock uses a file that is set up.
LEMMA UsesUp ==
  ASSUME TypeInv, CountInv, ~hist.overlap, NEW t \in Tasks, Uses(t)
  PROVE  Up
<1>1. task[t].pc = "opened" /\ Has(t) /\ NewIsUnshared
  BY DEF Uses, Locks, CountInv
<1>2. t \in Holders
  BY <1>1 DEF Holders
<1>. QED BY <1>1, <1>2 DEF Up, Has, NewIsUnshared

\* So does the close that stores it.
LEMMA StoresUp ==
  ASSUME TypeInv, CountInv, ~hist.overlap, NEW t \in Tasks, task[t].pc = "store"
  PROVE  Up
<1>1. Alone /\ Has(t)
  BY DEF CountInv, HaveIt
<1>. QED BY <1>1 DEF Up, Has, Alone, Opening, Closing

\* A write changes a cell of the partition, and makes the file dirty.
LEMMA WriteData ==
  ASSUME TypeInv, CountInv, DataInv, NEW t \in Tasks, NEW v \in Values, Write(t, v)
  PROVE  DataInv'
<1> SUFFICES ASSUME ~hist'.overlap PROVE DataInv'
  BY DEF DataInv
<1> DEFINE size == fp.offset + 1
           fsize == IF size > fp.fsize THEN size ELSE fp.fsize
           done == [cache EXCEPT ![Place] = v]
<1>1. /\ Uses(t) /\ InBounds /\ Place >= 0 /\ cache' = done /\ UNCHANGED <<flash, task>>
      /\ fp' = [fp EXCEPT !.dirty = TRUE, !.offset = size, !.fsize = fsize]
      /\ hist' = [hist EXCEPT !.sure = TRUE, !.pending = TRUE, !.content = Data(cache', fsize)]
  BY Zenon DEF Write
<1> HIDE DEF size, fsize, done
<1>2. /\ fp'.linked = fp.linked /\ fp'.dirty = TRUE /\ fp'.base = fp.base /\ fp'.magic = fp.magic
      /\ fp'.fsize = fsize /\ fp'.offset = size
  BY <1>1 DEF TypeInv, FileOK
<1>3. /\ hist'.sure = TRUE /\ hist'.pending = TRUE /\ hist'.content = Data(cache', fsize)
      /\ hist'.stored = hist.stored /\ hist'.overlap = hist.overlap
  BY <1>1 DEF TypeInv, HistOK
<1>4. /\ ~hist.overlap /\ HistData /\ PartOK(cache, hist.stored) /\ PartOK(flash, hist.stored)
      /\ (Up => SetUp) /\ Stages
  BY <1>3 DEF DataInv
<1>5. Up /\ SetUp
  BY <1>1, <1>4, UsesUp
<1>6. Place \in 0 .. Cells /\ size \in Int /\ fsize \in 0 .. Cells
  BY <1>1, <1>5, SFileAssumption DEF SetUp, Base, Len0, InBounds, Place, size, fsize
<1>7. PartOK(done, hist.stored)
  BY <1>4, <1>6, CellWritten DEF done
<1>10. Up' /\ SetUp' /\ Changed'
  <2>1. Up'
    BY <1>1, <1>2, <1>5 DEF Up
  <2>2. SetUp'
    BY <1>2, <1>5, <1>6, Zenon DEF SetUp, Base
  <2>. QED BY <1>2, <2>1, <2>2 DEF Changed
<1>11. HistData'
  BY <1>3, <1>4 DEF HistData
<1>12. PartOK(cache', hist'.stored) /\ PartOK(flash', hist'.stored)
  BY <1>1, <1>3, <1>4, <1>7
<1>13. Kept' /\ Synced'
  <2>1. Data(cache', fp'.fsize) = hist'.content
    BY <1>2, <1>3
  <2>. QED BY <1>3, <1>10, <2>1 DEF Kept, Synced
<1>14. Stages'
  <2>1. \A u \in Tasks : task[u].pc # "unlink"
    BY <1>1, <1>4, SFileAssumption DEF CountInv, LockHeld, Uses, Locks
  <2>. QED BY <1>1, <1>2, <2>1 DEF Stages
<1>. QED BY <1>10, <1>11, <1>12, <1>13, <1>14 DEF DataInv

\* A failed write that was done is seen by the users of a dirty file only.
LEMMA WriteFailsData ==
  ASSUME TypeInv, CountInv, DataInv, NEW t \in Tasks, NEW v \in Values, WriteFails(t, v)
  PROVE  DataInv'
<1> SUFFICES ASSUME ~hist'.overlap PROVE DataInv'
  BY DEF DataInv
<1> DEFINE done == [cache EXCEPT ![Place] = v]
           sure == hist.sure /\ (fp.dirty \/ cache' = cache)
           content == IF fp.dirty THEN Data(cache', fp.fsize) ELSE hist.content
<1>1. /\ Uses(t) /\ InBounds /\ UNCHANGED <<flash, fp, task>>
      /\ cache' = cache \/ (Place >= 0 /\ cache' = done)
      /\ hist' = [hist EXCEPT !.sure = sure, !.content = content]
  BY DEF WriteFails, View
<1>2. sure \in BOOLEAN /\ (sure => hist.sure /\ (fp.dirty \/ cache' = cache))
  OBVIOUS
<1> HIDE DEF done, sure, content
<1>3. /\ hist'.sure = sure /\ hist'.pending = hist.pending /\ hist'.content = content
      /\ hist'.stored = hist.stored /\ hist'.overlap = hist.overlap
  BY <1>1 DEF TypeInv, HistOK
<1>4. /\ ~hist.overlap /\ HistData /\ PartOK(cache, hist.stored) /\ PartOK(flash, hist.stored)
      /\ (Up => SetUp) /\ Kept /\ Synced /\ Stages
  BY <1>3 DEF DataInv
<1>5. Up /\ SetUp
  BY <1>1, <1>4, UsesUp
<1>6. Place >= 0 => Place \in 0 .. Cells
  BY <1>1, <1>5, SFileAssumption DEF SetUp, Base, Len0, InBounds, Place
<1>7. PartOK(cache', hist.stored)
  BY <1>1, <1>4, <1>6, CellWritten DEF done
<1>8. (Up' <=> Up) /\ (SetUp' <=> SetUp) /\ (Changed' <=> Changed) /\ (Stages' <=> Stages)
  BY <1>1 DEF Up, SetUp, Changed, Stages
<1>9. HistData'
  BY <1>2, <1>3, <1>4 DEF HistData
<1>10. Kept'
  <2>1. CASE fp.dirty
    <3>1. Changed' /\ content = Data(cache', fp.fsize)
      BY <1>5, <1>8, <2>1 DEF Changed, content
    <3>2. Data(cache', fp'.fsize) = hist'.content
      BY <1>1, <1>3, <3>1
    <3>. QED BY <3>1, <3>2 DEF Kept
  <2>2. CASE ~fp.dirty
    <3>1. ~Changed /\ ~Changed' /\ content = hist.content /\ (sure => cache' = cache)
      BY <1>2, <1>8, <2>2 DEF Changed, content
    <3>2. sure => (Consistent' <=> Consistent)
      BY <1>3, <3>1 DEF Consistent, HasMeta, Data
    <3>. QED BY <1>2, <1>3, <1>4, <3>1, <3>2 DEF Kept
  <2>. QED BY <2>1, <2>2
<1>11. Synced'
  <2>1. Changed' => hist'.pending
    BY <1>3, <1>4, <1>8 DEF Synced
  <2>2. ASSUME hist'.sure, ~hist'.pending PROVE cache' = flash'
    <3>1. hist.sure /\ ~hist.pending /\ ~fp.dirty
      BY <1>2, <1>3, <1>4, <1>5, <2>2 DEF Synced, Changed
    <3>. QED BY <1>1, <1>2, <1>3, <1>4, <2>2, <3>1 DEF Synced
  <2>. QED BY <2>1, <2>2 DEF Synced
<1>. QED BY <1>1, <1>3, <1>4, <1>5, <1>7, <1>8, <1>9, <1>10, <1>11 DEF DataInv

\* An invalidated file is empty, unless it is dirty.
LEMMA InvalidData ==
  ASSUME TypeInv, CountInv, DataInv, NEW t \in Tasks, Invalid(t)
  PROVE  DataInv'
<1> SUFFICES ASSUME ~hist'.overlap PROVE DataInv'
  BY DEF DataInv
<1> DEFINE m == Meta(TRUE, 0, <<>>)
           sure == ~fp.dirty
<1>1. /\ Uses(t) /\ UNCHANGED <<flash, task>> /\ cache' = [cache EXCEPT ![0] = m]
      /\ fp' = [fp EXCEPT !.magic = TRUE]
      /\ hist' = [hist EXCEPT !.sure = sure, !.pending = TRUE, !.content = <<>>]
  BY DEF Invalid
<1>2. 0 \in 0 .. Cells /\ <<>> \in Contents
  BY NoData, SFileAssumption
<1>2a. m.magic = TRUE /\ m.len = 0 /\ m.crc = <<>> /\ m \notin Values \cup {Blank}
  BY <1>2, MetaFacts, Zenon
<1>2b. sure \in BOOLEAN /\ (sure => ~fp.dirty)
  OBVIOUS
<1> HIDE DEF m, sure
<1>3. /\ fp'.linked = fp.linked /\ fp'.dirty = fp.dirty /\ fp'.base = fp.base /\ fp'.magic = TRUE
      /\ fp'.fsize = fp.fsize /\ fp'.offset = fp.offset
  BY <1>1 DEF TypeInv, FileOK
<1>4. /\ hist'.sure = sure /\ hist'.pending = TRUE /\ hist'.content = <<>>
      /\ hist'.stored = hist.stored /\ hist'.overlap = hist.overlap
  BY <1>1 DEF TypeInv, HistOK
<1>5. /\ ~hist.overlap /\ HistData /\ PartOK(cache, hist.stored) /\ PartOK(flash, hist.stored)
      /\ (Up => SetUp) /\ Stages
  BY <1>4 DEF DataInv
<1>6. Up /\ SetUp
  BY <1>1, <1>5, UsesUp
<1>7. PartOK(cache', hist.stored) /\ cache'[0] = m
  <2>1. <<>> \in hist.stored \cup {<<>>}
    OBVIOUS
  <2>2. cache' = [cache EXCEPT ![0] = Meta(TRUE, 0, <<>>)]
    BY <1>1 DEF m
  <2>3. PartOK([cache EXCEPT ![0] = Meta(TRUE, 0, <<>>)], hist.stored)
    BY <1>2, <1>5, <2>1, MetaWritten, Zenon
  <2>4. [cache EXCEPT ![0] = Meta(TRUE, 0, <<>>)][0] = Meta(TRUE, 0, <<>>)
    BY <1>2, <1>5 DEF PartOK
  <2>. QED BY <2>2, <2>3, <2>4 DEF m
<1>8. Up' /\ SetUp' /\ (Changed' <=> Changed) /\ Stages'
  BY <1>1, <1>3, <1>5, <1>6 DEF Up, SetUp, Changed, Stages
<1>9. HistData'
  BY <1>2b, <1>4, <1>5 DEF HistData
<1>10. Kept'
  <2> SUFFICES ASSUME hist'.sure PROVE Kept'
    BY DEF Kept
  <2>1. ~Changed'
    BY <1>2b, <1>4, <1>8 DEF Changed
  <2>2. Consistent'
    BY <1>2a, <1>4, <1>7, NoData DEF Consistent, HasMeta
  <2>. QED BY <2>1, <2>2 DEF Kept
<1>. QED BY <1>1, <1>4, <1>5, <1>7, <1>8, <1>9, <1>10 DEF DataInv, Synced

\* A failed invalidation that was done leaves only a dirty file what it was.
LEMMA InvalidFailsData ==
  ASSUME TypeInv, CountInv, DataInv, NEW t \in Tasks, InvalidFails(t)
  PROVE  DataInv'
<1> SUFFICES ASSUME ~hist'.overlap PROVE DataInv'
  BY DEF DataInv
<1> DEFINE done == [cache EXCEPT ![0] = Meta(TRUE, 0, <<>>)]
           sure == hist.sure /\ (fp.dirty \/ cache' = cache)
<1>1. /\ Uses(t) /\ UNCHANGED <<flash, task>> /\ (cache' = cache \/ cache' = done)
      /\ fp' = [fp EXCEPT !.magic = TRUE] /\ hist' = [hist EXCEPT !.sure = sure]
  BY DEF InvalidFails
<1>2. sure \in BOOLEAN /\ (sure => hist.sure /\ (fp.dirty \/ cache' = cache))
  OBVIOUS
<1> HIDE DEF done, sure
<1>3. /\ fp'.linked = fp.linked /\ fp'.dirty = fp.dirty /\ fp'.base = fp.base /\ fp'.magic = TRUE
      /\ fp'.fsize = fp.fsize /\ fp'.offset = fp.offset
  BY <1>1 DEF TypeInv, FileOK
<1>4. /\ hist'.sure = sure /\ hist'.pending = hist.pending /\ hist'.content = hist.content
      /\ hist'.stored = hist.stored /\ hist'.overlap = hist.overlap
  BY <1>1 DEF TypeInv, HistOK
<1>5. /\ ~hist.overlap /\ HistData /\ PartOK(cache, hist.stored) /\ PartOK(flash, hist.stored)
      /\ (Up => SetUp) /\ Kept /\ Synced /\ Stages
  BY <1>4 DEF DataInv
<1>6. Up /\ SetUp
  BY <1>1, <1>5, UsesUp
<1>7. PartOK(cache', hist.stored) /\ \A i \in 1 .. Cells : cache'[i] = cache[i]
  <2>1. <<>> \in hist.stored \cup {<<>>} /\ 0 \in 0 .. Cells
    BY SFileAssumption
  <2>2. PartOK(done, hist.stored)
    BY <1>5, <2>1, MetaWritten, Zenon DEF done
  <2>3. \A i \in 1 .. Cells : done[i] = cache[i]
    BY <1>5, SFileAssumption DEF done, PartOK
  <2>. QED BY <1>1, <1>5, <2>2, <2>3
<1>8. Up' /\ SetUp' /\ (Changed' <=> Changed) /\ Stages'
  BY <1>1, <1>3, <1>5, <1>6 DEF Up, SetUp, Changed, Stages
<1>9. HistData'
  BY <1>2, <1>4, <1>5 DEF HistData
<1>10. Kept'
  <2>1. CASE fp.dirty
    <3>1. Changed /\ Changed'
      BY <1>6, <1>8, <2>1 DEF Changed
    <3>2. Data(cache', fp'.fsize) = Data(cache, fp.fsize)
      BY <1>3, <1>7, DataSame
    <3>. QED BY <1>2, <1>4, <1>5, <3>1, <3>2 DEF Kept
  <2>2. CASE ~fp.dirty
    <3>1. ~Changed /\ ~Changed' /\ (sure => cache' = cache)
      BY <1>2, <1>8, <2>2 DEF Changed
    <3>2. sure => (Consistent' <=> Consistent)
      BY <1>4, <3>1 DEF Consistent, HasMeta, Data
    <3>. QED BY <1>2, <1>4, <1>5, <3>1, <3>2 DEF Kept
  <2>. QED BY <2>1, <2>2
<1>11. Synced'
  <2>1. Changed' => hist'.pending
    BY <1>4, <1>5, <1>8 DEF Synced
  <2>2. ASSUME hist'.sure, ~hist'.pending PROVE cache' = flash'
    <3>1. hist.sure /\ ~hist.pending /\ ~fp.dirty
      BY <1>2, <1>4, <1>5, <1>6, <2>2 DEF Synced, Changed
    <3>. QED BY <1>1, <1>2, <1>4, <1>5, <2>2, <3>1 DEF Synced
  <2>. QED BY <2>1, <2>2 DEF Synced
<1>. QED BY <1>1, <1>4, <1>5, <1>7, <1>8, <1>9, <1>10, <1>11 DEF DataInv

\* The checksum that a close computes is of what the users saw, or of nothing.
LEMMA SumFacts ==
  ASSUME TypeInv, CountInv, DataInv, ~hist.overlap, NEW t \in Tasks, task[t].pc = "store"
  PROVE  /\ Up /\ SetUp /\ fp.dirty
         /\ Chksum(cache, fp.base, fp.fsize, TRUE) = <<>>
         /\ Chksum(cache, fp.base, fp.fsize, FALSE) = Data(cache, fp.fsize)
         /\ Data(cache, fp.fsize) \in Contents
<1>1. Up /\ SetUp /\ fp.dirty /\ PartOK(cache, hist.stored)
  BY StoresUp DEF DataInv, Stages
<1>2. fp.base = Base /\ fp.fsize \in 0 .. Cells /\ \A i \in 1 .. Cells : cache[i] \in Values \cup {Blank}
  BY <1>1 DEF SetUp, PartOK
<1>3. /\ Data(cache, fp.fsize) \in Contents
      /\ Chksum(cache, fp.base, fp.fsize, FALSE) = Data(cache, fp.fsize)
  BY <1>2, DataFacts
<1>. QED BY <1>1, <1>3 DEF Chksum

\* The metadata of the file is in the cache.
LEMMA MetaStored ==
  ASSUME SetUp, NEW stored, PartOK(cache, stored), NEW crc \in Contents, NEW s, crc \in s,
         cache' = [cache EXCEPT ![0] = Meta(fp.magic, fp.fsize, crc)]
  PROVE  /\ PartOK(cache', s) /\ HasMeta(cache')
         /\ cache'[0].magic = TRUE /\ cache'[0].len = fp.fsize /\ cache'[0].crc = crc
         /\ Data(cache', fp.fsize) = Data(cache, fp.fsize)
<1> DEFINE m == Meta(TRUE, fp.fsize, crc)
<1>1. fp.magic = TRUE /\ fp.fsize \in 0 .. Cells /\ crc \in s \cup {<<>>}
  BY DEF SetUp
<1>2. m.magic = TRUE /\ m.len = fp.fsize /\ m.crc = crc /\ m \notin Values \cup {Blank}
  BY <1>1, MetaFacts, Zenon
<1>3. cache' = [cache EXCEPT ![0] = m]
  BY <1>1, Zenon
<1>4. PartOK([cache EXCEPT ![0] = m], s)
  BY <1>1, MetaWritten, Zenon
<1> HIDE DEF m
<1>5. cache'[0] = m /\ \A i \in 1 .. Cells : cache'[i] = cache[i]
  <2>1. cache = [i \in 0 .. Cells |-> cache[i]]
    BY DEF PartOK
  <2>. QED BY <1>3, <2>1, SFileAssumption
<1>6. Data(cache', fp.fsize) = Data(cache, fp.fsize)
  BY <1>5, DataSame, ZenonT(60)
<1>. QED BY <1>2, <1>3, <1>4, <1>5, <1>6 DEF HasMeta

\* A close stores the metadata, synced or not.
LEMMA StoreData ==
  ASSUME TypeInv, CountInv, DataInv, ~hist.overlap, ~hist'.overlap,
         NEW t \in Tasks, task[t].pc = "store", task'[t].pc = "unlink", Others(t),
         fp' = [fp EXCEPT !.dirty = FALSE],
         NEW fails \in BOOLEAN, NEW crc, crc = Chksum(cache, fp.base, fp.fsize, fails),
         cache' = [cache EXCEPT ![0] = Meta(fp.magic, fp.fsize, crc)],
         crc \in hist'.stored, hist'.stored \subseteq hist.stored \cup {crc},
         flash' = cache' \/ (flash' = flash /\ hist.stored \subseteq hist'.stored /\ hist'.pending),
         hist'.pending \in BOOLEAN, hist'.content = hist.content,
         hist'.sure \in BOOLEAN, hist'.sure => hist.sure /\ ~fails
  PROVE  DataInv'
<1>1. /\ Up /\ SetUp /\ fp.dirty /\ (~fails => crc = Data(cache, fp.fsize)) /\ crc \in Contents
  BY SumFacts, NoData
<1>2. HistData /\ PartOK(cache, hist.stored) /\ PartOK(flash, hist.stored) /\ Kept /\ LockHeld
  BY DEF DataInv, CountInv
<1>3. /\ PartOK(cache', hist'.stored) /\ HasMeta(cache')
      /\ cache'[0].magic = TRUE /\ cache'[0].len = fp.fsize /\ cache'[0].crc = crc
      /\ Data(cache', fp.fsize) = Data(cache, fp.fsize)
  BY <1>1, <1>2, MetaStored
<1>4. PartOK(flash', hist'.stored)
  BY <1>2, <1>3, PartKept
<1>5. HistData'
  BY <1>1, <1>2 DEF HistData
<1>6. /\ fp'.linked = fp.linked /\ fp'.dirty = FALSE /\ fp'.base = fp.base /\ fp'.magic = fp.magic
      /\ fp'.fsize = fp.fsize /\ fp'.offset = fp.offset
  BY DEF TypeInv, FileOK
<1>7. SetUp' /\ ~Changed'
  BY <1>1, <1>6, Zenon DEF SetUp, Changed, Base
<1>8. Kept'
  <2> SUFFICES ASSUME hist'.sure PROVE Consistent'
    BY <1>7 DEF Kept
  <2>1. Data(cache, fp.fsize) = hist.content /\ crc = Data(cache, fp.fsize)
    BY <1>1, <1>2 DEF Kept, Changed
  <2>. QED BY <1>3, <2>1 DEF Consistent
<1>9. Synced'
  BY <1>7 DEF Synced
<1>10. Stages'
  BY <1>2, <1>6 DEF Stages, LockHeld, Others
<1>. QED BY <1>3, <1>4, <1>5, <1>7, <1>8, <1>9, <1>10 DEF DataInv

\* Nothing fails.
LEMMA CloseStoreData ==
  ASSUME TypeInv, CountInv, DataInv, NEW t \in Tasks, CloseStore(t)
  PROVE  DataInv'
<1> SUFFICES ASSUME ~hist'.overlap PROVE DataInv'
  BY DEF DataInv
<1> DEFINE crc == Chksum(cache, fp.base, fp.fsize, FALSE)
<1>1. /\ task[t].pc = "store" /\ cache' = [cache EXCEPT ![0] = Meta(fp.magic, fp.fsize, crc)]
      /\ flash' = cache' /\ fp' = [fp EXCEPT !.dirty = FALSE]
      /\ hist' = [hist EXCEPT !.pending = FALSE, !.stored = {crc}]
      /\ Goto(t, "unlink")
  BY DEF CloseStore
<1> HIDE DEF crc
<1>2. /\ hist'.pending = FALSE /\ hist'.stored = {crc} /\ hist'.sure = hist.sure
      /\ hist'.content = hist.content /\ hist'.overlap = hist.overlap
  BY <1>1 DEF TypeInv, HistOK
<1>3. task'[t].pc = "unlink" /\ Others(t)
  BY <1>1, GotoFacts DEF TypeInv, PCs, Others
<1>4. ~hist.overlap /\ hist.sure \in BOOLEAN
  BY <1>2 DEF DataInv, HistData
<1>5. crc = Chksum(cache, fp.base, fp.fsize, FALSE) /\ FALSE \in BOOLEAN
  BY DEF crc
<1>. QED BY <1>1, <1>2, <1>3, <1>4, <1>5, StoreData

\* The checksum or the sync fails.
LEMMA CloseStoreBadlyData ==
  ASSUME TypeInv, CountInv, DataInv, NEW t \in Tasks, CloseStoreBadly(t)
  PROVE  DataInv'
<1> SUFFICES ASSUME ~hist'.overlap PROVE DataInv'
  BY DEF DataInv
<1>1. task[t].pc = "store" /\ fp' = [fp EXCEPT !.dirty = FALSE] /\ Goto(t, "unlink")
  BY DEF CloseStoreBadly
<1>2. PICK fails, synced \in BOOLEAN :
        LET crc == Chksum(cache, fp.base, fp.fsize, fails) IN
        /\ cache' = [cache EXCEPT ![0] = Meta(fp.magic, fp.fsize, crc)]
        /\ flash' = IF synced THEN cache' ELSE flash
        /\ hist' = [hist EXCEPT !.unread = @ \/ fails, !.sure = @ /\ ~fails,
                                !.pending = ~synced,
                                !.stored = IF synced THEN {crc} ELSE @ \cup {crc}]
  BY Zenon DEF CloseStoreBadly
<1> DEFINE crc == Chksum(cache, fp.base, fp.fsize, fails)
           a == hist.unread \/ fails
           b == hist.sure /\ ~fails
           c == ~synced
           d == IF synced THEN {crc} ELSE hist.stored \cup {crc}
<1>3. /\ cache' = [cache EXCEPT ![0] = Meta(fp.magic, fp.fsize, crc)]
      /\ flash' = IF synced THEN cache' ELSE flash
      /\ hist' = [hist EXCEPT !.unread = a, !.sure = b, !.pending = c, !.stored = d]
  BY <1>2, Zenon
<1>4. b \in BOOLEAN /\ (b => hist.sure /\ ~fails) /\ c \in BOOLEAN /\ (~synced => c)
  OBVIOUS
<1>5. crc = Chksum(cache, fp.base, fp.fsize, fails)
  OBVIOUS
<1> HIDE DEF a, b, c, crc
<1>6. crc \in d /\ d \subseteq hist.stored \cup {crc} /\ (~synced => hist.stored \subseteq d)
  OBVIOUS
<1> HIDE DEF d
<1>7. /\ hist'.pending = c /\ hist'.stored = d /\ hist'.sure = b
      /\ hist'.content = hist.content /\ hist'.overlap = hist.overlap
  BY <1>3 DEF TypeInv, HistOK
<1>8. task'[t].pc = "unlink" /\ Others(t)
  BY <1>1, GotoFacts DEF TypeInv, PCs, Others
<1>9. ~hist.overlap
  BY <1>7
<1>10. flash' = cache' \/ (flash' = flash /\ hist.stored \subseteq hist'.stored /\ hist'.pending)
  BY <1>3, <1>4, <1>6, <1>7
<1>. QED BY <1>1, <1>3, <1>4, <1>5, <1>6, <1>7, <1>8, <1>9, <1>10, StoreData, ZenonT(60)

\* The metadata may have been written.
LEMMA CloseFailsData ==
  ASSUME TypeInv, CountInv, DataInv, NEW t \in Tasks, CloseFails(t)
  PROVE  DataInv'
<1> SUFFICES ASSUME ~hist'.overlap PROVE DataInv'
  BY DEF DataInv
<1> DEFINE crc == Chksum(cache, fp.base, fp.fsize, FALSE)
           s == hist.stored \cup {crc}
<1>1. /\ task[t].pc = "store" /\ UNCHANGED flash
      /\ cache' = cache \/ cache' = [cache EXCEPT ![0] = Meta(fp.magic, fp.fsize, crc)]
      /\ hist' = [hist EXCEPT !.sure = FALSE, !.stored = s]
      /\ fp' = [fp EXCEPT !.dirty = FALSE, !.lock = Blank] /\ task' = [task EXCEPT ![t] = Idle]
  BY DEF CloseFails
<1> HIDE DEF s
<1>2. /\ hist'.pending = hist.pending /\ hist'.stored = s /\ hist'.sure = FALSE
      /\ hist'.content = hist.content /\ hist'.overlap = hist.overlap
  BY <1>1 DEF TypeInv, HistOK
<1>3. ~hist.overlap
  BY <1>2
<1>4. Up /\ SetUp /\ fp.dirty /\ crc \in Contents
  BY <1>1, <1>3, SumFacts
<1> HIDE DEF crc
<1>5. HistData /\ PartOK(cache, hist.stored) /\ PartOK(flash, hist.stored) /\ LockHeld
  BY <1>3 DEF DataInv, CountInv
<1>6. crc \in s /\ hist.stored \subseteq s /\ (hist.stored \subseteq Contents => s \subseteq Contents)
  BY <1>4 DEF s
<1>7. HistData'
  BY <1>2, <1>5, <1>6 DEF HistData
<1>8. PartOK(cache', s) /\ PartOK(flash', s)
  <2>1. CASE cache' = cache
    BY <1>1, <1>5, <1>6, <2>1, PartKept
  <2>2. CASE cache' = [cache EXCEPT ![0] = Meta(fp.magic, fp.fsize, crc)]
    <3>1. PartOK(cache', s)
      BY <1>4, <1>5, <1>6, <2>2, MetaStored
    <3>. QED BY <1>1, <1>5, <1>6, <3>1, PartKept
  <2>. QED BY <1>1, <2>1, <2>2
<1>9. /\ fp'.linked = fp.linked /\ fp'.dirty = FALSE /\ fp'.base = fp.base /\ fp'.magic = fp.magic
      /\ fp'.fsize = fp.fsize /\ fp'.offset = fp.offset
  BY <1>1 DEF TypeInv, FileOK
<1>10. SetUp' /\ ~Changed'
  BY <1>4, <1>9, Zenon DEF SetUp, Changed, Base
<1>11. task'[t].pc = "idle" /\ Others(t)
  BY <1>1 DEF TypeInv, TasksOK, Others, Idle
<1>12. Stages'
  BY <1>1, <1>5, <1>11 DEF Stages, LockHeld, Others
<1>. QED BY <1>2, <1>7, <1>8, <1>10, <1>12 DEF DataInv, Kept, Synced

\* What is on the flash after a power cut is blank or was in the cache or on the
\* flash before, cell by cell.
LEMMA PowerFailsData ==
  ASSUME TypeInv, DataInv, PowerFails
  PROVE  DataInv'
<1> SUFFICES ASSUME ~hist'.overlap PROVE DataInv'
  BY DEF DataInv
<1> DEFINE sure == hist.sure /\ ~hist.pending
<1>1. /\ cache' = flash' /\ hist' = [hist EXCEPT !.sure = sure]
      /\ fp' = [NoFile EXCEPT !.gen = fp.gen] /\ task' = [t \in Tasks |-> Idle]
      /\ \/ \E S \in SUBSET (0 .. Cells) :
              flash' = [i \in 0 .. Cells |-> IF i \in S THEN cache[i] ELSE flash[i]]
         \/ cache # flash /\ flash' = [i \in 0 .. Cells |-> Blank]
  BY DEF PowerFails
<1>2. sure \in BOOLEAN /\ (sure => hist.sure /\ ~hist.pending)
  OBVIOUS
<1> HIDE DEF sure
<1>3. /\ hist'.pending = hist.pending /\ hist'.stored = hist.stored /\ hist'.sure = sure
      /\ hist'.content = hist.content /\ hist'.overlap = hist.overlap
  BY <1>1 DEF TypeInv, HistOK
<1>4. /\ ~hist.overlap /\ HistData /\ PartOK(cache, hist.stored) /\ PartOK(flash, hist.stored)
      /\ Kept /\ Synced
  BY <1>3 DEF DataInv
<1>5. PartOK(flash', hist.stored)
  <2>0. 0 \in 0 .. Cells /\ \A i \in 1 .. Cells : i \in 0 .. Cells
    BY SFileAssumption
  <2>1. ASSUME NEW S \in SUBSET (0 .. Cells),
               flash' = [i \in 0 .. Cells |-> IF i \in S THEN cache[i] ELSE flash[i]]
        PROVE  PartOK(flash', hist.stored)
    <3>1. flash'[0] = cache[0] \/ flash'[0] = flash[0]
      BY <2>0, <2>1
    <3>2. \A i \in 1 .. Cells : flash'[i] = cache[i] \/ flash'[i] = flash[i]
      BY <2>0, <2>1
    <3>3. flash' = [i \in 0 .. Cells |-> flash'[i]]
      BY <2>1
    <3>4. \A i \in 1 .. Cells : flash'[i] \in Values \cup {Blank}
      BY <1>4, <3>2 DEF PartOK
    <3>5. \/ flash'[0] \in Values \cup {Blank}
          \/ \E len \in 0 .. Cells, crc \in hist.stored \cup {<<>>} : flash'[0] = Meta(TRUE, len, crc)
      BY <1>4, <3>1, Zenon DEF PartOK
    <3>. QED BY <3>3, <3>4, <3>5, Zenon DEF PartOK
  <2>2. CASE flash' = [i \in 0 .. Cells |-> Blank]
    <3>1. flash'[0] = Blank /\ \A i \in 1 .. Cells : flash'[i] \in Values \cup {Blank}
      BY <2>0, <2>2
    <3>2. flash' = [i \in 0 .. Cells |-> flash'[i]]
      BY <2>2
    <3>. QED BY <3>1, <3>2, Zenon DEF PartOK
  <2>. QED BY <1>1, <2>1, <2>2
<1>6. fp'.linked = FALSE /\ \A t \in Tasks : task'[t].pc = "idle"
  BY <1>1 DEF NoFile, Idle
<1>7. ~Up' /\ ~Changed' /\ Stages'
  BY <1>6 DEF Up, Changed, Stages
<1>8. HistData'
  BY <1>2, <1>3, <1>4 DEF HistData
<1>9. Kept'
  <2> SUFFICES ASSUME hist'.sure PROVE Consistent'
    BY <1>7 DEF Kept
  <2>1. hist.sure /\ ~hist.pending /\ cache = flash /\ ~Changed
    BY <1>2, <1>3, <1>4 DEF Synced
  <2>2. cache' = cache
    <3>1. PICK S \in SUBSET (0 .. Cells) :
            flash' = [i \in 0 .. Cells |-> IF i \in S THEN cache[i] ELSE flash[i]]
      BY <1>1, <2>1
    <3>2. flash' = [i \in 0 .. Cells |-> cache[i]]
      BY <2>1, <3>1
    <3>. QED BY <1>1, <1>4, <3>2 DEF PartOK
  <2>3. Consistent
    BY <1>4, <2>1 DEF Kept
  <2>. QED BY <1>3, <2>2, <2>3 DEF Consistent, HasMeta, Data
<1>10. Synced'
  BY <1>1, <1>7 DEF Synced
<1>. QED BY <1>1, <1>3, <1>5, <1>7, <1>8, <1>9, <1>10 DEF DataInv

----------------------------------------------------------------------------
\* The partition is blank or holds a file.
LEMMA DataInit == Init => DataInv
<1> SUFFICES ASSUME Init PROVE DataInv
  OBVIOUS
<1> DEFINE blank == [i \in 0 .. Cells |-> Blank]
           file(v) == [i \in 0 .. Cells |->
                         IF i = 0 THEN Meta(TRUE, 1, <<v>>) ELSE IF i = 1 THEN v ELSE Blank]
<1>1. PICK part \in {blank} \cup {file(v) : v \in Values} :
         /\ flash = part /\ cache = part
         /\ hist = [overlap |-> FALSE, unread |-> FALSE, sure |-> TRUE, pending |-> FALSE,
                    content |-> IF HasMeta(part) THEN part[0].crc ELSE <<>>,
                    stored |-> {IF HasMeta(part) THEN part[0].crc ELSE <<>>}]
  BY Zenon DEF Init
<1> DEFINE content == IF HasMeta(part) THEN part[0].crc ELSE <<>>
<1>2. /\ hist.sure = TRUE /\ hist.pending = FALSE /\ hist.content = content
      /\ hist.stored = {content}
  BY <1>1
<1>3. ~fp.linked /\ \A t \in Tasks : task[t].pc = "idle"
  BY DEF Init, NoFile, Idle
<1>4. ~Up /\ ~Changed /\ Stages
  BY <1>3 DEF Up, Changed, Stages
<1>5. /\ content \in Contents /\ PartOK(part, {content})
      /\ HasMeta(part) => part[0].magic = TRUE /\ Data(part, part[0].len) = content
  <2>0. /\ 0 \in 0 .. Cells /\ 1 \in 0 .. Cells /\ 1 \in 1 .. Cells
        /\ \A i \in 1 .. Cells : i \in 0 .. Cells /\ i # 0
    BY SFileAssumption
  <2>1. CASE part = blank
    <3>1. part[0] = Blank /\ \A i \in 1 .. Cells : part[i] = Blank
      BY <2>0, <2>1
    <3>2. ~HasMeta(part) /\ content = <<>>
      BY <3>1 DEF HasMeta
    <3>3. part = [i \in 0 .. Cells |-> part[i]]
      BY <2>1
    <3> HIDE DEF content
    <3>. QED BY <3>1, <3>2, <3>3, NoData, Zenon DEF PartOK
  <2>2. ASSUME NEW v \in Values, part = file(v)
        PROVE  /\ content \in Contents /\ PartOK(part, {content})
               /\ HasMeta(part) => part[0].magic = TRUE /\ Data(part, part[0].len) = content
    <3>1. /\ part[0] = Meta(TRUE, 1, <<v>>) /\ part[1] = v
          /\ \A i \in 1 .. Cells : part[i] \in Values \cup {Blank}
      BY <2>0, <2>2
    <3>2. part = [i \in 0 .. Cells |-> part[i]]
      BY <2>2
    <3>3. Data(part, 1) = <<v>>
      BY <3>1, SFileAssumption DEF Data
    <3>4. <<v>> \in Contents
      BY <2>0, <3>1, <3>3, DataFacts
    <3> DEFINE m == Meta(TRUE, 1, <<v>>)
    <3>5. m.magic = TRUE /\ m.len = 1 /\ m.crc = <<v>> /\ m \notin Values \cup {Blank}
      BY <2>0, <3>4, MetaFacts, Zenon
    <3>6. part[0].magic = TRUE /\ part[0].len = 1 /\ part[0].crc = <<v>> /\ HasMeta(part)
      <4> HIDE DEF m
      <4>1. part[0] = m
        BY <3>1, Zenon DEF m
      <4>. QED BY <3>5, <4>1 DEF HasMeta
    <3>7. content = <<v>>
      BY <3>6
    <3> HIDE DEF content, file
    <3>8. PartOK(part, {content})
      <4>1. <<v>> \in {content} \cup {<<>>}
        BY <3>7
      <4>. QED BY <2>0, <3>1, <3>2, <4>1, Zenon DEF PartOK
    <3>. QED BY <3>3, <3>4, <3>6, <3>7, <3>8
  <2>. QED BY <2>1, <2>2
<1> HIDE DEF content, blank, file
<1>6. HistData /\ PartOK(cache, hist.stored) /\ PartOK(flash, hist.stored)
  BY <1>1, <1>2, <1>5 DEF HistData
<1>7. Consistent
  <2>1. HasMeta(part) => part[0].crc = content
    BY DEF content
  <2>2. ~HasMeta(part) => content = <<>>
    BY DEF content
  <2>. QED BY <1>1, <1>2, <1>5, <2>1, <2>2 DEF Consistent
<1>. QED BY <1>1, <1>2, <1>4, <1>6, <1>7 DEF DataInv, Kept, Synced

\* The inductive invariant of the contents.
ContentInv == SFileInv /\ DataInv

\* Every step keeps the invariant of the contents.
LEMMA DataStep ==
  ASSUME TypeInv, CountInv, DataInv, [Next]_vars
  PROVE  DataInv'
<1>1. CASE UNCHANGED vars
  <2>1. UNCHANGED <<flash, cache, fp, task, hist>>
    BY <1>1 DEF vars
  <2>. QED BY <2>1, CountersOnly DEF SameData, SameHist
<1>2. ASSUME NEW t \in Tasks, UseAfterFree(t) \/ OpenNone(t) \/ WriteOutside(t) PROVE DataInv'
  <2>1. UNCHANGED <<flash, cache, fp, task, hist>>
    BY <1>2 DEF UseAfterFree, OpenNone, WriteOutside
  <2>. QED BY <2>1, CountersOnly DEF SameData, SameHist
<1>3. ASSUME NEW t \in Tasks,
             \/ OpenStart(t) \/ OpenFind(t) \/ OpenFound(t) \/ OpenNew(t)
             \/ OpenInit(t) \/ OpenUnread(t)
      PROVE  DataInv'
  BY <1>3, OpenStartData, OpenFindData, OpenNewData, OpenInitData, OpenUnreadData
<1>4. ASSUME NEW t \in Tasks,
             \/ \E v \in Values : Write(t, v) \/ WriteFails(t, v)
             \/ \E offset \in Offsets : SetOffset(t, offset)
             \/ Read(t) \/ Invalid(t) \/ InvalidFails(t)
      PROVE  DataInv'
  BY <1>4, WriteData, WriteFailsData, MoveData, InvalidData, InvalidFailsData, Zenon
<1>5. ASSUME NEW t \in Tasks,
             \/ Close(t) \/ CloseCount(t) \/ CloseStore(t) \/ CloseStoreBadly(t) \/ CloseFails(t)
             \/ CloseUnlink(t) \/ CloseUnlock(t)
      PROVE  DataInv'
  BY <1>5, CloseData, CloseCountData, CloseStoreData, CloseStoreBadlyData, CloseFailsData,
     CloseUnlinkData, CloseUnlockData
<1>6. CASE PowerFails
  BY <1>6, PowerFailsData
<1>. QED BY <1>1, <1>2, <1>3, <1>4, <1>5, <1>6, Zenon DEF Next

LEMMA ContentInvariant == Spec => []ContentInv
<1>1. Init => DataInv
  BY DataInit
<1>2. SFileInv /\ DataInv /\ [Next]_vars => DataInv'
  BY DataStep DEF SFileInv
<1>. QED BY <1>1, <1>2, SFileInvariant, PTL DEF Spec, ContentInv

\* For any number of tasks, any values and any size of the partition: a file
\* that nobody has open is in the partition as its users last saw it, whatever
\* the order of their writes and closes, and a power cut after the last close
\* does not change it.
THEOREM WrittenIsKept == Spec => []ContentKept
<1>1. ContentInv => ContentKept
  BY DEF ContentInv, DataInv, Kept, Changed, Up, Consistent, ContentKept
<1>. QED BY <1>1, ContentInvariant, PTL

\* Only the open that has put the file on the list sets it up.
LEMMA SetUpBy ==
  ASSUME TypeInv, [Next]_vars, NEW t \in Tasks, task[t].pc = "init", task'[t].pc = "opened"
  PROVE  OpenInit(t) \/ OpenUnread(t)
<1>0. TasksOK
  BY DEF TypeInv
<1>1. CASE UNCHANGED vars
  BY <1>1 DEF vars
<1>2. ASSUME NEW u \in Tasks, UseAfterFree(u) \/ OpenNone(u) \/ WriteOutside(u) \/ OpenStart(u)
             \/ OpenFind(u) \/ OpenFound(u) \/ OpenNew(u) PROVE FALSE
  BY <1>0, <1>2 DEF UseAfterFree, OpenNone, WriteOutside, OpenStart, OpenFind, OpenFound, OpenNew, Goto, TasksOK
<1>3. ASSUME NEW u \in Tasks, OpenInit(u) \/ OpenUnread(u) PROVE u = t
  BY <1>0, <1>3 DEF OpenInit, OpenUnread, Goto, TasksOK
<1>4. ASSUME NEW u \in Tasks,
             \/ \E v \in Values : Write(u, v) \/ WriteFails(u, v)
             \/ \E offset \in Offsets : SetOffset(u, offset)
             \/ Read(u) \/ Invalid(u) \/ InvalidFails(u)
      PROVE  FALSE
  BY <1>4, OperationEffect
<1>5. ASSUME NEW u \in Tasks, Close(u) \/ CloseCount(u) PROVE FALSE
  BY <1>0, <1>5 DEF Close, CloseCount, Uses, Idle, TasksOK
<1>6. ASSUME NEW u \in Tasks, CloseStore(u) \/ CloseStoreBadly(u) \/ CloseFails(u)
             \/ CloseUnlink(u) \/ CloseUnlock(u) PROVE FALSE
  <2>1. /\ task[u].pc \in {"store", "unlink", "unlock"}
        /\ Goto(u, "unlink") \/ Goto(u, "unlock") \/ task' = [task EXCEPT ![u] = Idle]
    BY <1>6 DEF CloseStore, CloseStoreBadly, CloseFails, CloseUnlink, CloseUnlock
  <2>. QED BY <1>0, <2>1 DEF Goto, Idle, TasksOK
<1>7. CASE PowerFails
  BY <1>7 DEF PowerFails, Idle
<1>. QED BY <1>1, <1>2, <1>3, <1>4, <1>5, <1>6, <1>7, Zenon DEF Next

\* What an open takes for the file is something a close has stored, or nothing.
LEMMA OpenAccepts ==
  ASSUME TypeInv, DataInv, NEW t \in Tasks, OpenInit(t), ~hist'.overlap, ~hist'.unread
  PROVE  Data(cache', fp'.fsize) \in hist.stored \cup {<<>>}
<1>1. PICK fails \in BOOLEAN :
        LET len == IF Accepts(fp.base, fails) THEN cache[0].len ELSE 0
        IN /\ fp' = [fp EXCEPT !.magic = TRUE, !.refcnt = 1, !.dirty = FALSE,
                               !.base = Base, !.fsize = len, !.offset = 0]
           /\ hist' = [hist EXCEPT !.sure = @ /\ Data(cache, len) = hist.content,
                                   !.unread = @ \/ fails]
  BY Zenon DEF OpenInit
<1> DEFINE len == IF Accepts(fp.base, fails) THEN cache[0].len ELSE 0
           a == hist.sure /\ Data(cache, len) = hist.content
           b == hist.unread \/ fails
<1>2. /\ fp' = [fp EXCEPT !.magic = TRUE, !.refcnt = 1, !.dirty = FALSE,
                          !.base = Base, !.fsize = len, !.offset = 0]
      /\ hist' = [hist EXCEPT !.sure = a, !.unread = b]
  BY <1>1, Zenon
<1>3. ~b => ~fails
  OBVIOUS
<1> HIDE DEF len, a, b
<1>4. fp'.fsize = len /\ hist'.overlap = hist.overlap /\ hist'.unread = b
  BY <1>2 DEF TypeInv, FileOK, HistOK
<1>5. ~hist.overlap /\ ~fails /\ cache' = cache
  BY <1>3, <1>4 DEF OpenInit
<1>6. HistData /\ PartOK(cache, hist.stored)
  BY <1>5 DEF DataInv
<1>7. Data(cache, len) \in hist.stored \cup {<<>>}
  <2>1. CASE len = 0
    BY <2>1, NoData
  <2>2. CASE len # 0
    <3>1. Accepts(fp.base, fails) /\ len = cache[0].len
      BY <2>2 DEF len
    <3>2. HasMeta(cache) /\ Chksum(cache, fp.base, len, fails) = cache[0].crc
      BY <3>1 DEF Accepts
    <3>3. cache[0].crc \in hist.stored \cup {<<>>}
      BY <1>6, <3>2, PartFacts DEF HistData
    <3>4. cache[0].crc # <<Other>>
      BY <1>6, <3>3, OtherSum, NoData DEF HistData
    <3>5. Chksum(cache, fp.base, len, fails) \in {Data(cache, len), <<Other>>}
      BY <1>5, <2>2 DEF Chksum
    <3>. QED BY <3>2, <3>3, <3>4, <3>5
  <2>. QED BY <2>1, <2>2
<1>. QED BY <1>4, <1>5, <1>7

\* For any number of tasks, any values and any size of the partition: whatever
\* is lost in power cuts and failed writes, an open finds the file empty or as a
\* close has stored it, and never a mixture.
THEOREM NoMixture == Spec => OldOrNew
<1>1. ContentInv /\ [Next]_vars =>
        [\A t \in Tasks :
            (task[t].pc = "init" /\ task'[t].pc = "opened" /\ task'[t].file # 0
                /\ ~hist'.overlap /\ ~hist'.unread)
            => Data(cache', fp'.fsize) \in hist.stored \cup {<<>>}]_vars
  <2> SUFFICES ASSUME ContentInv, [Next]_vars, NEW t \in Tasks,
                      task[t].pc = "init", task'[t].pc = "opened", task'[t].file # 0,
                      ~hist'.overlap, ~hist'.unread
               PROVE  Data(cache', fp'.fsize) \in hist.stored \cup {<<>>}
    OBVIOUS
  <2>1. TypeInv /\ DataInv
    BY DEF ContentInv, SFileInv
  <2>2. OpenInit(t) \/ OpenUnread(t)
    BY <2>1, SetUpBy
  <2>3. ~OpenUnread(t)
    BY <2>1 DEF OpenUnread, TypeInv, TasksOK
  <2>. QED BY <2>1, <2>2, <2>3, OpenAccepts
<1>. QED BY <1>1, ContentInvariant, PTL DEF Spec, OldOrNew

=============================================================================
