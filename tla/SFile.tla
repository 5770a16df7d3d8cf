-------------------------------- MODULE SFile --------------------------------
(***************************************************************************)
(* The partition files of dev/partition_file.c: tasks that open, read,     *)
(* write and close one file.  The struct sfile is shared by everyone who   *)
(* has the file open: sfile_mtx guards the list it is on, its own lock     *)
(* everything else, and the reference counter is changed by an open under  *)
(* the first and by a close under the second.                              *)
(*                                                                         *)
(* The file is one of a partition of its own: cell 0 is the metadata, the  *)
(* others are the data.  Writes go to the cache of blkdev.c and reach the  *)
(* flash at the latest with blkdev_sync; the power may fail in between.    *)
(* Other files meet this one only in the list and are left out.            *)
(***************************************************************************)
EXTENDS Integers, Sequences, FiniteSets

CONSTANTS Tasks, Values, Blank,
          Cells,       \* cells of data, dp->len is Base + Cells
          Other,       \* anything that is not this file's data
          Budgets      \* bounds on opens, writes, moves, faults, crashes

ASSUME SFileAssumption ==
    /\ Cells \in Nat \ {0} /\ Values # {} /\ Blank \notin Values
    /\ IsFiniteSet(Tasks) /\ Blank \notin Tasks
    /\ Budgets \subseteq [{"opens", "writes", "moves", "faults", "crashes"} -> Nat]

\* Metadata is not mistaken for data, nor other memory for the file's data.
Contents == UNION {[1 .. n -> Values \cup {Blank}] : n \in 0 .. Cells}
ASSUME DataAssumption ==
    /\ Other \notin Values \cup {Blank}
    /\ \A len \in 0 .. Cells, crc \in Contents :
          [magic |-> TRUE, len |-> len, crc |-> crc] \notin Values \cup {Blank}

VARIABLES
    flash,      \* the partition as it survives a power cut
    cache,      \* the partition as it is read
    fp,         \* the struct sfile: linked on the list or not, and its fields
    mtx,        \* holder of sfile_mtx, or Blank
    task,       \* what each task is doing, the file it has, what it loaded
    undefined,  \* why the behaviour is undefined from here on, or "no"
    hist,       \* history: see the properties
    budget

vars == <<flash, cache, fp, mtx, task, undefined, hist, budget>>

Base == 1
Len0 == Base + Cells

\* The metadata; its checksum is the data it was computed of.
Meta(magic, len, crc) == [magic |-> magic, len |-> len, crc |-> crc]
Partition == [0 .. Cells -> Values \cup {Blank}]
Data(part, len) == [i \in 1 .. len |-> IF i <= Cells THEN part[i] ELSE Other]
HasMeta(part) == part[0] \notin Values \cup {Blank}

\* usr_sfile_chksum: a failing read makes it 0, the checksum of no data.
Chksum(part, base, len, fails) ==
    IF fails \/ len = 0 THEN <<>> ELSE IF base = Base THEN Data(part, len) ELSE <<Other>>

NoFile == [linked |-> FALSE, gen |-> 0, lock |-> Blank, magic |-> FALSE, refcnt |-> 0,
           dirty |-> FALSE, base |-> 0, fsize |-> 0, offset |-> 0]
Idle == [pc |-> "idle", file |-> 0, loaded |-> 0]

Init ==
    /\ \E part \in {[i \in 0 .. Cells |-> Blank]} \cup
                   {[i \in 0 .. Cells |-> IF i = 0 THEN Meta(TRUE, 1, <<v>>) ELSE IF i = 1 THEN v ELSE Blank] :
                        v \in Values} :
         /\ flash = part /\ cache = part
         /\ hist = [overlap |-> FALSE, unread |-> FALSE, sure |-> TRUE, pending |-> FALSE,
                    content |-> IF HasMeta(part) THEN part[0].crc ELSE <<>>,
                    stored |-> {IF HasMeta(part) THEN part[0].crc ELSE <<>>}]
    /\ fp = NoFile /\ mtx = Blank /\ undefined = "no"
    /\ task = [t \in Tasks |-> Idle]
    /\ budget \in Budgets

Spend(what) == budget[what] > 0 /\ budget' = [budget EXCEPT ![what] = @ - 1]
Goto(t, pc) == task' = [task EXCEPT ![t].pc = pc]

\* What reads through the file see.
View(part) == Data(part, fp.fsize)

Opening == {t \in Tasks : task[t].pc \in {"open", "find", "init"}}
Closing == {t \in Tasks : task[t].pc \in {"close", "store", "unlink", "unlock"}}

----------------------------------------------------------------------------
(* usr_sfile_open *)

OpenStart(t) ==
    /\ task[t].pc = "idle" /\ Spend("opens")
    /\ Goto(t, "open")
    /\ hist' = [hist EXCEPT !.overlap = @ \/ Opening # {} \/ Closing # {}]
    /\ UNCHANGED <<flash, cache, fp, mtx, undefined>>

\* sfile_open finds the file on the list: refcnt++, a load ...
OpenFind(t) ==
    /\ task[t].pc = "open" /\ mtx = Blank /\ fp.linked
    /\ mtx' = t
    /\ task' = [task EXCEPT ![t] = [pc |-> "find", file |-> fp.gen, loaded |-> fp.refcnt]]
    /\ UNCHANGED <<flash, cache, fp, undefined, hist, budget>>

\* Mutant: a file that is already open is not counted.
OpenFoundUncounted(t) ==
    /\ task[t].pc = "find"
    /\ mtx' = Blank
    /\ Goto(t, "opened")
    /\ UNCHANGED <<flash, cache, fp, undefined, hist, budget>>

\* ... and a store, with sfile_mtx and without the lock of the file.
OpenFound(t) ==
    /\ task[t].pc = "find"
    /\ fp' = [fp EXCEPT !.refcnt = task[t].loaded + 1]
    /\ mtx' = Blank
    /\ Goto(t, "opened")
    /\ UNCHANGED <<flash, cache, undefined, hist, budget>>

\* It is not on the list: a struct sfile is put there with whatever its memory
\* holds.
OpenNew(t) ==
    /\ task[t].pc = "open" /\ mtx = Blank /\ ~fp.linked
    /\ \E magic, dirty \in BOOLEAN, refcnt \in {0, 1}, base \in {0, Base}, fsize \in {0, Cells} :
         fp' = [linked |-> TRUE, gen |-> fp.gen + 1, lock |-> Blank, magic |-> magic,
                refcnt |-> refcnt, dirty |-> dirty, base |-> base, fsize |-> fsize, offset |-> 0]
    /\ task' = [task EXCEPT ![t] = [pc |-> "init", file |-> fp.gen + 1, loaded |-> 0]]
    /\ UNCHANGED <<flash, cache, mtx, undefined, hist, budget>>

\* No such partition, no device or no memory: fp is NULL and dereferenced.
OpenNone(t) ==
    /\ task[t].pc = "open" /\ mtx = Blank /\ Spend("faults")
    /\ undefined' = "null"
    /\ UNCHANGED <<flash, cache, fp, mtx, task, hist>>

Has(t) == fp.linked /\ fp.gen = task[t].file
Locks(t) == undefined = "no" /\ Has(t) /\ fp.lock = Blank

\* Mutant: only the magic decides.
AcceptsMagic(base, fails) == HasMeta(cache) /\ cache[0].magic

\* The metadata is taken for a file. base is not yet set.
Accepts(base, fails) ==
    /\ HasMeta(cache) /\ cache[0].magic
    /\ Chksum(cache, base, cache[0].len, fails) = cache[0].crc

OpenInit(t) ==
    /\ task[t].pc = "init" /\ Locks(t)
    /\ \E fails \in BOOLEAN :
         /\ IF fails THEN Spend("faults") ELSE UNCHANGED budget
         /\ LET accepted == Accepts(fp.base, fails)
                len == IF accepted THEN cache[0].len ELSE 0
            IN /\ fp' = [fp EXCEPT !.magic = TRUE, !.refcnt = 1, !.dirty = FALSE,
                                   !.base = Base, !.fsize = len, !.offset = 0]
               /\ hist' = [hist EXCEPT !.sure = @ /\ Data(cache, len) = hist.content,
                                       !.unread = @ \/ fails]
    /\ Goto(t, "opened")
    /\ UNCHANGED <<flash, cache, mtx, undefined>>

\* The metadata cannot be read: the file is freed, unlocked, and 0 returned;
\* the caller's pointer is what it was.
OpenUnread(t) ==
    /\ task[t].pc = "init" /\ Locks(t) /\ mtx = Blank /\ Spend("faults")
    /\ fp' = [NoFile EXCEPT !.gen = fp.gen]
    /\ task' = [task EXCEPT ![t] = [pc |-> "opened", file |-> 0, loaded |-> 0]]
    /\ UNCHANGED <<flash, cache, mtx, undefined, hist>>

----------------------------------------------------------------------------
(* The operations on an open file, each under its lock *)

Uses(t) == task[t].pc = "opened" /\ Locks(t)

\* The place of the next read or write, and the check of its end: the sum is
\* unsigned, so that an end before the partition is a huge one.
Place == fp.base + fp.offset
InBounds == Place + 1 \in 0 .. Len0

\* usr_sfile_write of one cell. A negative offset makes it the metadata.
Write(t, v) ==
    LET size == fp.offset + 1
        fsize == IF size > fp.fsize THEN size ELSE fp.fsize
    IN /\ Uses(t) /\ Spend("writes")
       /\ InBounds /\ Place >= 0
       /\ cache' = [cache EXCEPT ![Place] = v]
       /\ fp' = [fp EXCEPT !.dirty = TRUE, !.offset = size, !.fsize = fsize]
       /\ hist' = [hist EXCEPT !.sure = TRUE, !.pending = TRUE, !.content = Data(cache', fsize)]
       /\ UNCHANGED <<flash, mtx, task, undefined>>

\* The cell before the partition passes the check too: another's data is
\* written, and the offset, still negative, becomes the size of the file.
WriteOutside(t) ==
    /\ Uses(t) /\ Spend("writes")
    /\ InBounds /\ Place < 0
    /\ undefined' = "outside"
    /\ UNCHANGED <<flash, cache, fp, mtx, task, hist>>

\* A failed write may have been done, and does not make the file dirty.
WriteFails(t, v) ==
    /\ Uses(t) /\ Spend("faults")
    /\ InBounds
    /\ cache' = cache \/ (Place >= 0 /\ cache' = [cache EXCEPT ![Place] = v])
    /\ hist' = [hist EXCEPT !.sure = @ /\ (fp.dirty \/ cache' = cache),
                            !.content = IF fp.dirty THEN View(cache') ELSE @]
    /\ UNCHANGED <<flash, fp, mtx, task, undefined>>

\* usr_sfile_read of one cell; a failing one moves nothing.
Read(t) ==
    /\ Uses(t) /\ Spend("moves")
    /\ InBounds
    /\ fp' = [fp EXCEPT !.offset = @ + 1]
    /\ UNCHANGED <<flash, cache, mtx, task, undefined, hist>>

\* usr_sfile_setoffset: nothing bounds the offset from below. With an offset
\* below these every read and write is refused.
Offsets == -(Base + 1) .. Len0 + 1

SetOffset(t, offset) ==
    /\ Uses(t) /\ Spend("moves")
    /\ offset <= Len0
    /\ fp' = [fp EXCEPT !.offset = offset]
    /\ UNCHANGED <<flash, cache, mtx, task, undefined, hist>>

\* usr_sfile_invalid: the metadata says empty; the size, the offset and dirty
\* stay, and nothing is synced.
Invalid(t) ==
    /\ Uses(t) /\ Spend("moves")
    /\ cache' = [cache EXCEPT ![0] = Meta(TRUE, 0, <<>>)]
    /\ fp' = [fp EXCEPT !.magic = TRUE]
    /\ hist' = [hist EXCEPT !.sure = ~fp.dirty, !.pending = TRUE, !.content = <<>>]
    /\ UNCHANGED <<flash, mtx, task, undefined>>

\* Its lgpt_write fails: what is in memory is cleared all the same, and the
\* write may have been done.
InvalidFails(t) ==
    /\ Uses(t) /\ Spend("faults")
    /\ cache' \in {cache, [cache EXCEPT ![0] = Meta(TRUE, 0, <<>>)]}
    /\ fp' = [fp EXCEPT !.magic = TRUE]
    /\ hist' = [hist EXCEPT !.sure = @ /\ (fp.dirty \/ cache' = cache)]
    /\ UNCHANGED <<flash, mtx, task, undefined>>

----------------------------------------------------------------------------
(* usr_sfile_close *)

\* refcnt--, a load ...
Close(t) ==
    /\ Uses(t)
    /\ hist' = [hist EXCEPT !.overlap = @ \/ Opening # {}]
    /\ IF fp.refcnt > 0
       THEN /\ task' = [task EXCEPT ![t].pc = "close", ![t].loaded = fp.refcnt]
            /\ fp' = [fp EXCEPT !.lock = t]
       ELSE task' = [task EXCEPT ![t] = Idle] /\ UNCHANGED fp
    /\ UNCHANGED <<flash, cache, mtx, undefined, budget>>

\* ... and a store; the last one goes on.
CloseCount(t) ==
    LET last == task[t].loaded = 1 IN
    /\ task[t].pc = "close"
    /\ fp' = [fp EXCEPT !.refcnt = task[t].loaded - 1, !.lock = IF last THEN t ELSE Blank]
    /\ task' = [task EXCEPT ![t] = IF ~last THEN Idle
                                   ELSE [@ EXCEPT !.pc = IF fp.dirty THEN "store" ELSE "unlink"]]
    /\ UNCHANGED <<flash, cache, mtx, undefined, hist, budget>>

\* Mutant: the cache is not synced.
CloseStoreUnsynced(t) ==
    LET crc == Chksum(cache, fp.base, fp.fsize, FALSE) IN
    /\ task[t].pc = "store"
    /\ cache' = [cache EXCEPT ![0] = Meta(fp.magic, fp.fsize, crc)]
    /\ fp' = [fp EXCEPT !.dirty = FALSE]
    /\ hist' = [hist EXCEPT !.pending = FALSE, !.stored = {crc}]
    /\ Goto(t, "unlink")
    /\ UNCHANGED <<flash, mtx, undefined, budget>>

\* The metadata of a dirty file is written, and the cache synced.
CloseStore(t) ==
    LET crc == Chksum(cache, fp.base, fp.fsize, FALSE) IN
    /\ task[t].pc = "store"
    /\ cache' = [cache EXCEPT ![0] = Meta(fp.magic, fp.fsize, crc)]
    /\ flash' = cache'
    /\ fp' = [fp EXCEPT !.dirty = FALSE]
    /\ hist' = [hist EXCEPT !.pending = FALSE, !.stored = {crc}]
    /\ Goto(t, "unlink")
    /\ UNCHANGED <<mtx, undefined, budget>>

\* A read of the checksum or the sync fails, which nobody notices, ...
CloseStoreBadly(t) ==
    /\ task[t].pc = "store" /\ Spend("faults")
    /\ \E fails, synced \in BOOLEAN :
         LET crc == Chksum(cache, fp.base, fp.fsize, fails) IN
         /\ cache' = [cache EXCEPT ![0] = Meta(fp.magic, fp.fsize, crc)]
         /\ flash' = IF synced THEN cache' ELSE flash
         /\ hist' = [hist EXCEPT !.unread = @ \/ fails, !.sure = @ /\ ~fails,
                                 !.pending = ~synced,
                                 !.stored = IF synced THEN {crc} ELSE @ \cup {crc}]
    /\ fp' = [fp EXCEPT !.dirty = FALSE]
    /\ Goto(t, "unlink")
    /\ UNCHANGED <<mtx, undefined>>

\* ... or the write of the metadata: the file stays on the list, with no user
\* and no longer dirty.
CloseFails(t) ==
    /\ task[t].pc = "store" /\ Spend("faults")
    /\ LET crc == Chksum(cache, fp.base, fp.fsize, FALSE) IN
       /\ cache' \in {cache, [cache EXCEPT ![0] = Meta(fp.magic, fp.fsize, crc)]}
       /\ hist' = [hist EXCEPT !.sure = FALSE, !.stored = @ \cup {crc}]
    /\ fp' = [fp EXCEPT !.dirty = FALSE, !.lock = Blank]
    /\ task' = [task EXCEPT ![t] = Idle]
    /\ UNCHANGED <<flash, mtx, undefined>>

\* sfile_close: off the list, and freed.
CloseUnlink(t) ==
    /\ task[t].pc = "unlink" /\ mtx = Blank
    /\ fp' = IF Has(t) THEN [NoFile EXCEPT !.gen = fp.gen] ELSE fp
    /\ Goto(t, "unlock")
    /\ UNCHANGED <<flash, cache, mtx, undefined, hist, budget>>

\* The lock in the freed memory is unlocked: it may by now be another's.
CloseUnlock(t) ==
    /\ task[t].pc = "unlock"
    /\ fp' \in {fp, [fp EXCEPT !.lock = Blank]}
    /\ task' = [task EXCEPT ![t] = Idle]
    /\ UNCHANGED <<flash, cache, mtx, undefined, hist, budget>>

----------------------------------------------------------------------------
\* A task uses a file that is no longer there, or the pointer it never got.
UseAfterFree(t) ==
    /\ task[t].pc \in {"opened", "init", "close", "store"} /\ ~Has(t)
    /\ undefined' = IF task[t].file = 0 THEN "unset" ELSE "freed"
    /\ UNCHANGED <<flash, cache, fp, mtx, task, hist, budget>>

\* The power fails: of what is in the cache any part has reached the flash, or
\* the block was erased and not yet written.
PowerFails ==
    /\ Spend("crashes")
    /\ flash' \in {[i \in 0 .. Cells |-> IF i \in S THEN cache[i] ELSE flash[i]] : S \in SUBSET (0 .. Cells)}
                  \cup (IF cache = flash THEN {} ELSE {[i \in 0 .. Cells |-> Blank]})
    /\ cache' = flash'
    /\ fp' = [NoFile EXCEPT !.gen = fp.gen]
    /\ mtx' = Blank
    /\ task' = [t \in Tasks |-> Idle]
    /\ hist' = [hist EXCEPT !.sure = @ /\ ~hist.pending]
    /\ UNCHANGED undefined

Next ==
    /\ undefined = "no"
    /\ \/ \E t \in Tasks :
            \/ OpenStart(t) \/ OpenFind(t) \/ OpenFound(t) \/ OpenNew(t) \/ OpenNone(t)
            \/ OpenInit(t) \/ OpenUnread(t)
            \/ \E v \in Values : Write(t, v) \/ WriteFails(t, v)
            \/ WriteOutside(t) \/ Read(t) \/ Invalid(t) \/ InvalidFails(t)
            \/ \E offset \in Offsets : SetOffset(t, offset)
            \/ Close(t) \/ CloseCount(t) \/ CloseStore(t) \/ CloseStoreBadly(t) \/ CloseFails(t)
            \/ CloseUnlink(t) \/ CloseUnlock(t) \/ UseAfterFree(t)
       \/ PowerFails

Spec == Init /\ [][Next]_vars

----------------------------------------------------------------------------
(* Properties *)

\* As long as no usr_sfile_open of the file runs together with another open or
\* a close of it, the counter is the number of tasks that have the file and have
\* not counted themselves out, so that the last close and no other frees it and
\* nobody uses it afterwards; closes may overlap each other and the other
\* operations as they like.  The unlock after the free (partition_file.c:307) is
\* no use in this sense: until the memory is another file it changes nothing.
HandlesCounted ==
    ~hist.overlap =>
        /\ undefined # "freed"
        /\ (fp.linked /\ \A t \in Tasks : task[t].pc # "init") =>
              fp.refcnt = Cardinality({t \in Tasks : task[t].pc \in {"opened", "close"} /\ Has(t)})

\* A file nobody has open is on the flash as the last successful write left
\* it, whichever of its users wrote and whoever closed last; a power cut after
\* the last close does not change it.  The exceptions are what the code lets
\* happen: a failing write or invalidation of a file that is not dirty, a
\* failing read or write in the last close, an invalidation of a dirty file, a
\* checksum over the wrong place (usr_sfile_open sums before it sets base), a
\* power cut before the file is closed or after an invalidation.
ContentKept ==
    (~fp.linked /\ ~hist.overlap /\ hist.sure) =>
        IF HasMeta(cache) /\ cache[0].magic
        THEN cache[0].crc = hist.content /\ Data(cache, cache[0].len) = hist.content
        ELSE hist.content = <<>>

\* Whatever is lost in power cuts and failed writes, a file is empty when it
\* is opened or holds what a close has stored and no later sync replaced: the
\* checksum refuses every mixture of old and new data.  (When its reads fail
\* both in the close and in the open, it is 0 twice and refuses nothing.)
OldOrNew ==
    [][\A t \in Tasks :
        (task[t].pc = "init" /\ task'[t].pc = "opened" /\ task'[t].file # 0
            /\ ~hist'.overlap /\ ~hist'.unread)
        => Data(cache', fp'.fsize) \in hist.stored \cup {<<>>}]_vars

=============================================================================
