------------------------------- MODULE DiskLog -------------------------------
(***************************************************************************)
(* The log on a partition (src/basework/lib/disklog.c): a ring of bytes    *)
(* behind one header block, with the ring's offsets kept in memory and     *)
(* saved to the header by every operation that changes them.               *)
(*                                                                         *)
(* Every operation holds log_mtx from its first to its last access, so one *)
(* call is under way at a time; a step is one access to the partition.     *)
(* Each access may fail.  Offsets count from log_file.start.  A byte that  *)
(* is logged is its serial number; Junk is any other byte.                 *)
(***************************************************************************)
EXTENDS Integers, SequencesExt

CONSTANTS
  Size,        \* log_file.size
  InputSizes,  \* how much callers log at once
  Chunk,       \* maxsize of disklog_ouput
  MaxLen,      \* maxlen of disklog_read
  MaxSerial,   \* bound on the bytes logged
  MaxFaults    \* bound on failing accesses

ASSUME SizeAssumption == Size \in Nat \ {0}
ASSUME InputSizesAssumption == InputSizes \subseteq Nat \ {0}
ASSUME ChunkAssumption == Chunk \in Nat \ {0} /\ MaxLen \in Nat \ {0}
ASSUME BoundsAssumption == MaxSerial \in Nat /\ MaxFaults \in Nat

VARIABLES
  phase,       \* "off": not initialised, "failed": disklog_init failed, "on",
               \* "dead": stopped by an assertion
  log,         \* log_file
  hdr,         \* the header block of the partition
  ring,        \* the rest of the partition
  call,        \* the operation under way
  result,      \* what the last operation gave its caller
  rdlog,       \* the static rdlog of disklog_read
  serial,      \* bytes numbered so far
  want,        \* the last Size bytes that were logged with result 0
  spoiled,     \* a failed input has damaged what was logged, or the offsets
  faults       \* failed accesses so far

disk == <<hdr, ring>>
ghost == <<serial, want, spoiled>>
vars == <<phase, log, disk, call, result, rdlog, ghost, faults>>

Junk == 0
Offsets == 0..(Size - 1)
Empty == [wr_ofs |-> 0, rd_ofs |-> 0, d_size |-> 0]
NoHeader == [wr_ofs |-> -1, rd_ofs |-> 0, d_size |-> 0]   \* the magic is wrong
NoCall == [op |-> "none", size |-> 0, remain |-> 0, ofs |-> 0, data |-> <<>>, ret |-> 0]
NoResult == [op |-> "none", ok |-> FALSE, data |-> <<>>, ret |-> 0, taken |-> 0]

MIN(a, b) == IF a < b THEN a ELSE b

\* The offset n bytes behind o in the ring, for n up to its size.
Ahead(o, n) == IF o + n < Size THEN o + n ELSE o + n - Size

\* The bytes of n cells from offset o on; o + n does not pass the end.
Cells(o, n) == [k \in 1..n |-> ring[o + k - 1]]

\* Mutant: no way back at the end.
WrapNever(o) == o

\* The next offset, back to log_file.start at log_file.end.
Wrap(o) == IF o >= Size THEN 0 ELSE o

Init ==
  /\ phase = "off" /\ log = Empty /\ hdr = NoHeader
  /\ ring = [o \in Offsets |-> Junk]
  /\ call = NoCall /\ result = NoResult /\ rdlog = Empty
  /\ serial = 0 /\ want = <<>> /\ spoiled = FALSE /\ faults = 0

Idle == phase = "on" /\ call.op = "none"

\* The assertions that dp_dev is set hold after a failed disklog_init too, and
\* its caller (printer.c:75) does not look at the result.
Ready == phase \in {"failed", "on"} /\ call.op = "none"

\* n accesses fail.
Fails(n) == faults + n <= MaxFaults /\ faults' = faults + n

\* logfile_save, of the offsets l; an assertion stops the program if it fails.
Save(l) ==
  \/ hdr' = l /\ phase' = "on" /\ UNCHANGED faults
  \/ Fails(1) /\ phase' = "dead" /\ UNCHANGED hdr

-----------------------------------------------------------------------------
\* disklog_init: a header with the magic is taken over, otherwise the log is
\* reset; after a failing read log_file is what it was, all zero.
DisklogInit ==
  /\ phase \in {"off", "failed"} /\ call.op = "none"
  /\ \/ /\ hdr # NoHeader
        /\ log' = hdr /\ phase' = "on"
        /\ UNCHANGED <<hdr, faults, want, spoiled>>
     \/ /\ hdr = NoHeader
        /\ log' = Empty /\ Save(Empty)
        /\ want' = <<>> /\ spoiled' = FALSE
     \/ /\ Fails(1) /\ phase' = "failed"
        /\ UNCHANGED <<log, hdr, want, spoiled>>
  /\ result' = NoResult
  /\ UNCHANGED <<ring, call, rdlog, serial>>

\* disklog_reset.
Reset ==
  /\ Ready
  /\ log' = Empty /\ Save(Empty)
  /\ want' = <<>> /\ spoiled' = FALSE
  /\ result' = NoResult
  /\ UNCHANGED <<ring, call, rdlog, serial>>

\* The device is shut down, with blkdev_sync; memory is lost.
Shutdown ==
  /\ Ready
  /\ phase' = "off" /\ log' = Empty /\ rdlog' = Empty /\ result' = NoResult
  /\ UNCHANGED <<disk, call, ghost, faults>>

-----------------------------------------------------------------------------
(* disklog_input. *)

InputCall(n) ==
  /\ Idle /\ serial + n <= MaxSerial
  /\ call' = [NoCall EXCEPT !.op = "input", !.size = n, !.remain = n, !.ofs = log.wr_ofs]
  /\ result' = NoResult
  /\ UNCHANGED <<phase, log, disk, rdlog, ghost, faults>>

\* After a failed disklog_init log_file.end is 0: nothing is written, lgpt_write
\* returns 0, and the header is saved without the magic.
InputUninitialised(n) ==
  /\ phase = "failed" /\ call.op = "none" /\ serial + n <= MaxSerial
  /\ \/ hdr' = NoHeader /\ UNCHANGED <<phase, faults>>
     \/ Fails(1) /\ phase' = "dead" /\ UNCHANGED hdr
  /\ result' = NoResult
  /\ UNCHANGED <<log, ring, call, rdlog, ghost>>

Piece == MIN(Size - call.ofs, call.remain)

\* The ring after the bytes b at the offset of the call.
Patched(b) ==
  [o \in Offsets |-> IF o - call.ofs + 1 \in DOMAIN b THEN b[o - call.ofs + 1] ELSE ring[o]]

\* lgpt_write of the part up to the end of the ring.
InputPiece ==
  /\ call.op = "input" /\ call.remain > 0
  /\ ring' = Patched([k \in 1..Piece |-> serial + k])
  /\ serial' = serial + Piece
  /\ call' = [call EXCEPT !.remain = @ - Piece, !.ofs = Wrap(@ + Piece)]
  /\ UNCHANGED <<phase, log, hdr, result, rdlog, want, spoiled, faults>>

\* wr_ofs is where the logged bytes end.
Aligned == log.wr_ofs = Ahead(log.rd_ofs, log.d_size)

\* The ring is damaged when a failed input has reached bytes that are
\* logged, or starts after one that has moved wr_ofs only.
Reached(n) == ~Aligned \/ log.d_size + (call.size - call.remain) + n > Size

\* lgpt_write fails, after some blocks; wr_ofs keeps what was written before,
\* d_size does not.
InputFail ==
  /\ call.op = "input" /\ call.remain > 0
  /\ \E n \in 0..(Piece - 1) :
       /\ ring' = Patched([k \in 1..n |-> Junk])
       /\ spoiled' = (spoiled \/ Reached(n))
  /\ log' = [log EXCEPT !.wr_ofs = call.ofs]
  /\ \/ hdr' = log' /\ Fails(1) /\ UNCHANGED phase
     \/ phase' = "dead" /\ Fails(2) /\ UNCHANGED hdr
  /\ call' = NoCall
  /\ result' = [NoResult EXCEPT !.op = "input"]
  /\ UNCHANGED <<rdlog, serial, want>>

\* The last Size of the bytes of a sequence.
LastBytes(s) == IF Len(s) > Size THEN SubSeq(s, Len(s) - Size + 1, Len(s)) ELSE s

\* Mutant: the oldest bytes are overwritten, but reading still starts there.
AccountKeepRd ==
  log' = [wr_ofs |-> call.ofs, rd_ofs |-> log.rd_ofs,
          d_size |-> MIN(log.d_size + call.size, Size)]

\* d_size grows up to the size of the ring; then reading starts at wr_ofs.
Account ==
  log' = [wr_ofs |-> call.ofs,
          rd_ofs |-> IF log.d_size + call.size > Size THEN call.ofs ELSE log.rd_ofs,
          d_size |-> MIN(log.d_size + call.size, Size)]

\* All parts are written: account for them and save.
InputDone ==
  /\ call.op = "input" /\ call.remain = 0
  /\ Account /\ Save(log')
  /\ want' = LastBytes(want \o [k \in 1..call.size |-> serial - call.size + k])
  /\ spoiled' = (call.size < Size /\ (spoiled \/ ~Aligned))
  /\ call' = NoCall
  /\ result' = [NoResult EXCEPT !.op = "input", !.ok = TRUE]
  /\ UNCHANGED <<ring, rdlog, serial>>

-----------------------------------------------------------------------------
(* disklog_ouput: every part is handed to the callback. *)

OutputCall ==
  /\ Ready
  /\ call' = [NoCall EXCEPT !.op = "output", !.remain = log.d_size, !.ofs = log.rd_ofs]
  /\ result' = NoResult
  /\ UNCHANGED <<phase, log, disk, rdlog, ghost, faults>>

\* Mutant: the offsets go on to the end of the ring, beyond the chunk.
OutputPieceSkips ==
  /\ call.op = "output" /\ call.remain > 0
  /\ call' = [call EXCEPT !.remain = @ - Piece, !.ofs = Wrap(@ + Piece),
                          !.data = @ \o Cells(call.ofs, MIN(Piece, Chunk))]
  /\ UNCHANGED <<phase, log, disk, result, rdlog, ghost, faults>>

OutputPiece ==
  LET n == MIN(Piece, Chunk) IN
  /\ call.op = "output" /\ call.remain > 0
  /\ call' = [call EXCEPT !.remain = @ - n, !.ofs = Wrap(@ + n),
                          !.data = @ \o Cells(call.ofs, n)]
  /\ UNCHANGED <<phase, log, disk, result, rdlog, ghost, faults>>

\* lgpt_read fails, or the callback wants no more.
OutputFail ==
  /\ call.op = "output" /\ call.remain > 0
  /\ Fails(1) \/ UNCHANGED faults
  /\ call' = NoCall
  /\ UNCHANGED <<phase, log, disk, result, rdlog, ghost>>

OutputDone ==
  /\ call.op = "output" /\ call.remain = 0
  /\ call' = NoCall
  /\ result' = [NoResult EXCEPT !.op = "output", !.ok = TRUE, !.data = call.data]
  /\ UNCHANGED <<phase, log, disk, rdlog, ghost, faults>>

-----------------------------------------------------------------------------
(* disklog_read: a reader that comes back for more. *)

ReadCall(first) ==
  LET r == IF first THEN log ELSE rdlog IN
  /\ Ready
  /\ rdlog' = r
  /\ call' = [NoCall EXCEPT !.op = "read", !.size = MIN(MaxLen, r.d_size),
                            !.remain = MIN(MaxLen, r.d_size), !.ofs = r.rd_ofs]
  /\ result' = NoResult
  /\ UNCHANGED <<phase, log, disk, ghost, faults>>

\* Every part goes to the start of the caller's buffer, and ret is its length.
ReadPiece ==
  /\ call.op = "read" /\ call.remain > 0
  /\ call' = [call EXCEPT !.remain = @ - Piece, !.ofs = Wrap(@ + Piece), !.ret = Piece,
               !.data = Cells(call.ofs, Piece) \o SubSeq(@, Piece + 1, Len(@))]
  /\ UNCHANGED <<phase, log, disk, result, rdlog, ghost, faults>>

\* A failing read leaves rdlog where it was.
ReadFail ==
  /\ call.op = "read" /\ call.remain > 0
  /\ Fails(1)
  /\ call' = NoCall
  /\ UNCHANGED <<phase, log, disk, result, rdlog, ghost>>

ReadDone ==
  /\ call.op = "read" /\ call.remain = 0
  /\ rdlog' = [rdlog EXCEPT !.rd_ofs = call.ofs, !.d_size = @ - call.size]
  /\ call' = NoCall
  /\ result' = [op |-> "read", ok |-> TRUE, data |-> call.data, ret |-> call.ret,
                taken |-> call.size]
  /\ UNCHANGED <<phase, log, disk, ghost, faults>>

-----------------------------------------------------------------------------
Next ==
  \/ DisklogInit \/ Reset \/ Shutdown
  \/ (\E n \in InputSizes : InputCall(n) \/ InputUninitialised(n))
  \/ InputPiece \/ InputFail \/ InputDone
  \/ OutputCall \/ OutputPiece \/ OutputFail \/ OutputDone
  \/ (\E first \in BOOLEAN : ReadCall(first)) \/ ReadPiece \/ ReadFail \/ ReadDone

Spec == Init /\ [][Next]_vars

-----------------------------------------------------------------------------
(* Properties. *)

LogType == [wr_ofs : Offsets, rd_ofs : Offsets, d_size : 0..Size]

\* Every offset, in memory, in the header and in a running call, is inside the
\* ring, and no more than the ring is accounted for.
TypeOK ==
  /\ phase \in {"off", "failed", "on", "dead"}
  /\ log \in LogType /\ rdlog \in LogType /\ hdr \in LogType \cup {NoHeader}
  /\ ring \in [Offsets -> Nat]
  /\ call.op \in {"none", "input", "output", "read"} /\ call.ofs \in Offsets
  /\ call.remain \in Nat /\ call.size \in Nat
  /\ serial \in Nat /\ faults \in Nat /\ spoiled \in BOOLEAN

\* The byte at place k of the log, from the oldest.
LogByte(k) == ring[Ahead(log.rd_ofs, k - 1)]

\* Between calls the ring holds the last Size bytes that were logged, oldest
\* first, across wrap-around, overflow, inputs longer than the ring, resets,
\* restarts, and failed inputs that did not reach them.
RingHoldsLast ==
  Idle /\ ~spoiled =>
    /\ log.d_size = Len(want)
    /\ \A k \in 1..log.d_size : LogByte(k) = want[k]

\* disklog_ouput hands exactly these bytes to its callback, in order.
OutputComplete ==
  phase = "on" /\ result.op = "output" /\ result.ok /\ ~spoiled => result.data = want

\* disklog.h:61, "return read size if success": what disklog_read reports is
\* what it has taken from the log.
ReadSizeReturned == result.op = "read" => result.ret = result.taken
==============================================================================
