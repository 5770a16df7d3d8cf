---------------------------- MODULE DiskLogProofs ----------------------------
(***************************************************************************)
(* For a ring of any size, inputs and chunks of any sizes and any number   *)
(* of failing accesses: the offsets stay inside the ring, between calls    *)
(* the ring holds the last bytes that were logged, and disklog_ouput hands *)
(* exactly these to its callback.                                          *)
(***************************************************************************)
EXTENDS DiskLog, SequenceTheorems, TLAPS

\* The offset of the j-th byte in front of o, for j up to the size of the ring.
Back(o, j) == IF o >= j THEN o - j ELSE o - j + Size

\* The bytes the running input has written.
Written == call.size - call.remain

Calls == [op : {"none", "input", "output", "read"}, size : Nat, remain : Nat,
          ofs : Offsets, data : Seq(Nat), ret : Nat]
Results == [op : {"none", "input", "output", "read"}, ok : BOOLEAN, data : Seq(Nat),
            ret : Nat, taken : Nat]

\* TypeOK, and what it takes for it: the running call fits the log it works on.
CallOK ==
  /\ call \in Calls /\ result \in Results /\ want \in Seq(Nat)
  /\ call.op = "input" => phase = "on" /\ call.remain <= call.size /\ Written <= serial
  /\ call.op = "output" => call.remain <= log.d_size
  /\ call.op = "read" => call.remain <= call.size /\ call.size <= rdlog.d_size

TypeInv == TypeOK /\ CallOK

\* The header follows the offsets in memory, and without bytes the log is new.
Saved ==
  /\ phase = "on" => hdr = log
  /\ log.d_size = 0 => log = Empty
  /\ hdr.d_size = 0 => hdr \in {Empty, NoHeader}

\* The ring holds the wanted bytes, for a reader who starts from the offsets l.
Holds(l) ==
  /\ l.d_size = Len(want)
  /\ \A k \in 1..l.d_size : ring[Ahead(l.rd_ofs, k - 1)] = want[k]

\* Outside an input what the header says is there, for this and the next start.
Kept == hdr # NoHeader /\ phase # "dead" /\ ~spoiled /\ call.op # "input" => Holds(hdr)

\* During an input: the new bytes are in front of the offset of the call, ...
NewBytes ==
  call.op = "input" => \A j \in 1..Size : j <= Written => ring[Back(call.ofs, j)] = serial - j + 1

\* ... which has gone on from wr_ofs by as many, and has come back to the start if
\* anything is left to write, ...
Place ==
  call.op = "input" =>
    /\ Written <= Size => call.ofs = Ahead(log.wr_ofs, Written)
    /\ call.remain > 0 => Written = 0 \/ call.ofs = 0

\* ... and in front of them those of the old bytes that they leave in the ring.
OldBytes ==
  call.op = "input" /\ ~spoiled /\ Aligned =>
    /\ log.d_size = Len(want)
    /\ \A k \in 1..log.d_size : Written + log.d_size - k + 1 <= Size =>
         ring[Back(call.ofs, Written + log.d_size - k + 1)] = want[k]

\* During an output: what the callback was given is the first part of the log.
Given ==
  call.op = "output" =>
    /\ Len(call.data) = log.d_size - call.remain
    /\ call.ofs = Ahead(log.rd_ofs, log.d_size - call.remain)
    /\ \A k \in 1..Len(call.data) : call.data[k] = LogByte(k)

\* The result of an output is looked at before the next input.
Answered == OutputComplete /\ (call.op = "input" => result.op = "none")

RingInv == Saved /\ Kept /\ NewBytes /\ Place /\ OldBytes /\ Given /\ Answered

LogInv == TypeInv /\ RingInv
-----------------------------------------------------------------------------
(* The operators of the model. *)

LEMMA SizeFacts == Size \in Nat /\ Size >= 1 /\ 0 \in Offsets
BY SizeAssumption DEF Offsets

LEMMA StartFacts ==
  /\ Empty \in LogType /\ NoHeader # Empty /\ NoHeader \notin LogType
  /\ NoCall \in Calls /\ NoResult \in Results
<1>1. <<>> \in Seq(Nat)
  BY EmptySeq
<1>2. Empty \in LogType
  BY SizeFacts DEF Empty, LogType, Offsets
<1>3. NoHeader.wr_ofs = -1 /\ Empty.wr_ofs = 0 /\ \A l \in LogType : l.wr_ofs \in Nat
  BY SizeFacts DEF NoHeader, Empty, LogType, Offsets
<1>4. NoHeader # Empty /\ NoHeader \notin LogType
  BY <1>3
<1>5. NoCall \in Calls
  BY <1>1, SizeFacts DEF NoCall, Calls
<1>6. NoResult \in Results
  BY <1>1 DEF NoResult, Results
<1> QED BY <1>2, <1>4, <1>5, <1>6

\* A part of a call is not empty and ends at the end of the ring or before it.
LEMMA PieceFacts ==
  ASSUME TypeInv, call.remain > 0
  PROVE  /\ Piece \in Nat /\ 1 <= Piece /\ Piece <= call.remain
         /\ call.ofs + Piece <= Size
         /\ Piece = call.remain \/ call.ofs + Piece = Size
<1>1. call.ofs \in Nat /\ call.ofs < Size /\ call.remain \in Nat
  BY SizeFacts DEF TypeInv, TypeOK, Offsets
<1> QED BY <1>1, SizeFacts DEF Piece, MIN

LEMMA WrapFacts ==
  ASSUME NEW o \in Nat, o <= Size
  PROVE  Wrap(o) \in Offsets /\ Wrap(o) = IF o = Size THEN 0 ELSE o
BY SizeFacts DEF Wrap, Offsets

LEMMA MinFacts ==
  ASSUME NEW a \in Nat, NEW b \in Nat
  PROVE  MIN(a, b) \in Nat /\ MIN(a, b) <= a /\ MIN(a, b) <= b /\ MIN(a, b) \in {a, b}
BY DEF MIN

\* What a write of the bytes b at the offset of the call leaves in the ring.
LEMMA PatchFacts ==
  ASSUME TypeInv, NEW n \in Nat, call.ofs + n <= Size,
         NEW b \in [1..n -> Nat]
  PROVE  /\ Patched(b) \in [Offsets -> Nat]
         /\ \A o \in Offsets : Patched(b)[o] =
              IF call.ofs <= o /\ o < call.ofs + n THEN b[o - call.ofs + 1] ELSE ring[o]
<1>1. call.ofs \in Nat /\ ring \in [Offsets -> Nat]
  BY SizeFacts DEF TypeInv, TypeOK, Offsets
<1>2. \A o \in Offsets : o \in Nat /\ (o - call.ofs + 1 \in DOMAIN b <=> (call.ofs <= o /\ o < call.ofs + n))
  BY <1>1, SizeFacts, SMTT(60) DEF Offsets
<1>3. \A o \in Offsets : Patched(b)[o] =
              IF call.ofs <= o /\ o < call.ofs + n THEN b[o - call.ofs + 1] ELSE ring[o]
  BY <1>2 DEF Patched
<1>4. \A o \in Offsets : call.ofs <= o /\ o < call.ofs + n => o - call.ofs + 1 \in 1..n
  BY <1>1, <1>2
<1>5. \A o \in Offsets : Patched(b)[o] \in Nat
  BY <1>3, <1>4, <1>1
<1>6. Patched(b) = [o \in Offsets |-> Patched(b)[o]]
  BY DEF Patched
<1>7. Patched(b) \in [Offsets -> Nat]
  BY <1>5, <1>6
<1> QED BY <1>3, <1>7

\* The bytes that are kept of what was wanted and what is new.
LEMMA LastFacts ==
  ASSUME NEW s \in Seq(Nat)
  PROVE  /\ LastBytes(s) \in Seq(Nat)
         /\ Len(LastBytes(s)) = MIN(Len(s), Size)
         /\ \A k \in 1..MIN(Len(s), Size) : LastBytes(s)[k] = s[Len(s) - MIN(Len(s), Size) + k]
<1>1. Len(s) \in Nat
  OBVIOUS
<1>2. CASE Len(s) > Size
  <2> DEFINE u == SubSeq(s, Len(s) - Size + 1, Len(s))
  <2>1. /\ Len(s) - Size + 1 \in 1..(Len(s) + 1) /\ Len(s) \in (Len(s) - Size + 1 - 1)..Len(s)
        /\ Len(s) - (Len(s) - Size + 1) + 1 = Size
    BY <1>1, <1>2, SizeFacts
  <2>2. u \in Seq(Nat) /\ Len(u) = Size
    BY <1>1, <1>2, <2>1, SizeFacts
  <2>3. \A k \in 1..Size : u[k] = s[Len(s) - Size + 1 + k - 1]
    BY <1>1, <1>2, <2>1, SizeFacts
  <2>4. \A k \in 1..Size : Len(s) - Size + 1 + k - 1 = Len(s) - Size + k
    BY <1>1, SizeFacts
  <2>5. LastBytes(s) = u /\ MIN(Len(s), Size) = Size
    BY <1>1, <1>2, SizeFacts DEF LastBytes, MIN
  <2> QED BY <2>2, <2>3, <2>4, <2>5
<1>3. CASE ~(Len(s) > Size)
  <2>1. LastBytes(s) = s /\ MIN(Len(s), Size) = Len(s)
    BY <1>1, <1>3, SizeFacts DEF LastBytes, MIN
  <2> QED BY <2>1, <1>1
<1> QED BY <1>2, <1>3

LEMMA SeqFacts ==
  ASSUME NEW n \in Nat, NEW f \in [1..n -> Nat]
  PROVE  f \in Seq(Nat) /\ Len(f) = n
OBVIOUS

\* A block of cells as a sequence.
LEMMA CellsFacts ==
  ASSUME TypeInv, NEW o \in Nat, NEW n \in Nat, o + n <= Size
  PROVE  /\ Cells(o, n) \in Seq(Nat) /\ Len(Cells(o, n)) = n
         /\ \A k \in 1..n : Cells(o, n)[k] = ring[o + k - 1]
<1>1. ring \in [Offsets -> Nat]
  BY DEF TypeInv, TypeOK
<1>2. \A k \in 1..n : o + k - 1 \in Offsets
  BY SizeFacts DEF Offsets
<1>3. Cells(o, n) \in [1..n -> Nat]
  BY <1>1, <1>2 DEF Cells
<1>4. Cells(o, n) \in Seq(Nat) /\ Len(Cells(o, n)) = n
  BY <1>3
<1> QED BY <1>4 DEF Cells

-----------------------------------------------------------------------------
(* The offsets stay inside the ring. *)

LEMMA TypeInit == Init => TypeInv
<1> SUFFICES ASSUME Init PROVE TypeInv
  OBVIOUS
<1>1. call.op = "none" /\ call.ofs = 0 /\ call.remain = 0 /\ call.size = 0
  BY DEF Init, NoCall
<1>2. <<>> \in Seq(Nat) /\ Junk \in Nat
  BY EmptySeq DEF Junk
<1>3. ring \in [Offsets -> Nat]
  BY <1>2 DEF Init
<1>4. TypeOK
  BY <1>1, <1>3, StartFacts, SizeFacts DEF Init, TypeOK
<1>5. CallOK
  BY <1>1, <1>2, StartFacts DEF Init, CallOK
<1> QED BY <1>4, <1>5 DEF TypeInv

\* No call is under way after a step that ends one.
LEMMA NoCallFacts ==
  /\ NoCall.op = "none" /\ NoCall.size = 0 /\ NoCall.remain = 0 /\ NoCall.ofs = 0
  /\ NoResult.op = "none"
BY DEF NoCall, NoResult

\* The steps outside the calls, and the ends of calls that give nothing.
LEMMA TypeControl ==
  TypeInv /\ (DisklogInit \/ Reset \/ Shutdown \/ OutputFail \/ ReadFail
              \/ (\E n \in InputSizes : InputUninitialised(n))) => TypeInv'
<1> SUFFICES ASSUME TypeInv,
                    DisklogInit \/ Reset \/ Shutdown \/ OutputFail \/ ReadFail
                      \/ (\E n \in InputSizes : InputUninitialised(n))
             PROVE  TypeInv'
  OBVIOUS
<1> USE NoCallFacts, StartFacts, SizeFacts
<1>1. <<>> \in Seq(Nat)
  BY EmptySeq
<1>2. faults' \in Nat
  BY BoundsAssumption DEF TypeInv, TypeOK, DisklogInit, Reset, Shutdown, OutputFail, ReadFail,
     InputUninitialised, Fails, Save
<1>3. CASE DisklogInit
  <2>1. call.op = "none" /\ call' = call /\ result' = NoResult /\ rdlog' = rdlog /\ ring' = ring
        /\ serial' = serial
    BY <1>3 DEF DisklogInit
  <2>2. log' \in LogType /\ hdr' \in LogType \cup {NoHeader}
    BY <1>3 DEF DisklogInit, Save, TypeInv, TypeOK
  <2>3. phase' \in {"off", "failed", "on", "dead"} /\ want' \in Seq(Nat) /\ spoiled' \in BOOLEAN
    BY <1>1, <1>3 DEF DisklogInit, Save, TypeInv, TypeOK, CallOK
  <2>4. TypeOK'
    BY <1>2, <2>1, <2>2, <2>3 DEF TypeInv, TypeOK
  <2>5. CallOK'
    BY <2>1, <2>3 DEF TypeInv, CallOK
  <2> QED BY <2>4, <2>5 DEF TypeInv
<1>4. CASE Reset
  <2>1. call.op = "none" /\ call' = call /\ result' = NoResult /\ rdlog' = rdlog /\ ring' = ring
        /\ serial' = serial /\ log' = Empty
    BY <1>4 DEF Reset, Ready
  <2>2. hdr' \in LogType \cup {NoHeader} /\ phase' \in {"off", "failed", "on", "dead"}
    BY <1>4 DEF Reset, Save, TypeInv, TypeOK
  <2>3. want' \in Seq(Nat) /\ spoiled' \in BOOLEAN
    BY <1>1, <1>4 DEF Reset
  <2>4. TypeOK'
    BY <1>2, <2>1, <2>2, <2>3 DEF TypeInv, TypeOK
  <2>5. CallOK'
    BY <2>1, <2>3 DEF TypeInv, CallOK
  <2> QED BY <2>4, <2>5 DEF TypeInv
<1>5. CASE Shutdown
  <2>1. call.op = "none" /\ call' = call /\ result' = NoResult /\ rdlog' = Empty /\ ring' = ring
        /\ hdr' = hdr /\ serial' = serial /\ log' = Empty /\ phase' = "off" /\ want' = want
        /\ spoiled' = spoiled
    BY <1>5 DEF Shutdown, Ready, disk, ghost
  <2>4. TypeOK'
    BY <1>2, <2>1 DEF TypeInv, TypeOK
  <2>5. CallOK'
    BY <2>1 DEF TypeInv, CallOK
  <2> QED BY <2>4, <2>5 DEF TypeInv
<1>6. CASE OutputFail \/ ReadFail
  <2>1. call' = NoCall /\ result' = result /\ rdlog' = rdlog /\ ring' = ring /\ hdr' = hdr
        /\ serial' = serial /\ log' = log /\ phase' = phase /\ want' = want /\ spoiled' = spoiled
    BY <1>6 DEF OutputFail, ReadFail, disk, ghost
  <2>4. TypeOK'
    BY <1>2, <2>1 DEF TypeInv, TypeOK
  <2>5. CallOK'
    BY <2>1 DEF TypeInv, CallOK
  <2> QED BY <2>4, <2>5 DEF TypeInv
<1>7. CASE \E n \in InputSizes : InputUninitialised(n)
  <2>1. call.op = "none" /\ call' = call /\ result' = NoResult /\ rdlog' = rdlog /\ ring' = ring
        /\ serial' = serial /\ log' = log /\ want' = want /\ spoiled' = spoiled
    BY <1>7 DEF InputUninitialised, ghost
  <2>2. hdr' \in LogType \cup {NoHeader} /\ phase' \in {"off", "failed", "on", "dead"}
    BY <1>7 DEF InputUninitialised, TypeInv, TypeOK
  <2>4. TypeOK'
    BY <1>2, <2>1, <2>2 DEF TypeInv, TypeOK
  <2>5. CallOK'
    BY <2>1 DEF TypeInv, CallOK
  <2> QED BY <2>4, <2>5 DEF TypeInv
<1> QED BY <1>3, <1>4, <1>5, <1>6, <1>7

\* What a step leaves alone when it only starts or moves a call.
Quiet == UNCHANGED <<phase, log, disk, ghost, faults>>

LEMMA TypeStart ==
  TypeInv /\ ((\E n \in InputSizes : InputCall(n)) \/ OutputCall
              \/ (\E first \in BOOLEAN : ReadCall(first))) => TypeInv'
<1> SUFFICES ASSUME TypeInv,
                    (\E n \in InputSizes : InputCall(n)) \/ OutputCall
                      \/ (\E first \in BOOLEAN : ReadCall(first))
             PROVE  TypeInv'
  OBVIOUS
<1> USE NoCallFacts, StartFacts, SizeFacts
<1>1. Quiet /\ result' = NoResult
  BY DEF InputCall, OutputCall, ReadCall, Quiet
<1>2. log \in LogType /\ rdlog \in LogType
  BY DEF TypeInv, TypeOK
<1>a. \A l \in LogType : l.wr_ofs \in Offsets /\ l.rd_ofs \in Offsets /\ l.d_size \in Nat
  BY DEF LogType
<1>3. CASE \E n \in InputSizes : InputCall(n)
  <2>1. PICK n \in InputSizes : InputCall(n)
    BY <1>3
  <2>2. n \in Nat
    BY InputSizesAssumption
  <2>3. call' = [op |-> "input", size |-> n, remain |-> n, ofs |-> log.wr_ofs, data |-> <<>>, ret |-> 0]
    BY <2>1 DEF InputCall, NoCall
  <2>4. rdlog' = rdlog /\ phase = "on"
    BY <2>1 DEF InputCall, Idle
  <2>5. call' \in Calls
    BY <1>2, <1>a, <2>2, <2>3, EmptySeq DEF Calls
  <2>6. TypeOK'
    BY <1>1, <1>2, <1>a, <2>2, <2>3, <2>4 DEF TypeInv, TypeOK, Quiet, disk, ghost
  <2>7. Written' = 0 /\ serial' \in Nat
    BY <2>2, <2>3, <1>1 DEF Written, TypeInv, TypeOK, Quiet, ghost
  <2>8. CallOK'
    BY <1>1, <2>2, <2>3, <2>4, <2>5, <2>7 DEF TypeInv, CallOK, Quiet, ghost
  <2> QED BY <2>6, <2>8 DEF TypeInv
<1>4. CASE OutputCall
  <2>3. call' = [op |-> "output", size |-> 0, remain |-> log.d_size, ofs |-> log.rd_ofs,
                 data |-> <<>>, ret |-> 0]
    BY <1>4 DEF OutputCall, NoCall
  <2>4. rdlog' = rdlog /\ log' = log
    BY <1>4 DEF OutputCall
  <2>5. call' \in Calls
    BY <1>2, <1>a, <2>3, EmptySeq DEF Calls
  <2>6. TypeOK'
    BY <1>1, <1>2, <1>a, <2>3, <2>4 DEF TypeInv, TypeOK, Quiet, disk, ghost
  <2>8. CallOK'
    BY <1>1, <1>2, <1>a, <2>3, <2>4, <2>5 DEF TypeInv, CallOK, Quiet, ghost
  <2> QED BY <2>6, <2>8 DEF TypeInv
<1>5. CASE \E first \in BOOLEAN : ReadCall(first)
  <2>1. PICK r \in LogType :
          /\ rdlog' = r
          /\ call' = [NoCall EXCEPT !.op = "read", !.size = MIN(MaxLen, r.d_size),
                            !.remain = MIN(MaxLen, r.d_size), !.ofs = r.rd_ofs]
    BY <1>5, <1>2 DEF ReadCall
  <2>2. PICK n \in Nat : n = MIN(MaxLen, r.d_size) /\ n <= r.d_size
    BY <1>a, ChunkAssumption, MinFacts
  <2>3. call' = [op |-> "read", size |-> n, remain |-> n, ofs |-> r.rd_ofs, data |-> <<>>, ret |-> 0]
    BY <2>1, <2>2 DEF NoCall
  <2>5. call' \in Calls
    BY <1>a, <2>2, <2>3, EmptySeq DEF Calls
  <2>6. TypeOK'
    BY <1>1, <1>2, <1>a, <2>1, <2>2, <2>3 DEF TypeInv, TypeOK, Quiet, disk, ghost
  <2>8. CallOK'
    BY <1>1, <1>2, <1>a, <2>1, <2>2, <2>3, <2>5 DEF TypeInv, CallOK, Quiet, ghost
  <2> QED BY <2>6, <2>8 DEF TypeInv
<1> QED BY <1>3, <1>4, <1>5

\* The fields of a call and of a log.
LEMMA Fields ==
  ASSUME TypeInv
  PROVE  /\ call.ofs \in Nat /\ call.ofs < Size /\ call.remain \in Nat /\ call.size \in Nat
         /\ call.data \in Seq(Nat) /\ call.ret \in Nat /\ serial \in Nat
         /\ log.wr_ofs \in Nat /\ log.wr_ofs < Size /\ log.rd_ofs \in Nat /\ log.rd_ofs < Size
         /\ log.d_size \in Nat /\ log.d_size <= Size
         /\ ring \in [Offsets -> Nat] /\ want \in Seq(Nat)
<1>1. call \in Calls /\ log \in LogType /\ serial \in Nat /\ ring \in [Offsets -> Nat] /\ want \in Seq(Nat)
  BY DEF TypeInv, TypeOK, CallOK
<1>2. /\ call.ofs \in Offsets /\ call.remain \in Nat /\ call.size \in Nat /\ call.data \in Seq(Nat)
      /\ call.ret \in Nat /\ log.wr_ofs \in Offsets /\ log.rd_ofs \in Offsets /\ log.d_size \in 0..Size
  BY <1>1 DEF Calls, LogType
<1>3. \A o \in Offsets : o \in Nat /\ o < Size
  BY SizeFacts DEF Offsets
<1>4. /\ call.ofs \in Nat /\ call.ofs < Size
      /\ log.wr_ofs \in Nat /\ log.wr_ofs < Size /\ log.rd_ofs \in Nat /\ log.rd_ofs < Size
  BY <1>2, <1>3, Zenon
<1>5. log.d_size \in Nat /\ log.d_size <= Size
  BY <1>2, SizeFacts
<1> QED BY <1>1, <1>2, <1>4, <1>5, Zenon

LEMMA TypeInputPiece == TypeInv /\ InputPiece => TypeInv'
<1> SUFFICES ASSUME TypeInv, InputPiece PROVE TypeInv'
  OBVIOUS
<1> USE Fields, SizeFacts
<1>1. call.op = "input" /\ call.remain > 0
  BY DEF InputPiece
<1>2. /\ Piece \in Nat /\ 1 <= Piece /\ Piece <= call.remain /\ call.ofs + Piece <= Size
  BY <1>1, PieceFacts
<1> DEFINE p == Piece  o == Wrap(call.ofs + Piece)
           b == [k \in 1..p |-> serial + k]
<1>3. o \in Offsets
  BY <1>2, WrapFacts
<1>4. b \in [1..p -> Nat]
  BY <1>2
<1>5. Patched(b) \in [Offsets -> Nat]
  BY <1>2, <1>4, PatchFacts
<1>6. call' = [op |-> "input", size |-> call.size, remain |-> call.remain - p, ofs |-> o,
               data |-> call.data, ret |-> call.ret]
  <2>1. call \in Calls
    BY DEF TypeInv, CallOK
  <2> QED BY <1>1, <2>1 DEF InputPiece, Calls
<1>7. call.remain - p \in Nat
  BY <1>2
<1>8. call' \in Calls
  BY <1>3, <1>6, <1>7 DEF Calls
<1>9. ring' \in [Offsets -> Nat] /\ serial' = serial + p /\ serial' \in Nat
  BY <1>2, <1>5, SMTT(60) DEF InputPiece
<1>10. TypeOK'
  <2>1. /\ call'.op = "input" /\ call'.ofs \in Offsets /\ call'.remain \in Nat /\ call'.size \in Nat
    BY <1>3, <1>6, <1>7
  <2> QED BY <1>9, <2>1 DEF TypeInv, TypeOK, InputPiece
<1>11. CallOK'
  <2>1. Written' = Written + p /\ Written <= serial /\ phase = "on" /\ call.remain <= call.size
    BY <1>1, <1>2, <1>6 DEF Written, TypeInv, CallOK
  <2>2. call'.op = "input" /\ call'.remain <= call'.size
    BY <1>2, <1>6, <2>1
  <2>3. Written \in Int
    BY DEF Written
  <2>4. Written' <= serial'
    BY <1>2, <1>9, <2>1, <2>3
  <2> QED BY <1>8, <2>1, <2>2, <2>4 DEF TypeInv, CallOK, InputPiece
<1> QED BY <1>10, <1>11 DEF TypeInv

LEMMA TypeInputFail == TypeInv /\ InputFail => TypeInv'
<1> SUFFICES ASSUME TypeInv, InputFail PROVE TypeInv'
  OBVIOUS
<1> USE Fields, SizeFacts, NoCallFacts, StartFacts
<1>1. call.op = "input" /\ call.remain > 0
  BY DEF InputFail
<1>2. /\ Piece \in Nat /\ 1 <= Piece /\ Piece <= call.remain /\ call.ofs + Piece <= Size
  BY <1>1, PieceFacts
<1>3. PICK n \in 0..(Piece - 1) :
       /\ ring' = Patched([k \in 1..n |-> Junk])
       /\ spoiled' = (spoiled \/ Reached(n))
  BY DEF InputFail
<1>4. n \in Nat /\ call.ofs + n <= Size /\ [k \in 1..n |-> Junk] \in [1..n -> Nat]
  BY <1>2 DEF Junk
<1>5. ring' \in [Offsets -> Nat] /\ spoiled' \in BOOLEAN
  BY <1>3, <1>4, PatchFacts
<1>6. log' = [log EXCEPT !.wr_ofs = call.ofs]
  BY DEF InputFail
<1>7. log' \in LogType
  <2>1. log \in LogType /\ call.ofs \in Offsets
    BY DEF TypeInv, TypeOK
  <2> QED BY <1>6, <2>1 DEF LogType
<1>8. /\ hdr' \in LogType \cup {NoHeader} /\ phase' \in {"on", "dead"} /\ faults' \in Nat
      /\ call' = NoCall /\ rdlog' = rdlog /\ serial' = serial /\ want' = want
  <2>1. phase = "on"
    BY <1>1 DEF TypeInv, CallOK
  <2>2. faults' \in Nat
    BY SMTT(60) DEF InputFail, Fails, TypeInv, TypeOK
  <2>3. hdr' \in LogType \cup {NoHeader} /\ phase' \in {"on", "dead"}
    BY <1>7, <2>1 DEF InputFail, TypeInv, TypeOK
  <2> QED BY <2>2, <2>3 DEF InputFail
<1>9. result' = [op |-> "input", ok |-> FALSE, data |-> <<>>, ret |-> 0, taken |-> 0]
  BY DEF InputFail, NoResult
<1>10. result' \in Results
  BY <1>9, EmptySeq DEF Results
<1>11. TypeOK'
  BY <1>5, <1>7, <1>8, SMTT(60) DEF TypeInv, TypeOK
<1>12. CallOK'
  BY <1>8, <1>10 DEF TypeInv, CallOK
<1> QED BY <1>11, <1>12 DEF TypeInv

LEMMA TypeInputDone == TypeInv /\ InputDone => TypeInv'
<1> SUFFICES ASSUME TypeInv, InputDone PROVE TypeInv'
  OBVIOUS
<1> USE Fields, SizeFacts, NoCallFacts, StartFacts
<1>1. call.op = "input" /\ call.remain = 0
  BY DEF InputDone
<1>2. call.size <= serial
  BY <1>1 DEF TypeInv, CallOK, Written
<1>3. log' \in LogType
  <2>1. MIN(log.d_size + call.size, Size) \in 0..Size
    <3>1. log.d_size + call.size \in Nat /\ Size \in Nat
      OBVIOUS
    <3>2. MIN(log.d_size + call.size, Size) \in Nat /\ MIN(log.d_size + call.size, Size) <= Size
      BY ONLY <3>1, MinFacts
    <3> QED BY ONLY <3>1, <3>2
  <2>2. call.ofs \in Offsets /\ log.rd_ofs \in Offsets
    BY SMTT(60) DEF Offsets
  <2> QED BY <2>1, <2>2 DEF InputDone, Account, LogType
<1>4. /\ hdr' \in LogType \cup {NoHeader} /\ phase' \in {"on", "dead"} /\ faults' \in Nat
  BY <1>3, BoundsAssumption DEF InputDone, Save, Fails, TypeInv, TypeOK
<1> DEFINE b == [k \in 1..call.size |-> serial - call.size + k]
<1>5. b \in Seq(Nat)
  <2>1. \A k \in 1..call.size : serial - call.size + k \in Nat
    BY <1>2
  <2>2. b \in [1..call.size -> Nat]
    BY <2>1
  <2>3. call.size \in Nat
    OBVIOUS
  <2> QED BY ONLY <2>2, <2>3, SeqFacts
<1>6. want' \in Seq(Nat)
  <2>1. want \o b \in Seq(Nat)
    BY <1>5
  <2> QED BY <2>1, LastFacts DEF InputDone
<1>7. spoiled' \in BOOLEAN /\ call' = NoCall /\ ring' = ring /\ rdlog' = rdlog /\ serial' = serial
  BY DEF InputDone
<1>8. result' = [op |-> "input", ok |-> TRUE, data |-> <<>>, ret |-> 0, taken |-> 0]
  BY DEF InputDone, NoResult
<1>9. result' \in Results
  BY <1>8, EmptySeq DEF Results
<1>10. TypeOK'
  BY <1>3, <1>4, <1>7 DEF TypeInv, TypeOK
<1>11. CallOK'
  BY <1>6, <1>7, <1>9 DEF TypeInv, CallOK
<1> QED BY <1>10, <1>11 DEF TypeInv

\* The steps of disklog_ouput and disklog_read that change the call only.
LEMMA TypeReading == TypeInv /\ (OutputPiece \/ ReadPiece) => TypeInv'
<1> SUFFICES ASSUME TypeInv, OutputPiece \/ ReadPiece PROVE TypeInv'
  OBVIOUS
<1> USE Fields, SizeFacts
<1>1. call.remain > 0 /\ call.op \in {"output", "read"}
  BY DEF OutputPiece, ReadPiece
<1>2. /\ Piece \in Nat /\ 1 <= Piece /\ Piece <= call.remain /\ call.ofs + Piece <= Size
  BY <1>1, PieceFacts
<1>3. Quiet /\ result' = result /\ rdlog' = rdlog
  BY DEF OutputPiece, ReadPiece, Quiet
<1>4. call \in Calls
  BY DEF TypeInv, CallOK
<1>5. \E n \in Nat, u \in Seq(Nat), r \in Nat :
        /\ n <= call.remain /\ call.ofs + n <= Size
        /\ call' = [op |-> call.op, size |-> call.size, remain |-> call.remain - n,
                    ofs |-> Wrap(call.ofs + n), data |-> u, ret |-> r]
  <2>1. CASE OutputPiece
    <3>1. PICK n \in Nat : n = MIN(Piece, Chunk) /\ n <= Piece
      BY <1>2, ChunkAssumption, MinFacts
    <3>2. Cells(call.ofs, n) \in Seq(Nat)
      BY <1>2, <3>1, CellsFacts
    <3>3. call.data \o Cells(call.ofs, n) \in Seq(Nat)
      BY <3>2
    <3>4. call' = [op |-> call.op, size |-> call.size, remain |-> call.remain - n,
                    ofs |-> Wrap(call.ofs + n), data |-> call.data \o Cells(call.ofs, n),
                    ret |-> call.ret]
      BY <1>4, <2>1, <3>1 DEF OutputPiece, Calls
    <3>5. n <= call.remain /\ call.ofs + n <= Size
      BY <1>2, <3>1, SMTT(60)
    <3> QED BY <3>3, <3>4, <3>5
  <2>2. CASE ReadPiece
    <3>1. Cells(call.ofs, Piece) \in Seq(Nat)
      BY <1>2, CellsFacts
    <3>2. SubSeq(call.data, Piece + 1, Len(call.data)) \in Seq(Nat)
      <4>1. \A k \in (Piece + 1)..Len(call.data) : k \in 1..Len(call.data)
        BY <1>2
      <4>2. \A k \in (Piece + 1)..Len(call.data) : call.data[k] \in Nat
        BY <4>1, ElementOfSeq
      <4>3. Piece + 1 \in Int /\ Len(call.data) \in Int
        BY <1>2
      <4> QED BY ONLY <4>2, <4>3, SubSeqProperties
    <3>3. Cells(call.ofs, Piece) \o SubSeq(call.data, Piece + 1, Len(call.data)) \in Seq(Nat)
      BY <3>1, <3>2
    <3>4. call' = [op |-> call.op, size |-> call.size, remain |-> call.remain - Piece,
                    ofs |-> Wrap(call.ofs + Piece),
                    data |-> Cells(call.ofs, Piece) \o SubSeq(call.data, Piece + 1, Len(call.data)),
                    ret |-> Piece]
      BY <1>4, <2>2 DEF ReadPiece, Calls
    <3> QED BY <1>2, <3>3, <3>4
  <2> QED BY <2>1, <2>2
<1>6. PICK n \in Nat, u \in Seq(Nat), r \in Nat :
        /\ n <= call.remain /\ call.ofs + n <= Size
        /\ call' = [op |-> call.op, size |-> call.size, remain |-> call.remain - n,
                    ofs |-> Wrap(call.ofs + n), data |-> u, ret |-> r]
  BY <1>5
<1>7. Wrap(call.ofs + n) \in Offsets /\ call.remain - n \in Nat /\ call.remain - n <= call.remain
  <2>1. call.ofs + n \in Nat
    OBVIOUS
  <2>2. Wrap(call.ofs + n) \in Offsets
    BY <1>6, <2>1, WrapFacts
  <2>3. call.remain \in Nat /\ n \in Nat /\ n <= call.remain
    BY <1>6
  <2> QED BY ONLY <2>2, <2>3
<1>8. call' \in Calls
  BY <1>1, <1>6, <1>7 DEF Calls
<1>9. /\ call'.op = call.op /\ call'.ofs \in Offsets /\ call'.remain \in Nat /\ call'.size = call.size
      /\ call'.remain <= call.remain
  BY <1>6, <1>7
<1>10. TypeOK'
  BY <1>1, <1>3, <1>9 DEF TypeInv, TypeOK, Quiet, disk, ghost
<1>11. CallOK'
  <2>1. call.op = "output" => call'.remain <= log.d_size
    BY <1>9 DEF TypeInv, CallOK
  <2>2. call.op = "read" => call'.remain <= call'.size /\ call'.size <= rdlog.d_size
    BY <1>9 DEF TypeInv, CallOK
  <2> QED BY <1>1, <1>3, <1>8, <1>9, <2>1, <2>2 DEF TypeInv, CallOK, Quiet, ghost
<1> QED BY <1>10, <1>11 DEF TypeInv

LEMMA TypeDone == TypeInv /\ (OutputDone \/ ReadDone) => TypeInv'
<1> SUFFICES ASSUME TypeInv, OutputDone \/ ReadDone PROVE TypeInv'
  OBVIOUS
<1> USE Fields, SizeFacts, NoCallFacts, StartFacts
<1>1. Quiet /\ call' = NoCall
  BY DEF OutputDone, ReadDone, Quiet
<1>2. CASE OutputDone
  <2>1. result' = [op |-> "output", ok |-> TRUE, data |-> call.data, ret |-> 0, taken |-> 0]
        /\ rdlog' = rdlog
    BY <1>2 DEF OutputDone, NoResult
  <2>2. result' \in Results
    BY <2>1 DEF Results
  <2>3. TypeOK'
    BY <1>1, <2>1, SMTT(60) DEF TypeInv, TypeOK, Quiet, disk, ghost
  <2>4. CallOK'
    BY <1>1, <2>2 DEF TypeInv, CallOK, Quiet, ghost
  <2> QED BY <2>3, <2>4 DEF TypeInv
<1>3. CASE ReadDone
  <2>1. result' = [op |-> "read", ok |-> TRUE, data |-> call.data, ret |-> call.ret,
                   taken |-> call.size]
    BY <1>3 DEF ReadDone
  <2>2. result' \in Results
    BY <2>1 DEF Results
  <2>3. rdlog \in LogType /\ call.ofs \in Offsets /\ call.size <= rdlog.d_size
    BY <1>3 DEF TypeInv, TypeOK, CallOK, ReadDone
  <2>4. rdlog' = [wr_ofs |-> rdlog.wr_ofs, rd_ofs |-> call.ofs, d_size |-> rdlog.d_size - call.size]
    BY <1>3, <2>3 DEF ReadDone, LogType
  <2>5. rdlog.d_size \in 0..Size /\ rdlog.wr_ofs \in Offsets
    BY <2>3 DEF LogType
  <2>6. rdlog.d_size - call.size \in 0..Size
    BY <2>3, <2>5, SMTT(60)
  <2>7. rdlog' \in LogType
    BY <2>3, <2>4, <2>5, <2>6 DEF LogType
  <2>8. TypeOK'
    BY <1>1, <2>7, SMTT(60) DEF TypeInv, TypeOK, Quiet, disk, ghost
  <2>9. CallOK'
    BY <1>1, <2>2 DEF TypeInv, CallOK, Quiet, ghost
  <2> QED BY <2>8, <2>9 DEF TypeInv
<1> QED BY <1>2, <1>3

LEMMA TypeStep == TypeInv /\ [Next]_vars => TypeInv'
<1> SUFFICES ASSUME TypeInv, [Next]_vars PROVE TypeInv'
  OBVIOUS
<1>1. CASE UNCHANGED vars
  BY <1>1 DEF vars, disk, ghost, TypeInv, TypeOK, CallOK, Written
<1>2. CASE Next
  BY <1>2, TypeControl, TypeStart, TypeInputPiece, TypeInputFail, TypeInputDone, TypeReading,
     TypeDone, Zenon DEF Next
<1> QED BY <1>1, <1>2

-----------------------------------------------------------------------------
(* Going around the ring. *)

LEMMA AheadFacts ==
  ASSUME NEW o \in Nat, o < Size, NEW n \in Nat, n <= Size
  PROVE  Ahead(o, n) \in Nat /\ Ahead(o, n) < Size /\ Ahead(o, n) \in Offsets /\ Ahead(o, 0) = o
BY SizeFacts DEF Ahead, Offsets

\* Two ways add up.
LEMMA AheadSum ==
  ASSUME NEW o \in Nat, o < Size, NEW m \in Nat, NEW n \in Nat, m + n <= Size
  PROVE  Ahead(Ahead(o, m), n) = Ahead(o, m + n)
BY SizeFacts DEF Ahead

\* A part that stays inside the ring moves the offset by its length.
LEMMA AheadWrap ==
  ASSUME NEW o \in Nat, o < Size, NEW m \in Nat, NEW n \in Nat, m + n <= Size,
         Ahead(o, m) + n <= Size
  PROVE  Wrap(Ahead(o, m) + n) = Ahead(o, m + n)
BY SizeFacts DEF Ahead, Wrap

\* The bytes of such a part.
LEMMA AheadInside ==
  ASSUME NEW o \in Nat, o < Size, NEW m \in Nat, NEW n \in Nat, m + n <= Size,
         Ahead(o, m) + n <= Size, NEW k \in Nat, k > m, k <= m + n
  PROVE  Ahead(o, m) + (k - m) - 1 = Ahead(o, k - 1)
BY SizeFacts DEF Ahead

\* The k-th byte from o on, seen from behind the d-th.
LEMMA BackAhead ==
  ASSUME NEW o \in Nat, o < Size, NEW d \in Nat, d <= Size, NEW k \in 1..d
  PROVE  Back(Ahead(o, d), d - k + 1) = Ahead(o, k - 1)
BY SizeFacts DEF Ahead, Back

\* It is not among the n bytes that follow.
LEMMA AheadApart ==
  ASSUME NEW o \in Nat, o < Size, NEW d \in Nat, NEW n \in Nat, d + n <= Size, NEW k \in 1..d,
         Ahead(o, d) + n <= Size
  PROVE  ~(Ahead(o, d) <= Ahead(o, k - 1) /\ Ahead(o, k - 1) < Ahead(o, d) + n)
BY SizeFacts DEF Ahead

\* Bytes in front of an offset, after n bytes were written there.
LEMMA StepBack ==
  ASSUME NEW o \in Nat, o < Size, NEW n \in Nat, o + n <= Size, NEW j \in 1..Size
  PROVE  /\ Back(Wrap(o + n), j) \in Offsets
         /\ j <= n => Back(Wrap(o + n), j) = o + n - j
         /\ j > n => /\ Back(Wrap(o + n), j) = Back(o, j - n)
                     /\ ~(o <= Back(o, j - n) /\ Back(o, j - n) < o + n)
BY SizeFacts DEF Back, Wrap, Offsets

\* A ring that is full, from its oldest byte.
LEMMA FullRing ==
  ASSUME NEW o \in Nat, o < Size, NEW k \in 1..Size
  PROVE  Ahead(o, k - 1) = Back(o, Size - k + 1)
BY SizeFacts DEF Ahead, Back

-----------------------------------------------------------------------------
(* The ring holds what was logged. *)

\* Outside a call only these three have something to say.
LEMMA RingOutside ==
  Saved /\ Kept /\ OutputComplete /\ call.op \in {"none", "read"} => RingInv
BY DEF RingInv, NewBytes, Place, OldBytes, Given, Answered

LEMMA RingInit == Init => RingInv
<1> SUFFICES ASSUME Init PROVE RingInv
  OBVIOUS
<1>1. call.op = "none" /\ result.op = "none"
  BY NoCallFacts DEF Init
<1>2. Saved
  BY StartFacts DEF Init, Saved
<1>3. Kept
  BY DEF Init, Kept
<1>4. OutputComplete
  BY <1>1 DEF OutputComplete
<1> QED BY <1>1, <1>2, <1>3, <1>4, RingOutside

LEMMA RingControl ==
  LogInv /\ (DisklogInit \/ Reset \/ Shutdown \/ OutputFail \/ ReadFail
             \/ (\E n \in InputSizes : InputUninitialised(n))) => RingInv'
<1> SUFFICES ASSUME LogInv,
                    DisklogInit \/ Reset \/ Shutdown \/ OutputFail \/ ReadFail
                      \/ (\E n \in InputSizes : InputUninitialised(n))
             PROVE  RingInv'
  OBVIOUS
<1> USE NoCallFacts, StartFacts
<1>1. Saved /\ Kept /\ Answered /\ TypeInv
  BY DEF LogInv, RingInv
<1>2. log \in LogType /\ hdr \in LogType \cup {NoHeader}
  BY <1>1 DEF TypeInv, TypeOK
<1>3. Empty.d_size = 0 /\ NoHeader.d_size = 0
  BY DEF Empty, NoHeader
<1>o. Saved' /\ Kept' /\ OutputComplete' /\ call'.op \in {"none", "read"} => RingInv'
  BY DEF RingInv, NewBytes, Place, OldBytes, Given, Answered
<1>4. CASE DisklogInit
  <2>1. call.op = "none" /\ call' = call /\ result' = NoResult /\ ring' = ring
    BY <1>4 DEF DisklogInit
  <2>2. Saved'
    BY <1>1, <1>3, <1>4 DEF DisklogInit, Save, Saved
  <2>3. hdr' = hdr /\ want' = want /\ spoiled' = spoiled /\ phase # "dead" => Kept'
    BY <1>1, <2>1 DEF Kept, Holds
  <2>4. ASSUME hdr = NoHeader, want' = <<>>, Save(Empty)
        PROVE  Kept'
    <3>1. Len(want') = 0
      BY <2>4, EmptySeq
    <3>2. hdr' = Empty \/ phase' = "dead"
      BY <2>4 DEF Save
    <3> QED BY <1>3, <3>1, <3>2 DEF Kept, Holds
  <2>6. Kept'
    BY <1>4, <2>3, <2>4 DEF DisklogInit
  <2>7. OutputComplete'
    BY <2>1 DEF OutputComplete
  <2> QED BY <1>o, <2>1, <2>2, <2>6, <2>7
<1>5. CASE Reset
  <2>1. call.op = "none" /\ call' = call /\ result' = NoResult /\ ring' = ring /\ log' = Empty
        /\ Save(Empty) /\ want' = <<>>
    BY <1>5 DEF Reset, Ready
  <2>2. Saved'
    BY <1>1, <1>3, <2>1 DEF Save, Saved
  <2>3. Len(want') = 0
    BY <2>1, EmptySeq
  <2>4. hdr' = Empty \/ phase' = "dead"
    BY <2>1 DEF Save
  <2>6. Kept'
    BY <1>3, <2>3, <2>4 DEF Kept, Holds
  <2>7. OutputComplete'
    BY <2>1 DEF OutputComplete
  <2> QED BY <1>o, <2>1, <2>2, <2>6, <2>7
<1>6. CASE Shutdown
  <2>1. call.op = "none" /\ call' = call /\ result' = NoResult /\ ring' = ring /\ log' = Empty
        /\ hdr' = hdr /\ want' = want /\ spoiled' = spoiled /\ phase' = "off" /\ phase # "dead"
    BY <1>6 DEF Shutdown, Ready, disk, ghost
  <2>2. Saved'
    BY <1>1, <2>1 DEF Saved
  <2>6. Kept'
    BY <1>1, <2>1 DEF Kept, Holds
  <2>7. OutputComplete'
    BY <2>1 DEF OutputComplete
  <2> QED BY <1>o, <2>1, <2>2, <2>6, <2>7
<1>7. CASE OutputFail \/ ReadFail
  <2>1. call.op # "input" /\ call' = NoCall /\ result' = result /\ ring' = ring /\ log' = log
        /\ hdr' = hdr /\ want' = want /\ spoiled' = spoiled /\ phase' = phase
    BY <1>7 DEF OutputFail, ReadFail, disk, ghost
  <2>2. Saved'
    BY <1>1, <2>1 DEF Saved
  <2>6. Kept'
    BY <1>1, <2>1 DEF Kept, Holds
  <2>7. OutputComplete'
    BY <1>1, <2>1 DEF OutputComplete, Answered
  <2> QED BY <1>o, <2>1, <2>2, <2>6, <2>7
<1>8. CASE \E n \in InputSizes : InputUninitialised(n)
  <2>1. call.op = "none" /\ call' = call /\ result' = NoResult /\ log' = log /\ phase' # "on"
    BY <1>8 DEF InputUninitialised
  <2>2. (hdr' = NoHeader /\ phase' = phase) \/ (hdr' = hdr /\ phase' = "dead")
    BY <1>8 DEF InputUninitialised
  <2>3. Saved'
    BY <1>1, <2>1, <2>2 DEF Saved
  <2>6. Kept'
    BY <1>1, <2>2 DEF Kept
  <2>7. OutputComplete'
    BY <2>1 DEF OutputComplete
  <2> QED BY <1>o, <2>1, <2>3, <2>6, <2>7
<1> QED BY <1>4, <1>5, <1>6, <1>7, <1>8

\* The steps that only read the log and the ring, and leave them alone.
LEMMA RingReading ==
  LogInv /\ (OutputCall \/ (\E first \in BOOLEAN : ReadCall(first)) \/ OutputPiece \/ ReadPiece
             \/ OutputDone \/ ReadDone) => RingInv'
<1> SUFFICES ASSUME LogInv,
                    OutputCall \/ (\E first \in BOOLEAN : ReadCall(first)) \/ OutputPiece
                      \/ ReadPiece \/ OutputDone \/ ReadDone
             PROVE  RingInv'
  OBVIOUS
<1> USE NoCallFacts, SizeFacts
<1>1. Saved /\ Kept /\ Answered /\ Given /\ TypeInv
  BY DEF LogInv, RingInv
<1>f. /\ call.ofs \in Nat /\ call.ofs < Size /\ call.remain \in Nat /\ call.data \in Seq(Nat)
      /\ log.rd_ofs \in Nat /\ log.rd_ofs < Size /\ log.d_size \in Nat /\ log.d_size <= Size
      /\ want \in Seq(Nat)
  BY <1>1, Fields
<1>2. /\ phase' = phase /\ log' = log /\ hdr' = hdr /\ ring' = ring /\ want' = want
      /\ spoiled' = spoiled /\ call.op # "input" /\ call'.op # "input"
  <2>1. /\ phase' = phase /\ log' = log /\ hdr' = hdr /\ ring' = ring /\ want' = want
        /\ spoiled' = spoiled
    BY DEF OutputCall, ReadCall, OutputPiece, ReadPiece, OutputDone, ReadDone, disk, ghost
  <2>2. call.op # "input"
    BY DEF OutputCall, ReadCall, OutputPiece, ReadPiece, OutputDone, ReadDone, Ready
  <2>3. call \in Calls
    BY <1>1 DEF TypeInv, CallOK
  <2>4. CASE OutputPiece \/ ReadPiece
    <3>1. call'.op = call.op
      BY <2>3, <2>4 DEF OutputPiece, ReadPiece, Calls
    <3> QED BY <2>1, <2>2, <3>1
  <2>5. CASE OutputCall \/ (\E first \in BOOLEAN : ReadCall(first))
    <3>1. call'.op \in {"output", "read"}
      BY <2>5 DEF OutputCall, ReadCall, NoCall
    <3> QED BY <2>1, <2>2, <3>1
  <2>6. CASE OutputDone \/ ReadDone
    <3>1. call'.op = "none"
      BY <2>6 DEF OutputDone, ReadDone
    <3> QED BY <2>1, <2>2, <3>1
  <2> QED BY <2>4, <2>5, <2>6
<1>3. Saved' /\ Kept'
  BY <1>1, <1>2 DEF Saved, Kept, Holds
<1>4. NewBytes' /\ Place' /\ OldBytes'
  BY <1>2 DEF NewBytes, Place, OldBytes
<1>5. OutputComplete'
  <2>1. CASE result' = result \/ result' = NoResult
    BY <1>1, <1>2, <2>1 DEF OutputComplete, Answered
  <2>2. CASE ReadDone
    <3>1. result'.op = "read"
      BY <2>2 DEF ReadDone
    <3> QED BY <3>1 DEF OutputComplete
  <2>3. CASE OutputDone
    <3>1. result'.data = call.data /\ call.op = "output" /\ call.remain = 0
      BY <2>3 DEF OutputDone, NoResult
    <3>2. ASSUME phase = "on", ~spoiled PROVE call.data = want
      <4>1. hdr = log /\ hdr # NoHeader
        <5>1. log \in LogType /\ phase = "on"
          BY <1>1, <3>2 DEF TypeInv, TypeOK
        <5> QED BY <1>1, <5>1, StartFacts DEF Saved
      <4>2. Holds(log)
        BY <1>1, <1>2, <3>2, <4>1 DEF Kept
      <4>3. Len(call.data) = log.d_size /\ \A k \in 1..Len(call.data) : call.data[k] = LogByte(k)
        BY <1>1, <1>f, <3>1 DEF Given
      <4>4. Len(call.data) = Len(want) /\ \A k \in 1..Len(call.data) : call.data[k] = want[k]
        BY <4>2, <4>3 DEF Holds, LogByte
      <4> QED BY <1>f, <4>4, SeqEqual
    <3> QED BY <1>2, <3>1, <3>2 DEF OutputComplete
  <2>4. result' = result \/ result' = NoResult \/ ReadDone \/ OutputDone
    BY DEF OutputCall, ReadCall, OutputPiece, ReadPiece
  <2> QED BY <2>1, <2>2, <2>3, <2>4
<1>6. Given'
  <2>1. CASE OutputCall
    <3>1. /\ call'.op = "output" /\ call'.remain = log.d_size /\ call'.ofs = log.rd_ofs
          /\ call'.data = <<>>
      BY <2>1 DEF OutputCall, NoCall
    <3>2. Len(call'.data) = 0 /\ log.d_size - log.d_size = 0
      BY <1>f, <3>1, EmptySeq
    <3>3. Ahead(log.rd_ofs, 0) = log.rd_ofs
      BY <1>f, AheadFacts
    <3>4. 1..Len(call'.data) = {}
      BY <3>2
    <3>5. (Ahead(log.rd_ofs, log.d_size - call.remain))' = log.rd_ofs
      BY <1>2, <3>1, <3>2, <3>3 DEF Ahead
    <3> QED BY <1>2, <3>1, <3>2, <3>4, <3>5 DEF Given
  <2>2. CASE OutputPiece
    <3>1. call.op = "output" /\ call.remain > 0 /\ call \in Calls
      BY <1>1, <2>2 DEF OutputPiece, TypeInv, CallOK
    <3>2. Piece \in Nat /\ Piece <= call.remain /\ call.ofs + Piece <= Size
      BY <1>1, <3>1, PieceFacts
    <3>3. PICK n \in Nat : n = MIN(Piece, Chunk) /\ n <= Piece
      BY <3>2, ChunkAssumption, MinFacts
    <3> DEFINE e == log.d_size - call.remain
               u == Cells(call.ofs, n)
    <3>4. e \in Nat /\ e + n \in Nat /\ e + n <= Size /\ n <= call.remain /\ call.ofs + n <= Size
      <4>1. call.remain <= log.d_size
        BY <1>1, <3>1 DEF TypeInv, CallOK
      <4> QED BY <1>f, <3>2, <3>3, <4>1, SMTT(60)
    <3>5. /\ call'.remain = call.remain - n /\ call'.ofs = Wrap(call.ofs + n)
          /\ call'.data = call.data \o u
      BY <2>2, <3>1, <3>3 DEF OutputPiece, Calls
    <3>6. Len(call.data) = e /\ call.ofs = Ahead(log.rd_ofs, e)
      BY <1>1, <3>1 DEF Given
    <3>7. log.d_size - call'.remain = e + n
      BY <1>f, <3>4, <3>5
    <3>8. call'.ofs = Ahead(log.rd_ofs, e + n)
      BY <1>f, <3>4, <3>5, <3>6, AheadWrap, SMTT(60)
    <3>9. u \in Seq(Nat) /\ Len(u) = n /\ \A k \in 1..n : u[k] = ring[call.ofs + k - 1]
      BY <1>1, <1>f, <3>4, CellsFacts
    <3>10. /\ Len(call'.data) = e + n
           /\ \A k \in 1..(e + n) : call'.data[k] = IF k <= e THEN call.data[k] ELSE u[k - e]
      <4>1. call.data \in Seq(Nat) /\ u \in Seq(Nat) /\ Len(call.data) = e /\ Len(u) = n
        BY <1>f, <3>6, <3>9
      <4>2. /\ Len(call.data \o u) = e + n
            /\ \A k \in 1..(e + n) : (call.data \o u)[k] = IF k <= e THEN call.data[k] ELSE u[k - e]
        <5> HIDE DEF e, u
        <5>1. /\ Len(call.data \o u) = Len(call.data) + Len(u)
              /\ \A k \in 1..(Len(call.data) + Len(u)) : (call.data \o u)[k] =
                    IF k <= Len(call.data) THEN call.data[k] ELSE u[k - Len(call.data)]
          BY ONLY <4>1, ConcatProperties, Zenon
        <5> QED BY ONLY <4>1, <5>1
      <4> QED BY ONLY <3>5, <4>2
    <3>11. ASSUME NEW k \in 1..(e + n) PROVE call'.data[k] = ring[Ahead(log.rd_ofs, k - 1)]
      <4>1. CASE k <= e
        <5>1. k \in 1..Len(call.data)
          BY <3>4, <3>6, <4>1
        <5>2. call.data[k] = LogByte(k)
          BY <1>1, <3>1, <5>1 DEF Given
        <5> QED BY <3>10, <4>1, <5>2 DEF LogByte
      <4>2. CASE k > e
        <5>1. k - e \in 1..n /\ ~(k <= e)
          BY <3>4, <4>2
        <5>2. call'.data[k] = ring[call.ofs + (k - e) - 1]
          BY <3>9, <3>10, <5>1
        <5>3. call.ofs + (k - e) - 1 = Ahead(log.rd_ofs, k - 1)
          <6>1. Ahead(log.rd_ofs, e) + (k - e) - 1 = Ahead(log.rd_ofs, k - 1)
            <7>1. log.rd_ofs \in Nat /\ log.rd_ofs < Size /\ Ahead(log.rd_ofs, e) + n <= Size
              BY <1>f, <3>4, <3>6
            <7>2. e \in Nat /\ n \in Nat /\ k \in Nat /\ k > e /\ k <= e + n /\ e + n <= Size
              BY <3>4, <4>2
            <7> QED BY ONLY <7>1, <7>2, AheadInside
          <6> QED BY <3>6, <6>1
        <5> QED BY <5>2, <5>3
      <4> QED BY <3>4, <4>1, <4>2
    <3> HIDE DEF e, u
    <3>12. /\ Len(call'.data) = log'.d_size - call'.remain
           /\ call'.ofs = Ahead(log'.rd_ofs, log'.d_size - call'.remain)
           /\ \A k \in 1..Len(call'.data) : call'.data[k] = ring'[Ahead(log'.rd_ofs, k - 1)]
      BY <1>2, <3>7, <3>8, <3>10, <3>11
    <3> QED BY <3>12 DEF Given, LogByte, Ahead
  <2>3. CASE ~OutputCall /\ ~OutputPiece
    <3>1. call \in Calls
      BY <1>1 DEF TypeInv, CallOK
    <3>2. call'.op # "output"
      BY <2>3, <3>1 DEF ReadCall, ReadPiece, OutputDone, ReadDone, Calls, NoCall
    <3> QED BY <3>2 DEF Given
  <2> QED BY <2>1, <2>2, <2>3
<1> QED BY <1>2, <1>3, <1>4, <1>5, <1>6 DEF RingInv, Answered

LEMMA RingInputCall == LogInv /\ (\E n \in InputSizes : InputCall(n)) => RingInv'
<1> SUFFICES ASSUME LogInv, NEW m \in InputSizes, InputCall(m)
             PROVE  RingInv'
  OBVIOUS
<1> USE NoCallFacts, SizeFacts
<1>1. Saved /\ Kept /\ Answered /\ TypeInv
  BY DEF LogInv, RingInv
<1>f. /\ log.wr_ofs \in Nat /\ log.wr_ofs < Size /\ log.d_size \in Nat /\ log.d_size <= Size
      /\ log.rd_ofs \in Nat /\ log.rd_ofs < Size /\ m \in Nat
  BY <1>1, Fields, InputSizesAssumption
<1>2. /\ phase' = phase /\ log' = log /\ hdr' = hdr /\ ring' = ring /\ want' = want
      /\ spoiled' = spoiled /\ serial' = serial /\ result' = NoResult
      /\ phase = "on" /\ call.op = "none"
  BY DEF InputCall, Idle, disk, ghost
<1>3. call'.op = "input" /\ call'.size = m /\ call'.remain = m /\ call'.ofs = log.wr_ofs
  BY DEF InputCall, NoCall
<1>4. Written' = 0
  BY <1>f, <1>3 DEF Written
<1>5. Saved'
  BY <1>1, <1>2 DEF Saved
<1>6. Kept' /\ Given'
  BY <1>3 DEF Kept, Given
<1>7. Answered'
  BY <1>2 DEF Answered, OutputComplete
<1>8. NewBytes'
  BY <1>4 DEF NewBytes
<1>9. Place'
  <2>1. Ahead(log.wr_ofs, 0) = log.wr_ofs
    BY <1>f, AheadFacts
  <2> QED BY <1>2, <1>3, <1>4, <2>1 DEF Place, Ahead
<1>10. OldBytes'
  <2> SUFFICES ASSUME ~spoiled, Aligned
               PROVE  /\ log.d_size = Len(want)
                      /\ \A k \in 1..log.d_size : 0 + log.d_size - k + 1 <= Size =>
                           ring[Back(log.wr_ofs, 0 + log.d_size - k + 1)] = want[k]
    BY <1>2, <1>3, <1>4 DEF OldBytes, Aligned, Ahead, Back
  <2>1. hdr = log /\ hdr # NoHeader
    <3>1. log \in LogType
      BY <1>1 DEF TypeInv, TypeOK
    <3> QED BY <1>1, <1>2, <3>1, StartFacts DEF Saved
  <2>2. Holds(log)
    BY <1>1, <1>2, <2>1 DEF Kept
  <2>3. ASSUME NEW k \in 1..log.d_size
        PROVE  ring[Back(log.wr_ofs, 0 + log.d_size - k + 1)] = want[k]
    <3>1. Back(Ahead(log.rd_ofs, log.d_size), log.d_size - k + 1) = Ahead(log.rd_ofs, k - 1)
      BY <1>f, BackAhead
    <3>2. 0 + log.d_size - k + 1 = log.d_size - k + 1
      BY <1>f
    <3> QED BY <2>2, <3>1, <3>2 DEF Holds, Aligned
  <2> QED BY <2>2, <2>3 DEF Holds
<1> QED BY <1>5, <1>6, <1>7, <1>8, <1>9, <1>10 DEF RingInv

LEMMA RingInputPiece == LogInv /\ InputPiece => RingInv'
<1> SUFFICES ASSUME LogInv, InputPiece PROVE RingInv'
  OBVIOUS
<1> USE SizeFacts
<1>1. Saved /\ Answered /\ NewBytes /\ Place /\ OldBytes /\ TypeInv
  BY DEF LogInv, RingInv
<1>2. call.op = "input" /\ call.remain > 0 /\ call \in Calls
  BY <1>1 DEF InputPiece, TypeInv, CallOK
<1>f. /\ call.ofs \in Nat /\ call.ofs < Size /\ call.remain \in Nat /\ call.size \in Nat
      /\ log.wr_ofs \in Nat /\ log.wr_ofs < Size /\ log.d_size \in Nat /\ serial \in Nat
      /\ call.remain <= call.size
  BY <1>1, <1>2, Fields DEF TypeInv, CallOK
<1> DEFINE p == Piece  w == Written  b == [k \in 1..p |-> serial + k]
           at(j) == Back(Wrap(call.ofs + p), j)
<1>3. /\ p \in Nat /\ 1 <= p /\ p <= call.remain /\ call.ofs + p <= Size
      /\ p = call.remain \/ call.ofs + p = Size
  BY <1>1, <1>2, PieceFacts
<1>4. /\ call'.op = "input" /\ call'.size = call.size /\ call'.remain = call.remain - p
      /\ call'.ofs = Wrap(call.ofs + p)
  BY <1>2 DEF InputPiece, Calls
<1>5. /\ phase' = phase /\ log' = log /\ hdr' = hdr /\ want' = want /\ spoiled' = spoiled
      /\ result' = result /\ serial' = serial + p /\ ring' = Patched(b)
  BY DEF InputPiece
<1>6. w \in Nat /\ Written' = w + p
  BY <1>f, <1>3, <1>4 DEF Written
<1>7. \A o \in Offsets : ring'[o] =
        IF call.ofs <= o /\ o < call.ofs + p THEN b[o - call.ofs + 1] ELSE ring[o]
  <2>1. b \in [1..p -> Nat]
    BY <1>f, <1>3
  <2> QED BY <1>1, <1>3, <1>5, <2>1, PatchFacts
<1>s. ASSUME NEW j \in 1..Size
      PROVE  /\ at(j) \in Offsets
             /\ j <= p => at(j) = call.ofs + p - j
             /\ j > p => /\ at(j) = Back(call.ofs, j - p)
                         /\ ~(call.ofs <= at(j) /\ at(j) < call.ofs + p)
  BY <1>f, <1>3, StepBack
<1> HIDE DEF at, p, w, b
\* Further back the ring is what it was.
<1>8. ASSUME NEW j \in 1..Size, j > p
      PROVE  ring'[at(j)] = ring[Back(call.ofs, j - p)]
  BY <1>7, <1>8, <1>s, Zenon
<1>9. ASSUME NEW j \in 1..Size, j <= p
      PROVE  ring'[at(j)] = serial + p - j + 1
  <2>1. at(j) \in Offsets /\ at(j) = call.ofs + p - j
    BY <1>9, <1>s
  <2>2. call.ofs <= at(j) /\ at(j) < call.ofs + p /\ at(j) - call.ofs + 1 = p - j + 1
    BY <1>3, <1>9, <1>f, <2>1
  <2>3. ring'[at(j)] = b[p - j + 1]
    BY <1>7, <2>1, <2>2
  <2>4. p - j + 1 \in 1..p
    BY <1>3, <1>9
  <2>5. b[p - j + 1] = serial + (p - j + 1)
    BY <2>4 DEF b
  <2> QED BY <1>3, <1>f, <2>3, <2>5
<1>10. NewBytes'
  <2> SUFFICES ASSUME NEW j \in 1..Size, j <= w + p
               PROVE  ring'[at(j)] = serial + p - j + 1
    <3> SUFFICES ASSUME NEW j \in 1..Size, j <= Written'
                 PROVE  ring'[Back(call'.ofs, j)] = serial' - j + 1
      BY DEF NewBytes, Back
    <3>1. Back(call'.ofs, j) = at(j) /\ j <= w + p
      BY <1>4, <1>6 DEF at
    <3>2. serial' - j + 1 = serial + p - j + 1
      BY <1>3, <1>5, <1>f
    <3> QED BY <3>1, <3>2
  <2>1. CASE j <= p
    BY <1>9, <2>1
  <2>2. CASE j > p
    <3>1. j - p \in 1..Size /\ j - p <= w
      BY <1>3, <1>6, <2>2
    <3>2. ring[Back(call.ofs, j - p)] = serial - (j - p) + 1
      BY <1>1, <1>2, <3>1 DEF NewBytes, w
    <3>3. serial - (j - p) + 1 = serial + p - j + 1
      BY <1>3, <1>f
    <3> QED BY <1>8, <2>2, <3>2, <3>3
  <2> QED BY <1>3, <2>1, <2>2
<1>11. Place'
  <2>1. ASSUME w + p <= Size PROVE Wrap(call.ofs + p) = Ahead(log.wr_ofs, w + p)
    <3>1. w <= Size
      BY <1>3, <1>6, <2>1
    <3>2. call.ofs = Ahead(log.wr_ofs, w)
      BY <1>1, <1>2, <3>1 DEF Place, w
    <3> QED BY <1>3, <1>6, <1>f, <2>1, <3>2, AheadWrap
  <2>2. ASSUME call'.remain > 0 PROVE call'.ofs = 0
    <3>1. call.ofs + p = Size
      BY <1>3, <1>4, <1>f, <2>2
    <3> QED BY <1>4, <3>1 DEF Wrap
  <2>3. Written' <= Size => call'.ofs = Ahead(log'.wr_ofs, Written')
    BY <1>4, <1>5, <1>6, <2>1
  <2> QED BY <2>2, <2>3 DEF Place, Ahead
<1>12. OldBytes'
  <2> SUFFICES ASSUME ~spoiled, Aligned
               PROVE  /\ log.d_size = Len(want)
                      /\ \A k \in 1..log.d_size : w + p + log.d_size - k + 1 <= Size =>
                           ring'[at(w + p + log.d_size - k + 1)] = want[k]
    BY <1>4, <1>5, <1>6 DEF OldBytes, Aligned, Ahead, at, Back, p
  <2>1. log.d_size = Len(want)
    BY <1>1, <1>2 DEF OldBytes
  <2>2. ASSUME NEW k \in 1..log.d_size, w + p + log.d_size - k + 1 <= Size
        PROVE  ring'[at(w + p + log.d_size - k + 1)] = want[k]
    <3> DEFINE j == w + p + log.d_size - k + 1
    <3>1. j \in 1..Size /\ j > p /\ j - p = w + log.d_size - k + 1 /\ w + log.d_size - k + 1 <= Size
      BY <1>3, <1>6, <1>f, <2>2
    <3>2. ring[Back(call.ofs, w + log.d_size - k + 1)] = want[k]
      BY <1>1, <1>2, <3>1 DEF OldBytes, w
    <3> QED BY <1>8, <3>1, <3>2
  <2> QED BY <2>1, <2>2
<1>13. Saved' /\ Kept' /\ Given'
  BY <1>1, <1>4, <1>5 DEF Saved, Kept, Given
<1>14. Answered'
  BY <1>1, <1>2, <1>4, <1>5 DEF Answered, OutputComplete
<1> QED BY <1>10, <1>11, <1>12, <1>13, <1>14 DEF RingInv

LEMMA RingInputFail == LogInv /\ InputFail => RingInv'
<1> SUFFICES ASSUME LogInv, InputFail PROVE RingInv'
  OBVIOUS
<1> USE SizeFacts, NoCallFacts
<1>1. Saved /\ Place /\ OldBytes /\ TypeInv
  BY DEF LogInv, RingInv
<1>2. call.op = "input" /\ call.remain > 0
  BY DEF InputFail
<1>f. /\ call.ofs \in Nat /\ call.ofs < Size /\ call.remain \in Nat /\ call.size \in Nat
      /\ log.wr_ofs \in Nat /\ log.wr_ofs < Size /\ log.rd_ofs \in Nat /\ log.rd_ofs < Size
      /\ log.d_size \in Nat /\ log.d_size <= Size /\ call.remain <= call.size /\ phase = "on"
  BY <1>1, <1>2, Fields DEF TypeInv, CallOK
<1>3. Piece \in Nat /\ call.ofs + Piece <= Size
  BY <1>1, <1>2, PieceFacts
<1>4. PICK n \in 0..(Piece - 1) :
       /\ ring' = Patched([k \in 1..n |-> Junk])
       /\ spoiled' = (spoiled \/ Reached(n))
  BY DEF InputFail
<1>5. n \in Nat /\ call.ofs + n <= Size /\ [k \in 1..n |-> Junk] \in [1..n -> Nat]
  BY <1>3, <1>f DEF Junk
<1>6. \A o \in Offsets : ~(call.ofs <= o /\ o < call.ofs + n) => ring'[o] = ring[o]
  BY <1>1, <1>4, <1>5, PatchFacts
<1>7. log \in LogType
  BY <1>1 DEF TypeInv, TypeOK
<1>8. /\ log'.wr_ofs = call.ofs /\ log'.rd_ofs = log.rd_ofs /\ log'.d_size = log.d_size
      /\ log' = [wr_ofs |-> call.ofs, rd_ofs |-> log.rd_ofs, d_size |-> log.d_size]
  BY <1>7 DEF InputFail, LogType
<1>9. /\ call' = NoCall /\ want' = want
      /\ (hdr' = log' /\ phase' = "on") \/ (hdr' = hdr /\ phase' = "dead")
  BY <1>f DEF InputFail
<1>10. result'.op = "input"
  BY DEF InputFail, NoResult
<1>11. Saved'
  <2>1. ASSUME log.d_size = 0 PROVE log' = Empty
    <3>1. log = Empty
      BY <1>1, <2>1 DEF Saved
    <3>2. log.wr_ofs = 0 /\ log.rd_ofs = 0
      BY <3>1 DEF Empty
    <3>3. Ahead(log.wr_ofs, 0) = 0
      BY <3>2 DEF Ahead
    <3>4. call.ofs = 0
      BY <1>1, <1>2, <3>3 DEF Place
    <3> QED BY <1>8, <2>1, <3>2, <3>4 DEF Empty
  <2>2. log'.d_size = 0 => log' = Empty
    BY <1>8, <2>1
  <2> QED BY <1>1, <1>9, <2>2 DEF Saved
<1>12. Kept'
  <2> SUFFICES ASSUME ~spoiled', hdr' = log'
               PROVE  /\ log.d_size = Len(want)
                      /\ \A k \in 1..log.d_size : ring'[Ahead(log.rd_ofs, k - 1)] = want[k]
    BY <1>8, <1>9 DEF Kept, Holds, Ahead
  <2> DEFINE w == Written
  <2>1. w \in Nat
    BY <1>f DEF Written
  <2>2. ~spoiled /\ Aligned /\ log.d_size + w + n <= Size
    <3>1. ~spoiled /\ ~Reached(n)
      BY <1>4
    <3>2. Aligned /\ ~(log.d_size + w + n > Size)
      BY <3>1 DEF Reached, Written
    <3> QED BY <1>5, <1>f, <2>1, <3>1, <3>2
  <2>3. /\ log.d_size = Len(want)
        /\ \A k \in 1..log.d_size : w + log.d_size - k + 1 <= Size =>
             ring[Back(call.ofs, w + log.d_size - k + 1)] = want[k]
    BY <1>1, <1>2, <2>2 DEF OldBytes
  <2>4. w <= Size
    BY <1>5, <1>f, <2>1, <2>2
  <2>5. call.ofs = Ahead(log.wr_ofs, w)
    BY <1>1, <1>2, <2>4 DEF Place
  <2> HIDE DEF w
  <2>6. call.ofs = Ahead(log.rd_ofs, log.d_size + w)
    <3>1. log.d_size + w <= Size
      BY <1>5, <1>f, <2>1, <2>2
    <3> QED BY <1>f, <2>1, <2>2, <2>5, <3>1, AheadSum DEF Aligned
  <2>7. ASSUME NEW k \in 1..log.d_size
        PROVE  ring'[Ahead(log.rd_ofs, k - 1)] = want[k]
    <3> DEFINE d == log.d_size + w
    <3>1. /\ d \in Nat /\ d <= Size /\ d + n <= Size /\ k \in 1..d /\ k - 1 \in Nat /\ k - 1 <= Size
          /\ w + log.d_size - k + 1 <= Size /\ d - k + 1 = w + log.d_size - k + 1
      BY <1>5, <1>f, <2>1, <2>2
    <3>2. call.ofs = Ahead(log.rd_ofs, d)
      BY <2>6
    <3> HIDE DEF d
    <3>3. Back(call.ofs, d - k + 1) = Ahead(log.rd_ofs, k - 1)
      BY <1>f, <3>1, <3>2, BackAhead
    <3>4. ~(call.ofs <= Ahead(log.rd_ofs, k - 1) /\ Ahead(log.rd_ofs, k - 1) < call.ofs + n)
      BY <1>5, <1>f, <3>1, <3>2, AheadApart
    <3>5. Ahead(log.rd_ofs, k - 1) \in Offsets
      BY <1>f, <3>1, AheadFacts
    <3>6. ring'[Ahead(log.rd_ofs, k - 1)] = ring[Ahead(log.rd_ofs, k - 1)]
      BY <1>6, <3>4, <3>5
    <3> QED BY <2>3, <3>1, <3>3, <3>6
  <2> QED BY <2>3, <2>7
<1>13. OutputComplete'
  BY <1>10 DEF OutputComplete
<1> QED BY <1>9, <1>11, <1>12, <1>13 DEF RingInv, NewBytes, Place, OldBytes, Given, Answered

LEMMA RingInputDone == LogInv /\ InputDone => RingInv'
<1> SUFFICES ASSUME LogInv, InputDone PROVE RingInv'
  OBVIOUS
<1> USE SizeFacts, NoCallFacts
<1>1. Saved /\ Place /\ OldBytes /\ NewBytes /\ TypeInv
  BY DEF LogInv, RingInv
<1>2. call.op = "input" /\ call.remain = 0
  BY DEF InputDone
<1>f. /\ call.ofs \in Nat /\ call.ofs < Size /\ call.size \in Nat /\ serial \in Nat
      /\ log.wr_ofs \in Nat /\ log.wr_ofs < Size /\ log.rd_ofs \in Nat /\ log.rd_ofs < Size
      /\ log.d_size \in Nat /\ log.d_size <= Size /\ want \in Seq(Nat)
  BY <1>1, Fields
<1> DEFINE w == call.size  d == log.d_size  m == MIN(d + w, Size)
           b == [k \in 1..w |-> serial - w + k]
           s == want \o b
           rd == IF d + w > Size THEN call.ofs ELSE log.rd_ofs
<1>3. Written = w /\ w <= serial
  BY <1>1, <1>2, <1>f DEF Written, TypeInv, CallOK
<1>4. log' = [wr_ofs |-> call.ofs, rd_ofs |-> rd, d_size |-> m]
  BY DEF InputDone, Account
<1>5. /\ call' = NoCall /\ ring' = ring /\ want' = LastBytes(s)
      /\ spoiled' = (w < Size /\ (spoiled \/ ~Aligned))
      /\ (hdr' = log' /\ phase' = "on") \/ (hdr' = hdr /\ phase' = "dead")
  BY DEF InputDone, Save
<1>6. result'.op = "input"
  BY DEF InputDone, NoResult
<1>7. m \in Nat /\ m <= Size /\ (m = Size \/ m = d + w) /\ (d + w > Size => m = Size)
      /\ (d + w <= Size => m = d + w)
  BY <1>f DEF MIN
<1>8. w <= Size => call.ofs = Ahead(log.wr_ofs, w)
  BY <1>1, <1>2, <1>3 DEF Place
<1>n. \A j \in 1..Size : j <= w => ring[Back(call.ofs, j)] = serial - j + 1
  BY <1>1, <1>2, <1>3 DEF NewBytes
<1>9. Saved'
  <2>1. ASSUME m = 0 PROVE log' = Empty
    <3>1. d = 0 /\ w = 0
      BY <1>7, <1>f, <2>1
    <3>2. log = Empty
      BY <1>1, <3>1 DEF Saved
    <3>3. log.wr_ofs = 0 /\ log.rd_ofs = 0
      BY <3>2 DEF Empty
    <3>4. Ahead(log.wr_ofs, 0) = 0
      BY <3>3 DEF Ahead
    <3>5. call.ofs = 0
      BY <1>8, <3>1, <3>4
    <3> QED BY <1>4, <2>1, <3>3, <3>5 DEF Empty
  <2>2. log'.d_size = 0 => log' = Empty
    BY <1>4, <2>1
  <2> QED BY <1>1, <1>5, <2>2 DEF Saved
<1>10. /\ b \in Seq(Nat) /\ Len(b) = w /\ \A k \in 1..w : b[k] = serial - w + k
  <2>1. \A k \in 1..w : serial - w + k \in Nat
    BY <1>3, <1>f
  <2>2. b \in [1..w -> Nat] /\ w \in Nat
    BY <1>f, <2>1
  <2> QED BY <2>2, SeqFacts
<1>11. /\ s \in Seq(Nat) /\ Len(s) = Len(want) + w /\ Len(want) \in Nat
       /\ \A i \in 1..(Len(want) + w) : s[i] = IF i <= Len(want) THEN want[i] ELSE b[i - Len(want)]
  <2> HIDE DEF b, w
  <2>1. /\ want \o b \in Seq(Nat) /\ Len(want \o b) = Len(want) + Len(b)
        /\ \A i \in 1..(Len(want) + Len(b)) :
             (want \o b)[i] = IF i <= Len(want) THEN want[i] ELSE b[i - Len(want)]
    BY <1>10, <1>f, ConcatProperties, Zenon
  <2> QED BY <1>10, <1>f, <2>1
<1>12. /\ LastBytes(s) \in Seq(Nat) /\ Len(LastBytes(s)) = MIN(Len(s), Size)
       /\ \A k \in 1..MIN(Len(s), Size) : LastBytes(s)[k] = s[Len(s) - MIN(Len(s), Size) + k]
  BY <1>11, LastFacts
<1>13. Kept'
  <2> SUFFICES ASSUME ~spoiled'
               PROVE  /\ m = Len(LastBytes(s))
                      /\ \A k \in 1..m : ring[Ahead(rd, k - 1)] = LastBytes(s)[k]
    <3> HIDE DEF m, rd, s
    <3> QED BY <1>4, <1>5 DEF Kept, Holds, Ahead
  <2>1. w >= Size \/ (w < Size /\ ~spoiled /\ Aligned)
    <3>1. ~(w < Size /\ (spoiled \/ ~Aligned))
      BY <1>5, Zenon
    <3>2. w >= Size \/ w < Size
      BY <1>f
    <3> QED BY <3>1, <3>2, Zenon
  <2>l. ASSUME w < Size PROVE d = Len(want)
    BY <1>1, <1>2, <2>1, <2>l, <1>f DEF OldBytes
  <2>2. Len(LastBytes(s)) = m /\ MIN(Len(s), Size) = m
    <3>1. CASE w >= Size
      BY <1>7, <1>11, <1>12, <1>f, <3>1 DEF MIN
    <3>2. CASE w < Size
      BY <1>11, <1>12, <2>l, <3>2
    <3> QED BY <1>f, <3>1, <3>2
  <2> DEFINE g == Len(want) + w - m
  <2>3. g \in Nat /\ \A k \in 1..m : g + k \in 1..(Len(want) + w) /\ LastBytes(s)[k] = s[g + k]
    <3>1. m <= Len(want) + w
      BY <1>11, <1>f, <2>2 DEF MIN
    <3>2. Len(want) \in Nat /\ m \in Nat /\ w \in Nat
      BY <1>7, <1>11, <1>f
    <3> HIDE DEF m, w, s
    <3>3. g \in Nat /\ Len(s) - m = g /\ \A k \in 1..m : g + k \in 1..(Len(want) + w)
      BY <1>11, <3>1, <3>2
    <3>4. \A k \in 1..m : LastBytes(s)[k] = s[Len(s) - m + k]
      BY <1>12, <2>2
    <3> HIDE DEF g
    <3> QED BY <3>3, <3>4
  \* The place of byte k seen from behind: byte j in front of the offset.
  <2>4. ASSUME NEW k \in 1..m
        PROVE  Ahead(rd, k - 1) = Back(call.ofs, m - k + 1)
    <3>1. CASE rd = call.ofs /\ m = Size
      BY <1>f, <3>1, FullRing
    <3>2. CASE d + w <= Size /\ w < Size
      <4>1. Aligned /\ rd = log.rd_ofs /\ m = d + w
        BY <1>7, <1>f, <2>1, <3>2
      <4>2. call.ofs = Ahead(log.rd_ofs, d + w)
        BY <1>8, <1>f, <3>2, <4>1, AheadSum DEF Aligned
      <4>3. d + w \in Nat /\ k \in 1..(d + w)
        BY <1>f, <4>1
      <4> QED BY <1>f, <3>2, <4>1, <4>2, <4>3, BackAhead
    <3>3. CASE d + w <= Size /\ w >= Size
      <4>1. d = 0 /\ w = Size
        BY <1>f, <3>3
      <4>2. log = Empty
        BY <1>1, <4>1 DEF Saved
      <4>3. log.wr_ofs = 0 /\ log.rd_ofs = 0
        BY <4>2 DEF Empty
      <4>4. Ahead(log.wr_ofs, Size) = 0
        BY <4>3 DEF Ahead
      <4>5. rd = call.ofs /\ m = Size
        BY <1>7, <1>8, <4>1, <4>3, <4>4
      <4> QED BY <3>1, <4>5
    <3>4. d + w > Size => rd = call.ofs /\ m = Size
      BY <1>7
    <3> QED BY <1>f, <3>1, <3>2, <3>3, <3>4
  <2>5. ASSUME NEW k \in 1..m
        PROVE  ring[Back(call.ofs, m - k + 1)] = s[g + k]
    <3> DEFINE j == m - k + 1
    <3>0. Len(want) \in Nat /\ m \in Nat /\ w \in Nat /\ d \in Nat /\ m <= Size /\ g \in Nat
      BY <1>7, <1>11, <1>f, <2>3
    <3>1. j \in 1..Size /\ j \in 1..m /\ g + k = Len(want) + w - j + 1
      <4> HIDE DEF m, w
      <4> QED BY <3>0
    <3> HIDE DEF m, w, d, s, b, g, j
    <3>2. g + k \in 1..(Len(want) + w)
      BY <2>3
    <3>3. ASSUME j <= w PROVE ring[Back(call.ofs, j)] = s[g + k]
      <4>1. ring[Back(call.ofs, j)] = serial - j + 1
        BY <1>n, <3>1, <3>3
      <4>2. ~(g + k <= Len(want)) /\ g + k - Len(want) = w - j + 1 /\ w - j + 1 \in 1..w
        <5>1. g + k = Len(want) + w - j + 1 /\ j \in Nat /\ 1 <= j
          BY <3>1
        <5>2. g + k - Len(want) = w - j + 1
          BY <3>0, <5>1
        <5> QED BY <3>0, <3>3, <5>1, <5>2
      <4>3. s[g + k] = b[w - j + 1]
        <5>1. PICK i \in 1..(Len(want) + w) : i = g + k
          BY <3>2
        <5>2. s[i] = IF i <= Len(want) THEN want[i] ELSE b[i - Len(want)]
          BY <1>11
        <5>3. ~(i <= Len(want)) /\ i - Len(want) = w - j + 1
          BY <3>0, <4>2, <5>1
        <5>4. s[i] = b[w - j + 1]
          BY <5>2, <5>3
        <5> QED BY <5>1, <5>4
      <4>4. b[w - j + 1] = serial - w + (w - j + 1)
        BY <1>10, <4>2
      <4>5. serial - w + (w - j + 1) = serial - j + 1
        BY <1>f, <3>0, <3>1
      <4> QED BY <4>1, <4>3, <4>4, <4>5
    <3>4. ASSUME j > w PROVE ring[Back(call.ofs, j)] = s[g + k]
      <4>1. w < Size
        BY <3>0, <3>1, <3>4
      <4>2. d = Len(want) /\ ~spoiled /\ Aligned
        BY <2>1, <2>l, <3>0, <4>1
      <4>3. g + k \in 1..d /\ g + k <= Len(want) /\ w + d - (g + k) + 1 = j
        BY <3>0, <3>1, <3>2, <3>4, <4>2
      <4>4. w + d - (g + k) + 1 <= Size => ring[Back(call.ofs, w + d - (g + k) + 1)] = want[g + k]
        BY <1>1, <1>2, <1>3, <4>2, <4>3 DEF OldBytes
      <4>5. s[g + k] = want[g + k]
        BY <1>11, <3>2, <4>3
      <4> QED BY <3>1, <4>3, <4>4, <4>5
    <3>5. ring[Back(call.ofs, j)] = s[g + k]
      BY <3>0, <3>1, <3>3, <3>4
    <3> QED BY <3>5 DEF j
  <2> QED BY <2>2, <2>3, <2>4, <2>5
<1>14. OutputComplete'
  BY <1>6 DEF OutputComplete
<1> QED BY <1>5, <1>9, <1>13, <1>14 DEF RingInv, NewBytes, Place, OldBytes, Given, Answered

-----------------------------------------------------------------------------
LEMMA InvStep == LogInv /\ [Next]_vars => LogInv'
<1> SUFFICES ASSUME LogInv, [Next]_vars PROVE LogInv'
  OBVIOUS
<1>1. TypeInv'
  BY TypeStep DEF LogInv
<1>2. CASE UNCHANGED vars
  BY <1>1, <1>2 DEF vars, disk, ghost, LogInv, RingInv, Saved, Kept, Holds, Ahead, NewBytes, Back,
     Written, Place, OldBytes, Aligned, Given, LogByte, Answered, OutputComplete
<1>3. CASE Next
  <2>1. RingInv'
    BY <1>3, RingControl, RingReading, RingInputCall, RingInputPiece, RingInputFail, RingInputDone,
       Zenon DEF Next
  <2> QED BY <1>1, <2>1 DEF LogInv
<1> QED BY <1>2, <1>3

LEMMA Invariance == Spec => []LogInv
<1>1. Init => LogInv
  BY TypeInit, RingInit DEF LogInv
<1> QED BY <1>1, InvStep, PTL DEF Spec

\* Whatever is logged, and whichever accesses fail, no offset of the log, of its
\* header, of a reader or of a running call leaves the ring (disklog.c:107-126).
THEOREM OffsetsInRing == Spec => []TypeOK
<1>1. LogInv => TypeOK
  BY DEF LogInv, TypeInv
<1> QED BY <1>1, Invariance, PTL

\* Between calls the ring holds the last bytes that disklog_input has logged
\* (disklog.c:95-130), over wrap-around, overflow, restarts and failed inputs.
THEOREM LogHoldsLast == Spec => []RingHoldsLast
<1>1. LogInv => RingHoldsLast
  <2> SUFFICES ASSUME LogInv, phase = "on", call.op = "none", ~spoiled
               PROVE  log.d_size = Len(want) /\ \A k \in 1..log.d_size : LogByte(k) = want[k]
    BY DEF RingHoldsLast, Idle
  <2>1. hdr = log /\ log \in LogType
    BY DEF LogInv, RingInv, Saved, TypeInv, TypeOK
  <2>2. Holds(log)
    BY <2>1, StartFacts DEF LogInv, RingInv, Kept
  <2> QED BY <2>2 DEF Holds, LogByte
<1> QED BY <1>1, Invariance, PTL

\* disklog_ouput hands exactly these bytes to its callback, in chunks of any
\* size (disklog.c:148-168).
THEOREM OutputIsComplete == Spec => []OutputComplete
<1>1. LogInv => OutputComplete
  BY DEF LogInv, RingInv, Answered
<1> QED BY <1>1, Invariance, PTL

=============================================================================
