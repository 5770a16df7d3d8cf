---------------------------- MODULE BlkDevProofs ----------------------------
(***************************************************************************)
(* What TLAPS proves about the block device cache, for every number of     *)
(* buffers, blocks, cells and faults and every set of requests: its lists, *)
(* the freshness of its buffers, the order of the write-back, what a clean *)
(* sync means, and that the cache implements the block store.              *)
(***************************************************************************)
EXTENDS BlkDev, SequenceTheorems, TLAPS

(* Lists of the C code as sequences: their length, the nodes on them, and that
   no node is linked twice. *)

\* list_del in the middle.
LEMMA RemoveAtFacts ==
  ASSUME NEW S, NEW s \in Seq(S), NEW i \in 1..Len(s)
  PROVE  /\ RemoveAt(s, i) \in Seq(S)
         /\ Len(RemoveAt(s, i)) = Len(s) - 1
         /\ \A k \in 1..(Len(s) - 1) :
              RemoveAt(s, i)[k] = IF k < i THEN s[k] ELSE s[k + 1]
<1> DEFINE a == SubSeq(s, 1, i - 1)
           b == SubSeq(s, i + 1, Len(s))
<1>0. Len(s) \in Nat /\ \A k \in 1..Len(s) : s[k] \in S
  BY LenProperties, ElementOfSeq
<1>1. a \in Seq(S) /\ Len(a) = i - 1 /\ \A k \in 1..(i - 1) : a[k] = s[k]
  BY <1>0, SubSeqProperties
<1>2. /\ b \in Seq(S) /\ Len(b) = Len(s) - i
      /\ \A k \in 1..(Len(s) - i) : b[k] = s[k + i]
  <2>1. /\ b \in Seq(S)
        /\ Len(b) = IF i + 1 <= Len(s) THEN Len(s) - (i + 1) + 1 ELSE 0
        /\ \A k \in 1..(Len(s) - (i + 1) + 1) : b[k] = s[i + 1 + k - 1]
    BY <1>0, SubSeqProperties
  <2>. QED BY <1>0, <2>1
<1> HIDE DEF a, b
<1>3. /\ a \o b \in Seq(S) /\ Len(a \o b) = Len(a) + Len(b)
      /\ \A k \in 1..(Len(a) + Len(b)) :
           (a \o b)[k] = IF k <= Len(a) THEN a[k] ELSE b[k - Len(a)]
  BY <1>1, <1>2, ConcatProperties
<1>4. RemoveAt(s, i) = a \o b
  BY DEF RemoveAt, a, b
<1>5. Len(RemoveAt(s, i)) = Len(s) - 1
  BY <1>0, <1>1, <1>2, <1>3, <1>4
<1>6. ASSUME NEW k \in 1..(Len(s) - 1)
      PROVE  RemoveAt(s, i)[k] = IF k < i THEN s[k] ELSE s[k + 1]
  <2>1. CASE k < i
    <3>1. k \in 1..(Len(a) + Len(b)) /\ k <= Len(a) /\ k \in 1..(i - 1)
      BY <1>0, <1>1, <1>2, <2>1
    <3>. QED BY <1>1, <1>3, <1>4, <2>1, <3>1
  <2>2. CASE k >= i
    <3>1. /\ k \in 1..(Len(a) + Len(b)) /\ ~(k <= Len(a))
          /\ k - Len(a) \in 1..(Len(s) - i) /\ (k - Len(a)) + i = k + 1
      BY <1>0, <1>1, <1>2, <2>2
    <3>2. RemoveAt(s, i)[k] = b[k - Len(a)]
      BY <1>3, <1>4, <3>1
    <3>3. b[k - Len(a)] = s[(k - Len(a)) + i]
      BY <1>2, <3>1
    <3>4. ~(k < i)
      BY <1>0, <2>2
    <3>. QED BY <3>1, <3>2, <3>3, <3>4
  <2>. QED BY <1>0, <2>1, <2>2
<1>. QED BY <1>3, <1>4, <1>5, <1>6

\* The nodes on a list, and what it means that none is on it twice.
LEMMA ListFacts ==
  ASSUME NEW S, NEW s \in Seq(S)
  PROVE  /\ Len(s) \in Nat
         /\ \A k \in 1..Len(s) : s[k] \in S /\ s[k] \in ToSet(s)
         /\ \A x \in ToSet(s) : x \in S /\ \E k \in 1..Len(s) : s[k] = x
         /\ s = <<>> <=> Len(s) = 0
         /\ s = <<>> <=> ToSet(s) = {}
         /\ IsInjective(s) <=> \A k, l \in 1..Len(s) : s[k] = s[l] => k = l
<1>1. Len(s) \in Nat /\ DOMAIN s = 1..Len(s)
  BY LenProperties
<1>2. \A k \in 1..Len(s) : s[k] \in S /\ s[k] \in ToSet(s)
  BY <1>1, ElementOfSeq DEF ToSet
<1>3. \A x \in ToSet(s) : x \in S /\ \E k \in 1..Len(s) : s[k] = x
  BY <1>1, <1>2 DEF ToSet
<1>4. s = <<>> <=> Len(s) = 0
  BY EmptySeq
<1>5. s = <<>> <=> ToSet(s) = {}
  <2>1. ASSUME Len(s) # 0 PROVE ToSet(s) # {}
    <3>1. 1 \in 1..Len(s)
      BY <1>1, <2>1
    <3>. QED BY <1>2, <3>1
  <2>2. ASSUME Len(s) = 0 PROVE ToSet(s) = {}
    <3>1. 1..Len(s) = {}
      BY <2>2
    <3>. QED BY <1>3, <3>1
  <2>. QED BY <1>4, <2>1, <2>2
<1>6. IsInjective(s) <=> \A k, l \in 1..Len(s) : s[k] = s[l] => k = l
  BY <1>1 DEF IsInjective
<1>. QED BY <1>1, <1>2, <1>3, <1>4, <1>5, <1>6

\* list_del: the node is gone, the others stay.
LEMMA RemoveNode ==
  ASSUME NEW S, NEW s \in Seq(S), IsInjective(s), NEW i \in 1..Len(s)
  PROVE  /\ RemoveAt(s, i) \in Seq(S) /\ IsInjective(RemoveAt(s, i))
         /\ Len(RemoveAt(s, i)) = Len(s) - 1
         /\ ToSet(RemoveAt(s, i)) = ToSet(s) \ {s[i]} /\ s[i] \in ToSet(s)
<1> DEFINE r == RemoveAt(s, i)
<1>1. /\ r \in Seq(S) /\ Len(r) = Len(s) - 1
      /\ \A k \in 1..(Len(s) - 1) : r[k] = IF k < i THEN s[k] ELSE s[k + 1]
  BY RemoveAtFacts
<1> HIDE DEF r
<1>2. Len(s) \in Nat /\ \A k, l \in 1..Len(s) : s[k] = s[l] => k = l
  BY ListFacts
<1>3. IsInjective(r)
  <2>1. ASSUME NEW k \in 1..Len(r), NEW l \in 1..Len(r), r[k] = r[l] PROVE k = l
    <3> DEFINE k2 == IF k < i THEN k ELSE k + 1
               l2 == IF l < i THEN l ELSE l + 1
    <3>1. k2 \in 1..Len(s) /\ l2 \in 1..Len(s)
      BY <1>1, <1>2
    <3>2. r[k] = s[k2] /\ r[l] = s[l2]
      BY <1>1
    <3>3. k2 = l2
      BY <1>2, <2>1, <3>1, <3>2
    <3>. QED BY <1>1, <1>2, <3>3
  <2>. QED BY <1>1, <2>1, ListFacts
<1>4. ASSUME NEW x \in ToSet(r) PROVE x \in ToSet(s) \ {s[i]}
  <2>1. PICK k \in 1..Len(r) : r[k] = x
    BY <1>1, ListFacts
  <2> DEFINE k2 == IF k < i THEN k ELSE k + 1
  <2>2. k2 \in 1..Len(s) /\ x = s[k2] /\ k2 # i
    BY <1>1, <1>2, <2>1
  <2>. QED BY <1>2, <2>2, ListFacts
<1>5. ASSUME NEW x \in ToSet(s) \ {s[i]} PROVE x \in ToSet(r)
  <2>1. PICK k \in 1..Len(s) : s[k] = x
    BY ListFacts
  <2> DEFINE k2 == IF k < i THEN k ELSE k - 1
  <2>2. k2 \in 1..Len(r) /\ x = r[k2]
    BY <1>1, <1>2, <2>1
  <2>. QED BY <1>1, <2>2, ListFacts
<1>6. ToSet(r) = ToSet(s) \ {s[i]}
  BY <1>4, <1>5
<1>. QED BY <1>1, <1>3, <1>6, ListFacts DEF r

\* list_add_tail: a node that is not on the list is on it once.
LEMMA AppendNode ==
  ASSUME NEW S, NEW s \in Seq(S), NEW x \in S
  PROVE  /\ Append(s, x) \in Seq(S) /\ Len(Append(s, x)) = Len(s) + 1
         /\ \A k \in 1..Len(s) : Append(s, x)[k] = s[k]
         /\ Append(s, x)[Len(s) + 1] = x
         /\ ToSet(Append(s, x)) = ToSet(s) \cup {x}
         /\ IsInjective(s) /\ x \notin ToSet(s) => IsInjective(Append(s, x))
<1> DEFINE r == Append(s, x)
<1>1. /\ r \in Seq(S) /\ Len(r) = Len(s) + 1 /\ r[Len(s) + 1] = x
      /\ \A k \in 1..Len(s) : r[k] = s[k]
  BY AppendProperties
<1> HIDE DEF r
<1>2. Len(s) \in Nat
  BY LenProperties
<1>3. ToSet(r) = ToSet(s) \cup {x}
  <2>1. ASSUME NEW y \in ToSet(r) PROVE y \in ToSet(s) \cup {x}
    <3>1. PICK k \in 1..Len(r) : r[k] = y
      BY <1>1, ListFacts
    <3>2. k \in 1..Len(s) \/ k = Len(s) + 1
      BY <1>1, <1>2
    <3>. QED BY <1>1, <3>1, <3>2, ListFacts
  <2>2. ASSUME NEW y \in ToSet(s) PROVE y \in ToSet(r)
    <3>1. PICK k \in 1..Len(s) : s[k] = y
      BY ListFacts
    <3>2. k \in 1..Len(r) /\ r[k] = y
      BY <1>1, <1>2, <3>1
    <3>. QED BY <1>1, <3>2, ListFacts
  <2>3. x \in ToSet(r)
    <3>1. Len(s) + 1 \in 1..Len(r)
      BY <1>1, <1>2
    <3>. QED BY <1>1, <3>1, ListFacts
  <2>. QED BY <2>1, <2>2, <2>3
<1>4. ASSUME IsInjective(s), x \notin ToSet(s) PROVE IsInjective(r)
  <2>1. ASSUME NEW k \in 1..Len(r), NEW l \in 1..Len(r), r[k] = r[l] PROVE k = l
    <3>1. /\ k \in 1..Len(s) \/ k = Len(s) + 1
          /\ l \in 1..Len(s) \/ l = Len(s) + 1
      BY <1>1, <1>2
    <3>2. \A m \in 1..Len(s) : s[m] # x
      BY <1>4, ListFacts
    <3>3. \A m, n \in 1..Len(s) : s[m] = s[n] => m = n
      BY <1>4, ListFacts
    <3>. QED BY <1>1, <2>1, <3>1, <3>2, <3>3
  <2>. QED BY <1>1, <2>1, ListFacts
<1>. QED BY <1>1, <1>3, <1>4 DEF r

\* list_del of the first node.
LEMMA RemoveFirstNode ==
  ASSUME NEW S, NEW s \in Seq(S), IsInjective(s), s # <<>>
  PROVE  /\ Tail(s) \in Seq(S) /\ IsInjective(Tail(s))
         /\ Len(Tail(s)) = Len(s) - 1 /\ 1 \in 1..Len(s) /\ Head(s) = s[1]
         /\ \A k \in 1..(Len(s) - 1) : Tail(s)[k] = s[k + 1]
         /\ ToSet(Tail(s)) = ToSet(s) \ {Head(s)} /\ Head(s) \in ToSet(s)
<1> DEFINE r == Tail(s)
<1>1. /\ Len(s) \in Nat /\ 1 \in 1..Len(s) /\ s[1] \in ToSet(s)
      /\ \A k, l \in 1..Len(s) : s[k] = s[l] => k = l
  BY ListFacts
<1>2. /\ r \in Seq(S) /\ Len(r) = Len(s) - 1
      /\ \A k \in 1..(Len(s) - 1) : r[k] = s[k + 1]
  BY HeadTailProperties
<1>3. Head(s) = s[1]
  OBVIOUS
<1> HIDE DEF r
<1>4. IsInjective(r)
  <2>1. ASSUME NEW k \in 1..Len(r), NEW l \in 1..Len(r), r[k] = r[l] PROVE k = l
    <3>1. k + 1 \in 1..Len(s) /\ l + 1 \in 1..Len(s)
      BY <1>1, <1>2
    <3>2. k + 1 = l + 1
      BY <1>1, <1>2, <2>1, <3>1
    <3>. QED BY <3>2
  <2>. QED BY <1>2, <2>1, ListFacts
<1>5. ASSUME NEW x \in ToSet(r) PROVE x \in ToSet(s) \ {s[1]}
  <2>1. PICK k \in 1..Len(r) : r[k] = x
    BY <1>2, ListFacts
  <2>2. k + 1 \in 1..Len(s) /\ s[k + 1] = x /\ k + 1 # 1
    BY <1>1, <1>2, <2>1
  <2>. QED BY <1>1, <2>2, ListFacts
<1>6. ASSUME NEW x \in ToSet(s) \ {s[1]} PROVE x \in ToSet(r)
  <2>1. PICK k \in 1..Len(s) : s[k] = x
    BY ListFacts
  <2>2. k - 1 \in 1..Len(r) /\ r[k - 1] = x
    BY <1>1, <1>2, <2>1
  <2>. QED BY <1>2, <2>2, ListFacts
<1>7. ToSet(r) = ToSet(s) \ {s[1]}
  BY <1>5, <1>6
<1>8. ToSet(r) = ToSet(s) \ {Head(s)} /\ Head(s) \in ToSet(s)
  BY <1>1, <1>3, <1>7, Zenon
<1>. QED BY <1>1, <1>2, <1>3, <1>4, <1>8, Zenon DEF r

-----------------------------------------------------------------------------
Listed == ToSet(cached) \cup ToSet(dirty)

-----------------------------------------------------------------------------
(* The inductive invariant. *)

\* The rest of the call in progress names blocks that exist for the callers.
ReqOK ==
  req # NoReq =>
    /\ req \in [kind : {"read", "write"}, ofs : Nat, size : Nat, val : Values]
    /\ 0 < req.size
    /\ \A k \in req.ofs..(req.ofs + req.size - 1) : k \div BlkSize \in Blocks

Passes ==
  [by : {"none", "get", "sync", "cb"}, pos : Nat, expired : 0..HoldTime, err : BOOLEAN]

PassOK == pass \in Passes /\ (~MutexFree => 0 < pass.pos)

TypeInv == TypeOK /\ ReqOK /\ PassOK

\* No buffer is on a list twice or on both, and all or none are listed.
Partition ==
  /\ IsInjective(cached) /\ IsInjective(dirty)
  /\ ToSet(cached) \cap ToSet(dirty) = {}
  /\ initialized => Listed = Bufs /\ Len(cached) + Len(dirty) = NBufs
  /\ ~initialized => cached = <<>> /\ dirty = <<>>

\* The state of a buffer says which list it is on and whether it has a block.
States ==
  /\ \A i \in ToSet(cached) : state[i] # "DIRTY"
  /\ \A i \in ToSet(dirty) : state[i] = "DIRTY"
  /\ \A i \in Listed : state[i] = "INVALD" <=> blkno[i] = NoBlock

Unique == \A i, j \in Listed : blkno[i] = blkno[j] /\ blkno[i] # NoBlock => i = j

Clean == \A i \in ToSet(cached) : state[i] = "CACHED" => buffer[i] = flash[blkno[i]]

\* While bh_search_locked writes buffers back to get a clean one, the block it
\* looked for still has none.
Wanted == pass.by = "get" => req # NoReq /\ \A i \in Listed : blkno[i] # ReqBlk

CacheInv == ~ub => Partition /\ States /\ Unique /\ Clean /\ Wanted

\* During a pass the buffers behind its position have aged and those before it
\* have not.
Aged(i, j) == IF i < pass.pos /\ pass.pos <= j THEN pass.expired ELSE 0

OrderInv ==
  ~ub => /\ MutexFree => pass = NoPass
         /\ \A i, j \in 1..Len(dirty) : i < j => hold[dirty[i]] + Aged(i, j) <= hold[dirty[j]]

\* A pass with the full hold time skips nothing, so it ends with an empty list
\* or an error.
SyncInv ==
  ~ub => /\ pass.by \in {"sync", "get"} => pass.expired = HoldTime /\ pass.pos = 1
         /\ synced = "ok" => dirty = <<>>

-----------------------------------------------------------------------------
(* The call in progress. *)

LEMMA ConstantFacts ==
  /\ NBufs \in Nat \ {0} /\ BlkSize \in Nat \ {0} /\ HoldTime \in Nat /\ Period \in 1..HoldTime
  /\ Blocks \subseteq Nat /\ OnDisk \subseteq Blocks /\ NoBlock \notin Blocks
  /\ Blank \in Data /\ MaxFaults \in Nat
BY SizesAssumption, TimesAssumption, ValuesAssumption, MaxFaultsAssumption
   DEF Blocks, OnDisk, NoBlock, Blank, Data

LEMMA ReqFacts ==
  ASSUME TypeInv, req # NoReq
  PROVE  /\ req.kind \in {"read", "write"} /\ req.ofs \in Nat /\ req.size \in Nat /\ 0 < req.size
         /\ req.val \in Values
         /\ ReqBlk \in Blocks /\ ReqBlk # NoBlock
         /\ ReqOfs \in Cells /\ ReqBytes \in 1..req.size /\ ReqOfs + ReqBytes <= BlkSize
         /\ WholeBlock => ReqOfs..(ReqOfs + ReqBytes - 1) = Cells
<1>1. /\ req \in [kind : {"read", "write"}, ofs : Nat, size : Nat, val : Values]
      /\ 0 < req.size
      /\ \A k \in req.ofs..(req.ofs + req.size - 1) : k \div BlkSize \in Blocks
  BY DEF TypeInv, ReqOK
<1>2. req.ofs \in Nat /\ req.size \in Nat /\ req.kind \in {"read", "write"} /\ req.val \in Values
  BY <1>1
<1>3. ReqBlk \in Blocks
  BY <1>1, <1>2 DEF ReqBlk
<1>4. ReqBlk # NoBlock
  BY <1>3, ConstantFacts
<1>5. ReqOfs \in Cells
  BY <1>2, ConstantFacts DEF ReqOfs, Cells
<1>6. ReqOfs \in Int /\ 0 <= ReqOfs /\ ReqOfs < BlkSize /\ BlkSize \in Nat
  BY <1>5, ConstantFacts DEF Cells
<1>7. ReqBytes \in 1..req.size /\ ReqOfs + ReqBytes <= BlkSize
  BY <1>1, <1>2, <1>6 DEF ReqBytes
<1>8. ASSUME WholeBlock PROVE ReqOfs..(ReqOfs + ReqBytes - 1) = Cells
  <2>1. ReqOfs = 0 /\ ReqBytes = BlkSize
    BY <1>2, <1>6, <1>8 DEF WholeBlock, ReqBytes
  <2>. QED BY <1>6, <2>1 DEF Cells
<1>. QED BY <1>1, <1>2, <1>3, <1>4, <1>5, <1>7, <1>8

LEMMA AdvanceOK ==
  ASSUME TypeInv, req # NoReq, Advance
  PROVE  ReqOK' /\ (req' = NoReq \/ (req'.kind \in {"read", "write"} /\ req'.size > 0))
<1> DEFINE o == req.ofs + ReqBytes
           z == req.size - ReqBytes
<1>1. req.ofs \in Nat /\ req.size \in Nat /\ ReqBytes \in 1..req.size /\ req.val \in Values
      /\ req.kind \in {"read", "write"}
  BY ReqFacts
<1>2. /\ req \in [kind : {"read", "write"}, ofs : Nat, size : Nat, val : Values]
      /\ \A k \in req.ofs..(req.ofs + req.size - 1) : k \div BlkSize \in Blocks
  BY DEF TypeInv, ReqOK
<1>3. CASE req.size = ReqBytes
  BY <1>3 DEF Advance, ReqOK
<1>4. CASE req.size # ReqBytes
  <2>1. req' = [req EXCEPT !.ofs = req.ofs + ReqBytes, !.size = req.size - ReqBytes]
    BY <1>4 DEF Advance
  <2>2. o \in Nat /\ z \in Nat /\ 0 < z
    BY <1>1, <1>4
  <2>3. \A k \in o..(o + z - 1) : k \in req.ofs..(req.ofs + req.size - 1)
    BY <1>1
  <2>4. req' = [kind |-> req.kind, ofs |-> o, size |-> z, val |-> req.val]
    BY <1>2, <2>1
  <2> HIDE DEF o, z
  <2>5. /\ req' \in [kind : {"read", "write"}, ofs : Nat, size : Nat, val : Values]
        /\ req'.ofs = o /\ req'.size = z /\ req'.kind = req.kind
    BY <1>1, <2>2, <2>4
  <2>6. \A k \in req'.ofs..(req'.ofs + req'.size - 1) : k \div BlkSize \in Blocks
    BY <1>2, <2>3, <2>5
  <2>. QED BY <1>1, <2>2, <2>5, <2>6 DEF ReqOK
<1>. QED BY <1>3, <1>4

-----------------------------------------------------------------------------
(* Types. *)

\* The part of the types that a transfer changes.
CellsOK ==
  /\ cached \in Seq(Bufs) /\ dirty \in Seq(Bufs)
  /\ blkno \in [Bufs -> Blocks \cup {NoBlock}]
  /\ state \in [Bufs -> {"INVALD", "DIRTY", "CACHED"}]
  /\ buffer \in [Bufs -> Data]
  /\ hold \in [Bufs -> 0..HoldTime]
  /\ synced \in {"no", "ok", "err"}
  /\ ReqOK /\ (req = NoReq \/ (req.kind \in {"read", "write"} /\ req.size > 0))

LEMMA PatchType ==
  ASSUME TypeInv, req # NoReq, NEW d \in Data
  PROVE  Patch(d) \in Data
BY ReqFacts DEF Patch, Data

LEMMA LoadedType ==
  ASSUME TypeInv, req # NoReq, NEW i \in Bufs, NEW st
  PROVE  Loaded(i, st) \in Data
BY ReqFacts DEF Loaded, TypeInv, TypeOK

LEMMA FinishType ==
  ASSUME TypeInv, req # NoReq, NEW i \in Bufs, NEW c \in Seq(Bufs), NEW d \in Seq(Bufs),
         NEW st, Finish(i, c, d, st)
  PROVE  CellsOK'
<1>1. Loaded(i, st) \in Data
  BY LoadedType
<1>2. Patch(Loaded(i, st)) \in Data
  BY <1>1, PatchType
<1>3. Append(c, i) \in Seq(Bufs) /\ Append(d, i) \in Seq(Bufs)
  BY AppendNode
<1>4. HoldTime \in 0..HoldTime
  BY ConstantFacts
<1>5. ReqOK' /\ (req' = NoReq \/ (req'.kind \in {"read", "write"} /\ req'.size > 0))
  BY AdvanceOK DEF Finish
<1>6. blkno' \in [Bufs -> Blocks \cup {NoBlock}]
  BY ReqFacts DEF Finish, TypeInv, TypeOK
<1>7. cached' \in Seq(Bufs) /\ dirty' \in Seq(Bufs) /\ synced' \in {"no", "ok", "err"}
  BY <1>3 DEF Finish, EnqueueDirty, TypeInv, TypeOK
<1>8. state' \in [Bufs -> {"INVALD", "DIRTY", "CACHED"}]
  BY DEF Finish, TypeInv, TypeOK
<1>9. hold' \in [Bufs -> 0..HoldTime]
  BY <1>4 DEF Finish, TypeInv, TypeOK
<1>10. buffer' \in [Bufs -> Data]
  BY <1>1, <1>2 DEF Finish, TypeInv, TypeOK
<1>. QED BY <1>5, <1>6, <1>7, <1>8, <1>9, <1>10 DEF CellsOK

LEMMA RecycleType ==
  ASSUME TypeInv, CacheInv, ~ub, req # NoReq, cached # <<>>, Recycle
  PROVE  CellsOK' /\ ub' \in BOOLEAN
<1>1. CASE ReadFails
  BY <1>1 DEF ReadFails, bhs, TypeInv, TypeOK, ReqOK, CellsOK
<1>2. CASE Finish(Head(cached), Tail(cached), dirty, "INVALD") /\ UNCHANGED ub
  <2>1. Head(cached) \in Bufs /\ Tail(cached) \in Seq(Bufs) /\ dirty \in Seq(Bufs) /\ ub \in BOOLEAN
    BY RemoveFirstNode, ListFacts DEF TypeInv, TypeOK, CacheInv, Partition
  <2>. QED BY <1>2, <2>1, FinishType
<1>. QED BY <1>1, <1>2 DEF Recycle

LEMMA HitType ==
  ASSUME TypeInv, CacheInv, Hit
  PROVE  CellsOK'
<1>1. /\ cached \in Seq(Bufs) /\ dirty \in Seq(Bufs) /\ req # NoReq
      /\ IsInjective(cached) /\ IsInjective(dirty)
  BY DEF Hit, TypeInv, TypeOK, CacheInv, Partition
<1>2. ASSUME NEW p \in FoundAt(cached, ReqBlk),
             Finish(cached[p], RemoveAt(cached, p), dirty, state[cached[p]])
      PROVE  CellsOK'
  <2>1. p \in 1..Len(cached)
    BY DEF FoundAt
  <2>2. cached[p] \in Bufs /\ RemoveAt(cached, p) \in Seq(Bufs)
    BY <1>1, <2>1, RemoveNode, ListFacts
  <2>. QED BY <1>1, <1>2, <2>2, FinishType
<1>3. ASSUME NEW p \in FoundAt(dirty, ReqBlk),
             Finish(dirty[p], cached, RemoveAt(dirty, p), state[dirty[p]])
      PROVE  CellsOK'
  <2>1. p \in 1..Len(dirty)
    BY DEF FoundAt
  <2>2. dirty[p] \in Bufs /\ RemoveAt(dirty, p) \in Seq(Bufs)
    BY <1>1, <2>1, RemoveNode, ListFacts
  <2>. QED BY <1>1, <1>3, <2>2, FinishType
<1>. QED BY <1>2, <1>3, Zenon DEF Hit

\* The other steps change the rest of the types.
RestOK ==
  /\ initialized \in BOOLEAN /\ ub \in BOOLEAN
  /\ flash \in [Blocks -> Data]
  /\ timer \in {"off", "armed", "idle", "rearm"} /\ cbs \in 0..MaxCbs
  /\ faults \in 0..MaxFaults

LEMMA TypeParts == TypeInv <=> CellsOK /\ RestOK /\ PassOK
<1>1. PassOK => pass.by \in {"none", "get", "sync", "cb"}
  BY DEF PassOK, Passes
<1>. QED BY <1>1 DEF TypeInv, TypeOK, CellsOK, RestOK

LEMMA TypeStep ==
  ASSUME TypeInv, CacheInv, [Next]_vars
  PROVE  TypeInv'
<1> USE TypeParts
<1>1. CellsOK /\ RestOK /\ PassOK
  OBVIOUS
<1>p. /\ pass.pos \in Nat /\ pass.err \in BOOLEAN /\ pass.expired \in 0..HoldTime
      /\ pass.by \in {"none", "get", "sync", "cb"}
  BY <1>1 DEF PassOK, Passes
<1>n. NoPass \in Passes /\ NoPass.by = "none"
  BY ConstantFacts DEF NoPass, Passes
<1>s. HoldTime \in 0..HoldTime /\ Period \in 0..HoldTime /\ 0 \in 0..HoldTime /\ NBufs \in Nat
  BY ConstantFacts
<1>b. /\ [i \in Bufs |-> NoBlock] \in [Bufs -> Blocks \cup {NoBlock}]
      /\ [i \in Bufs |-> "INVALD"] \in [Bufs -> {"INVALD", "DIRTY", "CACHED"}]
      /\ [i \in Bufs |-> Blank] \in [Bufs -> Data]
      /\ [i \in Bufs |-> 0] \in [Bufs -> 0..HoldTime]
      /\ <<>> \in Seq(Bufs)
      /\ [i \in Bufs |-> NBufs + 1 - i] \in Seq(Bufs)
  <2>1. [i \in Bufs |-> NBufs + 1 - i] \in [1..NBufs -> Bufs]
    BY <1>s DEF Bufs
  <2>2. [i \in Bufs |-> NBufs + 1 - i] \in Seq(Bufs)
    BY <1>s, <2>1, IsASeq
  <2>. QED BY <1>s, <2>2, ConstantFacts
<1>2. CASE BlkdevInit
  <2>1. CellsOK'
    BY <1>1, <1>2, <1>b DEF BlkdevInit, CellsOK, ReqOK
  <2>2. RestOK' /\ PassOK'
    BY <1>1, <1>2 DEF BlkdevInit, RestOK, PassOK, MutexFree
  <2>. QED BY <2>1, <2>2, PTL
<1>3. CASE BlkdevDestroy
  <2>1. CellsOK'
    BY <1>1, <1>3, <1>b DEF BlkdevDestroy, CellsOK, ReqOK
  <2>2. RestOK' /\ PassOK'
    BY <1>1, <1>3 DEF BlkdevDestroy, RestOK, PassOK, MutexFree
  <2>. QED BY <2>1, <2>2, PTL
<1>4. CASE Call
  <2>1. PICK r \in Requests : r.size > 0 /\ req' = r
    BY <1>4 DEF Call
  <2>2. /\ r \in [kind : {"read", "write"}, ofs : Nat, size : Nat, val : Values]
        /\ \A k \in r.ofs..(r.ofs + r.size - 1) : k \div BlkSize \in Blocks
    BY RequestsAssumption
  <2>3. ReqOK' /\ (req' = NoReq \/ (req'.kind \in {"read", "write"} /\ req'.size > 0))
    BY <2>1, <2>2 DEF ReqOK
  <2>4. CellsOK'
    BY <1>1, <1>4, <2>3 DEF Call, CellsOK, bhs
  <2>5. RestOK' /\ PassOK'
    BY <1>1, <1>4 DEF Call, RestOK, PassOK, MutexFree
  <2>. QED BY <2>4, <2>5, PTL
<1>5. CASE Hit
  <2>1. CellsOK'
    BY <1>5, HitType
  <2>2. RestOK' /\ PassOK'
    BY <1>1, <1>5 DEF Hit, RestOK, PassOK, MutexFree
  <2>. QED BY <2>1, <2>2, PTL
<1>6. CASE Miss
  <2>1. CellsOK' /\ ub' \in BOOLEAN
    BY <1>6, RecycleType DEF Miss
  <2>2. RestOK' /\ PassOK'
    BY <1>1, <1>6, <2>1 DEF Miss, RestOK, PassOK, MutexFree
  <2>. QED BY <2>1, <2>2, PTL
<1>7. CASE MissFlush
  <2>1. CellsOK' /\ RestOK'
    BY <1>1, <1>7 DEF MissFlush, CellsOK, RestOK, ReqOK, bhs
  <2>2. PassOK'
    BY <1>7, <1>s DEF MissFlush, PassOK, Passes
  <2>. QED BY <2>1, <2>2, PTL
<1>i. ASSUME InPass PROVE Cur \in Bufs /\ pass.pos \in 1..Len(dirty)
  <2>1. dirty \in Seq(Bufs) /\ Len(dirty) \in Nat
    BY <1>1, ListFacts DEF CellsOK
  <2>2. pass.pos \in 1..Len(dirty)
    BY <1>1, <1>p, <1>i, <2>1 DEF InPass, PassOK
  <2>. QED BY <2>1, <2>2, ListFacts DEF Cur
<1>8. CASE PassSkip
  <2> DEFINE h == hold[Cur] - pass.expired
  <2>1. Cur \in Bufs /\ hold[Cur] \in 0..HoldTime
    BY <1>1, <1>8, <1>i DEF PassSkip, CellsOK
  <2>2. h \in 0..HoldTime
    BY <1>8, <1>p, <2>1, ConstantFacts DEF PassSkip
  <2>3. hold' = [hold EXCEPT ![Cur] = h]
    BY <1>8 DEF PassSkip
  <2> HIDE DEF h
  <2>4. hold' \in [Bufs -> 0..HoldTime]
    BY <1>1, <2>2, <2>3 DEF CellsOK
  <2>5. CellsOK' /\ RestOK'
    BY <1>1, <1>8, <2>4 DEF PassSkip, CellsOK, RestOK, ReqOK
  <2>6. pass' = [by |-> pass.by, pos |-> pass.pos + 1, expired |-> pass.expired, err |-> pass.err]
    BY <1>1, <1>8 DEF PassSkip, PassOK, Passes
  <2>7. PassOK'
    BY <1>p, <2>6 DEF PassOK, Passes, MutexFree
  <2>. QED BY <2>5, <2>7, PTL
<1>9. CASE PassWrite
  <2>1. Cur \in Bufs /\ pass.pos \in 1..Len(dirty)
    BY <1>9, <1>i DEF PassWrite
  <2>2. Append(cached, Cur) \in Seq(Bufs) /\ RemoveAt(dirty, pass.pos) \in Seq(Bufs)
    BY <1>1, <2>1, AppendNode, RemoveAtFacts DEF CellsOK
  <2>3. CellsOK'
    BY <1>1, <1>9, <2>1, <2>2 DEF PassWrite, CellsOK, ReqOK
  <2>4. flash' \in [Blocks -> Data]
    BY <1>1, <1>9, <2>1, ConstantFacts DEF PassWrite, CellsOK, RestOK
  <2>5. RestOK' /\ PassOK'
    BY <1>1, <1>9, <2>4 DEF PassWrite, RestOK, PassOK, MutexFree
  <2>. QED BY <2>3, <2>5, PTL
<1>10. CASE PassFail
  <2>1. flash' \in [Blocks -> Data] /\ faults' \in 0..MaxFaults
    BY <1>1, <1>10, ConstantFacts DEF PassFail, RestOK
  <2>2. CellsOK' /\ RestOK'
    BY <1>1, <1>10, <2>1 DEF PassFail, CellsOK, RestOK, ReqOK, bhs
  <2>3. pass' = [by |-> pass.by, pos |-> pass.pos, expired |-> pass.expired, err |-> TRUE]
    BY <1>1, <1>10 DEF PassFail, PassOK, Passes
  <2>4. PassOK'
    BY <1>1, <1>p, <2>3 DEF PassOK, Passes, MutexFree
  <2>. QED BY <2>2, <2>4, PTL
<1>11. CASE SyncReturn
  <2>1. CellsOK' /\ RestOK'
    BY <1>1, <1>11 DEF SyncReturn, CellsOK, RestOK, ReqOK, bhs
  <2>2. PassOK'
    BY <1>11, <1>n DEF SyncReturn, PassOK, MutexFree
  <2>. QED BY <2>1, <2>2, PTL
<1>12. CASE CheckCbReturn
  <2>1. CellsOK' /\ RestOK'
    BY <1>1, <1>12 DEF CheckCbReturn, CellsOK, RestOK, ReqOK, bhs
  <2>2. PassOK'
    BY <1>12, <1>n DEF CheckCbReturn, PassOK, MutexFree
  <2>. QED BY <2>1, <2>2, PTL
<1>13. CASE GetReturn
  <2>1. ASSUME cached # <<>>, Recycle PROVE CellsOK' /\ ub' \in BOOLEAN
    <3>1. req # NoReq /\ ~ub
      BY <1>13 DEF GetReturn, PassDone, CacheInv, Wanted
    <3>. QED BY <2>1, <3>1, RecycleType
  <2>2. ASSUME ub' = TRUE, UNCHANGED <<cached, dirty, bhs, req, synced>>
        PROVE  CellsOK' /\ ub' \in BOOLEAN
    BY <1>1, <2>2 DEF CellsOK, ReqOK, bhs
  <2>3. CellsOK' /\ ub' \in BOOLEAN
    BY <1>13, <2>1, <2>2 DEF GetReturn
  <2>4. RestOK' /\ PassOK'
    BY <1>1, <1>13, <1>n, <2>3 DEF GetReturn, RestOK, PassOK, MutexFree
  <2>. QED BY <2>3, <2>4, PTL
<1>14. CASE Sync
  <2>1. CellsOK' /\ RestOK'
    BY <1>1, <1>14 DEF Sync, CellsOK, RestOK, ReqOK, bhs
  <2>2. PassOK'
    BY <1>14, <1>s DEF Sync, PassOK, Passes
  <2>. QED BY <2>1, <2>2, PTL
<1>15. CASE TimerFire \/ CheckCbRearm
  <2>1. CellsOK' /\ PassOK'
    BY <1>1, <1>15 DEF TimerFire, CheckCbRearm, CellsOK, ReqOK, bhs, PassOK, MutexFree
  <2>2. RestOK'
    BY <1>1, <1>15 DEF TimerFire, CheckCbRearm, RestOK, MaxCbs
  <2>. QED BY <2>1, <2>2, PTL
<1>16. CASE CheckCb
  <2>1. CellsOK' /\ RestOK'
    <3>1. CellsOK'
      BY <1>1, <1>16 DEF CheckCb, CellsOK, ReqOK, bhs
    <3>2. cbs' \in 0..MaxCbs
      BY <1>1, <1>16 DEF CheckCb, RestOK, MaxCbs
    <3>3. ub' = ub \/ ub' = TRUE
      BY <1>16 DEF CheckCb
    <3>4. ub' \in BOOLEAN
      BY <1>1, <3>3, Zenon DEF RestOK
    <3>5. RestOK'
      BY <1>1, <1>16, <3>2, <3>4 DEF CheckCb, RestOK
    <3>. QED BY <3>1, <3>5
  <2>2. PassOK'
    <3>1. CASE pass' = [by |-> "cb", pos |-> 1, expired |-> Period, err |-> FALSE]
      BY <1>s, <3>1 DEF PassOK, Passes
    <3>2. CASE UNCHANGED pass
      BY <1>1, <1>16, <3>2 DEF CheckCb, PassOK, MutexFree
    <3>. QED BY <1>16, <3>1, <3>2 DEF CheckCb
  <2>. QED BY <2>1, <2>2, PTL
<1>17. CASE UNCHANGED vars
  BY <1>1, <1>17 DEF vars, bhs, CellsOK, RestOK, PassOK, ReqOK, MutexFree, TypeInv, TypeOK
<1>. QED
  BY <1>2, <1>3, <1>4, <1>5, <1>6, <1>7, <1>8, <1>9, <1>10, <1>11, <1>12, <1>13, <1>14, <1>15,
     <1>16, <1>17, Zenon DEF Next, Transfer, Pass

LEMMA TypeInit == Init => TypeInv
<1>1. Init => CellsOK
  BY EmptySeq, ConstantFacts DEF Init, CellsOK, ReqOK
<1>2. Init => RestOK
  <2>1. Blank \in Data /\ 0 \in 0..MaxFaults /\ 0 \in 0..MaxCbs
    BY ConstantFacts DEF MaxCbs
  <2>. QED BY <2>1 DEF Init, RestOK
<1>3. Init => PassOK
  BY ConstantFacts DEF Init, PassOK, Passes, NoPass, MutexFree
<1>. QED BY <1>1, <1>2, <1>3, TypeParts

-----------------------------------------------------------------------------
(* Taking a buffer off its list. *)

\* The lists typed and in their parts, as most steps below need them.
LEMMA Lists ==
  ASSUME TypeInv, CacheInv, ~ub
  PROVE  /\ cached \in Seq(Bufs) /\ dirty \in Seq(Bufs)
         /\ IsInjective(cached) /\ IsInjective(dirty)
         /\ ToSet(cached) \cap ToSet(dirty) = {}
         /\ Listed \subseteq Bufs /\ Len(cached) \in Nat /\ Len(dirty) \in Nat
         /\ Listed # {} => initialized
<1>1. cached \in Seq(Bufs) /\ dirty \in Seq(Bufs) /\ Partition
  BY DEF TypeInv, TypeOK, CacheInv
<1>2. Listed \subseteq Bufs /\ Len(cached) \in Nat /\ Len(dirty) \in Nat
  BY <1>1, ListFacts DEF Listed
<1>3. ~initialized => Listed = {}
  BY <1>1, ListFacts DEF Listed, Partition
<1>. QED BY <1>1, <1>2, <1>3 DEF Partition

\* bh_search_locked finds the buffer of a block if it has one, and there is no
\* other buffer of that block.
LEMMA SearchFacts ==
  ASSUME TypeInv, CacheInv, ~ub, NEW q \in {cached, dirty}, NEW b \in Blocks
  PROVE  /\ FoundAt(q, b) = {} => \A i \in ToSet(q) : blkno[i] # b
         /\ \A p \in FoundAt(q, b) : /\ p \in 1..Len(q) /\ q[p] \in ToSet(q) /\ blkno[q[p]] = b
                                     /\ \A k \in Listed \ {q[p]} : blkno[k] # b
<1>1. q \in Seq(Bufs) /\ IsInjective(q) /\ ToSet(q) \subseteq Listed /\ b # NoBlock
  BY Lists, ConstantFacts DEF Listed
<1>2. \A i, j \in Listed : blkno[i] = b /\ blkno[j] = b => i = j
  BY <1>1 DEF CacheInv, Unique
<1>3. ASSUME NEW i \in ToSet(q), blkno[i] = b PROVE FoundAt(q, b) # {}
  <2>1. PICK p \in 1..Len(q) : q[p] = i
    BY <1>1, ListFacts
  <2>2. ASSUME NEW k \in 1..(p - 1) PROVE blkno[q[k]] # b
    <3>1. Len(q) \in Nat /\ k \in 1..Len(q) /\ k # p
      BY <1>1, ListFacts
    <3>2. q[k] # q[p] /\ q[k] \in Listed /\ q[p] \in Listed
      BY <1>1, <3>1, ListFacts
    <3>. QED BY <1>2, <1>3, <2>1, <3>2
  <2>3. p \in FoundAt(q, b)
    BY <1>3, <2>1, <2>2 DEF FoundAt
  <2>. QED BY <2>3
<1>4. ASSUME NEW p \in FoundAt(q, b)
      PROVE  /\ p \in 1..Len(q) /\ q[p] \in ToSet(q) /\ blkno[q[p]] = b
             /\ \A k \in Listed \ {q[p]} : blkno[k] # b
  <2>1. p \in 1..Len(q) /\ blkno[q[p]] = b
    BY DEF FoundAt
  <2>2. q[p] \in ToSet(q)
    BY <1>1, <2>1, ListFacts
  <2>. QED BY <1>1, <1>2, <2>1, <2>2
<1>. QED BY <1>3, <1>4

\* Buffer i has been taken off its list for the block of the call; c and d are
\* the lists without it and st its state, INVALD if it was recycled.
Taken(i, c, d, st) ==
  /\ i \in Listed /\ c \in Seq(Bufs) /\ d \in Seq(Bufs)
  /\ IsInjective(c) /\ IsInjective(d)
  /\ ToSet(c) = ToSet(cached) \ {i} /\ ToSet(d) = ToSet(dirty) \ {i}
  /\ Len(c) + Len(d) + 1 = Len(cached) + Len(dirty)
  /\ \A k \in Listed \ {i} : blkno[k] # ReqBlk
  /\ \/ st = state[i] /\ blkno[i] = ReqBlk
     \/ st = "INVALD" /\ i \in ToSet(cached) /\ blkno[i] # ReqBlk

LEMMA CachedTaken ==
  ASSUME TypeInv, CacheInv, ~ub, req # NoReq, NEW p \in FoundAt(cached, ReqBlk)
  PROVE  Taken(cached[p], RemoveAt(cached, p), dirty, state[cached[p]])
<1>1. /\ p \in 1..Len(cached) /\ cached[p] \in ToSet(cached) /\ blkno[cached[p]] = ReqBlk
      /\ \A k \in Listed \ {cached[p]} : blkno[k] # ReqBlk
  BY SearchFacts, ReqFacts
<1>2. /\ RemoveAt(cached, p) \in Seq(Bufs) /\ IsInjective(RemoveAt(cached, p))
      /\ Len(RemoveAt(cached, p)) = Len(cached) - 1
      /\ ToSet(RemoveAt(cached, p)) = ToSet(cached) \ {cached[p]}
  BY <1>1, RemoveNode, Lists
<1>3. ToSet(dirty) = ToSet(dirty) \ {cached[p]}
  BY <1>1, Lists
<1>. QED BY <1>1, <1>2, <1>3, Lists DEF Taken, Listed

LEMMA DirtyTaken ==
  ASSUME TypeInv, CacheInv, ~ub, req # NoReq, NEW p \in FoundAt(dirty, ReqBlk)
  PROVE  Taken(dirty[p], cached, RemoveAt(dirty, p), state[dirty[p]])
<1>1. /\ p \in 1..Len(dirty) /\ dirty[p] \in ToSet(dirty) /\ blkno[dirty[p]] = ReqBlk
      /\ \A k \in Listed \ {dirty[p]} : blkno[k] # ReqBlk
  BY SearchFacts, ReqFacts
<1>2. /\ RemoveAt(dirty, p) \in Seq(Bufs) /\ IsInjective(RemoveAt(dirty, p))
      /\ Len(RemoveAt(dirty, p)) = Len(dirty) - 1
      /\ ToSet(RemoveAt(dirty, p)) = ToSet(dirty) \ {dirty[p]}
  BY <1>1, RemoveNode, Lists
<1>3. ToSet(cached) = ToSet(cached) \ {dirty[p]}
  BY <1>1, Lists
<1>. QED BY <1>1, <1>2, <1>3, Lists DEF Taken, Listed

LEMMA FirstTaken ==
  ASSUME TypeInv, CacheInv, ~ub, req # NoReq, cached # <<>>,
         \A k \in Listed : blkno[k] # ReqBlk
  PROVE  Taken(Head(cached), Tail(cached), dirty, "INVALD")
<1>1. /\ Tail(cached) \in Seq(Bufs) /\ IsInjective(Tail(cached))
      /\ Len(Tail(cached)) = Len(cached) - 1
      /\ ToSet(Tail(cached)) = ToSet(cached) \ {Head(cached)} /\ Head(cached) \in ToSet(cached)
  BY RemoveFirstNode, Lists
<1>2. ToSet(dirty) = ToSet(dirty) \ {Head(cached)}
  BY <1>1, Lists
<1>. QED BY <1>1, <1>2, Lists DEF Taken, Listed

\* What memcpy and release leave: a dirty buffer at the end of the dirty list,
\* or a clean one that agrees with the flash at the end of the cached list.
LEMMA FinishShape ==
  ASSUME TypeInv, CacheInv, ~ub, req # NoReq, NEW i, NEW c, NEW d, NEW st,
         Taken(i, c, d, st), Finish(i, c, d, st)
  PROVE  /\ blkno' = [blkno EXCEPT ![i] = ReqBlk] /\ i \in Bufs
         /\ \A k \in Bufs \ {i} : /\ state'[k] = state[k] /\ buffer'[k] = buffer[k]
                                  /\ hold'[k] = hold[k]
         /\ \/ /\ cached' = c /\ dirty' = Append(d, i)
               /\ state'[i] = "DIRTY" /\ hold'[i] = HoldTime
            \/ /\ cached' = Append(c, i) /\ dirty' = d /\ hold' = hold
               /\ state'[i] = "CACHED" /\ buffer'[i] = flash[ReqBlk]
         /\ \/ /\ req.kind = "write" /\ buffer'[i] = Patch(Loaded(i, st)) /\ synced' = "no"
            \/ /\ req.kind = "read" /\ synced' = synced
               /\ buffer'[i] = IF st = "INVALD" THEN flash[ReqBlk] ELSE buffer[i]
               /\ st = "DIRTY" => dirty' = Append(d, i)
               /\ st # "DIRTY" => dirty' = d
<1>1. /\ i \in Bufs /\ i \in Listed /\ state \in [Bufs -> {"INVALD", "DIRTY", "CACHED"}]
      /\ buffer \in [Bufs -> Data] /\ hold \in [Bufs -> 0..HoldTime]
  BY Lists DEF Taken, TypeInv, TypeOK
<1>2. blkno' = [blkno EXCEPT ![i] = ReqBlk]
  BY DEF Finish
<1>3. CASE req.kind = "write"
  BY <1>1, <1>2, <1>3 DEF Finish, EnqueueDirty
<1>4. CASE req.kind = "read" /\ st = "DIRTY"
  <2>1. state[i] = "DIRTY"
    BY <1>4 DEF Taken
  <2>. QED BY <1>1, <1>2, <1>4, <2>1 DEF Finish, EnqueueDirty
<1>5. CASE req.kind = "read" /\ st # "DIRTY"
  <2>1. /\ buffer' = [buffer EXCEPT ![i] = Loaded(i, st)]
        /\ state' = [state EXCEPT ![i] = "CACHED"]
        /\ cached' = Append(c, i) /\ dirty' = d
        /\ UNCHANGED <<hold, synced>>
    BY <1>5 DEF Finish
  <2>2. ~WholeBlock
    BY <1>5 DEF WholeBlock
  <2>3. Loaded(i, st) = IF st = "INVALD" THEN flash[ReqBlk] ELSE buffer[i]
    BY <2>2 DEF Loaded
  <2>4. st # "INVALD" => buffer[i] = flash[ReqBlk]
    <3>1. SUFFICES ASSUME st # "INVALD" PROVE buffer[i] = flash[ReqBlk]
      OBVIOUS
    <3>2. st = state[i] /\ blkno[i] = ReqBlk /\ state[i] = "CACHED"
      BY <1>1, <1>5, <3>1 DEF Taken
    <3>3. i \in ToSet(cached)
      BY <1>1, <3>2 DEF CacheInv, States, Listed
    <3>. QED BY <3>2, <3>3 DEF CacheInv, Clean
  <2>. QED BY <1>1, <1>2, <1>5, <2>1, <2>3, <2>4
<1>. QED BY <1>3, <1>4, <1>5 DEF Finish


-----------------------------------------------------------------------------
(* The cache invariant is inductive. *)

LEMMA FinishCache ==
  ASSUME TypeInv, CacheInv, ~ub, req # NoReq, NEW i, NEW c, NEW d, NEW st,
         Taken(i, c, d, st), Finish(i, c, d, st),
         UNCHANGED <<initialized, flash>>, pass'.by # "get"
  PROVE  CacheInv' /\ Listed' = Listed
<1>1. /\ i \in Bufs /\ i \in Listed /\ c \in Seq(Bufs) /\ d \in Seq(Bufs)
      /\ IsInjective(c) /\ IsInjective(d) /\ i \notin ToSet(c) /\ i \notin ToSet(d)
      /\ ToSet(c) \cap ToSet(d) = {} /\ ToSet(c) \cup ToSet(d) \cup {i} = Listed
      /\ ToSet(c) \subseteq ToSet(cached) /\ ToSet(d) \subseteq ToSet(dirty)
  BY Lists DEF Taken, Listed
<1>2. /\ blkno'[i] = ReqBlk
      /\ \A k \in Bufs \ {i} : blkno'[k] = blkno[k] /\ state'[k] = state[k] /\ buffer'[k] = buffer[k]
  BY <1>1, FinishShape DEF TypeInv, TypeOK
<1>3. \/ /\ cached' = c /\ dirty' = Append(d, i) /\ state'[i] = "DIRTY"
      \/ /\ cached' = Append(c, i) /\ dirty' = d
         /\ state'[i] = "CACHED" /\ buffer'[i] = flash[ReqBlk]
  BY FinishShape
<1>4. /\ ToSet(Append(c, i)) = ToSet(c) \cup {i} /\ ToSet(Append(d, i)) = ToSet(d) \cup {i}
      /\ Len(Append(c, i)) = Len(c) + 1 /\ Len(Append(d, i)) = Len(d) + 1
      /\ IsInjective(Append(c, i)) /\ IsInjective(Append(d, i))
  BY <1>1, AppendNode
<1>5. initialized /\ initialized' /\ flash' = flash
  BY <1>1, Lists
<1>6. Len(c) \in Nat /\ Len(d) \in Nat /\ Len(c) + Len(d) + 1 = NBufs /\ Listed = Bufs
  BY <1>1, <1>5, ListFacts DEF Taken, CacheInv, Partition
<1>7. Listed' = Listed
  BY <1>1, <1>3, <1>4 DEF Listed
<1>8. Partition'
  <2>1. /\ IsInjective(cached') /\ IsInjective(dirty')
        /\ ToSet(cached') \cap ToSet(dirty') = {}
    BY <1>1, <1>3, <1>4
  <2>2. Len(cached') + Len(dirty') = NBufs
    BY <1>3, <1>4, <1>6
  <2>. QED BY <1>5, <1>6, <1>7, <2>1, <2>2 DEF Partition
<1>9. States'
  <2>1. /\ \A k \in ToSet(c) : state[k] # "DIRTY"
        /\ \A k \in ToSet(d) : state[k] = "DIRTY"
        /\ \A k \in Listed : state[k] = "INVALD" <=> blkno[k] = NoBlock
    BY <1>1 DEF CacheInv, States
  <2>2. ToSet(c) \subseteq Bufs \ {i} /\ ToSet(d) \subseteq Bufs \ {i} /\ Listed \subseteq Bufs
    BY <1>1, <1>6
  <2>3. (\A k \in ToSet(cached') : state'[k] # "DIRTY") /\ (\A k \in ToSet(dirty') : state'[k] = "DIRTY")
    <3>1. /\ \A k \in ToSet(c) : state'[k] # "DIRTY"
          /\ \A k \in ToSet(d) : state'[k] = "DIRTY"
      BY <1>2, <2>1, <2>2
    <3>2. CASE cached' = c /\ dirty' = Append(d, i) /\ state'[i] = "DIRTY"
      BY <1>4, <3>1, <3>2
    <3>3. CASE cached' = Append(c, i) /\ dirty' = d /\ state'[i] = "CACHED"
      BY <1>4, <3>1, <3>3
    <3>. QED BY <1>3, <3>2, <3>3
  <2>4. state'[i] # "INVALD" /\ blkno'[i] # NoBlock
    BY <1>2, <1>3, ReqFacts
  <2>5. \A k \in Listed : state'[k] = "INVALD" <=> blkno'[k] = NoBlock
    BY <1>2, <2>1, <2>2, <2>4
  <2>. QED BY <1>7, <2>3, <2>5 DEF States
<1>10. Unique'
  <2>1. \A k \in Listed \ {i} : blkno'[k] = blkno[k] /\ blkno[k] # ReqBlk
    BY <1>2, <1>6 DEF Taken
  <2>2. \A k, l \in Listed : blkno[k] = blkno[l] /\ blkno[k] # NoBlock => k = l
    BY DEF CacheInv, Unique
  <2>3. \A k, l \in Listed : blkno'[k] = blkno'[l] /\ blkno'[k] # NoBlock => k = l
    BY <1>2, <2>1, <2>2
  <2>. QED BY <1>7, <2>3 DEF Unique
<1>11. Clean'
  <2>1. ASSUME NEW k \in ToSet(cached'), state'[k] = "CACHED" PROVE buffer'[k] = flash'[blkno'[k]]
    <3>1. CASE k = i
      BY <1>2, <1>3, <1>5, <2>1, <3>1
    <3>2. CASE k # i
      <4>1. k \in ToSet(cached) /\ k \in Bufs \ {i}
        BY <1>1, <1>3, <1>4, <1>6, <3>2
      <4>. QED BY <1>2, <1>5, <2>1, <4>1 DEF CacheInv, Clean
    <3>. QED BY <3>1, <3>2
  <2>. QED BY <2>1 DEF Clean
<1>12. Wanted'
  BY DEF Wanted
<1>. QED BY <1>7, <1>8, <1>9, <1>10, <1>11, <1>12 DEF CacheInv

LEMMA RecycleCache ==
  ASSUME TypeInv, CacheInv, ~ub, req # NoReq, cached # <<>>,
         \A k \in Listed : blkno[k] # ReqBlk, Recycle,
         UNCHANGED <<initialized, flash>>, pass'.by # "get"
  PROVE  CacheInv'
<1>1. CASE ReadFails
  BY <1>1 DEF ReadFails, CacheInv
<1>2. CASE Finish(Head(cached), Tail(cached), dirty, "INVALD")
  BY <1>2, FirstTaken, FinishCache
<1>. QED BY <1>1, <1>2 DEF Recycle

\* A step that leaves the lists, the buffers and the flash alone.
LEMMA SameCache ==
  ASSUME CacheInv, UNCHANGED <<initialized, cached, dirty, blkno, state, buffer, flash, ub>>,
         Wanted'
  PROVE  CacheInv'
<1>1. Listed' = Listed
  BY DEF Listed
<1>. QED BY <1>1 DEF CacheInv, Partition, States, Unique, Clean

\* blkdev_init and blkdev_destroy: no buffer has a block.
LEMMA EmptyCache ==
  ASSUME blkno' = [i \in Bufs |-> NoBlock], state' = [i \in Bufs |-> "INVALD"],
         Listed' \subseteq Bufs, ToSet(dirty') = {}, pass'.by # "get", Partition'
  PROVE  CacheInv'
<1>1. \A i \in Listed' : blkno'[i] = NoBlock /\ state'[i] = "INVALD"
  OBVIOUS
<1>2. ToSet(cached') \subseteq Listed'
  BY DEF Listed
<1>3. States' /\ Unique' /\ Clean'
  BY <1>1, <1>2 DEF States, Unique, Clean
<1>. QED BY <1>3 DEF CacheInv, Wanted


\* The place of a pass is on the dirty list.
LEMMA CurFacts ==
  ASSUME TypeInv, CacheInv, InPass
  PROVE  /\ pass.pos \in 1..Len(dirty) /\ Cur \in Bufs /\ Cur \in ToSet(dirty) /\ Cur \in Listed
         /\ Cur \notin ToSet(cached) /\ state[Cur] = "DIRTY" /\ blkno[Cur] \in Blocks /\ ~ub
<1>1. ~ub /\ ~MutexFree /\ pass.pos <= Len(dirty)
  BY DEF InPass
<1>2. pass.pos \in Nat /\ 0 < pass.pos
  BY <1>1 DEF TypeInv, PassOK, Passes
<1>3. pass.pos \in 1..Len(dirty)
  BY <1>1, <1>2, Lists
<1>4. Cur \in Bufs /\ Cur \in ToSet(dirty) /\ Cur \in Listed /\ Cur \notin ToSet(cached)
  BY <1>1, <1>3, Lists, ListFacts DEF Cur, Listed
<1>5. state[Cur] = "DIRTY" /\ blkno[Cur] # NoBlock
  BY <1>1, <1>4 DEF CacheInv, States
<1>6. blkno[Cur] \in Blocks
  BY <1>4, <1>5 DEF TypeInv, TypeOK
<1>. QED BY <1>1, <1>3, <1>4, <1>5, <1>6

\* Erasing or writing the flash under a dirty buffer leaves what the clean ones
\* were read from.
LEMMA OtherFlash ==
  ASSUME TypeInv, CacheInv, InPass, NEW v, flash' = [flash EXCEPT ![blkno[Cur]] = v]
  PROVE  \A k \in Listed \ {Cur} : blkno[k] # blkno[Cur]
                                   /\ (state[k] = "CACHED" => flash'[blkno[k]] = flash[blkno[k]])
<1> SUFFICES ASSUME NEW k \in Listed \ {Cur}
             PROVE  blkno[k] # blkno[Cur]
                    /\ (state[k] = "CACHED" => flash'[blkno[k]] = flash[blkno[k]])
  OBVIOUS
<1>1. ~ub /\ Cur \in Listed /\ blkno[Cur] \in Blocks
  BY CurFacts
<1>2. k \in Bufs /\ (state[k] = "CACHED" => blkno[k] # NoBlock)
  BY <1>1, Lists DEF CacheInv, States
<1>3. blkno[k] # blkno[Cur]
  BY <1>1, ConstantFacts DEF CacheInv, Unique
<1>4. state[k] = "CACHED" => blkno[k] \in Blocks
  BY <1>2 DEF TypeInv, TypeOK
<1>. QED BY <1>1, <1>3, <1>4 DEF TypeInv, TypeOK

LEMMA PassWriteCache ==
  ASSUME TypeInv, CacheInv, PassWrite
  PROVE  CacheInv' /\ Listed' = Listed
<1>1. /\ InPass /\ flash' = [flash EXCEPT ![blkno[Cur]] = buffer[Cur]]
      /\ state' = [state EXCEPT ![Cur] = "CACHED"]
      /\ cached' = Append(cached, Cur) /\ dirty' = RemoveAt(dirty, pass.pos)
      /\ UNCHANGED <<initialized, blkno, buffer, req, pass, ub>>
  BY DEF PassWrite
<1>2. /\ pass.pos \in 1..Len(dirty) /\ Cur \in Bufs /\ Cur \in ToSet(dirty) /\ Cur \in Listed
      /\ Cur \notin ToSet(cached) /\ blkno[Cur] \in Blocks /\ ~ub /\ Cur = dirty[pass.pos]
  BY <1>1, CurFacts DEF Cur
<1>3. /\ ToSet(cached') = ToSet(cached) \cup {Cur} /\ Len(cached') = Len(cached) + 1
      /\ IsInjective(cached')
  BY <1>1, <1>2, AppendNode, Lists
<1>4. /\ ToSet(dirty') = ToSet(dirty) \ {Cur} /\ Len(dirty') = Len(dirty) - 1
      /\ IsInjective(dirty')
  BY <1>1, <1>2, RemoveNode, Lists
<1>5. Listed' = Listed
  BY <1>2, <1>3, <1>4 DEF Listed
<1>6. Partition'
  <2>1. ToSet(cached') \cap ToSet(dirty') = {}
    BY <1>3, <1>4, <1>2, Lists
  <2>2. initialized' => Len(cached') + Len(dirty') = NBufs
    BY <1>1, <1>2, <1>3, <1>4, Lists DEF CacheInv, Partition
  <2>3. initialized'
    BY <1>1, <1>2, Lists
  <2>. QED BY <1>1, <1>2, <1>3, <1>4, <1>5, <2>1, <2>2, <2>3 DEF Partition, CacheInv
<1>7. \A k \in Bufs : k # Cur => state'[k] = state[k]
  BY <1>1 DEF TypeInv, TypeOK
<1>8. state'[Cur] = "CACHED" /\ blkno[Cur] # NoBlock
  BY <1>1, <1>2, ConstantFacts DEF TypeInv, TypeOK
<1>9. States'
  <2>1. Listed \subseteq Bufs /\ ToSet(cached) \subseteq Bufs /\ ToSet(dirty) \subseteq Bufs
    BY <1>2, Lists DEF Listed
  <2>2. (\A k \in ToSet(cached') : state'[k] # "DIRTY") /\ (\A k \in ToSet(dirty') : state'[k] = "DIRTY")
    BY <1>2, <1>3, <1>4, <1>7, <1>8, <2>1 DEF CacheInv, States
  <2>3. \A k \in Listed : state'[k] = "INVALD" <=> blkno[k] = NoBlock
    BY <1>2, <1>7, <1>8, <2>1 DEF CacheInv, States
  <2>. QED BY <1>1, <1>5, <2>2, <2>3 DEF States
<1>10. Unique' /\ Wanted'
  BY <1>1, <1>2, <1>5 DEF CacheInv, Unique, Wanted, ReqBlk
<1>11. Clean'
  <2>1. ASSUME NEW k \in ToSet(cached'), state'[k] = "CACHED" PROVE buffer'[k] = flash'[blkno'[k]]
    <3>1. CASE k = Cur
      BY <1>1, <1>2, <3>1 DEF TypeInv, TypeOK
    <3>2. CASE k # Cur
      <4>1. k \in ToSet(cached) /\ k \in Listed \ {Cur} /\ k \in Bufs
        BY <1>2, <1>3, <3>2, Lists DEF Listed
      <4>2. state[k] = "CACHED"
        BY <1>7, <2>1, <3>2, <4>1
      <4>3. flash'[blkno[k]] = flash[blkno[k]]
        BY <1>1, <4>1, <4>2, OtherFlash
      <4>. QED BY <1>1, <1>2, <4>1, <4>2, <4>3 DEF CacheInv, Clean
    <3>. QED BY <3>1, <3>2
  <2>. QED BY <2>1 DEF Clean
<1>. QED BY <1>5, <1>6, <1>9, <1>10, <1>11 DEF CacheInv

LEMMA PassFailCache ==
  ASSUME TypeInv, CacheInv, PassFail
  PROVE  CacheInv'
<1>1. /\ InPass /\ UNCHANGED <<initialized, cached, dirty, blkno, state, buffer, req, ub>>
      /\ flash' = flash \/ flash' = [flash EXCEPT ![blkno[Cur]] = Blank]
      /\ pass' = [pass EXCEPT !.err = TRUE]
  BY DEF PassFail, bhs
<1>2. pass'.by = pass.by
  BY <1>1 DEF TypeInv, PassOK, Passes
<1>3. ~ub /\ Cur \notin ToSet(cached)
  BY <1>1, CurFacts
<1>4. Listed' = Listed
  BY <1>1 DEF Listed
<1>5. Partition' /\ States' /\ Unique' /\ Wanted'
  BY <1>1, <1>2, <1>3, <1>4 DEF CacheInv, Partition, States, Unique, Wanted, ReqBlk
<1>6. Clean'
  <2>1. ASSUME NEW k \in ToSet(cached), state[k] = "CACHED" PROVE flash'[blkno[k]] = flash[blkno[k]]
    <3>1. k \in Listed \ {Cur}
      BY <1>3 DEF Listed
    <3>. QED BY <1>1, <2>1, <3>1, OtherFlash
  <2>. QED BY <1>1, <1>3, <2>1 DEF CacheInv, Clean
<1>. QED BY <1>5, <1>6 DEF CacheInv

LEMMA InitCache ==
  ASSUME TypeInv, CacheInv, BlkdevInit
  PROVE  CacheInv' /\ Listed' = Bufs /\ Listed = {}
<1> DEFINE q == [i \in Bufs |-> NBufs + 1 - i]
<1>1. /\ cached' = q /\ blkno' = [i \in Bufs |-> NoBlock] /\ state' = [i \in Bufs |-> "INVALD"]
      /\ dirty' = dirty /\ pass' = pass /\ ~ub /\ ~initialized /\ pass.by = "none"
      /\ initialized' \/ ub'
  BY DEF BlkdevInit, MutexFree
<1>2. dirty = <<>> /\ Listed = {} /\ Len(dirty) = 0 /\ ToSet(dirty) = {}
  BY <1>1, Lists, ListFacts DEF CacheInv, Partition
<1>3. NBufs \in Nat /\ q \in [1..NBufs -> Bufs]
  BY ConstantFacts DEF Bufs
<1>4. q \in Seq(Bufs) /\ Len(q) = NBufs
  <2>1. q \in Seq(Bufs)
    BY <1>3, IsASeq
  <2>2. 1..Len(q) = 1..NBufs /\ Len(q) \in Nat
    BY <1>3, <2>1, LenProperties
  <2>. QED BY <1>3, <2>1, <2>2
<1>5. \A k \in 1..NBufs : q[k] = NBufs + 1 - k
  BY DEF Bufs
<1> HIDE DEF q
<1>6. ASSUME NEW i \in Bufs PROVE i \in ToSet(q)
  <2>1. NBufs + 1 - i \in 1..NBufs /\ q[NBufs + 1 - i] = i
    BY <1>3, <1>5 DEF Bufs
  <2>. QED BY <1>4, <2>1, ListFacts
<1>7. IsInjective(q) /\ ToSet(q) = Bufs
  <2>1. \A k, l \in 1..NBufs : q[k] = q[l] => k = l
    BY <1>3, <1>5
  <2>. QED BY <1>4, <1>6, <2>1, ListFacts
<1>8. Listed' = Bufs
  BY <1>1, <1>2, <1>7 DEF Listed
<1>9. IsInjective(dirty)
  BY <1>1 DEF CacheInv, Partition
<1>10. initialized' => Partition'
  BY <1>1, <1>2, <1>3, <1>4, <1>7, <1>8, <1>9 DEF Partition
<1>11. CASE ub'
  BY <1>2, <1>8, <1>11 DEF CacheInv
<1>12. CASE initialized'
  BY <1>1, <1>2, <1>8, <1>10, <1>12, EmptyCache
<1>. QED BY <1>1, <1>2, <1>8, <1>11, <1>12

LEMMA DestroyCache ==
  ASSUME TypeInv, CacheInv, BlkdevDestroy
  PROVE  CacheInv' /\ Listed' = {}
<1>1. /\ cached' = <<>> /\ dirty' = <<>> /\ ~initialized' /\ pass' = pass /\ pass.by = "none"
      /\ blkno' = [i \in Bufs |-> NoBlock] /\ state' = [i \in Bufs |-> "INVALD"]
  BY DEF BlkdevDestroy, MutexFree
<1>2. <<>> \in Seq(Bufs) /\ Len(<<>>) = 0
  BY EmptySeq
<1>3. ToSet(<<>>) = {} /\ IsInjective(<<>>)
  BY <1>2, ListFacts
<1>4. Listed' = {}
  BY <1>1, <1>3 DEF Listed
<1>5. Partition'
  BY <1>1, <1>3 DEF Partition
<1>. QED BY <1>1, <1>3, <1>4, <1>5, EmptyCache


LEMMA CacheStep ==
  ASSUME TypeInv, CacheInv, [Next]_vars
  PROVE  CacheInv'
<1>1. CASE BlkdevInit
  BY <1>1, InitCache
<1>2. CASE BlkdevDestroy
  BY <1>2, DestroyCache
<1>3. CASE Call
  <2>1. /\ UNCHANGED <<initialized, cached, dirty, blkno, state, buffer, flash, ub, pass>>
        /\ req = NoReq /\ ~ub
    BY <1>3 DEF Call, bhs
  <2>2. Wanted'
    BY <2>1 DEF Wanted, CacheInv
  <2>. QED BY <2>1, <2>2, SameCache
<1>4. CASE Hit
  <2>1. /\ req # NoReq /\ ~ub /\ UNCHANGED <<initialized, flash>> /\ pass'.by # "get"
    BY <1>4 DEF Hit, MutexFree
  <2>2. ASSUME NEW p \in FoundAt(cached, ReqBlk),
               Finish(cached[p], RemoveAt(cached, p), dirty, state[cached[p]])
        PROVE  CacheInv'
    BY <2>1, <2>2, CachedTaken, FinishCache
  <2>3. ASSUME NEW p \in FoundAt(dirty, ReqBlk),
               Finish(dirty[p], cached, RemoveAt(dirty, p), state[dirty[p]])
        PROVE  CacheInv'
    BY <2>1, <2>3, DirtyTaken, FinishCache
  <2>. QED BY <1>4, <2>2, <2>3, Zenon DEF Hit
<1>5. CASE Miss
  <2>1. /\ req # NoReq /\ ~ub /\ UNCHANGED <<initialized, flash>> /\ pass'.by # "get"
        /\ NotFound /\ cached # <<>> /\ Recycle
    BY <1>5 DEF Miss, MutexFree
  <2>2. \A k \in Listed : blkno[k] # ReqBlk
    BY <2>1, SearchFacts, ReqFacts DEF NotFound, Listed
  <2>. QED BY <2>1, <2>2, RecycleCache
<1>6. CASE MissFlush
  <2>1. /\ UNCHANGED <<initialized, cached, dirty, blkno, state, buffer, flash, ub, req>>
        /\ req # NoReq /\ ~ub /\ NotFound
    BY <1>6 DEF MissFlush, bhs
  <2>2. \A k \in Listed : blkno[k] # ReqBlk
    BY <2>1, SearchFacts, ReqFacts DEF NotFound, Listed
  <2>3. Listed' = Listed /\ ReqBlk' = ReqBlk
    BY <2>1 DEF Listed, ReqBlk
  <2>4. Wanted'
    BY <2>1, <2>2, <2>3 DEF Wanted
  <2>. QED BY <2>1, <2>4, SameCache
<1>7. CASE PassSkip
  <2>1. /\ UNCHANGED <<initialized, cached, dirty, blkno, state, buffer, flash, ub, req>>
        /\ ~ub /\ pass' = [pass EXCEPT !.pos = @ + 1]
    BY <1>7 DEF PassSkip, InPass
  <2>2. pass'.by = pass.by
    BY <2>1 DEF TypeInv, PassOK, Passes
  <2>3. Listed' = Listed /\ ReqBlk' = ReqBlk
    BY <2>1 DEF Listed, ReqBlk
  <2>4. Wanted'
    BY <2>1, <2>2, <2>3 DEF Wanted, CacheInv
  <2>. QED BY <2>1, <2>4, SameCache
<1>8. CASE PassWrite
  BY <1>8, PassWriteCache
<1>9. CASE PassFail
  BY <1>9, PassFailCache
<1>10. CASE SyncReturn \/ CheckCbReturn
  <2>1. /\ UNCHANGED <<initialized, cached, dirty, blkno, state, buffer, flash, ub>>
        /\ pass' = NoPass
    BY <1>10 DEF SyncReturn, CheckCbReturn, bhs
  <2>2. Wanted'
    BY <2>1 DEF Wanted, NoPass
  <2>. QED BY <2>1, <2>2, SameCache
<1>11. CASE GetReturn
  <2>1. /\ ~ub /\ pass.by = "get" /\ pass' = NoPass /\ UNCHANGED <<initialized, flash>>
        /\ (cached # <<>> /\ Recycle) \/ ub'
    BY <1>11 DEF GetReturn, PassDone
  <2>2. pass'.by # "get" /\ req # NoReq /\ \A k \in Listed : blkno[k] # ReqBlk
    BY <2>1 DEF NoPass, CacheInv, Wanted
  <2>3. CASE ub'
    BY <2>3 DEF CacheInv
  <2>4. CASE cached # <<>> /\ Recycle
    BY <2>1, <2>2, <2>4, RecycleCache
  <2>. QED BY <2>1, <2>3, <2>4
<1>12. CASE Sync \/ CheckCb
  <2>1. CASE ub'
    BY <2>1 DEF CacheInv
  <2>2. CASE ~ub'
    <3>1. /\ UNCHANGED <<initialized, cached, dirty, blkno, state, buffer, flash, ub>>
          /\ pass'.by # "get"
      BY <1>12, <2>2 DEF Sync, CheckCb, bhs
    <3>2. Wanted'
      BY <3>1 DEF Wanted
    <3>. QED BY <3>1, <3>2, SameCache
  <2>. QED BY <2>1, <2>2
<1>13. CASE TimerFire \/ CheckCbRearm \/ UNCHANGED vars
  <2>1. /\ UNCHANGED <<initialized, cached, dirty, blkno, state, buffer, flash, ub, req, pass>>
    BY <1>13 DEF TimerFire, CheckCbRearm, vars, bhs
  <2>2. CASE ub
    BY <2>1, <2>2 DEF CacheInv
  <2>3. CASE ~ub
    <3>1. Wanted'
      BY <2>1, <2>3 DEF Wanted, CacheInv, Listed, ReqBlk
    <3>. QED BY <2>1, <3>1, SameCache
  <2>. QED BY <2>2, <2>3
<1>. QED
  BY <1>1, <1>2, <1>3, <1>4, <1>5, <1>6, <1>7, <1>8, <1>9, <1>10, <1>11, <1>12, <1>13,
     Zenon DEF Next, Transfer, Pass

LEMMA CacheInit == Init => CacheInv
<1> SUFFICES ASSUME Init PROVE CacheInv
  OBVIOUS
<1>1. <<>> \in Seq(Bufs) /\ Len(<<>>) = 0
  BY EmptySeq
<1>2. ToSet(<<>>) = {} /\ IsInjective(<<>>)
  BY <1>1, ListFacts
<1>3. cached = <<>> /\ dirty = <<>> /\ ~initialized /\ pass.by = "none"
  BY DEF Init, NoPass
<1>4. Listed = {}
  BY <1>2, <1>3 DEF Listed
<1>5. Partition /\ States /\ Unique /\ Clean /\ Wanted
  BY <1>2, <1>3, <1>4 DEF Partition, States, Unique, Clean, Wanted
<1>. QED BY <1>5 DEF CacheInv

-----------------------------------------------------------------------------
(* The theorems about the lists and the buffers. *)

LEMMA CacheAlways == Spec => [](TypeInv /\ CacheInv)
<1>1. Init => TypeInv /\ CacheInv
  BY TypeInit, CacheInit
<1>2. TypeInv /\ CacheInv /\ [Next]_vars => (TypeInv /\ CacheInv)'
  BY TypeStep, CacheStep
<1>. QED BY <1>1, <1>2, PTL DEF Spec

\* Every variable of blkdev.c keeps its type: what a request stores is always
\* the data of a block that exists, hold times stay within CONFIG_BLKDEV_HOLD_TIME.
THEOREM Typed == Spec => []TypeOK
<1>1. TypeInv => TypeOK
  BY DEF TypeInv
<1>. QED BY <1>1, CacheAlways, PTL

\* bh_search_locked, bh_release, bh_enqueue_dirty and blkdev_sync_locked lose no
\* buffer: each is on exactly one list, on the dirty one when it is dirty.
THEOREM BuffersListed == Spec => []ListsPartition
<1>1. TypeInv /\ CacheInv => ListsPartition
  BY DEF CacheInv, Partition, States, ListsPartition, Listed
<1>. QED BY <1>1, CacheAlways, PTL

\* bh_search_locked never gives a block a second buffer.
THEOREM OneBuffer == Spec => []OneBufferPerBlock
<1>1. CacheInv => OneBufferPerBlock
  BY DEF CacheInv, Unique, OneBufferPerBlock, Listed
<1>. QED BY <1>1, CacheAlways, PTL

\* A buffer that blkdev_sync_locked or bh_read marked clean agrees with the
\* flash until it is used again.
THEOREM CleanBuffers == Spec => []CleanMatchesFlash
<1>1. CacheInv => CleanMatchesFlash
  BY DEF CacheInv, Clean, CleanMatchesFlash
<1>. QED BY <1>1, CacheAlways, PTL


-----------------------------------------------------------------------------
(* The order of the dirty list. *)

InOrder(d) == \A k, l \in 1..Len(d) : k < l => hold[d[k]] <= hold[d[l]]

\* Whatever a pass has aged so far, the list is in order.
LEMMA AlwaysInOrder ==
  ASSUME TypeInv, OrderInv, ~ub
  PROVE  InOrder(dirty)
<1> SUFFICES ASSUME NEW k \in 1..Len(dirty), NEW l \in 1..Len(dirty), k < l
             PROVE  hold[dirty[k]] <= hold[dirty[l]]
  BY DEF InOrder
<1>1. dirty[k] \in Bufs /\ dirty[l] \in Bufs
  BY ListFacts DEF TypeInv, TypeOK
<1>2. hold[dirty[k]] \in Nat /\ hold[dirty[l]] \in Nat
  BY <1>1, ConstantFacts DEF TypeInv, TypeOK
<1>3. Aged(k, l) \in Nat
  BY ConstantFacts DEF Aged, TypeInv, PassOK, Passes
<1>4. hold[dirty[k]] + Aged(k, l) <= hold[dirty[l]]
  BY DEF OrderInv
<1>. QED BY <1>2, <1>3, <1>4

\* Outside a pass the invariant says no more than that.
LEMMA OrderAgain ==
  ASSUME TypeInv', InOrder(dirty)', pass' = NoPass
  PROVE  OrderInv'
<1>1. ASSUME NEW k \in 1..Len(dirty'), NEW l \in 1..Len(dirty'), k < l
      PROVE  hold'[dirty'[k]] + Aged(k, l)' <= hold'[dirty'[l]]
  <2>1. dirty'[k] \in Bufs
    BY ListFacts DEF TypeInv, TypeOK
  <2>2. hold'[dirty'[k]] \in Nat
    BY <2>1, ConstantFacts DEF TypeInv, TypeOK
  <2>3. pass'.pos = 0
    BY DEF NoPass
  <2>4. Aged(k, l)' = 0
    BY <2>3 DEF Aged
  <2>5. hold'[dirty'[k]] <= hold'[dirty'[l]]
    BY <1>1 DEF InOrder
  <2>. QED BY <2>2, <2>4, <2>5
<1>. QED BY <1>1 DEF OrderInv

LEMMA RemovedInOrder ==
  ASSUME TypeInv, InOrder(dirty), NEW p \in 1..Len(dirty)
  PROVE  InOrder(RemoveAt(dirty, p))
<1> DEFINE r == RemoveAt(dirty, p)
<1>1. /\ Len(r) = Len(dirty) - 1 /\ Len(dirty) \in Nat
      /\ \A k \in 1..(Len(dirty) - 1) : r[k] = IF k < p THEN dirty[k] ELSE dirty[k + 1]
  BY RemoveAtFacts, ListFacts DEF TypeInv, TypeOK
<1> HIDE DEF r
<1>2. ASSUME NEW k \in 1..Len(r), NEW l \in 1..Len(r), k < l PROVE hold[r[k]] <= hold[r[l]]
  <2> DEFINE k2 == IF k < p THEN k ELSE k + 1
             l2 == IF l < p THEN l ELSE l + 1
  <2>1. k2 \in 1..Len(dirty) /\ l2 \in 1..Len(dirty) /\ k2 < l2
    BY <1>1, <1>2
  <2>2. r[k] = dirty[k2] /\ r[l] = dirty[l2]
    BY <1>1
  <2> HIDE DEF k2, l2
  <2>. QED BY <2>1, <2>2 DEF InOrder
<1>3. InOrder(r)
  BY <1>2 DEF InOrder
<1>. QED BY <1>3 DEF r

\* A buffer that is released dirty goes to the end with the full hold time.
LEMMA FinishOrder ==
  ASSUME TypeInv, CacheInv, ~ub, TypeInv', req # NoReq, NEW i, NEW c, NEW d, NEW st,
         Taken(i, c, d, st), Finish(i, c, d, st), InOrder(d), pass' = NoPass
  PROVE  OrderInv'
<1>1. /\ i \in Bufs /\ d \in Seq(Bufs) /\ i \notin ToSet(d) /\ Len(d) \in Nat
      /\ \A k \in 1..Len(d) : d[k] \in Bufs \ {i}
  <2>1. i \in Bufs /\ d \in Seq(Bufs) /\ i \notin ToSet(d)
    BY Lists DEF Taken
  <2>. QED BY <2>1, ListFacts
<1>2. \A k \in Bufs \ {i} : hold'[k] = hold[k]
  BY FinishShape
<1>3. \/ dirty' = Append(d, i) /\ hold'[i] = HoldTime
      \/ dirty' = d
  BY FinishShape
<1>4. ASSUME dirty' = d PROVE InOrder(dirty)'
  BY <1>1, <1>2, <1>4 DEF InOrder
<1>5. ASSUME dirty' = Append(d, i), hold'[i] = HoldTime PROVE InOrder(dirty)'
  <2>1. /\ Len(dirty') = Len(d) + 1 /\ dirty'[Len(d) + 1] = i
        /\ \A k \in 1..Len(d) : dirty'[k] = d[k]
    BY <1>1, <1>5, AppendNode
  <2>2. \A k \in 1..Len(d) : /\ hold'[dirty'[k]] = hold[d[k]] /\ hold[d[k]] <= HoldTime
    <3>1. \A x \in Bufs : hold[x] <= HoldTime
      BY ConstantFacts DEF TypeInv, TypeOK
    <3>. QED BY <1>1, <1>2, <2>1, <3>1
  <2>3. ASSUME NEW k \in 1..Len(dirty'), NEW l \in 1..Len(dirty'), k < l
        PROVE  hold'[dirty'[k]] <= hold'[dirty'[l]]
    <3>1. k \in 1..Len(d) /\ (l \in 1..Len(d) \/ l = Len(d) + 1)
      BY <1>1, <2>1, <2>3
    <3>2. CASE l = Len(d) + 1
      BY <1>5, <2>1, <2>2, <3>1, <3>2
    <3>3. CASE l \in 1..Len(d)
      BY <2>2, <2>3, <3>1, <3>3 DEF InOrder
    <3>. QED BY <3>1, <3>2, <3>3
  <2>. QED BY <2>3 DEF InOrder
<1>6. InOrder(dirty)'
  BY <1>3, <1>4, <1>5
<1>. QED BY <1>6, OrderAgain

LEMMA RecycleOrder ==
  ASSUME TypeInv, CacheInv, OrderInv, ~ub, TypeInv', req # NoReq, cached # <<>>,
         \A k \in Listed : blkno[k] # ReqBlk, Recycle, pass' = NoPass
  PROVE  OrderInv'
<1>1. CASE ReadFails
  BY <1>1 DEF ReadFails, OrderInv
<1>2. CASE Finish(Head(cached), Tail(cached), dirty, "INVALD")
  BY <1>2, FirstTaken, AlwaysInOrder, FinishOrder
<1>. QED BY <1>1, <1>2 DEF Recycle


LEMMA PassSkipOrder ==
  ASSUME TypeInv, CacheInv, OrderInv, PassSkip
  PROVE  OrderInv'
<1>1. /\ InPass /\ ~ub /\ hold[Cur] > pass.expired /\ pass.pos \in 1..Len(dirty) /\ Cur \in Bufs
      /\ hold' = [hold EXCEPT ![Cur] = hold[Cur] - pass.expired]
      /\ dirty' = dirty /\ ~MutexFree /\ Cur = dirty[pass.pos]
  BY CurFacts DEF PassSkip, InPass, Cur
<1>2. pass' = [by |-> pass.by, pos |-> pass.pos + 1, expired |-> pass.expired, err |-> pass.err]
  BY DEF PassSkip, TypeInv, PassOK, Passes
<1>3. /\ pass'.pos = pass.pos + 1 /\ pass'.expired = pass.expired /\ pass'.by = pass.by
      /\ pass.pos \in Nat /\ pass.expired \in Nat
  BY <1>2, ConstantFacts DEF TypeInv, PassOK, Passes
<1>4. dirty \in Seq(Bufs) /\ IsInjective(dirty) /\ Len(dirty) \in Nat
  BY <1>1, Lists
<1>5. \A k \in 1..Len(dirty) :
        /\ dirty[k] \in Bufs /\ hold[dirty[k]] \in Nat
        /\ k = pass.pos => hold'[dirty[k]] = hold[dirty[k]] - pass.expired
        /\ k # pass.pos => hold'[dirty[k]] = hold[dirty[k]]
  <2>1. \A k \in 1..Len(dirty) : dirty[k] \in Bufs /\ (k # pass.pos => dirty[k] # Cur)
    BY <1>1, <1>4, ListFacts
  <2>2. \A x \in Bufs : hold[x] \in Nat
    BY ConstantFacts DEF TypeInv, TypeOK
  <2>. QED BY <1>1, <2>1, <2>2 DEF TypeInv, TypeOK
<1>6. ASSUME NEW k \in 1..Len(dirty), NEW l \in 1..Len(dirty), k < l
      PROVE  hold'[dirty[k]] + Aged(k, l)' <= hold'[dirty[l]]
  <2>1. hold[dirty[k]] + Aged(k, l) <= hold[dirty[l]]
    BY <1>1, <1>6 DEF OrderInv
  <2>2. Aged(k, l)' = IF k < pass.pos + 1 /\ pass.pos + 1 <= l THEN pass.expired ELSE 0
    BY <1>3 DEF Aged
  <2>3. Aged(k, l) = IF k < pass.pos /\ pass.pos <= l THEN pass.expired ELSE 0
    BY DEF Aged
  <2>4. CASE k = pass.pos
    BY <1>3, <1>5, <1>6, <2>1, <2>2, <2>3, <2>4, SMTT(60)
  <2>5. CASE l = pass.pos
    BY <1>3, <1>5, <1>6, <2>1, <2>2, <2>3, <2>5, SMTT(60)
  <2>6. CASE k # pass.pos /\ l # pass.pos
    BY <1>3, <1>5, <1>6, <2>1, <2>2, <2>3, <2>6
  <2>. QED BY <2>4, <2>5, <2>6
<1>7. ~MutexFree'
  BY <1>1, <1>3 DEF MutexFree
<1>. QED BY <1>1, <1>6, <1>7 DEF OrderInv

LEMMA PassWriteOrder ==
  ASSUME TypeInv, CacheInv, OrderInv, PassWrite
  PROVE  OrderInv'
<1>1. /\ InPass /\ ~ub /\ pass.pos \in 1..Len(dirty) /\ dirty' = RemoveAt(dirty, pass.pos)
      /\ hold' = hold /\ pass' = pass /\ ~MutexFree
  BY CurFacts DEF PassWrite, InPass
<1>2. /\ Len(dirty') = Len(dirty) - 1 /\ Len(dirty) \in Nat
      /\ \A k \in 1..(Len(dirty) - 1) :
           dirty'[k] = IF k < pass.pos THEN dirty[k] ELSE dirty[k + 1]
  <2>1. dirty \in Seq(Bufs) /\ Len(dirty) \in Nat
    BY ListFacts DEF TypeInv, TypeOK
  <2>. QED BY <1>1, <2>1, RemoveAtFacts
<1>3. ASSUME NEW k \in 1..Len(dirty'), NEW l \in 1..Len(dirty'), k < l
      PROVE  hold[dirty'[k]] + Aged(k, l) <= hold[dirty'[l]]
  <2> DEFINE k2 == IF k < pass.pos THEN k ELSE k + 1
             l2 == IF l < pass.pos THEN l ELSE l + 1
  <2>1. k2 \in 1..Len(dirty) /\ l2 \in 1..Len(dirty) /\ k2 < l2
    BY <1>1, <1>2, <1>3
  <2>2. dirty'[k] = dirty[k2] /\ dirty'[l] = dirty[l2]
    BY <1>2
  <2>3. Aged(k2, l2) = Aged(k, l)
    BY <1>1, <1>2, <1>3 DEF Aged
  <2> HIDE DEF k2, l2
  <2>4. hold[dirty[k2]] + Aged(k2, l2) <= hold[dirty[l2]]
    BY <1>1, <2>1 DEF OrderInv
  <2>. QED BY <2>2, <2>3, <2>4
<1>4. \A k, l : Aged(k, l)' = Aged(k, l)
  BY <1>1 DEF Aged
<1>5. ~MutexFree'
  BY <1>1 DEF MutexFree
<1>. QED BY <1>1, <1>3, <1>4, <1>5 DEF OrderInv

\* A pass starts with nothing aged.
LEMMA PassStarts ==
  ASSUME TypeInv, OrderInv, ~ub, UNCHANGED <<dirty, hold, ub>>, ~MutexFree', pass'.pos = 1
  PROVE  OrderInv'
<1>1. InOrder(dirty)
  BY AlwaysInOrder
<1>2. ASSUME NEW k \in 1..Len(dirty), NEW l \in 1..Len(dirty), k < l
      PROVE  hold[dirty[k]] + Aged(k, l)' <= hold[dirty[l]]
  <2>1. Aged(k, l)' = 0
    BY DEF Aged
  <2>2. hold[dirty[k]] \in Nat
    BY ListFacts, ConstantFacts DEF TypeInv, TypeOK
  <2>. QED BY <1>1, <1>2, <2>1, <2>2 DEF InOrder
<1>. QED BY <1>2 DEF OrderInv

\* Nothing that the order is about changes, or the pass is over.
LEMMA SameOrder ==
  ASSUME TypeInv, OrderInv, UNCHANGED <<dirty, hold, ub>>,
         TypeInv', pass' = pass \/ pass' = NoPass
  PROVE  OrderInv'
<1>1. CASE ub
  BY <1>1 DEF OrderInv
<1>2. CASE ~ub /\ pass' = pass
  BY <1>2 DEF OrderInv, Aged, MutexFree
<1>3. CASE ~ub /\ pass' = NoPass
  BY <1>3, AlwaysInOrder, OrderAgain DEF InOrder
<1>. QED BY <1>1, <1>2, <1>3

LEMMA OrderStep ==
  ASSUME TypeInv, CacheInv, OrderInv, TypeInv', [Next]_vars
  PROVE  OrderInv'
<1>1. CASE BlkdevInit \/ BlkdevDestroy
  <2>1. Len(dirty') = 0
    <3>1. CASE BlkdevInit
      BY <3>1, EmptySeq DEF BlkdevInit, CacheInv, Partition
    <3>2. CASE BlkdevDestroy
      BY <3>2, EmptySeq DEF BlkdevDestroy
    <3>. QED BY <1>1, <3>1, <3>2
  <2>2. ~ub /\ pass' = pass /\ MutexFree
    BY <1>1 DEF BlkdevInit, BlkdevDestroy
  <2>3. pass' = NoPass
    BY <2>2 DEF OrderInv
  <2>. QED BY <2>1, <2>3, OrderAgain DEF InOrder
<1>2. CASE Call \/ TimerFire \/ CheckCbRearm \/ SyncReturn \/ CheckCbReturn \/ UNCHANGED vars
  <2>1. UNCHANGED <<dirty, hold, ub>> /\ (pass' = pass \/ pass' = NoPass)
    BY <1>2 DEF Call, TimerFire, CheckCbRearm, SyncReturn, CheckCbReturn, vars, bhs
  <2>. QED BY <2>1, SameOrder
<1>3. CASE Hit
  <2>1. req # NoReq /\ ~ub /\ pass' = NoPass
    BY <1>3 DEF Hit, OrderInv
  <2>2. InOrder(dirty)
    BY <2>1, AlwaysInOrder
  <2>3. ASSUME NEW p \in FoundAt(cached, ReqBlk),
               Finish(cached[p], RemoveAt(cached, p), dirty, state[cached[p]])
        PROVE  OrderInv'
    BY <2>1, <2>2, <2>3, CachedTaken, FinishOrder
  <2>4. ASSUME NEW p \in FoundAt(dirty, ReqBlk),
               Finish(dirty[p], cached, RemoveAt(dirty, p), state[dirty[p]])
        PROVE  OrderInv'
    <3>1. p \in 1..Len(dirty)
      BY DEF FoundAt
    <3>2. InOrder(RemoveAt(dirty, p))
      BY <2>2, <3>1, RemovedInOrder
    <3>. QED BY <2>1, <2>4, <3>2, DirtyTaken, FinishOrder
  <2>. QED BY <1>3, <2>3, <2>4, Zenon DEF Hit
<1>4. CASE Miss
  <2>1. req # NoReq /\ ~ub /\ pass' = NoPass /\ NotFound /\ cached # <<>> /\ Recycle
    BY <1>4 DEF Miss, OrderInv
  <2>2. \A k \in Listed : blkno[k] # ReqBlk
    BY <2>1, SearchFacts, ReqFacts DEF NotFound, Listed
  <2>. QED BY <2>1, <2>2, RecycleOrder
<1>5. CASE MissFlush \/ Sync \/ CheckCb
  <2>1. CASE ub'
    BY <2>1 DEF OrderInv
  <2>2. CASE ~ub'
    <3>1. UNCHANGED <<dirty, hold, ub>> /\ ~ub /\ ~MutexFree' /\ pass'.pos = 1
      BY <1>5, <2>2 DEF MissFlush, Sync, CheckCb, MutexFree, bhs
    <3>. QED BY <3>1, PassStarts
  <2>. QED BY <2>1, <2>2
<1>6. CASE PassSkip
  BY <1>6, PassSkipOrder
<1>7. CASE PassWrite
  BY <1>7, PassWriteOrder
<1>8. CASE PassFail
  <2>1. UNCHANGED <<dirty, hold, ub>> /\ ~ub /\ pass' = [pass EXCEPT !.err = TRUE] /\ ~MutexFree
    BY <1>8 DEF PassFail, InPass, bhs
  <2>2. pass'.pos = pass.pos /\ pass'.expired = pass.expired /\ pass'.by = pass.by
    BY <2>1 DEF TypeInv, PassOK, Passes
  <2>. QED BY <2>1, <2>2 DEF OrderInv, Aged, MutexFree
<1>9. CASE GetReturn
  <2>1. ~ub /\ pass.by = "get" /\ pass' = NoPass /\ ((cached # <<>> /\ Recycle) \/ ub')
    BY <1>9 DEF GetReturn, PassDone
  <2>2. req # NoReq /\ \A k \in Listed : blkno[k] # ReqBlk
    BY <2>1 DEF CacheInv, Wanted
  <2>3. CASE ub'
    BY <2>3 DEF OrderInv
  <2>4. CASE cached # <<>> /\ Recycle
    BY <2>1, <2>2, <2>4, RecycleOrder
  <2>. QED BY <2>1, <2>3, <2>4
<1>. QED
  BY <1>1, <1>2, <1>3, <1>4, <1>5, <1>6, <1>7, <1>8, <1>9, Zenon DEF Next, Transfer, Pass


-----------------------------------------------------------------------------
(* What a sync without an error means. *)

LEMMA FinishSync ==
  ASSUME TypeInv, CacheInv, SyncInv, ~ub, req # NoReq, NEW i, NEW c, NEW d, NEW st,
         Taken(i, c, d, st), Finish(i, c, d, st), pass'.by = "none"
  PROVE  SyncInv'
<1>1. \/ synced' = "no"
      \/ synced' = synced /\ (st # "DIRTY" => dirty' = d)
  BY FinishShape
<1>2. ASSUME synced = "ok" PROVE st # "DIRTY" /\ d = <<>>
  <2>1. dirty = <<>> /\ ToSet(dirty) = {}
    BY <1>2, Lists, ListFacts DEF SyncInv
  <2>2. ToSet(d) = {} /\ d \in Seq(Bufs)
    BY <2>1 DEF Taken
  <2>3. i \in ToSet(cached)
    BY <2>1 DEF Taken, Listed
  <2>4. st # "DIRTY"
    BY <2>3 DEF Taken, CacheInv, States
  <2>. QED BY <2>2, <2>4, ListFacts
<1>. QED BY <1>1, <1>2 DEF SyncInv

LEMMA RecycleSync ==
  ASSUME TypeInv, CacheInv, SyncInv, ~ub, req # NoReq, cached # <<>>,
         \A k \in Listed : blkno[k] # ReqBlk, Recycle, pass'.by = "none"
  PROVE  SyncInv'
<1>1. CASE ReadFails
  BY <1>1 DEF ReadFails, SyncInv
<1>2. CASE Finish(Head(cached), Tail(cached), dirty, "INVALD")
  BY <1>2, FirstTaken, FinishSync
<1>. QED BY <1>1, <1>2 DEF Recycle

LEMMA SyncStep ==
  ASSUME TypeInv, CacheInv, SyncInv, [Next]_vars
  PROVE  SyncInv'
<1>1. CASE BlkdevInit \/ BlkdevDestroy
  BY <1>1 DEF BlkdevInit, BlkdevDestroy, SyncInv, MutexFree
<1>2. CASE Call \/ TimerFire \/ CheckCbRearm \/ UNCHANGED vars
  BY <1>2 DEF Call, TimerFire, CheckCbRearm, vars, bhs, SyncInv
<1>3. CASE Hit
  <2>1. req # NoReq /\ ~ub /\ pass'.by = "none"
    BY <1>3 DEF Hit, MutexFree
  <2>2. ASSUME NEW p \in FoundAt(cached, ReqBlk),
               Finish(cached[p], RemoveAt(cached, p), dirty, state[cached[p]])
        PROVE  SyncInv'
    BY <2>1, <2>2, CachedTaken, FinishSync
  <2>3. ASSUME NEW p \in FoundAt(dirty, ReqBlk),
               Finish(dirty[p], cached, RemoveAt(dirty, p), state[dirty[p]])
        PROVE  SyncInv'
    BY <2>1, <2>3, DirtyTaken, FinishSync
  <2>. QED BY <1>3, <2>2, <2>3, Zenon DEF Hit
<1>4. CASE Miss
  <2>1. req # NoReq /\ ~ub /\ pass'.by = "none" /\ NotFound /\ cached # <<>> /\ Recycle
    BY <1>4 DEF Miss, MutexFree
  <2>2. \A k \in Listed : blkno[k] # ReqBlk
    BY <2>1, SearchFacts, ReqFacts DEF NotFound, Listed
  <2>. QED BY <2>1, <2>2, RecycleSync
<1>5. CASE MissFlush \/ Sync \/ CheckCb
  <2>1. CASE ub'
    BY <2>1 DEF SyncInv
  <2>2. CASE ~ub'
    <3>1. /\ UNCHANGED <<dirty, synced, ub>>
          /\ pass'.by = "cb" \/ (pass'.expired = HoldTime /\ pass'.pos = 1)
      BY <1>5, <2>2 DEF MissFlush, Sync, CheckCb
    <3>. QED BY <3>1 DEF SyncInv
  <2>. QED BY <2>1, <2>2
<1>6. CASE PassSkip
  <2>1. /\ InPass /\ ~ub /\ hold[Cur] > pass.expired /\ UNCHANGED <<dirty, synced, ub>>
        /\ pass' = [pass EXCEPT !.pos = @ + 1]
    BY <1>6 DEF PassSkip, InPass
  <2>2. Cur \in Bufs
    BY <2>1, CurFacts
  <2>3. hold[Cur] <= HoldTime
    BY <2>2, ConstantFacts DEF TypeInv, TypeOK
  <2>4. pass'.by = pass.by
    BY <2>1 DEF TypeInv, PassOK, Passes
  <2>5. pass.expired # HoldTime
    BY <2>1, <2>2, <2>3, ConstantFacts DEF TypeInv, TypeOK
  <2>. QED BY <2>1, <2>4, <2>5 DEF SyncInv
<1>7. CASE PassWrite
  <2>1. /\ InPass /\ ~ub /\ UNCHANGED <<pass, synced, ub>>
    BY <1>7 DEF PassWrite, InPass
  <2>2. dirty # <<>>
    BY <2>1, CurFacts, Lists, ListFacts
  <2>. QED BY <2>1, <2>2 DEF SyncInv
<1>8. CASE PassFail
  <2>1. UNCHANGED <<dirty, synced, ub>> /\ pass' = [pass EXCEPT !.err = TRUE]
    BY <1>8 DEF PassFail
  <2>2. pass'.pos = pass.pos /\ pass'.expired = pass.expired /\ pass'.by = pass.by
    BY <2>1 DEF TypeInv, PassOK, Passes
  <2>. QED BY <2>1, <2>2 DEF SyncInv
<1>9. CASE SyncReturn
  <2>1. /\ pass.by = "sync" /\ ~ub /\ pass' = NoPass /\ UNCHANGED <<dirty, ub>>
        /\ synced' = "ok" => pass.pos > Len(dirty)
    BY <1>9 DEF SyncReturn, PassDone
  <2>2. pass.pos = 1 /\ Len(dirty) \in Nat
    BY <2>1, Lists DEF SyncInv
  <2>3. synced' = "ok" => dirty = <<>>
    BY <2>1, <2>2, Lists, ListFacts
  <2>. QED BY <2>1, <2>3 DEF SyncInv, NoPass
<1>10. CASE CheckCbReturn
  BY <1>10 DEF CheckCbReturn, SyncInv, NoPass
<1>11. CASE GetReturn
  <2>1. ~ub /\ pass.by = "get" /\ pass' = NoPass /\ ((cached # <<>> /\ Recycle) \/ ub')
    BY <1>11 DEF GetReturn, PassDone
  <2>2. pass'.by = "none" /\ req # NoReq /\ \A k \in Listed : blkno[k] # ReqBlk
    BY <2>1 DEF CacheInv, Wanted, NoPass
  <2>3. CASE ub'
    BY <2>3 DEF SyncInv
  <2>4. CASE cached # <<>> /\ Recycle
    BY <2>1, <2>2, <2>4, RecycleSync
  <2>. QED BY <2>1, <2>3, <2>4
<1>. QED
  BY <1>1, <1>2, <1>3, <1>4, <1>5, <1>6, <1>7, <1>8, <1>9, <1>10, <1>11,
     Zenon DEF Next, Transfer, Pass

-----------------------------------------------------------------------------
(* The whole invariant. *)

Inv == TypeInv /\ CacheInv /\ OrderInv /\ SyncInv

LEMMA InvInit == Init => Inv
<1>1. Init => OrderInv
  BY EmptySeq DEF Init, OrderInv
<1>2. Init => SyncInv
  BY DEF Init, SyncInv, NoPass
<1>. QED BY <1>1, <1>2, TypeInit, CacheInit DEF Inv

LEMMA InvStep == Inv /\ [Next]_vars => Inv'
<1> SUFFICES ASSUME Inv, [Next]_vars PROVE Inv'
  OBVIOUS
<1>1. TypeInv'
  BY TypeStep DEF Inv
<1>. QED BY <1>1, CacheStep, OrderStep, SyncStep DEF Inv

LEMMA InvAlways == Spec => []Inv
BY InvInit, InvStep, PTL DEF Spec

\* blkdev_sync_locked and bh_enqueue_dirty keep the dirty list in the order of
\* the last use, whichever block a pass stopped at.
THEOREM WriteBackOrder == Spec => []OldestFirst
<1>1. Inv => OldestFirst
  <2> SUFFICES ASSUME TypeInv, OrderInv, ~ub PROVE OldestFirst
    BY DEF Inv, OldestFirst
  <2>. QED BY AlwaysInOrder DEF InOrder, OldestFirst
<1>. QED BY <1>1, InvAlways, PTL

-----------------------------------------------------------------------------
(* What a read returns. *)

\* The content of a block is in its buffer if it has one, else on the flash.
ContentFacts ==
  ~ub => \A b \in Blocks :
           /\ \A i \in Listed : blkno[i] = b => Content(b) = buffer[i]
           /\ (\A i \in Listed : blkno[i] # b) => Content(b) = flash[b]

LEMMA ContentIs == TypeInv /\ CacheInv => ContentFacts
<1> SUFFICES ASSUME TypeInv, CacheInv, ~ub, NEW b \in Blocks
             PROVE  /\ \A i \in Listed : blkno[i] = b => Content(b) = buffer[i]
                    /\ (\A i \in Listed : blkno[i] # b) => Content(b) = flash[b]
  BY DEF ContentFacts
<1>1. \A i \in Listed : blkno[i] = b => state[i] # "INVALD"
  BY ConstantFacts DEF CacheInv, States
<1>2. \A i, j \in Listed : blkno[i] = b /\ blkno[j] = b => i = j
  BY ConstantFacts DEF CacheInv, Unique
<1>3. ASSUME NEW i \in Listed, blkno[i] = b PROVE Content(b) = buffer[i]
  <2> DEFINE P(j) == blkno[j] = b /\ state[j] # "INVALD"
  <2>1. Content(b) = buffer[CHOOSE j \in Listed : P(j)]
    BY <1>1, <1>3 DEF Content, Listed
  <2>2. (CHOOSE j \in Listed : P(j)) \in Listed /\ P(CHOOSE j \in Listed : P(j))
    BY <1>1, <1>3
  <2>3. (CHOOSE j \in Listed : P(j)) = i
    BY <1>2, <1>3, <2>2
  <2>. QED BY <2>1, <2>3
<1>4. ASSUME \A i \in Listed : blkno[i] # b PROVE Content(b) = flash[b]
  BY <1>4 DEF Content, Listed
<1>. QED BY <1>3, <1>4

LEMMA ContentType ==
  ASSUME TypeInv, CacheInv, ~ub, NEW b \in Blocks
  PROVE  Content(b) \in Data
<1>1. CASE \E i \in Listed : blkno[i] = b
  BY <1>1, ContentIs, Lists DEF ContentFacts, TypeInv, TypeOK
<1>2. CASE \A i \in Listed : blkno[i] # b
  BY <1>2, ContentIs, ZenonT(60) DEF ContentFacts, TypeInv, TypeOK
<1>. QED BY <1>1, <1>2

\* A sync that met no error has written every block: the dirty list is empty
\* and the clean buffers agree with the flash.
THEOREM CleanSync == Spec => []CleanSyncDurable
<1>1. Inv => CleanSyncDurable
  <2> SUFFICES ASSUME Inv, synced = "ok", ~ub, NEW b \in Blocks PROVE Content(b) = flash[b]
    BY DEF CleanSyncDurable
  <2>1. TypeInv /\ CacheInv /\ dirty = <<>>
    BY DEF Inv, SyncInv
  <2>2. Listed = ToSet(cached)
    BY <2>1, Lists, ListFacts DEF Listed
  <2>3. CASE \A i \in Listed : blkno[i] # b
    BY <2>1, <2>3, ContentIs DEF ContentFacts
  <2>4. ASSUME NEW i \in Listed, blkno[i] = b PROVE Content(b) = flash[b]
    <3>1. i \in ToSet(cached) /\ i \in Bufs /\ state[i] # "INVALD" /\ state[i] # "DIRTY"
      BY <2>1, <2>2, <2>4, Lists, ConstantFacts DEF CacheInv, States
    <3>2. state[i] = "CACHED"
      BY <2>1, <3>1 DEF TypeInv, TypeOK
    <3>3. buffer[i] = flash[b]
      BY <2>1, <2>4, <3>1, <3>2 DEF CacheInv, Clean
    <3>. QED BY <2>1, <2>4, <3>3, ContentIs DEF ContentFacts
  <2>. QED BY <2>3, <2>4
<1>. QED BY <1>1, InvAlways, PTL


-----------------------------------------------------------------------------
(* The cache implements the block store. *)

Contents == [b \in Blocks |-> Content(b)]

LEMMA SameContents ==
  ASSUME UNCHANGED <<cached, dirty, blkno, state, buffer, flash>>
  PROVE  Contents' = Contents
BY DEF Contents, Content

\* What a transfer does to the contents.
LEMMA FinishContent ==
  ASSUME TypeInv, CacheInv, TypeInv', CacheInv', ~ub, ~ub', req # NoReq,
         NEW i, NEW c, NEW d, NEW st, Taken(i, c, d, st), Finish(i, c, d, st),
         flash' = flash, Listed' = Listed
  PROVE  /\ req.kind = "read" => Contents' = Contents
         /\ req.kind = "write" =>
              Contents' = [Contents EXCEPT ![ReqBlk] =
                [x \in DOMAIN Contents[ReqBlk] |->
                   IF x \in ReqOfs..(ReqOfs + ReqBytes - 1) THEN req.val ELSE Contents[ReqBlk][x]]]
<1>1. ContentFacts /\ ContentFacts'
  BY ContentIs, PTL
<1>2. /\ i \in Bufs /\ i \in Listed /\ blkno'[i] = ReqBlk /\ ReqBlk \in Blocks
      /\ \A k \in Listed \ {i} : blkno'[k] = blkno[k] /\ buffer'[k] = buffer[k] /\ blkno[k] # ReqBlk
  <2>1. i \in Listed /\ Listed \subseteq Bufs /\ \A k \in Listed \ {i} : blkno[k] # ReqBlk
    BY Lists DEF Taken
  <2>2. ReqBlk \in Blocks
    BY ReqFacts
  <2>3. /\ blkno' = [blkno EXCEPT ![i] = ReqBlk]
        /\ \A k \in Bufs \ {i} : buffer'[k] = buffer[k]
    BY FinishShape
  <2>. QED BY <2>1, <2>2, <2>3 DEF TypeInv, TypeOK
<1>3. ASSUME NEW b \in Blocks, b # ReqBlk PROVE Content(b)' = Content(b)
  <2>1. ASSUME NEW k \in Listed \ {i}, blkno[k] = b PROVE Content(b)' = Content(b)
    <3>1. Content(b) = buffer[k]
      BY <1>1, <2>1 DEF ContentFacts
    <3>2. Content(b)' = buffer'[k]
      BY <1>1, <1>2, <2>1 DEF ContentFacts
    <3>. QED BY <1>2, <3>1, <3>2
  <2>2. ASSUME \A k \in Listed \ {i} : blkno[k] # b PROVE Content(b)' = Content(b)
    <3>1. Content(b)' = flash[b]
      BY <1>1, <1>2, <1>3, <2>2 DEF ContentFacts
    <3>2. CASE blkno[i] # b
      BY <1>1, <2>2, <3>1, <3>2 DEF ContentFacts
    <3>3. CASE blkno[i] = b
      <4>1. i \in ToSet(cached)
        BY <1>3, <3>3 DEF Taken
      <4>2. state[i] # "INVALD" /\ state[i] # "DIRTY"
        BY <1>2, <3>3, <4>1, ConstantFacts DEF CacheInv, States
      <4>3. state[i] = "CACHED"
        BY <1>2, <4>2 DEF TypeInv, TypeOK
      <4>4. buffer[i] = flash[b]
        BY <3>3, <4>1, <4>3 DEF CacheInv, Clean
      <4>5. Content(b) = buffer[i]
        BY <1>1, <1>2, <3>3 DEF ContentFacts
      <4>. QED BY <3>1, <4>4, <4>5
    <3>. QED BY <3>2, <3>3
  <2>. QED BY <2>1, <2>2
<1>4. Contents'[ReqBlk] = buffer'[i]
  <2>1. \A b \in Blocks : blkno'[i] = b => Content(b)' = buffer'[i]
    BY <1>1, <1>2 DEF ContentFacts
  <2>2. \A b \in Blocks : blkno'[i] = b => Contents'[b] = buffer'[i]
    BY <2>1 DEF Contents
  <2>. QED BY <1>2, <2>2
<1>5. Contents[ReqBlk] = Content(ReqBlk) /\ Contents[ReqBlk] \in Data
  BY <1>2, ContentType DEF Contents
<1>6. Content(ReqBlk) = IF st = "INVALD" THEN flash[ReqBlk] ELSE buffer[i]
  <2>1. CASE st = state[i] /\ blkno[i] = ReqBlk
    <3>1. st # "INVALD"
      BY <1>2, <2>1, ReqFacts DEF CacheInv, States
    <3>. QED BY <1>1, <1>2, <2>1, <3>1 DEF ContentFacts
  <2>2. CASE st = "INVALD" /\ blkno[i] # ReqBlk
    BY <1>1, <1>2, <2>2 DEF ContentFacts
  <2>. QED BY <2>1, <2>2 DEF Taken
<1>7. /\ Contents \in [Blocks -> Data] /\ DOMAIN Contents' = Blocks
      /\ \A b \in Blocks \ {ReqBlk} : Contents'[b] = Contents[b]
      /\ Contents' = [b \in Blocks |-> Contents'[b]]
  BY <1>3, ContentType DEF Contents
<1>8. ASSUME req.kind = "read" PROVE Contents' = Contents
  <2>1. Contents'[ReqBlk] = Contents[ReqBlk]
    BY <1>4, <1>5, <1>6, <1>8, FinishShape
  <2>. QED BY <1>7, <2>1
<1>9. ASSUME req.kind = "write"
      PROVE  Contents' = [Contents EXCEPT ![ReqBlk] =
                [x \in DOMAIN Contents[ReqBlk] |->
                   IF x \in ReqOfs..(ReqOfs + ReqBytes - 1) THEN req.val ELSE Contents[ReqBlk][x]]]
  <2>1. buffer'[i] = Patch(Loaded(i, st))
    BY <1>9, FinishShape
  <2>2. DOMAIN Contents[ReqBlk] = Cells
    BY <1>5 DEF Data
  <2>3. Patch(Loaded(i, st)) = Patch(Contents[ReqBlk])
    <3>1. CASE WholeBlock
      BY <3>1, ReqFacts DEF Patch
    <3>2. CASE ~WholeBlock
      BY <1>5, <1>6, <3>2 DEF Loaded
    <3>. QED BY <3>1, <3>2
  <2>4. Contents'[ReqBlk] =
          [x \in DOMAIN Contents[ReqBlk] |->
             IF x \in ReqOfs..(ReqOfs + ReqBytes - 1) THEN req.val ELSE Contents[ReqBlk][x]]
    BY <1>4, <2>1, <2>2, <2>3 DEF Patch
  <2> DEFINE f == [x \in DOMAIN Contents[ReqBlk] |->
                     IF x \in ReqOfs..(ReqOfs + ReqBytes - 1) THEN req.val ELSE Contents[ReqBlk][x]]
  <2>5. Contents'[ReqBlk] = f
    BY <2>4
  <2> HIDE DEF f
  <2>6. Contents' = [Contents EXCEPT ![ReqBlk] = f]
    BY <1>7, <2>5
  <2>. QED BY <2>6 DEF f
<1>. QED BY <1>8, <1>9

\* A transfer is a step of the block store that writes or reads a piece.
LEMMA FinishStore ==
  ASSUME TypeInv, CacheInv, TypeInv', CacheInv', ~ub, ~ub', req # NoReq,
         NEW i, NEW c, NEW d, NEW st, Taken(i, c, d, st), Finish(i, c, d, st),
         flash' = flash, Listed' = Listed
  PROVE  Store!Next
<1>1. CASE req.kind = "read"
  <2>1. Contents' = Contents
    BY <1>1, FinishContent
  <2>2. Store!Move
    BY <2>1 DEF Store!Move, Contents
  <2>. QED BY <2>2 DEF Store!Next
<1>2. CASE req.kind = "write"
  <2>1. Contents' = [Contents EXCEPT ![ReqBlk] =
                [x \in DOMAIN Contents[ReqBlk] |->
                   IF x \in ReqOfs..(ReqOfs + ReqBytes - 1) THEN req.val ELSE Contents[ReqBlk][x]]]
    BY <1>2, FinishContent
  <2>2. /\ Piece.kind = "write" /\ Piece.blk = ReqBlk /\ Piece.val = req.val
        /\ Piece.cells = ReqOfs..(ReqOfs + ReqBytes - 1)
    BY <1>2 DEF Piece
  <2>3. Piece # NoReq
    BY <2>2 DEF NoReq
  <2>4. Store!Write
    BY <2>1, <2>2, <2>3 DEF Store!Write, Contents
  <2>. QED BY <2>4 DEF Store!Next
<1>. QED BY <1>1, <1>2, ReqFacts

LEMMA RecycleStore ==
  ASSUME TypeInv, CacheInv, TypeInv', CacheInv', ~ub, req # NoReq, cached # <<>>,
         \A k \in Listed : blkno[k] # ReqBlk, Recycle,
         UNCHANGED <<initialized, flash>>, pass'.by # "get"
  PROVE  Store!Next
<1>1. CASE ReadFails
  <2>1. UNCHANGED <<cached, dirty, blkno, state, buffer, flash>>
    BY <1>1 DEF ReadFails, bhs
  <2>2. Store!Move
    BY <2>1, SameContents DEF Store!Move, Contents
  <2>. QED BY <2>2 DEF Store!Next
<1>2. CASE Finish(Head(cached), Tail(cached), dirty, "INVALD") /\ UNCHANGED ub
  BY <1>2, FirstTaken, FinishCache, FinishStore
<1>. QED BY <1>1, <1>2 DEF Recycle

\* While a pass is at a dirty buffer, the content of its block is in it, and
\* what the flash does there changes no content.
LEMMA PassContents ==
  ASSUME TypeInv, CacheInv, TypeInv', CacheInv', ~ub', InPass, UNCHANGED <<blkno, buffer>>,
         Listed' = Listed, NEW v, flash' = flash \/ flash' = [flash EXCEPT ![blkno[Cur]] = v]
  PROVE  Contents' = Contents /\ Content(blkno[Cur]) = buffer[Cur]
<1>1. ContentFacts /\ ContentFacts' /\ ~ub
  BY ContentIs, PTL DEF InPass
<1>2. Cur \in Listed /\ blkno[Cur] \in Blocks
  BY CurFacts
<1>3. ASSUME NEW b \in Blocks PROVE Content(b)' = Content(b)
  <2>1. ASSUME NEW k \in Listed, blkno[k] = b PROVE Content(b)' = Content(b)
    <3>1. Content(b) = buffer[k]
      BY <1>1, <2>1 DEF ContentFacts
    <3>2. Content(b)' = buffer'[k]
      BY <1>1, <2>1 DEF ContentFacts
    <3>. QED BY <3>1, <3>2
  <2>2. ASSUME \A k \in Listed : blkno[k] # b PROVE Content(b)' = Content(b)
    <3>1. Content(b) = flash[b]
      BY <1>1, <2>2 DEF ContentFacts
    <3>2. Content(b)' = flash'[b]
      BY <1>1, <2>2 DEF ContentFacts
    <3>3. flash'[b] = flash[b]
      BY <1>2, <2>2 DEF TypeInv, TypeOK
    <3>. QED BY <3>1, <3>2, <3>3
  <2>. QED BY <2>1, <2>2
<1>. QED BY <1>1, <1>2, <1>3 DEF Contents, ContentFacts
LEMMA StoreInit == Init => Store!Init
<1> SUFFICES ASSUME Init PROVE Store!Init
  OBVIOUS
<1>1. \A i \in Listed : state[i] = "INVALD"
  BY TypeInit, CacheInit, Lists DEF Init
<1>2. \A b : Content(b) = flash[b]
  BY <1>1 DEF Content, Listed
<1>3. flash \in [Blocks -> Data] /\ req = NoReq
  BY TypeInit DEF Init, TypeInv, TypeOK
<1>4. [b \in Blocks |-> Content(b)] = flash
  BY <1>2, <1>3
<1>. QED BY <1>3, <1>4 DEF Store!Init, Piece

LEMMA StoreStep ==
  ASSUME TypeInv, CacheInv, TypeInv', CacheInv', [Next]_vars
  PROVE  [Store!Next]_(Store!vars)
<1>m. ASSUME UNCHANGED <<cached, dirty, blkno, state, buffer, flash>> PROVE Store!Next
  <2>1. Store!Move
    BY <1>m, SameContents DEF Store!Move, Contents
  <2>. QED BY <2>1 DEF Store!Next
<1>1. CASE BlkdevInit
  <2>1. Listed = {} /\ Listed' = Bufs
    BY <1>1, InitCache
  <2>2. \A b : Content(b) = flash[b]
    BY <2>1 DEF Content, Listed
  <2>3. \A i \in Listed' : state'[i] = "INVALD"
    BY <1>1, <2>1 DEF BlkdevInit
  <2>4. \A b : Content(b)' = flash'[b]
    BY <2>3 DEF Content, Listed
  <2>5. flash' = flash
    BY <1>1 DEF BlkdevInit
  <2>6. Store!Move
    BY <2>2, <2>4, <2>5 DEF Store!Move
  <2>. QED BY <2>6 DEF Store!Next
<1>2. CASE BlkdevDestroy
  <2>1. Listed' = {}
    BY <1>2, DestroyCache
  <2>2. \A b : Content(b)' = flash'[b]
    BY <2>1 DEF Content, Listed
  <2>3. flash' = flash /\ req' = req /\ flash \in [Blocks -> Data]
    BY <1>2 DEF BlkdevDestroy, TypeInv, TypeOK
  <2>4. [b \in Blocks |-> Content(b)]' = flash
    BY <2>2, <2>3
  <2>5. Piece' = Piece
    BY <2>3 DEF Piece, ReqBlk, ReqOfs, ReqBytes
  <2>6. Store!Discard
    BY <2>3, <2>4, <2>5 DEF Store!Discard
  <2>. QED BY <2>6 DEF Store!Next
<1>3. CASE Hit
  <2>1. /\ req # NoReq /\ ~ub /\ ~ub' /\ UNCHANGED <<initialized, flash>> /\ flash' = flash
        /\ pass'.by # "get"
    BY <1>3 DEF Hit, MutexFree
  <2>2. ASSUME NEW p \in FoundAt(cached, ReqBlk),
               Finish(cached[p], RemoveAt(cached, p), dirty, state[cached[p]])
        PROVE  Store!Next
    BY <2>1, <2>2, CachedTaken, FinishCache, FinishStore
  <2>3. ASSUME NEW p \in FoundAt(dirty, ReqBlk),
               Finish(dirty[p], cached, RemoveAt(dirty, p), state[dirty[p]])
        PROVE  Store!Next
    BY <2>1, <2>3, DirtyTaken, FinishCache, FinishStore
  <2>. QED BY <1>3, <2>2, <2>3, Zenon DEF Hit
<1>4. CASE Miss
  <2>1. /\ req # NoReq /\ ~ub /\ UNCHANGED <<initialized, flash>> /\ pass'.by # "get"
        /\ NotFound /\ cached # <<>> /\ Recycle
    BY <1>4 DEF Miss, MutexFree
  <2>2. \A k \in Listed : blkno[k] # ReqBlk
    BY <2>1, SearchFacts, ReqFacts DEF NotFound, Listed
  <2>. QED BY <2>1, <2>2, RecycleStore
<1>5. CASE Call \/ MissFlush \/ PassSkip \/ SyncReturn \/ CheckCbReturn \/ Sync \/ TimerFire
           \/ CheckCb \/ CheckCbRearm \/ UNCHANGED vars
  <2>1. UNCHANGED <<cached, dirty, blkno, state, buffer, flash>>
    BY <1>5 DEF Call, MissFlush, PassSkip, SyncReturn, CheckCbReturn, Sync, TimerFire, CheckCb,
                CheckCbRearm, vars, bhs
  <2>. QED BY <1>m, <2>1
<1>6. CASE PassWrite
  <2>1. /\ InPass /\ flash' = [flash EXCEPT ![blkno[Cur]] = buffer[Cur]]
        /\ UNCHANGED <<blkno, buffer, req, ub>>
    BY <1>6 DEF PassWrite
  <2>2. Listed' = Listed /\ ~ub' /\ blkno[Cur] \in Blocks
    BY <1>6, <2>1, PassWriteCache, CurFacts
  <2>3. Contents' = Contents /\ Content(blkno[Cur]) = buffer[Cur]
    BY <2>1, <2>2, PassContents
  <2>4. Piece' = Piece
    BY <2>1 DEF Piece, ReqBlk, ReqOfs, ReqBytes
  <2>5. Contents[blkno[Cur]] = buffer[Cur]
    BY <2>2, <2>3 DEF Contents
  <2>6. \E b \in Blocks : Store!Save(b)
    BY <2>1, <2>2, <2>3, <2>4, <2>5 DEF Store!Save, Contents
  <2>. QED BY <2>6 DEF Store!Next
<1>7. CASE PassFail
  <2>1. /\ InPass /\ UNCHANGED <<cached, dirty, blkno, state, buffer, req, ub>>
        /\ flash' = flash \/ flash' = [flash EXCEPT ![blkno[Cur]] = Blank]
    BY <1>7 DEF PassFail, bhs
  <2>2. Listed' = Listed /\ ~ub' /\ blkno[Cur] \in Blocks
    BY <2>1, CurFacts DEF Listed
  <2>3. Contents' = Contents
    BY <2>1, <2>2, PassContents
  <2>4. Piece' = Piece
    BY <2>1 DEF Piece, ReqBlk, ReqOfs, ReqBytes
  <2>5. CASE flash' = flash
    BY <1>m, <2>1, <2>5
  <2>6. CASE flash' = [flash EXCEPT ![blkno[Cur]] = Blank]
    <3>1. \E b \in Blocks : Store!Erased(b)
      BY <2>2, <2>3, <2>4, <2>6 DEF Store!Erased, Contents
    <3>. QED BY <3>1 DEF Store!Next
  <2>. QED BY <2>1, <2>5, <2>6
<1>8. CASE GetReturn
  <2>1. /\ ~ub /\ pass.by = "get" /\ pass' = NoPass /\ UNCHANGED <<initialized, flash>>
        /\ \/ cached # <<>> /\ Recycle
           \/ UNCHANGED <<cached, dirty, blkno, state, buffer>>
    BY <1>8 DEF GetReturn, PassDone, bhs
  <2>2. pass'.by # "get" /\ req # NoReq /\ \A k \in Listed : blkno[k] # ReqBlk
    BY <2>1 DEF NoPass, CacheInv, Wanted
  <2>3. CASE cached # <<>> /\ Recycle
    BY <2>1, <2>2, <2>3, RecycleStore
  <2>4. CASE UNCHANGED <<cached, dirty, blkno, state, buffer>>
    BY <1>m, <2>1, <2>4
  <2>. QED BY <2>1, <2>3, <2>4
<1>. QED
  BY <1>1, <1>2, <1>3, <1>4, <1>5, <1>6, <1>7, <1>8, Zenon DEF Next, Transfer, Pass

\* The cache implements the block store: whatever is recycled, aged, written
\* back, erased or fails, what blkdev_read returns for a block changes only
\* when blkdev_write reaches it, and then only in the cells it names, until
\* blkdev_destroy; and what the flash loses in between a buffer still holds.
THEOREM CacheImplementsStore == Spec => Transparent
<1>1. Inv /\ Inv' /\ [Next]_vars => [Store!Next]_(Store!vars)
  BY StoreStep DEF Inv
<1>. QED BY <1>1, StoreInit, InvAlways, PTL DEF Spec, Transparent, Store!Spec


=============================================================================
